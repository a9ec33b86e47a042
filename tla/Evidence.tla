------------------------------ MODULE Evidence ------------------------------
(***************************************************************************)
(* What the automatic path leaves behind, with no calls, queues, files,    *)
(* failures or crashes: a chain of facts, from the decision on a posting   *)
(* to the bundle that execution recovers, each resting on the one before   *)
(* it, and the outcome of every invocation.  A fact is established once    *)
(* and for all.  Automation implements this module.                        *)
(***************************************************************************)
CONSTANTS Binding,      \* what a decision, and the Plan made of it, binds
          Verdict,      \* what a decision may say
          Admitting,    \* the verdict that admits an application
          Input,        \* what a completed preparation hands to assembly
          PlanOf,       \* PlanOf[i] : the Plan that was prepared for i
          Invocation,   \* cycles and refreshes
          Outcome,      \* what they may come to
          None

VARIABLES decided,      \* decided[b] : the verdict on b, or None
          planned,      \* Plans that were made
          prepared,     \* inputs whose preparation was completed
          assembled,    \* inputs with an assembly record
          sealed,       \* inputs whose bundle can be recovered
          outcome       \* outcome[i] : what i has come to, or None

evidenceVars == <<decided, planned, prepared, assembled, sealed, outcome>>

EvidenceInit ==
  /\ decided = [b \in Binding |-> None]
  /\ planned = {} /\ prepared = {} /\ assembled = {} /\ sealed = {}
  /\ outcome = [i \in Invocation |-> None]

Decide(b, v) ==
  /\ decided[b] = None
  /\ decided' = [decided EXCEPT ![b] = v]
  /\ UNCHANGED <<planned, prepared, assembled, sealed, outcome>>

MakePlan(b) ==
  /\ decided[b] = Admitting
  /\ planned' = planned \cup {b}
  /\ UNCHANGED <<decided, prepared, assembled, sealed, outcome>>

Prepare(i) ==
  /\ PlanOf[i] \in planned
  /\ prepared' = prepared \cup {i}
  /\ UNCHANGED <<decided, planned, assembled, sealed, outcome>>

Assemble(i) ==
  /\ i \in prepared
  /\ assembled' = assembled \cup {i}
  /\ UNCHANGED <<decided, planned, prepared, sealed, outcome>>

Seal(i) ==
  /\ i \in assembled
  /\ sealed' = sealed \cup {i}
  /\ UNCHANGED <<decided, planned, prepared, assembled, outcome>>

Conclude(i, o) ==
  /\ outcome[i] = None
  /\ outcome' = [outcome EXCEPT ![i] = o]
  /\ UNCHANGED <<decided, planned, prepared, assembled, sealed>>

EvidenceNext ==
  \/ \E b \in Binding : MakePlan(b) \/ \E v \in Verdict : Decide(b, v)
  \/ \E i \in Input : Prepare(i) \/ Assemble(i) \/ Seal(i)
  \/ \E i \in Invocation, o \in Outcome : Conclude(i, o)

EvidenceSpec == EvidenceInit /\ [][EvidenceNext]_evidenceVars
=============================================================================
