--------------------------- MODULE BundleAssembly ---------------------------
(***************************************************************************)
(* Assembling the ApplicationBundle of a prepared Plan                     *)
(* (core/application_bundle_assembly.py and its envelope,                  *)
(* core/recoverable_application_bundle.py).  Two immutable records make a  *)
(* bundle: the assembly record, written first, and the envelope from which *)
(* execution recovers the bundle, written second.                          *)
(*                                                                         *)
(* An Input stands for everything the identity of a record binds: Plan,    *)
(* manifest, answers, materials and execution context.  Reading and        *)
(* checking those is one step that may refuse.  A file appears whole here; *)
(* RecordStore has the file that is half written.                          *)
(***************************************************************************)
EXTENDS Calls      \* a Call: one of assemble_application_bundle

CONSTANT Input         \* what one assembly binds

VARIABLES
  record,       \* inputs with an ApplicationBundleAssemblyRecord
  envelope,     \* inputs with a RecoverableApplicationBundleEnvelope
  assembling,   \* assembling[a] : where the call a is
  input,        \* input[a] : what it assembles
  assembled     \* assembled[a] : what it returned

assemblyVars == <<record, envelope, assembling, input, assembled>>

AssemblyPC == {"idle", "inputs", "replay", "save", "settle", "seal", "done"}

\* LOST: the record is there and its envelope is not; not retryable.
AssemblyReply == {"NONE", "CREATED", "UNCHANGED", "REFUSED", "RETRYABLE",
                  "LOST"}

AssemblyTypeOK ==
  /\ record \subseteq Input
  /\ envelope \subseteq Input
  /\ assembling \in [Call -> AssemblyPC]
  /\ input \in [Call -> Input \cup {None}]
  /\ assembled \in [Call -> AssemblyReply]
  /\ \A a \in Call : assembling[a] # "idle" => input[a] \in Input

AssemblyInit ==
  /\ record = {}
  /\ envelope = {}
  /\ assembling = [a \in Call |-> "idle"]
  /\ input = [a \in Call |-> None]
  /\ assembled = [a \in Call |-> "NONE"]

-----------------------------------------------------------------------------
AssemblyGoto(a, pc) ==
  /\ assembling' = [assembling EXCEPT ![a] = pc]
  /\ UNCHANGED <<input, assembled>>

AssemblyReturn(a, reply) ==
  /\ assembling' = [assembling EXCEPT ![a] = "done"]
  /\ assembled' = [assembled EXCEPT ![a] = reply]
  /\ UNCHANGED input

BeginAssembly(a, i) ==
  /\ assembling[a] = "idle"
  /\ assembling' = [assembling EXCEPT ![a] = "inputs"]
  /\ input' = [input EXCEPT ![a] = i]
  /\ UNCHANGED <<record, envelope, assembled>>

(* Plan, posting, manifest, answers, both PDFs: missing, changed or with   *)
(* blocking answers they refuse the call before anything is written.       *)
CheckInputs(a) ==
  /\ assembling[a] = "inputs"
  /\ AssemblyGoto(a, "replay") \/ AssemblyReturn(a, "REFUSED")
  /\ UNCHANGED <<record, envelope>>

(* An identical record answers with the bundle from its envelope.          *)
FindReplay(a) ==
  /\ assembling[a] = "replay"
  /\ \/ /\ input[a] \in record
        /\ AssemblyReturn(a, IF input[a] \in envelope THEN "UNCHANGED"
                                                      ELSE "LOST")
     \/ input[a] \notin record /\ AssemblyGoto(a, "save")
  /\ UNCHANGED <<record, envelope>>

(* The execution context and the factory may refuse; then the record is    *)
(* saved: created, found there already, or not written at all.             *)
SaveRecord(a) ==
  /\ assembling[a] = "save"
  /\ \/ AssemblyReturn(a, "REFUSED") /\ UNCHANGED record
     \/ AssemblyReturn(a, "RETRYABLE") /\ UNCHANGED record
     \/ /\ input[a] \notin record
        /\ record' = record \cup {input[a]}
        /\ AssemblyGoto(a, "seal")
     \/ /\ input[a] \in record
        /\ AssemblyGoto(a, "settle") /\ UNCHANGED record
  /\ UNCHANGED envelope

(* The save was UNCHANGED: another call created the record, and only its   *)
(* envelope makes this call a success.                                     *)
SettleRecord(a) ==
  /\ assembling[a] = "settle"
  /\ AssemblyReturn(a, IF input[a] \in envelope THEN "UNCHANGED" ELSE "LOST")
  /\ UNCHANGED <<record, envelope>>

(* The creator writes the envelope, or fails to.                           *)
SlipSealBundle(a) ==                \* slip: the failed write is not noticed
  /\ assembling[a] = "seal"
  /\ \/ envelope' = envelope \cup {input[a]}
     \/ UNCHANGED envelope
  /\ AssemblyReturn(a, "CREATED")
  /\ UNCHANGED record
SealBundle(a) ==
  /\ assembling[a] = "seal"
  /\ \/ envelope' = envelope \cup {input[a]} /\ AssemblyReturn(a, "CREATED")
     \/ UNCHANGED envelope /\ AssemblyReturn(a, "RETRYABLE")
  /\ UNCHANGED record

AssemblyOver(a) ==
  /\ assembling' = [assembling EXCEPT ![a] = "idle"]
  /\ input' = [input EXCEPT ![a] = None]
  /\ assembled' = [assembled EXCEPT ![a] = "NONE"]
  /\ UNCHANGED <<record, envelope>>

EndAssembly(a) == assembling[a] = "done" /\ AssemblyOver(a)

AssemblyCrash(a) == assembling[a] # "idle" /\ AssemblyOver(a)

AssemblyStep(a) ==
  \/ CheckInputs(a) \/ FindReplay(a) \/ SaveRecord(a) \/ SettleRecord(a)
  \/ SealBundle(a)

AssemblyNext ==
  \E a \in Call :
    \/ \E i \in Input : BeginAssembly(a, i)
    \/ AssemblyStep(a)
    \/ EndAssembly(a)
    \/ AssemblyCrash(a)

AssemblySpec == AssemblyInit /\ [][AssemblyNext]_assemblyVars

-----------------------------------------------------------------------------
(* What must hold                                                          *)

(* DOMAIN_AND_RULES.md:771: every newly successful assembly must persist   *)
(* one envelope.  Whoever was told CREATED or UNCHANGED finds the bundle   *)
(* again, and no envelope stands without its record.                       *)
SuccessIsRecoverable ==
  /\ envelope \subseteq record
  /\ \A a \in Call :
       assembled[a] \in {"CREATED", "UNCHANGED"} => input[a] \in envelope

\* Only the call that created a record writes its envelope.
OneSealer ==
  \A a, b \in Call :
    assembling[a] = "seal" /\ assembling[b] = "seal" /\ input[a] = input[b]
      => a = b

SealerIsCreator ==
  \A a \in Call : assembling[a] = "seal" =>
    input[a] \in record /\ input[a] \notin envelope

AssemblyInv == SuccessIsRecoverable /\ OneSealer /\ SealerIsCreator

(* A record nobody is about to seal and that has no envelope never gets    *)
(* one: the first failure answers retryable=True (line 1530), every retry  *)
(* finds the record and is answered LOST.                                  *)
Lost(i) == /\ i \in record /\ i \notin envelope
           /\ \A a \in Call : ~(assembling[a] = "seal" /\ input[a] = i)

LostIsForGood == [][\A i \in Input : Lost(i) => Lost(i)']_assemblyVars
=============================================================================
