--------------------------- MODULE PriorityScoring ---------------------------
(***************************************************************************)
(* Single-job prioritisation (core/single_job_priority.py): a call claims  *)
(* the binding of its job, asks the Agent for a PriorityProposal, has the  *)
(* Gate turn it into a PriorityDecision and completes the claim.           *)
(*                                                                         *)
(* A Binding stands for the whole SingleJobPriorityBinding: the job with   *)
(* its revision, the policy, the candidate summary, the versions and the   *)
(* time of the command.  Two calls meet only on the same binding; calls    *)
(* run in threads and processes that share the directory.  Inputs that     *)
(* cannot be read end a call before it claims anything and are left out.   *)
(***************************************************************************)
EXTENDS Calls      \* a Call: one of orchestrate_single_job_priority

CONSTANTS Binding      \* input bindings

Qualified == "QUALIFIED"        \* a decision that admits an application
Unqualified == "UNQUALIFIED"
Undecided == "UNDECIDED"        \* there is none

VARIABLES
  claim,       \* claim[b] : what is in b's orchestration record
  decision,    \* decision[b] : the stored PriorityDecision, if any
  scoring,     \* scoring[s] : where the call s is
  binding,     \* binding[s] : what it scores, None between calls
  scored       \* scored[s] : what it returned

scoringVars == <<claim, decision, scoring, binding, scored>>

ClaimState == {"ABSENT", "PARTIAL", "IN_PROGRESS", "COMPLETED", "FAILED"}
ScoringPC == {"idle", "claim", "create", "write", "reread", "agent", "gate",
              "complete", "done"}
ScoringReply == {"NONE", "CREATED", "UNCHANGED", "INCOMPLETE",
                 "PROPOSAL_FAILED", "FINALIZATION_FAILED",
                 "PERSISTENCE_FAILED"}

ScoringTypeOK ==
  /\ claim \in [Binding -> ClaimState]
  /\ decision \in [Binding -> {Qualified, Unqualified, Undecided}]
  /\ scoring \in [Call -> ScoringPC]
  /\ binding \in [Call -> Binding \cup {None}]
  /\ scored \in [Call -> ScoringReply]
  /\ \A s \in Call : scoring[s] # "idle" => binding[s] \in Binding

ScoringInit ==
  /\ claim = [b \in Binding |-> "ABSENT"]
  /\ decision = [b \in Binding |-> Undecided]
  /\ scoring = [s \in Call |-> "idle"]
  /\ binding = [s \in Call |-> None]
  /\ scored = [s \in Call |-> "NONE"]

-----------------------------------------------------------------------------
ScoringGoto(s, pc) ==
  /\ scoring' = [scoring EXCEPT ![s] = pc]
  /\ UNCHANGED <<binding, scored>>

Reply(s, reply) ==
  /\ scoring' = [scoring EXCEPT ![s] = "done"]
  /\ scored' = [scored EXCEPT ![s] = reply]
  /\ UNCHANGED binding

SetClaim(s, state) == claim' = [claim EXCEPT ![binding[s]] = state]

BeginScoring(s, b) ==
  /\ scoring[s] = "idle"
  /\ scoring' = [scoring EXCEPT ![s] = "claim"]
  /\ binding' = [binding EXCEPT ![s] = b]
  /\ UNCHANGED <<claim, decision, scored>>

(* A record that is there decides what the call answers: a completed one   *)
(* is answered again with its decision, a torn one cannot be read, any     *)
(* other means that somebody else is at it or was.                         *)
AnswerFromRecord(s) ==
  \/ /\ claim[binding[s]] = "COMPLETED"
     /\ Reply(s, IF decision[binding[s]] # Undecided THEN "UNCHANGED"
                                                ELSE "PERSISTENCE_FAILED")
  \/ claim[binding[s]] = "PARTIAL" /\ Reply(s, "PERSISTENCE_FAILED")
  \/ claim[binding[s]] \in {"IN_PROGRESS", "FAILED"} /\ Reply(s, "INCOMPLETE")

(* claim: the first read.                                                  *)
ReadClaim(s) ==
  /\ scoring[s] = "claim"
  /\ \/ claim[binding[s]] # "ABSENT" /\ AnswerFromRecord(s)
     \/ claim[binding[s]] = "ABSENT" /\ ScoringGoto(s, "create")
  /\ UNCHANGED <<claim, decision>>

(* write_bytes_if_absent: the file appears; or somebody was faster, and    *)
(* his record is read.                                                     *)
SlipCreateClaim(s) ==               \* slip: write_bytes, which replaces
  /\ scoring[s] = "create"
  /\ SetClaim(s, "PARTIAL")
  /\ ScoringGoto(s, "write")
  /\ UNCHANGED decision
CreateClaim(s) ==
  /\ scoring[s] = "create"
  /\ \/ claim[binding[s]] = "ABSENT"
        /\ SetClaim(s, "PARTIAL") /\ ScoringGoto(s, "write")
     \/ claim[binding[s]] # "ABSENT"
        /\ ScoringGoto(s, "reread") /\ UNCHANGED claim
  /\ UNCHANGED decision

WriteClaim(s) ==
  /\ scoring[s] = "write"
  /\ \/ SetClaim(s, "IN_PROGRESS") /\ ScoringGoto(s, "agent")
     \/ SetClaim(s, "ABSENT") /\ Reply(s, "PERSISTENCE_FAILED")
  /\ UNCHANGED decision

(* claim: the second read.  The record may have been released meanwhile.   *)
RereadClaim(s) ==
  /\ scoring[s] = "reread"
  /\ \/ AnswerFromRecord(s)
     \/ claim[binding[s]] = "ABSENT" /\ Reply(s, "PERSISTENCE_FAILED")
  /\ UNCHANGED <<claim, decision>>

(* The Agent's proposal is awaited; without one the claim is released, and *)
(* a release that fails leaves the claim behind.                           *)
AgentAnswers(s) ==
  /\ scoring[s] = "agent"
  /\ \/ ScoringGoto(s, "gate") /\ UNCHANGED claim
     \/ SetClaim(s, "ABSENT") /\ Reply(s, "PROPOSAL_FAILED")
     \/ Reply(s, "PERSISTENCE_FAILED") /\ UNCHANGED claim
  /\ UNCHANGED decision

(* fail() writes FAILED over an IN_PROGRESS record, or cannot.             *)
FailClaim(s, reply) ==
  \/ SetClaim(s, "FAILED") /\ Reply(s, reply)
  \/ UNCHANGED claim /\ Reply(s, "PERSISTENCE_FAILED")

(* The Gate accepts the proposal and stores a decision, or does not.       *)
GateDecides(s) ==
  /\ scoring[s] = "gate"
  /\ \/ /\ \E d \in {Qualified, Unqualified} :
             decision' = [decision EXCEPT ![binding[s]] = d]
        /\ ScoringGoto(s, "complete")
        /\ UNCHANGED claim
     \/ /\ FailClaim(s, "FINALIZATION_FAILED")
        /\ UNCHANGED decision

(* complete(), by atomic replacement.  It may fail before the record is    *)
(* replaced, and then the claim is marked failed; or after, and then the   *)
(* call reports a failure though the record says COMPLETED.                *)
SlipCompleteClaim(s) ==             \* slip: completed before the Gate ran
  /\ scoring[s] \in {"gate", "complete"}
  /\ SetClaim(s, "COMPLETED") /\ Reply(s, "CREATED")
  /\ UNCHANGED decision
CompleteClaim(s) ==
  /\ scoring[s] = "complete"
  /\ \/ SetClaim(s, "COMPLETED")
        /\ (Reply(s, "CREATED") \/ Reply(s, "PERSISTENCE_FAILED"))
     \/ FailClaim(s, "PERSISTENCE_FAILED")
  /\ UNCHANGED decision

(* The caller takes the reply; or the process dies, at any point.          *)
ScoringOver(s) ==
  /\ scoring' = [scoring EXCEPT ![s] = "idle"]
  /\ binding' = [binding EXCEPT ![s] = None]
  /\ scored' = [scored EXCEPT ![s] = "NONE"]
  /\ UNCHANGED <<claim, decision>>

EndScoring(s) == scoring[s] = "done" /\ ScoringOver(s)

ScoringCrash(s) == scoring[s] # "idle" /\ ScoringOver(s)

ScoringStep(s) ==
  \/ ReadClaim(s) \/ CreateClaim(s) \/ WriteClaim(s) \/ RereadClaim(s)
  \/ AgentAnswers(s) \/ GateDecides(s) \/ CompleteClaim(s)

ScoringNext ==
  \E s \in Call :
    \/ \E b \in Binding : BeginScoring(s, b)
    \/ ScoringStep(s)
    \/ EndScoring(s)
    \/ ScoringCrash(s)

ScoringSpec == ScoringInit /\ [][ScoringNext]_scoringVars

-----------------------------------------------------------------------------
(* What must hold                                                          *)

\* The calls between taking a claim and giving it up or settling it.
AtWork(s) == scoring[s] \in {"write", "agent", "gate", "complete"}

(* Nobody pays an Agent twice for one binding at the same time: of several *)
(* calls, in whatever threads and processes, one at a time works on it,    *)
(* and while it does the record is its claim (claim, lines 740-767).       *)
OneScorerPerBinding ==
  \A s, t \in Call :
    AtWork(s) /\ AtWork(t) /\ binding[s] = binding[t] => s = t

ClaimIsHeld ==
  \A s \in Call : AtWork(s) =>
    claim[binding[s]] = IF scoring[s] = "write" THEN "PARTIAL"
                                                ELSE "IN_PROGRESS"

(* A completed record has its decision: who reads COMPLETED finds what the *)
(* queue needs, whatever crashed or failed before (orchestrate, 1215-1300, *)
(* _load_completed_decision).                                              *)
DecisionIsThere ==
  /\ \A b \in Binding : claim[b] = "COMPLETED" => decision[b] # Undecided
  /\ \A s \in Call :
       scoring[s] = "complete" => decision[binding[s]] # Undecided

ScoringInv == OneScorerPerBinding /\ ClaimIsHeld /\ DecisionIsThere

(* A completed record is final, and so is its decision: no late failure,   *)
(* release or second scorer takes it back (complete and fail, 810-902).    *)
CompletedIsFinal ==
  [][\A b \in Binding : claim[b] = "COMPLETED" =>
       claim'[b] = "COMPLETED" /\ decision'[b] = decision[b]]_scoringVars
=============================================================================
