------------------------- MODULE ApplicationExecution -------------------------
(***************************************************************************)
(* Application Execution (P2c3 to P2c9): one Plan of one posting, from the *)
(* queue that finds it READY to the run record that says how it ended.     *)
(*                                                                         *)
(* A Call is one run_application_execution, made by a batch that saw the   *)
(* Plan READY or directly.  It goes through four public stages, and each   *)
(* leaves an immutable record:                                             *)
(*   C3  fill the form to Review           executions, by Gate A receipt   *)
(*   C4  decide who may submit             decisions                       *)
(*   C5  issue a plan-scoped permit        permits                         *)
(*   C6  replay, consume, submit           submissions, by permit          *)
(* and last the run itself.  Calls of several processes interleave, and    *)
(* share nothing but the records and the ledger.                           *)
(*                                                                         *)
(* A Gate A receipt and a permit are named by the call that made them.  A  *)
(* call works with the time its command was given, now; the engine's       *)
(* permit service reads the clock.  What the engine does to the submission *)
(* ledger is taken from SubmissionPromise, which ApplicationEngine is      *)
(* shown to keep.  Leases only take interleavings away; here a browser may *)
(* be refused or lost at any point.                                        *)
(***************************************************************************)
EXTENDS Naturals, FiniteSets

CONSTANTS
  Call, Batch,      \* calls; those of them that a batch makes
  Review,           \* what a filled form can look like (fingerprints)
  HumanGateA,       \* the Plan's policy asks a human before filling ...
  HumanGateB,       \* ... and before submitting
  MaxAssembly,      \* bound: bundles assembled for the Plan
  MaxTime,          \* bound: the clock
  TTL,              \* life of a submission permit
  None

ASSUME ExecutionAssumption ==
  /\ Batch \subseteq Call
  /\ None \notin Call \cup Review
  /\ HumanGateA \in BOOLEAN /\ HumanGateB \in BOOLEAN
  /\ MaxAssembly \in Nat \ {0} /\ MaxTime \in Nat /\ TTL \in Nat \ {0}

VARIABLES
  clock, assembled,                      \* time; the newest bundle's number
  gateA, consumed,                       \* ledger: receipts, spent permits
  staked, standing, pressed, confirmed,  \* ledger: SubmissionPromise
  executions, decisions, permits, submissions, runs,        \* records
  pc, cmd, now, did,                     \* a call's stages and results
  ref, permit, seen, out                 \* what it carries between them

claimVars  == <<staked, standing, pressed, confirmed>>
ledgerVars == <<gateA, consumed, claimVars>>
recordVars == <<executions, decisions, permits, submissions, runs>>
carryVars  == <<ref, permit, seen, out>>
envVars    == <<clock, assembled>>
vars == <<envVars, ledgerVars, recordVars, pc, cmd, now, did, carryVars>>

\* What the engine's ledger lets happen; every claim is for the one posting.
Ledger == INSTANCE SubmissionPromise
            WITH Claim <- Call, posting <- [c \in Call |-> "posting"]

Stage    == {"C3", "C4", "C5", "C6"}
Deferral == {"GATE_A_REQUIRED", "BROWSER_UNAVAILABLE", "INPUT_REQUIRED",
             "AUTHORIZATION_REQUIRED", "NOT_AUTHORIZED", "REVIEW_CHANGED"}
Failure  == {"ENGINE_CONTRACT", "BOUNDARY_VIOLATION", "INTEGRITY",
             "PERSISTENCE", "BLOCKED", "BINDING_MISMATCH", "TOKEN_STORE"}
Success  == {"CREATED", "UNCHANGED"}
StageStatus == Deferral \cup Failure \cup Success
                 \cup {"NOT_RUN", "SUBMISSION_UNCERTAIN"}

\* How the engine came out of the second, submitting, execution.
Outcome == {"NONE", "EXCEPTION", "GUARDED", "INPUT", "RETRYABLE", "OTHER",
            "AWAITING", "AWAITING_CHANGED", "DUPLICATE", "UNKNOWN",
            "UNKNOWN_BARE", "VERIFIED"}

Engine == {"c6preflight", "c6replay", "c6gate", "c6stake", "c6click",
           "c6result"}
PC == {"idle", "queued", "c3", "c3engine", "c3review", "c3save", "c4", "c5",
       "c5issue", "c6", "c6settle", "c6save", "end", "done", "crashed"}
        \cup Engine

Command == [asm : 1..MaxAssembly, gateA : BOOLEAN, explicit : Call \cup {None}]
Results == [Stage -> StageStatus]
Execution  == [asm : 1..MaxAssembly, review : Review \cup {None}, at : Nat]
Permit     == [exec : Call, explicit : Call \cup {None}, at : Nat]
Submission == [outcome : {"VERIFIED", "UNCERTAIN"}, how : Outcome, at : Nat,
               intent : Call \cup {None}]
Verdicts   == {"AUTHORIZED", "AUTHORIZATION_REQUIRED", "BLOCKED"}
Decision   == [exec : Call, explicit : Call \cup {None}, verdict : Verdicts,
               at : Nat]
Run        == [cmd : Command, did : Results, ref : Call \cup {None},
               permit : Call \cup {None}, at : Nat]

\* None stands for no record.
ASSUME RecordAssumption ==
  None \notin Execution /\ None \notin Permit /\ None \notin Submission

RecordsTyped ==
  /\ executions \in [Call -> Execution \cup {None}]
  /\ decisions \subseteq Decision
  /\ permits \in [Call -> Permit \cup {None}]
  /\ submissions \in [Call -> Submission \cup {None}]
  /\ runs \subseteq Run

CallsTyped ==
  /\ pc \in [Call -> PC]
  /\ cmd \in [Call -> Command]
  /\ now \in [Call -> 0..MaxTime]
  /\ did \in [Call -> Results]
  /\ ref \in [Call -> Call \cup {None}]
  /\ permit \in [Call -> Call \cup {None}]
  /\ seen \in [Call -> Review \cup {None}]
  /\ out \in [Call -> Outcome]

LedgerTyped ==
  /\ clock \in 0..MaxTime /\ assembled \in 1..MaxAssembly
  /\ gateA \in [1..MaxAssembly -> Call \cup {None}]
  /\ consumed \subseteq Call /\ staked \subseteq Call
  /\ standing \subseteq Call /\ pressed \subseteq Call
  /\ confirmed \subseteq Call

TypeOK == LedgerTyped /\ RecordsTyped /\ CallsTyped

Init ==
  /\ clock = 0 /\ assembled = 1
  /\ gateA = [a \in 1..MaxAssembly |-> None] /\ consumed = {}
  /\ Ledger!PromiseInit
  /\ executions = [c \in Call |-> None] /\ decisions = {}
  /\ permits = [c \in Call |-> None] /\ submissions = [c \in Call |-> None]
  /\ runs = {}
  /\ pc = [c \in Call |-> "idle"]
  /\ cmd = [c \in Call |-> [asm |-> 1, gateA |-> FALSE, explicit |-> None]]
  /\ now = [c \in Call |-> 0]
  /\ did = [c \in Call |-> [s \in Stage |-> "NOT_RUN"]]
  /\ ref = [c \in Call |-> None] /\ permit = [c \in Call |-> None]
  /\ seen = [c \in Call |-> None] /\ out = [c \in Call |-> "NONE"]

-----------------------------------------------------------------------------
(* Names that begin with Slip are mistakes a maintainer could make in the  *)
(* definition that follows; PROJECT.json says which property notices each. *)

Go(c, to) == pc' = [pc EXCEPT ![c] = to]

\* A stage that stops the run, and one that lets the next stage begin.
Ends(c, stage, s, to) ==
  /\ did' = [did EXCEPT ![c] = [@ EXCEPT ![stage] = s]]
  /\ Go(c, to)
Stop(c, stage, s) == Ends(c, stage, s, "end")

Overall(d) ==
  IF d["C6"] \in Success                     THEN "COMPLETED"
  ELSE IF d["C6"] = "SUBMISSION_UNCERTAIN"   THEN "SUBMISSION_UNCERTAIN"
  ELSE IF \E s \in Stage : d[s] \in Deferral THEN "DEFERRED"
  ELSE "FAILED"

Ready(g) == executions[g] # None /\ executions[g].review # None

-----------------------------------------------------------------------------
(* The queue, the batch and the start of a run                             *)

\* find_current_for_assembly; of runs that completed at one time, any.
Latest(a) == {r \in runs : /\ r.cmd.asm = a
                           /\ \A q \in runs : q.cmd.asm = a => q.at <= r.at}
Ended(o) == \E r \in runs : Overall(r.did) = o

QueueStatus ==
  IF Ended("COMPLETED") THEN {"COMPLETED"}
  ELSE IF Ended("SUBMISSION_UNCERTAIN") THEN {"SUBMISSION_UNCERTAIN"}
  ELSE IF Latest(assembled) = {} THEN {"READY"}
  ELSE {Overall(r.did) : r \in Latest(assembled)}

(* A batch takes the Plan if its snapshot of the queue says READY, with    *)
(* the newest bundle; a direct call takes any.  An approval to submit is   *)
(* for the Review of one execution record.  Other Plans may come first.    *)
Begin(c) ==
  /\ pc[c] = "idle"
  /\ c \in Batch => QueueStatus = {"READY"}
  /\ \E a \in 1..assembled, approve \in BOOLEAN,
        e \in {None} \cup {g \in Call : Ready(g)} :
       /\ c \in Batch => a = assembled
       /\ approve => HumanGateA
       /\ e # None => HumanGateB
       /\ cmd' = [cmd EXCEPT ![c] = [asm |-> a, gateA |-> approve,
                                     explicit |-> e]]
  /\ now' = [now EXCEPT ![c] = clock]
  /\ Go(c, "queued")
  /\ UNCHANGED <<envVars, ledgerVars, recordVars, did, carryVars>>

Terminal(r, c) == /\ r.cmd = cmd[c]
                  /\ Overall(r.did) \in {"COMPLETED", "SUBMISSION_UNCERTAIN"}

(* run_application_execution: the same command replays a terminal run.     *)
Open(c) ==
  /\ pc[c] = "queued"
  /\ LET current == Latest(cmd[c].asm) IN
       \/ (\E r \in current : Terminal(r, c)) /\ Go(c, "done")
       \/ /\ current = {} \/ \E r \in current : ~Terminal(r, c)
          /\ Go(c, "c3")
  /\ UNCHANGED <<envVars, ledgerVars, recordVars, cmd, now, did, carryVars>>

-----------------------------------------------------------------------------
(* C3: execute_non_submit_application                                      *)

(* Gate A, then the record of the Gate A receipt there is, if any.         *)
C3Look(c) ==
  /\ pc[c] = "c3"
  /\ LET g == gateA[cmd[c].asm] IN
       IF HumanGateA /\ ~cmd[c].gateA
         THEN Stop(c, "C3", "GATE_A_REQUIRED") /\ UNCHANGED ref
       ELSE IF g = None \/ executions[g] = None
         THEN Go(c, "c3engine") /\ UNCHANGED <<did, ref>>
       ELSE /\ ref' = [ref EXCEPT ![c] = g]
            /\ IF Ready(g) THEN Ends(c, "C3", "UNCHANGED", "c4")
               ELSE Stop(c, "C3", "INPUT_REQUIRED")
  /\ UNCHANGED <<envVars, ledgerVars, recordVars, cmd, now, permit, seen, out>>

(* The engine's preflight, and its own Gate A permit issued and consumed.  *)
C3Engine(c) ==
  /\ pc[c] = "c3engine"
  /\ \/ /\ standing = {}
        /\ gateA' = [gateA EXCEPT ![cmd[c].asm] = c]
        /\ Go(c, "c3review")
        /\ UNCHANGED did
     \/ /\ \/ /\ standing # {}
              /\ Stop(c, "C3", IF standing \subseteq confirmed
                               THEN "ENGINE_CONTRACT"
                               ELSE "BOUNDARY_VIOLATION")
           \/ Stop(c, "C3", "BROWSER_UNAVAILABLE")
           \/ Stop(c, "C3", "ENGINE_CONTRACT")
        /\ UNCHANGED gateA
  /\ UNCHANGED <<envVars, consumed, claimVars, recordVars, cmd, now,
                 carryVars>>

(* The adapter fills the form: Review, a question for the user (seen is    *)
(* None), or nothing to record.                                            *)
C3Fill(c) ==
  /\ pc[c] = "c3review"
  /\ \/ /\ \E r \in Review \cup {None} : seen' = [seen EXCEPT ![c] = r]
        /\ Go(c, "c3save")
        /\ UNCHANGED did
     \/ /\ \E s \in {"BROWSER_UNAVAILABLE", "ENGINE_CONTRACT"} :
             Stop(c, "C3", s)
        /\ UNCHANGED seen
  /\ UNCHANGED <<envVars, ledgerVars, recordVars, cmd, now, ref, permit, out>>

(* The receipt is read again, which may by now be another call's, and the  *)
(* record is saved under it.                                               *)
C3Save(c) ==
  /\ pc[c] = "c3save"
  /\ LET g == gateA[cmd[c].asm]
         x == [asm |-> cmd[c].asm, review |-> seen[c], at |-> now[c]]
         Passed(s) == /\ ref' = [ref EXCEPT ![c] = g]
                      /\ IF seen[c] # None THEN Ends(c, "C3", s, "c4")
                         ELSE Stop(c, "C3", "INPUT_REQUIRED")
     IN \/ /\ executions[g] = None
           /\ executions' = [executions EXCEPT ![g] = x]
           /\ Passed("CREATED")
        \/ executions[g] = x /\ Passed("UNCHANGED") /\ UNCHANGED executions
        \/ /\ executions[g] \notin {None, x} /\ Stop(c, "C3", "INTEGRITY")
           /\ UNCHANGED <<executions, ref>>
        \/ Stop(c, "C3", "PERSISTENCE") /\ UNCHANGED <<executions, ref>>
  /\ UNCHANGED <<envVars, ledgerVars, decisions, permits, submissions, runs,
                 cmd, now, permit, seen, out>>

-----------------------------------------------------------------------------
(* C4: decide_submission_authorization                                     *)

SlipVerdict(c) ==                   \* slip: any approval will do
  IF ~HumanGateB \/ cmd[c].explicit # None THEN "AUTHORIZED"
  ELSE "AUTHORIZATION_REQUIRED"
Verdict(c) ==
  IF ~HumanGateB \/ cmd[c].explicit = ref[c] THEN "AUTHORIZED"
  ELSE IF cmd[c].explicit = None THEN "AUTHORIZATION_REQUIRED"
  ELSE "BLOCKED"

DecisionsFor(c) == {d \in decisions : /\ d.exec = ref[c]
                                      /\ d.explicit = cmd[c].explicit}

(* The decision's identity leaves the time out; the hash that save         *)
(* compares has it in.                                                     *)
C4Decide(c) ==
  /\ pc[c] = "c4"
  /\ LET d == [exec |-> ref[c], explicit |-> cmd[c].explicit,
               verdict |-> Verdict(c), at |-> now[c]]
         Answer(s) == IF d.verdict = "AUTHORIZED" THEN Ends(c, "C4", s, "c5")
                      ELSE Stop(c, "C4", d.verdict)
     IN \/ /\ DecisionsFor(c) = {}
           /\ decisions' = decisions \cup {d}
           /\ Answer("CREATED")
        \/ /\ \/ DecisionsFor(c) = {d} /\ Answer("UNCHANGED")
              \/ DecisionsFor(c) \notin {{}, {d}} /\ Stop(c, "C4", "INTEGRITY")
              \/ Stop(c, "C4", "PERSISTENCE")
           /\ UNCHANGED decisions
  /\ UNCHANGED <<envVars, ledgerVars, executions, permits, submissions, runs,
                 cmd, now, carryVars>>

-----------------------------------------------------------------------------
(* C5: issue_submission_permit                                             *)

PermitsFor(c) ==
  {p \in Call : /\ permits[p] # None
                /\ permits[p].exec = ref[c]
                /\ permits[p].explicit = cmd[c].explicit}
Expired(p, t) == t >= permits[p].at + TTL

(* find_current_for_authorization: the newest permit of the decision.      *)
C5Look(c) ==
  /\ pc[c] = "c5"
  /\ \/ PermitsFor(c) = {} /\ Go(c, "c5issue") /\ UNCHANGED <<did, permit>>
     \/ \E p \in PermitsFor(c) :
          /\ \A q \in PermitsFor(c) : permits[q].at <= permits[p].at
          /\ \/ /\ Expired(p, now[c])
                /\ Stop(c, "C5", "NOT_AUTHORIZED") /\ UNCHANGED permit
             \/ /\ ~Expired(p, now[c])
                /\ Ends(c, "C5", "UNCHANGED", "c6")
                /\ permit' = [permit EXCEPT ![c] = p]
             \/ /\ ~Expired(p, now[c])
                /\ Stop(c, "C5", "TOKEN_STORE") /\ UNCHANGED permit
  /\ UNCHANGED <<envVars, ledgerVars, recordVars, cmd, now, ref, seen, out>>

(* Sign, keep the token, save the record.  The permit's life is counted    *)
(* from the command's time, not from the clock's.                          *)
C5Issue(c) ==
  /\ pc[c] = "c5issue"
  /\ \/ /\ permits' = [permits EXCEPT ![c] =
             [exec |-> ref[c], explicit |-> cmd[c].explicit, at |-> now[c]]]
        /\ permit' = [permit EXCEPT ![c] = c]
        /\ Ends(c, "C5", "CREATED", "c6")
     \/ /\ \E s \in {"NOT_AUTHORIZED", "TOKEN_STORE", "PERSISTENCE"} :
             Stop(c, "C5", s)
        /\ UNCHANGED <<permits, permit>>
  /\ UNCHANGED <<envVars, ledgerVars, executions, decisions, submissions,
                 runs, cmd, now, ref, seen, out>>

-----------------------------------------------------------------------------
(* C6: execute_authorized_submission                                       *)

(* A record for the permit is the answer; a spent permit without one, or   *)
(* one whose token does not load, is refused before the browser.           *)
C6Look(c) ==
  /\ pc[c] = "c6"
  /\ LET p == permit[c] IN
       \/ /\ submissions[p] # None
          /\ IF submissions[p].outcome = "VERIFIED"
             THEN Stop(c, "C6", "UNCHANGED")
             ELSE Stop(c, "C6", "SUBMISSION_UNCERTAIN")
       \/ /\ submissions[p] = None
          /\ Stop(c, "C6", "NOT_AUTHORIZED")
       \/ /\ submissions[p] = None /\ ~Expired(p, now[c]) /\ p \notin consumed
          /\ Go(c, "c6preflight") /\ UNCHANGED did
  /\ UNCHANGED <<envVars, ledgerVars, recordVars, cmd, now, carryVars>>

\* The engine reports, or goes on.
Report(c, o) == out' = [out EXCEPT ![c] = o] /\ Go(c, "c6settle")
Pass(c, to)  == Go(c, to) /\ UNCHANGED out

C6Preflight(c) ==
  /\ pc[c] = "c6preflight"
  /\ \/ standing = {} /\ Pass(c, "c6replay")
     \/ standing # {} /\ Report(c, "GUARDED")
     \/ Report(c, "RETRYABLE")
  /\ UNCHANGED <<envVars, ledgerVars, recordVars, cmd, now, did, ref, permit,
                 seen>>

\* Approved: the Review the permit was issued for.
Approved(c) == executions[permits[permit[c]].exec].review

(* The form is filled again; Review and permit are compared, the permit's  *)
(* life with the clock.                                                    *)
SlipC6Replay(c) ==                  \* slip: the Review is not compared
  /\ pc[c] = "c6replay"
  /\ \/ \E r \in Review : /\ seen' = [seen EXCEPT ![c] = r]
                          /\ Pass(c, "c6gate")
     \/ /\ \E o \in {"INPUT", "RETRYABLE", "OTHER"} : Report(c, o)
        /\ UNCHANGED seen
  /\ UNCHANGED <<envVars, ledgerVars, recordVars, cmd, now, did, ref, permit>>
C6Replay(c) ==
  /\ pc[c] = "c6replay"
  /\ \/ \E r \in Review :
          /\ seen' = [seen EXCEPT ![c] = r]
          /\ IF r # Approved(c) THEN Report(c, "AWAITING_CHANGED")
             ELSE IF Expired(permit[c], clock) THEN Report(c, "AWAITING")
             ELSE Pass(c, "c6gate")
     \/ /\ \E o \in {"INPUT", "RETRYABLE", "OTHER"} : Report(c, o)
        /\ UNCHANGED seen
  /\ UNCHANGED <<envVars, ledgerVars, recordVars, cmd, now, did, ref, permit>>

(* The adapter's Gate B callback: leases, then the permit is consumed.  Or *)
(* the adapter stops before it.                                            *)
C6Gate(c) ==
  /\ pc[c] = "c6gate"
  /\ LET p == permit[c] IN
       \/ /\ p \notin consumed /\ ~Expired(p, clock)
          /\ consumed' = consumed \cup {p}
          /\ Pass(c, "c6stake")
       \/ /\ p \in consumed \/ Expired(p, clock)
          /\ Report(c, "AWAITING") /\ UNCHANGED consumed
       \/ /\ \E o \in {"RETRYABLE", "INPUT", "OTHER"} : Report(c, o)
          /\ UNCHANGED consumed
  /\ UNCHANGED <<envVars, gateA, claimVars, recordVars, cmd, now, did, ref,
                 permit, seen>>

\* The idempotency key of an intent, aborted or not, is never used twice.
KeyTaken(c) == \E d \in staked : cmd[d].asm = cmd[c].asm /\ seen[d] = seen[c]

\* A posting has one standing claim.  The write may also fail, and then the
\* adapter reports, or the engine for it.
SlipC6Stake(c) ==              \* slip: only the same key counts as taken
  /\ pc[c] = "c6stake"
  /\ ~KeyTaken(c)
  /\ staked' = staked \cup {c} /\ standing' = standing \cup {c}
  /\ Pass(c, "c6click")
  /\ UNCHANGED <<envVars, gateA, consumed, pressed, confirmed, recordVars, cmd,
                 now, did, ref, permit, seen>>
C6Stake(c) ==
  /\ pc[c] = "c6stake"
  /\ \/ /\ ~KeyTaken(c) /\ Ledger!Stake(c)
        /\ Pass(c, "c6click")
     \/ /\ \/ (KeyTaken(c) \/ standing # {}) /\ Report(c, "DUPLICATE")
           \/ Report(c, "RETRYABLE")
        /\ UNCHANGED claimVars
  /\ UNCHANGED <<envVars, gateA, consumed, recordVars, cmd, now, did, ref,
                 permit, seen>>

(* The click, or an adapter that holds back (a lock in the page).          *)
C6Click(c) ==
  /\ pc[c] = "c6click"
  /\ \/ Ledger!Press(c)
     \/ UNCHANGED claimVars
  /\ Pass(c, "c6result")
  /\ UNCHANGED <<envVars, gateA, consumed, recordVars, cmd, now, did, ref,
                 permit, seen>>

(* Evidence and a claim that still stands make it verified.  An adapter    *)
(* that raises makes an unknown whose details lack the Review's hash.      *)
C6Result(c) ==
  /\ pc[c] = "c6result"
  /\ \/ /\ c \in pressed
        /\ Ledger!Confirm(c)
        /\ Report(c, "VERIFIED")
     \/ /\ \E o \in {"UNKNOWN", "UNKNOWN_BARE"} : Report(c, o)
        /\ UNCHANGED claimVars
  /\ UNCHANGED <<envVars, gateA, consumed, recordVars, cmd, now, did, ref,
                 permit, seen>>

(* Any call into the engine may raise (the database, the run record's      *)
(* compare-and-set); so may the browser's lease, before it and, whatever   *)
(* the engine has answered, when it is left.                               *)
EngineRaises(c) ==
  /\ pc[c] \in Engine \cup {"c6settle"}
  /\ Report(c, "EXCEPTION")
  /\ UNCHANGED <<envVars, ledgerVars, recordVars, cmd, now, did, ref, permit,
                 seen>>

(* The consumption is read again and the outcome judged by it.  An outcome *)
(* without the hash of the approved Review is not recorded; those of an    *)
(* adapter that stopped early may have it or not.                          *)
SlipC6Settle(c) ==                  \* slip: an exception is always "before"
  /\ pc[c] = "c6settle"
  /\ \/ /\ out[c] \in {"VERIFIED", "UNKNOWN"}
        /\ Go(c, "c6save") /\ UNCHANGED did
     \/ out[c] = "EXCEPTION" /\ Stop(c, "C6", "BROWSER_UNAVAILABLE")
     \/ /\ out[c] \notin {"VERIFIED", "UNKNOWN", "EXCEPTION"}
        /\ Stop(c, "C6", "BINDING_MISMATCH")
  /\ UNCHANGED <<envVars, ledgerVars, recordVars, cmd, now, carryVars>>
C6Settle(c) ==
  /\ pc[c] = "c6settle"
  /\ \/ out[c] = "AWAITING_CHANGED" /\ Stop(c, "C6", "REVIEW_CHANGED")
     \/ out[c] = "AWAITING" /\ Stop(c, "C6", "NOT_AUTHORIZED")
     \/ /\ permit[c] \notin consumed
        /\ CASE out[c] \in {"EXCEPTION", "RETRYABLE"} ->
                  Stop(c, "C6", "BROWSER_UNAVAILABLE")
             [] out[c] = "INPUT" ->
                  Stop(c, "C6", "INPUT_REQUIRED")
             [] out[c] \in {"GUARDED", "OTHER"} ->
                  Stop(c, "C6", "ENGINE_CONTRACT")
             [] OTHER                         -> FALSE
     \/ /\ permit[c] \in consumed
        /\ out[c] \in {"GUARDED", "DUPLICATE", "UNKNOWN_BARE", "INPUT",
                       "RETRYABLE", "OTHER"}
        /\ Stop(c, "C6", "BINDING_MISMATCH")
     \/ /\ permit[c] \in consumed
        /\ out[c] \in {"VERIFIED", "UNKNOWN", "EXCEPTION", "INPUT",
                       "RETRYABLE", "OTHER"}
        /\ Go(c, "c6save") /\ UNCHANGED did
  /\ UNCHANGED <<envVars, ledgerVars, recordVars, cmd, now, carryVars>>

(* The submission record, one per permit.                                  *)
SlipSubmissionOf(c) ==              \* slip: an intent is proof enough
  [outcome |-> IF out[c] \in {"VERIFIED", "UNKNOWN"} THEN "VERIFIED"
               ELSE "UNCERTAIN",
   how |-> out[c], at |-> now[c],
   intent |-> IF out[c] \in {"VERIFIED", "UNKNOWN"} THEN c ELSE None]
SubmissionOf(c) ==
  [outcome |-> IF out[c] = "VERIFIED" THEN "VERIFIED" ELSE "UNCERTAIN",
   how |-> out[c], at |-> now[c],
   intent |-> IF out[c] \in {"VERIFIED", "UNKNOWN"} THEN c ELSE None]

SlipAnswer(x, fresh) == x.outcome   \* slip: the record's word, untranslated
Answer(x, fresh) == IF x.outcome = "VERIFIED" THEN fresh
                    ELSE "SUBMISSION_UNCERTAIN"

C6Save(c) ==
  /\ pc[c] = "c6save"
  /\ LET p == permit[c]  x == SubmissionOf(c) IN
       \/ /\ submissions[p] = None
          /\ submissions' = [submissions EXCEPT ![p] = x]
          /\ Stop(c, "C6", Answer(x, "CREATED"))
       \/ /\ \/ /\ submissions[p] = x
                /\ Stop(c, "C6", Answer(x, "UNCHANGED"))
             \/ /\ submissions[p] \notin {None, x}
                /\ Stop(c, "C6", "INTEGRITY")
             \/ Stop(c, "C6", "PERSISTENCE")
          /\ UNCHANGED submissions
  /\ UNCHANGED <<envVars, ledgerVars, executions, decisions, permits, runs,
                 cmd, now, carryVars>>

-----------------------------------------------------------------------------
(* The end of a run, and the world around                                  *)

\* The record of a run names the records of the stages that succeeded.
RunOf(c) ==
  [cmd |-> cmd[c], did |-> did[c],
   ref |-> IF did[c]["C3"] \in Success THEN ref[c] ELSE None,
   permit |-> IF did[c]["C5"] \in Success THEN permit[c] ELSE None,
   at |-> now[c]]

(* One record for one command with one trail of stages, whatever the time; *)
(* the second to come finds the first and adds nothing.                    *)
SlipEnd(c) ==                       \* slip: it insists on a record of its own
  /\ pc[c] = "end"
  /\ \A r \in runs : [r EXCEPT !.at = now[c]] # RunOf(c)
  /\ runs' = runs \cup {RunOf(c)}
  /\ Go(c, "done")
  /\ UNCHANGED <<envVars, ledgerVars, executions, decisions, permits,
                 submissions, cmd, now, did, carryVars>>
End(c) ==
  /\ pc[c] = "end"
  /\ \/ /\ \A r \in runs : [r EXCEPT !.at = now[c]] # RunOf(c)
        /\ runs' = runs \cup {RunOf(c)}
     \/ UNCHANGED runs               \* it is there already, or not persisted
  /\ Go(c, "done")
  /\ UNCHANGED <<envVars, ledgerVars, executions, decisions, permits,
                 submissions, cmd, now, did, carryVars>>

Crash(c) ==
  /\ pc[c] \notin {"idle", "done", "crashed"}
  /\ Go(c, "crashed")
  /\ UNCHANGED <<envVars, ledgerVars, recordVars, cmd, now, did, carryVars>>

Tick == /\ clock < MaxTime /\ clock' = clock + 1
        /\ UNCHANGED <<assembled, ledgerVars, recordVars, pc, cmd, now, did,
                       carryVars>>

\* The Plan's inputs changed and a new bundle is assembled (P2c1).
Assemble == /\ assembled < MaxAssembly /\ assembled' = assembled + 1
            /\ UNCHANGED <<clock, ledgerVars, recordVars, pc, cmd, now, did,
                           carryVars>>

\* A human reconciles a claim: it never reached the employer, or it did.
Reconcile == /\ \E c \in Call : Ledger!Withdraw(c) \/ Ledger!Confirm(c)
             /\ UNCHANGED <<envVars, gateA, consumed, recordVars, pc, cmd, now,
                            did, carryVars>>

Step(c) ==
  \/ Open(c)
  \/ C3Look(c) \/ C3Engine(c) \/ C3Fill(c) \/ C3Save(c)
  \/ C4Decide(c)
  \/ C5Look(c) \/ C5Issue(c)
  \/ C6Look(c) \/ C6Preflight(c) \/ C6Replay(c) \/ C6Gate(c) \/ C6Stake(c)
  \/ C6Click(c) \/ C6Result(c) \/ EngineRaises(c) \/ C6Settle(c) \/ C6Save(c)
  \/ End(c)

Next == \/ \E c \in Call : Begin(c) \/ Step(c) \/ Crash(c)
        \/ Tick \/ Assemble \/ Reconcile

\* Every stage returns: browser and leases have their own timeouts.
Fairness == \A c \in Call : WF_vars(Step(c))

Spec == Init /\ [][Next]_vars /\ Fairness

-----------------------------------------------------------------------------
(* What must hold                                                          *)

(* Whoever pressed Submit had a permit of its own, spent, for the very     *)
(* Review it was looking at; the permit rests on a decision, the decision  *)
(* on an execution of the same bundle, and the humans the policy asks for  *)
(* approved that bundle and that Review (P2c3 to P2c6 binding checks).     *)
ClickIsAuthorised ==
  \A c \in pressed :
    LET p == permit[c]  k == permits[p]  x == executions[k.exec] IN
      /\ p \in consumed
      /\ \A d \in pressed : permit[d] = p => d = c
      /\ x.review = seen[c] /\ x.asm = cmd[c].asm
      /\ HumanGateA => cmd[k.exec].gateA
      /\ HumanGateB => k.explicit = k.exec
      /\ \E d \in decisions : /\ d.exec = k.exec /\ d.explicit = k.explicit
                              /\ d.verdict = "AUTHORIZED"

(* A completed run is backed by a click that the ledger has confirmed,     *)
(* under the permit the run names; an uncertain one by a spent permit.     *)
CompletedIsProven ==
  \A r \in runs :
    /\ Overall(r.did) = "COMPLETED" =>
         \E c \in pressed \cap confirmed : permit[c] = r.permit
    /\ Overall(r.did) = "SUBMISSION_UNCERTAIN" => r.permit \in consumed

(* A run that may have clicked never says that it is merely put off, which *)
(* invites another attempt (P2c6 reads the consumption after the engine).  *)
ClickIsNotDeferred ==
  \A c \in staked : pc[c] = "done" => Overall(did[c]) # "DEFERRED"

(* However often a Plan is run, from snapshots that are out of date, by    *)
(* commands repeated after their run was overtaken, under two permits for  *)
(* one decision: its completed runs all tell of one submission, under one  *)
(* permit, and after the first of them nobody starts another submission    *)
(* and no reconciliation takes the proven one away (P2c5 to P2c9).         *)
Submitted(r) == Overall(r.did) = "COMPLETED"

PlanSubmittedOnce ==
  [][\A r \in runs : Submitted(r) =>
       /\ \A s \in runs' : Submitted(s) => s.permit = r.permit
       /\ UNCHANGED <<staked, standing>>]_vars

(* Every run ends: with a record, or with its process.                     *)
EveryCallEnds ==
  \A c \in Call : (pc[c] = "queued") ~> (pc[c] \in {"done", "crashed"})

(* DOMAIN_AND_RULES.md 938: "Once a permit is consumed, any result not     *)
(* explicitly verified becomes SUBMISSION_UNCERTAIN."  Here: of a run that *)
(* staked its claim and ended with its records persisted.                  *)
ConsumedIsUncertain ==
  \A c \in staked : pc[c] = "done" =>
    \/ did[c]["C6"] = "PERSISTENCE"
    \/ Overall(did[c]) \in {"COMPLETED", "SUBMISSION_UNCERTAIN"}
-----------------------------------------------------------------------------
(* The facts that make these inductive.                                    *)

\* A call at C6 has a permit; one that pays has spent it.
AtC6(c) == pc[c] \in {"c6", "c6settle", "c6save"} \cup Engine
Pays(c) == pc[c] = "c6stake" \/ c \in staked

(* A Gate A receipt is of a call that was approved for its bundle, and so  *)
(* is the execution that was recorded under it.                            *)
Receipt(g, a) ==
  pc[g] # "idle" /\ cmd[g].asm = a /\ (HumanGateA => cmd[g].gateA)

ReceiptsAreApproved ==
  /\ \A a \in 1..MaxAssembly : gateA[a] # None => Receipt(gateA[a], a)
  /\ \A g \in Call : executions[g] # None => Receipt(g, executions[g].asm)
  /\ \A c \in Call :
       /\ HumanGateA /\ pc[c] \in {"c3engine", "c3review", "c3save"} =>
            cmd[c].gateA
       /\ pc[c] \in {"c3review", "c3save"} => gateA[cmd[c].asm] # None

\* After C3 a call carries a filled form of its own bundle, ...
FormsAreFilled ==
  \A c \in Call : pc[c] \in {"c4", "c5", "c5issue"} \/ AtC6(c) =>
    ref[c] # None /\ Ready(ref[c]) /\ executions[ref[c]].asm = cmd[c].asm

\* ... after C4 a decision for it, ...
Allowed(e, explicit) ==
  /\ HumanGateB => explicit = e
  /\ \E d \in decisions : /\ d.exec = e /\ d.explicit = explicit
                          /\ d.verdict = "AUTHORIZED"

FormsAreAllowed ==
  \A c \in Call : pc[c] \in {"c5", "c5issue"} \/ AtC6(c) =>
    Allowed(ref[c], cmd[c].explicit)

\* ... and after C5 a permit, which only calls past C5 have issued.
PermitsAreAllowed ==
  \A p \in Call : permits[p] # None =>
    /\ AtC6(p) \/ pc[p] \in {"end", "done", "crashed"}
    /\ Ready(permits[p].exec)
    /\ Allowed(permits[p].exec, permits[p].explicit)

PermitsAreBound ==
  \A c \in Call : AtC6(c) \/ c \in staked =>
    /\ permit[c] # None /\ permits[permit[c]] # None
    /\ executions[permits[permit[c]].exec].asm = cmd[c].asm

\* Two calls do not pay with one permit, nor for another Review than its own.
PermitsAreSpent ==
  \A c \in Call :
    /\ Pays(c) => permit[c] \in consumed
    /\ Pays(c) => \A d \in Call : Pays(d) /\ permit[d] = permit[c] => d = c
    /\ Pays(c) \/ pc[c] = "c6gate" => seen[c] = Approved(c)

StakedIsLate ==
  /\ pressed \subseteq staked
  /\ \A c \in staked : pc[c] \in {"c6click", "c6result", "c6settle", "c6save",
                                  "end", "done", "crashed"}

\* A stage has a result only after the one before it succeeded.
NotRun(c, stages) == \A s \in stages : did[c][s] = "NOT_RUN"

TrailIsOrdered ==
  \A c \in Call :
    /\ pc[c] \in {"idle", "queued", "c3", "c3engine", "c3review", "c3save"}
         => NotRun(c, Stage)
    /\ pc[c] = "c4" => NotRun(c, {"C4", "C5", "C6"})
    /\ pc[c] \in {"c5", "c5issue"} => NotRun(c, {"C5", "C6"})
    /\ AtC6(c) => NotRun(c, {"C6"})
    /\ AtC6(c) \/ c \in staked => did[c]["C5"] \in Success
    /\ pc[c] \in {"c5", "c5issue"} => did[c]["C4"] \in Success
    /\ pc[c] = "c4" => did[c]["C3"] \in Success
    /\ did[c]["C6"] # "NOT_RUN" => did[c]["C5"] \in Success
    /\ did[c]["C5"] # "NOT_RUN" => did[c]["C4"] \in Success
    /\ did[c]["C4"] # "NOT_RUN" => did[c]["C3"] \in Success

\* What is said of a click, from the engine's answer to the run record.
Proven(p) == \E c \in pressed \cap confirmed : permit[c] = p

AnswersAreTrue ==
  \A c \in Call :
    /\ out[c] = "VERIFIED" => c \in pressed \cap confirmed
    /\ pc[c] = "c6save" => permit[c] \in consumed
    /\ c \in staked /\ pc[c] = "c6settle" =>
         out[c] \in {"VERIFIED", "UNKNOWN", "UNKNOWN_BARE", "EXCEPTION"}

SubmissionsAreTrue ==
  \A p \in Call : submissions[p] # None =>
    /\ p \in consumed
    /\ submissions[p].outcome = "VERIFIED" => Proven(p)

ResultsAreTrue ==
  \A c \in Call :
    /\ did[c]["C6"] \in Success => Proven(permit[c])
    /\ did[c]["C6"] = "SUBMISSION_UNCERTAIN" => permit[c] \in consumed
    /\ c \in staked => did[c]["C6"] \notin Deferral

ChainInv ==
  /\ ReceiptsAreApproved /\ FormsAreFilled /\ FormsAreAllowed
  /\ PermitsAreAllowed /\ PermitsAreBound
ClickInv == PermitsAreSpent /\ StakedIsLate
RecordInv ==
  /\ TrailIsOrdered /\ AnswersAreTrue /\ SubmissionsAreTrue
  /\ ResultsAreTrue /\ CompletedIsProven
=============================================================================
