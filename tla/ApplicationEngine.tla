-------------------------- MODULE ApplicationEngine --------------------------
(***************************************************************************)
(* core/application_engine.py: ApplicationEngine.execute, with the ledger  *)
(* tables of core/event_ledger.py it writes, the permits of                *)
(* core/permits.py it consumes, and the adapter (adapters/protocol.py)     *)
(* it runs twice, once to reach Review and once to submit.                 *)
(*                                                                         *)
(* A Call is one invocation of execute.  Calls run in different processes  *)
(* over one ledger; each SQLite transaction, each read and each await of   *)
(* the adapter is one action, and everything else may happen in between.   *)
(* A call may die before any action, and be cancelled or fail on the       *)
(* ledger where execute lets that through (Fails).  Leases are those of    *)
(* LeaseTable, which Leases implements, seen without a clock (see Take).   *)
(*                                                                         *)
(* Abstractions.  A bundle is its run; a Review is its fingerprint; the    *)
(* statuses of an adapter that stop a run without a click and are handled  *)
(* alike (NEEDS_USER..., FAILED_UNSUPPORTED, ...) are one, "NEEDS_USER".   *)
(* A permit's expiry, signature and token store are a refusal that may     *)
(* happen at any verification.                                             *)
(***************************************************************************)
EXTENDS Naturals, FiniteSets

CONSTANTS
  Call,        \* invocations of execute
  Run,         \* application runs (run_id)
  Posting,     \* durable posting identities (hash_job_url)
  PostingOf,   \* the posting each run applies to
  Legacy,      \* postings already submitted under a pre-native-key hash
  Review,      \* Review fingerprints
  Browser,     \* the browser profile's lease
  Permit,      \* externally issued plan-scoped submission permits (jti)
  Binds,       \* Binds[p] : the run and the Review permit p is bound to
  Modes,       \* how Gate B is asked for, a subset of AllModes
  Lending,     \* whether callers lend a browser lease, a subset of BOOLEAN
  None

AllModes == {"prepare", "codex", "human", "permit"}

ASSUME EngineAssumption ==
  /\ PostingOf \in [Run -> Posting]
  /\ Legacy \subseteq Posting
  /\ Binds \in [Permit -> [run : Run, review : Review]]
  /\ Modes \subseteq AllModes
  /\ Lending \subseteq BOOLEAN
  /\ Browser \notin Run
  /\ None \notin Call \cup Review \cup Permit

VARIABLES
  \* the ledger
  runs,        \* runs[r] : state of the run row
  latest,      \* latest[r] : fingerprint of the last Review recorded for r
  intent,      \* intent[c] : status of the submission intent c reserved
  keyed,       \* keyed[c] : the Review in that intent's idempotency key
  evidence,    \* calls whose intent has a submission_evidence row
  spent,       \* spent[p] : the call that consumed external permit p
  holder,      \* holder[r] : the call whose token is in r's lease row
  \* the invocations
  pc, req,     \* program counter, and the arguments (fixed from the start)
  prior,       \* previously_reviewed_hash
  fp,          \* review_hash
  out,         \* the outcome being built
  eligible,    \* that outcome carries eligible submission evidence
  unmoved,     \* calls whose get_run still has the row's state_version
  after,       \* where _record_outcome returns to
  paid,        \* this call consumed its Gate B permit
  \* history
  clicked,     \* calls that pressed Submit
  reviewed     \* <<call, run, fingerprint>> of every Review recorded

ledgerVars == <<runs, latest, intent, keyed, evidence, spent>>
localVars  == <<prior, fp, out, eligible, unmoved, after, paid>>
vars == <<runs, latest, intent, keyed, evidence, spent, holder,
          pc, req, prior, fp, out, eligible, unmoved, after, paid,
          clicked, reviewed>>

-----------------------------------------------------------------------------
(* Types                                                                   *)

PC == {"idle", "preflight", "prior", "runLease", "browserLease", "review",
       "readRun", "writeRun", "decide", "form", "checkRun", "checkBrowser",
       "consume", "reserve", "start", "click", "observe", "settle",
       "unknown", "closing", "return", "done", "crashed"}

Status == {"REVIEW_READY", "NEEDS_USER", "AWAITING_GATE_A",
           "AWAITING_GATE_B", "SKIPPED_POLICY", "FAILED_RETRYABLE",
           "INTERNAL_ERROR", "SUBMIT_UNKNOWN", "SUBMITTED_VERIFIED"}

IntentStatus == {"NONE", "PENDING", "SUBMITTING", "UNKNOWN", "VERIFIED",
                 "ABORTED"}

Active == {"PENDING", "SUBMITTING", "UNKNOWN", "VERIFIED"}

Request == [run : Run, mode : AllModes, approved : Review \cup {None},
            permit : Permit \cup {None}, lent : BOOLEAN]

(* The arguments execute accepts: a plan-scoped permit must bind this run  *)
(* and the approved Review (a ValueError otherwise, before any write);     *)
(* only a human Gate B looks at approved_review_hash.  lent: the caller    *)
(* passes a browser lease it holds itself.                                 *)
Accepted(q) ==
  /\ q.mode \in Modes /\ q.lent \in Lending
  /\ q.mode = "permit" =>
       /\ q.permit \in Permit
       /\ Binds[q.permit] = [run |-> q.run, review |-> q.approved]
  /\ q.mode # "permit" => q.permit = None
  /\ q.mode \in {"prepare", "codex"} => q.approved = None

Resource == Run \cup {Browser}     \* "run:<run_id>" and the browser

LedgerTyped ==
  /\ runs \in [Run -> Status \cup {"QUEUED"}]
  /\ latest \in [Run -> Review \cup {None}]
  /\ intent \in [Call -> IntentStatus]
  /\ keyed \in [Call -> Review \cup {None}]
  /\ evidence \subseteq Call
  /\ spent \in [Permit -> Call \cup {None}]
  /\ holder \in [Resource -> Call \cup {None}]
  /\ clicked \subseteq Call
  /\ reviewed \subseteq Call \X Run \X Review

LocalTyped ==
  /\ req \in [Call -> {q \in Request : Accepted(q)}]
  /\ prior \in [Call -> Review \cup {None}]
  /\ fp \in [Call -> Review \cup {None}]
  /\ eligible \in [Call -> BOOLEAN]
  /\ unmoved \subseteq Call
  /\ paid \in [Call -> BOOLEAN]

\* An outcome about to be written is one the run row may hold.
ControlTyped ==
  /\ pc \in [Call -> PC]
  /\ out \in [Call -> Status \cup {"NONE", "REFUSED", "RAISED"}]
  /\ after \in [Call -> {"decide", "closing", "return"}]
  /\ \A c \in Call : pc[c] \in {"settle", "readRun", "writeRun"}
                     => out[c] \in Status

TypeOK == LedgerTyped /\ LocalTyped /\ ControlTyped

-----------------------------------------------------------------------------
(* Shorthands                                                              *)

RunOf(c)        == req[c].run
Key(c)          == PostingOf[RunOf(c)]
SamePosting(c, d) == Key(c) = Key(d)
Submits(c)      == req[c].mode # "prepare"
External(c)     == req[c].mode = "permit"

\* Names that begin with Slip are mistakes a maintainer could make in the
\* definition that follows; PROJECT.json says which property notices each.

\* An active row found under any of the hashes of c's posting.
ActiveRivals(c) == {d \in Call : SamePosting(c, d) /\ intent[d] \in Active}
SlipOldHashes(c) == FALSE      \* slip: only the current hash is looked up
Submitted(c)    == Key(c) \in Legacy

Go(c, to)       == pc' = [pc EXCEPT ![c] = to]
Report(c, s)    == out' = [out EXCEPT ![c] = s]

\* _record_outcome(s), then on to the given place.
Record(c, s, then) ==
  /\ Report(c, s)
  /\ after' = [after EXCEPT ![c] = then]
  /\ Go(c, "readRun")

\* An exception that execute does not catch: the lease stack is unwound and
\* the caller gets no outcome.
SlipRaise(c) ==                \* slip: the lease stack is not unwound
  /\ Report(c, "RAISED")
  /\ Go(c, "return")
Raise(c) ==
  /\ Report(c, "RAISED")
  /\ Go(c, "closing")

Init ==
  /\ runs = [r \in Run |-> "QUEUED"]
  /\ latest = [r \in Run |-> None]
  /\ intent = [c \in Call |-> "NONE"]
  /\ keyed = [c \in Call |-> None]
  /\ evidence = {}
  /\ spent = [p \in Permit |-> None]
  /\ holder = [r \in Resource |-> None]
  /\ pc = [c \in Call |-> "idle"]
  /\ req \in [Call -> {q \in Request : Accepted(q)}]
  /\ prior = [c \in Call |-> None]
  /\ fp = [c \in Call |-> None]
  /\ out = [c \in Call |-> "NONE"]
  /\ eligible = [c \in Call |-> FALSE]
  /\ unmoved = {}
  /\ after = [c \in Call |-> "closing"]
  /\ paid = [c \in Call |-> FALSE]
  /\ clicked = {}
  /\ reviewed = {}

-----------------------------------------------------------------------------
(* LeaseTable with the clock taken away.  A lease may lapse at any moment, *)
(* and a late heartbeat may bring it back while nobody has taken the row,  *)
(* so whether a held lease has lapsed is free to choose at every look: an  *)
(* acquisition may succeed or fail on a held row, and a check by the       *)
(* holder itself may fail.                                                 *)
Take(r, c)   == holder' = [holder EXCEPT ![r] = c]
GiveUp(r, c) == holder' = [holder EXCEPT ![r] = IF @ = c THEN None ELSE @]
Held(r, c)   == holder[r] = c

-----------------------------------------------------------------------------
(* Before the browser                                                      *)

(* A caller that lends the browser acquires its lease first, under the     *)
(* run's name, and calls execute inside it.                                *)
Begin(c) ==
  /\ pc[c] = "idle"
  /\ Go(c, "preflight")
  /\ IF req[c].lent THEN Take(Browser, c) ELSE UNCHANGED holder
  /\ UNCHANGED <<ledgerVars, req, localVars, clicked, reviewed>>

(* submission_preflight: one read of the intents of this posting.          *)
Preflight(c) ==
  /\ pc[c] = "preflight"
  /\ \/ /\ ~Submitted(c) /\ ActiveRivals(c) = {}
        /\ Go(c, "prior")
        /\ UNCHANGED <<out, after>>
     \/ /\ \/ Submitted(c)
           \/ \E d \in ActiveRivals(c) : intent[d] = "VERIFIED"
        /\ Record(c, "SKIPPED_POLICY", "return")
     \/ /\ \E d \in ActiveRivals(c) : intent[d] # "VERIFIED"
        /\ Record(c, "SUBMIT_UNKNOWN", "return")
  /\ UNCHANGED <<ledgerVars, holder, req, prior, fp, eligible, unmoved, paid,
                 clicked, reviewed>>

(* latest_review_outcome is read; then policy blockers, the Gate A         *)
(* decision and, unless a permit came from outside, a Gate A permit is     *)
(* issued and consumed, which touches nothing another call reads.          *)
Prior(c) ==
  /\ pc[c] = "prior"
  /\ prior' = [prior EXCEPT ![c] = latest[RunOf(c)]]
  /\ \/ Record(c, "SKIPPED_POLICY", "return")
     \/ ~External(c) /\ Record(c, "AWAITING_GATE_A", "return")
     \/ Go(c, "runLease") /\ UNCHANGED <<out, after>>
  /\ UNCHANGED <<ledgerVars, holder, req, fp, eligible, unmoved, paid,
                 clicked, reviewed>>

-----------------------------------------------------------------------------
(* Leases                                                                  *)

(* LeaseUnavailableError: the stack is unwound first, then the outcome     *)
(* is recorded, outside every lease.                                       *)
Refuse(c) ==
  /\ Report(c, "REFUSED")
  /\ Go(c, "closing")
  /\ UNCHANGED holder

SlipRunLease(c) ==             \* slip: waits for the row instead of refusing
  /\ pc[c] = "runLease"
  /\ holder[RunOf(c)] = None
  /\ Take(RunOf(c), c)
  /\ Go(c, "browserLease")
  /\ UNCHANGED <<ledgerVars, req, prior, fp, out, eligible, unmoved, after,
                 paid, clicked, reviewed>>

RunLease(c) ==
  /\ pc[c] = "runLease"
  /\ \/ Take(RunOf(c), c) /\ Go(c, "browserLease") /\ UNCHANGED out
     \/ holder[RunOf(c)] # None /\ Refuse(c)
  /\ UNCHANGED <<ledgerVars, req, prior, fp, eligible, unmoved, after, paid,
                 clicked, reviewed>>

(* Its own browser lease, or the lent one checked against the table.       *)
BrowserLease(c) ==
  /\ pc[c] = "browserLease"
  /\ IF req[c].lent
     THEN \/ Held(Browser, c) /\ Go(c, "review") /\ UNCHANGED <<out, holder>>
          \/ Refuse(c)
     ELSE \/ Take(Browser, c) /\ Go(c, "review") /\ UNCHANGED out
          \/ holder[Browser] # None /\ Refuse(c)
  /\ UNCHANGED <<ledgerVars, req, prior, fp, eligible, unmoved, after, paid,
                 clicked, reviewed>>

-----------------------------------------------------------------------------
(* Recording an outcome                                                    *)

(* _record_outcome: get_run ...                                            *)
ReadRun(c) ==
  /\ pc[c] = "readRun"
  /\ unmoved' = unmoved \cup {c}
  /\ Go(c, "writeRun")
  /\ UNCHANGED <<ledgerVars, holder, req, prior, fp, out, eligible, after,
                 paid, clicked, reviewed>>

(* ... then compare_and_set_state, which appends the event that            *)
(* latest_review_outcome looks for; StateConflictError otherwise.          *)
WriteRun(c) ==
  /\ pc[c] = "writeRun"
  /\ \/ /\ c \in unmoved
        /\ runs' = [runs EXCEPT ![RunOf(c)] = out[c]]
        /\ unmoved' = {d \in unmoved : RunOf(d) # RunOf(c)}
        /\ latest' = IF out[c] = "REVIEW_READY"
                     THEN [latest EXCEPT ![RunOf(c)] = fp[c]] ELSE latest
        /\ reviewed' = IF out[c] = "REVIEW_READY" /\ fp[c] # None
                       THEN reviewed \cup {<<c, RunOf(c), fp[c]>>}
                       ELSE reviewed
        /\ Go(c, after[c])
        /\ UNCHANGED out
     \/ /\ c \notin unmoved
        /\ Raise(c)
        /\ UNCHANGED <<runs, latest, unmoved, reviewed>>
  /\ UNCHANGED <<intent, keyed, evidence, spent, holder, req, prior, fp,
                 eligible, after, paid, clicked>>

-----------------------------------------------------------------------------
(* Reaching Review, and Gate B                                             *)

(* The adapter fills the form without request_submit.  A success reported  *)
(* at this point is not trusted and becomes SUBMIT_UNKNOWN, as does a      *)
(* confirmation page nobody's click explains.                              *)
ReachReview(c) ==
  /\ pc[c] = "review"
  /\ \/ \E f \in Review \cup {None} :
          /\ fp' = [fp EXCEPT ![c] = f]
          /\ Record(c, "REVIEW_READY", "decide")
     \/ \E s \in {"NEEDS_USER", "FAILED_RETRYABLE", "SUBMIT_UNKNOWN"} :
          /\ Record(c, s, "closing")
          /\ UNCHANGED fp
  /\ UNCHANGED <<ledgerVars, holder, req, prior, eligible, unmoved, paid,
                 clicked, reviewed>>

(* A human approves the Review an earlier invocation recorded, and this    *)
(* invocation must have reached the same one.                              *)
SlipHumanApproves(c) ==      \* slip: approved for this very run's Review
  /\ req[c].approved # None
  /\ req[c].approved = fp[c]

HumanApproves(c) ==
  /\ req[c].approved # None
  /\ prior[c] # None
  /\ req[c].approved = prior[c]
  /\ req[c].approved = fp[c]

(* Gate B.  The policy may let the program approve itself; an external     *)
(* permit must be bound to the Review just reached.                        *)
GateB(c) ==
  CASE req[c].mode = "codex"  -> TRUE
    [] req[c].mode = "human"  -> HumanApproves(c)
    [] req[c].mode = "permit" -> req[c].approved = fp[c]

Decide(c) ==
  /\ pc[c] = "decide"
  /\ \/ /\ ~Submits(c)
        /\ Go(c, "closing")
        /\ UNCHANGED <<out, after>>
     \/ /\ Submits(c) /\ fp[c] = None
        /\ Record(c, "INTERNAL_ERROR", "closing")
     \/ /\ Submits(c) /\ fp[c] # None
        /\ ~GateB(c) \/ External(c)    \* verify may reject the permit
        /\ Record(c, "AWAITING_GATE_B", "closing")
     \/ /\ Submits(c) /\ fp[c] # None /\ GateB(c)
        /\ Go(c, "form")
        /\ UNCHANGED <<out, after>>
  /\ UNCHANGED <<ledgerVars, holder, req, prior, fp, eligible, unmoved, paid,
                 clicked, reviewed>>

(* The adapter runs again with request_submit.  It may stop before the     *)
(* validator, claim a success nobody authorised, raise (FAILED_RETRYABLE   *)
(* while no intent is reserved), or reach another Review, which the        *)
(* validator refuses; otherwise the validator goes on.                     *)
SubmitForm(c) ==
  /\ pc[c] = "form"
  /\ \/ /\ \E s \in {"NEEDS_USER", "FAILED_RETRYABLE", "SUBMIT_UNKNOWN",
                     "SUBMITTED_VERIFIED", "AWAITING_GATE_B"} : Report(c, s)
        /\ Go(c, "settle")
     \/ Go(c, "checkRun") /\ UNCHANGED out
  /\ UNCHANGED <<ledgerVars, holder, req, prior, fp, eligible, unmoved, after,
                 paid, clicked, reviewed>>

-----------------------------------------------------------------------------
(* validate_and_reserve, called by the adapter just before the click       *)

Denied(c, s) == Report(c, s) /\ Go(c, "settle")

CheckLease(c, r, here, next) ==
  /\ pc[c] = here
  /\ \/ Held(r, c) /\ Go(c, next) /\ UNCHANGED out
     \/ Denied(c, "FAILED_RETRYABLE")
  /\ UNCHANGED <<ledgerVars, holder, req, prior, fp, eligible, unmoved, after,
                 paid, clicked, reviewed>>

CheckRunLease(c)     == CheckLease(c, RunOf(c), "checkRun",
                                   "checkBrowser")
CheckBrowserLease(c) == CheckLease(c, Browser, "checkBrowser", "consume")

(* permits.consume: one row per jti.  A permit issued by this invocation   *)
(* is its own; an external one may have been used by another.              *)
SlipConsume(c) ==              \* slip: INSERT OR REPLACE
  /\ pc[c] = "consume"
  /\ spent' = IF External(c)
              THEN [spent EXCEPT ![req[c].permit] = c] ELSE spent
  /\ paid' = [paid EXCEPT ![c] = TRUE]
  /\ Go(c, "reserve")
  /\ UNCHANGED <<runs, latest, intent, keyed, evidence, holder, req, prior,
                 fp, out, eligible, unmoved, after, clicked, reviewed>>

Consume(c) ==
  /\ pc[c] = "consume"
  /\ \/ /\ External(c) => spent[req[c].permit] = None
        /\ spent' = IF External(c)
                    THEN [spent EXCEPT ![req[c].permit] = c] ELSE spent
        /\ paid' = [paid EXCEPT ![c] = TRUE]
        /\ Go(c, "reserve")
        /\ UNCHANGED out
     \/ /\ \E s \in {"AWAITING_GATE_B", "FAILED_RETRYABLE"} : Denied(c, s)
        /\ UNCHANGED <<spent, paid>>
  /\ UNCHANGED <<runs, latest, intent, keyed, evidence, holder, req, prior,
                 fp, eligible, unmoved, after, clicked, reviewed>>

(* The two conditions under which create_submission_intent refuses: an     *)
(* active row of the same posting under any of its hashes, or any row at   *)
(* all, even an aborted one, with the same idempotency key.                *)
SlipTaken(c)    == Submitted(c) \/ \E d \in ActiveRivals(c) :
                                     intent[d] = "VERIFIED"
PostingTaken(c) == Submitted(c) \/ ActiveRivals(c) # {}
KeyTaken(c)     == \E d \in Call : /\ intent[d] # "NONE"
                                   /\ RunOf(d) = RunOf(c)
                                   /\ keyed[d] = fp[c]

Reserve(c) ==
  /\ pc[c] = "reserve"
  /\ \/ /\ ~PostingTaken(c) /\ ~KeyTaken(c)
        /\ intent' = [intent EXCEPT ![c] = "PENDING"]
        /\ keyed' = [keyed EXCEPT ![c] = fp[c]]
        /\ Go(c, "start")
        /\ UNCHANGED out
     \/ /\ PostingTaken(c) \/ KeyTaken(c)
        /\ Denied(c, "SKIPPED_POLICY")
        /\ UNCHANGED <<intent, keyed>>
     \/ /\ Denied(c, "FAILED_RETRYABLE")      \* the write fails
        /\ UNCHANGED <<intent, keyed>>
  /\ UNCHANGED <<runs, latest, evidence, spent, holder, req, prior, fp,
                 eligible, unmoved, after, paid, clicked, reviewed>>

(* mark_submission_started; its failure goes through the adapter, which    *)
(* reports FAILED_RETRYABLE.                                               *)
Start(c) ==
  /\ pc[c] = "start"
  /\ \/ /\ intent[c] = "PENDING"
        /\ intent' = [intent EXCEPT ![c] = "SUBMITTING"]
        /\ Go(c, "click")
        /\ UNCHANGED out
     \/ /\ Denied(c, "FAILED_RETRYABLE")
        /\ UNCHANGED intent
  /\ UNCHANGED <<runs, latest, keyed, evidence, spent, holder, req, prior,
                 fp, eligible, unmoved, after, paid, clicked, reviewed>>

-----------------------------------------------------------------------------
(* The click and what comes of it                                          *)

Click(c) ==
  /\ pc[c] = "click"
  /\ clicked' = clicked \cup {c}
  /\ Go(c, "observe")
  /\ UNCHANGED <<ledgerVars, holder, req, localVars, reviewed>>

(* The page says it was submitted already, or the control is gone.         *)
NoClick(c) ==
  /\ pc[c] = "click"
  /\ \E s \in {"SKIPPED_POLICY", "FAILED_RETRYABLE"} : Denied(c, s)
  /\ UNCHANGED <<ledgerVars, holder, req, prior, fp, eligible, unmoved, after,
                 paid, clicked, reviewed>>

(* What the adapter reports after the click: a confirmation with or        *)
(* without evidence of an eligible kind, none, or its own failure.         *)
Observe(c) ==
  /\ pc[c] = "observe"
  /\ \/ /\ Report(c, "SUBMITTED_VERIFIED")
        /\ \E e \in BOOLEAN : eligible' = [eligible EXCEPT ![c] = e]
     \/ /\ \E s \in {"SUBMIT_UNKNOWN", "FAILED_RETRYABLE"} : Report(c, s)
        /\ UNCHANGED eligible
  /\ Go(c, "settle")
  /\ UNCHANGED <<ledgerVars, holder, req, prior, fp, unmoved, after, paid,
                 clicked, reviewed>>

(* After the second adapter run.  Without a reserved intent the outcome    *)
(* stands, except that a success is not believed.  With one, a success     *)
(* with eligible evidence verifies the intent, and everything else is      *)
(* SUBMIT_UNKNOWN, never retryable; a started intent is then parked.       *)
Trusted(c) == out[c] = "SUBMITTED_VERIFIED" /\ eligible[c]

SlipSettleWithout(c) ==        \* slip: the adapter is believed
  /\ intent[c] = "NONE"
  /\ Record(c, out[c], "closing")
  /\ UNCHANGED <<intent, evidence>>

SettleWithout(c) ==
  /\ intent[c] = "NONE"
  /\ Record(c, IF out[c] = "SUBMITTED_VERIFIED" THEN "SUBMIT_UNKNOWN"
               ELSE out[c], "closing")
  /\ UNCHANGED <<intent, evidence>>

SlipSettleVerified(c) ==       \* slip: the intent's status is not checked
  /\ intent[c] # "NONE" /\ Trusted(c)
  /\ intent' = [intent EXCEPT ![c] = "VERIFIED"]
  /\ evidence' = evidence \cup {c}
  /\ Record(c, "SUBMITTED_VERIFIED", "closing")

SettleVerified(c) ==
  /\ intent[c] # "NONE" /\ Trusted(c)
  /\ \/ /\ intent[c] \in {"SUBMITTING", "UNKNOWN"}
        /\ intent' = [intent EXCEPT ![c] = "VERIFIED"]
        /\ evidence' = evidence \cup {c}
        /\ Record(c, "SUBMITTED_VERIFIED", "closing")
     \/ /\ intent[c] \notin {"SUBMITTING", "UNKNOWN"}
        /\ Raise(c)
        /\ UNCHANGED <<intent, evidence, after>>

SlipNotParked(c) ==            \* slip: a started intent is left as it is
  /\ intent[c] # "NONE" /\ ~Trusted(c)
  /\ Record(c, "SUBMIT_UNKNOWN", "closing")
  /\ UNCHANGED <<intent, evidence>>

SlipAdapterStatus(c) ==        \* slip: the adapter's own status is recorded
  /\ intent[c] # "NONE" /\ ~Trusted(c)
  /\ Record(c, IF out[c] = "SUBMITTED_VERIFIED" THEN "SUBMIT_UNKNOWN"
               ELSE out[c], "closing")
  /\ UNCHANGED <<intent, evidence>>

SettleUnproven(c) ==
  /\ intent[c] # "NONE" /\ ~Trusted(c)
  /\ \/ /\ intent[c] = "SUBMITTING"
        /\ Go(c, "unknown")
        /\ UNCHANGED <<out, after>>
     \/ /\ intent[c] # "SUBMITTING"
        /\ Record(c, "SUBMIT_UNKNOWN", "closing")
  /\ UNCHANGED <<intent, evidence>>

Settle(c) ==
  /\ pc[c] = "settle"
  /\ SettleWithout(c) \/ SettleVerified(c) \/ SettleUnproven(c)
  /\ UNCHANGED <<runs, latest, keyed, spent, holder, req, prior, fp,
                 eligible, unmoved, paid, clicked, reviewed>>

(* mark_submission_unknown, after the status was read in a transaction of  *)
(* its own.                                                                *)
MarkUnknown(c) ==
  /\ pc[c] = "unknown"
  /\ \/ /\ intent[c] = "SUBMITTING"
        /\ intent' = [intent EXCEPT ![c] = "UNKNOWN"]
        /\ Record(c, "SUBMIT_UNKNOWN", "closing")
     \/ /\ intent[c] # "SUBMITTING"
        /\ Raise(c)
        /\ UNCHANGED <<intent, after>>
  /\ UNCHANGED <<runs, latest, keyed, evidence, spent, holder, req, prior,
                 fp, eligible, unmoved, paid, clicked, reviewed>>

-----------------------------------------------------------------------------
(* Leaving                                                                 *)

(* The AsyncExitStack releases the browser lease, if it is this call's     *)
(* own, then the run lease.  A row that a successor holds is left alone.   *)
OnStack(c) == {r \in Resource :
                 holder[r] = c /\ ~(r = Browser /\ req[c].lent)}

Unwind(c) ==
  /\ pc[c] = "closing"
  /\ OnStack(c) # {}
  /\ LET r == IF Browser \in OnStack(c) THEN Browser ELSE RunOf(c)
     IN  GiveUp(r, c)
  /\ UNCHANGED <<ledgerVars, pc, req, localVars, clicked, reviewed>>

SlipUnwound(c) ==              \* slip: the refusal is recorded as it is
  /\ pc[c] = "closing"
  /\ OnStack(c) = {}
  /\ IF out[c] = "REFUSED" THEN Record(c, out[c], "return")
                         ELSE Go(c, "return") /\ UNCHANGED <<out, after>>
  /\ UNCHANGED <<ledgerVars, holder, req, prior, fp, eligible, unmoved, paid,
                 clicked, reviewed>>

Unwound(c) ==
  /\ pc[c] = "closing"
  /\ OnStack(c) = {}
  /\ \/ /\ out[c] = "REFUSED"
        /\ Record(c, "FAILED_RETRYABLE", "return")
     \/ /\ out[c] # "REFUSED"
        /\ Go(c, "return")
        /\ UNCHANGED <<out, after>>
  /\ UNCHANGED <<ledgerVars, holder, req, prior, fp, eligible, unmoved, paid,
                 clicked, reviewed>>

\* Local variables die with the invocation.
Forget(c) ==
  /\ prior' = [prior EXCEPT ![c] = None]
  /\ fp' = [fp EXCEPT ![c] = None]
  /\ eligible' = [eligible EXCEPT ![c] = FALSE]
  /\ unmoved' = unmoved \ {c}
  /\ after' = [after EXCEPT ![c] = "closing"]

(* execute returns or raises, and the lender releases its browser lease.   *)
Return(c) ==
  /\ pc[c] = "return"
  /\ Go(c, "done")
  /\ GiveUp(Browser, c)
  /\ Forget(c)
  /\ UNCHANGED <<ledgerVars, req, out, paid, clicked, reviewed>>

(* The process dies; the tables keep what was committed.                   *)
Crash(c) ==
  /\ pc[c] \notin {"idle", "done", "crashed"}
  /\ Go(c, "crashed")
  /\ Report(c, "NONE")
  /\ Forget(c)
  /\ UNCHANGED <<ledgerVars, holder, req, paid, clicked, reviewed>>

(* An exception that execute does not catch.  The ledger fails anywhere    *)
(* outside the adapter's second run; or the task is cancelled while it     *)
(* awaits a lease or the adapter, also before or after the click, and also *)
(* in the second run, since CancelledError is no Exception.  What was      *)
(* committed stays as it is, a started intent included.                    *)
Uncaught == {"preflight", "prior", "runLease", "browserLease", "review",
             "readRun", "writeRun", "decide", "form", "click", "observe",
             "settle", "unknown"}

Fails(c) ==
  /\ pc[c] \in Uncaught
  /\ Raise(c)
  /\ Forget(c)
  /\ UNCHANGED <<ledgerVars, holder, req, paid, clicked, reviewed>>

-----------------------------------------------------------------------------
(* The person who reconciles an uncertain submission through the ledger    *)

(* transition_submission_intent(..., ABORTED)                              *)
Abort(c) ==
  /\ intent[c] \in {"PENDING", "SUBMITTING", "UNKNOWN"}
  /\ intent' = [intent EXCEPT ![c] = "ABORTED"]
  /\ UNCHANGED <<runs, latest, keyed, evidence, spent, holder, pc, req,
                 localVars, clicked, reviewed>>

(* mark_submission_verified with evidence found by hand                    *)
Attest(c) ==
  /\ intent[c] \in {"SUBMITTING", "UNKNOWN"}
  /\ intent' = [intent EXCEPT ![c] = "VERIFIED"]
  /\ evidence' = evidence \cup {c}
  /\ UNCHANGED <<runs, latest, keyed, spent, holder, pc, req, localVars,
                 clicked, reviewed>>

Step(c) ==
  \/ Preflight(c) \/ Prior(c)
  \/ RunLease(c) \/ BrowserLease(c)
  \/ ReadRun(c) \/ WriteRun(c)
  \/ ReachReview(c) \/ Decide(c) \/ SubmitForm(c)
  \/ CheckRunLease(c) \/ CheckBrowserLease(c)
  \/ Consume(c) \/ Reserve(c) \/ Start(c)
  \/ Click(c) \/ NoClick(c) \/ Observe(c)
  \/ Settle(c) \/ MarkUnknown(c)
  \/ Unwind(c) \/ Unwound(c) \/ Return(c)

Next ==
  \/ \E c \in Call : \/ Begin(c) \/ Step(c) \/ Fails(c) \/ Crash(c)
                     \/ Abort(c) \/ Attest(c)

Spec == Init /\ [][Next]_vars

(* A call that has begun keeps running until it ends or its process dies:  *)
(* every step is the program's own, or an adapter whose waits are bounded  *)
(* by page timeouts.  Nothing is assumed of people, clocks, failures or    *)
(* crashes.                                                                *)
Fairness == \A c \in Call : WF_vars(Step(c))

FairSpec == Spec /\ Fairness

-----------------------------------------------------------------------------
(* Properties                                                              *)

(* However calls for one posting overlap, crash and are restarted, Submit  *)
(* is pressed at most once, unless a human has aborted one of the          *)
(* submissions in between; and never for a posting already submitted under *)
(* one of its older hashes (README.md 192).                                *)
AtMostOneClick ==
  /\ \A c, d \in clicked :
       c # d /\ SamePosting(c, d)
         => intent[c] = "ABORTED" \/ intent[d] = "ABORTED"
  /\ \A c \in clicked : Key(c) \notin Legacy

(* Behind every click there is a Gate B permit that only this call         *)
(* consumed, a durable intent for the Review it was approved for, and,     *)
(* when a human approves, that Review was recorded by another invocation   *)
(* (application_engine.py 355-363, 552-594).                               *)
ClickIsAuthorised ==
  \A c \in clicked :
    /\ paid[c] /\ Submits(c)
    /\ intent[c] # "NONE"
    /\ External(c) => /\ spent[req[c].permit] = c
                      /\ Binds[req[c].permit].review = keyed[c]
    /\ req[c].mode = "human" =>
         /\ req[c].approved = keyed[c]
         /\ \E d \in Call \ {c} : <<d, RunOf(c), keyed[c]>> \in reviewed

(* What execute tells its caller is never rosier than what happened: a     *)
(* retryable, skipped or waiting outcome means no click and no reservation *)
(* of this call's; SUBMITTED_VERIFIED means a click and accepted evidence  *)
(* (application_engine.py 776-846).                                        *)
OutcomeIsHonest ==
  \A c \in Call :
    pc[c] = "done" =>
      /\ out[c] \notin {"SUBMIT_UNKNOWN", "SUBMITTED_VERIFIED", "RAISED"}
           => c \notin clicked /\ intent[c] = "NONE"
      /\ out[c] = "SUBMITTED_VERIFIED"
           => c \in clicked /\ intent[c] = "VERIFIED" /\ c \in evidence

(* The run row never says SUBMITTED_VERIFIED without a verified intent of  *)
(* that run and an evidence row behind it, although the two are written in *)
(* different transactions (README.md 194).                                 *)
VerifiedRunHasProof ==
  \A r \in Run :
    runs[r] = "SUBMITTED_VERIFIED"
      => \E c \in Call : /\ RunOf(c) = r
                         /\ intent[c] = "VERIFIED"
                         /\ c \in evidence

(* A call that has ended holds nothing, whichever way it ended             *)
(* (leases.py 275-287, application_engine.py 470).                         *)
LeasesReturned ==
  \A c \in Call : pc[c] = "done" => \A r \in Resource : holder[r] # c

(* The ledger implements the abstract promise.                             *)
Promise == INSTANCE SubmissionPromise WITH
  Claim     <- Call,
  posting   <- [c \in Call |-> Key(c)],
  staked    <- {c \in Call : intent[c] # "NONE"},
  standing  <- {c \in Call : intent[c] \in Active},
  pressed   <- clicked,
  confirmed <- {c \in Call : intent[c] = "VERIFIED"}

KeepsThePromise == Promise!PromiseSpec

(* Every call comes to an end: no combination of refused leases, denied    *)
(* permits, conflicts and aborted intents leaves it waiting.               *)
EveryCallEnds ==
  \A c \in Call : pc[c] # "idle" ~> pc[c] \in {"done", "crashed"}

(* Whoever gets an answer from execute finds no submission of his own     *)
(* SUBMITTING: a row that stays so belongs to a call that has crashed, or  *)
(* that a cancellation, a failing ledger or a human's move has ended with  *)
(* an exception (application_engine.py 705-740, 787-805).                  *)
NothingLeftSubmitting ==
  \A c \in Call :
    pc[c] = "done" /\ out[c] # "RAISED" => intent[c] # "SUBMITTING"

(* DOMAIN_AND_RULES.md 1518: "SUBMIT_UNKNOWN is a hard stop. Human         *)
(* reconciliation may attach eligible submission evidence or close the     *)
(* run; it never resumes Submit."                                          *)
SubmitUnknownIsHardStop ==
  \A c \in Call :
    []((pc[c] = "idle" /\ runs[RunOf(c)] = "SUBMIT_UNKNOWN")
         => [](c \notin clicked))

(* DOMAIN_AND_RULES.md 1489-1514: no edge leaves SUBMITTED_VERIFIED.       *)
VerifiedRunIsTerminal ==
  [][\A r \in Run : runs[r] = "SUBMITTED_VERIFIED"
       => runs'[r] = "SUBMITTED_VERIFIED"]_vars

-----------------------------------------------------------------------------
(* The facts that make AtMostOneClick and ClickIsAuthorised inductive.     *)

\* Places an invocation passes before it asks for an intent.
BeforeReserving(c) ==
  \/ pc[c] \in {"idle", "preflight", "prior", "runLease", "browserLease",
                "review", "decide", "form", "checkRun", "checkBrowser",
                "consume", "reserve"}
  \/ pc[c] \in {"readRun", "writeRun"} /\ after[c] = "decide"

OneStandingIntent ==
  /\ \A c, d \in Call :
       c # d /\ SamePosting(c, d)
         => intent[c] \notin Active \/ intent[d] \notin Active
  /\ \A c \in Call : intent[c] # "NONE" => ~Submitted(c)

IntentBeforeClick ==
  /\ \A c \in clicked : intent[c] # "NONE"
  /\ \A c \in Call : BeforeReserving(c) => intent[c] = "NONE"
  /\ \A c \in Call : pc[c] \in {"start", "click"}
                     => intent[c] # "NONE" /\ c \notin clicked

\* What c has shown for the Review f it is about to submit.
Entitled(c, f) ==
  /\ Submits(c)
  /\ External(c) => Binds[req[c].permit].review = f
  /\ req[c].mode = "human" =>
       /\ req[c].approved = f
       /\ \E d \in Call \ {c} : <<d, RunOf(c), f>> \in reviewed

Paid(c) == paid[c] /\ (External(c) => spent[req[c].permit] = c)

ReviewsAreRemembered ==
  /\ \A r \in Run : latest[r] # None =>
       \E d \in Call : <<d, r, latest[r]>> \in reviewed
  /\ \A c \in Call : prior[c] # None =>
       \E d \in Call \ {c} : <<d, RunOf(c), prior[c]>> \in reviewed
  /\ \A c \in Call : pc[c] \in {"idle", "preflight", "prior"} =>
       \A r \in Run, f \in Review : <<c, r, f>> \notin reviewed

EntitledBeforeIntent ==
  \A c \in Call :
    /\ intent[c] # "NONE" => Paid(c) /\ Entitled(c, keyed[c])
    /\ pc[c] = "reserve" => Paid(c)
    /\ pc[c] \in {"form", "checkRun", "checkBrowser", "consume", "reserve"}
         => Entitled(c, fp[c])

EngineInv ==
  /\ OneStandingIntent
  /\ IntentBeforeClick
  /\ ReviewsAreRemembered
  /\ EntitledBeforeIntent
-----------------------------------------------------------------------------
(* The facts that make OutcomeIsHonest, VerifiedRunHasProof,               *)
(* NothingLeftSubmitting and LeasesReturned inductive.                     *)

\* The first run of the adapter has reached Review.
AtReview(c) ==
  \/ pc[c] = "decide"
  \/ pc[c] \in {"readRun", "writeRun"} /\ after[c] = "decide"

\* From here on the report of c changes only into an exception.
Reporting(c) ==
  \/ pc[c] \in {"closing", "return", "done"}
  \/ pc[c] \in {"readRun", "writeRun"} /\ after[c] # "decide"

Truthful(c) ==
  /\ out[c] \notin {"SUBMIT_UNKNOWN", "SUBMITTED_VERIFIED", "RAISED"}
       => c \notin clicked /\ intent[c] = "NONE"
  /\ out[c] = "SUBMITTED_VERIFIED"
       => c \in clicked /\ intent[c] = "VERIFIED" /\ c \in evidence

ReportsAreTruthful ==
  \A c \in Call :
    /\ Reporting(c) => Truthful(c)
    /\ AtReview(c) => out[c] = "REVIEW_READY"
    /\ pc[c] = "observe" => c \in clicked
    /\ pc[c] = "settle" /\ intent[c] # "NONE"
         => out[c] # "SUBMITTED_VERIFIED" \/ c \in clicked

StartedIsAtWork ==
  \A c \in Call : intent[c] = "SUBMITTING" =>
    \/ pc[c] \in {"click", "observe", "settle", "unknown", "crashed"}
    \/ out[c] = "RAISED" /\ pc[c] \in {"closing", "return", "done"}

\* The lease stack is not entered yet, or has been left.
Unstacked(c) ==
  \/ pc[c] \in {"preflight", "prior", "runLease", "return"}
  \/ pc[c] \in {"readRun", "writeRun"} /\ after[c] = "return"

HoldsNothing(c) == \A r \in Resource : holder[r] # c

\* Off the stack there is at most the browser that was lent.
OffStack(c) ==
  \A r \in Resource : holder[r] = c => r = Browser /\ req[c].lent

StackIsUnwound ==
  \A c \in Call :
    /\ pc[c] \in {"idle", "done"} => HoldsNothing(c)
    /\ Unstacked(c) => OffStack(c)

ReportInv == ReportsAreTruthful /\ VerifiedRunHasProof /\ StartedIsAtWork
=============================================================================
