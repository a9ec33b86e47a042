----------------------- MODULE ApplicationEngineProofs -----------------------
(***************************************************************************)
(* Proofs about ApplicationEngine, for every set of calls, runs, postings, *)
(* Reviews and permits.                                                    *)
(*                                                                         *)
(* The argument.  What is clicked is not inductive by itself; EngineInv    *)
(* adds what leads there: one intent stands per posting; before a click    *)
(* there is the clicker's intent; before an intent a consumed permit and   *)
(* an approval; before an approval a Review that an earlier invocation     *)
(* recorded.  Each part is kept by every step, with facts that only grow   *)
(* (HowIntentsChange, FactsGrow, HowReviewsChange) to carry it over the    *)
(* steps of other invocations.  The step properties then follow from       *)
(* EngineInv, and so does the refinement of SubmissionPromise.             *)
(*                                                                         *)
(* What an invocation reports is a second invariant, ReportInv: the report *)
(* is fixed before the record is written, and from there it may only turn  *)
(* into an exception; an intent is SUBMITTING only while its invocation is *)
(* between the click and the settling.  That leases come back is a third,  *)
(* StackIsUnwound: outside the lease stack at most a lent browser is held. *)
(*                                                                         *)
(* Two results close the module.  EndComesNearer is the part of the        *)
(* liveness property that needs no fairness: a rank falls with every step  *)
(* of an invocation and never rises with another's.  And what an           *)
(* invocation left standing is moved on by a human only, while its posting *)
(* stays closed to all others.                                             *)
(***************************************************************************)
EXTENDS ApplicationEngine, TLAPS

-----------------------------------------------------------------------------
(* Type correctness                                                        *)

\* A step keeps the types of where each invocation is and what it reports.
LEMMA StepControlTyped ==
  ASSUME ControlTyped, NEW c \in Call, Step(c)
  PROVE  ControlTyped'
<1> USE DEF ControlTyped, PC, Status, Go, Report, Record
<1>1. CASE Preflight(c)     BY <1>1 DEF Preflight
<1>2. CASE Prior(c)         BY <1>2 DEF Prior, Raise
<1>3. CASE RunLease(c)      BY <1>3 DEF RunLease, Refuse
<1>4. CASE BrowserLease(c)  BY <1>4 DEF BrowserLease, Refuse
<1>5. CASE ReadRun(c)       BY <1>5 DEF ReadRun
<1>6. CASE WriteRun(c)      BY <1>6 DEF WriteRun, Raise
<1>7. CASE ReachReview(c)
  <2>1. CASE Raise(c) /\ UNCHANGED after
    BY <2>1 DEF Raise
  <2>2. ASSUME NEW s \in Status, NEW k \in {"decide", "closing"},
               Record(c, s, k)
        PROVE  ControlTyped'
    BY <2>2
  <2>3. QED
    BY <1>7, <2>1, <2>2 DEF ReachReview
<1>8. CASE Decide(c)        BY <1>8 DEF Decide, Raise
<1>9. CASE SubmitForm(c)    BY <1>9 DEF SubmitForm
<1>10. CASE CheckRunLease(c)
  BY <1>10 DEF CheckRunLease, CheckLease, Denied
<1>11. CASE CheckBrowserLease(c)
  BY <1>11 DEF CheckBrowserLease, CheckLease, Denied
<1>12. CASE Consume(c)      BY <1>12 DEF Consume, Denied
<1>13. CASE Reserve(c)      BY <1>13 DEF Reserve, Denied
<1>14. CASE Start(c)        BY <1>14 DEF Start, Denied
<1>15. CASE Click(c)        BY <1>15 DEF Click, localVars
<1>16. CASE NoClick(c)      BY <1>16 DEF NoClick, Denied
<1>17. CASE Observe(c)      BY <1>17 DEF Observe
<1>18. CASE Settle(c)
  BY <1>18 DEF Settle, SettleWithout, SettleVerified, SettleUnproven, Raise
<1>19. CASE MarkUnknown(c)  BY <1>19 DEF MarkUnknown, Raise
<1>20. CASE Unwind(c)       BY <1>20 DEF Unwind, localVars
<1>21. CASE Unwound(c)      BY <1>21 DEF Unwound
<1>22. CASE Return(c)       BY <1>22 DEF Return, Forget
<1>23. QED
  BY <1>1, <1>2, <1>3, <1>4, <1>5, <1>6, <1>7, <1>8, <1>9, <1>10, <1>11,
     <1>12, <1>13, <1>14, <1>15, <1>16, <1>17, <1>18, <1>19, <1>20, <1>21,
     <1>22 DEF Step

\* A step keeps the types of what an invocation carries along.
LEMMA StepLocalTyped ==
  ASSUME LocalTyped, LedgerTyped, NEW c \in Call, Step(c)
  PROVE  LocalTyped'
<1> USE DEF LocalTyped, LedgerTyped
<1>1. CASE Prior(c)         BY <1>1 DEF Prior, RunOf, Request
<1>2. CASE ReadRun(c)       BY <1>2 DEF ReadRun
<1>3. CASE WriteRun(c)      BY <1>3 DEF WriteRun
<1>4. CASE ReachReview(c)   BY <1>4 DEF ReachReview
<1>5. CASE Consume(c)       BY <1>5 DEF Consume
<1>6. CASE Observe(c)       BY <1>6 DEF Observe
<1>7. CASE Return(c)        BY <1>7 DEF Return, Forget
<1>8. CASE UNCHANGED <<req, prior, fp, eligible, unmoved, paid>>
  BY <1>8
<1>9. QED
  BY <1>1, <1>2, <1>3, <1>4, <1>5, <1>6, <1>7, <1>8
     DEF Step, Preflight, RunLease, BrowserLease, Decide, SubmitForm,
         CheckRunLease, CheckBrowserLease, CheckLease, Reserve, Start, Click,
         NoClick, Settle, MarkUnknown, Unwind, Unwound, localVars

\* A step keeps the types of the ledger: runs, Reviews, intents, permits.
LEMMA StepLedgerTyped ==
  ASSUME TypeOK, NEW c \in Call, Step(c)
  PROVE  LedgerTyped'
<1> USE DEF TypeOK, LedgerTyped
<1>0. RunOf(c) \in Run /\ RunOf(c) \in Resource /\ Browser \in Resource
  BY DEF LocalTyped, Request, RunOf, Resource
<1>1. CASE RunLease(c)
  BY <1>0, <1>1 DEF RunLease, Take, Refuse, ledgerVars
<1>2. CASE BrowserLease(c)
  BY <1>0, <1>2 DEF BrowserLease, Take, Refuse, ledgerVars
<1>3. CASE WriteRun(c)
  BY <1>0, <1>3 DEF WriteRun, ControlTyped, LocalTyped
<1>4. CASE Consume(c)       BY <1>4 DEF Consume
<1>5. CASE Reserve(c)       BY <1>5 DEF Reserve, IntentStatus, LocalTyped
<1>6. CASE Start(c)         BY <1>6 DEF Start, IntentStatus
<1>7. CASE Click(c)         BY <1>7 DEF Click, ledgerVars
<1>8. CASE Settle(c)
  BY <1>8 DEF Settle, SettleWithout, SettleVerified, SettleUnproven,
              IntentStatus
<1>9. CASE MarkUnknown(c)   BY <1>9 DEF MarkUnknown, IntentStatus
<1>10. CASE Unwind(c)       BY <1>10 DEF Unwind, GiveUp, ledgerVars
<1>11. CASE Return(c)       BY <1>11 DEF Return, GiveUp, ledgerVars
<1>12. CASE UNCHANGED <<ledgerVars, holder, clicked, reviewed>>
  BY <1>12 DEF ledgerVars
<1>13. QED
  BY <1>1, <1>2, <1>3, <1>4, <1>5, <1>6, <1>7, <1>8, <1>9, <1>10, <1>11,
     <1>12
     DEF Step, Preflight, Prior, ReadRun, ReachReview, Decide, SubmitForm,
         CheckRunLease, CheckBrowserLease, CheckLease, NoClick, Observe,
         Unwound

(* Every variable keeps its type, and only real outcomes reach a run row   *)
(* (event_ledger.py 574-673, application_engine.py 336-858).               *)
THEOREM EngineTypeCorrect == Spec => []TypeOK
<1>1. Init => TypeOK
  <2> SUFFICES ASSUME Init PROVE TypeOK
    OBVIOUS
  <2>1. LedgerTyped
    BY DEF Init, LedgerTyped, IntentStatus
  <2>2. LocalTyped
    BY DEF Init, LocalTyped
  <2>3. ControlTyped
    BY DEF Init, ControlTyped, PC
  <2>4. QED
    BY <2>1, <2>2, <2>3 DEF TypeOK
<1>2. TypeOK /\ [Next]_vars => TypeOK'
  <2> SUFFICES ASSUME TypeOK, [Next]_vars
               PROVE  TypeOK'
    OBVIOUS
  <2>1. ASSUME NEW c \in Call, Step(c)
        PROVE  TypeOK'
    BY <2>1, StepControlTyped, StepLocalTyped, StepLedgerTyped DEF TypeOK
  <2>2. ASSUME NEW c \in Call, Begin(c)
        PROVE  TypeOK'
    <3>1. LedgerTyped'
      BY <2>2 DEF TypeOK, LedgerTyped, Begin, Take, ledgerVars
    <3>2. LocalTyped' /\ ControlTyped'
      BY <2>2 DEF TypeOK, LocalTyped, ControlTyped, Begin, Go, PC, localVars
    <3>3. QED
      BY <3>1, <3>2 DEF TypeOK
  <2>3. ASSUME NEW c \in Call, Crash(c)
        PROVE  TypeOK'
    <3>1. LedgerTyped'
      BY <2>3 DEF TypeOK, LedgerTyped, Crash, ledgerVars
    <3>2. LocalTyped'
      BY <2>3 DEF TypeOK, LocalTyped, Crash, Forget
    <3>3. ControlTyped'
      BY <2>3 DEF TypeOK, ControlTyped, Crash, Forget, Go, Report, PC
    <3>4. QED
      BY <3>1, <3>2, <3>3 DEF TypeOK
  <2>7. ASSUME NEW c \in Call, Fails(c)
        PROVE  TypeOK'
    <3>1. LedgerTyped'
      BY <2>7 DEF TypeOK, LedgerTyped, Fails, ledgerVars
    <3>2. LocalTyped'
      BY <2>7 DEF TypeOK, LocalTyped, Fails, Forget
    <3>3. ControlTyped'
      BY <2>7 DEF TypeOK, ControlTyped, Fails, Forget, Raise, Go, Report, PC
    <3>4. QED
      BY <3>1, <3>2, <3>3 DEF TypeOK
  <2>4. ASSUME NEW c \in Call, Abort(c) \/ Attest(c)
        PROVE  TypeOK'
    <3>1. LedgerTyped'
      BY <2>4 DEF TypeOK, LedgerTyped, Abort, Attest, IntentStatus
    <3>2. LocalTyped' /\ ControlTyped'
      BY <2>4 DEF TypeOK, LocalTyped, ControlTyped, Abort, Attest, localVars
    <3>3. QED
      BY <3>1, <3>2 DEF TypeOK
  <2>5. CASE UNCHANGED vars
    BY <2>5 DEF vars, TypeOK, LedgerTyped, LocalTyped, ControlTyped
  <2>6. QED
    BY <2>1, <2>2, <2>3, <2>4, <2>5, <2>7 DEF Next
<1>3. QED
  BY <1>1, <1>2, PTL DEF Spec

-----------------------------------------------------------------------------
(* Frames: what a step can change at all                                   *)

\* create_submission_intent inserts a row for c ...
Reserves(c) ==
  /\ pc[c] = "reserve"
  /\ ~Submitted(c) /\ ActiveRivals(c) = {}
  /\ intent' = [intent EXCEPT ![c] = "PENDING"]
  /\ keyed' = [keyed EXCEPT ![c] = fp[c]]

\* ... and everybody else only moves a row that is neither final nor absent.
Moves(c) ==
  /\ intent[c] \in {"PENDING", "SUBMITTING", "UNKNOWN"}
  /\ \E s \in {"SUBMITTING", "UNKNOWN", "VERIFIED", "ABORTED"} :
       intent' = [intent EXCEPT ![c] = s]
  /\ UNCHANGED keyed

\* An intent is reserved with no standing rival, or moves on from where it is.
LEMMA HowIntentsChange ==
  ASSUME [Next]_vars
  PROVE  UNCHANGED <<intent, keyed>> \/ \E c \in Call : Reserves(c) \/ Moves(c)
<1>1. ASSUME NEW c \in Call, Step(c)
      PROVE  UNCHANGED <<intent, keyed>> \/ Reserves(c) \/ Moves(c)
  <2>1. CASE Reserve(c)
    BY <2>1 DEF Reserve, Reserves, PostingTaken
  <2>2. CASE Start(c)
    BY <2>2 DEF Start, Moves
  <2>3. CASE Settle(c)
    BY <2>3 DEF Settle, SettleWithout, SettleVerified, SettleUnproven, Moves
  <2>4. CASE MarkUnknown(c)
    BY <2>4 DEF MarkUnknown, Moves
  <2>5. CASE UNCHANGED <<intent, keyed>>
    BY <2>5
  <2>6. QED
    BY <1>1, <2>1, <2>2, <2>3, <2>4, <2>5
       DEF Step, Preflight, Prior, RunLease, BrowserLease, ReadRun, WriteRun,
           ReachReview, Decide, SubmitForm, CheckRunLease, CheckBrowserLease,
           CheckLease, Consume, Click, NoClick, Observe, Unwind, Unwound,
           Return, ledgerVars
<1>2. ASSUME NEW c \in Call, Abort(c) \/ Attest(c)
      PROVE  Moves(c)
  BY <1>2 DEF Abort, Attest, Moves
<1>3. ASSUME NEW c \in Call, Begin(c) \/ Fails(c) \/ Crash(c)
      PROVE  UNCHANGED <<intent, keyed>>
  BY <1>3 DEF Begin, Fails, Crash, ledgerVars
<1>4. QED
  BY <1>1, <1>2, <1>3 DEF Next, vars

\* What an invocation was asked to do does not change once it has begun.
LEMMA RequestsAreFixed ==
  ASSUME [Next]_vars
  PROVE  req' = req
<1>1. ASSUME NEW c \in Call, Step(c)
      PROVE  req' = req
  BY <1>1
     DEF Step, Preflight, Prior, RunLease, BrowserLease, ReadRun, WriteRun,
         ReachReview, Decide, SubmitForm, CheckRunLease, CheckBrowserLease,
         CheckLease, Consume, Reserve, Start, Click, NoClick, Observe, Settle,
         MarkUnknown, Unwind, Unwound, Return
<1>2. QED
  BY <1>1 DEF Next, Begin, Fails, Crash, Abort, Attest, vars

(* Reviews are only ever added, and the permit of a paid reservation stays *)
(* paid.                                                                   *)
LEMMA FactsGrow ==
  ASSUME TypeOK, [Next]_vars
  PROVE  /\ reviewed \subseteq reviewed'
         /\ \A c \in Call : Paid(c) => Paid(c)'
<1>1. ASSUME NEW c \in Call, Step(c)
      PROVE  reviewed \subseteq reviewed'
  BY <1>1
     DEF Step, Preflight, Prior, RunLease, BrowserLease, ReadRun, WriteRun,
         ReachReview, Decide, SubmitForm, CheckRunLease, CheckBrowserLease,
         CheckLease, Consume, Reserve, Start, Click, NoClick, Observe, Settle,
         MarkUnknown, Unwind, Unwound, Return
<1>2. reviewed \subseteq reviewed'
  BY <1>1 DEF Next, Begin, Fails, Crash, Abort, Attest, vars
<1>3. UNCHANGED <<spent, paid>> \/ \E c \in Call : Consume(c)
  <2>1. ASSUME NEW c \in Call, Step(c)
        PROVE  UNCHANGED <<spent, paid>> \/ Consume(c)
    BY <2>1
       DEF Step, Preflight, Prior, RunLease, BrowserLease, ReadRun, WriteRun,
           ReachReview, Decide, SubmitForm, CheckRunLease, CheckBrowserLease,
           CheckLease, Reserve, Start, Click, NoClick, Observe, Settle,
           MarkUnknown, Unwind, Unwound, Return, ledgerVars, localVars
  <2>2. QED
    BY <2>1 DEF Next, Begin, Fails, Crash, Abort, Attest, vars, ledgerVars,
                localVars
<1>4. ASSUME NEW c \in Call, Paid(c)
      PROVE  Paid(c)'
  <2>1. req' = req
    BY RequestsAreFixed
  <2>2. CASE UNCHANGED <<spent, paid>>
    BY <1>4, <2>1, <2>2 DEF Paid, External
  <2>3. ASSUME NEW d \in Call, Consume(d)
        PROVE  Paid(c)'
    <3>1. paid'[c]
      BY <1>4, <2>3 DEF Paid, Consume, TypeOK, LocalTyped
    <3>2. ASSUME External(c)
          PROVE  spent'[req[c].permit] = c
      <4>1. req[c].permit \in Permit /\ spent[req[c].permit] = c
        BY <1>4, <3>2 DEF Paid, External, TypeOK, LocalTyped, Accepted
      <4>2. spent' # spent => /\ spent[req[d].permit] = None
                             /\ spent' = [spent EXCEPT ![req[d].permit] = d]
        BY <2>3 DEF Consume
      <4>3. QED
        BY <4>1, <4>2, EngineAssumption DEF TypeOK, LedgerTyped
    <3>3. QED
      BY <2>1, <3>1, <3>2 DEF Paid, External
  <2>4. QED
    BY <1>3, <2>2, <2>3
<1>5. QED
  BY <1>2, <1>4

-----------------------------------------------------------------------------
(* The inductive invariant                                                 *)

\* Reserving looks for rivals and writes in one transaction, so one stands.
LEMMA OneStandingIntentStep ==
  ASSUME TypeOK, OneStandingIntent, [Next]_vars
  PROVE  OneStandingIntent'
<1> USE DEF OneStandingIntent, SamePosting, Key, RunOf, Submitted, Active
<1>1. req' = req
  BY RequestsAreFixed
<1>2. CASE UNCHANGED <<intent, keyed>>
  BY <1>1, <1>2
<1>3. ASSUME NEW c \in Call, Reserves(c)
      PROVE  OneStandingIntent'
  BY <1>1, <1>3 DEF Reserves, ActiveRivals, TypeOK, LedgerTyped
<1>4. ASSUME NEW c \in Call, Moves(c)
      PROVE  OneStandingIntent'
  BY <1>1, <1>4 DEF Moves, TypeOK, LedgerTyped
<1>5. QED
  BY <1>2, <1>3, <1>4, HowIntentsChange

\* Nobody clicks without an intent, and an abort takes no click back.
LEMMA IntentBeforeClickStep ==
  ASSUME TypeOK, IntentBeforeClick, [Next]_vars
  PROVE  IntentBeforeClick'
<1> USE DEF IntentBeforeClick, BeforeReserving, TypeOK, LedgerTyped,
            ControlTyped, Go, Report, Record, ledgerVars
<1>1. ASSUME NEW c \in Call, Begin(c) \/ Fails(c) \/ Crash(c)
      PROVE  IntentBeforeClick'
  BY <1>1 DEF Begin, Fails, Crash, Forget, Raise, Uncaught, localVars
<1>2. ASSUME NEW c \in Call, Step(c)
      PROVE  IntentBeforeClick'
  <2>1. CASE Preflight(c)
    BY <2>1 DEF Preflight
  <2>2. CASE Prior(c)
    BY <2>2 DEF Prior, Raise
  <2>3. CASE RunLease(c)
    BY <2>3 DEF RunLease, Refuse
  <2>4. CASE BrowserLease(c)
    BY <2>4 DEF BrowserLease, Refuse
  <2>5. CASE ReadRun(c)
    BY <2>5 DEF ReadRun
  <2>6. CASE WriteRun(c)
    BY <2>6 DEF WriteRun, Raise
  <2>7. CASE ReachReview(c)
    BY <2>7 DEF ReachReview, Raise
  <2>8. CASE Decide(c)
    BY <2>8 DEF Decide, Raise
  <2>9. CASE SubmitForm(c)
    BY <2>9 DEF SubmitForm
  <2>10. CASE CheckRunLease(c)
    BY <2>10 DEF CheckRunLease, CheckLease, Denied
  <2>11. CASE CheckBrowserLease(c)
    BY <2>11 DEF CheckBrowserLease, CheckLease, Denied
  <2>12. CASE Consume(c)
    BY <2>12 DEF Consume, Denied
  <2>13. CASE Reserve(c)
    BY <2>13 DEF Reserve, Denied
  <2>14. CASE Start(c)
    BY <2>14 DEF Start, Denied
  <2>15. CASE Click(c)
    BY <2>15 DEF Click, localVars
  <2>16. CASE NoClick(c)
    BY <2>16 DEF NoClick, Denied
  <2>17. CASE Observe(c)
    BY <2>17 DEF Observe
  <2>18. CASE Settle(c)
    BY <2>18 DEF Settle, SettleWithout, SettleVerified, SettleUnproven, Raise
  <2>19. CASE MarkUnknown(c)
    BY <2>19 DEF MarkUnknown, Raise
  <2>20. CASE Unwind(c)
    BY <2>20 DEF Unwind, localVars
  <2>21. CASE Unwound(c)
    BY <2>21 DEF Unwound
  <2>22. CASE Return(c)
    BY <2>22 DEF Return, Forget
  <2>23. QED
    BY <1>2, <2>1, <2>2, <2>3, <2>4, <2>5, <2>6, <2>7, <2>8, <2>9, <2>10,
       <2>11, <2>12, <2>13, <2>14, <2>15, <2>16, <2>17, <2>18, <2>19, <2>20,
       <2>21, <2>22 DEF Step
<1>3. ASSUME NEW c \in Call, Abort(c) \/ Attest(c)
      PROVE  IntentBeforeClick'
  BY <1>3 DEF Abort, Attest, localVars
<1>4. CASE UNCHANGED vars
  BY <1>4 DEF vars
<1>5. QED
  BY <1>1, <1>2, <1>3, <1>4 DEF Next

\* Who writes reviewed and latest, and who reads latest.
LEMMA HowReviewsChange ==
  ASSUME [Next]_vars
  PROVE  \/ UNCHANGED <<latest, prior, reviewed>> \/ \E c \in Call :
              WriteRun(c) \/ Prior(c) \/ Return(c) \/ Fails(c) \/ Crash(c)
<1>1. ASSUME NEW c \in Call, Step(c)
      PROVE  \/ UNCHANGED <<latest, prior, reviewed>>
             \/ WriteRun(c) \/ Prior(c) \/ Return(c)
  BY <1>1
     DEF Step, Preflight, RunLease, BrowserLease, ReadRun,
         ReachReview, Decide, SubmitForm, CheckRunLease, CheckBrowserLease,
         CheckLease, Consume, Reserve, Start, Click, NoClick, Observe, Settle,
         MarkUnknown, Unwind, Unwound, ledgerVars, localVars
<1>2. QED
  BY <1>1 DEF Next, Begin, Abort, Attest, vars, ledgerVars, localVars

\* Nobody is sent back to where the previous Review is read.
LEMMA NobodyStartsOver ==
  ASSUME TypeOK, [Next]_vars, NEW d \in Call,
         pc'[d] \in {"idle", "preflight", "prior"}
  PROVE  pc[d] \in {"idle", "preflight", "prior"}
<1> USE DEF TypeOK, ControlTyped, Go, Record
<1>1. ASSUME NEW c \in Call, Step(c)
      PROVE  pc[d] \in {"idle", "preflight", "prior"}
  <2>1. CASE Preflight(c) \/ Prior(c) \/ RunLease(c) \/ BrowserLease(c)
    BY <2>1 DEF Preflight, Prior, Raise, RunLease, BrowserLease, Refuse
  <2>2. CASE ReadRun(c) \/ WriteRun(c) \/ ReachReview(c) \/ Decide(c)
    BY <2>2 DEF ReadRun, WriteRun, ReachReview, Decide, Raise
  <2>3. CASE SubmitForm(c) \/ CheckRunLease(c) \/ CheckBrowserLease(c)
    BY <2>3 DEF SubmitForm, CheckRunLease, CheckBrowserLease, CheckLease,
                Denied
  <2>4. CASE Consume(c) \/ Reserve(c) \/ Start(c) \/ NoClick(c)
    BY <2>4 DEF Consume, Reserve, Start, NoClick, Denied
  <2>5. CASE Click(c) \/ Observe(c) \/ Settle(c) \/ MarkUnknown(c)
    BY <2>5 DEF Click, Observe, Settle, SettleWithout, SettleVerified,
                SettleUnproven, MarkUnknown, Raise
  <2>6. CASE Unwind(c) \/ Unwound(c) \/ Return(c)
    BY <2>6 DEF Unwind, Unwound, Return
  <2>7. QED
    BY <1>1, <2>1, <2>2, <2>3, <2>4, <2>5, <2>6 DEF Step
<1>2. ASSUME NEW c \in Call, Begin(c) \/ Fails(c) \/ Crash(c)
      PROVE  pc[d] \in {"idle", "preflight", "prior"}
  BY <1>2 DEF Begin, Fails, Crash, Raise
<1>3. ASSUME NEW c \in Call, Abort(c) \/ Attest(c)
      PROVE  pc[d] \in {"idle", "preflight", "prior"}
  BY <1>3 DEF Abort, Attest
<1>4. CASE UNCHANGED vars
  BY <1>4 DEF vars
<1>5. QED
  BY <1>1, <1>2, <1>3, <1>4 DEF Next

\* A Review that an invocation goes by was recorded before, and stays recorded.
LEMMA ReviewsAreRememberedStep ==
  ASSUME TypeOK, ReviewsAreRemembered, [Next]_vars
  PROVE  ReviewsAreRemembered'
<1> USE DEF ReviewsAreRemembered
<1>1. req' = req /\ reviewed \subseteq reviewed'
  BY RequestsAreFixed, FactsGrow
<1>2. \A c \in Call : RunOf(c) \in Run /\ RunOf(c)' = RunOf(c)
  BY <1>1 DEF TypeOK, LocalTyped, Request, RunOf
<1>3. /\ latest \in [Run -> Review \cup {None}]
      /\ prior \in [Call -> Review \cup {None}]
  BY DEF TypeOK, LedgerTyped, LocalTyped
<1>4. CASE UNCHANGED <<latest, prior, reviewed>>
  BY <1>2, <1>4, NobodyStartsOver
<1>5. ASSUME NEW c \in Call, WriteRun(c)
      PROVE  ReviewsAreRemembered'
  <2>1. UNCHANGED prior
    BY <1>5 DEF WriteRun
  <2>2. CASE UNCHANGED <<latest, reviewed>>
    BY <1>4, <2>1, <2>2
  <2>3. ASSUME fp[c] # None, pc[c] = "writeRun",
               latest' = [latest EXCEPT ![RunOf(c)] = fp[c]],
               reviewed' = reviewed \cup {<<c, RunOf(c), fp[c]>>}
        PROVE  ReviewsAreRemembered'
    <3>1. \A r \in Run : latest'[r] # None =>
            \E d \in Call : <<d, r, latest'[r]>> \in reviewed'
      <4>1. \A r \in Run \ {RunOf(c)} : latest'[r] = latest[r]
        BY <1>2, <1>3, <2>3
      <4>2. <<c, RunOf(c), latest'[RunOf(c)]>> \in reviewed'
        BY <1>2, <1>3, <2>3
      <4>3. QED
        BY <1>1, <4>1, <4>2
    <3>2. \A d \in Call : prior'[d] # None =>
            \E e \in Call \ {d} : <<e, RunOf(d)', prior'[d]>> \in reviewed'
      BY <1>1, <1>2, <2>1
    <3>3. \A d \in Call : pc'[d] \in {"idle", "preflight", "prior"} =>
            \A r \in Run, f \in Review : <<d, r, f>> \notin reviewed'
      BY <2>3, NobodyStartsOver
    <3>4. QED
      BY <3>1, <3>2, <3>3
  <2>4. ASSUME latest' = [latest EXCEPT ![RunOf(c)] = None],
               UNCHANGED reviewed
        PROVE  ReviewsAreRemembered'
    <3>1. \A r \in Run : latest'[r] # None => latest'[r] = latest[r]
      BY <1>2, <1>3, <2>4
    <3>2. QED
      BY <1>2, <2>1, <2>4, <3>1, NobodyStartsOver
  <2>5. QED
    BY <1>5, <2>2, <2>3, <2>4 DEF WriteRun
<1>6. ASSUME NEW c \in Call, Prior(c)
      PROVE  ReviewsAreRemembered'
  <2>1. /\ UNCHANGED <<latest, reviewed>>
        /\ prior' = [prior EXCEPT ![c] = latest[RunOf(c)]]
        /\ pc[c] = "prior"
    BY <1>6 DEF Prior, ledgerVars
  <2>2. /\ prior'[c] = latest[RunOf(c)]
        /\ \A d \in Call \ {c} : prior'[d] = prior[d]
    BY <1>3, <2>1
  <2>3. \A f \in Review : <<c, RunOf(c), f>> \notin reviewed
    BY <1>2, <2>1
  <2>4. prior'[c] # None =>
          \E d \in Call \ {c} : <<d, RunOf(c), prior'[c]>> \in reviewed
    BY <1>2, <1>3, <2>2, <2>3
  <2>5. QED
    BY <1>2, <2>1, <2>2, <2>4, NobodyStartsOver
<1>7. ASSUME NEW c \in Call, Return(c) \/ Fails(c) \/ Crash(c)
      PROVE  ReviewsAreRemembered'
  <2>1. /\ UNCHANGED <<latest, reviewed>>
        /\ prior' = [prior EXCEPT ![c] = None]
    BY <1>7 DEF Return, Fails, Crash, Forget, ledgerVars
  <2>2. QED
    BY <1>2, <1>3, <2>1, NobodyStartsOver
<1>8. QED
  BY <1>4, <1>5, <1>6, <1>7, HowReviewsChange

\* The only way to the submission button is through Gate B and consume.
LEMMA TheWayToSubmit ==
  ASSUME TypeOK, [Next]_vars, NEW d \in Call,
         pc'[d] \in {"form", "checkRun", "checkBrowser", "consume", "reserve"}
  PROVE  /\ fp'[d] = fp[d]
         /\ \/ pc[d] \in {"form", "checkRun", "checkBrowser", "consume",
                          "reserve"}
            \/ fp[d] # None /\ Submits(d) /\ GateB(d)
         /\ pc'[d] = "reserve" => pc[d] = "reserve" \/ Consume(d)
<1> DEFINE Goal ==
      /\ fp'[d] = fp[d]
      /\ \/ pc[d] \in {"form", "checkRun", "checkBrowser", "consume",
                       "reserve"}
         \/ fp[d] # None /\ Submits(d) /\ GateB(d)
      /\ pc'[d] = "reserve" => pc[d] = "reserve" \/ Consume(d)
<1> USE DEF TypeOK, ControlTyped, LocalTyped, Go, Record
<1>1. ASSUME NEW c \in Call, Step(c)
      PROVE  Goal
  <2>1. CASE Preflight(c) \/ Prior(c) \/ RunLease(c) \/ BrowserLease(c)
    BY <2>1 DEF Preflight, Prior, Raise, RunLease, BrowserLease, Refuse
  <2>2. CASE ReadRun(c) \/ WriteRun(c)
    BY <2>2 DEF ReadRun, WriteRun, Raise
  <2>3. CASE ReachReview(c)
    BY <2>3 DEF ReachReview, Raise
  <2>4. CASE Decide(c)
    BY <2>4 DEF Decide, Raise
  <2>5. CASE SubmitForm(c) \/ CheckRunLease(c) \/ CheckBrowserLease(c)
    BY <2>5 DEF SubmitForm, CheckRunLease, CheckBrowserLease, CheckLease,
                Denied
  <2>6. CASE Consume(c)
    <3>1. fp' = fp
      BY <2>6 DEF Consume
    <3>2. CASE c = d
      BY <2>6, <3>1, <3>2 DEF Consume
    <3>3. CASE c # d
      BY <2>6, <3>1, <3>3 DEF Consume, Denied
    <3>4. QED
      BY <3>2, <3>3
  <2>7. CASE Reserve(c) \/ Start(c) \/ NoClick(c)
    BY <2>7 DEF Reserve, Start, NoClick, Denied
  <2>8. CASE Click(c) \/ Observe(c) \/ Settle(c) \/ MarkUnknown(c)
    BY <2>8 DEF Click, Observe, Settle, SettleWithout, SettleVerified,
                SettleUnproven, MarkUnknown, Raise, localVars
  <2>9. CASE Unwind(c) \/ Unwound(c) \/ Return(c)
    BY <2>9 DEF Unwind, Unwound, Return, Forget, localVars
  <2>10. QED
    BY <1>1, <2>1, <2>2, <2>3, <2>4, <2>5, <2>6, <2>7, <2>8, <2>9 DEF Step
<1>2. ASSUME NEW c \in Call, Begin(c) \/ Fails(c) \/ Crash(c)
      PROVE  Goal
  BY <1>2 DEF Begin, Fails, Crash, Forget, Raise, localVars
<1>3. ASSUME NEW c \in Call, Abort(c) \/ Attest(c)
      PROVE  Goal
  BY <1>3 DEF Abort, Attest, localVars
<1>4. CASE UNCHANGED vars
  BY <1>4 DEF vars
<1>5. QED
  BY <1>1, <1>2, <1>3, <1>4 DEF Next

\* The permit and the approval are there when the intent is, and from then on.
LEMMA EntitledBeforeIntentStep ==
  ASSUME TypeOK, ReviewsAreRemembered, EntitledBeforeIntent, [Next]_vars
  PROVE  EntitledBeforeIntent'
<1>1. req' = req
  BY RequestsAreFixed
<1>2. \A c \in Call : Paid(c) => Paid(c)'
  BY FactsGrow
<1>3. ASSUME NEW c \in Call, NEW f, Entitled(c, f)
      PROVE  Entitled(c, f)'
  <2>1. reviewed \subseteq reviewed'
    BY FactsGrow
  <2>2. QED
    BY <1>1, <1>3, <2>1 DEF Entitled, Submits, External, RunOf
<1>4. ASSUME NEW c \in Call, fp[c] # None, Submits(c), GateB(c)
      PROVE  Entitled(c, fp[c])
  <2>1. req[c] \in Request /\ Accepted(req[c])
    BY DEF TypeOK, LocalTyped
  <2>2. CASE External(c)
    BY <1>4, <2>1, <2>2
       DEF Entitled, External, GateB, Accepted, Request
  <2>3. CASE req[c].mode = "human"
    BY <1>4, <2>1, <2>3
       DEF Entitled, External, GateB, HumanApproves, ReviewsAreRemembered
  <2>4. CASE ~External(c) /\ req[c].mode # "human"
    BY <1>4, <2>4 DEF Entitled
  <2>5. QED
    BY <2>2, <2>3, <2>4
<1>5. ASSUME NEW c \in Call, intent'[c] # "NONE"
      PROVE  Paid(c)' /\ Entitled(c, keyed[c])'
  <2>1. CASE intent[c] # "NONE" /\ keyed'[c] = keyed[c]
    BY <1>2, <1>3, <2>1 DEF EntitledBeforeIntent
  <2>2. CASE Reserves(c)
    BY <1>2, <1>3, <2>2 DEF EntitledBeforeIntent, Reserves, TypeOK, LedgerTyped
  <2>3. QED
    BY <1>5, <2>1, <2>2, HowIntentsChange
       DEF Reserves, Moves, TypeOK, LedgerTyped
<1>6. ASSUME NEW c \in Call,
             pc'[c] \in {"form", "checkRun", "checkBrowser", "consume",
                        "reserve"}
      PROVE  Entitled(c, fp[c])'
  <2>1. fp'[c] = fp[c]
    BY <1>6, TheWayToSubmit
  <2>2. Entitled(c, fp[c])
    BY <1>4, <1>6, TheWayToSubmit DEF EntitledBeforeIntent
  <2>3. QED
    BY <1>3, <2>1, <2>2
<1>7. ASSUME NEW c \in Call, pc'[c] = "reserve"
      PROVE  Paid(c)'
  <2>1. CASE pc[c] = "reserve"
    BY <1>2, <2>1 DEF EntitledBeforeIntent
  <2>2. CASE pc[c] # "reserve"
    <3>1. Consume(c)
      BY <1>7, <2>2, TheWayToSubmit
    <3>2. /\ paid' = [paid EXCEPT ![c] = TRUE]
          /\ External(c) => spent' = [spent EXCEPT ![req[c].permit] = c]
      BY <1>7, <3>1 DEF Consume, Denied, Go, TypeOK, ControlTyped
    <3>3. External(c) => req[c].permit \in Permit
      BY DEF External, TypeOK, LocalTyped, Accepted
    <3>4. QED
      BY <1>1, <3>2, <3>3
         DEF Paid, External, TypeOK, LedgerTyped, LocalTyped
  <2>3. QED
    BY <2>1, <2>2
<1>8. QED
  BY <1>5, <1>6, <1>7 DEF EntitledBeforeIntent

(* The invariant that the clicks rest on: one standing intent per posting, *)
(* an intent before every click, and a permit and an approval before every *)
(* intent (event_ledger.py 913-1012, application_engine.py 552-674).       *)
THEOREM EngineInvariant == Spec => []EngineInv
<1>1. Init => EngineInv
  <2> SUFFICES ASSUME Init PROVE EngineInv
    OBVIOUS
  <2>1. OneStandingIntent
    BY DEF Init, OneStandingIntent, Active
  <2>2. IntentBeforeClick
    BY DEF Init, IntentBeforeClick
  <2>3. ReviewsAreRemembered
    BY DEF Init, ReviewsAreRemembered
  <2>4. EntitledBeforeIntent
    BY DEF Init, EntitledBeforeIntent
  <2>5. QED
    BY <2>1, <2>2, <2>3, <2>4 DEF EngineInv
<1>2. TypeOK /\ EngineInv /\ [Next]_vars => EngineInv'
  BY OneStandingIntentStep, IntentBeforeClickStep, ReviewsAreRememberedStep,
     EntitledBeforeIntentStep DEF EngineInv
<1>3. QED
  BY <1>1, <1>2, EngineTypeCorrect, PTL DEF Spec

(* Two unaborted clicks for one posting never happen, and none for a       *)
(* posting submitted under an older hash (README.md 192).                  *)
THEOREM AtMostOneClickHolds == Spec => []AtMostOneClick
<1>1. TypeOK /\ EngineInv => AtMostOneClick
  BY DEF TypeOK, LedgerTyped, EngineInv, OneStandingIntent, IntentBeforeClick,
         AtMostOneClick, IntentStatus, Active, Submitted
<1>2. QED
  BY <1>1, EngineTypeCorrect, EngineInvariant, PTL

(* Every click was paid for with its own permit and approved for the very  *)
(* Review it submits (application_engine.py 552-674).                      *)
THEOREM ClicksAreAuthorised == Spec => []ClickIsAuthorised
<1>1. TypeOK /\ EngineInv => ClickIsAuthorised
  BY DEF TypeOK, LedgerTyped, EngineInv, IntentBeforeClick,
         EntitledBeforeIntent, Entitled, Paid, ClickIsAuthorised
<1>2. QED
  BY <1>1, EngineTypeCorrect, EngineInvariant, PTL

(* The engine, its permits and its ledger implement the abstract promise   *)
(* of SubmissionPromise (event_ledger.py 913-1178).                        *)
THEOREM EngineKeepsThePromise == Spec => KeepsThePromise
<1> DEFINE Postings  == [c \in Call |-> Key(c)]
           Staked    == {c \in Call : intent[c] # "NONE"}
           Standing  == {c \in Call : intent[c] \in Active}
           Confirmed == {c \in Call : intent[c] = "VERIFIED"}
<1>stake. \A c \in Call : Promise!Stake(c) => Promise!PromiseNext
  BY Zenon DEF Promise!PromiseNext
<1>press. \A c \in Call : Promise!Press(c) => Promise!PromiseNext
  BY Zenon DEF Promise!PromiseNext
<1>confirm. \A c \in Call : Promise!Confirm(c) => Promise!PromiseNext
  BY Zenon DEF Promise!PromiseNext
<1>withdraw. \A c \in Call : Promise!Withdraw(c) => Promise!PromiseNext
  BY Zenon DEF Promise!PromiseNext
<1>1. Init => Promise!PromiseInit
  BY DEF Init, Active, Promise!PromiseInit
<1>2. TypeOK /\ EngineInv /\ [Next]_vars
        => [Promise!PromiseNext]_(Promise!promiseVars)
  <2> SUFFICES ASSUME TypeOK, EngineInv, [Next]_vars
               PROVE  \/ Promise!PromiseNext
                      \/ UNCHANGED <<Postings, Staked, Standing, clicked,
                                     Confirmed>>
    BY DEF Promise!promiseVars
  <2>1. Postings' = Postings
    BY RequestsAreFixed DEF Key, RunOf
  <2>2. intent \in [Call -> IntentStatus] /\ clicked \subseteq Call
    BY DEF TypeOK, LedgerTyped
  <2>3. ASSUME NEW c \in Call, Click(c)
        PROVE  Promise!PromiseNext
    <3>1. intent' = intent /\ clicked' = clicked \cup {c}
      BY <2>3 DEF Click, ledgerVars
    <3>2. c \in Staked \ clicked
      BY <2>3 DEF Click, EngineInv, IntentBeforeClick
    <3>3. Promise!Press(c)
      BY <2>1, <3>1, <3>2 DEF Promise!Press
    <3>4. QED
      BY <1>press, <3>3
  <2>4. UNCHANGED clicked \/ \E c \in Call : Click(c)
    <3>1. ASSUME NEW c \in Call, Step(c)
          PROVE  UNCHANGED clicked \/ Click(c)
      BY <3>1
         DEF Step, Preflight, Prior, RunLease, BrowserLease, ReadRun, WriteRun,
             ReachReview, Decide, SubmitForm, CheckRunLease,
             CheckBrowserLease, CheckLease, Consume, Reserve, Start, NoClick,
             Observe, Settle, MarkUnknown, Unwind, Unwound, Return
    <3>2. QED
      BY <3>1 DEF Next, Begin, Fails, Crash, Abort, Attest, vars
  <2>5. ASSUME NEW c \in Call, Reserves(c), UNCHANGED clicked
        PROVE  Promise!PromiseNext
    <3>1. intent[c] = "NONE"
      BY <2>5 DEF Reserves, EngineInv, IntentBeforeClick, BeforeReserving
    <3>2. /\ Staked' = Staked \cup {c} /\ c \notin Staked
          /\ Standing' = Standing \cup {c}
          /\ Confirmed' = Confirmed
      BY <2>2, <2>5, <3>1 DEF Reserves, Active
    <3>3. \A d \in Standing : Postings[d] # Postings[c]
      BY <2>5 DEF Reserves, ActiveRivals, SamePosting
    <3>4. Promise!Stake(c)
      BY <2>1, <2>5, <3>2, <3>3 DEF Promise!Stake
    <3>5. QED
      BY <1>stake, <3>4
  <2>6. ASSUME NEW c \in Call, Moves(c), UNCHANGED clicked
        PROVE  \/ Promise!PromiseNext
               \/ UNCHANGED <<Staked, Standing, Confirmed>>
    <3>1. PICK s \in {"SUBMITTING", "UNKNOWN", "VERIFIED", "ABORTED"} :
            intent' = [intent EXCEPT ![c] = s]
      BY <2>6 DEF Moves
    <3>2. c \in Standing \ Confirmed /\ Staked' = Staked
      BY <2>2, <2>6, <3>1 DEF Moves, Active
    <3>3. CASE s \in {"SUBMITTING", "UNKNOWN"}
      <4>1. Standing' = Standing /\ Confirmed' = Confirmed
        BY <2>2, <2>6, <3>1, <3>3 DEF Moves, Active
      <4>2. QED
        BY <3>2, <4>1
    <3>4. CASE s = "VERIFIED"
      <4>1. Standing' = Standing /\ Confirmed' = Confirmed \cup {c}
        BY <2>2, <2>6, <3>1, <3>4 DEF Moves, Active
      <4>2. Promise!Confirm(c)
        BY <2>1, <2>6, <3>2, <4>1 DEF Promise!Confirm
      <4>3. QED
        BY <1>confirm, <4>2
    <3>5. CASE s = "ABORTED"
      <4>1. Standing' = Standing \ {c} /\ Confirmed' = Confirmed
        BY <2>2, <2>6, <3>1, <3>5 DEF Moves, Active
      <4>2. Promise!Withdraw(c)
        BY <2>1, <2>6, <3>2, <4>1 DEF Promise!Withdraw
      <4>3. QED
        BY <1>withdraw, <4>2
    <3>6. QED
      BY <3>3, <3>4, <3>5
  <2>7. CASE UNCHANGED <<intent, clicked>>
    BY <2>1, <2>7
  <2>8. QED
    BY <2>1, <2>3, <2>4, <2>5, <2>6, <2>7, HowIntentsChange
<1>3. QED
  BY <1>1, <1>2, EngineTypeCorrect, EngineInvariant, PTL
     DEF Spec, KeepsThePromise, Promise!PromiseSpec
-----------------------------------------------------------------------------
(* What is reported, what is left behind, and the lease stack              *)

\* A report that leaves execute is true, and no later step makes it false.
LEMMA ReportsAreTruthfulStep ==
  ASSUME TypeOK, IntentBeforeClick, ReportsAreTruthful, [Next]_vars
  PROVE  ReportsAreTruthful'
<1> USE DEF IntentBeforeClick, BeforeReserving, ReportsAreTruthful, Reporting,
            AtReview, Truthful, TypeOK, LedgerTyped, ControlTyped, LocalTyped,
            Go, Report, Record, ledgerVars, localVars
<1>1. ASSUME NEW c \in Call, Begin(c) \/ Fails(c) \/ Crash(c)
      PROVE  ReportsAreTruthful'
  BY <1>1 DEF Begin, Fails, Crash, Forget, Raise
<1>2. ASSUME NEW c \in Call, Step(c)
      PROVE  ReportsAreTruthful'
  <2>1. CASE Preflight(c)
    BY <2>1 DEF Preflight
  <2>2. CASE Prior(c)
    BY <2>2 DEF Prior, Raise
  <2>3. CASE RunLease(c)
    BY <2>3 DEF RunLease, Refuse
  <2>4. CASE BrowserLease(c)
    BY <2>4 DEF BrowserLease, Refuse
  <2>5. CASE ReadRun(c)
    BY <2>5 DEF ReadRun
  <2>6. CASE WriteRun(c)
    BY <2>6 DEF WriteRun, Raise
  <2>7. CASE ReachReview(c)
    BY <2>7 DEF ReachReview, Raise
  <2>8. CASE Decide(c)
    <3>0. pc[c] = "decide" /\ UNCHANGED <<intent, evidence, clicked>>
      BY <2>8 DEF Decide
    <3>1. /\ intent[c] = "NONE" /\ c \notin clicked
          /\ out[c] = "REVIEW_READY"
      BY <3>0
    <3>2. CASE Go(c, "closing") /\ UNCHANGED <<out, after>>
      BY <3>0, <3>1, <3>2
    <3>3. CASE Go(c, "form") /\ UNCHANGED <<out, after>>
      BY <3>0, <3>1, <3>3
    <3>4. ASSUME NEW s \in {"INTERNAL_ERROR", "AWAITING_GATE_B"},
                 Record(c, s, "closing")
          PROVE  ReportsAreTruthful'
      BY <3>0, <3>1, <3>4
    <3>5. CASE Raise(c) /\ UNCHANGED after
      BY <3>0, <3>1, <3>5 DEF Raise
    <3>6. QED
      BY <2>8, <3>2, <3>3, <3>4, <3>5 DEF Decide
  <2>9. CASE SubmitForm(c)
    BY <2>9 DEF SubmitForm
  <2>10. CASE CheckRunLease(c)
    BY <2>10 DEF CheckRunLease, CheckLease, Denied
  <2>11. CASE CheckBrowserLease(c)
    BY <2>11 DEF CheckBrowserLease, CheckLease, Denied
  <2>12. CASE Consume(c)
    BY <2>12 DEF Consume, Denied
  <2>13. CASE Reserve(c)
    BY <2>13 DEF Reserve, Denied
  <2>14. CASE Start(c)
    BY <2>14 DEF Start, Denied
  <2>15. CASE Click(c)
    BY <2>15 DEF Click
  <2>16. CASE NoClick(c)
    BY <2>16 DEF NoClick, Denied
  <2>17. CASE Observe(c)
    BY <2>17 DEF Observe
  <2>18. CASE Settle(c)
    BY <2>18 DEF Settle, SettleWithout, SettleVerified, SettleUnproven,
                Raise, Trusted
  <2>19. CASE MarkUnknown(c)
    BY <2>19 DEF MarkUnknown, Raise
  <2>20. CASE Unwind(c)
    BY <2>20 DEF Unwind
  <2>21. CASE Unwound(c)
    BY <2>21 DEF Unwound
  <2>22. CASE Return(c)
    BY <2>22 DEF Return, Forget
  <2>23. QED
    BY <1>2, <2>1, <2>2, <2>3, <2>4, <2>5, <2>6, <2>7, <2>8, <2>9, <2>10,
       <2>11, <2>12, <2>13, <2>14, <2>15, <2>16, <2>17, <2>18, <2>19,
       <2>20, <2>21, <2>22 DEF Step
<1>3. ASSUME NEW c \in Call, Abort(c) \/ Attest(c)
      PROVE  ReportsAreTruthful'
  BY <1>3 DEF Abort, Attest
<1>4. CASE UNCHANGED vars
  BY <1>4 DEF vars
<1>5. QED
  BY <1>1, <1>2, <1>3, <1>4 DEF Next

\* Only the invocation that started a submission is on its way with it.
LEMMA StartedIsAtWorkStep ==
  ASSUME TypeOK, StartedIsAtWork, [Next]_vars
  PROVE  StartedIsAtWork'
<1> USE DEF StartedIsAtWork, TypeOK, LedgerTyped, ControlTyped, Go, Report,
            Record, ledgerVars, localVars
<1>1. ASSUME NEW c \in Call, Begin(c) \/ Fails(c) \/ Crash(c)
      PROVE  StartedIsAtWork'
  BY <1>1 DEF Begin, Fails, Crash, Raise
<1>2. ASSUME NEW c \in Call, Step(c)
      PROVE  StartedIsAtWork'
  <2>1. CASE Preflight(c)
    BY <2>1 DEF Preflight
  <2>2. CASE Prior(c)
    BY <2>2 DEF Prior, Raise
  <2>3. CASE RunLease(c)
    BY <2>3 DEF RunLease, Refuse
  <2>4. CASE BrowserLease(c)
    BY <2>4 DEF BrowserLease, Refuse
  <2>5. CASE ReadRun(c)
    BY <2>5 DEF ReadRun
  <2>6. CASE WriteRun(c)
    BY <2>6 DEF WriteRun, Raise
  <2>7. CASE ReachReview(c)
    BY <2>7 DEF ReachReview, Raise
  <2>8. CASE Decide(c)
    BY <2>8 DEF Decide, Raise
  <2>9. CASE SubmitForm(c)
    BY <2>9 DEF SubmitForm
  <2>10. CASE CheckRunLease(c)
    BY <2>10 DEF CheckRunLease, CheckLease, Denied
  <2>11. CASE CheckBrowserLease(c)
    BY <2>11 DEF CheckBrowserLease, CheckLease, Denied
  <2>12. CASE Consume(c)
    BY <2>12 DEF Consume, Denied
  <2>13. CASE Reserve(c)
    BY <2>13 DEF Reserve, Denied
  <2>14. CASE Start(c)
    BY <2>14 DEF Start, Denied
  <2>15. CASE Click(c)
    BY <2>15 DEF Click
  <2>16. CASE NoClick(c)
    BY <2>16 DEF NoClick, Denied
  <2>17. CASE Observe(c)
    BY <2>17 DEF Observe
  <2>18. CASE Settle(c)
    BY <2>18 DEF Settle, SettleWithout, SettleVerified, SettleUnproven,
                Raise, Trusted
  <2>19. CASE MarkUnknown(c)
    BY <2>19 DEF MarkUnknown, Raise
  <2>20. CASE Unwind(c)
    BY <2>20 DEF Unwind
  <2>21. CASE Unwound(c)
    BY <2>21 DEF Unwound
  <2>22. CASE Return(c)
    BY <2>22 DEF Return, Forget
  <2>23. QED
    BY <1>2, <2>1, <2>2, <2>3, <2>4, <2>5, <2>6, <2>7, <2>8, <2>9, <2>10,
       <2>11, <2>12, <2>13, <2>14, <2>15, <2>16, <2>17, <2>18, <2>19,
       <2>20, <2>21, <2>22 DEF Step
<1>3. ASSUME NEW c \in Call, Abort(c) \/ Attest(c)
      PROVE  StartedIsAtWork'
  BY <1>3 DEF Abort, Attest
<1>4. CASE UNCHANGED vars
  BY <1>4 DEF vars
<1>5. QED
  BY <1>1, <1>2, <1>3, <1>4 DEF Next

\* Off the lease stack an invocation holds at most the browser it was lent.
LEMMA StackIsUnwoundStep ==
  ASSUME TypeOK, StackIsUnwound, [Next]_vars
  PROVE  StackIsUnwound'
<1> USE DEF StackIsUnwound, Unstacked, TypeOK, ControlTyped, Go, Report, Record
<1>0. req' = req /\ holder \in [Resource -> Call \cup {None}]
  BY RequestsAreFixed DEF LedgerTyped
<1>1. ASSUME NEW d \in Call, holder' = holder
      PROVE  HoldsNothing(d)' = HoldsNothing(d) /\ OffStack(d)' = OffStack(d)
  BY <1>0, <1>1 DEF HoldsNothing, OffStack
<1>2. ASSUME NEW d \in Call, HoldsNothing(d)
      PROVE  OffStack(d)
  BY <1>2 DEF HoldsNothing, OffStack
<1>3. ASSUME NEW c \in Call, NEW d \in Call \ {c}, NEW r \in Resource,
             Take(r, c) \/ GiveUp(r, c)
      PROVE  /\ HoldsNothing(d) => HoldsNothing(d)'
             /\ OffStack(d) => OffStack(d)'
  <2>1. \A s \in Resource : holder'[s] = d => holder[s] = d
    BY <1>0, <1>3, EngineAssumption DEF Take, GiveUp
  <2>2. QED
    BY <1>0, <2>1 DEF HoldsNothing, OffStack
<1>4. ASSUME NEW c \in Call, NEW r \in Resource, GiveUp(r, c)
      PROVE  /\ HoldsNothing(c) => HoldsNothing(c)'
             /\ OffStack(c) => OffStack(c)'
             /\ r = Browser /\ OffStack(c) => HoldsNothing(c)'
  BY <1>0, <1>4, EngineAssumption DEF GiveUp, HoldsNothing, OffStack
<1>5. /\ Browser \in Resource
      /\ \A c \in Call : RunOf(c) \in Resource
  BY DEF LocalTyped, Request, RunOf, Resource
<1>6. ASSUME NEW c \in Call, Begin(c)
      PROVE  StackIsUnwound'
  <2>1. OffStack(c)'
    BY <1>0, <1>1, <1>2, <1>6 DEF Begin, Take, HoldsNothing, OffStack
  <2>2. QED
    BY <1>1, <1>3, <1>5, <1>6, <2>1 DEF Begin, localVars
<1>7. ASSUME NEW c \in Call, Crash(c)
      PROVE  StackIsUnwound'
  BY <1>1, <1>7 DEF Crash, Forget
<1>11. ASSUME NEW c \in Call, Fails(c)
      PROVE  StackIsUnwound'
  BY <1>1, <1>11 DEF Fails, Raise, Forget
<1>8. ASSUME NEW c \in Call, Abort(c) \/ Attest(c)
      PROVE  StackIsUnwound'
  BY <1>1, <1>8 DEF Abort, Attest, localVars
<1>9. CASE UNCHANGED vars
  BY <1>1, <1>9 DEF vars
<1>10. ASSUME NEW c \in Call, Step(c)
      PROVE  StackIsUnwound'
  <2>1. CASE Preflight(c) \/ Prior(c)
    <3>1. UNCHANGED holder /\ pc[c] \in {"preflight", "prior"}
      BY <2>1 DEF Preflight, Prior
    <3>2. \/ \E s \in Status : Record(c, s, "return")
          \/ UNCHANGED after /\ \E to \in PC \ {"idle", "done"} : Go(c, to)
      BY <2>1 DEF Preflight, Prior, Raise, PC, Status
    <3>3. OffStack(c)'
      <4>1. OffStack(c)
        BY <3>1
      <4>2. QED
        BY <1>1, <3>1, <4>1
    <3>4. QED
      BY <1>1, <3>1, <3>2, <3>3
  <2>2. CASE RunLease(c)
    BY <1>1, <1>3, <1>5, <2>2 DEF RunLease, Refuse
  <2>3. CASE BrowserLease(c)
    BY <1>1, <1>3, <1>5, <2>3 DEF BrowserLease, Refuse
  <2>4. CASE ReadRun(c) \/ WriteRun(c)
    BY <1>1, <2>4 DEF ReadRun, WriteRun, Raise
  <2>5. CASE ReachReview(c) \/ Decide(c)
    BY <1>1, <2>5 DEF ReachReview, Decide, Raise
  <2>6. CASE SubmitForm(c) \/ CheckRunLease(c) \/ CheckBrowserLease(c)
    BY <1>1, <2>6 DEF SubmitForm, CheckRunLease, CheckBrowserLease,
                      CheckLease, Denied
  <2>7. CASE Consume(c) \/ Reserve(c) \/ Start(c) \/ NoClick(c)
    BY <1>1, <2>7 DEF Consume, Reserve, Start, NoClick, Denied
  <2>8. CASE Click(c) \/ Observe(c)
    BY <1>1, <2>8 DEF Click, Observe, localVars
  <2>9. CASE Settle(c)
    BY <1>1, <2>9 DEF Settle, SettleWithout, SettleVerified, SettleUnproven,
                      Raise
  <2>10. CASE MarkUnknown(c)
    BY <1>1, <2>10 DEF MarkUnknown, Raise
  <2>11. CASE Unwind(c)
    <3>1. PICK r \in Resource : GiveUp(r, c)
      BY <1>5, <2>11 DEF Unwind
    <3>2. UNCHANGED <<pc, after>>
      BY <2>11 DEF Unwind, localVars
    <3>3. QED
      BY <1>3, <1>4, <3>1, <3>2
  <2>12. CASE Unwound(c)
    <3>1. OffStack(c)
      BY <2>12 DEF Unwound, OnStack, OffStack
    <3>2. QED
      BY <1>1, <2>12, <3>1 DEF Unwound
  <2>13. CASE Return(c)
    <3>1. /\ pc[c] = "return" /\ GiveUp(Browser, c) /\ Go(c, "done")
          /\ after' = [after EXCEPT ![c] = "closing"]
      BY <2>13 DEF Return, Forget
    <3>2. HoldsNothing(c)'
      <4>1. OffStack(c)
        BY <3>1
      <4>2. QED
        BY <1>4, <1>5, <3>1, <4>1
    <3>3. QED
      BY <1>3, <1>5, <3>1, <3>2
  <2>14. QED
    BY <1>10, <2>1, <2>2, <2>3, <2>4, <2>5, <2>6, <2>7, <2>8, <2>9, <2>10,
       <2>11, <2>12, <2>13 DEF Step
<1>12. QED
  BY <1>6, <1>7, <1>8, <1>9, <1>10, <1>11 DEF Next

\* Verified intents and their evidence stay.
LEMMA ProofStays ==
  ASSUME TypeOK, [Next]_vars, NEW c \in Call,
         intent[c] = "VERIFIED", c \in evidence
  PROVE  intent'[c] = "VERIFIED" /\ c \in evidence' /\ RunOf(c)' = RunOf(c)
<1>1. RunOf(c)' = RunOf(c)
  BY RequestsAreFixed DEF RunOf
<1>2. evidence \subseteq evidence'
  <2>1. ASSUME NEW d \in Call, Step(d)
        PROVE  evidence \subseteq evidence'
    BY <2>1
       DEF Step, Preflight, Prior, RunLease, BrowserLease, ReadRun, WriteRun,
           ReachReview, Decide, SubmitForm, CheckRunLease, CheckBrowserLease,
           CheckLease, Consume, Reserve, Start, Click, NoClick, Observe,
           Settle, SettleWithout, SettleVerified, SettleUnproven, MarkUnknown,
           Unwind, Unwound, Return, ledgerVars
  <2>2. QED
    BY <2>1 DEF Next, Begin, Fails, Crash, Abort, Attest, vars, ledgerVars
<1>3. ASSUME NEW d \in Call, Reserves(d)
      PROVE  intent'[c] = "VERIFIED"
  BY <1>3 DEF Reserves, ActiveRivals, SamePosting, Active, TypeOK, LedgerTyped
<1>4. ASSUME NEW d \in Call, Moves(d)
      PROVE  intent'[c] = "VERIFIED"
  BY <1>4 DEF Moves, TypeOK, LedgerTyped
<1>5. QED
  BY <1>1, <1>2, <1>3, <1>4, HowIntentsChange

\* Only WriteRun writes a run row, and what it writes is truthful.
LEMMA VerifiedRunHasProofStep ==
  ASSUME TypeOK, ReportsAreTruthful, VerifiedRunHasProof, [Next]_vars
  PROVE  VerifiedRunHasProof'
<1>1. UNCHANGED runs \/ \E c \in Call : WriteRun(c)
  <2>1. ASSUME NEW c \in Call, Step(c)
        PROVE  UNCHANGED runs \/ WriteRun(c)
    BY <2>1
       DEF Step, Preflight, Prior, RunLease, BrowserLease, ReadRun,
           ReachReview, Decide, SubmitForm, CheckRunLease, CheckBrowserLease,
           CheckLease, Consume, Reserve, Start, Click, NoClick, Observe,
           Settle, MarkUnknown, Unwind, Unwound, Return, ledgerVars
  <2>2. QED
    BY <2>1 DEF Next, Begin, Fails, Crash, Abort, Attest, vars, ledgerVars
<1>2. ASSUME NEW r \in Run, runs'[r] = "SUBMITTED_VERIFIED"
      PROVE  \E c \in Call : /\ RunOf(c) = r
                            /\ intent[c] = "VERIFIED" /\ c \in evidence
  <2>1. CASE runs[r] = "SUBMITTED_VERIFIED"
    BY <2>1 DEF VerifiedRunHasProof
  <2>2. CASE runs[r] # "SUBMITTED_VERIFIED"
    <3>1. PICK c \in Call : WriteRun(c)
      BY <1>1, <1>2, <2>2
    <3>2. /\ runs' = [runs EXCEPT ![RunOf(c)] = out[c]]
          /\ pc[c] = "writeRun"
      BY <1>2, <2>2, <3>1 DEF WriteRun
    <3>3. RunOf(c) = r /\ out[c] = "SUBMITTED_VERIFIED"
      BY <1>2, <2>2, <3>2 DEF TypeOK, LedgerTyped
    <3>4. intent[c] = "VERIFIED" /\ c \in evidence
      BY <3>2, <3>3 DEF ReportsAreTruthful, Reporting, AtReview, Truthful
    <3>5. QED
      BY <3>3, <3>4
  <2>3. QED
    BY <2>1, <2>2
<1>3. QED
  BY <1>2, ProofStays DEF VerifiedRunHasProof

\* Reports, proofs of runs and started submissions, together inductive.
LEMMA ReportsAndStacks == Spec => [](ReportInv /\ StackIsUnwound)
<1>1. Init => ReportInv /\ StackIsUnwound
  <2> SUFFICES ASSUME Init PROVE ReportInv /\ StackIsUnwound
    OBVIOUS
  <2>1. ReportsAreTruthful /\ StartedIsAtWork
    BY DEF Init, ReportsAreTruthful, Reporting, AtReview, StartedIsAtWork
  <2>2. VerifiedRunHasProof
    BY DEF Init, VerifiedRunHasProof
  <2>3. StackIsUnwound
    BY EngineAssumption DEF Init, StackIsUnwound, Unstacked, HoldsNothing
  <2>4. QED
    BY <2>1, <2>2, <2>3 DEF ReportInv
<1>2. TypeOK /\ EngineInv /\ ReportInv /\ StackIsUnwound /\ [Next]_vars
        => (ReportInv /\ StackIsUnwound)'
  BY ReportsAreTruthfulStep, VerifiedRunHasProofStep, StartedIsAtWorkStep,
     StackIsUnwoundStep DEF ReportInv, EngineInv
<1>3. QED
  BY <1>1, <1>2, EngineTypeCorrect, EngineInvariant, PTL DEF Spec

(* What execute returns is never rosier than what happened to the click    *)
(* and the intent (application_engine.py 776-846).                         *)
THEOREM OutcomesAreHonest == Spec => []OutcomeIsHonest
<1>1. ReportInv => OutcomeIsHonest
  BY DEF ReportInv, ReportsAreTruthful, Reporting, Truthful, OutcomeIsHonest
<1>2. QED
  BY <1>1, ReportsAndStacks, PTL

(* A run says SUBMITTED_VERIFIED only with a verified intent of that run   *)
(* and its evidence behind it, whoever writes in between (README.md 194).  *)
THEOREM VerifiedRunsHaveProof == Spec => []VerifiedRunHasProof
<1>1. ReportInv => VerifiedRunHasProof
  BY DEF ReportInv
<1>2. QED
  BY <1>1, ReportsAndStacks, PTL

(* An invocation that answered left no submission of its own half way; one *)
(* that raised or died may have (application_engine.py 705-740, 787-805).  *)
THEOREM NothingIsLeftSubmitting == Spec => []NothingLeftSubmitting
<1>1. ReportInv => NothingLeftSubmitting
  BY DEF ReportInv, StartedIsAtWork, NothingLeftSubmitting
<1>2. QED
  BY <1>1, ReportsAndStacks, PTL

(* An invocation that ended, by a return or an exception, holds no lease   *)
(* (leases.py 275-287, application_engine.py 470).                         *)
THEOREM LeasesAreReturned == Spec => []LeasesReturned
<1>1. StackIsUnwound => LeasesReturned
  BY DEF StackIsUnwound, HoldsNothing, LeasesReturned
<1>2. QED
  BY <1>1, ReportsAndStacks, PTL

-----------------------------------------------------------------------------
(* Nothing goes round in circles: what EveryCallEnds rests on              *)

\* Rows of c's lease stack still to be given back.
Depth(c) == (IF Browser \in OnStack(c) THEN 1 ELSE 0)
          + (IF RunOf(c) \in OnStack(c) THEN 1 ELSE 0)

\* How many steps the place of an invocation leaves it at most, the rows on
\* the stack not counted.  A place is passed twice only as "readRun" and
\* "writeRun" are, once for the Review and once for the outcome, and as
\* "closing" is, which comes before the record when a lease was refused.
Stage(c) ==
  CASE pc[c] = "idle"         -> 28 [] pc[c] = "preflight"    -> 27
    [] pc[c] = "prior"        -> 26 [] pc[c] = "runLease"     -> 25
    [] pc[c] = "browserLease" -> 24 [] pc[c] = "review"       -> 23
    [] pc[c] = "decide"       -> 20 [] pc[c] = "form"         -> 19
    [] pc[c] = "checkRun"     -> 18 [] pc[c] = "checkBrowser" -> 17
    [] pc[c] = "consume"      -> 16 [] pc[c] = "reserve"      -> 15
    [] pc[c] = "start"        -> 14 [] pc[c] = "click"        -> 13
    [] pc[c] = "observe"      -> 12 [] pc[c] = "settle"       -> 11
    [] pc[c] = "unknown"      -> 10
    [] pc[c] = "readRun"      -> IF after[c] = "decide" THEN 22 ELSE 6
    [] pc[c] = "writeRun"     -> IF after[c] = "decide" THEN 21 ELSE 5
    [] pc[c] = "closing"      -> IF out[c] = "REFUSED" THEN 7 ELSE 2
    [] pc[c] = "return"       -> 1
    [] pc[c] \in {"done", "crashed"} -> 0

Rank(c) == IF pc[c] = "closing" THEN Stage(c) + Depth(c) ELSE Stage(c)

(* Every step an invocation takes, an exception and its death included,    *)
(* brings its end nearer, and no step of anybody takes any invocation      *)
(* further from it: a refused lease, a denied permit, a conflict or an     *)
(* aborted intent never sends it back (application_engine.py 336-858).     *)
EndComesNearer ==
  [][\A c \in Call :
       /\ Rank(c)' <= Rank(c)
       /\ Begin(c) \/ Step(c) \/ Fails(c) \/ Crash(c)
            => Rank(c)' < Rank(c)]_vars

\* An invocation's token is only in the browser's row and its own run's.
OwnRows ==
  \A c \in Call : \A r \in Resource :
    holder[r] = c => r \in {Browser, RunOf(c)}

\* The rows an invocation has are taken under its own run and the browser.
LEMMA OwnRowsStep ==
  ASSUME TypeOK, OwnRows, [Next]_vars
  PROVE  OwnRows'
<1> USE DEF OwnRows
<1>1. req' = req /\ holder \in [Resource -> Call \cup {None}]
  BY RequestsAreFixed DEF TypeOK, LedgerTyped
<1>2. ASSUME NEW c \in Call, NEW r \in {Browser, RunOf(c)},
             Take(r, c) \/ GiveUp(r, c)
      PROVE  OwnRows'
  BY <1>1, <1>2, EngineAssumption DEF Take, GiveUp, RunOf
<1>3. ASSUME holder' = holder
      PROVE  OwnRows'
  BY <1>1, <1>3 DEF RunOf
<1>4. ASSUME NEW c \in Call, Step(c)
      PROVE  OwnRows'
  <2>1. CASE RunLease(c)
    BY <1>2, <1>3, <2>1 DEF RunLease, Refuse
  <2>2. CASE BrowserLease(c)
    BY <1>2, <1>3, <2>2 DEF BrowserLease, Refuse
  <2>3. CASE Unwind(c)
    BY <1>2, <2>3 DEF Unwind
  <2>4. CASE Return(c)
    BY <1>2, <2>4 DEF Return
  <2>5. QED
    BY <1>3, <1>4, <2>1, <2>2, <2>3, <2>4
       DEF Step, Preflight, Prior, ReadRun, WriteRun, ReachReview, Decide,
           SubmitForm, CheckRunLease, CheckBrowserLease, CheckLease, Consume,
           Reserve, Start, Click, NoClick, Observe, Settle, MarkUnknown,
           Unwound
<1>5. QED
  BY <1>2, <1>3, <1>4 DEF Next, Begin, Fails, Crash, Abort, Attest, vars

\* The depth of the stack is a number of rows.
LEMMA DepthIsSmall ==
  ASSUME NEW c \in Call
  PROVE  Depth(c) \in 0..2 /\ Depth(c)' \in 0..2
BY DEF Depth

\* A step of one invocation leaves the others where they are, and gives
\* them no rows.
LEMMA OthersStay ==
  ASSUME TypeOK, [Next]_vars, NEW c \in Call,
         Begin(c) \/ Step(c) \/ Fails(c) \/ Crash(c),
         NEW d \in Call \ {c}
  PROVE  /\ pc'[d] = pc[d] /\ out'[d] = out[d] /\ after'[d] = after[d]
         /\ Depth(d)' <= Depth(d)
<1> USE DEF TypeOK, ControlTyped, Go, Report, Record
<1>1. /\ req' = req /\ holder \in [Resource -> Call \cup {None}]
      /\ Browser \in Resource
      /\ \A e \in Call : RunOf(e) \in Resource /\ RunOf(e)' = RunOf(e)
  BY RequestsAreFixed
     DEF LedgerTyped, LocalTyped, Request, RunOf, Resource
<1>2. \/ holder' = holder
      \/ \E r \in Resource : Take(r, c) \/ GiveUp(r, c)
  BY <1>1
     DEF Step, Preflight, Prior, RunLease, BrowserLease, Refuse, ReadRun,
         WriteRun, ReachReview, Decide, SubmitForm, CheckRunLease,
         CheckBrowserLease, CheckLease, Consume, Reserve, Start, Click,
         NoClick, Observe, Settle, MarkUnknown, Unwind, Unwound, Return,
         Begin, Fails, Crash
<1>3. \A r \in Resource : holder'[r] = d => holder[r] = d
  BY <1>1, <1>2, EngineAssumption DEF Take, GiveUp
<1>4. Depth(d)' <= Depth(d)
  BY <1>1, <1>3 DEF Depth, OnStack
<1>5. pc'[d] = pc[d] /\ out'[d] = out[d] /\ after'[d] = after[d]
  <2>1. CASE Begin(c) \/ Fails(c) \/ Crash(c)
    BY <2>1 DEF Begin, Fails, Crash, Forget, Raise, localVars
  <2>2. CASE Step(c)
    <3>1. CASE Preflight(c) \/ Prior(c) \/ RunLease(c) \/ BrowserLease(c)
      BY <3>1 DEF Preflight, Prior, Raise, RunLease, BrowserLease, Refuse
    <3>2. CASE ReadRun(c) \/ WriteRun(c) \/ ReachReview(c) \/ Decide(c)
      BY <3>2 DEF ReadRun, WriteRun, ReachReview, Decide, Raise
    <3>3. CASE SubmitForm(c) \/ CheckRunLease(c) \/ CheckBrowserLease(c)
      BY <3>3 DEF SubmitForm, CheckRunLease, CheckBrowserLease, CheckLease,
                  Denied
    <3>4. CASE Consume(c) \/ Reserve(c) \/ Start(c) \/ NoClick(c)
      BY <3>4 DEF Consume, Reserve, Start, NoClick, Denied
    <3>5. CASE Click(c) \/ Observe(c) \/ Settle(c) \/ MarkUnknown(c)
      BY <3>5 DEF Click, Observe, Settle, SettleWithout, SettleVerified,
                  SettleUnproven, MarkUnknown, Raise, localVars
    <3>6. CASE Unwind(c) \/ Unwound(c) \/ Return(c)
      BY <3>6 DEF Unwind, Unwound, Return, Forget, localVars
    <3>7. QED
      BY <2>2, <3>1, <3>2, <3>3, <3>4, <3>5, <3>6 DEF Step
  <2>3. QED
    BY <2>1, <2>2
<1>6. QED
  BY <1>4, <1>5

\* A step of an invocation brings its own end nearer.
LEMMA OwnEndComesNearer ==
  ASSUME TypeOK, OwnRows, [Next]_vars, NEW c \in Call,
         Begin(c) \/ Step(c) \/ Fails(c) \/ Crash(c)
  PROVE  Rank(c)' < Rank(c)
<1> USE DepthIsSmall DEF TypeOK, ControlTyped, Go, Report, Record, Rank, Stage
<1>1. CASE Begin(c)
  BY <1>1 DEF Begin
<1>2. CASE Crash(c)
  BY <1>2 DEF Crash, Forget, PC
<1>3. CASE Step(c)
  <2>1. CASE Preflight(c)     BY <2>1 DEF Preflight
  <2>2. CASE Prior(c)         BY <2>2 DEF Prior, Raise
  <2>3. CASE RunLease(c)      BY <2>3 DEF RunLease, Refuse
  <2>4. CASE BrowserLease(c)  BY <2>4 DEF BrowserLease, Refuse
  <2>5. CASE ReadRun(c)       BY <2>5 DEF ReadRun
  <2>6. CASE WriteRun(c)      BY <2>6 DEF WriteRun, Raise, Status
  <2>7. CASE ReachReview(c)   BY <2>7 DEF ReachReview, Raise
  <2>8. CASE Decide(c)        BY <2>8 DEF Decide, Raise
  <2>9. CASE SubmitForm(c)    BY <2>9 DEF SubmitForm
  <2>10. CASE CheckRunLease(c)
    BY <2>10 DEF CheckRunLease, CheckLease, Denied
  <2>11. CASE CheckBrowserLease(c)
    BY <2>11 DEF CheckBrowserLease, CheckLease, Denied
  <2>12. CASE Consume(c)      BY <2>12 DEF Consume, Denied
  <2>13. CASE Reserve(c)      BY <2>13 DEF Reserve, Denied
  <2>14. CASE Start(c)        BY <2>14 DEF Start, Denied
  <2>15. CASE Click(c)        BY <2>15 DEF Click
  <2>16. CASE NoClick(c)      BY <2>16 DEF NoClick, Denied
  <2>17. CASE Observe(c)      BY <2>17 DEF Observe
  <2>18. CASE Settle(c)
    BY <2>18 DEF Settle, SettleWithout, SettleVerified, SettleUnproven, Raise
  <2>19. CASE MarkUnknown(c)  BY <2>19 DEF MarkUnknown, Raise
  <2>20. CASE Unwind(c)
    <3>1. Depth(c)' < Depth(c)
      <4>1. req' = req /\ holder \in [Resource -> Call \cup {None}]
        BY RequestsAreFixed DEF LedgerTyped
      <4>2. /\ OnStack(c) \subseteq {Browser, RunOf(c)} /\ OnStack(c) # {}
            /\ None # c /\ Browser # RunOf(c)
        BY <2>20, EngineAssumption
           DEF Unwind, OnStack, OwnRows, RunOf, LocalTyped, Request
      <4>3. OnStack(c)' = OnStack(c) \ {IF Browser \in OnStack(c)
                                        THEN Browser ELSE RunOf(c)}
        BY <2>20, <4>1, <4>2 DEF Unwind, GiveUp, OnStack
      <4>4. RunOf(c)' = RunOf(c)
        BY <4>1 DEF RunOf
      <4>5. QED
        BY <4>2, <4>3, <4>4 DEF Depth
    <3>2. /\ pc'[c] = "closing" /\ pc[c] = "closing"
          /\ Stage(c)' = Stage(c) /\ Stage(c) \in {2, 7}
      BY <2>20 DEF Unwind, localVars
    <3> HIDE DEF Stage
    <3>3. QED
      BY <3>1, <3>2
  <2>21. CASE Unwound(c)      BY <2>21 DEF Unwound
  <2>22. CASE Return(c)       BY <2>22 DEF Return
  <2> HIDE DEF Rank, Stage
  <2>23. QED
    BY <1>3, <2>1, <2>2, <2>3, <2>4, <2>5, <2>6, <2>7, <2>8, <2>9, <2>10,
       <2>11, <2>12, <2>13, <2>14, <2>15, <2>16, <2>17, <2>18, <2>19, <2>20,
       <2>21, <2>22 DEF Step
<1>4. CASE Fails(c)
  <2>1. Stage(c) \in 5..28 /\ pc[c] # "closing"
    BY <1>4 DEF Fails, Uncaught
  <2>2. pc'[c] = "closing" /\ Stage(c)' = 2
    BY <1>4 DEF Fails, Raise
  <2> HIDE DEF Stage
  <2>3. Rank(c) = Stage(c) /\ Rank(c)' = 2 + Depth(c)'
    BY <2>1, <2>2
  <2> HIDE DEF Rank
  <2>4. QED
    BY <2>1, <2>3
<1>5. QED
  BY <1>1, <1>2, <1>3, <1>4

\* A rank is a number.
LEMMA RankIsNumber ==
  ASSUME NEW c \in Call, TypeOK, TypeOK'
  PROVE  Rank(c) \in Nat /\ Rank(c)' \in Nat
BY DepthIsSmall DEF Rank, Stage, TypeOK, ControlTyped, PC

\* Where an invocation stays, its rank can only fall with its stack.
LEMMA RankFallsWithTheStack ==
  ASSUME NEW d \in Call, ControlTyped,
         pc'[d] = pc[d], out'[d] = out[d], after'[d] = after[d],
         Depth(d)' <= Depth(d)
  PROVE  Rank(d)' <= Rank(d)
<1>1. Stage(d)' = Stage(d) /\ Stage(d) \in Nat
  BY DEF Stage, ControlTyped, PC
<1>2. QED
  BY <1>1, DepthIsSmall DEF Rank

(* An invocation takes at most 28 steps, whatever the others do: no        *)
(* refusal, denial or conflict leads back, so all that can keep it from    *)
(* its end is that it stands still (application_engine.py 336-858).        *)
THEOREM EveryStepLeadsToTheEnd == Spec => EndComesNearer
<1> DEFINE Near == \A c \in Call :
                     /\ Rank(c)' <= Rank(c)
                     /\ Begin(c) \/ Step(c) \/ Fails(c) \/ Crash(c)
                          => Rank(c)' < Rank(c)
<1>1. Init => OwnRows
  BY EngineAssumption DEF Init, OwnRows
<1>2. TypeOK /\ OwnRows /\ [Next]_vars => OwnRows'
  BY OwnRowsStep
<1>3. TypeOK /\ TypeOK' /\ OwnRows /\ [Next]_vars => [Near]_vars
  <2> SUFFICES ASSUME TypeOK, TypeOK', OwnRows, [Next]_vars,
                      ~UNCHANGED vars, NEW c \in Call
               PROVE  /\ Rank(c)' <= Rank(c)
                      /\ Begin(c) \/ Step(c) \/ Fails(c) \/ Crash(c)
                           => Rank(c)' < Rank(c)
    OBVIOUS
  <2>1. Rank(c) \in Nat /\ Rank(c)' \in Nat
    BY RankIsNumber
  <2>2. CASE Begin(c) \/ Step(c) \/ Fails(c) \/ Crash(c)
    BY <2>1, <2>2, OwnEndComesNearer
  <2>3. ASSUME ~(Begin(c) \/ Step(c) \/ Fails(c) \/ Crash(c)),
               NEW d \in Call, Begin(d) \/ Step(d) \/ Fails(d) \/ Crash(d)
        PROVE  Rank(c)' <= Rank(c)
    BY <2>3, OthersStay, RankFallsWithTheStack DEF TypeOK
  <2>4. ASSUME NEW d \in Call, Abort(d) \/ Attest(d)
        PROVE  Rank(c)' <= Rank(c)
    <3>1. UNCHANGED <<holder, pc, req, out, after>>
      BY <2>4 DEF Abort, Attest, localVars
    <3>2. Depth(c)' = Depth(c)
      BY <3>1 DEF Depth, OnStack, RunOf
    <3>3. QED
      BY <3>1, <3>2, DepthIsSmall, RankFallsWithTheStack DEF TypeOK
  <2>5. QED
    BY <2>2, <2>3, <2>4 DEF Next
<1>4. QED
  BY <1>1, <1>2, <1>3, EngineTypeCorrect, PTL DEF Spec, EndComesNearer

-----------------------------------------------------------------------------
(* What an invocation that is over leaves behind                           *)

Over(c) == pc[c] \in {"done", "crashed"}

(* An intent that stands when its invocation ends or dies is moved on by   *)
(* nobody but the person who reconciles it: no other invocation of the     *)
(* same posting, and no restart, aborts, settles or reuses it              *)
(* (application_engine.py 153-176, event_ledger.py 1005-1075).             *)
OnlyAHumanMovesItOn ==
  [][\A c \in Call :
       Over(c) => intent'[c] = intent[c] \/ Abort(c) \/ Attest(c)]_vars

(* While an intent stands for a posting, under any of its hashes, nobody   *)
(* reserves another; and one that was proven stands for good.              *)
PostingStaysClosed ==
  [][\A c, d \in Call :
       SamePosting(c, d) /\ intent[c] \in Active =>
         /\ intent[d] = "NONE" => intent'[d] = "NONE"
         /\ intent[c] = "VERIFIED" => intent'[c] = "VERIFIED"]_vars

\* Invocations move their own intents only.
LEMMA OwnIntentOnly ==
  ASSUME TypeOK, NEW c \in Call, NEW d \in Call \ {c}, Step(d)
  PROVE  intent'[c] = intent[c]
<1>1. intent \in [Call -> IntentStatus]
  BY DEF TypeOK, LedgerTyped
<1>2. QED
  BY <1>1
     DEF Step, Preflight, Prior, RunLease, BrowserLease, ReadRun, WriteRun,
         ReachReview, Decide, SubmitForm, CheckRunLease, CheckBrowserLease,
         CheckLease, Consume, Reserve, PostingTaken, Start, Click, NoClick,
         Observe, Settle, SettleWithout, SettleVerified, SettleUnproven,
         MarkUnknown, Unwind, Unwound, Return, ledgerVars

(* What a dead or finished invocation left standing closes its posting to  *)
(* everybody until a human has withdrawn it, and for good once it is       *)
(* proven: for any number of invocations, restarts and runs of a posting.  *)
THEOREM OnlyAHumanReopensAPosting ==
  Spec => OnlyAHumanMovesItOn /\ PostingStaysClosed
<1>1. TypeOK /\ [Next]_vars =>
        [\A c \in Call :
           Over(c) => intent'[c] = intent[c] \/ Abort(c) \/ Attest(c)]_vars
  <2> SUFFICES ASSUME TypeOK, [Next]_vars, NEW c \in Call, Over(c)
               PROVE  intent'[c] = intent[c] \/ Abort(c) \/ Attest(c)
    OBVIOUS
  <2>1. ASSUME NEW d \in Call, Step(d)
        PROVE  intent'[c] = intent[c]
    <3>1. d # c
      BY <2>1
         DEF Over, Step, Preflight, Prior, RunLease, BrowserLease, ReadRun,
             WriteRun, ReachReview, Decide, SubmitForm, CheckRunLease,
             CheckBrowserLease, CheckLease, Consume, Reserve, Start, Click,
             NoClick, Observe, Settle, MarkUnknown, Unwind, Unwound, Return
    <3>2. QED
      BY <2>1, <3>1, OwnIntentOnly
  <2>2. ASSUME NEW d \in Call, Begin(d) \/ Fails(d) \/ Crash(d)
        PROVE  intent'[c] = intent[c]
    BY <2>2 DEF Begin, Fails, Crash, ledgerVars
  <2>3. ASSUME NEW d \in Call \ {c}, Abort(d) \/ Attest(d)
        PROVE  intent'[c] = intent[c]
    BY <2>3 DEF Abort, Attest, TypeOK, LedgerTyped
  <2>4. QED
    BY <2>1, <2>2, <2>3 DEF Next, vars
<1>2. TypeOK /\ [Next]_vars =>
        [\A c, d \in Call :
           SamePosting(c, d) /\ intent[c] \in Active =>
             /\ intent[d] = "NONE" => intent'[d] = "NONE"
             /\ intent[c] = "VERIFIED" => intent'[c] = "VERIFIED"]_vars
  <2> SUFFICES ASSUME TypeOK, [Next]_vars, NEW c \in Call, NEW d \in Call,
                      SamePosting(c, d), intent[c] \in Active
               PROVE  /\ intent[d] = "NONE" => intent'[d] = "NONE"
                      /\ intent[c] = "VERIFIED" => intent'[c] = "VERIFIED"
    OBVIOUS
  <2>1. ASSUME NEW e \in Call, Reserves(e)
        PROVE  e # c /\ e # d
    BY <2>1 DEF Reserves, ActiveRivals, SamePosting
  <2>2. intent \in [Call -> IntentStatus]
    BY DEF TypeOK, LedgerTyped
  <2>3. ASSUME NEW e \in Call, Reserves(e)
        PROVE  intent'[c] = intent[c]
               /\ (intent[d] = "NONE" => intent'[d] = "NONE")
    BY <2>1, <2>2, <2>3 DEF Reserves
  <2>4. ASSUME NEW e \in Call, Moves(e)
        PROVE  /\ intent[d] = "NONE" => intent'[d] = "NONE"
               /\ intent[c] = "VERIFIED" => intent'[c] = "VERIFIED"
    BY <2>2, <2>4 DEF Moves
  <2>5. QED
    BY <2>3, <2>4, HowIntentsChange
<1>3. QED
  BY <1>1, <1>2, EngineTypeCorrect, PTL
     DEF Spec, OnlyAHumanMovesItOn, PostingStaysClosed
=============================================================================
