------------------------- MODULE BrowserRuntimeProofs -------------------------
(***************************************************************************)
(* Proofs about BrowserRuntime, for any finite number of requests, any     *)
(* starters and closers and any number of mishaps.                         *)
(*                                                                         *)
(* The argument.  The lock divides the browser's life into phases, and     *)
(* BrowserLife says in each of them which browser runs; a cancelled start  *)
(* or close may leave the phases, and only then, and what raised when it   *)
(* was closed may be left (jammed, stalled).  A request that has not       *)
(* lost the row holds it (RowIsHeld), so two that use pages at once have   *)
(* lost it, one of them.  A page leaves its request's responsibility only  *)
(* closed, failed or cancelled (PageIsCovered).  The count is at least the *)
(* number of pages that are out (CountIsSound): cancellations leak it      *)
(* upwards only, so a wait that ends at zero ends with no page out.        *)
(*                                                                         *)
(* NobodyTurnsBack is the safety core of NobodyHangs: ranks of starters,   *)
(* closers and requests fall with their own steps and rise with no other.  *)
(***************************************************************************)
EXTENDS BrowserRuntime, FiniteSetTheorems, TLAPS

-----------------------------------------------------------------------------
(* Types                                                                   *)

\* Steps of start, close and lease keep the types of the runtime.
LEMMA CallersTypedStep ==
  ASSUME CallersTyped, [Next]_vars
  PROVE  CallersTyped'
<1> USE DEF CallersTyped, State, OpPC, OpGoto, Taken, Nothing, processVars
<1>1. ASSUME NEW b \in Caller, CallerStep(b) \/ CancelCaller(b)
      PROVE  CallersTyped'
  <2>1. CASE Drive(b) \/ Launch(b) \/ Tidy(b)
    BY <2>1 DEF Drive, Launch, Tidy
  <2>2. CASE StartFails(b) \/ TakeContext(b)
    BY <2>2 DEF StartFails, TakeContext, CloseResources, Finish
  <2>3. CASE DrainTimesOut(b)
    BY <2>3 DEF DrainTimesOut
  <2>4. CASE CloseContext(b)
    BY <2>4 DEF CloseContext, BrowserEnds
  <2>5. CASE StopDriver(b)
    BY <2>5 DEF StopDriver, Finish, BrowserEnds
  <2>6. CASE CancelCaller(b)
    BY <2>6 DEF CancelCaller, BrowserEnds
  <2>7. QED
    BY <1>1, <2>1, <2>2, <2>3, <2>4, <2>5, <2>6 DEF CallerStep
<1>2. ASSUME NEW b \in Starter, StartReturns(b) \/ Start(b)
      PROVE  CallersTyped'
  BY <1>2 DEF StartReturns, Start, Caller
<1>3. ASSUME NEW b \in Closer, Close(b)
      PROVE  CallersTyped'
  BY <1>3 DEF Close, Caller
<1>4. ASSUME NEW r \in Request, EndUse(r) \/ \E q \in Request : ClosePage(r, q)
      PROVE  CallersTyped'
  BY <1>4 DEF EndUse, ClosePage, CountOut
<1>5. ASSUME UNCHANGED runtimeVars
      PROVE  CallersTyped'
  BY <1>5 DEF runtimeVars
<1>6. QED
  BY <1>1, <1>2, <1>3, <1>4, <1>5
     DEF Next, RequestStep, Ask, PageAppears, NewPageFails, NewPage, Release,
         CancelRequest, Lapse, vars

\* They keep the types of the requests.
LEMMA LeasesTypedStep ==
  ASSUME LeasesTyped, [Next]_vars
  PROVE  LeasesTyped'
<1> USE DEF LeasesTyped, LeasePC, Goto
<1>1. ASSUME UNCHANGED <<leaseVars, unclosed>>, pages' \subseteq pages
      PROVE  LeasesTyped'
  BY <1>1 DEF leaseVars
<1>2. ASSUME NEW b \in Caller, CallerStep(b) \/ CancelCaller(b)
      PROVE  LeasesTyped'
  BY <1>1, <1>2 DEF CallerStep, Drive, Launch, Tidy, StartFails, DrainTimesOut,
     TakeContext, CloseResources, Finish, CloseContext, BrowserEnds,
     StopDriver, CancelCaller
<1>3. ASSUME NEW b \in Caller, StartReturns(b) \/ Start(b) \/ Close(b)
      PROVE  LeasesTyped'
  BY <1>1, <1>3 DEF StartReturns, Start, Close
<1>4. ASSUME NEW r \in Request, Ask(r) \/ PageAppears(r)
      PROVE  LeasesTyped'
  BY <1>4 DEF Ask, PageAppears
<1>5. ASSUME NEW r \in Request, NewPageFails(r) \/ NewPage(r)
      PROVE  LeasesTyped'
  BY <1>5 DEF NewPageFails, NewPage
<1>6. ASSUME NEW r \in Request, EndUse(r)
      PROVE  LeasesTyped'
  BY <1>6 DEF EndUse, ToClose
<1>7. ASSUME NEW r \in Request, NEW q \in Request, ClosePage(r, q)
      PROVE  LeasesTyped'
  BY <1>7 DEF ClosePage
<1>8. ASSUME NEW r \in Request, Release(r) \/ CancelRequest(r)
      PROVE  LeasesTyped'
  BY <1>8 DEF Release, Forget, CancelRequest
<1>9. CASE Lapse
  BY <1>9 DEF Lapse
<1>10. CASE UNCHANGED vars
  BY <1>1, <1>10 DEF vars
<1>11. QED
  BY <1>2, <1>3, <1>4, <1>5, <1>6, <1>7, <1>8, <1>9, <1>10
     DEF Next, RequestStep, Caller

-----------------------------------------------------------------------------
(* The browser and its lock                                                *)

\* One caller at a time is under the lock; a shutdown once begun is not undone.
LEMMA LockIsHeldStep ==
  ASSUME CallersTyped, LockIsHeld, [Next]_vars
  PROVE  LockIsHeld'
<1> USE BrowserAssumption
    DEF CallersTyped, LockIsHeld, Locking, OpGoto, Caller
<1>1. ASSUME NEW b \in Caller, CallerStep(b) \/ CancelCaller(b)
      PROVE  LockIsHeld'
  <2>1. CASE Drive(b) \/ Launch(b)
    BY <2>1 DEF Drive, Launch
  <2>7. CASE Tidy(b)
    BY <2>7 DEF Tidy
  <2>8. CASE StartFails(b)
    BY <2>8 DEF StartFails, CloseResources, Finish
  <2>9. CASE StopDriver(b)
    BY <2>9 DEF StopDriver, Finish
  <2>2. CASE DrainTimesOut(b)
    BY <2>2 DEF DrainTimesOut
  <2>3. CASE TakeContext(b)
    BY <2>3 DEF TakeContext, CloseResources, Finish
  <2>4. CASE CloseContext(b)
    BY <2>4 DEF CloseContext
  <2>5. CASE CancelCaller(b)
    BY <2>5 DEF CancelCaller
  <2>6. QED
    BY <1>1, <2>1, <2>2, <2>3, <2>4, <2>5, <2>7, <2>8, <2>9 DEF CallerStep
<1>2. ASSUME NEW b \in Starter, StartReturns(b) \/ Start(b)
      PROVE  LockIsHeld'
  BY <1>2 DEF StartReturns, Start
<1>3. ASSUME NEW b \in Closer, Close(b)
      PROVE  LockIsHeld'
  BY <1>3 DEF Close
<1>4. ASSUME NEW r \in Request,
             EndUse(r) \/ \E q \in Request : ClosePage(r, q)
      PROVE  LockIsHeld'
  BY <1>4 DEF EndUse, ClosePage, CountOut
<1>5. ASSUME UNCHANGED runtimeVars
      PROVE  LockIsHeld'
  BY <1>5 DEF runtimeVars
<1>6. QED
  BY <1>1, <1>2, <1>3, <1>4, <1>5
     DEF Next, RequestStep, Ask, PageAppears, NewPageFails, NewPage, Release,
         CancelRequest, Lapse, vars

\* Each step of a start or close leads from one phase to the next.
LEMMA BrowserLifeStep ==
  ASSUME CallersTyped, LeasesTyped, LockIsHeld, BrowserLife, [Next]_vars
  PROVE  BrowserLife'
<1> USE BrowserAssumption
    DEF CallersTyped, LeasesTyped, LockIsHeld, BrowserLife, Locking, OpGoto,
        Caller, Running, Runs, Starting, Stopping, Left, Taken, Nothing,
        processVars
<1>1. ASSUME NEW b \in Caller, Drive(b) \/ Launch(b) \/ Tidy(b)
      PROVE  BrowserLife'
  <2>1. CASE Drive(b)   BY <2>1 DEF Drive
  <2>2. CASE Launch(b)  BY <2>2 DEF Launch
  <2>3. CASE Tidy(b)    BY <2>3 DEF Tidy
  <2>4. QED
    BY <1>1, <2>1, <2>2, <2>3
<1>12. ASSUME NEW b \in Caller, StartFails(b)
      PROVE  BrowserLife'
  BY <1>12 DEF StartFails, CloseResources, Finish
<1>13. ASSUME NEW b \in Caller, StopDriver(b)
      PROVE  BrowserLife'
  BY <1>13 DEF StopDriver, Finish, BrowserEnds
<1>2. ASSUME NEW b \in Caller, DrainTimesOut(b)
      PROVE  BrowserLife'
  BY <1>2 DEF DrainTimesOut
<1>3. ASSUME NEW b \in Caller, TakeContext(b)
      PROVE  BrowserLife'
  BY <1>3 DEF TakeContext, CloseResources, Finish
<1>4. ASSUME NEW b \in Caller, CloseContext(b)
      PROVE  BrowserLife'
  BY <1>4 DEF CloseContext, BrowserEnds
<1>5. ASSUME NEW b \in Caller, CancelCaller(b)
      PROVE  BrowserLife'
  BY <1>5 DEF CancelCaller
<1>6. ASSUME NEW b \in Starter, StartReturns(b) \/ Start(b)
      PROVE  BrowserLife'
  BY <1>6 DEF StartReturns, Start
<1>7. ASSUME NEW b \in Closer, Close(b)
      PROVE  BrowserLife'
  BY <1>7 DEF Close
<1>8. ASSUME NEW r \in Request,
             EndUse(r) \/ \E q \in Request : ClosePage(r, q)
      PROVE  BrowserLife'
  <2>1. /\ UNCHANGED <<state, lock, processVars, cancelled>>
        /\ pages' \subseteq pages
        /\ \A b \in Caller : Locking(b) => op'[b] = op[b]
    BY <1>8 DEF EndUse, ClosePage, CountOut
  <2>2. QED
    BY <2>1
<1>9. ASSUME NEW r \in Request, PageAppears(r)
      PROVE  BrowserLife'
  BY <1>9 DEF PageAppears, ContextOpen, runtimeVars
<1>10. ASSUME UNCHANGED runtimeVars, pages' \subseteq pages,
              cancelled \subseteq cancelled'
       PROVE  BrowserLife'
  BY <1>10 DEF runtimeVars
<1>11. QED
  BY <1>1, <1>2, <1>3, <1>4, <1>5, <1>6, <1>7, <1>8, <1>9, <1>10, <1>12,
     <1>13
     DEF Next, CallerStep, RequestStep, Ask, NewPageFails, NewPage, Release,
         CancelRequest, Lapse, vars

\* Pages open in a browser that runs, and end with it.
LEMMA PagesHaveBrowserStep ==
  ASSUME PagesHaveBrowser, [Next]_vars
  PROVE  PagesHaveBrowser'
<1> USE DEF PagesHaveBrowser
<1>1. ASSUME NEW b \in Caller, CallerStep(b) \/ CancelCaller(b)
      PROVE  \/ browsers \subseteq browsers' /\ pages' = pages
             \/ pages' = {}
  <2>1. CASE Drive(b) \/ Launch(b) \/ Tidy(b)
    BY <2>1 DEF Drive, Launch, Tidy, processVars
  <2>2. CASE StartFails(b) \/ TakeContext(b)
    BY <2>2 DEF StartFails, TakeContext
  <2>3. CASE DrainTimesOut(b)
    BY <2>3 DEF DrainTimesOut, processVars
  <2>4. CASE CloseContext(b)
    BY <2>4 DEF CloseContext, BrowserEnds
  <2>5. CASE StopDriver(b)
    BY <2>5 DEF StopDriver, BrowserEnds
  <2>6. CASE CancelCaller(b)
    BY <2>6 DEF CancelCaller, BrowserEnds
  <2>7. QED
    BY <1>1, <2>1, <2>2, <2>3, <2>4, <2>5, <2>6 DEF CallerStep
<1>2. ASSUME NEW b, StartReturns(b) \/ Start(b) \/ Close(b)
      PROVE  browsers' = browsers /\ pages' = pages
  BY <1>2 DEF StartReturns, Start, Close, processVars
<1>3. ASSUME NEW r \in Request,
             \/ Ask(r) \/ PageAppears(r) \/ EndUse(r) \/ RequestStep(r)
             \/ CancelRequest(r)
      PROVE  browsers' = browsers /\ (pages' \subseteq pages \/ browsers # {})
  BY <1>3
     DEF Ask, PageAppears, ContextOpen, EndUse, RequestStep, NewPageFails,
         NewPage, ClosePage, Release, CancelRequest, runtimeVars, processVars
<1>4. Lapse => browsers' = browsers /\ pages' = pages
  BY DEF Lapse, runtimeVars, processVars
<1>5. QED
  BY <1>1, <1>2, <1>3, <1>4 DEF Next, vars, runtimeVars, processVars

-----------------------------------------------------------------------------
(* The row and the pages                                                   *)

\* What a step of a caller leaves alone.
LEMMA CallersSpareLeases ==
  ASSUME [Next]_vars
  PROVE  \/ UNCHANGED leaseVars /\ pages' \subseteq pages
            /\ cancelled \subseteq cancelled' /\ unclosed' = unclosed
         \/ Lapse
         \/ \E r \in Request : Ask(r) \/ PageAppears(r) \/ EndUse(r)
                              \/ RequestStep(r) \/ CancelRequest(r)
<1>1. ASSUME NEW b \in Caller, CallerStep(b) \/ CancelCaller(b)
      PROVE  UNCHANGED leaseVars /\ pages' \subseteq pages
             /\ cancelled \subseteq cancelled' /\ unclosed' = unclosed
  BY <1>1 DEF CallerStep, Drive, Launch, Tidy, StartFails, DrainTimesOut,
     TakeContext, CloseResources, Finish, CloseContext, BrowserEnds,
     StopDriver, CancelCaller
<1>2. ASSUME NEW b, StartReturns(b) \/ Start(b) \/ Close(b)
      PROVE  UNCHANGED <<leaseVars, pages, cancelled, unclosed>>
  BY <1>2 DEF StartReturns, Start, Close
<1>3. QED
  BY <1>1, <1>2 DEF Next, vars

\* Whoever has not lost the row has it.
LEMMA RowIsHeldStep ==
  ASSUME LeasesTyped, RowIsHeld, [Next]_vars
  PROVE  RowIsHeld'
<1> USE BrowserAssumption DEF LeasesTyped, RowIsHeld, Busy, Goto
<1>1. CASE UNCHANGED <<holder, at, lost>>
  BY <1>1
<1>2. CASE Lapse
  BY <1>2 DEF Lapse
<1>3. ASSUME NEW r \in Request, Ask(r)
      PROVE  RowIsHeld'
  BY <1>3 DEF Ask
<1>4. ASSUME NEW r \in Request, NewPageFails(r) \/ NewPage(r) \/ EndUse(r)
      PROVE  RowIsHeld'
  BY <1>4 DEF NewPageFails, NewPage, EndUse
<1>5. ASSUME NEW r \in Request, NEW q \in Request, ClosePage(r, q)
      PROVE  RowIsHeld'
  BY <1>5 DEF ClosePage
<1>6. ASSUME NEW r \in Request, Release(r)
      PROVE  RowIsHeld'
  BY <1>6 DEF Release, Forget
<1>7. ASSUME NEW r \in Request, CancelRequest(r)
      PROVE  RowIsHeld'
  BY <1>7 DEF CancelRequest
<1>8. QED
  BY <1>1, <1>2, <1>3, <1>4, <1>5, <1>6, <1>7, CallersSpareLeases
     DEF leaseVars, PageAppears, RequestStep

\* An open page is somebody's to close until its closing failed or was cut off.
LEMMA PageIsCoveredStep ==
  ASSUME LeasesTyped, PageIsCovered, [Next]_vars
  PROVE  PageIsCovered'
<1> USE DEF LeasesTyped, PageIsCovered, Goto
<1>1. CASE UNCHANGED leaseVars /\ pages' \subseteq pages
           /\ cancelled \subseteq cancelled' /\ unclosed' = unclosed
  BY <1>1 DEF leaseVars
<1>2. CASE Lapse
  BY <1>2 DEF Lapse
<1>3. ASSUME NEW r \in Request, Ask(r)
      PROVE  PageIsCovered'
  BY <1>3 DEF Ask
<1>4. ASSUME NEW r \in Request, PageAppears(r)
      PROVE  PageIsCovered'
  BY <1>4 DEF PageAppears
<1>5. ASSUME NEW r \in Request, NewPageFails(r) \/ NewPage(r)
      PROVE  PageIsCovered'
  BY <1>5 DEF NewPageFails, NewPage
<1>6. ASSUME NEW r \in Request, EndUse(r)
      PROVE  PageIsCovered'
  BY <1>6 DEF EndUse, ToClose
<1>7. ASSUME NEW r \in Request, NEW q \in Request, ClosePage(r, q)
      PROVE  PageIsCovered'
  BY <1>7 DEF ClosePage
<1>8. ASSUME NEW r \in Request, Release(r)
      PROVE  PageIsCovered'
  BY <1>8 DEF Release, Forget
<1>9. ASSUME NEW r \in Request, CancelRequest(r)
      PROVE  PageIsCovered'
  BY <1>9 DEF CancelRequest
<1>10. QED
  BY <1>1, <1>2, <1>3, <1>4, <1>5, <1>6, <1>7, <1>8, <1>9, CallersSpareLeases
     DEF RequestStep

-----------------------------------------------------------------------------
(* The count                                                               *)

\* What adding or taking away one request does to a number of requests.
LEMMA Counting ==
  ASSUME NEW S \in SUBSET Request
  PROVE  /\ Cardinality(S) \in Nat
         /\ Cardinality(S) = 0 <=> S = {}
         /\ \A r \in Request \ S : Cardinality(S \cup {r}) = Cardinality(S) + 1
         /\ \A r \in S : Cardinality(S \ {r}) = Cardinality(S) - 1
<1>1. IsFiniteSet(S)
  BY BrowserAssumption, FS_Subset
<1>2. Cardinality(S) \in Nat /\ (Cardinality(S) = 0 <=> S = {})
  BY <1>1, FS_CardinalityType, FS_EmptySet
<1>3. ASSUME NEW r \in Request \ S
      PROVE  Cardinality(S \cup {r}) = Cardinality(S) + 1
  BY <1>1, <1>3, FS_AddElement
<1>4. ASSUME NEW r \in S
      PROVE  Cardinality(S \ {r}) = Cardinality(S) - 1
  BY <1>1, <1>4, FS_RemoveElement
<1>5. QED
  BY <1>2, <1>3, <1>4

\* With one request fewer there are not more of them, ...
LEMMA FewerOut ==
  ASSUME NEW S \in SUBSET Request, NEW T, NEW r, T = S \/ T = S \ {r}
  PROVE  /\ Cardinality(T) \in Nat /\ Cardinality(S) \in Nat
         /\ Cardinality(T) <= Cardinality(S)
<1>1. Cardinality(S) \in Nat /\ (T = S => Cardinality(T) = Cardinality(S))
  BY Counting
<1>2. CASE T = S
  BY <1>1, <1>2
<1>3. CASE T = S \ {r} /\ r \in S
  <2>1. Cardinality(T) = Cardinality(S) - 1 /\ T \in SUBSET Request
    BY <1>3, Counting
  <2>2. Cardinality(T) \in Nat
    BY <2>1, Counting
  <2>3. QED
    BY <1>1, <2>1, <2>2
<1>4. CASE T = S \ {r} /\ r \notin S
  <2>1. T = S
    BY <1>4
  <2>2. QED
    BY <1>1, <2>1
<1>5. QED
  BY <1>2, <1>3, <1>4

\* ... and with one more there are not fewer.
LEMMA MoreServed ==
  ASSUME NEW S \in SUBSET Request, NEW T, NEW r \in Request,
         T = S \/ T = S \cup {r}
  PROVE  /\ Cardinality(T) \in Nat /\ Cardinality(S) \in Nat
         /\ Cardinality(S) <= Cardinality(T)
<1>1. T \in SUBSET Request /\ (S = T \/ S = T \ {r})
  OBVIOUS
<1>2. QED
  BY <1>1, FewerOut

\* The count stays between the pages that are out and the requests served,
\* and no wait for the pages ends while one is in use, save by its timeout and
\* for a page that came late.
LEMMA CountIsSoundStep ==
  ASSUME CallersTyped, LeasesTyped, active \in Nat, LockIsHeld, CountIsSound,
         [Next]_vars
  PROVE  CountIsSound' /\ active' \in Nat
<1> DEFINE Spares(b) ==
             b \in timedOut \/ \A r \in Out : at[r] = "using" => r \in late
<1>0. /\ active >= Cardinality(Out) /\ active <= Cardinality(Served)
      /\ \A b \in Caller : op[b] = "drained" => Spares(b)
  BY DEF CountIsSound
<1>00. ASSUME active' >= Cardinality(Out'), active' <= Cardinality(Served'),
              \A b \in Caller : op'[b] = "drained" => Spares(b)',
              active' \in Nat
       PROVE  CountIsSound' /\ active' \in Nat
  BY <1>00 DEF CountIsSound
<1>a. Out \in SUBSET Request /\ Served \in SUBSET Request
  BY DEF Out, Served
<1>b. /\ Cardinality(Out) \in Nat /\ Cardinality(Served) \in Nat
      /\ Cardinality(Out) = 0 => Out = {}
  BY <1>a, Counting
<1>1. ASSUME UNCHANGED <<active, at, late>>,
             \A b \in Caller : op'[b] = "drained" =>
                \/ op[b] = "drained" /\ (b \in timedOut => b \in timedOut')
                \/ b \in timedOut'
                \/ active = 0
      PROVE  CountIsSound' /\ active' \in Nat
  <2>1. Out' = Out /\ Served' = Served
    BY <1>1 DEF Out, Served
  <2>2. active = 0 => Out = {}
    BY <1>0, <1>b
  <2>3. active' >= Cardinality(Out') /\ active' <= Cardinality(Served')
    BY <1>0, <1>1, <2>1
  <2>4. ASSUME NEW b \in Caller, op'[b] = "drained"
        PROVE  Spares(b)'
    BY <1>0, <1>1, <2>1, <2>2, <2>4
  <2>5. QED
    BY <1>00, <1>1, <2>3, <2>4
<1>2. ASSUME NEW b \in Caller, CallerStep(b) \/ CancelCaller(b)
                               \/ StartReturns(b) \/ Start(b) \/ Close(b)
      PROVE  CountIsSound' /\ active' \in Nat
  <2>1. UNCHANGED <<active, at, late>>
    BY <1>2 DEF CallerStep, Drive, Launch, Tidy, StartFails, DrainTimesOut,
       TakeContext, CloseResources, Finish, CloseContext, BrowserEnds,
       StopDriver, CancelCaller, StartReturns, Start, Close, leaseVars
  <2>2. ASSUME NEW d \in Caller, op'[d] = "drained"
        PROVE  \/ op[d] = "drained" /\ (d \in timedOut => d \in timedOut')
               \/ d \in timedOut'
               \/ active = 0
    BY <1>2, <2>2 DEF CallerStep, Drive, Launch, Tidy, StartFails,
       DrainTimesOut, TakeContext, CloseResources, Finish, CloseContext,
       BrowserEnds, StopDriver, CancelCaller, StartReturns, Start, Close,
       OpGoto, CallersTyped
  <2>3. QED
    BY <1>1, <2>1, <2>2
<1>3. ASSUME NEW r \in Request, UNCHANGED <<active, op, timedOut>>,
             Out' = Out \/ Out' = Out \ {r},
             Served' = Served \/ Served' = Served \cup {r},
             \A q \in Out' : at'[q] = "using" =>
               at[q] = "using" /\ (q \in late => q \in late')
      PROVE  CountIsSound' /\ active' \in Nat
  <2>1. Cardinality(Out') <= Cardinality(Out) /\ Cardinality(Out') \in Nat
    BY <1>a, <1>3, FewerOut
  <2>2. /\ Cardinality(Served) <= Cardinality(Served')
        /\ Cardinality(Served') \in Nat
    BY <1>a, <1>3, MoreServed
  <2>3. active' >= Cardinality(Out') /\ active' <= Cardinality(Served')
    BY <1>0, <1>b, <1>3, <2>1, <2>2
  <2>4. ASSUME NEW b \in Caller, op'[b] = "drained"
        PROVE  Spares(b)'
    <3>1. Out' \subseteq Out
      BY <1>3
    <3>2. QED
      BY <1>0, <1>3, <2>4, <3>1
  <2>5. QED
    BY <1>00, <1>3, <2>3, <2>4
<1>4. ASSUME NEW r \in Request, NewPage(r)
      PROVE  CountIsSound' /\ active' \in Nat
  <2>1. /\ r \notin Out /\ Out' = Out \cup {r}
        /\ r \notin Served /\ Served' = Served \cup {r}
    BY <1>4 DEF NewPage, Goto, Out, Served, LeasesTyped
  <2>2. active' = active + 1 /\ UNCHANGED <<op, timedOut, state>>
    BY <1>4 DEF NewPage, runtimeVars
  <2>3. /\ Cardinality(Out') = Cardinality(Out) + 1
        /\ Cardinality(Served') = Cardinality(Served) + 1
    BY <1>a, <1>4, <2>1, Counting
  <2>4. /\ active' >= Cardinality(Out') /\ active' <= Cardinality(Served')
        /\ active' \in Nat
    BY <1>0, <1>b, <2>2, <2>3
  <2>5. ASSUME NEW b \in Caller, op'[b] = "drained"
        PROVE  Spares(b)'
    <3>1. op[b] = "drained" /\ state # "STARTED"
      BY <2>2, <2>5 DEF LockIsHeld
    <3>2. r \in late' /\ late \subseteq late'
      BY <1>4, <3>1 DEF NewPage
    <3>3. \A q \in Out : at'[q] = at[q]
      BY <1>4, <2>1 DEF NewPage, Goto, Out, LeasesTyped
    <3>4. QED
      BY <1>0, <2>1, <2>2, <3>1, <3>2, <3>3
  <2>6. QED
    BY <1>00, <2>4, <2>5
<1>5. ASSUME NEW r \in Request, CountOut, UNCHANGED <<late, timedOut>>,
             at[r] \in {"using", "cleaning"}, Goto(r, "leaving")
      PROVE  CountIsSound' /\ active' \in Nat
  <2>1. /\ r \in Out /\ Out' = Out \ {r} /\ Served' = Served
        /\ \A q \in Out' : at'[q] = at[q]
    BY <1>5 DEF Goto, Out, Served, LeasesTyped
  <2>2. Cardinality(Out') = Cardinality(Out) - 1
    BY <1>a, <2>1, Counting
  <2>3. Cardinality(Out') \in Nat /\ (Cardinality(Out') = 0 => Out' = {})
    <3>1. Out' \in SUBSET Request
      BY <1>a, <2>1
    <3>2. QED
      BY <3>1, Counting
  <2>4. active' = active - 1
    BY <1>0, <1>b, <1>5, <2>2, <2>3 DEF CountOut
  <2>5. /\ active' >= Cardinality(Out') /\ active' <= Cardinality(Served')
        /\ active' \in Nat
    BY <1>0, <1>b, <2>1, <2>2, <2>3, <2>4
  <2>6. active' = 0 => Out' = {}
    BY <2>3, <2>5
  <2>7. ASSUME NEW b \in Caller, op'[b] = "drained"
        PROVE  Spares(b)'
    <3>1. op[b] = "drained" \/ active' = 0
      BY <1>5, <2>7 DEF CountOut
    <3>2. QED
      BY <1>0, <1>5, <2>1, <2>6, <3>1
  <2>8. QED
    BY <1>00, <2>5, <2>7
<1> USE DEF Out, Served, Goto, LeasesTyped, LeasePC
<1>6. ASSUME NEW r \in Request, Ask(r)
      PROVE  CountIsSound' /\ active' \in Nat
  BY <1>3, <1>6 DEF Ask, runtimeVars
<1>7. ASSUME NEW r \in Request, PageAppears(r)
      PROVE  CountIsSound' /\ active' \in Nat
  BY <1>3, <1>7 DEF PageAppears, runtimeVars
<1>8. ASSUME NEW r \in Request, NewPageFails(r)
      PROVE  CountIsSound' /\ active' \in Nat
  BY <1>3, <1>8 DEF NewPageFails, runtimeVars
<1>9. ASSUME NEW r \in Request, EndUse(r)
      PROVE  CountIsSound' /\ active' \in Nat
  <2>1. CASE ToClose(r) = {}
    BY <1>5, <1>9, <2>1 DEF EndUse
  <2>2. CASE ToClose(r) # {}
    BY <1>3, <1>9, <2>2 DEF EndUse
  <2>3. QED
    BY <2>1, <2>2
<1>10. ASSUME NEW r \in Request, NEW q \in Request, ClosePage(r, q)
       PROVE  CountIsSound' /\ active' \in Nat
  <2>1. CASE todo[r] = {q}
    BY <1>5, <1>10, <2>1 DEF ClosePage
  <2>2. CASE todo[r] # {q}
    BY <1>3, <1>10, <2>2 DEF ClosePage
  <2>3. QED
    BY <2>1, <2>2
<1>11. ASSUME NEW r \in Request, Release(r)
       PROVE  CountIsSound' /\ active' \in Nat
  BY <1>3, <1>11 DEF Release, Forget, runtimeVars
<1>12. ASSUME NEW r \in Request, CancelRequest(r)
       PROVE  CountIsSound' /\ active' \in Nat
  BY <1>3, <1>12 DEF CancelRequest, runtimeVars
<1>13. CASE Lapse
  BY <1>3, <1>13 DEF Lapse, runtimeVars
<1>14. CASE UNCHANGED vars
  BY <1>1, <1>14 DEF vars, runtimeVars, leaseVars
<1>15. QED
  BY <1>2, <1>4, <1>6, <1>7, <1>8, <1>9, <1>10, <1>11, <1>12, <1>13, <1>14
     DEF Next, RequestStep, Caller

-----------------------------------------------------------------------------
(* The theorems                                                            *)

(* The types of the runtime, the count's bounds included, and the facts    *)
(* the properties rest on (production_browser_runtime.py 285-483).         *)
THEOREM RuntimeInvariant == Spec => [](RuntimeTypeOK /\ RuntimeInv)
<1>1. Init => RuntimeTypeOK /\ RuntimeInv
  <2> SUFFICES ASSUME Init PROVE RuntimeTypeOK /\ RuntimeInv
    OBVIOUS
  <2>1. CallersTyped /\ LeasesTyped
    BY DEF Init, CallersTyped, LeasesTyped, State, OpPC, LeasePC, Taken,
           Nothing
  <2>2. /\ LockIsHeld /\ BrowserLife /\ PagesHaveBrowser
        /\ RowIsHeld /\ PageIsCovered
    BY BrowserAssumption
       DEF Init, LockIsHeld, Locking, BrowserLife, Left, PagesHaveBrowser,
           RowIsHeld, Busy, PageIsCovered
  <2>3. Out = {} /\ Served = {}
    BY DEF Init, Out, Served
  <2>4. CountIsSound
    BY <2>3, FS_EmptySet DEF Init, CountIsSound
  <2>5. active \in 0..Cardinality(Request)
    BY FS_CardinalityType, BrowserAssumption DEF Init
  <2>6. QED
    BY <2>1, <2>2, <2>4, <2>5, BrowserAssumption
       DEF Init, RuntimeTypeOK, RuntimeInv
<1>2. RuntimeTypeOK /\ RuntimeInv /\ [Next]_vars
        => (RuntimeTypeOK /\ RuntimeInv)'
  <2> SUFFICES ASSUME RuntimeTypeOK, RuntimeInv, [Next]_vars
               PROVE  (RuntimeTypeOK /\ RuntimeInv)'
    OBVIOUS
  <2>1. CallersTyped' /\ LeasesTyped'
    BY CallersTypedStep, LeasesTypedStep DEF RuntimeTypeOK
  <2>2. /\ LockIsHeld' /\ BrowserLife' /\ PagesHaveBrowser'
        /\ RowIsHeld' /\ PageIsCovered'
    BY LockIsHeldStep, BrowserLifeStep, PagesHaveBrowserStep, RowIsHeldStep,
       PageIsCoveredStep DEF RuntimeTypeOK, RuntimeInv
  <2>3. CountIsSound' /\ active' \in Nat
    BY CountIsSoundStep DEF RuntimeTypeOK, RuntimeInv
  <2>4. active' \in 0..Cardinality(Request)
    <3>1. Served' \in SUBSET Request
      BY DEF Served
    <3>2. \A S \in SUBSET Request : /\ Cardinality(S) \in Nat
                                   /\ Cardinality(S) <= Cardinality(Request)
      BY BrowserAssumption, FS_Subset, FS_CardinalityType
    <3>3. QED
      BY <2>3, <3>1, <3>2, BrowserAssumption, FS_CardinalityType
         DEF CountIsSound
  <2>5. cancelled' \subseteq Request \cup Caller /\ mishaps' \in 0..MaxMishaps
    BY BrowserAssumption
       DEF RuntimeTypeOK, Next, CallerStep, RequestStep, StartReturns, Start,
           Close, Drive, Launch, Tidy, StartFails, DrainTimesOut, TakeContext,
           CloseResources, Finish, CloseContext, BrowserEnds, StopDriver,
           
           CancelCaller, Ask, PageAppears, NewPageFails, NewPage, EndUse,
           ClosePage, Release, CancelRequest, Lapse, Mishap, vars
  <2>6. QED
    BY <2>1, <2>2, <2>3, <2>4, <2>5 DEF RuntimeTypeOK, RuntimeInv
<1>3. QED
  BY <1>1, <1>2, PTL DEF Spec

\* Every variable of the runtime keeps its type, and the count its bounds.
THEOREM RuntimeTypeCorrect == Spec => []RuntimeTypeOK
<1>1. QED
  BY RuntimeInvariant, PTL

(* When CLOSED is said, only a browser or driver whose own close raised    *)
(* still runs, and STARTED means one to lend, unless a start or a close    *)
(* was cancelled half way (406-483).                                       *)
THEOREM ShutdownCompletes == Spec => []ShutdownIsComplete
<1>1. RuntimeTypeOK /\ RuntimeInv => ShutdownIsComplete
  BY DEF RuntimeTypeOK, CallersTyped, RuntimeInv, LockIsHeld, Locking,
         BrowserLife, Running, Runs, Left, Starting, Stopping,
         PagesHaveBrowser, ShutdownIsComplete
<1>2. QED
  BY <1>1, RuntimeInvariant, PTL

(* A request that is over has given the row back and closed its page, if   *)
(* neither its clean-up was cut short nor the closing failed (338-360).    *)
THEOREM LeasesCleanUp == Spec => []LeaseCleansUp
<1>1. RuntimeTypeOK /\ RuntimeInv => LeaseCleansUp
  BY DEF RuntimeTypeOK, LeasesTyped, RuntimeInv, RowIsHeld, Busy,
         PageIsCovered, LeaseCleansUp
<1>2. QED
  BY <1>1, RuntimeInvariant, PTL

(* A close that did not give up waiting takes the context only from under  *)
(* pages handed out after the shutdown began (318-352, 466-483).           *)
THEOREM ShutdownsSpareLeases == Spec => DrainSparesLeases
<1>1. RuntimeTypeOK /\ RuntimeInv /\ [Next]_vars =>
        [\A b \in Caller, r \in Request :
           op[b] = "drained" /\ op'[b] = "closing" /\ at[r] = "using"
             => b \in timedOut \/ r \in late]_vars
  BY DEF RuntimeInv, CountIsSound, Out
<1>2. QED
  BY <1>1, RuntimeInvariant, PTL DEF Spec, DrainSparesLeases

(* A request closes another's page only when one of the two had lost the   *)
(* row (311-348).                                                          *)
THEOREM PagesAreKeptApart == Spec => PagesKeepApart
<1>1. ASSUME RuntimeTypeOK, RuntimeInv, [Next]_vars,
             NEW q \in Request, at[q] = "using", q \in pages, q \notin pages'
      PROVE  \/ \E b \in Caller : op[b] \in {"closing", "stopping"}
             \/ \E r \in Request \ {q} :
                  q \in todo[r] /\ {q, r} \cap lost # {}
  <2>1. ASSUME NEW b \in Caller, CallerStep(b) \/ CancelCaller(b)
        PROVE  op[b] \in {"closing", "stopping"}
    BY <1>1, <2>1 DEF CallerStep, Drive, Launch, Tidy, StartFails,
       DrainTimesOut, TakeContext, CloseResources, Finish, CloseContext,
       BrowserEnds, StopDriver, CancelCaller
  <2>2. ASSUME NEW r \in Request, at[r] = "cleaning", q \in todo[r]
        PROVE  r # q /\ {q, r} \cap lost # {}
    BY <1>1, <2>2 DEF RuntimeInv, RowIsHeld, Busy
  <2>3. ASSUME NEW r \in Request, CancelRequest(r)
        PROVE  at[r] = "cleaning" /\ q \in todo[r]
    BY <1>1, <2>3 DEF CancelRequest, RuntimeTypeOK, LeasesTyped
  <2>4. ASSUME NEW r \in Request, NEW p \in Request, ClosePage(r, p)
        PROVE  at[r] = "cleaning" /\ q \in todo[r]
    BY <1>1, <2>4 DEF ClosePage
  <2>5. \/ \E b \in Caller : CallerStep(b) \/ CancelCaller(b)
        \/ \E r \in Request : CancelRequest(r)
        \/ \E r \in Request, p \in Request : ClosePage(r, p)
    BY <1>1 DEF Next, RequestStep, StartReturns, Start, Close, Ask,
       PageAppears, NewPageFails, NewPage, EndUse, Release, Lapse, vars
  <2>6. QED
    BY <2>1, <2>2, <2>3, <2>4, <2>5
<1>2. RuntimeTypeOK /\ RuntimeInv /\ [Next]_vars =>
        [\A q \in Request :
           at[q] = "using" /\ q \in pages /\ q \notin pages' =>
             \/ \E b \in Caller : op[b] \in {"closing", "stopping"}
             \/ \E r \in Request \ {q} :
                  q \in todo[r] /\ {q, r} \cap lost # {}]_vars
  BY <1>1
<1>3. QED
  BY <1>2, RuntimeInvariant, PTL DEF Spec, PagesKeepApart

-----------------------------------------------------------------------------
(* Nothing goes round in circles: what NobodyHangs rests on                *)

\* Who closes does nothing else.
ClosersClose ==
  \A b \in Closer : op[b] \in {"idle", "draining", "drained", "closing",
                               "stopping", "over"}

\* How many steps a close and a request can still take; the pages a request
\* has to close count one each.
CloseRank(b) ==
  CASE op[b] = "idle"     -> 5 [] op[b] = "draining" -> 4
    [] op[b] = "drained"  -> 3 [] op[b] = "closing"  -> 2
    [] op[b] = "stopping" -> 1 [] op[b] = "over"     -> 0

All == Cardinality(Request)

RequestRank(r) ==
  CASE at[r] = "idle"     -> All + 5
    [] at[r] = "opening"  -> IF r \in wanted THEN All + 4 ELSE All + 3
    [] at[r] = "using"    -> All + 2
    [] at[r] = "cleaning" -> Cardinality(todo[r]) + 1
    [] at[r] = "leaving"  -> 1
    [] at[r] = "over"     -> 0

(* A shutdown and a lease get nearer to their ends with every step of      *)
(* theirs and are never thrown back by others: a page that will not close, *)
(* a lost row, a browser taken away or a cancellation shorten the way      *)
(* (production_browser_runtime.py 285-360, 451-483).                       *)
NobodyTurnsBack ==
  [][/\ \A b \in Closer :
          /\ CloseRank(b)' <= CloseRank(b)
          /\ Close(b) \/ CallerStep(b) \/ CancelCaller(b)
               => CloseRank(b)' < CloseRank(b)
     /\ \A r \in Request :
          /\ RequestRank(r)' <= RequestRank(r)
          /\ Ask(r) \/ RequestStep(r) \/ EndUse(r) \/ CancelRequest(r)
               => RequestRank(r)' < RequestRank(r)]_vars

\* A closer's step is one of close, and every one leads towards its end.
LEMMA CloseComesNearer ==
  ASSUME CallersTyped, ClosersClose, [Next]_vars, NEW b \in Closer
  PROVE  /\ op'[b] \in {"idle", "draining", "drained", "closing",
                        "stopping", "over"}
         /\ CloseRank(b)' <= CloseRank(b)
         /\ Close(b) \/ CallerStep(b) \/ CancelCaller(b)
              => CloseRank(b)' < CloseRank(b)
<1> USE BrowserAssumption
        DEF CallersTyped, ClosersClose, CloseRank, OpGoto, Caller
<1>1. ASSUME Close(b) \/ CallerStep(b) \/ CancelCaller(b)
      PROVE  /\ op'[b] \in {"draining", "drained", "closing", "stopping",
                            "over"}
             /\ CloseRank(b)' < CloseRank(b)
  <2>1. CASE Close(b)
    BY <2>1 DEF Close
  <2>2. CASE Drive(b) \/ Launch(b) \/ Tidy(b) \/ StartFails(b)
    BY <2>2 DEF Drive, Launch, Tidy, StartFails
  <2>3. CASE DrainTimesOut(b)
    BY <2>3 DEF DrainTimesOut
  <2>4. CASE TakeContext(b)
    BY <2>4 DEF TakeContext, CloseResources, Finish
  <2>8. CASE StopDriver(b)
    BY <2>8 DEF StopDriver, Finish
  <2>5. CASE CloseContext(b)
    BY <2>5 DEF CloseContext
  <2>6. CASE CancelCaller(b)
    BY <2>6 DEF CancelCaller
  <2>7. QED
    BY <1>1, <2>1, <2>2, <2>3, <2>4, <2>5, <2>6, <2>8 DEF CallerStep
<1>2. ASSUME op'[b] = op[b]
      PROVE  /\ op'[b] \in {"idle", "draining", "drained", "closing",
                            "stopping", "over"}
             /\ CloseRank(b)' = CloseRank(b) /\ CloseRank(b) \in Nat
  BY <1>2
<1>3. ASSUME NEW d \in Caller \ {b},
             \/ StartReturns(d) \/ Start(d) \/ Close(d)
             \/ CallerStep(d) \/ CancelCaller(d)
      PROVE  op'[b] = op[b]
  BY <1>3 DEF StartReturns, Start, Close, CallerStep, Drive, Launch, Tidy,
              StartFails, DrainTimesOut, TakeContext, CloseResources, Finish,
              CloseContext, StopDriver, CancelCaller
<1>4. ASSUME NEW r \in Request, EndUse(r) \/ \E q \in Request : ClosePage(r, q)
      PROVE  op'[b] = op[b] \/ (op[b] = "draining" /\ op'[b] = "drained")
  BY <1>4 DEF EndUse, ClosePage, CountOut
<1>5. ASSUME UNCHANGED op
      PROVE  op'[b] = op[b]
  BY <1>5
<1>6. \/ Close(b) \/ CallerStep(b) \/ CancelCaller(b)
      \/ op'[b] = op[b]
      \/ op[b] = "draining" /\ op'[b] = "drained"
  BY <1>3, <1>4, <1>5
     DEF Next, RequestStep, Ask, PageAppears, NewPageFails, NewPage, Release,
         CancelRequest, Lapse, vars, runtimeVars
<1>7. op[b] = "draining" /\ op'[b] = "drained"
        => CloseRank(b) = 4 /\ CloseRank(b)' = 3
  OBVIOUS
<1>8. CloseRank(b) \in Nat /\ CloseRank(b)' \in Nat
  BY <1>1, <1>2, <1>6, <1>7
<1> HIDE DEF CloseRank
<1>9. QED
  BY <1>1, <1>2, <1>6, <1>7, <1>8

\* A request's rank is a number, and cleaning comes after using.
LEMMA RequestRanks ==
  ASSUME LeasesTyped, LeasesTyped', NEW r \in Request
  PROVE  /\ All \in Nat
         /\ RequestRank(r) \in Nat /\ RequestRank(r)' \in Nat
         /\ at[r] = "cleaning" =>
              /\ RequestRank(r) = Cardinality(todo[r]) + 1
              /\ Cardinality(todo[r]) \in 1..All
         /\ at'[r] = "cleaning" =>
              /\ RequestRank(r)' = Cardinality(todo'[r]) + 1
              /\ Cardinality(todo'[r]) \in 1..All
<1>1. All \in Nat
  BY BrowserAssumption, FS_CardinalityType DEF All
<1>2. ASSUME NEW S \in SUBSET Request
      PROVE  Cardinality(S) \in 0..All /\ (S # {} => Cardinality(S) # 0)
  BY <1>1, BrowserAssumption, Counting, FS_Subset, FS_CardinalityType DEF All
<1>3. /\ todo[r] \in SUBSET Request /\ (at[r] = "cleaning" => todo[r] # {})
      /\ todo'[r] \in SUBSET Request /\ (at'[r] = "cleaning" => todo'[r] # {})
  BY DEF LeasesTyped
<1>4. at[r] = "cleaning" => /\ RequestRank(r) = Cardinality(todo[r]) + 1
                            /\ Cardinality(todo[r]) \in 1..All
  BY <1>1, <1>2, <1>3 DEF RequestRank
<1>5. at'[r] = "cleaning" => /\ RequestRank(r)' = Cardinality(todo'[r]) + 1
                             /\ Cardinality(todo'[r]) \in 1..All
  BY <1>1, <1>2, <1>3 DEF RequestRank
<1>6. RequestRank(r) \in Nat /\ RequestRank(r)' \in Nat
  BY <1>1, <1>4, <1>5 DEF RequestRank, LeasesTyped, LeasePC
<1>7. QED
  BY <1>1, <1>4, <1>5, <1>6

\* Every step of a request leads towards its end.
LEMMA RequestComesNearer ==
  ASSUME LeasesTyped, LeasesTyped', NEW r \in Request,
         Ask(r) \/ RequestStep(r) \/ EndUse(r) \/ CancelRequest(r)
  PROVE  RequestRank(r)' < RequestRank(r)
<1>1. /\ All \in Nat /\ RequestRank(r) \in Nat
      /\ at[r] = "cleaning" => /\ RequestRank(r) = Cardinality(todo[r]) + 1
                               /\ Cardinality(todo[r]) \in 1..All
  BY RequestRanks
<1>2. at'[r] = "cleaning" => /\ RequestRank(r)' = Cardinality(todo'[r]) + 1
                             /\ Cardinality(todo'[r]) \in 1..All
  BY RequestRanks
<1> USE DEF LeasesTyped, Goto
<1>3. CASE Ask(r)
  BY <1>1, <1>3 DEF Ask, RequestRank
<1>4. CASE NewPageFails(r) \/ NewPage(r)
  BY <1>1, <1>4 DEF NewPageFails, NewPage, RequestRank
<1>5. CASE EndUse(r)
  <2>1. at[r] = "using" /\ RequestRank(r) = All + 2
    BY <1>5 DEF EndUse, RequestRank
  <2>2. \/ at'[r] = "cleaning"
        \/ at'[r] = "leaving" /\ RequestRank(r)' = 1
    BY <1>5 DEF EndUse, RequestRank
  <2>3. QED
    BY <1>1, <1>2, <2>1, <2>2
<1>6. ASSUME NEW q \in Request, ClosePage(r, q)
      PROVE  RequestRank(r)' < RequestRank(r)
  <2>1. /\ at[r] = "cleaning" /\ q \in todo[r]
        /\ todo'[r] = todo[r] \ {q}
        /\ at'[r] \in {"leaving", "cleaning"}
    BY <1>6 DEF ClosePage
  <2>2. CASE at'[r] = "leaving"
    <3>1. RequestRank(r)' = 1
      BY <2>2 DEF RequestRank
    <3>2. QED
      BY <1>1, <2>1, <3>1
  <2>3. CASE at'[r] = "cleaning"
    <3>1. Cardinality(todo'[r]) = Cardinality(todo[r]) - 1
      BY <2>1, Counting
    <3>2. QED
      BY <1>1, <1>2, <2>1, <2>3, <3>1
  <2>4. QED
    BY <2>1, <2>2, <2>3
<1>7. CASE Release(r)
  BY <1>7 DEF Release, RequestRank
<1>8. CASE CancelRequest(r)
  <2>1. at[r] \in {"opening", "cleaning"} /\ at'[r] = "leaving"
    BY <1>8 DEF CancelRequest
  <2>2. RequestRank(r)' = 1
    BY <2>1 DEF RequestRank
  <2>3. CASE at[r] = "opening"
    <3>1. RequestRank(r) \in {All + 3, All + 4}
      BY <2>3 DEF RequestRank
    <3>2. QED
      BY <1>1, <2>2, <3>1
  <2>4. CASE at[r] = "cleaning"
    BY <1>1, <2>2, <2>4
  <2>5. QED
    BY <2>1, <2>3, <2>4
<1>9. QED
  BY <1>3, <1>4, <1>5, <1>6, <1>7, <1>8 DEF RequestStep

\* Nobody else's step takes a request further from its end.
LEMMA OthersLeaveRequests ==
  ASSUME LeasesTyped, LeasesTyped', [Next]_vars, NEW r \in Request,
         ~(Ask(r) \/ RequestStep(r) \/ EndUse(r) \/ CancelRequest(r))
  PROVE  RequestRank(r)' <= RequestRank(r)
<1>1. All \in Nat /\ RequestRank(r) \in Nat
  BY RequestRanks
<1> USE DEF LeasesTyped, Goto
<1>2. /\ at'[r] = at[r] /\ todo'[r] = todo[r]
      /\ r \in wanted' => r \in wanted
  <2>1. ASSUME NEW q \in Request \ {r},
               Ask(q) \/ RequestStep(q) \/ EndUse(q) \/ CancelRequest(q)
        PROVE  /\ at'[r] = at[r] /\ todo'[r] = todo[r]
               /\ r \in wanted' => r \in wanted
    BY <2>1 DEF Ask, RequestStep, NewPageFails, NewPage, ClosePage, Release,
                EndUse, CancelRequest
  <2>2. ASSUME NEW q \in Request, PageAppears(q)
        PROVE  /\ at'[r] = at[r] /\ todo'[r] = todo[r]
               /\ r \in wanted' => r \in wanted
    BY <2>2 DEF PageAppears
  <2>3. ASSUME UNCHANGED <<at, todo, wanted>>
        PROVE  /\ at'[r] = at[r] /\ todo'[r] = todo[r]
               /\ r \in wanted' => r \in wanted
    BY <2>3
  <2>4. UNCHANGED leaseVars \/ Lapse => UNCHANGED <<at, todo, wanted>>
    BY DEF Lapse, leaseVars
  <2>5. QED
    BY <2>1, <2>2, <2>3, <2>4, CallersSpareLeases
<1>3. at[r] \in LeasePC
  OBVIOUS
<1>4. QED
  BY <1>1, <1>2, <1>3 DEF RequestRank, LeasePC

(* A close takes at most five steps, a lease at most one per open page and *)
(* five more, whatever fails, lapses or is cancelled: nobody is sent back  *)
(* (production_browser_runtime.py 285-360, 451-483).                       *)
THEOREM ShutdownsAndLeasesGoOn == Spec => NobodyTurnsBack
<1>1. Init => ClosersClose
  BY DEF Init, ClosersClose, Caller
<1>2. RuntimeTypeOK /\ ClosersClose /\ [Next]_vars => ClosersClose'
  BY CloseComesNearer DEF RuntimeTypeOK, ClosersClose
<1>3. RuntimeTypeOK /\ RuntimeTypeOK' /\ ClosersClose /\ [Next]_vars =>
        [/\ \A b \in Closer :
              /\ CloseRank(b)' <= CloseRank(b)
              /\ Close(b) \/ CallerStep(b) \/ CancelCaller(b)
                   => CloseRank(b)' < CloseRank(b)
         /\ \A r \in Request :
              /\ RequestRank(r)' <= RequestRank(r)
              /\ Ask(r) \/ RequestStep(r) \/ EndUse(r) \/ CancelRequest(r)
                   => RequestRank(r)' < RequestRank(r)]_vars
  <2> SUFFICES ASSUME RuntimeTypeOK, RuntimeTypeOK', ClosersClose,
                      [Next]_vars, NEW r \in Request
               PROVE  /\ RequestRank(r)' <= RequestRank(r)
                      /\ Ask(r) \/ RequestStep(r) \/ EndUse(r)
                            \/ CancelRequest(r)
                           => RequestRank(r)' < RequestRank(r)
    BY CloseComesNearer DEF RuntimeTypeOK
  <2>1. RequestRank(r) \in Nat /\ RequestRank(r)' \in Nat
    BY RequestRanks DEF RuntimeTypeOK
  <2>2. QED
    BY <2>1, RequestComesNearer, OthersLeaveRequests DEF RuntimeTypeOK
<1>4. QED
  BY <1>1, <1>2, <1>3, RuntimeInvariant, PTL DEF Spec, NobodyTurnsBack
=============================================================================
