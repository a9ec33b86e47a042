---------------------------- MODULE BrowserRuntime ----------------------------
(***************************************************************************)
(* The one browser of the server (core/production_browser_runtime.py):     *)
(* start launches a persistent context, lease lends a fresh page of it to  *)
(* one execution at a time, close waits for the pages that are out and     *)
(* takes the context away.                                                 *)
(*                                                                         *)
(* All of it runs in one event loop, so an action is what happens between  *)
(* two awaits.  An awaiting coroutine may be cancelled.  Each Request is   *)
(* one call of lease, with the page it opens named after it; a Starter may *)
(* call start again, and the browser it launches is named after it; each   *)
(* Closer is one call of close.  The driver of a start bears the name of   *)
(* the starter, too.  The row of "browser:chromium" in the lease table     *)
(* (Leases) is reduced to its holder; it is lost when a renewal fails and  *)
(* the row runs out.  Other processes that hold the row only refuse and    *)
(* are left out, and so are pages that a site opens by itself.             *)
(***************************************************************************)
EXTENDS Naturals, FiniteSets

CONSTANTS Request,     \* calls of ProductionBrowserLeaseProvider.lease
          Starter,     \* callers of ProductionBrowserRuntime.start
          Closer,      \* calls of its close
          None,
          MaxMishaps   \* bound: cancellations, failures and lost leases

Caller == Starter \cup Closer

ASSUME BrowserAssumption ==
  /\ None \notin Request \cup Caller
  /\ Starter \cap Closer = {}
  /\ IsFiniteSet(Request) /\ MaxMishaps \in Nat

VARIABLES
  state,       \* ProductionBrowserRuntime.state
  lock,        \* the caller that holds _lock
  context,     \* the browser behind runtime.context, or None
  playwright,  \* the driver behind runtime._playwright, or None
  browsers,    \* browsers that run
  drivers,     \* Playwright drivers that run
  jammed,      \* browsers whose context.close() raised
  stalled,     \* drivers whose stop() raised
  op,          \* op[b] : where the call b of start or close is
  taken,       \* taken[b] : the browser and driver that b is closing
  timedOut,    \* callers whose wait for the pages ended by its timeout
  active,      \* _active_count; the event _idle is set while it is 0
  holder,      \* the request the lease row names
  at,          \* at[r] : where the request r is
  wanted,      \* requests whose new_page the browser still owes a page
  pages,       \* open pages
  baseline,    \* baseline[r] : pages that were open when r asked
  todo,        \* todo[r] : pages r has still to close
  late,        \* requests that got their page after a shutdown began
  cancelled,   \* requests and callers that were cancelled
  unclosed,    \* pages whose closing failed
  lost,        \* requests that lost the row
  mishaps

processVars == <<context, playwright, browsers, drivers, jammed, stalled,
                 taken>>
runtimeVars == <<state, lock, processVars, op, timedOut>>
leaseVars == <<holder, at, wanted, baseline, todo, late, lost>>
vars == <<runtimeVars, active, leaseVars, pages, cancelled, unclosed,
          mishaps>>

State == {"NEW", "STARTED", "CLOSING", "CLOSED"}
OpPC == {"idle", "driving", "launching", "tidying", "started", "draining",
         "drained", "closing", "stopping", "over"}
LeasePC == {"idle", "opening", "using", "cleaning", "leaving", "over"}

Taken == [context : Caller \cup {None}, playwright : Caller \cup {None}]
Nothing == [context |-> None, playwright |-> None]

CallersTyped ==
  /\ state \in State
  /\ lock \in Caller \cup {None}
  /\ context \in Caller \cup {None} /\ playwright \in Caller \cup {None}
  /\ browsers \subseteq Caller /\ drivers \subseteq Caller
  /\ jammed \subseteq Caller /\ stalled \subseteq Caller
  /\ op \in [Caller -> OpPC]
  /\ taken \in [Caller -> Taken]
  /\ \A b \in Caller :
       /\ op[b] = "closing" => taken[b].context # None
       /\ op[b] \in {"closing", "stopping"} => taken[b].playwright # None
  /\ timedOut \subseteq Caller

LeasesTyped ==
  /\ holder \in Request \cup {None}
  /\ at \in [Request -> LeasePC]
  /\ wanted \subseteq Request
  /\ pages \subseteq Request
  /\ baseline \in [Request -> SUBSET Request]
  /\ todo \in [Request -> SUBSET Request]
  /\ \A r \in Request : todo[r] # {} <=> at[r] = "cleaning"
  /\ late \subseteq Request
  /\ lost \subseteq Request
  /\ unclosed \subseteq Request

RuntimeTypeOK ==
  /\ CallersTyped /\ LeasesTyped
  /\ active \in 0..Cardinality(Request)
  /\ cancelled \subseteq Request \cup Caller
  /\ mishaps \in 0..MaxMishaps

Init ==
  /\ state = "NEW" /\ lock = None
  /\ context = None /\ playwright = None
  /\ browsers = {} /\ drivers = {} /\ jammed = {} /\ stalled = {}
  /\ op = [b \in Caller |-> "idle"]
  /\ taken = [b \in Caller |-> Nothing]
  /\ timedOut = {} /\ active = 0 /\ holder = None
  /\ at = [r \in Request |-> "idle"]
  /\ wanted = {} /\ pages = {}
  /\ baseline = [r \in Request |-> {}]
  /\ todo = [r \in Request |-> {}]
  /\ late = {} /\ cancelled = {} /\ unclosed = {} /\ lost = {}
  /\ mishaps = 0

Mishap == mishaps < MaxMishaps /\ mishaps' = mishaps + 1

\* The browser whose start succeeded; pages are opened in no other.
ContextOpen == \E b \in browsers : op[b] = "started"

OpGoto(b, pc) == op' = [op EXCEPT ![b] = pc]
Goto(r, pc) == at' = [at EXCEPT ![r] = pc]

-----------------------------------------------------------------------------
(* _close_resources, for a start that failed and for close                 *)

(* Context and driver are taken before anything is awaited; when there is  *)
(* neither, nothing is.  A closer then says CLOSED.                        *)
Finish(b) ==
  /\ state' = IF b \in Closer THEN "CLOSED" ELSE state
  /\ lock' = None
  /\ OpGoto(b, "over")
  /\ taken' = [taken EXCEPT ![b] = Nothing]
  /\ timedOut' = timedOut \ {b}

CloseResources(b) ==
  IF playwright = None
  THEN Finish(b) /\ UNCHANGED <<context, playwright>>
  ELSE /\ taken' = [taken EXCEPT ![b] = [context |-> context,
                                         playwright |-> playwright]]
       /\ context' = None /\ playwright' = None
       /\ lock' = b
       /\ OpGoto(b, IF context = None THEN "stopping" ELSE "closing")
       /\ UNCHANGED <<state, timedOut>>

\* A browser ends with its pages.
BrowserEnds(c) == browsers' = browsers \ {c} /\ pages' = {}

(* context.close() may raise, the browser gone or not; that is counted and *)
(* otherwise ignored.                                                      *)
CloseContext(b) ==
  /\ op[b] = "closing"
  /\ LET c == taken[b].context IN
       \/ BrowserEnds(c) /\ UNCHANGED <<jammed, mishaps>>
       \/ /\ Mishap
          /\ jammed' = jammed \cup {c}
          /\ BrowserEnds(c) \/ UNCHANGED <<browsers, pages>>
  /\ OpGoto(b, "stopping")
  /\ UNCHANGED <<state, lock, context, playwright, drivers, stalled, taken,
                 timedOut, active, leaseVars, cancelled, unclosed>>

(* So may playwright.stop(); a browser that would not close may go now.    *)
StopDriver(b) ==
  /\ op[b] = "stopping"
  /\ LET c == taken[b].context  p == taken[b].playwright IN
       /\ \/ drivers' = drivers \ {p} /\ UNCHANGED <<stalled, mishaps>>
          \/ /\ Mishap
             /\ stalled' = stalled \cup {p}
             /\ drivers' = drivers \ {p} \/ UNCHANGED drivers
       /\ \/ c \in browsers /\ BrowserEnds(c)
          \/ UNCHANGED <<browsers, pages>>
  /\ Finish(b)
  /\ UNCHANGED <<context, playwright, jammed, active, leaseVars, cancelled,
                 unclosed>>

-----------------------------------------------------------------------------
(* start                                                                   *)

(* A runtime that is started already returns; one that is being closed     *)
(* refuses; so does an invalid or locked profile directory.                *)
StartReturns(b) ==
  /\ op[b] \in {"idle", "over"} /\ lock = None
  /\ OpGoto(b, "over")
  /\ \/ state # "NEW" /\ UNCHANGED mishaps
     \/ state = "NEW" /\ browsers # {} /\ UNCHANGED mishaps
     \/ state = "NEW" /\ Mishap
  /\ UNCHANGED <<state, lock, processVars, timedOut, active, leaseVars, pages,
                 cancelled, unclosed>>

Start(b) ==
  /\ op[b] \in {"idle", "over"} /\ lock = None
  /\ state = "NEW" /\ browsers = {}
  /\ lock' = b
  /\ OpGoto(b, "driving")
  /\ UNCHANGED <<state, processVars, timedOut, active, leaseVars, pages,
                 cancelled, unclosed, mishaps>>

\* The handlers of start: whatever there is by now is closed again.
StartFails(b) ==
  /\ op[b] \in {"driving", "launching", "tidying"}
  /\ Mishap
  /\ CloseResources(b)
  /\ UNCHANGED <<browsers, drivers, jammed, stalled, active, leaseVars, pages,
                 cancelled, unclosed>>

Drive(b) ==
  /\ op[b] = "driving"
  /\ drivers' = drivers \cup {b} /\ playwright' = b
  /\ OpGoto(b, "launching")
  /\ UNCHANGED <<state, lock, context, browsers, jammed, stalled, taken,
                 timedOut, active, leaseVars, pages, cancelled, unclosed,
                 mishaps>>

Launch(b) ==
  /\ op[b] = "launching"
  /\ browsers' = browsers \cup {b} /\ context' = b
  /\ OpGoto(b, "tidying")
  /\ UNCHANGED <<state, lock, playwright, drivers, jammed, stalled, taken,
                 timedOut, active, leaseVars, pages, cancelled, unclosed,
                 mishaps>>

(* The pages the browser came with are closed, and the runtime is started. *)
Tidy(b) ==
  /\ op[b] = "tidying"
  /\ state' = "STARTED" /\ lock' = None
  /\ OpGoto(b, "started")
  /\ UNCHANGED <<processVars, timedOut, active, leaseVars, pages, cancelled,
                 unclosed, mishaps>>

-----------------------------------------------------------------------------
(* close                                                                   *)

SlipClose(b) ==                     \* slip: without _lock
  /\ op[b] = "idle"
  /\ \/ state = "CLOSED" /\ OpGoto(b, "over") /\ UNCHANGED state
     \/ state = "NEW" /\ state' = "CLOSED" /\ OpGoto(b, "over")
     \/ /\ state \in {"STARTED", "CLOSING"}
        /\ state' = "CLOSING"
        /\ OpGoto(b, IF active = 0 THEN "drained" ELSE "draining")
  /\ UNCHANGED <<lock, processVars, timedOut, active, leaseVars, pages,
                 cancelled, unclosed, mishaps>>
Close(b) ==
  /\ op[b] = "idle" /\ lock = None
  /\ \/ state = "CLOSED" /\ OpGoto(b, "over") /\ UNCHANGED state
     \/ state = "NEW" /\ state' = "CLOSED" /\ OpGoto(b, "over")
     \/ /\ state \in {"STARTED", "CLOSING"}
        /\ state' = "CLOSING"
        /\ OpGoto(b, IF active = 0 THEN "drained" ELSE "draining")
  /\ UNCHANGED <<lock, processVars, timedOut, active, leaseVars, pages,
                 cancelled, unclosed, mishaps>>

SlipDrainTimesOut(b) ==             \* slip: wait without a timeout
  /\ op[b] = "draining" /\ active = 0
  /\ OpGoto(b, "drained")
  /\ UNCHANGED <<state, lock, processVars, timedOut, active, leaseVars, pages,
                 cancelled, unclosed, mishaps>>
DrainTimesOut(b) ==
  /\ op[b] = "draining"
  /\ timedOut' = timedOut \cup {b}
  /\ OpGoto(b, "drained")
  /\ UNCHANGED <<state, lock, processVars, active, leaseVars, pages, cancelled,
                 unclosed, mishaps>>

TakeContext(b) ==
  /\ op[b] = "drained" /\ lock = None
  /\ CloseResources(b)
  /\ UNCHANGED <<browsers, drivers, jammed, stalled, active, leaseVars, pages,
                 cancelled, unclosed, mishaps>>

(* A caller is cancelled while it awaits: no handler of either function    *)
(* catches that, only the lock is given back.  What it awaited may still   *)
(* happen in the browser.                                                  *)
CancelCaller(b) ==
  /\ op[b] \in {"driving", "launching", "tidying", "draining", "drained",
                "closing", "stopping"}
  /\ Mishap
  /\ cancelled' = cancelled \cup {b}
  /\ OpGoto(b, "over")
  /\ lock' = IF lock = b THEN None ELSE lock
  /\ taken' = [taken EXCEPT ![b] = Nothing]
  /\ \/ UNCHANGED <<browsers, drivers, pages>>
     \/ /\ op[b] = "driving" /\ drivers' = drivers \cup {b}
        /\ UNCHANGED <<browsers, pages>>
     \/ /\ op[b] = "launching" /\ browsers' = browsers \cup {b}
        /\ UNCHANGED <<drivers, pages>>
     \/ /\ op[b] = "closing" /\ BrowserEnds(taken[b].context)
        /\ UNCHANGED drivers
     \/ /\ op[b] = "stopping" /\ drivers' = drivers \ {taken[b].playwright}
        /\ UNCHANGED <<browsers, pages>>
  /\ timedOut' = timedOut \ {b}
  /\ UNCHANGED <<state, context, playwright, jammed, stalled, active,
                 leaseVars, unclosed>>

-----------------------------------------------------------------------------
(* lease                                                                   *)

(* The state is checked, the row taken, the state checked again and a page *)
(* asked for, all before the first await; a refused request is over.       *)
SlipAsk(r) ==                       \* slip: the row does not exclude
  /\ at[r] = "idle"
  /\ IF state = "STARTED"
     THEN /\ holder' = r
          /\ baseline' = [baseline EXCEPT ![r] = pages]
          /\ wanted' = wanted \cup {r}
          /\ Goto(r, "opening")
     ELSE Goto(r, "over") /\ UNCHANGED <<holder, baseline, wanted>>
  /\ UNCHANGED <<runtimeVars, active, todo, late, lost, pages, cancelled,
                 unclosed, mishaps>>
Ask(r) ==
  /\ at[r] = "idle"
  /\ IF state = "STARTED" /\ holder = None
     THEN /\ holder' = r
          /\ baseline' = [baseline EXCEPT ![r] = pages]
          /\ wanted' = wanted \cup {r}
          /\ Goto(r, "opening")
     ELSE Goto(r, "over") /\ UNCHANGED <<holder, baseline, wanted>>
  /\ UNCHANGED <<runtimeVars, active, todo, late, lost, pages, cancelled,
                 unclosed, mishaps>>

(* The page appears in the browser, even if nobody waits for it any more.  *)
PageAppears(r) ==
  /\ r \in wanted /\ ContextOpen
  /\ wanted' = wanted \ {r}
  /\ pages' = pages \cup {r}
  /\ UNCHANGED <<runtimeVars, active, holder, at, baseline, todo, late, lost,
                 cancelled, unclosed, mishaps>>

SlipNewPageFails(r) ==              \* slip: the row is not given back
  /\ at[r] = "opening" /\ r \in wanted
  /\ IF ContextOpen THEN Mishap ELSE UNCHANGED mishaps
  /\ wanted' = wanted \ {r}
  /\ Goto(r, "over")
  /\ UNCHANGED <<runtimeVars, active, holder, baseline, todo, late, lost,
                 pages, cancelled, unclosed>>
NewPageFails(r) ==
  /\ at[r] = "opening" /\ r \in wanted
  /\ IF ContextOpen THEN Mishap ELSE UNCHANGED mishaps
  /\ wanted' = wanted \ {r}
  /\ Goto(r, "leaving")
  /\ UNCHANGED <<runtimeVars, active, holder, baseline, todo, late, lost,
                 pages, cancelled, unclosed>>

(* The coroutine goes on: the page is counted and handed out, whatever has *)
(* become of the runtime since it asked.                                   *)
NewPage(r) ==
  /\ at[r] = "opening" /\ r \notin wanted
  /\ active' = active + 1
  /\ late' = IF state = "STARTED" THEN late ELSE late \cup {r}
  /\ Goto(r, "using")
  /\ UNCHANGED <<runtimeVars, holder, wanted, baseline, todo, lost, pages,
                 cancelled, unclosed, mishaps>>

(* The count goes down, and with the last page every waiting close wakes.  *)
SlipCountOut ==                     \* slip: any page wakes them
  /\ active' = IF active = 0 THEN 0 ELSE active - 1
  /\ op' = [b \in Caller |->
       IF op[b] = "draining" THEN "drained" ELSE op[b]]
CountOut ==
  /\ active' = IF active = 0 THEN 0 ELSE active - 1
  /\ op' = [b \in Caller |->
       IF op[b] = "draining" /\ active' = 0 THEN "drained" ELSE op[b]]

(* The body ends, in any way: every page that was not there when the lease *)
(* was taken is to be closed.                                              *)
ToClose(r) == pages \ baseline[r]

SlipEndUse(r) ==                    \* slip: nothing is closed or counted
  /\ at[r] = "using"
  /\ todo' = [todo EXCEPT ![r] = ToClose(r)]
  /\ Goto(r, "leaving")
  /\ UNCHANGED <<runtimeVars, active, holder, wanted, baseline, late, lost,
                 pages, cancelled, unclosed, mishaps>>
EndUse(r) ==
  /\ at[r] = "using"
  /\ todo' = [todo EXCEPT ![r] = ToClose(r)]
  /\ IF ToClose(r) = {}
     THEN CountOut /\ Goto(r, "leaving")
     ELSE Goto(r, "cleaning") /\ UNCHANGED <<active, op>>
  /\ UNCHANGED <<state, lock, processVars, timedOut, holder, wanted,
                 baseline, late, lost, pages, cancelled, unclosed,
                 mishaps>>

(* One page after the other; a failure is counted and otherwise ignored.   *)
ClosePage(r, q) ==
  /\ at[r] = "cleaning" /\ q \in todo[r]
  /\ \/ pages' = pages \ {q} /\ UNCHANGED <<unclosed, mishaps>>
     \/ /\ Mishap
        /\ unclosed' = unclosed \cup {q}
        /\ UNCHANGED pages
  /\ todo' = [todo EXCEPT ![r] = @ \ {q}]
  /\ IF todo[r] = {q}
     THEN CountOut /\ Goto(r, "leaving")
     ELSE UNCHANGED <<active, op, at>>
  /\ UNCHANGED <<state, lock, processVars, timedOut, holder, wanted,
                 baseline, late, lost, cancelled>>

\* What only the properties and the clean-up need is dropped.
Forget(r) ==
  /\ baseline' = [baseline EXCEPT ![r] = {}]
  /\ late' = late \ {r}
  /\ lost' = lost \ {r}

(* hold_renewing is left: the heartbeat ends and the row goes back, unless *)
(* somebody else has it by now.                                            *)
Release(r) ==
  /\ at[r] = "leaving"
  /\ holder' = IF holder = r THEN None ELSE holder
  /\ Goto(r, "over")
  /\ Forget(r)
  /\ UNCHANGED <<runtimeVars, active, wanted, todo, pages, cancelled, unclosed,
                 mishaps>>

(* A cancellation while a page is awaited, or while pages are closed: then *)
(* the rest of the clean-up is skipped, the count included, and only       *)
(* hold_renewing is left in order.  In the body it is one way to end.      *)
CancelRequest(r) ==
  /\ at[r] \in {"opening", "cleaning"}
  /\ Mishap
  /\ cancelled' = cancelled \cup {r}
  /\ Goto(r, "leaving")
  /\ todo' = [todo EXCEPT ![r] = {}]
  /\ \/ UNCHANGED pages
     \/ \E q \in todo[r] : pages' = pages \ {q}
  /\ UNCHANGED <<runtimeVars, active, holder, wanted, baseline, late, lost,
                 unclosed>>

(* The renewal failed and the row ran out.                                 *)
Lapse ==
  /\ holder # None
  /\ Mishap
  /\ holder' = None
  /\ lost' = lost \cup {holder}
  /\ UNCHANGED <<runtimeVars, active, at, wanted, baseline, todo, late, pages,
                 cancelled, unclosed>>

CallerStep(b) ==
  \/ Drive(b) \/ Launch(b) \/ Tidy(b) \/ StartFails(b)
  \/ DrainTimesOut(b) \/ TakeContext(b)
  \/ CloseContext(b) \/ StopDriver(b)

RequestStep(r) ==
  \/ NewPageFails(r) \/ NewPage(r)
  \/ (\E q \in Request : ClosePage(r, q)) \/ Release(r)

Next ==
  \/ \E b \in Starter : StartReturns(b) \/ Start(b)
  \/ \E b \in Closer : Close(b)
  \/ \E b \in Caller : CallerStep(b) \/ CancelCaller(b)
  \/ \E r \in Request :
       \/ Ask(r) \/ PageAppears(r) \/ EndUse(r) \/ RequestStep(r)
       \/ CancelRequest(r)
  \/ Lapse

Spec == Init /\ [][Next]_vars

(* The event loop runs what is ready and the browser answers or times out; *)
(* nobody has to begin, and a lease's body may go on for ever.             *)
FairSpec ==
  /\ Spec
  /\ \A b \in Caller : WF_vars(CallerStep(b))
  /\ \A r \in Request : WF_vars(RequestStep(r)) /\ WF_vars(PageAppears(r))

-----------------------------------------------------------------------------
(* What must hold                                                          *)

(* A close whose wait was not cut short by its timeout takes the context   *)
(* only from under pages that were handed out after a shutdown had begun   *)
(* (close, 466-483, with the count and the event of lease, 318-352; DOMAIN_*)
(* AND_RULES.md:866: "waits boundedly for active leases").                 *)
DrainSparesLeases ==
  [][\A b \in Caller, r \in Request :
       op[b] = "drained" /\ op'[b] = "closing" /\ at[r] = "using"
         => b \in timedOut \/ r \in late]_vars

(* A page in use is closed by another request only when one of the two had *)
(* lost the row, and otherwise by the shutdown alone: the baseline keeps   *)
(* apart whom the row keeps apart (lease, 311-348).                        *)
PagesKeepApart ==
  [][\A q \in Request :
       at[q] = "using" /\ q \in pages /\ q \notin pages' =>
         \/ \E b \in Caller : op[b] \in {"closing", "stopping"}
         \/ \E r \in Request \ {q} :
              q \in todo[r] /\ {q, r} \cap lost # {}]_vars

(* CLOSED is said only after both the browser and the driver were closed:  *)
(* what still runs then is a browser whose context.close() raised or a     *)
(* driver whose stop() did, of this close or of a start that failed, and   *)
(* no page outlives its browser.  While the runtime says STARTED there is  *)
(* a browser to lend.  Except that a start or close was cancelled half way *)
(* (start, 406-449, _close_resources and close, 451-483).                  *)
ShutdownIsComplete ==
  cancelled \cap Caller = {} =>
    /\ state = "CLOSED" =>
         /\ context = None /\ playwright = None
         /\ browsers \subseteq jammed /\ drivers \subseteq stalled
         /\ browsers = {} => pages = {}
    /\ state = "STARTED" => context \in browsers /\ playwright \in drivers

(* A request that is over has given the row back, also when it failed, was *)
(* cancelled or lost the row meanwhile; and its page is closed unless its  *)
(* clean-up was cut short or a page would not close (338-360; DOMAIN_AND_  *)
(* RULES.md:858).                                                          *)
LeaseCleansUp ==
  \A r \in Request : at[r] = "over" =>
    /\ holder # r
    /\ r \in pages => r \in cancelled \cup unclosed

(* Nobody hangs: a close ends although a lease's body may never, or its    *)
(* count was lost to a cancellation; and so does every part of a lease     *)
(* that is the runtime's own.                                              *)
NobodyHangs ==
  /\ \A b \in Caller :
       op[b] \in {"driving", "launching", "tidying", "draining", "drained",
                  "closing", "stopping"} ~> op[b] \in {"started", "over"}
  /\ \A r \in Request :
       at[r] \in {"opening", "cleaning", "leaving"}
         ~> at[r] \in {"using", "over"}

-----------------------------------------------------------------------------
(* The facts that make these inductive.                                    *)

\* Who awaits something under _lock.
Locking(b) ==
  op[b] \in {"driving", "launching", "tidying", "closing", "stopping"}

LockIsHeld ==
  /\ \A b \in Caller : Locking(b) <=> lock = b
  /\ \A b \in Caller :
       /\ op[b] \in {"driving", "launching", "tidying"} => state = "NEW"
       /\ op[b] \in {"driving", "launching", "tidying"} => b \in Starter
       /\ op[b] \in {"draining", "drained"} =>
            b \in Closer /\ state \in {"CLOSING", "CLOSED"}
       /\ op[b] \in {"closing", "stopping"} =>
            IF b \in Closer THEN state \in {"CLOSING", "CLOSED"}
                            ELSE state = "NEW"

(* The browser's life, as long as no start and no close is cancelled.      *)
\* Nothing runs but what would not close ...
Left ==
  /\ context = None /\ playwright = None
  /\ browsers \subseteq jammed /\ drivers \subseteq stalled

\* ... and driver d and browser c.
Runs(c, d) ==
  /\ c \in Caller /\ browsers = {c}
  /\ d \in Caller /\ d \in drivers /\ drivers \subseteq stalled \cup {d}

Starting(b) ==
  \/ op[b] = "driving" /\ Left /\ browsers = {}
  \/ /\ op[b] = "launching" /\ browsers = {} /\ context = None
     /\ playwright = b /\ b \in drivers /\ drivers \subseteq stalled \cup {b}
  \/ op[b] = "tidying" /\ context = b /\ playwright = b /\ Runs(b, b)

Running ==
  /\ state \in {"STARTED", "CLOSING"}
  /\ Runs(context, playwright)

Stopping(b) ==
  /\ context = None /\ playwright = None /\ state # "CLOSED"
  /\ \/ op[b] = "closing" /\ Runs(taken[b].context, taken[b].playwright)
     \/ /\ op[b] = "stopping"
        /\ browsers \subseteq jammed
        /\ drivers \subseteq stalled \cup {taken[b].playwright}

BrowserLife ==
  cancelled \cap Caller = {} =>
    IF lock = None THEN Running \/ (state \in {"NEW", "CLOSED"} /\ Left)
                   ELSE Starting(lock) \/ Stopping(lock)

\* No page outlives its browser.
PagesHaveBrowser == browsers = {} => pages = {}

(* A request's life: who has not lost the row holds it from asking to      *)
(* leaving, and the page it opens is not in its baseline.                  *)
Busy(r) == at[r] \in {"opening", "using", "cleaning", "leaving"}

RowIsHeld ==
  \A r \in Request :
    /\ holder = r => Busy(r)
    /\ Busy(r) /\ r \notin lost => holder = r

PageIsCovered ==
  \A r \in Request :
    /\ at[r] = "idle" => r \notin pages \cup wanted
    /\ r \notin baseline[r]
    /\ r \in wanted =>
         r \notin pages /\ (at[r] = "opening" \/ r \in cancelled)
    /\ r \in pages =>
         \/ at[r] \in {"opening", "using"}
         \/ r \in cancelled \cup unclosed
         \/ r \in todo[r]

(* The count: never less than the pages that are out, never more than the  *)
(* requests that got one.                                                  *)
Out == {r \in Request : at[r] \in {"using", "cleaning"}}
Served == {r \in Request : at[r] \in {"using", "cleaning", "leaving", "over"}}

CountIsSound ==
  /\ active >= Cardinality(Out) /\ active <= Cardinality(Served)
  /\ \A b \in Caller : op[b] = "drained" =>
       b \in timedOut \/ \A r \in Out : at[r] = "using" => r \in late

RuntimeInv ==
  /\ LockIsHeld /\ BrowserLife /\ PagesHaveBrowser
  /\ RowIsHeld /\ PageIsCovered /\ CountIsSound
=============================================================================
