------------------------------- MODULE Leases -------------------------------
(***************************************************************************)
(* core/leases.py: LeaseManager and the hold_renewing context manager.     *)
(*                                                                         *)
(* Several processes share one SQLite table of leases.  Inside a process   *)
(* everything runs on one event loop and every LeaseManager call is        *)
(* synchronous, so a process is one sequential Worker; between processes   *)
(* only the transactions are atomic.  The clock is read outside them:      *)
(* acquire and renew read it BEFORE their transaction, assert_current      *)
(* reads it AFTER its query.  Each such pair is two actions here, and time *)
(* and the other workers run in between.                                   *)
(*                                                                         *)
(* Bound: time stops at MaxTime.  A token is a fresh uuid4; the model      *)
(* draws one that nobody holds or remembers.  Token needs one element per  *)
(* resource and two per worker.                                            *)
(***************************************************************************)
EXTENDS Naturals

CONSTANTS Resource, Worker, Token, None,
          Ttl,         \* ttl_seconds, in clock units
          MaxTime,     \* bound on the clock
          MaxCrashes   \* bound on crashes

ASSUME LeaseAssumption ==
  /\ Ttl \in Nat \ {0}
  /\ MaxTime \in Nat
  /\ MaxCrashes \in Nat
  /\ None \notin Token

VARIABLES
  now,       \* time.time()
  table,     \* table[r] : the row of r in the leases table
  pc,        \* where each worker stands
  res,       \* the resource a worker is acquiring or holding
  mine,      \* the token in the worker's own RenewingLease
  at,        \* the clock value a worker captured before its transaction
  seen,      \* the row assert_current has read
  beating,   \* the heartbeat task is alive
  verdict,   \* the answer of the worker's last assert_fresh
  crashes

vars == <<now, table, pc, res, mine, at, seen, beating, verdict, crashes>>

Time   == 0 .. (MaxTime + Ttl)
Row    == [token : Token \cup {None}, expires : Time]
NoRow  == [token |-> None, expires |-> 0]
PC     == {"idle", "acquiring", "holding", "renewing", "asserting",
           "leaving", "crashed"}

TypeOK ==
  /\ now \in 0 .. MaxTime
  /\ table \in [Resource -> Row]
  /\ pc \in [Worker -> PC]
  /\ res \in [Worker -> Resource]
  /\ mine \in [Worker -> Token \cup {None}]
  /\ at \in [Worker -> 0 .. MaxTime]
  /\ seen \in [Worker -> Row]
  /\ beating \in [Worker -> BOOLEAN]
  /\ verdict \in [Worker -> {"none", "fresh", "lost"}]
  /\ crashes \in 0 .. MaxCrashes

Init ==
  /\ now = 0
  /\ table = [r \in Resource |-> NoRow]
  /\ pc = [w \in Worker |-> "idle"]
  /\ res \in [Worker -> Resource]
  /\ mine = [w \in Worker |-> None]
  /\ at = [w \in Worker |-> 0]
  /\ seen = [w \in Worker |-> NoRow]
  /\ beating = [w \in Worker |-> FALSE]
  /\ verdict = [w \in Worker |-> "none"]
  /\ crashes = 0

-----------------------------------------------------------------------------
(* Reading the table                                                       *)

Present(r) == table[r].token # None
Live(r)    == Present(r) /\ table[r].expires > now

\* The row of the worker's resource still carries the worker's token.
Owns(w)    == table[res[w]].token = mine[w]

\* A uuid4 nobody has ever seen.
Fresh(t)   == /\ \A r \in Resource : table[r].token # t
              /\ \A w \in Worker : mine[w] # t /\ seen[w].token # t

-----------------------------------------------------------------------------
(* Slips: variants of the operators below that a maintainer could write by *)
(* mistake.  PROJECT.json says which property notices each of them.        *)

SlipUnavailable(r, clock) == Present(r) /\ table[r].expires > clock + 1

SlipNeverExpires(r, clock) == Present(r)

SlipRenewFromExpiry(w) ==      \* extends the old expiry instead of the clock
  /\ pc[w] = "renewing"
  /\ Owns(w)
  /\ table[res[w]].expires > at[w]
  /\ table' = [table EXCEPT ![res[w]].expires = @ + Ttl]
  /\ pc' = [pc EXCEPT ![w] = "holding"]
  /\ UNCHANGED <<now, res, mine, at, seen, beating, verdict, crashes>>

SlipCheckOldClock(w) ==        \* the clock captured by the last renewal
  /\ pc[w] = "asserting"
  /\ verdict' = [verdict EXCEPT ![w] =
                   IF seen[w].token = mine[w] /\ seen[w].expires > at[w]
                   THEN "fresh" ELSE "lost"]
  /\ pc' = [pc EXCEPT ![w] = "holding"]
  /\ seen' = [seen EXCEPT ![w] = NoRow]
  /\ UNCHANGED <<now, table, res, mine, at, beating, crashes>>

SlipReleaseByName(w) ==        \* deletes the resource's row, whoever's it is
  /\ pc[w] = "leaving"
  /\ table' = [table EXCEPT ![res[w]] = NoRow]
  /\ pc' = [pc EXCEPT ![w] = "idle"]
  /\ mine' = [mine EXCEPT ![w] = None]
  /\ verdict' = [verdict EXCEPT ![w] = "none"]
  /\ UNCHANGED <<now, res, at, seen, beating, crashes>>

-----------------------------------------------------------------------------
Tick ==
  /\ now < MaxTime
  /\ now' = now + 1
  /\ UNCHANGED <<table, pc, res, mine, at, seen, beating, verdict, crashes>>

(* acquire: the clock and the token are taken before the transaction.      *)
AcquireStart(w, r) ==
  /\ pc[w] = "idle"
  /\ pc' = [pc EXCEPT ![w] = "acquiring"]
  /\ res' = [res EXCEPT ![w] = r]
  /\ at' = [at EXCEPT ![w] = now]
  /\ UNCHANGED <<now, table, mine, seen, beating, verdict, crashes>>

(* The availability test of acquire: an unexpired row refuses.             *)
Unavailable(r, clock) == Present(r) /\ table[r].expires > clock

(* acquire's transaction, then the start of the heartbeat task.            *)
AcquireCommit(w, t) ==
  /\ pc[w] = "acquiring"
  /\ ~Unavailable(res[w], at[w])
  /\ Fresh(t)
  /\ table' = [table EXCEPT ![res[w]] =
                 [token |-> t, expires |-> at[w] + Ttl]]
  /\ mine' = [mine EXCEPT ![w] = t]
  /\ pc' = [pc EXCEPT ![w] = "holding"]
  /\ beating' = [beating EXCEPT ![w] = TRUE]
  /\ UNCHANGED <<now, res, at, seen, verdict, crashes>>

(* LeaseUnavailableError                                                   *)
AcquireRefused(w) ==
  /\ pc[w] = "acquiring"
  /\ Unavailable(res[w], at[w])
  /\ pc' = [pc EXCEPT ![w] = "idle"]
  /\ UNCHANGED <<now, table, res, mine, at, seen, beating, verdict, crashes>>

(* The heartbeat wakes up and renew reads the clock.                       *)
RenewStart(w) ==
  /\ pc[w] = "holding"
  /\ beating[w]
  /\ pc' = [pc EXCEPT ![w] = "renewing"]
  /\ at' = [at EXCEPT ![w] = now]
  /\ UNCHANGED <<now, table, res, mine, seen, beating, verdict, crashes>>

(* renew's transaction succeeds.                                           *)
RenewCommit(w) ==
  /\ pc[w] = "renewing"
  /\ Owns(w)
  /\ table[res[w]].expires > at[w]
  /\ table' = [table EXCEPT ![res[w]].expires = at[w] + Ttl]
  /\ pc' = [pc EXCEPT ![w] = "holding"]
  /\ UNCHANGED <<now, res, mine, at, seen, beating, verdict, crashes>>

(* renew raises: the row is gone, a successor's or expired, or the         *)
(* database could not be written.  The heartbeat stops for good.           *)
RenewFails(w) ==
  /\ pc[w] = "renewing"
  /\ beating' = [beating EXCEPT ![w] = FALSE]
  /\ pc' = [pc EXCEPT ![w] = "holding"]
  /\ UNCHANGED <<now, table, res, mine, at, seen, verdict, crashes>>

(* assert_fresh / assert_current: first the query ...                      *)
AssertRead(w) ==
  /\ pc[w] = "holding"
  /\ seen' = [seen EXCEPT ![w] = table[res[w]]]
  /\ pc' = [pc EXCEPT ![w] = "asserting"]
  /\ UNCHANGED <<now, table, res, mine, at, beating, verdict, crashes>>

(* ... then the clock, on a row that may have changed since.               *)
AssertCheck(w) ==
  /\ pc[w] = "asserting"
  /\ verdict' = [verdict EXCEPT ![w] =
                   IF seen[w].token = mine[w] /\ seen[w].expires > now
                   THEN "fresh" ELSE "lost"]
  /\ pc' = [pc EXCEPT ![w] = "holding"]
  /\ seen' = [seen EXCEPT ![w] = NoRow]
  /\ UNCHANGED <<now, table, res, mine, at, beating, crashes>>

(* The body of the context ends, normally or not; stop is set and the      *)
(* heartbeat task awaited.                                                 *)
Leave(w) ==
  /\ pc[w] = "holding"
  /\ pc' = [pc EXCEPT ![w] = "leaving"]
  /\ beating' = [beating EXCEPT ![w] = FALSE]
  /\ UNCHANGED <<now, table, res, mine, at, seen, verdict, crashes>>

(* release: expired or not, the row goes if it still carries our token;    *)
(* a missing or a successor's row is left alone.                           *)
Release(w) ==
  /\ pc[w] = "leaving"
  /\ table' = IF Owns(w) THEN [table EXCEPT ![res[w]] = NoRow] ELSE table
  /\ pc' = [pc EXCEPT ![w] = "idle"]
  /\ mine' = [mine EXCEPT ![w] = None]
  /\ verdict' = [verdict EXCEPT ![w] = "none"]
  /\ UNCHANGED <<now, res, at, seen, beating, crashes>>

ClearExpired ==
  /\ \E r \in Resource : Present(r) /\ ~Live(r)
  /\ table' = [r \in Resource |-> IF Live(r) THEN table[r] ELSE NoRow]
  /\ UNCHANGED <<now, pc, res, mine, at, seen, beating, verdict, crashes>>

(* The process dies anywhere; its row stays behind.                        *)
Crash(w) ==
  /\ pc[w] \notin {"idle", "crashed"}
  /\ crashes < MaxCrashes
  /\ crashes' = crashes + 1
  /\ pc' = [pc EXCEPT ![w] = "crashed"]
  /\ mine' = [mine EXCEPT ![w] = None]
  /\ seen' = [seen EXCEPT ![w] = NoRow]
  /\ beating' = [beating EXCEPT ![w] = FALSE]
  /\ verdict' = [verdict EXCEPT ![w] = "none"]
  /\ UNCHANGED <<now, table, res, at>>

Restart(w) ==
  /\ pc[w] = "crashed"
  /\ pc' = [pc EXCEPT ![w] = "idle"]
  /\ UNCHANGED <<now, table, res, mine, at, seen, beating, verdict, crashes>>

Step(w) ==
  \/ \E r \in Resource : AcquireStart(w, r)
  \/ \E t \in Token : AcquireCommit(w, t)
  \/ AcquireRefused(w)
  \/ RenewStart(w)
  \/ RenewCommit(w)
  \/ RenewFails(w)
  \/ AssertRead(w)
  \/ AssertCheck(w)
  \/ Leave(w)
  \/ Release(w)

Next ==
  \/ Tick
  \/ ClearExpired
  \/ \E w \in Worker : Step(w) \/ Crash(w) \/ Restart(w)

Spec == Init /\ [][Next]_vars

(* Time passes, a started transaction ends, a dead process is started      *)
(* again, and somebody keeps asking for the resource.  Nothing forces a    *)
(* holder to renew or to leave.                                            *)
Fairness ==
  /\ WF_vars(Tick)
  /\ \A w \in Worker :
       /\ WF_vars(\E t \in Token : AcquireCommit(w, t))
       /\ WF_vars(AcquireRefused(w))
       /\ WF_vars(Restart(w))
       /\ WF_vars(\E r \in Resource : AcquireStart(w, r))

FairSpec == Spec /\ Fairness

-----------------------------------------------------------------------------
(* Properties                                                              *)

(* assert_current reads the row first and the clock second, so a "fresh"   *)
(* answer is true of the table at the moment it is given, whatever the     *)
(* other workers committed in between (leases.py 135-150).                 *)
FreshMeansHeld ==
  [][\A w \in Worker :
       pc[w] = "asserting" /\ pc'[w] = "holding" /\ verdict'[w] = "fresh"
         => Owns(w) /\ Live(res[w])]_vars

(* A row that has not expired is removed or replaced only by the worker    *)
(* whose token it carries, while it is leaving ("never release a           *)
(* successor owned by another worker", leases.py 283-286).                 *)
LiveRowIsItsHoldersOwn ==
  [][\A r \in Resource :
       Live(r) /\ table'[r].token # table[r].token
         => \E w \in Worker : /\ pc[w] = "leaving"
                              /\ res[w] = r
                              /\ mine[w] = table[r].token]_vars

(* A row no running worker answers for (its process died).                 *)
Orphan(r) ==
  /\ Present(r)
  /\ \A w \in Worker : mine[w] # table[r].token

(* A lease left behind by a dead process does not block the resource for   *)
(* ever, although nothing ever releases it: somebody who keeps asking gets *)
(* it (leases.py 98-126).  The expiry must fall within the model's time.   *)
DeadHolderIsReplaced ==
  \A r \in Resource :
    (Orphan(r) /\ table[r].expires =< MaxTime) ~> ~Orphan(r)

(* What the rest of the program relies on.                                 *)
Promise == INSTANCE LeaseTable WITH
  Holder <- Token,
  holder <- [r \in Resource |-> table[r].token],
  lapsed <- {r \in Resource : Present(r) /\ ~Live(r)}

(* The transactions and the clocks read around them implement LeaseTable.  *)
ImplementsLeaseTable == Promise!LeaseTableSpec

-----------------------------------------------------------------------------
(* The facts that make FreshMeansHeld inductive.                           *)

TokensAreDistinct ==
  \A v, w \in Worker : v # w /\ mine[v] # None => mine[v] # mine[w]

TokensMatchState ==
  \A w \in Worker :
    /\ pc[w] \in {"holding", "renewing", "asserting", "leaving"}
         <=> mine[w] # None
    /\ at[w] =< now

RowsBoundedByRenewals ==
  \A w \in Worker :
    mine[w] # None =>
      /\ Owns(w) => table[res[w]].expires =< at[w] + Ttl
      /\ \A r \in Resource : table[r].token = mine[w] => r = res[w]

WhatWasSeenStillHolds ==
  \A w \in Worker :
    pc[w] = "asserting" /\ seen[w].token = mine[w] /\ seen[w].expires > now
      => Owns(w) /\ table[res[w]].expires = seen[w].expires

LeaseInv ==
  /\ TokensAreDistinct
  /\ TokensMatchState
  /\ RowsBoundedByRenewals
  /\ WhatWasSeenStillHolds
=============================================================================
