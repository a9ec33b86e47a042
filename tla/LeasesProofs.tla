---------------------------- MODULE LeasesProofs ----------------------------
(***************************************************************************)
(* Proofs about Leases, for every set of workers, resources and tokens and *)
(* every ttl.  The argument: tokens of different workers differ, a row is  *)
(* never extended beyond the clock its holder captured plus the ttl, and a *)
(* row that assert_current saw valid and that has not expired meanwhile is *)
(* still in the table.                                                     *)
(*                                                                         *)
(* RowsRunOut bounds every row by one ttl from now; with it the row of a   *)
(* process that died, which nobody prolongs or clears before its time, is  *)
(* free after that long.                                                   *)
(***************************************************************************)
EXTENDS Leases, TLAPS

Inv == TypeOK /\ LeaseInv

(* Every variable keeps its type (leases.py 98-288).                       *)
THEOREM LeasesTypeCorrect == Spec => []TypeOK
<1>1. Init => TypeOK
  BY LeaseAssumption DEF Init, TypeOK, NoRow, Row, Time, PC
<1>2. TypeOK /\ [Next]_vars => TypeOK'
  <2> SUFFICES ASSUME TypeOK, [Next]_vars
               PROVE  TypeOK'
    OBVIOUS
  <2> USE LeaseAssumption DEF TypeOK, Row, Time, PC, NoRow
  <2>1. CASE Tick
    BY <2>1 DEF Tick
  <2>2. CASE ClearExpired
    BY <2>2 DEF ClearExpired
  <2>3. ASSUME NEW w \in Worker, Step(w)
        PROVE  TypeOK'
    <3>1. ASSUME NEW r \in Resource, AcquireStart(w, r)
          PROVE  TypeOK'
      BY <3>1 DEF AcquireStart
    <3>2. ASSUME NEW t \in Token, AcquireCommit(w, t)
          PROVE  TypeOK'
      BY <3>2 DEF AcquireCommit
    <3>3. CASE AcquireRefused(w)  BY <3>3 DEF AcquireRefused
    <3>4. CASE RenewStart(w)      BY <3>4 DEF RenewStart
    <3>5. CASE RenewCommit(w)     BY <3>5 DEF RenewCommit
    <3>6. CASE RenewFails(w)      BY <3>6 DEF RenewFails
    <3>7. CASE AssertRead(w)      BY <3>7 DEF AssertRead
    <3>8. CASE AssertCheck(w)     BY <3>8 DEF AssertCheck
    <3>9. CASE Leave(w)           BY <3>9 DEF Leave
    <3>10. CASE Release(w)        BY <3>10 DEF Release
    <3>11. QED
      BY <2>3, <3>1, <3>2, <3>3, <3>4, <3>5, <3>6, <3>7, <3>8, <3>9, <3>10
         DEF Step
  <2>4. ASSUME NEW w \in Worker, Crash(w)
        PROVE  TypeOK'
    BY <2>4 DEF Crash
  <2>5. ASSUME NEW w \in Worker, Restart(w)
        PROVE  TypeOK'
    BY <2>5 DEF Restart
  <2>6. CASE UNCHANGED vars
    BY <2>6 DEF vars
  <2>7. QED
    BY <2>1, <2>2, <2>3, <2>4, <2>5, <2>6 DEF Next
<1>3. QED
  BY <1>1, <1>2, PTL DEF Spec

(* One step preserves the strengthened invariant.                          *)
LEMMA LeaseInvStep == TypeOK /\ TypeOK' /\ LeaseInv /\ [Next]_vars => LeaseInv'
<1> SUFFICES ASSUME TypeOK, TypeOK', LeaseInv, [Next]_vars
             PROVE  LeaseInv'
  OBVIOUS
<1> USE LeaseAssumption
        DEF LeaseInv, TokensAreDistinct, TokensMatchState,
            RowsBoundedByRenewals, WhatWasSeenStillHolds,
            Owns, TypeOK, Row, Time, NoRow
<1>1. CASE Tick
  BY <1>1 DEF Tick
<1>2. CASE ClearExpired
  BY <1>2 DEF ClearExpired, Live, Present
<1>3. ASSUME NEW w \in Worker, Step(w)
      PROVE  LeaseInv'
  <2>1. ASSUME NEW r \in Resource, AcquireStart(w, r)
        PROVE  LeaseInv'
    BY <2>1 DEF AcquireStart
  <2>2. ASSUME NEW t \in Token, AcquireCommit(w, t)
        PROVE  LeaseInv'
    <3>1. t # None /\ mine[w] = None
      BY <2>2 DEF AcquireCommit
    <3>2. TokensAreDistinct' /\ TokensMatchState'
      BY <2>2, <3>1 DEF AcquireCommit, Fresh
    <3>3. RowsBoundedByRenewals'
      BY <2>2, <3>1 DEF AcquireCommit, Fresh
    <3>4. WhatWasSeenStillHolds'
      BY <2>2, <3>1 DEF AcquireCommit, Fresh, Unavailable, Present
    <3>5. QED
      BY <3>2, <3>3, <3>4
  <2>3. CASE AcquireRefused(w)  BY <2>3 DEF AcquireRefused
  <2>4. CASE RenewStart(w)      BY <2>4 DEF RenewStart
  <2>5. CASE RenewCommit(w)     BY <2>5 DEF RenewCommit
  <2>6. CASE RenewFails(w)      BY <2>6 DEF RenewFails
  <2>7. CASE AssertRead(w)      BY <2>7 DEF AssertRead
  <2>8. CASE AssertCheck(w)     BY <2>8 DEF AssertCheck
  <2>9. CASE Leave(w)           BY <2>9 DEF Leave
  <2>10. CASE Release(w)        BY <2>10 DEF Release
  <2>11. QED
    BY <1>3, <2>1, <2>2, <2>3, <2>4, <2>5, <2>6, <2>7, <2>8, <2>9, <2>10
       DEF Step
<1>4. ASSUME NEW w \in Worker, Crash(w)
      PROVE  LeaseInv'
  BY <1>4 DEF Crash
<1>5. ASSUME NEW w \in Worker, Restart(w)
      PROVE  LeaseInv'
  BY <1>5 DEF Restart
<1>6. CASE UNCHANGED vars
  BY <1>6 DEF vars
<1>7. QED
  BY <1>1, <1>2, <1>3, <1>4, <1>5, <1>6 DEF Next

(* The facts every answer of the lease manager rests on hold for ever.     *)
THEOREM LeasesInvariant == Spec => []Inv
<1>1. Init => LeaseInv
  BY LeaseAssumption
     DEF Init, LeaseInv, TokensAreDistinct, TokensMatchState,
         RowsBoundedByRenewals, WhatWasSeenStillHolds
<1>2. QED
  BY <1>1, LeaseInvStep, LeasesTypeCorrect, PTL DEF Spec, Inv

(* assert_current never answers "fresh" for a row that is gone, replaced   *)
(* or expired at that moment (leases.py 135-150).                          *)
THEOREM FreshIsSound == Spec => FreshMeansHeld
<1>1. Inv /\ [Next]_vars
        => [\A w \in Worker :
              pc[w] = "asserting"
                /\ pc'[w] = "holding" /\ verdict'[w] = "fresh"
                  => Owns(w) /\ Live(res[w])]_vars
  <2> SUFFICES ASSUME Inv, [Next]_vars, NEW w \in Worker,
                      pc[w] = "asserting", pc'[w] = "holding",
                      verdict'[w] = "fresh"
               PROVE  Owns(w) /\ Live(res[w])
    OBVIOUS
  <2> USE LeaseAssumption DEF Inv, TypeOK, PC
  <2>1. AssertCheck(w)
    <3>1. pc'[w] # pc[w]
      OBVIOUS
    <3>2. ~Tick /\ ~ClearExpired /\ ~UNCHANGED vars
      BY <3>1 DEF Tick, ClearExpired, vars
    <3>3. \A v \in Worker : ~Restart(v) /\ ~Crash(v)
      BY DEF Restart, Crash
    <3>4. PICK v \in Worker : Step(v)
      BY <3>2, <3>3 DEF Next
    <3>5. v = w
      BY <3>1, <3>4
         DEF Step, AcquireStart, AcquireCommit, AcquireRefused, RenewStart,
             RenewCommit, RenewFails, AssertRead, AssertCheck, Leave, Release
    <3>6. QED
      BY <3>4, <3>5
         DEF Step, AcquireStart, AcquireCommit, AcquireRefused, RenewStart,
             RenewCommit, RenewFails, AssertRead, Leave, Release
  <2>2. seen[w].token = mine[w] /\ seen[w].expires > now
    BY <2>1 DEF AssertCheck
  <2>3. mine[w] # None
    BY DEF LeaseInv, TokensMatchState
  <2>4. QED
    BY <2>2, <2>3 DEF LeaseInv, WhatWasSeenStillHolds, Owns, Live, Present
<1>2. QED
  BY <1>1, LeasesInvariant, PTL DEF Spec, FreshMeansHeld

(* Nobody but its own holder, leaving, removes a row that is still valid   *)
(* (leases.py 98-126, 183-202, 276-287).                                   *)
THEOREM LiveRowsAreSafe == Spec => LiveRowIsItsHoldersOwn
<1> DEFINE Safe(r) ==
      Live(r) /\ table'[r].token # table[r].token
        => \E w \in Worker : /\ pc[w] = "leaving"
                             /\ res[w] = r
                             /\ mine[w] = table[r].token
<1>1. Inv /\ [Next]_vars => [\A r \in Resource : Safe(r)]_vars
  <2> SUFFICES ASSUME Inv, [Next]_vars, NEW r \in Resource,
                      Live(r), table'[r].token # table[r].token
               PROVE  \E w \in Worker : /\ pc[w] = "leaving"
                                        /\ res[w] = r
                                        /\ mine[w] = table[r].token
    OBVIOUS
  <2> USE LeaseAssumption DEF Inv, TypeOK, Row, Time, NoRow, Live, Present
  <2>1. ~Tick /\ ~ClearExpired /\ ~UNCHANGED vars
    BY DEF Tick, ClearExpired, vars
  <2>2. \A v \in Worker : ~Restart(v) /\ ~Crash(v)
    BY DEF Restart, Crash
  <2>3. PICK w \in Worker : Step(w)
    BY <2>1, <2>2 DEF Next
  <2>4. ASSUME NEW t \in Token, AcquireCommit(w, t)
        PROVE  FALSE
    <3>1. res[w] = r
      BY <2>4 DEF AcquireCommit
    <3>2. table[r].expires =< at[w] /\ at[w] =< now
      BY <2>4, <3>1
         DEF AcquireCommit, Unavailable, LeaseInv, TokensMatchState
    <3>3. QED
      BY <3>2
  <2>5. Release(w)
    BY <2>3, <2>4
       DEF Step, AcquireStart, AcquireRefused, RenewStart, RenewCommit,
           RenewFails, AssertRead, AssertCheck, Leave
  <2>6. QED
    BY <2>5 DEF Release, Owns
<1>2. QED
  BY <1>1, LeasesInvariant, PTL DEF Spec, LiveRowIsItsHoldersOwn

(* The lease manager implements the abstract lease table: whatever the     *)
(* clocks and transactions do, a holder is replaced only after its         *)
(* validity has lapsed, and no two rows share a token (leases.py 98-202).  *)
THEOREM LeasesImplementLeaseTable == Spec => ImplementsLeaseTable
<1> DEFINE Lapsed == {r \in Resource : Present(r) /\ ~Live(r)}
           Holders == [r \in Resource |-> table[r].token]
<1>grant. \A r \in Resource, h \in Token :
        Promise!Grant(r, h) => Promise!LeaseTableNext
  BY Zenon DEF Promise!LeaseTableNext
<1>extend. \A r \in Resource :
        Promise!Extend(r) => Promise!LeaseTableNext
  BY Zenon DEF Promise!LeaseTableNext
<1>vacate. \A r \in Resource :
        Promise!Vacate(r) => Promise!LeaseTableNext
  BY Zenon DEF Promise!LeaseTableNext
<1>lapse. \A S \in SUBSET Resource :
        Promise!Lapse(S) => Promise!LeaseTableNext
  BY Zenon DEF Promise!LeaseTableNext
<1>sweep. \A S \in SUBSET Resource :
        Promise!Sweep(S) => Promise!LeaseTableNext
  BY Zenon DEF Promise!LeaseTableNext
<1>1. Init => Promise!LeaseTableInit
  BY DEF Init, NoRow, Present, Live, Promise!LeaseTableInit
<1>2. Inv /\ Inv' /\ [Next]_vars
        => [Promise!LeaseTableNext]_(Promise!tableVars)
  <2> SUFFICES ASSUME Inv, Inv', [Next]_vars
               PROVE  \/ Promise!LeaseTableNext
                      \/ UNCHANGED <<Holders, Lapsed>>
    BY DEF Promise!tableVars
  <2>0. \A w \in Worker : res[w] \in Resource
    BY DEF Inv, TypeOK
  <2>1. CASE Tick
    <3> DEFINE S == {r \in Resource : Present(r) /\ table[r].expires =< now'}
    <3>1. Promise!Lapse(S)
      BY <2>1, LeaseAssumption
         DEF Inv, TypeOK, Row, Time, NoRow, Present, Live, Tick, Promise!Lapse
    <3>2. QED
      BY <1>lapse, <3>1
  <2>2. CASE ClearExpired
    <3>0. PICK S \in SUBSET Resource : S = Lapsed
      OBVIOUS
    <3>1. Promise!Sweep(S)
      BY <3>0, <2>2, LeaseAssumption
         DEF Inv, TypeOK, Row, Time, NoRow, Present, Live, ClearExpired,
             Promise!Sweep
    <3>2. QED
      BY <1>sweep, <3>1
  <2>3. ASSUME NEW w \in Worker, NEW t \in Token, AcquireCommit(w, t)
        PROVE  Promise!LeaseTableNext
    <3>1. Promise!Free(res[w])
      BY <2>3, LeaseAssumption
         DEF Inv, TypeOK, Row, Time, Present, Live, AcquireCommit, Unavailable,
             LeaseInv, TokensMatchState, Promise!Free
    <3>2. Holders' = [Holders EXCEPT ![res[w]] = t]
      BY <2>3 DEF Inv, TypeOK, Row, AcquireCommit
    <3>3. Holders[res[w]] # t
      BY <2>0, <2>3 DEF AcquireCommit, Fresh
    <3>4. Lapsed' \in {Lapsed \ {res[w]}, Lapsed \cup {res[w]}}
      <4>1. ASSUME NEW q \in Resource, q # res[w]
            PROVE  q \in Lapsed' <=> q \in Lapsed
        BY <2>3, <4>1 DEF Inv, TypeOK, Row, AcquireCommit, Present, Live
      <4>2. QED
        BY <4>1, <2>0
    <3>5. Promise!Grant(res[w], t)
      BY <3>1, <3>2, <3>3, <3>4 DEF Promise!Grant
    <3>6. QED
      BY <1>grant, <2>0, <3>5
  <2>4. ASSUME NEW w \in Worker, RenewCommit(w)
        PROVE  Promise!LeaseTableNext \/ UNCHANGED <<Holders, Lapsed>>
    <3>1. Present(res[w]) /\ table[res[w]].expires =< at[w] + Ttl
      BY <2>4 DEF Inv, Present, RenewCommit, Owns, LeaseInv,
                  TokensMatchState, RowsBoundedByRenewals
    <3>2. Holders' = Holders
      BY <2>4 DEF Inv, TypeOK, Row, RenewCommit
    <3>3. CASE at[w] + Ttl > now
      <4>1. Lapsed' = Lapsed \ {res[w]}
        BY <2>4, <3>1, <3>3, LeaseAssumption
           DEF Inv, TypeOK, Row, Time, Present, Live, RenewCommit
      <4>2. Promise!Extend(res[w])
        BY <3>1, <3>2, <4>1 DEF Inv, TypeOK, Present, Promise!Extend
      <4>3. QED
        BY <1>extend, <2>0, <4>2
    <3>4. CASE ~(at[w] + Ttl > now)
      <4>1. Lapsed' = Lapsed
        BY <2>4, <3>1, <3>4, LeaseAssumption
           DEF Inv, TypeOK, Row, Time, Present, Live, RenewCommit
      <4>2. QED
        BY <3>2, <4>1
    <3>5. QED
      BY <3>3, <3>4
  <2>5. ASSUME NEW w \in Worker, Release(w)
        PROVE  Promise!LeaseTableNext \/ UNCHANGED <<Holders, Lapsed>>
    <3>1. CASE Owns(w)
      <4>1. Present(res[w])
        BY <2>5, <3>1
           DEF Inv, Present, Release, Owns, LeaseInv, TokensMatchState
      <4>2. Promise!Vacate(res[w])
        BY <2>5, <3>1, <4>1
           DEF Inv, TypeOK, Row, NoRow, Present, Live, Release, Promise!Vacate
      <4>3. QED
        BY <1>vacate, <2>0, <4>2
    <3>2. CASE ~Owns(w)
      BY <2>5, <3>2 DEF Release, Present, Live
    <3>3. QED
      BY <3>1, <3>2
  <2>6. ASSUME UNCHANGED <<now, table>>
        PROVE  UNCHANGED <<Holders, Lapsed>>
    BY <2>6 DEF Present, Live
  <2>7. ASSUME NEW w \in Worker, Step(w)
        PROVE  Promise!LeaseTableNext \/ UNCHANGED <<Holders, Lapsed>>
    BY <2>3, <2>4, <2>5, <2>6, <2>7
       DEF Step, AcquireStart, AcquireRefused, RenewStart, RenewFails,
           AssertRead, AssertCheck, Leave
  <2>8. QED
    BY <2>1, <2>2, <2>6, <2>7 DEF Next, Crash, Restart, vars
<1>3. QED
  BY <1>1, <1>2, LeasesInvariant, PTL
     DEF Spec, ImplementsLeaseTable, Promise!LeaseTableSpec

-----------------------------------------------------------------------------
(* What DeadHolderIsReplaced rests on                                      *)

\* No row outlives the clock by more than one lease time.
RowsRunOut == \A r \in Resource : table[r].expires =< now + Ttl

(* The row of a dead process is neither prolonged nor moved: it stays what *)
(* it is until it has expired, and only then somebody clears or replaces   *)
(* it, under another token (leases.py 98-126, 152-217).                    *)
OrphansAreLeftAlone ==
  [][\A r \in Resource :
       Orphan(r) => \/ table'[r] = table[r]
                    \/ ~Live(r) /\ table'[r].token # table[r].token]_vars

\* Expiries are counted from a clock that was read before.
LEMMA RowsRunOutStep ==
  ASSUME Inv, TypeOK', RowsRunOut, [Next]_vars
  PROVE  RowsRunOut'
<1> USE LeaseAssumption
        DEF Inv, TypeOK, RowsRunOut, Row, NoRow, Time, LeaseInv,
            TokensMatchState
<1>1. now' \in Nat /\ now =< now'
  <2>1. ASSUME NEW w \in Worker, Step(w) \/ Crash(w) \/ Restart(w)
        PROVE  now' = now
    BY <2>1 DEF Step, AcquireStart, AcquireCommit, AcquireRefused, RenewStart,
       RenewCommit, RenewFails, AssertRead, AssertCheck, Leave, Release,
       Crash, Restart
  <2>2. QED
    BY <2>1 DEF Next, Tick, ClearExpired, vars
<1>2. ASSUME NEW r \in Resource
      PROVE  table'[r].expires =< now + Ttl
  <2>1. CASE table'[r] = table[r]
    BY <2>1
  <2>2. ASSUME NEW w \in Worker, RenewCommit(w)
        PROVE  table'[r].expires =< now + Ttl
    <3>1. at[w] =< now
      OBVIOUS
    <3>2. QED
      BY <2>2, <3>1 DEF RenewCommit
  <2>3. ASSUME NEW w \in Worker, NEW t \in Token, AcquireCommit(w, t)
        PROVE  table'[r].expires =< now + Ttl
    <3>1. at[w] =< now
      OBVIOUS
    <3>2. QED
      BY <2>3, <3>1 DEF AcquireCommit
  <2>4. ASSUME table'[r] = NoRow
        PROVE  table'[r].expires =< now + Ttl
    BY <2>4
  <2>5. ASSUME NEW w \in Worker, Release(w)
        PROVE  table'[r] \in {table[r], NoRow}
    BY <2>5 DEF Release
  <2>6. ASSUME ClearExpired
        PROVE  table'[r] \in {table[r], NoRow}
    BY <2>6 DEF ClearExpired
  <2>7. QED
    BY <2>1, <2>2, <2>3, <2>4, <2>5, <2>6
       DEF Next, Step, AcquireStart, AcquireRefused, RenewStart, RenewFails,
           AssertRead, AssertCheck, Leave, Crash, Restart, Tick, vars
<1>3. ASSUME NEW r \in Resource
      PROVE  table'[r].expires =< now' + Ttl
  <2>1. table'[r].expires \in Nat /\ now \in Nat
    OBVIOUS
  <2>2. QED
    BY <1>1, <1>2, <2>1
<1>4. QED
  BY <1>3

\* Only a running worker that has the row's token writes a row before it has
\* expired.
LEMMA OrphanStep ==
  ASSUME Inv, [Next]_vars, NEW r \in Resource, Orphan(r)
  PROVE  \/ table'[r] = table[r]
         \/ ~Live(r) /\ table'[r].token # table[r].token
<1> USE LeaseAssumption
        DEF Inv, TypeOK, Row, NoRow, Time, LeaseInv, TokensMatchState, Orphan,
            Present, Owns
<1>1. ASSUME NEW w \in Worker, RenewCommit(w) \/ Release(w)
      PROVE  table'[r] = table[r]
  BY <1>1 DEF RenewCommit, Release
<1>2. ASSUME NEW w \in Worker, NEW t \in Token, AcquireCommit(w, t)
      PROVE  \/ table'[r] = table[r]
             \/ ~Live(r) /\ table'[r].token # table[r].token
  <2>1. CASE res[w] # r
    BY <1>2, <2>1 DEF AcquireCommit
  <2>2. CASE res[w] = r
    <3>1. table[r].expires =< at[w] /\ at[w] =< now
      BY <1>2, <2>2 DEF AcquireCommit, Unavailable
    <3>2. ~Live(r)
      BY <3>1 DEF Live
    <3>3. table'[r].token = t /\ t # table[r].token
      BY <1>2, <2>2 DEF AcquireCommit, Fresh
    <3>4. QED
      BY <3>2, <3>3
  <2>3. QED
    BY <2>1, <2>2
<1>3. CASE ClearExpired
  BY <1>3 DEF ClearExpired
<1>4. QED
  BY <1>1, <1>2, <1>3
     DEF Next, Step, AcquireStart, AcquireRefused, RenewStart, RenewFails,
         AssertRead, AssertCheck, Leave, Crash, Restart, Tick, vars

(* A dead process's lease ends within one lease time of its last renewal,  *)
(* and until then nobody prolongs, clears or takes it (leases.py 98-126,   *)
(* 152-217).                                                               *)
THEOREM OrphansRunOut == Spec => []RowsRunOut /\ OrphansAreLeftAlone
<1>1. Init => RowsRunOut
  <2> SUFFICES ASSUME Init, NEW r \in Resource
               PROVE  table[r].expires =< now + Ttl
    BY Zenon DEF RowsRunOut
  <2>1. table[r] = [token |-> None, expires |-> 0] /\ now = 0
    BY DEF Init, NoRow
  <2>2. QED
    BY <2>1, LeaseAssumption
<1>2. Inv /\ TypeOK' /\ RowsRunOut /\ [Next]_vars => RowsRunOut'
  BY RowsRunOutStep
<1>3. Inv /\ [Next]_vars =>
        [\A r \in Resource :
           Orphan(r) => \/ table'[r] = table[r]
                        \/ ~Live(r) /\ table'[r].token # table[r].token]_vars
  BY OrphanStep
<1>4. QED
  BY <1>1, <1>2, <1>3, LeasesInvariant, LeasesTypeCorrect, PTL
     DEF Spec, OrphansAreLeftAlone
=============================================================================
