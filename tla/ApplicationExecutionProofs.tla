---------------------- MODULE ApplicationExecutionProofs ----------------------
(***************************************************************************)
(* Proofs about ApplicationExecution, for any number of calls, Reviews and *)
(* bundles, any policy, and any life of permits.                           *)
(*                                                                         *)
(* The argument follows the records.  ChainInv leads from the receipt of   *)
(* Gate A over the execution and the decision to the permit a call holds;  *)
(* each link is written once and stays (RecordsGrow), so what was true     *)
(* when a call passed it is true when another call clicks.  ClickInv adds  *)
(* that a permit is consumed by one call only, before it stakes its claim, *)
(* and for the Review it approves.  RecordInv leads back from the click to *)
(* what is said of it: the engine's answer, the submission record, the     *)
(* result of C6 and the run record; that a call keeps its permit between   *)
(* them follows from the order in which its stages have results.           *)
(*                                                                         *)
(* A lemma about a step distinguishes the call that moves (Moved) from the *)
(* calls that stay as they are (Same).                                     *)
(*                                                                         *)
(* From these follow the step properties, the refinement of the ledger,    *)
(* and what the two mean together: the completed runs of a Plan stand for  *)
(* one submission (OneClaimStands).  The rank of a call falls with every   *)
(* step it takes (EndComesNearer), so a run can only stand still.          *)
(***************************************************************************)
EXTENDS ApplicationExecution, TLAPS

-----------------------------------------------------------------------------
(* What a step changes                                                     *)

\* Only one call moves.
LEMMA OneCallMoves ==
  ASSUME CallsTyped, NEW c \in Call, Begin(c) \/ Step(c) \/ Crash(c)
  PROVE  \A d \in Call \ {c} :
           /\ pc'[d] = pc[d] /\ cmd'[d] = cmd[d] /\ now'[d] = now[d]
           /\ did'[d] = did[d] /\ ref'[d] = ref[d] /\ permit'[d] = permit[d]
           /\ seen'[d] = seen[d] /\ out'[d] = out[d]
<1> USE DEF CallsTyped, Go, Ends, Stop, Report, Pass, carryVars
<1>1. CASE Begin(c)        BY <1>1 DEF Begin
<1>2. CASE Open(c)         BY <1>2 DEF Open
<1>3. CASE C3Look(c)       BY <1>3 DEF C3Look
<1>4. CASE C3Engine(c)     BY <1>4 DEF C3Engine
<1>5. CASE C3Fill(c)       BY <1>5 DEF C3Fill
<1>6. CASE C3Save(c)       BY <1>6 DEF C3Save
<1>7. CASE C4Decide(c)     BY <1>7 DEF C4Decide
<1>8. CASE C5Look(c)       BY <1>8 DEF C5Look
<1>9. CASE C5Issue(c)      BY <1>9 DEF C5Issue
<1>10. CASE C6Look(c)      BY <1>10 DEF C6Look
<1>11. CASE C6Preflight(c) BY <1>11 DEF C6Preflight
<1>12. CASE C6Replay(c)    BY <1>12 DEF C6Replay
<1>13. CASE C6Gate(c)      BY <1>13 DEF C6Gate
<1>14. CASE C6Stake(c)     BY <1>14 DEF C6Stake
<1>15. CASE C6Click(c)     BY <1>15 DEF C6Click
<1>16. CASE C6Result(c)    BY <1>16 DEF C6Result
<1>17. CASE EngineRaises(c) BY <1>17 DEF EngineRaises
<1>18. CASE C6Settle(c)    BY <1>18 DEF C6Settle
<1>19. CASE C6Save(c)      BY <1>19 DEF C6Save
<1>20. CASE End(c)         BY <1>20 DEF End
<1>21. CASE Crash(c)       BY <1>21 DEF Crash
<1>22. QED
  BY <1>1, <1>2, <1>3, <1>4, <1>5, <1>6, <1>7, <1>8, <1>9, <1>10, <1>11,
     <1>12, <1>13, <1>14, <1>15, <1>16, <1>17, <1>18, <1>19, <1>20, <1>21
     DEF Step

\* The steps that store a record, and those that change the ledger.
Writes(c) == C3Save(c) \/ C4Decide(c) \/ C5Issue(c) \/ C6Save(c) \/ End(c)
Books(c) ==
  C3Engine(c) \/ C6Gate(c) \/ C6Stake(c) \/ C6Click(c) \/ C6Result(c)

\* All others leave the records as they are, ...
LEMMA RecordsStay ==
  ASSUME NEW c \in Call, Begin(c) \/ Step(c) \/ Crash(c), ~Writes(c)
  PROVE  UNCHANGED recordVars
<1> USE DEF Writes
<1>1. CASE Begin(c) \/ Open(c) \/ Crash(c) \/ C3Look(c) \/ C3Engine(c)
             \/ C3Fill(c) \/ C5Look(c) \/ C6Look(c) \/ C6Preflight(c)
  BY <1>1 DEF Begin, Open, Crash, C3Look, C3Engine, C3Fill, C5Look, C6Look,
     C6Preflight
<1>2. CASE C6Replay(c) \/ C6Gate(c) \/ C6Stake(c) \/ C6Click(c)
             \/ C6Result(c) \/ EngineRaises(c) \/ C6Settle(c)
  BY <1>2 DEF C6Replay, C6Gate, C6Stake, C6Click, C6Result, EngineRaises,
     C6Settle
<1>3. QED
  BY <1>1, <1>2 DEF Step

\* ... and the ledger.
LEMMA LedgerStays ==
  ASSUME NEW c \in Call, Begin(c) \/ Step(c) \/ Crash(c), ~Books(c)
  PROVE  UNCHANGED <<envVars, ledgerVars>>
<1> USE DEF Books
<1>1. CASE Begin(c) \/ Open(c) \/ Crash(c) \/ C3Look(c) \/ C3Fill(c)
             \/ C3Save(c) \/ C4Decide(c) \/ C5Look(c) \/ C5Issue(c)
  BY <1>1 DEF Begin, Open, Crash, C3Look, C3Fill, C3Save, C4Decide, C5Look,
     C5Issue
<1>2. CASE C6Look(c) \/ C6Preflight(c) \/ C6Replay(c) \/ EngineRaises(c)
             \/ C6Settle(c) \/ C6Save(c) \/ End(c)
  BY <1>2 DEF C6Look, C6Preflight, C6Replay, EngineRaises, C6Settle, C6Save,
     End
<1>3. QED
  BY <1>1, <1>2 DEF Step

\* The clock, a new bundle and a human leave calls and records alone.
LEMMA WorldStays ==
  ASSUME UNCHANGED vars \/ Tick \/ Assemble \/ Reconcile
  PROVE  /\ UNCHANGED <<recordVars, pc, cmd, now, did, carryVars>>
         /\ UNCHANGED <<gateA, consumed, staked, pressed>>
         /\ confirmed \subseteq confirmed'
BY DEF vars, Tick, Assemble, Reconcile, ledgerVars, claimVars,
   Ledger!Withdraw, Ledger!Confirm

-----------------------------------------------------------------------------
(* Types                                                                   *)

\* A stage's result and the way on are well typed.
LEMMA EndsTyped ==
  ASSUME CallsTyped, NEW c \in Call, NEW stage \in Stage,
         NEW s \in StageStatus, NEW to \in PC, Ends(c, stage, s, to)
  PROVE  did' \in [Call -> Results] /\ pc' \in [Call -> PC]
<1>1. [did[c] EXCEPT ![stage] = s] \in Results
  BY DEF CallsTyped, Results
<1>2. QED
  BY <1>1 DEF CallsTyped, Ends, Go

\* Where a call is, and the results of its stages.
LEMMA ControlTypedStep ==
  ASSUME TypeOK, NEW c \in Call, Begin(c) \/ Step(c) \/ Crash(c)
  PROVE  did' \in [Call -> Results] /\ pc' \in [Call -> PC]
<1>1. CallsTyped /\ pc \in [Call -> PC] /\ did \in [Call -> Results]
  BY DEF TypeOK, CallsTyped
<1>2. ASSUME NEW to \in PC, Go(c, to), UNCHANGED did
      PROVE  did' \in [Call -> Results] /\ pc' \in [Call -> PC]
  BY <1>1, <1>2 DEF Go
<1>3. ASSUME NEW stage \in Stage, NEW s \in StageStatus, Stop(c, stage, s)
      PROVE  did' \in [Call -> Results] /\ pc' \in [Call -> PC]
  BY <1>1, <1>3, EndsTyped DEF Stop, PC
<1>a. ASSUME NEW stage \in Stage, NEW s \in StageStatus, NEW to \in PC,
             Ends(c, stage, s, to)
      PROVE  did' \in [Call -> Results] /\ pc' \in [Call -> PC]
  BY <1>1, <1>a, EndsTyped
<1> USE DEF PC, Engine, StageStatus, Deferral, Failure, Success, Stage
<1>4. CASE Begin(c) \/ Open(c) \/ Crash(c) \/ End(c)
  BY <1>2, <1>4 DEF Begin, Open, Crash, End
<1>5. CASE C3Look(c)
  <2>1. \/ \E s \in {"GATE_A_REQUIRED", "INPUT_REQUIRED"} : Stop(c, "C3", s)
        \/ Go(c, "c3engine") /\ UNCHANGED did
        \/ Ends(c, "C3", "UNCHANGED", "c4")
    BY <1>5 DEF C3Look
  <2>2. QED
    BY <1>2, <1>3, <1>a, <2>1
<1>6. CASE C3Engine(c)
  BY <1>2, <1>3, <1>6 DEF C3Engine
<1>7. CASE C3Fill(c)
  BY <1>2, <1>3, <1>7 DEF C3Fill
<1>8. CASE C3Save(c)
  <2>1. \/ \E s \in {"INPUT_REQUIRED", "INTEGRITY", "PERSISTENCE"} :
             Stop(c, "C3", s)
        \/ \E s \in Success : Ends(c, "C3", s, "c4")
    BY <1>8 DEF C3Save
  <2>2. QED
    BY <1>3, <1>a, <2>1
<1>9. CASE C4Decide(c)
  <2>1. Verdict(c) \in StageStatus \cup {"AUTHORIZED"}
    BY DEF Verdict
  <2>2. CASE Stop(c, "C4", "INTEGRITY") \/ Stop(c, "C4", "PERSISTENCE")
    BY <1>3, <2>2
  <2>3. ASSUME NEW s \in Success,
               IF Verdict(c) = "AUTHORIZED" THEN Ends(c, "C4", s, "c5")
               ELSE Stop(c, "C4", Verdict(c))
        PROVE  did' \in [Call -> Results] /\ pc' \in [Call -> PC]
    BY <1>3, <1>a, <2>1, <2>3
  <2>4. QED
    BY <1>9, <2>2, <2>3 DEF C4Decide
<1>10. CASE C5Look(c) \/ C5Issue(c)
  BY <1>2, <1>3, <1>10, <1>a DEF C5Look, C5Issue
<1>11. CASE C6Look(c)
  BY <1>2, <1>3, <1>11 DEF C6Look
<1>12. CASE C6Preflight(c) \/ C6Replay(c) \/ C6Gate(c) \/ C6Stake(c)
  BY <1>2, <1>12 DEF C6Preflight, C6Replay, C6Gate, C6Stake, Report, Pass
<1>13. CASE C6Click(c) \/ C6Result(c) \/ EngineRaises(c)
  BY <1>2, <1>13 DEF C6Click, C6Result, EngineRaises, Report, Pass
<1>14. CASE C6Settle(c)
  BY <1>2, <1>3, <1>14 DEF C6Settle
<1>15. CASE C6Save(c)
  BY <1>3, <1>15 DEF C6Save, Answer
<1>16. QED
  BY <1>4, <1>5, <1>6, <1>7, <1>8, <1>9, <1>10, <1>11, <1>12, <1>13, <1>14,
     <1>15 DEF Step

\* What a call was asked and what it carries.
LEMMA CarryTypedStep ==
  ASSUME TypeOK, ChainInv, NEW c \in Call, Begin(c) \/ Step(c) \/ Crash(c)
  PROVE  /\ cmd' \in [Call -> Command]
         /\ now' \in [Call -> 0..MaxTime]
         /\ ref' \in [Call -> Call \cup {None}]
         /\ permit' \in [Call -> Call \cup {None}]
         /\ seen' \in [Call -> Review \cup {None}]
         /\ out' \in [Call -> Outcome]
<1> USE DEF TypeOK, CallsTyped, Report, Pass, carryVars, Outcome
<1>1. CASE Begin(c)
  BY <1>1, ExecutionAssumption DEF Begin, Command, LedgerTyped
<1>2. CASE Open(c) \/ Crash(c) \/ End(c)
  BY <1>2 DEF Open, Crash, End
<1>3. CASE C3Look(c)
  BY <1>3 DEF C3Look, LedgerTyped, Command
<1>4. CASE C3Engine(c)
  BY <1>4 DEF C3Engine
<1>5. CASE C3Fill(c)
  BY <1>5 DEF C3Fill
<1>6. CASE C3Save(c)
  BY <1>6 DEF C3Save, LedgerTyped, Command
<1>7. CASE C4Decide(c) \/ C6Look(c) \/ C6Settle(c) \/ C6Save(c)
  BY <1>7 DEF C4Decide, C6Look, C6Settle, C6Save
<1>8. CASE C5Look(c) \/ C5Issue(c)
  BY <1>8 DEF C5Look, C5Issue, PermitsFor
<1>9. CASE C6Preflight(c) \/ C6Gate(c) \/ C6Stake(c)
  BY <1>9 DEF C6Preflight, C6Gate, C6Stake
<1>10. CASE C6Replay(c)
  BY <1>10 DEF C6Replay
<1>11. CASE C6Click(c) \/ C6Result(c) \/ EngineRaises(c)
  BY <1>11 DEF C6Click, C6Result, EngineRaises
<1>12. QED
  BY <1>1, <1>2, <1>3, <1>4, <1>5, <1>6, <1>7, <1>8, <1>9, <1>10, <1>11
     DEF Step

\* The ledger and the clock.
LEMMA LedgerTypedStep ==
  ASSUME TypeOK, ChainInv, [Next]_vars
  PROVE  LedgerTyped'
<1> USE DEF TypeOK, LedgerTyped, ledgerVars, claimVars, envVars
<1>1. CASE UNCHANGED vars
  BY <1>1 DEF vars
<1>2. CASE Tick \/ Assemble
  BY <1>2, ExecutionAssumption DEF Tick, Assemble
<1>3. CASE Reconcile
  BY <1>3 DEF Reconcile, Ledger!Withdraw, Ledger!Confirm
<1>4. ASSUME NEW c \in Call, C3Engine(c)
      PROVE  LedgerTyped'
  BY <1>4 DEF C3Engine
<1>5. ASSUME NEW c \in Call, C6Gate(c)
      PROVE  LedgerTyped'
  <2>1. permit[c] \in Call
    BY <1>5 DEF C6Gate, CallsTyped, ChainInv, PermitsAreBound, AtC6, Engine
  <2>2. QED
    BY <1>5, <2>1 DEF C6Gate
<1>6. ASSUME NEW c \in Call, C6Stake(c) \/ C6Click(c) \/ C6Result(c)
      PROVE  LedgerTyped'
  BY <1>6 DEF C6Stake, C6Click, C6Result, Ledger!Stake, Ledger!Press,
     Ledger!Confirm
<1>7. ASSUME NEW c \in Call,
             Begin(c) \/ Step(c) \/ Crash(c), ~Books(c)
      PROVE  LedgerTyped'
  BY <1>7, LedgerStays
<1>8. QED
  BY <1>1, <1>2, <1>3, <1>4, <1>5, <1>6, <1>7 DEF Next, Books

\* The records.
LEMMA RecordsTypedStep ==
  ASSUME TypeOK, ChainInv, [Next]_vars
  PROVE  RecordsTyped'
<1> USE DEF RecordsTyped, recordVars
<1>1. CASE UNCHANGED vars
  BY <1>1 DEF vars, TypeOK
<1>2. CASE Tick \/ Assemble \/ Reconcile
  BY <1>2 DEF Tick, Assemble, Reconcile, TypeOK
<1>3. ASSUME NEW c \in Call, C3Save(c)
      PROVE  RecordsTyped'
  <2>1. [asm |-> cmd[c].asm, review |-> seen[c], at |-> now[c]] \in Execution
    BY ExecutionAssumption DEF TypeOK, CallsTyped, Execution, Command
  <2>2. QED
    BY <1>3, <2>1 DEF C3Save, TypeOK
<1>4. ASSUME NEW c \in Call, C4Decide(c)
      PROVE  RecordsTyped'
  <2>1. ref[c] \in Call
    BY <1>4 DEF C4Decide, ChainInv, FormsAreFilled, TypeOK, CallsTyped
  <2>2. Verdict(c) \in Verdicts
    BY DEF Verdict, Verdicts
  <2>3. [exec |-> ref[c], explicit |-> cmd[c].explicit,
         verdict |-> Verdict(c), at |-> now[c]] \in Decision
    BY <2>1, <2>2, ExecutionAssumption
       DEF TypeOK, CallsTyped, Decision, Command
  <2>4. QED
    BY <1>4, <2>3 DEF C4Decide, TypeOK
<1>5. ASSUME NEW c \in Call, C5Issue(c)
      PROVE  RecordsTyped'
  <2>1. ref[c] \in Call
    BY <1>5 DEF C5Issue, ChainInv, FormsAreFilled, TypeOK, CallsTyped
  <2>2. [exec |-> ref[c], explicit |-> cmd[c].explicit, at |-> now[c]]
          \in Permit
    BY <2>1, ExecutionAssumption DEF TypeOK, CallsTyped, Permit, Command
  <2>3. QED
    BY <1>5, <2>2 DEF C5Issue, TypeOK
<1>6. ASSUME NEW c \in Call, C6Save(c)
      PROVE  RecordsTyped'
  <2>1. SubmissionOf(c) \in Submission
    BY ExecutionAssumption
       DEF TypeOK, CallsTyped, SubmissionOf, Submission, Outcome
  <2>2. QED
    BY <1>6, <2>1 DEF C6Save, TypeOK
<1>7. ASSUME NEW c \in Call, End(c)
      PROVE  RecordsTyped'
  <2>1. RunOf(c) \in Run
    BY ExecutionAssumption DEF TypeOK, CallsTyped, RunOf, Run
  <2>2. QED
    BY <1>7, <2>1 DEF End, TypeOK
<1>8. ASSUME NEW c \in Call, ~Writes(c),
             Begin(c) \/ Step(c) \/ Crash(c)
      PROVE  RecordsTyped'
  BY <1>8, RecordsStay DEF TypeOK
<1>9. QED
  BY <1>1, <1>2, <1>3, <1>4, <1>5, <1>6, <1>7, <1>8 DEF Next, Writes

-----------------------------------------------------------------------------
(* How calls move                                                          *)

\* A step is taken where the call is.
LEMMA StepAt ==
  ASSUME CallsTyped, NEW c \in Call, Step(c)
  PROVE  /\ pc[c] = "queued" => Open(c)
         /\ pc[c] = "c3" => C3Look(c)
         /\ pc[c] = "c3engine" => C3Engine(c)
         /\ pc[c] = "c3review" => C3Fill(c)
         /\ pc[c] = "c3save" => C3Save(c)
         /\ pc[c] = "c4" => C4Decide(c)
         /\ pc[c] = "c5" => C5Look(c)
         /\ pc[c] = "c5issue" => C5Issue(c)
         /\ pc[c] = "c6" => C6Look(c)
         /\ pc[c] = "c6save" => C6Save(c)
         /\ pc[c] = "end" => End(c)
         /\ pc[c] \notin {"idle", "done", "crashed"}
BY DEF Step, Open, C3Look, C3Engine, C3Fill, C3Save, C4Decide, C5Look,
   C5Issue, C6Look, C6Preflight, C6Replay, C6Gate, C6Stake, C6Click, C6Result,
   EngineRaises, C6Settle, C6Save, End, Engine

\* Where a step leads to, and when a call carries something else than before.
LEMMA Moves ==
  ASSUME CallsTyped, NEW c \in Call, Begin(c) \/ Step(c) \/ Crash(c)
  PROVE  /\ pc'[c] # "idle"
         /\ pc'[c] = "queued" => pc[c] = "idle"
         /\ pc'[c] = "c3" => pc[c] = "queued"
         /\ pc'[c] = "c3engine" => pc[c] = "c3"
         /\ pc'[c] = "c3review" => pc[c] = "c3engine"
         /\ pc'[c] = "c3save" => pc[c] = "c3review"
         /\ pc'[c] = "c4" => pc[c] \in {"c3", "c3save"}
         /\ pc'[c] = "c5" => pc[c] = "c4"
         /\ pc'[c] = "c5issue" => pc[c] = "c5"
         /\ pc'[c] = "c6" => pc[c] \in {"c5", "c5issue"}
         /\ AtC6(c)' => AtC6(c) \/ pc'[c] = "c6"
         /\ AtC6(c) => AtC6(c)' \/ pc'[c] \in {"end", "crashed"}
         /\ pc'[c] = "end" \/ AtC6(c)' => pc[c] # "idle"
<1> USE DEF CallsTyped, Go, Ends, Stop, Report, Pass, AtC6, Engine
<1>1. CASE Begin(c) \/ Open(c) \/ Crash(c) \/ End(c)
  BY <1>1 DEF Begin, Open, Crash, End
<1>2. CASE C3Look(c) \/ C3Engine(c) \/ C3Fill(c)
  BY <1>2 DEF C3Look, C3Engine, C3Fill
<1>3. CASE C3Save(c) \/ C4Decide(c)
  BY <1>3 DEF C3Save, C4Decide
<1>4. CASE C5Look(c) \/ C5Issue(c) \/ C6Look(c)
  BY <1>4 DEF C5Look, C5Issue, C6Look
<1>5. CASE C6Preflight(c) \/ C6Replay(c) \/ C6Gate(c) \/ C6Stake(c)
  BY <1>5 DEF C6Preflight, C6Replay, C6Gate, C6Stake
<1>6. CASE C6Click(c) \/ C6Result(c) \/ EngineRaises(c)
  BY <1>6 DEF C6Click, C6Result, EngineRaises
<1>7. CASE C6Settle(c) \/ C6Save(c)
  BY <1>7 DEF C6Settle, C6Save
<1>8. QED
  BY <1>1, <1>2, <1>3, <1>4, <1>5, <1>6, <1>7 DEF Step

\* When a call carries something else than before.
LEMMA Carries ==
  ASSUME CallsTyped, NEW c \in Call, Begin(c) \/ Step(c) \/ Crash(c)
  PROVE  /\ pc[c] # "idle" => cmd'[c] = cmd[c] /\ now'[c] = now[c]
         /\ pc[c] \notin {"c3", "c3save"} => ref'[c] = ref[c]
         /\ pc[c] \notin {"c5", "c5issue"} => permit'[c] = permit[c]
         /\ pc[c] \notin {"c3review", "c6replay"} => seen'[c] = seen[c]
         /\ pc[c] \notin Engine \cup {"c6settle"} => out'[c] = out[c]
<1> USE DEF CallsTyped, carryVars, Report, Pass, Engine
<1>1. CASE Begin(c) \/ Open(c) \/ Crash(c) \/ End(c)
  BY <1>1 DEF Begin, Open, Crash, End
<1>2. CASE C3Look(c) \/ C3Engine(c) \/ C3Fill(c)
  BY <1>2 DEF C3Look, C3Engine, C3Fill
<1>3. CASE C3Save(c) \/ C4Decide(c)
  BY <1>3 DEF C3Save, C4Decide
<1>4. CASE C5Look(c) \/ C5Issue(c) \/ C6Look(c)
  BY <1>4 DEF C5Look, C5Issue, C6Look
<1>5. CASE C6Preflight(c) \/ C6Replay(c) \/ C6Gate(c) \/ C6Stake(c)
  BY <1>5 DEF C6Preflight, C6Replay, C6Gate, C6Stake
<1>6. CASE C6Click(c) \/ C6Result(c) \/ EngineRaises(c)
  BY <1>6 DEF C6Click, C6Result, EngineRaises
<1>7. CASE C6Settle(c) \/ C6Save(c)
  BY <1>7 DEF C6Settle, C6Save
<1>8. QED
  BY <1>1, <1>2, <1>3, <1>4, <1>5, <1>6, <1>7 DEF Step

(* What was recorded stays.                                                *)
Grown ==
  /\ \A g \in Call : executions[g] # None => executions'[g] = executions[g]
  /\ \A p \in Call : permits[p] # None => permits'[p] = permits[p]
  /\ \A p \in Call : submissions[p] # None => submissions'[p] = submissions[p]
  /\ decisions \subseteq decisions' /\ runs \subseteq runs'

(* What the ledger has is there for good.                                  *)
Booked ==
  /\ \A a \in 1..MaxAssembly : gateA[a] # None => gateA'[a] # None
  /\ consumed \subseteq consumed' /\ staked \subseteq staked'
  /\ pressed \subseteq pressed' /\ confirmed \subseteq confirmed'

\* No step takes a record away or changes it.
LEMMA RecordsGrow ==
  ASSUME TypeOK, ChainInv, [Next]_vars
  PROVE  Grown
<1> USE DEF Grown, recordVars
<1>1. CASE UNCHANGED vars \/ Tick \/ Assemble \/ Reconcile
  BY <1>1, WorldStays
<1>2. ASSUME NEW c \in Call, C3Save(c)
      PROVE  Grown
  BY <1>2 DEF C3Save, TypeOK, RecordsTyped
<1>3. ASSUME NEW c \in Call, C4Decide(c)
      PROVE  Grown
  BY <1>3 DEF C4Decide
<1>4. ASSUME NEW c \in Call, C5Issue(c)
      PROVE  Grown
  <2>1. permits[c] = None
    BY <1>4 DEF C5Issue, ChainInv, PermitsAreAllowed, AtC6, Engine
  <2>2. QED
    BY <1>4, <2>1 DEF C5Issue, TypeOK, RecordsTyped
<1>5. ASSUME NEW c \in Call, C6Save(c)
      PROVE  Grown
  BY <1>5 DEF C6Save, TypeOK, RecordsTyped
<1>6. ASSUME NEW c \in Call, End(c)
      PROVE  Grown
  BY <1>6 DEF End
<1>7. ASSUME NEW c \in Call, Begin(c) \/ Step(c) \/ Crash(c), ~Writes(c)
      PROVE  Grown
  BY <1>7, RecordsStay
<1>8. QED
  BY <1>1, <1>2, <1>3, <1>4, <1>5, <1>6, <1>7 DEF Next, Writes

\* No step takes anything back from the ledger but a claim that stands.
LEMMA LedgerGrows ==
  ASSUME TypeOK, [Next]_vars
  PROVE  Booked
<1> USE DEF Booked, ledgerVars, claimVars
<1>1. CASE UNCHANGED vars \/ Tick \/ Assemble \/ Reconcile
  BY <1>1, WorldStays
<1>2. ASSUME NEW c \in Call, C3Engine(c)
      PROVE  Booked
  BY <1>2, ExecutionAssumption DEF C3Engine, TypeOK, LedgerTyped
<1>3. ASSUME NEW c \in Call, C6Gate(c)
      PROVE  Booked
  BY <1>3 DEF C6Gate
<1>4. ASSUME NEW c \in Call, C6Stake(c) \/ C6Click(c) \/ C6Result(c)
      PROVE  Booked
  BY <1>4 DEF C6Stake, C6Click, C6Result, Ledger!Stake, Ledger!Press,
     Ledger!Confirm
<1>5. ASSUME NEW c \in Call, Begin(c) \/ Step(c) \/ Crash(c), ~Books(c)
      PROVE  Booked
  BY <1>5, LedgerStays
<1>6. QED
  BY <1>1, <1>2, <1>3, <1>4, <1>5 DEF Next, Books

\* A call stays as it is or moves.
Same(c) ==
  /\ pc'[c] = pc[c] /\ cmd'[c] = cmd[c] /\ now'[c] = now[c]
  /\ did'[c] = did[c] /\ ref'[c] = ref[c] /\ permit'[c] = permit[c]
  /\ seen'[c] = seen[c] /\ out'[c] = out[c]
Moved(c) == Begin(c) \/ Step(c) \/ Crash(c)

\* After a call's step every call has stayed, or it is the one that moved.
LEMMA CallStaysOrMoves ==
  ASSUME TypeOK, [Next]_vars, NEW c \in Call
  PROVE  Same(c) \/ Moved(c)
<1>1. CASE UNCHANGED vars \/ Tick \/ Assemble \/ Reconcile
  BY <1>1, WorldStays DEF Same, carryVars
<1>2. ASSUME NEW d \in Call, Begin(d) \/ Step(d) \/ Crash(d)
      PROVE  Same(c) \/ Moved(c)
  BY <1>2, OneCallMoves DEF TypeOK, Same, Moved
<1>3. QED
  BY <1>1, <1>2 DEF Next

\* Which step changes which part of the ledger and the records.
LEMMA WhoWrites ==
  ASSUME [Next]_vars
  PROVE  /\ gateA' # gateA => \E c \in Call : C3Engine(c)
         /\ executions' # executions => \E c \in Call : C3Save(c)
         /\ decisions' # decisions => \E c \in Call : C4Decide(c)
         /\ permits' # permits => \E c \in Call : C5Issue(c)
         /\ submissions' # submissions => \E c \in Call : C6Save(c)
         /\ runs' # runs => \E c \in Call : End(c)
         /\ consumed' # consumed => \E c \in Call : C6Gate(c)
         /\ staked' # staked => \E c \in Call : C6Stake(c)
         /\ pressed' # pressed => \E c \in Call : C6Click(c)
<1>1. CASE UNCHANGED vars \/ Tick \/ Assemble \/ Reconcile
  BY <1>1, WorldStays DEF recordVars
<1>2. ASSUME NEW c \in Call, Moved(c), ~Writes(c)
      PROVE  UNCHANGED <<executions, decisions, permits, submissions, runs>>
  BY <1>2, RecordsStay DEF recordVars, Moved
<1>3. ASSUME NEW c \in Call, Moved(c), ~Books(c)
      PROVE  UNCHANGED <<gateA, consumed, staked, pressed>>
  BY <1>3, LedgerStays DEF ledgerVars, claimVars, Moved
<1>4. ASSUME NEW c \in Call, Writes(c)
      PROVE  /\ C3Save(c) \/ UNCHANGED executions
             /\ C4Decide(c) \/ UNCHANGED decisions
             /\ C5Issue(c) \/ UNCHANGED permits
             /\ C6Save(c) \/ UNCHANGED submissions
             /\ End(c) \/ UNCHANGED runs
  BY <1>4 DEF Writes, C3Save, C4Decide, C5Issue, C6Save, End
<1>5. ASSUME NEW c \in Call, Books(c)
      PROVE  /\ C3Engine(c) \/ UNCHANGED gateA
             /\ C6Gate(c) \/ UNCHANGED consumed
             /\ C6Stake(c) \/ UNCHANGED staked
             /\ C6Click(c) \/ UNCHANGED pressed
  BY <1>5 DEF Books, C3Engine, C6Gate, C6Stake, C6Click, C6Result, claimVars,
     Ledger!Stake, Ledger!Press, Ledger!Confirm
<1>6. QED
  BY <1>1, <1>2, <1>3, <1>4, <1>5 DEF Next, Moved

\* A call that has begun goes on with the command it was given.
LEMMA CallsGoOn ==
  ASSUME TypeOK, [Next]_vars, NEW c \in Call, pc[c] # "idle"
  PROVE  pc'[c] # "idle" /\ cmd'[c] = cmd[c]
BY CallStaysOrMoves, Moves, Carries DEF TypeOK, Same, Moved

-----------------------------------------------------------------------------
(* From the Gate A receipt to the permit                                   *)

\* Receipts and the executions under them stay approved.
LEMMA ReceiptsStep ==
  ASSUME TypeOK, ChainInv, [Next]_vars
  PROVE  ReceiptsAreApproved'
<1>1. ASSUME NEW g \in Call, NEW a, Receipt(g, a)
      PROVE  Receipt(g, a)'
  BY <1>1, CallsGoOn DEF Receipt
<1>2. ReceiptsAreApproved /\ Grown /\ Booked
  BY RecordsGrow, LedgerGrows DEF ChainInv
<1>3. ASSUME NEW a \in 1..MaxAssembly, gateA'[a] # None
      PROVE  Receipt(gateA[a], a)'
  <2>1. CASE gateA'[a] = gateA[a]
    <3>1. gateA[a] \in Call /\ Receipt(gateA[a], a)
      BY <1>2, <1>3, <2>1 DEF ReceiptsAreApproved, TypeOK, LedgerTyped
    <3>2. QED
      BY <1>1, <2>1, <3>1 DEF Receipt
  <2>2. ASSUME NEW c \in Call, C3Engine(c), gateA'[a] # gateA[a]
        PROVE  Receipt(gateA[a], a)'
    <3>1. gateA'[a] = c /\ a = cmd[c].asm
      BY <2>2 DEF C3Engine, TypeOK, LedgerTyped
    <3>2. Receipt(c, a)
      BY <1>2, <2>2, <3>1 DEF ReceiptsAreApproved, Receipt, C3Engine
    <3>3. QED
      BY <1>1, <3>1, <3>2 DEF Receipt
  <2>3. QED
    BY <2>1, <2>2, WhoWrites
<1>4. ASSUME NEW g \in Call, executions'[g] # None
      PROVE  Receipt(g, executions[g].asm)'
  <2>1. CASE executions[g] # None
    BY <1>1, <1>2, <2>1 DEF ReceiptsAreApproved, Grown, Receipt
  <2>2. ASSUME NEW c \in Call, C3Save(c), executions'[g] # executions[g]
        PROVE  Receipt(g, executions[g].asm)'
    <3>1. /\ g = gateA[cmd[c].asm] /\ executions'[g].asm = cmd[c].asm
          /\ cmd[c].asm \in 1..MaxAssembly
      BY <2>2 DEF C3Save, TypeOK, RecordsTyped, CallsTyped, Command
    <3>2. Receipt(g, cmd[c].asm)
      BY <1>2, <3>1, ExecutionAssumption DEF ReceiptsAreApproved
    <3>3. QED
      BY <1>1, <3>1, <3>2 DEF Receipt
  <2>3. QED
    BY <1>4, <2>1, <2>2, WhoWrites
<1>5. ASSUME NEW c \in Call
      PROVE  /\ HumanGateA /\ pc'[c] \in {"c3engine", "c3review", "c3save"}
                  => cmd'[c].gateA
             /\ pc'[c] \in {"c3review", "c3save"}
                  => gateA'[cmd'[c].asm] # None
  <2>0. cmd[c].asm \in 1..MaxAssembly
    BY DEF TypeOK, CallsTyped, Command
  <2>1. CASE Same(c)
    BY <1>2, <2>0, <2>1 DEF ReceiptsAreApproved, Same, Booked
  <2>2. CASE Moved(c)
    <3>1. /\ pc'[c] = "c3engine" => pc[c] = "c3"
          /\ pc'[c] = "c3review" => pc[c] = "c3engine"
          /\ pc'[c] = "c3save" => pc[c] = "c3review"
      BY <2>2, Moves DEF TypeOK, Moved
    <3>2. pc[c] # "idle" => cmd'[c] = cmd[c]
      BY <2>2, Carries DEF TypeOK, Moved
    <3>3. pc'[c] = "c3engine" /\ HumanGateA => cmd[c].gateA
      BY <2>2, <3>1, StepAt
         DEF TypeOK, CallsTyped, Moved, Begin, Crash, Go, C3Look, Ends, Stop
    <3>4. pc'[c] = "c3review" => gateA'[cmd[c].asm] # None
      BY <2>0, <2>2, <3>1, StepAt, ExecutionAssumption
         DEF TypeOK, CallsTyped, LedgerTyped, Moved, Begin, Crash, Go,
             C3Engine, Stop, Ends
    <3>5. QED
      BY <1>2, <2>0, <3>1, <3>2, <3>3, <3>4 DEF ReceiptsAreApproved, Booked
  <2>3. QED
    BY <2>1, <2>2, CallStaysOrMoves
<1>6. QED
  <2>1. \A g \in Call : executions'[g] # None =>
          Receipt(g, executions[g].asm)'
    BY <1>4
  <2>2. \A a \in 1..MaxAssembly : gateA'[a] # None => Receipt(gateA[a], a)'
    BY <1>3
  <2>3. QED
    BY <1>5, <2>1, <2>2 DEF ReceiptsAreApproved

\* What a call carries from C3 to C6 stays filled and of its bundle.
LEMMA FormsFilledStep ==
  ASSUME TypeOK, ChainInv, [Next]_vars
  PROVE  FormsAreFilled'
<1>1. FormsAreFilled /\ ReceiptsAreApproved /\ Grown
  BY RecordsGrow DEF ChainInv
<1> DEFINE Filled(c) == /\ ref[c] # None /\ Ready(ref[c])
                        /\ executions[ref[c]].asm = cmd[c].asm
           Past(c) == pc[c] \in {"c4", "c5", "c5issue"} \/ AtC6(c)
<1>2. ASSUME NEW c \in Call, Filled(c), ref'[c] = ref[c], cmd'[c] = cmd[c]
      PROVE  Filled(c)'
  BY <1>1, <1>2 DEF Grown, Ready, TypeOK, CallsTyped
<1>3. ASSUME NEW c \in Call, Past(c)'
      PROVE  Filled(c)'
  <2>1. CASE Same(c)
    BY <1>1, <1>2, <1>3, <2>1 DEF Same, FormsAreFilled, AtC6
  <2>2. CASE Moved(c) /\ pc'[c] # "c4"
    <3>1. Past(c) /\ pc[c] \notin {"c3", "c3save", "idle"}
      BY <1>3, <2>2, Moves DEF TypeOK, Moved, AtC6, Engine
    <3>2. ref'[c] = ref[c] /\ cmd'[c] = cmd[c]
      BY <2>2, <3>1, Carries DEF TypeOK, Moved
    <3>3. QED
      BY <1>1, <1>2, <3>1, <3>2 DEF FormsAreFilled
  <2>3. CASE Moved(c) /\ pc'[c] = "c4"
    <3>0. /\ cmd'[c] = cmd[c] /\ cmd[c].asm \in 1..MaxAssembly
          /\ C3Look(c) \/ C3Save(c)
      BY <2>3, Moves, Carries, StepAt
         DEF TypeOK, CallsTyped, Command, Moved, Begin, Crash, Go
    <3>1. CASE C3Look(c)
      <4>1. /\ ref'[c] = gateA[cmd[c].asm] /\ ref'[c] # None
            /\ Ready(ref'[c]) /\ ref'[c] \in Call
            /\ UNCHANGED executions
        BY <2>3, <3>0, <3>1 DEF C3Look, TypeOK, CallsTyped, LedgerTyped, Go,
           Ends, Stop, recordVars
      <4>2. executions[ref'[c]].asm = cmd[c].asm
        BY <1>1, <3>0, <4>1 DEF ReceiptsAreApproved, Receipt, Ready
      <4>3. QED
        BY <3>0, <4>1, <4>2 DEF Ready
    <3>2. CASE C3Save(c)
      <4>1. ref'[c] = gateA[cmd[c].asm] /\ ref'[c] \in Call
        BY <1>1, <2>3, <3>0, <3>2 DEF C3Save, TypeOK, CallsTyped, LedgerTyped,
           Go, Ends, Stop, ReceiptsAreApproved
      <4>2. /\ executions'[ref'[c]] =
                 [asm |-> cmd[c].asm, review |-> seen[c], at |-> now[c]]
            /\ seen[c] # None
        BY <2>3, <3>2, <4>1 DEF C3Save, TypeOK, CallsTyped, RecordsTyped, Go,
           Ends, Stop
      <4>3. executions'[ref'[c]] # None
        <5>1. executions'[ref'[c]] \in Execution
          BY <4>2, ExecutionAssumption
             DEF Execution, TypeOK, CallsTyped, Command
        <5>2. QED
          BY <5>1, RecordAssumption
      <4>4. executions'[ref'[c]].review # None /\ ref'[c] # None
        BY <4>1, <4>2, ExecutionAssumption
      <4>5. executions'[ref'[c]].asm = cmd'[c].asm
        BY <3>0, <4>2
      <4>6. QED
        BY <4>3, <4>4, <4>5 DEF Ready
    <3>3. QED
      BY <3>0, <3>1, <3>2
  <2>4. QED
    BY <2>1, <2>2, <2>3, CallStaysOrMoves
<1>4. QED
  BY <1>3 DEF FormsAreFilled

\* What a decision allowed stays allowed.
LEMMA AllowedStays ==
  ASSUME decisions \subseteq decisions', NEW e, NEW x, Allowed(e, x)
  PROVE  Allowed(e, x)'
BY DEF Allowed

\* A call past C4 has an authorisation of its execution.
LEMMA FormsAllowedStep ==
  ASSUME TypeOK, ChainInv, [Next]_vars
  PROVE  FormsAreAllowed'
<1>1. FormsAreAllowed /\ Grown
  BY RecordsGrow DEF ChainInv
<1> DEFINE Past(c) == pc[c] \in {"c5", "c5issue"} \/ AtC6(c)
<1>2. ASSUME NEW c \in Call, Allowed(ref[c], cmd[c].explicit),
             ref'[c] = ref[c], cmd'[c] = cmd[c]
      PROVE  Allowed(ref[c], cmd[c].explicit)'
  BY <1>1, <1>2 DEF Allowed, Grown
<1>3. ASSUME NEW c \in Call, Past(c)'
      PROVE  Allowed(ref[c], cmd[c].explicit)'
  <2>1. CASE Same(c)
    BY <1>1, <1>2, <1>3, <2>1 DEF Same, FormsAreAllowed, AtC6
  <2>2. CASE Moved(c)
    <3>1. Past(c) \/ (pc[c] = "c4" /\ pc'[c] = "c5")
      BY <1>3, <2>2, Moves DEF TypeOK, Moved, AtC6, Engine
    <3>2. ref'[c] = ref[c] /\ cmd'[c] = cmd[c]
      BY <2>2, <3>1, Carries DEF TypeOK, Moved, AtC6, Engine
    <3>3. CASE pc[c] = "c4" /\ pc'[c] = "c5"
      <4>1. C4Decide(c)
        BY <2>2, <3>3, StepAt DEF TypeOK, CallsTyped, Moved, Begin, Crash, Go
      <4>2. /\ Verdict(c) = "AUTHORIZED"
            /\ [exec |-> ref[c], explicit |-> cmd[c].explicit,
                verdict |-> Verdict(c), at |-> now[c]] \in decisions'
        BY <3>3, <4>1
           DEF C4Decide, DecisionsFor, TypeOK, CallsTyped, Ends, Stop, Go
      <4>3. HumanGateB => cmd[c].explicit = ref[c]
        BY <4>2 DEF Verdict
      <4>4. QED
        BY <3>2, <4>2, <4>3 DEF Allowed
    <3>4. CASE Past(c)
      BY <1>1, <1>2, <3>2, <3>4 DEF FormsAreAllowed
    <3>5. QED
      BY <3>1, <3>3, <3>4
  <2>3. QED
    BY <2>1, <2>2, CallStaysOrMoves
<1>4. QED
  BY <1>3 DEF FormsAreAllowed

\* Permits rest on a filled form and its authorisation.
LEMMA PermitsAllowedStep ==
  ASSUME TypeOK, ChainInv, [Next]_vars
  PROVE  PermitsAreAllowed'
<1>1. /\ PermitsAreAllowed /\ FormsAreFilled /\ FormsAreAllowed
      /\ Grown
  BY RecordsGrow DEF ChainInv
<1> DEFINE Late(p) == AtC6(p) \/ pc[p] \in {"end", "done", "crashed"}
           Good(k) == Ready(k.exec) /\ Allowed(k.exec, k.explicit)
<1>2. ASSUME NEW p \in Call, Late(p)
      PROVE  Late(p)'
  <2>1. CASE Same(p)
    BY <1>2, <2>1 DEF Same, AtC6
  <2>2. CASE Moved(p)
    <3>1. pc[p] \in {"end", "done", "crashed"} =>
            pc'[p] \in {"done", "crashed"}
      BY <2>2, StepAt DEF TypeOK, CallsTyped, Moved, Begin, Crash, End, Go
    <3>2. QED
      BY <1>2, <2>2, <3>1, Moves DEF TypeOK, Moved
  <2>3. QED
    BY <2>1, <2>2, CallStaysOrMoves
<1>3. ASSUME NEW k \in Permit, Good(k)
      PROVE  Good(k)'
  BY <1>1, <1>3 DEF Permit, Grown, Ready, Allowed
<1>4. ASSUME NEW p \in Call, permits'[p] # None
      PROVE  Late(p)' /\ Ready(permits[p].exec)'
             /\ Allowed(permits[p].exec, permits[p].explicit)'
  <2>1. CASE permits[p] # None
    <3>1. permits'[p] = permits[p] /\ permits[p] \in Permit
      BY <1>1, <2>1 DEF Grown, TypeOK, RecordsTyped
    <3>2. Late(p) /\ Good(permits[p])
      BY <1>1, <2>1 DEF PermitsAreAllowed
    <3>3. QED
      BY <1>2, <1>3, <3>1, <3>2 DEF Ready, Allowed
  <2>2. ASSUME NEW c \in Call, C5Issue(c), permits'[p] # permits[p]
        PROVE  Late(p)' /\ Ready(permits[p].exec)'
               /\ Allowed(permits[p].exec, permits[p].explicit)'
    <3>1. /\ p = c /\ pc'[p] = "c6"
          /\ permits'[p].exec = ref[c]
          /\ permits'[p].explicit = cmd[c].explicit
          /\ UNCHANGED <<executions, decisions>>
      BY <2>2 DEF C5Issue, TypeOK, RecordsTyped, CallsTyped, Ends, Go
    <3>2. Ready(ref[c]) /\ Allowed(ref[c], cmd[c].explicit)
      BY <1>1, <2>2 DEF C5Issue, FormsAreFilled, FormsAreAllowed
    <3>3. QED
      BY <3>1, <3>2 DEF AtC6, Ready, Allowed
  <2>3. QED
    BY <1>4, <2>1, <2>2, WhoWrites
<1>5. QED
  BY <1>4 DEF PermitsAreAllowed

\* What a call at C6, or with a claim, holds is a permit for its own bundle.
LEMMA PermitsBoundStep ==
  ASSUME TypeOK, ChainInv, ClickInv, [Next]_vars
  PROVE  PermitsAreBound'
<1>1. /\ PermitsAreBound /\ PermitsAreAllowed /\ FormsAreFilled
      /\ StakedIsLate /\ Grown
  BY RecordsGrow DEF ChainInv, ClickInv
<1> DEFINE Bound(c) ==
             /\ permit[c] # None /\ permits[permit[c]] # None
             /\ executions[permits[permit[c]].exec].asm = cmd[c].asm
<1>2. ASSUME NEW c \in Call, Bound(c), permit'[c] = permit[c],
             cmd'[c] = cmd[c]
      PROVE  Bound(c)'
  <2>1. permit[c] \in Call /\ permits[permit[c]] \in Permit
    BY <1>2 DEF TypeOK, CallsTyped, RecordsTyped
  <2>2. Ready(permits[permit[c]].exec) /\ permits[permit[c]].exec \in Call
    BY <1>1, <1>2, <2>1 DEF PermitsAreAllowed, Permit
  <2>3. QED
    BY <1>1, <1>2, <2>1, <2>2 DEF Grown, Ready
<1>3. ASSUME NEW c \in Call, AtC6(c)' \/ c \in staked'
      PROVE  Bound(c)'
  <2>1. CASE AtC6(c) \/ c \in staked
    <3>1. /\ pc[c] \notin {"idle", "c5", "c5issue"}
          /\ Bound(c)
      BY <1>1, <2>1 DEF StakedIsLate, AtC6, Engine, PermitsAreBound
    <3>2. permit'[c] = permit[c] /\ cmd'[c] = cmd[c]
      BY <3>1, CallStaysOrMoves, Carries DEF TypeOK, Same, Moved
    <3>3. QED
      BY <1>2, <3>1, <3>2
  <2>2. CASE ~AtC6(c) /\ c \notin staked
    <3>1. c \notin staked'
      <4>1. ASSUME NEW d \in Call, C6Stake(d), c \in staked'
            PROVE  d = c
        BY <2>2, <4>1 DEF C6Stake, Ledger!Stake, claimVars
      <4>2. ~C6Stake(c)
        BY <2>2 DEF C6Stake, AtC6, Engine
      <4>3. QED
        BY <2>2, <4>1, <4>2, WhoWrites
    <3>2. Moved(c) /\ pc'[c] = "c6" /\ pc[c] \in {"c5", "c5issue"}
      BY <1>3, <2>2, <3>1, CallStaysOrMoves, Moves
         DEF TypeOK, Same, Moved, AtC6
    <3>3. C5Look(c) \/ C5Issue(c)
      BY <3>2, StepAt DEF TypeOK, CallsTyped, Moved, Begin, Crash, Go
    <3>4. cmd'[c] = cmd[c] /\ ref'[c] = ref[c]
      BY <3>2, Carries DEF TypeOK, Moved
    <3>5. /\ permit'[c] \in Call /\ permits'[permit'[c]] # None
          /\ permits'[permit'[c]].exec = ref[c]
          /\ UNCHANGED executions
      <4>1. CASE C5Look(c)
        BY <3>2, <4>1 DEF C5Look, PermitsFor, recordVars, TypeOK, CallsTyped,
           Ends, Stop, Go
      <4>2. CASE C5Issue(c)
        <5>1. /\ permit'[c] = c /\ UNCHANGED executions
              /\ permits'[c] = [exec |-> ref[c], explicit |-> cmd[c].explicit,
                                at |-> now[c]]
          BY <3>2, <4>2 DEF C5Issue, TypeOK, CallsTyped, RecordsTyped, Ends,
             Stop, Go
        <5>2. ref[c] \in Call
          BY <1>1, <3>2 DEF FormsAreFilled, TypeOK, CallsTyped
        <5>3. permits'[c] \in Permit
          BY <5>1, <5>2, ExecutionAssumption
             DEF Permit, TypeOK, CallsTyped, Command
        <5>4. QED
          BY <5>1, <5>3, RecordAssumption
      <4>3. QED
        BY <3>3, <4>1, <4>2
    <3>6. executions[ref[c]].asm = cmd[c].asm
      BY <1>1, <3>2 DEF FormsAreFilled
    <3>7. QED
      BY <3>4, <3>5, <3>6, ExecutionAssumption
  <2>3. QED
    BY <2>1, <2>2
<1>4. QED
  BY <1>3 DEF PermitsAreBound

-----------------------------------------------------------------------------
(* Who pays, and who clicks                                                *)

\* The way of a call from its claim to its end.
LEMMA StakedStep ==
  ASSUME TypeOK, ClickInv, [Next]_vars
  PROVE  StakedIsLate'
<1>1. StakedIsLate /\ Booked
  BY LedgerGrows DEF ClickInv
<1>2. pressed' \subseteq staked'
  <2>1. ASSUME NEW c \in Call, C6Click(c)
        PROVE  pressed' \subseteq staked'
    BY <1>1, <2>1 DEF StakedIsLate, C6Click, Ledger!Press, claimVars
  <2>2. QED
    BY <1>1, <2>1, WhoWrites DEF StakedIsLate, Booked
<1> DEFINE Late(p) == p \in {"c6click", "c6result", "c6settle", "c6save",
                             "end", "done", "crashed"}
<1>3. ASSUME NEW c \in Call, Late(pc[c])
      PROVE  Late(pc'[c])
  <2>1. CASE Same(c)
    BY <1>3, <2>1 DEF Same
  <2>2. CASE Begin(c) \/ Crash(c)
    BY <1>3, <2>2 DEF Begin, Crash, Go, TypeOK, CallsTyped
  <2>3. CASE Step(c)
    <3>1. \/ C6Click(c) \/ C6Result(c) \/ EngineRaises(c)
          \/ C6Settle(c) \/ C6Save(c) \/ End(c)
      BY <1>3, <2>3 DEF Step, Open, C3Look, C3Engine, C3Fill, C3Save,
         C4Decide, C5Look, C5Issue, C6Look, C6Preflight, C6Replay, C6Gate,
         C6Stake
    <3>2. CASE C6Click(c) \/ C6Result(c) \/ EngineRaises(c) \/ End(c)
      BY <3>2 DEF C6Click, C6Result, EngineRaises, End, Report, Pass, Go,
         TypeOK, CallsTyped
    <3>3. CASE C6Settle(c)
      BY <3>3 DEF C6Settle, Stop, Ends, Go, TypeOK, CallsTyped
    <3>4. CASE C6Save(c)
      BY <3>4 DEF C6Save, Stop, Ends, Go, TypeOK, CallsTyped
    <3>5. QED
      BY <3>1, <3>2, <3>3, <3>4
  <2>4. QED
    BY <2>1, <2>2, <2>3, CallStaysOrMoves DEF Moved
<1>4. ASSUME NEW c \in staked'
      PROVE  Late(pc'[c])
  <2>1. CASE c \in staked
    BY <1>1, <1>3, <2>1 DEF StakedIsLate, TypeOK, LedgerTyped
  <2>2. ASSUME NEW d \in Call, C6Stake(d), c \notin staked
        PROVE  Late(pc'[c])
    BY <1>4, <2>2 DEF C6Stake, Ledger!Stake, claimVars, Pass, Go, TypeOK,
       CallsTyped
  <2>3. QED
    BY <1>4, <2>1, <2>2, WhoWrites
<1>5. QED
  BY <1>2, <1>4 DEF StakedIsLate

\* Nobody pays before the gate, and payers keep what they pay with.
LEMMA PayersStay ==
  ASSUME TypeOK, ClickInv, [Next]_vars, NEW c \in Call
  PROVE  /\ Pays(c)' => Pays(c) \/ C6Gate(c)
         /\ Pays(c) \/ C6Gate(c) => permit'[c] = permit[c]
                                      /\ seen'[c] = seen[c]
<1>1. ASSUME Pays(c)', ~Pays(c)
      PROVE  C6Gate(c)
  <2>1. c \notin staked'
    <3>1. ASSUME NEW d \in Call, C6Stake(d), c \in staked'
          PROVE  Pays(c)
      BY <3>1 DEF C6Stake, Ledger!Stake, claimVars, Pays
    <3>2. QED
      BY <1>1, <3>1, WhoWrites DEF Pays
  <2>2. pc'[c] = "c6stake" /\ pc[c] # "c6stake"
    BY <1>1, <2>1 DEF Pays
  <2>3. Step(c)
    BY <2>2, CallStaysOrMoves DEF Same, Moved, Begin, Crash, Go, TypeOK,
       CallsTyped
  <2>4. QED
    BY <2>2, <2>3 DEF Step, Open, C3Look, C3Engine, C3Fill, C3Save, C4Decide,
       C5Look, C5Issue, C6Look, C6Preflight, C6Replay, C6Stake, C6Click,
       C6Result, EngineRaises, C6Settle, C6Save, End, Ends, Stop, Report,
       Pass, Go, TypeOK, CallsTyped
<1>2. ASSUME Pays(c) \/ C6Gate(c)
      PROVE  permit'[c] = permit[c] /\ seen'[c] = seen[c]
  <2>1. pc[c] \notin {"c5", "c5issue", "c3review", "c6replay"}
    BY <1>2 DEF Pays, C6Gate, ClickInv, StakedIsLate
  <2>2. QED
    BY <2>1, CallStaysOrMoves, Carries DEF TypeOK, Same, Moved
<1>3. QED
  BY <1>1, <1>2

\* One permit pays for one call, and for the Review it approves.
LEMMA SpentStep ==
  ASSUME TypeOK, ChainInv, ClickInv, [Next]_vars
  PROVE  PermitsAreSpent'
<1>1. /\ PermitsAreSpent /\ StakedIsLate /\ PermitsAreBound
      /\ PermitsAreAllowed /\ Grown /\ Booked
  BY RecordsGrow, LedgerGrows DEF ChainInv, ClickInv
<1>2. ASSUME NEW c \in Call, Pays(c)'
      PROVE  permit'[c] \in consumed'
  <2>1. CASE Pays(c)
    BY <1>1, <2>1, PayersStay DEF PermitsAreSpent, Booked
  <2>2. CASE C6Gate(c) /\ ~Pays(c)
    BY <1>2, <2>2, PayersStay DEF C6Gate, Pays, Report, Pass, Go, TypeOK,
       CallsTyped, claimVars
  <2>3. QED
    BY <1>2, <2>1, <2>2, PayersStay
<1>3. ASSUME NEW c \in Call, NEW d \in Call, Pays(c)', Pays(d)',
             permit'[d] = permit'[c]
      PROVE  d = c
  <2>1. permit'[c] = permit[c] /\ permit'[d] = permit[d]
    BY <1>3, PayersStay
  <2>2. ASSUME NEW x \in Call, Pays(x)', ~Pays(x)
        PROVE  C6Gate(x) /\ permit[x] \notin consumed
    BY <2>2, PayersStay DEF C6Gate, Pays, Report, Pass, Go, TypeOK,
       CallsTyped, claimVars
  <2>3. \A x \in Call : Pays(x) => permit[x] \in consumed
    BY <1>1 DEF PermitsAreSpent
  <2>4. CASE Pays(c) /\ Pays(d)
    BY <1>1, <1>3, <2>1, <2>4 DEF PermitsAreSpent
  <2>5. ASSUME (Pays(c) /\ ~Pays(d)) \/ (~Pays(c) /\ Pays(d))
        PROVE  FALSE
    BY <1>3, <2>1, <2>2, <2>3, <2>5
  <2>6. CASE ~Pays(c) /\ ~Pays(d)
    <3>1. C6Gate(c) /\ C6Gate(d) /\ pc'[c] = "c6stake" /\ pc'[d] = "c6stake"
      BY <1>3, <2>2, <2>6 DEF Pays, C6Gate, claimVars
    <3>2. QED
      BY <3>1 DEF C6Gate, Pass, Report, Go, TypeOK, CallsTyped
  <2>7. QED
    BY <2>4, <2>5, <2>6
<1>4. ASSUME NEW c \in Call, permit[c] # None, permits[permit[c]] # None,
             permit'[c] = permit[c]
      PROVE  Approved(c)' = Approved(c)
  <2>1. permit[c] \in Call /\ permits[permit[c]] \in Permit
    BY <1>4 DEF TypeOK, CallsTyped, RecordsTyped
  <2>2. Ready(permits[permit[c]].exec) /\ permits[permit[c]].exec \in Call
    BY <1>1, <1>4, <2>1 DEF PermitsAreAllowed, Permit
  <2>3. QED
    BY <1>1, <1>4, <2>1, <2>2 DEF Grown, Ready, Approved
<1>5. ASSUME NEW c \in Call, Pays(c)' \/ pc'[c] = "c6gate"
      PROVE  seen'[c] = Approved(c)'
  <2>1. ASSUME Pays(c) \/ pc[c] = "c6gate"
        PROVE  seen'[c] = Approved(c)'
    <3>1. /\ seen[c] = Approved(c)
          /\ permit[c] # None /\ permits[permit[c]] # None
      BY <1>1, <2>1 DEF PermitsAreSpent, PermitsAreBound, Pays, AtC6, Engine
    <3>2. pc[c] \notin {"c5", "c5issue", "c3review", "c6replay"}
      BY <1>1, <2>1 DEF Pays, StakedIsLate
    <3>3. permit'[c] = permit[c] /\ seen'[c] = seen[c]
      BY <3>2, CallStaysOrMoves, Carries DEF TypeOK, Same, Moved
    <3>4. QED
      BY <1>4, <3>1, <3>3
  <2>2. CASE ~Pays(c) /\ pc[c] # "c6gate"
    <3>1. pc'[c] = "c6gate"
      BY <1>5, <2>2, PayersStay DEF C6Gate
    <3>2. Step(c)
      BY <2>2, <3>1, CallStaysOrMoves DEF Same, Moved, Begin, Crash, Go,
         TypeOK, CallsTyped
    <3>3. C6Replay(c)
      BY <2>2, <3>1, <3>2 DEF Step, Open, C3Look, C3Engine, C3Fill, C3Save,
         C4Decide, C5Look, C5Issue, C6Look, C6Preflight, C6Gate, C6Stake,
         C6Click, C6Result, EngineRaises, C6Settle, C6Save, End, Ends, Stop,
         Report, Pass, Go, TypeOK, CallsTyped
    <3>4. seen'[c] = Approved(c)
      BY <3>1, <3>3 DEF C6Replay, Report, Pass, Go, TypeOK, CallsTyped
    <3>5. permit'[c] = permit[c] /\ AtC6(c)
      BY <3>3 DEF C6Replay, AtC6, Engine
    <3>6. permit[c] # None /\ permits[permit[c]] # None
      BY <1>1, <3>5 DEF PermitsAreBound
    <3>7. QED
      BY <1>4, <3>4, <3>5, <3>6
  <2>3. QED
    BY <2>1, <2>2
<1>6. QED
  BY <1>2, <1>3, <1>5 DEF PermitsAreSpent

-----------------------------------------------------------------------------
(* What is said of a click                                                 *)

\* Each stage writes its own result, and the next begins when it succeeded.
LEMMA ResultsMove ==
  ASSUME CallsTyped, NEW c \in Call, Moved(c)
  PROVE  /\ did'[c]["C3"] # did[c]["C3"] =>
              pc[c] \in {"c3", "c3engine", "c3review", "c3save"}
         /\ did'[c]["C4"] # did[c]["C4"] => pc[c] = "c4"
         /\ did'[c]["C5"] # did[c]["C5"] => pc[c] \in {"c5", "c5issue"}
         /\ did'[c]["C6"] # did[c]["C6"] =>
              /\ pc[c] \in {"c6", "c6settle", "c6save"}
              /\ pc'[c] = "end"
         /\ pc'[c] = "c4" => did'[c]["C3"] \in Success
         /\ pc'[c] = "c5" => did'[c]["C4"] \in Success
         /\ pc'[c] = "c6" => did'[c]["C5"] \in Success
<1> USE DEF CallsTyped, Go, Ends, Stop, Results, Stage, Success
<1>1. CASE Begin(c) \/ Open(c) \/ Crash(c) \/ End(c)
  BY <1>1 DEF Begin, Open, Crash, End
<1>2. CASE C3Look(c)
  BY <1>2 DEF C3Look
<1>3. CASE C3Engine(c) \/ C3Fill(c)
  BY <1>3 DEF C3Engine, C3Fill
<1>4. CASE C3Save(c)
  BY <1>4 DEF C3Save
<1>5. CASE C4Decide(c)
  BY <1>5 DEF C4Decide
<1>6. CASE C5Look(c)
  BY <1>6 DEF C5Look
<1>7. CASE C5Issue(c)
  BY <1>7 DEF C5Issue
<1>8. CASE C6Look(c)
  BY <1>8 DEF C6Look
<1>9. CASE C6Preflight(c) \/ C6Replay(c) \/ C6Gate(c) \/ C6Stake(c)
             \/ C6Click(c) \/ C6Result(c) \/ EngineRaises(c)
  BY <1>9 DEF C6Preflight, C6Replay, C6Gate, C6Stake, C6Click, C6Result,
     EngineRaises, Report, Pass
<1>10. CASE C6Settle(c)
  BY <1>10 DEF C6Settle
<1>11. CASE C6Save(c)
  BY <1>11 DEF C6Save
<1>12. QED
  BY <1>1, <1>2, <1>3, <1>4, <1>5, <1>6, <1>7, <1>8, <1>9, <1>10, <1>11
     DEF Moved, Step

\* A claim is staked at C6 and by its own call.
LEMMA StakedAtC6 ==
  ASSUME [Next]_vars, NEW c \in staked', c \notin staked
  PROVE  C6Stake(c)
<1>1. ASSUME NEW d \in Call, C6Stake(d)
      PROVE  d = c
  BY <1>1 DEF C6Stake, Ledger!Stake, claimVars
<1>2. QED
  BY <1>1, WhoWrites

\* The results of a call stay in the order of the stages.
LEMMA TrailStep ==
  ASSUME TypeOK, ClickInv, TrailIsOrdered, [Next]_vars
  PROVE  TrailIsOrdered'
<1>1. ASSUME NEW c \in Call, Same(c)
      PROVE  /\ c \in staked' => c \in staked
             /\ AtC6(c)' = AtC6(c)
  <2>1. ~C6Stake(c)
    BY <1>1 DEF Same, C6Stake, Report, Pass, Go, TypeOK, CallsTyped
  <2>2. QED
    BY <1>1, <2>1, StakedAtC6 DEF Same, AtC6
<1>2. ASSUME NEW c \in Call, Moved(c)
      PROVE  /\ c \in staked' => c \in staked \/ AtC6(c)
             /\ c \in staked => pc[c] \notin {"c5", "c5issue"}
             /\ AtC6(c) => pc[c] \notin {"c5", "c5issue"}
  BY <1>2, StakedAtC6
     DEF ClickInv, StakedIsLate, C6Stake, AtC6, Engine
<1>3. ASSUME NEW c \in Call, Moved(c)
      PROVE  /\ did'[c]["C6"] # "NOT_RUN" => did'[c]["C5"] \in Success
             /\ did'[c]["C5"] # "NOT_RUN" => did'[c]["C4"] \in Success
             /\ did'[c]["C4"] # "NOT_RUN" => did'[c]["C3"] \in Success
  <2>1. did'[c]["C6"] # did[c]["C6"] => AtC6(c)
    BY <1>3, ResultsMove DEF TypeOK, AtC6
  <2>2. QED
    BY <1>3, <2>1, ResultsMove
       DEF TypeOK, TrailIsOrdered, NotRun, Stage, AtC6, Engine
<1>4. ASSUME NEW c \in Call, Moved(c)
      PROVE  /\ pc'[c] \in {"idle", "queued", "c3", "c3engine", "c3review",
                            "c3save"}
                  => NotRun(c, Stage)'
             /\ pc'[c] = "c4" => NotRun(c, {"C4", "C5", "C6"})'
             /\ pc'[c] \in {"c5", "c5issue"} => NotRun(c, {"C5", "C6"})'
             /\ AtC6(c)' => NotRun(c, {"C6"})'
  <2>1. did'[c] \in Results /\ did[c] \in Results
    BY <1>3, ControlTypedStep, <1>4 DEF Moved, TypeOK, CallsTyped
  <2>2. CASE pc'[c] \in {"idle", "queued", "c3"}
    <3>1. pc[c] \in {"idle", "queued"} /\ ~AtC6(c)
      BY <1>4, <2>2, Moves DEF TypeOK, Moved, AtC6, Engine
    <3>2. NotRun(c, Stage) /\ \A s \in Stage : did'[c][s] = did[c][s]
      BY <1>4, <3>1, ResultsMove DEF TypeOK, TrailIsOrdered, Stage
    <3>3. QED
      BY <2>2, <3>1, <3>2, Moves, <1>4
         DEF NotRun, AtC6, Engine, TypeOK, Moved
  <2>3. CASE pc'[c] = "c3engine"
    <3>1. pc[c] = "c3" /\ UNCHANGED did
      BY <1>4, <2>3, Moves, StepAt DEF TypeOK, CallsTyped, Moved, Begin,
         Crash, Go, C3Look, Ends, Stop
    <3>2. QED
      BY <2>3, <3>1 DEF TrailIsOrdered, NotRun, AtC6, Engine
  <2>4. CASE pc'[c] \in {"c3review", "c3save"}
    <3>1. pc[c] \in {"c3engine", "c3review"} /\ UNCHANGED did
      BY <1>4, <2>4, Moves, StepAt DEF TypeOK, CallsTyped, Moved, Begin,
         Crash, Go, C3Engine, C3Fill, Ends, Stop
    <3>2. QED
      BY <2>4, <3>1 DEF TrailIsOrdered, NotRun, AtC6, Engine
  <2>5. CASE pc'[c] = "c4"
    BY <1>4, <2>5, Moves, ResultsMove
       DEF TypeOK, Moved, TrailIsOrdered, NotRun, Stage, AtC6, Engine
  <2>6. CASE pc'[c] = "c5"
    BY <1>4, <2>6, Moves, ResultsMove
       DEF TypeOK, Moved, TrailIsOrdered, NotRun, Stage, AtC6, Engine
  <2>7. CASE pc'[c] = "c5issue"
    <3>1. pc[c] = "c5" /\ UNCHANGED did
      BY <1>4, <2>7, Moves, StepAt DEF TypeOK, CallsTyped, Moved, Begin,
         Crash, Go, C5Look, Ends, Stop
    <3>2. QED
      BY <2>7, <3>1 DEF TrailIsOrdered, NotRun, AtC6, Engine
  <2>8. CASE AtC6(c)'
    <3>1. AtC6(c) \/ pc[c] \in {"c5", "c5issue"}
      BY <1>4, <2>8, Moves DEF TypeOK, Moved
    <3>2. did'[c]["C6"] = did[c]["C6"]
      BY <1>4, <2>8, ResultsMove DEF TypeOK, AtC6, Engine
    <3>3. QED
      BY <2>8, <3>1, <3>2 DEF TrailIsOrdered, NotRun, AtC6, Engine
  <2>9. QED
    BY <2>2, <2>3, <2>4, <2>5, <2>6, <2>7, <2>8
<1>5. ASSUME NEW c \in Call, Moved(c)
      PROVE  /\ AtC6(c)' \/ c \in staked' => did'[c]["C5"] \in Success
             /\ pc'[c] \in {"c5", "c5issue"} => did'[c]["C4"] \in Success
             /\ pc'[c] = "c4" => did'[c]["C3"] \in Success
  <2>1. pc'[c] = "c5issue" => did'[c]["C4"] \in Success
    BY <1>5, Moves, ResultsMove DEF TypeOK, Moved, TrailIsOrdered
  <2>2. AtC6(c) \/ c \in staked => did'[c]["C5"] \in Success
    BY <1>2, <1>5, ResultsMove DEF TypeOK, TrailIsOrdered
  <2>3. AtC6(c)' => AtC6(c) \/ pc'[c] = "c6"
    BY <1>5, Moves DEF TypeOK, Moved
  <2>4. QED
    BY <1>2, <1>5, <2>1, <2>2, <2>3, ResultsMove DEF TypeOK
<1>6. ASSUME NEW c \in Call, Same(c)
      PROVE  /\ pc'[c] = pc[c] /\ did'[c] = did[c]
             /\ AtC6(c)' = AtC6(c) /\ (c \in staked' => c \in staked)
  BY <1>1, <1>6 DEF Same
<1>7. QED
  BY <1>3, <1>4, <1>5, <1>6, CallStaysOrMoves DEF TrailIsOrdered, NotRun

\* A confirmed click under a permit stays one.
LEMMA ProvenStays ==
  ASSUME TypeOK, ClickInv, [Next]_vars, NEW p, Proven(p)
  PROVE  Proven(p)'
<1>1. PICK c \in pressed \cap confirmed : permit[c] = p
  BY DEF Proven
<1>2. Pays(c) /\ c \in Call
  BY <1>1 DEF ClickInv, StakedIsLate, Pays, TypeOK, LedgerTyped
<1>3. permit'[c] = permit[c] /\ c \in pressed' \cap confirmed'
  BY <1>1, <1>2, PayersStay, LedgerGrows DEF Booked
<1>4. QED
  BY <1>1, <1>3 DEF Proven

\* What the engine answered is true, and stays so until it is recorded.
LEMMA AnswersStep ==
  ASSUME TypeOK, ClickInv, AnswersAreTrue, [Next]_vars
  PROVE  AnswersAreTrue'
<1>1. StakedIsLate /\ Booked
  BY LedgerGrows DEF ClickInv
<1>2. ASSUME NEW c \in Call, out'[c] = "VERIFIED", out[c] # "VERIFIED"
      PROVE  c \in pressed' \cap confirmed'
  <2>1. Moved(c) /\ pc[c] \in Engine \cup {"c6settle"}
    BY <1>2, CallStaysOrMoves, Carries DEF Same, Moved, TypeOK
  <2>2. Step(c)
    BY <1>2, <2>1 DEF Moved, Begin, Crash, Engine, carryVars
  <2>3. C6Result(c)
    BY <1>2, <2>1, <2>2 DEF Step, Open, C3Look, C3Engine, C3Fill, C3Save,
       C4Decide, C5Look, C5Issue, C6Look, C6Preflight, C6Replay, C6Gate,
       C6Stake, C6Click, C6Result, EngineRaises, C6Settle, C6Save, End,
       Report, Pass, Engine, carryVars, TypeOK, CallsTyped
  <2>4. QED
    BY <1>2, <2>3 DEF C6Result, Ledger!Confirm, Report, TypeOK, CallsTyped
<1>3. ASSUME NEW c \in Call, pc'[c] = "c6save"
      PROVE  permit'[c] \in consumed'
  <2>1. CASE pc[c] = "c6save"
    <3>1. permit'[c] = permit[c]
      BY <2>1, CallStaysOrMoves, Carries DEF TypeOK, Same, Moved
    <3>2. QED
      BY <1>1, <2>1, <3>1 DEF AnswersAreTrue, Booked
  <2>2. CASE pc[c] # "c6save"
    <3>1. Step(c)
      BY <1>3, <2>2, CallStaysOrMoves DEF Same, Moved, Begin, Crash, Go,
         TypeOK, CallsTyped
    <3>2. C6Settle(c)
      BY <1>3, <2>2, <3>1 DEF Step, Open, C3Look, C3Engine, C3Fill, C3Save,
         C4Decide, C5Look, C5Issue, C6Look, C6Preflight, C6Replay, C6Gate,
         C6Stake, C6Click, C6Result, EngineRaises, C6Save, End, Ends, Stop,
         Report, Pass, Go, TypeOK, CallsTyped
    <3>3. permit[c] \in consumed /\ UNCHANGED <<permit, consumed>>
      BY <1>3, <3>2 DEF C6Settle, Stop, Ends, Go, TypeOK, CallsTyped,
         ledgerVars, carryVars
    <3>4. QED
      BY <3>3
  <2>3. QED
    BY <2>1, <2>2
<1>4. ASSUME NEW c \in Call, c \in staked', pc'[c] = "c6settle"
      PROVE  out'[c] \in {"VERIFIED", "UNKNOWN", "UNKNOWN_BARE", "EXCEPTION"}
  <2>1. CASE Same(c)
    <3>1. c \in staked
      BY <1>4, <2>1, StakedAtC6 DEF Same, C6Stake, Report, Pass, Go, TypeOK,
         CallsTyped
    <3>2. QED
      BY <1>4, <2>1, <3>1 DEF AnswersAreTrue, Same
  <2>2. CASE Moved(c)
    <3>1. c \in staked
      <4>1. ASSUME C6Stake(c), c \notin staked
            PROVE  FALSE
        BY <1>4, <4>1 DEF C6Stake, Report, Pass, Go, claimVars, TypeOK,
           CallsTyped
      <4>2. QED
        BY <1>4, <4>1, StakedAtC6
    <3>2. pc[c] \in {"c6click", "c6result", "c6settle", "c6save", "end",
                     "done", "crashed"}
      BY <1>1, <3>1 DEF StakedIsLate
    <3>3. C6Result(c) \/ EngineRaises(c)
      BY <1>4, <2>2, <3>2 DEF Moved, Begin, Crash, Step, Open, C3Look,
         C3Engine, C3Fill, C3Save, C4Decide, C5Look, C5Issue, C6Look,
         C6Preflight, C6Replay, C6Gate, C6Stake, C6Click, C6Settle, C6Save,
         End, Ends, Stop, Pass, Go, TypeOK, CallsTyped
    <3>4. QED
      BY <3>3 DEF C6Result, EngineRaises, Report, TypeOK, CallsTyped
  <2>3. QED
    BY <2>1, <2>2, CallStaysOrMoves
<1>5. ASSUME NEW c \in Call, out'[c] = "VERIFIED"
      PROVE  c \in pressed' \cap confirmed'
  BY <1>1, <1>2, <1>5 DEF AnswersAreTrue, Booked
<1>6. QED
  BY <1>3, <1>4, <1>5 DEF AnswersAreTrue

\* A submission record says no more than its permit and the ledger.
LEMMA SubmissionsStep ==
  ASSUME TypeOK, ChainInv, ClickInv, AnswersAreTrue, SubmissionsAreTrue,
         [Next]_vars
  PROVE  SubmissionsAreTrue'
<1>1. Grown /\ Booked
  BY RecordsGrow, LedgerGrows
<1>2. ASSUME NEW p \in Call, submissions'[p] # None
      PROVE  /\ p \in consumed'
             /\ submissions'[p].outcome = "VERIFIED" => Proven(p)'
  <2>1. CASE submissions[p] # None
    BY <1>1, <2>1, ProvenStays DEF Grown, Booked, SubmissionsAreTrue
  <2>2. ASSUME NEW c \in Call, C6Save(c), submissions'[p] # submissions[p]
        PROVE  /\ p \in consumed'
               /\ submissions'[p].outcome = "VERIFIED" => Proven(p)'
    <3>1. p = permit[c] /\ submissions'[p] = SubmissionOf(c)
      BY <2>2 DEF C6Save, TypeOK, RecordsTyped
    <3>2. permit[c] \in consumed
      BY <2>2 DEF AnswersAreTrue, C6Save
    <3>3. submissions'[p].outcome = "VERIFIED" => Proven(p)
      BY <3>1 DEF SubmissionOf, AnswersAreTrue, Proven
    <3>4. QED
      BY <1>1, <3>1, <3>2, <3>3, ProvenStays DEF Booked
  <2>3. QED
    BY <1>2, <2>1, <2>2, WhoWrites
<1>3. QED
  BY <1>2 DEF SubmissionsAreTrue, Proven

\* So does the result of C6, and a call that has a claim is not put off.
LEMMA ResultsStep ==
  ASSUME TypeOK, ChainInv, ClickInv, RecordInv, [Next]_vars
  PROVE  ResultsAreTrue'
<1>1. /\ Booked /\ StakedIsLate /\ PermitsAreSpent
      /\ TrailIsOrdered /\ AnswersAreTrue /\ SubmissionsAreTrue
      /\ ResultsAreTrue
  BY LedgerGrows DEF ClickInv, RecordInv
<1> DEFINE True(c) ==
             /\ did[c]["C6"] \in Success => Proven(permit[c])
             /\ did[c]["C6"] = "SUBMISSION_UNCERTAIN" =>
                  permit[c] \in consumed
<1>2. ASSUME NEW c \in Call, did'[c]["C6"] = did[c]["C6"]
      PROVE  True(c)'
  <2>1. CASE did[c]["C6"] = "NOT_RUN"
    BY <1>2, <2>1 DEF Success
  <2>2. CASE did[c]["C6"] # "NOT_RUN"
    <3>1. pc[c] \notin {"c5", "c5issue"}
      BY <1>1, <2>2 DEF TrailIsOrdered, NotRun
    <3>2. permit'[c] = permit[c]
      BY <3>1, CallStaysOrMoves, Carries DEF TypeOK, Same, Moved
    <3>3. True(c)
      BY <1>1 DEF ResultsAreTrue
    <3>4. Proven(permit[c]) => Proven(permit[c])'
      BY <3>2, ProvenStays DEF Proven
    <3>5. QED
      BY <1>1, <1>2, <3>2, <3>3, <3>4 DEF Booked
  <2>3. QED
    BY <2>1, <2>2
<1>3. ASSUME NEW c \in Call, did'[c]["C6"] = did[c]["C6"], c \in staked'
      PROVE  did'[c]["C6"] \notin Deferral
  <2>1. CASE c \in staked
    BY <1>1, <1>3, <2>1 DEF ResultsAreTrue
  <2>2. CASE c \notin staked
    <3>1. AtC6(c)
      BY <1>3, <2>2, StakedAtC6 DEF C6Stake, AtC6, Engine
    <3>2. QED
      BY <1>1, <1>3, <3>1 DEF TrailIsOrdered, NotRun, Deferral
  <2>3. QED
    BY <2>1, <2>2
<1>4. ASSUME NEW c \in Call, did'[c]["C6"] # did[c]["C6"]
      PROVE  True(c)' /\ (c \in staked' => did'[c]["C6"] \notin Deferral)
  <2>1. Moved(c) /\ pc[c] \in {"c6", "c6settle", "c6save"}
    BY <1>4, CallStaysOrMoves, ResultsMove DEF Same, TypeOK
  <2>2. /\ permit'[c] = permit[c]
        /\ c \in staked' => c \in staked
        /\ permit[c] \in Call
    <3>1. AtC6(c) /\ ~C6Stake(c)
      BY <2>1 DEF AtC6, C6Stake
    <3>2. QED
      BY <2>1, <3>1, Carries, StakedAtC6
         DEF TypeOK, CallsTyped, Moved, ChainInv, PermitsAreBound
  <2>3. \/ C6Look(c)
        \/ C6Settle(c) /\ pc[c] = "c6settle"
        \/ C6Save(c) /\ pc[c] = "c6save"
    BY <1>4, <2>1 DEF Moved, Begin, Crash, Step, Open, C3Look, C3Engine,
       C3Fill, C3Save, C4Decide, C5Look, C5Issue, C6Preflight, C6Replay,
       C6Gate, C6Stake, C6Click, C6Result, EngineRaises, C6Settle, C6Save,
       End, Engine
  <2>4. Proven(permit[c]) => Proven(permit[c])'
    BY <2>2, ProvenStays DEF Proven
  <2>5. c \in staked => permit[c] \in consumed
    BY <1>1 DEF PermitsAreSpent, Pays
  <2>6. CASE C6Look(c)
    <3>1. c \notin staked
      BY <1>1, <2>6 DEF StakedIsLate, C6Look
    <3>2. \/ /\ submissions[permit[c]] # None
             /\ submissions[permit[c]].outcome = "VERIFIED"
          \/ /\ submissions[permit[c]] # None
             /\ did'[c]["C6"] = "SUBMISSION_UNCERTAIN"
          \/ did'[c]["C6"] \in Deferral
      BY <1>4, <2>6 DEF C6Look, Stop, Ends, Go, TypeOK, CallsTyped, Results,
         Stage, Deferral
    <3>3. QED
      BY <1>1, <2>2, <2>4, <3>1, <3>2
         DEF SubmissionsAreTrue, Booked, Deferral, Success
  <2>7. CASE C6Settle(c) /\ pc[c] = "c6settle"
    <3>1. did'[c]["C6"] \notin Success \cup {"SUBMISSION_UNCERTAIN"}
      BY <1>4, <2>7 DEF C6Settle, Stop, Ends, Go, TypeOK, CallsTyped,
         Results, Stage, Success
    <3>2. c \in staked =>
            out[c] \in {"VERIFIED", "UNKNOWN", "UNKNOWN_BARE", "EXCEPTION"}
      BY <1>1, <2>7 DEF AnswersAreTrue
    <3>3. c \in staked => did'[c]["C6"] \notin Deferral
      BY <1>4, <2>5, <2>7, <3>2 DEF C6Settle, Stop, Ends, Go, TypeOK,
         CallsTyped, Results, Stage, Deferral
    <3>4. QED
      BY <2>2, <3>1, <3>3
  <2>8. CASE C6Save(c) /\ pc[c] = "c6save"
    <3>1. permit[c] \in consumed /\ (out[c] = "VERIFIED" => Proven(permit[c]))
      BY <1>1, <2>8 DEF AnswersAreTrue, Proven
    <3>2. \/ /\ out[c] = "VERIFIED" /\ did'[c]["C6"] \in Success
          \/ did'[c]["C6"] \in {"SUBMISSION_UNCERTAIN", "INTEGRITY",
                                "PERSISTENCE"}
      BY <1>4, <2>8 DEF C6Save, Answer, SubmissionOf, Stop, Ends, Go, TypeOK,
         CallsTyped, Results, Stage, Success
    <3>3. QED
      BY <1>1, <2>2, <2>4, <3>1, <3>2 DEF Booked, Deferral, Success
  <2>9. QED
    BY <2>3, <2>6, <2>7, <2>8
<1>5. QED
  BY <1>2, <1>3, <1>4 DEF ResultsAreTrue, Proven

\* And so does the record of a run.
LEMMA CompletedStep ==
  ASSUME TypeOK, ClickInv, RecordInv, [Next]_vars
  PROVE  CompletedIsProven'
<1>1. Booked /\ TrailIsOrdered /\ ResultsAreTrue /\ CompletedIsProven
  BY LedgerGrows DEF RecordInv
<1> DEFINE Sound(r) ==
             /\ Overall(r.did) = "COMPLETED" => Proven(r.permit)
             /\ Overall(r.did) = "SUBMISSION_UNCERTAIN" =>
                  r.permit \in consumed
<1>2. ASSUME NEW r, Sound(r)
      PROVE  Sound(r)'
  BY <1>1, <1>2, ProvenStays DEF Booked
<1>3. ASSUME NEW r \in runs', r \notin runs
      PROVE  Sound(r)
  <2>1. PICK c \in Call : End(c) /\ r = RunOf(c)
    BY <1>3, WhoWrites DEF End
  <2>2. Overall(r.did) \in {"COMPLETED", "SUBMISSION_UNCERTAIN"} =>
          /\ did[c]["C6"] # "NOT_RUN" /\ r.permit = permit[c]
    BY <1>1, <2>1 DEF RunOf, Overall, TrailIsOrdered, Success
  <2>3. QED
    BY <1>1, <2>1, <2>2 DEF RunOf, Overall, ResultsAreTrue
<1>4. ASSUME NEW r \in runs'
      PROVE  Sound(r)'
  <2>1. r \in runs => Sound(r)
    BY <1>1 DEF CompletedIsProven, Proven
  <2>2. QED
    BY <1>2, <1>3, <1>4, <2>1
<1>5. QED
  BY <1>4 DEF CompletedIsProven, Proven

-----------------------------------------------------------------------------
(* The theorems                                                            *)

(* Every record, every claim and every call in between rests on what came  *)
(* before it: receipt, execution, decision, permit, consumption, click,    *)
(* submission and run record (P2c3 to P2c7).                               *)
THEOREM ExecutionInvariant ==
  Spec => [](TypeOK /\ ChainInv /\ ClickInv /\ RecordInv)
<1> DEFINE Inv == TypeOK /\ ChainInv /\ ClickInv /\ RecordInv
<1>1. Init => Inv
  <2> SUFFICES ASSUME Init PROVE Inv
    OBVIOUS
  <2>1. TypeOK
    BY ExecutionAssumption DEF Init, TypeOK, LedgerTyped, RecordsTyped,
       CallsTyped, Command, PC, Results, StageStatus, Outcome,
       Ledger!PromiseInit
  <2>2. ChainInv
    BY DEF Init, ChainInv, ReceiptsAreApproved, FormsAreFilled,
       FormsAreAllowed, PermitsAreAllowed, PermitsAreBound, AtC6, Engine,
       Ledger!PromiseInit
  <2>3. ClickInv
    BY DEF Init, ClickInv, PermitsAreSpent, StakedIsLate, Pays,
       Ledger!PromiseInit
  <2>4. RecordInv
    <3>1. \A c \in Call : pc[c] = "idle" /\ NotRun(c, Stage) /\ ~AtC6(c)
      BY DEF Init, NotRun, AtC6, Engine
    <3>2. \A c \in Call : \A s \in Stage : did[c][s] = "NOT_RUN"
      BY DEF Init
    <3>3. TrailIsOrdered
      BY <3>1, <3>2 DEF TrailIsOrdered, Stage, Init, Ledger!PromiseInit
    <3>4. AnswersAreTrue /\ SubmissionsAreTrue /\ CompletedIsProven
      BY DEF Init, AnswersAreTrue, SubmissionsAreTrue, CompletedIsProven,
         Ledger!PromiseInit
    <3>5. ResultsAreTrue
      BY <3>2 DEF ResultsAreTrue, Stage, Success, Deferral
    <3>6. QED
      BY <3>3, <3>4, <3>5 DEF RecordInv
  <2>5. QED
    BY <2>1, <2>2, <2>3, <2>4
<1>2. Inv /\ [Next]_vars => Inv'
  <2> SUFFICES ASSUME Inv, [Next]_vars PROVE Inv'
    OBVIOUS
  <2>1. CallsTyped'
    <3>1. CASE UNCHANGED vars \/ Tick \/ Assemble \/ Reconcile
      BY <3>1, WorldStays DEF TypeOK, CallsTyped, carryVars
    <3>2. ASSUME NEW c \in Call, Begin(c) \/ Step(c) \/ Crash(c)
          PROVE  CallsTyped'
      BY <3>2, ControlTypedStep, CarryTypedStep DEF CallsTyped
    <3>3. QED
      BY <3>1, <3>2 DEF Next
  <2>2. TypeOK'
    BY <2>1, LedgerTypedStep, RecordsTypedStep DEF TypeOK
  <2>3. ChainInv'
    BY ReceiptsStep, FormsFilledStep, FormsAllowedStep, PermitsAllowedStep,
       PermitsBoundStep DEF ChainInv
  <2>4. ClickInv'
    BY SpentStep, StakedStep DEF ClickInv
  <2>5. RecordInv'
    BY TrailStep, AnswersStep, SubmissionsStep, ResultsStep, CompletedStep
       DEF RecordInv
  <2>6. QED
    BY <2>2, <2>3, <2>4, <2>5
<1>3. QED
  BY <1>1, <1>2, PTL DEF Spec

\* Every variable keeps its type.
THEOREM ExecutionTypeCorrect == Spec => []TypeOK
<1>1. QED
  BY ExecutionInvariant, PTL

(* Nobody clicks but under a permit of its own, spent, for the Review it   *)
(* sees, that rests on a decision and on the approvals the policy asks for *)
(* (the binding checks of P2c3 to P2c6).                                   *)
THEOREM ClicksAreAuthorised == Spec => []ClickIsAuthorised
<1>1. ASSUME TypeOK, ChainInv, ClickInv, NEW c \in pressed
      PROVE  LET p == permit[c]  k == permits[p]  x == executions[k.exec] IN
               /\ p \in consumed
               /\ \A d \in pressed : permit[d] = p => d = c
               /\ x.review = seen[c] /\ x.asm = cmd[c].asm
               /\ HumanGateA => cmd[k.exec].gateA
               /\ HumanGateB => k.explicit = k.exec
               /\ \E d \in decisions : /\ d.exec = k.exec
                                       /\ d.explicit = k.explicit
                                       /\ d.verdict = "AUTHORIZED"
  <2>1. c \in staked /\ pressed \subseteq staked /\ staked \subseteq Call
    BY <1>1 DEF ClickInv, StakedIsLate, TypeOK, LedgerTyped
  <2>2. /\ permit[c] \in consumed
        /\ \A d \in pressed : permit[d] = permit[c] => d = c
        /\ seen[c] = Approved(c)
    BY <1>1, <2>1 DEF ClickInv, PermitsAreSpent, Pays
  <2>3. /\ permit[c] \in Call /\ permits[permit[c]] # None
        /\ executions[permits[permit[c]].exec].asm = cmd[c].asm
    BY <1>1, <2>1 DEF ChainInv, PermitsAreBound, TypeOK, CallsTyped
  <2>4. /\ permits[permit[c]].exec \in Call
        /\ Ready(permits[permit[c]].exec)
        /\ Allowed(permits[permit[c]].exec, permits[permit[c]].explicit)
    BY <1>1, <2>3 DEF ChainInv, PermitsAreAllowed, TypeOK, RecordsTyped,
       Permit
  <2>5. HumanGateA => cmd[permits[permit[c]].exec].gateA
    BY <1>1, <2>4 DEF ChainInv, ReceiptsAreApproved, Receipt, Ready
  <2>6. QED
    BY <2>2, <2>3, <2>4, <2>5 DEF Allowed, Approved
<1>2. TypeOK /\ ChainInv /\ ClickInv => ClickIsAuthorised
  BY <1>1 DEF ClickIsAuthorised
<1>3. QED
  BY <1>2, ExecutionInvariant, PTL

(* A run is recorded COMPLETED only with a confirmed click under its       *)
(* permit, SUBMISSION_UNCERTAIN only with the permit spent (P2c6, P2c7).   *)
THEOREM CompletedRunsAreProven == Spec => []CompletedIsProven
<1>1. RecordInv => CompletedIsProven
  BY DEF RecordInv
<1>2. QED
  BY <1>1, ExecutionInvariant, PTL

(* A run that staked a claim is never reported as merely put off (P2c6     *)
(* reads the consumption after the engine).                                *)
THEOREM ClicksAreNotDeferred == Spec => []ClickIsNotDeferred
<1>1. ASSUME TypeOK, RecordInv, NEW c \in staked
      PROVE  Overall(did[c]) # "DEFERRED"
  <2>1. c \in Call
    BY <1>1 DEF TypeOK, LedgerTyped
  <2>2. /\ did[c]["C5"] \in Success /\ did[c]["C4"] \in Success
        /\ did[c]["C3"] \in Success
    BY <1>1, <2>1 DEF RecordInv, TrailIsOrdered, Success
  <2>3. did[c]["C6"] \notin Deferral
    BY <1>1, <2>1 DEF RecordInv, ResultsAreTrue
  <2>4. \A s \in Stage : did[c][s] \notin Deferral
    BY <2>2, <2>3 DEF Stage, Success, Deferral
  <2>5. QED
    BY <2>4 DEF Overall
<1>2. TypeOK /\ RecordInv => ClickIsNotDeferred
  BY <1>1 DEF ClickIsNotDeferred
<1>3. QED
  BY <1>2, ExecutionInvariant, PTL

(* The pipeline uses the ledger as the ledger promises: it implements      *)
(* SubmissionPromise for its one posting.                                  *)
THEOREM ExecutionKeepsThePromise == Spec => Ledger!PromiseSpec
<1>1. Init => Ledger!PromiseInit
  BY DEF Init
<1>2. [Next]_vars => [Ledger!PromiseNext]_(Ledger!promiseVars)
  <2> SUFFICES ASSUME [Next]_vars
               PROVE  [Ledger!PromiseNext]_(Ledger!promiseVars)
    OBVIOUS
  <2> USE DEF Ledger!promiseVars
  <2>1. CASE UNCHANGED vars \/ Tick \/ Assemble
    BY <2>1 DEF vars, Tick, Assemble, ledgerVars, claimVars
  <2>2. CASE Reconcile
    BY <2>2 DEF Reconcile, Ledger!PromiseNext
  <2>3. ASSUME NEW c \in Call, C6Stake(c) \/ C6Click(c) \/ C6Result(c)
        PROVE  [Ledger!PromiseNext]_(Ledger!promiseVars)
    BY <2>3 DEF C6Stake, C6Click, C6Result, Ledger!PromiseNext, claimVars
  <2>4. ASSUME NEW c \in Call, C3Engine(c) \/ C6Gate(c)
        PROVE  [Ledger!PromiseNext]_(Ledger!promiseVars)
    BY <2>4 DEF C3Engine, C6Gate, claimVars
  <2>5. ASSUME NEW c \in Call, Moved(c), ~Books(c)
        PROVE  [Ledger!PromiseNext]_(Ledger!promiseVars)
    BY <2>5, LedgerStays DEF Moved, ledgerVars, claimVars
  <2>6. QED
    BY <2>1, <2>2, <2>3, <2>4, <2>5 DEF Next, Moved, Books
<1>3. QED
  BY <1>1, <1>2, PTL DEF Spec, Ledger!PromiseSpec

-----------------------------------------------------------------------------
(* What the promise means for the records                                  *)

\* One claim stands at most, and what was confirmed stands.
OneClaimStands ==
  confirmed \subseteq standing /\ \A c, d \in standing : c = d

\* Claims are staked when none stands, confirmed when they stand, and those
\* confirmed not withdrawn.
LEMMA OneClaimStandsStep ==
  ASSUME TypeOK, OneClaimStands, [Next]_vars
  PROVE  /\ OneClaimStands'
         /\ confirmed # {} => UNCHANGED <<staked, standing>>
<1> USE DEF OneClaimStands
<1>1. CASE UNCHANGED claimVars
  BY <1>1 DEF claimVars
<1>2. ASSUME NEW c \in Call, Ledger!Stake(c)
      PROVE  /\ OneClaimStands'
             /\ confirmed # {} => UNCHANGED <<staked, standing>>
  <2>1. standing = {}
    <3>1. ASSUME NEW d \in standing
          PROVE  [e \in Call |-> "posting"][d] # "posting"
      BY <1>2 DEF Ledger!Stake
    <3>2. standing \subseteq Call
      BY DEF TypeOK, LedgerTyped
    <3>3. QED
      BY <3>1, <3>2
  <2>2. QED
    BY <1>2, <2>1 DEF Ledger!Stake
<1>3. ASSUME NEW c \in Call,
             Ledger!Press(c) \/ Ledger!Confirm(c) \/ Ledger!Withdraw(c)
      PROVE  /\ OneClaimStands'
             /\ confirmed # {} => UNCHANGED <<staked, standing>>
  BY <1>3 DEF Ledger!Press, Ledger!Confirm, Ledger!Withdraw
<1>4. CASE UNCHANGED vars \/ Tick \/ Assemble \/ Reconcile
  BY <1>1, <1>3, <1>4 DEF vars, ledgerVars, Tick, Assemble, Reconcile
<1>5. ASSUME NEW c \in Call, C6Stake(c) \/ C6Click(c) \/ C6Result(c)
      PROVE  /\ OneClaimStands'
             /\ confirmed # {} => UNCHANGED <<staked, standing>>
  BY <1>1, <1>2, <1>3, <1>5 DEF C6Stake, C6Click, C6Result
<1>6. ASSUME NEW c \in Call, C3Engine(c) \/ C6Gate(c)
      PROVE  UNCHANGED claimVars
  BY <1>6 DEF C3Engine, C6Gate
<1>7. ASSUME NEW c \in Call, Moved(c), ~Books(c)
      PROVE  UNCHANGED claimVars
  BY <1>7, LedgerStays DEF Moved, ledgerVars
<1>8. QED
  BY <1>1, <1>4, <1>5, <1>6, <1>7 DEF Next, Moved, Books

(* A Plan is submitted once: its completed runs, of whatever bundle and    *)
(* command, all stand for one submission, and after the first of them      *)
(* nobody starts another.  It takes the records (CompletedIsProven), the   *)
(* permits and the ledger's promise together.                              *)
THEOREM PlansAreSubmittedOnce == Spec => PlanSubmittedOnce
<1> DEFINE Once == \A r \in runs : Submitted(r) =>
                     /\ \A s \in runs' : Submitted(s) => s.permit = r.permit
                     /\ UNCHANGED <<staked, standing>>
<1>1. Init => OneClaimStands
  BY DEF Init, OneClaimStands, Ledger!PromiseInit
<1>2. TypeOK /\ OneClaimStands /\ [Next]_vars => OneClaimStands'
  BY OneClaimStandsStep
<1>3. TypeOK /\ ChainInv /\ CompletedIsProven /\ CompletedIsProven'
        /\ OneClaimStands /\ [Next]_vars => Once
  <2> SUFFICES ASSUME TypeOK, ChainInv, CompletedIsProven, CompletedIsProven',
                      OneClaimStands, [Next]_vars,
                      NEW r \in runs, Submitted(r)
               PROVE  /\ \A s \in runs' : Submitted(s) => s.permit = r.permit
                      /\ UNCHANGED <<staked, standing>>
    OBVIOUS
  <2>1. PICK c \in pressed \cap confirmed : permit[c] = r.permit
    BY DEF CompletedIsProven, Submitted
  <2>2. UNCHANGED <<staked, standing>> /\ OneClaimStands'
    BY <2>1, OneClaimStandsStep
  <2>3. r \in runs'
    BY RecordsGrow DEF Grown
  <2>4. \A s \in runs' : Submitted(s) =>
          \E d \in confirmed' : permit'[d] = s.permit
    BY DEF CompletedIsProven, Submitted
  <2>5. \A d, e \in confirmed' : d = e
    BY <2>2 DEF OneClaimStands
  <2>6. QED
    BY <2>2, <2>3, <2>4, <2>5
<1>4. QED
  BY <1>1, <1>2, <1>3, ExecutionTypeCorrect, ExecutionInvariant,
     CompletedRunsAreProven, PTL DEF Spec, PlanSubmittedOnce

-----------------------------------------------------------------------------
(* No outcome is left without a verdict                                    *)

\* Outcomes the engine gives once it has consumed the permit.
PastTheGate == {"DUPLICATE", "UNKNOWN", "UNKNOWN_BARE", "VERIFIED"}

\* Past Gate B the permit is spent, and an outcome says where it comes from.
GateIsPaid ==
  \A c \in Call :
    /\ pc[c] \in {"c6stake", "c6click", "c6result"} => permit[c] \in consumed
    /\ pc[c] = "c6settle" => out[c] # "NONE"
    /\ pc[c] = "c6settle" /\ out[c] \in PastTheGate
         => permit[c] \in consumed

(* What C6 finds when it judges an outcome whose permit nobody consumed is *)
(* an exception, a refusal, or a stop before Gate B: never a submission,   *)
(* certain or not.  So the check for evidence without consumption          *)
(* (authorized_submission_execution.py 1259-1266) is there for an engine   *)
(* that breaks its contract, and every outcome gets a verdict.             *)
UnspentMeansNotSubmitted ==
  \A c \in Call :
    pc[c] = "c6settle" /\ permit[c] \notin consumed =>
      /\ c \notin staked
      /\ out[c] \in {"EXCEPTION", "RETRYABLE", "INPUT", "GUARDED", "OTHER",
                     "AWAITING", "AWAITING_CHANGED"}

\* Calls pass Gate B with the permit spent, and no call loses it there.
LEMMA GateIsPaidStep ==
  ASSUME TypeOK, GateIsPaid, [Next]_vars
  PROVE  GateIsPaid'
<1> USE DEF GateIsPaid, PastTheGate
<1>1. consumed \subseteq consumed'
  BY LedgerGrows DEF Booked
<1>2. ASSUME NEW c \in Call, Same(c)
      PROVE  /\ pc'[c] \in {"c6stake", "c6click", "c6result"}
                  => permit'[c] \in consumed'
             /\ pc'[c] = "c6settle" => out'[c] # "NONE"
             /\ pc'[c] = "c6settle" /\ out'[c] \in PastTheGate
                  => permit'[c] \in consumed'
  BY <1>1, <1>2 DEF Same
<1>3. ASSUME NEW c \in Call, Moved(c)
      PROVE  /\ pc'[c] \in {"c6stake", "c6click", "c6result"}
                  => permit'[c] \in consumed'
             /\ pc'[c] = "c6settle" => out'[c] # "NONE"
             /\ pc'[c] = "c6settle" /\ out'[c] \in PastTheGate
                  => permit'[c] \in consumed'
  <2> USE DEF TypeOK, CallsTyped, Go, Ends, Stop, Report, Pass
  <2>1. CASE Begin(c) \/ Open(c) \/ Crash(c) \/ End(c)
    BY <2>1 DEF Begin, Open, Crash, End
  <2>2. CASE C3Look(c) \/ C3Engine(c) \/ C3Fill(c)
    BY <2>2 DEF C3Look, C3Engine, C3Fill
  <2>3. CASE C3Save(c) \/ C4Decide(c)
    BY <2>3 DEF C3Save, C4Decide
  <2>4. CASE C5Look(c) \/ C5Issue(c) \/ C6Look(c)
    BY <2>4 DEF C5Look, C5Issue, C6Look
  <2>5. CASE C6Preflight(c) \/ C6Replay(c)
    BY <2>5 DEF C6Preflight, C6Replay
  <2>6. CASE C6Gate(c)
    BY <2>6 DEF C6Gate
  <2>7. CASE C6Stake(c) \/ C6Click(c) \/ C6Result(c)
    BY <1>1, <2>7 DEF C6Stake, C6Click, C6Result
  <2>8. CASE EngineRaises(c)
    BY <2>8 DEF EngineRaises
  <2>9. CASE C6Settle(c) \/ C6Save(c)
    BY <2>9 DEF C6Settle, C6Save
  <2>10. QED
    BY <1>3, <2>1, <2>2, <2>3, <2>4, <2>5, <2>6, <2>7, <2>8, <2>9
       DEF Moved, Step
<1>4. QED
  BY <1>2, <1>3, CallStaysOrMoves

(* Without a spent permit C6 never judges an outcome of a submission: the  *)
(* check it makes for that case guards the engine's contract, and no       *)
(* outcome is left over (authorized_submission_execution.py 1146-1327).    *)
THEOREM UnspentPermitsSubmitNothing == Spec => []UnspentMeansNotSubmitted
<1>1. Init => GateIsPaid
  BY DEF Init, GateIsPaid
<1>2. TypeOK /\ GateIsPaid /\ [Next]_vars => GateIsPaid'
  BY GateIsPaidStep
<1>3. TypeOK /\ ClickInv /\ GateIsPaid => UnspentMeansNotSubmitted
  BY DEF TypeOK, CallsTyped, Outcome, ClickInv, PermitsAreSpent, Pays,
         GateIsPaid, PastTheGate, UnspentMeansNotSubmitted
<1>4. QED
  BY <1>1, <1>2, <1>3, ExecutionInvariant, PTL DEF Spec

-----------------------------------------------------------------------------
(* Nothing goes round in circles: what EveryCallEnds rests on              *)

\* How many steps a call can still take.
Rank(c) ==
  CASE pc[c] = "idle"        -> 20 [] pc[c] = "queued"   -> 19
    [] pc[c] = "c3"          -> 18 [] pc[c] = "c3engine" -> 17
    [] pc[c] = "c3review"    -> 16 [] pc[c] = "c3save"   -> 15
    [] pc[c] = "c4"          -> 14 [] pc[c] = "c5"       -> 13
    [] pc[c] = "c5issue"     -> 12 [] pc[c] = "c6"       -> 11
    [] pc[c] = "c6preflight" -> 10 [] pc[c] = "c6replay" -> 9
    [] pc[c] = "c6gate"      -> 8  [] pc[c] = "c6stake"  -> 7
    [] pc[c] = "c6click"     -> 6  [] pc[c] = "c6result" -> 5
    [] pc[c] = "c6settle"    -> IF out[c] = "EXCEPTION" THEN 3 ELSE 4
    [] pc[c] = "c6save"      -> 2  [] pc[c] = "end"      -> 1
    [] pc[c] \in {"done", "crashed"} -> 0

(* Every step a call takes, its death included, brings its end nearer, and *)
(* neither another call nor the world takes it further from it: a replay,  *)
(* a refusal or an exception never sends it back                           *)
(* (application_execution_orchestrator.py 1112-1240,                       *)
(* authorized_submission_execution.py 857-1327).                           *)
EndComesNearer ==
  [][\A c \in Call :
       /\ Rank(c)' <= Rank(c)
       /\ Begin(c) \/ Step(c) \/ Crash(c) => Rank(c)' < Rank(c)]_vars

\* A rank is a number.
LEMMA RankIsNumber ==
  ASSUME TypeOK, TypeOK', NEW c \in Call
  PROVE  Rank(c) \in Nat /\ Rank(c)' \in Nat
BY DEF Rank, TypeOK, CallsTyped, PC, Engine

\* A step of a call that changes anything brings its own end nearer.
LEMMA OwnEndComesNearer ==
  ASSUME TypeOK, NEW c \in Call, Moved(c), ~UNCHANGED vars
  PROVE  Rank(c)' < Rank(c)
<1> USE DEF TypeOK, CallsTyped, Go, Ends, Stop, Report, Pass, Rank
<1>1. CASE Begin(c)         BY <1>1 DEF Begin
<1>2. CASE Open(c)          BY <1>2 DEF Open
<1>3. CASE C3Look(c)        BY <1>3 DEF C3Look
<1>4. CASE C3Engine(c)      BY <1>4 DEF C3Engine
<1>5. CASE C3Fill(c)        BY <1>5 DEF C3Fill
<1>6. CASE C3Save(c)        BY <1>6 DEF C3Save
<1>7. CASE C4Decide(c)      BY <1>7 DEF C4Decide
<1>8. CASE C5Look(c)        BY <1>8 DEF C5Look
<1>9. CASE C5Issue(c)       BY <1>9 DEF C5Issue
<1>10. CASE C6Look(c)       BY <1>10 DEF C6Look
<1>11. CASE C6Preflight(c)  BY <1>11 DEF C6Preflight
<1>12. CASE C6Replay(c)     BY <1>12 DEF C6Replay
<1>13. CASE C6Gate(c)       BY <1>13 DEF C6Gate
<1>14. CASE C6Stake(c)      BY <1>14 DEF C6Stake
<1>15. CASE C6Click(c)      BY <1>15 DEF C6Click
<1>16. CASE C6Result(c)     BY <1>16 DEF C6Result
<1>17. CASE EngineRaises(c)
  <2>1. CASE pc[c] = "c6settle" /\ out[c] = "EXCEPTION"
    <3>1. pc' = pc /\ out' = out
      BY <1>17, <2>1 DEF EngineRaises
    <3>2. QED
      BY <1>17, <3>1 DEF EngineRaises, vars, carryVars
  <2>2. QED
    BY <1>17, <2>1 DEF EngineRaises, Engine
<1>18. CASE C6Settle(c)     BY <1>18 DEF C6Settle
<1>19. CASE C6Save(c)       BY <1>19 DEF C6Save
<1>20. CASE End(c)          BY <1>20 DEF End
<1>21. CASE Crash(c)        BY <1>21 DEF Crash, PC, Engine
<1> HIDE DEF Rank
<1>22. QED
  BY <1>1, <1>2, <1>3, <1>4, <1>5, <1>6, <1>7, <1>8, <1>9, <1>10, <1>11,
     <1>12, <1>13, <1>14, <1>15, <1>16, <1>17, <1>18, <1>19, <1>20, <1>21
     DEF Moved, Step

(* A call takes at most 20 steps that change anything, whatever the other  *)
(* calls, the clock and the human do: nothing leads back, so only standing *)
(* still could keep it from its end                                        *)
(* (application_execution_orchestrator.py 1112-1240).                      *)
THEOREM EveryStepLeadsToTheEnd == Spec => EndComesNearer
<1>1. TypeOK /\ TypeOK' /\ [Next]_vars
        => [\A c \in Call :
              /\ Rank(c)' <= Rank(c)
              /\ Begin(c) \/ Step(c) \/ Crash(c)
                   => Rank(c)' < Rank(c)]_vars
  <2> SUFFICES ASSUME TypeOK, TypeOK', [Next]_vars, ~UNCHANGED vars,
                      NEW c \in Call
               PROVE  /\ Rank(c)' <= Rank(c)
                      /\ Moved(c) => Rank(c)' < Rank(c)
    BY DEF Moved
  <2>1. Rank(c) \in Nat /\ Rank(c)' \in Nat
    BY RankIsNumber
  <2>2. CASE Moved(c)
    BY <2>1, <2>2, OwnEndComesNearer
  <2>3. CASE Same(c) /\ ~Moved(c)
    <3>1. Rank(c)' = Rank(c)
      BY <2>3 DEF Same, Rank
    <3>2. QED
      BY <2>1, <2>3, <3>1
  <2>4. QED
    BY <2>2, <2>3, CallStaysOrMoves
<1>2. QED
  BY <1>1, ExecutionTypeCorrect, PTL DEF Spec, EndComesNearer
=============================================================================
