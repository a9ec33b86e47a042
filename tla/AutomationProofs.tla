-------------------------- MODULE AutomationProofs --------------------------
(***************************************************************************)
(* Proofs about Automation, for any number of calls, jobs and invocations, *)
(* any budgets, recipe and bounds.                                         *)
(*                                                                         *)
(* The argument.  A step of a call is a step of at most one component and  *)
(* leaves the others alone (StepIsTheirs), so the components keep the      *)
(* invariants they keep by themselves.  IInv adds what a call carries from *)
(* one stage to the next and where it was stored, which gives the chain of *)
(* evidence; and because what a stage stores is never taken back, every    *)
(* step that stores something is a step of Evidence (TrailStep).  Budgets  *)
(* need one thing more, BudgetInv: that the first n of a queue are n at    *)
(* most, since each has a number of its own before it (FirstAreFew), and   *)
(* that a call has one run for a Plan.                                     *)
(***************************************************************************)
EXTENDS Automation, ComponentProofs, FiniteSetTheorems

-----------------------------------------------------------------------------
(* What the steps of a call are to its components                          *)

(* A job is taken from a queue of postings, and a posting never leaves the *)
(* library: what a batch has still to score or to plan is listed.          *)
TakenJobsAreListed ==
  \A c \in Call : at[c] \in {"score", "create"} =>
    \A j \in todo[c] : posting[j] > 0

\* The binding of a listed job is a binding.
LEMMA ExpectedIsBinding ==
  ASSUME AutomationTypeOK, TakenJobsAreListed, NEW c \in Call,
         at[c] \in {"score", "create"}, NEW j \in todo[c]
  PROVE  /\ j \in Job /\ Now(c) \in Moment
         /\ Expected(j, Now(c)) \in Binding
<1>1. j \in Job
  BY DEF AutomationTypeOK, CallsTyped, Items
<1>2. Now(c) \in Moment
  BY DEF AutomationTypeOK, CallsTyped, Now
<1>3. posting[j] \in 1..MaxRevision
  BY <1>1, AutomationAssumption
     DEF AutomationTypeOK, StoresTyped, TakenJobsAreListed
<1> QED BY <1>1, <1>2, <1>3, AutomationAssumption DEF Expected

\* The lineage of a stored run is an input of assembly.
LEMMA LineageIsInput ==
  ASSUME AutomationTypeOK, NEW r \in runs
  PROVE  Lineage(r) \in Input
BY AutomationAssumption DEF AutomationTypeOK, ComponentsTyped,
   PreparationTypeOK, PreparationRun, Lineage

\* A step of a call is a step of each component, or leaves it alone.
LEMMA CallStepIsTheirs ==
  ASSUME AutomationTypeOK, TakenJobsAreListed, NEW c \in Call, CallStep(c)
  PROVE  /\ [ScoringNext]_scoringVars
         /\ [PreparationNext]_preparationVars
         /\ [AssemblyNext]_assemblyVars
<1>1. CASE UNCHANGED componentVars
  BY <1>1 DEF componentVars
<1>2. ASSUME NEW j \in Job, ScoreJob(c, j)
      PROVE  ScoringNext /\ UNCHANGED <<preparationVars, assemblyVars>>
  BY <1>2, ExpectedIsBinding DEF ScoreJob, ScoringNext
<1>3. CASE ScoringRuns(c)
  BY <1>3 DEF ScoringRuns, ScoringNext
<1>4. CASE TakeScore(c)
  BY <1>4 DEF TakeScore, ScoringNext
<1>5. ASSUME NEW p \in Plan, PreparePlan(c, p)
      PROVE  PreparationNext /\ UNCHANGED <<scoringVars, assemblyVars>>
  <2>1. Now(c) \in Moment
    BY <1>5 DEF PreparePlan, AutomationTypeOK, CallsTyped, Now
  <2> QED BY <1>5, <2>1 DEF PreparePlan, PreparationNext
<1>6. CASE PreparationRuns(c)
  BY <1>6 DEF PreparationRuns, PreparationNext
<1>7. CASE TakePreparation(c)
  BY <1>7 DEF TakePreparation, PreparationNext
<1>8. ASSUME NEW r \in runs, AssembleBundle(c, r)
      PROVE  AssemblyNext /\ UNCHANGED <<preparationVars, scoringVars>>
  BY <1>8, LineageIsInput DEF AssembleBundle, AssemblyNext
<1>9. CASE AssemblyRuns(c)
  BY <1>9 DEF AssemblyRuns, AssemblyNext
<1>10. CASE TakeBundle(c)
  BY <1>10 DEF TakeBundle, AssemblyNext
<1>11. \/ UNCHANGED componentVars
       \/ (\E j \in Job : ScoreJob(c, j)) \/ ScoringRuns(c) \/ TakeScore(c)
       \/ (\E p \in Plan : PreparePlan(c, p)) \/ PreparationRuns(c)
       \/ TakePreparation(c)
       \/ (\E r \in runs : AssembleBundle(c, r)) \/ AssemblyRuns(c)
       \/ TakeBundle(c)
  BY DEF CallStep, ReadRun, ListProfiles, EndDiscovery, ReadQueue, EndRefresh,
     ReadRunnable, CreatePlan, EndPlans, ReadAttention, EndPreparations,
     StartBundles, EndBundles, ExecuteBatch, SaveCycle, EndCall
<1> QED BY <1>1, <1>2, <1>3, <1>4, <1>5, <1>6, <1>7, <1>8, <1>9, <1>10, <1>11

\* So is every step of the system.
LEMMA StepIsTheirs ==
  ASSUME AutomationTypeOK, TakenJobsAreListed, [Next]_vars
  PROVE  /\ [ScoringNext]_scoringVars
         /\ [PreparationNext]_preparationVars
         /\ [AssemblyNext]_assemblyVars
<1>1. CASE UNCHANGED vars
  BY <1>1 DEF vars
<1>2. ASSUME NEW c \in Call, NEW i \in Invocation, NEW t \in Moment,
             BeginCall(c, i, t)
      PROVE  UNCHANGED componentVars
  BY <1>2 DEF BeginCall
<1>3. ASSUME NEW c \in Call, NEW j \in Job, Discover(c, j)
      PROVE  UNCHANGED componentVars
  BY <1>3 DEF Discover
<1>4. ASSUME NEW c \in Call, Crash(c)
      PROVE  /\ [ScoringNext]_scoringVars
             /\ [PreparationNext]_preparationVars
             /\ [AssemblyNext]_assemblyVars
  BY <1>4 DEF Crash, ScoringNext, PreparationNext, AssemblyNext
<1> QED BY <1>1, <1>2, <1>3, <1>4, CallStepIsTheirs DEF Next, componentVars

\* What the components promise of a step therefore holds here.
LEMMA ComponentsKept ==
  ASSUME AutomationTypeOK, TakenJobsAreListed, ScoringInv, PreparationInv,
         SealingInv, [Next]_vars
  PROVE  ComponentsTyped' /\ ScoringInv' /\ PreparationInv' /\ SealingInv'
BY StepIsTheirs, ScoringTyped, PreparationTyped, AssemblyTyped,
   ScoringInvStep, PreparationInvStep, SealingInvStep
   DEF AutomationTypeOK, ComponentsTyped
(* Of the calls that save a run of one invocation one has its file, which  *)
(* is torn until it has written it, and nobody has been told that it       *)
(* stored one before: O_EXCL makes it so.                                  *)
SaversAreAlone ==
  /\ \A i \in torn : cycles[i] = None
  /\ \A c \in Call : at[c] \in {"write", "sync"} =>
       /\ at[c] = "write" => call[c].inv \in torn
       /\ at[c] = "sync" => cycles[call[c].inv] # None
       /\ \A d \in Call : at[d] # "idle" /\ call[d].inv = call[c].inv =>
            /\ at[d] \in {"write", "sync"} => d = c
            /\ told[d].run # None => told[d].status = "UNCHANGED"

-----------------------------------------------------------------------------
(* Types                                                                   *)

\* Runs are never taken away.
LEMMA RunsStay ==
  ASSUME [PreparationNext]_preparationVars
  PROVE  runs \subseteq runs'
<1>1. ASSUME NEW p \in Call, PreparationStep(p)
      PROVE  runs \subseteq runs'
  BY <1>1 DEF PreparationStep, FindCurrent, StageSucceeds, SkipLayout,
     StageStops, SaveRun
<1> QED BY <1>1 DEF PreparationNext, BeginPreparation, EndPreparation,
        PreparationCrash, PreparationOver, preparationVars

\* What a batch takes up, or has left: jobs that are listed, plans, runs.
Found(c, pc, items) ==
  \/ items = {}
  \/ pc = at[c] /\ items \subseteq todo[c]
  \/ pc \in {"score", "create"} /\ items \subseteq ListedJobs
  \/ pc = "run" /\ items \subseteq plans
  \/ pc = "assemble" /\ items \subseteq ready[c]

\* How far a call is.
Rank(pc) == CASE pc = "idle" -> 0       [] pc = "read" -> 1
              [] pc = "list" -> 2       [] pc = "discover" -> 3
              [] pc = "refresh" -> 4    [] pc = "score" -> 5
              [] pc = "plan" -> 6       [] pc = "create" -> 7
              [] pc = "prepare" -> 8    [] pc = "run" -> 9
              [] pc = "bundle" -> 10    [] pc = "assemble" -> 11
              [] pc = "execute" -> 12   [] pc = "save" -> 13
              [] pc = "write" -> 14     [] pc = "sync" -> 15
              [] pc = "compare" -> 15   [] OTHER -> 16

(* What a step of the call c may do to it: each helper of Automation says  *)
(* it in its own way, and this is what they come to.                       *)
Moves(c, pc, items) ==
  /\ at' = [at EXCEPT ![c] = pc] /\ pc \in CallPC
  /\ todo' = [todo EXCEPT ![c] = items] /\ items \subseteq Items(pc)'
  /\ Found(c, pc, items)
  /\ pc \in {"write", "sync"} => at[c] \in {"save", "write", "sync"}
  /\ good' \in [Call -> BOOLEAN] /\ bad' \in [Call -> BOOLEAN]
  /\ sum' \in [Call -> Summary]

\* The summary of a call with a stage more is a summary.
LEMMA SummaryTyped ==
  ASSUME CallsTyped, NEW c \in Call, NEW s \in BatchStage,
         NEW failed, NEW processed, NEW adverse, NEW returned,
         EndStage(c, s, failed, processed, adverse, returned)
  PROVE  sum' \in [Call -> Summary]
<1>1. \A a, b, d, e, f : [failed |-> (a \/ b), other |-> (d \/ e),
        processed |-> (a \/ f), adverse |-> (b \/ d), prepared |-> (e \/ f)]
        \in Summary
  BY DEF Summary
<1> QED BY DEF EndStage, CallsTyped, Summary

\* A call that goes on to its next stage moves.
LEMMA AdvanceMoves ==
  ASSUME CallsTyped, NEW c \in Call, NEW s \in BatchStage, Advance(c, s),
         sum' \in [Call -> Summary]
  PROVE  \E pc, items : Moves(c, pc, items)
<1>1. PICK pc \in CallPC \ {"write", "sync"} : Goto(c, pc)
  BY DEF Advance, BatchStage, After, CallPC
<1>2. Moves(c, pc, {})
  BY <1>1 DEF Advance, Goto, Moves, Found, CallsTyped
<1> QED BY <1>2

\* So does one whose stage ends,
LEMMA EndStageMoves ==
  ASSUME CallsTyped, NEW c \in Call, NEW s \in BatchStage,
         NEW failed, NEW processed, NEW adverse, NEW returned,
         EndStage(c, s, failed, processed, adverse, returned)
  PROVE  \E pc, items : Moves(c, pc, items)
BY SummaryTyped, AdvanceMoves DEF EndStage

\* one whose stage is skipped or fails,
LEMMA NoStageMoves ==
  ASSUME CallsTyped, NEW c \in Call, NEW s \in BatchStage, NEW reason,
         StageSkipped(c, s) \/ StageFails(c, s, reason)
  PROVE  \E pc, items : Moves(c, pc, items)
<1>1. CASE StageSkipped(c, s)
  BY <1>1, AdvanceMoves DEF StageSkipped, CallsTyped
<1>2. CASE StageFails(c, s, reason)
  BY <1>2, EndStageMoves DEF StageFails
<1> QED BY <1>1, <1>2

\* one that starts a batch,
LEMMA StartBatchMoves ==
  ASSUME CallsTyped, NEW c \in Call,
         NEW pc \in {"score", "create", "run", "assemble"},
         NEW items \in SUBSET Items(pc), UNCHANGED runs,
         StartBatch(c, pc, items), Found(c, pc, items)
  PROVE  \E p, i : Moves(c, p, i)
BY DEF StartBatch, Goto, Moves, CallsTyped, Items, CallPC

\* and one that takes an item.
LEMMA TookMoves ==
  ASSUME CallsTyped, NEW c \in Call, NEW item, NEW success,
         UNCHANGED runs, Took(c, item, success)
  PROVE  \E pc, items : Moves(c, pc, items)
<1>1. Moves(c, at[c], todo[c] \ {item})
  BY DEF Took, Moves, Found, CallsTyped, Items
<1> QED BY <1>1

\* A batch takes some of what it finds.
LEMMA FirstTakesSome ==
  ASSUME NEW n, NEW S, NEW before
  PROVE  First(n, S, before) \subseteq S
BY DEF First

\* The steps of the batches move their call and leave its invocation and its
\* answer alone.
LEMMA BatchesMove ==
  ASSUME AutomationTypeOK, NEW c \in Call,
         \/ ReadQueue(c) \/ TakeScore(c) \/ EndRefresh(c) \/ ReadRunnable(c)
         \/ (\E j \in Job : CreatePlan(c, j)) \/ EndPlans(c)
         \/ ReadAttention(c) \/ EndPreparations(c) \/ StartBundles(c)
         \/ TakeBundle(c) \/ EndBundles(c) \/ ExecuteBatch(c)
  PROVE  /\ UNCHANGED <<call, told>>
         /\ \E pc, items : Moves(c, pc, items)
<1>0. /\ CallsTyped
      /\ {"refresh", "plan", "prepare", "bundle", "execute"}
            \subseteq BatchStage
      /\ {"score", "create", "run", "assemble"} \subseteq CallPC
  BY DEF AutomationTypeOK, BatchStage, CallPC
<1>1. CASE ReadQueue(c)
  <2>1. CASE StageSkipped(c, "refresh")
             \/ StageFails(c, "refresh", ~QueueIsReadable)
    BY <1>0, <1>1, <2>1, NoStageMoves DEF ReadQueue
  <2>2. ASSUME NEW n, NEW S \in SUBSET ListedJobs, NEW before,
               StartBatch(c, "score", First(n, S, before))
        PROVE  \E pc, items : Moves(c, pc, items)
    <3>1. First(n, S, before) \in SUBSET Items("score")
          /\ Found(c, "score", First(n, S, before))
      BY FirstTakesSome DEF ListedJobs, Items, Found
    <3>2. UNCHANGED runs
      BY <1>1 DEF ReadQueue, componentVars, preparationVars
    <3> QED BY <1>0, <2>2, <3>1, <3>2, StartBatchMoves
  <2> QED BY <1>1, <2>1, <2>2 DEF ReadQueue
<1>2. CASE TakeScore(c)
  <2>1. UNCHANGED runs
    BY <1>2 DEF TakeScore, preparationVars
  <2> QED BY <1>0, <1>2, <2>1, TookMoves DEF TakeScore
<1>3. CASE EndRefresh(c)
  BY <1>0, <1>3, EndStageMoves DEF EndRefresh, EndBatch
<1>4. CASE ReadRunnable(c)
  <2>1. CASE StageSkipped(c, "plan") \/ StageFails(c, "plan", ~QueueIsReadable)
    BY <1>0, <1>4, <2>1, NoStageMoves DEF ReadRunnable
  <2>2. ASSUME NEW S \in SUBSET {j \in ListedJobs : Runnable(j, Now(c))},
               StartBatch(c, "create", S)
        PROVE  \E pc, items : Moves(c, pc, items)
    <3>1. S \in SUBSET Items("create") /\ Found(c, "create", S)
      BY DEF ListedJobs, Items, Found
    <3>2. UNCHANGED runs
      BY <1>4 DEF ReadRunnable, componentVars, preparationVars
    <3> QED BY <1>0, <2>2, <3>1, <3>2, StartBatchMoves
  <2> QED BY <1>4, <2>1, <2>2 DEF ReadRunnable
<1>5. ASSUME NEW j \in Job, CreatePlan(c, j)
      PROVE  /\ UNCHANGED <<call, told>>
             /\ \E pc, items : Moves(c, pc, items)
  <2>1. UNCHANGED runs
    BY <1>5 DEF CreatePlan, componentVars, preparationVars
  <2> QED BY <1>0, <1>5, <2>1, TookMoves DEF CreatePlan
<1>6. CASE EndPlans(c)
  BY <1>0, <1>6, EndStageMoves DEF EndPlans, EndBatch
<1>7. CASE ReadAttention(c)
  <2>1. CASE StageSkipped(c, "prepare") \/ StageFails(c, "prepare", FALSE)
    BY <1>0, <1>7, <2>1, NoStageMoves DEF ReadAttention
  <2>2. ASSUME NEW n, NEW S \in SUBSET plans, NEW before,
               StartBatch(c, "run", First(n, S, before))
        PROVE  \E pc, items : Moves(c, pc, items)
    <3>1. First(n, S, before) \in SUBSET Items("run")
          /\ Found(c, "run", First(n, S, before))
      BY FirstTakesSome DEF Items, AutomationTypeOK, StoresTyped, Found
    <3>2. UNCHANGED runs
      BY <1>7 DEF ReadAttention, componentVars, preparationVars
    <3> QED BY <1>0, <2>2, <3>1, <3>2, StartBatchMoves
  <2> QED BY <1>7, <2>1, <2>2 DEF ReadAttention
<1>8. CASE EndPreparations(c)
  BY <1>0, <1>8, EndStageMoves DEF EndPreparations, EndBatch
<1>9. CASE StartBundles(c)
  <2>1. CASE StageSkipped(c, "bundle")
    BY <1>0, <1>9, <2>1, NoStageMoves DEF StartBundles
  <2>2. CASE EndStage(c, "bundle", TRUE, FALSE, TRUE, FALSE)
    BY <1>0, <1>9, <2>2, EndStageMoves DEF StartBundles
  <2>3. ASSUME NEW n, NEW before,
               StartBatch(c, "assemble", First(n, ready[c], before))
        PROVE  \E pc, items : Moves(c, pc, items)
    <3>1. First(n, ready[c], before) \in SUBSET Items("assemble")
          /\ Found(c, "assemble", First(n, ready[c], before))
      BY <1>0, FirstTakesSome DEF Items, CallsTyped, Found
    <3>2. UNCHANGED runs
      BY <1>9 DEF StartBundles, componentVars, preparationVars
    <3> QED BY <1>0, <2>3, <3>1, <3>2, StartBatchMoves
  <2> QED BY <1>9, <2>1, <2>2, <2>3 DEF StartBundles
<1>10. CASE TakeBundle(c)
  <2>1. UNCHANGED runs
    BY <1>10 DEF TakeBundle, preparationVars
  <2> QED BY <1>0, <1>10, <2>1, TookMoves DEF TakeBundle
<1>11. CASE EndBundles(c)
  BY <1>0, <1>11, EndStageMoves DEF EndBundles
<1>12. CASE ExecuteBatch(c)
  BY <1>0, <1>12, NoStageMoves, EndStageMoves DEF ExecuteBatch
<1> QED BY <1>1, <1>2, <1>3, <1>4, <1>5, <1>6, <1>7, <1>8, <1>9, <1>10,
        <1>11, <1>12

\* The answer of a run that is stored, or of none, is an answer.
LEMMA ToldTyped ==
  ASSUME CallsTyped, NEW c \in Call,
         NEW status \in CallStatus,
         NEW run \in StoredRun \cup {None},
         told' = [told EXCEPT ![c] = [status |-> status, run |-> run]]
  PROVE  told' \in [Call -> CallReply]
BY DEF CallsTyped, CallReply

\* What a call might store is a run.
LEMMA RunsOfCallTyped ==
  ASSUME AutomationTypeOK, NEW c \in Call, at[c] # "idle",
         NEW run \in RunsOfCall(c)
  PROVE  run \in StoredRun /\ run.overall \in Overall
<1>1. OverallsOf(c) \subseteq Overall
  <2>1. OverallOf(sum[c]) \in Overall
    BY DEF OverallOf, Overall
  <2> QED BY <2>1 DEF OverallsOf, Overall
<1> QED BY <1>1 DEF AutomationTypeOK, CallsTyped, RunsOfCall, StoredRun, Now

\* A run is something.
LEMMA RunIsNotNone == \A run \in StoredRun : run # None
BY NoRunAssumption

\* What may be an item stays one.
LEMMA ItemsGrow ==
  ASSUME runs \subseteq runs'
  PROVE  \A pc \in CallPC : Items(pc) \subseteq Items(pc)'
BY DEF Items

(* A step that leaves a call where it is, moves it as a batch does, hands  *)
(* it runs or an answer: each keeps the types of all calls.                *)
LEMMA CallsStayTyped ==
  ASSUME CallsTyped, NEW c \in Call, NEW pc, NEW items, runs \subseteq runs',
         Moves(c, pc, items), UNCHANGED call, at[c] # "idle",
         ready' \in [Call -> SUBSET runs'],
         told' \in [Call -> CallReply]
  PROVE  CallsTyped'
<1>1. (todo = [d \in Call |-> todo[d]])'
      /\ \A d \in Call : (todo[d] \subseteq Items(at[d]))'
  <2> SUFFICES ASSUME NEW d \in Call
               PROVE  (todo[d] \subseteq Items(at[d]))'
    BY DEF Moves, CallsTyped
  <2>1. CASE d = c
    BY <2>1 DEF Moves, CallsTyped
  <2>2. CASE d # c
    <3>1. at'[d] = at[d] /\ todo'[d] = todo[d] /\ at[d] \in CallPC
          /\ todo[d] \subseteq Items(at[d])
      BY <2>2 DEF Moves, CallsTyped
    <3> QED BY <3>1, ItemsGrow DEF Items
  <2> QED BY <2>1, <2>2
<1>2. \A d \in Call :
        at'[d] # "idle" => call'[d] \in [inv : Invocation, now : Moment]
  BY DEF Moves, CallsTyped
<1>3. at' \in [Call -> CallPC]
  BY DEF Moves, CallsTyped
<1>4. /\ good' \in [Call -> BOOLEAN] /\ bad' \in [Call -> BOOLEAN]
      /\ sum' \in [Call -> Summary]
      /\ call' \in [Call -> [inv : Invocation, now : Moment] \cup {None}]
  BY DEF Moves, CallsTyped
<1> QED BY <1>1, <1>2, <1>3, <1>4 DEF CallsTyped

\* What goes on in the components leaves the calls alone.
LEMMA CallsWait ==
  ASSUME CallsTyped, UNCHANGED callVars, runs \subseteq runs'
  PROVE  CallsTyped'
<1>1. (todo = [d \in Call |-> todo[d]])'
      /\ \A d \in Call : (todo[d] \subseteq Items(at[d]))'
  BY DEF CallsTyped, Items, callVars
<1>2. ready' \in [Call -> SUBSET runs']
  BY DEF CallsTyped, callVars
<1> QED BY <1>1, <1>2 DEF CallsTyped, callVars

\* A call that is over has nothing left to do, and no others' types change.
LEMMA CallOverTyped ==
  ASSUME CallsTyped, NEW c \in Call, CallOver(c), UNCHANGED runs
  PROVE  CallsTyped'
<1>1. (todo = [d \in Call |-> todo[d]])'
      /\ \A d \in Call : (todo[d] \subseteq Items(at[d]))'
  BY DEF CallOver, Goto, CallsTyped, Items
<1>2. NoStage \in Summary
      /\ NotTold \in CallReply
  BY DEF NoStage, Searched, Summary, NotTold, CallReply, CallStatus
<1>3. /\ ready' \in [Call -> SUBSET runs']
      /\ good' \in [Call -> BOOLEAN] /\ bad' \in [Call -> BOOLEAN]
      /\ at' \in [Call -> CallPC]
  BY DEF CallOver, Goto, CallsTyped, CallPC
<1>4. /\ sum' \in [Call -> Summary]
      /\ told' \in [Call -> CallReply]
  <2> HIDE DEF NoStage, NotTold, Summary, CallReply
  <2> QED BY <1>2 DEF CallOver, CallsTyped
<1>5. /\ call' \in [Call -> [inv : Invocation, now : Moment] \cup {None}]
      /\ \A d \in Call :
           at'[d] # "idle" => call'[d] \in [inv : Invocation, now : Moment]
  BY DEF CallOver, Goto, CallsTyped
<1> QED BY <1>1, <1>3, <1>4, <1>5 DEF CallsTyped

\* A save takes its call from one of its steps to a later one, and leaves what
\* it was to do and all other stores alone.
LEMMA SavingGoes ==
  ASSUME NEW c \in Call, SaveCycle(c)
  PROVE  /\ at[c] \in {"save", "write", "sync", "compare"}
         /\ \E pc \in {"write", "sync", "compare", "done"} :
              /\ Goto(c, pc) /\ Rank(at[c]) <= Rank(pc)
              /\ pc # at[c]
              /\ pc \in {"write", "sync"} => at[c] # "compare"
         /\ UNCHANGED <<posting, plans, serves, call, todo, good, bad, ready,
                        sum, componentVars>>
<1>1. /\ Rank("save") <= Rank("write") /\ Rank("save") <= Rank("compare")
      /\ Rank("save") <= Rank("done") /\ Rank("write") <= Rank("sync")
      /\ Rank("write") <= Rank("done") /\ Rank("sync") <= Rank("done")
      /\ Rank("compare") <= Rank("done")
  BY DEF Rank
<1>2. CASE CreateRun(c)
  BY <1>1, <1>2 DEF CreateRun, SaveCycle
<1>3. CASE WriteRun(c)
  BY <1>1, <1>3 DEF WriteRun, SaveCycle
<1>4. CASE SyncRun(c)
  BY <1>1, <1>4 DEF SyncRun, Tell, SaveCycle
<1>5. CASE SaveFails(c)
  BY <1>1, <1>5 DEF SaveFails, Tell, SaveCycle
<1>6. CASE CompareRun(c)
  BY <1>1, <1>6 DEF CompareRun, Tell, SaveCycle
<1> QED BY <1>2, <1>3, <1>4, <1>5, <1>6 DEF SaveCycle

\* The three kinds of step: in a component, along the batches, to the end.
LEMMA CallStepShape ==
  ASSUME AutomationTypeOK, NEW c \in Call, CallStep(c)
  PROVE  \/ UNCHANGED callVars
         \/ /\ UNCHANGED call /\ at[c] # "idle"
            /\ \E pc, items : Moves(c, pc, items)
         \/ CallOver(c) /\ UNCHANGED <<storeVars, componentVars>>
<1>0. CallsTyped
  BY DEF AutomationTypeOK
<1>1. CASE \/ ReadQueue(c) \/ TakeScore(c) \/ EndRefresh(c) \/ ReadRunnable(c)
           \/ (\E j \in Job : CreatePlan(c, j)) \/ EndPlans(c)
           \/ ReadAttention(c) \/ EndPreparations(c) \/ StartBundles(c)
           \/ TakeBundle(c) \/ EndBundles(c) \/ ExecuteBatch(c)
  <2>1. UNCHANGED call /\ \E pc, items : Moves(c, pc, items)
    BY <1>1, BatchesMove
  <2>2. at[c] # "idle"
    BY <1>1 DEF ReadQueue, TakeScore, EndRefresh, ReadRunnable, CreatePlan,
       EndPlans, ReadAttention, EndPreparations, StartBundles, TakeBundle,
       EndBundles, ExecuteBatch
  <2> QED BY <2>1, <2>2
<1>2. CASE \/ (\E j \in Job : ScoreJob(c, j)) \/ ScoringRuns(c)
           \/ (\E p \in Plan : PreparePlan(c, p)) \/ PreparationRuns(c)
           \/ (\E r \in runs : AssembleBundle(c, r)) \/ AssemblyRuns(c)
  BY <1>2 DEF ScoreJob, ScoringRuns, PreparePlan, PreparationRuns,
     AssembleBundle, AssemblyRuns
<1>3. CASE TakePreparation(c)
  <2>1. UNCHANGED runs
    BY <1>3 DEF TakePreparation, EndPreparation, PreparationOver
  <2> QED BY <1>0, <1>3, <2>1, TookMoves DEF TakePreparation
<1>4. CASE ReadRun(c)
  <2>1. PICK pc \in {"done", "list", "refresh"} : Goto(c, pc)
    BY <1>4 DEF ReadRun, Tell
  <2>2. Moves(c, pc, todo[c])
    BY <1>0, <1>4, <2>1
       DEF ReadRun, Goto, Moves, Found, CallsTyped, CallPC, Items
  <2> QED BY <1>4, <2>2 DEF ReadRun
<1>5. CASE EndDiscovery(c)
  <2>1. sum' \in [Call -> Summary]
    BY <1>0, <1>5 DEF EndDiscovery, Searched, Summary, CallsTyped
  <2>2. Moves(c, "refresh", todo[c])
    BY <1>0, <1>5, <2>1
       DEF EndDiscovery, Goto, Moves, Found, CallsTyped, CallPC, Items
  <2> QED BY <1>5, <2>2 DEF EndDiscovery
<1>6. CASE SaveCycle(c)
  <2>1. PICK pc \in {"write", "sync", "compare", "done"} : Goto(c, pc)
    BY <1>6, SavingGoes
  <2>2. Moves(c, pc, todo[c])
    BY <1>0, <1>6, <2>1, SavingGoes
       DEF Goto, Moves, Found, CallsTyped, CallPC, Items
  <2> QED BY <1>6, <2>2, SavingGoes
<1>7. CASE EndCall(c)
  BY <1>7 DEF EndCall
<1>8. CASE ListProfiles(c)
  <2>1. PICK pc \in {"discover", "save"} : Goto(c, pc)
    BY <1>8 DEF ListProfiles
  <2>2. sum' \in [Call -> Summary]
    <3>1. Searched(TRUE, FALSE, FALSE) \in Summary
      BY DEF Searched, Summary
    <3> QED BY <1>0, <1>8, <3>1 DEF ListProfiles, CallsTyped
  <2>3. Moves(c, pc, todo[c])
    BY <1>0, <1>8, <2>1, <2>2
       DEF ListProfiles, Goto, Moves, Found, CallsTyped, CallPC, Items
  <2> QED BY <1>8, <2>3 DEF ListProfiles
<1> QED BY <1>1, <1>2, <1>3, <1>4, <1>5, <1>6, <1>7, <1>8 DEF CallStep

\* What a call has ready comes from its batch of preparations.
LEMMA ReadyComesFromTheBatch ==
  ASSUME NEW c \in Call, CallStep(c)
  PROVE  \/ TakePreparation(c) \/ EndPreparations(c) \/ EndCall(c)
         \/ UNCHANGED ready
BY DEF CallStep, ReadRun, ListProfiles, EndDiscovery, ReadQueue, ScoreJob,
   ScoringRuns, TakeScore, EndRefresh, ReadRunnable, CreatePlan, EndPlans,
   ReadAttention, PreparePlan, PreparationRuns, StartBundles,
   AssembleBundle, AssemblyRuns, TakeBundle, EndBundles, ExecuteBatch,
   SaveCycle, callVars

\* What a call has ready are runs that are stored and completed: none is
\* added but a completed one, when its preparation ends, and a call keeps them
\* until its batch of preparations or the call itself is over.
LEMMA ReadyStep ==
  ASSUME AutomationTypeOK, PreparationInv, NEW c \in Call, CallStep(c)
  PROVE  /\ ready' \in [Call -> SUBSET runs']
         /\ \A d \in Call : ready'[d] \subseteq ready[d] \cup CompletedRuns
         /\ CallOver(c) \/ at'[c] # "assemble" \/ ready[c] \subseteq ready'[c]
         /\ \A d \in Call \ {c} : ready'[d] = ready[d]
<1>0. CallsTyped
  BY DEF AutomationTypeOK
<1>1. CASE TakePreparation(c)
  <2>1. UNCHANGED runs /\ at[c] = "run"
    BY <1>1 DEF TakePreparation, EndPreparation, PreparationOver
  <2>2. CASE prepared[c].status \in {"COMPLETED", "UNCHANGED"}
    <3>1. prepared[c].run \in CompletedRuns
      BY <2>2 DEF PreparationInv, LineageIsStored, CompletedRuns
    <3>2. ready' = [ready EXCEPT ![c] = @ \cup {prepared[c].run}]
      BY <1>1, <2>2 DEF TakePreparation
    <3> QED BY <1>0, <2>1, <3>1, <3>2 DEF CallsTyped, CompletedRuns
  <2>3. CASE prepared[c].status \notin {"COMPLETED", "UNCHANGED"}
    <3>1. ready' = [ready EXCEPT ![c] = @]
      BY <1>1, <2>3 DEF TakePreparation
    <3> QED BY <1>0, <2>1, <3>1 DEF CallsTyped
  <2> QED BY <2>2, <2>3
<1>2. CASE EndCall(c)
  BY <1>0, <1>2 DEF EndCall, CallOver, CallsTyped, componentVars,
     preparationVars
<1>3. CASE ~TakePreparation(c) /\ ~EndCall(c) /\ ~EndPreparations(c)
  <2>1. UNCHANGED ready
    BY <1>3, ReadyComesFromTheBatch
  <2>2. runs \subseteq runs'
    <3>1. CASE PreparationRuns(c)
      BY <3>1, RunsStay DEF PreparationRuns, PreparationNext
    <3>2. CASE ~PreparationRuns(c)
      BY <1>3, <3>2 DEF CallStep, ReadRun, ListProfiles, EndDiscovery,
         ReadQueue, ScoreJob, ScoringRuns, TakeScore, EndRefresh, ReadRunnable,
         CreatePlan, EndPlans, ReadAttention, PreparePlan, BeginPreparation,
         EndPreparations, StartBundles, AssembleBundle, AssemblyRuns,
         TakeBundle, EndBundles, ExecuteBatch, SaveCycle, componentVars,
         preparationVars
    <3> QED BY <3>1, <3>2
  <2> QED BY <1>0, <2>1, <2>2 DEF CallsTyped
<1>4. CASE EndPreparations(c)
  <2>1. UNCHANGED runs
    BY <1>4 DEF EndPreparations, componentVars, preparationVars
  <2>2. CASE UNCHANGED ready
    BY <1>0, <2>1, <2>2 DEF CallsTyped
  <2>3. CASE ready' = [ready EXCEPT ![c] = {}]
             /\ EndStage(c, "prepare", TRUE, FALSE, FALSE, TRUE)
    <3>1. at'[c] # "assemble"
      BY <1>0, <2>3 DEF EndStage, Advance, After, Goto, CallsTyped
    <3> QED BY <1>0, <2>1, <2>3, <3>1 DEF CallsTyped
  <2> QED BY <1>4, <2>2, <2>3 DEF EndPreparations
<1> QED BY <1>1, <1>2, <1>3, <1>4

\* What a call answers keeps its type.
LEMMA ToldStepTyped ==
  ASSUME AutomationTypeOK, SaversAreAlone, NEW c \in Call, CallStep(c)
  PROVE  told' \in [Call -> CallReply]
<1>0. CallsTyped
  BY DEF AutomationTypeOK
<1>1. CASE ReadRun(c)
  <2>1. cycles[call[c].inv] \in StoredRun \cup {None}
    BY <1>1 DEF ReadRun, AutomationTypeOK, StoresTyped, CallsTyped
  <2>2. CASE UNCHANGED told
    BY <1>0, <2>2 DEF CallsTyped
  <2>3. CASE \/ Tell(c, "UNCHANGED", cycles[call[c].inv])
             \/ Tell(c, "UNREADABLE", None)
    BY <1>0, <2>1, <2>3, ToldTyped DEF Tell, CallStatus
  <2> QED BY <1>1, <2>2, <2>3 DEF ReadRun
<1>2. CASE SaveCycle(c)
  <2>1. CASE UNCHANGED told
    BY <1>0, <2>1 DEF CallsTyped
  <2>2. CASE SyncRun(c)
    <3>1. /\ cycles[call[c].inv] \in StoredRun
          /\ cycles[call[c].inv].overall \in Overall
      BY <2>2 DEF SyncRun, SaversAreAlone, AutomationTypeOK, StoresTyped,
         CallsTyped, StoredRun
    <3> QED BY <1>0, <2>2, <3>1, ToldTyped DEF SyncRun, Tell, CallStatus
  <2>3. CASE SaveFails(c)
    BY <1>0, <2>3, ToldTyped DEF SaveFails, Tell, CallStatus
  <2>4. CASE CompareRun(c)
    <3>1. at[c] # "idle"
      BY <2>4 DEF CompareRun
    <3>2. PICK run \in RunsOfCall(c) :
            Tell(c, "UNCHANGED", run) \/ Tell(c, "NOT_STORED", None)
      BY <2>4 DEF CompareRun
    <3>3. run \in StoredRun
      BY <3>1, RunsOfCallTyped
    <3> QED BY <1>0, <3>2, <3>3, ToldTyped DEF Tell, CallStatus
  <2> QED BY <1>2, <2>1, <2>2, <2>3, <2>4 DEF SaveCycle, CreateRun, WriteRun
<1>3. CASE EndCall(c)
  BY <1>0, <1>3, ToldTyped DEF EndCall, CallOver, NotTold, CallStatus
<1>4. CASE ~ReadRun(c) /\ ~SaveCycle(c) /\ ~EndCall(c)
  <2>1. UNCHANGED told
    BY <1>4 DEF CallStep, ListProfiles, EndDiscovery, ReadQueue, ScoreJob,
       ScoringRuns, TakeScore, EndRefresh, ReadRunnable, CreatePlan, EndPlans,
       ReadAttention, PreparePlan, PreparationRuns, TakePreparation,
       EndPreparations, StartBundles, AssembleBundle, AssemblyRuns, TakeBundle,
       EndBundles, ExecuteBatch, callVars
  <2> QED BY <1>0, <2>1 DEF CallsTyped
<1> QED BY <1>1, <1>2, <1>3, <1>4

\* A step of a call keeps the types of all calls.
LEMMA CallStepTyped ==
  ASSUME AutomationTypeOK, TakenJobsAreListed, PreparationInv,
         SaversAreAlone, NEW c \in Call, CallStep(c)
  PROVE  CallsTyped'
<1>0. CallsTyped /\ runs \subseteq runs'
  BY CallStepIsTheirs, RunsStay DEF AutomationTypeOK
<1>1. CASE UNCHANGED callVars
  BY <1>0, <1>1, CallsWait
<1>2. CASE /\ UNCHANGED call /\ at[c] # "idle"
           /\ \E pc, items : Moves(c, pc, items)
  BY <1>0, <1>2, CallsStayTyped, ReadyStep, ToldStepTyped
<1>3. CASE CallOver(c) /\ UNCHANGED <<storeVars, componentVars>>
  BY <1>0, <1>3, CallOverTyped DEF componentVars, preparationVars
<1> QED BY <1>1, <1>2, <1>3, CallStepShape

\* Who changes the library, the plans and the stored runs, and the count of
\* what went wrong.
LEMMA StoresStepTyped ==
  ASSUME AutomationTypeOK, TakenJobsAreListed, SaversAreAlone,
         NEW c \in Call, CallStep(c)
  PROVE  /\ StoresTyped' /\ UNCHANGED posting
<1>0. StoresTyped
  BY DEF AutomationTypeOK
<1>1. mishaps' \in 0..MaxMishaps
  <2>1. \/ UNCHANGED mishaps
        \/ mishaps < MaxMishaps /\ mishaps' = mishaps + 1
    BY DEF CallStep, ReadRun, ListProfiles, EndDiscovery, ReadQueue, ScoreJob,
       ScoringRuns, TakeScore, EndRefresh, ReadRunnable, CreatePlan, EndPlans,
       ReadAttention, PreparePlan, PreparationRuns, TakePreparation,
       EndPreparations, StartBundles, AssembleBundle, AssemblyRuns, TakeBundle,
       EndBundles, ExecuteBatch, SaveCycle, CreateRun, WriteRun, SyncRun,
       SaveFails, CompareRun, EndCall, StageFails, Mishap
  <2> QED BY <1>0, <2>1, AutomationAssumption DEF StoresTyped
<1>2. CASE \E j \in Job : CreatePlan(c, j)
  <2>1. PICK j \in Job : CreatePlan(c, j)
    BY <1>2
  <2>2. Expected(j, Now(c)) \in Plan
    BY <2>1, ExpectedIsBinding, AutomationAssumption DEF CreatePlan
  <2> QED BY <1>0, <1>1, <2>1, <2>2 DEF StoresTyped, CreatePlan, recordVars
<1>3. CASE SaveCycle(c)
  <2>1. call[c].inv \in Invocation /\ at[c] # "idle"
    BY <1>3, SavingGoes DEF AutomationTypeOK, CallsTyped
  <2>2. \A run \in RunsOfCall(c) : run \in StoredRun
    BY <2>1, RunsOfCallTyped
  <2>3. /\ cycles' \in [Invocation -> StoredRun \cup {None}]
        /\ torn' \subseteq Invocation
        /\ withdrawn' \subseteq Invocation \X StoredRun
    <3>1. CASE CreateRun(c) \/ SyncRun(c) \/ CompareRun(c)
      BY <1>0, <2>1, <3>1
         DEF CreateRun, SyncRun, CompareRun, recordVars, StoresTyped
    <3>2. CASE WriteRun(c)
      BY <1>0, <2>1, <2>2, <3>2 DEF WriteRun, StoresTyped
    <3>3. CASE SaveFails(c)
      <4>1. at[c] = "sync" => cycles[call[c].inv] \in StoredRun
        BY <1>0, <2>1 DEF SaversAreAlone, StoresTyped
      <4>2. /\ cycles' \in [Invocation -> StoredRun \cup {None}]
            /\ torn' \subseteq Invocation
        BY <1>0, <2>1, <3>3 DEF SaveFails, StoresTyped
      <4>3. withdrawn' \subseteq Invocation \X StoredRun
        BY <1>0, <2>1, <3>3, <4>1 DEF SaveFails, StoresTyped
      <4> QED BY <4>2, <4>3
    <3> QED BY <1>3, <3>1, <3>2, <3>3 DEF SaveCycle
  <2>4. UNCHANGED <<posting, plans>>
    BY <1>3, SavingGoes
  <2> QED BY <1>0, <1>1, <2>3, <2>4 DEF StoresTyped
<1>4. CASE ~SaveCycle(c) /\ ~\E j \in Job : CreatePlan(c, j)
  <2>1. UNCHANGED storeVars
    BY <1>4 DEF CallStep, ReadRun, ListProfiles, EndDiscovery, ReadQueue,
       ScoreJob, ScoringRuns, TakeScore, EndRefresh, ReadRunnable, EndPlans,
       ReadAttention, PreparePlan, PreparationRuns, TakePreparation,
       EndPreparations, StartBundles, AssembleBundle, AssemblyRuns, TakeBundle,
       EndBundles, ExecuteBatch, EndCall
  <2> QED BY <1>0, <1>1, <2>1 DEF StoresTyped, storeVars, recordVars
<1> QED BY <1>2, <1>3, <1>4

\* The steps of Next other than those of a call.
LEMMA OtherStepsTyped ==
  ASSUME AutomationTypeOK, NEW c \in Call,
         \/ \E i \in Invocation, t \in Moment : BeginCall(c, i, t)
         \/ \E j \in Job : Discover(c, j)
         \/ Crash(c)
  PROVE  StoresTyped' /\ CallsTyped' /\ UNCHANGED <<plans, recordVars>>
<1>0. CallsTyped /\ StoresTyped
  BY DEF AutomationTypeOK
<1>1. ASSUME NEW i \in Invocation, NEW t \in Moment, BeginCall(c, i, t)
      PROVE  StoresTyped' /\ CallsTyped' /\ UNCHANGED <<plans, recordVars>>
  <2>1. UNCHANGED <<mishaps, storeVars, todo, good, bad, ready, sum, told,
                    runs>>
    BY <1>1 DEF BeginCall, componentVars, preparationVars
  <2>2. (todo = [d \in Call |-> todo[d]])'
        /\ \A d \in Call : (todo[d] \subseteq Items(at[d]))'
    BY <1>0, <1>1, <2>1 DEF BeginCall, Goto, CallsTyped, Items
  <2>3. /\ at' \in [Call -> CallPC]
        /\ call' \in [Call -> [inv : Invocation, now : Moment] \cup {None}]
        /\ \A d \in Call :
             at'[d] # "idle" => call'[d] \in [inv : Invocation, now : Moment]
    BY <1>0, <1>1 DEF BeginCall, Goto, CallsTyped, CallPC
  <2> QED BY <1>0, <2>1, <2>2, <2>3
          DEF CallsTyped, StoresTyped, storeVars, recordVars
<1>2. ASSUME NEW j \in Job, Discover(c, j)
      PROVE  StoresTyped' /\ CallsTyped' /\ UNCHANGED <<plans, recordVars>>
  <2>1. UNCHANGED callVars /\ UNCHANGED <<runs, mishaps, plans, recordVars>>
    BY <1>2 DEF Discover, componentVars, preparationVars
  <2>2. posting' \in [Job -> 0..MaxRevision]
    <3>1. posting[j] + 1 \in 0..MaxRevision
      BY <1>0, <1>2, AutomationAssumption DEF Discover, StoresTyped
    <3> QED BY <1>0, <1>2, <3>1 DEF Discover, StoresTyped
  <2> QED BY <1>0, <2>1, <2>2, CallsWait DEF StoresTyped, recordVars
<1>3. CASE Crash(c)
  <2>1. UNCHANGED <<storeVars, runs>>
    BY <1>3 DEF Crash, PreparationCrash, PreparationOver, preparationVars
  <2>2. mishaps' \in 0..MaxMishaps
    BY <1>0, <1>3, AutomationAssumption DEF Crash, Mishap, StoresTyped
  <2>3. CallsTyped'
    BY <1>0, <1>3, <2>1, CallOverTyped DEF Crash
  <2> QED BY <1>0, <2>1, <2>2, <2>3 DEF StoresTyped, storeVars, recordVars
<1> QED BY <1>1, <1>2, <1>3

-----------------------------------------------------------------------------
(* The invariant                                                           *)

(* The types and what the components promise, the chain from decision to   *)
(* bundle with what is on its way along it, and the answers.               *)
IInv ==
  /\ AutomationTypeOK /\ TakenJobsAreListed
  /\ ScoringInv /\ PreparationInv /\ SealingInv
  /\ CallsFollowTheChain /\ EvidenceChain
  /\ SaversAreAlone /\ ToldIsStored

\* A step keeps the types of everything.
LEMMA AutomationTyped ==
  ASSUME IInv, [Next]_vars
  PROVE  AutomationTypeOK'
<1>1. ComponentsTyped'
  BY ComponentsKept DEF IInv
<1>2. CASE UNCHANGED vars
  <2>1. StoresTyped'
    BY <1>2 DEF vars, storeVars, recordVars, IInv, AutomationTypeOK,
       StoresTyped
  <2>2. CallsTyped'
    BY <1>2, CallsWait DEF vars, preparationVars, IInv, AutomationTypeOK
  <2> QED BY <1>1, <2>1, <2>2 DEF AutomationTypeOK
<1>3. ASSUME NEW c \in Call, CallStep(c)
      PROVE  StoresTyped' /\ CallsTyped'
  BY <1>3, StoresStepTyped, CallStepTyped DEF IInv
<1> QED BY <1>1, <1>2, <1>3, OtherStepsTyped DEF IInv, AutomationTypeOK, Next

\* What was taken from a queue of listed postings stays listed.
LEMMA TakenStepListed ==
  ASSUME IInv, [Next]_vars
  PROVE  TakenJobsAreListed'
<1>0. CallsTyped /\ StoresTyped
  BY DEF IInv, AutomationTypeOK
<1>1. ASSUME NEW c \in Call, CallStep(c)
      PROVE  TakenJobsAreListed'
  <2>0. UNCHANGED posting
    BY <1>1, StoresStepTyped DEF IInv
  <2>1. CASE UNCHANGED callVars
    BY <2>0, <2>1 DEF callVars, IInv, TakenJobsAreListed
  <2>2. ASSUME NEW pc, NEW items, Moves(c, pc, items)
        PROVE  TakenJobsAreListed'
    BY <1>0, <2>0, <2>2 DEF Moves, Found, ListedJobs, CallsTyped, IInv,
       TakenJobsAreListed
  <2>3. CASE CallOver(c)
    BY <1>0, <2>0, <2>3
       DEF CallOver, Goto, CallsTyped, IInv, TakenJobsAreListed
  <2> QED BY <1>1, <2>1, <2>2, <2>3, CallStepShape DEF IInv
<1>2. ASSUME NEW c \in Call, NEW i \in Invocation, NEW t \in Moment,
             BeginCall(c, i, t)
      PROVE  TakenJobsAreListed'
  BY <1>0, <1>2
     DEF BeginCall, Goto, storeVars, CallsTyped, IInv, TakenJobsAreListed
<1>3. ASSUME NEW c \in Call, NEW j \in Job, Discover(c, j)
      PROVE  TakenJobsAreListed'
  <2>1. \A k \in Job : posting[k] > 0 => posting'[k] > 0
    BY <1>0, <1>3 DEF Discover, StoresTyped
  <2>2. \A d \in Call : at[d] \in {"score", "create"} => todo[d] \subseteq Job
    BY <1>0 DEF CallsTyped, Items
  <2> QED BY <1>3, <2>1, <2>2 DEF Discover, callVars, IInv, TakenJobsAreListed
<1>4. ASSUME NEW c \in Call, Crash(c)
      PROVE  TakenJobsAreListed'
  BY <1>0, <1>4
     DEF Crash, CallOver, Goto, storeVars, CallsTyped, IInv,
     TakenJobsAreListed
<1>5. CASE UNCHANGED vars
  BY <1>5 DEF vars, storeVars, callVars, IInv, TakenJobsAreListed
<1> QED BY <1>1, <1>2, <1>3, <1>4, <1>5 DEF Next

-----------------------------------------------------------------------------
(* The chain from decision to bundle                                       *)

\* Completed runs stay, and a new run is of the Plan of a call at work.
LEMMA RunsStep ==
  ASSUME [PreparationNext]_preparationVars
  PROVE  /\ CompletedRuns \subseteq CompletedRuns'
         /\ \A r \in runs' \ runs :
              \E p \in Call : preparing[p] # "idle" /\ r.plan = job[p].plan
<1>1. CompletedRuns \subseteq CompletedRuns'
  BY RunsStay DEF CompletedRuns
<1>2. ASSUME NEW p \in Call, PreparationStep(p), NEW r \in runs' \ runs
      PROVE  preparing[p] # "idle" /\ r.plan = job[p].plan
  BY <1>2 DEF PreparationStep, FindCurrent, StageSucceeds, SkipLayout,
     StageStops, SaveRun, RunOf
<1>3. ASSUME ~\E p \in Call : PreparationStep(p)
      PROVE  runs' = runs
  BY <1>3 DEF PreparationNext, BeginPreparation, EndPreparation,
     PreparationCrash, PreparationOver, preparationVars
<1> QED BY <1>1, <1>2, <1>3

\* A new record is of the input of a call at work.
LEMMA RecordsStep ==
  ASSUME [AssemblyNext]_assemblyVars
  PROVE  \A i \in record' \ record :
           \E a \in Call : assembling[a] # "idle" /\ i = input[a]
<1>1. ASSUME NEW a \in Call, AssemblyStep(a), NEW i \in record' \ record
      PROVE  assembling[a] # "idle" /\ i = input[a]
  BY <1>1 DEF AssemblyStep, CheckInputs, FindReplay, SaveRecord,
     SettleRecord, SealBundle
<1>2. ASSUME ~\E a \in Call : AssemblyStep(a)
      PROVE  record' = record
  BY <1>2 DEF AssemblyNext, BeginAssembly, EndAssembly, AssemblyCrash,
     AssemblyOver, assemblyVars
<1> QED BY <1>1, <1>2

\* Plans stay, and a new one has a completed, qualified decision.
LEMMA PlansStep ==
  ASSUME IInv, [Next]_vars
  PROVE  /\ plans \subseteq plans'
         /\ \A p \in plans' \ plans :
              claim'[p] = "COMPLETED" /\ decision'[p] = "QUALIFIED"
<1>1. ASSUME NEW c \in Call, NEW j \in Job, CreatePlan(c, j)
      PROVE  /\ plans \subseteq plans'
             /\ \A p \in plans' \ plans :
                  claim'[p] = "COMPLETED" /\ decision'[p] = "QUALIFIED"
  <2>1. UNCHANGED <<claim, decision>>
    BY <1>1 DEF CreatePlan, componentVars, scoringVars
  <2>2. Runnable(j, Now(c)) =>
          /\ claim[Expected(j, Now(c))] = "COMPLETED"
          /\ decision[Expected(j, Now(c))] = "QUALIFIED"
    BY DEF Runnable, QueueStatus
  <2> QED BY <1>1, <2>1, <2>2 DEF CreatePlan
<1>2. ASSUME NEW c \in Call, CallStep(c), ~\E j \in Job : CreatePlan(c, j)
      PROVE  UNCHANGED plans
  BY <1>2 DEF CallStep, ReadRun, ListProfiles, EndDiscovery, ReadQueue,
     ScoreJob, ScoringRuns, TakeScore, EndRefresh, ReadRunnable, EndPlans,
     ReadAttention, PreparePlan, PreparationRuns, TakePreparation,
     EndPreparations, StartBundles, AssembleBundle, AssemblyRuns, TakeBundle,
     EndBundles, ExecuteBatch, SaveCycle, EndCall, storeVars
<1>3. CASE UNCHANGED vars
  BY <1>3 DEF vars, storeVars
<1> QED BY <1>1, <1>2, <1>3, OtherStepsTyped DEF IInv, Next

\* Every link of the chain still stands after a step, and the new links are
\* fastened to it.
LEMMA ChainStep ==
  ASSUME IInv, [Next]_vars
  PROVE  EvidenceChain'
<1>0. /\ [ScoringNext]_scoringVars /\ [PreparationNext]_preparationVars
      /\ [AssemblyNext]_assemblyVars
  BY StepIsTheirs DEF IInv
<1>1. PlansHaveDecisions'
  <2>1. \A p \in plans : p \in Binding
    BY AutomationAssumption DEF IInv, AutomationTypeOK, StoresTyped
  <2>2. \A p \in plans :
          claim'[p] = "COMPLETED" /\ decision'[p] = "QUALIFIED"
    BY <1>0, <2>1, CompletedStays DEF IInv, AutomationTypeOK, ComponentsTyped,
       EvidenceChain, PlansHaveDecisions
  <2> QED BY <2>2, PlansStep DEF PlansHaveDecisions
<1>2. RunsHavePlans'
  BY <1>0, RunsStep, PlansStep
     DEF IInv, EvidenceChain, RunsHavePlans, CallsFollowTheChain
<1>3. RecordsHaveRuns'
  <2>1. \A i \in record' : \E r \in CompletedRuns : Lineage(r) = i
    BY <1>0, RecordsStep
       DEF IInv, EvidenceChain, RecordsHaveRuns, CallsFollowTheChain
  <2>2. CompletedRuns \subseteq CompletedRuns'
    BY <1>0, RunsStep
  <2> QED BY <2>1, <2>2 DEF RecordsHaveRuns, Lineage
<1> QED BY <1>1, <1>2, <1>3 DEF EvidenceChain

\* A preparation begins with a Plan its batch has taken, and keeps it.
LEMMA PreparingStep ==
  ASSUME IInv, [Next]_vars, NEW d \in Call, preparing'[d] # "idle"
  PROVE  \/ preparing[d] # "idle" /\ job'[d] = job[d]
         \/ at[d] = "run" /\ job'[d].plan \in todo[d]
<1>0. /\ preparing \in [Call -> PreparationPC]
      /\ job \in [Call -> [plan : Plan, at : Moment] \cup {None}]
  BY DEF IInv, AutomationTypeOK, ComponentsTyped, PreparationTypeOK
<1>1. ASSUME NEW c \in Call, NEW p \in Plan, PreparePlan(c, p)
      PROVE  \/ preparing[d] # "idle" /\ job'[d] = job[d]
             \/ at[d] = "run" /\ job'[d].plan \in todo[d]
  BY <1>0, <1>1 DEF PreparePlan, BeginPreparation
<1>2. ASSUME NEW c \in Call, PreparationStep(c)
      PROVE  preparing[d] # "idle" /\ job'[d] = job[d]
  BY <1>0, <1>2 DEF PreparationStep, FindCurrent, StageSucceeds, SkipLayout,
     StageStops, SaveRun, GoOn, Answer
<1>3. ASSUME NEW c \in Call, PreparationOver(c)
      PROVE  preparing[d] # "idle" /\ job'[d] = job[d]
  BY <1>0, <1>3 DEF PreparationOver
<1>4. CASE UNCHANGED preparationVars
  BY <1>4 DEF preparationVars
<1>5. ASSUME NEW c \in Call, CallStep(c)
      PROVE  \/ \E p \in Plan : PreparePlan(c, p)
             \/ PreparationStep(c) \/ PreparationOver(c)
             \/ UNCHANGED preparationVars
  BY <1>5 DEF CallStep, ReadRun, ListProfiles, EndDiscovery, ReadQueue,
     ScoreJob, ScoringRuns, TakeScore, EndRefresh, ReadRunnable, CreatePlan,
     EndPlans, ReadAttention, PreparationRuns, TakePreparation, EndPreparation,
     EndPreparations, StartBundles, AssembleBundle, AssemblyRuns, TakeBundle,
     EndBundles, ExecuteBatch, SaveCycle, EndCall, componentVars
<1>6. ASSUME NEW c \in Call, ~CallStep(c), ~UNCHANGED vars,
             \/ \E i \in Invocation, t \in Moment : BeginCall(c, i, t)
             \/ \E j \in Job : Discover(c, j)
             \/ Crash(c)
      PROVE  PreparationOver(c) \/ UNCHANGED preparationVars
  BY <1>6 DEF BeginCall, Discover, Crash, PreparationCrash, componentVars
<1>7. UNCHANGED vars => UNCHANGED preparationVars
  BY DEF vars
<1> QED BY <1>1, <1>2, <1>3, <1>4, <1>5, <1>6, <1>7 DEF Next

\* An assembly begins with a run its batch has taken, and keeps it.
LEMMA AssemblingStep ==
  ASSUME IInv, [Next]_vars, NEW d \in Call, assembling'[d] # "idle"
  PROVE  \/ assembling[d] # "idle" /\ input'[d] = input[d]
         \/ at[d] = "assemble" /\ \E r \in todo[d] : input'[d] = Lineage(r)
<1>0. /\ assembling \in [Call -> AssemblyPC]
      /\ input \in [Call -> Input \cup {None}]
  BY DEF IInv, AutomationTypeOK, ComponentsTyped, AssemblyTypeOK
<1>1. ASSUME NEW c \in Call, NEW r \in runs, AssembleBundle(c, r)
      PROVE  \/ assembling[d] # "idle" /\ input'[d] = input[d]
             \/ at[d] = "assemble" /\ \E q \in todo[d] : input'[d] = Lineage(q)
  BY <1>0, <1>1 DEF AssembleBundle, BeginAssembly
<1>2. ASSUME NEW c \in Call, AssemblyStep(c)
      PROVE  assembling[d] # "idle" /\ input'[d] = input[d]
  BY <1>0, <1>2 DEF AssemblyStep, CheckInputs, FindReplay, SaveRecord,
     SettleRecord, SealBundle, AssemblyGoto, AssemblyReturn
<1>3. ASSUME NEW c \in Call, AssemblyOver(c)
      PROVE  assembling[d] # "idle" /\ input'[d] = input[d]
  BY <1>0, <1>3 DEF AssemblyOver
<1>4. CASE UNCHANGED assemblyVars
  BY <1>4 DEF assemblyVars
<1>5. ASSUME NEW c \in Call, CallStep(c)
      PROVE  \/ \E r \in runs : AssembleBundle(c, r)
             \/ AssemblyStep(c) \/ AssemblyOver(c)
             \/ UNCHANGED assemblyVars
  BY <1>5 DEF CallStep, ReadRun, ListProfiles, EndDiscovery, ReadQueue,
     ScoreJob, ScoringRuns, TakeScore, EndRefresh, ReadRunnable, CreatePlan,
     EndPlans, ReadAttention, PreparePlan, PreparationRuns, TakePreparation,
     EndPreparations, StartBundles, AssemblyRuns, TakeBundle, EndAssembly,
     EndBundles, ExecuteBatch, SaveCycle, EndCall, componentVars
<1>6. ASSUME NEW c \in Call,
             \/ \E i \in Invocation, t \in Moment : BeginCall(c, i, t)
             \/ \E j \in Job : Discover(c, j)
             \/ Crash(c)
      PROVE  AssemblyOver(c) \/ UNCHANGED assemblyVars
  BY <1>6 DEF BeginCall, Discover, Crash, AssemblyCrash, componentVars
<1>7. UNCHANGED vars => UNCHANGED assemblyVars
  BY DEF vars
<1> QED BY <1>1, <1>2, <1>3, <1>4, <1>5, <1>6, <1>7 DEF Next

(* What the calls have taken up is part of the chain: a plan that is to be *)
(* prepared is stored, a run that is to be assembled is completed.         *)
LEMMA TakenStep ==
  ASSUME IInv, [Next]_vars
  PROVE  \A d \in Call :
           /\ at'[d] = "run" => todo'[d] \subseteq plans'
           /\ ready'[d] \subseteq CompletedRuns'
           /\ at'[d] = "assemble" => todo'[d] \subseteq ready'[d]
<1>0. /\ CallsTyped /\ PreparationInv
      /\ plans \subseteq plans' /\ CompletedRuns \subseteq CompletedRuns'
      /\ \A d \in Call : /\ at[d] = "run" => todo[d] \subseteq plans
                         /\ ready[d] \subseteq CompletedRuns
                         /\ at[d] = "assemble" => todo[d] \subseteq ready[d]
  BY PlansStep, StepIsTheirs, RunsStep
     DEF IInv, AutomationTypeOK, CallsFollowTheChain
<1>1. ASSUME NEW c \in Call, CallStep(c), NEW d \in Call
      PROVE  /\ at'[d] = "run" => todo'[d] \subseteq plans'
             /\ ready'[d] \subseteq CompletedRuns'
             /\ at'[d] = "assemble" => todo'[d] \subseteq ready'[d]
  <2>0. /\ ready'[d] \subseteq ready[d] \cup CompletedRuns
        /\ CallOver(c) \/ at'[c] # "assemble" \/ ready[c] \subseteq ready'[c]
        /\ d # c => ready'[d] = ready[d]
    BY <1>1, ReadyStep DEF IInv
  <2>1. CASE UNCHANGED callVars
    BY <1>0, <2>0, <2>1 DEF callVars
  <2>2. ASSUME NEW pc, NEW items, Moves(c, pc, items), ~CallOver(c)
        PROVE  /\ at'[d] = "run" => todo'[d] \subseteq plans'
               /\ at'[d] = "assemble" => todo'[d] \subseteq ready'[d]
    <3>1. CASE d # c
      BY <1>0, <2>0, <2>2, <3>1 DEF Moves, CallsTyped
    <3>2. CASE d = c
      <4>1. at'[c] = pc /\ todo'[c] = items
        BY <1>0, <2>2 DEF Moves, CallsTyped
      <4>2. Found(c, pc, items)
        BY <2>2 DEF Moves
      <4> QED BY <1>0, <2>0, <2>2, <3>2, <4>1, <4>2 DEF Found
    <3> QED BY <3>1, <3>2
  <2>3. CASE CallOver(c)
    <3>1. CASE d = c
      BY <1>0, <2>3, <3>1 DEF CallOver, Goto, CallsTyped
    <3>2. CASE d # c
      BY <1>0, <2>0, <2>3, <3>2 DEF CallOver, Goto, CallsTyped
    <3> QED BY <3>1, <3>2
  <2> QED BY <1>0, <1>1, <2>0, <2>1, <2>2, <2>3, CallStepShape DEF IInv
<1>2. ASSUME NEW c \in Call, NEW i \in Invocation, NEW t \in Moment,
             BeginCall(c, i, t), NEW d \in Call
      PROVE  /\ at'[d] = "run" => todo'[d] \subseteq plans'
             /\ ready'[d] \subseteq CompletedRuns'
             /\ at'[d] = "assemble" => todo'[d] \subseteq ready'[d]
  BY <1>0, <1>2 DEF BeginCall, Goto, CallsTyped
<1>3. ASSUME NEW c \in Call, NEW j \in Job, Discover(c, j), NEW d \in Call
      PROVE  /\ at'[d] = "run" => todo'[d] \subseteq plans'
             /\ ready'[d] \subseteq CompletedRuns'
             /\ at'[d] = "assemble" => todo'[d] \subseteq ready'[d]
  BY <1>0, <1>3 DEF Discover, callVars
<1>4. ASSUME NEW c \in Call, Crash(c), NEW d \in Call
      PROVE  /\ at'[d] = "run" => todo'[d] \subseteq plans'
             /\ ready'[d] \subseteq CompletedRuns'
             /\ at'[d] = "assemble" => todo'[d] \subseteq ready'[d]
  BY <1>0, <1>4 DEF Crash, CallOver, Goto, CallsTyped
<1>5. CASE UNCHANGED vars
  BY <1>0, <1>5 DEF vars, callVars
<1> QED BY <1>1, <1>2, <1>3, <1>4, <1>5 DEF Next

\* So is what the components are at.
LEMMA FollowStep ==
  ASSUME IInv, [Next]_vars
  PROVE  CallsFollowTheChain'
<1>0. /\ plans \subseteq plans' /\ CompletedRuns \subseteq CompletedRuns'
  BY PlansStep, StepIsTheirs, RunsStep DEF IInv
<1>1. ASSUME NEW d \in Call, preparing'[d] # "idle"
      PROVE  job'[d].plan \in plans'
  BY <1>0, <1>1, PreparingStep DEF IInv, CallsFollowTheChain
<1>2. ASSUME NEW d \in Call, assembling'[d] # "idle"
      PROVE  \E r \in CompletedRuns' : Lineage(r) = input'[d]
  <2>1. \E r \in CompletedRuns : Lineage(r) = input'[d]
    BY <1>2, AssemblingStep DEF IInv, CallsFollowTheChain
  <2> QED BY <1>0, <2>1
<1>3. \A r : Lineage(r)' = Lineage(r)
  BY DEF Lineage
<1> QED BY <1>1, <1>2, TakenStep DEF CallsFollowTheChain, Lineage

-----------------------------------------------------------------------------
(* One outcome of an invocation                                            *)

\* A step of a call that neither reads nor saves its run, and does not end it,
\* leaves the record and the answers alone, and does not come near the save.
LEMMA WorkLeavesTheRecord ==
  ASSUME AutomationTypeOK, NEW c \in Call, CallStep(c), ~ReadRun(c),
         ~SaveCycle(c), ~EndCall(c)
  PROVE  /\ UNCHANGED <<told, recordVars, call>>
         /\ \/ UNCHANGED at
            \/ /\ at[c] \notin {"idle", "write", "sync", "done"}
               /\ at'[c] \notin {"write", "sync"}
               /\ \A d \in Call \ {c} : at'[d] = at[d]
<1>0. CallsTyped
  BY DEF AutomationTypeOK
<1>1. UNCHANGED <<told, recordVars, call>>
  BY DEF CallStep, ListProfiles, EndDiscovery, ReadQueue, ScoreJob,
     ScoringRuns, TakeScore, EndRefresh, ReadRunnable, CreatePlan, EndPlans,
     ReadAttention, PreparePlan, PreparationRuns, TakePreparation,
     EndPreparations, StartBundles, AssembleBundle, AssemblyRuns, TakeBundle,
     EndBundles, ExecuteBatch, callVars, storeVars
<1>2. \/ UNCHANGED callVars
      \/ at[c] \notin {"idle", "save", "write", "sync", "done"}
  BY DEF CallStep, ListProfiles, EndDiscovery, ReadQueue, ScoreJob,
     ScoringRuns, TakeScore, EndRefresh, ReadRunnable, CreatePlan, EndPlans,
     ReadAttention, PreparePlan, PreparationRuns, TakePreparation,
     EndPreparations, StartBundles, AssembleBundle, AssemblyRuns, TakeBundle,
     EndBundles, ExecuteBatch
<1>3. CASE UNCHANGED callVars
  BY <1>1, <1>3 DEF callVars
<1>4. ASSUME NEW pc, NEW items, Moves(c, pc, items),
             at[c] \notin {"idle", "save", "write", "sync", "done"}
      PROVE  /\ at'[c] \notin {"write", "sync"}
             /\ \A d \in Call \ {c} : at'[d] = at[d]
  BY <1>0, <1>4 DEF Moves, CallsTyped
<1>5. CASE CallOver(c)
  <2>1. at'[c] = "idle" /\ \A d \in Call \ {c} : at'[d] = at[d]
    BY <1>0, <1>5 DEF CallOver, Goto, CallsTyped
  <2> QED BY <1>1, <1>2, <1>3, <2>1
<1> QED BY <1>1, <1>2, <1>3, <1>4, <1>5, CallStepShape

\* A step keeps whoever saves a run alone with the file of its invocation.
LEMMA SaversStep ==
  ASSUME IInv, [Next]_vars
  PROVE  SaversAreAlone'
<1>0. CallsTyped /\ StoresTyped /\ SaversAreAlone /\ ToldIsStored
  BY DEF IInv, AutomationTypeOK
<1>1. ASSUME NEW c \in Call, UNCHANGED <<cycles, torn>>,
             \A d \in Call \ {c} :
               at'[d] = at[d] /\ call'[d] = call[d] /\ told'[d] = told[d],
             at'[c] \notin {"write", "sync"},
             \/ told'[c].run # None => told'[c].status = "UNCHANGED"
             \/ /\ told'[c] = told[c] /\ call'[c] = call[c]
                /\ at[c] # "idle"
      PROVE  SaversAreAlone'
  BY <1>0, <1>1 DEF SaversAreAlone
<1>2. ASSUME NEW c \in Call, ReadRun(c)
      PROVE  SaversAreAlone'
  <2>1. /\ UNCHANGED <<cycles, torn>> /\ at'[c] \notin {"write", "sync"}
        /\ \A d \in Call \ {c} :
             at'[d] = at[d] /\ call'[d] = call[d] /\ told'[d] = told[d]
    BY <1>0, <1>2 DEF ReadRun, Tell, Goto, CallsTyped, storeVars, recordVars
  <2>2. told'[c].run # None => told'[c].status = "UNCHANGED"
    <3>1. told[c].run = None
      BY <1>0, <1>2 DEF ReadRun, ToldIsStored
    <3> QED BY <1>0, <1>2, <3>1 DEF ReadRun, Tell, CallsTyped
  <2> QED BY <1>1, <2>1, <2>2
<1>3. ASSUME NEW c \in Call, SaveCycle(c)
      PROVE  SaversAreAlone'
  <2>0. /\ call[c].inv \in Invocation /\ call' = call /\ at[c] # "idle"
        /\ \A d \in Call \ {c} : at'[d] = at[d]
    BY <1>0, <1>3, SavingGoes DEF CallsTyped, Goto
  <2>1. CASE CreateRun(c)
    <3>1. CASE /\ cycles[call[c].inv] = None /\ call[c].inv \notin torn
               /\ torn' = torn \cup {call[c].inv} /\ Goto(c, "write")
      <4>1. UNCHANGED <<cycles, told>> /\ at[c] = "save" /\ at'[c] = "write"
        BY <1>0, <2>1, <3>1 DEF CreateRun, Goto, CallsTyped
      <4>2. ASSUME NEW d \in Call, at[d] # "idle",
                   call[d].inv = call[c].inv
            PROVE  /\ at[d] \notin {"write", "sync"}
                   /\ told[d].run # None => told[d].status = "UNCHANGED"
        BY <1>0, <3>1, <4>2 DEF SaversAreAlone, ToldIsStored
      <4>3. \A i \in torn' : cycles'[i] = None
        BY <1>0, <3>1, <4>1 DEF SaversAreAlone
      <4> QED BY <1>0, <2>0, <3>1, <4>1, <4>2, <4>3 DEF SaversAreAlone
    <3>2. CASE Goto(c, "compare") /\ UNCHANGED torn
      BY <1>0, <1>1, <2>0, <2>1, <3>2 DEF CreateRun, Goto, CallsTyped
    <3> QED BY <2>1, <3>1, <3>2 DEF CreateRun
  <2>2. CASE WriteRun(c)
    <3>1. PICK run \in RunsOfCall(c) :
            cycles' = [cycles EXCEPT ![call[c].inv] = run]
      BY <2>2 DEF WriteRun
    <3>2. run \in StoredRun /\ run # None
      BY <2>0, <3>1, RunsOfCallTyped, RunIsNotNone DEF IInv
    <3>3. /\ torn' = torn \ {call[c].inv} /\ told' = told
          /\ at[c] = "write" /\ at'[c] = "sync"
          /\ cycles'[call[c].inv] = run
          /\ \A i \in Invocation \ {call[c].inv} : cycles'[i] = cycles[i]
      BY <1>0, <2>0, <2>2, <3>1 DEF WriteRun, Goto, CallsTyped, StoresTyped
    <3>4. \A i \in torn' : cycles'[i] = None
      BY <1>0, <3>3 DEF SaversAreAlone, StoresTyped
    <3>5. ASSUME NEW d \in Call, at'[d] \in {"write", "sync"}, d # c
          PROVE  /\ call[d].inv # call[c].inv /\ call[d].inv \in Invocation
                 /\ at'[d] = at[d]
      BY <1>0, <2>0, <3>3, <3>5 DEF SaversAreAlone, CallsTyped
    <3> QED BY <1>0, <2>0, <3>2, <3>3, <3>4, <3>5 DEF SaversAreAlone
  <2>3. CASE SyncRun(c)
    <3>1. /\ UNCHANGED <<cycles, torn>> /\ at[c] = "sync" /\ at'[c] = "done"
          /\ \A d \in Call \ {c} : told'[d] = told[d]
      BY <1>0, <2>3 DEF SyncRun, Tell, Goto, CallsTyped, recordVars
    <3>2. ASSUME NEW d \in Call, at'[d] \in {"write", "sync"}
          PROVE  call[d].inv # call[c].inv /\ d # c /\ at'[d] = at[d]
      BY <1>0, <2>0, <3>1, <3>2 DEF SaversAreAlone
    <3> QED BY <1>0, <2>0, <3>1, <3>2 DEF SaversAreAlone
  <2>4. CASE SaveFails(c)
    <3>1. /\ told'[c].run = None /\ at'[c] = "done"
          /\ \A d \in Call \ {c} : told'[d] = told[d]
      BY <1>0, <2>4 DEF SaveFails, Tell, Goto, CallsTyped
    <3>2. CASE at[c] = "save"
      BY <1>1, <2>0, <2>4, <3>1, <3>2 DEF SaveFails
    <3>3. CASE at[c] \in {"write", "sync"}
      <4>1. /\ torn' = torn \ {call[c].inv}
            /\ \A i \in Invocation \ {call[c].inv} : cycles'[i] = cycles[i]
        BY <1>0, <2>0, <2>4, <3>3 DEF SaveFails, StoresTyped
      <4>2. \A i \in torn' : cycles'[i] = None
        BY <1>0, <4>1 DEF SaversAreAlone, StoresTyped
      <4>3. ASSUME NEW d \in Call, at'[d] \in {"write", "sync"}
            PROVE  /\ call[d].inv # call[c].inv /\ d # c /\ at'[d] = at[d]
                   /\ call[d].inv \in Invocation
        BY <1>0, <2>0, <3>1, <3>3, <4>3 DEF SaversAreAlone, CallsTyped
      <4> QED BY <1>0, <2>0, <3>1, <4>1, <4>2, <4>3 DEF SaversAreAlone
    <3> QED BY <2>4, <3>2, <3>3 DEF SaveFails
  <2>5. CASE CompareRun(c)
    <3>1. /\ UNCHANGED <<cycles, torn>> /\ at'[c] = "done"
          /\ told'[c].run # None => told'[c].status = "UNCHANGED"
          /\ \A d \in Call \ {c} : told'[d] = told[d]
      BY <1>0, <2>5 DEF CompareRun, Tell, Goto, CallsTyped, recordVars
    <3> QED BY <1>1, <2>0, <3>1
  <2> QED BY <1>3, <2>1, <2>2, <2>3, <2>4, <2>5 DEF SaveCycle
<1>4. ASSUME NEW c \in Call, CallOver(c), UNCHANGED <<cycles, torn>>
      PROVE  SaversAreAlone'
  <2>1. /\ at'[c] = "idle" /\ told'[c].run = None
        /\ \A d \in Call \ {c} :
             at'[d] = at[d] /\ call'[d] = call[d] /\ told'[d] = told[d]
    BY <1>0, <1>4 DEF CallOver, Goto, CallsTyped, NotTold
  <2> QED BY <1>1, <1>4, <2>1
<1>5. ASSUME NEW c \in Call, CallStep(c)
      PROVE  SaversAreAlone'
  <2>1. CASE ~ReadRun(c) /\ ~SaveCycle(c) /\ ~EndCall(c)
    <3>1. /\ UNCHANGED <<told, cycles, torn, call>>
          /\ \/ UNCHANGED at
             \/ /\ at[c] # "idle" /\ at'[c] \notin {"write", "sync"}
                /\ \A d \in Call \ {c} : at'[d] = at[d]
      BY <1>5, <2>1, WorkLeavesTheRecord DEF IInv, recordVars
    <3>2. CASE UNCHANGED at
      BY <1>0, <3>1, <3>2 DEF SaversAreAlone
    <3> QED BY <1>1, <3>1, <3>2
  <2> QED BY <1>2, <1>3, <1>4, <1>5, <2>1 DEF EndCall, storeVars, recordVars
<1>6. ASSUME NEW c \in Call, NEW i \in Invocation, NEW t \in Moment,
             BeginCall(c, i, t)
      PROVE  SaversAreAlone'
  <2>1. /\ UNCHANGED <<cycles, torn, told>> /\ at'[c] = "read"
        /\ \A d \in Call \ {c} : at'[d] = at[d] /\ call'[d] = call[d]
        /\ told[c].run = None
    BY <1>0, <1>6 DEF BeginCall, Goto, CallsTyped, storeVars, recordVars,
       ToldIsStored
  <2> QED BY <1>1, <2>1
<1>7. ASSUME NEW c \in Call, (\E j \in Job : Discover(c, j)) \/ Crash(c)
      PROVE  SaversAreAlone'
  <2>1. CASE \E j \in Job : Discover(c, j)
    BY <1>0, <2>1 DEF Discover, callVars, recordVars, SaversAreAlone
  <2> QED BY <1>4, <1>7, <2>1 DEF Crash, storeVars, recordVars
<1>8. UNCHANGED vars => SaversAreAlone'
  BY <1>0 DEF vars, callVars, storeVars, recordVars, SaversAreAlone
<1> QED BY <1>5, <1>6, <1>7, <1>8 DEF Next

\* A run a call was told of stays, but the one of a save that has still to
\* sync its file, of which only those know who found it there.
LEMMA ToldStep ==
  ASSUME IInv, [Next]_vars
  PROVE  ToldIsStored'
<1>0. CallsTyped /\ StoresTyped /\ SaversAreAlone /\ ToldIsStored
  BY DEF IInv, AutomationTypeOK
<1> DEFINE Holds(d) ==
             told'[d].run # None =>
               /\ at'[d] = "done"
               /\ \/ cycles'[call'[d].inv] = told'[d].run
                  \/ /\ told'[d].status = "UNCHANGED"
                     /\ <<call'[d].inv, told'[d].run>> \in withdrawn'
<1>1. ASSUME NEW d \in Call, at'[d] = at[d], call'[d] = call[d],
             told'[d] = told[d], UNCHANGED recordVars
      PROVE  Holds(d)
  BY <1>0, <1>1 DEF ToldIsStored, recordVars
<1>2. ASSUME NEW c \in Call, ReadRun(c), NEW d \in Call
      PROVE  Holds(d)
  <2>1. CASE d # c
    BY <1>0, <1>1, <1>2, <2>1
       DEF ReadRun, Tell, Goto, CallsTyped, storeVars
  <2>2. CASE d = c
    BY <1>0, <1>2, <2>2
       DEF ReadRun, Tell, Goto, CallsTyped, ToldIsStored, storeVars,
           recordVars
  <2> QED BY <2>1, <2>2
<1>3. ASSUME NEW c \in Call, SaveCycle(c), NEW d \in Call
      PROVE  Holds(d)
  <2>0. /\ call[c].inv \in Invocation /\ call' = call
        /\ at[c] \notin {"idle", "done"} /\ told[c].run = None
        /\ d # c => at'[d] = at[d]
    BY <1>0, <1>3, SavingGoes DEF CallsTyped, Goto, ToldIsStored
  <2>1. CASE CreateRun(c)
    <3>1. UNCHANGED <<cycles, withdrawn, told>>
      BY <2>1 DEF CreateRun
    <3> QED BY <1>0, <2>0, <3>1 DEF ToldIsStored
  <2>2. CASE WriteRun(c)
    <3>1. /\ UNCHANGED <<withdrawn, told>> /\ cycles[call[c].inv] = None
          /\ \A i \in Invocation \ {call[c].inv} : cycles'[i] = cycles[i]
      BY <1>0, <2>0, <2>2 DEF WriteRun, StoresTyped, SaversAreAlone
    <3>2. told[d].run # None => at[d] = "done" /\ call[d].inv \in Invocation
      BY <1>0 DEF ToldIsStored, CallsTyped
    <3> QED BY <1>0, <2>0, <3>1, <3>2 DEF ToldIsStored
  <2>3. CASE SyncRun(c)
    <3>1. /\ UNCHANGED recordVars /\ at'[c] = "done"
          /\ told'[c].run = cycles[call[c].inv]
          /\ d # c => told'[d] = told[d]
      BY <1>0, <2>3 DEF SyncRun, Tell, Goto, CallsTyped
    <3> QED BY <1>1, <2>0, <3>1 DEF recordVars
  <2>4. CASE SaveFails(c)
    <3>1. told'[c].run = None /\ (d # c => told'[d] = told[d])
      BY <1>0, <2>4 DEF SaveFails, Tell, CallsTyped
    <3>2. CASE at[c] = "save"
      <4>1. UNCHANGED <<cycles, withdrawn>>
        BY <2>4, <3>2 DEF SaveFails
      <4> QED BY <1>0, <2>0, <3>1, <4>1 DEF ToldIsStored
    <3>3. CASE at[c] = "write"
      <4>1. UNCHANGED withdrawn /\ cycles[call[c].inv] = None
            /\ \A i \in Invocation \ {call[c].inv} : cycles'[i] = cycles[i]
        BY <1>0, <2>0, <2>4, <3>3
           DEF SaveFails, StoresTyped, SaversAreAlone
      <4>2. told[d].run # None => at[d] = "done" /\ call[d].inv \in Invocation
        BY <1>0 DEF ToldIsStored, CallsTyped
      <4> QED BY <1>0, <2>0, <3>1, <4>1, <4>2 DEF ToldIsStored
    <3>4. CASE at[c] = "sync"
      <4>1. /\ withdrawn' =
                 withdrawn \cup {<<call[c].inv, cycles[call[c].inv]>>}
            /\ \A i \in Invocation \ {call[c].inv} : cycles'[i] = cycles[i]
        BY <1>0, <2>0, <2>4, <3>4 DEF SaveFails, StoresTyped
      <4>2. told[d].run # None => at[d] = "done" /\ call[d].inv \in Invocation
        BY <1>0 DEF ToldIsStored, CallsTyped
      <4>3. call[d].inv = call[c].inv /\ told[d].run # None =>
              told[d].status = "UNCHANGED"
        BY <1>0, <3>4, <4>2 DEF SaversAreAlone
      <4> QED BY <1>0, <2>0, <3>1, <4>1, <4>2, <4>3 DEF ToldIsStored
    <3> QED BY <2>4, <3>2, <3>3, <3>4 DEF SaveFails
  <2>5. CASE CompareRun(c)
    <3>1. /\ UNCHANGED recordVars /\ at'[c] = "done"
          /\ told'[c].run # None => cycles[call[c].inv] = told'[c].run
          /\ d # c => told'[d] = told[d]
      BY <1>0, <2>5 DEF CompareRun, Tell, Goto, CallsTyped
    <3> QED BY <1>1, <2>0, <3>1 DEF recordVars
  <2> QED BY <1>3, <2>1, <2>2, <2>3, <2>4, <2>5 DEF SaveCycle
<1>4. ASSUME NEW c \in Call, CallOver(c), UNCHANGED recordVars, NEW d \in Call
      PROVE  Holds(d)
  BY <1>0, <1>1, <1>4 DEF CallOver, Goto, CallsTyped, NotTold
<1>5. ASSUME NEW c \in Call, CallStep(c), NEW d \in Call
      PROVE  Holds(d)
  <2>1. CASE ~ReadRun(c) /\ ~SaveCycle(c) /\ ~EndCall(c)
    <3>1. /\ UNCHANGED <<told, recordVars, call>>
          /\ UNCHANGED at \/ (at[c] # "done" /\ (d # c => at'[d] = at[d]))
      BY <1>5, <2>1, WorkLeavesTheRecord DEF IInv
    <3> QED BY <1>0, <1>1, <3>1 DEF ToldIsStored
  <2> QED BY <1>2, <1>3, <1>4, <1>5, <2>1 DEF EndCall, storeVars
<1>6. ASSUME NEW c \in Call, NEW i \in Invocation, NEW t \in Moment,
             BeginCall(c, i, t), NEW d \in Call
      PROVE  Holds(d)
  <2>1. told[c].run = None /\ UNCHANGED <<told, recordVars>>
        /\ (d # c => at'[d] = at[d] /\ call'[d] = call[d])
    BY <1>0, <1>6 DEF BeginCall, Goto, CallsTyped, storeVars, ToldIsStored
  <2> QED BY <1>1, <2>1
<1>7. ASSUME NEW c \in Call, (\E j \in Job : Discover(c, j)) \/ Crash(c),
             NEW d \in Call
      PROVE  Holds(d)
  BY <1>1, <1>4, <1>7 DEF Discover, Crash, callVars, storeVars
<1>8. ASSUME UNCHANGED vars, NEW d \in Call
      PROVE  Holds(d)
  BY <1>1, <1>8 DEF vars, callVars, storeVars
<1>9. \A d \in Call : Holds(d)
  BY <1>5, <1>6, <1>7, <1>8 DEF Next
<1> QED BY <1>9 DEF ToldIsStored

-----------------------------------------------------------------------------
(* Theorems                                                                *)

\* The invariant holds at first and every step keeps it.
THEOREM AutomationInvariant == Spec => []IInv
<1>1. Init => IInv
  <2> SUFFICES ASSUME Init PROVE IInv
    OBVIOUS
  <2>1. ScoringTypeOK /\ ScoringInv
    BY DEF Init, ScoringInit, ScoringTypeOK, ClaimState, ScoringPC,
       ScoringReply, ScoringInv, OneScorerPerBinding, ClaimIsHeld,
       DecisionIsThere, AtWork
  <2>2. AssemblyTypeOK /\ SealingInv
    BY DEF Init, AssemblyInit, AssemblyTypeOK, AssemblyPC, AssemblyReply,
       SealingInv, SilentUntilDone, AssemblyInv, SuccessIsRecoverable,
       OneSealer, SealerIsCreator
  <2>3. PreparationTypeOK /\ PreparationInv
    BY NoAnswerTyped, RolesGrow, PreparationAssumption
       DEF Init, PreparationInit, PreparationTypeOK, PreparationPC, Directive,
       RunStatus, PreparationInv, RunsAreSound, RolesFollowStages,
       LineageIsStored, NoAnswer
  <2>4. StoresTyped
    BY AutomationAssumption DEF Init, StoresTyped
  <2>5. CallsTyped
    BY DEF Init, CallsTyped, CallPC, Items, Summary, NoStage,
       Searched, NotTold, CallReply, CallStatus
  <2>6. /\ TakenJobsAreListed /\ CallsFollowTheChain
        /\ SaversAreAlone /\ ToldIsStored
    BY DEF Init, TakenJobsAreListed, CallsFollowTheChain, SaversAreAlone,
       ToldIsStored, NotTold, PreparationInit, AssemblyInit
  <2>7. EvidenceChain
    BY DEF Init, PreparationInit, AssemblyInit, EvidenceChain,
       PlansHaveDecisions, RunsHavePlans, RecordsHaveRuns
  <2> QED BY <2>1, <2>2, <2>3, <2>4, <2>5, <2>6, <2>7
          DEF IInv, AutomationTypeOK, ComponentsTyped
<1>2. IInv /\ [Next]_vars => IInv'
  BY AutomationTyped, TakenStepListed, ComponentsKept, FollowStep, ChainStep,
     SaversStep, ToldStep DEF IInv
<1> QED BY <1>1, <1>2, PTL DEF Spec

\* Every variable of the automatic path keeps its type.
THEOREM AutomationTypeCorrect == Spec => []AutomationTypeOK
BY AutomationInvariant, PTL DEF IInv

\* Whatever is scored, discovered, prepared or lost at the same time: behind
\* every bundle stands a completed run of a stored Plan of a qualified,
\* completed decision.
THEOREM EvidenceStands == Spec => []EvidenceChain
BY AutomationInvariant, PTL DEF IInv

\* Whoever is told a run of an invocation is told the one that is stored.
THEOREM OneOutcome == Spec => []ToldIsStored
BY AutomationInvariant, PTL DEF IInv

\* Inside the whole, the components keep what they promise alone.
THEOREM ComponentsKeepTheirPromise ==
  Spec => [](ScoringInv /\ PreparationInv /\ AssemblyInv)
BY AutomationInvariant, PTL DEF IInv, SealingInv

\* No batch, refresh or crash takes a completed decision back.
THEOREM DecisionsStand == Spec => CompletedIsFinal
<1>1. IInv /\ [Next]_vars =>
        [\A b \in Binding : claim[b] = "COMPLETED" =>
           claim'[b] = "COMPLETED" /\ decision'[b] = decision[b]]_scoringVars
  BY StepIsTheirs, CompletedStays DEF IInv, AutomationTypeOK, ComponentsTyped
<1> QED BY <1>1, AutomationInvariant, PTL DEF Spec, CompletedIsFinal

-----------------------------------------------------------------------------
(* What is left behind: the refinement of Evidence                         *)

\* A scoring decides what was not decided, or leaves all decisions alone.
LEMMA DecidedStep ==
  ASSUME IInv, [ScoringNext]_scoringVars
  PROVE  \/ Decided' = Decided
         \/ \E b \in Binding, v \in {Qualified, Unqualified} :
              /\ Decided[b] = None
              /\ Decided' = [Decided EXCEPT ![b] = v]
<1>0. ScoringTypeOK /\ ScoringInv
  BY DEF IInv, AutomationTypeOK, ComponentsTyped
<1>1. CASE UNCHANGED scoringVars
  BY <1>1 DEF scoringVars, Decided
<1>2. CASE ScoringNext
  <2>0. PICK s \in Call : Effect(s)
    BY <1>0, <1>2, ScoringHasEffect DEF ScoringInv
  <2>1. \A b \in Binding \ {binding[s]} : Decided'[b] = Decided[b]
    BY <2>0 DEF Effect, Decided
  <2>2. CASE \/ binding[s] \notin Binding
             \/ claim[binding[s]] = "COMPLETED"
             \/ claim'[binding[s]] # "COMPLETED"
    <3>1. \A b \in Binding : Decided'[b] = Decided[b]
      BY <1>0, <1>2, <2>1, <2>2, CompletedStays DEF Decided
    <3> QED BY <3>1 DEF Decided
  <2>3. CASE /\ binding[s] \in Binding
             /\ claim[binding[s]] # "COMPLETED"
             /\ claim'[binding[s]] = "COMPLETED"
    <3>1. scoring[s] = "complete"
      BY <2>0, <2>3 DEF Effect
    <3>2. decision'[binding[s]] = decision[binding[s]]
          /\ decision[binding[s]] \in {Qualified, Unqualified}
      BY <1>0, <2>0, <2>3, <3>1
         DEF Effect, ScoringInv, DecisionIsThere, ScoringTypeOK
    <3>3. Decided[binding[s]] = None
      BY <2>3 DEF Decided
    <3>4. Decided' = [Decided EXCEPT ![binding[s]] = decision[binding[s]]]
      BY <2>1, <2>3, <3>2 DEF Decided
    <3> QED BY <2>3, <3>2, <3>3, <3>4
  <2> QED BY <2>2, <2>3
<1> QED BY <1>1, <1>2

\* A preparation that is completed is of a Plan that was made.
LEMMA PreparedStep ==
  ASSUME IInv, NEW p \in Call, PreparationStep(p)
  PROVE  \/ PreparedInputs' = PreparedInputs
         \/ \E i \in Input : /\ i[1] \in plans
                             /\ PreparedInputs' = PreparedInputs \cup {i}
<1>0. \A r : Lineage(r)' = Lineage(r)
  BY DEF Lineage
<1>1. CASE runs' = runs
  BY <1>0, <1>1 DEF PreparedInputs, CompletedRuns
<1>2. CASE preparing[p] = "save" /\ runs' = runs \cup {RunOf(p)}
  <2>0. PreparationTypeOK
    BY DEF IInv, AutomationTypeOK, ComponentsTyped
  <2>1. CASE RunOf(p).status # "COMPLETED"
    <3>1. CompletedRuns' = CompletedRuns
      BY <1>2, <2>1 DEF CompletedRuns
    <3> QED BY <1>0, <3>1 DEF PreparedInputs
  <2>2. CASE RunOf(p).status = "COMPLETED"
    <3>1. CompletedRuns' = CompletedRuns \cup {RunOf(p)}
      BY <1>2, <2>2 DEF CompletedRuns
    <3>2. PreparedInputs' = PreparedInputs \cup {Lineage(RunOf(p))}
      BY <1>0, <3>1 DEF PreparedInputs
    <3>3. RunOf(p) \in PreparationRun
      BY <1>2, <2>0, RunOfTyped
    <3>4. Lineage(RunOf(p)) \in Input
      BY <3>3, AutomationAssumption DEF PreparationRun, Lineage
    <3>5. Lineage(RunOf(p))[1] \in plans
      BY <1>2 DEF IInv, CallsFollowTheChain, Lineage, RunOf
    <3> QED BY <3>2, <3>4, <3>5
  <2> QED BY <2>1, <2>2
<1> QED BY <1>1, <1>2 DEF PreparationStep, FindCurrent, StageSucceeds,
        SkipLayout, StageStops, SaveRun

\* An assembly writes the record of what was prepared, and the envelope of
\* what has a record, and never both at once.
LEMMA AssembledStep ==
  ASSUME IInv, NEW a \in Call, AssemblyStep(a)
  PROVE  \/ UNCHANGED <<record, envelope>>
         \/ /\ input[a] \in PreparedInputs /\ input[a] \in Input
            /\ record' = record \cup {input[a]} /\ envelope' = envelope
         \/ /\ input[a] \in record /\ input[a] \in Input
            /\ envelope' = envelope \cup {input[a]} /\ record' = record
<1>1. CASE SaveRecord(a)
  <2>1. assembling[a] # "idle"
    BY <1>1 DEF SaveRecord
  <2>2. input[a] \in PreparedInputs /\ input[a] \in Input
    BY <2>1 DEF IInv, CallsFollowTheChain, PreparedInputs, AutomationTypeOK,
       ComponentsTyped, AssemblyTypeOK
  <2> QED BY <1>1, <2>2 DEF SaveRecord
<1>2. CASE SealBundle(a)
  BY <1>2 DEF SealBundle, IInv, SealingInv, AssemblyInv, SealerIsCreator,
     AutomationTypeOK, ComponentsTyped, AssemblyTypeOK
<1> QED BY <1>1, <1>2 DEF AssemblyStep, CheckInputs, FindReplay, SettleRecord

\* What each fact, and each of the stores it is seen in, leaves alone.
Stores == <<claim, decision, plans, runs, record, envelope>>

\* A step establishes facts of one kind only, outcomes apart.
LEMMA OneKindOfFact ==
  ASSUME [Next]_vars
  PROVE  \/ UNCHANGED Stores
         \/ /\ \E c \in Call, j \in Job : CreatePlan(c, j)
            /\ UNCHANGED <<claim, decision, runs, record, envelope>>
         \/ /\ \E c \in Call : ScoringStep(c)
            /\ UNCHANGED <<plans, runs, record, envelope>>
         \/ /\ \E c \in Call : PreparationStep(c)
            /\ UNCHANGED <<claim, decision, plans, record, envelope>>
         \/ /\ \E c \in Call : AssemblyStep(c)
            /\ UNCHANGED <<claim, decision, plans, runs>>
<1> USE DEF Stores, storeVars, componentVars, scoringVars, preparationVars,
            assemblyVars
<1>1. ASSUME NEW c \in Call, \E j \in Job : CreatePlan(c, j)
      PROVE  UNCHANGED <<claim, decision, runs, record, envelope>>
  BY <1>1 DEF CreatePlan
<1>2. ASSUME NEW c \in Call, SaveCycle(c)
      PROVE  UNCHANGED Stores
  BY <1>2 DEF SaveCycle
<1>3. ASSUME NEW c \in Call, ScoringRuns(c)
      PROVE  /\ ScoringStep(c)
             /\ UNCHANGED <<plans, runs, record, envelope>>
  BY <1>3 DEF ScoringRuns
<1>4. ASSUME NEW c \in Call, PreparationRuns(c)
      PROVE  /\ PreparationStep(c)
             /\ UNCHANGED <<claim, decision, plans, record, envelope>>
  BY <1>4 DEF PreparationRuns
<1>5. ASSUME NEW c \in Call, AssemblyRuns(c)
      PROVE  /\ AssemblyStep(c)
             /\ UNCHANGED <<claim, decision, plans, runs>>
  BY <1>5 DEF AssemblyRuns
<1>6. ASSUME NEW c \in Call,
             \/ ReadRun(c) \/ ListProfiles(c) \/ EndDiscovery(c)
             \/ ReadQueue(c) \/ EndRefresh(c)
             \/ ReadRunnable(c) \/ EndPlans(c) \/ ReadAttention(c)
             \/ EndPreparations(c) \/ StartBundles(c) \/ EndBundles(c)
             \/ ExecuteBatch(c) \/ EndCall(c)
             \/ (\E i \in Invocation, t \in Moment : BeginCall(c, i, t))
      PROVE  UNCHANGED Stores
  BY <1>6 DEF ReadRun, ListProfiles, EndDiscovery, ReadQueue, EndRefresh,
     ReadRunnable, EndPlans, ReadAttention, EndPreparations, StartBundles,
     EndBundles, ExecuteBatch, EndCall, BeginCall
<1>7. ASSUME NEW c \in Call,
             \/ (\E j \in Job : ScoreJob(c, j)) \/ TakeScore(c)
             \/ (\E p \in Plan : PreparePlan(c, p)) \/ TakePreparation(c)
             \/ (\E r \in runs : AssembleBundle(c, r)) \/ TakeBundle(c)
      PROVE  UNCHANGED Stores
  BY <1>7 DEF ScoreJob, BeginScoring, TakeScore, EndScoring, ScoringOver,
     PreparePlan, BeginPreparation, TakePreparation, EndPreparation,
     PreparationOver, AssembleBundle, BeginAssembly, TakeBundle, EndAssembly,
     AssemblyOver
<1>8. ASSUME NEW c \in Call, (\E j \in Job : Discover(c, j)) \/ Crash(c)
      PROVE  UNCHANGED Stores
  BY <1>8 DEF Discover, Crash, ScoringCrash, ScoringOver, PreparationCrash,
     PreparationOver, AssemblyCrash, AssemblyOver
<1>9. UNCHANGED vars => UNCHANGED Stores
  BY DEF vars
<1> QED BY <1>1, <1>2, <1>3, <1>4, <1>5, <1>6, <1>7, <1>8, <1>9
        DEF Next, CallStep

\* The mapped state of Evidence depends on the stores alone.
LEMMA StoresFixTheTrail ==
  /\ UNCHANGED <<claim, decision>> => Decided' = Decided
  /\ runs' = runs => PreparedInputs' = PreparedInputs
BY DEF Decided, PreparedInputs, CompletedRuns, Lineage

\* A step of any of its actions is a step of Evidence.
LEMMA TrailSteps ==
  /\ \A b \in Binding, v \in {Qualified, Unqualified} :
       Trail!Decide(b, v) => Trail!EvidenceNext
  /\ \A b \in Binding : Trail!MakePlan(b) => Trail!EvidenceNext
  /\ \A i \in Input : Trail!Prepare(i) \/ Trail!Assemble(i) \/ Trail!Seal(i)
                        => Trail!EvidenceNext
  /\ \A i \in Invocation, o \in StoredRun :
       Trail!Conclude(i, o) => Trail!EvidenceNext
BY Zenon DEF Trail!EvidenceNext

\* What is settled stays so while no call begins or ends to sync its file.
LEMMA SettledStays ==
  ASSUME UNCHANGED cycles,
         \A d \in Call : /\ at'[d] = "sync" <=> at[d] = "sync"
                         /\ at[d] = "sync" => call'[d] = call[d]
  PROVE  Settled' = Settled
BY DEF Settled

\* A step settles the run of one invocation that had none, and does nothing
\* else then, or none: its save ends well, or dies when the file is whole.
LEMMA OutcomeStep ==
  ASSUME IInv, [Next]_vars
  PROVE  \/ Settled' = Settled
         \/ /\ \E i \in Invocation, o \in StoredRun :
                 Settled[i] = None /\ Settled' = [Settled EXCEPT ![i] = o]
            /\ UNCHANGED Stores
<1>0. CallsTyped /\ StoresTyped /\ SaversAreAlone
  BY DEF IInv, AutomationTypeOK
<1>1. ASSUME NEW c \in Call, at[c] = "sync", at'[c] # "sync",
             UNCHANGED cycles,
             \A d \in Call \ {c} : at'[d] = at[d] /\ call'[d] = call[d]
      PROVE  \E i \in Invocation, o \in StoredRun :
               Settled[i] = None /\ Settled' = [Settled EXCEPT ![i] = o]
  <2>1. call[c].inv \in Invocation /\ cycles[call[c].inv] \in StoredRun
    BY <1>0, <1>1 DEF CallsTyped, StoresTyped, SaversAreAlone
  <2>2. \A d \in Call \ {c} : at[d] = "sync" => call[d].inv # call[c].inv
    BY <1>0, <1>1 DEF SaversAreAlone
  <2>3. Settled[call[c].inv] = None
    BY <1>1, <2>1 DEF Settled
  <2>4. Settled'[call[c].inv] = cycles[call[c].inv]
    BY <1>1, <2>1, <2>2 DEF Settled
  <2>5. \A i \in Invocation \ {call[c].inv} : Settled'[i] = Settled[i]
    BY <1>1 DEF Settled
  <2>6. Settled' = [Settled EXCEPT ![call[c].inv] = cycles[call[c].inv]]
    <3>1. Settled' = [i \in Invocation |-> Settled'[i]]
          /\ Settled = [i \in Invocation |-> Settled[i]]
      BY DEF Settled
    <3> QED BY <2>1, <2>4, <2>5, <3>1
  <2> QED BY <2>1, <2>3, <2>6
<1>2. ASSUME NEW c \in Call, SaveCycle(c)
      PROVE  \/ Settled' = Settled
             \/ /\ \E i \in Invocation, o \in StoredRun :
                     Settled[i] = None /\ Settled' = [Settled EXCEPT ![i] = o]
                /\ UNCHANGED Stores
  <2>0. /\ call[c].inv \in Invocation /\ call' = call /\ UNCHANGED Stores
        /\ \A d \in Call \ {c} : at'[d] = at[d]
    <3>1. call[c].inv \in Invocation /\ call' = call
          /\ \A d \in Call \ {c} : at'[d] = at[d]
      BY <1>0, <1>2, SavingGoes DEF CallsTyped, Goto
    <3>2. UNCHANGED Stores
      BY <1>2, SavingGoes DEF Stores, componentVars, scoringVars,
         preparationVars, assemblyVars
    <3> QED BY <3>1, <3>2
  <2>1. CASE CreateRun(c) \/ CompareRun(c)
    <3>1. UNCHANGED cycles /\ at[c] # "sync" /\ at'[c] # "sync"
      BY <1>0, <2>1 DEF CreateRun, CompareRun, Tell, Goto, CallsTyped,
         recordVars
    <3> QED BY <2>0, <3>1, SettledStays
  <2>2. CASE WriteRun(c)
    <3>1. /\ at[c] = "write" /\ at'[c] = "sync" /\ cycles[call[c].inv] = None
          /\ \A i \in Invocation \ {call[c].inv} : cycles'[i] = cycles[i]
      BY <1>0, <2>0, <2>2
         DEF WriteRun, Goto, CallsTyped, StoresTyped, SaversAreAlone
    <3>2. \A i \in Invocation : Settled'[i] = Settled[i]
      BY <2>0, <3>1 DEF Settled
    <3> QED BY <3>2 DEF Settled
  <2>3. CASE SyncRun(c)
    <3>1. UNCHANGED cycles /\ at[c] = "sync" /\ at'[c] # "sync"
      BY <1>0, <2>3 DEF SyncRun, Tell, Goto, CallsTyped, recordVars
    <3> QED BY <1>1, <2>0, <3>1
  <2>4. CASE SaveFails(c)
    <3>1. at'[c] = "done"
      BY <1>0, <2>4 DEF SaveFails, Tell, Goto, CallsTyped
    <3>2. CASE at[c] = "save"
      <4>1. UNCHANGED cycles
        BY <2>4, <3>2 DEF SaveFails
      <4> QED BY <2>0, <3>1, <3>2, <4>1, SettledStays
    <3>3. CASE at[c] \in {"write", "sync"}
      <4>1. /\ cycles'[call[c].inv] = None
            /\ \A i \in Invocation \ {call[c].inv} : cycles'[i] = cycles[i]
            /\ at[c] = "write" => cycles[call[c].inv] = None
        BY <1>0, <2>0, <2>4, <3>3 DEF SaveFails, StoresTyped, SaversAreAlone
      <4>2. Settled'[call[c].inv] = Settled[call[c].inv]
        BY <2>0, <3>3, <4>1 DEF Settled
      <4>3. \A i \in Invocation \ {call[c].inv} : Settled'[i] = Settled[i]
        BY <2>0, <3>1, <4>1 DEF Settled
      <4> QED BY <4>2, <4>3 DEF Settled
    <3> QED BY <2>4, <3>2, <3>3 DEF SaveFails
  <2> QED BY <1>2, <2>1, <2>2, <2>3, <2>4 DEF SaveCycle
<1>3. ASSUME NEW c \in Call, Crash(c)
      PROVE  \/ Settled' = Settled
             \/ /\ \E i \in Invocation, o \in StoredRun :
                     Settled[i] = None /\ Settled' = [Settled EXCEPT ![i] = o]
                /\ UNCHANGED Stores
  <2>1. /\ UNCHANGED cycles /\ at'[c] = "idle"
        /\ \A d \in Call \ {c} : at'[d] = at[d] /\ call'[d] = call[d]
    BY <1>0, <1>3
       DEF Crash, CallOver, Goto, CallsTyped, storeVars, recordVars
  <2>2. UNCHANGED Stores
    BY <1>3 DEF Stores, storeVars, scoringVars, preparationVars,
       assemblyVars, Crash, ScoringCrash, ScoringOver, PreparationCrash,
       PreparationOver, AssemblyCrash, AssemblyOver
  <2>3. CASE at[c] = "sync"
    BY <1>1, <2>1, <2>2, <2>3
  <2>4. CASE at[c] # "sync"
    BY <2>1, <2>4, SettledStays
  <2> QED BY <2>3, <2>4
<1>4. ASSUME NEW c \in Call, CallStep(c), ~SaveCycle(c)
      PROVE  Settled' = Settled
  <2>1. CASE ReadRun(c)
    <3>1. UNCHANGED <<cycles, call>> /\ at[c] # "sync" /\ at'[c] # "sync"
          /\ \A d \in Call \ {c} : at'[d] = at[d]
      BY <1>0, <2>1
         DEF ReadRun, Tell, Goto, CallsTyped, storeVars, recordVars
    <3> QED BY <3>1, SettledStays
  <2>2. CASE EndCall(c)
    <3>1. UNCHANGED cycles /\ at[c] # "sync" /\ at'[c] # "sync"
          /\ \A d \in Call \ {c} : at'[d] = at[d] /\ call'[d] = call[d]
      BY <1>0, <2>2
         DEF EndCall, CallOver, Goto, CallsTyped, storeVars, recordVars
    <3> QED BY <3>1, SettledStays
  <2>3. CASE ~ReadRun(c) /\ ~EndCall(c)
    <3>1. UNCHANGED <<cycles, call>>
          /\ \A d \in Call : at'[d] = "sync" <=> at[d] = "sync"
      BY <1>4, <2>3, WorkLeavesTheRecord DEF IInv, recordVars
    <3> QED BY <3>1, SettledStays
  <2> QED BY <2>1, <2>2, <2>3
<1>5. ASSUME NEW c \in Call, NEW i \in Invocation, NEW t \in Moment,
             BeginCall(c, i, t)
      PROVE  Settled' = Settled
  <2>1. UNCHANGED cycles /\ at[c] # "sync" /\ at'[c] # "sync"
        /\ \A d \in Call \ {c} : at'[d] = at[d] /\ call'[d] = call[d]
    BY <1>0, <1>5 DEF BeginCall, Goto, CallsTyped, storeVars, recordVars
  <2> QED BY <2>1, SettledStays
<1>6. ASSUME NEW c \in Call, NEW j \in Job, Discover(c, j)
      PROVE  Settled' = Settled
  BY <1>6, SettledStays DEF Discover, callVars, recordVars
<1>7. UNCHANGED vars => Settled' = Settled
  BY SettledStays DEF vars, callVars, storeVars, recordVars
<1> QED BY <1>2, <1>3, <1>4, <1>5, <1>6, <1>7 DEF Next

\* Every step establishes one fact of Evidence, or none.
LEMMA TrailStep ==
  ASSUME IInv, [Next]_vars
  PROVE  [Trail!EvidenceNext]_(Trail!evidenceVars)
<1>0. [ScoringNext]_scoringVars
  BY StepIsTheirs DEF IInv
<1> SUFFICES ASSUME Settled' = Settled
             PROVE  [Trail!EvidenceNext]_(Trail!evidenceVars)
  <2>1. ASSUME NEW i \in Invocation, NEW o \in StoredRun, Settled[i] = None,
               Settled' = [Settled EXCEPT ![i] = o], UNCHANGED Stores
        PROVE  Trail!EvidenceNext
    <3>1. Trail!Conclude(i, o)
      BY <2>1, StoresFixTheTrail DEF Stores, Trail!Conclude
    <3> QED BY <3>1, TrailSteps
  <2> QED BY <2>1, OutcomeStep
<1>1. CASE UNCHANGED Stores
  BY <1>1, StoresFixTheTrail DEF Stores, Trail!evidenceVars
<1>2. ASSUME NEW c \in Call, NEW j \in Job, CreatePlan(c, j),
             UNCHANGED <<claim, decision, runs, record, envelope>>
      PROVE  [Trail!EvidenceNext]_(Trail!evidenceVars)
  <2>0. Expected(j, Now(c)) \in Binding
    BY <1>2, ExpectedIsBinding DEF CreatePlan, IInv
  <2>1. CASE UNCHANGED plans
    BY <1>2, <2>1, StoresFixTheTrail DEF Trail!evidenceVars
  <2>2. CASE /\ Runnable(j, Now(c))
             /\ plans' = plans \cup {Expected(j, Now(c))}
    <3>1. Decided[Expected(j, Now(c))] = Qualified
      BY <2>0, <2>2 DEF Decided, Runnable, QueueStatus, Qualified
    <3>2. Trail!MakePlan(Expected(j, Now(c)))
      BY <1>2, <2>2, <3>1, StoresFixTheTrail DEF Trail!MakePlan
    <3> QED BY <2>0, <3>2, TrailSteps
  <2> QED BY <1>2, <2>1, <2>2 DEF CreatePlan
<1>3. CASE UNCHANGED <<plans, runs, record, envelope>>
  <2>1. CASE Decided' = Decided
    BY <1>3, <2>1, StoresFixTheTrail DEF Trail!evidenceVars
  <2>2. ASSUME NEW b \in Binding, NEW v \in {Qualified, Unqualified},
               Decided[b] = None, Decided' = [Decided EXCEPT ![b] = v]
        PROVE  Trail!EvidenceNext
    <3>1. Trail!Decide(b, v)
      BY <1>3, <2>2, StoresFixTheTrail DEF Trail!Decide
    <3> QED BY <3>1, TrailSteps
  <2> QED BY <1>0, <2>1, <2>2, DecidedStep
<1>4. ASSUME NEW p \in Call, PreparationStep(p),
             UNCHANGED <<claim, decision, plans, record, envelope>>
      PROVE  [Trail!EvidenceNext]_(Trail!evidenceVars)
  <2>1. CASE PreparedInputs' = PreparedInputs
    BY <1>4, <2>1, StoresFixTheTrail DEF Trail!evidenceVars
  <2>2. ASSUME NEW i \in Input, i[1] \in plans,
               PreparedInputs' = PreparedInputs \cup {i}
        PROVE  Trail!EvidenceNext
    <3>1. Trail!Prepare(i)
      BY <1>4, <2>2, StoresFixTheTrail DEF Trail!Prepare
    <3> QED BY <3>1, TrailSteps
  <2> QED BY <1>4, <2>1, <2>2, PreparedStep
<1>5. ASSUME NEW a \in Call, AssemblyStep(a),
             UNCHANGED <<claim, decision, plans, runs>>
      PROVE  [Trail!EvidenceNext]_(Trail!evidenceVars)
  <2>1. CASE UNCHANGED <<record, envelope>>
    BY <1>5, <2>1, StoresFixTheTrail DEF Trail!evidenceVars
  <2>2. CASE /\ input[a] \in PreparedInputs /\ input[a] \in Input
             /\ record' = record \cup {input[a]} /\ envelope' = envelope
    <3>1. Decided' = Decided /\ PreparedInputs' = PreparedInputs
      BY <1>5, StoresFixTheTrail
    <3>2. Trail!Assemble(input[a])
      BY <1>5, <2>2, <3>1 DEF Trail!Assemble
    <3> QED BY <2>2, <3>2, TrailSteps
  <2>3. CASE /\ input[a] \in record /\ input[a] \in Input
             /\ envelope' = envelope \cup {input[a]} /\ record' = record
    <3>1. Decided' = Decided /\ PreparedInputs' = PreparedInputs
      BY <1>5, StoresFixTheTrail
    <3>2. Trail!Seal(input[a])
      BY <1>5, <2>3, <3>1 DEF Trail!Seal
    <3> QED BY <2>3, <3>2, TrailSteps
  <2> QED BY <1>5, <2>1, <2>2, <2>3, AssembledStep, TrailSteps
<1> QED BY <1>1, <1>2, <1>3, <1>4, <1>5, OneKindOfFact

(* However calls overlap, fail and crash, the automatic path leaves behind *)
(* what Evidence says: each fact once, for good, and resting on the one    *)
(* before it.                                                              *)
THEOREM AutomationKeepsTheEvidence == Spec => KeepsTheEvidence
<1>1. Init => Trail!EvidenceInit
  BY DEF Init, ScoringInit, PreparationInit, AssemblyInit, Decided,
     PreparedInputs, CompletedRuns, Settled, Trail!EvidenceInit
<1>2. IInv /\ [Next]_vars => [Trail!EvidenceNext]_(Trail!evidenceVars)
  BY TrailStep
<1> QED BY <1>1, <1>2, AutomationInvariant, PTL
        DEF Spec, KeepsTheEvidence, Trail!EvidenceSpec

-----------------------------------------------------------------------------
(* Budgets                                                                 *)

\* The batches, and the stage each belongs to.
Batching == {"score", "create", "run", "assemble"}

StageOf(pc) == CASE pc = "score" -> "refresh"
                 [] pc = "create" -> "plan"
                 [] pc = "run" -> "prepare"
                 [] pc = "assemble" -> "bundle"

(* No batch has more items to take than its budget allows (max_plans,      *)
(* max_jobs and max_assemblies of the selective batches, which the cycle   *)
(* sets to RunAutomationCycleCommand.budgets).                             *)
WithinBudget ==
  \A c \in Call : at[c] \in Batching =>
    /\ IsFiniteSet(todo[c])
    /\ Cardinality(todo[c]) <= BudgetOf(c, StageOf(at[c]))

(* No stage of a call comes twice, no batch is given more while it runs,   *)
(* and its invocation, with the budgets, stays what it was: what a batch   *)
(* had at first is all it ever takes.                                      *)
GoesForward(c) ==
  at'[c] # "idle" =>
    /\ Rank(at[c]) <= Rank(at'[c])
    /\ at[c] # "idle" => call'[c] = call[c]
    /\ at'[c] = at[c] => todo'[c] \subseteq todo[c]

CallsGoForward == [][\A c \in Call : GoesForward(c)]_vars

(* What the bundle stage counts: one run of every Plan the preparation     *)
(* batch took, for a Plan leaves the batch with its answer.                *)
AnswersAreOfTheirPlan ==
  \A p \in Call :
    prepared[p].status \in {"COMPLETED", "UNCHANGED"} =>
      preparing[p] = "done" /\ prepared[p].run.plan = job[p].plan

OneRunPerPlan(c) ==
  /\ IsFiniteSet(ready[c])
  /\ \A r, q \in ready[c] : r.plan = q.plan => r = q
  /\ Rank(at[c]) < Rank("run") => ready[c] = {}
  /\ at[c] = "run" => \A r \in ready[c] : r.plan \notin todo[c]
  /\ preparing[c] # "idle" => at[c] = "run" /\ job[c].plan \in todo[c]

BudgetInv ==
  /\ IsFiniteSet(plans) /\ AnswersAreOfTheirPlan
  /\ \A c \in Call : OneRunPerPlan(c)
  /\ WithinBudget

\* The first n of a finite set in a strict total order are n at most: the
\* number of elements before it tells each from the others.
LEMMA FirstAreFew ==
  ASSUME NEW S, IsFiniteSet(S), NEW n \in Nat, NEW before,
         \A x \in S : <<x, x>> \notin before,
         \A x, y, z \in S : <<x, y>> \in before /\ <<y, z>> \in before
                              => <<x, z>> \in before,
         \A x, y \in S : x # y => <<x, y>> \in before \/ <<y, x>> \in before
  PROVE  /\ IsFiniteSet(First(n, S, before))
         /\ Cardinality(First(n, S, before)) <= n
<1> DEFINE F == First(n, S, before)
           Below(x) == {y \in S : <<y, x>> \in before}
           rank == [x \in F |-> Cardinality(Below(x))]
<1>1. F \subseteq S
  BY FirstTakesSome
<1>2. \A x : IsFiniteSet(Below(x)) /\ Cardinality(Below(x)) \in Nat
  BY FS_Subset, FS_CardinalityType
<1>3. rank \in [F -> 0..(n - 1)]
  <2>1. \A x \in F : Cardinality(Below(x)) < n
    BY DEF First
  <2>2. \A k \in Nat : k < n => k \in 0..(n - 1)
    OBVIOUS
  <2> QED BY <1>2, <2>1, <2>2
<1>4. ASSUME NEW x \in F, NEW y \in F, <<x, y>> \in before
      PROVE  Cardinality(Below(x)) # Cardinality(Below(y))
  <2>1. x \in S /\ y \in S
    BY <1>1
  <2>2. Below(x) \subseteq Below(y)
    BY <1>4, <2>1
  <2>3. x \in Below(y) /\ x \notin Below(x)
    BY <1>4, <2>1
  <2>4. Below(x) # Below(y)
    BY <2>3
  <2> QED BY <1>2, <2>2, <2>4, FS_Subset
<1>5. \A x, y \in F : rank[x] = rank[y] => x = y
  <2> SUFFICES ASSUME NEW x \in F, NEW y \in F, x # y
               PROVE  Cardinality(Below(x)) # Cardinality(Below(y))
    OBVIOUS
  <2>1. <<x, y>> \in before \/ <<y, x>> \in before
    BY <1>1
  <2> QED BY <1>4, <2>1
<1>6. rank \in Injection(F, 0..(n - 1))
  BY <1>3, <1>5 DEF Injection, IsInjective
<1>7. IsFiniteSet(0..(n - 1)) /\ Cardinality(0..(n - 1)) = n
  BY FS_Interval
<1> HIDE DEF F, rank
<1>8. IsFiniteSet(F) /\ Cardinality(F) <= n
  BY <1>6, <1>7, FS_Injection
<1> QED BY <1>8 DEF F

\* So are the jobs a queue hands out first,
LEMMA FirstJobsAreFew ==
  ASSUME NEW t, NEW n \in Nat,
         NEW S \in SUBSET {j \in Job : QueueStatus(j, t) \in
                                         {"STALE", "MISSING"}}
  PROVE  LET before == {ij \in Job \X Job : ScoredBefore(t, ij[1], ij[2])}
         IN  /\ IsFiniteSet(First(n, S, before))
             /\ Cardinality(First(n, S, before)) <= n
<1> DEFINE before == {ij \in Job \X Job : ScoredBefore(t, ij[1], ij[2])}
<1>1. IsFiniteSet(S) /\ S \subseteq Nat /\ S \subseteq Job
  BY AutomationAssumption, FS_Subset
<1>2. \A x, y \in S : <<x, y>> \in before <=> ScoredBefore(t, x, y)
  BY <1>1
<1>3. \A x \in S : QueueStatus(x, t) \in {"STALE", "MISSING"}
  OBVIOUS
<1>4. /\ \A x \in S : ~ScoredBefore(t, x, x)
      /\ \A x, y, z \in S : ScoredBefore(t, x, y) /\ ScoredBefore(t, y, z)
                              => ScoredBefore(t, x, z)
      /\ \A x, y \in S : x # y => \/ ScoredBefore(t, x, y)
                                  \/ ScoredBefore(t, y, x)
  BY <1>1, <1>3 DEF ScoredBefore
<1> HIDE DEF before
<1>5. /\ IsFiniteSet(First(n, S, before))
      /\ Cardinality(First(n, S, before)) <= n
  BY <1>1, <1>2, <1>4, FirstAreFew
<1> QED BY <1>5 DEF before

\* PlannedBefore is a strict total order of the Plans.
LEMMA PlansAreOrdered ==
  /\ \A p \in Plan : ~PlannedBefore(p, p)
  /\ \A p, q, r \in Plan : PlannedBefore(p, q) /\ PlannedBefore(q, r)
                             => PlannedBefore(p, r)
  /\ \A p, q \in Plan : p # q => PlannedBefore(p, q) \/ PlannedBefore(q, p)
<1>1. \A p \in Plan : /\ TimeOf(p) \in Nat /\ JobOf(p) \in Nat
                      /\ RevisionOf(p) \in Nat
                      /\ p = <<JobOf(p), RevisionOf(p), TimeOf(p)>>
  <2>1. \A p \in Plan : p \in Job \X (1..MaxRevision) \X Moment
    BY AutomationAssumption
  <2>2. Job \subseteq Nat /\ Moment \subseteq Nat /\ MaxRevision \in Nat
    BY AutomationAssumption, PreparationAssumption
  <2> QED BY <2>1, <2>2 DEF TimeOf, JobOf, RevisionOf
<1>2. \A p \in Plan : Level[p] \in Nat
  BY AutomationAssumption
<1>3. /\ \A p \in Plan : ~CreatedBefore(p, p)
      /\ \A p, q, r \in Plan : CreatedBefore(p, q) /\ CreatedBefore(q, r)
                                 => CreatedBefore(p, r)
      /\ \A p, q \in Plan : p # q => CreatedBefore(p, q) \/ CreatedBefore(q, p)
  BY <1>1 DEF CreatedBefore
<1> QED BY <1>2, <1>3 DEF PlannedBefore

\* the Plans that are prepared first,
LEMMA FirstPlansAreFew ==
  ASSUME NEW n \in Nat, NEW S \in SUBSET Plan, IsFiniteSet(S)
  PROVE  LET before == {pq \in Plan \X Plan : PlannedBefore(pq[1], pq[2])}
         IN  /\ IsFiniteSet(First(n, S, before))
             /\ Cardinality(First(n, S, before)) <= n
<1> DEFINE before == {pq \in Plan \X Plan : PlannedBefore(pq[1], pq[2])}
<1>1. \A x, y \in S : <<x, y>> \in before <=> PlannedBefore(x, y)
  OBVIOUS
<1> HIDE DEF before
<1>2. /\ IsFiniteSet(First(n, S, before))
      /\ Cardinality(First(n, S, before)) <= n
  BY <1>1, PlansAreOrdered, FirstAreFew
<1> QED BY <1>2 DEF before

\* and the runs that are bundled first, when each is of a Plan of its own.
LEMMA FirstRunsAreFew ==
  ASSUME NEW n \in Nat, NEW S \in SUBSET runs, IsFiniteSet(S),
         \A r \in runs : r.plan \in Plan,
         \A r, q \in S : r.plan = q.plan => r = q
  PROVE  LET before == {rq \in runs \X runs :
                          PlannedBefore(rq[1].plan, rq[2].plan)}
         IN  /\ IsFiniteSet(First(n, S, before))
             /\ Cardinality(First(n, S, before)) <= n
<1> DEFINE before == {rq \in runs \X runs :
                        PlannedBefore(rq[1].plan, rq[2].plan)}
<1>1. \A x, y \in S : <<x, y>> \in before <=> PlannedBefore(x.plan, y.plan)
  OBVIOUS
<1>2. /\ \A x \in S : ~PlannedBefore(x.plan, x.plan)
      /\ \A x, y, z \in S :
           PlannedBefore(x.plan, y.plan) /\ PlannedBefore(y.plan, z.plan)
             => PlannedBefore(x.plan, z.plan)
      /\ \A x, y \in S : x # y => \/ PlannedBefore(x.plan, y.plan)
                                  \/ PlannedBefore(y.plan, x.plan)
  BY PlansAreOrdered
<1> HIDE DEF before
<1>3. /\ IsFiniteSet(First(n, S, before))
      /\ Cardinality(First(n, S, before)) <= n
  BY <1>1, <1>2, FirstAreFew
<1> QED BY <1>3 DEF before

(* What a step of the call c may do to it, as far as its budgets are       *)
(* concerned: it goes on, and a batch that begins keeps within its budget. *)
Goes(c, pc, items) ==
  /\ at[c] # "idle" /\ UNCHANGED call
  /\ at' = [at EXCEPT ![c] = pc] /\ pc \in CallPC \ {"idle"}
  /\ todo' = [todo EXCEPT ![c] = items]
  /\ Rank(at[c]) <= Rank(pc)
  /\ pc = at[c] => items \subseteq todo[c]
  /\ pc \in Batching /\ pc # at[c] =>
       /\ IsFiniteSet(items)
       /\ Cardinality(items) <= BudgetOf(c, StageOf(pc))

GoesOn(c) == \E pc, items : Goes(c, pc, items)

\* Where a call is while the stage s lasts.
During(s) == CASE s = "refresh" -> {"refresh", "score"}
               [] s = "plan" -> {"plan", "create"}
               [] s = "prepare" -> {"prepare", "run"}
               [] s = "bundle" -> {"bundle", "assemble"}
               [] s = "execute" -> {"execute"}

\* The end of a stage takes a call on,
LEMMA AdvanceGoes ==
  ASSUME CallsTyped, NEW c \in Call, NEW s \in BatchStage, Advance(c, s),
         at[c] \in During(s), UNCHANGED call
  PROVE  GoesOn(c)
<1> DEFINE pc == IF call[c].inv \in Refresh THEN "save" ELSE After(s)
<1>1. /\ at[c] # "idle" /\ pc \in CallPC \ {"idle"} /\ pc # at[c]
      /\ pc \notin Batching /\ Rank(at[c]) <= Rank(pc)
  BY DEF BatchStage, During, After, CallPC, Batching, Rank
<1>2. Goes(c, pc, {})
  BY <1>1 DEF Advance, Goto, Goes
<1> QED BY <1>2 DEF GoesOn

\* also when it is skipped or fails,
LEMMA NoStageGoes ==
  ASSUME CallsTyped, NEW c \in Call, NEW s \in BatchStage, NEW reason,
         StageSkipped(c, s) \/ StageFails(c, s, reason),
         at[c] \in During(s), UNCHANGED call
  PROVE  GoesOn(c)
BY AdvanceGoes DEF StageSkipped, StageFails, EndStage

\* the start of a batch within its budget does,
LEMMA StartBatchGoes ==
  ASSUME CallsTyped, NEW c \in Call, NEW pc \in Batching, NEW items,
         StartBatch(c, pc, items), at[c] \in During(StageOf(pc)) \ {pc},
         UNCHANGED call, IsFiniteSet(items),
         Cardinality(items) <= BudgetOf(c, StageOf(pc))
  PROVE  GoesOn(c)
<1>1. /\ at[c] # "idle" /\ pc \in CallPC \ {"idle"} /\ pc # at[c]
      /\ Rank(at[c]) <= Rank(pc)
  BY DEF During, StageOf, CallPC, Batching, Rank
<1>2. Goes(c, pc, items)
  BY <1>1 DEF StartBatch, Goto, Goes
<1> QED BY <1>2 DEF GoesOn

\* and an item that is taken leaves the batch smaller.
LEMMA TookGoes ==
  ASSUME CallsTyped, NEW c \in Call, NEW item, NEW success,
         Took(c, item, success), at[c] # "idle", UNCHANGED call
  PROVE  GoesOn(c)
<1>1. Rank(at[c]) <= Rank(at[c])
  BY DEF Rank
<1>2. Goes(c, at[c], todo[c] \ {item})
  BY <1>1 DEF Took, Goes, CallsTyped
<1> QED BY <1>2 DEF GoesOn

\* A budget is a number.
LEMMA BudgetTyped ==
  ASSUME CallsTyped, NEW c \in Call, at[c] # "idle", NEW s \in BatchStage
  PROVE  BudgetOf(c, s) \in Nat
BY AutomationAssumption DEF CallsTyped, BudgetOf

\* The steps of the batches take their call on.
LEMMA BatchesGo ==
  ASSUME AutomationTypeOK, BudgetInv, NEW c \in Call,
         \/ ReadQueue(c) \/ TakeScore(c) \/ EndRefresh(c) \/ ReadRunnable(c)
         \/ (\E j \in Job : CreatePlan(c, j)) \/ EndPlans(c)
         \/ ReadAttention(c) \/ TakePreparation(c) \/ EndPreparations(c)
         \/ StartBundles(c) \/ TakeBundle(c) \/ EndBundles(c)
         \/ ExecuteBatch(c)
  PROVE  GoesOn(c)
<1>0. /\ CallsTyped
      /\ {"refresh", "plan", "prepare", "bundle", "execute"}
            \subseteq BatchStage
      /\ {"score", "create", "run", "assemble"} = Batching
      /\ \A s \in BatchStage : at[c] # "idle" => BudgetOf(c, s) \in Nat
  BY BudgetTyped DEF AutomationTypeOK, BatchStage, Batching
<1>1. CASE ReadQueue(c)
  <2>0. at[c] \in During("refresh") \ {"score"} /\ at[c] # "idle"
        /\ UNCHANGED call /\ StageOf("score") = "refresh"
    BY <1>1 DEF ReadQueue, During, StageOf
  <2>1. CASE StageSkipped(c, "refresh")
             \/ StageFails(c, "refresh", ~QueueIsReadable)
    BY <1>0, <2>0, <2>1, NoStageGoes
  <2>2. CASE LET t == Now(c)
                 targets == {j \in ListedJobs :
                               QueueStatus(j, t) \in {"STALE", "MISSING"}}
                 before == {ij \in Job \X Job : ScoredBefore(t, ij[1], ij[2])}
             IN  StartBatch(c, "score",
                            First(BudgetOf(c, "refresh"), targets, before))
    <3> DEFINE targets == {j \in ListedJobs :
                             QueueStatus(j, Now(c)) \in {"STALE", "MISSING"}}
               before == {ij \in Job \X Job :
                            ScoredBefore(Now(c), ij[1], ij[2])}
               items == First(BudgetOf(c, "refresh"), targets, before)
    <3>1. targets \in SUBSET {j \in Job : QueueStatus(j, Now(c)) \in
                                            {"STALE", "MISSING"}}
      BY DEF ListedJobs
    <3>2. BudgetOf(c, "refresh") \in Nat
      BY <1>0, <2>0
    <3>3. IsFiniteSet(items)
          /\ Cardinality(items) <= BudgetOf(c, "refresh")
      <4> HIDE DEF targets
      <4> QED BY <3>1, <3>2, FirstJobsAreFew
    <3>4. StartBatch(c, "score", items)
      BY <2>2
    <3> HIDE DEF items
    <3> QED BY <1>0, <2>0, <3>3, <3>4, StartBatchGoes
  <2> QED BY <1>1, <2>1, <2>2 DEF ReadQueue
<1>2. CASE TakeScore(c)
  BY <1>0, <1>2, TookGoes DEF TakeScore
<1>3. CASE EndRefresh(c)
  BY <1>0, <1>3, AdvanceGoes DEF EndRefresh, EndBatch, EndStage, During
<1>4. CASE ReadRunnable(c)
  <2>0. at[c] \in During("plan") \ {"create"} /\ at[c] # "idle"
        /\ UNCHANGED call /\ StageOf("create") = "plan"
    BY <1>4 DEF ReadRunnable, During, StageOf
  <2>1. CASE StageSkipped(c, "plan") \/ StageFails(c, "plan", ~QueueIsReadable)
    BY <1>0, <2>0, <2>1, NoStageGoes
  <2> DEFINE runnable == {j \in ListedJobs : Runnable(j, Now(c))}
  <2>2. ASSUME NEW S \in SUBSET runnable,
               IF Cardinality(runnable) <= BudgetOf(c, "plan")
               THEN S = runnable ELSE Cardinality(S) = BudgetOf(c, "plan"),
               StartBatch(c, "create", S)
        PROVE  GoesOn(c)
    <3>1. S \in SUBSET Job
      BY DEF ListedJobs
    <3>2. IsFiniteSet(S)
      BY <3>1, AutomationAssumption, FS_Subset
    <3>3. BudgetOf(c, "plan") \in Nat
      BY <1>0, <2>0
    <3>4. Cardinality(S) <= BudgetOf(c, "plan")
      <4> HIDE DEF runnable
      <4> QED BY <2>2, <3>3
    <3> QED BY <1>0, <2>0, <2>2, <3>2, <3>4, StartBatchGoes
  <2> QED BY <1>4, <2>1, <2>2 DEF ReadRunnable
<1>5. ASSUME NEW j \in Job, CreatePlan(c, j)
      PROVE  GoesOn(c)
  BY <1>0, <1>5, TookGoes DEF CreatePlan
<1>6. CASE EndPlans(c)
  BY <1>0, <1>6, AdvanceGoes DEF EndPlans, EndBatch, EndStage, During
<1>7. CASE ReadAttention(c)
  <2>0. at[c] \in During("prepare") \ {"run"} /\ at[c] # "idle"
        /\ UNCHANGED call /\ StageOf("run") = "prepare"
    BY <1>7 DEF ReadAttention, During, StageOf
  <2>1. CASE StageSkipped(c, "prepare") \/ StageFails(c, "prepare", FALSE)
    BY <1>0, <2>0, <2>1, NoStageGoes
  <2>2. CASE LET eligible == {p \in plans : ~NeedsAttention(p)}
                 before == {pq \in Plan \X Plan : PlannedBefore(pq[1], pq[2])}
             IN  StartBatch(c, "run",
                            First(BudgetOf(c, "prepare"), eligible, before))
    <3> DEFINE eligible == {p \in plans : ~NeedsAttention(p)}
               before == {pq \in Plan \X Plan : PlannedBefore(pq[1], pq[2])}
               items == First(BudgetOf(c, "prepare"), eligible, before)
    <3>1. eligible \in SUBSET Plan /\ IsFiniteSet(eligible)
      BY FS_Subset DEF BudgetInv, AutomationTypeOK, StoresTyped
    <3>2. BudgetOf(c, "prepare") \in Nat
      BY <1>0, <2>0
    <3>3. IsFiniteSet(items)
          /\ Cardinality(items) <= BudgetOf(c, "prepare")
      <4> HIDE DEF eligible
      <4> QED BY <3>1, <3>2, FirstPlansAreFew
    <3>4. StartBatch(c, "run", items)
      BY <2>2
    <3> HIDE DEF items
    <3> QED BY <1>0, <2>0, <3>3, <3>4, StartBatchGoes
  <2> QED BY <1>7, <2>1, <2>2 DEF ReadAttention
<1>8. CASE TakePreparation(c)
  BY <1>0, <1>8, TookGoes DEF TakePreparation
<1>9. CASE EndPreparations(c)
  BY <1>0, <1>9, AdvanceGoes DEF EndPreparations, EndBatch, EndStage, During
<1>10. CASE StartBundles(c)
  <2>0. at[c] \in During("bundle") \ {"assemble"} /\ at[c] # "idle"
        /\ UNCHANGED call /\ StageOf("assemble") = "bundle"
    BY <1>10 DEF StartBundles, During, StageOf
  <2>1. CASE StageSkipped(c, "bundle")
             \/ EndStage(c, "bundle", TRUE, FALSE, TRUE, FALSE)
    BY <1>0, <2>0, <2>1, AdvanceGoes DEF StageSkipped, EndStage
  <2>2. CASE LET before == {rq \in runs \X runs :
                              PlannedBefore(rq[1].plan, rq[2].plan)}
             IN  StartBatch(c, "assemble",
                            First(BudgetOf(c, "bundle"), ready[c], before))
    <3> DEFINE before == {rq \in runs \X runs :
                            PlannedBefore(rq[1].plan, rq[2].plan)}
               items == First(BudgetOf(c, "bundle"), ready[c], before)
    <3>1. /\ ready[c] \in SUBSET runs /\ IsFiniteSet(ready[c])
          /\ \A r, q \in ready[c] : r.plan = q.plan => r = q
      BY <1>0 DEF BudgetInv, OneRunPerPlan, CallsTyped
    <3>2. BudgetOf(c, "bundle") \in Nat /\ \A r \in runs : r.plan \in Plan
      BY <1>0, <2>0 DEF AutomationTypeOK, ComponentsTyped, PreparationTypeOK,
         PreparationRun
    <3>3. IsFiniteSet(items)
          /\ Cardinality(items) <= BudgetOf(c, "bundle")
      BY <3>1, <3>2, FirstRunsAreFew
    <3>4. StartBatch(c, "assemble", items)
      BY <2>2
    <3> HIDE DEF items
    <3> QED BY <1>0, <2>0, <3>3, <3>4, StartBatchGoes
  <2> QED BY <1>10, <2>1, <2>2 DEF StartBundles
<1>11. CASE TakeBundle(c)
  BY <1>0, <1>11, TookGoes DEF TakeBundle
<1>12. CASE EndBundles(c)
  BY <1>0, <1>12, AdvanceGoes DEF EndBundles, EndStage, During
<1>13. CASE ExecuteBatch(c)
  <2>1. at[c] \in During("execute") /\ UNCHANGED call
    BY <1>13 DEF ExecuteBatch, During
  <2> QED BY <1>0, <1>13, <2>1, NoStageGoes, AdvanceGoes
          DEF ExecuteBatch, EndStage
<1> QED BY <1>1, <1>2, <1>3, <1>4, <1>5, <1>6, <1>7, <1>8, <1>9, <1>10,
        <1>11, <1>12, <1>13

\* So a step of a call waits for a component, takes the call on or ends it.
LEMMA CallStepGoes ==
  ASSUME AutomationTypeOK, BudgetInv, NEW c \in Call, CallStep(c)
  PROVE  \/ UNCHANGED callVars
         \/ GoesOn(c)
         \/ CallOver(c) /\ at[c] = "done" /\ UNCHANGED componentVars
<1>0. CallsTyped
  BY DEF AutomationTypeOK
<1>1. CASE \/ (\E j \in Job : ScoreJob(c, j)) \/ ScoringRuns(c)
           \/ (\E p \in Plan : PreparePlan(c, p)) \/ PreparationRuns(c)
           \/ (\E r \in runs : AssembleBundle(c, r)) \/ AssemblyRuns(c)
  BY <1>1 DEF ScoreJob, ScoringRuns, PreparePlan, PreparationRuns,
     AssembleBundle, AssemblyRuns
<1>2. ASSUME NEW pc \in CallPC \ ({"idle"} \cup Batching), at[c] # "idle",
             pc # at[c], Rank(at[c]) <= Rank(pc), Goto(c, pc),
             UNCHANGED <<call, todo>>
      PROVE  GoesOn(c)
  <2>1. Goes(c, pc, todo[c])
    BY <1>0, <1>2 DEF Goto, Goes, CallsTyped, Batching
  <2> QED BY <2>1 DEF GoesOn
<1>3. /\ Rank("read") <= Rank("list") /\ Rank("read") <= Rank("refresh")
      /\ Rank("read") <= Rank("done") /\ Rank("list") <= Rank("discover")
      /\ Rank("list") <= Rank("save") /\ Rank("discover") <= Rank("refresh")
      /\ {"list", "discover", "refresh", "save", "write", "sync", "compare",
           "done"} \subseteq CallPC \ ({"idle"} \cup Batching)
  BY DEF Rank, CallPC, Batching
<1>4. CASE ReadRun(c) \/ ListProfiles(c) \/ EndDiscovery(c) \/ SaveCycle(c)
  <2>1. CASE ReadRun(c)
    BY <1>2, <1>3, <2>1 DEF ReadRun, Tell
  <2>2. CASE ListProfiles(c)
    BY <1>2, <1>3, <2>2 DEF ListProfiles
  <2>3. CASE EndDiscovery(c)
    BY <1>2, <1>3, <2>3 DEF EndDiscovery
  <2>4. CASE SaveCycle(c)
    <3>1. PICK pc \in {"write", "sync", "compare", "done"} :
            /\ Goto(c, pc) /\ Rank(at[c]) <= Rank(pc) /\ pc # at[c]
      BY <2>4, SavingGoes
    <3>2. UNCHANGED <<call, todo>> /\ at[c] # "idle"
      BY <2>4, SavingGoes
    <3> QED BY <1>2, <1>3, <3>1, <3>2
  <2> QED BY <1>4, <2>1, <2>2, <2>3, <2>4
<1>5. CASE EndCall(c)
  BY <1>5 DEF EndCall
<1> QED BY <1>1, <1>4, <1>5, BatchesGo DEF CallStep

\* The stored Plans stay finitely many.
LEMMA PlansStayFinite ==
  ASSUME IInv, IsFiniteSet(plans), [Next]_vars
  PROVE  IsFiniteSet(plans')
<1>1. ASSUME NEW c \in Call, NEW j \in Job, CreatePlan(c, j)
      PROVE  IsFiniteSet(plans')
  <2>1. plans' = plans \/ plans' = plans \cup {Expected(j, Now(c))}
    BY <1>1 DEF CreatePlan
  <2> QED BY <2>1, FS_AddElement
<1>2. ASSUME NEW c \in Call, CallStep(c), ~\E j \in Job : CreatePlan(c, j)
      PROVE  UNCHANGED plans
  BY <1>2 DEF CallStep, ReadRun, ListProfiles, EndDiscovery, ReadQueue,
     ScoreJob, ScoringRuns, TakeScore, EndRefresh, ReadRunnable, EndPlans,
     ReadAttention, PreparePlan, PreparationRuns, TakePreparation,
     EndPreparations, StartBundles, AssembleBundle, AssemblyRuns, TakeBundle,
     EndBundles, ExecuteBatch, SaveCycle, EndCall, storeVars
<1>3. CASE UNCHANGED vars
  BY <1>3 DEF vars, storeVars
<1> QED BY <1>1, <1>2, <1>3, OtherStepsTyped DEF IInv, Next

\* The run a preparation answers with is of the Plan it was asked for.
LEMMA AnswersStep ==
  ASSUME PreparationTypeOK, AnswersAreOfTheirPlan,
         [PreparationNext]_preparationVars
  PROVE  AnswersAreOfTheirPlan'
<1> SUFFICES ASSUME NEW q \in Call,
                    prepared'[q].status \in {"COMPLETED", "UNCHANGED"}
             PROVE  preparing'[q] = "done"
                    /\ prepared'[q].run.plan = job'[q].plan
  BY DEF AnswersAreOfTheirPlan
<1>1. ASSUME NEW p \in Call, NEW status, NEW run, Answer(p, status, run),
             run.plan = job[p].plan, UNCHANGED job
      PROVE  preparing'[q] = "done" /\ prepared'[q].run.plan = job'[q].plan
  BY <1>1 DEF Answer, PreparationTypeOK, AnswersAreOfTheirPlan
<1>2. ASSUME NEW p \in Call, FindCurrent(p)
      PROVE  preparing'[q] = "done" /\ prepared'[q].run.plan = job'[q].plan
  BY <1>1, <1>2 DEF FindCurrent, CurrentRuns, PreparationTypeOK,
     AnswersAreOfTheirPlan
<1>3. ASSUME NEW p \in Call, SaveRun(p)
      PROVE  preparing'[q] = "done" /\ prepared'[q].run.plan = job'[q].plan
  <2>1. CASE Answer(p, stopped[p], RunOf(p))
    BY <1>1, <1>3, <2>1 DEF SaveRun, RunOf
  <2>2. CASE Answer(p, "PERSISTENCE_FAILED", None)
    BY <1>3, <2>2 DEF SaveRun, Answer, PreparationTypeOK,
       AnswersAreOfTheirPlan
  <2> QED BY <1>3, <2>1, <2>2 DEF SaveRun
<1>4. ASSUME NEW p \in Call, StageSucceeds(p) \/ SkipLayout(p) \/ StageStops(p)
      PROVE  preparing'[q] = "done" /\ prepared'[q].run.plan = job'[q].plan
  BY <1>4 DEF StageSucceeds, SkipLayout, StageStops, GoOn, PreparationTypeOK,
     AnswersAreOfTheirPlan
<1>5. ASSUME NEW p \in Call, PreparationOver(p)
      PROVE  preparing'[q] = "done" /\ prepared'[q].run.plan = job'[q].plan
  BY <1>5 DEF PreparationOver, NoAnswer, PreparationTypeOK,
     AnswersAreOfTheirPlan
<1>6. ASSUME NEW p \in Call, NEW plan, NEW time,
             BeginPreparation(p, plan, time)
      PROVE  preparing'[q] = "done" /\ prepared'[q].run.plan = job'[q].plan
  BY <1>6 DEF BeginPreparation, PreparationTypeOK, AnswersAreOfTheirPlan
<1>7. CASE UNCHANGED preparationVars
  BY <1>7 DEF preparationVars, AnswersAreOfTheirPlan
<1> QED BY <1>2, <1>3, <1>4, <1>5, <1>6, <1>7
        DEF PreparationNext, PreparationStep, EndPreparation, PreparationCrash

\* A batch of preparations waits for the one it is at.
LEMMA BatchAwaitsItsRun ==
  ASSUME AutomationTypeOK, NEW c \in Call, CallStep(c), at[c] = "run",
         preparing'[c] # "idle"
  PROVE  UNCHANGED callVars
<1>1. \/ (\E p \in Plan : PreparePlan(c, p)) \/ ScoringRuns(c)
      \/ PreparationRuns(c) \/ TakePreparation(c) \/ EndPreparations(c)
      \/ AssemblyRuns(c)
  BY SavingGoes DEF CallStep, ReadRun, ListProfiles, EndDiscovery, ReadQueue,
     ScoreJob, TakeScore, EndRefresh, ReadRunnable, CreatePlan, EndPlans,
     ReadAttention, StartBundles, AssembleBundle, TakeBundle, EndBundles,
     ExecuteBatch, EndCall
<1>2. ~TakePreparation(c)
  BY DEF TakePreparation, EndPreparation, PreparationOver, AutomationTypeOK,
     ComponentsTyped, PreparationTypeOK
<1>3. ~EndPreparations(c)
  BY DEF EndPreparations, componentVars, preparationVars
<1> QED BY <1>1, <1>2, <1>3
        DEF PreparePlan, ScoringRuns, PreparationRuns, AssemblyRuns

\* A step of one call leaves the others where they are.
LEMMA OthersStay ==
  ASSUME AutomationTypeOK, PreparationInv, BudgetInv, NEW c \in Call,
         CallStep(c), NEW d \in Call, d # c
  PROVE  /\ at'[d] = at[d] /\ todo'[d] = todo[d] /\ call'[d] = call[d]
         /\ ready'[d] = ready[d]
BY CallStepGoes, ReadyStep
   DEF AutomationTypeOK, CallsTyped, callVars, GoesOn, Goes, CallOver, Goto

\* The run that is added is of a Plan that leaves the batch with it.
LEMMA TakenRunIsNew ==
  ASSUME AutomationTypeOK, BudgetInv, NEW c \in Call, TakePreparation(c)
  PROVE  OneRunPerPlan(c)'
<1>0. /\ CallsTyped /\ OneRunPerPlan(c) /\ AnswersAreOfTheirPlan
      /\ preparing \in [Call -> PreparationPC] /\ preparing[c] = "done"
  BY DEF AutomationTypeOK, ComponentsTyped, PreparationTypeOK, BudgetInv,
     TakePreparation, EndPreparation
<1>1. /\ at[c] = "run" /\ at'[c] = "run" /\ preparing'[c] = "idle"
      /\ job[c].plan \in todo[c] /\ todo'[c] = todo[c] \ {job[c].plan}
  BY <1>0 DEF TakePreparation, Took, EndPreparation, PreparationOver,
     CallsTyped, OneRunPerPlan
<1>2. ~(Rank("run") < Rank("run"))
  BY DEF Rank
<1>3. CASE ready'[c] = ready[c]
  BY <1>0, <1>1, <1>2, <1>3 DEF OneRunPerPlan
<1>4. CASE /\ ready'[c] = ready[c] \cup {prepared[c].run}
           /\ prepared[c].status \in {"COMPLETED", "UNCHANGED"}
  <2>1. prepared[c].run.plan = job[c].plan
    BY <1>0, <1>4 DEF AnswersAreOfTheirPlan
  <2>2. IsFiniteSet(ready'[c])
    <3>1. IsFiniteSet(ready[c])
      BY <1>0 DEF OneRunPerPlan
    <3>2. IsFiniteSet(ready[c] \cup {prepared[c].run})
      BY <3>1, FS_AddElement
    <3> QED BY <1>4, <3>2
  <2>3. \A r, q \in ready'[c] : r.plan = q.plan => r = q
    BY <1>0, <1>1, <1>4, <2>1 DEF OneRunPerPlan
  <2>4. \A r \in ready'[c] : r.plan \notin todo'[c]
    BY <1>0, <1>1, <1>4, <2>1 DEF OneRunPerPlan
  <2> QED BY <1>1, <1>2, <2>2, <2>3, <2>4 DEF OneRunPerPlan
<1> QED BY <1>0, <1>3, <1>4 DEF TakePreparation, CallsTyped

\* A call goes on with the runs it has.
LEMMA RunsAreOfTheirPlans ==
  ASSUME AutomationTypeOK, PreparationInv, BudgetInv, NEW c \in Call,
         CallStep(c), NEW d \in Call,
         preparing'[d] # "idle" =>
           at[d] = "run" /\ job'[d].plan \in todo[d]
  PROVE  OneRunPerPlan(d)'
<1>0. CallsTyped /\ OneRunPerPlan(d)
  BY DEF AutomationTypeOK, BudgetInv
<1>1. CASE /\ at'[d] = at[d] /\ todo'[d] = todo[d] /\ ready'[d] = ready[d]
  BY <1>0, <1>1 DEF OneRunPerPlan
<1>2. CASE TakePreparation(c) /\ d = c
  BY <1>2, TakenRunIsNew
<1>3. CASE d = c /\ UNCHANGED ready /\ GoesOn(c) /\ ~UNCHANGED callVars
  <2>1. preparing'[d] = "idle"
    BY <1>3, BatchAwaitsItsRun
  <2>2. PICK pc, items : Goes(c, pc, items)
    BY <1>3 DEF GoesOn
  <2>3. /\ at'[d] = pc /\ todo'[d] = items /\ ready'[d] = ready[d]
        /\ Rank(at[d]) <= Rank(pc)
        /\ pc = at[d] => items \subseteq todo[d]
    BY <1>0, <1>3, <2>2 DEF Goes, CallsTyped
  <2>4. Rank(at[d]) \in Nat /\ Rank(pc) \in Nat /\ Rank("run") = 9
    BY DEF Rank
  <2>5. Rank(pc) < Rank("run") => ready[d] = {}
    BY <1>0, <2>3, <2>4 DEF OneRunPerPlan
  <2>6. pc = "run" => \A r \in ready[d] : r.plan \notin items
    <3>1. at[d] = "run" \/ Rank(at[d]) < 9 \/ Rank(at[d]) > 9
      BY DEF Rank
    <3> QED BY <1>0, <2>3, <2>4, <3>1 DEF OneRunPerPlan
  <2> QED BY <1>0, <2>1, <2>3, <2>5, <2>6 DEF OneRunPerPlan
<1>4. CASE EndCall(c) /\ d = c
  <2>1. ready'[d] = {} /\ at'[d] = "idle" /\ preparing'[d] = preparing[d]
        /\ at[d] = "done"
    BY <1>0, <1>4 DEF EndCall, CallOver, Goto, CallsTyped, componentVars,
       preparationVars
  <2> QED BY <1>0, <2>1, FS_EmptySet DEF OneRunPerPlan
<1>5. CASE EndPreparations(c) /\ d = c
  <2>1. preparing'[d] = "idle"
    BY <1>5 DEF EndPreparations, componentVars, preparationVars
  <2>2. CASE ready'[d] = {}
    BY <2>1, <2>2, FS_EmptySet DEF OneRunPerPlan
  <2>3. CASE UNCHANGED ready
    <3>1. GoesOn(c)
      BY <1>5, BatchesGo
    <3> QED BY <1>1, <1>3, <1>5, <2>3, <3>1 DEF callVars
  <2> QED BY <1>0, <1>5, <2>2, <2>3 DEF EndPreparations, CallsTyped
<1>6. CASE d = c /\ ~TakePreparation(c) /\ ~EndCall(c) /\ ~EndPreparations(c)
  <2>1. UNCHANGED ready /\ (GoesOn(c) \/ UNCHANGED callVars)
    <3>1. UNCHANGED ready
      BY <1>6, ReadyComesFromTheBatch
    <3>2. at[c] = "done" => UNCHANGED callVars
      BY <1>6, SavingGoes DEF CallStep, ReadRun, ListProfiles, EndDiscovery,
         ReadQueue, ScoreJob, ScoringRuns, TakeScore, EndRefresh, ReadRunnable,
         CreatePlan, EndPlans, ReadAttention, PreparePlan, PreparationRuns,
         StartBundles, AssembleBundle, AssemblyRuns, TakeBundle, EndBundles,
         ExecuteBatch
    <3> QED BY <3>1, <3>2, CallStepGoes
  <2> QED BY <1>1, <1>3, <1>6, <2>1 DEF callVars
<1> QED BY <1>1, <1>2, <1>4, <1>5, <1>6, OthersStay

\* A step keeps the runs a call has to one for every Plan,
LEMMA OneRunStep ==
  ASSUME IInv, BudgetInv, [Next]_vars, NEW d \in Call
  PROVE  OneRunPerPlan(d)'
<1>0. /\ AutomationTypeOK /\ CallsTyped /\ PreparationInv /\ OneRunPerPlan(d)
      /\ preparing \in [Call -> PreparationPC]
  BY DEF IInv, AutomationTypeOK, BudgetInv, ComponentsTyped,
     PreparationTypeOK
<1>1. preparing'[d] # "idle" =>
        at[d] = "run" /\ job'[d].plan \in todo[d]
  BY <1>0, PreparingStep DEF OneRunPerPlan
<1>2. ASSUME NEW c \in Call, CallStep(c)
      PROVE  OneRunPerPlan(d)'
  BY <1>0, <1>1, <1>2, RunsAreOfTheirPlans
<1>3. CASE at'[d] = at[d] /\ todo'[d] = todo[d] /\ ready'[d] = ready[d]
  BY <1>0, <1>1, <1>3 DEF OneRunPerPlan
<1>4. ASSUME NEW c \in Call, NEW i \in Invocation, NEW t \in Moment,
             BeginCall(c, i, t)
      PROVE  OneRunPerPlan(d)'
  <2>1. CASE d # c
    BY <1>0, <1>3, <1>4, <2>1 DEF BeginCall, Goto, CallsTyped
  <2>2. CASE d = c
    <3>1. /\ at[d] = "idle" /\ at'[d] = "read" /\ ready'[d] = ready[d]
          /\ Rank("idle") < Rank("run")
      BY <1>0, <1>4, <2>2 DEF BeginCall, Goto, CallsTyped, Rank
    <3> QED BY <1>0, <1>1, <3>1 DEF OneRunPerPlan
  <2> QED BY <2>1, <2>2
<1>5. ASSUME NEW c \in Call, NEW j \in Job, Discover(c, j)
      PROVE  OneRunPerPlan(d)'
  BY <1>3, <1>5 DEF Discover, callVars
<1>6. ASSUME NEW c \in Call, Crash(c)
      PROVE  OneRunPerPlan(d)'
  <2>1. CASE d # c
    BY <1>0, <1>3, <1>6, <2>1 DEF Crash, CallOver, Goto, CallsTyped
  <2>2. CASE d = c
    <3>1. ready'[d] = {} /\ at'[d] = "idle" /\ preparing'[d] = "idle"
      BY <1>0, <1>6, <2>2 DEF Crash, CallOver, Goto, CallsTyped,
         PreparationCrash, PreparationOver, preparationVars
    <3> QED BY <3>1, FS_EmptySet DEF OneRunPerPlan
  <2> QED BY <2>1, <2>2
<1>7. CASE UNCHANGED vars
  BY <1>3, <1>7 DEF vars, callVars
<1> QED BY <1>2, <1>4, <1>5, <1>6, <1>7 DEF Next

\* and takes every call on, within the budgets of its invocation.
LEMMA BudgetStep ==
  ASSUME IInv, BudgetInv, [Next]_vars
  PROVE  WithinBudget' /\ \A d \in Call : GoesForward(d)
<1>0. /\ AutomationTypeOK /\ CallsTyped /\ PreparationInv /\ WithinBudget
      /\ \A pc : Rank(pc) <= Rank(pc)
  BY DEF IInv, AutomationTypeOK, BudgetInv, Rank
<1> DEFINE Kept(d) ==
             at'[d] \in Batching =>
               /\ IsFiniteSet(todo'[d])
               /\ Cardinality(todo'[d])
                    <= Budget[call'[d].inv][StageOf(at'[d])]
<1>1. ASSUME NEW d \in Call, at'[d] = at[d], todo'[d] = todo[d],
             call'[d] = call[d]
      PROVE  Kept(d) /\ GoesForward(d)
  BY <1>0, <1>1 DEF WithinBudget, GoesForward, BudgetOf
<1>2. ASSUME NEW d \in Call, at'[d] = "idle"
      PROVE  Kept(d) /\ GoesForward(d)
  BY <1>2 DEF GoesForward, Batching
<1>3. ASSUME NEW c \in Call, NEW pc, NEW items, Goes(c, pc, items)
      PROVE  Kept(c) /\ GoesForward(c)
  <2>1. /\ at'[c] = pc /\ todo'[c] = items /\ call' = call
        /\ Rank(at[c]) <= Rank(pc)
        /\ pc = at[c] => items \subseteq todo[c]
        /\ pc \in Batching /\ pc # at[c] =>
             /\ IsFiniteSet(items)
             /\ Cardinality(items) <= BudgetOf(c, StageOf(pc))
    BY <1>0, <1>3 DEF Goes, CallsTyped
  <2>2. CASE pc = at[c] /\ pc \in Batching
    <3>1. /\ IsFiniteSet(todo[c]) /\ Cardinality(todo[c]) \in Nat
          /\ Cardinality(todo[c]) <= BudgetOf(c, StageOf(pc))
      BY <1>0, <2>2, FS_CardinalityType DEF WithinBudget
    <3>2. /\ IsFiniteSet(items) /\ Cardinality(items) \in Nat
          /\ Cardinality(items) <= Cardinality(todo[c])
      BY <2>1, <2>2, <3>1, FS_Subset, FS_CardinalityType
    <3>3. BudgetOf(c, StageOf(pc)) \in Nat
      <4>1. StageOf(pc) \in BatchStage /\ at[c] # "idle"
        BY <2>2 DEF StageOf, Batching, BatchStage
      <4> QED BY <1>0, <4>1, BudgetTyped
    <3>4. Cardinality(items) <= BudgetOf(c, StageOf(pc))
      BY <3>1, <3>2, <3>3
    <3> QED BY <2>1, <3>2, <3>4 DEF GoesForward, BudgetOf
  <2>3. CASE pc # at[c] \/ pc \notin Batching
    BY <2>1, <2>3 DEF GoesForward, BudgetOf
  <2> QED BY <2>2, <2>3
<1>4. ASSUME NEW c \in Call, CallStep(c), NEW d \in Call
      PROVE  Kept(d) /\ GoesForward(d)
  <2>1. CASE d # c
    BY <1>0, <1>1, <1>4, <2>1, OthersStay
  <2>2. CASE d = c
    <3>1. CASE UNCHANGED callVars
      BY <1>1, <2>2, <3>1 DEF callVars
    <3>2. CASE CallOver(c)
      BY <1>0, <1>2, <2>2, <3>2 DEF CallOver, Goto, CallsTyped
    <3> QED BY <1>0, <1>3, <1>4, <2>2, <3>1, <3>2, CallStepGoes DEF GoesOn
  <2> QED BY <2>1, <2>2
<1>5. ASSUME NEW c \in Call, NEW i \in Invocation, NEW t \in Moment,
             BeginCall(c, i, t), NEW d \in Call
      PROVE  Kept(d) /\ GoesForward(d)
  <2>1. CASE d # c
    BY <1>0, <1>1, <1>5, <2>1 DEF BeginCall, Goto, CallsTyped
  <2>2. CASE d = c
    <3>1. at[d] = "idle" /\ at'[d] = "read" /\ Rank("idle") <= Rank("read")
      BY <1>0, <1>5, <2>2 DEF BeginCall, Goto, CallsTyped, Rank
    <3> QED BY <3>1 DEF GoesForward, Batching
  <2> QED BY <2>1, <2>2
<1>6. ASSUME NEW c \in Call, NEW j \in Job, Discover(c, j), NEW d \in Call
      PROVE  Kept(d) /\ GoesForward(d)
  BY <1>1, <1>6 DEF Discover, callVars
<1>7. ASSUME NEW c \in Call, Crash(c), NEW d \in Call
      PROVE  Kept(d) /\ GoesForward(d)
  BY <1>0, <1>1, <1>2, <1>7 DEF Crash, CallOver, Goto, CallsTyped
<1>8. ASSUME UNCHANGED vars, NEW d \in Call
      PROVE  Kept(d) /\ GoesForward(d)
  BY <1>1, <1>8 DEF vars, callVars
<1>9. \A d \in Call : Kept(d) /\ GoesForward(d)
  BY <1>4, <1>5, <1>6, <1>7, <1>8 DEF Next
<1> QED BY <1>9 DEF WithinBudget, BudgetOf, StageOf

(* Whatever else goes on, no batch of a call has more to take than its     *)
(* invocation's budget allows, and since stages do not come twice and a    *)
(* batch only shrinks, none ever takes more: no job, Plan or run beyond    *)
(* the budgets is scored, planned, prepared or bundled by it, however many *)
(* there are (run_automation_cycle; `selected` and `calls` of the batches).*)
THEOREM BudgetsAreKept == Spec => []WithinBudget /\ CallsGoForward
<1>1. Init => BudgetInv
  <2>1. \A c : ~("idle" \in Batching)
    BY DEF Batching
  <2> QED BY <2>1, FS_EmptySet DEF Init, PreparationInit, BudgetInv,
          AnswersAreOfTheirPlan, NoAnswer, OneRunPerPlan, WithinBudget
<1>2. IInv /\ BudgetInv /\ [Next]_vars =>
        BudgetInv' /\ [\A c \in Call : GoesForward(c)]_vars
  <2> SUFFICES ASSUME IInv, BudgetInv, [Next]_vars
               PROVE  BudgetInv' /\ \A c \in Call : GoesForward(c)
    OBVIOUS
  <2>1. IsFiniteSet(plans')
    BY PlansStayFinite DEF BudgetInv
  <2>2. AnswersAreOfTheirPlan'
    BY AnswersStep, StepIsTheirs
       DEF IInv, AutomationTypeOK, ComponentsTyped, BudgetInv
  <2> QED BY <2>1, <2>2, OneRunStep, BudgetStep DEF BudgetInv
<1>3. BudgetInv => WithinBudget
  BY DEF BudgetInv
<1> QED BY <1>1, <1>2, <1>3, AutomationInvariant, PTL
        DEF Spec, CallsGoForward
=============================================================================
