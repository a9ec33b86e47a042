----------------------------- MODULE Automation -----------------------------
(***************************************************************************)
(* The automatic path from a posting to an ApplicationBundle: calls of     *)
(* run_automation_cycle (core/automation_cycle.py) and of                  *)
(* refresh_job_library (core/job_library_refresh.py), the batches they run *)
(* (core/selective_*.py), the queues those read, and under them            *)
(* PriorityScoring, Preparation and BundleAssembly.                        *)
(*                                                                         *)
(* A call is serial: it hands one job or plan at a time to one component   *)
(* and awaits the answer.  Calls of both kinds overlap in one server, and  *)
(* calls of several servers share the directory.  A queue is a view of the *)
(* files taken in one step, which a call keeps while they go on changing.  *)
(* The run of an invocation is saved as RecordStore says, step by step;    *)
(* the other records are taken to be there or not.  Application execution, *)
(* the last stage, is a module of its own and answers anything here.       *)
(***************************************************************************)
EXTENDS PriorityScoring, Preparation, BundleAssembly, FiniteSets

CONSTANTS
  Job,          \* job ids, which order the queue
  Cycle,        \* invocation ids of automation cycles
  Refresh,      \* invocation ids of Job Library refreshes
  Level,        \* Level[p] : the priority level a Plan p has, P0 to P3
  Budget,       \* Budget[i] : how many items each batch of i may take
  Servings,     \* what may be asked of the calls in one behaviour
  MaxRevision,  \* bound: revisions of a posting
  MaxMishaps    \* bound: how often something goes wrong that need not

Invocation == Cycle \cup Refresh

(* What a priority is bound to, with everything but the posting's revision *)
(* and the time fixed; and the identity of a Plan, which contains that of  *)
(* its decision.                                                           *)
JobOf(b) == b[1]
RevisionOf(b) == b[2]
TimeOf(b) == b[3]

\* What binds a completed preparation run to the bundle made of it.
Lineage(r) == <<r.plan, r.at, r.by>>

BatchStage == {"refresh", "plan", "prepare", "bundle", "execute"}

ASSUME AutomationAssumption ==
  /\ Job \subseteq Nat /\ IsFiniteSet(Job)
  /\ MaxRevision \in Nat \ {0} /\ MaxMishaps \in Nat
  /\ Level \in [Plan -> 0..3]
  /\ Budget \in [Invocation -> [BatchStage -> Nat]]
  /\ Servings \subseteq [Call -> SUBSET Invocation]
  /\ Binding = Job \X (1..MaxRevision) \X Moment
  /\ Plan = Binding
  /\ Input = Plan \X Moment \X Call
  /\ Cycle \cap Refresh = {}

VARIABLES
  serves,      \* serves[c] : the invocations that may be asked of c; fixed
  mishaps,     \* how often something went wrong
  posting,     \* posting[j] : its revision, 0 when it is not in the library
  plans,       \* stored ApplicationPlans
  cycles,      \* cycles[i] : the run of the invocation i in its file, or None
  torn,        \* invocations whose file is there and not yet whole
  withdrawn,   \* history: runs whose whole file was unlinked again, with
               \* their invocations
  at,          \* at[c] : where the call c is
  call,        \* call[c] : its invocation and time
  todo,        \* todo[c] : what its batch has still to take
  good, bad,   \* good[c], bad[c] : some item of the batch succeeded, did not
  ready,       \* ready[c] : the completed runs its preparation batch returned
  sum,         \* sum[c] : the stages behind it, summed up
  told         \* told[c] : what it answered

callVars == <<at, call, todo, good, bad, ready, sum, told>>
recordVars == <<cycles, torn, withdrawn>>
storeVars == <<posting, plans, serves, recordVars>>
vars == <<mishaps, storeVars, callVars, preparationVars, scoringVars,
          assemblyVars>>

CallPC == {"idle", "read", "list", "discover", "refresh", "score", "plan",
           "create", "prepare", "run", "bundle", "assemble", "execute",
           "save", "write", "sync", "compare", "done"}

\* Some stage failed, some enabled stage did not, some item was taken, some
\* was deferred, failed or is uncertain; and the preparation batch returned.
Summary == [failed : BOOLEAN, other : BOOLEAN, processed : BOOLEAN,
            adverse : BOOLEAN, prepared : BOOLEAN]
Overall == {"NOOP", "COMPLETED", "PARTIAL_FAILURE", "FAILED"}
StoredRun == [at : Moment, overall : Overall]

ASSUME NoRunAssumption == None \notin StoredRun

\* What a call may answer: how the run that it stored went, that the run was
\* stored before, or that the record failed it.
CallStatus == Overall \cup {"NONE", "UNCHANGED", "UNREADABLE", "NOT_STORED"}

CallReply == [status : CallStatus, run : StoredRun \cup {None}]

\* What a call at pc may have to take.
Items(pc) == CASE pc \in {"score", "create"} -> Job
               [] pc = "run" -> Plan
               [] pc = "assemble" -> runs
               [] OTHER -> {}

ComponentsTyped == ScoringTypeOK /\ AssemblyTypeOK /\ PreparationTypeOK

StoresTyped ==
  /\ mishaps \in 0..MaxMishaps
  /\ posting \in [Job -> 0..MaxRevision]
  /\ plans \subseteq Plan
  /\ cycles \in [Invocation -> StoredRun \cup {None}]
  /\ torn \subseteq Invocation
  /\ withdrawn \subseteq Invocation \X StoredRun

CallsTyped ==
  /\ at \in [Call -> CallPC]
  /\ call \in [Call -> [inv : Invocation, now : Moment] \cup {None}]
  /\ \A c \in Call :
       at[c] # "idle" => call[c] \in [inv : Invocation, now : Moment]
  /\ todo = [c \in Call |-> todo[c]]
  /\ \A c \in Call : todo[c] \subseteq Items(at[c])
  /\ ready \in [Call -> SUBSET runs]
  /\ good \in [Call -> BOOLEAN]
  /\ bad \in [Call -> BOOLEAN]
  /\ sum \in [Call -> Summary]
  /\ told \in [Call -> CallReply]

AutomationTypeOK == ComponentsTyped /\ StoresTyped /\ CallsTyped

\* How the searches of a refresh went, and that no stage is behind.
Searched(failed, processed, adverse) ==
  [failed |-> failed, other |-> FALSE, processed |-> processed,
   adverse |-> adverse, prepared |-> FALSE]

NoStage == Searched(FALSE, FALSE, FALSE)

NotTold == [status |-> "NONE", run |-> None]

Init ==
  /\ ScoringInit /\ AssemblyInit /\ PreparationInit
  /\ serves \in Servings
  /\ mishaps = 0
  /\ posting \in [Job -> {0, 1}]
  /\ plans = {}
  /\ cycles = [i \in Invocation |-> None]
  /\ torn = {} /\ withdrawn = {}
  /\ at = [c \in Call |-> "idle"]
  /\ call = [c \in Call |-> None]
  /\ todo = [c \in Call |-> {}]
  /\ good = [c \in Call |-> FALSE]
  /\ bad = [c \in Call |-> FALSE]
  /\ ready = [c \in Call |-> {}]
  /\ sum = [c \in Call |-> NoStage]
  /\ told = [c \in Call |-> NotTold]

-----------------------------------------------------------------------------
(* Helpers                                                                 *)

componentVars == <<preparationVars, scoringVars, assemblyVars>>

(* Whatever may fail without a reason in the model is counted.             *)
Mishap(happened) ==
  IF happened THEN mishaps < MaxMishaps /\ mishaps' = mishaps + 1
              ELSE UNCHANGED mishaps

Goto(c, pc) == at' = [at EXCEPT ![c] = pc]

Now(c) == call[c].now
BudgetOf(c, s) == Budget[call[c].inv][s]

(* The stage after the one that ends; a zero budget skips it, and a Job    *)
(* Library refresh runs the first batch only.                              *)
After(s) == CASE s = "refresh" -> "plan"
              [] s = "plan" -> "prepare"
              [] s = "prepare" -> "bundle"
              [] s = "bundle" -> "execute"
              [] s = "execute" -> "save"

Advance(c, s) ==
  /\ Goto(c, IF call[c].inv \in Refresh THEN "save" ELSE After(s))
  /\ todo' = [todo EXCEPT ![c] = {}]
  /\ good' = [good EXCEPT ![c] = FALSE]
  /\ bad' = [bad EXCEPT ![c] = FALSE]

StageSkipped(c, s) ==
  /\ BudgetOf(c, s) = 0
  /\ Advance(c, s)
  /\ UNCHANGED sum

EndStage(c, s, failed, processed, adverse, returned) ==
  /\ sum' = [sum EXCEPT ![c] =
       [failed |-> @.failed \/ failed, other |-> @.other \/ ~failed,
        processed |-> @.processed \/ processed,
        adverse |-> @.adverse \/ adverse,
        prepared |-> @.prepared \/ (s = "prepare" /\ returned)]]
  /\ Advance(c, s)

(* _overall of the batches: FAILED when no item of those taken succeeded,  *)
(* PARTIAL_FAILURE when some did not.                                      *)
EndBatch(c, s) ==
  /\ todo[c] = {}
  /\ EndStage(c, s, bad[c] /\ ~good[c], bad[c] \/ good[c], bad[c], TRUE)

(* A batch that cannot read what it works from returns FAILED and counts   *)
(* no failed item; one that raises is counted as a failure by the cycle.   *)
StageFails(c, s, reason) ==
  /\ BudgetOf(c, s) > 0
  /\ \/ Mishap(~reason) /\ EndStage(c, s, TRUE, FALSE, FALSE, TRUE)
     \/ Mishap(TRUE) /\ EndStage(c, s, TRUE, FALSE, TRUE, FALSE)

StartBatch(c, pc, items) ==
  /\ Goto(c, pc)
  /\ todo' = [todo EXCEPT ![c] = items]
  /\ UNCHANGED <<good, bad, sum>>

Took(c, item, success) ==
  /\ todo' = [todo EXCEPT ![c] = @ \ {item}]
  /\ good' = [good EXCEPT ![c] = @ \/ success]
  /\ bad' = [bad EXCEPT ![c] = @ \/ ~success]
  /\ UNCHANGED <<at, sum>>

\* The first n of S in the order given by the pairs of before.
First(n, S, before) ==
  {x \in S : Cardinality({y \in S : <<y, x>> \in before}) < n}

-----------------------------------------------------------------------------
(* The queues: views of the claims and decisions                           *)

ListedJobs == {j \in Job : posting[j] > 0}

Expected(j, t) == <<j, posting[j], t>>

\* Every record must be readable, or there is no queue.
QueueIsReadable == \A b \in Binding : claim[b] # "PARTIAL"

QueueStatus(j, t) ==
  CASE claim[Expected(j, t)] = "COMPLETED" -> "CURRENT"
    [] claim[Expected(j, t)] # "ABSENT"
         /\ claim[Expected(j, t)] # "COMPLETED" -> "INCOMPLETE"
    [] claim[Expected(j, t)] = "ABSENT"
         /\ \E b \in Binding : JobOf(b) = j /\ claim[b] = "COMPLETED"
         -> "STALE"
    [] OTHER -> "MISSING"

\* Stale jobs come before those never scored.
ScoredBefore(t, i, j) ==
  \/ QueueStatus(i, t) = "STALE" /\ QueueStatus(j, t) = "MISSING"
  \/ QueueStatus(i, t) = QueueStatus(j, t) /\ i < j

Runnable(j, t) ==
  /\ QueueStatus(j, t) = "CURRENT"
  /\ decision[Expected(j, t)] = "QUALIFIED"

\* _plan_domain_sort_key: Plans by priority level, then by their creation; the
\* plan_id, a hash, decides among those of one job and time.
CreatedBefore(p, q) ==
  \/ TimeOf(p) < TimeOf(q)
  \/ TimeOf(p) = TimeOf(q) /\ JobOf(p) < JobOf(q)
  \/ TimeOf(p) = TimeOf(q) /\ JobOf(p) = JobOf(q)
       /\ RevisionOf(p) < RevisionOf(q)

PlannedBefore(p, q) ==
  \/ Level[p] < Level[q]
  \/ Level[p] = Level[q] /\ CreatedBefore(p, q)

-----------------------------------------------------------------------------
(* A call begins, and answers at once when its invocation has a record     *)

BeginCall(c, i, t) ==
  /\ at[c] = "idle" /\ i \in serves[c]
  /\ Goto(c, "read")
  /\ call' = [call EXCEPT ![c] = [inv |-> i, now |-> t]]
  /\ UNCHANGED <<mishaps, storeVars, todo, good, bad, ready, sum, told,
                 componentVars>>

Tell(c, status, run) ==
  /\ told' = [told EXCEPT ![c] = [status |-> status, run |-> run]]
  /\ Goto(c, "done")

(* A file that is not whole, also when another server is just writing it,  *)
(* is an integrity failure.                                                *)
ReadRun(c) ==
  /\ at[c] = "read"
  /\ LET i == call[c].inv
     IN  \/ /\ cycles[i] # None
            /\ Tell(c, "UNCHANGED", cycles[i])
         \/ /\ i \in torn
            /\ Tell(c, "UNREADABLE", None)
         \/ /\ cycles[i] = None /\ i \notin torn
            /\ Goto(c, IF i \in Refresh THEN "list" ELSE "refresh")
            /\ UNCHANGED told
  /\ UNCHANGED <<mishaps, storeVars, call, todo, good, bad, ready, sum,
                 componentVars>>

(* A refresh whose search profiles cannot be listed, or are none, is over. *)
ListProfiles(c) ==
  /\ at[c] = "list"
  /\ \/ Goto(c, "discover") /\ UNCHANGED <<mishaps, sum>>
     \/ Goto(c, "save") /\ UNCHANGED <<mishaps, sum>>
     \/ /\ Goto(c, "save") /\ Mishap(TRUE)
        /\ sum' = [sum EXCEPT ![c] = Searched(TRUE, FALSE, FALSE)]
  /\ UNCHANGED <<storeVars, call, todo, good, bad, ready, told, componentVars>>

(* The search: postings appear in the library or change, then the refresh  *)
(* goes on to the priorities.                                              *)
Discover(c, j) ==
  /\ at[c] = "discover"
  /\ posting[j] < MaxRevision
  /\ posting' = [posting EXCEPT ![j] = @ + 1]
  /\ UNCHANGED <<mishaps, plans, serves, recordVars, callVars,
                 componentVars>>

EndDiscovery(c) ==
  /\ at[c] = "discover"
  /\ Goto(c, "refresh")
  /\ \E trouble \in BOOLEAN :         \* with a search or a candidate
       /\ Mishap(trouble)
       /\ sum' = [sum EXCEPT ![c] = Searched(FALSE, TRUE, trouble)]
  /\ UNCHANGED <<storeVars, call, todo, good, bad, ready, told, componentVars>>

-----------------------------------------------------------------------------
(* P1d3: the first stale and missing jobs of one queue are scored          *)

ReadQueue(c) ==
  /\ at[c] = "refresh"
  /\ \/ StageSkipped(c, "refresh") /\ UNCHANGED mishaps
     \/ StageFails(c, "refresh", ~QueueIsReadable)
     \/ /\ BudgetOf(c, "refresh") > 0 /\ QueueIsReadable
        /\ UNCHANGED mishaps
        /\ LET t == Now(c)
               targets == {j \in ListedJobs :
                             QueueStatus(j, t) \in {"STALE", "MISSING"}}
               before == {ij \in Job \X Job : ScoredBefore(t, ij[1], ij[2])}
           IN  StartBatch(c, "score",
                          First(BudgetOf(c, "refresh"), targets, before))
  /\ UNCHANGED <<storeVars, call, ready, told, componentVars>>

ScoreJob(c, j) ==
  /\ at[c] = "score" /\ j \in todo[c]
  /\ BeginScoring(c, Expected(j, Now(c)))
  /\ UNCHANGED <<mishaps, storeVars, callVars, preparationVars, assemblyVars>>

ScoringRuns(c) ==
  /\ ScoringStep(c)
  /\ Mishap(/\ scoring[c] \in {"write", "agent", "gate", "complete"}
            /\ scored'[c] \notin {"NONE", "CREATED"})
  /\ UNCHANGED <<storeVars, callVars, preparationVars, assemblyVars>>

TakeScore(c) ==
  /\ at[c] = "score"
  /\ EndScoring(c)
  /\ Took(c, JobOf(binding[c]), scored[c] \in {"CREATED", "UNCHANGED"})
  /\ UNCHANGED <<mishaps, storeVars, call, ready, told, preparationVars,
                 assemblyVars>>

(* This batch alone does not catch what scoring one job may raise.         *)
EndRefresh(c) ==
  /\ at[c] = "score" /\ scoring[c] = "idle"
  /\ \/ EndBatch(c, "refresh") /\ UNCHANGED mishaps
     \/ Mishap(TRUE) /\ EndStage(c, "refresh", TRUE, FALSE, TRUE, FALSE)
  /\ UNCHANGED <<storeVars, call, ready, told, componentVars>>

-----------------------------------------------------------------------------
(* P2a1b: plans for the runnable jobs of one queue                         *)

ReadRunnable(c) ==
  /\ at[c] = "plan"
  /\ \/ StageSkipped(c, "plan") /\ UNCHANGED mishaps
     \/ StageFails(c, "plan", ~QueueIsReadable)
     \/ /\ BudgetOf(c, "plan") > 0 /\ QueueIsReadable
        /\ UNCHANGED mishaps
        /\ LET runnable == {j \in ListedJobs : Runnable(j, Now(c))}
           IN  \E S \in SUBSET runnable :
                 /\ IF Cardinality(runnable) <= BudgetOf(c, "plan")
                    THEN S = runnable ELSE Cardinality(S) = BudgetOf(c, "plan")
                 /\ StartBatch(c, "create", S)
  /\ UNCHANGED <<storeVars, call, ready, told, componentVars>>

(* create_application_plan reads the queue again, and what it finds there  *)
(* decides; the Plan of a decision is written once.                        *)
SlipCreatePlan(c, j) ==             \* slip: the batch's own queue is trusted
  /\ at[c] = "create" /\ j \in todo[c]
  /\ \/ /\ plans' = plans \cup {Expected(j, Now(c))}
        /\ Took(c, j, TRUE)
        /\ UNCHANGED mishaps
     \/ /\ UNCHANGED plans
        /\ Took(c, j, FALSE)
        /\ Mishap(QueueIsReadable /\ Runnable(j, Now(c)))
  /\ UNCHANGED <<posting, serves, recordVars, call, ready, told,
                 componentVars>>
CreatePlan(c, j) ==
  /\ at[c] = "create" /\ j \in todo[c]
  /\ \/ /\ QueueIsReadable /\ Runnable(j, Now(c))
        /\ plans' = plans \cup {Expected(j, Now(c))}
        /\ Took(c, j, TRUE)
        /\ UNCHANGED mishaps
     \/ /\ UNCHANGED plans
        /\ Took(c, j, FALSE)
        /\ Mishap(QueueIsReadable /\ Runnable(j, Now(c)))
  /\ UNCHANGED <<posting, serves, recordVars, call, ready, told,
                 componentVars>>

EndPlans(c) ==
  /\ at[c] = "create"
  /\ EndBatch(c, "plan")
  /\ UNCHANGED <<mishaps, storeVars, call, ready, told, componentVars>>

-----------------------------------------------------------------------------
(* P2b6: the first plans that need no human attention are prepared         *)

ReadAttention(c) ==
  /\ at[c] = "prepare"
  /\ \/ StageSkipped(c, "prepare") /\ UNCHANGED mishaps
     \/ StageFails(c, "prepare", FALSE)
     \/ /\ BudgetOf(c, "prepare") > 0
        /\ UNCHANGED mishaps
        /\ LET eligible == {p \in plans : ~NeedsAttention(p)}
               before == {pq \in Plan \X Plan : PlannedBefore(pq[1], pq[2])}
           IN  StartBatch(c, "run",
                          First(BudgetOf(c, "prepare"), eligible, before))
  /\ UNCHANGED <<storeVars, call, ready, told, componentVars>>

PreparePlan(c, p) ==
  /\ at[c] = "run" /\ p \in todo[c]
  /\ BeginPreparation(c, p, Now(c))
  /\ UNCHANGED <<mishaps, storeVars, callVars, scoringVars, assemblyVars>>

PreparationRuns(c) ==
  /\ PreparationStep(c)
  /\ Mishap(\/ preparing[c] = "stage" /\ stopped'[c] # "COMPLETED"
            \/ prepared'[c].status = "PERSISTENCE_FAILED")
  /\ UNCHANGED <<storeVars, callVars, scoringVars, assemblyVars>>

(* Only a run that is COMPLETED, now or before, has a lineage to hand on.  *)
TakePreparation(c) ==
  /\ at[c] = "run"
  /\ EndPreparation(c)
  /\ LET success == prepared[c].status \in {"COMPLETED", "UNCHANGED"}
     IN  /\ Took(c, job[c].plan, success)
         /\ ready' = [ready EXCEPT ![c] =
              IF success THEN @ \cup {prepared[c].run} ELSE @]
  /\ UNCHANGED <<mishaps, storeVars, call, told, scoringVars, assemblyVars>>

(* A Plan that cannot be read ends the batch at once: it fails, and what   *)
(* it has completed so far is not in its result.                           *)
EndPreparations(c) ==
  /\ at[c] = "run" /\ preparing[c] = "idle"
  /\ \/ EndBatch(c, "prepare") /\ UNCHANGED <<mishaps, ready>>
     \/ /\ Mishap(TRUE) /\ EndStage(c, "prepare", TRUE, FALSE, FALSE, TRUE)
        /\ ready' = [ready EXCEPT ![c] = {}]
  /\ UNCHANGED <<storeVars, call, told, componentVars>>

-----------------------------------------------------------------------------
(* Selective bundle assembly: of what this very batch of preparations      *)
(* completed, and only if that batch ran                                   *)

StartBundles(c) ==
  /\ at[c] = "bundle"
  /\ \/ StageSkipped(c, "bundle")
     \/ /\ BudgetOf(c, "bundle") > 0 /\ ~sum[c].prepared
        /\ EndStage(c, "bundle", TRUE, FALSE, TRUE, FALSE)
     \/ /\ BudgetOf(c, "bundle") > 0 /\ sum[c].prepared
        /\ LET before == {rq \in runs \X runs :
                            PlannedBefore(rq[1].plan, rq[2].plan)}
           IN  StartBatch(c, "assemble",
                          First(BudgetOf(c, "bundle"), ready[c], before))
  /\ UNCHANGED <<mishaps, storeVars, call, ready, told, componentVars>>

(* The execution context is bound first, which may refuse, too: one of the *)
(* refusals of SaveRecord.                                                 *)
AssembleBundle(c, r) ==
  /\ at[c] = "assemble" /\ r \in todo[c]
  /\ BeginAssembly(c, Lineage(r))
  /\ UNCHANGED <<mishaps, storeVars, callVars, preparationVars, scoringVars>>

(* The posting is compared with the Plan among the inputs.                 *)
PlanIsCurrent(p) == posting[JobOf(p)] = RevisionOf(p)

AssemblyRuns(c) ==
  /\ AssemblyStep(c)
  /\ assembling[c] = "inputs" /\ ~PlanIsCurrent(input[c][1]) =>
       assembled'[c] = "REFUSED"
  /\ Mishap(\/ assembled'[c] = "RETRYABLE"
            \/ assembled'[c] = "REFUSED" /\ PlanIsCurrent(input[c][1]))
  /\ UNCHANGED <<storeVars, callVars, preparationVars, scoringVars>>

TakeBundle(c) ==
  /\ at[c] = "assemble"
  /\ EndAssembly(c)
  /\ \E r \in todo[c] :
       /\ Lineage(r) = input[c]
       /\ Took(c, r, assembled[c] \in {"CREATED", "UNCHANGED"})
  /\ UNCHANGED <<mishaps, storeVars, call, ready, told, preparationVars,
                 scoringVars>>

(* An item refused for want of an execution context is not assembled, but  *)
(* the cycle's summary does not count it as failed: whether the bad items  *)
(* count is open when there is no good one.                                *)
EndBundles(c) ==
  /\ at[c] = "assemble" /\ assembling[c] = "idle"
  /\ todo[c] = {}
  /\ \E counted \in (IF bad[c] /\ ~good[c] THEN BOOLEAN ELSE {bad[c]}) :
       EndStage(c, "bundle", bad[c] /\ ~good[c], bad[c] \/ good[c], counted,
                TRUE)
  /\ UNCHANGED <<mishaps, storeVars, call, ready, told, componentVars>>

-----------------------------------------------------------------------------
(* Execution answers, the run is summed up and stored                      *)

ExecuteBatch(c) ==
  /\ at[c] = "execute"
  /\ \/ StageSkipped(c, "execute") /\ UNCHANGED mishaps
     \/ StageFails(c, "execute", FALSE)
     \/ /\ BudgetOf(c, "execute") > 0
        /\ UNCHANGED mishaps
        /\ \/ EndStage(c, "execute", FALSE, FALSE, FALSE, TRUE)
           \/ EndStage(c, "execute", FALSE, TRUE, FALSE, TRUE)
           \/ EndStage(c, "execute", FALSE, TRUE, TRUE, TRUE)
  /\ UNCHANGED <<storeVars, call, ready, told, componentVars>>

(* _overall of the cycle, over the stages that were not skipped.           *)
OverallOf(r) ==
  CASE r.failed /\ ~r.other -> "FAILED"
    [] r.processed /\ r.adverse -> "PARTIAL_FAILURE"
    [] r.processed /\ ~r.adverse /\ r.other -> "COMPLETED"
    [] ~r.processed /\ r.other /\ r.failed -> "PARTIAL_FAILURE"
    [] OTHER -> "NOOP"

(* A refresh had its searches, and without trouble it is COMPLETED; or it  *)
(* had none.                                                               *)
OverallsOf(c) ==
  CASE call[c].inv \in Cycle -> {OverallOf(sum[c])}
    [] call[c].inv \notin Cycle /\ ~sum[c].processed
         -> IF sum[c].failed THEN {"FAILED"} ELSE {"NOOP"}
    [] OTHER
         -> IF sum[c].failed \/ sum[c].adverse
            THEN {"PARTIAL_FAILURE", "FAILED"} ELSE {"COMPLETED"}

RunsOfCall(c) == {[at |-> Now(c), overall |-> o] : o \in OverallsOf(c)}

(* save, over write_bytes_if_absent: the file is created, empty ...        *)
SlipCreateRun(c) ==                 \* slip: an existing record is overwritten
  /\ at[c] = "save"
  /\ torn' = torn \cup {call[c].inv}
  /\ cycles' = [cycles EXCEPT ![call[c].inv] = None]
  /\ Goto(c, "write")
  /\ UNCHANGED <<mishaps, withdrawn, told>>
CreateRun(c) ==
  /\ at[c] = "save"
  /\ LET i == call[c].inv
     IN  \/ /\ cycles[i] = None /\ i \notin torn
            /\ torn' = torn \cup {i}
            /\ Goto(c, "write")
         \/ /\ cycles[i] # None \/ i \in torn
            /\ Goto(c, "compare")
            /\ UNCHANGED torn
  /\ UNCHANGED <<mishaps, cycles, withdrawn, told>>

(* ... written and flushed: whole, and there for others to read; ...       *)
WriteRun(c) ==
  /\ at[c] = "write"
  /\ \E run \in RunsOfCall(c) :
       cycles' = [cycles EXCEPT ![call[c].inv] = run]
  /\ torn' = torn \ {call[c].inv}
  /\ Goto(c, "sync")
  /\ UNCHANGED <<mishaps, withdrawn, told>>

(* ... and synced and closed.                                              *)
SyncRun(c) ==
  /\ at[c] = "sync"
  /\ LET run == cycles[call[c].inv] IN Tell(c, run.overall, run)
  /\ UNCHANGED <<mishaps, recordVars>>

(* When any of these fails the call does; the file it created is unlinked, *)
(* also when it was whole.                                                 *)
SaveFails(c) ==
  /\ at[c] \in {"save", "write", "sync"}
  /\ Mishap(TRUE)
  /\ Tell(c, "NOT_STORED", None)
  /\ LET i == call[c].inv
     IN  /\ IF at[c] = "save" THEN UNCHANGED <<cycles, torn>>
            ELSE cycles' = [cycles EXCEPT ![i] = None] /\ torn' = torn \ {i}
         /\ IF at[c] # "sync" THEN UNCHANGED withdrawn
            ELSE withdrawn' = withdrawn \cup {<<i, cycles[i]>>}

(* A file was there: it is the same run, of the same time, or the call     *)
(* fails.                                                                  *)
CompareRun(c) ==
  /\ at[c] = "compare"
  /\ \E run \in RunsOfCall(c) :
       \/ cycles[call[c].inv] = run /\ Tell(c, "UNCHANGED", run)
       \/ cycles[call[c].inv] # run /\ Tell(c, "NOT_STORED", None)
  /\ UNCHANGED <<mishaps, recordVars>>

SaveCycle(c) ==
  /\ \/ CreateRun(c) \/ WriteRun(c) \/ SyncRun(c) \/ SaveFails(c)
     \/ CompareRun(c)
  /\ UNCHANGED <<posting, plans, serves, call, todo, good, bad, ready, sum,
                 componentVars>>

-----------------------------------------------------------------------------
(* The answer is delivered; or a server dies                               *)

SlipCallOver(c) ==                  \* slip: what was to be done is kept
  /\ Goto(c, "idle")
  /\ call' = [call EXCEPT ![c] = None]
  /\ good' = [good EXCEPT ![c] = FALSE]
  /\ bad' = [bad EXCEPT ![c] = FALSE]
  /\ ready' = [ready EXCEPT ![c] = {}]
  /\ sum' = [sum EXCEPT ![c] = NoStage]
  /\ told' = [told EXCEPT ![c] = NotTold]
  /\ UNCHANGED todo
CallOver(c) ==
  /\ Goto(c, "idle")
  /\ call' = [call EXCEPT ![c] = None]
  /\ todo' = [todo EXCEPT ![c] = {}]
  /\ good' = [good EXCEPT ![c] = FALSE]
  /\ bad' = [bad EXCEPT ![c] = FALSE]
  /\ ready' = [ready EXCEPT ![c] = {}]
  /\ sum' = [sum EXCEPT ![c] = NoStage]
  /\ told' = [told EXCEPT ![c] = NotTold]

EndCall(c) ==
  /\ at[c] = "done"
  /\ CallOver(c)
  /\ UNCHANGED <<mishaps, storeVars, componentVars>>

Crash(c) ==
  /\ at[c] # "idle"
  /\ Mishap(TRUE)
  /\ CallOver(c)
  /\ IF scoring[c] = "idle" THEN UNCHANGED scoringVars ELSE ScoringCrash(c)
  /\ IF preparing[c] = "idle" THEN UNCHANGED preparationVars
                              ELSE PreparationCrash(c)
  /\ IF assembling[c] = "idle" THEN UNCHANGED assemblyVars
                               ELSE AssemblyCrash(c)
  /\ UNCHANGED <<storeVars>>

CallStep(c) ==
  \/ ReadRun(c) \/ ListProfiles(c) \/ EndDiscovery(c)
  \/ ReadQueue(c) \/ (\E j \in Job : ScoreJob(c, j)) \/ ScoringRuns(c)
  \/ TakeScore(c) \/ EndRefresh(c)
  \/ ReadRunnable(c) \/ (\E j \in Job : CreatePlan(c, j)) \/ EndPlans(c)
  \/ ReadAttention(c) \/ (\E p \in Plan : PreparePlan(c, p))
  \/ PreparationRuns(c) \/ TakePreparation(c) \/ EndPreparations(c)
  \/ StartBundles(c) \/ (\E r \in runs : AssembleBundle(c, r))
  \/ AssemblyRuns(c) \/ TakeBundle(c) \/ EndBundles(c)
  \/ ExecuteBatch(c) \/ SaveCycle(c) \/ EndCall(c)

Next ==
  \E c \in Call :
       \/ \E i \in Invocation, t \in Moment : BeginCall(c, i, t)
       \/ \E j \in Job : Discover(c, j)
       \/ CallStep(c)
       \/ Crash(c)

Spec == Init /\ [][Next]_vars

-----------------------------------------------------------------------------
(* What must hold                                                          *)

CompletedRuns == {r \in runs : r.status = "COMPLETED"}

(* The evidence behind a bundle: it was assembled from a completed run, of *)
(* a stored Plan, of a QUALIFIED decision whose scoring was completed, and *)
(* each of those still stands, whatever was scored, discovered, prepared   *)
(* or lost at the same time (DOMAIN_AND_RULES.md, "End-to-end automation   *)
(* cycle"; _validate_runnable_binding, _lineage_is_valid).                 *)
PlansHaveDecisions ==
  \A p \in plans : claim[p] = "COMPLETED" /\ decision[p] = "QUALIFIED"

RunsHavePlans == \A r \in runs : r.plan \in plans

RecordsHaveRuns == \A i \in record : \E r \in CompletedRuns : Lineage(r) = i

EvidenceChain == PlansHaveDecisions /\ RunsHavePlans /\ RecordsHaveRuns

(* What is on its way through a call is part of the chain already.         *)
CallsFollowTheChain ==
  \A c \in Call :
    /\ at[c] = "run" => todo[c] \subseteq plans
    /\ preparing[c] # "idle" => job[c].plan \in plans
    /\ ready[c] \subseteq CompletedRuns
    /\ at[c] = "assemble" => todo[c] \subseteq ready[c]
    /\ assembling[c] # "idle" =>
         \E r \in CompletedRuns : Lineage(r) = input[c]

(* One invocation has one outcome: whoever is told that it has stored a    *)
(* run of it finds that run stored, for good, whatever other servers save, *)
(* fail or lose under the same invocation.  Whoever is told that there was *)
(* a run already finds it, too, or the save that was writing it has failed *)
(* since and taken it away (get and save, lines 696-770; ARCHITECTURE.md:  *)
(* 1486-1491).                                                             *)
ToldIsStored ==
  \A c \in Call :
    told[c].run # None =>
      /\ at[c] = "done"
      /\ \/ cycles[call[c].inv] = told[c].run
         \/ /\ told[c].status = "UNCHANGED"
            /\ <<call[c].inv, told[c].run>> \in withdrawn

(* Whatever calls overlap, fail and crash, what they leave is the chain of *)
(* Evidence, one link at a time: nothing is decided, planned, prepared,    *)
(* assembled or sealed before what it rests on, and nothing that was, nor  *)
(* the outcome of an invocation, is ever changed or taken back             *)
(* (ARCHITECTURE.md:1486-1491; DOMAIN_AND_RULES.md, "End-to-end automation *)
(* cycle").                                                                *)
Decided ==
  [b \in Binding |-> IF claim[b] = "COMPLETED" THEN decision[b] ELSE None]

PreparedInputs == {Lineage(r) : r \in CompletedRuns}

(* A run whose save has still to sync its file may yet be withdrawn.       *)
Settled ==
  [i \in Invocation |->
     IF \E c \in Call : at[c] = "sync" /\ call[c].inv = i THEN None
                                                         ELSE cycles[i]]

Trail == INSTANCE Evidence WITH
  Verdict   <- {Qualified, Unqualified},
  Admitting <- Qualified,
  PlanOf    <- [i \in Input |-> i[1]],
  Outcome   <- StoredRun,
  decided   <- Decided,
  planned   <- plans,
  prepared  <- PreparedInputs,
  assembled <- record,
  sealed    <- envelope,
  outcome   <- Settled

KeepsTheEvidence == Trail!EvidenceSpec
=============================================================================
