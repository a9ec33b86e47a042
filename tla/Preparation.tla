----------------------------- MODULE Preparation -----------------------------
(***************************************************************************)
(* Preparing one ApplicationPlan                                           *)
(* (core/application_preparation_orchestrator.py): a call finds the Plan's *)
(* current run, and unless that is COMPLETED works through the stages of   *)
(* the recipe in order; the first stage that does not succeed stops it.    *)
(* Either way the run is recorded once.                                    *)
(*                                                                         *)
(* The eighteen stages are reduced to a number Last of them, at the        *)
(* positions the orchestrator treats by name: after the visual check the   *)
(* layout revision is skipped or done, and three stages each complete a    *)
(* role.  Every call has an invocation id of its own (a uuid), which goes  *)
(* into the run's identity: run records never collide.  Here the caller    *)
(* stands for it, and two equal runs of one caller are one.  A run's time  *)
(* is the time of the command that started it.  A Plan or a run that       *)
(* cannot be read ends a call before any stage; that is left out.          *)
(***************************************************************************)
EXTENDS Calls, Naturals     \* a Call: one of run_application_preparation

CONSTANTS Plan,         \* ApplicationPlans
          Moment,       \* times of commands
          Last,         \* the number of stages in the recipe
          Visual,       \* the position of RESUME_VISUAL_QA
          RoleStages    \* positions of the two manifests and the answers

Layout == Visual + 1    \* RESUME_LAYOUT_REVISION

ASSUME PreparationAssumption ==
  /\ Last \in Nat /\ Visual \in Nat
  /\ Moment \subseteq Nat
  /\ 1 <= Visual /\ Layout < Last
  /\ RoleStages \subseteq (Layout + 1)..Last
  /\ Last \in RoleStages

VARIABLES
  runs,        \* stored ApplicationPreparationRuns
  preparing,   \* preparing[p] : where the call p is
  job,         \* job[p] : its Plan and the command's time
  stage,       \* stage[p] : the stage it has reached
  directive,   \* directive[p] : what the visual check asked for
  roles,       \* roles[p] : stages that completed a role
  stopped,     \* stopped[p] : the status the run will have
  prepared     \* prepared[p] : what the call returned, with its run

preparationVars ==
  <<runs, preparing, job, stage, directive, roles, stopped, prepared>>

PreparationPC == {"idle", "current", "stage", "save", "done"}
RunStatus == {"COMPLETED", "DEFERRED", "FAILED"}
Directive == {"NONE", "PASSED", "REVISION_REQUIRED"}

PreparationRun ==
  [plan : Plan, at : Moment, by : Call, status : RunStatus,
   upto : 1..Last, roles : SUBSET RoleStages, revised : BOOLEAN]

PreparationReply == RunStatus \cup {"NONE", "UNCHANGED", "PERSISTENCE_FAILED"}

PreparationTypeOK ==
  /\ runs \subseteq PreparationRun
  /\ preparing \in [Call -> PreparationPC]
  /\ job \in [Call -> [plan : Plan, at : Moment] \cup {None}]
  /\ stage \in [Call -> 1..Last]
  /\ directive \in [Call -> Directive]
  /\ roles \in [Call -> SUBSET RoleStages]
  /\ stopped \in [Call -> RunStatus]
  /\ prepared \in [Call ->
       [status : PreparationReply, run : PreparationRun \cup {None}]]
  /\ \A p \in Call :
       preparing[p] # "idle" => job[p] \in [plan : Plan, at : Moment]

NoAnswer == [status |-> "NONE", run |-> None]

PreparationInit ==
  /\ runs = {}
  /\ preparing = [p \in Call |-> "idle"]
  /\ job = [p \in Call |-> None]
  /\ stage = [p \in Call |-> 1]
  /\ directive = [p \in Call |-> "NONE"]
  /\ roles = [p \in Call |-> {}]
  /\ stopped = [p \in Call |-> "COMPLETED"]
  /\ prepared = [p \in Call |-> NoAnswer]

-----------------------------------------------------------------------------
(* The current run of a Plan: the latest by the command's time.  Among     *)
(* runs of one time the hash in the run id decides, which is a free choice *)
(* here.                                                                   *)
CurrentRuns(plan) ==
  {r \in runs : /\ r.plan = plan
                /\ \A q \in runs : q.plan = plan => q.at <= r.at}

\* A Plan whose current run stopped is in the human attention queue.
NeedsAttention(plan) ==
  \E r \in CurrentRuns(plan) : r.status # "COMPLETED"

Answer(p, status, run) ==
  /\ prepared' = [prepared EXCEPT ![p] = [status |-> status, run |-> run]]
  /\ preparing' = [preparing EXCEPT ![p] = "done"]

BeginPreparation(p, plan, at) ==
  /\ preparing[p] = "idle"
  /\ preparing' = [preparing EXCEPT ![p] = "current"]
  /\ job' = [job EXCEPT ![p] = [plan |-> plan, at |-> at]]
  /\ UNCHANGED <<runs, stage, directive, roles, stopped, prepared>>

(* find_current_for_plan: a completed run with the same binding is         *)
(* answered again; anything else starts at the first stage.                *)
FindCurrent(p) ==
  /\ preparing[p] = "current"
  /\ \/ \E r \in CurrentRuns(job[p].plan) :
          r.status = "COMPLETED" /\ Answer(p, "UNCHANGED", r)
     \/ /\ \/ CurrentRuns(job[p].plan) = {}
           \/ NeedsAttention(job[p].plan)
        /\ preparing' = [preparing EXCEPT ![p] = "stage"]
        /\ UNCHANGED prepared
  /\ UNCHANGED <<runs, job, stage, directive, roles, stopped>>

GoOn(p) ==
  IF stage[p] = Last
  THEN preparing' = [preparing EXCEPT ![p] = "save"] /\ UNCHANGED stage
  ELSE stage' = [stage EXCEPT ![p] = @ + 1] /\ UNCHANGED preparing

(* The stage is invoked and succeeds with all its outputs.                 *)
SlipStageSucceeds(p) ==             \* slip: the role of the next stage
  /\ preparing[p] = "stage"
  /\ ~(stage[p] = Layout /\ directive[p] = "PASSED")
  /\ \/ stage[p] # Visual /\ UNCHANGED directive
     \/ stage[p] = Visual
        /\ \E d \in {"PASSED", "REVISION_REQUIRED"} :
             directive' = [directive EXCEPT ![p] = d]
  /\ roles' = [roles EXCEPT ![p] =
       IF stage[p] + 1 \in RoleStages THEN @ \cup {stage[p] + 1} ELSE @]
  /\ GoOn(p)
  /\ UNCHANGED <<runs, job, stopped, prepared>>
StageSucceeds(p) ==
  /\ preparing[p] = "stage"
  /\ ~(stage[p] = Layout /\ directive[p] = "PASSED")
  /\ \/ stage[p] # Visual /\ UNCHANGED directive
     \/ stage[p] = Visual
        /\ \E d \in {"PASSED", "REVISION_REQUIRED"} :
             directive' = [directive EXCEPT ![p] = d]
  /\ roles' = [roles EXCEPT ![p] =
       IF stage[p] \in RoleStages THEN @ \cup {stage[p]} ELSE @]
  /\ GoOn(p)
  /\ UNCHANGED <<runs, job, stopped, prepared>>

(* The visual check passed: no layout revision.                            *)
SkipLayout(p) ==
  /\ preparing[p] = "stage"
  /\ stage[p] = Layout /\ directive[p] = "PASSED"
  /\ GoOn(p)
  /\ UNCHANGED <<runs, job, directive, roles, stopped, prepared>>

(* The stage defers, fails, raises or breaks its contract: the run ends    *)
(* there.                                                                  *)
StageStops(p) ==
  /\ preparing[p] = "stage"
  /\ ~(stage[p] = Layout /\ directive[p] = "PASSED")
  /\ \E status \in {"DEFERRED", "FAILED"} :
       stopped' = [stopped EXCEPT ![p] = status]
  /\ preparing' = [preparing EXCEPT ![p] = "save"]
  /\ UNCHANGED <<runs, job, stage, directive, roles, prepared>>

RunOf(p) ==
  [plan |-> job[p].plan, at |-> job[p].at, by |-> p, status |-> stopped[p],
   upto |-> stage[p], roles |-> roles[p],
   revised |-> directive[p] = "REVISION_REQUIRED"]

(* _persist_outcome: the run is stored and answered, or cannot be stored.  *)
SaveRun(p) ==
  /\ preparing[p] = "save"
  /\ \/ runs' = runs \cup {RunOf(p)} /\ Answer(p, stopped[p], RunOf(p))
     \/ UNCHANGED runs /\ Answer(p, "PERSISTENCE_FAILED", None)
  /\ UNCHANGED <<job, stage, directive, roles, stopped>>

PreparationOver(p) ==
  /\ preparing' = [preparing EXCEPT ![p] = "idle"]
  /\ job' = [job EXCEPT ![p] = None]
  /\ stage' = [stage EXCEPT ![p] = 1]
  /\ directive' = [directive EXCEPT ![p] = "NONE"]
  /\ roles' = [roles EXCEPT ![p] = {}]
  /\ stopped' = [stopped EXCEPT ![p] = "COMPLETED"]
  /\ prepared' = [prepared EXCEPT ![p] = NoAnswer]
  /\ UNCHANGED runs

EndPreparation(p) == preparing[p] = "done" /\ PreparationOver(p)

PreparationCrash(p) == preparing[p] # "idle" /\ PreparationOver(p)

PreparationStep(p) ==
  \/ FindCurrent(p) \/ StageSucceeds(p) \/ SkipLayout(p) \/ StageStops(p)
  \/ SaveRun(p)

PreparationNext ==
  \E p \in Call :
    \/ \E plan \in Plan, at \in Moment : BeginPreparation(p, plan, at)
    \/ PreparationStep(p)
    \/ EndPreparation(p)
    \/ PreparationCrash(p)

PreparationSpec == PreparationInit /\ [][PreparationNext]_preparationVars

-----------------------------------------------------------------------------
(* What must hold                                                          *)

(* A run is COMPLETED exactly when it went through every stage and every   *)
(* role was completed on the way; a stopped run has the roles before its   *)
(* last stage and no other (ApplicationPreparationRun.__post_init__,       *)
(* 2860-2940, which raises where this fails).                              *)
RunIsSound(r) ==
  /\ r.status = "COMPLETED" => r.upto = Last /\ r.roles = RoleStages
  /\ r.status # "COMPLETED" => r.roles = RoleStages \cap 1..(r.upto - 1)

RunsAreSound == \A r \in runs : RunIsSound(r)

\* A call at work has the roles of the stages behind it.
RolesFollowStages ==
  \A p \in Call :
    /\ preparing[p] = "stage" =>
         /\ roles[p] = RoleStages \cap 1..(stage[p] - 1)
         /\ stopped[p] = "COMPLETED"
    /\ preparing[p] = "save" =>
         IF stopped[p] = "COMPLETED"
         THEN stage[p] = Last /\ roles[p] = RoleStages
         ELSE roles[p] = RoleStages \cap 1..(stage[p] - 1)
    /\ preparing[p] \in {"idle", "current"} =>
         roles[p] = {} /\ stopped[p] = "COMPLETED" /\ stage[p] = 1

(* Only a completed run is handed on to bundle assembly: the lineage of an *)
(* answer COMPLETED or UNCHANGED is that of a stored, sound run.           *)
LineageIsStored ==
  \A p \in Call :
    prepared[p].status \in {"COMPLETED", "UNCHANGED"} =>
      prepared[p].run \in runs /\ prepared[p].run.status = "COMPLETED"

PreparationInv == RunsAreSound /\ RolesFollowStages /\ LineageIsStored
=============================================================================
