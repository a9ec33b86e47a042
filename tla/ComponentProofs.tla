-------------------------- MODULE ComponentProofs --------------------------
(***************************************************************************)
(* Proofs about the three components that Automation composes, for any     *)
(* number of calls, bindings, Plans and inputs and a recipe of any length: *)
(* PriorityScoring, Preparation and BundleAssembly, in that order.  A fact *)
(* about one step is a lemma of its own: Automation takes the same steps   *)
(* and its proofs cite them.                                               *)
(***************************************************************************)
EXTENDS PriorityScoring, Preparation, BundleAssembly, TLAPS

-----------------------------------------------------------------------------
(* PriorityScoring: types                                                  *)

\* What a call does keeps the types.
LEMMA ScoringStepTyped ==
  ASSUME ScoringTypeOK, NEW s \in Call, ScoringStep(s)
  PROVE  ScoringTypeOK'
<1>0. /\ binding[s] \in Binding \/ scoring[s] = "idle"
      /\ scoring[s] \in ScoringPC
  BY DEF ScoringTypeOK
<1>1. CASE ReadClaim(s)
  BY <1>0, <1>1 DEF ScoringTypeOK, ReadClaim, AnswerFromRecord, Reply,
     ScoringGoto, ScoringPC, ScoringReply
<1>2. CASE CreateClaim(s)
  BY <1>0, <1>2 DEF ScoringTypeOK, CreateClaim, SetClaim, ScoringGoto,
     ScoringPC, ClaimState
<1>3. CASE WriteClaim(s)
  BY <1>0, <1>3 DEF ScoringTypeOK, WriteClaim, SetClaim, ScoringGoto, Reply,
     ScoringPC, ClaimState, ScoringReply
<1>4. CASE RereadClaim(s)
  BY <1>0, <1>4 DEF ScoringTypeOK, RereadClaim, AnswerFromRecord, Reply,
     ScoringPC, ScoringReply
<1>5. CASE AgentAnswers(s)
  BY <1>0, <1>5 DEF ScoringTypeOK, AgentAnswers, SetClaim, ScoringGoto,
     Reply, ScoringPC, ClaimState, ScoringReply
<1>6. CASE GateDecides(s)
  BY <1>0, <1>6 DEF ScoringTypeOK, GateDecides, FailClaim, SetClaim,
     ScoringGoto, Reply, ScoringPC, ClaimState, ScoringReply
<1>7. CASE CompleteClaim(s)
  BY <1>0, <1>7 DEF ScoringTypeOK, CompleteClaim, FailClaim, SetClaim, Reply,
     ScoringPC, ClaimState, ScoringReply
<1> QED BY <1>1, <1>2, <1>3, <1>4, <1>5, <1>6, <1>7 DEF ScoringStep

\* So does the end of a call, ordinary or not.
LEMMA ScoringOverTyped ==
  ASSUME ScoringTypeOK, NEW s \in Call, ScoringOver(s)
  PROVE  ScoringTypeOK'
BY DEF ScoringTypeOK, ScoringOver, ScoringPC, ScoringReply

\* Every step keeps the types.
LEMMA ScoringTyped ==
  ASSUME ScoringTypeOK, [ScoringNext]_scoringVars
  PROVE  ScoringTypeOK'
<1>1. CASE UNCHANGED scoringVars
  BY <1>1 DEF ScoringTypeOK, scoringVars
<1>2. ASSUME NEW s \in Call, NEW b \in Binding, BeginScoring(s, b)
      PROVE  ScoringTypeOK'
  BY <1>2 DEF ScoringTypeOK, BeginScoring, ScoringPC
<1>3. ASSUME NEW s \in Call, EndScoring(s) \/ ScoringCrash(s)
      PROVE  ScoringTypeOK'
  BY <1>3, ScoringOverTyped DEF EndScoring, ScoringCrash
<1> QED BY <1>1, <1>2, <1>3, ScoringStepTyped DEF ScoringNext

\* Every variable of a scoring keeps its type, however many calls overlap
\* and die.
THEOREM ScoringTypeCorrect == ScoringSpec => []ScoringTypeOK
<1>1. ScoringInit => ScoringTypeOK
  BY DEF ScoringInit, ScoringTypeOK, ClaimState, ScoringPC, ScoringReply
<1> QED BY <1>1, ScoringTyped, PTL DEF ScoringSpec

-----------------------------------------------------------------------------
(* PriorityScoring: who changes a record                                   *)

(* A step of the call s that changes a record, a decision or who is at     *)
(* work concerns the binding of s alone.  Its effect on the claim and the  *)
(* decision, in terms of what the claim was:                               *)
Effect(s) ==
  /\ \A t \in Call \ {s} : scoring'[t] = scoring[t] /\ binding'[t] = binding[t]
  /\ \A b \in Binding \ {binding[s]} :
       claim'[b] = claim[b] /\ decision'[b] = decision[b]
  /\ binding'[s] # binding[s] =>
       scoring[s] = "idle" \/ scoring'[s] = "idle"
  /\ claim'[binding[s]] # claim[binding[s]] =>
       \/ AtWork(s)
       \/ claim[binding[s]] = "ABSENT" /\ scoring[s] = "create"
  /\ decision'[binding[s]] # decision[binding[s]] =>
       /\ AtWork(s) /\ scoring[s] = "gate" /\ claim' = claim
       /\ decision'[binding[s]] # Undecided
  /\ AtWork(s)' =>
       /\ claim'[binding[s]] = IF scoring'[s] = "write" THEN "PARTIAL"
                                                     ELSE "IN_PROGRESS"
       /\ AtWork(s) \/ claim[binding[s]] = "ABSENT"
       /\ binding'[s] = binding[s]
  /\ claim'[binding[s]] = "COMPLETED" =>
       claim[binding[s]] = "COMPLETED" \/ scoring[s] = "complete"
  /\ scoring'[s] = "complete" => decision'[binding[s]] # Undecided

\* What a call does has that effect, and so have its beginning and its end.
LEMMA ScoringStepHasEffect ==
  ASSUME ScoringTypeOK, ClaimIsHeld, NEW s \in Call, ScoringStep(s)
  PROVE  Effect(s)
<1>0. /\ binding[s] \in Binding \/ scoring[s] = "idle"
      /\ scoring \in [Call -> ScoringPC]
      /\ binding \in [Call -> Binding \cup {None}]
      /\ claim \in [Binding -> ClaimState]
      /\ decision \in [Binding -> {Qualified, Unqualified, Undecided}]
      /\ AtWork(s) => claim[binding[s]] = IF scoring[s] = "write"
                                          THEN "PARTIAL" ELSE "IN_PROGRESS"
  BY DEF ScoringTypeOK, ClaimIsHeld
<1>1. CASE ReadClaim(s)
  BY <1>0, <1>1 DEF Effect, AtWork, ReadClaim, AnswerFromRecord, Reply,
     ScoringGoto
<1>2. CASE CreateClaim(s)
  BY <1>0, <1>2 DEF Effect, AtWork, CreateClaim, SetClaim, ScoringGoto
<1>3. CASE WriteClaim(s)
  BY <1>0, <1>3 DEF Effect, AtWork, WriteClaim, SetClaim, ScoringGoto, Reply
<1>4. CASE RereadClaim(s)
  BY <1>0, <1>4 DEF Effect, AtWork, RereadClaim, AnswerFromRecord, Reply
<1>5. CASE AgentAnswers(s)
  BY <1>0, <1>5 DEF Effect, AtWork, AgentAnswers, SetClaim, ScoringGoto, Reply
<1>6. CASE GateDecides(s)
  BY <1>0, <1>6 DEF Effect, AtWork, GateDecides, FailClaim, SetClaim,
     ScoringGoto, Reply, Qualified, Unqualified, Undecided
<1>7. CASE CompleteClaim(s)
  BY <1>0, <1>7 DEF Effect, AtWork, CompleteClaim, FailClaim, SetClaim, Reply
<1> QED BY <1>1, <1>2, <1>3, <1>4, <1>5, <1>6, <1>7 DEF ScoringStep

\* Every step but a stutter is the work of one call.
LEMMA ScoringHasEffect ==
  ASSUME ScoringTypeOK, ClaimIsHeld, ScoringNext
  PROVE  \E s \in Call : Effect(s)
<1>1. ASSUME NEW s \in Call, NEW b \in Binding, BeginScoring(s, b)
      PROVE  Effect(s)
  BY <1>1 DEF BeginScoring, Effect, AtWork, ScoringTypeOK
<1>2. ASSUME NEW s \in Call, EndScoring(s) \/ ScoringCrash(s)
      PROVE  Effect(s)
  BY <1>2 DEF EndScoring, ScoringCrash, ScoringOver, Effect, AtWork,
     ScoringTypeOK
<1> QED BY <1>1, <1>2, ScoringStepHasEffect DEF ScoringNext

-----------------------------------------------------------------------------
(* PriorityScoring: the claim excludes, and what it led to stays           *)

(* The three parts are preserved together: a claim that is held keeps      *)
(* everybody else out, so whoever changes a record is its only worker.     *)
LEMMA ScoringInvStep ==
  ASSUME ScoringTypeOK, ScoringInv, [ScoringNext]_scoringVars
  PROVE  ScoringInv'
<1>1. CASE UNCHANGED scoringVars
  BY <1>1 DEF ScoringInv, OneScorerPerBinding, ClaimIsHeld, DecisionIsThere,
     AtWork, scoringVars
<1>2. CASE ScoringNext
  <2>0. PICK s \in Call : Effect(s)
    BY <1>2, ScoringHasEffect DEF ScoringInv
  <2>1. ScoringTypeOK'
    BY <1>2, ScoringTyped
  <2>2. \A t \in Call \ {s} :
          AtWork(t)' => AtWork(t) /\ binding'[t] = binding[t]
    BY <2>0 DEF Effect, AtWork
  <2>3. \A t \in Call \ {s} :
          AtWork(t) /\ AtWork(s)' => binding[t] # binding[s]
    BY <2>0 DEF Effect, ScoringInv, OneScorerPerBinding, ClaimIsHeld
  <2>4. OneScorerPerBinding'
    BY <2>0, <2>2, <2>3 DEF Effect, OneScorerPerBinding, ScoringInv
  <2>5. \A t \in Call \ {s} :
          AtWork(t) => binding[t] \in Binding
                       /\ claim'[binding[t]] = claim[binding[t]]
    <3> SUFFICES ASSUME NEW t \in Call \ {s}, AtWork(t),
                        binding[t] = binding[s]
                 PROVE  claim'[binding[t]] = claim[binding[t]]
      BY <2>0 DEF Effect, ScoringTypeOK, AtWork
    <3>1. ~AtWork(s)
      BY DEF ScoringInv, OneScorerPerBinding
    <3>2. claim[binding[s]] # "ABSENT"
      BY DEF ScoringInv, ClaimIsHeld
    <3> QED BY <2>0, <3>1, <3>2 DEF Effect
  <2>6. ClaimIsHeld'
    BY <2>0, <2>2, <2>5 DEF ClaimIsHeld, Effect, ScoringInv, AtWork
  <2>7. ASSUME NEW b \in Binding, claim'[b] = "COMPLETED"
        PROVE  decision'[b] # Undecided
    <3>1. CASE b # binding[s]
      BY <2>0, <2>7, <3>1 DEF Effect, ScoringInv, DecisionIsThere
    <3>2. CASE b = binding[s] /\ decision'[b] # decision[b]
      BY <2>0, <3>2 DEF Effect
    <3>3. CASE b = binding[s] /\ decision'[b] = decision[b]
      BY <2>0, <2>7, <3>3 DEF Effect, ScoringInv, DecisionIsThere
    <3> QED BY <3>1, <3>2, <3>3
  <2>8. ASSUME NEW t \in Call, scoring'[t] = "complete"
        PROVE  decision'[binding'[t]] # Undecided
    <3>1. CASE t = s
      BY <2>0, <2>8, <3>1 DEF Effect, AtWork
    <3>2. CASE t # s
      <4>1. AtWork(t) /\ scoring[t] = "complete" /\ binding'[t] = binding[t]
        BY <2>0, <2>8, <3>2 DEF Effect, AtWork
      <4>2. decision[binding[t]] # Undecided
        BY <4>1 DEF ScoringInv, DecisionIsThere
      <4>3. CASE binding[t] = binding[s]
        BY <2>0, <3>2, <4>1, <4>2, <4>3
           DEF Effect, ScoringInv, OneScorerPerBinding
      <4>4. CASE binding[t] # binding[s]
        BY <2>0, <3>2, <4>1, <4>2, <4>4 DEF Effect, ScoringTypeOK
      <4> QED BY <4>3, <4>4
    <3> QED BY <3>1, <3>2
  <2> QED BY <2>4, <2>6, <2>7, <2>8 DEF ScoringInv, DecisionIsThere
<1> QED BY <1>1, <1>2

\* A completed record and its decision outlive every step.
LEMMA CompletedStays ==
  ASSUME ScoringTypeOK, ScoringInv, [ScoringNext]_scoringVars,
         NEW b \in Binding, claim[b] = "COMPLETED"
  PROVE  claim'[b] = "COMPLETED" /\ decision'[b] = decision[b]
<1>1. CASE UNCHANGED scoringVars
  BY <1>1 DEF scoringVars
<1>2. CASE ScoringNext
  <2>0. PICK s \in Call : Effect(s)
    BY <1>2, ScoringHasEffect DEF ScoringInv
  <2>1. CASE b = binding[s]
    <3>1. ~AtWork(s)
      BY <2>1 DEF ScoringInv, ClaimIsHeld
    <3> QED BY <2>0, <2>1, <3>1 DEF Effect
  <2>2. CASE b # binding[s]
    BY <2>0, <2>2 DEF Effect
  <2> QED BY <2>1, <2>2
<1> QED BY <1>1, <1>2

\* One call at a time works on a binding and holds its record meanwhile, and
\* a completed record has its decision: for any number of calls and crashes.
THEOREM ScoringIsExclusive == ScoringSpec => []ScoringInv
<1>1. ScoringInit => ScoringInv
  BY DEF ScoringInit, ScoringInv, OneScorerPerBinding, ClaimIsHeld,
     DecisionIsThere, AtWork
<1>2. ScoringTypeOK /\ ScoringInv /\ [ScoringNext]_scoringVars => ScoringInv'
  BY ScoringInvStep
<1> QED BY <1>1, <1>2, ScoringTypeCorrect, PTL DEF ScoringSpec

\* What was completed stays completed, with the same decision.
THEOREM CompletionIsFinal == ScoringSpec => CompletedIsFinal
<1>1. ScoringTypeOK /\ ScoringInv /\ [ScoringNext]_scoringVars =>
        [\A b \in Binding : claim[b] = "COMPLETED" =>
           claim'[b] = "COMPLETED" /\ decision'[b] = decision[b]]_scoringVars
  BY CompletedStays
<1> QED BY <1>1, ScoringTypeCorrect, ScoringIsExclusive, PTL
        DEF ScoringSpec, CompletedIsFinal

(* A record whose scoring is no longer at work, in any call, is what it is *)
(* for good: a claim left behind by a crash, or by a release that failed,  *)
(* is neither taken over nor withdrawn, and a failure never tried again    *)
(* (claim, 740-767; fail, 872-902).  Only an absent record can be claimed. *)
AbandonedStays ==
  [][\A b \in Binding :
       claim[b] # "ABSENT" /\ (\A s \in Call : AtWork(s) => binding[s] # b)
         => claim'[b] = claim[b] /\ decision'[b] = decision[b]]_scoringVars

\* Only who is at work on a binding changes its record once it is there.
LEMMA AbandonedStaysStep ==
  ASSUME ScoringTypeOK, ScoringInv, [ScoringNext]_scoringVars,
         NEW b \in Binding, claim[b] # "ABSENT",
         \A s \in Call : AtWork(s) => binding[s] # b
  PROVE  claim'[b] = claim[b] /\ decision'[b] = decision[b]
<1>1. CASE UNCHANGED scoringVars
  BY <1>1 DEF scoringVars
<1>2. CASE ScoringNext
  <2>0. PICK s \in Call : Effect(s)
    BY <1>2, ScoringHasEffect DEF ScoringInv
  <2>1. CASE b = binding[s]
    BY <2>0, <2>1 DEF Effect
  <2>2. CASE b # binding[s]
    BY <2>0, <2>2 DEF Effect
  <2> QED BY <2>1, <2>2
<1> QED BY <1>1, <1>2

(* A binding whose scorer died is never scored again, and never answered   *)
(* otherwise than it was at that moment: the price of paying no Agent      *)
(* twice, whatever number of calls come after.                             *)
THEOREM AbandonedClaimsStay == ScoringSpec => AbandonedStays
<1>1. ScoringTypeOK /\ ScoringInv /\ [ScoringNext]_scoringVars =>
        [\A b \in Binding :
           claim[b] # "ABSENT"
           /\ (\A s \in Call : AtWork(s) => binding[s] # b)
             => claim'[b] = claim[b] /\ decision'[b] = decision[b]]_scoringVars
  BY AbandonedStaysStep
<1> QED BY <1>1, ScoringTypeCorrect, ScoringIsExclusive, PTL
        DEF ScoringSpec, AbandonedStays

-----------------------------------------------------------------------------
(* Preparation: types                                                      *)

\* The run a call at work would store is well formed.
LEMMA RunOfTyped ==
  ASSUME PreparationTypeOK, NEW p \in Call, preparing[p] # "idle"
  PROVE  RunOf(p) \in PreparationRun
BY DEF PreparationTypeOK, RunOf, PreparationRun

\* An answer with a run of the store, or with none, is well formed.
LEMMA AnswerTyped ==
  ASSUME PreparationTypeOK, NEW p \in Call, NEW status \in PreparationReply,
         NEW run \in PreparationRun \cup {None}, Answer(p, status, run)
  PROVE  /\ prepared' \in [Call ->
              [status : PreparationReply, run : PreparationRun \cup {None}]]
         /\ preparing' \in [Call -> PreparationPC]
BY DEF PreparationTypeOK, Answer, PreparationPC

\* So are the answer and the stage of a call that has not begun.
LEMMA NoAnswerTyped ==
  /\ NoAnswer \in [status : PreparationReply, run : PreparationRun \cup {None}]
  /\ 1 \in 1..Last
BY PreparationAssumption DEF NoAnswer, PreparationReply, Layout

\* The next stage is a stage.
LEMMA GoOnTyped ==
  ASSUME PreparationTypeOK, NEW p \in Call, preparing[p] # "idle", GoOn(p)
  PROVE  /\ stage' \in [Call -> 1..Last]
         /\ preparing' \in [Call -> PreparationPC]
         /\ \A q \in Call : preparing'[q] # "idle" => preparing[q] # "idle"
<1>1. Last \in Nat
  BY PreparationAssumption
<1>2. stage[p] \in 1..Last
  BY DEF PreparationTypeOK
<1>3. stage[p] # Last => stage[p] + 1 \in 1..Last
  BY <1>1, <1>2
<1> QED BY <1>2, <1>3 DEF PreparationTypeOK, GoOn, PreparationPC

\* Every step of a call at work keeps the types.
LEMMA PreparationStepTyped ==
  ASSUME PreparationTypeOK, NEW p \in Call, PreparationStep(p)
  PROVE  PreparationTypeOK'
<1>0. preparing[p] # "idle"
  BY DEF PreparationStep, FindCurrent, StageSucceeds, SkipLayout, StageStops,
     SaveRun
<1>1. CASE FindCurrent(p)
  <2>1. CASE \E r \in CurrentRuns(job[p].plan) : Answer(p, "UNCHANGED", r)
    <3>1. PICK r \in runs : Answer(p, "UNCHANGED", r)
      BY <2>1 DEF CurrentRuns
    <3>2. r \in PreparationRun
      BY DEF PreparationTypeOK
    <3>3. "UNCHANGED" \in PreparationReply
      BY DEF PreparationReply
    <3>4. /\ prepared' \in [Call ->
               [status : PreparationReply, run : PreparationRun \cup {None}]]
          /\ preparing' \in [Call -> PreparationPC]
      BY <3>1, <3>2, <3>3, AnswerTyped
    <3>5. \A q \in Call : preparing'[q] # "idle" => preparing[q] # "idle"
      BY <1>0, <3>1 DEF Answer, PreparationTypeOK
    <3> QED BY <1>1, <3>4, <3>5 DEF PreparationTypeOK, FindCurrent
  <2>2. CASE UNCHANGED prepared
             /\ preparing' = [preparing EXCEPT ![p] = "stage"]
    BY <1>0, <1>1, <2>2 DEF PreparationTypeOK, FindCurrent, PreparationPC
  <2> QED BY <1>1, <2>1, <2>2 DEF FindCurrent
<1>2. CASE StageSucceeds(p)
  <2>1. roles' \in [Call -> SUBSET RoleStages]
    BY <1>2 DEF PreparationTypeOK, StageSucceeds
  <2>2. directive' \in [Call -> Directive]
    BY <1>2 DEF PreparationTypeOK, StageSucceeds, Directive
  <2> QED BY <1>0, <1>2, <2>1, <2>2, GoOnTyped
          DEF PreparationTypeOK, StageSucceeds
<1>3. CASE SkipLayout(p)
  BY <1>0, <1>3, GoOnTyped DEF PreparationTypeOK, SkipLayout
<1>4. CASE StageStops(p)
  BY <1>0, <1>4 DEF PreparationTypeOK, StageStops, PreparationPC, RunStatus
<1>5. CASE SaveRun(p)
  <2>1. RunOf(p) \in PreparationRun /\ stopped[p] \in PreparationReply
    BY <1>0, RunOfTyped DEF PreparationTypeOK, PreparationReply
  <2>2. "PERSISTENCE_FAILED" \in PreparationReply
    BY DEF PreparationReply
  <2>3. /\ prepared' \in [Call ->
             [status : PreparationReply, run : PreparationRun \cup {None}]]
        /\ preparing' \in [Call -> PreparationPC]
    BY <1>5, <2>1, <2>2, AnswerTyped DEF SaveRun
  <2>4. \A q \in Call : preparing'[q] # "idle" => preparing[q] # "idle"
    BY <1>0, <1>5 DEF SaveRun, Answer, PreparationTypeOK
  <2>5. runs' \subseteq PreparationRun
    BY <1>5, <2>1 DEF SaveRun, PreparationTypeOK
  <2> QED BY <1>5, <2>3, <2>4, <2>5 DEF PreparationTypeOK, SaveRun
<1> QED BY <1>1, <1>2, <1>3, <1>4, <1>5 DEF PreparationStep

\* Every step keeps the types.
LEMMA PreparationTyped ==
  ASSUME PreparationTypeOK, [PreparationNext]_preparationVars
  PROVE  PreparationTypeOK'
<1>1. CASE UNCHANGED preparationVars
  BY <1>1 DEF PreparationTypeOK, preparationVars
<1>2. ASSUME NEW p \in Call, NEW plan \in Plan, NEW at \in Moment,
             BeginPreparation(p, plan, at)
      PROVE  PreparationTypeOK'
  BY <1>2 DEF PreparationTypeOK, BeginPreparation, PreparationPC
<1>3. ASSUME NEW p \in Call, EndPreparation(p) \/ PreparationCrash(p)
      PROVE  PreparationTypeOK'
  <2>0. PreparationOver(p)
    BY <1>3 DEF EndPreparation, PreparationCrash
  <2>1. /\ prepared' \in [Call ->
             [status : PreparationReply, run : PreparationRun \cup {None}]]
        /\ stage' \in [Call -> 1..Last]
    <3> HIDE DEF NoAnswer
    <3> QED BY <2>0, NoAnswerTyped DEF PreparationTypeOK, PreparationOver
  <2>2. /\ preparing' \in [Call -> PreparationPC]
        /\ directive' \in [Call -> Directive]
        /\ stopped' \in [Call -> RunStatus]
        /\ roles' \in [Call -> SUBSET RoleStages]
    BY <1>3 DEF PreparationTypeOK, EndPreparation, PreparationCrash,
       PreparationOver, PreparationPC, Directive, RunStatus
  <2>3. /\ job' \in [Call -> [plan : Plan, at : Moment] \cup {None}]
        /\ \A q \in Call :
             preparing'[q] # "idle" => job'[q] \in [plan : Plan, at : Moment]
        /\ runs' = runs
    BY <1>3 DEF PreparationTypeOK, EndPreparation, PreparationCrash,
       PreparationOver
  <2> QED BY <2>1, <2>2, <2>3 DEF PreparationTypeOK
<1> QED BY <1>1, <1>2, <1>3, PreparationStepTyped DEF PreparationNext

\* Every variable of a preparation keeps its type.
THEOREM PreparationTypeCorrect == PreparationSpec => []PreparationTypeOK
<1>1. PreparationInit => PreparationTypeOK
  BY NoAnswerTyped DEF PreparationInit, PreparationTypeOK, PreparationPC,
     Directive, RunStatus
<1> QED BY <1>1, PreparationTyped, PTL DEF PreparationSpec

-----------------------------------------------------------------------------
(* Preparation: a run that says COMPLETED went the whole way               *)

\* The roles behind a stage, when the stage is passed.
LEMMA RolesGrow ==
  ASSUME NEW s \in 1..Last
  PROVE  /\ (RoleStages \cap 1..(s - 1))
              \cup (IF s \in RoleStages THEN {s} ELSE {})
              = RoleStages \cap 1..s
         /\ RoleStages \cap 1..Last = RoleStages
         /\ Layout \notin RoleStages /\ Layout # Last
         /\ RoleStages \cap 1..0 = {}
<1>1. RoleStages \subseteq 1..Last
  BY PreparationAssumption DEF Layout
<1>2. \A x \in 1..Last : x \in 1..s <=> x \in 1..(s - 1) \/ x = s
  BY PreparationAssumption
<1>3. (RoleStages \cap 1..(s - 1)) \cup (IF s \in RoleStages THEN {s} ELSE {})
        = RoleStages \cap 1..s
  <2>1. CASE s \in RoleStages
    BY <1>1, <1>2, <2>1
  <2>2. CASE s \notin RoleStages
    BY <1>1, <1>2, <2>2
  <2> QED BY <2>1, <2>2
<1>4. Layout \notin RoleStages /\ Layout # Last
  BY PreparationAssumption DEF Layout
<1>5. RoleStages \cap 1..0 = {}
  OBVIOUS
<1> QED BY <1>1, <1>3, <1>4, <1>5

\* A call that passes a stage has the roles of the stages now behind it.
LEMMA GoOnKeepsRoles ==
  ASSUME PreparationTypeOK, RolesFollowStages, NEW p \in Call,
         preparing[p] = "stage", GoOn(p), UNCHANGED stopped,
         roles' = [roles EXCEPT ![p] = RoleStages \cap 1..stage[p]]
  PROVE  RolesFollowStages'
<1>0. stage[p] \in 1..Last
  BY DEF PreparationTypeOK
<1>1. CASE stage[p] = Last
  BY <1>1, RolesGrow, <1>0
     DEF GoOn, RolesFollowStages, PreparationTypeOK
<1>2. CASE stage[p] # Last
  <2>1. stage'[p] = stage[p] + 1 /\ stage'[p] - 1 = stage[p]
    BY <1>0, <1>2, PreparationAssumption DEF GoOn, PreparationTypeOK
  <2> QED BY <1>2, <2>1 DEF GoOn, RolesFollowStages, PreparationTypeOK
<1> QED BY <1>1, <1>2

\* Steps that store nothing keep the stored runs sound and the answers true.
LEMMA NothingStored ==
  ASSUME PreparationInv, UNCHANGED runs,
         \/ UNCHANGED prepared
         \/ \E p \in Call : /\ prepared' = [prepared EXCEPT ![p] = NoAnswer]
                            /\ PreparationTypeOK
  PROVE  RunsAreSound' /\ LineageIsStored'
BY DEF PreparationInv, RunsAreSound, LineageIsStored, RunIsSound, NoAnswer,
   PreparationTypeOK

\* Storing the run of a call keeps them so, too.
LEMMA StoredRunIsSound ==
  ASSUME PreparationTypeOK, PreparationInv, NEW p \in Call, SaveRun(p)
  PROVE  RunsAreSound' /\ LineageIsStored' /\ RolesFollowStages'
<1>1. RunIsSound(RunOf(p)) /\ RunOf(p).status = stopped[p]
  <2>1. IF stopped[p] = "COMPLETED"
        THEN stage[p] = Last /\ roles[p] = RoleStages
        ELSE roles[p] = RoleStages \cap 1..(stage[p] - 1)
    BY DEF SaveRun, PreparationInv, RolesFollowStages
  <2> QED BY <2>1 DEF RunOf, RunIsSound
<1>2. RunsAreSound'
  BY <1>1 DEF SaveRun, PreparationInv, RunsAreSound, RunIsSound
<1>3. LineageIsStored'
  <2> SUFFICES ASSUME NEW q \in Call,
                      prepared'[q].status \in {"COMPLETED", "UNCHANGED"}
               PROVE  prepared'[q].run \in runs'
                      /\ prepared'[q].run.status = "COMPLETED"
    BY DEF LineageIsStored
  <2>1. CASE q # p
    BY <2>1 DEF SaveRun, Answer, PreparationInv, LineageIsStored,
       PreparationTypeOK
  <2>2. CASE q = p
    <3>1. stopped[p] \in RunStatus
      BY DEF PreparationTypeOK
    <3>2. \/ /\ prepared'[p] = [status |-> stopped[p], run |-> RunOf(p)]
             /\ RunOf(p) \in runs'
          \/ prepared'[p] = [status |-> "PERSISTENCE_FAILED", run |-> None]
      BY DEF SaveRun, Answer, PreparationTypeOK
    <3>3. prepared'[p] = [status |-> stopped[p], run |-> RunOf(p)]
          /\ RunOf(p) \in runs' /\ stopped[p] = "COMPLETED"
      BY <2>2, <3>1, <3>2 DEF RunStatus
    <3> QED BY <1>1, <2>2, <3>3
  <2> QED BY <2>1, <2>2
<1>4. RolesFollowStages'
  BY DEF SaveRun, Answer, PreparationInv, RolesFollowStages, PreparationTypeOK
<1> QED BY <1>2, <1>3, <1>4

\* Every step of a call at work preserves the invariant.
LEMMA PreparationStepInv ==
  ASSUME PreparationTypeOK, PreparationInv, NEW p \in Call, PreparationStep(p)
  PROVE  PreparationInv'
<1>0. stage[p] \in 1..Last /\ RolesFollowStages
  BY DEF PreparationTypeOK, PreparationInv
<1>1. CASE FindCurrent(p)
  <2>1. RolesFollowStages'
    BY <1>0, <1>1, RolesGrow
       DEF FindCurrent, Answer, RolesFollowStages, PreparationTypeOK
  <2>2. RunsAreSound'
    BY <1>1 DEF FindCurrent, PreparationInv, RunsAreSound, RunIsSound
  <2>3. LineageIsStored'
    <3>1. CASE \E r \in CurrentRuns(job[p].plan) :
                 r.status = "COMPLETED" /\ Answer(p, "UNCHANGED", r)
      <4>1. PICK r \in runs :
              r.status = "COMPLETED" /\ Answer(p, "UNCHANGED", r)
        BY <3>1 DEF CurrentRuns
      <4>2. prepared'[p] = [status |-> "UNCHANGED", run |-> r]
            /\ \A q \in Call \ {p} : prepared'[q] = prepared[q]
        BY <4>1 DEF Answer, PreparationTypeOK
      <4>3. runs' = runs
        BY <1>1 DEF FindCurrent
      <4> QED BY <4>1, <4>2, <4>3 DEF PreparationInv, LineageIsStored
    <3>2. CASE UNCHANGED prepared
      BY <1>1, <3>2 DEF FindCurrent, PreparationInv, LineageIsStored
    <3> QED BY <1>1, <3>1, <3>2 DEF FindCurrent
  <2> QED BY <2>1, <2>2, <2>3 DEF PreparationInv
<1>2. CASE StageSucceeds(p)
  <2>1. roles' = [roles EXCEPT ![p] = RoleStages \cap 1..stage[p]]
    <3>1. roles[p] = RoleStages \cap 1..(stage[p] - 1)
      BY <1>0, <1>2 DEF StageSucceeds, RolesFollowStages
    <3>2. (IF stage[p] \in RoleStages THEN roles[p] \cup {stage[p]}
                                      ELSE roles[p])
            = RoleStages \cap 1..stage[p]
      BY <1>0, <3>1, RolesGrow
    <3> QED BY <1>2, <3>2 DEF StageSucceeds, PreparationTypeOK
  <2>2. RolesFollowStages'
    BY <1>0, <1>2, <2>1, GoOnKeepsRoles DEF StageSucceeds
  <2> QED BY <1>2, <2>2, NothingStored DEF StageSucceeds, PreparationInv
<1>3. CASE SkipLayout(p)
  <2>1. roles' = [roles EXCEPT ![p] = RoleStages \cap 1..stage[p]]
    <3>1. roles[p] = RoleStages \cap 1..(stage[p] - 1)
      BY <1>0, <1>3 DEF SkipLayout, RolesFollowStages
    <3>2. roles[p] = RoleStages \cap 1..stage[p]
      BY <1>0, <1>3, <3>1, RolesGrow DEF SkipLayout
    <3> QED BY <1>3, <3>2 DEF SkipLayout, PreparationTypeOK
  <2>2. RolesFollowStages'
    BY <1>0, <1>3, <2>1, GoOnKeepsRoles DEF SkipLayout
  <2> QED BY <1>3, <2>2, NothingStored DEF SkipLayout, PreparationInv
<1>4. CASE StageStops(p)
  <2>1. RolesFollowStages'
    BY <1>0, <1>4 DEF StageStops, RolesFollowStages, PreparationTypeOK
  <2> QED BY <1>4, <2>1, NothingStored DEF StageStops, PreparationInv
<1>5. CASE SaveRun(p)
  BY <1>5, StoredRunIsSound DEF PreparationInv
<1> QED BY <1>1, <1>2, <1>3, <1>4, <1>5 DEF PreparationStep

\* Every step preserves the invariant.
LEMMA PreparationInvStep ==
  ASSUME PreparationTypeOK, PreparationInv,
         [PreparationNext]_preparationVars
  PROVE  PreparationInv'
<1>1. CASE UNCHANGED preparationVars
  BY <1>1 DEF preparationVars, PreparationInv, RunsAreSound, RunIsSound,
     RolesFollowStages, LineageIsStored
<1>2. ASSUME NEW p \in Call, NEW plan \in Plan, NEW at \in Moment,
             BeginPreparation(p, plan, at)
      PROVE  PreparationInv'
  <2>1. RolesFollowStages'
    BY <1>2 DEF BeginPreparation, PreparationInv, RolesFollowStages,
       PreparationTypeOK
  <2> QED BY <1>2, <2>1, NothingStored DEF BeginPreparation, PreparationInv
<1>3. ASSUME NEW p \in Call, EndPreparation(p) \/ PreparationCrash(p)
      PROVE  PreparationInv'
  <2>0. PreparationOver(p)
    BY <1>3 DEF EndPreparation, PreparationCrash
  <2>1. RolesFollowStages'
    BY <2>0 DEF PreparationOver, PreparationInv, RolesFollowStages,
       PreparationTypeOK
  <2> QED BY <2>0, <2>1, NothingStored DEF PreparationOver, PreparationInv
<1> QED BY <1>1, <1>2, <1>3, PreparationStepInv DEF PreparationNext

\* A completed run went through every stage of the recipe with every role, a
\* stopped one has exactly the roles before its last stage, and what a call
\* hands on is a stored completed run.
THEOREM PreparedIsSound == PreparationSpec => []PreparationInv
<1>1. PreparationInit => PreparationInv
  BY RolesGrow, PreparationAssumption DEF PreparationInit, PreparationInv,
     RunsAreSound, RolesFollowStages, LineageIsStored, NoAnswer
<1>2. PreparationTypeOK /\ PreparationInv
        /\ [PreparationNext]_preparationVars => PreparationInv'
  BY PreparationInvStep
<1> QED BY <1>1, <1>2, PreparationTypeCorrect, PTL DEF PreparationSpec

-----------------------------------------------------------------------------
(* BundleAssembly: types                                                   *)

\* Every step keeps the types.
LEMMA AssemblyTyped ==
  ASSUME AssemblyTypeOK, [AssemblyNext]_assemblyVars
  PROVE  AssemblyTypeOK'
<1>1. CASE UNCHANGED assemblyVars
  BY <1>1 DEF AssemblyTypeOK, assemblyVars
<1>2. ASSUME NEW a \in Call, NEW i \in Input, BeginAssembly(a, i)
      PROVE  AssemblyTypeOK'
  BY <1>2 DEF AssemblyTypeOK, BeginAssembly, AssemblyPC
<1>3. ASSUME NEW a \in Call, EndAssembly(a) \/ AssemblyCrash(a)
      PROVE  AssemblyTypeOK'
  BY <1>3 DEF AssemblyTypeOK, EndAssembly, AssemblyCrash, AssemblyOver,
     AssemblyPC, AssemblyReply
<1>4. ASSUME NEW a \in Call, AssemblyStep(a)
      PROVE  AssemblyTypeOK'
  <2>0. input[a] \in Input \/ assembling[a] = "idle"
    BY DEF AssemblyTypeOK
  <2>1. CASE CheckInputs(a)
    BY <2>0, <2>1 DEF AssemblyTypeOK, CheckInputs, AssemblyGoto,
       AssemblyReturn, AssemblyPC, AssemblyReply
  <2>2. CASE FindReplay(a)
    BY <2>0, <2>2 DEF AssemblyTypeOK, FindReplay, AssemblyGoto,
       AssemblyReturn, AssemblyPC, AssemblyReply
  <2>3. CASE SaveRecord(a)
    BY <2>0, <2>3 DEF AssemblyTypeOK, SaveRecord, AssemblyGoto,
       AssemblyReturn, AssemblyPC, AssemblyReply
  <2>4. CASE SettleRecord(a)
    BY <2>0, <2>4 DEF AssemblyTypeOK, SettleRecord, AssemblyReturn,
       AssemblyPC, AssemblyReply
  <2>5. CASE SealBundle(a)
    BY <2>0, <2>5 DEF AssemblyTypeOK, SealBundle, AssemblyReturn, AssemblyPC,
       AssemblyReply
  <2> QED BY <1>4, <2>1, <2>2, <2>3, <2>4, <2>5 DEF AssemblyStep
<1> QED BY <1>1, <1>2, <1>3, <1>4 DEF AssemblyNext

\* Every variable of an assembly keeps its type.
THEOREM AssemblyTypeCorrect == AssemblySpec => []AssemblyTypeOK
<1>1. AssemblyInit => AssemblyTypeOK
  BY DEF AssemblyInit, AssemblyTypeOK, AssemblyPC, AssemblyReply
<1> QED BY <1>1, AssemblyTyped, PTL DEF AssemblySpec

-----------------------------------------------------------------------------
(* BundleAssembly: a bundle that was answered can be recovered             *)

\* A call that has not come to its end has answered nothing.
SilentUntilDone ==
  \A a \in Call : assembled[a] # "NONE" => assembling[a] = "done"

\* What the proof carries from step to step.
SealingInv == AssemblyInv /\ SilentUntilDone

(* The effect of a step of the call a: others stand still, the records     *)
(* only grow, by a's input, and by nobody but their creator.               *)
SealEffect(a) ==
  /\ \A b \in Call \ {a} : /\ assembling'[b] = assembling[b]
                           /\ input'[b] = input[b]
                           /\ assembled'[b] = assembled[b]
  /\ \/ record' = record
     \/ /\ record' = record \cup {input[a]}
        /\ input[a] \notin record /\ assembling'[a] = "seal"
  /\ \/ envelope' = envelope
     \/ envelope' = envelope \cup {input[a]} /\ assembling[a] = "seal"
  /\ assembling'[a] = "seal" =>
       /\ input'[a] = input[a] /\ input[a] \notin record
       /\ record' = record \cup {input[a]} /\ envelope' = envelope
  /\ assembled'[a] \in {"CREATED", "UNCHANGED"} => input'[a] \in envelope'
  /\ assembled'[a] # "NONE" => assembling'[a] = "done"

\* Every step but a stutter is the work of one call and has that effect.
LEMMA AssemblyHasEffect ==
  ASSUME AssemblyTypeOK, SilentUntilDone, AssemblyNext
  PROVE  \E a \in Call : SealEffect(a)
<1>0. /\ assembling \in [Call -> AssemblyPC]
      /\ input \in [Call -> Input \cup {None}]
      /\ assembled \in [Call -> AssemblyReply]
  BY DEF AssemblyTypeOK
<1>1. ASSUME NEW a \in Call, NEW i \in Input, BeginAssembly(a, i)
      PROVE  SealEffect(a)
  BY <1>0, <1>1 DEF SealEffect, BeginAssembly, SilentUntilDone
<1>2. ASSUME NEW a \in Call, EndAssembly(a) \/ AssemblyCrash(a)
      PROVE  SealEffect(a)
  BY <1>0, <1>2 DEF SealEffect, EndAssembly, AssemblyCrash, AssemblyOver
<1>3. ASSUME NEW a \in Call, AssemblyStep(a)
      PROVE  SealEffect(a)
  <2>1. CASE CheckInputs(a)
    BY <1>0, <2>1 DEF SealEffect, CheckInputs, AssemblyGoto, AssemblyReturn,
       SilentUntilDone
  <2>2. CASE FindReplay(a)
    BY <1>0, <2>2 DEF SealEffect, FindReplay, AssemblyGoto, AssemblyReturn,
       SilentUntilDone
  <2>3. CASE SaveRecord(a)
    BY <1>0, <2>3 DEF SealEffect, SaveRecord, AssemblyGoto, AssemblyReturn,
       SilentUntilDone
  <2>4. CASE SettleRecord(a)
    BY <1>0, <2>4 DEF SealEffect, SettleRecord, AssemblyReturn
  <2>5. CASE SealBundle(a)
    BY <1>0, <2>5 DEF SealEffect, SealBundle, AssemblyReturn
  <2> QED BY <1>3, <2>1, <2>2, <2>3, <2>4, <2>5 DEF AssemblyStep
<1> QED BY <1>1, <1>2, <1>3 DEF AssemblyNext

\* The parts of SealingInv are preserved together.
LEMMA SealingInvStep ==
  ASSUME AssemblyTypeOK, SealingInv, [AssemblyNext]_assemblyVars
  PROVE  SealingInv'
<1>1. CASE UNCHANGED assemblyVars
  BY <1>1 DEF SealingInv, SilentUntilDone, AssemblyInv, SuccessIsRecoverable,
     OneSealer, SealerIsCreator, assemblyVars
<1>2. CASE AssemblyNext
  <2>0. PICK a \in Call : SealEffect(a)
    BY <1>2, AssemblyHasEffect DEF SealingInv
  <2>1. SuccessIsRecoverable'
    BY <2>0 DEF SealEffect, SealingInv, AssemblyInv, SuccessIsRecoverable,
       SealerIsCreator
  <2>2. OneSealer'
    BY <2>0 DEF SealEffect, SealingInv, AssemblyInv, OneSealer,
       SealerIsCreator
  <2>3. SealerIsCreator'
    <3> SUFFICES ASSUME NEW b \in Call, assembling'[b] = "seal"
                 PROVE  input'[b] \in record' /\ input'[b] \notin envelope'
      BY DEF SealerIsCreator
    <3>1. CASE b = a
      BY <2>0, <3>1 DEF SealEffect, SealingInv, AssemblyInv,
         SuccessIsRecoverable
    <3>2. CASE b # a
      BY <2>0, <3>2 DEF SealEffect, SealingInv, AssemblyInv, OneSealer,
         SealerIsCreator
    <3> QED BY <3>1, <3>2
  <2>4. SilentUntilDone'
    BY <2>0 DEF SealEffect, SealingInv, SilentUntilDone
  <2> QED BY <2>1, <2>2, <2>3, <2>4 DEF SealingInv, AssemblyInv
<1> QED BY <1>1, <1>2

\* The inductive invariant: it holds at the start and every step keeps it.
THEOREM AssemblySealingInvariant == AssemblySpec => []SealingInv
<1>1. AssemblyInit => SealingInv
  BY DEF AssemblyInit, SealingInv, SilentUntilDone, AssemblyInv,
     SuccessIsRecoverable, OneSealer, SealerIsCreator
<1>2. AssemblyTypeOK /\ SealingInv /\ [AssemblyNext]_assemblyVars =>
        SealingInv'
  BY SealingInvStep
<1> QED BY <1>1, <1>2, AssemblyTypeCorrect, PTL DEF AssemblySpec

\* Whoever was told CREATED or UNCHANGED finds the bundle again, and one call
\* alone, the creator of a record, writes its envelope.
THEOREM AssembledIsRecoverable == AssemblySpec => []AssemblyInv
BY AssemblySealingInvariant, PTL DEF SealingInv

(* A record that nobody is about to seal stays without an envelope: what a *)
(* crash or a failed write between the two files leaves is left for good,  *)
(* though the first caller was told it may try again.                      *)
THEOREM LostRecordsStayLost == AssemblySpec => LostIsForGood
<1>1. ASSUME AssemblyTypeOK, SealingInv, [AssemblyNext]_assemblyVars,
             NEW i \in Input, Lost(i)
      PROVE  Lost(i)'
  <2>1. CASE UNCHANGED assemblyVars
    BY <1>1, <2>1 DEF Lost, assemblyVars
  <2>2. CASE AssemblyNext
    <3>0. PICK a \in Call : SealEffect(a)
      BY <1>1, <2>2, AssemblyHasEffect DEF SealingInv
    <3> QED BY <1>1, <3>0 DEF SealEffect, Lost
  <2> QED BY <1>1, <2>1, <2>2
<1>2. AssemblyTypeOK /\ SealingInv /\ [AssemblyNext]_assemblyVars =>
        [\A i \in Input : Lost(i) => Lost(i)']_assemblyVars
  BY <1>1
<1> QED BY <1>2, AssemblyTypeCorrect, AssemblySealingInvariant, PTL
        DEF AssemblySpec, LostIsForGood
=============================================================================
