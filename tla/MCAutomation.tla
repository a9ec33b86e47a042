---------------------------- MODULE MCAutomation ----------------------------
(* Small instances of Automation.                                          *)
EXTENDS Automation

MCPlan == Job \X (1..MaxRevision) \X Moment
MCInput == MCPlan \X Moment \X Call
MCMoment == {1}
MCRoles == {3}
MCLevel == [p \in MCPlan |-> IF p[2] = 1 THEN 1 ELSE 0]
MCBudget == [i \in Invocation |-> [s \in BatchStage |-> 1]]

\* One server is asked for the cycle, and the other for the cycle, too, or
\* for the refresh.
MCServings ==
  LET first == CHOOSE c \in Call : TRUE
  IN  {[c \in Call |-> IF c = first THEN Cycle ELSE S] :
         S \in {Cycle, Refresh}}
=============================================================================
