------------------------------- MODULE MCPlan -------------------------------
(***************************************************************************)
(* What is decided before any command runs: the fates of MCMake0's graphs  *)
(* and the commands of MCMake1Cmds' targets, two questions that share no   *)
(* state.  One of them is asked, from the state where neither has been.    *)
(***************************************************************************)
EXTENDS MCMake0, MCMake1Cmds

Unasked  == target = "lib" /\ busy = {} /\ new = {}
PlanInit == Init /\ CmdsInit /\ Unasked
PlanNext == \/ Unasked /\ Next /\ UNCHANGED cmdsVars
            \/ calls = 0 /\ phase = "parse" /\ Unasked /\ Ask /\ UNCHANGED vars
PlanSpec == PlanInit /\ [][PlanNext]_<<vars, cmdsVars>>
=============================================================================
