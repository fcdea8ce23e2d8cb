------------------------------- MODULE Rules -------------------------------
(***************************************************************************)
(* The enumerations of the bjam engine that several components share: a    *)
(* target's fate (make0's diagnosis), its progress through make1, and the  *)
(* status of an executed command.  Fates are numbers because the code      *)
(* compares them: make0 and make1 ask "is this at least that bad?".        *)
(***************************************************************************)
EXTENDS Integers

T_FATE_INIT     == 0    \* nothing done to target
T_FATE_MAKING   == 1    \* make0(target) on stack
T_FATE_STABLE   == 2    \* target did not need updating
T_FATE_NEWER    == 3    \* target newer than parent
T_FATE_SPOIL    == 4    \* >= SPOIL rebuilds parents
T_FATE_ISTMP    == 4    \* unneeded temp target oddly present
T_FATE_BUILD    == 5    \* >= BUILD rebuilds target
T_FATE_TOUCHED  == 5    \* manually touched with -t
T_FATE_REBUILD  == 6
T_FATE_MISSING  == 7    \* is missing, needs updating
T_FATE_NEEDTMP  == 8    \* missing temp that must be rebuilt
T_FATE_OUTDATED == 9    \* is out of date, needs updating
T_FATE_UPDATE   == 10   \* deps updated, needs updating
T_FATE_BROKEN   == 11   \* >= BROKEN ruins parents
T_FATE_CANTFIND == 11   \* no rules to make missing target
T_FATE_CANTMAKE == 12   \* can not find dependencies

Fates == T_FATE_INIT .. T_FATE_CANTMAKE

\* INIT: make1(target) not yet called; ONSTACK: make1(target) on the stack;
\* ACTIVE: in the make1b/make1c phase, not running; RUNNING: commands are run.
Progress == {"INIT", "ONSTACK", "ACTIVE", "RUNNING", "DONE"}

EXEC_CMD_OK   == 0
EXEC_CMD_FAIL == 1
EXEC_CMD_INTR == 2

Statuses == {EXEC_CMD_OK, EXEC_CMD_FAIL, EXEC_CMD_INTR}
=============================================================================
