------------------------------- MODULE Make1 -------------------------------
(***************************************************************************)
(* make1(): bjam's scheduler.  It walks the dependency graph make0() left, *)
(* runs the commands of every target to be updated, up to -j at a time,    *)
(* and returns when nothing is left to do.                                 *)
(*                                                                         *)
(* There is one thread.  The recursion over the graph is a stack of        *)
(* states, each naming the handler to call next for a target (make1a ..    *)
(* make1d); a handler replaces its own state, pops it, or pushes others.   *)
(* What runs concurrently is the commands: exec_cmd() starts one and       *)
(* exec_wait() reports completions, in any order, by pushing a MAKE1D      *)
(* state.  asynccnt[t] counts the dependencies t still waits for.          *)
(***************************************************************************)
EXTENDS Rules, Sequences, FiniteSets, SequencesExt

CONSTANTS
  Targets, NoTarget,  \* TARGET nodes, and the null pointer
  Roots,              \* the targets make() was asked for, in order
  Starts,             \* what make0() may have left: depends (the includes of
                      \* dependencies appended), includes, fate and semaphore
  Headers,            \* what headers() finds in t once it is built: t->includes
  RescanFates,        \* fates make0() then assigns, of nodes it had not seen
  Internal,           \* internal include nodes (T_FLAG_INTERNAL)
  Original,           \* internal->original_target
  NoCare, FailExpected, RmOld, NotFile, Precious,  \* targets with the flag
  Actions, ActionsOf, \* ACTION instances, and the chain that updates t
  Commands(_, _, _),  \* make1cmds(), see Make1Cmds
  Ignore,             \* actions of rules with the RULE_IGNORE modifier
  Names, BoundName,   \* bound names (file names), and the one of a target
  Outputs,            \* $(<) of an action's commands, a set of bound names
  TargetNamed,        \* the target bindtarget(name) returns for a bound name
  Sems, NoSem,        \* semaphore targets, and the null pointer
  Options,            \* command lines: jobs (-j, at most MAXJOBS), quitquick (-q),
                      \* noexec (-n)
  Interrupts          \* whether SIGINT may arrive (only execnt.c catches it)

Cmds == [action : Actions, sources : Seq(Names)]

ASSUME Make1Assumption ==
  /\ NoTarget \notin Targets
  /\ Roots \in Seq(Targets) /\ Roots # <<>>
  /\ \A s \in Starts : /\ s.depends \in [Targets -> Seq(Targets)]
                       /\ s.includes \in [Targets -> Targets \cup {NoTarget}]
                       /\ s.fate \in [Targets -> Fates]
                       /\ s.semaphore \in [Targets -> Sems \cup {NoSem}]
  /\ Headers \in [Targets -> Targets \cup {NoTarget}]
  /\ \A t \in Targets : \A x \in DOMAIN RescanFates[t] : RescanFates[t][x] \in Fates
  /\ Original \in [Internal -> Targets]
  /\ ActionsOf \in [Targets -> Seq(Actions)]
  /\ Outputs \in [Actions -> SUBSET Names]
  /\ BoundName \in [Targets -> Names]
  /\ NoSem \notin Sems
  /\ Options \subseteq [jobs : Nat \ {0}, quitquick : BOOLEAN, noexec : BOOLEAN]

\* What make1 relies on of make1cmds(): it sets `running' flags, never clears
\* them, and takes commands only from t's own actions that were not running.
ASSUME CommandsAssumption ==
  \A t \in Targets, running \in SUBSET Actions, new \in SUBSET Targets :
    LET c == Commands(t, running, new)
    IN  /\ c.cmds \in Seq(Cmds)
        /\ c.running \in SUBSET Actions
        /\ running \subseteq c.running
        /\ c.tooLong \in BOOLEAN
        /\ \A i \in DOMAIN c.cmds :
             c.cmds[i].action \in (c.running \ running) \cap ToSet(ActionsOf[t])

VARIABLES
  pc,          \* where the engine is: see PCs
  root,        \* index in Roots of the make1() call under way
  stack,       \* state_stack, its top first
  progress, asynccnt, parents, depends, fate, status, cmds, rescanned,
  includes,    \* the TARGET fields
  semaphore,   \* t->semaphore
  globs,       \* the options given, the same for the whole run
  semcnt,      \* asynccnt of a semaphore target
  semwait,     \* parents of a semaphore target: the targets waiting for it
  actRunning,  \* actions with their `running' flag set
  actStatus,   \* action->status
  running,     \* targets one of whose commands the operating system runs
  sigint,      \* execnt.c's intr: SIGINT has been caught
  intr,        \* make1.c's intr: an interrupt or, with -q, a failure was seen
  counts,      \* counts of the current make1() call
  result,      \* make()'s status so far
  file         \* ghost: what each bound name holds on disk

graph == <<parents, depends, fate, rescanned, includes>>
exec  == <<running, sigint>>
given == <<semaphore, globs>>
vars  == <<pc, root, stack, progress, asynccnt, graph, status, cmds, semcnt,
           semwait, actRunning, actStatus, exec, intr, counts, result, file, given>>

PCs      == {"loop", "exec_wait", "done", "exited", "crashed"}
Handlers == {"MAKE1A", "MAKE1ATAIL", "MAKE1B", "MAKE1C", "MAKE1D"}
Contents == {"old", "partial", "built", "none"}

\* What alloc_state() leaves in pState->status, malloc()'s bytes or zeros: only
\* make_closure() and make1c() with -n set it, and only make1d() reads it.
Unset == -1

\* A state that calls make1d() carries the status of a command.
States   == {s \in [t : Targets, parent : Targets \cup {NoTarget},
                    curstate : Handlers, status : Statuses \cup {Unset}] :
               s.curstate = "MAKE1D" => s.status \in Statuses}

(***************************************************************************)
(* The types, with the ranges the code relies on: make1d() is never called *)
(* on a state whose status nobody set, and a semaphore, which is a count   *)
(* in the code, is taken and given back in turn: never twice, never by one *)
(* who did not take it.                                                    *)
(***************************************************************************)
TypeOK ==
  /\ pc \in PCs
  /\ root \in 1..Len(Roots)
  /\ stack \in Seq(States)
  /\ progress \in [Targets -> Progress]
  /\ asynccnt \in [Targets -> Int]
  /\ parents \in [Targets -> Seq(Targets)]
  /\ depends \in [Targets -> Seq(Targets)]
  /\ fate \in [Targets -> Fates]
  /\ status \in [Targets -> Statuses]
  /\ cmds \in [Targets -> Seq(Cmds)]
  /\ rescanned \in [Targets -> BOOLEAN]
  /\ includes \in [Targets -> Targets \cup {NoTarget}]
  /\ semaphore \in [Targets -> Sems \cup {NoSem}]
  /\ globs \in [jobs : Nat \ {0}, quitquick : BOOLEAN, noexec : BOOLEAN]
  /\ semcnt \in [Sems -> {0, 1}]
  /\ semwait \in [Sems -> Seq(Targets)]
  /\ actRunning \subseteq Actions
  /\ actStatus \in [Actions -> Statuses]
  /\ running \subseteq Targets
  /\ sigint \in BOOLEAN
  /\ intr \in BOOLEAN
  /\ counts \in [failed : Nat, skipped : Nat, total : Nat, made : Nat]
  /\ result \in BOOLEAN
  /\ file \in [Names -> Contents]

-----------------------------------------------------------------------------

State(t, parent, curstate) ==
  [t |-> t, parent |-> parent, curstate |-> curstate, status |-> Unset]

ZeroCounts == [failed |-> 0, skipped |-> 0, total |-> 0, made |-> 0]

\* make0() found targets it can neither find nor make: make() will fail.
CantFindOrMake(fates) ==
  \E t \in Targets \ Internal :
    \/ fates[t] = T_FATE_CANTFIND
    \/ fates[t] = T_FATE_CANTMAKE /\ ActionsOf[t] # <<>>

\* make() after make0(): make1() is entered for the first root.
Init ==
  /\ pc = "loop"
  /\ root = 1
  /\ stack = <<State(Roots[1], NoTarget, "MAKE1A")>>
  /\ progress = [t \in Targets |-> "INIT"]
  /\ asynccnt = [t \in Targets |-> 0]
  /\ parents = [t \in Targets |-> <<>>]
  /\ \E s \in Starts : /\ depends = s.depends
                       /\ includes = s.includes
                       /\ fate = s.fate
                       /\ semaphore = s.semaphore
  /\ globs \in Options
  /\ status = [t \in Targets |-> EXEC_CMD_OK]
  /\ cmds = [t \in Targets |-> <<>>]
  /\ rescanned = [t \in Targets |-> FALSE]
  /\ semcnt = [s \in Sems |-> 0]
  /\ semwait = [s \in Sems |-> <<>>]
  /\ actRunning = {}
  /\ actStatus = [a \in Actions |-> EXEC_CMD_OK]
  /\ running = {}
  /\ sigint = FALSE
  /\ intr = FALSE
  /\ counts = ZeroCounts
  /\ result = CantFindOrMake(fate)
  /\ file = [n \in Names |-> "old"]

-----------------------------------------------------------------------------
(***************************************************************************)
(* The loop of make1() pops the state before it calls the handler when     *)
(* intr is set.  The handler still runs, but what it does to its own state *)
(* is lost, and its own pop_state() takes the next state off the stack.    *)
(***************************************************************************)
Handler(curstate) ==
  /\ pc = "loop"
  /\ stack # <<>>
  /\ Head(stack).curstate = curstate

top == Head(stack)

Rest(s) == IF s = <<>> THEN <<>> ELSE Tail(s)

\* The stack after the handler's pop_state().
Popped == IF intr THEN Rest(Tail(stack)) ELSE Tail(stack)

\* A handler hands its state to make1d() itself only with -n, and sets the
\* status then: the command it did not run has succeeded.
StatusFor(curstate) == IF curstate = "MAKE1D" THEN EXEC_CMD_OK ELSE top.status

\* Mutant: the state is not popped when intr is set.
ContinueAnyway(curstate) ==
  <<[top EXCEPT !.curstate = curstate, !.status = StatusFor(curstate)]>> \o Tail(stack)

\* The stack after the handler sets pState->curstate (and ->status).
Continue(curstate) ==
  IF intr THEN Tail(stack)
  ELSE <<[top EXCEPT !.curstate = curstate, !.status = StatusFor(curstate)]>> \o Tail(stack)

-----------------------------------------------------------------------------
(***************************************************************************)
(* make1a(): start processing t for one of its dependants.                 *)
(***************************************************************************)

\* Mutant: only the first visit counts for the parent.
NotifyUncounted(t, parent) ==
  /\ parents' = IF parent = NoTarget THEN parents
                ELSE [parents EXCEPT ![t] = Append(@, parent)]
  /\ asynccnt' = [n \in Targets |->
                    IF n = t /\ progress[t] = "INIT" THEN 1
                    ELSE IF n = parent /\ progress[t] = "INIT" THEN asynccnt[n] + 1
                    ELSE asynccnt[n]]

\* The parent, if there is one, is to be told when t is built.
Notify(t, parent) ==
  /\ parents' = IF parent = NoTarget THEN parents
                ELSE [parents EXCEPT ![t] = Append(@, parent)]
  /\ asynccnt' = [n \in Targets |->
                    IF n = t /\ progress[t] = "INIT" THEN 1
                    ELSE IF n = parent THEN asynccnt[n] + 1 ELSE asynccnt[n]]

\* Mutant: a target that is done is started afresh.
SeenUnfinished(t) == progress[t] \notin {"INIT", "DONE"}

Seen(t) == progress[t] # "INIT"

\* t is being processed already, or done.
Make1aSeen ==
  /\ Handler("MAKE1A")
  /\ LET t == top.t
     IN  /\ Seen(t)
         /\ IF progress[t] \in {"ACTIVE", "RUNNING"}
            THEN Notify(t, top.parent)
            ELSE UNCHANGED <<parents, asynccnt>>
  /\ stack' = Popped
  /\ UNCHANGED <<pc, root, progress, depends, fate, status, cmds, rescanned,
                 includes, semcnt, semwait, actRunning, actStatus, exec, intr,
                 counts, result, file, given>>

\* The includes nodes of those dependencies that were rescanned since make0().
NewIncludes(deps) ==
  LET found[i \in 0..Len(deps)] ==
        IF i = 0 THEN <<>>
        ELSE IF rescanned[deps[i]] /\ includes[deps[i]] # NoTarget
             THEN Append(found[i - 1], includes[deps[i]])
             ELSE found[i - 1]
  IN  found[Len(deps)]

\* First visit: every dependency is to be processed before make1atail(t).
Make1aStart ==
  /\ Handler("MAKE1A")
  /\ LET t    == top.t
         deps == depends[t] \o NewIncludes(depends[t])
     IN  /\ ~Seen(t)
         /\ Notify(t, top.parent)
         /\ depends' = [depends EXCEPT ![t] = deps]
         /\ progress' = [progress EXCEPT ![t] = "ONSTACK"]
         /\ stack' = IF intr THEN Continue("MAKE1ATAIL")
                     ELSE [i \in DOMAIN deps |-> State(deps[i], t, "MAKE1A")]
                            \o Continue("MAKE1ATAIL")
  /\ UNCHANGED <<pc, root, fate, status, cmds, rescanned, includes, semcnt,
                 semwait, actRunning, actStatus, exec, intr, counts, result, file, given>>

\* make1atail(): all dependencies have been started.
Make1atail ==
  /\ Handler("MAKE1ATAIL")
  /\ progress' = [progress EXCEPT ![top.t] = "ACTIVE"]
  /\ stack' = Continue("MAKE1B")
  /\ UNCHANGED <<pc, root, asynccnt, graph, status, cmds, semcnt,
                 semwait, actRunning, actStatus, exec, intr, counts, result, file, given>>

-----------------------------------------------------------------------------
(***************************************************************************)
(* make1b(): called once t's dependencies have been started, and again as  *)
(* each of them finishes.                                                  *)
(***************************************************************************)

\* Dependencies are still outstanding.
Make1bWait ==
  /\ Handler("MAKE1B")
  /\ asynccnt[top.t] # 1
  /\ asynccnt' = [asynccnt EXCEPT ![top.t] = @ - 1]
  /\ stack' = Popped
  /\ UNCHANGED <<pc, root, progress, graph, status, cmds, semcnt,
                 semwait, actRunning, actStatus, exec, intr, counts, result, file, given>>

\* Mutant: the semaphore is not looked at.
SemIgnored(t) == FALSE

SemBusy(t) == semaphore[t] # NoSem /\ semcnt[semaphore[t]] # 0

\* The semaphore is taken: queue for it.  asynccnt is decremented and restored.
Make1bSemaphore ==
  /\ Handler("MAKE1B")
  /\ asynccnt[top.t] = 1
  /\ SemBusy(top.t)
  /\ semwait' = [semwait EXCEPT ![semaphore[top.t]] = Append(@, top.t)]
  /\ stack' = Popped
  /\ UNCHANGED <<pc, root, progress, asynccnt, graph, status, cmds,
                 semcnt, actRunning, actStatus, exec, intr, counts, result, file, given>>

\* t's status and the worst of its dependencies', those marked NOCARE apart.
DependencyStatus(t) ==
  Max({status[t]} \cup {status[d] : d \in ToSet(depends[t]) \ NoCare})

\* RMOLD: the outdated file goes when the dependencies could not be built.
RemoveOutdated(t) ==
  IF t \in RmOld \ NotFile THEN [file EXCEPT ![BoundName[t]] = "none"] ELSE file

\* Mutant: only a target that has commands to run takes its semaphore.
TakesForCommands(t) == semaphore[t] # NoSem /\ progress'[t] = "RUNNING"

\* make1c() gives the semaphore back whether or not there are commands.
Takes(t) == semaphore[t] # NoSem

\* Ready to build t: dependencies have failed, t is fine, or commands are due.
Make1bReady ==
  /\ Handler("MAKE1B")
  /\ asynccnt[top.t] = 1
  /\ ~SemBusy(top.t)
  /\ LET t       == top.t
         depStat == DependencyStatus(t)
         failed  == depStat = EXEC_CMD_FAIL /\ ActionsOf[t] # <<>>
         ok      == depStat = EXEC_CMD_OK
         badFate == ok /\ fate[t] < T_FATE_STABLE
         update  == /\ ok /\ ActionsOf[t] # <<>>
                    /\ fate[t] >= T_FATE_BUILD /\ fate[t] < T_FATE_BROKEN
         new     == Commands(t, actRunning, {x \in Targets : fate[x] > T_FATE_STABLE})
     IN  /\ asynccnt' = [asynccnt EXCEPT ![t] = 0]
         /\ status' = [status EXCEPT ![t] =
                         IF ok /\ fate[t] >= T_FATE_BROKEN THEN EXEC_CMD_FAIL ELSE depStat]
         /\ counts' = [counts EXCEPT !.skipped = IF failed THEN @ + 1 ELSE @,
                                     !.total   = IF update THEN @ + 1 ELSE @]
         /\ file' = IF failed THEN RemoveOutdated(t) ELSE file
         /\ IF update /\ ~new.tooLong
            THEN /\ cmds' = [cmds EXCEPT ![t] = new.cmds]
                 /\ actRunning' = new.running
                 /\ progress' = [progress EXCEPT ![t] = "RUNNING"]
            ELSE UNCHANGED <<cmds, actRunning, progress>>
         /\ pc' = IF badFate THEN "crashed"                  \* abort()
                  ELSE IF update /\ new.tooLong THEN "exited"  \* exit(EXITBAD)
                  ELSE pc
         /\ semcnt' = IF ~Takes(t) \/ pc' # pc THEN semcnt
                      ELSE [semcnt EXCEPT ![semaphore[t]] = @ + 1]
         /\ stack' = Continue("MAKE1C")
  /\ UNCHANGED <<root, graph, semwait, actStatus, exec, intr, result, given>>

-----------------------------------------------------------------------------
(***************************************************************************)
(* make1c(): launch t's next command, or report that t is done.            *)
(***************************************************************************)

HasCommand(t) == cmds[t] # <<>> /\ status[t] = EXEC_CMD_OK

\* Mutant: off by one.
SlotsOverfull(cmdtab) == Cardinality(cmdtab) > globs.jobs

\* exec_cmd() and exec_wait()'s callers stay under the limit of commands.
SlotsFull(cmdtab) == Cardinality(cmdtab) >= globs.jobs

\* exec_cmd() starts the command, and waits while -j commands are running.
Make1cLaunch ==
  /\ Handler("MAKE1C")
  /\ HasCommand(top.t)
  /\ ~globs.noexec
  /\ running' = running \cup {top.t}
  /\ pc' = IF SlotsFull(running') THEN "exec_wait" ELSE "loop"
  /\ file' = [n \in Names |-> IF n \in Outputs[cmds[top.t][1].action]
                              THEN "partial" ELSE file[n]]
  /\ stack' = Popped
  /\ UNCHANGED <<root, progress, asynccnt, graph, status, cmds, semcnt,
                 semwait, actRunning, actStatus, sigint, intr, counts, result, given>>

\* With -n, commands are only shown.
Make1cNoExec ==
  /\ Handler("MAKE1C")
  /\ HasCommand(top.t)
  /\ globs.noexec
  /\ stack' = Continue("MAKE1D")
  /\ UNCHANGED <<pc, root, progress, asynccnt, graph, status, cmds,
                 semcnt, semwait, actRunning, actStatus, exec, intr, counts,
                 result, file, given>>

\* The worst of t's own status and those of its actions, given to all of them.
ActionsStatus(t) ==
  Max({status[t]} \cup {actStatus[a] : a \in ToSet(ActionsOf[t])})

\* t was updated, with status st: its headers may have changed.
Rescans(t, st) ==
  fate[t] >= T_FATE_MISSING /\ st = EXEC_CMD_OK /\ ~rescanned[t]

RescanTarget(t) == IF t \in Internal THEN Original[t] ELSE t

(***************************************************************************)
(* The rescan: headers() gives the target a new includes node inc, make0() *)
(* decides its fate, and it becomes a dependency of every target waiting.  *)
(***************************************************************************)
Rescan(t, inc) ==
  LET o == RescanTarget(t)
  IN  /\ includes' = [includes EXCEPT ![o] = inc]
      /\ rescanned' = [n \in Targets |-> n \in {t, inc} \/ rescanned[n]]
      /\ fate' = IF inc = NoTarget THEN fate
                 ELSE [n \in Targets |-> IF n \in DOMAIN RescanFates[t]
                                         THEN RescanFates[t][n] ELSE fate[n]]
      /\ depends' = IF inc = NoTarget THEN depends
                    ELSE [n \in Targets |-> depends[n] \o
                            [i \in 1..Cardinality({j \in DOMAIN parents[o] :
                                                     parents[o][j] = n}) |-> inc]]

\* Mutant: t's end is told before the new includes node is known.
TellBuiltFirst(t, inc) ==
  LET ps == parents[t]
  IN  [i \in DOMAIN ps |-> State(ps[i], NoTarget, "MAKE1B")]
        \o (IF inc = NoTarget THEN <<>>
            ELSE [i \in DOMAIN ps |-> State(inc, ps[i], "MAKE1A")])

\* The states pushed for t's parents: first the new includes node, then t's end.
TellParents(t, inc) ==
  LET ps == parents[t]
  IN  (IF inc = NoTarget THEN <<>>
       ELSE [i \in DOMAIN ps |-> State(inc, ps[i], "MAKE1A")])
        \o [i \in DOMAIN ps |-> State(ps[i], NoTarget, "MAKE1B")]

\* Mutant: nobody is woken.
ReleaseSilently(t) == <<>>

\* The semaphore is released, and the first target waiting for it is woken.
Release(t) ==
  IF semaphore[t] = NoSem THEN <<>>
  ELSE LET w == semwait[semaphore[t]]
       IN  IF w = <<>> THEN <<>> ELSE <<State(Head(w), NoTarget, "MAKE1B")>>

\* Mutant: whatever was run counts as made.
TallyRun(c, t, st) == IF progress[t] = "RUNNING" THEN [c EXCEPT !.made = @ + 1] ELSE c

\* The counts once t, updated with status st, is done.
Tally(c, t, st) ==
  [c EXCEPT !.made   = IF progress[t] = "RUNNING" /\ st = EXEC_CMD_OK THEN @ + 1 ELSE @,
            !.failed = IF progress[t] = "RUNNING" /\ st = EXEC_CMD_FAIL THEN @ + 1 ELSE @]

Make1cDone ==
  /\ Handler("MAKE1C")
  /\ ~HasCommand(top.t)
  /\ LET t      == top.t
         st     == ActionsStatus(t)
         rescan == Rescans(t, st)
         inc    == IF rescan THEN Headers[t] ELSE NoTarget
         null   == inc # NoTarget /\ parents[RescanTarget(t)] = <<>>
     IN  /\ status' = [status EXCEPT ![t] = st]
         /\ actStatus' = [a \in Actions |->
                            IF a \in ToSet(ActionsOf[t]) THEN st ELSE actStatus[a]]
         /\ counts' = Tally(counts, t, st)
         /\ progress' = [progress EXCEPT ![t] = "DONE"]
         /\ IF rescan THEN Rescan(t, inc)
            ELSE UNCHANGED <<includes, rescanned, fate, depends>>
         /\ IF null   \* parents->target of an empty chain: a null pointer
            THEN /\ pc' = "crashed"
                 /\ UNCHANGED <<stack, semcnt, semwait>>
            ELSE /\ pc' = pc
                 /\ stack' = TellParents(t, inc) \o Release(t) \o Popped
                 /\ semcnt' = [s \in Sems |-> IF s = semaphore[t] THEN semcnt[s] - 1
                                              ELSE semcnt[s]]
                 /\ semwait' = [s \in Sems |-> IF s = semaphore[t] THEN Rest(semwait[s])
                                               ELSE semwait[s]]
  /\ UNCHANGED <<root, asynccnt, parents, cmds, actRunning, exec, intr, result, file, given>>

-----------------------------------------------------------------------------
(***************************************************************************)
(* make1d(): a command of t has completed.                                 *)
(***************************************************************************)

\* FAIL_EXPECTED inverts the result, then the rule may IGNORE a failure.
Judged(t, st) ==
  LET seen == IF t \notin FailExpected THEN st
              ELSE IF st = EXEC_CMD_FAIL THEN EXEC_CMD_OK
              ELSE IF st = EXEC_CMD_OK THEN EXEC_CMD_FAIL ELSE st
  IN  IF seen = EXEC_CMD_FAIL /\ cmds[t][1].action \in Ignore THEN EXEC_CMD_OK ELSE seen

\* The outputs of the command that are unlinked: those bindtarget() does not
\* find to be PRECIOUS under their bound name.
Unlinked(t) ==
  {n \in Outputs[cmds[t][1].action] : TargetNamed[n] \notin Precious}

\* Mutant: the command stays in the chain.
SameCmd(t) == cmds[t]

\* cmd_next(): what remains of t's chain of commands.
CmdNext(t) == Rest(cmds[t])

Make1d ==
  /\ Handler("MAKE1D")
  /\ LET t  == top.t
         st == Judged(t, top.status)
     IN  /\ intr' = (intr \/ st = EXEC_CMD_INTR \/ (st = EXEC_CMD_FAIL /\ globs.quitquick))
         /\ file' = IF st = EXEC_CMD_OK THEN file
                    ELSE [n \in Names |-> IF n \in Unlinked(t) THEN "none" ELSE file[n]]
         /\ status' = [status EXCEPT ![t] = st]
         /\ cmds' = [cmds EXCEPT ![t] = CmdNext(t)]
  /\ stack' = Continue("MAKE1C")
  /\ UNCHANGED <<pc, root, progress, asynccnt, graph, semcnt, semwait,
                 actRunning, actStatus, exec, counts, result, given>>

-----------------------------------------------------------------------------
(***************************************************************************)
(* exec_wait(), called by exec_cmd() while -j commands are running and     *)
(* by make1() when the stack is empty.  One call reports one or more       *)
(* commands (execunix.c serves every slot that select() returned).         *)
(***************************************************************************)

ExecWait ==
  /\ pc = "loop" /\ stack = <<>> /\ running # {}
  /\ pc' = "exec_wait"
  /\ UNCHANGED <<root, stack, progress, asynccnt, graph, status, cmds,
                 semcnt, semwait, actRunning, actStatus, exec, intr, counts,
                 result, file, given>>

\* A command ended with exit status st; make_closure() pushes MAKE1D.
Complete(t, st) ==
  /\ pc = "exec_wait"
  /\ t \in running
  /\ running' = running \ {t}
  /\ stack' = <<[State(t, NoTarget, "MAKE1D") EXCEPT
                   !.status = IF sigint THEN EXEC_CMD_INTR ELSE st]>> \o stack
  /\ file' = IF st = EXEC_CMD_OK
             THEN [n \in Names |-> IF n \in Outputs[cmds[t][1].action]
                                   THEN "built" ELSE file[n]]
             ELSE file
  /\ UNCHANGED <<pc, root, progress, asynccnt, graph, status, cmds,
                 semcnt, semwait, actRunning, actStatus, sigint, intr, counts, result, given>>

ExecReturn ==
  /\ pc = "exec_wait"
  /\ stack # <<>>
  /\ ~SlotsFull(running)
  /\ pc' = "loop"
  /\ UNCHANGED <<root, stack, progress, asynccnt, graph, status, cmds,
                 semcnt, semwait, actRunning, actStatus, exec, intr, counts,
                 result, file, given>>

\* execnt.c's onintr().  It shows only when a command completes, so it is
\* enough to let the signal arrive while one is running.
Interrupt ==
  /\ Interrupts
  /\ ~sigint
  /\ running # {}
  /\ pc \in {"loop", "exec_wait"}
  /\ sigint' = TRUE
  /\ UNCHANGED <<pc, root, stack, progress, asynccnt, graph, status, cmds,
                 semcnt, semwait, actRunning, actStatus, running, intr, counts,
                 result, file, given>>

AllMade == counts.total = counts.made

\* make1() returns total != made; make() goes on to the next root.
Make1Return ==
  /\ pc = "loop" /\ stack = <<>> /\ running = {}
  /\ result' = (result \/ ~AllMade)
  /\ IF root < Len(Roots)
     THEN /\ root' = root + 1
          /\ stack' = <<State(Roots[root + 1], NoTarget, "MAKE1A")>>
          /\ counts' = ZeroCounts
          /\ pc' = pc
     ELSE /\ pc' = "done"
          /\ UNCHANGED <<root, stack, counts>>
  /\ UNCHANGED <<progress, asynccnt, graph, status, cmds, semcnt,
                 semwait, actRunning, actStatus, exec, intr, file, given>>

Ended == pc \in {"done", "exited", "crashed"} /\ UNCHANGED vars

-----------------------------------------------------------------------------

Loop ==
  \/ Make1aSeen \/ Make1aStart \/ Make1atail
  \/ Make1bWait \/ Make1bSemaphore \/ Make1bReady
  \/ Make1cLaunch \/ Make1cNoExec \/ Make1cDone
  \/ Make1d
  \/ ExecWait \/ ExecReturn \/ Make1Return

AnyComplete == \E t \in Targets, st \in {EXEC_CMD_OK, EXEC_CMD_FAIL} : Complete(t, st)

Next == Loop \/ AnyComplete \/ Interrupt \/ Ended

(***************************************************************************)
(* The engine's thread goes on, and exec_wait() finds a command that has   *)
(* ended: commands end by themselves, or by the time limit -l.             *)
(***************************************************************************)
Fairness == WF_vars(Loop) /\ WF_vars(AnyComplete)

Spec     == Init /\ [][Next]_vars
FairSpec == Spec /\ Fairness

-----------------------------------------------------------------------------
(***************************************************************************)
(* What a theorem may ask of the graphs that make0() leaves.               *)
(***************************************************************************)

\* headers() finds nothing new in what is built: the graph does not grow.
NothingFound == \A t \in Targets : Headers[t] = NoTarget

Falls(rank, deps, incs) ==
  \A t \in Targets : /\ \A d \in ToSet(deps[t]) : rank[d] < rank[t]
                     /\ incs[t] # NoTarget => rank[incs[t]] < rank[t]

\* There is no cycle: a rank falls from a target to what it depends on.
Acyclic(rank) == \A s \in Starts : Falls(rank, s.depends, s.includes)

\* A target is broken because it cannot be found, and was counted, or depends
\* on one that is broken.
FatesExplained ==
  \A s \in Starts, t \in Targets : s.fate[t] >= T_FATE_BROKEN => CantFindOrMake(s.fate)

-----------------------------------------------------------------------------
(***************************************************************************)
(* Properties.                                                             *)
(***************************************************************************)

\* Where x is found in the sequences f[y], y in S: at the places <<y, i>>.
Entries(x, f, S) == UNION {{y} \X {i \in DOMAIN f[y] : f[y][i] = x} : y \in S}

\* The targets one of whose commands the step starts.
Launched == running' \ running

(***************************************************************************)
(* make1b's promise: "The target actually goes on to getting built in      *)
(* make1c() only after all of its dependencies have finished their         *)
(* processing", and no command is run for it when one it cares about has   *)
(* failed.                                                                 *)
(***************************************************************************)
BuildsInOrder ==
  [][\A t \in Targets :
       /\ t \in Launched \/ (progress[t] # "DONE" /\ progress'[t] = "DONE") =>
            \A d \in ToSet(depends[t]) : progress[d] = "DONE"
       /\ t \in Launched =>
            \A d \in ToSet(depends[t]) \ NoCare : status[d] = EXEC_CMD_OK]_vars

(***************************************************************************)
(* The counter that decides when a target is built is exact: asynccnt      *)
(* counts the unfinished dependencies that will tell t, the states on the  *)
(* stack that will call make1b(t), and t's place in a semaphore's queue.   *)
(* One too few and t is built early, one too many and it never is.         *)
(***************************************************************************)
Pending(t) ==
  Cardinality(Entries(t, parents, {d \in Targets : progress[d] # "DONE"}))
  + Cardinality({i \in DOMAIN stack : /\ stack[i].t = t
                                      /\ stack[i].curstate \in {"MAKE1ATAIL", "MAKE1B"}})
  + Cardinality(Entries(t, semwait, Sems))

WakeupsCounted ==
  pc \in {"loop", "exec_wait"} /\ ~intr => \A t \in Targets : asynccnt[t] = Pending(t)

(***************************************************************************)
(* When make1() is through with all roots, no target it started on is left *)
(* waiting for a dependency or a semaphore, unless it was interrupted.     *)
(***************************************************************************)
NoneLeftBehind ==
  pc = "done" /\ ~intr => \A t \in Targets : progress[t] \in {"INIT", "DONE"}

(***************************************************************************)
(* Targets that share a semaphore are never updated at the same time.      *)
(***************************************************************************)
SemaphoreExclusion ==
  \A t, u \in running : t # u => semaphore[t] # semaphore[u] \/ semaphore[t] = NoSem

(***************************************************************************)
(* "Wait until we are under the limit of concurrent commands": -j commands *)
(* at most run at a time, and make1c() goes on only when there is room for *)
(* one more, so exec_cmd() never runs out of slots.                        *)
(***************************************************************************)
JobsBounded ==
  /\ Cardinality(running) <= globs.jobs
  /\ pc = "loop" => Cardinality(running) < globs.jobs

(***************************************************************************)
(* What a target depends on has been written: none of the actions that     *)
(* update a dependency has commands running, or still to run, for another  *)
(* of its targets when a command that reads it is started.                 *)
(***************************************************************************)
OutputsReady ==
  [][\A t \in Launched : \A d \in ToSet(depends[t]) : \A a \in ToSet(ActionsOf[d]) :
       ~\E u \in Targets : /\ progress[u] = "RUNNING"
                           /\ \E i \in DOMAIN cmds[u] : cmds[u][i].action = a]_vars

(***************************************************************************)
(* "On interrupt, set intr so _everything_ fails": no command starts after *)
(* an interrupt or, with -q, after a failure.                              *)
(***************************************************************************)
NothingStartsAfterIntr == [][intr => Launched = {}]_vars

(***************************************************************************)
(* make() reports success exactly when every target it started on is done  *)
(* and all right, and no target was found that cannot be made.             *)
(***************************************************************************)
ResultIsRight ==
  pc = "done" =>
    (result <=> \/ CantFindOrMake(fate)
                \/ \E t \in Targets : /\ progress[t] # "INIT"
                                      /\ \/ progress[t] # "DONE"
                                         \/ status[t] # EXEC_CMD_OK)

(***************************************************************************)
(* "If the command was interrupted or failed and the target is not         *)
(* precious, remove the targets": no output of a failed command stays      *)
(* behind where the next build would take it for up to date.               *)
(***************************************************************************)
NoPartialOutput ==
  pc = "done" =>
    \A t \in Targets \ (Precious \cup FailExpected) :
      (\A a \in ToSet(ActionsOf[t]) : a \notin Ignore) => file[BoundName[t]] # "partial"

(***************************************************************************)
(* The scheduler builds as Build promises.  A target is worked on from the *)
(* time make1b() hands it to make1c() until it is done; what make() has    *)
(* returned is the verdict, and giving up (abort, exit) is not one.        *)
(***************************************************************************)
Promise == INSTANCE Build WITH
  Asked   <- ToSet(Roots),
  phase   <- [t \in Targets |-> CASE progress[t] = "DONE"    -> "done"
                                  [] progress[t] = "RUNNING" -> "working"
                                  [] OTHER                   -> "waiting"],
  good    <- {t \in Targets : progress[t] = "DONE" /\ status[t] = EXEC_CMD_OK},
  deps    <- depends,
  sem     <- semaphore,
  missing <- CantFindOrMake(fate),
  stopped <- intr,
  verdict <- IF pc = "done" THEN IF result THEN "failure" ELSE "success"
             ELSE IF pc \in {"crashed", "exited"} THEN "gave up" ELSE "none"
ImplementsBuild == Promise!Spec

(***************************************************************************)
(* make() ends: it neither hangs nor loops, whatever the commands return.  *)
(***************************************************************************)
Termination == <>(pc \in {"done", "exited", "crashed"})
=============================================================================
