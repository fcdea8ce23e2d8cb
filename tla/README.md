# Verification of the build engine in mapnik-packaging

`mapnik-packaging` builds Mapnik and the some thirty libraries it needs. On OS X and
Linux that is a chain of shell scripts (`src/osx`, `src/build.sh`); on Windows it is a
`Jamroot` handed to the Boost.Build engine whose source the repository carries and builds
(`src/windows/boost-build/engine`, called *bjam* or *b2*). The part with an algorithm in it
is the engine: it decides what is out of date (`make0`), and schedules the commands that
update it, several at a time (`make1`), over a table of running processes (`exec_cmd`,
`exec_wait`), with a cache of the headers that files include (`hcache`) kept from run to run. These
modules model all four and check them with TLC; TLAPS proves nine theorems about the scheduler, among them
that it implements an abstract parallel build, five about the execution of commands on Unix, four about it
on Windows, seven about the header cache and the files it is about, four about the construction of commands, and
six about the diagnosis.

## 1. Inventory

| component | state | operations | modelled by |
|---|---|---|---|
| **make1 scheduler** `make1.c` | stack of states; `progress`, `asynccnt`, `parents`, `cmds`, `status` per target; `running` and `status` per action; `asynccnt`, `parents` of semaphores; `counts`; `intr` | `make1a`, `make1atail`, `make1b`, `make1c`, `make1d`, `make_closure`, the loop of `make1` | `Make1` |
| **command construction** `make1.c` `make1cmds`, `make1list` | the `running` flags | group (TOGETHER), split (PIECEMEAL), filter (UPDATED, EXISTING) | `Make1Cmds` |
| **dependency graph** `rules.c`, `builtins.c`, `compile.c` | chains of each TARGET: `depends`, `dependants`, `rebuilds`, `includes`, `actions`, flags | DEPENDS, INCLUDES, REBUILDS, the flag rules, calling a rule with actions | `DepGraph` |
| **diagnosis** `make.c` | `binding`, `time`, `leaf`, `fate` per target; counts of what cannot be found or made | `make0`, `update_dependants`, `force_rebuilds`, `make0sort` | `Make0` |
| **command execution, Unix** `execunix.c` | the slot table `cmdtab`, pipes, start times | `exec_cmd`, `exec_wait`, the time limit | `ExecUnix` |
| **command execution, Windows** `execnt.c` | the slot table, pipes, process times; `intr` | `exec_cmd`, `exec_wait`, `try_kill_one`, `onintr` | `ExecNT`; `onintr` in `Make1` too |
| **headers and their cache** `headers.c`, `hcache.c` | cache of headers by file and time, aged by runs, a file on disk | `headers`, `hcache`, `hcache_init`, `hcache_done` | `HeaderCache` |
| **binding and timestamps** `search.c`, `timestamp.c`, `filesys.c` | hash tables of paths, directories and times | `search`, `timestamp`, `file_query`, `file_dirscan` | `Files` |
| **Jam language** `jamgram.y`, `compile.c`, `variable.c`, ... | variables, modules, frames | a sequential interpreter | no: its effect is the graph |
| **Boost.Build** (`build/*.jam`, `*.py`) | metatargets, generators, properties | sequential object construction | no: it ends in the rule calls of `DepGraph` |
| **packaging scripts** `src/osx`, `src/build.sh` | files under `packages/` and the install prefixes | download, configure, build and install, one package after another | planned |
| **Windows packaging** | none of its own | calls `b2` | no |
| `boehm_gc`, debugger, profiler, output | third-party, or output only | | no |

**How they interact.** A Jamfile's rule calls build the graph. `make()` binds the targets
asked for and everything below them (`make0`), then calls `make1` for each. `make1` never
recurses: a stack holds which handler is to be called next for which target. A handler
pushes states for the dependencies (`make1a`) or for the parents (`make1c`); `exec_cmd`
starts a command and may wait; `exec_wait` reports completions by pushing `MAKE1D` states.
When a target is built, `make1c` scans it for headers again: `headers()` may call rules that
change the graph, and `make0` is called on the part that is new, in the middle of `make1`.

**What is hard.**

* *Counting instead of waiting.* A target is built when `asynccnt` reaches 0. The counter is
  raised by `make1a` of each dependency and lowered by every call of `make1b`; the calls come
  from the target's own start, from each dependency that finishes, and from a semaphore that
  becomes free.
* *Completions in any order*, several in one `exec_wait`, while other targets' states are on
  the stack.
* *One action, several targets.* The target that is ready first runs the action; the others
  find it `running` and are done without waiting.
* *The graph changes under the scheduler* when a rescan finds headers.
* *Interrupts and -q.* Once `intr` is set, the loop pops a state **before** it calls the
  handler, and the handler pops another.
* *What is remembered.* A path's time is looked up once per run and the includes of a file once per
  time; commands write files in between, users edit them between runs, and a run may die while it
  writes the cache.
* *Time limits in two-word arithmetic.* `execnt.c` subtracts times in halves of 32 bits.
* *Processes nobody controls.* Commands write, end, leave processes behind and run out of time
  between any two system calls of the one engine thread, which learns of an end only from a pipe.
* *Order dependence of the diagnosis*: files that include each other, temporary files, and
  REBUILDS reaching targets that were not yet visited.

**What makes each component correct.** Scheduler: nothing is built before what it depends
on, or after an interrupt; nobody who waits is forgotten; the limit -j and semaphores hold;
the exit status is right; it ends. Execution: every command
is reported once and truthfully, nothing it prints is lost, -l stops what hangs and nothing else.
Headers: the cache never says of a file what it does not include, and whoever includes a generated
file waits for it. Binding: a target is the first file along its SEARCH, and a run gives a path one
time. Command construction: no source is lost, duplicated or given to the wrong action. Diagnosis: what must be updated is, nothing else is, what cannot
be made takes down exactly what needs it. The hazards, each with its line and the properties
that watch it, are in `PROJECT.json`.

## 2. The modules

| module | what it is |
|---|---|
| `Rules` | fates, progress, statuses (numbers, where the code compares them) |
| `DepGraph` | the graph and the rule calls that build it, as operators on a record |
| `Make0` | `make()` up to `make1()`: a function of graph and files, in the shape of the code |
| `Make0Calls` | a Jamfile's rule calls in any order, then `make()`; what it must have decided of the graph they built |
| `Make0_proofs` | theorems about `Make0` and the graphs that rule calls build |
| `Make1Cmds` | `make1cmds()`: from a chain of actions to a chain of commands |
| `Make1CmdsCalls` | the calls of it that a build may make, and what its answers must be |
| `Make1Cmds_proofs` | theorems about `Make1Cmds` |
| `Make1` | the scheduler: a state machine, one action per handler and outcome |
| `Build` | the abstract specification: what a parallel build promises, whatever its scheduler does |
| `Induction` | induction over the numbers, for sets instead of operators; the least and greatest of a set; that recursive functions exist |
| `Make1_proofs` | theorems about `Make1`: types, interrupts, semaphores, -j, and that it builds in order |
| `Make1Exact_proofs` | that its counters are exact and nobody is left behind, that what it returns is right, and that it implements `Build` |
| `ExecUnix` | `execunix.c`: slots, pipes, `select`, `waitpid`, the time limit; the commands as processes |
| `Execution` | the abstract specification: what `make1` relies on of the execution of commands |
| `ExecUnix_proofs` | theorems about `ExecUnix` |
| `ExecNT` | `execnt.c`: slots, the wait of half a second, the arithmetic of running times; the commands, the clock and SIGINT |
| `ExecNT_proofs` | theorems about `ExecNT` |
| `Files` | what a run knows of the files, as operators on a record: `search`, `timestamp` and the tables below them |
| `HeaderCache` | header scanning and its cache over several runs of the engine, with edits and crashes between and in them |
| `HeaderCache_proofs` | theorems about `Files` and `HeaderCache` |
| `MCMake0`, `MCMake1Cmds` | instances of `Make0Calls` and `Make1CmdsCalls` |
| `MCPlan` | both in one run: what is decided before a command runs |
| `MCMake1` | `Make1` over every graph of four targets |
| `MCMake1Joint` | `DepGraph`, `Make0`, `Make1Cmds` and `Make1` together: a graph built by rule calls, diagnosed, then built |
| `MCMake1Rescan` | `Make1` with files that reveal headers when they are built |
| `MCExecUnix`, `MCExecNT` | `ExecUnix` and `ExecNT` with two slots and three commands |
| `MCHeaderCache` | `HeaderCache` with a source that includes a generated header |

### Make1 and the code

* `stack` is `state_stack`; its head is what `current_state()` returns. `State` is
  `push_state`; its status is `Unset`, for `alloc_state` gives it no value that may be read. `make_closure` sets it,
  and `make1c` with -n (`StatusFor`); that `make1d` finds one that was set is part of `TypeOK`, and so is that a semaphore is
  counted up and down by the same target (`Takes`): its count is 0 or 1.
* **The interrupt quirk.** `make1()` calls `pop_state` before the handler if `intr` is set;
  the handler still runs. What it then assigns to `pState->curstate` is lost, and its own
  `pop_state` pops the *next* state. `Popped` and `Continue` are the stack after the handler's
  `pop_state` and after its assignment, and every handler is written with them. `intr` is read
  once per round, so `Make1d`, which sets it, still uses the old value.
* `Make1aStart`, `Make1aSeen`: `make1a` for a target not yet, or already, seen. The parent is
  registered only when the target is INIT, ACTIVE or RUNNING: one ONSTACK is part of a cycle.
* `Make1bWait`, `Make1bSemaphore`, `Make1bReady`: the three ways out of `make1b`. The last
  computes the status from the dependencies, decides by fate whether to build, calls
  `make1cmds` and takes the semaphore.
* `Make1cLaunch`, `Make1cNoExec`, `Make1cDone`: `make1c` with a command to launch, with one to
  show (-n), or with none left. The last does the accounting, the rescan, tells the parents and
  releases the semaphore.
* `Make1d`: judge the exit status, remove the outputs, next command.
* `ExecWait`, `Complete`, `ExecReturn`: `exec_wait` is entered when the stack is empty or, from
  `exec_cmd`, while -j commands are running. It reports any number of commands (`execunix.c`
  serves each slot that `select` returned) but at least one, and from `exec_cmd` enough to get
  under the limit.
* `Interrupt`: `execnt.c` catches SIGINT and turns the status of commands that complete later
  into INTR. On Unix the engine does not catch it and simply dies: no action.
* pc `"crashed"` stands for `abort()` on a bad fate and for the null pointer of a rescan of a
  target without parents; `"exited"` for the command line that is too long.
* `file` is a ghost: what is on disk under each bound name. A command makes its outputs
  `"partial"` when it starts and `"built"` when it succeeds; the code removes some.
* `PRECIOUS` is looked up by *name*: `make1d` binds the output's bound name to a target. The
  constant `TargetNamed` keeps that indirection.

`Make1` takes what others compute as constants, with assumptions: `Starts` (what `make0` left),
`Headers` and `RescanFates` (what a rescan finds and what `make0` then decides) and `Commands`
(what `make1cmds` returns). `CommandsAssumption` is all it relies on of the last; TLC evaluates it on
every instance. `Starts` is a set: one run covers every graph.

### Make0, DepGraph, Make1Cmds and the code

The code is sequential and recursive, so these modules are operators. A graph is a record of
functions on nodes, one per pointer field. The internal node that holds a file's includes
exists from the beginning, and counts only once `includes` points to it. `VisitBelow` is
`make0(t, p)` step by step, with the calls it makes of itself as an argument: bind and scan (`Bind`), visit the dependencies, then the includes,
append the includes of dependencies (`WithIncludes`), diagnose (`Diagnosis`, a CASE in the order of
the code's `else if`s), force rebuilds, sort. `Visit` ties the knot by the depth that is left, `Deepest` at first. That is twice the number of nodes,
and enough: each call is for a node whose fate is INIT and no longer will be, or for the includes node of such a file (whose
own fate is not looked at, and may have been raised by REBUILDS). `VisitIs` proves that no call runs out of depth
where nothing is declared to REBUILD another. A header
scan is the INCLUDES call that HDRRULE makes.
`Make1Cmds` keeps the code's order too: the merged actions are marked before the sources are
collected, duplicates are dropped only for TOGETHER rules, and the chunk shrinks by tenths.

### ExecUnix and the code

* `cmdtab[s]` keeps the `pid` of the slot, the streams whose `fd` is open, and `exit_reason`;
  buffers, names and times of the slot are data. Slots and commands count from 1, so that pid 0 is
  a free slot, as in the code.
* `pc` says before which system call the engine is, and an action is what it does up to the next
  one: `ExecCmd` (find a slot, fork, wait if the limit is reached), `PopulateFileDescriptors` (with
  its `killpg`), `Select` or `SelectTimeout`, `ReadOut` and `ReadErr`, then `NotDone` or
  `CloseStreams` and `Reap`; `NextSlot` is the loop over the slots and `ExecReturn` the loop of
  `exec_cmd`. The read loop of `read_descriptor` is one step: it ends only when it has caught up.
* `ready` is what `select` left in `fds`. It is used slot after slot while commands go on, and
  while `Reap` calls `func` for the slots before.
* A command is a process group: `proc[c].state` is its leader, `holds` the pipes that any process
  of the group has open. `Write`, `Exit`, `Close` and `TimeUp` happen at any moment. A leader can
  end and leave processes behind that hold its pipe. A process that leaves the group is outside the
  model. After `Reap` a command's processes do not matter any more and are forgotten.
* `Detaches` says whether a running command may close its output.
* `told` and `lost` are ghosts: what `func` was called with, and whose output was thrown away.
* On Unix nothing installs `onintr`, so `intr` stays 0 and is left out.

`Execution` is the interface between `Make1` and either module: `jobs`, who was started, how each
ended, what `make1` was told. `Make1` has the same promise in `Make1cLaunch` (waits when the
limit is reached), `Complete` (any command, while it waits) and `ExecReturn` (only after a
report, below the limit).

### ExecNT and the code

* `cmdtab[s]` keeps `hProcess` (the command, 0 if the slot is free) and `exit_reason`. A command's two
  pipes are one, `unread` says whether it holds anything.
* `exec_wait` is `TryWait` (a command that has ended, or none after half a second), `ReadOutput` for each
  slot, `TryKillOne` only if none has ended, then `Report` (`GetExitCodeProcess`, `func`, `CloseHandle`
  of everything), then `ExecReturn`, the loop of `exec_cmd`. `ExecWaitIdle` is the call that finds
  nothing running.
* `EndedSlots` may have several members and `TryWait` picks any: `WaitForMultipleObjects` wakes up for the
  first command that ends, and others may have ended when the engine's thread goes on.
* `Add`, `Negate`, `CarryBit` and `RunningTime` are `add_FILETIME`, `negate_FILETIME`, `add_carry_bit` and
  `running_time`, with `Half` for 2^31: a FILETIME is a record of two numbers below `Base == 2 * Half`.
* `kill_process_tree` stops what still runs; a process that ended in the meantime keeps its exit
  code (`Killed`). Children that outlive a command are left out: `execnt.c` waits for the process.
* `Interrupt` is `onintr`, installed by the first `exec_cmd`; `Report` then says "intr" whatever happened.

### Files, HeaderCache and the code

* A record `f` of `Files` is the state of four hash tables: `time` is `file_info`, `listed` and `listing` the
  directories `file_dirscan` has read, `scanned` and `bind` the two uses of `timestamp`'s `bindhash`, `located`
  is `explicit_bindings`. The time 0 of a missing file is the code's own convention.
* `Search` is `search()` in the code's order: LOCATE, then each directory of SEARCH until another target
  was LOCATEd there or a file is found, then the plain path; each path it passes is queried and timed, which is
  what fills the tables for the next target.
* A run is `Start` (Jamfiles, `Glob`), then `Make` (`hcache_init`, `bind_explicitly_located_targets`), `Visit` for
  each target `make0` reaches (`search`, `headers`, `hcache`), `Decide` (step 4 of `make0`), `SaveStart`, `SaveRecord`,
  `SaveEnd` (`hcache_done`), then `Build` and the rescans of `make1c` (`RescanFile`, `RescanNode`), `MakeEnd`, and perhaps
  a second `Make` (UPDATE_NOW). `Edit` happens between runs, `Crash` at any moment.
* `entries` is `hcachelist`, `hash` the hash table in front of it: a second `hcache_init` replaces the
  table but appends to the list. The cache file is written in place, newest entry first, and ends "whole", "cut"
  or, "atScan", inside a record just before the count of patterns: there `hcache_init` tests the wrong pointer
  and calls `atoi(0)` (`MakeDies`).
* `Cached` compares what `hcache()` does: the time `make0` knows of the target, and what is left of HDRSCAN after
  `headers()` has compiled it (`Rest`, empty for up to `MAXINC` patterns). `Renewed` is the entry that is found,
  its age 0 again, `TooOld` the test of `hcache_done`.
* `idle` is history for `Purged`; `written` for the properties that speak of files not written in this run.

## 3. The runs

Passing runs:

| run | question | instance | properties |
|---|---|---|---|
| `dags` | does the scheduler build any graph right, interrupted or not? | every graph on `all`, `lib`, `obj`, `src` (64), `src` stable or unfindable, `obj` newer or outdated, `lib` missing; `all` and `lib` asked for; with and without a semaphore on all but `all`; -j2, -j3, -q, -n; SIGINT at any moment; `obj` NOCARE and made by two actions, the first ignored, `lib` RMOLD and FAIL_EXPECTED; each command may fail | `TypeOK`, `SemaphoreExclusion`, `WakeupsCounted`, `NoneLeftBehind`, `ResultIsRight`, `JobsBounded`, `BuildsInOrder`, `ImplementsBuild`, `NothingStartsAfterIntr`, `Termination` |
| `joint` | may one use a target of an action that is still running for another? | a generator of two files, two objects compiled from one each, three ages of the files, with and without a semaphore, -j3; the graph comes from `DepGraph` and `Make0` | `OutputsReady` |
| `rescan` | is a header found late still waited for? | a generated source found to include a generated header, another source known to; nine graphs, -j1 to -j3, semaphores | `BuildsInOrder`, `Termination` |
| `execunix` | is every command reported once, truthfully and in the end? | three commands in two slots; -j1 with a slot that must stay unused, -j2, with and without -l, with and without -p; commands end well, badly, by a signal, or hang, and leave processes behind | `TypeOK`, `SlotsCovered`, `NothingLost`, `ReportsTrue`, `ImplementsExecution`, `LimitEnforced` |
| `execnt` | and on Windows? | three commands in two slots without a limit, one or two at a time with one; FILETIMEs of four bits, a limit below `Half` and one at it; SIGINT at any moment | `TypeOK`, `ReportsTrue`, `ImplementsExecution`, `LimitEnforced`, `LimitKept` |
| `headers` | do the cache and the rescans know what files include, and is a target one file? | three runs of up to two makes, one edit, a crash anywhere; a source, a header generated from another file, looked for in two directories, that may include a third | `TypeOK`, `CacheTrue`, `HeadersTrue`, `GeneratedKnown`, `BoundAsDocumented`, `OneAnswer`, `Purged` |
| `plan` | is exactly what must be updated updated, and no source lost between actions and commands? | up to three of eleven rule calls, in any order, on a base of a program, an object, a library of that object, the source and two headers; 3·3·2·3·2 combinations of file ages; the second header may have the object rebuilt, before or after the library was found to be stable; -g. Three chains of up to three actions with five rules, each set of busy actions and of updated sources | `FatesDecided`, `UpdatedWhenNeeded`, `UpdatedOnlyForAReason`, `BrokenSpreads`, `JointTargets`, `RebuildsHonoured`, `EverySourceGiven`, `ActionsStartedOnce`, `SplitAsNeeded` |

Runs that show a disagreement between the code and what it says of itself (the lines are
under "findings" in `PROJECT.json`):

| run | what the counterexample shows |
|---|---|
| `partial` | With -q, two commands fail in the same `exec_wait`. `make1d` of the first sets `intr`; the next round pops that target's state and `make1c` pops the second's MAKE1D. Its partial output is never removed, and the next build takes it for up to date. |
| `joint_three` | With three targets per action, the second and third include only the first, which includes both. Who uses the third reaches the second through two includes nodes, the third's and the first's. With the first and the second ONSTACK, `make1a` does not register the node with them (make1.c:279); the chain of nodes is done at once, and the user starts while the action still runs for the second. With two targets it is right: `joint` passes. |
| `rescan_race` | A header is ONSTACK (its prerequisite is being started) when a rescan finds it. `make1a` does not register the new includes node with it, so the node is done at once and the object is built before the header. |
| `stale_headers` | A generated header is there from an earlier run and `make0` scans it. It is built again, now includes another file, and is rescanned (make1.c:565): `hcache()` compares the time `make0` saw, which is that of its entry, and the rescan returns what the old header included. |
| `rebuilds` | REBUILDS of a target not visited yet raises its fate from INIT, and `make0` visits only what is INIT: it and its sources are never bound, and `make1b` calls `abort()` on the bad fate. |

**The refinement.** `Build` knows nothing of stacks, counters and chains of parents. A target
waits, is worked on, is done; it is begun only when everything it depends on is done and good
(or NOCARE), and while no other target with its semaphore is worked on; new dependencies become
known for waiting targets only; the verdict is success exactly if nothing was found `missing`, and all that was
asked for is done and everything done is good. `Make1` maps `progress`: RUNNING is *working*, DONE is *done*, all
else is *waiting*. `good` is a DONE target's status OK, `missing` is what `make0` counts, `stopped` is `intr`, and the verdict is what `make()`
returns; `abort()` and `exit()` map to `GiveUp`, the end without a verdict. `ImplementsBuild`
is checked in `dags`, also after an interrupt, where `Build` may end early and must then fail, and is proved for graphs
that do not grow.

`Execution` knows nothing of slots, pipes, `select` and the clock: commands are started below
the limit, end once and by themselves, are reported one by one while `make1` waits, and a wait ends
after a report. `ExecUnix` maps `started` and `outcome` to the leader's state, `waiting` to any `pc`
but `"make1"`, `heard` to `finished`. `execunix.c:428` says `exec_wait` drives "at most one execution
completion"; it drives one for every slot whose pipe is at its end, so `Execution` allows several,
as `Make1` does. `ExecNT` implements the same module: there a report that says "interrupted" stands for the
outcome it hides, and a wait does drive one completion.

**Bounds.** Every graph of four targets contains each shape that a counter can get wrong: a
dependency shared by two parents, a parent both direct and indirect, chains of three. -j2 and
-j3 make `exec_cmd` wait and not wait; three targets on one semaphore queue behind it. A table of two slots is one in which
a command can be in the other slot, a third command makes one be used again with what the second left in
it, and with -j1 the second slot is out of the loops' reach. A FILETIME of four bits has every case of a carry between
its halves, of times below, at and above `Half`. Three runs are what it takes for an entry to be written, to be
read and aged, and to be purged or used again (`MaxAge` is 1); two makes in a run put entries into the list twice. `dags`
explores 120213 states, `execunix` 69546, `execnt` 89425, `headers` 360656, `plan` 51141, `rescan` 6901 and `joint` 474.
`Make1` and `ExecUnix` have no counter that needs a bound. `ExecNT` bounds the clock (`MaxTime`, far enough for every
command started up to `LastStart` to run over its limit); `HeaderCache` bounds runs, makes and edits.

**Fairness.** `WF_vars(Loop)`: there is one engine thread and it runs. `WF_vars(AnyComplete)`:
when `exec_wait` waits, some command ends and is reported, since commands end by themselves or,
with -l, are killed (`LimitEnforced`). Nothing is assumed of *which* command ends or with what status, and SIGINT
need not arrive. In `ExecUnix` `WF_vars(Engine)` is that one thread, and `WF_vars(TimeUp(c))` is the clock;
nothing is assumed of the commands, which may hang for ever. `ExecNT` has `WF_vars(Engine)` and `WF_vars(Tick)`,
the clock of the system. Liveness is `Termination` and `LimitEnforced`; what must have happened by then is a safety
property of the end (`NoneLeftBehind`, `ResultIsRight`).

**Deadlock** is checked wherever the system goes on: `Make1` has an explicit `Ended`, and an idle `exec_wait`
returns. `plan` and `rebuilds`, pure functions, stop after one evaluation, and `headers` and `stale_headers` after
`MaxRuns` runs; these say so.

**Restrictions of the properties.** `LimitEnforced` holds for commands that close their output
only by ending (`Detaches = FALSE`). One that closes it and runs on makes `exec_wait` block in `waitpid`
(execunix.c:495), where it looks at no clock and at no other command: TLC refutes the property
with `Detaches = TRUE`, and with it the promise of -l (jam.c:247). `NothingLost` is stated without -p:
with it the end of either pipe closes both, and what is in the other is thrown away. `ReportsTrue` leaves
out the exit reason, not the status, of a command that another signal killed: the slot keeps the
reason of an earlier command. `WakeupsCounted` and `NoneLeftBehind` do not hold after an
interrupt: states are dropped on purpose. `UpdatedWhenNeeded` leaves out files that include
each other: one is visited while the other's fate is MAKING, and a later update goes unnoticed; and a touched file that is missing and NOCARE, which counts
as found. `BrokenSpreads` leaves out files that include each other as well: with `Heeded` in place of `Known` TLC refutes it
with two such headers that cannot be found. Runs and theorems ask `make()` for one target: it visits each
that is asked for, visited or not, and a TEMPORARY one that took the time of a parent has none the second time (make.c:507).
`UpdatedOnlyForAReason` spells out the reasons the code has: a temporary file left behind is one of them;
a missing one needs a parent that is missing or older than what it is made from, or to be asked for itself (`Needed`: with no
parent to take a time from it is MISSING like any other, make.c:312); a LEAVES target must be older than a leaf, but where
files below it include each other the leaf of one is not known when the other is decided, and any newer file
may be what it is compared with (`Cyclic`); NOUPDATE files have no time, so a file above nothing else is a leaf (`Leaf`). What a target
rebuilt for another takes along (`Taken`) is built whatever its flags, LEAVES included. `ResultIsRight` is checked on graphs that do not grow: the `make0` of a rescan has no counts, so what
it cannot make is skipped without being counted and `make()` returns 0. `Overdue`, on which `LimitKept` and
`ReportsTrue` of `ExecNT` rest, allows a command to be killed once it has run for `Half`, 214.7 seconds, under any larger
limit: `add_carry_bit` misses a carry (execnt.c:759). `CacheTrue` and `HeadersTrue` are checked with one value
of HDRSCAN for all runs: a changed one is not noticed (headers.c:80), and with the definition `Either` TLC refutes both. `CacheTrue` is about the entries that were made with the patterns
that are compiled now (`e.scan = Rest`), since `hcache()` passes over the others. Every
write has a time of its own: two writes within a second are one to the engine (fileunix.c:230). `HeadersTrue`
leaves out files this run has written (see `stale_headers`), `BoundAsDocumented` speaks of the time before it has
written any, and `GeneratedKnown` of targets found along SEARCH: the fallback to the plain path does not look at
`explicit_bindings` (search.c:186).

## 4. The proofs

### The scheduler

`Make1_proofs` proves, for every set of targets, graph, action chain, semaphore, command
line and behaviour of the commands:

| theorem | statement | inductive invariant |
|---|---|---|
| `TypeCorrect` | `Spec => []TypeOK` | `TypeOK /\ SemInv` |
| `NoStartAfterIntr` | `Spec => NothingStartsAfterIntr` | `IntrInv` |
| `SemaphoresExclude` | `Spec => []SemaphoreExclusion` | `SemInv` |
| `NeverTooManyJobs` | `Spec => []JobsBounded` | `JobsInv` |
| `BuiltInOrder` | `Spec => BuildsInOrder`, if `NothingFound` and `Acyclic(rank)` | `OrderInv`, `RankInv(rank)` |
| `CounterIsExact` (`Make1Exact_proofs`) | `Spec => []WakeupsCounted`, under the same hypotheses | `ExactInv(rank)` |
| `AllAreFinished` | `Spec => []NoneLeftBehind`, under the same | `ExactInv(rank)` |
| `VerdictIsRight` | `Spec => []ResultIsRight`, if `FatesExplained` too | `ResultInv` |
| `SchedulerImplements` | `Spec => ImplementsBuild`, under the same | `ExactInv(rank)`, `ResultInv` |

Assumptions: `Make1Assumption` (the constants have their types) and `CommandsAssumption` (what
`make1cmds` returns); both are evaluated by TLC on every instance. The hypotheses are about the graph:

* `NothingFound`: the rescans of `make1c` find no headers. The run `rescan` checks graphs that grow; two properties
  do not hold of them (see the runs `rescan_race` and `ResultIsRight` above).
* `Acyclic(rank)`: some rank falls from every target to what it depends on and includes.
* `FatesExplained`: where a target is to be broken (CANTFIND, CANTMAKE), `make0` has counted something. It has, in a
  graph built without REBUILDS, with cycles or not: the theorem `BreakageSpread` below says so of what `make0` leaves.

TLC evaluates all three for the 64 graphs of `dags` (`GraphsAssumption`), with 4 minus the place in `Order` for the rank.

* `TypeOK` needs `SemInv` for one step, that `make1c` gives back a semaphore whose count is 1 (`SemGivenBack`). Otherwise it
  is where fold-like helpers matter: `NewIncludes` is a recursive function and `Max` a
  CHOOSE; `NewIncludesType` and `MaxOfStatuses` say what they return, by induction over a set of
  numbers stated for sets instead of operators (`SetInduction`).
* `IntrInv`. `make1c` has no test of `intr`: nothing starts because nothing is left that would.
  The invariant says that a MAKE1C state is never anywhere but on top of the stack, that
  `exec_wait` is entered with none at all, and that with `intr` set the one on top belongs to
  a target whose status is no longer OK (the one `make1d` just gave the failure to).
* `SemInv`. That running targets do not share a semaphore is not inductive: `make1b` takes the
  semaphore long before `exec_cmd`, and `make1c` gives it back long after. The invariant is about
  all who hold one: the running targets and the MAKE1C and MAKE1D states on the stack. No two of
  these places share a semaphore, and a semaphore whose count is 0 is held by none of them.
* `JobsInv`: `running` is finite and the handlers are called only with room for one more command.

*`BuiltInOrder`.* Nothing in `make1c` looks at the dependencies: that they are done
when a target is built follows from `asynccnt` alone, so the invariant is about counting.

* `Owed`, `Calls` and `Queued` are what `asynccnt[t]` ought to count: the places of t in `parents` of targets not
  done, the states on the stack that call `make1b(t)`, and the places of t in the queues of semaphores.
  `Gap(t)` is what it counts beyond them, and `Counted` says that it is never negative. It is an inequality on
  purpose: an interrupt loses states whose call was counted (`WakeupsCounted`, without an interrupt, is the
  equality), and what is lost only makes the gap larger.
* `Waits`: for each dependency d of a target t that was started, d is done, or t has a gap and will never be
  built, or t is among d's `parents`, or it is about to be: above t's MAKE1ATAIL state there is one that visits d
  for t (`Coming`).
* `Past`, `Alone` and `Fine`: a target whose count is back at 0 has all its dependencies done; it is then in
  one place, a state MAKE1C or MAKE1D or a running command; and if it has something to run, no dependency it cares
  about has failed.
* `Called` and `Started`: a visit for t is above t's MAKE1ATAIL state, which is there as long as t is ONSTACK.
  `make1a` does not register t with a dependency that is ONSTACK itself; only in a cycle does it meet one, below itself.
  `RankInv` excludes that: the rank falls up the stack.

States are counted from the bottom of the stack (`Deep`), where handlers leave them; `Frame` says once what a
step must do to keep the invariant, and each handler's lemma shows it. `LastCall` is the heart: when `make1b(t)` is
called with `asynccnt[t] = 1`, that call is all that is outstanding, so nothing is owed, and what t waits for is done.

*`CounterIsExact`* needs the other half of the count. `Exact`: without an interrupt no gap is above 0, whatever
is counted is owed, queued or called. A step keeps it if what is owed, queued or called grows by as much as the counter
(`GapHolds`), and that needs to be known of each handler: `Visiting` (a target is opened once), `Runs` (a target with
commands has its count at 0, and is well while one runs, so `make1d` and `make1c` bring none back to life), `Over`.

*`AllAreFinished`* is the absence of deadlock as a safety property: when `make()` returns without an interrupt,
each target it entered is done. Suppose one is not. It is counted for, and the stack is empty, so it waits for a dependency or
in the queue of a semaphore. Take the one of least rank (`LeastOf`): a dependency it waited for would have a lower one
(`Parented`: `parents` holds targets of higher rank only), so it waits for a semaphore, which is taken (`NextCalled`: while
somebody queues, the semaphore is taken or somebody about to take it is on the stack), by a target that is begun (`Held`:
taken exactly while one target that has it is begun), which runs or is on the stack (`Tended`); but nothing runs and the
stack is empty. `InLine` says that who queues waits for nothing else, `Entered` that `make1` was called for each root.

*`VerdictIsRight`.* `make1` does not look at the graph for its result: it fails if `counts->total` is not
`counts->made`, or if `make0` counted something. `Surplus`, the total less what is made and what is being updated, is
the number of updates that failed; `Tallied` says that it is not negative, that there is a bad target when it is
positive, and that whatever went wrong (`Trouble`: a bad target, or a bad action waiting for a second target) shows in
it, or is about to, on a target that is still being updated. So a failure that is not counted, of a target that was never
begun because a dependency failed, goes back to one that is. `Reasons` says the same for an interrupt, `Origin` that fates
are still what `make0` left (nothing grows), `Clean` that success means no bad target.

*`SchedulerImplements`* has one lemma for each kind of step: `Make1aStart` is a `Discover` (`StartDiscovers`), `Make1bReady` a
`Begin`, a `GiveUp` on a bad fate, or nothing (`ReadyBegins`); `Make1cDone` a `Finish` for what was begun and a `Pass` for
what was not (`DoneFinishes`); `Make1d` after an interrupt, or a failure with -q, a `Stop` (`CommandStops`); the return of `make()`
an `End` with the right verdict (`ReturnEnds`); the rest nothing. `Excluded` follows from `Held`, `Ready` from
`OrderInv`, and the verdict from `ResultInv`.

TLC had each part of these invariants first, as an invariant of `dags` (120213 states).

### The execution of commands

`ExecUnix_proofs` proves, for every number of commands and slots, every -j up to `MAXJOBS`, -l, -p,
and commands that may close their output early:

| theorem | statement | rests on |
|---|---|---|
| `TablesKept` | `Spec => []TypeOK` | `IInv` |
| `SlotsAreCovered` | `Spec => []SlotsCovered` | `IInv` |
| `ExecUnixImplements` | `Spec => ImplementsExecution` | `IInv` |
| `ReportsAreTrue` | `Spec => []ReportsTrue` | `IInv`, `Reasoned` |
| `OutputIsKept` | `Spec => []NothingLost` | `IInv`, `Drained` |

The only assumption is `ExecUnixAssumption`. `TypeOK` is not inductive: that the count of running
commands stays in `0..MAXJOBS` needs a free slot, and that needs the count. `IInv` adds

* `Counted`: `cmdsrunning` is the number of slots in use, and of commands started and not reported;
* `Placed`: each slot in use is among the first -j and has a command of its own, not yet reported,
  and a free slot has no stream open;
* `Told`: only commands that have ended are reported;
* `Bounded`: below the limit while `make1` has control, so that (by counting, `SlotIsServed`) the first
  free slot is one that `exec_wait` looks at;
* `Due`: what `ready` and `eof` say is about slots still in use, though earlier slots have been freed since
  `select`; this is why a slot read late is never another command's.

`Reasoned` says that a leader which the limit stopped has EXIT_TIMEOUT in its slot, and `Drained`
that a pipe seen at its end has nothing unread and nobody left to write to it. The refinement has one step per
action: `ExecCmd` is a `Start`, `Exit` and `PopulateFileDescriptors` an `End`, `ExecWait` a `Wait`,
`Reap` a `Report`, `ExecReturn` a `Return` or nothing, and the rest nothing.

`ExecNT_proofs` proves, for every number of commands and slots, every -j up to `MAXJOBS`, every -l and every
width of a FILETIME (`Half` at least 1):

| theorem | statement | rests on |
|---|---|---|
| `TablesKept` | `Spec => []TypeOK` | `IInv` |
| `ExecNTImplements` | `Spec => ImplementsExecution` | `IInv` |
| `LimitIsKept` | `Spec => LimitKept` | `IInv`, `Clock`, `RunningTimeIsRight` |
| `ReportsAreTrue` | `Spec => []ReportsTrue` | `IInv`, `Clock`, `Reasoned`, `Emptied` |

The only assumption is `ExecNTAssumption`. `IInv` has the same parts as for Unix, with one simplification and one
complication: only one slot is reported per wait, but `Due` has to say of `i`, chosen before the pipes are read,
that its command has still ended and is not reported when `Report` comes. `Reasoned` says that a slot has
EXIT_TIMEOUT if its command was stopped, only if it is overdue, and never when free; `Emptied` that a command
that ended by itself has nothing unread when it is reported, because `read_output` came to its slot after the end.

*The arithmetic.* `RunningTimeIsRight`: as long as less than `Half` has passed since the start, what `running_time`
computes in halves is the difference of the two times. The lemmas below it say what quotients and remainders do
(`Division`, `WrappedRemainder`, `NextRemainder`, `Neighbours`), what `negate_FILETIME` makes of a time (`Negation`), and that
the carry which `add_carry_bit` misses needs a difference whose low half has its top bit set.

### The header cache

`HeaderCache_proofs` proves, for all targets, directories, files and patterns, any number of runs and of makes in them, every edit
between runs and every crash:

| theorem | statement | hypothesis |
|---|---|---|
| `TypeCorrect` | `Spec => []TypeOK` | |
| `OneAnswerKept` | `Spec => OneAnswer` | |
| `SearchAsDocumented` | `Spec => BoundAsDocumented` | |
| `GeneratedIsKnown` | `Spec => []GeneratedKnown` | |
| `OldEntriesPurged` | `Spec => Purged` | `MaxAge # 0` |
| `CacheIsTrue` | `Spec => []CacheTrue` | `RestTells` |
| `HeadersAreTrue` | `Spec => []HeadersTrue` | `RestTells` |

The only assumption is `HeaderCacheAssumption`. `MaxAge # 0`: an age of 0 means that entries are kept for ever.
`RestTells`: the values HDRSCAN may have agree on what they find if what `headers()` leaves of them is the same, as
they do when there is one value; this is the restriction of the run `headers`, and why is said there. All rest on `IInv`:

* `Typed`: times are not after the clock, and the tables of `Files` are functions. `Resting`: no process knows nothing, and
  none has read the cache before its first make.
* `FilesTrue`: `timestamp()` has answers for the directories it has scanned only, and they are `file_query`'s; and what is
  known of a path that this run has not written is so on the disk, its absence included (`Shows`). One lemma for each
  level of `Files` says that its tables only grow towards the truth (`Extends`).
* `LocatedRight`: `explicit_bindings` holds targets LOCATEd there and, from the first make on, one for each such path.
* `Bound`: a visited target is bound, to a file not older than what `make0` saw unless written since.
* `EntriesGood`: each entry, in the list, being saved or in the file, whole or cut, is right for some value of HDRSCAN if its
  file has not been written after the entry's time. It has to speak of the entries in the file and of those
  that no visit asks for, since a later run reads them.
* `Ages`: an entry's age is at least the number of runs since its file was asked for, less one but between the
  reading and the saving in a run's first make.

Given `IInv`, `HeadersTrue` and `GeneratedKnown` are inductive themselves, and the other properties follow from it in one step.
TLC checked `IInv` first, on an instance of 1037052 states.

### The construction of commands

`Make1Cmds_proofs` proves, for all targets, chains of actions, rules and their modifiers, lengths of names and of the line, whatever
is already executing and has been updated:

| theorem | statement | rests on |
|---|---|---|
| `MakeCmdsGivesEverySource` | `CmdsSpec => []EverySourceGiven` | `AllRounds` |
| `MakeCmdsStartsActionsOnce` | `CmdsSpec => []ActionsStartedOnce` | `AllRounds` |
| `MakeCmdsSplitsAsNeeded` | `CmdsSpec => []SplitAsNeeded` | `AllRounds`, `SplitCuts` |
| `MakeCmdsAnswersAsAssumed` | `CmdsSpec => []AnswersAsAssumed` | `AllRounds` |

The only assumption is `Make1CmdsAssumption`. `CmdsSpec` asks for any target, with any actions busy and any sources new, so
an invariant of it is a statement about every call. The last theorem is what `Make1` assumes of its constant
`Commands` (`CommandsAssumption`): the theorems about the scheduler rest on something that is proved of `make1cmds()`.

The loops of `make1cmds` are recursive functions. Two things make them provable. First, TLA+ takes such a
function to be any that solves its equation, so it has to be shown that one does: `PrimitiveRecursion` for loops that
count, and `MeasuredRecursion` for the splitting loop, where what gets smaller is the rest of the list and the chunk
together (`SplitStepsExist`; nine tenths of a chunk above 1 is a smaller one, and not 0: `TenthLess`). Second, what is proved by
induction over the numbers is membership in a set (`SetInduction`).

* `SplitCuts` says of the splitting loop that its pieces, end to end, are the list (`Cuts`), that all but the last fit, and that the last one,
  if it does not, cannot be made smaller; none is empty unless the list is.
* `RoundInv` is the invariant of the loop over the chain, after m rounds: what is running is what was and what the first m
  actions lead (`Covered`); the commands of each leader are the pieces of its group's sources (`SourcesForNames` for a
  group that is TOGETHER), each with its whole share (`CmdFine`); and if the engine gave up, it was on a line that was
  `Stuck`. `LeadsIs`, `LedAreMerged` and `LeaderNotCovered` relate the code's flags, set as the loop goes, to the order of the chain
  alone: an action is under way when its turn comes exactly if an earlier one of its rule led it.
* An action may stand in a chain twice and lead at both places. At the second the code finds it running, and what it
  should give has been given at the first (`LeaderRepeated`).

### The diagnosis

`Make0_proofs` proves, for all files, ages, headers, targets of actions and flags, any number of rule calls in any order, and
with -g or -a or without:

| theorem | statement | hypotheses | rests on |
|---|---|---|---|
| `TypeCorrect` | `Spec => []TypeOK` (`Make0_proofs`): graphs stay graphs | | `VisitTyped` |
| `DecidedFates` | `Spec => []FatesDecided` | `NoRebuilds`, `OneAsked` | `IInv` |
| `UpdatesMade` | `Spec => []UpdatedWhenNeeded` | the same | `IInv`, `CalmBelow` |
| `BreakageSpread` | `Spec => []BrokenSpreads` | the same | `IInv` |
| `TargetsJoined` | `Spec => []JointTargets`: the graph leads to all targets of an action | the same | `IInv` |
| `OnlyForAReason` | `Spec => []UpdatedOnlyForAReason` | the same | `IInv`, `EndCause`, `LeafFound` |

The assumptions are those on the constants' types (`DepGraphAssumption`, `Make0Assumption`, `CallsAssumption`).
`NoRebuilds`: no Jamfile says REBUILDS; with it `FatesDecided` is false (run `rebuilds`). `OneAsked`: `make()` is asked for one
target. Nothing is assumed of the graph: it may have cycles, and grows by headers while it is visited.

* While a Jamfile is read the invariant is `Parsed`: nothing is bound (`Fresh`), nodes of includes are reached through
  their files only (`Shaped`), and the targets of an action include each other as `evaluate_rule` made them (`Joined`).
* `make0()` is one step of the specification, so what is said of it is a contract for `Visit`: from a graph `Before` a visit of t,
  `After` it t is decided, everything decided earlier is as it was, and nothing is left MAKING that was not (`Kept`).
  `VisitIs` proves it by induction over the depth that is left, which is at least the number of targets not yet visited (`Left`).
* `Sound` is the graph in the course of `make0()`. What it says of a decided target n (`Whole`) has three parts: what its own file
  and flags make of it (`OfItself`), what its dependencies do (`OfDepends`), and that they have been visited and their
  includes joined them (`OfVisit`).
* *Cycles.* A dependency that is still MAKING tells n nothing, so `OfDepends` cannot hold of a target on
  a cycle. `OnCycle` says that one of its dependencies `Leads` back to it; that everything MAKING leads to the target being visited is a
  part of `Before`. A target that was decided too early is thus known to be on a cycle in the graph that `make0()`
  leaves, which is what the properties leave out (`Known`).
* *Reasons.* `Whole` says what a fate must be, `CausedAt` why it is: a target between SPOIL and BROKEN reaches, through
  dependencies it heeds, one with a `Cause` of its own (`Path`), and every time and leaf is that of a file
  below it (`Dated`). Causes speak of a graph that still grows and are stated so that they stay true of it (`CauseGrows`). A missing
  temporary file takes a time from its parent, so the contract of `Visit` also says who calls it: a target being made from t, with a
  time of its own unless that is no file (`Called`). `LeafFound` goes down from a dependency whose leaf is newer, by the number of
  targets below, to the target that was the leaf.
* `includes` of a file are visited after its dependencies and while it is MAKING; the node may stand in the dependencies of
  others before it has been visited itself (`Waits`, and the second half of `Sound`).
* `AllDeps`, `AllKnown` and `Visited` iterate as often as there are nodes. `ClosureIs` says that this is enough for the result to be closed,
  since each round that adds something adds a node, and `ClosureLeast` that it is the least closed set. `CalmBelow` uses
  the latter: what t is made from lies within the targets that are neither newer nor spoiled, if t itself is not to be built.

The chains and loops of `DepGraph` and `Make0` are recursive functions; `LinkedIs`, `AlongKeeps`, `SortIs`, `WithIncludesIs` and
`UpdateDependantsIs` say what each returns, and the `...StepsExist` lemmas that there is a function that solves its equation.

### What is only model-checked

`RebuildsHonoured` (it needs Jamfiles with REBUILDS, where `DecidedFates` fails);
that `make1` waits for all targets of an action, which does not follow from `JointTargets` (`OutputsReady` says it: true of two targets, false of three, see `joint_three`);
`BuildsInOrder` for graphs that grow (`NothingFound` fails: `OrderInv` would need to say which targets a rescan may still
reach); and liveness (`Termination`, `LimitEnforced`), which the prover does not handle
under fairness. `NoPartialOutput`, `RescansTrue` and the other properties of the violation runs do not hold.

## 5. Plan

Done: `Rules`, `Build`, `DepGraph`, `Make0`, `Make1Cmds`, `Make1`, `Execution`, `ExecUnix`, `ExecNT`, `Files`, `HeaderCache` and
their runs; the thirty-five theorems above.

1. Proofs: `BuildsInOrder` and `WakeupsCounted` for graphs that grow, as far as they hold; `OutputsReady` for
   actions with one target; that `joint`'s graphs meet `FatesExplained`.
2. The packaging scripts: download cache, install marks, crash and re-run.
3. `order.c`, the topological sort behind the ORDER builtin.
4. A run with a target whose bound name is not its name, for PRECIOUS.

## 6. What is not modelled

The Jam language and Boost.Build: sequential programs whose product is the graph. In `Files`: archives and their
members, directories as targets, BINDRULE, DOWNSHIFT of names on Windows. In `headers.c`: `#include MACRO`. In `execnt.c`: the
temporary batch file, the closing of alert windows, the timing information, and processes that outlive their command. In
`execunix.c`: the timing information and the CPU limit. The action text and its variables. `__TIMING_RULE__` and `__ACTION_RULE__`:
Jam code run by `make1c` which does not touch the scheduler. Debug output. The garbage collector (third-party). The
packaging scripts: they download, patch and install third-party packages one after another; their one hazard
is listed in `PROJECT.json`.
