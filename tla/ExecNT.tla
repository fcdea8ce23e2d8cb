------------------------------- MODULE ExecNT -------------------------------
(***************************************************************************)
(* execnt.c: exec_cmd() starts a command in a free slot of cmdtab;         *)
(* exec_wait() waits for one of them to end, half a second at a time,      *)
(* reads what the pipes hold and, with -l, kills a command that has run    *)
(* for too long; it reports one command and returns.                       *)
(*                                                                         *)
(* The engine is one thread; the commands, the clock and SIGINT move       *)
(* between any two of its system calls.  pc says before which one it is.   *)
(* Slots and commands count from 1, so that 0 is the null handle and, for  *)
(* a slot, the -1 of "none".  The pipes of a command are one here.         *)
(***************************************************************************)
EXTENDS Integers, FiniteSets, FiniteSetsExt

CONSTANTS
  NumCommands,  \* bound: the most commands a build has
  MAXJOBS,      \* slots
  Half,         \* 2^31: half of what a half of a FILETIME holds
  Options,      \* command lines: jobs (-j), timeout (-l, 0: not given), and
                \* the commands that make1() has then to run
  LastStart, MaxTime  \* bounds: no command starts later, no time is later

Commands == 1..NumCommands
Base     == 2 * Half

\* jam.c accepts any -j but 0; outside 1..MAXJOBS the loops leave the table.
ASSUME ExecNTAssumption ==
  /\ NumCommands \in Nat
  /\ MAXJOBS \in Nat \ {0}
  /\ Half \in Nat \ {0}
  /\ Options \subseteq [jobs : 1..MAXJOBS, timeout : Nat, commands : 0..NumCommands]
  /\ LastStart \in Nat /\ MaxTime \in Nat

VARIABLES
  pc,           \* where the engine is: see PCs
  launching,    \* exec_wait() was called by exec_cmd()
  cmdtab,       \* of each slot: hProcess and exit_reason
  cmdsrunning,
  i,            \* exec_wait()'s slot, 0 while there is none
  k,            \* read_output()'s slot
  intr,         \* SIGINT was caught
  proc,         \* of each command: its state, and when it started
  unread,       \* commands whose pipe holds output
  now,
  told,         \* ghost: status and exit reason func was called with
  lost,         \* ghost: commands some of whose own output was thrown away
  globs         \* the command line, the same for the whole run

engine == <<pc, launching, cmdtab, cmdsrunning, i, k, told, lost>>
world  == <<proc, unread, now, intr>>
vars   == <<engine, world, globs>>

PCs     == {"make1", "try_wait", "read_output", "try_kill_one", "report", "return"}
Reasons == {"EXIT_OK", "EXIT_TIMEOUT"}
Ends    == {"ok", "fail"}       \* how a command ends by itself
None    == [status |-> "none", reason |-> "EXIT_OK"]
Free    == [hProcess |-> 0, exit_reason |-> "EXIT_OK"]

TypeOK ==
  /\ pc \in PCs
  /\ launching \in BOOLEAN /\ intr \in BOOLEAN
  /\ cmdtab \in [1..MAXJOBS -> [hProcess : 0..NumCommands, exit_reason : Reasons]]
  /\ cmdsrunning \in 0..MAXJOBS
  /\ i \in 0..globs.jobs /\ k \in 1..globs.jobs
  /\ proc \in [Commands -> [state : {"new", "run", "stopped"} \cup Ends, started : Nat]]
  /\ unread \subseteq Commands
  /\ now \in Nat
  /\ told \in [Commands -> [status : {"none", "ok", "fail", "intr"}, reason : Reasons]]
  /\ lost \subseteq Commands
  /\ globs \in Options

Init ==
  /\ pc = "make1"
  /\ launching = FALSE
  /\ cmdtab = [s \in 1..MAXJOBS |-> Free]
  /\ cmdsrunning = 0
  /\ i = 0 /\ k = 1
  /\ intr = FALSE
  /\ proc = [c \in Commands |-> [state |-> "new", started |-> 0]]
  /\ unread = {}
  /\ now = 0
  /\ told = [c \in Commands |-> None]
  /\ lost = {}
  /\ globs \in Options

-----------------------------------------------------------------------------
(***************************************************************************)
(* How long a command has run, in the arithmetic of execnt.c on FILETIMEs, *)
(* two unsigned numbers below Base.                                        *)
(***************************************************************************)

\* Mutant: a carry that only one of the numbers causes is forgotten.
CarryOfBoth(a, b) == IF a >= Half /\ b >= Half THEN 1 ELSE 0

\* add_carry_bit: the top bit of (a | b) and that of ~(a + b).
CarryBit(a, b) == IF (a >= Half \/ b >= Half) /\ (a + b) % Base < Half THEN 1 ELSE 0

Add(t, u)   == [hi |-> (t.hi + u.hi + CarryBit(t.lo, u.lo)) % Base, lo |-> (t.lo + u.lo) % Base]
Negate(t)   == Add([hi |-> Base - 1 - t.hi, lo |-> Base - 1 - t.lo], [hi |-> 0, lo |-> 1])
FileTime(n) == [hi |-> (n \div Base) % Base, lo |-> n % Base]
RunningTime(c) ==
  LET d == Add(FileTime(now), Negate(FileTime(proc[c].started))) IN d.hi * Base + d.lo

-----------------------------------------------------------------------------
(***************************************************************************)
(* exec_cmd().                                                             *)
(***************************************************************************)

FreeSlots == {s \in 1..MAXJOBS : cmdtab[s].hProcess = 0}

Slot == Min(FreeSlots)

\* Mutant: one command too many is let in.
LimitPassed(n) == n > globs.jobs

\* With n commands running, no further one may be started.
Limit(n) == n >= MAXJOBS \/ n >= globs.jobs

\* The commands are alike: make1() hands them over in their order.
ExecCmd ==
  /\ pc = "make1"
  /\ FreeSlots # {}
  /\ now <= LastStart
  /\ \E c \in 1..globs.commands :
       /\ proc[c].state = "new"
       /\ \A d \in 1..(c - 1) : proc[d].state # "new"
       /\ proc' = [proc EXCEPT ![c] = [state |-> "run", started |-> now]]
       /\ cmdtab' = [cmdtab EXCEPT ![Slot].hProcess = c]
  /\ cmdsrunning' = cmdsrunning + 1
  /\ pc' = IF Limit(cmdsrunning + 1) THEN "try_wait" ELSE "make1"
  /\ launching' = Limit(cmdsrunning + 1)
  /\ UNCHANGED <<i, k, told, lost, unread, now, intr, globs>>

-----------------------------------------------------------------------------
(***************************************************************************)
(* exec_wait().                                                            *)
(***************************************************************************)

\* make1() calls it when it has nothing else to do.
ExecWait ==
  /\ pc = "make1"
  /\ cmdsrunning # 0
  /\ pc' = "try_wait"
  /\ launching' = FALSE
  /\ UNCHANGED <<cmdtab, cmdsrunning, i, k, told, lost, world, globs>>

\* It returns 0 to a make1() that does not know whether commands are running.
ExecWaitIdle ==
  /\ pc = "make1"
  /\ cmdsrunning = 0
  /\ UNCHANGED vars

\* The slots in use whose process has ended.
EndedSlots == {s \in 1..globs.jobs : /\ cmdtab[s].hProcess # 0
                                     /\ proc[cmdtab[s].hProcess].state # "run"}

\* One that has ended, or none when the time is up.
TryWait ==
  /\ pc = "try_wait"
  /\ IF EndedSlots = {} THEN i' = 0 ELSE i' \in EndedSlots
  /\ k' = 1
  /\ pc' = "read_output"
  /\ UNCHANGED <<launching, cmdtab, cmdsrunning, told, lost, world, globs>>

\* read_output() reads all that the pipe of the slot holds.
Drained == {cmdtab[k].hProcess}

\* Mutant: the loop goes one slot too far.
OneMoreSlot == k <= globs.jobs

MoreSlots == k < globs.jobs

ReadOutput ==
  /\ pc = "read_output"
  /\ unread' = unread \ Drained
  /\ IF MoreSlots THEN k' = k + 1 /\ UNCHANGED pc
     ELSE k' = 1 /\ pc' = IF i = 0 THEN "try_kill_one" ELSE "report"
  /\ UNCHANGED <<launching, cmdtab, cmdsrunning, i, told, lost, proc, now, intr, globs>>

\* kill_process_tree(): a process that has already ended keeps its exit code.
Killed(p) == [p EXCEPT !.state = IF @ = "run" THEN "stopped" ELSE @]

Overran(s) == /\ globs.timeout > 0
              /\ cmdtab[s].hProcess # 0
              /\ RunningTime(cmdtab[s].hProcess) > globs.timeout

\* Mutant: the last slot is not looked at.
RunawaysButLast == {s \in 1..(globs.jobs - 1) : Overran(s)}

\* The slots whose command has run for longer than it may.
Runaways == {s \in 1..globs.jobs : Overran(s)}

TryKillOne ==
  /\ pc = "try_kill_one"
  /\ IF Runaways = {}
     THEN pc' = "try_wait" /\ UNCHANGED <<i, proc, cmdtab>>
     ELSE /\ i' = Min(Runaways)
          /\ proc' = [proc EXCEPT ![cmdtab[Min(Runaways)].hProcess] = Killed(@)]
          /\ cmdtab' = [cmdtab EXCEPT ![Min(Runaways)].exit_reason = "EXIT_TIMEOUT"]
          /\ pc' = "report"
  /\ UNCHANGED <<launching, cmdsrunning, k, told, lost, unread, now, intr, globs>>

\* Mutant: the slot keeps its exit reason.
FreeButReason(slot) == [slot EXCEPT !.hProcess = 0]

\* What a slot holds once its command is reported.
Cleared(slot) == Free

\* The exit code is looked up, func is called, the slot is freed and its
\* pipes are closed.
Report ==
  /\ pc = "report"
  /\ LET c      == cmdtab[i].hProcess
         status == IF intr THEN "intr" ELSE IF proc[c].state = "ok" THEN "ok" ELSE "fail"
     IN  /\ told' = [told EXCEPT ![c] = [status |-> status, reason |-> cmdtab[i].exit_reason]]
         /\ lost' = lost \cup ({c} \cap unread)
         /\ unread' = unread \ {c}
  /\ cmdtab' = [cmdtab EXCEPT ![i] = Cleared(@)]
  /\ cmdsrunning' = cmdsrunning - 1
  /\ i' = 0
  /\ pc' = "return"
  /\ UNCHANGED <<launching, k, proc, now, intr, globs>>

\* exec_wait() returns; exec_cmd() calls it again while the limit is reached.
ExecReturn ==
  /\ pc = "return"
  /\ pc' = IF launching /\ Limit(cmdsrunning) THEN "try_wait" ELSE "make1"
  /\ UNCHANGED <<launching, cmdtab, cmdsrunning, i, k, told, lost, world, globs>>

-----------------------------------------------------------------------------
(***************************************************************************)
(* The commands, the clock and the user.                                   *)
(***************************************************************************)

Write(c) ==
  /\ proc[c].state = "run"
  /\ unread' = unread \cup {c}
  /\ UNCHANGED <<engine, proc, now, intr, globs>>

Exit(c, end) ==
  /\ proc[c].state = "run"
  /\ proc' = [proc EXCEPT ![c].state = end]
  /\ UNCHANGED <<engine, unread, now, intr, globs>>

\* Without a limit nobody looks at the clock.
Tick ==
  /\ globs.timeout > 0
  /\ now < MaxTime
  /\ now' = now + 1
  /\ UNCHANGED <<engine, proc, unread, intr, globs>>

\* The handler is there from the first command on.
Interrupt ==
  /\ \E c \in Commands : proc[c].state # "new"
  /\ intr' = TRUE
  /\ UNCHANGED <<engine, proc, unread, now, globs>>

Engine ==
  \/ ExecCmd \/ ExecWait \/ TryWait \/ ReadOutput \/ TryKillOne \/ Report \/ ExecReturn

Next == \/ Engine \/ ExecWaitIdle \/ Tick \/ Interrupt
        \/ \E c \in Commands : Write(c) \/ \E end \in Ends : Exit(c, end)

Spec == Init /\ [][Next]_vars

\* The engine runs whenever it can and time passes; nothing is assumed of
\* the commands, which may hang.
FairSpec == Spec /\ WF_vars(Engine) /\ WF_vars(Tick)

-----------------------------------------------------------------------------
(***************************************************************************)
(* Properties.                                                             *)
(***************************************************************************)

\* c has had its time, or Half: there the carry between the halves of the
\* difference is lost (execnt.c:759), and the running time of a command that
\* has run for 214 seconds can come out as thousands of years.
Overdue(c) ==
  /\ globs.timeout > 0
  /\ now - proc[c].started > globs.timeout \/ now - proc[c].started >= Half

(***************************************************************************)
(* A command is reported after it has ended, with its own status unless    *)
(* there was an interrupt and, unless the time limit caught it, as ended   *)
(* by itself and with all that it has written, although the slot's last    *)
(* command may have been killed and pipes are read only between two waits  *)
(* (execnt.c:505-512, 556-560, 592).                                       *)
(***************************************************************************)
ReportsTrue ==
  \A c \in Commands :
    LET state == proc[c].state
    IN  told[c] # None =>
          /\ state \notin {"new", "run"}
          /\ told[c].status = "ok" => state = "ok"
          /\ told[c].status = "fail" => state # "ok"
          /\ state = "stopped" => told[c].reason = "EXIT_TIMEOUT"
          /\ told[c].reason = "EXIT_OK" => c \notin lost
          /\ told[c].reason = "EXIT_TIMEOUT" => Overdue(c)

\* The same promise as execunix.c's, whatever the order of the commands'
\* ends; a report that says "interrupted" stands for the outcome it hides.
Outcome(state) == IF state \in {"new", "run"} THEN "none" ELSE IF state = "ok" THEN "ok" ELSE "fail"

Promise == INSTANCE Execution WITH
  jobs    <- globs.jobs,
  started <- {c \in Commands : proc[c].state # "new"},
  outcome <- [c \in Commands |-> Outcome(proc[c].state)],
  told    <- [c \in Commands |-> IF told[c].status = "intr" THEN Outcome(proc[c].state)
                                 ELSE told[c].status],
  waiting <- pc # "make1",
  heard   <- pc = "return"

ImplementsExecution == Promise!Spec

(***************************************************************************)
(* "Check if a command ran out of time, and kills it": every command is    *)
(* stopped in the end, or ends before, and is reported, although only the  *)
(* first of the runaways is killed at a time, and only when no other       *)
(* command has ended (execnt.c:503-514, 971).                              *)
(***************************************************************************)
LimitEnforced ==
  \A c \in Commands :
    globs.timeout > 0 /\ proc[c].state # "new" ~> told[c].status # "none"

(***************************************************************************)
(* No command is killed before its time, in the arithmetic that execnt.c   *)
(* does on halves of a FILETIME, except that a limit beyond Half may end   *)
(* at Half.                                                                *)
(***************************************************************************)
LimitKept ==
  [][\A c \in Commands :
       proc[c].state = "run" /\ proc'[c].state = "stopped" => Overdue(c)]_vars
=============================================================================
