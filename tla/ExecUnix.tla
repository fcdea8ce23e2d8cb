------------------------------ MODULE ExecUnix ------------------------------
(***************************************************************************)
(* execunix.c: exec_cmd() starts a command in a free slot of cmdtab, with  *)
(* one pipe, or two with -p, for its output; exec_wait() selects on the    *)
(* pipes, reaps the command whose pipe is at its end and reports it, and   *)
(* kills the process group of a command that has used up its -l seconds.   *)
(*                                                                         *)
(* The engine is one thread; the commands, the processes they leave behind *)
(* and the clock move between any two of its system calls.  pc says before *)
(* which one it is.  A slot's number counts from 1, and so does a command, *)
(* so that pid 0 still means a free slot.                                  *)
(***************************************************************************)
EXTENDS Integers, FiniteSets, FiniteSetsExt

CONSTANTS
  NumCommands,  \* bound: the most commands a build has
  MAXJOBS,      \* slots
  Options,      \* command lines: jobs (-j), limit (-l given), pipes (-p1 to
                \* -p3), and the commands that make1() has then to run
  Detaches      \* whether a command may close its output and go on running

Commands == 1..NumCommands

\* jam.c accepts any -j but 0; outside 1..MAXJOBS the loops leave the table.
ASSUME ExecUnixAssumption ==
  /\ NumCommands \in Nat
  /\ MAXJOBS \in Nat \ {0}
  /\ Options \subseteq [jobs : 1..MAXJOBS, limit : BOOLEAN, pipes : BOOLEAN,
                    commands : 0..NumCommands]
  /\ Detaches \in BOOLEAN

VARIABLES
  pc,           \* where the engine is: see PCs
  launching,    \* exec_wait() was called by exec_cmd()
  cmdtab,       \* of each slot: pid, fd (those that are open), exit_reason
  cmdsrunning,
  i,            \* exec_wait()'s slot
  ready,        \* what select() left in fds
  eof,          \* exec_wait()'s out and err
  finished,     \* exec_wait()'s
  proc,         \* of each command: the state of its leader, and the pipes
                \* that it, or a process of its group, holds open
  unread,       \* pipes with output nobody has read
  overdue,      \* commands that have used up their time
  told,         \* ghost: status and exit reason func was called with
  lost,         \* ghost: commands some of whose output was thrown away
  globs         \* the command line, the same for the whole run

engine == <<pc, launching, cmdtab, cmdsrunning, i, ready, eof, finished, told, lost>>
world  == <<proc, unread, overdue>>
vars   == <<engine, world, globs>>

Streams == {"OUT", "ERR"}
PCs     == {"make1", "wait", "select", "out", "err", "feof", "waitpid", "return"}
Reasons == {"EXIT_OK", "EXIT_FAIL", "EXIT_TIMEOUT"}
Ends    == {"ok", "fail", "signal"}       \* how a command ends by itself
Leader  == {"new", "run", "stopped"} \cup Ends
None    == [status |-> "none", reason |-> "EXIT_OK"]

TypeOK ==
  /\ pc \in PCs
  /\ launching \in BOOLEAN /\ finished \in BOOLEAN
  /\ cmdtab \in [1..MAXJOBS -> [pid : 0..NumCommands, fd : SUBSET Streams, exit_reason : Reasons]]
  /\ cmdsrunning \in 0..MAXJOBS
  /\ i \in 1..MAXJOBS
  /\ ready \subseteq (1..MAXJOBS) \X Streams
  /\ eof \subseteq Streams
  /\ proc \in [Commands -> [state : Leader, holds : SUBSET Streams]]
  /\ unread \subseteq Commands \X Streams
  /\ overdue \subseteq Commands
  /\ told \in [Commands -> [status : {"none", "ok", "fail"}, reason : Reasons]]
  /\ lost \subseteq Commands
  /\ globs \in Options

Init ==
  /\ pc = "make1"
  /\ launching = FALSE
  /\ cmdtab = [s \in 1..MAXJOBS |-> [pid |-> 0, fd |-> {}, exit_reason |-> "EXIT_OK"]]
  /\ cmdsrunning = 0
  /\ i = 1
  /\ ready = {} /\ eof = {}
  /\ finished = FALSE
  /\ proc = [c \in Commands |-> [state |-> "new", holds |-> {}]]
  /\ unread = {}
  /\ overdue = {}
  /\ told = [c \in Commands |-> None]
  /\ lost = {}
  /\ globs \in Options

-----------------------------------------------------------------------------
(***************************************************************************)
(* exec_cmd().                                                             *)
(***************************************************************************)

\* The pipes of a command: without -p its stderr goes where its stdout goes.
Pipes == IF globs.pipes THEN Streams ELSE {"OUT"}

FreeSlots == {s \in 1..MAXJOBS : cmdtab[s].pid = 0}

\* Mutant: the table is searched from its end.
LastFree == Max(FreeSlots)

Slot == Min(FreeSlots)

\* Mutant: one command too many is let in.
LimitPassed(n) == n > globs.jobs

\* With n commands running, no further one may be started.
Limit(n) == n >= MAXJOBS \/ n >= globs.jobs

\* The commands are alike: make1() hands them over in their order.
ExecCmd ==
  /\ pc = "make1"
  /\ FreeSlots # {}
  /\ \E c \in 1..globs.commands :
       /\ proc[c].state = "new"
       /\ \A d \in 1..(c - 1) : proc[d].state # "new"
       /\ proc' = [proc EXCEPT ![c] = [state |-> "run", holds |-> Pipes]]
       /\ cmdtab' = [cmdtab EXCEPT ![Slot].pid = c, ![Slot].fd = Pipes]
  /\ cmdsrunning' = cmdsrunning + 1
  /\ pc' = IF Limit(cmdsrunning + 1) THEN "wait" ELSE "make1"
  /\ launching' = Limit(cmdsrunning + 1)
  /\ UNCHANGED <<i, ready, eof, finished, unread, overdue, told, lost, globs>>

-----------------------------------------------------------------------------
(***************************************************************************)
(* exec_wait().                                                            *)
(***************************************************************************)

\* make1() calls it when it has nothing else to do.
ExecWait ==
  /\ pc = "make1"
  /\ cmdsrunning # 0
  /\ pc' = "wait"
  /\ launching' = FALSE
  /\ UNCHANGED <<cmdtab, cmdsrunning, i, ready, eof, finished, told, lost, world, globs>>

\* It returns 0 to a make1() that does not know whether commands are running.
ExecWaitIdle ==
  /\ pc = "make1"
  /\ cmdsrunning = 0
  /\ UNCHANGED vars

\* Mutant: only the leader of the group is killed.
KillLeader(p) == [p EXCEPT !.state = IF @ = "run" THEN "stopped" ELSE @,
                           !.holds = IF p.state = "run" THEN {} ELSE @]

\* killpg(): the group's processes end, and so do their ends of the pipes.
KillGroup(p) == [state |-> IF p.state = "run" THEN "stopped" ELSE p.state, holds |-> {}]

\* populate_file_descriptors(): slots whose command is overdue.
Expired == {s \in 1..globs.jobs : globs.limit /\ cmdtab[s].pid \in overdue}

PopulateFileDescriptors ==
  /\ pc = "wait"
  /\ proc' = [c \in Commands |-> IF \E s \in Expired : cmdtab[s].pid = c
                                 THEN KillGroup(proc[c]) ELSE proc[c]]
  /\ cmdtab' = [s \in 1..MAXJOBS |-> IF s \in Expired
                                     THEN [cmdtab[s] EXCEPT !.exit_reason = "EXIT_TIMEOUT"]
                                     ELSE cmdtab[s]]
  /\ pc' = "select"
  /\ UNCHANGED <<launching, cmdsrunning, i, ready, eof, finished, unread, overdue,
                 told, lost, globs>>

\* Mutant: the leader's end is taken for the pipe's.
LeaderEnded(c, s) == proc[c].state # "run"

\* A pipe is at its end when no process holds its other end.
AtEnd(c, s) == s \notin proc[c].holds

Readable == {x \in (1..globs.jobs) \X Streams :
               /\ x[2] \in cmdtab[x[1]].fd
               /\ \/ <<cmdtab[x[1]].pid, x[2]>> \in unread
                  \/ AtEnd(cmdtab[x[1]].pid, x[2])}

Select ==
  /\ pc = "select"
  /\ Readable # {}
  /\ ready' = Readable
  /\ i' = 1
  /\ eof' = {}
  /\ pc' = "out"
  /\ UNCHANGED <<launching, cmdtab, cmdsrunning, finished, told, lost, world, globs>>

\* With a limit, select() waits no longer than the first command may still run.
SelectTimeout ==
  /\ pc = "select"
  /\ globs.limit
  /\ Readable = {}
  /\ pc' = "wait"
  /\ UNCHANGED <<launching, cmdtab, cmdsrunning, i, ready, eof, finished, told,
                 lost, world, globs>>

\* read_descriptor() reads what there is, and sees whether that was all.
ReadDescriptor(s) ==
  LET c == cmdtab[i].pid
  IN  IF <<i, s>> \in ready
      THEN /\ unread' = unread \ {<<c, s>>}
           /\ eof' = IF AtEnd(c, s) THEN eof \cup {s} ELSE eof
      ELSE UNCHANGED <<unread, eof>>

ReadOut ==
  /\ pc = "out"
  /\ ReadDescriptor("OUT")
  /\ pc' = IF globs.pipes THEN "err" ELSE "feof"
  /\ UNCHANGED <<launching, cmdtab, cmdsrunning, i, ready, finished, proc, overdue,
                 told, lost, globs>>

ReadErr ==
  /\ pc = "err"
  /\ ReadDescriptor("ERR")
  /\ pc' = "feof"
  /\ UNCHANGED <<launching, cmdtab, cmdsrunning, i, ready, finished, proc, overdue,
                 told, lost, globs>>

\* Mutant: the loop goes one slot too far.
SlotPastLast(done) ==
  /\ eof' = {}
  /\ IF i <= globs.jobs
     THEN /\ i' = i + 1 /\ pc' = "out"
          /\ UNCHANGED ready
     ELSE /\ i' = 1 /\ pc' = IF done THEN "return" ELSE "wait"
          /\ ready' = {}

\* The next slot, or the end of the loop over them.
NextSlot(done) ==
  /\ eof' = {}
  /\ IF i < globs.jobs
     THEN /\ i' = i + 1 /\ pc' = "out"
          /\ UNCHANGED ready
     ELSE /\ i' = 1 /\ pc' = IF done THEN "return" ELSE "wait"
          /\ ready' = {}

\* Neither stream is at its end.
NotDone ==
  /\ pc = "feof"
  /\ eof = {}
  /\ NextSlot(finished)
  /\ UNCHANGED <<launching, cmdtab, cmdsrunning, finished, told, lost, world, globs>>

\* Either is: both are closed, whatever the other still holds.
CloseStreams ==
  /\ pc = "feof"
  /\ eof # {}
  /\ LET c    == cmdtab[i].pid
         left == {s \in Pipes : <<c, s>> \in unread}
     IN  /\ lost' = IF left = {} THEN lost ELSE lost \cup {c}
         /\ unread' = unread \ ({c} \X left)
  /\ cmdtab' = [cmdtab EXCEPT ![i].fd = {}]
  /\ pc' = "waitpid"
  /\ UNCHANGED <<launching, cmdsrunning, i, ready, eof, finished, proc, overdue,
                 told, globs>>

\* Mutant: a command that did not exit by itself has failed.
ReasonExited(state, reason) == IF state = "ok" THEN "EXIT_OK" ELSE "EXIT_FAIL"

\* The exit reason, that of the slot unless the command exited by itself.
Reason(state, reason) ==
  CASE state = "ok"   -> "EXIT_OK"
    [] state = "fail" -> "EXIT_FAIL"
    [] OTHER          -> reason

\* waitpid() blocks until the leader has ended; then it is reported.
Reap ==
  /\ pc = "waitpid"
  /\ LET c      == cmdtab[i].pid
         state  == proc[c].state
         reason == Reason(state, cmdtab[i].exit_reason)
     IN  /\ state # "run"
         /\ cmdtab' = [cmdtab EXCEPT ![i].pid = 0, ![i].exit_reason = reason]
         /\ told' = [told EXCEPT ![c] = [status |-> IF state = "ok" THEN "ok" ELSE "fail",
                                         reason |-> reason]]
         /\ proc' = [proc EXCEPT ![c].holds = {}]  \* no matter from now on
         /\ overdue' = overdue \ {c}
  /\ cmdsrunning' = cmdsrunning - 1
  /\ finished' = TRUE
  /\ NextSlot(TRUE)
  /\ UNCHANGED <<launching, lost, unread, globs>>

\* exec_wait() returns; exec_cmd() calls it again while the limit is reached.
ExecReturn ==
  /\ pc = "return"
  /\ finished' = FALSE
  /\ pc' = IF launching /\ Limit(cmdsrunning) THEN "wait" ELSE "make1"
  /\ UNCHANGED <<launching, cmdtab, cmdsrunning, i, ready, eof, told, lost, world, globs>>

-----------------------------------------------------------------------------
(***************************************************************************)
(* The commands, and the processes of their groups.                        *)
(***************************************************************************)

\* The engine still has its end of the pipe.
Reading(c, s) == \E k \in 1..MAXJOBS : cmdtab[k].pid = c /\ s \in cmdtab[k].fd

Write(c, s) ==
  /\ s \in proc[c].holds
  /\ Reading(c, s)
  /\ unread' = unread \cup {<<c, s>>}
  /\ UNCHANGED <<engine, proc, overdue, globs>>

\* The leader ends; processes it started may still hold its output.
Exit(c, end, held) ==
  /\ proc[c].state = "run"
  /\ held \subseteq proc[c].holds
  /\ proc' = [proc EXCEPT ![c] = [state |-> end, holds |-> held]]
  /\ UNCHANGED <<engine, unread, overdue, globs>>

\* The processes left behind close a stream, or a running command does.
Close(c, s) ==
  /\ s \in proc[c].holds
  /\ proc[c].state # "run" \/ Detaches
  /\ proc' = [proc EXCEPT ![c].holds = @ \ {s}]
  /\ UNCHANGED <<engine, unread, overdue, globs>>

\* The time of a command that has a slot is up.
TimeUp(c) ==
  /\ globs.limit
  /\ c \notin overdue
  /\ \E k \in 1..MAXJOBS : cmdtab[k].pid = c
  /\ overdue' = overdue \cup {c}
  /\ UNCHANGED <<engine, proc, unread, globs>>

Engine ==
  \/ ExecCmd \/ ExecWait \/ PopulateFileDescriptors \/ Select \/ SelectTimeout
  \/ ReadOut \/ ReadErr \/ NotDone \/ CloseStreams \/ Reap \/ ExecReturn

Group(c) ==
  \/ \E s \in Streams : Write(c, s) \/ Close(c, s)
  \/ \E end \in Ends, held \in SUBSET Streams : Exit(c, end, held)
  \/ TimeUp(c)

Next == Engine \/ ExecWaitIdle \/ \E c \in Commands : Group(c)

Spec == Init /\ [][Next]_vars

\* The engine runs whenever it can and time passes; nothing is assumed of
\* the commands, which may hang.
FairSpec == /\ Spec
            /\ WF_vars(Engine)
            /\ \A c \in Commands : WF_vars(TimeUp(c))

-----------------------------------------------------------------------------
(***************************************************************************)
(* Properties.                                                             *)
(***************************************************************************)

\* exec_cmd() takes the first free slot of MAXJOBS, while exec_wait() looks
\* at the first -j only (execunix.c:129 and 394, 475).  No command is ever in
\* a slot that is not looked at, none is in two, and exec_cmd() finds one
\* whenever it is called: "no slots for child!" (134) is never reached.
SlotsCovered ==
  /\ pc = "make1" => FreeSlots # {}
  /\ \A s \in 1..MAXJOBS : cmdtab[s].pid # 0 => s <= globs.jobs
  /\ \A s, k \in 1..MAXJOBS : cmdtab[s].pid = cmdtab[k].pid /\ s # k => cmdtab[s].pid = 0

\* Without -p, all that a command and those it leaves behind write to the
\* pipe is in the buffer when it is reported (execunix.c:344-368, 489).
NothingLost == ~globs.pipes => lost = {}

\* A command is reported after it has ended and with its own status; what
\* it exited with, or that the time limit stopped it, is what is printed of
\* it, though another command's exit reason is in the slot before
\* (execunix.c:503-508).
ReportsTrue ==
  \A c \in Commands :
    LET state == proc[c].state
    IN  told[c] # None =>
          /\ state \notin {"new", "run"}
          /\ told[c].status = "ok" <=> state = "ok"
          /\ state # "signal" => told[c].reason =
               CASE state = "ok"   -> "EXIT_OK"
                 [] state = "fail" -> "EXIT_FAIL"
                 [] OTHER          -> "EXIT_TIMEOUT"

\* What make1() relies on of the commands' execution, whatever the order of
\* their ends, of the ends of their pipes and of the time limit.
Outcome(state) == IF state \in {"new", "run"} THEN "none" ELSE IF state = "ok" THEN "ok" ELSE "fail"

Promise == INSTANCE Execution WITH
  jobs    <- globs.jobs,
  started <- {c \in Commands : proc[c].state # "new"},
  outcome <- [c \in Commands |-> Outcome(proc[c].state)],
  told    <- [c \in Commands |-> told[c].status],
  waiting <- pc # "make1",
  heard   <- finished

ImplementsExecution == Promise!Spec

\* With -l every command is stopped in the end, or ends before, and is
\* reported, whatever its processes do with their time (execunix.c:410-420).
LimitEnforced ==
  \A c \in Commands :
    globs.limit /\ proc[c].state # "new" ~> told[c] # None
=============================================================================
