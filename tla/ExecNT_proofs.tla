--------------------------- MODULE ExecNT_proofs ---------------------------
(***************************************************************************)
(* Theorems about exec_cmd() and exec_wait() on Windows, for any number of *)
(* commands and of slots, every -j up to their number, every time limit    *)
(* and every width of the halves of a FILETIME.                            *)
(***************************************************************************)
EXTENDS ExecNT, TLAPS, FiniteSetTheorems, WellFoundedInduction

\* Slots in use, and commands started and not yet reported.
Used == {s \in 1..MAXJOBS : cmdtab[s].hProcess # 0}
Live == {c \in Commands : proc[c].state # "new" /\ told[c].status = "none"}

\* cmdsrunning counts both.
Counted ==
  /\ cmdsrunning = Cardinality(Used)
  /\ cmdsrunning = Cardinality(Live)

\* The slots in use are among the first -j, and each has a live command of
\* its own.
Placed ==
  /\ Used \subseteq 1..globs.jobs
  /\ \A s \in Used : cmdtab[s].hProcess \in Live
  /\ \A s, u \in Used : cmdtab[s].hProcess = cmdtab[u].hProcess => s = u

\* Only commands that have ended are reported, and nothing is known of others.
Told ==
  \A c \in Commands : IF told[c].status = "none" THEN told[c] = None
                      ELSE proc[c].state \notin {"new", "run"}

\* The engine waits whenever the limit is reached.
Bounded ==
  /\ cmdsrunning <= globs.jobs
  /\ pc \in {"make1", "return"} => cmdsrunning < globs.jobs

\* The slot that exec_wait() has found is of a command that has ended.
Due ==
  /\ i # 0 => i \in Used /\ proc[cmdtab[i].hProcess].state \notin {"new", "run"}
  /\ pc = "report" => i # 0
  /\ pc \notin {"read_output", "report"} => i = 0

IInv == TypeOK /\ Counted /\ Placed /\ Told /\ Bounded /\ Due

Slots == [hProcess : 0..NumCommands, exit_reason : Reasons]
Procs == [state : {"new", "run", "stopped"} \cup Ends, started : Nat]

-----------------------------------------------------------------------------
(***************************************************************************)
(* Slots.                                                                  *)
(***************************************************************************)

\* A set of numbers that is not empty has a least element, Min of it.
LEMMA MinIsLeast ==
  ASSUME NEW S, S \subseteq Nat, S # {}
  PROVE  Min(S) \in S /\ \A y \in S : Min(S) <= y
<1> DEFINE R == {xy \in Nat \X Nat : xy[1] < xy[2]}
<1>1. IsWellFoundedOn(R, Nat)
  BY NatLessThanWellFounded DEF OpToRel
<1>2. \A x, y \in Nat : <<x, y>> \in R <=> x < y
  OBVIOUS
<1> HIDE DEF R
<1>3. PICK x \in S : \A y \in S : ~(<<y, x>> \in R)
  BY <1>1, WFMin
<1>4. ASSUME NEW y \in S PROVE x <= y
  <2>1. x \in Nat /\ y \in Nat
    OBVIOUS
  <2>2. ~(y < x)
    BY <1>2, <1>3, <2>1
  <2> QED
    BY <2>1, <2>2
<1>5. \E z \in S : \A y \in S : z =< y
  BY <1>4
<1> QED
  BY <1>5 DEF Min

LEMMA Types ==
  ASSUME TypeOK
  PROVE  /\ globs.jobs \in 1..MAXJOBS /\ globs.jobs \in Nat
         /\ MAXJOBS \in Nat /\ NumCommands \in Nat
         /\ globs.timeout \in Nat /\ globs.commands \in 0..NumCommands
         /\ i \in Nat /\ k \in Nat /\ cmdsrunning \in Nat
<1>1. /\ globs \in [jobs : 1..MAXJOBS, timeout : Nat, commands : 0..NumCommands]
      /\ MAXJOBS \in Nat /\ NumCommands \in Nat
  BY ExecNTAssumption DEF TypeOK
<1>2. globs.jobs \in 1..MAXJOBS /\ globs.timeout \in Nat /\ globs.commands \in 0..NumCommands
  BY <1>1
<1> QED
  BY <1>1, <1>2 DEF TypeOK

LEMMA Finiteness ==
  ASSUME TypeOK
  PROVE  IsFiniteSet(Used) /\ IsFiniteSet(Live)
<1>1. IsFiniteSet(1..MAXJOBS) /\ IsFiniteSet(1..NumCommands)
  BY Types, FS_Interval
<1>2. Used \in SUBSET (1..MAXJOBS) /\ Live \in SUBSET (1..NumCommands)
  BY DEF Used, Live, Commands
<1> QED
  BY <1>1, <1>2, FS_Subset

\* Below the limit the first free slot is one exec_wait() looks at.
LEMMA SlotIsServed ==
  ASSUME IInv, cmdsrunning < globs.jobs
  PROVE  Slot \in 1..globs.jobs /\ Slot \in 1..MAXJOBS /\ Slot \notin Used
<1>0. /\ TypeOK /\ Counted /\ Placed
      /\ globs.jobs \in Nat /\ globs.jobs \in 1..MAXJOBS /\ MAXJOBS \in Nat
  BY Types DEF IInv
<1>1. PICK s \in 1..globs.jobs : s \notin Used
  <2>1. SUFFICES ASSUME 1..globs.jobs \subseteq Used PROVE FALSE
    OBVIOUS
  <2>2. Used = 1..globs.jobs
    BY <1>0, <2>1 DEF Placed
  <2>3. Cardinality(1..globs.jobs) = globs.jobs
    <3>1. globs.jobs \in Nat
      BY <1>0
    <3> QED
      BY ONLY <3>1, FS_Interval
  <2>4. cmdsrunning = globs.jobs
    BY <1>0, <2>2, <2>3 DEF Counted
  <2> QED
    BY <1>0, <2>4
<1>2. s \in FreeSlots
  BY <1>0, <1>1 DEF Used, FreeSlots
<1>3. FreeSlots \subseteq Nat /\ FreeSlots # {}
  BY <1>2 DEF FreeSlots
<1>4. Slot \in FreeSlots /\ Slot <= s
  BY <1>2, <1>3, MinIsLeast DEF Slot
<1>5. Slot \in 1..MAXJOBS /\ cmdtab[Slot].hProcess = 0
  BY <1>4 DEF FreeSlots
<1> QED
  BY <1>0, <1>1, <1>4, <1>5 DEF Used

\* The slot that try_kill_one() takes.
LEMMA RunawayIsUsed ==
  ASSUME IInv, Runaways # {}
  PROVE  /\ Min(Runaways) \in Used /\ Min(Runaways) \in 1..globs.jobs
         /\ Min(Runaways) \in 1..MAXJOBS
         /\ globs.timeout > 0
         /\ cmdtab[Min(Runaways)].hProcess \in Live
         /\ cmdtab[Min(Runaways)].hProcess \in Commands
         /\ RunningTime(cmdtab[Min(Runaways)].hProcess) > globs.timeout
<1>0. TypeOK /\ Placed /\ globs.jobs \in 1..MAXJOBS /\ MAXJOBS \in Nat
  BY Types DEF IInv
<1>1. Runaways \subseteq Nat
  BY DEF Runaways
<1>2. Min(Runaways) \in Runaways
  BY <1>1, MinIsLeast
<1>3. Min(Runaways) \in 1..globs.jobs /\ Overran(Min(Runaways))
  BY <1>2 DEF Runaways
<1>4. Min(Runaways) \in 1..MAXJOBS /\ Min(Runaways) \in Used
  BY <1>0, <1>3 DEF Overran, Used
<1> QED
  BY <1>0, <1>3, <1>4 DEF Overran, Placed, Live

-----------------------------------------------------------------------------
(***************************************************************************)
(* The type of every variable, and the initial states.                     *)
(***************************************************************************)

LEMMA InitInv == Init => IInv
<1> SUFFICES ASSUME Init PROVE IInv
  OBVIOUS
<1>1. TypeOK
  <2>1. 0 \in 0..NumCommands /\ 0 \in 0..MAXJOBS
    BY ExecNTAssumption
  <2>2. globs.jobs \in 1..MAXJOBS /\ MAXJOBS \in Nat
    BY ExecNTAssumption DEF Init
  <2>3. i \in 0..globs.jobs /\ k \in 1..globs.jobs
    BY <2>2 DEF Init
  <2>4. cmdtab \in [1..MAXJOBS -> [hProcess : 0..NumCommands, exit_reason : Reasons]]
    BY <2>1 DEF Init, Free, Reasons
  <2>5. proc \in [Commands -> [state : {"new", "run", "stopped"} \cup Ends, started : Nat]]
    BY DEF Init
  <2>6. told \in [Commands -> [status : {"none", "ok", "fail", "intr"}, reason : Reasons]]
    BY DEF Init, None, Reasons
  <2> QED
    BY <2>1, <2>3, <2>4, <2>5, <2>6 DEF Init, TypeOK, PCs
<1>2. Used = {} /\ Live = {}
  BY DEF Init, Used, Live, Free
<1>3. Counted
  BY <1>2, FS_EmptySet DEF Counted, Init
<1>4. Placed
  BY <1>2 DEF Placed
<1>5. Bounded
  BY <1>1, Types DEF Bounded, Init
<1>6. Due
  BY DEF Due, Init
<1>7. Told
  BY DEF Told, Init, None
<1> QED
  BY <1>1, <1>3, <1>4, <1>5, <1>6, <1>7 DEF IInv

LEMMA TypeStep ==
  ASSUME IInv, [Next]_vars
  PROVE  TypeOK'
<1>0. /\ TypeOK /\ Counted /\ Placed /\ Bounded /\ Due
      /\ globs.jobs \in 1..MAXJOBS /\ globs.jobs \in Nat /\ MAXJOBS \in Nat
      /\ i \in Nat /\ k \in Nat /\ cmdsrunning \in Nat
  BY Types DEF IInv
<1>a. /\ pc \in PCs
      /\ launching \in BOOLEAN /\ intr \in BOOLEAN
      /\ cmdtab \in [1..MAXJOBS -> Slots]
      /\ cmdsrunning \in 0..MAXJOBS
      /\ i \in 0..globs.jobs /\ k \in 1..globs.jobs
      /\ proc \in [Commands -> Procs]
      /\ unread \subseteq Commands
      /\ now \in Nat
      /\ told \in [Commands -> [status : {"none", "ok", "fail", "intr"}, reason : Reasons]]
      /\ lost \subseteq Commands
      /\ globs \in Options
  BY <1>0 DEF TypeOK, Slots, Procs
<1>b. /\ \A s \in 1..MAXJOBS : cmdtab[s] \in Slots
      /\ \A c \in Commands : proc[c] \in Procs
  BY <1>a
<1>1. CASE ExecCmd
  <2>1. PICK c \in 1..globs.commands :
          /\ proc' = [proc EXCEPT ![c] = [state |-> "run", started |-> now]]
          /\ cmdtab' = [cmdtab EXCEPT ![Slot].hProcess = c]
    BY <1>1 DEF ExecCmd
  <2>2. c \in 0..NumCommands /\ c \in Commands
    BY <1>0, Types DEF Commands
  <2>3. proc' \in [Commands -> Procs]
    BY <1>a, <2>1, <2>2 DEF Procs
  <2>4. Slot \in 1..MAXJOBS
    BY <1>0, <1>1, SlotIsServed DEF ExecCmd, Bounded
  <2>5. cmdtab' \in [1..MAXJOBS -> Slots]
    BY <1>a, <2>1, <2>2, <2>4 DEF Slots
  <2>6. cmdsrunning' \in 0..MAXJOBS
    BY <1>0, <1>1 DEF ExecCmd, Bounded
  <2>7. pc' \in PCs /\ launching' \in BOOLEAN
    BY <1>1 DEF ExecCmd, PCs, Limit
  <2> QED
    BY <1>a, <1>1, <2>3, <2>5, <2>6, <2>7 DEF ExecCmd, TypeOK, Slots, Procs
<1>2. CASE ExecWait
  BY <1>a, <1>2 DEF ExecWait, TypeOK, PCs, world, Slots, Procs
<1>3. CASE TryWait
  <2>1. i' \in 0..globs.jobs /\ 1 \in 1..globs.jobs
    BY <1>0, <1>3 DEF TryWait, EndedSlots
  <2> QED
    BY <1>a, <1>3, <2>1 DEF TryWait, TypeOK, PCs, world, Slots, Procs
<1>4. CASE ReadOutput
  <2>1. k' \in 1..globs.jobs /\ pc' \in PCs
    BY <1>0, <1>a, <1>4 DEF ReadOutput, MoreSlots, PCs
  <2>2. unread' \subseteq Commands
    BY <1>a, <1>4 DEF ReadOutput
  <2> QED
    BY <1>a, <1>4, <2>1, <2>2 DEF ReadOutput, TypeOK, Slots, Procs
<1>5. CASE TryKillOne
  <2>1. CASE Runaways = {}
    BY <1>a, <1>5, <2>1 DEF TryKillOne, TypeOK, PCs, Slots, Procs
  <2>2. CASE Runaways # {}
    <3> DEFINE s == Min(Runaways)
               c == cmdtab[s].hProcess
    <3>1. s \in 1..MAXJOBS /\ s \in 0..globs.jobs /\ c \in Commands
      BY <1>0, <2>2, RunawayIsUsed
    <3>2. /\ proc' = [proc EXCEPT ![c] = Killed(@)] /\ i' = s
          /\ cmdtab' = [cmdtab EXCEPT ![s].exit_reason = "EXIT_TIMEOUT"]
      BY <1>5, <2>2 DEF TryKillOne
    <3> HIDE DEF c
    <3>3. Killed(proc[c]) \in Procs
      BY <1>b, <3>1 DEF Killed, Procs
    <3>4. proc' \in [Commands -> Procs]
      BY <1>a, <3>1, <3>2, <3>3
    <3> HIDE DEF s
    <3>5. cmdtab' \in [1..MAXJOBS -> Slots]
      BY <1>a, <3>1, <3>2 DEF Slots, Reasons
    <3> QED
      BY <1>a, <1>5, <2>2, <3>1, <3>2, <3>4, <3>5 DEF TryKillOne, TypeOK, PCs, Slots, Procs
  <2> QED
    BY <2>1, <2>2
<1>6. CASE Report
  <2> DEFINE c == cmdtab[i].hProcess
  <2>1. i \in Used /\ i \in 1..MAXJOBS /\ c \in Commands
    BY <1>0, <1>6 DEF Report, Due, Used, Placed, Live
  <2>2. cmdtab' \in [1..MAXJOBS -> Slots]
    <3>1. Free \in Slots
      BY ExecNTAssumption DEF Free, Slots, Reasons
    <3> QED
      BY <1>a, <1>6, <3>1 DEF Report, Cleared
  <2>3. told' \in [Commands -> [status : {"none", "ok", "fail", "intr"}, reason : Reasons]]
    <3>1. cmdtab[i].exit_reason \in Reasons
      BY <1>b, <2>1 DEF Slots
    <3> QED
      BY <1>a, <1>6, <2>1, <3>1 DEF Report
  <2>4. cmdsrunning' \in 0..MAXJOBS
    <3>1. cmdsrunning # 0
      BY <1>0, <2>1, Finiteness, FS_EmptySet DEF Counted
    <3> QED
      BY <1>0, <1>a, <1>6, <3>1 DEF Report
  <2>5. lost' \subseteq Commands /\ unread' \subseteq Commands
    BY <1>a, <1>6 DEF Report
  <2>6. i' \in 0..globs.jobs
    BY <1>0, <1>6 DEF Report
  <2> QED
    BY <1>a, <1>6, <2>2, <2>3, <2>4, <2>5, <2>6 DEF Report, TypeOK, PCs, Slots, Procs
<1>7. CASE ExecReturn
  BY <1>a, <1>7 DEF ExecReturn, TypeOK, PCs, world, Slots, Procs
<1>8. CASE ExecWaitIdle \/ UNCHANGED vars
  BY <1>a, <1>8 DEF ExecWaitIdle, TypeOK, vars, engine, world, Slots, Procs
<1>9. CASE Tick \/ Interrupt
  <2>1. CASE Tick
    <3>1. now' \in Nat
      BY <1>a, <2>1 DEF Tick
    <3> QED
      BY <1>a, <2>1, <3>1 DEF Tick, TypeOK, engine, Slots, Procs
  <2>2. CASE Interrupt
    BY <1>a, <2>2 DEF Interrupt, TypeOK, engine, Slots, Procs
  <2> QED
    BY <1>9, <2>1, <2>2
<1>10. ASSUME NEW c \in Commands, Write(c) PROVE TypeOK'
  BY <1>a, <1>10 DEF Write, TypeOK, engine, Slots, Procs
<1>11. ASSUME NEW c \in Commands, NEW end \in Ends, Exit(c, end) PROVE TypeOK'
  <2>1. proc' \in [Commands -> Procs]
    BY <1>a, <1>11 DEF Exit, Procs
  <2> QED
    BY <1>a, <1>11, <2>1 DEF Exit, TypeOK, engine, Slots, Procs
<1> QED
  BY <1>1, <1>2, <1>3, <1>4, <1>5, <1>6, <1>7, <1>8, <1>9, <1>10, <1>11 DEF Next, Engine

-----------------------------------------------------------------------------
(***************************************************************************)
(* What the steps do to the slots in use and to the live commands.         *)
(***************************************************************************)

LEMMA LaunchUses ==
  ASSUME IInv, ExecCmd
  PROVE  \E c \in Commands :
           /\ c \notin Live /\ proc[c].state = "new"
           /\ Live' = Live \cup {c} /\ Used' = Used \cup {Slot}
           /\ Slot \notin Used /\ Slot \in 1..globs.jobs /\ Slot \in 1..MAXJOBS
           /\ cmdtab'[Slot].hProcess = c
           /\ cmdtab'[Slot].exit_reason = cmdtab[Slot].exit_reason
           /\ \A s \in 1..MAXJOBS : s # Slot => cmdtab'[s] = cmdtab[s]
           /\ proc'[c] = [state |-> "run", started |-> now]
           /\ \A d \in Commands : d # c => proc'[d] = proc[d]
<1>0. TypeOK /\ Counted /\ Placed /\ Told /\ Bounded
  BY DEF IInv
<1>1. PICK c \in 1..globs.commands :
        /\ proc[c].state = "new"
        /\ proc' = [proc EXCEPT ![c] = [state |-> "run", started |-> now]]
        /\ cmdtab' = [cmdtab EXCEPT ![Slot].hProcess = c]
  BY DEF ExecCmd
<1>2. c \in Commands /\ c # 0
  BY <1>0, Types DEF Commands
<1>3. Slot \in 1..globs.jobs /\ Slot \in 1..MAXJOBS /\ Slot \notin Used
  BY <1>0, SlotIsServed DEF ExecCmd, Bounded
<1>4. /\ cmdtab'[Slot].hProcess = c
      /\ cmdtab'[Slot].exit_reason = cmdtab[Slot].exit_reason
      /\ \A s \in 1..MAXJOBS : s # Slot => cmdtab'[s] = cmdtab[s]
  BY <1>0, <1>1, <1>3 DEF TypeOK
<1>5. Used' = Used \cup {Slot}
  BY <1>2, <1>3, <1>4 DEF Used
<1>6. /\ proc'[c] = [state |-> "run", started |-> now]
      /\ \A d \in Commands : d # c => proc'[d] = proc[d]
  BY <1>0, <1>1, <1>2 DEF TypeOK
<1>7. c \notin Live
  BY <1>1 DEF Live
<1>8. told[c].status = "none"
  BY <1>0, <1>1, <1>2 DEF Told
<1>9. Live' = Live \cup {c}
  BY <1>2, <1>6, <1>8 DEF Live, ExecCmd
<1> QED
  BY <1>1, <1>2, <1>3, <1>4, <1>5, <1>6, <1>7, <1>9

LEMMA ReportFrees ==
  ASSUME IInv, Report
  PROVE  LET c == cmdtab[i].hProcess
         IN  /\ c \in Live /\ c \in Commands /\ i \in Used /\ i \in 1..MAXJOBS
             /\ proc[c].state \notin {"new", "run"}
             /\ Live' = Live \ {c} /\ Used' = Used \ {i}
             /\ cmdtab'[i] = Free
             /\ \A s \in 1..MAXJOBS : s # i => cmdtab'[s] = cmdtab[s]
             /\ told'[c].status = IF intr THEN "intr"
                                  ELSE IF proc[c].state = "ok" THEN "ok" ELSE "fail"
             /\ told'[c].reason = cmdtab[i].exit_reason
             /\ \A d \in Commands : d # c => told'[d] = told[d]
<1> DEFINE c == cmdtab[i].hProcess
<1>0. TypeOK /\ Placed /\ Due
  BY DEF IInv
<1>1. i \in Used /\ i \in 1..MAXJOBS /\ c \in Live /\ c \in Commands
  BY <1>0 DEF Report, Due, Used, Placed, Live
<1>2. proc[c].state \notin {"new", "run"}
  BY <1>0 DEF Report, Due
<1>3. cmdtab'[i] = Free /\ \A s \in 1..MAXJOBS : s # i => cmdtab'[s] = cmdtab[s]
  BY <1>0, <1>1 DEF Report, Cleared, TypeOK
<1>4. Used' = Used \ {i}
  BY <1>1, <1>3 DEF Used, Free
<1>5. /\ told'[c].status = IF intr THEN "intr"
                           ELSE IF proc[c].state = "ok" THEN "ok" ELSE "fail"
      /\ told'[c].reason = cmdtab[i].exit_reason
      /\ \A d \in Commands : d # c => told'[d] = told[d]
  BY <1>0, <1>1 DEF Report, TypeOK
<1>6. Live' = Live \ {c}
  BY <1>1, <1>5 DEF Live, Report
<1> QED
  BY <1>1, <1>2, <1>3, <1>4, <1>5, <1>6

\* try_kill_one() changes one slot and one process, if any.
LEMMA KillMarks ==
  ASSUME IInv, TryKillOne, Runaways # {}
  PROVE  LET s == Min(Runaways)
             c == cmdtab[s].hProcess
         IN  /\ i' = s /\ pc' = "report"
             /\ cmdtab'[s].hProcess = c /\ cmdtab'[s].exit_reason = "EXIT_TIMEOUT"
             /\ \A u \in 1..MAXJOBS : u # s => cmdtab'[u] = cmdtab[u]
             /\ proc'[c] = Killed(proc[c]) /\ proc[c].state # "new"
             /\ proc'[c].started = proc[c].started
             /\ proc'[c].state = IF proc[c].state = "run" THEN "stopped" ELSE proc[c].state
             /\ \A d \in Commands : d # c => proc'[d] = proc[d]
<1> DEFINE s == Min(Runaways)
           c == cmdtab[s].hProcess
<1>0. /\ cmdtab \in [1..MAXJOBS -> Slots] /\ proc \in [Commands -> Procs]
      /\ s \in 1..MAXJOBS /\ c \in Commands /\ c \in Live
  BY RunawayIsUsed DEF IInv, TypeOK, Slots, Procs
<1>1. /\ i' = s /\ pc' = "report"
      /\ proc' = [proc EXCEPT ![c] = Killed(@)]
      /\ cmdtab' = [cmdtab EXCEPT ![s].exit_reason = "EXIT_TIMEOUT"]
  BY DEF TryKillOne
<1>2. proc'[c] = Killed(proc[c]) /\ \A d \in Commands : d # c => proc'[d] = proc[d]
  BY <1>0, <1>1
<1>3. proc[c].state # "new"
  BY <1>0 DEF Live
<1>4. /\ Killed(proc[c]).started = proc[c].started
      /\ Killed(proc[c]).state = IF proc[c].state = "run" THEN "stopped" ELSE proc[c].state
  <2>1. proc[c] \in Procs
    BY <1>0
  <2> QED
    BY <2>1 DEF Killed, Procs
<1> HIDE DEF s
<1>5. /\ cmdtab'[s].hProcess = cmdtab[s].hProcess /\ cmdtab'[s].exit_reason = "EXIT_TIMEOUT"
      /\ \A u \in 1..MAXJOBS : u # s => cmdtab'[u] = cmdtab[u]
  BY <1>0, <1>1 DEF Slots
<1> QED
  BY <1>1, <1>2, <1>3, <1>4, <1>5 DEF s

\* A command does not go back to being new, and starts once.
LEMMA QuietStep ==
  ASSUME IInv, [Next]_vars, ~ExecCmd, ~Report
  PROVE  /\ told' = told /\ cmdsrunning' = cmdsrunning /\ lost' = lost
         /\ \A s \in 1..MAXJOBS : cmdtab'[s].hProcess = cmdtab[s].hProcess
         /\ \A c \in Commands :
              /\ proc'[c].started = proc[c].started
              /\ proc'[c].state = "new" <=> proc[c].state = "new"
              /\ proc'[c].state # proc[c].state =>
                    proc[c].state = "run" /\ proc'[c].state \in {"stopped"} \cup Ends
<1>0. TypeOK
  BY DEF IInv
<1>1. CASE ExecWait \/ TryWait \/ ReadOutput \/ ExecReturn \/ ExecWaitIdle \/ UNCHANGED vars
  BY <1>1 DEF ExecWait, TryWait, ReadOutput, ExecReturn, ExecWaitIdle, vars, engine, world
<1>2. CASE TryKillOne
  <2>1. CASE Runaways = {}
    BY <1>2, <2>1 DEF TryKillOne
  <2>2. CASE Runaways # {}
    <3> DEFINE s == Min(Runaways)
               c == cmdtab[s].hProcess
    <3>1. /\ cmdtab'[s].hProcess = cmdtab[s].hProcess
          /\ \A u \in 1..MAXJOBS : u # s => cmdtab'[u] = cmdtab[u]
          /\ proc[c].state # "new"
          /\ proc'[c].started = proc[c].started
          /\ proc'[c].state = IF proc[c].state = "run" THEN "stopped" ELSE proc[c].state
          /\ \A d \in Commands : d # c => proc'[d] = proc[d]
      BY <1>2, <2>2, KillMarks
    <3>2. told' = told /\ cmdsrunning' = cmdsrunning /\ lost' = lost
      BY <1>2 DEF TryKillOne
    <3> HIDE DEF c, s
    <3> QED
      BY <3>1, <3>2
  <2> QED
    BY <2>1, <2>2
<1>3. CASE Tick \/ Interrupt \/ \E c \in Commands : Write(c)
  BY <1>3 DEF Tick, Interrupt, Write, engine
<1>4. CASE \E c \in Commands, end \in Ends : Exit(c, end)
  BY <1>0, <1>4 DEF Exit, TypeOK, engine, Ends
<1> QED
  BY <1>1, <1>2, <1>3, <1>4 DEF Next, Engine

LEMMA QuietSets ==
  ASSUME IInv, [Next]_vars, ~ExecCmd, ~Report
  PROVE  Used' = Used /\ Live' = Live
<1>1. Used' = Used
  BY QuietStep DEF Used
<1>2. Live' = Live
  BY QuietStep DEF Live
<1> QED
  BY <1>1, <1>2

LEMMA GlobsStep == [Next]_vars => globs' = globs
BY DEF Next, Engine, vars, engine, world, ExecCmd, ExecWait, TryWait, ReadOutput, TryKillOne,
       Report, ExecReturn, ExecWaitIdle, Write, Exit, Tick, Interrupt

-----------------------------------------------------------------------------
(***************************************************************************)
(* The invariant, part by part.                                            *)
(***************************************************************************)

LEMMA CountedStep ==
  ASSUME IInv, [Next]_vars
  PROVE  Counted'
<1>0. TypeOK /\ Counted /\ IsFiniteSet(Used) /\ IsFiniteSet(Live)
  BY Finiteness DEF IInv
<1>1. CASE ExecCmd
  <2>1. PICK c \in Commands : /\ c \notin Live /\ Live' = Live \cup {c}
                              /\ Slot \notin Used /\ Used' = Used \cup {Slot}
    BY <1>1, LaunchUses
  <2>2. Cardinality(Live') = Cardinality(Live) + 1
    BY <1>0, <2>1, FS_AddElement
  <2>3. Cardinality(Used') = Cardinality(Used) + 1
    BY <1>0, <2>1, FS_AddElement
  <2> QED
    BY <1>0, <1>1, <2>2, <2>3 DEF Counted, ExecCmd
<1>2. CASE Report
  <2>1. /\ cmdtab[i].hProcess \in Live /\ Live' = Live \ {cmdtab[i].hProcess}
        /\ i \in Used /\ Used' = Used \ {i}
    BY <1>2, ReportFrees
  <2>2. Cardinality(Live') = Cardinality(Live) - 1
    BY <1>0, <2>1, FS_RemoveElement
  <2>3. Cardinality(Used') = Cardinality(Used) - 1
    BY <1>0, <2>1, FS_RemoveElement
  <2> QED
    BY <1>0, <1>2, <2>2, <2>3 DEF Counted, Report
<1>3. CASE ~ExecCmd /\ ~Report
  <2>1. Used' = Used /\ Live' = Live /\ cmdsrunning' = cmdsrunning
    BY <1>3, QuietSets, QuietStep
  <2> QED
    BY <1>0, <2>1 DEF Counted
<1> QED
  BY <1>1, <1>2, <1>3

LEMMA PlacedStep ==
  ASSUME IInv, [Next]_vars
  PROVE  Placed'
<1>0. /\ TypeOK /\ Placed /\ globs' = globs
      /\ \A s \in Used : s \in 1..MAXJOBS
  BY GlobsStep DEF IInv, Used
<1>1. CASE ExecCmd
  <2>1. PICK c \in Commands :
          /\ c \notin Live /\ Live' = Live \cup {c}
          /\ Slot \notin Used /\ Used' = Used \cup {Slot}
          /\ Slot \in 1..globs.jobs /\ cmdtab'[Slot].hProcess = c
          /\ \A s \in 1..MAXJOBS : s # Slot => cmdtab'[s] = cmdtab[s]
    BY <1>1, LaunchUses
  <2>2. Used' \subseteq 1..globs'.jobs
    BY <1>0, <2>1 DEF Placed
  <2>3. \A s \in Used' : cmdtab'[s].hProcess \in Live'
    BY <1>0, <2>1 DEF Placed
  <2>4. \A s, u \in Used' : cmdtab'[s].hProcess = cmdtab'[u].hProcess => s = u
    BY <1>0, <2>1 DEF Placed
  <2> QED
    BY <2>2, <2>3, <2>4 DEF Placed
<1>2. CASE Report
  <2>1. /\ Live' = Live \ {cmdtab[i].hProcess}
        /\ i \in Used /\ Used' = Used \ {i}
        /\ \A s \in 1..MAXJOBS : s # i => cmdtab'[s] = cmdtab[s]
    BY <1>2, ReportFrees
  <2>2. Used' \subseteq 1..globs'.jobs
    BY <1>0, <2>1 DEF Placed
  <2>3. \A s \in Used' : cmdtab'[s].hProcess \in Live'
    BY <1>0, <2>1 DEF Placed
  <2>4. \A s, u \in Used' : cmdtab'[s].hProcess = cmdtab'[u].hProcess => s = u
    BY <1>0, <2>1 DEF Placed
  <2> QED
    BY <2>2, <2>3, <2>4 DEF Placed
<1>3. CASE ~ExecCmd /\ ~Report
  <2>1. /\ Used' = Used /\ Live' = Live
        /\ \A s \in 1..MAXJOBS : cmdtab'[s].hProcess = cmdtab[s].hProcess
    BY <1>3, QuietSets, QuietStep
  <2> QED
    BY <1>0, <2>1 DEF Placed
<1> QED
  BY <1>1, <1>2, <1>3

LEMMA ToldStep ==
  ASSUME IInv, [Next]_vars
  PROVE  Told'
<1>0. TypeOK /\ Told
  BY DEF IInv
<1>1. CASE ExecCmd
  <2>1. PICK c \in Commands : /\ proc[c].state = "new"
                              /\ \A d \in Commands : d # c => proc'[d] = proc[d]
    BY <1>1, LaunchUses
  <2>2. told' = told
    BY <1>1 DEF ExecCmd
  <2> QED
    BY <1>0, <2>1, <2>2 DEF Told
<1>2. CASE Report
  <2>1. proc' = proc
    BY <1>2 DEF Report
  <2> QED
    BY <1>0, <1>2, <2>1, ReportFrees DEF Told
<1>3. CASE ~ExecCmd /\ ~Report
  BY <1>0, <1>3, QuietStep DEF Told, Ends
<1> QED
  BY <1>1, <1>2, <1>3

LEMMA BoundedStep ==
  ASSUME IInv, [Next]_vars
  PROVE  Bounded'
<1>0. /\ TypeOK /\ Bounded /\ globs' = globs
      /\ globs.jobs \in Nat /\ MAXJOBS \in Nat /\ globs.jobs <= MAXJOBS
      /\ cmdsrunning \in Nat
  BY GlobsStep, Types DEF IInv
<1>1. CASE ExecCmd
  BY <1>0, <1>1 DEF ExecCmd, Bounded, Limit
<1>2. CASE Report
  BY <1>0, <1>2 DEF Report, Bounded
<1>3. CASE ExecReturn
  BY <1>0, <1>3 DEF ExecReturn, Bounded
<1>4. CASE ExecWait \/ TryWait \/ ReadOutput \/ TryKillOne
  BY <1>0, <1>4 DEF ExecWait, TryWait, ReadOutput, TryKillOne, Bounded
<1>5. CASE ExecWaitIdle \/ UNCHANGED vars
  BY <1>0, <1>5 DEF ExecWaitIdle, vars, engine, Bounded
<1>6. CASE \/ Tick \/ Interrupt
           \/ \E c \in Commands : Write(c) \/ \E end \in Ends : Exit(c, end)
  BY <1>0, <1>6 DEF Tick, Interrupt, Write, Exit, engine, Bounded
<1> QED
  BY <1>1, <1>2, <1>3, <1>4, <1>5, <1>6 DEF Next, Engine

LEMMA DueStep ==
  ASSUME IInv, [Next]_vars
  PROVE  Due'
<1>0. /\ TypeOK /\ Placed /\ Due /\ globs' = globs
      /\ globs.jobs \in Nat /\ MAXJOBS \in Nat /\ globs.jobs <= MAXJOBS
  BY GlobsStep, Types DEF IInv
<1>1. CASE ExecCmd \/ ExecWait \/ Report \/ ExecReturn
  <2>1. i' = 0 /\ pc' # "report"
    BY <1>0, <1>1 DEF ExecCmd, ExecWait, Report, ExecReturn, Due
  <2> QED
    BY <2>1 DEF Due
<1>2. CASE TryWait
  <2>1. pc' = "read_output" /\ proc' = proc /\ cmdtab' = cmdtab
    BY <1>2 DEF TryWait, world
  <2>2. i' # 0 => i' \in EndedSlots
    BY <1>2 DEF TryWait
  <2>3. ASSUME i' # 0 PROVE i' \in Used /\ proc[cmdtab[i'].hProcess].state # "run"
    BY <1>0, <2>2, <2>3 DEF EndedSlots, Used
  <2>4. i' # 0 => proc[cmdtab[i'].hProcess].state # "new"
    BY <1>0, <2>3 DEF Placed, Live
  <2>5. Used' = Used
    BY <2>1 DEF Used
  <2> QED
    BY <2>1, <2>3, <2>4, <2>5 DEF Due
<1>3. CASE ReadOutput
  <2>1. /\ proc' = proc /\ cmdtab' = cmdtab /\ i' = i /\ pc = "read_output"
        /\ pc' \in {"read_output", "try_kill_one", "report"}
        /\ pc' = "try_kill_one" => i = 0
        /\ pc' = "report" => i # 0
    BY <1>3 DEF ReadOutput
  <2>2. Used' = Used
    BY <2>1 DEF Used
  <2> QED
    BY <1>0, <2>1, <2>2 DEF Due
<1>4. CASE TryKillOne
  <2>1. CASE Runaways = {}
    <3>1. pc' = "try_wait" /\ i' = 0
      BY <1>0, <1>4, <2>1 DEF TryKillOne, Due
    <3> QED
      BY <3>1 DEF Due
  <2>2. CASE Runaways # {}
    <3> DEFINE s == Min(Runaways)
               c == cmdtab[s].hProcess
    <3>1. s \in Used /\ s \in 1..globs.jobs
      BY <2>2, RunawayIsUsed DEF IInv
    <3>2. /\ i' = s /\ pc' = "report" /\ cmdtab'[s].hProcess = c
          /\ proc[c].state # "new"
          /\ proc'[c].state = IF proc[c].state = "run" THEN "stopped" ELSE proc[c].state
      BY <1>4, <2>2, KillMarks
    <3>3. Used' = Used
      BY <1>4, QuietSets DEF TryKillOne, ExecCmd, Report, Next, Engine
    <3> HIDE DEF s
    <3> QED
      BY <1>0, <3>1, <3>2, <3>3 DEF Due
  <2> QED
    BY <2>1, <2>2
<1>5. CASE ExecWaitIdle \/ Tick \/ Interrupt \/ UNCHANGED vars \/ \E c \in Commands : Write(c)
  <2>1. UNCHANGED <<pc, i, cmdtab, proc>>
    BY <1>5 DEF ExecWaitIdle, Tick, Interrupt, Write, vars, engine, world
  <2> QED
    BY <1>0, <2>1 DEF Due, Used
<1>6. CASE \E c \in Commands, end \in Ends : Exit(c, end)
  <2>1. UNCHANGED <<pc, i, cmdtab>>
    BY <1>6 DEF Exit, engine
  <2>2. \A c \in Commands : proc'[c].state # proc[c].state => proc[c].state = "run"
    BY <1>0, <1>6 DEF Exit, TypeOK
  <2>3. i # 0 => cmdtab[i].hProcess \in Commands
    BY <1>0 DEF Due, Placed, Live
  <2> QED
    BY <1>0, <2>1, <2>2, <2>3 DEF Due, Used
<1> QED
  BY <1>1, <1>2, <1>3, <1>4, <1>5, <1>6 DEF Next, Engine

LEMMA InvStep == IInv /\ [Next]_vars => IInv'
BY TypeStep, CountedStep, PlacedStep, ToldStep, BoundedStep, DueStep DEF IInv

LEMMA Invariance == Spec => []IInv
BY InitInv, InvStep, PTL DEF Spec

\* Every variable keeps its type: no -j up to the number of slots, and no
\* order of ends, expiries and interrupts, makes the loops leave cmdtab.
THEOREM TablesKept == Spec => []TypeOK
BY Invariance, PTL DEF IInv

-----------------------------------------------------------------------------
(***************************************************************************)
(* Every step of execnt.c is a step of Execution, or changes nothing that  *)
(* make1() relies on.                                                      *)
(***************************************************************************)

\* What Execution sees of a report.
Status(c) == IF told[c].status = "intr" THEN Outcome(proc[c].state) ELSE told[c].status

\* Execution counts as this module does.
LEMMA SameCardinality == \A S : Promise!Cardinality(S) = Cardinality(S)
BY Zenon DEF Promise!Cardinality, Cardinality

LEMMA LiveIsRunning ==
  ASSUME TypeOK, Told
  PROVE  Promise!Running = Live
BY DEF Promise!Running, Live, Told, TypeOK, Outcome

LEMMA InitRefines == Init => Promise!Init
<1> SUFFICES ASSUME Init PROVE Promise!Init
  OBVIOUS
<1>1. globs.jobs \in Nat \ {0}
  <2>1. TypeOK
    BY InitInv DEF IInv
  <2> QED
    BY <2>1, Types
<1>2. [c \in Commands |-> Outcome(proc[c].state)] = [c \in Commands |-> "none"]
  BY DEF Init, Outcome
<1>3. [c \in Commands |-> IF told[c].status = "intr" THEN Outcome(proc[c].state)
                          ELSE told[c].status] = [c \in Commands |-> "none"]
  BY DEF Init, None
<1>4. {c \in Commands : proc[c].state # "new"} = {}
  BY DEF Init
<1> QED
  BY <1>1, <1>2, <1>3, <1>4 DEF Promise!Init, Init

LEMMA StepRefines ==
  ASSUME IInv, [Next]_vars
  PROVE  [Promise!Next]_Promise!vars
<1> DEFINE started == {c \in Commands : proc[c].state # "new"}
           outcome == [c \in Commands |-> Outcome(proc[c].state)]
           status  == [c \in Commands |-> IF told[c].status = "intr" THEN Outcome(proc[c].state)
                                          ELSE told[c].status]
<1>0. /\ TypeOK /\ Counted /\ Told /\ Bounded /\ globs' = globs
      /\ globs.jobs \in Nat /\ MAXJOBS \in Nat /\ globs.jobs <= MAXJOBS
      /\ IsFiniteSet(Live) /\ cmdsrunning \in Nat
  BY GlobsStep, Types, Finiteness DEF IInv
<1>a. Promise!Running = Live
  BY <1>0, LiveIsRunning
<1>b. cmdsrunning = Cardinality(Live) /\ cmdsrunning = Promise!Cardinality(Promise!Running)
  BY <1>0, <1>a, SameCardinality DEF Counted
<1>1. CASE ExecCmd
  <2>1. PICK c \in Commands :
          /\ proc[c].state = "new" /\ proc'[c].state = "run"
          /\ \A d \in Commands : d # c => proc'[d] = proc[d]
    BY <1>1, LaunchUses
  <2>2. /\ pc = "make1" /\ told' = told
        /\ pc' = IF Limit(cmdsrunning + 1) THEN "try_wait" ELSE "make1"
    BY <1>1 DEF ExecCmd
  <2>3. cmdsrunning < globs.jobs
    BY <1>0, <2>2 DEF Bounded
  <2>4. (pc' # "make1") = (cmdsrunning + 1 = globs.jobs)
    BY <1>0, <2>2, <2>3 DEF Limit
  <2>5. started' = started \cup {c} /\ c \notin started
    BY <2>1
  <2>6. outcome' = outcome
    BY <2>1 DEF Outcome
  <2>7. status' = status
    BY <2>1, <2>2 DEF Outcome
  <2>8. (pc' = "return") = (pc = "return")
    BY <2>2
  <2>9. Promise!Start(c)
    BY <1>0, <1>b, <2>2, <2>3, <2>4, <2>5, <2>6, <2>7, <2>8 DEF Promise!Start
  <2> QED
    BY <2>1, <2>9 DEF Promise!Next
<1>2. CASE Report
  <2>1. PICK c \in Commands : c = cmdtab[i].hProcess
    BY <1>2, ReportFrees
  <2>2. /\ c \in Live /\ proc[c].state \notin {"new", "run"}
        /\ told'[c].status = IF intr THEN "intr" ELSE IF proc[c].state = "ok" THEN "ok" ELSE "fail"
        /\ \A d \in Commands : d # c => told'[d] = told[d]
    BY <1>2, <2>1, ReportFrees
  <2>3. pc = "report" /\ pc' = "return" /\ proc' = proc
    BY <1>2 DEF Report
  <2>4. started' = started /\ outcome' = outcome
    BY <2>3
  <2>5. outcome[c] # "none"
    BY <2>2 DEF Outcome
  <2>6. status' = [status EXCEPT ![c] = outcome[c]]
    <3>1. status'[c] = outcome[c]
      BY <2>2, <2>3 DEF Outcome
    <3>2. \A d \in Commands : d # c => status'[d] = status[d]
      BY <2>2, <2>3
    <3> QED
      BY <3>1, <3>2
  <2>7. Promise!Report(c)
    BY <1>0, <1>a, <2>2, <2>3, <2>4, <2>5, <2>6 DEF Promise!Report
  <2> QED
    BY <2>7 DEF Promise!Next
<1>3. CASE ExecWait
  <2>1. /\ cmdsrunning # 0 /\ pc = "make1" /\ pc' = "try_wait"
        /\ UNCHANGED <<proc, told, globs>>
    BY <1>3 DEF ExecWait, world
  <2>2. Live # {}
    BY <1>0, <1>b, <2>1, FS_EmptySet
  <2>3. started' = started /\ outcome' = outcome /\ status' = status
    BY <2>1
  <2>4. Promise!Wait
    BY <1>0, <1>a, <2>1, <2>2, <2>3 DEF Promise!Wait
  <2> QED
    BY <2>4 DEF Promise!Next
<1>4. CASE ExecReturn
  <2>1. /\ pc = "return" /\ cmdsrunning < globs.jobs /\ UNCHANGED <<proc, told, globs>>
    BY <1>0, <1>4 DEF ExecReturn, world, Bounded
  <2>2. pc' = "make1"
    BY <1>0, <1>4, <2>1 DEF ExecReturn, Limit
  <2>3. started' = started /\ outcome' = outcome /\ status' = status
    BY <2>1
  <2>4. Promise!Return
    BY <1>0, <1>a, <1>b, <2>1, <2>2, <2>3 DEF Promise!Return
  <2> QED
    BY <2>4 DEF Promise!Next
<1>5. CASE ~ExecCmd /\ ~Report /\ ~ExecWait /\ ~ExecReturn
  <2>1. /\ told' = told
        /\ \A c \in Commands :
             /\ proc'[c].state = "new" <=> proc[c].state = "new"
             /\ proc'[c].state # proc[c].state =>
                   proc[c].state = "run" /\ proc'[c].state \in {"stopped"} \cup Ends
    BY <1>5, QuietStep
  <2>2. (pc' = "make1" <=> pc = "make1") /\ (pc' = "return" <=> pc = "return")
    <3>1. CASE TryWait \/ ReadOutput \/ TryKillOne \/ ExecWaitIdle \/ UNCHANGED vars
      BY <3>1 DEF TryWait, ReadOutput, TryKillOne, ExecWaitIdle, vars, engine
    <3>2. CASE Tick \/ Interrupt \/ \E c \in Commands : Write(c) \/ \E end \in Ends : Exit(c, end)
      BY <3>2 DEF Tick, Interrupt, Write, Exit, engine
    <3> QED
      BY <1>5, <3>1, <3>2 DEF Next, Engine
  <2>3. started' = started
    BY <2>1
  <2>4. status' = status
    <3>1. ASSUME NEW c \in Commands, told[c].status = "intr"
          PROVE  proc'[c].state = proc[c].state
      BY <1>0, <2>1, <3>1 DEF Told
    <3> QED
      BY <2>1, <3>1
  <2>5. outcome' \in [Commands -> {"none", "ok", "fail"}]
    BY DEF Outcome
  <2>6. \A c \in Commands : outcome'[c] # outcome[c] => c \in started /\ outcome[c] = "none"
    BY <2>1 DEF Outcome
  <2> QED
    BY <1>0, <2>2, <2>3, <2>4, <2>5, <2>6 DEF Promise!End, Promise!Outcomes, Promise!Next
<1> QED
  BY <1>1, <1>2, <1>3, <1>4, <1>5

\* execnt.c does what make1() relies on: commands up to the limit, each
\* reported once with its own outcome, and waits that end with a report.
THEOREM ExecNTImplements == Spec => ImplementsExecution
<1>1. IInv /\ [Next]_vars => [Promise!Next]_Promise!vars
  BY StepRefines
<1> QED
  BY <1>1, InitRefines, Invariance, PTL DEF Spec, ImplementsExecution, Promise!Spec

-----------------------------------------------------------------------------
(***************************************************************************)
(* Arithmetic on FILETIMEs.                                                *)
(***************************************************************************)

LEMMA Division ==
  ASSUME NEW n \in Nat, NEW b \in Nat \ {0}
  PROVE  /\ n \div b \in Nat /\ n % b \in 0..(b - 1)
         /\ n = (b * (n \div b)) + (n % b)
OBVIOUS

LEMMA SmallRemainder ==
  ASSUME NEW n \in Nat, NEW b \in Nat \ {0}, n < b
  PROVE  n % b = n
OBVIOUS

LEMMA WrappedRemainder ==
  ASSUME NEW n \in Nat, NEW b \in Nat \ {0}, b <= n, n < 2 * b
  PROVE  n % b = n - b
OBVIOUS

LEMMA Remainder ==
  ASSUME NEW m \in Nat, NEW p \in Nat, NEW b \in Nat \ {0}, NEW r \in 0..(b - 1), m = (b * p) + r
  PROVE  m % b = r
<1> DEFINE u == m \div b
           v == m % b
<1>1. u \in Nat /\ v \in 0..(b - 1) /\ m = (b * u) + v
  BY Division
<1> HIDE DEF u, v
<1>2. u <= p
  <2> SUFFICES ASSUME p + 1 <= u PROVE FALSE
    BY <1>1
  <2>1. b * (p + 1) <= b * u
    BY <1>1
  <2> QED
    BY <1>1, <2>1
<1>3. p <= u
  <2> SUFFICES ASSUME u + 1 <= p PROVE FALSE
    BY <1>1
  <2>1. b * (u + 1) <= b * p
    BY <1>1
  <2> QED
    BY <1>1, <2>1
<1>4. v = r
  BY <1>1, <1>2, <1>3
<1> QED
  BY <1>4 DEF v
LEMMA NextRemainder ==
  ASSUME NEW n \in Nat, NEW b \in Nat \ {0}
  PROVE  (n + 1) % b = IF n % b = b - 1 THEN 0 ELSE (n % b) + 1
<1> DEFINE p == n \div b
           r == n % b
<1>1. p \in Nat /\ r \in 0..(b - 1) /\ n = (b * p) + r
  BY Division
<1> HIDE DEF p, r
<1>2. CASE r = b - 1
  <2>1. n + 1 = (b * (p + 1)) + 0
    BY <1>1, <1>2
  <2>2. n + 1 \in Nat /\ p + 1 \in Nat /\ 0 \in 0..(b - 1)
    BY <1>1
  <2>3. (n + 1) % b = 0
    BY ONLY b \in Nat \ {0}, <2>1, <2>2, Remainder
  <2> QED
    BY <1>2, <2>3 DEF r
<1>3. CASE r # b - 1
  <2>1. n + 1 = (b * p) + (r + 1)
    BY <1>1, <1>3
  <2>2. n + 1 \in Nat /\ r + 1 \in 0..(b - 1)
    BY <1>1, <1>3
  <2>3. (n + 1) % b = r + 1
    BY ONLY b \in Nat \ {0}, <1>1, <2>1, <2>2, Remainder
  <2> QED
    BY <1>3, <2>3 DEF r
<1> QED
  BY <1>2, <1>3

\* Two times less than half apart lie in the same or in neighbouring periods.
LEMMA Neighbours ==
  ASSUME NEW n \in Nat, NEW s \in Nat, NEW b \in Nat \ {0}, s <= n, n - s < b
  PROVE  \/ n \div b = s \div b /\ n - s = (n % b) - (s % b)
         \/ n \div b = (s \div b) + 1 /\ n - s = ((n % b) + b) - (s % b)
<1> DEFINE p == n \div b
           q == s \div b
           u == n % b
           v == s % b
<1>1. p \in Nat /\ u \in 0..(b - 1) /\ n = (b * p) + u
  BY Division
<1>2. q \in Nat /\ v \in 0..(b - 1) /\ s = (b * q) + v
  BY Division
<1> HIDE DEF p, q, u, v
<1>3. p <= q + 1
  <2> SUFFICES ASSUME p >= q + 2 PROVE FALSE
    BY <1>1, <1>2
  <2>1. b * p >= b * (q + 2)
    BY <1>1, <1>2
  <2> QED
    BY <1>1, <1>2, <2>1
<1>4. q <= p
  <2> SUFFICES ASSUME p + 1 <= q PROVE FALSE
    BY <1>1, <1>2
  <2>1. b * (p + 1) <= b * q
    BY <1>1, <1>2
  <2> QED
    BY <1>1, <1>2, <2>1
<1>5. CASE p = q
  BY <1>1, <1>2, <1>5 DEF p, q, u, v
<1>6. CASE p = q + 1
  <2>1. b * p = (b * q) + b
    BY <1>1, <1>2, <1>6
  <2>2. n - s = (u + b) - v
    BY <1>1, <1>2, <2>1
  <2> QED
    BY <1>6, <2>2 DEF p, q, u, v
<1> QED
  BY <1>1, <1>2, <1>3, <1>4, <1>5, <1>6

LEMMA Widths == Half \in Nat \ {0} /\ Base \in Nat \ {0} /\ Base = 2 * Half
BY ExecNTAssumption DEF Base

\* negate_FILETIME: the carry into the upper half is right.
LEMMA Negation ==
  ASSUME NEW h \in 0..(Base - 1), NEW l \in 0..(Base - 1)
  PROVE  Negate([hi |-> h, lo |-> l]) =
           IF l = 0 THEN [hi |-> (Base - h) % Base, lo |-> 0]
                    ELSE [hi |-> Base - 1 - h, lo |-> Base - l]
<1> USE Widths
<1> DEFINE c == CarryBit(Base - 1 - l, 1)
<1>1. Negate([hi |-> h, lo |-> l]) =
        [hi |-> (Base - 1 - h + 0 + c) % Base, lo |-> (Base - 1 - l + 1) % Base]
  BY DEF Negate, Add
<1>2. CASE l = 0
  <2>1. (Base - 1 - l + 1) % Base = 0
    <3>1. Base - 1 - l + 1 = Base
      BY <1>2
    <3>2. Base % Base = 0
      BY WrappedRemainder
    <3> QED
      BY <3>1, <3>2
  <2>2. c = 1
    BY <1>2, <2>1 DEF CarryBit
  <2>3. Base - 1 - h + 0 + c = Base - h
    BY <2>2
  <2> HIDE DEF c
  <2> QED
    BY <1>1, <1>2, <2>1, <2>3
<1>3. CASE l # 0
  <2>1. Base - 1 - l + 1 = Base - l /\ (Base - l) % Base = Base - l
    <3>1. Base - l \in Nat /\ Base - l < Base
      BY <1>3
    <3>2. (Base - l) % Base = Base - l
      BY <3>1, SmallRemainder
    <3> QED
      BY <3>2
  <2>2. c = 0
    BY <1>3, <2>1 DEF CarryBit
  <2>3. Base - 1 - h + 0 + c = Base - 1 - h
    BY <2>2
  <2>4. (Base - 1 - h) % Base = Base - 1 - h
    <3>1. Base - 1 - h \in Nat /\ Base - 1 - h < Base
      OBVIOUS
    <3> QED
      BY <3>1, SmallRemainder
  <2> HIDE DEF c
  <2> QED
    BY <1>1, <1>3, <2>1, <2>3, <2>4
<1> QED
  BY <1>2, <1>3

\* The running time comes out right below Half, though the carry between the
\* halves is lost in some of the additions of bigger numbers.
LEMMA RunningTimeIsRight ==
  ASSUME TypeOK, NEW c \in Commands, proc[c].started <= now, now - proc[c].started < Half
  PROVE  RunningTime(c) = now - proc[c].started
<1> DEFINE n == now
           s == proc[c].started
<1>1. n \in Nat /\ s \in Nat /\ s <= n /\ n - s < Half /\ n - s < Base
  BY Widths DEF TypeOK
<1> HIDE DEF n, s
<1> DEFINE p == n \div Base
           q == s \div Base
           u == n % Base
           v == s % Base
<1>2. /\ p \in Nat /\ q \in Nat /\ u \in 0..(Base - 1) /\ v \in 0..(Base - 1)
      /\ \/ p = q /\ n - s = u - v
         \/ p = q + 1 /\ n - s = (u + Base) - v
  <2>1. n \div Base \in Nat /\ n % Base \in 0..(Base - 1)
    BY <1>1, Widths, Division
  <2>2. s \div Base \in Nat /\ s % Base \in 0..(Base - 1)
    BY <1>1, Widths, Division
  <2>3. \/ n \div Base = s \div Base /\ n - s = (n % Base) - (s % Base)
        \/ n \div Base = (s \div Base) + 1 /\ n - s = ((n % Base) + Base) - (s % Base)
    BY ZenonT(40), <1>1, Widths, Neighbours
  <2> QED
    BY <2>1, <2>2, <2>3
<1> HIDE DEF p, q
<1> DEFINE g == p % Base
           h == q % Base
<1>3. /\ g \in 0..(Base - 1) /\ h \in 0..(Base - 1)
      /\ p = q => g = h
      /\ p = q + 1 => g = IF h = Base - 1 THEN 0 ELSE h + 1
  <2>1. p % Base \in 0..(Base - 1) /\ q % Base \in 0..(Base - 1)
    BY <1>2, Widths, Division
  <2>2. (q + 1) % Base = IF q % Base = Base - 1 THEN 0 ELSE (q % Base) + 1
    BY <1>2, Widths, NextRemainder
  <2> QED
    BY <2>1, <2>2
<1> DEFINE neg == Negate([hi |-> h, lo |-> v])
<1>4. RunningTime(c) = LET d == Add([hi |-> g, lo |-> u], neg) IN (d.hi * Base) + d.lo
  BY DEF RunningTime, FileTime, n, s, p, q
<1> HIDE DEF u, v, g, h
<1>5. neg = IF v = 0 THEN [hi |-> (Base - h) % Base, lo |-> 0]
            ELSE [hi |-> Base - 1 - h, lo |-> Base - v]
  BY <1>2, <1>3, Negation
<1> HIDE DEF neg
<1>6. ASSUME NEW hi \in 0..(Base - 1), NEW lo \in 0..(Base - 1), neg = [hi |-> hi, lo |-> lo],
             (u + lo) % Base = n - s,
             (g + hi + CarryBit(u, lo)) % Base = 0
      PROVE  RunningTime(c) = n - s
  <2>1. Add([hi |-> g, lo |-> u], neg) = [hi |-> 0, lo |-> n - s]
    BY <1>6 DEF Add
  <2> QED
    BY <1>1, <1>4, <2>1, Widths
<1>7. CASE v = 0
  <2> DEFINE hi == (Base - h) % Base
  <2>1. p = q /\ u = n - s /\ g = h /\ u < Half
    BY <1>1, <1>2, <1>3, <1>7, Widths
  <2>2. neg = [hi |-> hi, lo |-> 0]
    BY <1>5, <1>7
  <2>3. hi = IF h = 0 THEN 0 ELSE Base - h
    <3>1. CASE h = 0
      BY <1>3, <3>1, Widths, WrappedRemainder
    <3>2. CASE h # 0
      <4>1. Base - h \in Nat /\ Base - h < Base
        BY <1>3, <3>2, Widths
      <4> QED
        BY <3>2, <4>1, Widths, SmallRemainder
    <3> QED
      BY <3>1, <3>2
  <2> HIDE DEF hi
  <2>4. (u + 0) % Base = n - s
    BY <1>2, <2>1, Widths, SmallRemainder
  <2>5. CarryBit(u, 0) = 0
    BY <1>2, <2>1, Widths DEF CarryBit
  <2>6. (g + hi + CarryBit(u, 0)) % Base = 0
    <3>1. CASE h = 0
      <4>1. g + hi + CarryBit(u, 0) = 0
        BY <2>1, <2>3, <2>5, <3>1
      <4> QED
        BY <4>1, Widths, SmallRemainder
    <3>2. CASE h # 0
      <4>1. g + hi + CarryBit(u, 0) = Base
        BY <1>3, <2>1, <2>3, <2>5, <3>2, Widths
      <4> QED
        BY <4>1, Widths, WrappedRemainder
    <3> QED
      BY <3>1, <3>2
  <2>7. hi \in 0..(Base - 1) /\ 0 \in 0..(Base - 1)
    BY <1>3, <2>3, Widths
  <2> QED
    BY <1>6, <2>2, <2>4, <2>6, <2>7 DEF n, s
<1>8. CASE v # 0 /\ p = q
  <2> DEFINE hi == Base - 1 - h
             lo == Base - v
  <2>1. /\ neg = [hi |-> hi, lo |-> lo]
        /\ hi \in 0..(Base - 1) /\ lo \in 0..(Base - 1)
    BY <1>2, <1>3, <1>5, <1>8, Widths
  <2>2. n - s = u - v /\ g = h
    BY <1>1, <1>2, <1>3, <1>8, Widths
  <2>3. (u + lo) % Base = n - s
    <3>1. u + lo \in Nat /\ Base <= u + lo /\ u + lo < 2 * Base /\ (u + lo) - Base = n - s
      BY <1>1, <1>2, <2>2, Widths
    <3> HIDE DEF lo
    <3> QED
      BY <3>1, Widths, WrappedRemainder
  <2>4. u >= Half \/ lo >= Half
    BY <1>1, <1>2, <2>2, Widths
  <2>5. CarryBit(u, lo) = 1
    BY <1>1, <2>3, <2>4 DEF CarryBit
  <2>6. g + hi + CarryBit(u, lo) = Base
    BY <1>3, <2>2, <2>5, Widths
  <2>7. Base % Base = 0
    BY Widths, WrappedRemainder
  <2> HIDE DEF hi, lo
  <2> QED
    BY <1>6, <2>1, <2>3, <2>6, <2>7 DEF n, s
<1>9. CASE v # 0 /\ p = q + 1
  <2> DEFINE hi == Base - 1 - h
             lo == Base - v
  <2>1. /\ neg = [hi |-> hi, lo |-> lo]
        /\ hi \in 0..(Base - 1) /\ lo \in 0..(Base - 1)
    BY <1>2, <1>3, <1>5, <1>9, Widths
  <2>2. n - s = (u + Base) - v
    BY <1>1, <1>2, <1>9
  <2>3. (u + lo) % Base = n - s
    <3>1. u + lo \in Nat /\ u + lo < Base /\ u + lo = n - s
      BY <1>1, <1>2, <2>2, Widths
    <3> HIDE DEF lo
    <3> QED
      BY <3>1, Widths, SmallRemainder
  <2>4. u < Half /\ lo < Half
    BY <1>1, <1>2, <2>2, Widths
  <2>5. CarryBit(u, lo) = 0
    BY <1>2, <2>1, <2>4, Widths DEF CarryBit
  <2>6. (g + hi + CarryBit(u, lo)) % Base = 0
    <3>1. CASE h = Base - 1
      <4>1. g + hi + CarryBit(u, lo) = 0
        BY <1>3, <1>9, <2>5, <3>1, Widths
      <4> QED
        BY <4>1, Widths, SmallRemainder
    <3>2. CASE h # Base - 1
      <4>1. g + hi + CarryBit(u, lo) = Base
        BY <1>3, <1>9, <2>5, <3>2, Widths
      <4> QED
        BY <4>1, Widths, WrappedRemainder
    <3> QED
      BY <3>1, <3>2
  <2> HIDE DEF hi, lo
  <2> QED
    BY <1>6, <2>1, <2>3, <2>6 DEF n, s
<1> QED
  BY <1>2, <1>7, <1>8, <1>9 DEF n, s

-----------------------------------------------------------------------------
(***************************************************************************)
(* The time limit.                                                         *)
(***************************************************************************)

\* No command starts in the future.
Clock == \A c \in Commands : proc[c].started <= now

LEMMA ClockStep ==
  ASSUME IInv, IInv', Clock, [Next]_vars
  PROVE  Clock' /\ now' >= now
<1>0. now \in Nat /\ now' \in Nat /\ \A c \in Commands : proc[c].started \in Nat
  BY DEF IInv, TypeOK
<1>1. now' >= now
  <2>1. CASE Tick
    BY <1>0, <2>1 DEF Tick
  <2>2. CASE ~Tick
    <3>1. now' = now
      BY <2>2 DEF Next, Engine, vars, world, ExecCmd, ExecWait, TryWait, ReadOutput, TryKillOne,
                  Report, ExecReturn, ExecWaitIdle, Write, Exit, Interrupt
    <3> QED
      BY <1>0, <3>1
  <2> QED
    BY <2>1, <2>2
<1>2. CASE ExecCmd
  <2>1. PICK c \in Commands : /\ proc'[c] = [state |-> "run", started |-> now]
                              /\ \A d \in Commands : d # c => proc'[d] = proc[d]
    BY <1>2, LaunchUses
  <2> QED
    BY <1>0, <1>1, <2>1 DEF Clock
<1>3. CASE Report
  BY <1>0, <1>1, <1>3 DEF Report, Clock
<1>4. CASE ~ExecCmd /\ ~Report
  BY <1>0, <1>1, <1>4, QuietStep DEF Clock
<1> QED
  BY <1>1, <1>2, <1>3, <1>4

LEMMA ClockIsKept == Spec => []Clock
<1>1. Init => Clock
  BY DEF Init, Clock
<1>2. IInv /\ Clock /\ [Next]_vars => Clock'
  BY InvStep, ClockStep
<1> QED
  BY <1>1, <1>2, Invariance, PTL DEF Spec

\* What try_kill_one() kills has had its time.
LEMMA RunawayIsOverdue ==
  ASSUME IInv, Clock, Runaways # {}
  PROVE  Overdue(cmdtab[Min(Runaways)].hProcess)
<1> DEFINE c == cmdtab[Min(Runaways)].hProcess
<1>1. /\ TypeOK /\ c \in Commands /\ globs.timeout > 0 /\ RunningTime(c) > globs.timeout
      /\ proc[c].started <= now
  BY RunawayIsUsed DEF IInv, Clock
<1> HIDE DEF c
<1>2. now - proc[c].started \in Int /\ Half \in Nat
  BY <1>1, Widths DEF TypeOK
<1>3. now - proc[c].started < Half => RunningTime(c) = now - proc[c].started
  BY <1>1, RunningTimeIsRight
<1>4. Overdue(c)
  BY <1>1, <1>2, <1>3 DEF Overdue
<1> QED
  BY <1>4 DEF c

\* Whatever the width of a FILETIME's halves, the time limit and the times at
\* which commands start, none is killed that has run for no longer than the
\* limit and for less than Half.
THEOREM LimitIsKept == Spec => LimitKept
<1>1. ASSUME IInv, Clock, [Next]_vars,
             NEW c \in Commands, proc[c].state = "run", proc'[c].state = "stopped"
      PROVE  Overdue(c)
  <2>0. TypeOK
    BY <1>1 DEF IInv
  <2>1. CASE TryKillOne
    <3>1. Runaways # {}
      BY <1>1, <2>1 DEF TryKillOne
    <3>2. c = cmdtab[Min(Runaways)].hProcess
      BY <1>1, <2>1, <3>1, KillMarks
    <3> QED
      BY <1>1, <3>1, <3>2, RunawayIsOverdue
  <2>2. CASE ExecCmd
    <3>1. PICK d \in Commands : /\ proc'[d] = [state |-> "run", started |-> now]
                                /\ \A e \in Commands : e # d => proc'[e] = proc[e]
      BY <1>1, <2>2, LaunchUses
    <3> QED
      BY <1>1, <3>1
  <2>3. CASE \E d \in Commands, end \in Ends : Exit(d, end)
    BY <1>1, <2>0, <2>3 DEF Exit, TypeOK, Ends
  <2>4. CASE \/ ExecWait \/ TryWait \/ ReadOutput \/ Report \/ ExecReturn \/ ExecWaitIdle
             \/ Tick \/ Interrupt \/ UNCHANGED vars \/ \E d \in Commands : Write(d)
    BY <1>1, <2>4 DEF ExecWait, TryWait, ReadOutput, Report, ExecReturn, ExecWaitIdle,
                      Tick, Interrupt, Write, vars, world
  <2> QED
    BY <1>1, <2>1, <2>2, <2>3, <2>4 DEF Next, Engine
<1>2. IInv /\ Clock /\ [Next]_vars =>
        [\A c \in Commands :
           proc[c].state = "run" /\ proc'[c].state = "stopped" => Overdue(c)]_vars
  BY <1>1
<1> QED
  BY <1>2, Invariance, ClockIsKept, PTL DEF Spec, LimitKept

-----------------------------------------------------------------------------
(***************************************************************************)
(* Reports.                                                                *)
(***************************************************************************)

\* A slot says EXIT_TIMEOUT if the limit has stopped its command, and only
\* if that has had its time.
Reasoned ==
  /\ \A s \in 1..MAXJOBS : s \notin Used => cmdtab[s].exit_reason = "EXIT_OK"
  /\ \A s \in Used :
       /\ proc[cmdtab[s].hProcess].state = "stopped" => cmdtab[s].exit_reason = "EXIT_TIMEOUT"
       /\ cmdtab[s].exit_reason = "EXIT_TIMEOUT" => Overdue(cmdtab[s].hProcess)

\* The pipe of a command that has ended by itself is read before its report.
Emptied ==
  /\ pc = "read_output" /\ i # 0 /\ k > i => cmdtab[i].hProcess \notin unread
  /\ pc = "report" /\ cmdtab[i].exit_reason = "EXIT_OK" => cmdtab[i].hProcess \notin unread
  /\ \A c \in lost : told[c].status # "none"

LEMMA OverdueStays ==
  ASSUME IInv, IInv', Clock, [Next]_vars, NEW c \in Commands, Overdue(c),
         proc'[c].started = proc[c].started
  PROVE  Overdue(c)'
<1>1. /\ now \in Nat /\ now' \in Nat /\ proc[c].started \in Nat
      /\ globs' = globs /\ globs.timeout \in Nat /\ Half \in Nat
  BY GlobsStep, Types, Widths DEF IInv, TypeOK
<1>2. now' >= now
  BY ClockStep
<1> QED
  BY <1>1, <1>2 DEF Overdue

LEMMA ReasonedStep ==
  ASSUME IInv, IInv', Clock, Reasoned, [Next]_vars
  PROVE  Reasoned'
<1>0. /\ TypeOK /\ Placed /\ TypeOK'
      /\ \A s \in Used : s \in 1..MAXJOBS /\ cmdtab[s].hProcess \in Commands
  BY DEF IInv, Used, Placed, Live
<1>1. CASE ExecCmd
  <2>1. PICK c \in Commands :
          /\ c \notin Live /\ Used' = Used \cup {Slot}
          /\ Slot \notin Used /\ Slot \in 1..MAXJOBS
          /\ cmdtab'[Slot].hProcess = c
          /\ cmdtab'[Slot].exit_reason = cmdtab[Slot].exit_reason
          /\ \A s \in 1..MAXJOBS : s # Slot => cmdtab'[s] = cmdtab[s]
          /\ proc'[c] = [state |-> "run", started |-> now]
          /\ \A d \in Commands : d # c => proc'[d] = proc[d]
    BY <1>1, LaunchUses
  <2>2. cmdtab'[Slot].exit_reason = "EXIT_OK"
    BY <2>1 DEF Reasoned
  <2>3. \A s \in Used : s # Slot /\ cmdtab[s].hProcess # c
    BY <1>0, <2>1 DEF Placed
  <2>4. ASSUME NEW s \in Used
        PROVE  /\ proc'[cmdtab'[s].hProcess].state = "stopped" => cmdtab'[s].exit_reason = "EXIT_TIMEOUT"
               /\ cmdtab'[s].exit_reason = "EXIT_TIMEOUT" => Overdue(cmdtab[s].hProcess)'
    <3>1. /\ cmdtab'[s] = cmdtab[s]
          /\ proc'[cmdtab[s].hProcess] = proc[cmdtab[s].hProcess]
      BY <1>0, <2>1, <2>3
    <3>2. now' = now /\ globs' = globs
      BY <1>1 DEF ExecCmd
    <3> QED
      BY <3>1, <3>2 DEF Reasoned, Overdue
  <2>5. \A s \in Used : cmdtab'[s].hProcess = cmdtab[s].hProcess
    BY <1>0, <2>1, <2>3
  <2> QED
    BY <1>0, <2>1, <2>2, <2>4, <2>5 DEF Reasoned, Overdue
<1>2. CASE Report
  <2>1. /\ Used' = Used \ {i} /\ cmdtab'[i] = Free /\ i \in 1..MAXJOBS
        /\ \A s \in 1..MAXJOBS : s # i => cmdtab'[s] = cmdtab[s]
    BY <1>2, ReportFrees
  <2>2. proc' = proc /\ now' = now /\ globs' = globs
    BY <1>2 DEF Report
  <2>3. \A s \in 1..MAXJOBS : s \notin Used' => cmdtab'[s].exit_reason = "EXIT_OK"
    BY <2>1 DEF Reasoned, Free
  <2>4. \A s \in Used' : s \in Used /\ cmdtab'[s] = cmdtab[s]
    BY <1>0, <2>1
  <2> QED
    BY <2>2, <2>3, <2>4 DEF Reasoned, Overdue
<1>3. CASE ~ExecCmd /\ ~Report
  <2>1. /\ Used' = Used
        /\ \A s \in 1..MAXJOBS : cmdtab'[s].hProcess = cmdtab[s].hProcess
        /\ \A c \in Commands : proc'[c].started = proc[c].started
    BY <1>3, QuietSets, QuietStep
  <2>2. CASE TryKillOne /\ Runaways # {}
    <3> DEFINE t == Min(Runaways)
               c == cmdtab[t].hProcess
    <3>1. t \in Used /\ t \in 1..MAXJOBS /\ c \in Commands
      BY <2>2, RunawayIsUsed
    <3>2. /\ cmdtab'[t].exit_reason = "EXIT_TIMEOUT"
          /\ \A u \in 1..MAXJOBS : u # t => cmdtab'[u] = cmdtab[u]
          /\ \A d \in Commands : d # c => proc'[d] = proc[d]
      BY <2>2, KillMarks
    <3>3. Overdue(c)
      BY <2>2, RunawayIsOverdue
    <3>4. now' = now /\ globs' = globs
      BY <2>2 DEF TryKillOne
    <3> HIDE DEF t
    <3>5. \A s \in Used : s # t => cmdtab[s].hProcess # c
      BY <1>0, <3>1 DEF Placed
    <3>6. \A s \in 1..MAXJOBS : s \notin Used' => cmdtab'[s].exit_reason = "EXIT_OK"
      BY <2>1, <3>1, <3>2 DEF Reasoned
    <3>7. ASSUME NEW s \in Used
          PROVE  /\ proc'[cmdtab'[s].hProcess].state = "stopped" => cmdtab'[s].exit_reason = "EXIT_TIMEOUT"
                 /\ cmdtab'[s].exit_reason = "EXIT_TIMEOUT" => Overdue(cmdtab[s].hProcess)'
      <4>1. CASE s = t
        BY <2>1, <3>1, <3>2, <3>3, <3>4, <4>1 DEF Overdue
      <4>2. CASE s # t
        <5>1. cmdtab'[s] = cmdtab[s] /\ proc'[cmdtab[s].hProcess] = proc[cmdtab[s].hProcess]
          BY <1>0, <3>2, <3>5, <4>2
        <5> QED
          BY <3>4, <5>1 DEF Reasoned, Overdue
      <4> QED
        BY <4>1, <4>2
    <3> QED
      BY <2>1, <3>6, <3>7 DEF Reasoned
  <2>3. CASE ~(TryKillOne /\ Runaways # {})
    <3>1. cmdtab' = cmdtab
      BY <1>3, <2>3 DEF Next, Engine, vars, engine, ExecWait, TryWait, ReadOutput, TryKillOne,
                        ExecReturn, ExecWaitIdle, Write, Exit, Tick, Interrupt
    <3>2. \A c \in Commands : proc'[c].state = "stopped" => proc[c].state = "stopped"
      <4>1. CASE \E c \in Commands, end \in Ends : Exit(c, end)
        BY <1>0, <4>1 DEF Exit, TypeOK, Ends
      <4>2. CASE ~\E c \in Commands, end \in Ends : Exit(c, end)
        <5>1. proc' = proc
          BY <1>3, <2>3, <4>2 DEF Next, Engine, vars, world, ExecWait, TryWait, ReadOutput,
                  TryKillOne, ExecReturn, ExecWaitIdle, Write, Tick, Interrupt
        <5> QED
          BY <5>1
      <4> QED
        BY <4>1, <4>2
    <3>3. ASSUME NEW s \in Used, cmdtab[s].exit_reason = "EXIT_TIMEOUT"
          PROVE  Overdue(cmdtab[s].hProcess)'
      <4>1. PICK c \in Commands : c = cmdtab[s].hProcess
        BY <1>0
      <4>2. Overdue(c)
        BY <3>3, <4>1 DEF Reasoned
      <4>3. Overdue(c)'
        BY <2>1, <4>2, OverdueStays
      <4>4. c = cmdtab'[s].hProcess
        BY <3>1, <4>1
      <4> QED
        BY <4>3, <4>4 DEF Overdue
    <3> QED
      BY <1>0, <2>1, <3>1, <3>2, <3>3 DEF Reasoned
  <2> QED
    BY <2>2, <2>3
<1> QED
  BY <1>1, <1>2, <1>3

LEMMA EmptiedStep ==
  ASSUME IInv, IInv', Emptied, [Next]_vars
  PROVE  Emptied'
<1>0. /\ TypeOK /\ Placed /\ Told /\ Due
      /\ i \in Nat /\ k \in Nat /\ globs.jobs \in Nat
      /\ \A s \in Used : cmdtab[s].hProcess \in Commands
  BY Types DEF IInv, Placed, Live
<1>1. CASE ExecCmd \/ ExecWait \/ ExecReturn
  <2>1. pc' \notin {"read_output", "report"} /\ UNCHANGED <<lost, told>>
    BY <1>1 DEF ExecCmd, ExecWait, ExecReturn
  <2> QED
    BY <2>1 DEF Emptied
<1>2. CASE Report
  <2>1. /\ pc' = "return" /\ lost' \subseteq lost \cup {cmdtab[i].hProcess}
    BY <1>2 DEF Report
  <2>2. PICK c \in Commands : c = cmdtab[i].hProcess
    BY <1>2, ReportFrees
  <2>3. told'[c].status # "none" /\ \A d \in Commands : d # c => told'[d] = told[d]
    BY <1>2, <2>2, ReportFrees
  <2>4. lost \subseteq Commands
    BY <1>0 DEF TypeOK
  <2> QED
    BY <2>1, <2>2, <2>3, <2>4 DEF Emptied
<1>3. CASE TryWait
  <2>1. pc' = "read_output" /\ k' = 1 /\ i' \in Nat /\ UNCHANGED <<lost, told>>
    BY <1>0, <1>3, Types DEF TryWait, EndedSlots
  <2>2. ~(i' # 0 /\ k' > i')
    BY <2>1
  <2> QED
    BY <2>1, <2>2 DEF Emptied
<1>4. CASE ReadOutput
  <2>1. /\ pc = "read_output" /\ UNCHANGED <<i, cmdtab, lost, told>>
        /\ unread' = unread \ {cmdtab[k].hProcess}
        /\ IF k < globs.jobs THEN k' = k + 1 /\ pc' = pc
           ELSE k' = 1 /\ pc' = IF i = 0 THEN "try_kill_one" ELSE "report"
    BY <1>4 DEF ReadOutput, Drained, MoreSlots
  <2>2. i # 0 /\ k >= i => cmdtab[i].hProcess \notin unread'
    BY <1>0, <2>1 DEF Emptied
  <2>3. CASE k < globs.jobs
    BY <1>0, <2>1, <2>2, <2>3 DEF Emptied
  <2>4. CASE ~(k < globs.jobs)
    <3>1. i <= globs.jobs
      BY <1>0 DEF TypeOK
    <3> QED
      BY <1>0, <2>1, <2>2, <2>4, <3>1 DEF Emptied
  <2> QED
    BY <2>3, <2>4
<1>5. CASE TryKillOne
  <2>1. UNCHANGED <<lost, told>> /\ pc' \in {"try_wait", "report"}
    BY <1>5 DEF TryKillOne
  <2>2. pc' = "report" => cmdtab'[i'].exit_reason = "EXIT_TIMEOUT"
    <3>1. CASE Runaways = {}
      BY <1>5, <3>1 DEF TryKillOne
    <3>2. CASE Runaways # {}
      BY <1>5, <3>2, KillMarks
    <3> QED
      BY <3>1, <3>2
  <2> QED
    BY <2>1, <2>2 DEF Emptied
<1>6. ASSUME NEW c \in Commands, Write(c) PROVE Emptied'
  <2>1. /\ UNCHANGED <<pc, i, k, cmdtab, lost, told>>
        /\ unread' = unread \cup {c} /\ proc[c].state = "run"
    BY <1>6 DEF Write, engine
  <2>2. i # 0 => c # cmdtab[i].hProcess
    BY <1>0, <2>1 DEF Due
  <2>3. pc = "report" => i # 0
    BY <1>0 DEF Due
  <2> QED
    BY <2>1, <2>2, <2>3 DEF Emptied
<1>7. CASE \/ ExecWaitIdle \/ Tick \/ Interrupt \/ UNCHANGED vars
           \/ \E c \in Commands, end \in Ends : Exit(c, end)
  BY <1>7 DEF ExecWaitIdle, Tick, Interrupt, Exit, vars, engine, world, Emptied
<1> QED
  BY <1>1, <1>2, <1>3, <1>4, <1>5, <1>6, <1>7 DEF Next, Engine

LEMMA ReportsStep ==
  ASSUME IInv, IInv', Clock, Reasoned, Emptied, ReportsTrue, [Next]_vars
  PROVE  ReportsTrue'
<1>0. TypeOK /\ Placed /\ Told /\ Told'
  BY DEF IInv
<1>1. CASE ExecCmd
  <2>1. PICK c \in Commands : /\ proc[c].state = "new"
                              /\ \A d \in Commands : d # c => proc'[d] = proc[d]
    BY <1>1, LaunchUses
  <2>2. UNCHANGED <<told, lost, now, globs>>
    BY <1>1 DEF ExecCmd
  <2>3. told[c] = None
    BY <1>0, <2>1 DEF Told
  <2>4. ASSUME NEW d \in Commands, d # c
        PROVE  proc'[d] = proc[d] /\ (Overdue(d) => Overdue(d)')
    BY <2>1, <2>2, <2>4 DEF Overdue
  <2> QED
    BY <2>2, <2>3, <2>4 DEF ReportsTrue
<1>2. CASE Report
  <2>1. PICK c \in Commands : c = cmdtab[i].hProcess
    BY <1>2, ReportFrees
  <2>2. /\ i \in Used /\ c \in Live /\ i \in 1..MAXJOBS
        /\ proc[c].state \notin {"new", "run"}
        /\ told'[c].status = IF intr THEN "intr" ELSE IF proc[c].state = "ok" THEN "ok" ELSE "fail"
        /\ told'[c].reason = cmdtab[i].exit_reason
        /\ \A d \in Commands : d # c => told'[d] = told[d]
    BY <1>2, <2>1, ReportFrees
  <2>3. /\ pc = "report" /\ lost' = lost \cup ({c} \cap unread)
        /\ UNCHANGED <<proc, now, globs>>
    BY <1>2, <2>1 DEF Report
  <2>4. /\ proc[c].state = "stopped" => told'[c].reason = "EXIT_TIMEOUT"
        /\ told'[c].reason = "EXIT_TIMEOUT" => Overdue(c)
    BY <2>1, <2>2 DEF Reasoned
  <2>5. told'[c].reason = "EXIT_OK" => c \notin lost'
    BY <2>1, <2>2, <2>3 DEF Emptied, Live
  <2>6. \A d \in Commands : Overdue(d) => Overdue(d)'
    BY <2>3 DEF Overdue
  <2>7. ASSUME NEW d \in Commands, told'[d] # None
        PROVE  /\ proc'[d].state \notin {"new", "run"}
               /\ told'[d].status = "ok" => proc'[d].state = "ok"
               /\ told'[d].status = "fail" => proc'[d].state # "ok"
               /\ proc'[d].state = "stopped" => told'[d].reason = "EXIT_TIMEOUT"
               /\ told'[d].reason = "EXIT_OK" => d \notin lost'
               /\ told'[d].reason = "EXIT_TIMEOUT" => Overdue(d)'
    <3>1. CASE d = c
      BY <2>2, <2>3, <2>4, <2>5, <2>6, <3>1
    <3>2. CASE d # c
      <4>1. told[d] # None /\ told'[d] = told[d] /\ proc'[d] = proc[d]
        BY <2>2, <2>3, <2>7, <3>2
      <4>2. d \in lost' => d \in lost
        BY <2>3, <3>2
      <4> QED
        BY <2>6, <4>1, <4>2 DEF ReportsTrue
    <3> QED
      BY <3>1, <3>2
  <2> QED
    BY <2>7 DEF ReportsTrue
<1>3. CASE ~ExecCmd /\ ~Report
  <2>1. /\ told' = told /\ lost' = lost
        /\ \A c \in Commands :
             /\ proc'[c].started = proc[c].started
             /\ proc'[c].state # proc[c].state => proc[c].state = "run"
    BY <1>3, QuietStep
  <2>2. \A c \in Commands : Overdue(c) => Overdue(c)'
    BY <2>1, OverdueStays
  <2> QED
    BY <2>1, <2>2 DEF ReportsTrue
<1> QED
  BY <1>1, <1>2, <1>3

\* What is reported of a command is its own: the status it ended with unless
\* there was an interrupt; EXIT_TIMEOUT if the limit has stopped it, and only
\* after it has had its time; otherwise all that it has written, though slots
\* are used again and pipes are read only between two waits.
THEOREM ReportsAreTrue == Spec => []ReportsTrue
<1>1. Init => Reasoned /\ Emptied /\ ReportsTrue
  <2> SUFFICES ASSUME Init PROVE Reasoned /\ Emptied /\ ReportsTrue
    OBVIOUS
  <2>1. Reasoned
    BY DEF Init, Reasoned, Used, Free
  <2>2. Emptied
    BY DEF Init, Emptied
  <2>3. ReportsTrue
    BY DEF Init, ReportsTrue
  <2> QED
    BY <2>1, <2>2, <2>3
<1>2. IInv /\ IInv' /\ Clock /\ Reasoned /\ Emptied /\ ReportsTrue /\ [Next]_vars
        => (Reasoned /\ Emptied /\ ReportsTrue)'
  BY ReasonedStep, EmptiedStep, ReportsStep
<1> QED
  BY <1>1, <1>2, Invariance, ClockIsKept, PTL DEF Spec
=============================================================================
