-------------------------- MODULE ExecUnix_proofs --------------------------
(***************************************************************************)
(* Theorems about exec_cmd() and exec_wait(), for any number of commands   *)
(* and of slots, every -j up to their number and every command line,       *)
(* whether commands close their output early or not.                       *)
(***************************************************************************)
EXTENDS ExecUnix, TLAPS, FiniteSetTheorems, WellFoundedInduction

\* Slots in use, and commands started and not yet reported.
Used == {s \in 1..MAXJOBS : cmdtab[s].pid # 0}
Live == {c \in Commands : proc[c].state # "new" /\ told[c].status = "none"}

\* cmdsrunning counts both.
Counted ==
  /\ cmdsrunning = Cardinality(Used)
  /\ cmdsrunning = Cardinality(Live)

\* The slots in use are among the first -j, each has a live command of its
\* own, and only they have open pipes.
Placed ==
  /\ Used \subseteq 1..globs.jobs
  /\ \A s \in Used : cmdtab[s].pid \in Live
  /\ \A s, k \in Used : cmdtab[s].pid = cmdtab[k].pid => s = k
  /\ \A s \in 1..MAXJOBS : cmdtab[s].fd # {} => s \in Used

\* Only commands that have ended are reported.
Told == \A c \in Commands : told[c].status # "none" => proc[c].state \notin {"new", "run"}

\* The engine waits whenever the limit is reached, and stops waiting only
\* after a report.
Bounded ==
  /\ cmdsrunning <= globs.jobs
  /\ pc = "make1" => cmdsrunning < globs.jobs /\ ~finished
  /\ pc = "return" => finished
  /\ finished => cmdsrunning < globs.jobs

\* What select() saw of slots not served yet is still true of them, so that
\* waitpid() is called for a command.
Due ==
  /\ pc \in {"out", "err", "feof"} => \A x \in ready : x[1] >= i => x[1] \in Used
  /\ pc = "waitpid" => \A x \in ready : x[1] > i => x[1] \in Used
  /\ pc \in {"err", "feof"} /\ eof # {} => i \in Used
  /\ pc = "waitpid" => i \in Used /\ cmdtab[i].fd = {}
  /\ pc = "out" => eof = {}
  /\ i <= globs.jobs

IInv == TypeOK /\ Counted /\ Placed /\ Told /\ Bounded /\ Due

-----------------------------------------------------------------------------
(***************************************************************************)
(* Slots.                                                                  *)
(***************************************************************************)

\* A set of numbers that is not empty has a least element, Min of it.
LEMMA MinIsLeast ==
  ASSUME NEW S, S \subseteq Nat, S # {}
  PROVE  Min(S) \in S /\ \A y \in S : Min(S) <= y
<1> DEFINE R == {xy \in Nat \X Nat : xy[1] < xy[2]}
<1>1. IsWellFoundedOn(R, Nat)
  BY NatLessThanWellFounded DEF OpToRel
<1>2. \A x, y \in Nat : <<x, y>> \in R <=> x < y
  OBVIOUS
<1> HIDE DEF R
<1>3. PICK x \in S : \A y \in S : ~(<<y, x>> \in R)
  BY <1>1, WFMin
<1>4. ASSUME NEW y \in S PROVE x <= y
  <2>1. x \in Nat /\ y \in Nat
    OBVIOUS
  <2>2. ~(y < x)
    BY <1>2, <1>3, <2>1
  <2> QED
    BY <2>1, <2>2
<1>5. \E z \in S : \A y \in S : z =< y
  BY <1>4
<1> QED
  BY <1>5 DEF Min

LEMMA Finiteness ==
  ASSUME TypeOK
  PROVE  /\ IsFiniteSet(Used)
         /\ IsFiniteSet(Live)
         /\ MAXJOBS \in Nat /\ NumCommands \in Nat
<1>1. MAXJOBS \in Nat /\ NumCommands \in Nat
  BY ExecUnixAssumption
<1>2. IsFiniteSet(1..MAXJOBS) /\ IsFiniteSet(1..NumCommands)
  BY <1>1, FS_Interval
<1>3. Used \in SUBSET (1..MAXJOBS) /\ Live \in SUBSET (1..NumCommands)
  BY DEF Used, Live, Commands
<1> QED
  BY <1>1, <1>2, <1>3, FS_Subset

LEMMA JobsType ==
  ASSUME TypeOK
  PROVE  globs.jobs \in 1..MAXJOBS /\ globs.jobs \in Nat /\ MAXJOBS \in Nat
BY ExecUnixAssumption DEF TypeOK

\* Below the limit the first free slot is one exec_wait() looks at.
LEMMA SlotIsServed ==
  ASSUME IInv, cmdsrunning < globs.jobs
  PROVE  /\ FreeSlots # {}
         /\ Slot \in 1..globs.jobs
         /\ Slot \in 1..MAXJOBS
         /\ Slot \notin Used
<1> USE JobsType
<1>0. TypeOK /\ Counted /\ Placed
  BY DEF IInv
<1>1. PICK s \in 1..globs.jobs : s \notin Used
  <2>1. SUFFICES ASSUME 1..globs.jobs \subseteq Used PROVE FALSE
    OBVIOUS
  <2>2. Used = 1..globs.jobs
    BY <1>0, <2>1 DEF Placed
  <2>3. Cardinality(1..globs.jobs) = globs.jobs
    <3>1. globs.jobs \in Nat
      BY <1>0
    <3> QED
      BY ONLY <3>1, FS_Interval
  <2>4. Cardinality(Used) = Cardinality(1..globs.jobs)
    BY <2>2
  <2>5. cmdsrunning = globs.jobs
    BY <1>0, <2>3, <2>4 DEF Counted
  <2> QED
    BY <1>0, <2>5
<1>2. s \in FreeSlots
  BY <1>0, <1>1 DEF Used, FreeSlots
<1>3. FreeSlots \subseteq Nat /\ FreeSlots # {}
  BY <1>2 DEF FreeSlots
<1>4. Slot \in FreeSlots /\ Slot <= s
  BY <1>2, <1>3, MinIsLeast DEF Slot
<1>5. Slot \in 1..MAXJOBS /\ cmdtab[Slot].pid = 0
  BY <1>4 DEF FreeSlots
<1> QED
  BY <1>0, <1>1, <1>3, <1>4, <1>5 DEF Used

-----------------------------------------------------------------------------
(***************************************************************************)
(* The type of every variable, and the initial states.                     *)
(***************************************************************************)

LEMMA InitInv == Init => IInv
<1> SUFFICES ASSUME Init PROVE IInv
  OBVIOUS
<1>1. TypeOK
  <2>1. 0 \in 0..NumCommands /\ 0 \in 0..MAXJOBS /\ 1 \in 1..MAXJOBS
    BY ExecUnixAssumption
  <2>2. cmdtab \in [1..MAXJOBS -> [pid : 0..NumCommands, fd : SUBSET Streams, exit_reason : Reasons]]
    BY <2>1 DEF Init, Reasons
  <2>3. proc \in [Commands -> [state : Leader, holds : SUBSET Streams]]
    BY DEF Init, Leader
  <2>4. told \in [Commands -> [status : {"none", "ok", "fail"}, reason : Reasons]]
    BY DEF Init, None, Reasons
  <2> QED
    BY <2>1, <2>2, <2>3, <2>4 DEF Init, TypeOK, PCs
<1>2. Used = {} /\ Live = {}
  BY DEF Init, Used, Live
<1>3. Counted
  BY <1>2, FS_EmptySet DEF Counted, Init
<1>4. Placed
  BY <1>2 DEF Placed, Init
<1>5. Bounded
  BY <1>1, JobsType DEF Bounded, Init
<1>6. Due
  BY <1>1, JobsType DEF Due, Init
<1>7. Told
  BY DEF Told, Init, None
<1> QED
  BY <1>1, <1>3, <1>4, <1>5, <1>6, <1>7 DEF IInv

LEMMA NextSlotType ==
  ASSUME TypeOK, i <= globs.jobs, NEW done \in BOOLEAN, NextSlot(done), UNCHANGED globs
  PROVE  /\ pc' \in {"out", "return", "wait"}
         /\ i' \in 1..MAXJOBS /\ i' <= globs.jobs
         /\ ready' \subseteq ready /\ eof' = {}
         /\ pc' = "return" => done
         /\ pc' = "out" => i' = i + 1
<1> USE JobsType
<1>1. i \in Nat /\ i \in 1..MAXJOBS
  BY DEF TypeOK
<1> QED
  BY <1>1 DEF NextSlot

\* Setting two fields of a slot leaves the table what it was otherwise.
LEMMA Launched ==
  ASSUME NEW tab, NEW s \in 1..MAXJOBS, NEW p \in 0..NumCommands, NEW f \in SUBSET Streams,
         tab \in [1..MAXJOBS -> [pid : 0..NumCommands, fd : SUBSET Streams, exit_reason : Reasons]]
  PROVE  LET new == [tab EXCEPT ![s].pid = p, ![s].fd = f]
         IN  /\ new \in [1..MAXJOBS -> [pid : 0..NumCommands, fd : SUBSET Streams, exit_reason : Reasons]]
             /\ new[s].pid = p /\ new[s].fd = f
             /\ \A k \in 1..MAXJOBS : k # s => new[k] = tab[k]
<1> DEFINE one == [tab EXCEPT ![s] = [@ EXCEPT !.pid = p]]
<1>1. /\ one \in [1..MAXJOBS -> [pid : 0..NumCommands, fd : SUBSET Streams, exit_reason : Reasons]]
      /\ one[s].pid = p
      /\ \A k \in 1..MAXJOBS : k # s => one[k] = tab[k]
  OBVIOUS
<1>2. [tab EXCEPT ![s].pid = p, ![s].fd = f] = [one EXCEPT ![s] = [@ EXCEPT !.fd = f]]
  OBVIOUS
<1> HIDE DEF one
<1> QED
  BY <1>1, <1>2

LEMMA Freed ==
  ASSUME NEW tab, NEW s \in 1..MAXJOBS, NEW p \in 0..NumCommands, NEW r \in Reasons,
         tab \in [1..MAXJOBS -> [pid : 0..NumCommands, fd : SUBSET Streams, exit_reason : Reasons]]
  PROVE  LET new == [tab EXCEPT ![s].pid = p, ![s].exit_reason = r]
         IN  /\ new \in [1..MAXJOBS -> [pid : 0..NumCommands, fd : SUBSET Streams, exit_reason : Reasons]]
             /\ new[s].pid = p /\ new[s].fd = tab[s].fd
             /\ \A k \in 1..MAXJOBS : k # s => new[k] = tab[k]
<1> DEFINE one == [tab EXCEPT ![s] = [@ EXCEPT !.pid = p]]
<1>1. /\ one \in [1..MAXJOBS -> [pid : 0..NumCommands, fd : SUBSET Streams, exit_reason : Reasons]]
      /\ one[s].pid = p /\ one[s].fd = tab[s].fd
      /\ \A k \in 1..MAXJOBS : k # s => one[k] = tab[k]
  OBVIOUS
<1>2. [tab EXCEPT ![s].pid = p, ![s].exit_reason = r] = [one EXCEPT ![s] = [@ EXCEPT !.exit_reason = r]]
  OBVIOUS
<1> HIDE DEF one
<1> QED
  BY <1>1, <1>2

LEMMA TypeStep ==
  ASSUME IInv, [Next]_vars
  PROVE  TypeOK'
<1>0. /\ TypeOK /\ Counted /\ Placed /\ Bounded /\ Due
      /\ globs.jobs \in 1..MAXJOBS /\ globs.jobs \in Nat /\ MAXJOBS \in Nat
  BY JobsType DEF IInv
<1>a. /\ pc \in PCs
      /\ launching \in BOOLEAN /\ finished \in BOOLEAN
      /\ cmdtab \in [1..MAXJOBS -> [pid : 0..NumCommands, fd : SUBSET Streams, exit_reason : Reasons]]
      /\ cmdsrunning \in 0..MAXJOBS
      /\ i \in 1..MAXJOBS
      /\ ready \subseteq (1..MAXJOBS) \X Streams
      /\ eof \subseteq Streams
      /\ proc \in [Commands -> [state : Leader, holds : SUBSET Streams]]
      /\ unread \subseteq Commands \X Streams
      /\ overdue \subseteq Commands
      /\ told \in [Commands -> [status : {"none", "ok", "fail"}, reason : Reasons]]
      /\ lost \subseteq Commands
      /\ globs \in Options
  BY <1>0 DEF TypeOK
<1>b. /\ Pipes \subseteq Streams
      /\ \A s \in 1..MAXJOBS : cmdtab[s].pid \in 0..NumCommands
      /\ \A c \in Commands : proc[c].state \in Leader /\ proc[c].holds \subseteq Streams
  BY <1>a DEF Pipes, Streams
<1>1. CASE ExecCmd
  <2>1. PICK c \in 1..globs.commands :
          /\ proc' = [proc EXCEPT ![c] = [state |-> "run", holds |-> Pipes]]
          /\ cmdtab' = [cmdtab EXCEPT ![Slot].pid = c, ![Slot].fd = Pipes]
    BY <1>1 DEF ExecCmd
  <2>2. c \in 1..NumCommands /\ c \in Commands
    <3>1. globs.commands \in 0..NumCommands /\ NumCommands \in Nat
      BY <1>a, ExecUnixAssumption
    <3> QED
      BY <3>1 DEF Commands
  <2>3. proc' \in [Commands -> [state : Leader, holds : SUBSET Streams]]
    BY <1>a, <1>b, <2>1, <2>2 DEF Leader
  <2>4. cmdtab' \in [1..MAXJOBS -> [pid : 0..NumCommands, fd : SUBSET Streams, exit_reason : Reasons]]
    <3>1. Slot \in 1..MAXJOBS
      BY <1>0, <1>1, SlotIsServed DEF ExecCmd, Bounded
    <3>2. c \in 0..NumCommands
      BY <2>2 DEF Commands
    <3>3. cmdtab \in [1..MAXJOBS -> [pid : 0..NumCommands, fd : SUBSET Streams, exit_reason : Reasons]]
      BY <1>a
    <3>4. Pipes \in SUBSET Streams
      BY <1>b
    <3>5. cmdtab' = [cmdtab EXCEPT ![Slot].pid = c, ![Slot].fd = Pipes]
      BY <2>1
    <3> QED
      BY <3>1, <3>2, <3>3, <3>4, <3>5, Launched
  <2>5. cmdsrunning' \in 0..MAXJOBS
    BY <1>0, <1>a, <1>1 DEF ExecCmd, Bounded
  <2>6. pc' \in PCs /\ launching' \in BOOLEAN
    BY <1>1 DEF ExecCmd, PCs, Limit
  <2> QED
    BY <1>a, <1>1, <2>3, <2>4, <2>5, <2>6 DEF ExecCmd, TypeOK
<1>2. CASE ExecWait
  BY <1>a, <1>2 DEF ExecWait, TypeOK, PCs, world
<1>3. CASE PopulateFileDescriptors
  <2>1. proc' \in [Commands -> [state : Leader, holds : SUBSET Streams]]
    <3>1. \A c \in Commands : KillGroup(proc[c]) \in [state : Leader, holds : SUBSET Streams]
      BY <1>b DEF KillGroup, Leader
    <3> QED
      BY <1>a, <1>3, <3>1 DEF PopulateFileDescriptors
  <2>2. cmdtab' \in [1..MAXJOBS -> [pid : 0..NumCommands, fd : SUBSET Streams, exit_reason : Reasons]]
    <3>1. cmdtab \in [1..MAXJOBS -> [pid : 0..NumCommands, fd : SUBSET Streams, exit_reason : Reasons]]
      BY <1>a
    <3>2. ASSUME NEW s \in 1..MAXJOBS
          PROVE  [cmdtab[s] EXCEPT !.exit_reason = "EXIT_TIMEOUT"]
                    \in [pid : 0..NumCommands, fd : SUBSET Streams, exit_reason : Reasons]
      BY <3>1 DEF Reasons
    <3>3. cmdtab' = [s \in 1..MAXJOBS |-> IF s \in Expired
                                     THEN [cmdtab[s] EXCEPT !.exit_reason = "EXIT_TIMEOUT"]
                                     ELSE cmdtab[s]]
      BY <1>3 DEF PopulateFileDescriptors
    <3> QED
      BY <3>1, <3>2, <3>3
  <2> QED
    BY <1>a, <1>3, <2>1, <2>2 DEF PopulateFileDescriptors, TypeOK, PCs
<1>4. CASE Select
  <2>1. Readable \subseteq (1..MAXJOBS) \X Streams
    BY <1>0 DEF Readable
  <2> QED
    BY <1>0, <1>a, <1>4, <2>1 DEF Select, TypeOK, PCs, world
<1>5. CASE SelectTimeout
  BY <1>a, <1>5 DEF SelectTimeout, TypeOK, PCs, world
<1>6. CASE ReadOut
  BY <1>a, <1>6 DEF ReadOut, ReadDescriptor, TypeOK, PCs, Streams
<1>7. CASE ReadErr
  BY <1>a, <1>7 DEF ReadErr, ReadDescriptor, TypeOK, PCs, Streams
<1>8. CASE NotDone
  <2>1. /\ pc' \in PCs /\ i' \in 1..MAXJOBS
        /\ ready' \subseteq ready /\ eof' = {}
    BY <1>0, <1>a, <1>8, NextSlotType DEF NotDone, Due, PCs
  <2> QED
    BY <1>a, <1>8, <2>1 DEF NotDone, TypeOK, world
<1>9. CASE CloseStreams
  <2>1. cmdtab' \in [1..MAXJOBS -> [pid : 0..NumCommands, fd : SUBSET Streams, exit_reason : Reasons]]
    BY <1>a, <1>9 DEF CloseStreams
  <2>2. lost' \subseteq Commands
    <3>1. i \in Used
      BY <1>0, <1>9 DEF CloseStreams, Due
    <3>2. cmdtab[i].pid \in Commands
      BY <1>0, <3>1 DEF Placed, Live
    <3> QED
      BY <1>a, <1>9, <3>2 DEF CloseStreams
  <2>3. unread' \subseteq Commands \X Streams
    BY <1>a, <1>9 DEF CloseStreams
  <2> QED
    BY <1>a, <1>9, <2>1, <2>2, <2>3 DEF CloseStreams, TypeOK, PCs
<1>10. CASE Reap
  <2> DEFINE c == cmdtab[i].pid
             r == Reason(proc[c].state, cmdtab[i].exit_reason)
  <2>1. i \in Used
    BY <1>0, <1>10 DEF Reap, Due
  <2>2. c \in Commands
    BY <1>0, <2>1 DEF Placed, Live
  <2>3. r \in Reasons
    BY <1>a, <2>2 DEF Reason, Reasons
  <2>4. cmdtab' \in [1..MAXJOBS -> [pid : 0..NumCommands, fd : SUBSET Streams, exit_reason : Reasons]]
    <3>1. cmdtab' = [cmdtab EXCEPT ![i].pid = 0, ![i].exit_reason = r]
      BY <1>10 DEF Reap
    <3>2. 0 \in 0..NumCommands
      BY ExecUnixAssumption
    <3> HIDE DEF r
    <3> QED
      BY <1>a, <2>3, <3>1, <3>2, Freed
  <2>5. told' \in [Commands -> [status : {"none", "ok", "fail"}, reason : Reasons]]
    <3>1. told' = [told EXCEPT ![c] = [status |-> IF proc[c].state = "ok" THEN "ok" ELSE "fail",
                                       reason |-> r]]
      BY <1>10 DEF Reap
    <3> HIDE DEF r
    <3> QED
      BY <1>a, <2>2, <2>3, <3>1
  <2>6. proc' \in [Commands -> [state : Leader, holds : SUBSET Streams]]
    BY <1>a, <1>10, <2>2 DEF Reap
  <2>7. cmdsrunning' \in 0..MAXJOBS
    <3>1. cmdsrunning # 0
      BY <1>0, <2>1, Finiteness, FS_EmptySet DEF Counted
    <3> QED
      BY <1>0, <1>a, <1>10, <3>1 DEF Reap
  <2>8. /\ pc' \in PCs /\ i' \in 1..MAXJOBS
        /\ ready' \subseteq ready /\ eof' = {}
    BY <1>0, <1>10, NextSlotType DEF Reap, Due, PCs
  <2>9. overdue' \subseteq Commands
    BY <1>a, <1>10 DEF Reap
  <2> QED
    BY <1>a, <1>10, <2>4, <2>5, <2>6, <2>7, <2>8, <2>9 DEF Reap, TypeOK
<1>11. CASE ExecReturn
  BY <1>a, <1>11 DEF ExecReturn, TypeOK, PCs, world
<1>12. CASE ExecWaitIdle \/ UNCHANGED vars
  BY <1>a, <1>12 DEF ExecWaitIdle, TypeOK, vars, engine, world
<1>13. ASSUME NEW c \in Commands, Group(c) PROVE TypeOK'
  <2>1. ASSUME NEW s \in Streams, Write(c, s) PROVE TypeOK'
    BY <1>a, <2>1 DEF Write, TypeOK, engine
  <2>2. ASSUME NEW s \in Streams, Close(c, s) PROVE TypeOK'
    <3>1. proc' \in [Commands -> [state : Leader, holds : SUBSET Streams]]
      BY <1>a, <1>b, <2>2 DEF Close
    <3> QED
      BY <1>a, <2>2, <3>1 DEF Close, TypeOK, engine
  <2>3. ASSUME NEW end \in Ends, NEW held \in SUBSET Streams, Exit(c, end, held) PROVE TypeOK'
    <3>1. proc' \in [Commands -> [state : Leader, holds : SUBSET Streams]]
      BY <1>a, <2>3 DEF Exit, Leader
    <3> QED
      BY <1>a, <2>3, <3>1 DEF Exit, TypeOK, engine
  <2>4. ASSUME TimeUp(c) PROVE TypeOK'
    BY <1>a, <2>4 DEF TimeUp, TypeOK, engine
  <2> QED
    BY <1>13, <2>1, <2>2, <2>3, <2>4 DEF Group
<1> QED
  BY <1>1, <1>2, <1>3, <1>4, <1>5, <1>6, <1>7, <1>8, <1>9, <1>10, <1>11, <1>12, <1>13
     DEF Next, Engine

-----------------------------------------------------------------------------
(***************************************************************************)
(* What the steps do to the slots in use and to the live commands.         *)
(***************************************************************************)

LEMMA LaunchUses ==
  ASSUME IInv, TypeOK', ExecCmd
  PROVE  \E c \in Commands :
           /\ c \notin Live /\ proc[c].state = "new"
           /\ Live' = Live \cup {c} /\ Used' = Used \cup {Slot}
           /\ Slot \notin Used /\ Slot \in 1..globs.jobs
           /\ cmdtab'[Slot].pid = c
           /\ \A s \in 1..MAXJOBS : s # Slot => cmdtab'[s] = cmdtab[s]
           /\ proc'[c].state = "run"
           /\ \A d \in Commands : d # c => proc'[d] = proc[d]
<1>0. TypeOK /\ Counted /\ Placed /\ Told /\ Bounded
  BY DEF IInv
<1>1. PICK c \in 1..globs.commands :
        /\ proc[c].state = "new"
        /\ proc' = [proc EXCEPT ![c] = [state |-> "run", holds |-> Pipes]]
        /\ cmdtab' = [cmdtab EXCEPT ![Slot].pid = c, ![Slot].fd = Pipes]
  BY DEF ExecCmd
<1>2. c \in Commands /\ c \in 0..NumCommands /\ c # 0
  <2>1. globs.commands \in 0..NumCommands /\ NumCommands \in Nat
    BY <1>0, ExecUnixAssumption DEF TypeOK
  <2> QED
    BY <2>1 DEF Commands
<1>3. Slot \in 1..globs.jobs /\ Slot \in 1..MAXJOBS /\ Slot \notin Used
  BY <1>0, SlotIsServed DEF ExecCmd, Bounded
<1>4. cmdtab'[Slot].pid = c /\ \A s \in 1..MAXJOBS : s # Slot => cmdtab'[s] = cmdtab[s]
  <2>1. Pipes \in SUBSET Streams
    BY DEF Pipes, Streams
  <2> QED
    BY <1>0, <1>1, <1>2, <1>3, <2>1, Launched DEF TypeOK
<1>5. Used' = Used \cup {Slot}
  BY <1>2, <1>3, <1>4 DEF Used
<1>6. proc'[c].state = "run" /\ \A d \in Commands : d # c => proc'[d] = proc[d]
  BY <1>0, <1>1, <1>2 DEF TypeOK
<1>7. c \notin Live
  BY <1>1 DEF Live
<1>8. told[c].status = "none"
  BY <1>0, <1>1, <1>2 DEF Told
<1>9. Live' = Live \cup {c}
  BY <1>2, <1>6, <1>8 DEF Live, ExecCmd
<1> QED
  BY <1>1, <1>2, <1>3, <1>4, <1>5, <1>6, <1>7, <1>9

LEMMA ReapFrees ==
  ASSUME IInv, TypeOK', Reap
  PROVE  LET c == cmdtab[i].pid
         IN  /\ c \in Live /\ i \in Used
             /\ proc[c].state \notin {"new", "run"}
             /\ Live' = Live \ {c} /\ Used' = Used \ {i}
             /\ \A s \in 1..MAXJOBS : s # i => cmdtab'[s] = cmdtab[s]
             /\ cmdtab'[i].fd = {}
             /\ \A d \in Commands : proc'[d].state = proc[d].state
             /\ told'[c].status = IF proc[c].state = "ok" THEN "ok" ELSE "fail"
             /\ \A d \in Commands : d # c => told'[d] = told[d]
<1> DEFINE c == cmdtab[i].pid
           r == Reason(proc[c].state, cmdtab[i].exit_reason)
<1>0. TypeOK /\ Counted /\ Placed /\ Told /\ Due
  BY DEF IInv
<1>1. i \in Used /\ i \in 1..MAXJOBS /\ cmdtab[i].fd = {}
  BY <1>0 DEF Reap, Due, Used
<1>2. c \in Live /\ c \in Commands /\ proc[c].state \notin {"new", "run"}
  BY <1>0, <1>1 DEF Placed, Live, Reap
<1>3. /\ cmdtab'[i].pid = 0 /\ cmdtab'[i].fd = {}
      /\ \A s \in 1..MAXJOBS : s # i => cmdtab'[s] = cmdtab[s]
  <2>1. cmdtab' = [cmdtab EXCEPT ![i].pid = 0, ![i].exit_reason = r]
    BY DEF Reap
  <2>2. r \in Reasons /\ 0 \in 0..NumCommands
    BY <1>0, <1>1, ExecUnixAssumption DEF TypeOK, Reason, Reasons
  <2>3. cmdtab \in [1..MAXJOBS -> [pid : 0..NumCommands, fd : SUBSET Streams, exit_reason : Reasons]]
    BY <1>0 DEF TypeOK
  <2> HIDE DEF r
  <2> QED
    BY <1>1, <2>1, <2>2, <2>3, Freed
<1>4. Used' = Used \ {i}
  BY <1>1, <1>3 DEF Used
<1>5. \A d \in Commands : proc'[d].state = proc[d].state
  BY <1>0, <1>2 DEF Reap, TypeOK
<1>6. /\ told'[c].status = IF proc[c].state = "ok" THEN "ok" ELSE "fail"
      /\ \A d \in Commands : d # c => told'[d] = told[d]
  BY <1>0, <1>2 DEF Reap, TypeOK
<1>7. Live' = Live \ {c}
  BY <1>2, <1>5, <1>6 DEF Live
<1> QED
  BY <1>1, <1>2, <1>3, <1>4, <1>5, <1>6, <1>7

\* A command does not go back to being new.
LEMMA QuietStep ==
  ASSUME IInv, [Next]_vars, ~ExecCmd, ~Reap
  PROVE  /\ told' = told /\ cmdsrunning' = cmdsrunning
         /\ \A s \in 1..MAXJOBS : /\ cmdtab'[s].pid = cmdtab[s].pid
                                  /\ cmdtab'[s].fd \subseteq cmdtab[s].fd
         /\ \A c \in Commands :
              /\ proc'[c].state = "new" <=> proc[c].state = "new"
              /\ proc'[c].state # proc[c].state =>
                    proc[c].state = "run" /\ proc'[c].state \in {"stopped"} \cup Ends
<1>0. TypeOK
  BY DEF IInv
<1>1. CASE \/ ExecWait \/ Select \/ SelectTimeout \/ ReadOut \/ ReadErr \/ NotDone
           \/ ExecReturn \/ ExecWaitIdle \/ UNCHANGED vars
  BY <1>1 DEF ExecWait, Select, SelectTimeout, ReadOut, ReadErr, NotDone,
              ExecReturn, ExecWaitIdle, vars, engine, world
<1>2. CASE PopulateFileDescriptors
  <2>1. \A s \in 1..MAXJOBS : cmdtab'[s].pid = cmdtab[s].pid /\ cmdtab'[s].fd = cmdtab[s].fd
    BY <1>0, <1>2 DEF PopulateFileDescriptors, TypeOK
  <2>2. \A c \in Commands : proc'[c] \in {proc[c], KillGroup(proc[c])}
    BY <1>2 DEF PopulateFileDescriptors
  <2> QED
    BY <1>2, <2>1, <2>2 DEF PopulateFileDescriptors, KillGroup
<1>3. CASE CloseStreams
  BY <1>0, <1>3 DEF CloseStreams, TypeOK
<1>4. ASSUME NEW c \in Commands, Group(c)
      PROVE  /\ UNCHANGED <<told, cmdsrunning, cmdtab>>
             /\ \A d \in Commands : proc'[d].state # proc[d].state =>
                  proc[d].state = "run" /\ proc'[d].state \in Ends
  <2>1. CASE \E s \in Streams : Write(c, s) \/ Close(c, s)
    BY <1>0, <2>1 DEF Write, Close, TypeOK, engine
  <2>2. CASE \E end \in Ends, held \in SUBSET Streams : Exit(c, end, held)
    BY <1>0, <2>2 DEF Exit, TypeOK, engine
  <2>3. CASE TimeUp(c)
    BY <2>3 DEF TimeUp, engine
  <2> QED
    BY <1>4, <2>1, <2>2, <2>3 DEF Group
<1>5. CASE \E c \in Commands : Group(c)
  BY <1>4, <1>5 DEF Ends
<1> QED
  BY <1>1, <1>2, <1>3, <1>5 DEF Next, Engine

LEMMA QuietSets ==
  ASSUME IInv, [Next]_vars, ~ExecCmd, ~Reap
  PROVE  Used' = Used /\ Live' = Live
<1>1. Used' = Used
  BY QuietStep DEF Used
<1>2. Live' = Live
  BY QuietStep DEF Live
<1> QED
  BY <1>1, <1>2

LEMMA GlobsStep == [Next]_vars => globs' = globs
BY DEF Next, Engine, vars, engine, world, ExecCmd, ExecWait, PopulateFileDescriptors,
       Select, SelectTimeout, ReadOut, ReadErr, NotDone, CloseStreams, Reap, ExecReturn,
       ExecWaitIdle, Group, Write, Close, Exit, TimeUp

-----------------------------------------------------------------------------
(***************************************************************************)
(* The invariant, part by part.                                            *)
(***************************************************************************)

LEMMA CountedStep ==
  ASSUME IInv, TypeOK', [Next]_vars
  PROVE  Counted'
<1>0. TypeOK /\ Counted /\ IsFiniteSet(Used) /\ IsFiniteSet(Live)
  BY Finiteness DEF IInv
<1>1. CASE ExecCmd
  <2>1. PICK c \in Commands : /\ c \notin Live /\ Live' = Live \cup {c}
                              /\ Slot \notin Used /\ Used' = Used \cup {Slot}
    BY <1>1, LaunchUses
  <2>2. Cardinality(Live') = Cardinality(Live) + 1
    BY <1>0, <2>1, FS_AddElement
  <2>3. Cardinality(Used') = Cardinality(Used) + 1
    BY <1>0, <2>1, FS_AddElement
  <2> QED
    BY <1>0, <1>1, <2>2, <2>3 DEF Counted, ExecCmd
<1>2. CASE Reap
  <2>1. /\ cmdtab[i].pid \in Live /\ Live' = Live \ {cmdtab[i].pid}
        /\ i \in Used /\ Used' = Used \ {i}
    BY <1>2, ReapFrees
  <2>2. Cardinality(Live') = Cardinality(Live) - 1
    BY <1>0, <2>1, FS_RemoveElement
  <2>3. Cardinality(Used') = Cardinality(Used) - 1
    BY <1>0, <2>1, FS_RemoveElement
  <2> QED
    BY <1>0, <1>2, <2>2, <2>3 DEF Counted, Reap
<1>3. CASE ~ExecCmd /\ ~Reap
  <2>1. Used' = Used /\ Live' = Live /\ cmdsrunning' = cmdsrunning
    BY <1>3, QuietSets, QuietStep
  <2> QED
    BY <1>0, <2>1 DEF Counted
<1> QED
  BY <1>1, <1>2, <1>3

LEMMA PlacedStep ==
  ASSUME IInv, TypeOK', [Next]_vars
  PROVE  Placed'
<1>0. /\ TypeOK /\ Placed /\ globs' = globs
      /\ \A s \in Used : s \in 1..MAXJOBS
  BY GlobsStep DEF IInv, Used
<1>1. CASE ExecCmd
  <2>1. PICK c \in Commands :
          /\ c \notin Live /\ Live' = Live \cup {c}
          /\ Slot \notin Used /\ Used' = Used \cup {Slot}
          /\ Slot \in 1..globs.jobs /\ cmdtab'[Slot].pid = c
          /\ \A s \in 1..MAXJOBS : s # Slot => cmdtab'[s] = cmdtab[s]
    BY <1>1, LaunchUses
  <2> HIDE DEF Used, Live
  <2>2. Used' \subseteq 1..globs'.jobs
    BY <1>0, <2>1 DEF Placed
  <2>3. \A s \in Used' : cmdtab'[s].pid \in Live'
    BY <1>0, <2>1 DEF Placed
  <2>4. \A s, k \in Used' : cmdtab'[s].pid = cmdtab'[k].pid => s = k
    BY <1>0, <2>1 DEF Placed
  <2>5. \A s \in 1..MAXJOBS : cmdtab'[s].fd # {} => s \in Used'
    BY <1>0, <2>1 DEF Placed
  <2> QED
    BY <2>2, <2>3, <2>4, <2>5 DEF Placed
<1>2. CASE Reap
  <2>1. /\ Live' = Live \ {cmdtab[i].pid}
        /\ i \in Used /\ Used' = Used \ {i}
        /\ \A s \in 1..MAXJOBS : s # i => cmdtab'[s] = cmdtab[s]
        /\ cmdtab'[i].fd = {}
    BY <1>2, ReapFrees
  <2>2. Used' \subseteq 1..globs'.jobs
    BY <1>0, <2>1 DEF Placed
  <2>3. \A s \in Used' : cmdtab'[s].pid \in Live'
    BY <1>0, <2>1 DEF Placed
  <2>4. \A s, k \in Used' : cmdtab'[s].pid = cmdtab'[k].pid => s = k
    BY <1>0, <2>1 DEF Placed
  <2>5. \A s \in 1..MAXJOBS : cmdtab'[s].fd # {} => s \in Used'
    BY <1>0, <2>1 DEF Placed
  <2> QED
    BY <2>2, <2>3, <2>4, <2>5 DEF Placed
<1>3. CASE ~ExecCmd /\ ~Reap
  <2>1. /\ Used' = Used /\ Live' = Live
        /\ \A s \in 1..MAXJOBS : cmdtab'[s].pid = cmdtab[s].pid /\ cmdtab'[s].fd \subseteq cmdtab[s].fd
    BY <1>3, QuietSets, QuietStep
  <2> QED
    BY <1>0, <2>1 DEF Placed
<1> QED
  BY <1>1, <1>2, <1>3

LEMMA ToldStep ==
  ASSUME IInv, TypeOK', [Next]_vars
  PROVE  Told'
<1>0. TypeOK /\ Told
  BY DEF IInv
<1>1. CASE ExecCmd
  <2>1. PICK c \in Commands : /\ proc[c].state = "new"
                              /\ \A d \in Commands : d # c => proc'[d] = proc[d]
    BY <1>1, LaunchUses
  <2>2. told' = told
    BY <1>1 DEF ExecCmd
  <2> QED
    BY <1>0, <2>1, <2>2 DEF Told
<1>2. CASE Reap
  BY <1>0, <1>2, ReapFrees DEF Told
<1>3. CASE ~ExecCmd /\ ~Reap
  BY <1>0, <1>3, QuietStep DEF Told, Ends
<1> QED
  BY <1>1, <1>2, <1>3

LEMMA BoundedStep ==
  ASSUME IInv, TypeOK', [Next]_vars
  PROVE  Bounded'
<1>0. /\ TypeOK /\ Bounded /\ Due /\ globs' = globs
      /\ globs.jobs \in Nat /\ MAXJOBS \in Nat /\ globs.jobs <= MAXJOBS
      /\ cmdsrunning \in Nat /\ finished \in BOOLEAN
  BY GlobsStep, JobsType DEF IInv, TypeOK
<1>1. CASE ExecCmd
  BY <1>0, <1>1 DEF ExecCmd, Bounded, Limit
<1>2. CASE Reap
  <2>1. NextSlot(TRUE) /\ finished' = TRUE /\ cmdsrunning' = cmdsrunning - 1 /\ i <= globs.jobs
    BY <1>0, <1>2 DEF Reap, Due
  <2>2. pc' \in {"out", "return", "wait"}
    BY <2>1 DEF NextSlot
  <2>3. cmdsrunning' < globs'.jobs
    BY <1>0, <2>1 DEF Bounded
  <2>4. cmdsrunning' <= globs'.jobs
    BY <1>0, <2>1 DEF Bounded
  <2> QED
    BY <2>1, <2>2, <2>3, <2>4 DEF Bounded
<1>3. CASE ExecReturn
  BY <1>0, <1>3 DEF ExecReturn, Bounded, Limit
<1>4. CASE NotDone
  BY <1>0, <1>4, NextSlotType DEF NotDone, Bounded, Due
<1>5. CASE ExecWait \/ PopulateFileDescriptors \/ Select \/ SelectTimeout \/ ReadOut
           \/ ReadErr \/ CloseStreams
  BY <1>0, <1>5 DEF ExecWait, PopulateFileDescriptors, Select, SelectTimeout, ReadOut,
                    ReadErr, CloseStreams, Bounded
<1>6. CASE ExecWaitIdle \/ UNCHANGED vars
  BY <1>0, <1>6 DEF ExecWaitIdle, vars, engine, Bounded
<1>7. CASE \E c \in Commands : Group(c)
  <2>1. UNCHANGED <<pc, cmdsrunning, finished>>
    BY <1>7 DEF Group, Write, Close, Exit, TimeUp, engine
  <2> QED
    BY <1>0, <2>1 DEF Bounded
<1> QED
  BY <1>1, <1>2, <1>3, <1>4, <1>5, <1>6, <1>7 DEF Next, Engine

\* NextSlot() keeps what is due of the slots after i.
LEMMA NextSlotDue ==
  ASSUME IInv, NEW done \in BOOLEAN, NextSlot(done), globs' = globs,
         \A x \in ready : x[1] > i => x[1] \in Used'
  PROVE  Due'
<1>0. TypeOK /\ Due
  BY DEF IInv
<1>1. /\ pc' \in {"out", "return", "wait"} /\ eof' = {} /\ i' <= globs.jobs
      /\ ready' \subseteq ready
      /\ pc' = "out" => i' = i + 1
  BY <1>0, NextSlotType DEF Due
<1>2. ASSUME pc' = "out", NEW x \in ready', x[1] >= i' PROVE x[1] \in Used'
  <2>1. x \in ready /\ x[1] \in Nat /\ i \in Nat
    <3>1. i \in 1..MAXJOBS /\ MAXJOBS \in Nat /\ ready \subseteq (1..MAXJOBS) \X Streams
      BY <1>0, JobsType DEF TypeOK
    <3>2. x \in ready
      BY <1>1, <1>2
    <3> QED
      BY <3>1, <3>2
  <2>2. i' = i + 1
    BY <1>1, <1>2
  <2>3. x[1] > i
    BY <1>2, <2>1, <2>2
  <2> QED
    BY <2>1, <2>3
<1> QED
  BY <1>1, <1>2 DEF Due

LEMMA DueStep ==
  ASSUME IInv, TypeOK', [Next]_vars
  PROVE  Due'
<1>0. /\ TypeOK /\ Placed /\ Due /\ globs' = globs
      /\ globs.jobs \in 1..MAXJOBS /\ globs.jobs \in Nat /\ MAXJOBS \in Nat
      /\ i \in Nat /\ \A x \in ready : x[1] \in Nat
  <2>1. TypeOK /\ Placed /\ Due /\ globs' = globs
    BY GlobsStep DEF IInv
  <2>2. globs.jobs \in 1..MAXJOBS /\ globs.jobs \in Nat /\ MAXJOBS \in Nat
    BY <2>1, JobsType
  <2>3. i \in 1..MAXJOBS /\ ready \subseteq (1..MAXJOBS) \X Streams
    BY <2>1 DEF TypeOK
  <2>4. \A x \in ready : x[1] \in Nat
    BY <2>2, <2>3
  <2> QED
    BY <2>1, <2>2, <2>3, <2>4
<1>1. CASE ExecCmd
  <2>1. pc' \in {"wait", "make1"} /\ i' = i
    BY <1>1 DEF ExecCmd
  <2> QED
    BY <1>0, <2>1 DEF Due
<1>2. CASE Reap
  <2>1. /\ pc = "waitpid" /\ NextSlot(TRUE)
        /\ \A x \in ready : x[1] > i => x[1] \in Used
    BY <1>0, <1>2 DEF Reap, Due
  <2>2. Used' = Used \ {i}
    BY <1>2, ReapFrees
  <2>3. \A x \in ready : x[1] > i => x[1] \in Used'
    BY <1>0, <2>1, <2>2
  <2> QED
    BY <1>0, <2>1, <2>3, NextSlotDue
<1>3. ASSUME ~ExecCmd, ~Reap PROVE Used' = Used
  BY <1>3, QuietSets
<1>4. CASE NotDone
  <2>1. pc = "feof" /\ NextSlot(finished) /\ finished \in BOOLEAN
    BY <1>0, <1>4 DEF NotDone, TypeOK
  <2>2. \A x \in ready : x[1] > i => x[1] \in Used'
    BY <1>0, <1>3, <1>4, <2>1 DEF NotDone, Due, ExecCmd, Reap
  <2> QED
    BY <1>0, <2>1, <2>2, NextSlotDue
<1>5. CASE Select
  <2>1. ready' = Readable /\ i' = 1 /\ eof' = {} /\ pc' = "out" /\ Used' = Used
    BY <1>3, <1>5 DEF Select, ExecCmd, Reap
  <2>2. \A x \in Readable : x[1] \in 1..MAXJOBS /\ cmdtab[x[1]].fd # {}
    BY <1>0 DEF Readable
  <2>3. \A x \in ready' : x[1] \in Used'
    BY <1>0, <2>1, <2>2 DEF Placed
  <2> QED
    BY <1>0, <2>1, <2>3 DEF Due
<1>6. CASE ReadOut \/ ReadErr
  <2>1. /\ pc \in {"out", "err"} /\ pc' \in {"err", "feof"}
        /\ ready' = ready /\ i' = i /\ Used' = Used
    BY <1>3, <1>6 DEF ReadOut, ReadErr, ExecCmd, Reap
  <2>2. \A x \in ready : x[1] >= i => x[1] \in Used
    BY <1>0, <2>1 DEF Due
  <2>3. eof' # {} => i \in Used
    <3>1. CASE \E s \in Streams : <<i, s>> \in ready
      BY <1>0, <2>2, <3>1
    <3>2. CASE ~\E s \in Streams : <<i, s>> \in ready
      <4>1. eof' = eof
        BY <1>6, <3>2 DEF ReadOut, ReadErr, ReadDescriptor, Streams
      <4> QED
        BY <1>0, <2>1, <4>1 DEF Due
    <3> QED
      BY <3>1, <3>2
  <2> QED
    BY <1>0, <2>1, <2>2, <2>3 DEF Due
<1>7. CASE CloseStreams
  <2>1. /\ pc = "feof" /\ eof # {} /\ pc' = "waitpid"
        /\ ready' = ready /\ i' = i /\ Used' = Used
    BY <1>3, <1>7 DEF CloseStreams, ExecCmd, Reap
  <2>2. i \in Used /\ i \in 1..MAXJOBS
    BY <1>0, <2>1 DEF Due, Used
  <2>3. cmdtab'[i].fd = {}
    BY <1>0, <1>7, <2>2 DEF CloseStreams, TypeOK
  <2> QED
    BY <1>0, <2>1, <2>2, <2>3 DEF Due
<1>8. CASE ExecWait \/ PopulateFileDescriptors \/ SelectTimeout \/ ExecReturn
  <2>1. pc' \in {"wait", "select", "make1"} /\ i' = i
    BY <1>8 DEF ExecWait, PopulateFileDescriptors, SelectTimeout, ExecReturn
  <2> QED
    BY <1>0, <2>1 DEF Due
<1>9. CASE ExecWaitIdle \/ UNCHANGED vars
  BY <1>0, <1>9 DEF ExecWaitIdle, vars, engine, Due, Used
<1>10. CASE \E c \in Commands : Group(c)
  <2>1. UNCHANGED <<pc, ready, eof, i, cmdtab>>
    BY <1>10 DEF Group, Write, Close, Exit, TimeUp, engine
  <2> QED
    BY <1>0, <2>1 DEF Due, Used
<1> QED
  BY <1>1, <1>2, <1>4, <1>5, <1>6, <1>7, <1>8, <1>9, <1>10 DEF Next, Engine

LEMMA InvStep == IInv /\ [Next]_vars => IInv'
<1> SUFFICES ASSUME IInv, [Next]_vars PROVE IInv'
  OBVIOUS
<1>1. TypeOK'
  BY TypeStep
<1> QED
  BY <1>1, CountedStep, PlacedStep, ToldStep, BoundedStep, DueStep DEF IInv

LEMMA Invariance == Spec => []IInv
BY InitInv, InvStep, PTL DEF Spec

\* Every variable keeps its type: no -j up to the number of slots, and no
\* order of ends and expiries, makes the loops leave cmdtab.
THEOREM TablesKept == Spec => []TypeOK
BY Invariance, PTL DEF IInv

-----------------------------------------------------------------------------
(***************************************************************************)
(* exec_cmd() always finds a free slot, among those that exec_wait() looks *)
(* at, and no two slots have the same command.                             *)
(***************************************************************************)
THEOREM SlotsAreCovered == Spec => []SlotsCovered
<1>1. IInv => SlotsCovered
  <2> SUFFICES ASSUME IInv PROVE SlotsCovered
    OBVIOUS
  <2>1. pc = "make1" => FreeSlots # {}
    BY SlotIsServed DEF IInv, Bounded
  <2>2. \A s \in 1..MAXJOBS : cmdtab[s].pid # 0 => s <= globs.jobs
    BY JobsType DEF IInv, Placed, Used
  <2>3. \A s, k \in 1..MAXJOBS : cmdtab[s].pid = cmdtab[k].pid /\ s # k => cmdtab[s].pid = 0
    BY DEF IInv, Placed, Used
  <2> QED
    BY <2>1, <2>2, <2>3 DEF SlotsCovered
<1> QED
  BY <1>1, Invariance, PTL

-----------------------------------------------------------------------------
(***************************************************************************)
(* Every step of execunix.c is a step of Execution, or changes nothing     *)
(* that make1() relies on.                                                 *)
(***************************************************************************)

\* Execution counts as this module does.
LEMMA SameCardinality == \A S : Promise!Cardinality(S) = Cardinality(S)
BY Zenon DEF Promise!Cardinality, Cardinality

LEMMA LiveIsRunning ==
  ASSUME TypeOK
  PROVE  Promise!Running = Live
BY DEF Promise!Running, Live, TypeOK

LEMMA InitRefines == Init => Promise!Init
<1> SUFFICES ASSUME Init PROVE Promise!Init
  OBVIOUS
<1>1. TypeOK
  BY InitInv DEF IInv
<1>2. globs.jobs \in Nat \ {0}
  BY <1>1, JobsType
<1>3. [c \in Commands |-> Outcome(proc[c].state)] = [c \in Commands |-> "none"]
  BY DEF Init, Outcome
<1>4. [c \in Commands |-> told[c].status] = [c \in Commands |-> "none"]
  BY DEF Init, None
<1>5. {c \in Commands : proc[c].state # "new"} = {}
  BY DEF Init
<1> QED
  BY <1>2, <1>3, <1>4, <1>5 DEF Promise!Init, Init

LEMMA StepRefines ==
  ASSUME IInv, TypeOK', [Next]_vars
  PROVE  [Promise!Next]_Promise!vars
<1> DEFINE started == {c \in Commands : proc[c].state # "new"}
           outcome == [c \in Commands |-> Outcome(proc[c].state)]
           status  == [c \in Commands |-> told[c].status]
<1>0. /\ TypeOK /\ Counted /\ Bounded /\ Due /\ globs' = globs
      /\ globs.jobs \in Nat /\ MAXJOBS \in Nat /\ globs.jobs <= MAXJOBS
      /\ IsFiniteSet(Live) /\ cmdsrunning \in Nat
  <2>1. TypeOK /\ Counted /\ Bounded /\ Due /\ globs' = globs
    BY GlobsStep DEF IInv
  <2>2. globs.jobs \in 1..MAXJOBS /\ globs.jobs \in Nat /\ MAXJOBS \in Nat
    BY <2>1, JobsType
  <2>3. cmdsrunning \in 0..MAXJOBS
    BY <2>1 DEF TypeOK
  <2> QED
    BY <2>1, <2>2, <2>3, Finiteness
<1>a. Promise!Running = Live
  BY <1>0, LiveIsRunning
<1>b. cmdsrunning = Cardinality(Live) /\ cmdsrunning = Promise!Cardinality(Promise!Running)
  BY <1>0, <1>a, SameCardinality DEF Counted
<1>1. CASE ExecCmd
  <2>1. PICK c \in Commands :
          /\ proc[c].state = "new" /\ proc'[c].state = "run"
          /\ \A d \in Commands : d # c => proc'[d] = proc[d]
    BY <1>1, LaunchUses
  <2>2. /\ pc = "make1" /\ told' = told /\ finished' = finished
        /\ pc' = IF Limit(cmdsrunning + 1) THEN "wait" ELSE "make1"
    BY <1>1 DEF ExecCmd
  <2>3. cmdsrunning < globs.jobs
    BY <1>0, <2>2 DEF Bounded
  <2>4. (pc' # "make1") = (cmdsrunning + 1 = globs.jobs)
    BY <1>0, <2>2, <2>3 DEF Limit
  <2>5. started' = started \cup {c} /\ c \notin started
    BY <2>1
  <2>6. outcome' = outcome
    BY <2>1 DEF Outcome
  <2>7. status' = status
    BY <2>2
  <2>8. Promise!Start(c)
    BY <1>0, <1>b, <2>2, <2>3, <2>4, <2>5, <2>6, <2>7 DEF Promise!Start
  <2> QED
    BY <2>1, <2>8 DEF Promise!Next
<1>2. CASE Reap
  <2>3. PICK c \in Commands : c = cmdtab[i].pid
    <3>1. cmdtab[i].pid \in Live
      BY <1>2, ReapFrees
    <3> QED
      BY <3>1 DEF Live
  <2>1. /\ c \in Live /\ proc[c].state \notin {"new", "run"}
        /\ \A d \in Commands : proc'[d].state = proc[d].state
        /\ told'[c].status = IF proc[c].state = "ok" THEN "ok" ELSE "fail"
        /\ \A d \in Commands : d # c => told'[d] = told[d]
    BY <1>2, <2>3, ReapFrees
  <2>2. pc = "waitpid" /\ pc' # "make1" /\ finished' = TRUE
    BY <1>2 DEF Reap, NextSlot
  <2>4. started' = started
    BY <2>1
  <2>5. outcome' = outcome
    BY <2>1
  <2>6. outcome[c] # "none" /\ told'[c].status = outcome[c]
    BY <2>1, <2>3 DEF Outcome
  <2>7. status' = [status EXCEPT ![c] = outcome[c]]
    BY <2>1, <2>3, <2>6
  <2>8. Promise!Report(c)
    BY <1>a, <2>1, <2>2, <2>4, <2>5, <2>6, <2>7, <1>0 DEF Promise!Report
  <2> QED
    BY <2>8 DEF Promise!Next
<1>3. CASE ExecWait
  <2>1. cmdsrunning # 0 /\ pc = "make1" /\ pc' = "wait"
    BY <1>3 DEF ExecWait
  <2>2. Live # {}
    BY <1>0, <1>b, <2>1, FS_EmptySet
  <2>3. UNCHANGED <<proc, told, finished, globs>>
    BY <1>3 DEF ExecWait, world
  <2>4. started' = started /\ outcome' = outcome /\ status' = status
    BY <2>3
  <2>5. Promise!Wait
    BY <1>0, <1>a, <2>1, <2>2, <2>3, <2>4 DEF Promise!Wait
  <2> QED
    BY <2>5 DEF Promise!Next
<1>4. CASE ExecReturn
  <2>1. /\ pc = "return" /\ finished /\ cmdsrunning < globs.jobs
        /\ UNCHANGED <<proc, told, globs>> /\ finished' = FALSE
    BY <1>0, <1>4 DEF ExecReturn, world, Bounded
  <2>2. pc' = "make1"
    BY <1>0, <1>4, <2>1 DEF ExecReturn, Limit
  <2> QED
    BY <1>0, <1>a, <1>b, <2>1, <2>2 DEF Promise!Return, Promise!Next
<1>5. CASE ~ExecCmd /\ ~Reap /\ ~ExecWait /\ ~ExecReturn
  <2>1. /\ told' = told
        /\ \A c \in Commands :
             /\ proc'[c].state = "new" <=> proc[c].state = "new"
             /\ proc'[c].state # proc[c].state =>
                   proc[c].state = "run" /\ proc'[c].state \in {"stopped"} \cup Ends
    BY <1>5, QuietStep
  <2>2. finished' = finished /\ (pc' = "make1" <=> pc = "make1")
    <3>1. CASE NotDone
      BY <3>1 DEF NotDone, NextSlot
    <3>2. CASE PopulateFileDescriptors \/ Select \/ SelectTimeout \/ ReadOut \/ ReadErr
               \/ CloseStreams \/ ExecWaitIdle \/ UNCHANGED vars
      BY <3>2 DEF PopulateFileDescriptors, Select, SelectTimeout, ReadOut, ReadErr,
                  CloseStreams, ExecWaitIdle, vars, engine
    <3>3. CASE \E c \in Commands : Group(c)
      BY <3>3 DEF Group, Write, Close, Exit, TimeUp, engine
    <3> QED
      BY <1>5, <3>1, <3>2, <3>3 DEF Next, Engine
  <2>3. started' = started /\ status' = status
    BY <2>1
  <2>4. outcome' \in [Commands -> {"none", "ok", "fail"}]
    BY DEF Outcome
  <2>5. \A c \in Commands : outcome'[c] # outcome[c] => c \in started /\ outcome[c] = "none"
    BY <2>1 DEF Outcome
  <2> QED
    BY <1>0, <2>2, <2>3, <2>4, <2>5 DEF Promise!End, Promise!Outcomes, Promise!Next
<1> QED
  BY <1>1, <1>2, <1>3, <1>4, <1>5

\* execunix.c does what make1() relies on: commands up to the limit, each
\* reported once with its own outcome, and waits that end with a report.
THEOREM ExecUnixImplements == Spec => ImplementsExecution
<1>1. IInv /\ [Next]_vars => [Promise!Next]_Promise!vars
  BY InvStep, StepRefines DEF IInv
<1> QED
  BY <1>1, InitRefines, Invariance, PTL DEF Spec, ImplementsExecution, Promise!Spec

-----------------------------------------------------------------------------
(***************************************************************************)
(* Exit reasons.                                                           *)
(***************************************************************************)

\* The slot of a command that the time limit stopped says so.
Reasoned ==
  \A s \in Used : proc[cmdtab[s].pid].state = "stopped" => cmdtab[s].exit_reason = "EXIT_TIMEOUT"

\* Until then only commands that are killed change state, and their slots are marked.
LEMMA ReasonedQuiet ==
  ASSUME IInv, Reasoned, [Next]_vars, ~ExecCmd, ~Reap
  PROVE  Reasoned'
<1>0. /\ TypeOK /\ Placed /\ Used' = Used
      /\ \A s \in Used : s \in 1..MAXJOBS /\ cmdtab[s].pid \in Commands /\ cmdtab'[s].pid = cmdtab[s].pid
  BY QuietStep, QuietSets DEF IInv, Used, Placed, Live
<1>1. SUFFICES ASSUME NEW s \in Used, proc'[cmdtab[s].pid].state = "stopped"
               PROVE  cmdtab'[s].exit_reason = "EXIT_TIMEOUT"
  BY <1>0 DEF Reasoned
<1>2. CASE PopulateFileDescriptors
  <2>1. CASE s \in Expired
    BY <1>0, <1>2, <2>1 DEF PopulateFileDescriptors, TypeOK
  <2>2. CASE s \notin Expired
    <3>1. ~\E k \in Expired : cmdtab[k].pid = cmdtab[s].pid
      <4> SUFFICES ASSUME NEW k \in Expired, cmdtab[k].pid = cmdtab[s].pid PROVE FALSE
        OBVIOUS
      <4>1. k \in 1..MAXJOBS
        BY <1>0, JobsType DEF Expired
      <4>2. k \in Used
        BY <1>0, <4>1 DEF Used
      <4>3. k = s
        BY <1>0, <4>2 DEF Placed
      <4> QED
        BY <2>2, <4>3
    <3>2. proc'[cmdtab[s].pid] = proc[cmdtab[s].pid]
      BY <1>0, <1>2, <3>1 DEF PopulateFileDescriptors
    <3>3. cmdtab'[s] = cmdtab[s]
      BY <1>0, <1>2, <2>2 DEF PopulateFileDescriptors
    <3> QED
      BY <1>1, <3>2, <3>3 DEF Reasoned
  <2> QED
    BY <2>1, <2>2
<1>3. CASE ~PopulateFileDescriptors
  <2>1. cmdtab'[s].exit_reason = cmdtab[s].exit_reason
    <3>1. CASE CloseStreams
      BY <1>0, <3>1 DEF CloseStreams, TypeOK
    <3>2. CASE \/ ExecWait \/ Select \/ SelectTimeout \/ ReadOut \/ ReadErr \/ NotDone
               \/ ExecReturn \/ ExecWaitIdle \/ UNCHANGED vars
      BY <3>2 DEF ExecWait, Select, SelectTimeout, ReadOut, ReadErr, NotDone,
                  ExecReturn, ExecWaitIdle, vars, engine
    <3>3. CASE \E c \in Commands : Group(c)
      BY <3>3 DEF Group, Write, Close, Exit, TimeUp, engine
    <3> QED
      BY <1>3, <3>1, <3>2, <3>3 DEF Next, Engine
  <2>2. proc'[cmdtab[s].pid].state = proc[cmdtab[s].pid].state
    <3>1. CASE CloseStreams
      BY <3>1 DEF CloseStreams
    <3>2. CASE \/ ExecWait \/ Select \/ SelectTimeout \/ ReadOut \/ ReadErr \/ NotDone
               \/ ExecReturn \/ ExecWaitIdle \/ UNCHANGED vars
      BY <3>2 DEF ExecWait, Select, SelectTimeout, ReadOut, ReadErr, NotDone,
                  ExecReturn, ExecWaitIdle, vars, world
    <3>3. ASSUME NEW c \in Commands, Group(c)
          PROVE  proc'[cmdtab[s].pid].state = proc[cmdtab[s].pid].state
      <4>1. CASE \E t \in Streams : Write(c, t) \/ Close(c, t)
        BY <1>0, <4>1 DEF Write, Close, TypeOK
      <4>2. CASE \E end \in Ends, held \in SUBSET Streams : Exit(c, end, held)
        BY <1>0, <1>1, <4>2 DEF Exit, TypeOK, Ends
      <4>3. CASE TimeUp(c)
        BY <4>3 DEF TimeUp
      <4> QED
        BY <3>3, <4>1, <4>2, <4>3 DEF Group
    <3> QED
      BY <1>3, <3>1, <3>2, <3>3 DEF Next, Engine
  <2> QED
    BY <1>1, <2>1, <2>2 DEF Reasoned
<1> QED
  BY <1>2, <1>3

LEMMA ReasonedStep ==
  ASSUME IInv, IInv', Reasoned, [Next]_vars
  PROVE  Reasoned'
<1>0. TypeOK' /\ TypeOK /\ Placed /\ \A s \in Used : s \in 1..MAXJOBS
  BY DEF IInv, Used
<1>1. CASE ExecCmd
  <2>1. PICK c \in Commands :
          /\ c \notin Live /\ Used' = Used \cup {Slot} /\ Slot \notin Used
          /\ cmdtab'[Slot].pid = c
          /\ \A s \in 1..MAXJOBS : s # Slot => cmdtab'[s] = cmdtab[s]
          /\ proc'[c].state = "run"
          /\ \A d \in Commands : d # c => proc'[d] = proc[d]
    BY <1>0, <1>1, LaunchUses
  <2>2. \A s \in Used : cmdtab[s].pid \in Commands /\ cmdtab[s].pid # c
    BY <1>0, <2>1 DEF Placed, Live
  <2> QED
    BY <1>0, <2>1, <2>2 DEF Reasoned
<1>2. CASE Reap
  <2>1. /\ Used' = Used \ {i}
        /\ \A s \in 1..MAXJOBS : s # i => cmdtab'[s] = cmdtab[s]
        /\ \A d \in Commands : proc'[d].state = proc[d].state
    BY <1>0, <1>2, ReapFrees
  <2>2. \A s \in Used : cmdtab[s].pid \in Commands
    BY <1>0 DEF Placed, Live
  <2> QED
    BY <1>0, <2>1, <2>2 DEF Reasoned
<1>3. CASE ~ExecCmd /\ ~Reap
  BY <1>3, ReasonedQuiet
<1> QED
  BY <1>1, <1>2, <1>3

LEMMA ReportsStep ==
  ASSUME IInv, IInv', Reasoned, ReportsTrue, [Next]_vars
  PROVE  ReportsTrue'
<1>0. TypeOK' /\ TypeOK /\ Placed /\ Told /\ Due
  BY DEF IInv
<1>1. CASE ExecCmd
  <2>1. PICK c \in Commands : /\ proc[c].state = "new"
                              /\ \A d \in Commands : d # c => proc'[d] = proc[d]
    BY <1>0, <1>1, LaunchUses
  <2>2. told' = told
    BY <1>1 DEF ExecCmd
  <2> QED
    BY <2>1, <2>2 DEF ReportsTrue
<1>2. CASE Reap
  <2>1. PICK c \in Commands : c = cmdtab[i].pid
    <3>1. cmdtab[i].pid \in Live
      BY <1>0, <1>2, ReapFrees
    <3> QED
      BY <3>1 DEF Live
  <2>2. /\ i \in Used /\ proc[c].state \notin {"new", "run"}
        /\ \A d \in Commands : proc'[d].state = proc[d].state
        /\ told'[c].status = IF proc[c].state = "ok" THEN "ok" ELSE "fail"
        /\ \A d \in Commands : d # c => told'[d] = told[d]
    BY <1>0, <1>2, <2>1, ReapFrees
  <2>3. told'[c].reason = Reason(proc[c].state, cmdtab[i].exit_reason)
    BY <1>0, <1>2, <2>1 DEF Reap, TypeOK
  <2>4. proc[c].state = "stopped" => cmdtab[i].exit_reason = "EXIT_TIMEOUT"
    BY <2>1, <2>2 DEF Reasoned
  <2>5. proc[c].state \in {"ok", "fail", "signal", "stopped"}
    BY <1>0, <2>2 DEF TypeOK, Leader, Ends
  <2>6. ASSUME NEW d \in Commands, told'[d] # None
        PROVE  /\ proc'[d].state \notin {"new", "run"}
               /\ told'[d].status = "ok" <=> proc'[d].state = "ok"
               /\ proc'[d].state # "signal" => told'[d].reason =
                    CASE proc'[d].state = "ok"   -> "EXIT_OK"
                      [] proc'[d].state = "fail" -> "EXIT_FAIL"
                      [] OTHER                   -> "EXIT_TIMEOUT"
    <3>1. CASE d = c
      BY <2>2, <2>3, <2>4, <2>5, <3>1 DEF Reason
    <3>2. CASE d # c
      BY <2>2, <2>6, <3>2 DEF ReportsTrue
    <3> QED
      BY <3>1, <3>2
  <2> QED
    BY <2>6 DEF ReportsTrue
<1>3. CASE ~ExecCmd /\ ~Reap
  <2>1. /\ told' = told
        /\ \A c \in Commands : proc'[c].state # proc[c].state => proc[c].state = "run"
    BY <1>3, QuietStep
  <2> QED
    BY <2>1 DEF ReportsTrue
<1> QED
  BY <1>1, <1>2, <1>3

\* What is reported of a command is its own: the status it ended with and,
\* unless a signal not sent by bjam ended it, the exit reason, though slots
\* are used again and keep the reason of the command before.
THEOREM ReportsAreTrue == Spec => []ReportsTrue
<1>1. Init => Reasoned /\ ReportsTrue
  BY DEF Init, Reasoned, ReportsTrue, Used, None
<1>2. IInv /\ Reasoned /\ ReportsTrue /\ [Next]_vars => (Reasoned /\ ReportsTrue)'
  BY InvStep, ReasonedStep, ReportsStep
<1> QED
  BY <1>1, <1>2, InitInv, InvStep, PTL DEF Spec

-----------------------------------------------------------------------------
(***************************************************************************)
(* Output.                                                                 *)
(***************************************************************************)

\* With one pipe per command, a command is done with only when nobody can
\* write to its pipe and nothing is in it.
Drained ==
  ~globs.pipes =>
    /\ lost = {}
    /\ pc # "err"
    /\ pc = "feof" /\ eof # {} => LET c == cmdtab[i].pid
                                IN  "OUT" \notin proc[c].holds /\ <<c, "OUT">> \notin unread

LEMMA DrainedStep ==
  ASSUME IInv, Drained, [Next]_vars
  PROVE  Drained'
<1>0. /\ TypeOK /\ Placed /\ Due /\ globs' = globs
      /\ \A s \in Used : cmdtab[s].pid \in Commands
  BY GlobsStep DEF IInv, Placed, Live
<1>1. SUFFICES ASSUME ~globs.pipes PROVE Drained'
  BY <1>0 DEF Drained
<1>2. /\ lost = {} /\ pc # "err"
      /\ pc = "feof" /\ eof # {} => /\ "OUT" \notin proc[cmdtab[i].pid].holds
                                    /\ <<cmdtab[i].pid, "OUT">> \notin unread
  BY <1>1 DEF Drained
<1>3. CASE ReadOut
  <2>1. /\ pc = "out" /\ eof = {} /\ pc' = "feof"
        /\ ReadDescriptor("OUT") /\ UNCHANGED <<lost, cmdtab, i, proc>>
    BY <1>0, <1>1, <1>3 DEF ReadOut, Due
  <2>2. eof' # {} => /\ "OUT" \notin proc[cmdtab[i].pid].holds
                     /\ <<cmdtab[i].pid, "OUT">> \notin unread'
    BY <2>1 DEF ReadDescriptor, AtEnd
  <2> QED
    BY <1>2, <2>1, <2>2 DEF Drained
<1>4. CASE CloseStreams
  <2>1. pc = "feof" /\ eof # {} /\ pc' = "waitpid"
    BY <1>4 DEF CloseStreams
  <2>2. {s \in Pipes : <<cmdtab[i].pid, s>> \in unread} = {}
    BY <1>1, <1>2, <2>1 DEF Pipes
  <2>3. lost' = lost
    BY <1>4, <2>2 DEF CloseStreams
  <2> QED
    BY <1>2, <2>1, <2>3 DEF Drained
<1>5. CASE ExecCmd \/ ExecWait \/ PopulateFileDescriptors \/ Select \/ SelectTimeout \/ ExecReturn
  <2>1. pc' \in {"make1", "wait", "select", "out"} /\ lost' = lost
    BY <1>5 DEF ExecCmd, ExecWait, PopulateFileDescriptors, Select, SelectTimeout, ExecReturn
  <2> QED
    BY <1>2, <2>1 DEF Drained
<1>6. CASE NotDone \/ Reap
  <2>1. pc' \in {"out", "wait", "return"} /\ lost' = lost
    BY <1>6 DEF NotDone, Reap, NextSlot
  <2> QED
    BY <1>2, <2>1 DEF Drained
<1>7. CASE ReadErr
  BY <1>2, <1>7 DEF ReadErr
<1>8. CASE ExecWaitIdle \/ UNCHANGED vars
  BY <1>2, <1>8 DEF ExecWaitIdle, vars, engine, world, Drained
<1>9. ASSUME NEW c \in Commands, Group(c) PROVE Drained'
  <2>1. UNCHANGED <<pc, eof, i, cmdtab, lost>>
    BY <1>9 DEF Group, Write, Close, Exit, TimeUp, engine
  <2>2. \A d \in Commands : proc'[d].holds \subseteq proc[d].holds
    <3>1. CASE \E s \in Streams : Write(c, s) \/ Close(c, s)
      BY <1>0, <3>1 DEF Write, Close, TypeOK
    <3>2. CASE \E end \in Ends, held \in SUBSET Streams : Exit(c, end, held)
      BY <1>0, <3>2 DEF Exit, TypeOK
    <3>3. CASE TimeUp(c)
      BY <3>3 DEF TimeUp
    <3> QED
      BY <1>9, <3>1, <3>2, <3>3 DEF Group
  <2>3. \A d \in Commands : "OUT" \notin proc[d].holds /\ <<d, "OUT">> \notin unread
                              => <<d, "OUT">> \notin unread'
    BY <1>9 DEF Group, Write, Close, Exit, TimeUp
  <2>4. pc = "feof" /\ eof # {} => cmdtab[i].pid \in Commands
    BY <1>0 DEF Due
  <2> QED
    BY <1>2, <2>1, <2>2, <2>3, <2>4 DEF Drained
<1> QED
  BY <1>3, <1>4, <1>5, <1>6, <1>7, <1>8, <1>9 DEF Next, Engine

\* Without -p, nothing that a command writes is thrown away.
THEOREM OutputIsKept == Spec => []NothingLost
<1>1. Init => Drained
  BY DEF Init, Drained
<1>2. IInv /\ Drained /\ [Next]_vars => Drained'
  BY DrainedStep
<1>3. Drained => NothingLost
  BY DEF Drained, NothingLost
<1> QED
  BY <1>1, <1>2, <1>3, Invariance, PTL DEF Spec
=============================================================================
