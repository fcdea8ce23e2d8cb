------------------------- MODULE Make1Exact_proofs -------------------------
(***************************************************************************)
(* make1()'s counter is exact: asynccnt[t] is not only at least what is to *)
(* come, as Make1_proofs shows, it is at most that too unless an interrupt *)
(* has thrown states away.  So nobody is left behind: a target             *)
(* that is counted for waits for a dependency of lower rank, for a state   *)
(* on the stack or for a semaphore, and a semaphore for its holder.        *)
(* And what make() returns is right, and the build is one Build promises.  *)
(***************************************************************************)
EXTENDS Make1_proofs

-----------------------------------------------------------------------------
(***************************************************************************)
(* The invariant.                                                          *)
(***************************************************************************)

\* What is counted is to come.
Exact == ~intr => \A t \in Targets : Gap(t) <= 0

\* make1atail(t) is called once, for a target that is opened.
Visiting == \A b \in Places : D(b).curstate = "MAKE1ATAIL" => progress[D(b).t] = "ONSTACK"

\* Only a target that is opened has parents to tell, and they are above it.
Parented(rank) ==
  \A d \in Targets : \A i \in DOMAIN parents[d] :
    progress[d] # "INIT" /\ rank[d] < rank[parents[d][i]]

\* A target with commands is being updated, and all is well while one runs.
Runs ==
  /\ \A t \in Targets : /\ progress[t] = "RUNNING" =>
                             asynccnt[t] = 0 /\ fate[t] < T_FATE_BROKEN
                        /\ cmds[t] # <<>> => progress[t] \in {"RUNNING", "DONE"}
  /\ \A t \in running : progress[t] = "RUNNING" /\ status[t] = EXEC_CMD_OK
  /\ \A b \in Places : D(b).curstate = "MAKE1D" =>
       progress[D(b).t] = "RUNNING" /\ status[D(b).t] = EXEC_CMD_OK

\* A semaphore is taken exactly while a target that has it is begun.
Held ==
  pc \notin {"crashed", "exited"} =>
    /\ \A s \in Sems : /\ semcnt[s] # 0 => \E t \in Targets : Begun(t) /\ semaphore[t] = s
                       /\ semcnt[s] \in {0, 1}
    /\ \A t \in Targets : Begun(t) /\ semaphore[t] # NoSem => semcnt[semaphore[t]] # 0
    /\ \A t, u \in Targets : Begun(t) /\ Begun(u) /\ Same(semaphore, t, u) => t = u

\* What is begun runs, or has a state on the stack.
Tended ==
  ~intr => \A t \in Targets : Begun(t) =>
    t \in running \/ \E b \in Places : Holding(D(b)) /\ D(b).t = t

\* Who waits for a semaphore waits for nothing else.
InLine ==
  \A s \in Sems : \A i \in DOMAIN semwait[s] :
    semaphore[semwait[s][i]] = s /\ asynccnt[semwait[s][i]] = 1

\* A call of make1b() that may take the semaphore s.
Claiming(x, s) == x.curstate = "MAKE1B" /\ semaphore[x.t] = s /\ asynccnt[x.t] = 1

\* A semaphore somebody waits for is taken, or about to be.
NextCalled ==
  ~intr /\ pc \notin {"crashed", "exited"} =>
    \A s \in Sems : semwait[s] # <<>> => \/ semcnt[s] # 0
                                         \/ \E b \in Places : Claiming(D(b), s)

\* make1() was entered for the roots so far.
Entered ==
  ~intr => \A i \in 1..root :
    \/ progress[Roots[i]] # "INIT"
    \/ i = root /\ \E b \in Places : D(b).curstate = "MAKE1A" /\ D(b).t = Roots[i]

\* make() returns when there is nothing left on the stack, nor running.
Over == pc = "done" => stack = <<>> /\ running = {} /\ root = Len(Roots)

ExactInv(rank) ==
  /\ Exact /\ Visiting /\ Parented(rank) /\ Runs /\ Held /\ Tended /\ InLine
  /\ NextCalled /\ Entered /\ Over

\* Everything known of a state.
Known(rank) == TypeOK /\ SemInv /\ OrderInv /\ RankInv(rank) /\ ExactInv(rank)

-----------------------------------------------------------------------------
(***************************************************************************)
(* The count of the calls on the stack, exactly.                           *)
(***************************************************************************)

LEMMA CallsSplit ==
  ASSUME NEW q \in Seq(States), NEW n \in Nat, n <= Len(q), NEW t
  PROVE  /\ Cardinality(KeptCalls(q, n, t)) \in Nat /\ Cardinality(NewCalls(q, n, t)) \in Nat
         /\ IsFiniteSet(NewCalls(q, n, t))
         /\ Cardinality(Calls(q, t)) =
              Cardinality(KeptCalls(q, n, t)) + Cardinality(NewCalls(q, n, t))
<1> DEFINE C == Calls(q, t)
           K == KeptCalls(q, n, t)
           N == NewCalls(q, n, t)
<1> HIDE DEF States
<1>1. Len(q) \in Nat
  OBVIOUS
<1>2. IsFiniteSet(1..Len(q))
  BY <1>1, FS_Interval
<1>3. C \subseteq 1..Len(q) /\ C = K \cup N /\ K \cap N = {}
  BY <1>1 DEF Calls, KeptCalls, NewCalls
<1> HIDE DEF C, K, N
<1>4. IsFiniteSet(K) /\ IsFiniteSet(N)
  BY <1>2, <1>3, FS_Subset
<1>5. Cardinality(K) \in Nat /\ Cardinality(N) \in Nat /\ Cardinality({}) = 0
  BY <1>4, FS_CardinalityType, FS_EmptySet
<1>6. Cardinality(K \cup N) = Cardinality(K) + Cardinality(N) - Cardinality(K \cap N)
  BY <1>4, FS_Union
<1>7. Cardinality(C) = Cardinality(K) + Cardinality(N)
  <2>1. Cardinality(K \cup N) = Cardinality(C) /\ Cardinality(K \cap N) = 0
    BY <1>3, <1>5, Zenon
  <2> QED
    BY <1>5, <1>6, <2>1
<1> QED
  BY <1>4, <1>5, <1>7 DEF C, K, N

\* The number of members of a set with one member at most, e.
LEMMA OneAtMost ==
  ASSUME NEW S, NEW e, S \subseteq {e}
  PROVE  /\ IsFiniteSet(S) /\ Cardinality(S) \in {0, 1}
         /\ e \in S => Cardinality(S) = 1
         /\ e \notin S => Cardinality(S) = 0
<1>1. IsFiniteSet({e}) /\ Cardinality({e}) = 1 /\ IsFiniteSet({}) /\ Cardinality({}) = 0
  BY FS_Singleton, FS_EmptySet
<1>2. e \in S => S = {e}
  OBVIOUS
<1>3. e \notin S => S = {}
  OBVIOUS
<1> QED
  BY <1>1, <1>2, <1>3

(***************************************************************************)
(* The gap of x does not open when what is owed, queued or called grows as *)
(* much as the counter does.                                               *)
(***************************************************************************)
LEMMA GapHolds ==
  ASSUME TypeOK, TypeOK', Counted, Counted', NEW x \in Targets, NEW n, Kept(stack, stack', n),
         NEW o \in Int, NEW u \in Int, NEW w \in Int, NEW k \in Int,
         Cardinality(Owed(progress, parents, x)') >= Cardinality(Owed(progress, parents, x)) + o,
         Cardinality(Queued(semwait, x)') >= Cardinality(Queued(semwait, x)) + u,
         Cardinality(NewCalls(stack', n, x)) >= w,
         Cardinality(NewCalls(stack, n, x)) <= k,
         asynccnt'[x] - asynccnt[x] <= o + u + w - k
  PROVE  Gap(x)' <= Gap(x)
<1> DEFINE C  == Cardinality(Calls(stack, x))
           C1 == Cardinality(Calls(stack, x)')
           K  == Cardinality(KeptCalls(stack, n, x))
           N  == Cardinality(NewCalls(stack, n, x))
           N1 == Cardinality(NewCalls(stack', n, x))
           O  == Cardinality(Owed(progress, parents, x))
           P  == Cardinality(Owed(progress, parents, x)')
           Q  == Cardinality(Queued(semwait, x))
           R  == Cardinality(Queued(semwait, x)')
<1>1. /\ stack \in Seq(States) /\ stack' \in Seq(States)
      /\ asynccnt[x] \in Int /\ asynccnt'[x] \in Int
  BY DEF TypeOK
<1>2. n \in Nat /\ n <= Len(stack) /\ n <= Len(stack')
  BY DEF Kept
<1>3. K \in Nat /\ N \in Nat /\ C = K + N
  BY <1>1, <1>2, CallsSplit
<1>4. N1 \in Nat /\ C1 = K + N1
  <2>1. KeptCalls(stack', n, x) = KeptCalls(stack, n, x)
    BY DEF Kept, KeptCalls
  <2>2. /\ Cardinality(NewCalls(stack', n, x)) \in Nat
        /\ Cardinality(Calls(stack', x)) =
             Cardinality(KeptCalls(stack', n, x)) + Cardinality(NewCalls(stack', n, x))
    BY <1>1, <1>2, CallsSplit
  <2>3. Calls(stack, x)' = Calls(stack', x)
    BY DEF Calls
  <2> QED
    BY <2>1, <2>2, <2>3
<1>5. O \in Nat /\ P \in Nat /\ Q \in Nat /\ R \in Nat
  <2>1. /\ IsFiniteSet(Owed(progress, parents, x)) /\ IsFiniteSet(Owed(progress, parents, x)')
        /\ IsFiniteSet(Queued(semwait, x)) /\ IsFiniteSet(Queued(semwait, x)')
    BY DEF Counted
  <2> QED
    BY <2>1, FS_CardinalityType
<1>6. Gap(x) = asynccnt[x] - (O + C + Q) /\ Gap(x)' = asynccnt'[x] - (P + C1 + R)
  BY DEF Gap
<1>7. P >= O + o /\ R >= Q + u /\ N1 >= w /\ N <= k
  OBVIOUS
<1> HIDE DEF C, C1, K, N, N1, O, P, Q, R
<1> QED
  BY <1>1, <1>3, <1>4, <1>5, <1>6, <1>7

\* A step that tells nobody: a call it takes off the stack is uncounted, or
\* goes on.
LEMMA QuietExact ==
  ASSUME TypeOK, TypeOK', Counted, Counted', NEW x \in Targets, NEW n, Kept(stack, stack', n),
         n >= Len(stack) - 1, UNCHANGED <<parents, semwait>>,
         \A t \in Targets : progress'[t] = "DONE" <=> progress[t] = "DONE",
         \/ /\ asynccnt'[x] = asynccnt[x]
            /\ n < Len(stack) /\ Calling(D(Len(stack)), x) =>
                 n + 1 <= Len(stack') /\ Calling(D(n + 1)', x)
         \/ asynccnt'[x] = asynccnt[x] - 1
  PROVE  Gap(x)' <= Gap(x)
<1> DEFINE N  == NewCalls(stack, n, x)
           N1 == NewCalls(stack', n, x)
           c  == Cardinality(N)
           c1 == Cardinality(N1)
<1>1. /\ stack \in Seq(States) /\ stack' \in Seq(States)
      /\ asynccnt[x] \in Int /\ asynccnt'[x] \in Int
  BY DEF TypeOK
<1>2. /\ n \in Nat /\ n <= Len(stack) /\ n <= Len(stack') /\ Len(stack) \in Nat /\ Len(stack') \in Nat
  <2>1. Len(stack) \in Nat /\ Len(stack') \in Nat
    BY <1>1, DeepType
  <2> QED
    BY <2>1 DEF Kept
<1>3. /\ Owed(progress, parents, x)' = Owed(progress, parents, x)
      /\ Queued(semwait, x)' = Queued(semwait, x)
  BY OwedSame
<1>4. N \subseteq {n + 1} /\ (n + 1 \in N => n + 1 = Len(stack) /\ Calling(D(Len(stack)), x))
  <2>1. ASSUME NEW b \in N PROVE b = n + 1 /\ b = Len(stack) /\ Calling(D(b), x)
    <3>1. b \in (n + 1)..Len(stack) /\ Calling(D(b), x)
      BY DEF NewCalls, D
    <3> QED
      BY <1>2, <3>1
  <2> QED
    BY <2>1
<1>5. c \in {0, 1} /\ (n + 1 \notin N => c = 0)
  BY <1>4, OneAtMost
<1>6. c1 \in Nat /\ IsFiniteSet(N1)
  BY <1>1, <1>2, CallsSplit
<1>7. n + 1 \in N1 => c1 >= 1
  <2>1. n + 1 \in N1 => N1 # {}
    OBVIOUS
  <2> HIDE DEF N1
  <2>2. n + 1 \in N1 => c1 # 0
    BY <1>6, <2>1, FS_EmptySet
  <2> HIDE DEF c1
  <2> QED
    BY <1>6, <2>2
<1>8. n + 1 <= Len(stack') /\ Calling(D(n + 1)', x) => n + 1 \in N1
  BY <1>2 DEF NewCalls, D
<1>9. /\ Cardinality(Owed(progress, parents, x)) \in Nat /\ Cardinality(Queued(semwait, x)) \in Nat
  <2>1. IsFiniteSet(Owed(progress, parents, x)) /\ IsFiniteSet(Queued(semwait, x))
    BY DEF Counted
  <2> QED
    BY <2>1, FS_CardinalityType
<1>10. ASSUME NEW w \in {0, 1}, NEW k \in {0, 1}, c1 >= w, c <= k, asynccnt'[x] - asynccnt[x] <= w - k
       PROVE  Gap(x)' <= Gap(x)
  <2>1. /\ Cardinality(Owed(progress, parents, x)') >= Cardinality(Owed(progress, parents, x)) + 0
        /\ Cardinality(Queued(semwait, x)') >= Cardinality(Queued(semwait, x)) + 0
    BY <1>3, <1>9
  <2>2. /\ asynccnt'[x] - asynccnt[x] <= 0 + 0 + w - k
        /\ 0 \in Int /\ w \in Int /\ k \in Int
    BY <1>1, <1>10
  <2>3. Cardinality(NewCalls(stack', n, x)) >= w /\ Cardinality(NewCalls(stack, n, x)) <= k
    BY <1>10
  <2> QED
    BY <2>1, <2>2, <2>3, GapHolds
<1>11. CASE asynccnt'[x] = asynccnt[x] - 1
  <2>1. c1 >= 0 /\ c <= 1 /\ asynccnt'[x] - asynccnt[x] <= 0 - 1
    BY <1>1, <1>5, <1>6, <1>11
  <2> QED
    BY <1>10, <2>1
<1>12. CASE /\ asynccnt'[x] = asynccnt[x]
            /\ n < Len(stack) /\ Calling(D(Len(stack)), x) =>
                 n + 1 <= Len(stack') /\ Calling(D(n + 1)', x)
  <2>1. CASE n + 1 \in N
    <3>1. n < Len(stack) /\ Calling(D(Len(stack)), x)
      BY <1>2, <1>4, <2>1
    <3>2. c1 >= 1 /\ c <= 1 /\ asynccnt'[x] - asynccnt[x] <= 1 - 1
      BY <1>1, <1>5, <1>7, <1>8, <1>12, <3>1
    <3> QED
      BY <1>10, <3>2
  <2>2. CASE n + 1 \notin N
    <3>1. c1 >= 0 /\ c <= 0 /\ asynccnt'[x] - asynccnt[x] <= 0 - 0
      BY <1>1, <1>5, <1>6, <1>12, <2>2
    <3> QED
      BY <1>10, <3>1
  <2> QED
    BY <2>1, <2>2
<1> QED
  BY <1>11, <1>12

-----------------------------------------------------------------------------
(***************************************************************************)
(* Every step keeps the count exact.                                       *)
(***************************************************************************)

\* The steps that answer one call at most.
LEMMA AnswerExact ==
  ASSUME TypeOK, TypeOK', OrderInv, OrderInv', ~intr, NEW x \in Targets,
         Make1atail \/ Make1bWait \/ Make1bReady \/ Make1cLaunch \/ Make1cNoExec \/ Make1d
  PROVE  Gap(x)' <= Gap(x)
<1> PICK t : t = top.t
  OBVIOUS
<1>0. Counted /\ Counted' /\ asynccnt \in [Targets -> Int]
  BY DEF OrderInv, TypeOK
<1>1. CASE Make1atail
  <2>1. /\ stack # <<>> /\ top.curstate = "MAKE1ATAIL" /\ stack' = Continue("MAKE1B")
        /\ progress' = [progress EXCEPT ![t] = "ACTIVE"]
        /\ UNCHANGED <<asynccnt, parents, semwait>>
    BY <1>1 DEF Make1atail, Handler, top, graph
  <2> PICK h : h = Len(stack) - 1
    OBVIOUS
  <2>2. /\ h \in Nat /\ Len(stack) = h + 1 /\ h < Len(stack) /\ h >= Len(stack) - 1
        /\ D(h + 1) = top /\ h + 1 \in Places /\ t \in Targets
        /\ Kept(stack, stack', h)
    BY <2>1, Replaced DEF Handlers
  <2>3. progress[t] \notin {"INIT", "DONE"}
    BY <2>1, <2>2, Caller DEF Calling
  <2>4. \A y \in Targets : progress'[y] = "DONE" <=> progress[y] = "DONE"
    BY <2>1, <2>3 DEF TypeOK
  <2>5. Calling(D(Len(stack)), x) => h + 1 <= Len(stack') /\ Calling(D(h + 1)', x)
    <3>1. /\ Len(stack') = h + 1
          /\ D(h + 1)' = [top EXCEPT !.curstate = "MAKE1B", !.status = StatusFor("MAKE1B")]
      BY <2>1, Handling DEF D, Handlers
    <3>2. D(h + 1)'.curstate = "MAKE1B" /\ D(h + 1)'.t = t
      BY <2>1, <3>1, StackType DEF States
    <3> QED
      BY <2>2, <3>1, <3>2 DEF Calling
  <2> QED
    BY <1>0, <2>1, <2>2, <2>4, <2>5, QuietExact
<1>2. CASE Make1bWait \/ Make1cLaunch
  <2>1. /\ stack # <<>> /\ stack' = Popped
        /\ UNCHANGED <<progress, parents, semwait>>
        /\ \/ top.curstate = "MAKE1B" /\ asynccnt' = [asynccnt EXCEPT ![t] = @ - 1]
           \/ top.curstate = "MAKE1C" /\ asynccnt' = asynccnt
    BY <1>2 DEF Make1bWait, Make1cLaunch, Handler, top, graph
  <2>2. D(Len(stack)) = top /\ t \in Targets
    BY <2>1, Taken
  <2>3. PICK n \in Nat : Kept(stack, stack', n) /\ n >= Len(stack) - 1
    BY <2>1, Taken
  <2>4. \A y \in Targets : progress'[y] = "DONE" <=> progress[y] = "DONE"
    BY <2>1
  <2>5. CASE top.curstate = "MAKE1B" /\ x = t
    <3>1. asynccnt'[x] = asynccnt[x] - 1
      BY <1>0, <2>1, <2>2, <2>5
    <3> QED
      BY <1>0, <2>1, <2>3, <2>4, <3>1, QuietExact
  <2>6. CASE ~(top.curstate = "MAKE1B" /\ x = t)
    <3>1. asynccnt'[x] = asynccnt[x] /\ ~Calling(D(Len(stack)), x)
      BY <1>0, <2>1, <2>2, <2>6 DEF Calling
    <3> QED
      BY <1>0, <2>1, <2>3, <2>4, <3>1, QuietExact
  <2> QED
    BY <2>5, <2>6
<1>3. CASE Make1bReady \/ Make1cNoExec \/ Make1d
  <2>1. PICK c \in Handlers : stack # <<>> /\ stack' = Continue(c)
    BY <1>3 DEF Make1bReady, Make1cNoExec, Make1d, Handler, Handlers
  <2>2. /\ UNCHANGED <<parents, semwait>>
        /\ \/ /\ Make1bReady /\ top.curstate = "MAKE1B" /\ asynccnt[t] = 1
              /\ asynccnt' = [asynccnt EXCEPT ![t] = 0]
           \/ Holding(top) /\ UNCHANGED <<asynccnt, progress>>
    BY <1>3 DEF Make1bReady, Make1cNoExec, Make1d, Handler, top, graph, Holding
  <2> PICK h : h = Len(stack) - 1
    OBVIOUS
  <2>3. /\ h \in Nat /\ Len(stack) = h + 1 /\ h < Len(stack) /\ h >= Len(stack) - 1
        /\ D(h + 1) = top /\ h + 1 \in Places /\ t \in Targets
        /\ Kept(stack, stack', h)
    BY <2>1, Replaced
  <2>4. \A y \in Targets : progress'[y] = "DONE" <=> progress[y] = "DONE"
    <3>1. CASE Make1bReady /\ top.curstate = "MAKE1B"
      <4>1. progress[t] \notin {"INIT", "DONE"}
        BY <2>3, <3>1, Caller DEF Calling
      <4>2. progress' = progress \/ progress' = [progress EXCEPT ![t] = "RUNNING"]
        BY <3>1 DEF Make1bReady
      <4> QED
        BY <2>3, <4>1, <4>2 DEF TypeOK
    <3> QED
      BY <2>2, <3>1
  <2>5. CASE Make1bReady /\ top.curstate = "MAKE1B" /\ x = t
    <3>1. asynccnt[t] = 1 /\ asynccnt' = [asynccnt EXCEPT ![t] = 0]
      BY <2>2, <2>5 DEF Holding
    <3>2. asynccnt'[x] = asynccnt[x] - 1
      BY <1>0, <2>3, <2>5, <3>1
    <3> QED
      BY <1>0, <2>2, <2>3, <2>4, <3>2, QuietExact
  <2>6. CASE ~(Make1bReady /\ top.curstate = "MAKE1B" /\ x = t)
    <3>1. asynccnt'[x] = asynccnt[x] /\ ~Calling(D(Len(stack)), x)
      BY <1>0, <2>2, <2>3, <2>6 DEF Calling, Holding
    <3> QED
      BY <1>0, <2>2, <2>3, <2>4, <3>1, QuietExact
  <2> QED
    BY <2>5, <2>6
<1> QED
  BY <1>1, <1>2, <1>3

\* The steps of exec_wait(), the signal and the end.
LEMMA WaitExact ==
  ASSUME TypeOK, TypeOK', OrderInv, OrderInv', NEW x \in Targets,
         \/ AnyComplete \/ ExecWait \/ ExecReturn \/ Interrupt \/ Make1Return \/ Ended
         \/ UNCHANGED vars
  PROVE  Gap(x)' <= Gap(x)
<1>0. Counted /\ Counted'
  BY DEF OrderInv
<1>1. UNCHANGED <<progress, asynccnt, parents, semwait>>
  BY DEF AnyComplete, Complete, ExecWait, ExecReturn, Interrupt, Make1Return, Ended, vars, graph
<1>2. Kept(stack, stack', Len(stack)) /\ Len(stack) \in Nat
  <2>0. Len(stack) \in Nat /\ Len(stack') \in Nat
    BY DeepType DEF TypeOK
  <2>1. CASE AnyComplete
    <3>1. PICK t \in Targets, st \in {EXEC_CMD_OK, EXEC_CMD_FAIL} : Complete(t, st)
      BY <2>1 DEF AnyComplete
    <3> DEFINE y == [State(t, NoTarget, "MAKE1D") EXCEPT
                       !.status = IF sigint THEN EXEC_CMD_INTR ELSE st]
    <3>2. stack' = <<y>> \o stack
      BY <3>1 DEF Complete
    <3>3. y \in States
      <4>1. Head(stack') = y /\ stack' # <<>>
        <5> HIDE DEF y
        <5> QED
          BY <3>2 DEF TypeOK
      <4>2. stack' \in Seq(States)
        BY DEF TypeOK
      <4> HIDE DEF States, y
      <4> QED
        BY <4>1, <4>2
    <3> QED
      BY <2>0, <3>2, <3>3, DeepOne DEF TypeOK
  <2>2. CASE stack' = stack
    BY <2>0, <2>2 DEF Kept
  <2>3. CASE stack = <<>>
    <3>1. Len(stack) = 0
      BY <2>3
    <3> QED
      BY <2>0, <3>1 DEF Kept
  <2> QED
    BY <2>1, <2>2, <2>3 DEF ExecWait, ExecReturn, Interrupt, Make1Return, Ended, vars
<1>3. \A y \in Targets : progress'[y] = "DONE" <=> progress[y] = "DONE"
  BY <1>1
<1>4. Len(stack) >= Len(stack) - 1 /\ ~(Len(stack) < Len(stack)) /\ asynccnt'[x] = asynccnt[x]
  BY <1>1, <1>2
<1> QED
  BY <1>0, <1>1, <1>2, <1>3, <1>4, QuietExact

\* More, and by one at least with a new member e.
LEMMA MoreOf ==
  ASSUME NEW S, NEW T, IsFiniteSet(T), S \subseteq T
  PROVE  /\ Cardinality(S) \in Nat /\ Cardinality(T) \in Nat /\ Cardinality(T) >= Cardinality(S)
         /\ \A e \in T : e \notin S => Cardinality(T) >= Cardinality(S) + 1
<1>1. IsFiniteSet(S) /\ Cardinality(S) <= Cardinality(T)
  BY FS_Subset
<1>2. Cardinality(S) \in Nat /\ Cardinality(T) \in Nat
  BY <1>1, FS_CardinalityType
<1>3. ASSUME NEW e \in T, e \notin S PROVE Cardinality(T) >= Cardinality(S) + 1
  <2>1. IsFiniteSet(T \ {e}) /\ Cardinality(T \ {e}) = Cardinality(T) - 1
    BY <1>3, FS_RemoveElement
  <2>2. Cardinality(S) <= Cardinality(T \ {e})
    <3>1. S \subseteq T \ {e}
      BY <1>3
    <3> QED
      BY <2>1, <3>1, FS_Subset
  <2> QED
    BY <1>2, <2>1, <2>2
<1> QED
  BY <1>1, <1>2, <1>3

\* What make1a(t) counts for p is a place among those to be told of t.
LEMMA NotifyOwes ==
  ASSUME TypeOK, OrderInv', NEW t \in Targets, NEW p \in Targets \cup {NoTarget}, Notify(t, p),
         \A x \in Targets : progress'[x] = "DONE" <=> progress[x] = "DONE", progress[t] # "DONE"
  PROVE  \A x \in Targets :
           /\ Cardinality(Owed(progress, parents, x)') >= Cardinality(Owed(progress, parents, x)) + 0
           /\ x = p =>
                Cardinality(Owed(progress, parents, x)') >= Cardinality(Owed(progress, parents, x)) + 1
<1> SUFFICES ASSUME NEW x \in Targets
             PROVE  /\ Cardinality(Owed(progress, parents, x)') >= Cardinality(Owed(progress, parents, x)) + 0
                    /\ x = p => Cardinality(Owed(progress, parents, x)') >=
                                  Cardinality(Owed(progress, parents, x)) + 1
  OBVIOUS
<1>0. parents \in [Targets -> Seq(Targets)]
  BY DEF TypeOK
<1> DEFINE ps == parents[t]
           e  == <<t, Len(ps) + 1>>
           O  == Owed(progress, parents, x)
           P  == Owed(progress, parents, x)'
<1>1. ps \in Seq(Targets) /\ Len(ps) \in Nat /\ DOMAIN ps = 1..Len(ps)
  <2>1. ps \in Seq(Targets)
    BY DEF TypeOK
  <2> QED
    BY <2>1
<1>2. /\ \A y \in Targets : y # t => parents'[y] = parents[y]
      /\ p = NoTarget => parents'[t] = ps
      /\ p # NoTarget => parents'[t] = Append(ps, p)
  BY DEF Notify, TypeOK
<1> HIDE DEF ps
<1>3. /\ \A i \in DOMAIN ps : i \in DOMAIN parents'[t] /\ parents'[t][i] = ps[i]
      /\ p # NoTarget => Len(ps) + 1 \in DOMAIN parents'[t] /\ parents'[t][Len(ps) + 1] = p
  <2>1. CASE p = NoTarget
    BY <1>2, <2>1
  <2>2. CASE p # NoTarget
    <3>1. /\ DOMAIN Append(ps, p) = 1..(Len(ps) + 1) /\ Append(ps, p)[Len(ps) + 1] = p
          /\ \A i \in 1..Len(ps) : Append(ps, p)[i] = ps[i]
      BY <1>1, <2>2
    <3>2. Len(ps) + 1 \in 1..(Len(ps) + 1) /\ \A i \in 1..Len(ps) : i \in 1..(Len(ps) + 1)
      BY <1>1
    <3> QED
      BY <1>1, <1>2, <2>2, <3>1, <3>2, Zenon
  <2> QED
    BY <2>1, <2>2
<1>4. ASSUME NEW y \in O PROVE y \in P
  <2>1. /\ y \in Targets \X Nat /\ progress[y[1]] # "DONE"
        /\ y[2] \in DOMAIN parents[y[1]] /\ parents[y[1]][y[2]] = x /\ y[1] \in Targets
    BY DEF Owed
  <2>2. y[2] \in DOMAIN parents'[y[1]] /\ parents'[y[1]][y[2]] = x
    <3>1. CASE y[1] = t
      BY <1>3, <2>1, <3>1 DEF ps
    <3>2. CASE y[1] # t
      BY <1>2, <2>1, <3>2
    <3> QED
      BY <3>1, <3>2
  <2> QED
    BY <2>1, <2>2 DEF Owed
<1>5. ASSUME x = p PROVE e \in P /\ e \notin O
  <2>1. p # NoTarget
    BY <1>5, Make1Assumption
  <2>2. e \in Targets \X Nat /\ e[1] = t /\ e[2] = Len(ps) + 1
    BY <1>1
  <2>3. e \in P
    BY <1>3, <1>5, <2>1, <2>2 DEF Owed
  <2>4. Len(ps) + 1 \notin DOMAIN parents[t]
    BY <1>1 DEF ps
  <2> QED
    BY <2>2, <2>3, <2>4 DEF Owed
<1>6. IsFiniteSet(P)
  BY DEF OrderInv, Counted
<1> HIDE DEF O, P, e
<1>7. /\ Cardinality(O) \in Nat /\ Cardinality(P) \in Nat /\ Cardinality(P) >= Cardinality(O)
      /\ \A y \in P : y \notin O => Cardinality(P) >= Cardinality(O) + 1
  <2>1. O \subseteq P
    BY <1>4
  <2> QED
    BY <1>6, <2>1, MoreOf
<1>8. Cardinality(P) >= Cardinality(O) + 0
  BY <1>7
<1> QED
  BY <1>5, <1>7, <1>8 DEF O, P

\* Below a visit made for p there is the state that will call make1b(p).
LEMMA ForParent ==
  ASSUME TypeOK, OrderInv, stack # <<>>, top.curstate = "MAKE1A", top.parent # NoTarget
  PROVE  /\ top.parent \in Targets
         /\ \E a \in 1..(Len(stack) - 1) : a \in Places /\ TailOf(D(a), top.parent)
         /\ asynccnt[top.parent] >= 1 /\ progress[top.parent] \notin {"INIT", "DONE"}
         /\ top.parent \notin running
         /\ \A c \in Places : Holding(D(c)) => D(c).t # top.parent
<1>1. top.parent \in Targets
  BY StackType
<1>2. stack \in Seq(States) /\ Len(stack) \in Nat
  BY Stacked
<1>3. Len(stack) \in Places /\ D(Len(stack)) = top
  <2>1. Len(stack) \in Nat \ {0} /\ Deep(stack, Len(stack)) = Head(stack)
    BY <1>2, DeepTail
  <2> QED
    BY <2>1 DEF Places, D, top
<1>4. PICK a \in 1..(Len(stack) - 1) : TailOf(D(a), top.parent)
  BY <1>3 DEF OrderInv, Called
<1>5. a \in Places
  BY <1>2, <1>4 DEF Places
<1> QED
  BY <1>1, <1>4, <1>5, Caller DEF TailOf, Calling

\* make1a(t) for another parent.
LEMMA SeenExact ==
  ASSUME TypeOK, TypeOK', OrderInv, OrderInv', ~intr, NEW x \in Targets, Make1aSeen
  PROVE  Gap(x)' <= Gap(x)
<1> PICK t : t = top.t
  OBVIOUS
<1> PICK p : p = top.parent
  OBVIOUS
<1>0. Counted /\ Counted' /\ asynccnt[x] \in Int
  BY DEF OrderInv, TypeOK
<1>1. /\ stack # <<>> /\ stack' = Popped /\ top.curstate = "MAKE1A" /\ progress[t] # "INIT"
      /\ UNCHANGED <<progress, semwait>>
      /\ IF progress[t] \in {"ACTIVE", "RUNNING"} THEN Notify(t, p)
         ELSE UNCHANGED <<parents, asynccnt>>
  BY DEF Make1aSeen, Handler, top, Seen
<1>2. /\ t \in Targets /\ p \in Targets \cup {NoTarget} /\ D(Len(stack)) = top
      /\ Len(stack) \in Nat
  BY <1>1, Taken, StackType
<1>3. PICK n \in Nat : Kept(stack, stack', n) /\ n = Len(stack) - 1
  BY <1>1, Taken
<1>4. \A y \in Targets : progress'[y] = "DONE" <=> progress[y] = "DONE"
  BY <1>1
<1>5. ~Calling(D(Len(stack)), x)
  BY <1>1, <1>2 DEF Calling
<1>6. CASE progress[t] \in {"ACTIVE", "RUNNING"}
  <2>1. Notify(t, p) /\ progress[t] # "DONE"
    BY <1>1, <1>6
  <2>2. /\ Cardinality(Owed(progress, parents, x)') >= Cardinality(Owed(progress, parents, x)) + 0
        /\ x = p => Cardinality(Owed(progress, parents, x)') >=
                      Cardinality(Owed(progress, parents, x)) + 1
    BY <1>2, <1>4, <2>1, NotifyOwes
  <2>3. asynccnt'[x] = IF x = p THEN asynccnt[x] + 1 ELSE asynccnt[x]
    BY <1>6, <2>1 DEF Notify
  <2>4. Queued(semwait, x)' = Queued(semwait, x) /\ Cardinality(Queued(semwait, x)) \in Nat
    <3>1. IsFiniteSet(Queued(semwait, x))
      BY <1>0 DEF Counted
    <3> QED
      BY <1>1, <3>1, FS_CardinalityType DEF Queued
  <2>5. Cardinality(Queued(semwait, x)') >= Cardinality(Queued(semwait, x)) + 0
    BY <2>4
  <2>6. Cardinality(NewCalls(stack', n, x)) >= 0
    <3>1. stack' \in Seq(States) /\ n <= Len(stack')
      BY <1>3 DEF TypeOK, Kept
    <3>2. Cardinality(NewCalls(stack', n, x)) \in Nat
      BY <3>1, CallsSplit
    <3> QED
      BY <3>2
  <2>7. Cardinality(NewCalls(stack, n, x)) <= 0
    <3>1. ASSUME NEW b \in NewCalls(stack, n, x) PROVE FALSE
      <4>1. b \in (n + 1)..Len(stack) /\ Calling(D(b), x)
        BY DEF NewCalls, D
      <4>2. b = Len(stack)
        BY <1>2, <1>3, <4>1
      <4> QED
        BY <1>5, <4>1, <4>2
    <3>2. NewCalls(stack, n, x) = {}
      BY <3>1
    <3>3. Cardinality(NewCalls(stack, n, x)) = 0
      BY <3>2, FS_EmptySet, Zenon
    <3> QED
      BY <3>3
  <2>8. CASE x = p
    <3>1. asynccnt'[x] - asynccnt[x] <= 1 + 0 + 0 - 0 /\ 0 \in Int /\ 1 \in Int
      BY <1>0, <2>3, <2>8
    <3> QED
      BY <1>0, <1>3, <2>2, <2>5, <2>6, <2>7, <2>8, <3>1, GapHolds
  <2>9. CASE x # p
    <3>1. asynccnt'[x] - asynccnt[x] <= 0 + 0 + 0 - 0 /\ 0 \in Int
      BY <1>0, <2>3, <2>9
    <3> QED
      BY <1>0, <1>3, <2>2, <2>5, <2>6, <2>7, <3>1, GapHolds
  <2> QED
    BY <2>8, <2>9
<1>7. CASE progress[t] \notin {"ACTIVE", "RUNNING"}
  <2>1. UNCHANGED <<parents, semwait, asynccnt>> /\ n >= Len(stack) - 1
    BY <1>1, <1>2, <1>3, <1>7
  <2>2. asynccnt'[x] = asynccnt[x]
    BY <2>1
  <2> QED
    BY <1>0, <1>3, <1>4, <1>5, <2>1, <2>2, QuietExact
<1> QED
  BY <1>6, <1>7

\* A handler on top that is not one of make1b()'s is no call.
LEMMA NoCallTaken ==
  ASSUME TypeOK, stack # <<>>, top.curstate \notin {"MAKE1ATAIL", "MAKE1B"},
         NEW x, NEW n, n = Len(stack) - 1
  PROVE  Cardinality(NewCalls(stack, n, x)) <= 0
<1>1. stack \in Seq(States) /\ Len(stack) \in Nat \ {0} /\ D(Len(stack)) = top
  <2>1. stack \in Seq(States)
    BY DEF TypeOK
  <2> QED
    BY <2>1, DeepTail DEF D, top
<1>2. ASSUME NEW b \in NewCalls(stack, n, x) PROVE FALSE
  <2>1. b \in (n + 1)..Len(stack) /\ Calling(D(b), x)
    BY DEF NewCalls, D
  <2>2. b = Len(stack)
    BY <1>1, <2>1
  <2> QED
    BY <1>1, <2>1, <2>2 DEF Calling
<1>3. NewCalls(stack, n, x) = {}
  BY <1>2
<1>4. Cardinality(NewCalls(stack, n, x)) = 0
  BY <1>3, FS_EmptySet, Zenon
<1> QED
  BY <1>4

\* The first make1a(t).
LEMMA StartExact ==
  ASSUME TypeOK, TypeOK', OrderInv, OrderInv', ~intr, NEW x \in Targets, Make1aStart
  PROVE  Gap(x)' <= Gap(x)
<1> PICK h : h = Len(stack) - 1
  OBVIOUS
<1> PICK t : t = top.t
  OBVIOUS
<1> PICK p : p = top.parent
  OBVIOUS
<1> PICK deps : deps = depends[t] \o NewIncludes(depends[t])
  OBVIOUS
<1>0. Counted /\ Counted' /\ asynccnt[x] \in Int
  BY DEF OrderInv, TypeOK
<1>1. /\ stack # <<>> /\ top.curstate = "MAKE1A" /\ progress[t] = "INIT" /\ Notify(t, p)
      /\ progress' = [progress EXCEPT ![t] = "ONSTACK"]
      /\ stack' = IF intr THEN Continue("MAKE1ATAIL")
                  ELSE Visits(deps, t) \o Continue("MAKE1ATAIL")
      /\ UNCHANGED semwait
  BY DEF Make1aStart, Handler, top, Seen, Visits
<1>2. t \in Targets /\ p \in Targets \cup {NoTarget}
  BY <1>1, StackType
<1>3. deps \in Seq(Targets)
  <2>1. depends[t] \in Seq(Targets)
    BY <1>2 DEF TypeOK
  <2>2. NewIncludes(depends[t]) \in Seq(Targets)
    BY <2>1, NewIncludesType
  <2> QED
    BY <2>1, <2>2
<1>4. /\ h \in Nat /\ Len(stack) = h + 1 /\ Kept(stack, stack', h)
      /\ h + 1 \in Places' /\ TailOf(D(h + 1)', t)
  <2>1. Opening(h, t, deps)
    BY <1>1, <1>3, OpenedStack
  <2> QED
    BY <2>1 DEF Opening
<1>5. \A y \in Targets : progress'[y] = "DONE" <=> progress[y] = "DONE"
  BY <1>1, <1>2 DEF TypeOK
<1>6. asynccnt[t] = 0 /\ (p # NoTarget => progress[p] # "INIT" /\ p # t)
  <2>1. asynccnt[t] = 0
    BY <1>1, <1>2 DEF OrderInv, Idle
  <2>2. p # NoTarget => progress[p] # "INIT"
    BY <1>1, ForParent
  <2> QED
    BY <1>1, <2>1, <2>2
<1>7. asynccnt'[x] = IF x = t THEN 1 ELSE IF x = p THEN asynccnt[x] + 1 ELSE asynccnt[x]
  BY <1>1 DEF Notify
<1>8. /\ Cardinality(Owed(progress, parents, x)') >= Cardinality(Owed(progress, parents, x)) + 0
      /\ x = p => Cardinality(Owed(progress, parents, x)') >=
                    Cardinality(Owed(progress, parents, x)) + 1
  <2>1. progress[t] # "DONE"
    BY <1>1
  <2> QED
    BY <1>1, <1>2, <1>5, <2>1, NotifyOwes
<1>9. Cardinality(Queued(semwait, x)') >= Cardinality(Queued(semwait, x)) + 0
  <2>1. IsFiniteSet(Queued(semwait, x)) /\ Queued(semwait, x)' = Queued(semwait, x)
    BY <1>0, <1>1 DEF Counted, Queued
  <2>2. Cardinality(Queued(semwait, x)) \in Nat
    BY <2>1, FS_CardinalityType
  <2> QED
    BY <2>1, <2>2
<1>10. Cardinality(NewCalls(stack, h, x)) <= 0
  BY <1>1, NoCallTaken
<1>11. Cardinality(NewCalls(stack', h, x)) >= IF x = t THEN 1 ELSE 0
  <2> DEFINE N == NewCalls(stack', h, x)
  <2>1. Cardinality(N) \in Nat /\ IsFiniteSet(N)
    <3>1. stack' \in Seq(States) /\ h \in Nat /\ h <= Len(stack')
      BY <1>4 DEF TypeOK, Kept
    <3> QED
      BY <3>1, CallsSplit
  <2>2. x = t => h + 1 \in N
    BY <1>4 DEF NewCalls, D, Places, TailOf, Calling
  <2> HIDE DEF N
  <2>3. x = t => Cardinality(N) # 0
    <3>1. x = t => N # {}
      BY <2>2
    <3> QED
      BY <2>1, <3>1, FS_EmptySet
  <2>4. Cardinality(N) >= IF x = t THEN 1 ELSE 0
    BY <2>1, <2>3
  <2> QED
    BY <2>4 DEF N
<1>12. CASE x = t
  <2>1. asynccnt'[x] - asynccnt[x] <= 0 + 0 + 1 - 0 /\ 0 \in Int /\ 1 \in Int
    BY <1>0, <1>6, <1>7, <1>12
  <2>2. Cardinality(NewCalls(stack', h, x)) >= 1
    BY <1>11, <1>12
  <2> QED
    BY <1>0, <1>4, <1>8, <1>9, <1>10, <2>1, <2>2, GapHolds
<1>13. CASE x # t
  <2>1. Cardinality(NewCalls(stack', h, x)) >= 0
    BY <1>11, <1>13
  <2>2. CASE x = p
    <3>1. asynccnt'[x] - asynccnt[x] <= 1 + 0 + 0 - 0 /\ 0 \in Int /\ 1 \in Int
      BY <1>0, <1>7, <1>13, <2>2
    <3> QED
      BY <1>0, <1>4, <1>8, <1>9, <1>10, <2>1, <2>2, <3>1, GapHolds
  <2>3. CASE x # p
    <3>1. asynccnt'[x] - asynccnt[x] <= 0 + 0 + 0 - 0 /\ 0 \in Int
      BY <1>0, <1>7, <1>13, <2>3
    <3> QED
      BY <1>0, <1>4, <1>8, <1>9, <1>10, <2>1, <3>1, GapHolds
  <2> QED
    BY <2>2, <2>3
<1> QED
  BY <1>12, <1>13

\* make1b(t) queues: the call becomes a place in the queue.
LEMMA QueueExact ==
  ASSUME TypeOK, TypeOK', OrderInv, OrderInv', ~intr, NEW x \in Targets, Make1bSemaphore
  PROVE  Gap(x)' <= Gap(x)
<1> PICK t : t = top.t
  OBVIOUS
<1> PICK s : s = semaphore[t]
  OBVIOUS
<1>0. Counted /\ Counted' /\ asynccnt[x] \in Int
  BY DEF OrderInv, TypeOK
<1>1. /\ stack # <<>> /\ stack' = Popped /\ top.curstate = "MAKE1B"
      /\ UNCHANGED <<progress, asynccnt, parents>>
  BY DEF Make1bSemaphore, Handler, top, graph
<1>2. D(Len(stack)) = top /\ t \in Targets /\ Len(stack) \in Nat
  BY <1>1, Taken
<1>3. PICK n \in Nat : Kept(stack, stack', n) /\ n = Len(stack) - 1
  BY <1>1, Taken
<1>4. s \in Sems /\ semwait' = [semwait EXCEPT ![s] = Append(@, t)]
  BY <1>2 DEF Make1bSemaphore, SemBusy, TypeOK
<1> DEFINE e == <<s, Len(semwait[s]) + 1>>
           Q == Queued(semwait, x)
           R == Queued(semwait, x)'
<1>5. /\ semwait[s] \in Seq(Targets) /\ Len(semwait[s]) \in Nat
      /\ DOMAIN semwait[s] = 1..Len(semwait[s])
      /\ DOMAIN semwait'[s] = 1..(Len(semwait[s]) + 1)
      /\ \A i \in 1..Len(semwait[s]) : semwait'[s][i] = semwait[s][i]
      /\ semwait'[s][Len(semwait[s]) + 1] = t
      /\ \A r \in Sems : r # s => semwait'[r] = semwait[r]
  <2>1. semwait \in [Sems -> Seq(Targets)] /\ semwait[s] \in Seq(Targets)
    BY <1>4 DEF TypeOK
  <2>2. DOMAIN semwait[s] = 1..Len(semwait[s]) /\ Len(semwait[s]) \in Nat
    BY <2>1
  <2>3. semwait'[s] = Append(semwait[s], t) /\ \A r \in Sems : r # s => semwait'[r] = semwait[r]
    BY <1>4, <2>1
  <2> QED
    BY <1>2, <2>1, <2>2, <2>3
<1>6. Q \subseteq R
  <2> SUFFICES ASSUME NEW y \in Q PROVE y \in R
    OBVIOUS
  <2>1. /\ y \in Sems \X Nat /\ y[1] \in Sems
        /\ y[2] \in DOMAIN semwait[y[1]] /\ semwait[y[1]][y[2]] = x
    BY DEF Queued
  <2>2. y[2] \in DOMAIN semwait'[y[1]] /\ semwait'[y[1]][y[2]] = x
    <3>1. CASE y[1] = s
      <4>1. y[2] \in 1..Len(semwait[s]) /\ y[2] \in 1..(Len(semwait[s]) + 1)
        BY <1>5, <2>1, <3>1
      <4> QED
        BY <1>5, <2>1, <3>1, <4>1
    <3>2. CASE y[1] # s
      BY <1>5, <2>1, <3>2
    <3> QED
      BY <3>1, <3>2
  <2> QED
    BY <2>1, <2>2 DEF Queued
<1>7. x = t => e \in R /\ e \notin Q
  <2>1. e \in Sems \X Nat /\ e[1] = s /\ e[2] = Len(semwait[s]) + 1
    BY <1>4, <1>5
  <2>2. Len(semwait[s]) + 1 \in 1..(Len(semwait[s]) + 1) /\ Len(semwait[s]) + 1 \notin 1..Len(semwait[s])
    BY <1>5
  <2>3. x = t => e \in R
    BY <1>5, <2>1, <2>2 DEF Queued
  <2> QED
    BY <1>5, <2>1, <2>2, <2>3 DEF Queued
<1>8. IsFiniteSet(R)
  BY <1>0 DEF Counted
<1> HIDE DEF Q, R, e
<1>9. /\ Cardinality(Q) \in Nat /\ Cardinality(R) \in Nat /\ Cardinality(R) >= Cardinality(Q)
      /\ \A y \in R : y \notin Q => Cardinality(R) >= Cardinality(Q) + 1
  BY <1>6, <1>8, MoreOf
<1>10. Cardinality(R) >= Cardinality(Q) + IF x = t THEN 1 ELSE 0
  BY <1>7, <1>9
<1>11. Cardinality(Owed(progress, parents, x)') >= Cardinality(Owed(progress, parents, x)) + 0
  <2>1. /\ IsFiniteSet(Owed(progress, parents, x))
        /\ Owed(progress, parents, x)' = Owed(progress, parents, x)
    BY <1>0, <1>1 DEF Counted, Owed
  <2>2. Cardinality(Owed(progress, parents, x)) \in Nat
    BY <2>1, FS_CardinalityType
  <2> QED
    BY <2>1, <2>2
<1>12. Cardinality(NewCalls(stack', n, x)) >= 0
  <2>1. stack' \in Seq(States) /\ n <= Len(stack')
    BY <1>3 DEF TypeOK, Kept
  <2>2. Cardinality(NewCalls(stack', n, x)) \in Nat
    BY <2>1, CallsSplit
  <2> QED
    BY <2>2
<1>13. Cardinality(NewCalls(stack, n, x)) <= IF x = t THEN 1 ELSE 0
  <2> DEFINE N == NewCalls(stack, n, x)
  <2>1. ASSUME NEW b \in N PROVE b = n + 1 /\ x = t
    <3>1. b \in (n + 1)..Len(stack) /\ Calling(D(b), x)
      BY DEF NewCalls, D
    <3>2. b = Len(stack) /\ b = n + 1
      BY <1>2, <1>3, <3>1
    <3> QED
      BY <1>2, <3>1, <3>2 DEF Calling
  <2> HIDE DEF N
  <2>2. N \subseteq {n + 1} /\ (x # t => n + 1 \notin N)
    BY <2>1
  <2>3. Cardinality(N) \in {0, 1} /\ (n + 1 \notin N => Cardinality(N) = 0)
    BY <2>2, OneAtMost
  <2> QED
    BY <2>2, <2>3 DEF N
<1>14. asynccnt'[x] - asynccnt[x] = 0
  BY <1>0, <1>1
<1>15. CASE x = t
  <2>1. asynccnt'[x] - asynccnt[x] <= 0 + 1 + 0 - 1 /\ 0 \in Int /\ 1 \in Int
    BY <1>14
  <2>2. /\ Cardinality(Queued(semwait, x)') >= Cardinality(Queued(semwait, x)) + 1
        /\ Cardinality(NewCalls(stack, n, x)) <= 1
    BY <1>10, <1>13, <1>15 DEF Q, R
  <2> QED
    BY <1>0, <1>3, <1>11, <1>12, <2>1, <2>2, GapHolds
<1>16. CASE x # t
  <2>1. asynccnt'[x] - asynccnt[x] <= 0 + 0 + 0 - 0 /\ 0 \in Int
    BY <1>14
  <2>2. /\ Cardinality(Queued(semwait, x)') >= Cardinality(Queued(semwait, x)) + 0
        /\ Cardinality(NewCalls(stack, n, x)) <= 0
    BY <1>10, <1>13, <1>16 DEF Q, R
  <2> QED
    BY <1>0, <1>3, <1>11, <1>12, <2>1, <2>2, GapHolds
<1> QED
  BY <1>15, <1>16

\* The queue of t's semaphore loses its head, nobody else.
LEMMA QueueKept ==
  ASSUME TypeOK, OrderInv, OrderInv', NEW t \in Targets, NEW x \in Targets,
         semwait' = [s \in Sems |-> IF s = semaphore[t] THEN Rest(semwait[s]) ELSE semwait[s]]
  PROVE  /\ Woken(t, x) \in {0, 1}
         /\ Cardinality(Queued(semwait, x)) \in Nat /\ Cardinality(Queued(semwait, x)') \in Nat
         /\ Cardinality(Queued(semwait, x)') >= Cardinality(Queued(semwait, x)) - Woken(t, x)
<1>1. /\ semwait \in [Sems -> Seq(Targets)] /\ IsFiniteSet(Queued(semwait, x))
      /\ IsFiniteSet(Queued(semwait, x)')
      /\ semaphore[t] \in Sems \cup {NoSem}
  BY DEF TypeOK, OrderInv, Counted
<1>2. Cardinality(Queued(semwait, x)) \in Nat /\ Cardinality(Queued(semwait, x)') \in Nat
  BY <1>1, FS_CardinalityType
<1>3. CASE semaphore[t] = NoSem \/ semwait[semaphore[t]] = <<>>
  <2>1. semwait' = semwait
    <3>1. \A s \in Sems : semwait'[s] = semwait[s]
      BY <1>3, Make1Assumption DEF Rest
    <3> QED
      BY <1>1, <3>1
  <2>2. Woken(t, x) = 0
    BY <1>3 DEF Woken
  <2>3. Queued(semwait, x)' = Queued(semwait, x)
    BY <2>1 DEF Queued
  <2> QED
    BY <1>2, <2>2, <2>3
<1>4. CASE semaphore[t] # NoSem /\ semwait[semaphore[t]] # <<>>
  <2> DEFINE s == semaphore[t]
             w == semwait[s]
             e == <<s, 1>>
             Q == Queued(semwait, x)
             R == Queued(semwait, x)'
             f == [y \in Q \ {e} |-> IF y[1] = s THEN <<s, y[2] - 1>> ELSE y]
  <2>1. s \in Sems /\ w \in Seq(Targets) /\ w # <<>>
    BY <1>1, <1>4
  <2>2. /\ semwait'[s] = Tail(w) /\ \A r \in Sems : r # s => semwait'[r] = semwait[r]
    BY <1>4, <2>1 DEF Rest
  <2> HIDE DEF w
  <2>3. /\ \A i \in DOMAIN w : i \in Nat /\ i # 0 /\
                (i # 1 => i - 1 \in Nat /\ i - 1 \in DOMAIN Tail(w) /\ Tail(w)[i - 1] = w[i])
        /\ 1 \in DOMAIN w /\ w[1] = Head(w)
    <3>1. /\ Len(w) \in Nat \ {0} /\ DOMAIN w = 1..Len(w) /\ w[1] = Head(w)
          /\ DOMAIN Tail(w) = 1..(Len(w) - 1)
          /\ \A i \in 1..(Len(w) - 1) : Tail(w)[i] = w[i + 1]
      BY <2>1
    <3>2. ASSUME NEW i \in 1..Len(w), i # 1
          PROVE  i - 1 \in Nat /\ i - 1 \in 1..(Len(w) - 1) /\ Tail(w)[i - 1] = w[i]
      <4>1. i - 1 \in Nat /\ i - 1 \in 1..(Len(w) - 1) /\ (i - 1) + 1 = i
        BY <3>1, <3>2
      <4> QED
        BY <3>1, <4>1
    <3>3. \A i \in 1..Len(w) : i \in Nat /\ i # 0
      BY <3>1
    <3> QED
      BY <3>1, <3>2, <3>3
  <2>4. ASSUME NEW y \in Q
        PROVE  /\ y[1] \in Sems /\ y[2] \in Nat /\ y = <<y[1], y[2]>>
               /\ y[1] = s => y[2] \in DOMAIN w /\ w[y[2]] = x
               /\ y[1] # s => y \in R
    <3>1. y \in Sems \X Nat /\ y[2] \in DOMAIN semwait[y[1]] /\ semwait[y[1]][y[2]] = x
      BY DEF Queued
    <3>2. y[1] \in Sems /\ y[2] \in Nat /\ y = <<y[1], y[2]>>
      BY <3>1
    <3>3. y[1] # s => y \in R
      BY <2>2, <3>1, <3>2 DEF Queued
    <3> QED
      BY <3>1, <3>2, <3>3 DEF w
  <2> HIDE DEF s
  <2>5. ASSUME NEW y \in Q \ {e} PROVE f[y] \in R /\ (y[1] = s => y[2] # 1)
    <3>0. y \in Q /\ y # e
      OBVIOUS
    <3>1. CASE y[1] = s
      <4>1. y[2] # 1
        BY <2>4, <3>0, <3>1
      <4>2. f[y] = <<s, y[2] - 1>> /\ y[2] - 1 \in Nat
        BY <2>3, <2>4, <3>0, <3>1, <4>1
      <4>3. y[2] - 1 \in DOMAIN Tail(w) /\ Tail(w)[y[2] - 1] = x
        BY <2>3, <2>4, <3>0, <3>1, <4>1
      <4>4. <<s, y[2] - 1>> \in R
        BY <2>1, <2>2, <4>2, <4>3 DEF Queued
      <4> QED
        BY <4>1, <4>2, <4>4
    <3>2. CASE y[1] # s
      BY <2>4, <3>0, <3>2
    <3> QED
      BY <3>1, <3>2
  <2>6. \A y, z \in Q \ {e} : f[y] = f[z] => y = z
    <3> SUFFICES ASSUME NEW y \in Q \ {e}, NEW z \in Q \ {e}, f[y] = f[z] PROVE y = z
      OBVIOUS
    <3>1. /\ y = <<y[1], y[2]>> /\ z = <<z[1], z[2]>> /\ y[2] \in Nat /\ z[2] \in Nat
      BY <2>4
    <3>2. f[y] = (IF y[1] = s THEN <<s, y[2] - 1>> ELSE y) /\ f[z] = (IF z[1] = s THEN <<s, z[2] - 1>> ELSE z)
      OBVIOUS
    <3> HIDE DEF f
    <3>3. CASE y[1] = s /\ z[1] = s
      <4>1. <<s, y[2] - 1>> = <<s, z[2] - 1>>
        BY <3>2, <3>3, Zenon
      <4>2. y[2] - 1 = z[2] - 1
        BY <4>1
      <4>3. y[2] = z[2]
        BY <3>1, <4>2
      <4> QED
        BY <3>1, <3>3, <4>3, Zenon
    <3>4. CASE y[1] = s /\ z[1] # s
      <4>1. z = <<s, y[2] - 1>>
        BY <3>2, <3>4, Zenon
      <4> QED
        BY <3>4, <4>1
    <3>5. CASE y[1] # s /\ z[1] = s
      <4>1. y = <<s, z[2] - 1>>
        BY <3>2, <3>5, Zenon
      <4> QED
        BY <3>5, <4>1
    <3>6. CASE y[1] # s /\ z[1] # s
      BY <3>2, <3>6
    <3> QED
      BY <3>3, <3>4, <3>5, <3>6
  <2>7. IsFiniteSet(Q \ {e}) /\ Cardinality(Q \ {e}) = IF e \in Q THEN Cardinality(Q) - 1 ELSE Cardinality(Q)
    BY <1>1, FS_RemoveElement
  <2>8. f \in Injection(Q \ {e}, R)
    <3>1. f \in [Q \ {e} -> R]
      BY <2>5
    <3> HIDE DEF f
    <3> QED
      BY <2>6, <3>1 DEF Injection, IsInjective
  <2>9. Cardinality(Q \ {e}) <= Cardinality(R)
    <3> HIDE DEF f, R, Q, e
    <3> QED
      BY <1>1, <2>8, FS_Injection DEF R
  <2>10. Woken(t, x) = IF Head(w) = x THEN 1 ELSE 0
    BY <1>4 DEF Woken, w, s
  <2>11. Head(w) # x => e \notin Q
    <3> SUFFICES ASSUME e \in Q PROVE Head(w) = x
      OBVIOUS
    <3>1. e[1] = s /\ e[2] = 1
      OBVIOUS
    <3> QED
      BY <2>3, <2>4, <3>1
  <2>12. Cardinality(Q) \in Nat /\ Cardinality(R) \in Nat
    BY <1>2
  <2> HIDE DEF Q, R, e
  <2>13. Cardinality(R) >= Cardinality(Q) - Woken(t, x) /\ Woken(t, x) \in {0, 1}
    BY <2>7, <2>9, <2>10, <2>11, <2>12
  <2> QED
    BY <2>12, <2>13 DEF Q, R
<1> QED
  BY <1>1, <1>3, <1>4

\* What was owed or woken is called.
LEMMA ToldAll ==
  ASSUME TypeOK, TypeOK', OrderInv, NEW t \in Targets, progress[t] # "DONE", NEW n \in Nat, stack # <<>>,
         Len(Popped) = n, stack' = (TellParents(t, NoTarget) \o Release(t)) \o Popped
  PROVE  \A x \in Targets : Cardinality(NewCalls(stack', n, x)) >= Cardinality(Lost(t, x)) + Woken(t, x)
<1> DEFINE p == Told(t)
           q == Release(t)
           w == p \o q
           k == Len(p)
           m == Len(w)
<1>1. /\ p \in Seq(States) /\ q \in Seq(States) /\ w \in Seq(States) /\ Popped \in Seq(States)
      /\ stack' = w \o Popped
  <2>1. p \in Seq(States) /\ q \in Seq(States) /\ Popped \in Seq(States)
    BY ToldType, StackType
  <2>2. TellParents(t, NoTarget) = p
    BY ToldType
  <2> HIDE DEF p, q, States
  <2> QED
    BY <2>1, <2>2 DEF q
<1>2. /\ k \in Nat /\ m \in Nat /\ k <= m
      /\ \A i \in DOMAIN parents[t] : /\ i \in 1..k /\ i \in 1..m
                                      /\ w[i].curstate = "MAKE1B" /\ w[i].t = parents[t][i]
      /\ \A x \in Targets : Woken(t, x) = 1 =>
           m = k + 1 /\ w[m].curstate = "MAKE1B" /\ w[m].t = x
  <2>1. /\ k \in Nat /\ DOMAIN parents[t] = 1..k
        /\ \A i \in DOMAIN parents[t] : p[i].curstate = "MAKE1B" /\ p[i].t = parents[t][i]
    BY ToldType
  <2>2. \A x \in Targets : Woken(t, x) = 1 =>
          Len(q) = 1 /\ q[1].curstate = "MAKE1B" /\ q[1].t = x
    <3> SUFFICES ASSUME NEW x \in Targets, Woken(t, x) = 1
                 PROVE  Len(q) = 1 /\ q[1].curstate = "MAKE1B" /\ q[1].t = x
      OBVIOUS
    <3> DEFINE y == State(Head(semwait[semaphore[t]]), NoTarget, "MAKE1B")
    <3>1. /\ semaphore[t] # NoSem /\ semwait[semaphore[t]] # <<>>
          /\ Head(semwait[semaphore[t]]) = x
      BY DEF Woken
    <3>2. q = <<y>>
      BY <3>1 DEF Release
    <3>3. y.curstate = "MAKE1B" /\ y.t = x
      BY <3>1 DEF State
    <3> HIDE DEF y, q
    <3> QED
      BY <3>2, <3>3
  <2>3. Len(q) \in Nat
    BY ToldType
  <2> HIDE DEF p, q, States
  <2>4. /\ m = k + Len(q) /\ m \in Nat
        /\ \A i \in 1..m : IF i <= k THEN w[i] = p[i] ELSE w[i] = q[i - k]
    BY <1>1
  <2> HIDE DEF w, k, m
  <2>5. ASSUME NEW i \in DOMAIN parents[t] PROVE i \in 1..k /\ i \in 1..m /\ w[i] = p[i]
    BY <2>1, <2>3, <2>4
  <2>6. ASSUME Len(q) = 1 PROVE m = k + 1 /\ w[m] = q[1]
    <3>1. m = k + 1 /\ m \in 1..m /\ ~(m <= k) /\ m - k = 1
      BY <2>1, <2>4, <2>6
    <3>2. w[m] = q[m - k]
      BY <2>4, <3>1
    <3> QED
      BY <3>1, <3>2
  <2>7. k <= m
    BY <2>1, <2>3, <2>4
  <2> QED
    BY <2>1, <2>2, <2>4, <2>5, <2>6, <2>7
<1> HIDE DEF p, q, w, k, m, States
<1>3. /\ Len(stack') = m + n
      /\ \A i \in 1..m : m + n + 1 - i \in (n + 1)..Len(stack') /\ Deep(stack', m + n + 1 - i) = w[i]
  <2>1. /\ Len(w \o Popped) = Len(w) + Len(Popped)
        /\ \A b \in (Len(Popped) + 1)..(Len(Popped) + Len(w)) :
             Deep(w \o Popped, b) = w[Len(w) + Len(Popped) + 1 - b]
    BY <1>1, DeepPush
  <2>2. Len(stack') = m + n
    BY <1>1, <2>1 DEF m
  <2>3. ASSUME NEW i \in 1..m
        PROVE  m + n + 1 - i \in (n + 1)..Len(stack') /\ Deep(stack', m + n + 1 - i) = w[i]
    <3>1. /\ m + n + 1 - i \in (n + 1)..(n + m) /\ m + n + 1 - i \in (n + 1)..(m + n)
          /\ m + n + 1 - (m + n + 1 - i) = i
      BY <1>2
    <3>2. Deep(w \o Popped, m + n + 1 - i) = w[m + n + 1 - (m + n + 1 - i)]
      BY <2>1, <3>1 DEF m
    <3> QED
      BY <1>1, <2>2, <3>1, <3>2
  <2> QED
    BY <2>2, <2>3
<1> SUFFICES ASSUME NEW x \in Targets
             PROVE  Cardinality(NewCalls(stack', n, x)) >= Cardinality(Lost(t, x)) + Woken(t, x)
  OBVIOUS
<1> DEFINE N == NewCalls(stack', n, x)
           L == Lost(t, x)
           e == m + n + 1 - m
           A == {b \in N : b >= m + n + 1 - k}
           f == [y \in L |-> m + n + 1 - y[2]]
<1>4. IsFiniteSet(N)
  <2>1. stack' \in Seq(States) /\ n <= Len(stack')
    BY <1>2, <1>3 DEF TypeOK
  <2> QED
    BY <2>1, CallsSplit
<1>5. \A i \in 1..m : w[i].curstate = "MAKE1B" /\ w[i].t = x => m + n + 1 - i \in N
  BY <1>3 DEF NewCalls, Calling
<1>6. ASSUME NEW y \in L
      PROVE  y[2] \in DOMAIN parents[t] /\ parents[t][y[2]] = x /\ y = <<t, y[2]>>
  <2>1. /\ y \in Targets \X Nat /\ y[1] = t /\ y[2] \in DOMAIN parents[y[1]]
        /\ parents[y[1]][y[2]] = x
    BY DEF Lost, Owed
  <2>2. y = <<y[1], y[2]>>
    BY <2>1
  <2> QED
    BY <2>1, <2>2
<1>7. ASSUME NEW y \in L PROVE f[y] \in A
  <2>1. y[2] \in 1..k /\ y[2] \in 1..m /\ w[y[2]].curstate = "MAKE1B" /\ w[y[2]].t = x
    BY <1>2, <1>6
  <2>2. m + n + 1 - y[2] \in N /\ m + n + 1 - y[2] >= m + n + 1 - k
    BY <1>2, <1>5, <2>1
  <2> QED
    BY <2>2
<1>8. \A y, z \in L : f[y] = f[z] => y = z
  <2> SUFFICES ASSUME NEW y \in L, NEW z \in L, f[y] = f[z] PROVE y = z
    OBVIOUS
  <2>1. m + n + 1 - y[2] = m + n + 1 - z[2]
    OBVIOUS
  <2>2. y[2] \in 1..k /\ z[2] \in 1..k
    BY <1>2, <1>6
  <2>3. y[2] = z[2]
    BY <1>2, <2>1, <2>2
  <2> QED
    BY <1>6, <2>3
<1>9. f \in Injection(L, A)
  <2>1. f \in [L -> A]
    BY <1>7
  <2> HIDE DEF f, A
  <2> QED
    BY <1>8, <2>1 DEF Injection, IsInjective
<1>10. A \subseteq N /\ IsFiniteSet(A)
  <2>1. A \subseteq N
    OBVIOUS
  <2> QED
    BY <1>4, <2>1, FS_Subset
<1>11. Woken(t, x) = 1 => e \in N /\ e \notin A
  <2> SUFFICES ASSUME Woken(t, x) = 1 PROVE e \in N /\ e \notin A
    OBVIOUS
  <2>1. m = k + 1 /\ w[m].curstate = "MAKE1B" /\ w[m].t = x
    BY <1>2
  <2>2. m \in 1..m /\ ~(e >= m + n + 1 - k)
    BY <1>2, <2>1
  <2> QED
    BY <1>5, <2>1, <2>2
<1>12. Woken(t, x) \in {0, 1}
  BY DEF Woken
<1> HIDE DEF f, A, N, L, e
<1>13. IsFiniteSet(L) /\ Cardinality(L) <= Cardinality(A) /\ Cardinality(L) \in Nat
  <2>1. IsFiniteSet(L) /\ Cardinality(L) <= Cardinality(A)
    BY <1>9, <1>10, FS_Injection
  <2> QED
    BY <2>1, FS_CardinalityType
<1>14. /\ Cardinality(A) \in Nat /\ Cardinality(N) \in Nat /\ Cardinality(N) >= Cardinality(A)
       /\ \A b \in N : b \notin A => Cardinality(N) >= Cardinality(A) + 1
  BY <1>4, <1>10, MoreOf
<1>15. Cardinality(N) >= Cardinality(L) + Woken(t, x)
  BY <1>11, <1>12, <1>13, <1>14
<1> QED
  BY <1>15 DEF N, L

\* make1c() is through with t.
LEMMA DoneExact ==
  ASSUME NothingFound, TypeOK, TypeOK', OrderInv, OrderInv', ~intr, NEW x \in Targets, Make1cDone
  PROVE  Gap(x)' <= Gap(x)
<1> PICK t : t = top.t
  OBVIOUS
<1>0. Counted /\ Counted' /\ asynccnt[x] \in Int
  BY DEF OrderInv, TypeOK
<1>1. /\ stack # <<>> /\ top.curstate = "MAKE1C" /\ t \in Targets
  BY StackType DEF Make1cDone, Handler, top
<1>2. /\ stack' = (TellParents(t, NoTarget) \o Release(t)) \o Popped
      /\ semwait' = [s \in Sems |-> IF s = semaphore[t] THEN Rest(semwait[s]) ELSE semwait[s]]
      /\ UNCHANGED <<asynccnt, parents>>
      /\ progress' = [progress EXCEPT ![t] = "DONE"]
  BY <1>1 DEF Make1cDone, NothingFound
<1> PICK h : h = Len(stack) - 1
  OBVIOUS
<1>3. /\ h \in Nat /\ Len(stack) = h + 1 /\ D(h + 1) = top
      /\ Len(Popped) = h /\ Kept(stack, Popped, h)
  BY <1>1, Handling DEF D, Handlers
<1>4. progress[t] # "DONE"
  <2>1. h + 1 \in Places
    BY <1>3 DEF Places
  <2> QED
    BY <1>1, <1>3, <2>1 DEF OrderInv, Alone, Holding, Begun
<1>5. Kept(stack, stack', h) /\ Cardinality(NewCalls(stack', h, x)) >= Cardinality(Lost(t, x)) + Woken(t, x)
  <2>1. Kept(Popped, stack', h)
    BY <1>1, <1>2, <1>3, <1>4, ToldCalls
  <2>2. h <= h
    BY <1>3
  <2>3. Cardinality(NewCalls(stack', h, x)) >= Cardinality(Lost(t, x)) + Woken(t, x)
    BY <1>1, <1>2, <1>3, <1>4, ToldAll
  <2> QED
    BY <1>3, <2>1, <2>2, <2>3, KeptTrans
<1>6. Cardinality(NewCalls(stack, h, x)) <= 0
  BY <1>1, NoCallTaken
<1> DEFINE L == Cardinality(Lost(t, x))
           W == Woken(t, x)
           O == Cardinality(Owed(progress, parents, x))
           P == Cardinality(Owed(progress, parents, x)')
           Q == Cardinality(Queued(semwait, x))
           R == Cardinality(Queued(semwait, x)')
<1>7. L \in Nat /\ P = O - L
  BY <1>1, <1>2, OwedLeft
<1>8. W \in {0, 1} /\ Q \in Nat /\ R \in Nat /\ R >= Q - W
  BY <1>1, <1>2, QueueKept
<1>9. O \in Nat
  BY <1>0, GapTypes
<1>10. asynccnt'[x] - asynccnt[x] = 0
  BY <1>0, <1>2
<1> HIDE DEF L, W, O, P, Q, R
<1>11. /\ P >= O + (0 - L) /\ R >= Q + (0 - W) /\ 0 - L \in Int /\ 0 - W \in Int /\ L + W \in Int
       /\ asynccnt'[x] - asynccnt[x] <= (0 - L) + (0 - W) + (L + W) - 0 /\ 0 \in Int
  BY <1>7, <1>8, <1>9, <1>10
<1>12. /\ Cardinality(Owed(progress, parents, x)') >= Cardinality(Owed(progress, parents, x)) + (0 - L)
       /\ Cardinality(Queued(semwait, x)') >= Cardinality(Queued(semwait, x)) + (0 - W)
       /\ Cardinality(NewCalls(stack', h, x)) >= L + W
  BY <1>5, <1>11 DEF L, W, O, P, Q, R
<1> QED
  BY <1>0, <1>5, <1>6, <1>11, <1>12, GapHolds

GapsNat == \A t \in Targets : Gap(t) \in Nat

LEMMA GapsType == TypeOK /\ Counted => GapsNat
BY GapTypes DEF GapsNat

\* No step counts what is not to come.
LEMMA ExactStep ==
  ASSUME NothingFound, TypeOK, TypeOK', OrderInv, OrderInv', Exact, [Next]_vars
  PROVE  Exact'
<1> SUFFICES ASSUME ~intr', NEW x \in Targets PROVE Gap(x)' <= 0
  BY DEF Exact
<1>1. ~intr
  BY DEF Next, Loop, AnyComplete, Complete, vars, exec, Make1aSeen, Make1aStart, Make1atail,
      Make1bWait, Make1bSemaphore, Make1bReady, Make1cLaunch, Make1cNoExec, Make1cDone, Make1d,
      ExecWait, ExecReturn, Make1Return, Interrupt, Ended
<1>2. Gap(x)' <= Gap(x)
  BY <1>1, AnswerExact, WaitExact, SeenExact, StartExact, QueueExact, DoneExact DEF Next, Loop
<1>3. Gap(x) <= 0 /\ Gap(x) \in Nat
  BY <1>1, GapTypes DEF Exact, OrderInv
<1>4. Gap(x)' \in Nat
  <2>1. TypeOK' /\ Counted' => GapsNat'
    BY GapsType, PTL
  <2> QED
    BY <2>1 DEF OrderInv, GapsNat
<1> QED
  BY <1>2, <1>3, <1>4

-----------------------------------------------------------------------------
(***************************************************************************)
(* What the steps do, told once for all that follows.                      *)
(***************************************************************************)

\* No handler runs.
Rests ==
  \/ AnyComplete \/ ExecWait \/ ExecReturn \/ Interrupt \/ Make1Return \/ Ended \/ UNCHANGED vars

\* A handler runs, for the state on top.
Handles ==
  /\ ~Rests
  /\ stack # <<>>
  /\ \/ Make1aSeen \/ Make1aStart \/ Make1atail \/ Make1bWait \/ Make1bSemaphore \/ Make1bReady
     \/ Make1cLaunch \/ Make1cNoExec \/ Make1cDone \/ Make1d

\* What a step pushes.
Fresh(x) ==
  /\ x.curstate = "MAKE1A" => Make1aStart \/ Make1Return
  /\ x.curstate = "MAKE1ATAIL" => Make1aStart /\ x.t = top.t
  /\ x.curstate = "MAKE1B" => Make1atail \/ Make1cDone
  /\ x.curstate = "MAKE1C" => (Make1bReady \/ Make1d) /\ x.t = top.t
  /\ x.curstate = "MAKE1D" => \/ Make1cNoExec /\ x.t = top.t
                              \/ AnyComplete /\ x.t \in running

\* The stack of a step: the lowest n states stay.
Shape(n) ==
  /\ n \in Nat /\ Kept(stack, stack', n) /\ (~intr => n >= Len(stack) - 1)
  /\ \/ Handles /\ n < Len(stack)
     \/ Rests /\ n = Len(stack)
  /\ \A b \in (n + 1)..Len(stack') : Fresh(D(b)')

LEMMA Shaped ==
  ASSUME NothingFound, TypeOK, TypeOK', OrderInv, [Next]_vars
  PROVE  \E n : Shape(n)
<1>1. CASE ~Rests /\ (Make1aSeen \/ Make1bWait \/ Make1bSemaphore \/ Make1cLaunch)
  <2>1. stack # <<>> /\ stack' = Popped
    BY <1>1 DEF Make1aSeen, Make1bWait, Make1bSemaphore, Make1cLaunch, Handler
  <2>2. PICK n \in Nat : /\ Kept(stack, stack', n) /\ (n + 1)..Len(stack') = {} /\ n < Len(stack)
                         /\ ~intr => n >= Len(stack) - 1
    BY <2>1, Taken
  <2>3. Handles
    BY <1>1, <2>1 DEF Handles
  <2>4. Shape(n)
    BY <2>2, <2>3 DEF Shape
  <2> QED
    BY <2>4
<1>2. CASE ~Rests /\ Make1aStart
  <2>0. stack # <<>> /\ top.curstate = "MAKE1A"
    BY <1>2 DEF Make1aStart, Handler, top
  <2> PICK t : t = top.t
    OBVIOUS
  <2> PICK h : h = Len(stack) - 1
    OBVIOUS
  <2>1. Opening(h, t, depends'[t])
    <3> DEFINE deps == depends[t] \o NewIncludes(depends[t])
    <3>1. t \in Targets
      BY <2>0, StackType
    <3>2. deps \in Seq(Targets) /\ depends'[t] = deps
      <4>1. NewIncludes(depends[t]) \in Seq(Targets) /\ depends[t] \in Seq(Targets)
        BY <3>1, NewIncludesType DEF TypeOK
      <4>2. depends' = [depends EXCEPT ![t] = deps]
        BY <1>2 DEF Make1aStart
      <4> QED
        BY <3>1, <4>1, <4>2 DEF TypeOK
    <3>3. stack' = IF intr THEN Continue("MAKE1ATAIL") ELSE Visits(deps, t) \o Continue("MAKE1ATAIL")
      BY <1>2 DEF Make1aStart, Visits
    <3> HIDE DEF deps
    <3> QED
      BY <2>0, <3>2, <3>3, OpenedStack
  <2>2. h \in Nat /\ Len(stack) = h + 1 /\ Kept(stack, stack', h) /\ h >= Len(stack) - 1 /\ h < Len(stack)
    <3>1. h \in Nat /\ Len(stack) = h + 1 /\ Kept(stack, stack', h)
      BY <2>1 DEF Opening
    <3> QED
      BY <3>1
  <2>3. ASSUME NEW b \in (h + 1)..Len(stack') PROVE Fresh(D(b)')
    <3>1. ~intr /\ b \in Int /\ (b = h + 1 \/ b \in (h + 2)..Len(stack'))
      <4>1. Len(stack') \in Nat /\ h \in Nat
        BY <2>2, DeepType DEF TypeOK
      <4>2. b \in Int /\ (b = h + 1 \/ b \in (h + 2)..Len(stack')) /\ Len(stack') # h
        BY <4>1
      <4>3. ~intr
        BY <2>1, <4>2 DEF Opening
      <4> QED
        BY <4>2, <4>3
    <3>2. \/ D(b)'.curstate = "MAKE1ATAIL" /\ D(b)'.t = t
          \/ D(b)'.curstate = "MAKE1A"
      BY <2>1, <3>1 DEF Opening, TailOf
    <3> QED
      BY <1>2, <3>2 DEF Fresh
  <2>4. Handles
    BY <1>2, <2>0 DEF Handles
  <2>5. Shape(h)
    BY <2>2, <2>3, <2>4 DEF Shape
  <2> QED
    BY <2>5
<1>3. CASE ~Rests /\ (Make1atail \/ Make1bReady \/ Make1cNoExec \/ Make1d)
  <2>1. PICK c \in {"MAKE1B", "MAKE1C", "MAKE1D"} :
          /\ stack # <<>> /\ stack' = Continue(c)
          /\ c = "MAKE1B" => Make1atail
          /\ c = "MAKE1C" => Make1bReady \/ Make1d
          /\ c = "MAKE1D" => Make1cNoExec
    <3>1. CASE Make1atail
      BY <3>1 DEF Make1atail, Handler
    <3>2. CASE Make1bReady
      BY <3>2 DEF Make1bReady, Handler
    <3>3. CASE Make1cNoExec
      BY <3>3 DEF Make1cNoExec, Handler
    <3>4. CASE Make1d
      BY <3>4 DEF Make1d, Handler
    <3> QED
      BY <1>3, <3>1, <3>2, <3>3, <3>4
  <2> PICK h : h = Len(stack) - 1
    OBVIOUS
  <2>2. /\ h \in Nat /\ Kept(stack, stack', h) /\ h >= Len(stack) - 1 /\ h < Len(stack)
        /\ \A b \in (h + 1)..Len(stack') : D(b)'.curstate = c /\ D(b)'.t = top.t
    BY <2>1, Replaced DEF Handlers
  <2>3. \A b \in (h + 1)..Len(stack') : Fresh(D(b)')
    BY <2>1, <2>2 DEF Fresh
  <2>4. Handles
    BY <1>3, <2>1 DEF Handles
  <2>5. Shape(h)
    BY <2>2, <2>3, <2>4 DEF Shape
  <2> QED
    BY <2>5
<1>4. CASE ~Rests /\ Make1cDone
  <2>1. stack # <<>> /\ top.curstate = "MAKE1C"
    BY <1>4 DEF Make1cDone, Handler, top
  <2> PICK h : h = Len(stack) - 1
    OBVIOUS
  <2>2. \E n \in Nat : /\ Kept(stack, stack', n) /\ n <= h /\ (~intr => n = h)
                       /\ \A b \in (n + 1)..Len(stack') : D(b)'.curstate = "MAKE1B"
    <3> PICK t : t = top.t
      OBVIOUS
    <3>1. t \in Targets /\ stack' = (TellParents(t, NoTarget) \o Release(t)) \o Popped
      BY <1>4, <2>1, StackType DEF Make1cDone, NothingFound
    <3>2. PICK n \in 0..h : Len(Popped) = n /\ Kept(stack, Popped, n) /\ (~intr => n = h)
      BY <2>1, Handling DEF Handlers
    <3>3. h \in Nat /\ n \in Nat /\ n <= n /\ n <= h /\ h + 1 \in Places /\ D(h + 1) = top
      BY <2>1, <3>2, Handling DEF Handlers, Places, D
    <3>4. progress[t] # "DONE"
      BY <2>1, <3>3 DEF OrderInv, Alone, Holding, Begun
    <3>5. /\ Kept(Popped, stack', n)
          /\ \A b \in (n + 1)..Len(stack') : D(b)'.curstate = "MAKE1B"
      BY <2>1, <3>1, <3>2, <3>3, <3>4, ToldCalls
    <3>6. Kept(stack, stack', n)
      BY <3>2, <3>3, <3>5, KeptTrans
    <3> QED
      BY <3>2, <3>3, <3>5, <3>6
  <2>3. PICK n \in Nat : /\ Kept(stack, stack', n) /\ n <= h /\ (~intr => n = h)
                         /\ \A b \in (n + 1)..Len(stack') : D(b)'.curstate = "MAKE1B"
    BY <2>2
  <2>4. Len(stack) \in Nat /\ n < Len(stack) /\ (~intr => n >= Len(stack) - 1)
    BY <2>3, Stacked
  <2>5. \A b \in (n + 1)..Len(stack') : Fresh(D(b)')
    BY <1>4, <2>3 DEF Fresh
  <2>6. Handles
    BY <1>4, <2>1 DEF Handles
  <2>7. Shape(n)
    BY <2>3, <2>4, <2>5, <2>6 DEF Shape
  <2> QED
    BY <2>7
<1>5. CASE AnyComplete
  <2>1. PICK t \in Targets, st \in {EXEC_CMD_OK, EXEC_CMD_FAIL} : Complete(t, st)
    BY <1>5 DEF AnyComplete
  <2> DEFINE x == [State(t, NoTarget, "MAKE1D") EXCEPT
                     !.status = IF sigint THEN EXEC_CMD_INTR ELSE st]
  <2>2. stack' = <<x>> \o stack /\ x.curstate = "MAKE1D" /\ x.t = t /\ t \in running
    BY <2>1 DEF Complete, State
  <2>3. x \in States
    BY DEF State, States, Statuses, Handlers
  <2> HIDE DEF x
  <2>4. stack \in Seq(States) /\ stack' \in Seq(States)
    BY DEF TypeOK
  <2> PICK n : n = Len(stack)
    OBVIOUS
  <2>5. /\ Len(stack') = n + 1 /\ n \in Nat
        /\ Kept(stack, stack', n) /\ D(n + 1)' = x
    BY <2>2, <2>3, <2>4, DeepOne, DeepType DEF D
  <2>6. \A b \in (n + 1)..Len(stack') : b = n + 1
    BY <2>5
  <2>7. \A b \in (n + 1)..Len(stack') : Fresh(D(b)')
    BY <1>5, <2>2, <2>5, <2>6 DEF Fresh
  <2> QED
    BY <1>5, <2>5, <2>7 DEF Shape, Rests
<1>6. CASE \/ ExecWait \/ ExecReturn \/ Interrupt \/ Make1Return \/ Ended \/ UNCHANGED vars
  <2>1. Rests
    BY <1>6 DEF Rests
  <2>2. Len(stack) \in Nat /\ Len(stack) >= Len(stack) - 1
    BY Stacked
  <2>3. CASE stack' = stack
    <3>1. Kept(stack, stack', Len(stack)) /\ (Len(stack) + 1)..Len(stack') = {}
      BY <2>2, <2>3 DEF Kept
    <3> QED
      BY <2>1, <2>2, <3>1 DEF Shape
  <2>4. CASE stack' # stack
    <3> DEFINE x == State(Roots[root + 1], NoTarget, "MAKE1A")
    <3>1. Make1Return /\ stack = <<>> /\ stack' = <<x>> /\ x.curstate = "MAKE1A"
      <4>1. Make1Return
        BY <1>6, <2>4 DEF ExecWait, ExecReturn, Interrupt, Ended, vars
      <4> QED
        BY <2>4, <4>1 DEF Make1Return, State
    <3> HIDE DEF x
    <3>2. Len(stack) = 0 /\ Len(stack') = 1 /\ Kept(stack, stack', 0)
      BY <3>1 DEF Kept
    <3>3. \A b \in (0 + 1)..Len(stack') : b = 1 /\ D(b)' = x
      BY <3>1, <3>2 DEF D, Deep
    <3>4. \A b \in (0 + 1)..Len(stack') : Fresh(D(b)')
      BY <3>1, <3>3 DEF Fresh
    <3> QED
      BY <2>1, <3>2, <3>4 DEF Shape
  <2> QED
    BY <2>3, <2>4
<1> QED
  BY <1>1, <1>2, <1>3, <1>4, <1>5, <1>6 DEF Next, Loop, Rests

\* Two calls for x on the stack are counted twice.
LEMMA TwoCalls ==
  ASSUME TypeOK, OrderInv, NEW a \in Places, NEW b \in Places, a # b, NEW x \in Targets,
         Calling(D(a), x), Calling(D(b), x)
  PROVE  asynccnt[x] >= 2
<1> DEFINE C == Calls(stack, x)
           O == Cardinality(Owed(progress, parents, x))
           Q == Cardinality(Queued(semwait, x))
<1>1. a \in C /\ b \in C
  BY DEF Calls, D, Places
<1>2. /\ IsFiniteSet(C) /\ O \in Nat /\ Q \in Nat /\ asynccnt[x] \in Int
      /\ asynccnt[x] - (O + Cardinality(C) + Q) \in Nat
  BY GapTypes DEF OrderInv, Gap
<1> HIDE DEF C, O, Q
<1>3. {a} \subseteq C /\ IsFiniteSet({a}) /\ Cardinality({a}) = 1
  BY <1>1, FS_Singleton
<1>4. Cardinality(C) \in Nat /\ Cardinality(C) >= Cardinality({a}) + 1
  <2>1. b \in C /\ b \notin {a}
    BY <1>1
  <2> QED
    BY <1>2, <1>3, <2>1, MoreOf
<1> QED
  BY <1>2, <1>3, <1>4

\* Who waits for a semaphore and for nothing else is not called, nor owed.
LEMMA QueuedOnly ==
  ASSUME TypeOK, OrderInv, NEW s \in Sems, NEW i \in DOMAIN semwait[s],
         NEW x \in Targets, semwait[s][i] = x, asynccnt[x] = 1, NEW b \in Places
  PROVE  ~Calling(D(b), x)
<1> SUFFICES ASSUME Calling(D(b), x) PROVE FALSE
  OBVIOUS
<1> DEFINE C == Calls(stack, x)
           O == Cardinality(Owed(progress, parents, x))
           Q == Queued(semwait, x)
<1>1. b \in C /\ <<s, i>> \in Q
  <2>1. b \in C
    BY DEF Calls, D, Places
  <2>2. semwait[s] \in Seq(Targets)
    BY DEF TypeOK
  <2>3. i \in Nat
    BY <2>2
  <2> QED
    BY <2>1, <2>3 DEF Queued
<1>2. /\ IsFiniteSet(C) /\ O \in Nat /\ Cardinality(C) \in Nat /\ Cardinality(Q) \in Nat
      /\ IsFiniteSet(Q) /\ asynccnt[x] - (O + Cardinality(C) + Cardinality(Q)) \in Nat
  BY GapTypes DEF OrderInv, Counted, Gap
<1> HIDE DEF C, O, Q
<1>3. Cardinality(C) # 0 /\ Cardinality(Q) # 0
  BY <1>1, <1>2, FS_EmptySet
<1> QED
  BY <1>2, <1>3

\* The top of the stack has a place.
LEMMA TopPlace ==
  ASSUME TypeOK, stack # <<>>
  PROVE  /\ Len(stack) \in Places /\ D(Len(stack)) = top /\ top.t \in Targets
         /\ Len(stack) \in Nat \ {0}
<1>1. stack \in Seq(States)
  BY DEF TypeOK
<1>2. Len(stack) \in Nat \ {0} /\ Deep(stack, Len(stack)) = Head(stack)
  BY <1>1, DeepTail
<1> QED
  BY <1>2, Stacked DEF Places, D, top

\* How a target gets on: the handler that runs for it takes it further.
Moved(x) ==
  \/ progress'[x] = progress[x] /\ status'[x] = status[x] /\ cmds'[x] = cmds[x]
  \/ /\ stack # <<>> /\ x = top.t
     /\ \/ /\ Make1aStart /\ top.curstate = "MAKE1A"
           /\ progress[x] = "INIT" /\ progress'[x] = "ONSTACK" /\ asynccnt'[x] = 1
           /\ status'[x] = status[x] /\ cmds'[x] = cmds[x]
        \/ /\ Make1atail /\ top.curstate = "MAKE1ATAIL" /\ progress'[x] = "ACTIVE"
           /\ status'[x] = status[x] /\ cmds'[x] = cmds[x]
        \/ /\ Make1bReady /\ top.curstate = "MAKE1B" /\ asynccnt[x] = 1
           /\ \/ progress'[x] = "RUNNING" /\ fate[x] < T_FATE_BROKEN
              \/ progress'[x] = progress[x] /\ cmds'[x] = cmds[x]
        \/ /\ Make1cDone /\ top.curstate = "MAKE1C" /\ progress'[x] = "DONE"
           /\ cmds'[x] = cmds[x]
        \/ /\ Make1d /\ top.curstate = "MAKE1D"
           /\ progress'[x] = progress[x] /\ cmds'[x] = Rest(cmds[x])

\* How its counter moves.
Ticked(x) ==
  \/ asynccnt'[x] = asynccnt[x]
  \/ /\ stack # <<>> /\ top.curstate = "MAKE1A" /\ x = top.t
     /\ progress[x] = "INIT" /\ asynccnt'[x] = 1
  \/ /\ stack # <<>> /\ top.curstate = "MAKE1A" /\ x = top.parent
     /\ asynccnt'[x] = asynccnt[x] + 1
  \/ /\ stack # <<>> /\ top.curstate = "MAKE1B" /\ x = top.t
     /\ Make1bWait /\ asynccnt[x] # 1 /\ asynccnt'[x] = asynccnt[x] - 1
  \/ /\ stack # <<>> /\ top.curstate = "MAKE1B" /\ x = top.t
     /\ Make1bReady /\ asynccnt[x] = 1 /\ asynccnt'[x] = 0

LEMMA Moves ==
  ASSUME NothingFound, TypeOK, [Next]_vars
  PROVE  /\ UNCHANGED <<fate, semaphore, globs>> /\ (intr => intr')
         /\ \A x \in Targets : Moved(x) /\ Ticked(x)
<1>1. CASE Make1aSeen \/ Make1aStart
  <2>1. /\ stack # <<>> /\ top.curstate = "MAKE1A" /\ top.t \in Targets
        /\ UNCHANGED <<fate, semaphore, globs, intr, status, cmds>>
    BY <1>1, StackType DEF Make1aSeen, Make1aStart, Handler, top, given
  <2>2. ASSUME NEW x \in Targets PROVE Ticked(x)
    <3>1. Notify(top.t, top.parent) \/ asynccnt' = asynccnt
      BY <1>1 DEF Make1aSeen, Make1aStart
    <3> QED
      BY <2>1, <3>1 DEF Notify, Ticked
  <2>3. ASSUME NEW x \in Targets PROVE Moved(x)
    <3>1. \/ progress' = progress
          \/ /\ Make1aStart /\ progress[top.t] = "INIT" /\ asynccnt'[top.t] = 1
             /\ progress' = [progress EXCEPT ![top.t] = "ONSTACK"]
      BY <1>1, <2>1 DEF Make1aSeen, Make1aStart, Seen, Notify
    <3> QED
      BY <2>1, <3>1 DEF Moved, TypeOK
  <2> QED
    BY <2>1, <2>2, <2>3
<1>2. CASE Make1atail \/ Make1bWait \/ Make1bSemaphore
  <2>1. /\ stack # <<>> /\ top.t \in Targets
        /\ UNCHANGED <<fate, semaphore, globs, intr, status, cmds>>
    BY <1>2, StackType DEF Make1atail, Make1bWait, Make1bSemaphore, Handler, given, graph
  <2>2. ASSUME NEW x \in Targets PROVE Ticked(x)
    BY <1>2, <2>1 DEF Make1atail, Make1bWait, Make1bSemaphore, Handler, top, Ticked, TypeOK
  <2>3. ASSUME NEW x \in Targets PROVE Moved(x)
    BY <1>2, <2>1 DEF Make1atail, Make1bWait, Make1bSemaphore, Handler, top, Moved, TypeOK
  <2> QED
    BY <2>1, <2>2, <2>3
<1>3. CASE Make1bReady
  <2> PICK t : t = top.t
    OBVIOUS
  <2>1. /\ stack # <<>> /\ top.curstate = "MAKE1B" /\ t \in Targets /\ asynccnt[t] = 1
        /\ UNCHANGED <<fate, semaphore, globs, intr>>
        /\ asynccnt' = [asynccnt EXCEPT ![t] = 0]
    BY <1>3, StackType DEF Make1bReady, Handler, top, given, graph
  <2>2. \A x \in Targets : x # t => status'[x] = status[x]
    BY <1>3, <2>1 DEF Make1bReady, TypeOK
  <2>3. \/ UNCHANGED <<progress, cmds>>
        \/ /\ fate[t] < T_FATE_BROKEN
           /\ progress' = [progress EXCEPT ![t] = "RUNNING"]
           /\ \A x \in Targets : x # t => cmds'[x] = cmds[x]
    BY <1>3, <2>1 DEF Make1bReady, TypeOK
  <2>4. ASSUME NEW x \in Targets PROVE Moved(x)
    BY <1>3, <2>1, <2>2, <2>3 DEF Moved, TypeOK
  <2>5. ASSUME NEW x \in Targets PROVE Ticked(x)
    BY <1>3, <2>1 DEF Ticked, TypeOK
  <2> QED
    BY <2>1, <2>4, <2>5
<1>4. CASE Make1cDone
  <2> PICK t : t = top.t
    OBVIOUS
  <2>1. /\ stack # <<>> /\ top.curstate = "MAKE1C" /\ t \in Targets
        /\ UNCHANGED <<fate, semaphore, globs, intr, asynccnt, cmds>>
        /\ progress' = [progress EXCEPT ![t] = "DONE"]
        /\ \A x \in Targets : x # t => status'[x] = status[x]
    BY <1>4, StackType DEF Make1cDone, Handler, top, given, NothingFound, Rescan, TypeOK
  <2>2. ASSUME NEW x \in Targets PROVE Moved(x) /\ Ticked(x)
    BY <1>4, <2>1 DEF Moved, Ticked, TypeOK
  <2> QED
    BY <2>1, <2>2
<1>5. CASE Make1d
  <2> PICK t : t = top.t
    OBVIOUS
  <2>1. /\ stack # <<>> /\ top.curstate = "MAKE1D" /\ t \in Targets
        /\ UNCHANGED <<fate, semaphore, globs, asynccnt, progress>> /\ (intr => intr')
        /\ cmds' = [cmds EXCEPT ![t] = Rest(cmds[t])]
        /\ \A x \in Targets : x # t => status'[x] = status[x]
    BY <1>5, StackType DEF Make1d, Handler, top, given, graph, CmdNext, TypeOK
  <2>2. ASSUME NEW x \in Targets PROVE Moved(x) /\ Ticked(x)
    BY <1>5, <2>1 DEF Moved, Ticked, TypeOK
  <2> QED
    BY <2>1, <2>2
<1>6. CASE Make1cLaunch \/ Make1cNoExec \/ Rests
  <2>1. UNCHANGED <<fate, semaphore, globs, intr, asynccnt, progress, status, cmds>>
    BY <1>6 DEF Rests, AnyComplete, Make1cLaunch, Make1cNoExec, Complete, ExecWait, ExecReturn,
        Interrupt, Make1Return, Ended, vars, given, graph
  <2> QED
    BY <2>1 DEF Moved, Ticked
<1> QED
  BY <1>1, <1>2, <1>3, <1>4, <1>5, <1>6 DEF Next, Loop, Rests

\* A state below the top, or any if no handler runs, stays.
LEMMA KeptState ==
  ASSUME TypeOK, TypeOK', NEW n, Shape(n), NEW b \in Places'
  PROVE  \/ /\ b \in 1..n /\ b \in Places /\ D(b)' = D(b)
            /\ b < Len(stack) \/ Rests
         \/ b \in (n + 1)..Len(stack') /\ Fresh(D(b)')
<1>1. Len(stack) \in Nat /\ Len(stack') \in Nat /\ n \in Nat /\ n <= Len(stack) /\ n <= Len(stack')
  BY DeepType DEF Shape, Kept, TypeOK
<1>2. CASE b \in 1..n
  <2>1. D(b)' = D(b) /\ b \in Places
    BY <1>1, <1>2 DEF Shape, Kept, D, Places
  <2> QED
    BY <1>1, <1>2, <2>1 DEF Shape
<1>3. CASE b \notin 1..n
  <2>1. b \in (n + 1)..Len(stack')
    BY <1>1, <1>3 DEF Places
  <2> QED
    BY <2>1 DEF Shape
<1> QED
  BY <1>2, <1>3

\* make1b() begins a target, make1c() ends it.
LEMMA BegunMoves ==
  ASSUME NothingFound, TypeOK, OrderInv, [Next]_vars, NEW x \in Targets
  PROVE  /\ Begun(x)' /\ ~Begun(x) => stack # <<>> /\ Make1bReady /\ x = top.t
         /\ Begun(x) /\ ~Begun(x)' => stack # <<>> /\ Make1cDone /\ x = top.t
<1>1. Moved(x) /\ Ticked(x)
  BY Moves
<1>2. CASE stack = <<>>
  BY <1>1, <1>2 DEF Moved, Ticked, Begun
<1>3. CASE stack # <<>>
  <2> PICK k : k = Len(stack)
    OBVIOUS
  <2>1. k \in Places /\ D(k) = top /\ top.t \in Targets
    BY <1>3, TopPlace
  <2>2. top.curstate \in {"MAKE1ATAIL", "MAKE1B"} /\ x = top.t => asynccnt[x] >= 1 /\ progress[x] \notin {"INIT", "DONE"}
    BY <2>1, Caller DEF Calling
  <2>3. top.curstate = "MAKE1A" /\ x = top.parent => asynccnt[x] >= 1 /\ progress[x] \notin {"INIT", "DONE"}
    <3>1. ASSUME top.curstate = "MAKE1A", x = top.parent PROVE top.parent # NoTarget
      BY <3>1, Make1Assumption
    <3> QED
      BY <1>3, <3>1, ForParent
  <2>4. asynccnt[x] \in Int
    BY DEF TypeOK
  <2> QED
    BY <1>1, <1>3, <2>2, <2>3, <2>4 DEF Moved, Ticked, Begun
<1> QED
  BY <1>2, <1>3

LEMMA VisitingStep ==
  ASSUME NothingFound, TypeOK, TypeOK', OrderInv, Apart, Visiting, [Next]_vars
  PROVE  Visiting'
<1> SUFFICES ASSUME NEW b \in Places', D(b)'.curstate = "MAKE1ATAIL"
             PROVE  progress'[D(b)'.t] = "ONSTACK"
  BY DEF Visiting
<1>1. PICK n : Shape(n)
  BY Shaped
<1>0. Rests => progress' = progress
  BY DEF Rests, AnyComplete, Complete, ExecWait, ExecReturn, Interrupt, Make1Return, Ended, vars
<1>2. CASE b \in Places /\ D(b)' = D(b) /\ (b < Len(stack) \/ Rests)
  <2> PICK x : x = D(b).t
    OBVIOUS
  <2>1. x \in Targets /\ progress[x] = "ONSTACK" /\ Calling(D(b), x) /\ Moved(x) /\ D(b).curstate = "MAKE1ATAIL"
    BY <1>2, Stacked, Moves DEF Visiting, Calling
  <2>2. ASSUME progress'[x] # progress[x] PROVE FALSE
    <3>1. /\ stack # <<>> /\ x = top.t
          /\ \/ Make1atail /\ top.curstate = "MAKE1ATAIL"
             \/ Make1bReady /\ top.curstate = "MAKE1B" /\ asynccnt[x] = 1
             \/ Make1cDone /\ top.curstate = "MAKE1C"
      BY <2>1, <2>2 DEF Moved
    <3> PICK k : k = Len(stack)
      OBVIOUS
    <3>2. k \in Places /\ D(k) = top /\ b < k /\ b # k
      BY <1>0, <1>2, <2>2, <3>1, TopPlace DEF Places
    <3>3. top.curstate # "MAKE1ATAIL"
      BY <1>2, <2>1, <3>1, <3>2 DEF Apart
    <3>4. top.curstate # "MAKE1C"
      BY <1>2, <2>1, <3>1, <3>2, Caller DEF Holding
    <3>5. top.curstate # "MAKE1B" \/ asynccnt[x] >= 2
      BY <1>2, <2>1, <3>1, <3>2, TwoCalls DEF Calling
    <3> QED
      BY <3>1, <3>3, <3>4, <3>5
  <2> QED
    BY <1>2, <2>1, <2>2
<1>3. CASE Fresh(D(b)')
  <2>1. Make1aStart /\ D(b)'.t = top.t
    BY <1>3 DEF Fresh
  <2>2. top.t \in Targets
    BY <2>1, StackType DEF Make1aStart, Handler
  <2> QED
    BY <2>1, <2>2 DEF Make1aStart, TypeOK
<1> QED
  BY <1>1, <1>2, <1>3, KeptState

\* No target goes back to the beginning.
LEMMA NeverAnew ==
  ASSUME NothingFound, TypeOK, [Next]_vars, NEW x \in Targets, progress[x] # "INIT"
  PROVE  progress'[x] # "INIT"
BY Moves DEF Moved

LEMMA ParentedStep ==
  ASSUME NothingFound, TypeOK, TypeOK', OrderInv, NEW rank \in [Targets -> Nat], RankInv(rank),
         Parented(rank), [Next]_vars
  PROVE  Parented(rank)'
<1> SUFFICES ASSUME NEW d \in Targets, NEW i \in DOMAIN parents'[d]
             PROVE  progress'[d] # "INIT" /\ rank[d] < rank[parents'[d][i]]
  BY DEF Parented
<1>1. CASE parents'[d] = parents[d]
  BY <1>1, NeverAnew DEF Parented
<1>2. CASE parents'[d] # parents[d]
  <2>1. /\ stack # <<>> /\ top.curstate = "MAKE1A" /\ Notify(top.t, top.parent)
        /\ \/ progress' = progress /\ progress[top.t] # "INIT"
           \/ progress' = [progress EXCEPT ![top.t] = "ONSTACK"]
    <3>1. Make1aSeen \/ Make1aStart
      BY <1>2 DEF Next, Loop, AnyComplete, Complete, vars, graph, Make1atail,
          Make1bWait, Make1bSemaphore, Make1bReady, Make1cLaunch, Make1cNoExec, Make1cDone, Make1d,
          ExecWait, ExecReturn, Make1Return, Interrupt, Ended
    <3> QED
      BY <1>2, <3>1 DEF Make1aSeen, Make1aStart, Handler, top, Seen
  <2> PICK p : p = top.parent
    OBVIOUS
  <2>2. top.t \in Targets /\ parents \in [Targets -> Seq(Targets)]
    BY <2>1, StackType DEF TypeOK
  <2>3. d = top.t /\ p # NoTarget /\ parents'[d] = Append(parents[d], p)
    BY <1>2, <2>1, <2>2 DEF Notify
  <2>4. p \in Targets /\ rank[d] < rank[p]
    <3>1. /\ p \in Targets
          /\ \E a \in 1..(Len(stack) - 1) : a \in Places /\ TailOf(D(a), p)
      BY <2>1, <2>3, ForParent
    <3>2. PICK a \in 1..(Len(stack) - 1) : TailOf(D(a), p)
      BY <3>1
    <3>3. Len(stack) \in Places /\ D(Len(stack)) = top
      BY <2>1, TopPlace
    <3>4. Under(D(a), D(Len(stack)), rank)
      BY <3>2, <3>3 DEF RankInv, Nested
    <3>5. rank[top.t] < rank[p]
      BY <2>1, <3>2, <3>3, <3>4 DEF Under, TailOf
    <3> QED
      BY <2>3, <3>1, <3>5
  <2>5. progress'[d] # "INIT"
    BY <2>1, <2>2, <2>3 DEF TypeOK
  <2>6. \/ i \in DOMAIN parents[d] /\ parents'[d][i] = parents[d][i]
        \/ parents'[d][i] = p
    BY <2>2, <2>3
  <2> QED
    BY <2>4, <2>5, <2>6 DEF Parented
<1> QED
  BY <1>1, <1>2

\* A target whose command runs, or has ended, is left as it is until make1d().
LEMMA RunKeeps ==
  ASSUME NothingFound, TypeOK, OrderInv, Visiting, Runs, [Next]_vars, NEW x \in Targets,
         progress[x] = "RUNNING", status[x] = EXEC_CMD_OK,
         \/ x \in running
         \/ \E b \in Places : Holding(D(b)) /\ D(b).t = x /\ (b < Len(stack) \/ Rests)
  PROVE  progress'[x] = "RUNNING" /\ status'[x] = EXEC_CMD_OK
<1>1. CASE Rests
  BY <1>1 DEF Rests, AnyComplete, Complete, ExecWait, ExecReturn, Interrupt, Make1Return, Ended, vars
<1>2. CASE ~Rests /\ stack # <<>> /\ x = top.t
  <2> PICK k : k = Len(stack)
    OBVIOUS
  <2>1. k \in Places /\ D(k) = top
    BY <1>2, TopPlace
  <2>2. top.curstate # "MAKE1ATAIL"
    BY <1>2, <2>1 DEF Visiting
  <2>3. asynccnt[x] = 0
    BY DEF Runs
  <2>4. ~Holding(top)
    <3>1. CASE x \in running
      BY <1>2, <2>1, <3>1 DEF OrderInv, Alone
    <3>2. CASE x \notin running
      <4>1. PICK b \in Places : Holding(D(b)) /\ D(b).t = x /\ b < Len(stack)
        BY <1>2, <3>2
      <4>2. b # k
        BY <4>1 DEF Places
      <4> QED
        BY <1>2, <2>1, <4>1, <4>2 DEF OrderInv, Alone
    <3> QED
      BY <3>1, <3>2
  <2>5. Moved(x)
    BY Moves
  <2> QED
    BY <1>2, <2>2, <2>3, <2>4, <2>5 DEF Moved, Holding
<1>3. CASE stack = <<>> \/ x # top.t
  BY <1>3, Moves DEF Moved
<1> QED
  BY <1>1, <1>2, <1>3

\* make1c() has a command only for a target that is being updated.
LEMMA Commanded ==
  ASSUME TypeOK, OrderInv, Runs, Make1cLaunch \/ Make1cNoExec
  PROVE  /\ stack # <<>> /\ top.curstate = "MAKE1C" /\ top.t \in Targets /\ cmds[top.t] # <<>>
         /\ progress[top.t] = "RUNNING" /\ status[top.t] = EXEC_CMD_OK
         /\ UNCHANGED <<progress, status>>
<1>1. /\ stack # <<>> /\ top.curstate = "MAKE1C" /\ HasCommand(top.t)
      /\ UNCHANGED <<progress, status>>
  BY DEF Make1cLaunch, Make1cNoExec, Handler, top
<1>2. Len(stack) \in Places /\ D(Len(stack)) = top /\ top.t \in Targets
  BY <1>1, TopPlace
<1>3. Begun(top.t)
  BY <1>1, <1>2 DEF OrderInv, Alone, Holding
<1> QED
  BY <1>1, <1>2, <1>3 DEF Begun, Runs, HasCommand

LEMMA RunsStep ==
  ASSUME NothingFound, TypeOK, TypeOK', OrderInv, Visiting, Runs, [Next]_vars
  PROVE  Runs'
<1>1. ASSUME NEW x \in Targets, progress'[x] = "RUNNING"
      PROVE  asynccnt'[x] = 0 /\ fate'[x] < T_FATE_BROKEN
  <2>1. fate' = fate /\ Moved(x)
    BY Moves
  <2>2. CASE progress[x] = "RUNNING"
    <3>1. Begun(x) /\ fate[x] < T_FATE_BROKEN
      BY <2>2 DEF Runs, Begun
    <3>2. ASSUME Make1cDone, x = top.t PROVE FALSE
      BY <1>1, <3>2 DEF Make1cDone, TypeOK
    <3> QED
      BY <2>1, <3>1, <3>2, BegunMoves DEF Begun
  <2>3. CASE progress[x] # "RUNNING"
    <3>1. Make1bReady /\ x = top.t /\ fate[x] < T_FATE_BROKEN
      BY <1>1, <2>1, <2>3 DEF Moved
    <3> QED
      BY <2>1, <3>1 DEF Make1bReady, TypeOK
  <2> QED
    BY <2>2, <2>3
<1>2. ASSUME NEW x \in Targets, cmds'[x] # <<>> PROVE progress'[x] \in {"RUNNING", "DONE"}
  <2>1. Moved(x)
    BY Moves
  <2>2. CASE cmds[x] # <<>>
    <3>1. progress[x] \in {"RUNNING", "DONE"}
      BY <2>2 DEF Runs
    <3>2. stack # <<>> /\ x = top.t /\ top.curstate = "MAKE1ATAIL" => FALSE
      BY <3>1, TopPlace DEF Visiting
    <3> QED
      BY <2>1, <3>1, <3>2 DEF Moved
  <2>3. CASE cmds[x] = <<>>
    BY <1>2, <2>1, <2>3 DEF Moved, Rest
  <2> QED
    BY <2>2, <2>3
<1>3. ASSUME NEW x \in running' PROVE progress'[x] = "RUNNING" /\ status'[x] = EXEC_CMD_OK
  <2>1. CASE x \in running
    <3>1. x \in Targets /\ progress[x] = "RUNNING" /\ status[x] = EXEC_CMD_OK
      BY <2>1 DEF Runs, TypeOK
    <3> QED
      BY <2>1, <3>1, RunKeeps
  <2>2. CASE x \notin running
    <3>1. Make1cLaunch /\ x = top.t
      BY <1>3, <2>2 DEF Next, Loop, AnyComplete, vars, exec, Make1aSeen, Make1aStart, Make1atail,
          Make1bWait, Make1bSemaphore, Make1bReady, Make1cLaunch, Make1cNoExec, Make1cDone, Make1d,
          ExecWait, ExecReturn, Make1Return, Complete, Interrupt, Ended
    <3> QED
      BY <3>1, Commanded
  <2> QED
    BY <2>1, <2>2
<1>4. ASSUME NEW b \in Places', D(b)'.curstate = "MAKE1D"
      PROVE  progress'[D(b)'.t] = "RUNNING" /\ status'[D(b)'.t] = EXEC_CMD_OK
  <2>1. PICK n : Shape(n)
    BY Shaped
  <2>2. CASE b \in Places /\ D(b)' = D(b) /\ (b < Len(stack) \/ Rests)
    <3>1. D(b).t \in Targets /\ progress[D(b).t] = "RUNNING" /\ status[D(b).t] = EXEC_CMD_OK
      BY <1>4, <2>2, Stacked DEF Runs
    <3>2. Holding(D(b))
      BY <1>4, <2>2 DEF Holding
    <3> QED
      BY <2>2, <3>1, <3>2, RunKeeps
  <2>3. CASE Fresh(D(b)')
    <3>1. \/ Make1cNoExec /\ D(b)'.t = top.t
          \/ AnyComplete /\ D(b)'.t \in running
      BY <1>4, <2>3 DEF Fresh
    <3>2. AnyComplete => UNCHANGED <<progress, status>>
      BY DEF AnyComplete, Complete
    <3> QED
      BY <3>1, <3>2, Commanded DEF Runs
  <2> QED
    BY <2>1, <2>2, <2>3, KeptState
<1> QED
  BY <1>1, <1>2, <1>3, <1>4 DEF Runs

\* The targets of a semaphore take it in turn.
LEMMA HeldStep ==
  ASSUME NothingFound, TypeOK, TypeOK', OrderInv, Held, [Next]_vars
  PROVE  Held'
<1> SUFFICES ASSUME pc' \notin {"crashed", "exited"}
             PROVE  /\ \A s \in Sems :
                         /\ semcnt'[s] # 0 => \E t \in Targets : Begun(t)' /\ semaphore'[t] = s
                         /\ semcnt'[s] \in {0, 1}
                    /\ \A t \in Targets : Begun(t)' /\ semaphore'[t] # NoSem => semcnt'[semaphore'[t]] # 0
                    /\ \A t, u \in Targets : Begun(t)' /\ Begun(u)' /\ Same(semaphore', t, u) => t = u
  BY DEF Held, Same
<1>0. /\ pc \notin {"crashed", "exited"}
      /\ semaphore' = semaphore
      /\ semaphore \in [Targets -> Sems \cup {NoSem}] /\ semcnt \in [Sems -> Int] /\ NoSem \notin Sems
  <2>1. pc \notin {"crashed", "exited"}
    BY DEF Next, Loop, AnyComplete, vars, exec, Make1aSeen, Make1aStart, Make1atail,
          Make1bWait, Make1bSemaphore, Make1bReady, Make1cLaunch, Make1cNoExec, Make1cDone, Make1d,
          ExecWait, ExecReturn, Make1Return, Complete, Interrupt, Ended, Handler
  <2>2. semcnt \in [Sems -> Int]
    <3>1. semcnt \in [Sems -> {0, 1}]
      BY DEF TypeOK
    <3> QED
      BY <3>1
  <2> QED
    BY <2>1, <2>2, Moves, Make1Assumption DEF TypeOK
<1>1. /\ \A s \in Sems : /\ semcnt[s] # 0 => \E t \in Targets : Begun(t) /\ semaphore[t] = s
                         /\ semcnt[s] \in {0, 1}
      /\ \A t \in Targets : Begun(t) /\ semaphore[t] # NoSem => semcnt[semaphore[t]] # 0
      /\ \A t, u \in Targets : Begun(t) /\ Begun(u) /\ Same(semaphore, t, u) => t = u
  BY <1>0 DEF Held
<1>2. CASE Make1bReady
  <2> PICK t : t = top.t
    OBVIOUS
  <2>1. /\ stack # <<>> /\ t \in Targets /\ asynccnt[t] = 1 /\ ~SemBusy(t) /\ pc' = pc
        /\ semcnt' = IF semaphore[t] = NoSem THEN semcnt ELSE [semcnt EXCEPT ![semaphore[t]] = @ + 1]
    <3>1. stack # <<>> /\ t \in Targets /\ asynccnt[t] = 1 /\ ~SemBusy(t)
      BY <1>2, StackType DEF Make1bReady, Handler
    <3>2. /\ pc' = pc
          /\ semcnt' = IF semaphore[t] = NoSem \/ pc' # pc THEN semcnt
                       ELSE [semcnt EXCEPT ![semaphore[t]] = @ + 1]
      BY <1>2 DEF Make1bReady, Takes
    <3> QED
      BY <3>1, <3>2
  <2>2. ASSUME NEW x \in Targets, x # t PROVE Begun(x)' <=> Begun(x)
    <3>1. Make1cDone => FALSE
      BY <1>2, <2>1 DEF Make1bReady, Make1cDone, Handler
    <3> QED
      BY <2>2, <3>1, BegunMoves
  <2>3. Begun(t)' /\ ~Begun(t)
    <3>1. Len(stack) \in Places /\ D(Len(stack)) = top
      BY <2>1, TopPlace
    <3>2. top.curstate = "MAKE1B"
      BY <1>2 DEF Make1bReady, Handler, top
    <3>3. progress[t] \notin {"INIT", "DONE"}
      BY <2>1, <3>1, <3>2, Caller DEF Calling
    <3>4. asynccnt'[t] = 0 /\ progress'[t] \notin {"INIT", "DONE"}
      <4>1. asynccnt' = [asynccnt EXCEPT ![t] = 0]
        BY <1>2, <2>1 DEF Make1bReady
      <4>2. progress' = progress \/ progress' = [progress EXCEPT ![t] = "RUNNING"]
        BY <1>2, <2>1 DEF Make1bReady
      <4> QED
        BY <2>1, <3>3, <4>1, <4>2 DEF TypeOK
    <3> QED
      BY <2>1, <3>4 DEF Begun
  <2>4. CASE semaphore[t] = NoSem
    <3>1. semcnt' = semcnt
      BY <2>1, <2>4
    <3> QED
      BY <1>0, <1>1, <2>2, <2>3, <2>4, <3>1 DEF Same
  <2>5. CASE semaphore[t] # NoSem
    <3> PICK s : s = semaphore[t]
      OBVIOUS
    <3>1. s \in Sems /\ semcnt[s] = 0 /\ semcnt'[s] = 1 /\ \A r \in Sems : r # s => semcnt'[r] = semcnt[r]
      BY <1>0, <2>1, <2>5 DEF SemBusy
    <3>2. \A u \in Targets : Begun(u) => semaphore[u] # s
      BY <1>1, <2>5, <3>1
    <3>3. \A r \in Sems : /\ semcnt'[r] # 0 => \E u \in Targets : Begun(u)' /\ semaphore[u] = r
                          /\ semcnt'[r] \in {0, 1}
      <4> SUFFICES ASSUME NEW r \in Sems
                   PROVE  /\ semcnt'[r] # 0 => \E u \in Targets : Begun(u)' /\ semaphore[u] = r
                          /\ semcnt'[r] \in {0, 1}
        OBVIOUS
      <4>1. CASE r = s
        BY <2>1, <2>3, <3>1, <4>1
      <4>2. CASE r # s
        <5>1. semcnt'[r] = semcnt[r]
          BY <3>1, <4>2
        <5>2. ASSUME NEW u \in Targets, Begun(u), semaphore[u] = r PROVE Begun(u)'
          BY <2>2, <2>3, <5>2
        <5> QED
          BY <1>1, <5>1, <5>2
      <4> QED
        BY <4>1, <4>2
    <3>4. \A u \in Targets : Begun(u)' /\ semaphore[u] # NoSem => semcnt'[semaphore[u]] # 0
      BY <1>0, <1>1, <2>2, <3>1
    <3>5. \A u, v \in Targets : Begun(u)' /\ Begun(v)' /\ Same(semaphore, u, v) => u = v
      BY <1>1, <2>2, <3>2 DEF Same
    <3> QED
      BY <1>0, <3>3, <3>4, <3>5
  <2> QED
    BY <2>4, <2>5
<1>3. CASE Make1cDone
  <2> PICK t : t = top.t
    OBVIOUS
  <2>1. /\ stack # <<>> /\ t \in Targets /\ top.curstate = "MAKE1C"
        /\ semcnt' = [s \in Sems |-> IF s = semaphore[t] THEN semcnt[s] - 1 ELSE semcnt[s]]
        /\ progress' = [progress EXCEPT ![t] = "DONE"]
    BY <1>3, StackType DEF Make1cDone, Handler, top, NothingFound
  <2>2. ASSUME NEW x \in Targets, x # t PROVE Begun(x)' <=> Begun(x)
    <3>1. Make1bReady => FALSE
      BY <1>3, <2>1 DEF Make1bReady, Make1cDone, Handler
    <3> QED
      BY <2>2, <3>1, BegunMoves
  <2>3. ~Begun(t)' /\ Begun(t)
    <3>1. Len(stack) \in Places /\ D(Len(stack)) = top
      BY <2>1, TopPlace
    <3>2. Begun(t)
      BY <2>1, <3>1 DEF OrderInv, Alone, Holding
    <3> QED
      BY <2>1, <3>2 DEF Begun, TypeOK
  <2>4. \A s \in Sems : s = semaphore[t] => semcnt[s] = 1
    BY <1>0, <1>1, <2>1, <2>3
  <2>5. \A s \in Sems : semcnt'[s] = IF s = semaphore[t] THEN 0 ELSE semcnt[s]
    BY <1>0, <2>1, <2>4
  <2>6. \A s \in Sems : /\ semcnt'[s] # 0 => \E u \in Targets : Begun(u)' /\ semaphore[u] = s
                        /\ semcnt'[s] \in {0, 1}
    <3> SUFFICES ASSUME NEW s \in Sems
                 PROVE  /\ semcnt'[s] # 0 => \E u \in Targets : Begun(u)' /\ semaphore[u] = s
                        /\ semcnt'[s] \in {0, 1}
      OBVIOUS
    <3>1. CASE s = semaphore[t]
      BY <2>5, <3>1
    <3>2. CASE s # semaphore[t]
      <4>1. semcnt'[s] = semcnt[s]
        BY <2>5, <3>2
      <4>2. ASSUME NEW u \in Targets, Begun(u), semaphore[u] = s PROVE Begun(u)'
        BY <2>2, <3>2, <4>2
      <4> QED
        BY <1>1, <4>1, <4>2
    <3> QED
      BY <3>1, <3>2
  <2>7. \A u \in Targets : Begun(u)' /\ semaphore[u] # NoSem => semcnt'[semaphore[u]] # 0
    <3> SUFFICES ASSUME NEW u \in Targets, Begun(u)', semaphore[u] # NoSem
                 PROVE  semcnt'[semaphore[u]] # 0
      OBVIOUS
    <3>1. u # t /\ Begun(u) /\ semaphore[u] \in Sems
      BY <1>0, <2>2, <2>3
    <3>2. semaphore[u] # semaphore[t]
      BY <1>1, <2>1, <2>3, <3>1 DEF Same
    <3> QED
      BY <1>1, <2>5, <3>1, <3>2
  <2>8. \A u, v \in Targets : Begun(u)' /\ Begun(v)' /\ Same(semaphore, u, v) => u = v
    BY <1>1, <2>1, <2>2, <2>3 DEF Same
  <2> QED
    BY <1>0, <2>6, <2>7, <2>8
<1>4. CASE ~Make1bReady /\ ~Make1cDone
  <2>1. semcnt' = semcnt
    BY <1>4 DEF Next, Loop, AnyComplete, vars, exec, Make1aSeen, Make1aStart, Make1atail,
          Make1bWait, Make1bSemaphore, Make1cLaunch, Make1cNoExec, Make1d,
          ExecWait, ExecReturn, Make1Return, Complete, Interrupt, Ended
  <2>2. \A x \in Targets : Begun(x)' <=> Begun(x)
    BY <1>4, BegunMoves
  <2> QED
    BY <1>0, <1>1, <2>1, <2>2 DEF Same
<1> QED
  BY <1>2, <1>3, <1>4

\* What is begun is not forgotten.
LEMMA TendedStep ==
  ASSUME NothingFound, TypeOK, TypeOK', OrderInv, Tended, [Next]_vars
  PROVE  Tended'
<1> SUFFICES ASSUME ~intr', NEW x \in Targets, Begun(x)', x \notin running'
             PROVE  \E b \in Places' : Holding(D(b)') /\ D(b)'.t = x
  BY DEF Tended
<1>0. ~intr
  BY Moves
<1>1. PICK n : Shape(n)
  BY Shaped
<1>2. n \in Nat /\ \A b \in 1..n : b \in Places' /\ D(b)' = D(b)
  <2>1. Kept(stack, stack', n) /\ Len(stack) \in Nat /\ Len(stack') \in Nat /\ n \in Nat
    BY <1>1, DeepType DEF Shape, TypeOK
  <2> QED
    BY <2>1 DEF Kept, Places, D
\* Where the handler leaves t's state for the next.
<1>3. ASSUME Make1bReady \/ Make1cNoExec \/ Make1d
      PROVE  \E b \in Places' : Holding(D(b)') /\ D(b)'.t = top.t
  <2>1. PICK c \in {"MAKE1C", "MAKE1D"} : stack # <<>> /\ stack' = Continue(c)
    BY <1>3 DEF Make1bReady, Make1cNoExec, Make1d, Handler
  <2> PICK h : h = Len(stack) - 1
    OBVIOUS
  <2>2. /\ h \in Nat /\ Len(stack') = h + 1
        /\ Deep(stack', h + 1) = [top EXCEPT !.curstate = c, !.status = StatusFor(c)]
    BY <1>0, <2>1, Handling DEF Handlers
  <2>3. Deep(stack', h + 1).curstate = c /\ Deep(stack', h + 1).t = top.t
    BY <2>1, <2>2, StackType DEF States
  <2>4. h + 1 \in 1..Len(stack')
    BY <2>2
  <2> QED
    BY <2>1, <2>3, <2>4 DEF Places, D, Holding
<1>4. CASE ~Begun(x)
  BY <1>3, <1>4, BegunMoves
<1>5. CASE Begun(x) /\ x \in running
  <2>1. AnyComplete
    BY <1>5 DEF Next, Loop, vars, exec, Make1aSeen, Make1aStart, Make1atail,
          Make1bWait, Make1bSemaphore, Make1bReady, Make1cLaunch, Make1cNoExec, Make1cDone, Make1d,
          ExecWait, ExecReturn, Make1Return, Interrupt, Ended
  <2>2. PICK t \in Targets, st \in {EXEC_CMD_OK, EXEC_CMD_FAIL} : Complete(t, st)
    BY <2>1 DEF AnyComplete
  <2> DEFINE y == [State(t, NoTarget, "MAKE1D") EXCEPT
                     !.status = IF sigint THEN EXEC_CMD_INTR ELSE st]
  <2>3. stack' = <<y>> \o stack /\ y.curstate = "MAKE1D" /\ y.t = t /\ t = x
    BY <1>5, <2>2 DEF Complete, State
  <2>4. y \in States
    BY DEF State, States, Statuses, Handlers
  <2> HIDE DEF y
  <2>5. stack \in Seq(States)
    BY DEF TypeOK
  <2>6. Len(stack') = Len(stack) + 1 /\ Len(stack) \in Nat /\ Deep(stack', Len(stack) + 1) = y
    BY <2>3, <2>4, <2>5, DeepOne, DeepType
  <2>7. Len(stack) + 1 \in 1..Len(stack')
    BY <2>6
  <2> QED
    BY <2>3, <2>6, <2>7 DEF Places, D, Holding
<1>6. CASE Begun(x) /\ x \notin running
  <2>1. PICK b \in Places : Holding(D(b)) /\ D(b).t = x
    BY <1>0, <1>6 DEF Tended
  <2>2. CASE b \in 1..n
    BY <1>2, <2>1, <2>2
  <2>3. CASE b \notin 1..n
    <3>1. Handles /\ D(b) = top /\ stack # <<>>
      <4>1. /\ n \in Nat /\ n >= Len(stack) - 1 /\ Len(stack) \in Nat /\ b \in 1..Len(stack)
            /\ n = Len(stack) \/ Handles
        BY <1>0, <1>1, Stacked DEF Shape, Places
      <4>2. b = Len(stack) /\ Handles
        BY <2>3, <4>1
      <4>3. stack # <<>>
        BY <4>2 DEF Handles
      <4> QED
        BY <4>2, <4>3, TopPlace
    <3>2. top.t = x /\ Holding(top)
      BY <2>1, <3>1
    <3>3. Make1cLaunch \/ Make1cNoExec \/ Make1cDone \/ Make1d
      BY <3>1, <3>2 DEF Handles, Holding, Handler, top, Make1aSeen, Make1aStart, Make1atail,
          Make1bWait, Make1bSemaphore, Make1bReady
    <3>4. ~Make1cLaunch
      BY <3>2 DEF Make1cLaunch
    <3>5. ~Make1cDone
      BY <3>2 DEF Make1cDone, Begun, TypeOK
    <3> QED
      BY <1>3, <3>2, <3>3, <3>4, <3>5
  <2> QED
    BY <2>2, <2>3
<1> QED
  BY <1>4, <1>5, <1>6

\* A last call stays the last while it is on the stack.
LEMMA OnceKept ==
  ASSUME NothingFound, TypeOK, OrderInv, [Next]_vars, NEW b \in Places, NEW x \in Targets,
         b < Len(stack) \/ Rests, D(b).curstate = "MAKE1B", D(b).t = x, asynccnt[x] = 1
  PROVE  asynccnt'[x] = 1
<1>0. Calling(D(b), x)
  BY DEF Calling
<1>1. CASE Rests
  BY <1>1 DEF Rests, AnyComplete, Complete, ExecWait, ExecReturn, Interrupt, Make1Return, Ended, vars
<1>2. CASE ~Rests /\ stack # <<>>
  <2> PICK k : k = Len(stack)
    OBVIOUS
  <2>1. k \in Places /\ D(k) = top /\ top.t \in Targets /\ b # k /\ b < k
    BY <1>2, TopPlace DEF Places
  <2>2. x = top.t => top.curstate # "MAKE1B"
    BY <1>0, <2>1, TwoCalls DEF Calling
  <2>3. progress[x] # "INIT"
    BY <1>0, Caller
  <2>4. top.curstate = "MAKE1A" => x # top.parent
    <3> SUFFICES ASSUME top.curstate = "MAKE1A", x = top.parent PROVE FALSE
      OBVIOUS
    <3>1. top.parent # NoTarget
      BY Make1Assumption
    <3>2. PICK a \in Places : TailOf(D(a), x)
      BY <1>2, <3>1, ForParent
    <3>3. a # b /\ Calling(D(a), x)
      BY <3>2 DEF TailOf, Calling
    <3> QED
      BY <1>0, <3>3, TwoCalls
  <2>5. Ticked(x)
    BY Moves
  <2> QED
    BY <2>2, <2>3, <2>4, <2>5 DEF Ticked
<1>3. CASE stack = <<>>
  BY <1>3, Moves DEF Ticked
<1> QED
  BY <1>1, <1>2, <1>3

LEMMA InLineStep ==
  ASSUME NothingFound, TypeOK, TypeOK', OrderInv, InLine, [Next]_vars
  PROVE  InLine'
<1> SUFFICES ASSUME NEW s \in Sems, NEW i \in DOMAIN semwait'[s]
             PROVE  /\ semaphore'[semwait'[s][i]] = s /\ asynccnt'[semwait'[s][i]] = 1
  BY DEF InLine
<1>0. semaphore' = semaphore /\ semwait[s] \in Seq(Targets)
  BY Moves DEF TypeOK
\* Nobody touches the counter of who was waiting.
<1>1. ASSUME NEW j \in DOMAIN semwait[s]
      PROVE  /\ semaphore[semwait[s][j]] = s /\ asynccnt'[semwait[s][j]] = 1
  <2> PICK x : x = semwait[s][j]
    OBVIOUS
  <2>1. x \in Targets /\ semaphore[x] = s /\ asynccnt[x] = 1
    BY <1>0 DEF InLine
  <2>2. ASSUME stack # <<>>, top.curstate = "MAKE1B" PROVE x # top.t
    <3>1. Len(stack) \in Places /\ D(Len(stack)) = top
      BY <2>2, TopPlace
    <3> QED
      BY <2>1, <2>2, <3>1, QueuedOnly DEF Calling
  <2>3. progress[x] # "INIT"
    BY <2>1 DEF OrderInv, Idle
  <2>4. ASSUME stack # <<>>, top.curstate = "MAKE1A" PROVE x # top.parent
    <3> SUFFICES ASSUME x = top.parent PROVE FALSE
      OBVIOUS
    <3>1. top.parent # NoTarget
      BY <2>1, Make1Assumption
    <3>2. PICK a \in Places : TailOf(D(a), x)
      BY <2>4, <3>1, ForParent
    <3> QED
      BY <2>1, <3>2, QueuedOnly DEF TailOf, Calling
  <2>5. Ticked(x)
    BY <2>1, Moves
  <2> QED
    BY <2>1, <2>2, <2>3, <2>4, <2>5 DEF Ticked
<1>2. CASE Make1bSemaphore
  <2> PICK t : t = top.t
    OBVIOUS
  <2>1. /\ t \in Targets /\ asynccnt[t] = 1 /\ SemBusy(t) /\ asynccnt' = asynccnt
        /\ semwait' = [semwait EXCEPT ![semaphore[t]] = Append(@, t)]
    BY <1>2, StackType DEF Make1bSemaphore, Handler
  <2>2. CASE s = semaphore[t]
    <3>1. semwait'[s] = Append(semwait[s], t)
      BY <2>1, <2>2 DEF TypeOK
    <3>2. \/ i \in DOMAIN semwait[s] /\ semwait'[s][i] = semwait[s][i]
          \/ semwait'[s][i] = t
      BY <1>0, <2>1, <3>1
    <3> QED
      BY <1>0, <1>1, <2>1, <2>2, <3>2
  <2>3. CASE s # semaphore[t]
    <3>1. semwait'[s] = semwait[s]
      BY <2>1, <2>3 DEF TypeOK
    <3> QED
      BY <1>0, <1>1, <3>1
  <2> QED
    BY <2>2, <2>3
<1>3. CASE Make1cDone
  <2>1. semwait'[s] = semwait[s] \/ semwait'[s] = Rest(semwait[s])
    <3> PICK t : t = top.t
      OBVIOUS
    <3>1. t \in Targets
      BY <1>3, StackType DEF Make1cDone, Handler
    <3>2. semwait' = [r \in Sems |-> IF r = semaphore[t] THEN Rest(semwait[r]) ELSE semwait[r]]
      BY <1>3, <3>1 DEF Make1cDone, NothingFound
    <3> QED
      BY <3>2
  <2>2. \E j \in DOMAIN semwait[s] : semwait'[s][i] = semwait[s][j]
    <3>1. CASE semwait'[s] = semwait[s]
      BY <3>1
    <3>2. CASE semwait'[s] = Rest(semwait[s])
      <4>1. semwait[s] # <<>> /\ semwait'[s] = Tail(semwait[s])
        BY <3>2 DEF Rest
      <4> QED
        BY <1>0, <4>1
    <3> QED
      BY <2>1, <3>1, <3>2
  <2> QED
    BY <1>0, <1>1, <2>2
<1>4. CASE ~Make1bSemaphore /\ ~Make1cDone
  <2>1. semwait' = semwait
    BY <1>4 DEF Next, Loop, AnyComplete, vars, exec, Make1aSeen, Make1aStart, Make1atail,
          Make1bWait, Make1bReady, Make1cLaunch, Make1cNoExec, Make1d,
          ExecWait, ExecReturn, Make1Return, Complete, Interrupt, Ended
  <2> QED
    BY <1>0, <1>1, <2>1
<1> QED
  BY <1>2, <1>3, <1>4

\* A semaphore that is waited for is taken, or a call that may take it is to come.
LEMMA NextCalledStep ==
  ASSUME NothingFound, TypeOK, TypeOK', OrderInv, InLine, NextCalled, [Next]_vars
  PROVE  NextCalled'
<1> SUFFICES ASSUME ~intr', pc' \notin {"crashed", "exited"}, NEW s \in Sems, semwait'[s] # <<>>
             PROVE  \/ semcnt'[s] # 0
                    \/ \E b \in Places' : /\ D(b)'.curstate = "MAKE1B" /\ semaphore'[D(b)'.t] = s
                                          /\ asynccnt'[D(b)'.t] = 1
  BY DEF NextCalled, Claiming
<1>0. /\ ~intr /\ pc \notin {"crashed", "exited"} /\ semaphore' = semaphore
      /\ semwait[s] \in Seq(Targets) /\ NoSem \notin Sems
  <2>1. pc \notin {"crashed", "exited"}
    BY DEF Next, Loop, AnyComplete, vars, exec, Make1aSeen, Make1aStart, Make1atail,
          Make1bWait, Make1bSemaphore, Make1bReady, Make1cLaunch, Make1cNoExec, Make1cDone, Make1d,
          ExecWait, ExecReturn, Make1Return, Complete, Interrupt, Ended, Handler
  <2> QED
    BY <2>1, Moves, Make1Assumption DEF TypeOK
<1> PICK n : Shape(n)
  BY Shaped
<1>1. /\ n \in Nat /\ n >= Len(stack) - 1 /\ Len(stack) \in Nat
      /\ \A b \in 1..n : b \in Places' /\ D(b)' = D(b)
  <2>1. Kept(stack, stack', n) /\ Len(stack) \in Nat /\ Len(stack') \in Nat /\ n \in Nat
    BY DeepType DEF Shape, TypeOK
  <2> QED
    BY <1>0, <2>1 DEF Kept, Places, D, Shape
\* What could claim the semaphore still can, the top apart.
<1>2. ASSUME NEW b \in Places, Claiming(D(b), s), b < Len(stack) \/ Rests
      PROVE  \E c \in Places' : /\ D(c)'.curstate = "MAKE1B" /\ semaphore'[D(c)'.t] = s
                                /\ asynccnt'[D(c)'.t] = 1
  <2>1. D(b).t \in Targets /\ asynccnt'[D(b).t] = 1
    BY <1>2, Stacked, OnceKept DEF Claiming
  <2>2. b \in 1..n
    <3>1. b \in 1..Len(stack) /\ (Rests => n = Len(stack))
      BY DEF Places, Shape, Handles
    <3> QED
      BY <1>1, <1>2, <3>1
  <2> QED
    BY <1>0, <1>1, <1>2, <2>1, <2>2 DEF Claiming
\* A step that does not call for the semaphore, nor end its holder.
<1>3. ASSUME semwait[s] # <<>>, semcnt'[s] = semcnt[s],
             stack # <<>> => ~Claiming(top, s) \/ Rests
      PROVE  \/ semcnt'[s] # 0
             \/ \E b \in Places' : /\ D(b)'.curstate = "MAKE1B" /\ semaphore'[D(b)'.t] = s
                                   /\ asynccnt'[D(b)'.t] = 1
  <2>1. CASE semcnt[s] # 0
    BY <1>3, <2>1
  <2>2. CASE semcnt[s] = 0
    <3>1. PICK b \in Places : Claiming(D(b), s)
      BY <1>0, <1>3, <2>2 DEF NextCalled
    <3>2. b < Len(stack) \/ Rests
      <4>1. b \in 1..Len(stack)
        BY DEF Places
      <4>2. stack # <<>>
        BY <4>1
      <4>3. D(Len(stack)) = top
        BY <4>2, TopPlace
      <4> QED
        BY <1>1, <1>3, <3>1, <4>1, <4>2, <4>3
    <3> QED
      BY <1>2, <3>1, <3>2
  <2> QED
    BY <2>1, <2>2
<1>4. CASE Make1bSemaphore
  <2> PICK t : t = top.t
    OBVIOUS
  <2>1. /\ t \in Targets /\ SemBusy(t) /\ semcnt' = semcnt
        /\ semwait' = [semwait EXCEPT ![semaphore[t]] = Append(@, t)]
    BY <1>4, StackType DEF Make1bSemaphore, Handler
  <2>2. CASE s = semaphore[t]
    BY <2>1, <2>2 DEF SemBusy
  <2>3. CASE s # semaphore[t]
    <3>1. semwait'[s] = semwait[s]
      BY <2>1, <2>3 DEF TypeOK
    <3>2. ~Claiming(top, s)
      BY <2>3 DEF Claiming
    <3> QED
      BY <1>3, <2>1, <3>1, <3>2
  <2> QED
    BY <2>2, <2>3
<1>5. CASE Make1bReady
  <2> PICK t : t = top.t
    OBVIOUS
  <2>1. /\ t \in Targets /\ ~SemBusy(t) /\ semwait' = semwait /\ pc' = pc
    <3>1. t \in Targets /\ ~SemBusy(t) /\ semwait' = semwait
      BY <1>5, StackType DEF Make1bReady, Handler
    <3>2. pc' = pc
      BY <1>0, <1>5 DEF Make1bReady
    <3> QED
      BY <3>1, <3>2
  <2>2. semcnt' = IF semaphore[t] = NoSem THEN semcnt ELSE [semcnt EXCEPT ![semaphore[t]] = @ + 1]
    <3>1. semcnt' = IF semaphore[t] = NoSem \/ pc' # pc THEN semcnt
                    ELSE [semcnt EXCEPT ![semaphore[t]] = @ + 1]
      BY <1>5 DEF Make1bReady, Takes
    <3> QED
      BY <2>1, <3>1
  <2>3. CASE s = semaphore[t]
    <3>1. semcnt \in [Sems -> {0, 1}] /\ semaphore[t] # NoSem
      BY <1>0, <2>3 DEF TypeOK
    <3>2. semcnt[s] = 0
      BY <2>1, <2>3, <3>1 DEF SemBusy
    <3>3. semcnt'[s] = 1
      BY <2>2, <2>3, <3>1, <3>2
    <3> QED
      BY <3>3
  <2>4. CASE s # semaphore[t]
    <3>1. semcnt'[s] = semcnt[s]
      BY <2>2, <2>4 DEF TypeOK
    <3>2. ~Claiming(top, s)
      BY <2>4 DEF Claiming
    <3> QED
      BY <1>3, <2>1, <3>1, <3>2
  <2> QED
    BY <2>3, <2>4
<1>6. CASE Make1cDone
  <2> PICK t : t = top.t
    OBVIOUS
  <2> PICK h : h = Len(stack) - 1
    OBVIOUS
  <2>1. /\ stack # <<>> /\ t \in Targets /\ top.curstate = "MAKE1C"
    BY <1>6, StackType DEF Make1cDone, Handler, top
  <2>2. /\ semcnt' = [r \in Sems |-> IF r = semaphore[t] THEN semcnt[r] - 1 ELSE semcnt[r]]
        /\ semwait' = [r \in Sems |-> IF r = semaphore[t] THEN Rest(semwait[r]) ELSE semwait[r]]
        /\ stack' = (TellParents(t, NoTarget) \o Release(t)) \o Popped
        /\ asynccnt' = asynccnt
    BY <1>6, <2>1 DEF Make1cDone, NothingFound
  <2>3. CASE s = semaphore[t]
    <3> PICK x : x = Head(semwait[s])
      OBVIOUS
    <3>1. semwait[s] # <<>> /\ x \in Targets /\ semaphore[x] = s /\ asynccnt[x] = 1
      <4>1. semwait'[s] = Rest(semwait[s])
        BY <2>2, <2>3
      <4>2. semwait[s] # <<>>
        BY <4>1 DEF Rest
      <4>3. 1 \in DOMAIN semwait[s] /\ semwait[s][1] = x /\ x \in Targets
        BY <1>0, <4>2
      <4> QED
        BY <4>2, <4>3 DEF InLine
    <3> DEFINE p == TellParents(t, NoTarget)
               q == Release(t)
               w == p \o q
               m == Len(w)
    <3>2. /\ p \in Seq(States) /\ q \in Seq(States) /\ w \in Seq(States) /\ Popped \in Seq(States)
          /\ stack' = w \o Popped /\ Len(Popped) = h /\ h \in Nat
      <4>1. p \in Seq(States) /\ q \in Seq(States) /\ Popped \in Seq(States)
        BY <2>1, StackType, TellParentsType
      <4>2. Len(Popped) = h /\ h \in Nat
        BY <1>0, <2>1, Handling DEF Handlers
      <4> HIDE DEF p, q, States
      <4> QED
        BY <2>2, <4>1, <4>2 DEF p, q
    <3>3. q = <<State(x, NoTarget, "MAKE1B")>>
      BY <2>3, <3>1, Make1Assumption DEF Release
    <3>4. Len(q) = 1 /\ q[1].curstate = "MAKE1B" /\ q[1].t = x
      <4> DEFINE y == State(x, NoTarget, "MAKE1B")
      <4>1. y.curstate = "MAKE1B" /\ y.t = x
        BY DEF State
      <4> HIDE DEF y, q
      <4> QED
        BY <3>3, <4>1 DEF y
    <3> HIDE DEF p, q, States
    <3>5. m \in Nat \ {0} /\ w[m] = q[1]
      <4>0. p \in Seq(States) /\ q \in Seq(States) /\ Len(q) = 1
        BY <3>2, <3>4
      <4>1. Len(p) \in Nat /\ m = Len(p) + 1
        <5>1. Len(p) \in Nat /\ Len(p \o q) = Len(p) + Len(q)
          BY <4>0, DeepPush
        <5> QED
          BY <4>0, <5>1
      <4>2. m \in 1..m /\ ~(m <= Len(p)) /\ m - Len(p) = 1
        BY <4>1
      <4>3. w[m] = q[m - Len(p)]
        BY <4>0, <4>1, <4>2
      <4> QED
        BY <4>1, <4>2, <4>3
    <3> HIDE DEF w, m
    <3>6. Len(stack') = m + h /\ Deep(stack', h + 1) = w[m]
      <4>1. /\ Len(w \o Popped) = Len(w) + Len(Popped)
            /\ \A b \in (Len(Popped) + 1)..(Len(Popped) + Len(w)) :
                 Deep(w \o Popped, b) = w[Len(w) + Len(Popped) + 1 - b]
        BY <3>2, DeepPush
      <4>2. h + 1 \in (h + 1)..(h + m) /\ m + h + 1 - (h + 1) = m
        BY <3>2, <3>5
      <4>3. Deep(w \o Popped, h + 1) = w[m + h + 1 - (h + 1)]
        BY <3>2, <4>1, <4>2 DEF m
      <4>4. Len(w \o Popped) = m + h
        BY <3>2, <4>1 DEF m
      <4> QED
        BY <3>2, <4>2, <4>3, <4>4
    <3>7. h + 1 \in 1..Len(stack')
      BY <3>2, <3>5, <3>6
    <3>8. Deep(stack', h + 1).curstate = "MAKE1B" /\ Deep(stack', h + 1).t = x
      BY <3>4, <3>5, <3>6
    <3> QED
      BY <1>0, <2>2, <3>1, <3>7, <3>8 DEF Places, D
  <2>4. CASE s # semaphore[t]
    <3>1. semwait'[s] = semwait[s] /\ semcnt'[s] = semcnt[s]
      BY <2>2, <2>4
    <3>2. ~Claiming(top, s)
      BY <2>1 DEF Claiming
    <3> QED
      BY <1>3, <3>1, <3>2
  <2> QED
    BY <2>3, <2>4
<1>7. CASE Make1bWait
  <2>1. semwait' = semwait /\ semcnt' = semcnt /\ asynccnt[top.t] # 1
    BY <1>7 DEF Make1bWait
  <2> QED
    BY <1>3, <2>1 DEF Claiming
<1>8. CASE Make1aSeen \/ Make1aStart \/ Make1atail \/ Make1cLaunch \/ Make1cNoExec \/ Make1d
  <2>1. semwait' = semwait /\ semcnt' = semcnt /\ top.curstate # "MAKE1B"
    BY <1>8 DEF Make1aSeen, Make1aStart, Make1atail, Make1cLaunch, Make1cNoExec, Make1d, Handler, top
  <2> QED
    BY <1>3, <2>1 DEF Claiming
<1>9. CASE Rests
  <2>1. semwait' = semwait /\ semcnt' = semcnt
    BY <1>9 DEF Rests, AnyComplete, Complete, ExecWait, ExecReturn, Interrupt, Make1Return, Ended, vars
  <2> QED
    BY <1>3, <1>9, <2>1
<1> QED
  BY <1>4, <1>5, <1>6, <1>7, <1>8, <1>9 DEF Next, Loop, Rests

\* make1() goes on to the next root when it is through with the last.
LEMMA EnteredStep ==
  ASSUME NothingFound, TypeOK, TypeOK', OrderInv, Entered, [Next]_vars
  PROVE  Entered'
<1> SUFFICES ASSUME ~intr', NEW i \in 1..root'
             PROVE  \/ progress'[Roots[i]] # "INIT"
                    \/ i = root' /\ \E b \in Places' : D(b)'.curstate = "MAKE1A" /\ D(b)'.t = Roots[i]
  BY DEF Entered
<1>0. ~intr /\ root' \in 1..Len(Roots) /\ root \in 1..Len(Roots) /\ Len(Roots) \in Nat /\ Roots \in Seq(Targets)
  <2>1. ~intr
    BY Moves
  <2>2. Roots \in Seq(Targets) /\ Len(Roots) \in Nat
    BY Make1Assumption
  <2> QED
    BY <2>1, <2>2 DEF TypeOK
<1>1. Roots[i] \in Targets
  BY <1>0
<1>2. CASE root' = root
  <2>1. CASE progress[Roots[i]] # "INIT"
    BY <1>1, <2>1, NeverAnew
  <2>2. CASE progress[Roots[i]] = "INIT"
    <3>1. PICK b \in Places : i = root /\ D(b).curstate = "MAKE1A" /\ D(b).t = Roots[i]
      BY <1>0, <1>2, <2>2 DEF Entered
    <3>2. PICK n : Shape(n)
      BY Shaped
    <3>3. /\ n \in Nat /\ n >= Len(stack) - 1 /\ Len(stack) \in Nat /\ (n = Len(stack) \/ Handles)
          /\ \A c \in 1..n : c \in Places' /\ D(c)' = D(c)
      <4>1. Kept(stack, stack', n) /\ Len(stack) \in Nat /\ Len(stack') \in Nat /\ n \in Nat
        BY <3>2, DeepType DEF Shape, TypeOK
      <4> QED
        BY <1>0, <3>2, <4>1 DEF Kept, Places, D, Shape
    <3>4. CASE b \in 1..n
      BY <1>2, <3>1, <3>3, <3>4
    <3>5. CASE b \notin 1..n
      <4>1. b = Len(stack) /\ Handles
        BY <3>3, <3>5 DEF Places
      <4>2. stack # <<>> /\ top = D(b)
        BY <4>1, TopPlace DEF Handles
      <4>3. Make1aStart \/ Make1aSeen
        BY <3>1, <4>1, <4>2 DEF Handles, Handler, top, Make1atail,
            Make1bWait, Make1bSemaphore, Make1bReady, Make1cLaunch, Make1cNoExec, Make1cDone, Make1d
      <4> QED
        BY <1>1, <2>2, <3>1, <4>2, <4>3 DEF Make1aStart, Make1aSeen, Seen, TypeOK
    <3> QED
      BY <3>4, <3>5
  <2> QED
    BY <2>1, <2>2
<1>3. CASE root' # root
  <2>1. stack = <<>> /\ root' = root + 1 /\ stack' = <<State(Roots[root + 1], NoTarget, "MAKE1A")>> /\ progress' = progress
    <3>1. Make1Return
      BY <1>3 DEF Next, Loop, AnyComplete, vars, exec, Make1aSeen, Make1aStart, Make1atail,
          Make1bWait, Make1bSemaphore, Make1bReady, Make1cLaunch, Make1cNoExec, Make1cDone, Make1d,
          ExecWait, ExecReturn, Complete, Interrupt, Ended
    <3> QED
      BY <1>3, <3>1 DEF Make1Return
  <2>2. CASE i = root + 1
    <3> DEFINE y == State(Roots[root + 1], NoTarget, "MAKE1A")
    <3>1. y.curstate = "MAKE1A" /\ y.t = Roots[root + 1]
      BY DEF State
    <3> HIDE DEF y
    <3>2. Len(stack') = 1 /\ stack'[1] = y /\ 1 \in 1..1 /\ 1 + 1 - 1 = 1
      BY <2>1 DEF y
    <3>3. 1 \in Places' /\ D(1)' = y
      BY <3>2 DEF Places, D, Deep
    <3> QED
      BY <2>1, <2>2, <3>1, <3>3
  <2>3. CASE i # root + 1
    <3>1. i \in 1..root
      BY <1>0, <2>1, <2>3
    <3>2. Places = {}
      BY <2>1 DEF Places
    <3> QED
      BY <1>0, <2>1, <3>1, <3>2 DEF Entered
  <2> QED
    BY <2>2, <2>3
<1> QED
  BY <1>2, <1>3

LEMMA OverStep ==
  ASSUME TypeOK, Over, [Next]_vars
  PROVE  Over'
<1> SUFFICES ASSUME pc' = "done" PROVE stack' = <<>> /\ running' = {} /\ root' = Len(Roots)
  BY DEF Over
<1>1. CASE pc = "done"
  <2>1. UNCHANGED <<stack, running, root>>
    BY <1>1 DEF Next, Loop, AnyComplete, vars, exec, Make1aSeen, Make1aStart, Make1atail,
          Make1bWait, Make1bSemaphore, Make1bReady, Make1cLaunch, Make1cNoExec, Make1cDone, Make1d,
          ExecWait, ExecReturn, Make1Return, Complete, Interrupt, Ended, Handler
  <2> QED
    BY <1>1, <2>1 DEF Over
<1>2. CASE pc # "done"
  <2>1. Make1Return
    BY <1>2 DEF Next, Loop, AnyComplete, vars, exec, Make1aSeen, Make1aStart, Make1atail,
          Make1bWait, Make1bSemaphore, Make1bReady, Make1cLaunch, Make1cNoExec, Make1cDone, Make1d,
          ExecWait, ExecReturn, Complete, Interrupt, Ended, Handler
  <2>2. /\ stack = <<>> /\ running = {} /\ ~(root < Len(Roots))
        /\ UNCHANGED <<stack, running, root>>
    BY <1>2, <2>1 DEF Make1Return, exec
  <2>3. root \in 1..Len(Roots) /\ Len(Roots) \in Nat
    BY Make1Assumption DEF TypeOK
  <2> QED
    BY <2>2, <2>3
<1> QED
  BY <1>1, <1>2

-----------------------------------------------------------------------------
(***************************************************************************)
(* The invariant holds.                                                    *)
(***************************************************************************)

LEMMA InitExact ==
  ASSUME Init, TypeOK, OrderInv, NEW rank \in [Targets -> Nat]
  PROVE  ExactInv(rank)
<1>1. /\ running = {} /\ pc = "loop" /\ root = 1
      /\ \A t \in Targets : /\ progress[t] = "INIT" /\ asynccnt[t] = 0 /\ parents[t] = <<>>
                            /\ cmds[t] = <<>>
      /\ \A s \in Sems : semwait[s] = <<>> /\ semcnt[s] = 0
  BY DEF Init
<1>2. Places = {1} /\ D(1).curstate = "MAKE1A" /\ D(1).t = Roots[1]
  <2> DEFINE x == State(Roots[1], NoTarget, "MAKE1A")
  <2>1. stack = <<x>>
    BY DEF Init
  <2>2. x.curstate = "MAKE1A" /\ x.t = Roots[1]
    BY DEF State
  <2> HIDE DEF x
  <2>3. Len(stack) = 1 /\ stack[1] = x /\ 1..1 = {1} /\ Len(stack) + 1 - 1 = 1
    BY <2>1
  <2> QED
    BY <2>2, <2>3 DEF Places, D, Deep
<1>3. Exact
  <2> SUFFICES ASSUME NEW t \in Targets PROVE Gap(t) <= 0
    BY DEF Exact
  <2>1. /\ Cardinality(Owed(progress, parents, t)) \in Nat /\ Cardinality(Calls(stack, t)) \in Nat
        /\ Cardinality(Queued(semwait, t)) \in Nat
    BY GapTypes DEF OrderInv
  <2> QED
    BY <1>1, <2>1 DEF Gap
<1>4. Visiting /\ Runs /\ Tended
  BY <1>1, <1>2 DEF Visiting, Runs, Tended, Begun
<1>5. Parented(rank) /\ InLine /\ NextCalled
  BY <1>1 DEF Parented, InLine, NextCalled
<1>6. Held
  BY <1>1 DEF Held, Begun
<1>7. Entered
  <2>1. 1 \in Places /\ \A i \in 1..root : i = root /\ i = 1
    BY <1>1, <1>2
  <2> QED
    BY <1>2, <2>1 DEF Entered
<1>8. Over
  BY <1>1 DEF Over
<1> QED
  BY <1>3, <1>4, <1>5, <1>6, <1>7, <1>8 DEF ExactInv

LEMMA InitKnown ==
  ASSUME NEW rank \in [Targets -> Nat], Acyclic(rank)
  PROVE  Init => Known(rank)
BY InitType, InitSem, InitOrdered, InitExact DEF Known

LEMMA KnownStep ==
  ASSUME NothingFound, NEW rank \in [Targets -> Nat]
  PROVE  Known(rank) /\ [Next]_vars => Known(rank)'
<1> SUFFICES ASSUME Known(rank), [Next]_vars PROVE Known(rank)'
  OBVIOUS
<1>1. TypeOK /\ SemInv /\ OrderInv /\ RankInv(rank) /\ ExactInv(rank)
  BY DEF Known
<1>2. TypeOK' /\ SemInv'
  BY <1>1, TypeStep
<1>3. Apart
  BY <1>1, NestedApart DEF RankInv
<1>4. OrderInv' /\ RankInv(rank)'
  BY <1>1, <1>2, <1>3, OrderStep, RankStep
<1>5. Exact' /\ Visiting' /\ Parented(rank)' /\ Runs' /\ Held' /\ Tended' /\ InLine'
  BY <1>1, <1>2, <1>3, <1>4, ExactStep, VisitingStep, ParentedStep, RunsStep, HeldStep, TendedStep,
     InLineStep DEF ExactInv
<1>6. NextCalled' /\ Entered' /\ Over'
  BY <1>1, <1>2, NextCalledStep, EnteredStep, OverStep DEF ExactInv
<1> QED
  BY <1>2, <1>4, <1>5, <1>6 DEF Known, ExactInv

-----------------------------------------------------------------------------
(***************************************************************************)
(* What the invariant says of the counter and of the end.                  *)
(***************************************************************************)

\* The entries of sequences, as pairs of an index and a place.
LEMMA EntriesOf ==
  ASSUME NEW x, NEW f, NEW S, \A z \in S : DOMAIN f[z] \subseteq Nat
  PROVE  \A y : y \in Entries(x, f, S) <=>
                 y \in S \X Nat /\ y[2] \in DOMAIN f[y[1]] /\ f[y[1]][y[2]] = x
<1>1. ASSUME NEW y \in Entries(x, f, S)
      PROVE  y \in S \X Nat /\ y[2] \in DOMAIN f[y[1]] /\ f[y[1]][y[2]] = x
  <2>1. PICK z \in S : y \in {z} \X {i \in DOMAIN f[z] : f[z][i] = x}
    BY DEF Entries
  <2>2. y = <<z, y[2]>> /\ y[1] = z /\ y[2] \in DOMAIN f[z] /\ f[z][y[2]] = x
    BY <2>1
  <2>3. y[2] \in Nat
    BY <2>2
  <2> QED
    BY <2>2, <2>3
<1>2. ASSUME NEW y, y \in S \X Nat, y[2] \in DOMAIN f[y[1]], f[y[1]][y[2]] = x
      PROVE  y \in Entries(x, f, S)
  <2>1. y[1] \in S /\ y \in {y[1]} \X {i \in DOMAIN f[y[1]] : f[y[1]][i] = x}
    BY <1>2
  <2> QED
    BY <2>1 DEF Entries
<1> QED
  BY <1>1, <1>2

\* The states of a sequence counted from its top and from its bottom.
LEMMA CallsAtTop ==
  ASSUME NEW q \in Seq(States), NEW t
  PROVE  Cardinality({i \in DOMAIN q : q[i].t = t /\ q[i].curstate \in {"MAKE1ATAIL", "MAKE1B"}})
           = Cardinality(Calls(q, t))
<1> DEFINE k == Len(q)
           A == {i \in DOMAIN q : q[i].t = t /\ q[i].curstate \in {"MAKE1ATAIL", "MAKE1B"}}
           B == Calls(q, t)
           f == [i \in A |-> k + 1 - i]
<1> HIDE DEF States
<1>1. k \in Nat /\ DOMAIN q = 1..k
  OBVIOUS
<1>2. ASSUME NEW i \in A PROVE i \in 1..k /\ k + 1 - i \in B
  <2>1. i \in 1..k /\ k + 1 - i \in 1..k /\ k + 1 - (k + 1 - i) = i
    BY <1>1
  <2> QED
    BY <2>1 DEF Calls, Calling, Deep
<1>3. ASSUME NEW b \in B PROVE b \in 1..k /\ k + 1 - b \in A
  <2>1. b \in 1..k /\ Calling(q[k + 1 - b], t)
    BY DEF Calls, Deep
  <2>2. k + 1 - b \in 1..k
    BY <1>1, <2>1
  <2> QED
    BY <1>1, <2>1, <2>2 DEF Calling
<1> HIDE DEF A, B, k
<1>4. f \in [A -> B]
  BY <1>2
<1>5. \A i, j \in A : f[i] = f[j] => i = j
  BY <1>1, <1>2
<1>6. \A b \in B : \E i \in A : f[i] = b
  <2> SUFFICES ASSUME NEW b \in B PROVE \E i \in A : f[i] = b
    OBVIOUS
  <2>1. k + 1 - b \in A /\ k + 1 - (k + 1 - b) = b
    BY <1>1, <1>3
  <2> QED
    BY <2>1
<1> HIDE DEF f
<1>7. f \in Bijection(A, B)
  BY <1>4, <1>5, <1>6 DEF Bijection, Injection, Surjection, IsInjective
<1>8. IsFiniteSet(A)
  <2>1. IsFiniteSet(1..k) /\ A \subseteq 1..k
    BY <1>1, <1>2, FS_Interval
  <2> QED
    BY <2>1, FS_Subset
<1>9. Cardinality(B) = Cardinality(A)
  BY <1>7, <1>8, FS_Bijection DEF ExistsBijection
<1> QED
  BY <1>9 DEF A, B

LEMMA CountedRight ==
  ASSUME TypeOK, OrderInv, Exact, ~intr, NEW t \in Targets
  PROVE  asynccnt[t] = Pending(t)
<1>1. /\ Cardinality(Owed(progress, parents, t)) \in Nat /\ Cardinality(Calls(stack, t)) \in Nat
      /\ Cardinality(Queued(semwait, t)) \in Nat /\ asynccnt[t] \in Int /\ Gap(t) \in Nat
  BY GapTypes DEF OrderInv
<1>2. asynccnt[t] = Cardinality(Owed(progress, parents, t)) + Cardinality(Calls(stack, t))
                    + Cardinality(Queued(semwait, t))
  BY <1>1 DEF Exact, Gap
<1> DEFINE S == {d \in Targets : progress[d] # "DONE"}
<1>3. Owed(progress, parents, t) = Entries(t, parents, S)
  <2>1. \A d \in Targets : DOMAIN parents[d] \subseteq Nat
    <3>1. \A d \in Targets : parents[d] \in Seq(Targets)
      BY DEF TypeOK
    <3> QED
      BY <3>1
  <2>2. \A d \in S : DOMAIN parents[d] \subseteq Nat
    BY <2>1
  <2>3. \A y : y \in Entries(t, parents, S) <=>
                y \in S \X Nat /\ y[2] \in DOMAIN parents[y[1]] /\ parents[y[1]][y[2]] = t
    <3> HIDE DEF S
    <3> QED
      BY <2>2, EntriesOf
  <2>4. \A y : y \in Entries(t, parents, S) <=> y \in Owed(progress, parents, t)
    BY <2>3 DEF Owed
  <2> QED
    BY <2>4, Zenon
<1>4. Queued(semwait, t) = Entries(t, semwait, Sems)
  <2>1. \A s \in Sems : DOMAIN semwait[s] \subseteq Nat
    <3>1. \A s \in Sems : semwait[s] \in Seq(Targets)
      BY DEF TypeOK
    <3> QED
      BY <3>1
  <2>2. \A y : y \in Entries(t, semwait, Sems) <=>
                y \in Sems \X Nat /\ y[2] \in DOMAIN semwait[y[1]] /\ semwait[y[1]][y[2]] = t
    BY <2>1, EntriesOf
  <2>3. \A y : y \in Entries(t, semwait, Sems) <=> y \in Queued(semwait, t)
    BY <2>2 DEF Queued
  <2> QED
    BY <2>3, Zenon
<1>5. Cardinality({i \in DOMAIN stack : stack[i].t = t /\ stack[i].curstate \in {"MAKE1ATAIL", "MAKE1B"}})
        = Cardinality(Calls(stack, t))
  BY CallsAtTop DEF TypeOK
<1> QED
  BY <1>2, <1>3, <1>4, <1>5 DEF Pending

(***************************************************************************)
(* The counter that decides when a target is built is exact, for every     *)
(* acyclic graph in whose files headers() finds nothing new: unless an     *)
(* interrupt threw states away, asynccnt[t] is the number of unfinished    *)
(* dependencies that will tell t, of the states on the stack that will     *)
(* call make1b(t), and of t's places in semaphores' queues.                *)
(***************************************************************************)
THEOREM CounterIsExact ==
  ASSUME NothingFound, NEW rank \in [Targets -> Nat], Acyclic(rank)
  PROVE  Spec => []WakeupsCounted
<1>1. Init => Known(rank)
  BY InitKnown
<1>2. Known(rank) /\ [Next]_vars => Known(rank)'
  BY KnownStep
<1>3. Known(rank) => WakeupsCounted
  BY CountedRight DEF Known, ExactInv, WakeupsCounted
<1> QED
  BY <1>1, <1>2, <1>3, PTL DEF Spec

\* At the end, whatever was started is done.
LEMMA AllFinished ==
  ASSUME NEW rank \in [Targets -> Nat], Known(rank), pc = "done", ~intr, NEW u \in Targets
  PROVE  progress[u] \in {"INIT", "DONE"}
<1> DEFINE U == {t \in Targets : progress[t] \notin {"INIT", "DONE"}}
<1> SUFFICES ASSUME u \in U PROVE FALSE
  OBVIOUS
<1>0. TypeOK /\ OrderInv /\ ExactInv(rank)
  BY DEF Known
<1>1. Places = {} /\ running = {}
  BY <1>0 DEF ExactInv, Over, Places
<1>2. \A t \in Targets : ~Begun(t) /\ progress[t] # "ONSTACK"
  BY <1>0, <1>1 DEF ExactInv, Tended, OrderInv, Started
<1>3. ASSUME NEW t \in U PROVE \E d \in U : rank[d] < rank[t]
  <2> DEFINE O == Owed(progress, parents, t)
             C == Calls(stack, t)
             Q == Queued(semwait, t)
  <2>0. t \in Targets
    OBVIOUS
  <2>1. /\ Cardinality(O) \in Nat /\ Cardinality(C) \in Nat /\ Cardinality(Q) \in Nat
        /\ asynccnt[t] \in Int /\ asynccnt[t] = Cardinality(O) + Cardinality(C) + Cardinality(Q)
    <3>1. /\ Cardinality(O) \in Nat /\ Cardinality(C) \in Nat /\ Cardinality(Q) \in Nat
          /\ asynccnt[t] \in Int /\ Gap(t) \in Nat
      BY <1>0, <2>0, GapTypes DEF OrderInv
    <3>2. Gap(t) <= 0
      BY <1>0, <2>0 DEF ExactInv, Exact
    <3> QED
      BY <3>1, <3>2 DEF Gap
  <2>2. C = {} /\ asynccnt[t] # 0
    BY <1>1, <1>2 DEF Calls, Places, Begun
  <2>3. Cardinality({}) = 0
    BY FS_EmptySet
  <2>4. Q = {}
    <3> SUFFICES ASSUME NEW y \in Q PROVE FALSE
      OBVIOUS
    <3> PICK s : s = y[1]
      OBVIOUS
    <3>1. s \in Sems /\ y[2] \in DOMAIN semwait[s]
      BY DEF Queued
    <3>2. semwait[s] # <<>>
      BY <3>1
    <3>3. semcnt[s] # 0
      BY <1>0, <1>1, <3>1, <3>2 DEF ExactInv, NextCalled
    <3>4. \E v \in Targets : Begun(v)
      BY <1>0, <3>1, <3>3 DEF ExactInv, Held
    <3> QED
      BY <1>2, <3>4
  <2> HIDE DEF O, C, Q
  <2>5. O # {}
    BY <2>1, <2>2, <2>3, <2>4
  <2>6. PICK y \in O : TRUE
    BY <2>5
  <2> PICK d : d = y[1]
    OBVIOUS
  <2>7. d \in Targets /\ progress[d] # "DONE" /\ y[2] \in DOMAIN parents[d] /\ parents[d][y[2]] = t
    BY DEF O, Owed
  <2>8. progress[d] # "INIT" /\ rank[d] < rank[t]
    BY <1>0, <2>7 DEF ExactInv, Parented
  <2> QED
    BY <2>7, <2>8
<1> DEFINE R == {rank[t] : t \in U}
<1>4. R \subseteq Nat /\ R # {}
  OBVIOUS
<1>5. \A m \in R : \E n \in R : n < m
  BY <1>3
<1> HIDE DEF R, U
<1>6. PICK m \in R : \A n \in R : m <= n
  BY <1>4, LeastOf
<1> QED
  BY <1>4, <1>5, <1>6

(***************************************************************************)
(* Nobody is left behind, for every acyclic graph in whose files headers() *)
(* finds nothing new: when make1() is through with all roots, and was not  *)
(* interrupted, every target it started on is done.                        *)
(***************************************************************************)
THEOREM AllAreFinished ==
  ASSUME NothingFound, NEW rank \in [Targets -> Nat], Acyclic(rank)
  PROVE  Spec => []NoneLeftBehind
<1>1. Init => Known(rank)
  BY InitKnown
<1>2. Known(rank) /\ [Next]_vars => Known(rank)'
  BY KnownStep
<1>3. Known(rank) => NoneLeftBehind
  BY AllFinished DEF NoneLeftBehind
<1> QED
  BY <1>1, <1>2, <1>3, PTL DEF Spec

-----------------------------------------------------------------------------
(***************************************************************************)
(* What make() returns is right, and the build is one that Build promises. *)
(* The result is taken from two counters, total and made, and the graph is *)
(* not looked at again: the two differ by the targets that are updated at  *)
(* the time and by those whose update failed, and a failure that is not    *)
(* counted goes back to one that is.                                       *)
(***************************************************************************)

(***************************************************************************)
(* The invariant of the result.                                            *)
(***************************************************************************)

Bad(t)   == status[t] # EXEC_CMD_OK
Working  == {t \in Targets : progress[t] = "RUNNING"}
Failures == {t \in Targets : progress[t] = "DONE" /\ Bad(t)}
Culprit  == \E t \in Targets : progress[t] \in {"RUNNING", "DONE"} /\ Bad(t)

\* Something went wrong, with a target or with an action.
Trouble == (\E t \in Targets : Bad(t)) \/ (\E a \in Actions : actStatus[a] # EXEC_CMD_OK)

\* The targets of this call of make1() whose update failed.
Surplus == counts.total - counts.made - Cardinality(Working)

\* make() fails, or is interrupted, for a reason.
Reasons == /\ CantFindOrMake(fate) => result
           /\ intr => Culprit
           /\ result => CantFindOrMake(fate) \/ Culprit

\* Until make() is known to fail, total and made tell of all that goes wrong.
Tallied ==
  /\ IsFiniteSet(Working)
  /\ pc \in {"loop", "exec_wait"} /\ ~result =>
       /\ Surplus >= 0
       /\ Surplus > 0 => Failures # {}
       /\ Trouble => Surplus > 0 \/ \E u \in Working : Bad(u)

\* The fates are still those make0() decided.
Origin == \E s \in Starts : fate = s.fate

\* Success is success.
Clean == pc = "done" /\ ~result => \A t \in Targets : ~Bad(t)

ResultInv == Reasons /\ Tallied /\ Origin /\ Clean

-----------------------------------------------------------------------------
(***************************************************************************)
(* What goes wrong stays wrong.                                            *)
(***************************************************************************)

\* The status make1c() gives t, and its actions, is good when all were.
LEMMA ActionsGood ==
  ASSUME TypeOK, NEW t \in Targets
  PROVE  ActionsStatus(t) = EXEC_CMD_OK <=>
           ~Bad(t) /\ \A a \in ToSet(ActionsOf[t]) : a \in Actions /\ actStatus[a] = EXEC_CMD_OK
<1> DEFINE S == {status[t]} \cup {actStatus[a] : a \in ToSet(ActionsOf[t])}
<1>1. \A a \in ToSet(ActionsOf[t]) : a \in Actions
  <2>1. ActionsOf[t] \in Seq(Actions)
    BY Make1Assumption
  <2> QED
    BY <2>1 DEF ToSet
<1>2. S \subseteq Statuses /\ S # {}
  BY <1>1 DEF TypeOK
<1>3. ActionsStatus(t) = Max(S)
  BY DEF ActionsStatus
<1>4. \A s \in S : s = status[t] \/ \E a \in ToSet(ActionsOf[t]) : s = actStatus[a]
  OBVIOUS
<1>5. status[t] \in S /\ \A a \in ToSet(ActionsOf[t]) : actStatus[a] \in S
  OBVIOUS
<1> HIDE DEF S
<1>6. Max(S) \in S
  BY <1>2, MaxOfStatuses
<1>7. Max(S) = EXEC_CMD_OK => \A s \in S : s = EXEC_CMD_OK
  BY <1>2, WorstIsGood
<1> QED
  BY <1>1, <1>3, <1>4, <1>5, <1>6, <1>7 DEF Bad

\* The status make1b() finds is good when t and its dependencies are.
LEMMA DependenciesBad ==
  ASSUME TypeOK, NEW t \in Targets, DependencyStatus(t) # EXEC_CMD_OK
  PROVE  \E x \in Targets : Bad(x)
<1> DEFINE S == {status[t]} \cup {status[d] : d \in ToSet(depends[t]) \ NoCare}
<1>1. S \subseteq Statuses /\ S # {}
  BY DepsType DEF TypeOK
<1>2. DependencyStatus(t) = Max(S)
  BY DEF DependencyStatus
<1>3. \A s \in S : \E x \in Targets : s = status[x]
  BY DepsType
<1> HIDE DEF S
<1>4. Max(S) \in S
  BY <1>1, MaxOfStatuses
<1> QED
  BY <1>2, <1>3, <1>4 DEF Bad

\* A target that is being updated, or done, and bad stays so.
LEMMA BadStays ==
  ASSUME NothingFound, TypeOK, OrderInv, Visiting, Runs, [Next]_vars, NEW t \in Targets,
         progress[t] \in {"RUNNING", "DONE"}, Bad(t)
  PROVE  /\ progress'[t] \in {"RUNNING", "DONE"} /\ Bad(t)'
         /\ progress[t] = "DONE" => progress'[t] = "DONE"
         /\ progress'[t] # progress[t] => Make1cDone
<1>1. Moved(t)
  BY Moves
<1>2. CASE progress'[t] = progress[t] /\ status'[t] = status[t]
  BY <1>2 DEF Bad
<1>3. CASE stack # <<>> /\ t = top.t
  <2>1. Len(stack) \in Places /\ D(Len(stack)) = top
    BY <1>3, TopPlace
  <2>2. asynccnt[t] = 0
    BY DEF Runs, OrderInv, Idle
  <2>3. top.curstate # "MAKE1ATAIL" /\ top.curstate # "MAKE1D"
    BY <1>3, <2>1 DEF Visiting, Runs, Bad
  <2>4. CASE Make1cDone /\ top.curstate = "MAKE1C" /\ progress'[t] = "DONE"
    <3>1. status'[t] = ActionsStatus(t)
      BY <1>3, <2>4 DEF Make1cDone, TypeOK
    <3> QED
      BY <2>4, <3>1, ActionsGood DEF Bad
  <2> QED
    BY <1>1, <1>3, <2>2, <2>3, <2>4 DEF Moved, Bad
<1> QED
  BY <1>1, <1>2, <1>3 DEF Moved

-----------------------------------------------------------------------------
(***************************************************************************)
(* Every step keeps the invariant.                                         *)
(***************************************************************************)

\* Nothing is taken from what a target depends on.
LEMMA DependsGrow ==
  ASSUME NothingFound, TypeOK, [Next]_vars, NEW t \in Targets
  PROVE  /\ IsPrefix(depends[t], depends'[t])
         /\ depends'[t] # depends[t] => Make1aStart /\ t = top.t
<1>0. depends[t] \in Seq(Targets)
  BY DEF TypeOK
<1>1. CASE Make1aStart
  <2> DEFINE new == NewIncludes(depends[t])
  <2>1. t = top.t => depends'[t] = depends[t] \o new
    BY <1>1 DEF Make1aStart, TypeOK
  <2>2. t # top.t => depends'[t] = depends[t]
    BY <1>1 DEF Make1aStart, TypeOK
  <2>3. new \in Seq(Targets)
    BY <1>0, NewIncludesType
  <2> HIDE DEF new
  <2>4. IsPrefix(depends[t], depends[t] \o new) /\ IsPrefix(depends[t], depends[t])
    BY <1>0, <2>3 DEF IsPrefix
  <2> QED
    BY <1>1, <2>1, <2>2, <2>4
<1>2. CASE ~Make1aStart
  <2>1. depends' = depends
    <3>1. CASE Make1cDone
      <4>1. top.t \in Targets
        BY <3>1, StackType DEF Make1cDone, Handler
      <4> QED
        BY <3>1, <4>1 DEF Make1cDone, NothingFound, Rescan
    <3> QED
      BY <1>2, <3>1 DEF Next, Loop, AnyComplete, vars, graph, Make1aSeen, Make1atail, Make1bWait,
          Make1bSemaphore, Make1bReady, Make1cLaunch, Make1cNoExec, Make1d, ExecWait, ExecReturn,
          Make1Return, Complete, Interrupt, Ended
  <2>2. IsPrefix(depends[t], depends[t])
    BY <1>0 DEF IsPrefix
  <2> QED
    BY <2>1, <2>2
<1> QED
  BY <1>1, <1>2

LEMMA FateType ==
  ASSUME TypeOK, NEW t \in Targets
  PROVE  fate[t] \in Int
<1>1. fate \in [Targets -> Fates]
  BY DEF TypeOK
<1>2. \A x \in Fates : x \in Int
  BY DEF Fates, T_FATE_INIT, T_FATE_CANTMAKE
<1> HIDE DEF Fates
<1> QED
  BY <1>1, <1>2

\* When nothing is left on the stack and nothing runs, nothing is being updated,
\* unless the build was interrupted.
LEMMA Settled ==
  ASSUME Runs, Tended, stack = <<>>, running = {}, ~intr
  PROVE  Working = {}
<1> SUFFICES ASSUME NEW t \in Targets, progress[t] = "RUNNING" PROVE FALSE
  BY DEF Working
<1>1. Begun(t)
  BY DEF Runs, Begun
<1> QED
  BY <1>1 DEF Tended, Places

\* How often a target is being updated.
LEMMA WorkingType ==
  ASSUME Tallied, TypeOK
  PROVE  /\ Cardinality(Working) \in Nat /\ (Cardinality(Working) = 0 <=> Working = {})
         /\ counts.total \in Nat /\ counts.made \in Nat /\ Surplus \in Int
         /\ Surplus = counts.total - counts.made - Cardinality(Working)
<1>1. IsFiniteSet(Working) /\ counts.total \in Nat /\ counts.made \in Nat
  BY DEF Tallied, TypeOK
<1> HIDE DEF Working
<1>2. Cardinality(Working) \in Nat /\ (Cardinality(Working) = 0 <=> Working = {})
  BY <1>1, FS_CardinalityType, FS_EmptySet
<1> QED
  BY <1>1, <1>2 DEF Surplus

\* When make1() is through with a root, and all it counted was made, all is well.
LEMMA AllWell ==
  ASSUME TypeOK, Tallied, pc = "loop", ~result, AllMade
  PROVE  ~Trouble /\ Surplus = 0 /\ Working = {}
<1>1. Surplus >= 0 /\ (Trouble => Surplus > 0 \/ \E u \in Working : Bad(u))
  BY DEF Tallied
<1>2. Cardinality(Working) = 0 /\ Surplus = 0
  BY <1>1, WorkingType DEF AllMade
<1> QED
  BY <1>1, <1>2, WorkingType

\* make() goes on only from where it is, and does not forget that it failed.
LEMMA NothingTakenBack ==
  ASSUME [Next]_vars
  PROVE  (result => result') /\ (pc' \in {"loop", "exec_wait"} => pc \in {"loop", "exec_wait"})
<1>1. result => result'
  BY DEF Next, Loop, AnyComplete, vars, Make1aSeen, Make1aStart, Make1atail, Make1bWait,
      Make1bSemaphore, Make1bReady, Make1cLaunch, Make1cNoExec, Make1cDone, Make1d, ExecWait,
      ExecReturn, Make1Return, Complete, Interrupt, Ended
<1>2. pc \in {"loop", "exec_wait"} \/ pc' = pc
  BY DEF Next, Loop, AnyComplete, vars, Make1aSeen, Make1aStart, Make1atail, Make1bWait,
      Make1bSemaphore, Make1bReady, Make1cLaunch, Make1cNoExec, Make1cDone, Make1d, ExecWait,
      ExecReturn, Make1Return, Complete, Interrupt, Ended, Handler
<1> QED
  BY <1>1, <1>2

LEMMA ReasonsStep ==
  ASSUME NothingFound, TypeOK, TypeOK', OrderInv, Visiting, Runs, Tended, Reasons, Tallied,
         [Next]_vars
  PROVE  Reasons'
<1>1. fate' = fate
  BY Moves
<1>2. Culprit => Culprit'
  BY BadStays DEF Culprit
<1>3. (CantFindOrMake(fate) <=> CantFindOrMake(fate)')
  BY <1>1
<1>4. result => result'
  BY NothingTakenBack
<1>5. intr' => Culprit'
  <2>1. CASE intr
    BY <1>2, <2>1 DEF Reasons
  <2>2. CASE ~intr /\ intr'
    <3>1. Make1d
      BY <2>2 DEF Next, Loop, AnyComplete, vars, Make1aSeen, Make1aStart, Make1atail, Make1bWait,
          Make1bSemaphore, Make1bReady, Make1cLaunch, Make1cNoExec, Make1cDone, ExecWait,
          ExecReturn, Make1Return, Complete, Interrupt, Ended
    <3> PICK t : t = top.t
      OBVIOUS
    <3>2. stack # <<>> /\ top.curstate = "MAKE1D" /\ progress' = progress
      BY <3>1 DEF Make1d, Handler, top
    <3>3. t \in Targets /\ Len(stack) \in Places /\ D(Len(stack)) = top
      BY <3>2, TopPlace
    <3>4. progress[t] = "RUNNING"
      BY <3>2, <3>3 DEF Runs
    <3>5. status'[t] = Judged(t, top.status) /\ Judged(t, top.status) \in {EXEC_CMD_INTR, EXEC_CMD_FAIL}
      <4> HIDE DEF Judged
      <4> QED
        BY <2>2, <3>1, <3>3 DEF Make1d, TypeOK
    <3> QED
      BY <3>2, <3>3, <3>4, <3>5 DEF Culprit, Bad, EXEC_CMD_OK, EXEC_CMD_INTR, EXEC_CMD_FAIL
  <2> QED
    BY <2>1, <2>2
<1>6. result' => CantFindOrMake(fate)' \/ Culprit'
  <2>1. CASE result
    BY <1>2, <1>3, <2>1 DEF Reasons
  <2>2. CASE ~result /\ result'
    <3>1. Make1Return
      BY <2>2 DEF Next, Loop, AnyComplete, vars, Make1aSeen, Make1aStart, Make1atail, Make1bWait,
          Make1bSemaphore, Make1bReady, Make1cLaunch, Make1cNoExec, Make1cDone, Make1d, ExecWait,
          ExecReturn, Complete, Interrupt, Ended
    <3>2. pc = "loop" /\ stack = <<>> /\ running = {} /\ ~AllMade
      BY <2>2, <3>1 DEF Make1Return
    <3>3. Surplus >= 0 /\ (Surplus > 0 => Failures # {})
      BY <2>2, <3>2 DEF Tallied
    <3>4. Surplus > 0 \/ Working # {}
      BY <3>2, <3>3, WorkingType DEF AllMade
    <3>5. Failures # {} => Culprit
      BY DEF Failures, Culprit
    <3>6. Working # {} => intr
      BY <3>2, Settled
    <3> QED
      BY <1>2, <3>3, <3>4, <3>5, <3>6 DEF Reasons
  <2> QED
    BY <2>1, <2>2
<1> QED
  BY <1>3, <1>4, <1>5, <1>6 DEF Reasons

\* Only make1b() and make1c() change the set of the targets that are updated.
LEMMA WorkingMoves ==
  ASSUME NothingFound, TypeOK, TypeOK', OrderInv, Visiting, Runs, Tallied, [Next]_vars
  PROVE  /\ IsFiniteSet(Working')
         /\ \/ Working' = Working
            \/ /\ stack # <<>> /\ Make1bReady /\ top.t \in Targets \ Working
               /\ Working' = Working \cup {top.t}
               /\ Cardinality(Working') = Cardinality(Working) + 1
            \/ /\ stack # <<>> /\ Make1cDone /\ top.t \in Working
               /\ Working' = Working \ {top.t}
               /\ Cardinality(Working') = Cardinality(Working) - 1
<1> PICK t : t = top.t
  OBVIOUS
<1>1. IsFiniteSet(Working)
  BY DEF Tallied
<1>2. ASSUME NEW x \in Targets, stack = <<>> \/ x # t
      PROVE  progress'[x] = progress[x]
  BY <1>2, Moves DEF Moved
<1>3. CASE stack = <<>> \/ t \notin Targets
  <2>1. Working' = Working
    BY <1>2, <1>3 DEF Working
  <2> QED
    BY <1>1, <2>1
<1>4. CASE stack # <<>> /\ t \in Targets
  <2>1. Len(stack) \in Places /\ D(Len(stack)) = top
    BY <1>4, TopPlace
  <2>2. Moved(t)
    BY <1>4, Moves
  <2>3. CASE progress'[t] = "RUNNING" /\ progress[t] # "RUNNING"
    <3>1. Make1bReady
      BY <2>2, <2>3 DEF Moved
    <3>2. Working' = Working \cup {t} /\ t \notin Working
      BY <1>2, <1>4, <2>3 DEF Working
    <3> HIDE DEF Working
    <3>3. IsFiniteSet(Working \cup {t}) /\ Cardinality(Working \cup {t}) = Cardinality(Working) + 1
      BY <1>1, <3>2, FS_AddElement
    <3>4. IsFiniteSet(Working') /\ Cardinality(Working') = Cardinality(Working) + 1
      BY <3>2, <3>3, Zenon
    <3> QED
      BY <1>4, <3>1, <3>2, <3>4
  <2>4. CASE progress'[t] # "RUNNING" /\ progress[t] = "RUNNING"
    <3>1. top.curstate # "MAKE1ATAIL"
      BY <1>4, <2>1, <2>4 DEF Visiting
    <3>2. Make1cDone
      BY <2>2, <2>4, <3>1 DEF Moved
    <3>3. Working' = Working \ {t} /\ t \in Working
      BY <1>2, <1>4, <2>4 DEF Working
    <3> HIDE DEF Working
    <3>4. IsFiniteSet(Working \ {t}) /\ Cardinality(Working \ {t}) = Cardinality(Working) - 1
      BY <1>1, <3>3, FS_RemoveElement
    <3>5. IsFiniteSet(Working') /\ Cardinality(Working') = Cardinality(Working) - 1
      BY <3>3, <3>4, Zenon
    <3> QED
      BY <1>4, <3>2, <3>3, <3>5
  <2>5. CASE progress'[t] = "RUNNING" <=> progress[t] = "RUNNING"
    <3>1. Working' = Working
      BY <1>2, <2>5 DEF Working
    <3> QED
      BY <1>1, <3>1
  <2> QED
    BY <2>3, <2>4, <2>5
<1> QED
  BY <1>3, <1>4

\* A failure stays on record.
LEMMA FailuresStay ==
  ASSUME NothingFound, TypeOK, OrderInv, Visiting, Runs, [Next]_vars, Failures # {}
  PROVE  Failures' # {}
<1>1. PICK t \in Targets : progress[t] = "DONE" /\ Bad(t)
  BY DEF Failures
<1>2. progress'[t] = "DONE" /\ Bad(t)'
  BY <1>1, BadStays
<1> QED
  BY <1>2 DEF Failures

LEMMA TalliedStep ==
  ASSUME FatesExplained, NothingFound, TypeOK, TypeOK', OrderInv, Visiting, Runs,
         Reasons, Origin, Tallied, [Next]_vars
  PROVE  Tallied'
<1> SUFFICES ASSUME pc' \in {"loop", "exec_wait"}, ~result'
             PROVE  /\ Surplus' >= 0
                    /\ Surplus' > 0 => Failures' # {}
                    /\ Trouble' => Surplus' > 0 \/ \E u \in Working' : Bad(u)'
  BY WorkingMoves DEF Tallied
<1> DEFINE c  == Cardinality(Working)
           c1 == Cardinality(Working')
<1>1. pc \in {"loop", "exec_wait"} /\ ~result
  BY NothingTakenBack
<1>2. /\ Surplus >= 0 /\ (Surplus > 0 => Failures # {})
      /\ Trouble => Surplus > 0 \/ \E u \in Working : Bad(u)
  BY <1>1 DEF Tallied
<1>3. /\ c \in Nat /\ counts.total \in Nat /\ counts.made \in Nat /\ Surplus \in Int
      /\ Surplus = counts.total - counts.made - c
  BY WorkingType
<1>4. /\ c1 \in Nat /\ counts'.total \in Nat /\ counts'.made \in Nat
      /\ Surplus' = counts'.total - counts'.made - c1
  BY WorkingMoves, FS_CardinalityType DEF Surplus, TypeOK
<1>5. \A u \in Targets : progress[u] = "RUNNING" /\ Bad(u) =>
        Bad(u)' /\ (progress'[u] = "RUNNING" \/ Make1cDone)
  BY BadStays
<1> PICK t : t = top.t
  OBVIOUS
<1>6. CASE Make1bReady
  <2>1. /\ stack # <<>> /\ top.curstate = "MAKE1B" /\ t \in Targets /\ asynccnt[t] = 1
        /\ actStatus' = actStatus /\ counts'.made = counts.made
    BY <1>6, StackType DEF Make1bReady, Handler, top, TypeOK
  <2>2. Surplus' = Surplus
    <3>1. \/ progress' = progress /\ counts'.total = counts.total
          \/ progress' = [progress EXCEPT ![t] = "RUNNING"] /\ counts'.total = counts.total + 1
      <4>1. \/ progress' = progress /\ counts'.total = counts.total
            \/ progress' = [progress EXCEPT ![t] = "RUNNING"] /\ counts'.total = counts.total + 1
            \/ pc' \in {"crashed", "exited"}
        <5>1. counts \in [failed : Nat, skipped : Nat, total : Nat, made : Nat]
          BY DEF TypeOK
        <5> HIDE DEF DependencyStatus
        <5> QED
          BY <1>6, <5>1 DEF Make1bReady
      <4> QED
        BY <4>1
    <3>2. CASE progress' = progress /\ counts'.total = counts.total
      <4>1. Working' = Working
        BY <3>2 DEF Working
      <4> QED
        BY <1>3, <1>4, <2>1, <3>2, <4>1
    <3>3. CASE progress' = [progress EXCEPT ![t] = "RUNNING"] /\ counts'.total = counts.total + 1
      <4>1. t \in Working'
        BY <2>1, <3>3 DEF Working, TypeOK
      <4>2. t \notin Working
        BY <2>1 DEF Working, Runs
      <4>3. c1 = c + 1
        BY <1>3, <4>1, <4>2, WorkingMoves
      <4> QED
        BY SMTT(30), <1>3, <1>4, <2>1, <3>3, <4>3
    <3> QED
      BY <3>1, <3>2, <3>3
  <2>3. Trouble' => Trouble
    <3>1. ASSUME NEW x \in Targets, Bad(x)' PROVE \E y \in Targets : Bad(y)
      <4>1. CASE x # t
        <5>1. status'[x] = status[x]
          BY <1>6, <3>1, <4>1 DEF Make1bReady, TypeOK
        <5> QED
          BY <3>1, <5>1 DEF Bad
      <4>2. CASE x = t
        <5>1. DependencyStatus(t) = EXEC_CMD_OK /\ fate[t] < T_FATE_BROKEN => status'[t] = EXEC_CMD_OK
          <6>1. fate[t] \in Int /\ T_FATE_BROKEN \in Int
            BY <2>1, FateType DEF T_FATE_BROKEN
          <6>2. status'[t] = IF DependencyStatus(t) = EXEC_CMD_OK /\ fate[t] >= T_FATE_BROKEN
                             THEN EXEC_CMD_FAIL ELSE DependencyStatus(t)
            BY <1>6, <2>1 DEF Make1bReady, TypeOK
          <6> HIDE DEF DependencyStatus
          <6> QED
            BY <6>1, <6>2
        <5>2. ~CantFindOrMake(fate)
          BY <1>1 DEF Reasons
        <5>3. ~(fate[t] >= T_FATE_BROKEN)
          BY <2>1, <5>2 DEF Origin, FatesExplained
        <5>4. fate[t] < T_FATE_BROKEN
          BY <2>1, <5>3, FateType DEF T_FATE_BROKEN
        <5> QED
          BY <2>1, <3>1, <4>2, <5>1, <5>4, DependenciesBad DEF Bad
      <4> QED
        BY <4>1, <4>2
    <3> QED
      BY <2>1, <3>1 DEF Trouble
  <2>4. \A u \in Working : Bad(u) => u \in Working' /\ Bad(u)'
    <3>1. ~Make1cDone
      BY <2>1 DEF Make1cDone, Handler, top
    <3> QED
      BY <1>5, <3>1 DEF Working
  <2> QED
    BY <1>2, <2>2, <2>3, <2>4, FailuresStay
<1>7. CASE Make1cDone
  <2>1. /\ stack # <<>> /\ top.curstate = "MAKE1C" /\ t \in Targets
        /\ counts' = Tally(counts, t, ActionsStatus(t)) /\ progress'[t] = "DONE"
        /\ status' = [status EXCEPT ![t] = ActionsStatus(t)]
        /\ \A a \in Actions : actStatus'[a] = IF a \in ToSet(ActionsOf[t]) THEN ActionsStatus(t)
                                              ELSE actStatus[a]
    BY <1>7, StackType DEF Make1cDone, Handler, top, TypeOK
  <2> PICK st : st = ActionsStatus(t)
    OBVIOUS
  <2>2. /\ counts'.total = counts.total
        /\ counts'.made = IF progress[t] = "RUNNING" /\ st = EXEC_CMD_OK THEN counts.made + 1 ELSE counts.made
    BY <2>1 DEF Tally, TypeOK
  <2>3. status'[t] = st /\ (\A x \in Targets : x # t => status'[x] = status[x])
    BY <2>1 DEF TypeOK
  <2>4. c1 = IF progress[t] = "RUNNING" THEN c - 1 ELSE c
    <3>1. t \notin Working' /\ (t \in Working <=> progress[t] = "RUNNING") /\ ~Make1bReady
      BY <2>1 DEF Working, Make1bReady, Handler, top
    <3> QED
      BY <3>1, WorkingMoves
  <2>5. Surplus' = IF progress[t] = "RUNNING" /\ st # EXEC_CMD_OK THEN Surplus + 1 ELSE Surplus
    BY <1>3, <1>4, <2>2, <2>4
  <2>6. st # EXEC_CMD_OK => t \in Failures'
    BY <2>1, <2>3 DEF Failures, Bad
  <2>7. Trouble' => Trouble
    <3>1. st # EXEC_CMD_OK => Trouble
      <4>1. ASSUME st # EXEC_CMD_OK
            PROVE  Bad(t) \/ \E a \in Actions : actStatus[a] # EXEC_CMD_OK
        <5>1. ToSet(ActionsOf[t]) \subseteq Actions
          <6>1. ActionsOf[t] \in Seq(Actions)
            BY <2>1, Make1Assumption
          <6> QED
            BY <6>1 DEF ToSet
        <5> QED
          BY <2>1, <4>1, <5>1, ActionsGood
      <4> QED
        BY <2>1, <4>1 DEF Trouble
    <3>2. ASSUME st = EXEC_CMD_OK, Trouble' PROVE Trouble
      <4>1. CASE \E x \in Targets : Bad(x)'
        BY <2>3, <3>2, <4>1 DEF Trouble, Bad
      <4>2. CASE \E a \in Actions : actStatus'[a] # EXEC_CMD_OK
        BY <2>1, <3>2, <4>2 DEF Trouble
      <4> QED
        BY <3>2, <4>1, <4>2 DEF Trouble
    <3> QED
      BY <3>1, <3>2
  <2>8. ASSUME NEW u \in Working, Bad(u) PROVE Surplus' > 0 \/ (u \in Working' /\ Bad(u)')
    <3>1. u \in Targets /\ progress[u] = "RUNNING" /\ Bad(u)'
      BY <1>5, <2>8 DEF Working
    <3>2. CASE u = t
      <4>1. st # EXEC_CMD_OK
        BY <2>3, <3>1, <3>2 DEF Bad
      <4> QED
        BY <1>2, <1>3, <2>5, <3>1, <3>2, <4>1
    <3>3. CASE u # t
      <4>1. progress'[u] = "RUNNING"
        BY <1>7, <3>1, <3>3, <2>1 DEF Make1cDone, TypeOK
      <4> QED
        BY <3>1, <4>1 DEF Working
    <3> QED
      BY <3>2, <3>3
  <2>9. Surplus' >= 0 /\ (Surplus > 0 => Surplus' > 0) /\ (Surplus' > 0 => Failures' # {})
    BY <1>2, <1>3, <2>5, <2>6, FailuresStay
  <2> QED
    BY <1>2, <2>7, <2>8, <2>9
<1>8. CASE Make1d
  <2>1. /\ stack # <<>> /\ top.curstate = "MAKE1D" /\ t \in Targets
        /\ UNCHANGED <<progress, counts, actStatus>>
        /\ \A x \in Targets : x # t => status'[x] = status[x]
    BY <1>8, StackType DEF Make1d, Handler, top, TypeOK
  <2>2. Working' = Working
    BY <2>1 DEF Working
  <2>3. Surplus' = Surplus
    BY <1>3, <1>4, <2>1, <2>2
  <2>4. progress[t] = "RUNNING" /\ ~Bad(t)
    <3>1. Len(stack) \in Places /\ D(Len(stack)) = top
      BY <2>1, TopPlace
    <3> QED
      BY <2>1, <3>1 DEF Runs, Bad
  <2>5. t \in Working'
    BY <2>1, <2>2, <2>4 DEF Working
  <2>6. \A x \in Targets : x # t => (Bad(x)' <=> Bad(x))
    BY <2>1 DEF Bad
  <2>7. Trouble' => Trouble \/ Bad(t)'
    BY <2>1, <2>6 DEF Trouble
  <2>8. \A u \in Working : Bad(u) => u \in Working' /\ Bad(u)'
    BY <2>2, <2>4, <2>6 DEF Working
  <2> QED
    BY <1>2, <2>3, <2>5, <2>7, <2>8, FailuresStay
<1>9. CASE Make1Return
  <2>1. /\ pc = "loop" /\ AllMade /\ counts' = ZeroCounts /\ UNCHANGED <<progress, status, actStatus>>
    BY <1>9 DEF Make1Return
  <2>2. ~Trouble /\ Working = {}
    BY <1>1, <2>1, AllWell
  <2>3. ~Trouble'
    BY <2>1, <2>2 DEF Trouble, Bad
  <2>4. c1 = 0
    <3>1. Working' = {}
      BY <2>1, <2>2 DEF Working
    <3> QED
      BY <3>1, FS_EmptySet
  <2>5. Surplus' = 0
    BY <1>4, <2>1, <2>4 DEF ZeroCounts
  <2> QED
    BY <2>3, <2>5
<1>10. CASE ~(Make1bReady \/ Make1cDone \/ Make1d \/ Make1Return)
  <2>1. UNCHANGED <<counts, status, actStatus>>
    BY <1>10 DEF Next, Loop, AnyComplete, vars, Make1aSeen, Make1aStart, Make1atail, Make1bWait,
      Make1bSemaphore, Make1cLaunch, Make1cNoExec, ExecWait, ExecReturn, Complete, Interrupt, Ended
  <2>2. Working' = Working
    BY <1>10, WorkingMoves
  <2>3. Surplus' = Surplus
    BY <1>3, <1>4, <2>1, <2>2
  <2>4. (Trouble' <=> Trouble) /\ \A u \in Working : Bad(u)' <=> Bad(u)
    BY <2>1 DEF Trouble, Bad
  <2> QED
    BY <1>2, <2>2, <2>3, <2>4, FailuresStay
<1> QED
  BY <1>6, <1>7, <1>8, <1>9, <1>10

LEMMA CleanStep ==
  ASSUME TypeOK, Tallied, Clean, [Next]_vars
  PROVE  Clean'
<1> SUFFICES ASSUME pc' = "done", ~result', NEW t \in Targets PROVE ~Bad(t)'
  BY DEF Clean
<1>1. CASE pc = "done"
  <2>1. UNCHANGED <<result, status>>
    BY <1>1 DEF Next, Loop, AnyComplete, vars, exec, Make1aSeen, Make1aStart, Make1atail,
          Make1bWait, Make1bSemaphore, Make1bReady, Make1cLaunch, Make1cNoExec, Make1cDone, Make1d,
          ExecWait, ExecReturn, Make1Return, Complete, Interrupt, Ended, Handler
  <2> QED
    BY <1>1, <2>1 DEF Clean, Bad
<1>2. CASE pc # "done"
  <2>1. Make1Return
    BY <1>2 DEF Next, Loop, AnyComplete, vars, exec, Make1aSeen, Make1aStart, Make1atail,
          Make1bWait, Make1bSemaphore, Make1bReady, Make1cLaunch, Make1cNoExec, Make1cDone, Make1d,
          ExecWait, ExecReturn, Complete, Interrupt, Ended, Handler
  <2>2. pc = "loop" /\ ~result /\ AllMade /\ status' = status
    BY <2>1 DEF Make1Return
  <2> QED
    BY <2>2, AllWell DEF Trouble, Bad
<1> QED
  BY <1>1, <1>2

\* Everything known of a state, and of the counters.
Reckoned(rank) == Known(rank) /\ ResultInv

LEMMA InitReckoned ==
  ASSUME NEW rank \in [Targets -> Nat], Acyclic(rank)
  PROVE  Init => Reckoned(rank)
<1> SUFFICES ASSUME Init PROVE Reckoned(rank)
  OBVIOUS
<1>1. Known(rank)
  BY InitKnown
<1>2. /\ intr = FALSE /\ pc = "loop" /\ counts = ZeroCounts /\ result = CantFindOrMake(fate)
      /\ \A t \in Targets : progress[t] = "INIT" /\ ~Bad(t)
      /\ \A a \in Actions : actStatus[a] = EXEC_CMD_OK
      /\ \E s \in Starts : fate = s.fate
  BY DEF Init, Bad
<1>3. Working = {}
  BY <1>2 DEF Working
<1>4. IsFiniteSet(Working) /\ Surplus = 0
  <2>1. IsFiniteSet({}) /\ Cardinality({}) = 0
    BY FS_EmptySet
  <2> QED
    BY <1>2, <1>3, <2>1 DEF Surplus, ZeroCounts
<1>5. Tallied
  BY <1>2, <1>4 DEF Tallied, Trouble
<1>6. Reasons /\ Origin /\ Clean
  BY <1>2 DEF Reasons, Origin, Clean
<1> QED
  BY <1>1, <1>5, <1>6 DEF Reckoned, ResultInv

LEMMA ReckonedStep ==
  ASSUME FatesExplained, NothingFound, NEW rank \in [Targets -> Nat]
  PROVE  Reckoned(rank) /\ [Next]_vars => Reckoned(rank)'
<1> SUFFICES ASSUME Reckoned(rank), [Next]_vars PROVE Reckoned(rank)'
  OBVIOUS
<1>1. Known(rank)'
  BY KnownStep DEF Reckoned
<1>2. /\ TypeOK /\ OrderInv /\ Visiting /\ Runs /\ Tended
      /\ Reasons /\ Tallied /\ Origin /\ Clean
  BY DEF Reckoned, Known, ExactInv, ResultInv
<1>3. TypeOK'
  BY <1>1 DEF Known
<1>4. Reasons' /\ Tallied' /\ Clean'
  BY <1>2, <1>3, ReasonsStep, TalliedStep, CleanStep
<1>5. Origin'
  BY <1>2, Moves DEF Origin
<1> QED
  BY <1>1, <1>4, <1>5 DEF Reckoned, ResultInv

-----------------------------------------------------------------------------
\* What the result tells of the targets.
LEMMA ResultTells ==
  ASSUME NEW rank \in [Targets -> Nat], Reckoned(rank), pc = "done"
  PROVE  result <=> \/ CantFindOrMake(fate)
                    \/ \E t \in Targets : /\ progress[t] # "INIT"
                                          /\ \/ progress[t] # "DONE"
                                             \/ status[t] # EXEC_CMD_OK
<1>0. Known(rank) /\ Reasons /\ Clean
  BY DEF Reckoned, ResultInv
<1>1. ASSUME result
      PROVE  \/ CantFindOrMake(fate)
             \/ \E t \in Targets : progress[t] # "INIT" /\ status[t] # EXEC_CMD_OK
  BY <1>0, <1>1 DEF Reasons, Culprit, Bad
<1>2. ASSUME ~result PROVE ~CantFindOrMake(fate)
  BY <1>0, <1>2 DEF Reasons
<1>3. ASSUME ~result, NEW t \in Targets, progress[t] # "INIT"
      PROVE  progress[t] = "DONE" /\ status[t] = EXEC_CMD_OK
  <2>1. \A x \in Targets : ~Bad(x)
    BY <1>0, <1>3 DEF Clean
  <2>2. ~intr
    BY <1>0, <2>1 DEF Reasons, Culprit
  <2> QED
    BY <1>0, <1>3, <2>1, <2>2, AllFinished DEF Bad
<1> QED
  BY <1>1, <1>2, <1>3

(***************************************************************************)
(* What make() returns is right, for every acyclic graph in whose files    *)
(* headers() finds nothing new and whose broken targets make0() has        *)
(* explained: it is success exactly when nothing was found that cannot be  *)
(* found or made and every target it started on is done and all right,     *)
(* whatever actions targets share, which failures are ignored or expected, *)
(* interrupted or not.                                                     *)
(***************************************************************************)
THEOREM VerdictIsRight ==
  ASSUME FatesExplained, NothingFound, NEW rank \in [Targets -> Nat], Acyclic(rank)
  PROVE  Spec => []ResultIsRight
<1>1. Init => Reckoned(rank)
  BY InitReckoned
<1>2. Reckoned(rank) /\ [Next]_vars => Reckoned(rank)'
  BY ReckonedStep
<1>3. Reckoned(rank) => ResultIsRight
  BY ResultTells DEF ResultIsRight
<1> QED
  BY <1>1, <1>2, <1>3, PTL DEF Spec

-----------------------------------------------------------------------------
(***************************************************************************)
(* The refinement of Build.                                                *)
(***************************************************************************)

\* What Promise makes of make1()'s state.
BuildPhase == [t \in Targets |-> CASE progress[t] = "DONE"    -> "done"
                                   [] progress[t] = "RUNNING" -> "working"
                                   [] OTHER                   -> "waiting"]
BuildGood  == {t \in Targets : progress[t] = "DONE" /\ status[t] = EXEC_CMD_OK}
Verdict    == IF pc = "done" THEN IF result THEN "failure" ELSE "success"
              ELSE IF pc \in {"crashed", "exited"} THEN "gave up" ELSE "none"

PhaseTells ==
  \A t \in Targets : /\ BuildPhase[t] = "done" <=> progress[t] = "DONE"
                     /\ BuildPhase[t] = "working" <=> progress[t] = "RUNNING"
                     /\ BuildPhase[t] = "waiting" <=> progress[t] \notin {"DONE", "RUNNING"}

LEMMA PhaseOf == PhaseTells
BY DEF PhaseTells, BuildPhase

\* Where make() ends.
AtEnd ==
  pc = "done" =>
    /\ intr \/ \A t \in ToSet(Roots) : t \in Targets /\ progress[t] = "DONE"
    /\ intr \/ \A t \in Targets : progress[t] # "RUNNING"
    /\ result <=> ~ /\ ~CantFindOrMake(fate)
                    /\ \A t \in ToSet(Roots) : t \in Targets /\ progress[t] = "DONE"
                    /\ \A t \in Targets : progress[t] = "DONE" => status[t] = EXEC_CMD_OK
                    /\ \A t \in Targets : progress[t] # "RUNNING"

LEMMA EndReached ==
  ASSUME NEW rank \in [Targets -> Nat]
  PROVE  Reckoned(rank) => AtEnd
<1> SUFFICES ASSUME Reckoned(rank), pc = "done"
             PROVE  /\ intr \/ \A t \in ToSet(Roots) : t \in Targets /\ progress[t] = "DONE"
                    /\ intr \/ \A t \in Targets : progress[t] # "RUNNING"
                    /\ result <=> ~ /\ ~CantFindOrMake(fate)
                                    /\ \A t \in ToSet(Roots) : t \in Targets /\ progress[t] = "DONE"
                                    /\ \A t \in Targets : progress[t] = "DONE" => status[t] = EXEC_CMD_OK
                                    /\ \A t \in Targets : progress[t] # "RUNNING"
  BY DEF AtEnd
<1>0. Known(rank) /\ Reasons /\ Clean
  BY DEF Reckoned, ResultInv
<1>1. ASSUME ~intr, NEW t \in Targets PROVE progress[t] \in {"INIT", "DONE"}
  BY <1>0, <1>1, AllFinished
<1>2. ASSUME ~intr, NEW t \in ToSet(Roots) PROVE t \in Targets /\ progress[t] = "DONE"
  <2>1. PICK i \in 1..Len(Roots) : t = Roots[i]
    BY Make1Assumption DEF ToSet
  <2>2. t \in Targets
    BY <2>1, Make1Assumption
  <2>3. stack = <<>> /\ root = Len(Roots)
    BY <1>0 DEF Known, ExactInv, Over
  <2>4. Places = {}
    BY <2>3 DEF Places
  <2>5. progress[t] # "INIT"
    BY <1>0, <1>2, <2>1, <2>3, <2>4 DEF Known, ExactInv, Entered
  <2> QED
    BY <1>1, <1>2, <2>2, <2>5
<1>3. ASSUME result
      PROVE  \/ CantFindOrMake(fate)
             \/ \E t \in Targets : progress[t] = "RUNNING" \/ (progress[t] = "DONE" /\ status[t] # EXEC_CMD_OK)
  BY <1>0, <1>3 DEF Reasons, Culprit, Bad
<1>4. ASSUME ~result PROVE ~CantFindOrMake(fate) /\ ~intr /\ \A t \in Targets : status[t] = EXEC_CMD_OK
  BY <1>0, <1>4 DEF Reasons, Culprit, Clean, Bad
<1> QED
  BY <1>1, <1>2, <1>3, <1>4

\* Promise's own copies of the operators on sequences.
LEMMA SameOperators ==
  /\ \A q : Promise!ToSet(q) = ToSet(q)
  /\ \A p, q : Promise!IsPrefix(p, q) <=> IsPrefix(p, q)
BY DEF Promise!ToSet, ToSet, Promise!IsPrefix, IsPrefix

\* What does not show.
LEMMA Unseen ==
  ASSUME TypeOK, TypeOK', Verdict' = Verdict, UNCHANGED <<depends, semaphore, fate, intr>>,
         \A t \in Targets : /\ progress'[t] = "DONE" <=> progress[t] = "DONE"
                            /\ progress'[t] = "RUNNING" <=> progress[t] = "RUNNING"
                            /\ progress[t] = "DONE" => status'[t] = status[t]
  PROVE  UNCHANGED Promise!vars
<1>1. BuildPhase' = BuildPhase
  BY DEF BuildPhase
<1>2. BuildGood' = BuildGood
  BY DEF BuildGood
<1>3. CantFindOrMake(fate)' = CantFindOrMake(fate)
  OBVIOUS
<1> QED
  BY <1>1, <1>2, <1>3 DEF Promise!vars, Promise!found, BuildPhase, BuildGood, Verdict

LEMMA PromiseInit ==
  ASSUME Init
  PROVE  Promise!Init
<1>1. TypeOK
  BY InitType
<1>2. depends \in [Targets -> Seq(Targets)] /\ DOMAIN semaphore = Targets
  BY <1>1 DEF TypeOK
<1>3. pc = "loop" /\ intr = FALSE /\ \A t \in Targets : progress[t] = "INIT"
  BY DEF Init
<1>4. BuildPhase = [t \in Targets |-> "waiting"]
  BY <1>3 DEF BuildPhase
<1>5. BuildGood = {}
  BY <1>3 DEF BuildGood
<1>6. CantFindOrMake(fate) \in BOOLEAN
  BY DEF CantFindOrMake
<1>7. Verdict = "none"
  BY <1>3 DEF Verdict
<1> QED
  BY <1>2, <1>3, <1>4, <1>5, <1>6, <1>7 DEF Promise!Init, BuildPhase, BuildGood, Verdict

\* make1a() shows what a target includes.
LEMMA StartDiscovers ==
  ASSUME NothingFound, TypeOK, TypeOK', Make1aStart
  PROVE  Promise!Next
<1> PICK t : t = top.t
  OBVIOUS
<1>0. Next
  BY DEF Next, Loop
<1>1. /\ pc = "loop" /\ t \in Targets /\ progress[t] = "INIT"
      /\ progress' = [progress EXCEPT ![t] = "ONSTACK"]
      /\ UNCHANGED <<pc, status, semaphore, fate, intr, result>>
  BY StackType DEF Make1aStart, Handler, Seen, given, TypeOK
<1>2. BuildPhase' = BuildPhase
  BY <1>1 DEF BuildPhase, TypeOK
<1>3. BuildGood' = BuildGood
  BY <1>1 DEF BuildGood, TypeOK
<1>4. Verdict = "none" /\ Verdict' = "none"
  BY <1>1 DEF Verdict
<1>5. ASSUME NEW x \in Targets
      PROVE  IF BuildPhase[x] = "waiting" /\ BuildPhase'[x] = "waiting"
             THEN IsPrefix(depends[x], depends'[x]) ELSE depends'[x] = depends[x]
  <2>1. IsPrefix(depends[x], depends'[x]) /\ (depends'[x] # depends[x] => x = t)
    BY <1>0, DependsGrow
  <2>2. BuildPhase[t] = "waiting"
    BY <1>1, PhaseOf DEF PhaseTells
  <2> QED
    BY <1>2, <2>1, <2>2
<1>6. Promise!Learn
  BY <1>5, SameOperators DEF Promise!Learn, BuildPhase
<1>7. CantFindOrMake(fate)' = CantFindOrMake(fate)
  BY <1>1
<1>8. Promise!Discover
  BY <1>1, <1>2, <1>3, <1>4, <1>6, <1>7 DEF Promise!Discover, Promise!found, BuildPhase, BuildGood, Verdict
<1> QED
  BY <1>4, <1>8 DEF Promise!Next, Verdict

\* make1b() hands a target to make1c() to be worked on, or finds that nothing
\* is to be done, or gives up.
LEMMA ReadyBegins ==
  ASSUME NothingFound, TypeOK, TypeOK', OrderInv, Runs, Held, Make1bReady
  PROVE  Promise!Next \/ UNCHANGED Promise!vars
<1> PICK t : t = top.t
  OBVIOUS
<1>1. /\ stack # <<>> /\ pc = "loop" /\ top.curstate = "MAKE1B" /\ asynccnt[t] = 1 /\ ~SemBusy(t)
      /\ UNCHANGED <<depends, semaphore, fate, intr, result>>
  BY DEF Make1bReady, Handler, top, given, graph
<1>2. Len(stack) \in Places /\ D(Len(stack)) = top /\ t \in Targets
  BY <1>1, TopPlace
<1>3. progress[t] \notin {"INIT", "DONE", "RUNNING"}
  BY <1>1, <1>2, Caller DEF Calling, Runs
<1>4. \A x \in Targets : x # t => status'[x] = status[x]
  BY <1>1 DEF Make1bReady, TypeOK
<1>5. \/ progress' = progress /\ pc' = pc
      \/ progress' = progress /\ pc' \in {"crashed", "exited"}
      \/ /\ progress' = [progress EXCEPT ![t] = "RUNNING"] /\ DependencyStatus(t) = EXEC_CMD_OK
         /\ pc' = pc \/ pc' = "crashed"
         /\ fate[t] >= T_FATE_BUILD
  <2> HIDE DEF DependencyStatus
  <2> QED
    BY <1>1, <1>2 DEF Make1bReady, TypeOK
<1>6. CantFindOrMake(fate)' = CantFindOrMake(fate)
  BY <1>1
<1>7. BuildGood' = BuildGood
  <2>1. \A x \in Targets : /\ progress'[x] = "DONE" <=> progress[x] = "DONE"
                           /\ progress[x] = "DONE" => status'[x] = status[x]
    BY <1>2, <1>3, <1>4, <1>5 DEF TypeOK
  <2> QED
    BY <2>1 DEF BuildGood
<1>8. CASE progress' = progress /\ pc' = pc
  <2>1. Verdict' = Verdict
    BY <1>1, <1>8 DEF Verdict
  <2>2. \A x \in Targets : progress[x] = "DONE" => status'[x] = status[x]
    BY <1>3, <1>4
  <2> QED
    BY <1>1, <1>8, <2>1, <2>2, Unseen
<1>9. CASE progress' = progress /\ pc' \in {"crashed", "exited"}
  <2>1. Verdict = "none" /\ Verdict' = "gave up"
    BY <1>1, <1>9 DEF Verdict
  <2>2. BuildPhase' = BuildPhase
    BY <1>9 DEF BuildPhase
  <2>3. Promise!GiveUp
    BY <1>1, <1>6, <1>7, <2>1, <2>2 DEF Promise!GiveUp, Promise!found, BuildPhase, BuildGood, Verdict
  <2> QED
    BY <2>1, <2>3 DEF Promise!Next, Verdict
<1>10. CASE progress' = [progress EXCEPT ![t] = "RUNNING"] /\ progress' # progress
  <2>0. DependencyStatus(t) = EXEC_CMD_OK /\ fate[t] >= T_FATE_BUILD
    BY <1>5, <1>10
  <2>1. pc' = pc
    <3>1. ASSUME pc' = "crashed" PROVE fate[t] < T_FATE_STABLE
      BY <1>1, <3>1 DEF Make1bReady
    <3>2. fate[t] \in Int
      BY <1>2, FateType
    <3> QED
      BY <1>5, <1>10, <2>0, <3>1, <3>2 DEF T_FATE_STABLE, T_FATE_BUILD
  <2>2. Verdict = "none" /\ Verdict' = "none"
    BY <1>1, <2>1 DEF Verdict
  <2>3. BuildPhase[t] = "waiting" /\ BuildPhase' = [BuildPhase EXCEPT ![t] = "working"]
    BY <1>2, <1>3, <1>10 DEF BuildPhase, TypeOK
  <2>4. Promise!Ready(t)
    <3>1. \A d \in ToSet(depends[t]) : d \in Targets /\ progress[d] = "DONE"
      BY <1>1, <1>2, LastCall DEF Calling
    <3>2. \A d \in ToSet(depends[t]) : BuildPhase[d] = "done"
      BY <3>1, PhaseOf DEF PhaseTells
    <3> QED
      BY <3>2, SameOperators DEF Promise!Ready, BuildPhase
  <2>5. Promise!AllGood(t)
    <3>1. \A d \in ToSet(depends[t]) : d \in Targets /\ progress[d] = "DONE"
      BY <1>1, <1>2, LastCall DEF Calling
    <3>2. Sound(t)
      BY <1>2, <2>0, GoodStatus
    <3>3. ToSet(depends[t]) \subseteq BuildGood \cup NoCare
      BY <3>1, <3>2 DEF Sound, BuildGood
    <3> QED
      BY <3>3, SameOperators DEF Promise!AllGood, BuildGood
  <2>6. ~Promise!Excluded(t)
    <3>1. ASSUME NEW u \in Targets, progress[u] = "RUNNING", semaphore[t] # NoSem, semaphore[u] = semaphore[t]
          PROVE  FALSE
      <4>1. Begun(u)
        BY <3>1 DEF Runs, Begun
      <4>2. semcnt[semaphore[u]] # 0
        BY <1>1, <3>1, <4>1 DEF Held
      <4> QED
        BY <1>1, <3>1, <4>2 DEF SemBusy
    <3>2. semaphore[t] # NoSem => \A u \in Targets : ~(BuildPhase[u] = "working" /\ semaphore[u] = semaphore[t])
      BY <3>1, PhaseOf DEF PhaseTells
    <3> QED
      BY <3>2 DEF Promise!Excluded, BuildPhase
  <2>7. Promise!Begin(t)
    BY <1>1, <1>6, <1>7, <2>2, <2>3, <2>4, <2>5, <2>6
       DEF Promise!Begin, Promise!found, BuildPhase, BuildGood, Verdict
  <2> QED
    BY <1>2, <2>2, <2>7 DEF Promise!Next, Verdict
<1> QED
  BY <1>5, <1>8, <1>9, <1>10

\* make1c() is through with a target, whether it was worked on or not.
LEMMA DoneFinishes ==
  ASSUME NothingFound, TypeOK, TypeOK', OrderInv, Make1cDone
  PROVE  Promise!Next
<1> PICK t : t = top.t
  OBVIOUS
<1> PICK st : st = ActionsStatus(t)
  OBVIOUS
<1>0. [Next]_vars
  BY DEF Next, Loop
<1>1. /\ stack # <<>> /\ pc = "loop" /\ top.curstate = "MAKE1C"
      /\ UNCHANGED <<semaphore, intr, result>>
      /\ status' = [status EXCEPT ![t] = st]
      /\ progress' = [progress EXCEPT ![t] = "DONE"]
  BY DEF Make1cDone, Handler, top, given
<1>2. Len(stack) \in Places /\ D(Len(stack)) = top /\ t \in Targets
  BY <1>1, TopPlace
<1>3. pc' = pc
  BY <1>2 DEF Make1cDone, NothingFound
<1>4. depends' = depends /\ fate' = fate
  <2>1. fate' = fate
    BY <1>0, Moves
  <2>2. depends' = depends
    BY <1>2 DEF Make1cDone, NothingFound, Rescan
  <2> QED
    BY <2>1, <2>2
<1>5. Begun(t) /\ (status[t] = EXEC_CMD_OK => Sound(t))
  BY <1>1, <1>2 DEF OrderInv, Alone, Fine, Holding
<1>6. progress[t] # "DONE" /\ \A d \in ToSet(depends[t]) : d \in Targets /\ progress[d] = "DONE"
  BY <1>2, <1>5, DepsType DEF OrderInv, Past, Begun
<1>7. BuildPhase[t] \in {"waiting", "working"} /\ BuildPhase' = [BuildPhase EXCEPT ![t] = "done"]
  BY <1>1, <1>2, <1>6 DEF BuildPhase, TypeOK
<1>8. BuildGood' = IF st = EXEC_CMD_OK THEN BuildGood \cup {t} ELSE BuildGood
  <2>1. \A x \in Targets : x # t => progress'[x] = progress[x] /\ status'[x] = status[x]
    BY <1>1 DEF TypeOK
  <2>2. progress'[t] = "DONE" /\ status'[t] = st
    BY <1>1, <1>2 DEF TypeOK
  <2>3. t \notin BuildGood
    BY <1>6 DEF BuildGood
  <2> QED
    BY <1>2, <2>1, <2>2, <2>3 DEF BuildGood
<1>9. Verdict = "none" /\ Verdict' = "none"
  BY <1>1, <1>3 DEF Verdict
<1>10. CantFindOrMake(fate)' = CantFindOrMake(fate)
  BY <1>4
<1>11. Promise!Learn
  <2>1. ASSUME NEW x \in Targets PROVE IsPrefix(depends[x], depends'[x]) /\ depends'[x] = depends[x]
    BY <1>0, <1>4, DependsGrow
  <2> QED
    BY <2>1, SameOperators DEF Promise!Learn, BuildPhase
<1>12. CASE BuildPhase[t] = "working"
  <2>1. BuildGood' \in {BuildGood, BuildGood \cup {t}}
    BY <1>8
  <2>2. Promise!Finish(t)
    BY <1>1, <1>7, <1>9, <1>10, <1>11, <1>12, <2>1
       DEF Promise!Finish, Promise!found, BuildPhase, BuildGood, Verdict
  <2> QED
    BY <1>2, <1>9, <2>2 DEF Promise!Next, Verdict
<1>13. CASE BuildPhase[t] = "waiting"
  <2>1. Promise!Ready(t)
    <3>1. \A d \in ToSet(depends[t]) : BuildPhase[d] = "done"
      BY <1>6, PhaseOf DEF PhaseTells
    <3> QED
      BY <3>1, SameOperators DEF Promise!Ready, BuildPhase
  <2>2. st = EXEC_CMD_OK => Promise!AllGood(t)
    <3>1. ASSUME st = EXEC_CMD_OK PROVE ToSet(depends[t]) \subseteq BuildGood \cup NoCare
      <4>1. Sound(t)
        BY <1>2, <1>5, <3>1, ActionsGood DEF Bad
      <4> QED
        BY <1>6, <4>1 DEF Sound, BuildGood
    <3> QED
      BY <3>1, SameOperators DEF Promise!AllGood, BuildGood
  <2>3. BuildGood' \in {BuildGood} \cup (IF Promise!AllGood(t) THEN {BuildGood \cup {t}} ELSE {})
    BY <1>8, <2>2
  <2>4. Promise!Pass(t)
    BY <1>1, <1>7, <1>9, <1>10, <1>11, <1>13, <2>1, <2>3
       DEF Promise!Pass, Promise!found, BuildPhase, BuildGood, Verdict
  <2> QED
    BY <1>2, <1>9, <2>4 DEF Promise!Next, Verdict
<1> QED
  BY <1>7, <1>12, <1>13

\* make1d() may see the build stopped.
LEMMA CommandStops ==
  ASSUME TypeOK, TypeOK', Runs, Make1d
  PROVE  Promise!Next \/ UNCHANGED Promise!vars
<1> PICK t : t = top.t
  OBVIOUS
<1>1. /\ stack # <<>> /\ pc = "loop" /\ top.curstate = "MAKE1D" /\ (intr => intr')
      /\ UNCHANGED <<pc, progress, depends, semaphore, fate, result>>
  BY DEF Make1d, Handler, top, graph, given
<1>2. Len(stack) \in Places /\ D(Len(stack)) = top /\ t \in Targets
  BY <1>1, TopPlace
<1>3. progress[t] = "RUNNING" /\ \A x \in Targets : x # t => status'[x] = status[x]
  <2>1. \A x \in Targets : x # t => status'[x] = status[x]
    BY <1>1 DEF Make1d, TypeOK
  <2> QED
    BY <1>1, <1>2, <2>1 DEF Runs
<1>4. Verdict = "none" /\ Verdict' = "none"
  BY <1>1 DEF Verdict
<1>5. CASE intr' = intr
  <2>1. \A x \in Targets : progress[x] = "DONE" => status'[x] = status[x]
    BY <1>3
  <2> QED
    BY <1>1, <1>4, <1>5, <2>1, Unseen
<1>6. CASE intr' # intr
  <2>1. intr' = TRUE
    BY <1>1, <1>6 DEF TypeOK
  <2>2. BuildPhase' = BuildPhase
    BY <1>1 DEF BuildPhase
  <2>3. BuildGood' = BuildGood
    BY <1>1, <1>3 DEF BuildGood
  <2>4. CantFindOrMake(fate)' = CantFindOrMake(fate)
    BY <1>1
  <2>5. BuildPhase[t] = "working"
    BY <1>2, <1>3, PhaseOf DEF PhaseTells
  <2>6. Promise!Stop
    BY <1>1, <1>2, <1>4, <2>1, <2>2, <2>3, <2>4, <2>5
       DEF Promise!Stop, Promise!found, BuildPhase, BuildGood, Verdict
  <2> QED
    BY <1>4, <2>6 DEF Promise!Next, Verdict
<1> QED
  BY <1>5, <1>6

\* make() returns.
LEMMA ReturnEnds ==
  ASSUME TypeOK, TypeOK', AtEnd', Make1Return
  PROVE  Promise!Next \/ UNCHANGED Promise!vars
<1>1. pc = "loop" /\ UNCHANGED <<progress, status, depends, semaphore, fate, intr>>
  BY DEF Make1Return, graph, given
<1>2. CASE pc' = "loop"
  <2>1. Verdict' = Verdict
    BY <1>1, <1>2 DEF Verdict
  <2> QED
    BY <1>1, <2>1, Unseen
<1>3. CASE pc' # "loop"
  <2>1. pc' = "done"
    BY <1>1, <1>3 DEF Make1Return
  <2>2. Verdict = "none" /\ Verdict' = IF result' THEN "failure" ELSE "success"
    BY <1>1, <2>1 DEF Verdict
  <2>3. /\ intr \/ \A t \in ToSet(Roots) : t \in Targets /\ progress[t] = "DONE"
        /\ intr \/ \A t \in Targets : progress[t] # "RUNNING"
        /\ result' <=> ~ /\ ~CantFindOrMake(fate)
                         /\ \A t \in ToSet(Roots) : t \in Targets /\ progress[t] = "DONE"
                         /\ \A t \in Targets : progress[t] = "DONE" => status[t] = EXEC_CMD_OK
                         /\ \A t \in Targets : progress[t] # "RUNNING"
    BY <1>1, <2>1 DEF AtEnd
  <2>4. ToSet(Roots) \subseteq Promise!DoneSet <=>
          \A t \in ToSet(Roots) : t \in Targets /\ progress[t] = "DONE"
    BY PhaseOf DEF PhaseTells, Promise!DoneSet, BuildPhase
  <2>5. Promise!DoneSet = BuildGood <=> \A t \in Targets : progress[t] = "DONE" => status[t] = EXEC_CMD_OK
    BY PhaseOf DEF PhaseTells, Promise!DoneSet, BuildPhase, BuildGood
  <2>6. (\A t \in Targets : BuildPhase[t] # "working") <=> (\A t \in Targets : progress[t] # "RUNNING")
    BY PhaseOf DEF PhaseTells
  <2>7. UNCHANGED <<BuildPhase, BuildGood>> /\ CantFindOrMake(fate)' = CantFindOrMake(fate)
    BY <1>1 DEF BuildPhase, BuildGood
  <2>8. Verdict' = IF /\ ~CantFindOrMake(fate)
                      /\ ToSet(Roots) \subseteq Promise!DoneSet /\ Promise!DoneSet = BuildGood
                      /\ \A t \in Targets : BuildPhase[t] # "working"
                   THEN "success" ELSE "failure"
    BY <2>2, <2>3, <2>4, <2>5, <2>6
  <2>9. /\ intr \/ ToSet(Roots) \subseteq Promise!DoneSet
        /\ intr \/ \A t \in Targets : BuildPhase[t] # "working"
    BY <2>3, <2>4, <2>6
  <2>10. Promise!End
    <3> HIDE DEF Promise!DoneSet
    <3> QED
      BY <1>1, <2>7, <2>8, <2>9 DEF Promise!End, Promise!found, BuildPhase, BuildGood, Verdict
  <2> QED
    BY <2>2, <2>10 DEF Promise!Next, Verdict
<1> QED
  BY <1>2, <1>3

LEMMA PromiseStep ==
  ASSUME NothingFound, NEW rank \in [Targets -> Nat], Reckoned(rank), TypeOK', AtEnd', [Next]_vars
  PROVE  Promise!Next \/ UNCHANGED Promise!vars
<1>0. TypeOK /\ OrderInv /\ Visiting /\ Runs /\ Held
  BY DEF Reckoned, Known, ExactInv
<1>1. CASE Make1aStart
  BY <1>0, <1>1, StartDiscovers
<1>2. CASE Make1bReady
  BY <1>0, <1>2, ReadyBegins
<1>3. CASE Make1cDone
  BY <1>0, <1>3, DoneFinishes
<1>4. CASE Make1d
  BY <1>0, <1>4, CommandStops
<1>5. CASE Make1Return
  BY <1>0, <1>5, ReturnEnds
<1>6. CASE Make1atail
  <2>1. /\ stack # <<>> /\ top.curstate = "MAKE1ATAIL"
        /\ UNCHANGED <<pc, result, depends, semaphore, fate, intr, status>>
        /\ progress' = [progress EXCEPT ![top.t] = "ACTIVE"]
    BY <1>6 DEF Make1atail, Handler, top, graph, given
  <2>2. Len(stack) \in Places /\ D(Len(stack)) = top /\ top.t \in Targets
    BY <1>0, <2>1, TopPlace
  <2>3. progress[top.t] = "ONSTACK"
    BY <1>0, <2>1, <2>2 DEF Visiting
  <2>4. \A t \in Targets : /\ progress'[t] = "DONE" <=> progress[t] = "DONE"
                           /\ progress'[t] = "RUNNING" <=> progress[t] = "RUNNING"
    BY <1>0, <2>1, <2>2, <2>3 DEF TypeOK
  <2>5. Verdict' = Verdict
    BY <2>1 DEF Verdict
  <2> QED
    BY <1>0, <2>1, <2>4, <2>5, Unseen
<1>7. CASE \/ Make1aSeen \/ Make1bWait \/ Make1bSemaphore \/ Make1cLaunch \/ Make1cNoExec
           \/ ExecWait \/ ExecReturn \/ AnyComplete \/ Interrupt \/ Ended \/ UNCHANGED vars
  <2>1. UNCHANGED <<progress, status, depends, semaphore, fate, intr, result>>
    BY <1>7 DEF Make1aSeen, Make1bWait, Make1bSemaphore, Make1cLaunch, Make1cNoExec,
        ExecWait, ExecReturn, AnyComplete, Complete, Interrupt, Ended, vars, graph, given
  <2>2. pc' = pc \/ (pc \in {"loop", "exec_wait"} /\ pc' \in {"loop", "exec_wait"})
    BY <1>7 DEF Make1aSeen, Make1bWait, Make1bSemaphore, Make1cLaunch, Make1cNoExec, Handler,
        ExecWait, ExecReturn, AnyComplete, Complete, Interrupt, Ended, vars
  <2>3. Verdict' = Verdict
    BY <2>1, <2>2 DEF Verdict
  <2> QED
    BY <1>0, <2>1, <2>3, Unseen
<1> QED
  BY <1>1, <1>2, <1>3, <1>4, <1>5, <1>6, <1>7 DEF Next, Loop

(***************************************************************************)
(* make1() implements Build, under the same conditions: whatever the graph *)
(* and the order of completions, a target is worked on when all it depends *)
(* on is done and good and nobody with its semaphore is at work, is done   *)
(* once, and what is done and good stays so; and the verdict is the right  *)
(* one.                                                                    *)
(***************************************************************************)
THEOREM SchedulerImplements ==
  ASSUME FatesExplained, NothingFound, NEW rank \in [Targets -> Nat], Acyclic(rank)
  PROVE  Spec => ImplementsBuild
<1>1. Init => Reckoned(rank) /\ Promise!Init
  BY InitReckoned, PromiseInit
<1>2. Reckoned(rank) /\ [Next]_vars => Reckoned(rank)'
  BY ReckonedStep
<1>3. Reckoned(rank) => TypeOK /\ AtEnd
  BY EndReached DEF Reckoned, Known
<1>4. Reckoned(rank) /\ TypeOK' /\ AtEnd' /\ [Next]_vars => [Promise!Next]_(Promise!vars)
  BY PromiseStep
<1> QED
  BY <1>1, <1>2, <1>3, <1>4, PTL DEF Spec, ImplementsBuild, Promise!Spec
=============================================================================
