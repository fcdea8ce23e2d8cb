---------------------------- MODULE Make1_proofs ----------------------------
(***************************************************************************)
(* Theorems about make1(), for every dependency graph, any number of       *)
(* commands at a time and every order in which they complete: its types,   *)
(* interrupts, semaphores and the limit -j; and that it builds in order,   *)
(* for acyclic graphs that do not grow while they are built.               *)
(***************************************************************************)
EXTENDS Make1, Induction, FiniteSetTheorems, SequenceTheorems

-----------------------------------------------------------------------------
\* The worst of some statuses is one of them.
LEMMA MaxOfStatuses ==
  ASSUME NEW S, S \subseteq Statuses, S # {}
  PROVE  Max(S) \in S /\ Max(S) \in Statuses /\ \A s \in S : Max(S) >= s
<1>1. \E x \in S : \A y \in S : x >= y
  <2>0. S \subseteq {0, 1, 2}
    BY DEF Statuses, EXEC_CMD_OK, EXEC_CMD_FAIL, EXEC_CMD_INTR
  <2>1. CASE 2 \in S
    BY <2>0, <2>1
  <2>2. CASE 2 \notin S /\ 1 \in S
    BY <2>0, <2>2
  <2>3. CASE 2 \notin S /\ 1 \notin S
    <3>1. \A y \in S : y = 0
      BY <2>0, <2>3
    <3> QED
      BY <3>1
  <2> QED
    BY <2>1, <2>2, <2>3
<1>2. Max(S) \in S /\ \A s \in S : Max(S) >= s
  BY <1>1 DEF Max
<1> QED
  BY <1>2

\* The includes nodes of deps are among I.
IncludesIn(deps, I) ==
  \A i \in 1..Len(deps) : includes[deps[i]] # NoTarget => includes[deps[i]] \in I

\* What make1a() adds to a target's dependencies are includes of those.
LEMMA NewIncludesOf ==
  ASSUME NEW deps \in Seq(Targets), NEW I, IncludesIn(deps, I)
  PROVE  NewIncludes(deps) \in Seq(I)
<1> DEFINE n == Len(deps)
           Step(g, i) == IF i = 0 THEN <<>>
                         ELSE IF rescanned[deps[i]] /\ includes[deps[i]] # NoTarget
                              THEN Append(g[i - 1], includes[deps[i]]) ELSE g[i - 1]
           Upto(k, g) == g = [i \in 0..k |-> Step(g, i)]
           found == CHOOSE g : Upto(n, g)
<1>1. n \in Nat /\ \A i \in 1..n : deps[i] \in Targets
  OBVIOUS
<1>2. \E g : Upto(n, g)
  <2> DEFINE S == {k \in Nat : k <= n => \E g : Upto(k, g)}
  <2>1. 0 \in S
    <3>1. Upto(0, [i \in 0..0 |-> <<>>])
      OBVIOUS
    <3> QED
      BY <3>1
  <2>2. ASSUME NEW k \in Nat, k \in S PROVE k + 1 \in S
    <3>1. SUFFICES ASSUME k + 1 <= n PROVE \E g : Upto(k + 1, g)
      <4> HIDE DEF Upto
      <4> QED
        OBVIOUS
    <3>2. PICK g : Upto(k, g)
      BY <2>2, <3>1
    <3> DEFINE h == [i \in 0..(k + 1) |-> IF i = k + 1 THEN Step(g, k + 1) ELSE g[i]]
    <3>3. ASSUME NEW i \in 0..(k + 1) PROVE h[i] = Step(h, i)
      <4>1. CASE i = k + 1
        BY <4>1
      <4>2. CASE i # k + 1
        <5>1. i \in 0..k /\ (i # 0 => h[i - 1] = g[i - 1])
          BY <4>2
        <5>2. g[i] = Step(g, i)
          BY <3>2, <5>1
        <5> QED
          BY <4>2, <5>1, <5>2
      <4> QED
        BY <4>1, <4>2
    <3>4. h = [i \in 0..(k + 1) |-> h[i]]
      OBVIOUS
    <3> HIDE DEF h, Step
    <3>5. h = [i \in 0..(k + 1) |-> Step(h, i)]
      BY <3>3, <3>4
    <3> QED
      BY <3>5
  <2> HIDE DEF S
  <2>3. \A k \in Nat : k \in S
    BY <2>1, <2>2, SetInduction
  <2>4. n \in S
    BY <1>1, <2>3
  <2> HIDE DEF Upto, n
  <2> QED
    BY <1>1, <2>4 DEF S
<1>4. found = [i \in 0..n |-> Step(found, i)]
  <2> HIDE DEF Step
  <2> QED
    BY <1>2
<1>5. NewIncludes(deps) = found[n]
  BY DEF NewIncludes
<1> HIDE DEF found
<1> DEFINE S == {i \in Nat : i <= n => found[i] \in Seq(I)}
<1>6. 0 \in S
  BY <1>1, <1>4
<1>7. ASSUME NEW i \in Nat, i \in S PROVE i + 1 \in S
  <2>1. SUFFICES ASSUME i + 1 <= n PROVE found[i + 1] \in Seq(I)
    OBVIOUS
  <2>2. /\ i + 1 \in 0..n /\ i + 1 \in 1..n
        /\ i + 1 # 0 /\ (i + 1) - 1 = i /\ i <= n
    BY <1>1, <2>1
  <2>3. found[i] \in Seq(I)
    BY <1>7, <2>2
  <2>4. found[i + 1] = Step(found, i + 1)
    BY <1>4, <2>2
  <2>5. deps[i + 1] \in Targets
    BY <1>1, <2>2
  <2>6. CASE rescanned[deps[i + 1]] /\ includes[deps[i + 1]] # NoTarget
    <3>1. includes[deps[i + 1]] \in I
      BY <2>2, <2>6 DEF IncludesIn
    <3>2. found[i + 1] = Append(found[i], includes[deps[i + 1]])
      BY <2>2, <2>4, <2>6
    <3> QED
      BY <2>3, <3>1, <3>2
  <2>7. CASE ~(rescanned[deps[i + 1]] /\ includes[deps[i + 1]] # NoTarget)
    BY <2>2, <2>3, <2>4, <2>7
  <2> QED
    BY <2>6, <2>7
<1> HIDE DEF S
<1>8. \A i \in Nat : i \in S
  BY <1>6, <1>7, SetInduction
<1> QED
  BY <1>1, <1>5, <1>8 DEF S

\* They are targets.
LEMMA NewIncludesType ==
  ASSUME TypeOK, NEW deps \in Seq(Targets)
  PROVE  NewIncludes(deps) \in Seq(Targets)
<1>1. IncludesIn(deps, Targets)
  <2>1. \A i \in 1..Len(deps) : deps[i] \in Targets
    OBVIOUS
  <2>2. includes \in [Targets -> Targets \cup {NoTarget}]
    BY DEF TypeOK
  <2> QED
    BY <2>1, <2>2 DEF IncludesIn
<1> QED
  BY <1>1, NewIncludesOf

-----------------------------------------------------------------------------
(***************************************************************************)
(* Type correctness.                                                       *)
(***************************************************************************)

\* The state on top, and what remains of the stack below it.
LEMMA StackType ==
  ASSUME TypeOK, stack # <<>>
  PROVE  /\ top \in States /\ top.t \in Targets /\ top.parent \in Targets \cup {NoTarget}
         /\ top.status \in Statuses \cup {Unset}
         /\ top.curstate = "MAKE1D" => top.status \in Statuses
         /\ Tail(stack) \in Seq(States)
         /\ Popped \in Seq(States)
<1>1. stack \in Seq(States)
  BY DEF TypeOK
<1>2. top \in States /\ Tail(stack) \in Seq(States)
  BY <1>1 DEF top
<1>3. Rest(Tail(stack)) \in Seq(States)
  BY <1>2 DEF Rest
<1> QED
  BY <1>2, <1>3 DEF Popped, States

\* What a handler leaves when it sets its state's next handler.
LEMMA ContinueType ==
  ASSUME TypeOK, stack # <<>>, NEW c \in Handlers
  PROVE  Continue(c) \in Seq(States)
<1>1. [top EXCEPT !.curstate = c, !.status = StatusFor(c)] \in States
  BY StackType DEF States, Statuses, StatusFor
<1> HIDE DEF States
<1>2. <<[top EXCEPT !.curstate = c, !.status = StatusFor(c)]>> \in Seq(States)
  BY <1>1
<1> QED
  BY <1>2, StackType DEF Continue

\* A freshly pushed state.
LEMMA StateType ==
  ASSUME NEW t \in Targets, NEW p \in Targets \cup {NoTarget}, NEW c \in Handlers \ {"MAKE1D"}
  PROVE  State(t, p, c) \in States
BY DEF State, States, Statuses

\* States pushed for the members of a sequence.
LEMMA PushedType ==
  ASSUME NEW q \in Seq(Targets), NEW p \in Targets \cup {NoTarget}, NEW c \in Handlers \ {"MAKE1D"}
  PROVE  /\ [i \in DOMAIN q |-> State(q[i], p, c)] \in Seq(States)
         /\ p # NoTarget => [i \in DOMAIN q |-> State(p, q[i], c)] \in Seq(States)
<1>1. \A i \in 1..Len(q) : State(q[i], p, c) \in States
  BY StateType
<1>2. p # NoTarget => \A i \in 1..Len(q) : State(p, q[i], c) \in States
  BY StateType
<1>3. DOMAIN q = 1..Len(q) /\ Len(q) \in Nat
  OBVIOUS
<1> QED
  BY <1>1, <1>2, <1>3

\* The number of a parent's occurrences in a chain.
LEMMA OccurrencesType ==
  ASSUME NEW T, NEW q \in Seq(T), NEW x
  PROVE  /\ IsFiniteSet({i \in DOMAIN q : q[i] = x})
         /\ Cardinality({i \in DOMAIN q : q[i] = x}) \in Nat
<1>1. IsFiniteSet(1..Len(q))
  BY FS_Interval
<1>2. {i \in DOMAIN q : q[i] = x} \subseteq 1..Len(q)
  OBVIOUS
<1>3. IsFiniteSet({i \in DOMAIN q : q[i] = x})
  BY <1>1, <1>2, FS_Subset
<1> QED
  BY <1>3, FS_CardinalityType

\* The worst status of a target and its dependencies, or of it and its actions.
LEMMA StatusType ==
  ASSUME TypeOK, NEW t \in Targets
  PROVE  DependencyStatus(t) \in Statuses /\ ActionsStatus(t) \in Statuses
<1>1. depends[t] \in Seq(Targets) /\ ActionsOf[t] \in Seq(Actions)
  BY Make1Assumption DEF TypeOK
<1>2. ToSet(depends[t]) \subseteq Targets /\ ToSet(ActionsOf[t]) \subseteq Actions
  BY <1>1 DEF ToSet
<1>3. {status[t]} \cup {status[d] : d \in ToSet(depends[t]) \ NoCare} \subseteq Statuses
  BY <1>2 DEF TypeOK
<1>4. {status[t]} \cup {actStatus[a] : a \in ToSet(ActionsOf[t])} \subseteq Statuses
  BY <1>2 DEF TypeOK
<1> HIDE DEF Statuses
<1>5. DependencyStatus(t) \in Statuses
  BY <1>3, MaxOfStatuses DEF DependencyStatus
<1>6. ActionsStatus(t) \in Statuses
  BY <1>4, MaxOfStatuses DEF ActionsStatus
<1> QED
  BY <1>5, <1>6

\* The initial state is well typed.
LEMMA InitType == Init => TypeOK
<1> SUFFICES ASSUME Init PROVE TypeOK
  OBVIOUS
<1>1. Roots[1] \in Targets /\ 1 \in 1..Len(Roots)
  BY Make1Assumption
<1>2. stack \in Seq(States)
  <2>1. State(Roots[1], NoTarget, "MAKE1A") \in States
    BY <1>1, StateType DEF Handlers
  <2> QED
    BY <2>1 DEF Init
<1>3. fate \in [Targets -> Fates]
  BY Make1Assumption DEF Init
<1>4. /\ depends \in [Targets -> Seq(Targets)]
      /\ includes \in [Targets -> Targets \cup {NoTarget}]
      /\ semaphore \in [Targets -> Sems \cup {NoSem}]
      /\ globs \in [jobs : Nat \ {0}, quitquick : BOOLEAN, noexec : BOOLEAN]
  BY Make1Assumption DEF Init
<1>5. result \in BOOLEAN
  BY DEF Init, CantFindOrMake
<1>6. counts \in [failed : Nat, skipped : Nat, total : Nat, made : Nat]
  BY DEF Init, ZeroCounts
<1>7. pc \in PCs /\ root \in 1..Len(Roots)
  BY <1>1 DEF Init, PCs
<1>8. /\ progress \in [Targets -> Progress]
      /\ status \in [Targets -> Statuses]
      /\ actStatus \in [Actions -> Statuses]
      /\ file \in [Names -> Contents]
  BY DEF Init, Progress, Statuses, EXEC_CMD_OK, Contents
<1>9. /\ asynccnt \in [Targets -> Int]
      /\ parents \in [Targets -> Seq(Targets)]
      /\ cmds \in [Targets -> Seq(Cmds)]
      /\ rescanned \in [Targets -> BOOLEAN]
  BY DEF Init
<1>10. semcnt \in [Sems -> {0, 1}] /\ semwait \in [Sems -> Seq(Targets)]
  BY DEF Init
<1>11. /\ actRunning \subseteq Actions
       /\ running \subseteq Targets
       /\ sigint \in BOOLEAN
       /\ intr \in BOOLEAN
  BY DEF Init
<1> QED
  BY <1>2, <1>3, <1>4, <1>5, <1>6, <1>7, <1>8, <1>9, <1>10, <1>11 DEF TypeOK

\* A parent's name is noted, and its count incremented.
LEMMA NotifyType ==
  ASSUME TypeOK, NEW t \in Targets, NEW p \in Targets \cup {NoTarget}, Notify(t, p)
  PROVE  parents' \in [Targets -> Seq(Targets)] /\ asynccnt' \in [Targets -> Int]
<1>1. asynccnt' \in [Targets -> Int]
  <2>1. asynccnt \in [Targets -> Int]
    BY DEF TypeOK
  <2>2. asynccnt' = [n \in Targets |->
                       IF n = t /\ progress[t] = "INIT" THEN 1
                       ELSE IF n = p THEN asynccnt[n] + 1 ELSE asynccnt[n]]
    BY DEF Notify
  <2> QED
    BY <2>1, <2>2
<1>2. parents' \in [Targets -> Seq(Targets)]
  <2>1. p # NoTarget => Append(parents[t], p) \in Seq(Targets)
    BY DEF TypeOK
  <2> QED
    BY <2>1 DEF Notify, TypeOK
<1> QED
  BY <1>1, <1>2

\* make1a() keeps the state well typed.
LEMMA Make1aType == TypeOK /\ (Make1aSeen \/ Make1aStart \/ Make1atail) => TypeOK'
<1>1. ASSUME TypeOK, Make1aSeen PROVE TypeOK'
  <2>1. top.t \in Targets /\ top.parent \in Targets \cup {NoTarget} /\ stack' \in Seq(States)
    BY <1>1, StackType DEF Make1aSeen, Handler
  <2>2. parents' \in [Targets -> Seq(Targets)] /\ asynccnt' \in [Targets -> Int]
    <3>1. CASE Notify(top.t, top.parent)
      BY <1>1, <2>1, <3>1, NotifyType
    <3>2. CASE UNCHANGED <<parents, asynccnt>>
      BY <1>1, <3>2 DEF TypeOK
    <3> QED
      BY <1>1, <3>1, <3>2 DEF Make1aSeen
  <2> QED
    BY <1>1, <2>1, <2>2 DEF Make1aSeen, TypeOK, exec, given
<1>2. ASSUME TypeOK, Make1aStart PROVE TypeOK'
  <2> DEFINE deps == depends[top.t] \o NewIncludes(depends[top.t])
  <2>1. /\ top.t \in Targets /\ top.parent \in Targets \cup {NoTarget}
        /\ Continue("MAKE1ATAIL") \in Seq(States)
    BY <1>2, StackType, ContinueType DEF Make1aStart, Handler, Handlers
  <2>2. deps \in Seq(Targets)
    <3>1. depends[top.t] \in Seq(Targets)
      BY <1>2, <2>1 DEF TypeOK
    <3>2. NewIncludes(depends[top.t]) \in Seq(Targets)
      BY <1>2, <3>1, NewIncludesType
    <3> QED
      BY <3>1, <3>2
  <2>3. [i \in DOMAIN deps |-> State(deps[i], top.t, "MAKE1A")] \in Seq(States)
    <3> HIDE DEF deps
    <3>1. \A i \in 1..Len(deps) : State(deps[i], top.t, "MAKE1A") \in States
      BY <2>1, <2>2, StateType DEF Handlers
    <3>2. DOMAIN deps = 1..Len(deps) /\ Len(deps) \in Nat
      BY <2>2
    <3> QED
      BY <3>1, <3>2
  <2>4. stack' \in Seq(States)
    <3>1. PICK pushed \in Seq(States) :
            pushed = [i \in DOMAIN deps |-> State(deps[i], top.t, "MAKE1A")]
      BY <2>3
    <3>2. stack' = IF intr THEN Continue("MAKE1ATAIL")
                   ELSE pushed \o Continue("MAKE1ATAIL")
      BY <1>2, <3>1 DEF Make1aStart
    <3> QED
      BY <2>1, <3>2
  <2>5. parents' \in [Targets -> Seq(Targets)] /\ asynccnt' \in [Targets -> Int]
    <3>1. Notify(top.t, top.parent)
      BY <1>2 DEF Make1aStart
    <3> QED
      BY <1>2, <2>1, <3>1, NotifyType
  <2>6. depends' \in [Targets -> Seq(Targets)]
    BY <1>2, <2>2 DEF Make1aStart, TypeOK
  <2>7. progress' \in [Targets -> Progress]
    BY <1>2 DEF Make1aStart, TypeOK, Progress
  <2> QED
    BY <1>2, <2>4, <2>5, <2>6, <2>7 DEF Make1aStart, TypeOK, exec, given
<1>3. ASSUME TypeOK, Make1atail PROVE TypeOK'
  <2>1. stack' \in Seq(States)
    BY <1>3, ContinueType DEF Make1atail, Handler, Handlers
  <2>2. progress' \in [Targets -> Progress]
    BY <1>3 DEF Make1atail, TypeOK, Progress
  <2> QED
    BY <1>3, <2>1, <2>2 DEF Make1atail, TypeOK, graph, exec, given
<1> QED
  BY <1>1, <1>2, <1>3

\* make1b() keeps the state well typed.
LEMMA Make1bType == TypeOK /\ (Make1bWait \/ Make1bSemaphore \/ Make1bReady) => TypeOK'
<1>1. ASSUME TypeOK, Make1bWait PROVE TypeOK'
  <2>1. top.t \in Targets /\ stack' \in Seq(States)
    BY <1>1, StackType DEF Make1bWait, Handler
  <2>2. asynccnt' \in [Targets -> Int]
    <3>1. asynccnt \in [Targets -> Int]
      BY <1>1 DEF TypeOK
    <3>2. asynccnt' = [asynccnt EXCEPT ![top.t] = asynccnt[top.t] - 1]
      BY <1>1 DEF Make1bWait
    <3> QED
      BY <2>1, <3>1, <3>2
  <2> QED
    BY <1>1, <2>1, <2>2 DEF Make1bWait, TypeOK, graph, exec, given
<1>2. ASSUME TypeOK, Make1bSemaphore PROVE TypeOK'
  <2>1. top.t \in Targets /\ stack' \in Seq(States)
    BY <1>2, StackType DEF Make1bSemaphore, Handler
  <2>2. semaphore[top.t] \in Sems
    BY <1>2, <2>1 DEF Make1bSemaphore, SemBusy, TypeOK
  <2>3. Append(semwait[semaphore[top.t]], top.t) \in Seq(Targets)
    BY <1>2, <2>1, <2>2 DEF TypeOK
  <2>4. semwait' \in [Sems -> Seq(Targets)]
    BY <1>2, <2>2, <2>3 DEF Make1bSemaphore, TypeOK
  <2> QED
    BY <1>2, <2>1, <2>4 DEF Make1bSemaphore, TypeOK, graph, exec, given
<1>3. ASSUME TypeOK, Make1bReady PROVE TypeOK'
  <2> DEFINE new == Commands(top.t, actRunning, {x \in Targets : fate[x] > T_FATE_STABLE})
  <2>1. top.t \in Targets /\ stack' \in Seq(States)
    BY <1>3, StackType, ContinueType DEF Make1bReady, Handler, Handlers
  <2>2. new.cmds \in Seq(Cmds) /\ new.running \subseteq Actions
    <3>1. actRunning \in SUBSET Actions
      BY <1>3 DEF TypeOK
    <3>2. PICK S \in SUBSET Targets : S = {x \in Targets : fate[x] > T_FATE_STABLE}
      OBVIOUS
    <3>3. LET c == Commands(top.t, actRunning, S)
          IN  c.cmds \in Seq(Cmds) /\ c.running \in SUBSET Actions
      BY <2>1, <3>1, CommandsAssumption
    <3> QED
      BY <3>2, <3>3
  <2>3. status' \in [Targets -> Statuses]
    <3>1. DependencyStatus(top.t) \in Statuses /\ EXEC_CMD_FAIL \in Statuses
      BY <1>3, <2>1, StatusType DEF Statuses
    <3>2. \/ status' = [status EXCEPT ![top.t] = EXEC_CMD_FAIL]
          \/ status' = [status EXCEPT ![top.t] = DependencyStatus(top.t)]
      BY <1>3 DEF Make1bReady
    <3> HIDE DEF Statuses
    <3> QED
      BY <1>3, <3>1, <3>2 DEF TypeOK
  <2>4. asynccnt' \in [Targets -> Int]
    <3>1. asynccnt' = [asynccnt EXCEPT ![top.t] = 0]
      BY <1>3 DEF Make1bReady
    <3>2. asynccnt \in [Targets -> Int]
      BY <1>3 DEF TypeOK
    <3> QED
      BY <2>1, <3>1, <3>2
  <2>5. counts' \in [failed : Nat, skipped : Nat, total : Nat, made : Nat]
    <3> DEFINE failed == DependencyStatus(top.t) = EXEC_CMD_FAIL /\ ActionsOf[top.t] # <<>>
               update == /\ DependencyStatus(top.t) = EXEC_CMD_OK /\ ActionsOf[top.t] # <<>>
                         /\ fate[top.t] >= T_FATE_BUILD /\ fate[top.t] < T_FATE_BROKEN
    <3>1. counts' = [counts EXCEPT !.skipped = IF failed THEN counts.skipped + 1
                                               ELSE counts.skipped,
                                   !.total = IF update THEN counts.total + 1
                                             ELSE counts.total]
      BY <1>3 DEF Make1bReady
    <3>2. counts \in [failed : Nat, skipped : Nat, total : Nat, made : Nat]
      BY <1>3 DEF TypeOK
    <3>3. /\ (IF failed THEN counts.skipped + 1 ELSE counts.skipped) \in Nat
          /\ (IF update THEN counts.total + 1 ELSE counts.total) \in Nat
      BY <3>2
    <3> HIDE DEF failed, update
    <3> QED
      BY <3>1, <3>2, <3>3
  <2>6. file' \in [Names -> Contents]
    BY <1>3 DEF Make1bReady, TypeOK, RemoveOutdated, Contents
  <2>7. /\ cmds' \in [Targets -> Seq(Cmds)]
        /\ actRunning' \subseteq Actions
        /\ progress' \in [Targets -> Progress]
    <3> HIDE DEF new
    <3>1. \/ /\ cmds' = [cmds EXCEPT ![top.t] = new.cmds]
             /\ actRunning' = new.running
             /\ progress' = [progress EXCEPT ![top.t] = "RUNNING"]
          \/ UNCHANGED <<cmds, actRunning, progress>>
      BY <1>3 DEF Make1bReady, new
    <3> QED
      BY <1>3, <2>2, <3>1 DEF TypeOK, Progress
  <2>8. pc' \in PCs
    BY <1>3 DEF Make1bReady, TypeOK, PCs
  <2>9. semcnt' \in [Sems -> {0, 1}]
    <3>1. semcnt \in [Sems -> {0, 1}]
      BY <1>3 DEF TypeOK
    <3>2. \/ semcnt' = semcnt
          \/ /\ semaphore[top.t] # NoSem
             /\ semcnt' = [semcnt EXCEPT ![semaphore[top.t]] = semcnt[semaphore[top.t]] + 1]
      BY <1>3, Zenon DEF Make1bReady, Takes
    <3>3. semaphore[top.t] # NoSem => semaphore[top.t] \in Sems /\ semcnt[semaphore[top.t]] = 0
      BY <1>3, <2>1 DEF Make1bReady, SemBusy, TypeOK
    <3> QED
      BY <3>1, <3>2, <3>3
  <2> QED
    BY <1>3, <2>1, <2>3, <2>4, <2>5, <2>6, <2>7, <2>8, <2>9
    DEF Make1bReady, TypeOK, graph, exec, given
<1> QED
  BY <1>1, <1>2, <1>3

\* make1c() launching a command, and make1d(), keep the state well typed.
LEMMA Make1LaunchType == TypeOK /\ (Make1cLaunch \/ Make1cNoExec \/ Make1d) => TypeOK'
<1>1. ASSUME TypeOK, Make1cLaunch PROVE TypeOK'
  <2>1. top.t \in Targets /\ stack' \in Seq(States)
    BY <1>1, StackType DEF Make1cLaunch, Handler
  <2>2. pc' \in PCs /\ running' \subseteq Targets
    BY <1>1, <2>1 DEF Make1cLaunch, PCs, TypeOK
  <2>3. file' \in [Names -> Contents]
    BY <1>1 DEF Make1cLaunch, TypeOK, Contents
  <2> QED
    BY <1>1, <2>1, <2>2, <2>3 DEF Make1cLaunch, TypeOK, graph, given
<1>2. ASSUME TypeOK, Make1cNoExec PROVE TypeOK'
  <2>1. stack' \in Seq(States)
    BY <1>2, ContinueType DEF Make1cNoExec, Handler, Handlers
  <2> QED
    BY <1>2, <2>1 DEF Make1cNoExec, TypeOK, graph, exec, given
<1>3. ASSUME TypeOK, Make1d PROVE TypeOK'
  <2>1. top.t \in Targets /\ top.status \in Statuses /\ stack' \in Seq(States)
    BY <1>3, StackType, ContinueType DEF Make1d, Handler, Handlers, top
  <2>2. Judged(top.t, top.status) \in Statuses
    BY <2>1 DEF Judged, Statuses
  <2>3. status' \in [Targets -> Statuses]
    BY <1>3, <2>2 DEF Make1d, TypeOK
  <2>4. cmds' \in [Targets -> Seq(Cmds)]
    <3>1. Rest(cmds[top.t]) \in Seq(Cmds)
      BY <1>3, <2>1 DEF Rest, TypeOK
    <3> QED
      BY <1>3, <3>1 DEF Make1d, CmdNext, TypeOK
  <2>5. file' \in [Names -> Contents]
    BY <1>3 DEF Make1d, TypeOK, Contents
  <2>6. intr' \in BOOLEAN
    BY <1>3 DEF Make1d, TypeOK
  <2> QED
    BY <1>3, <2>1, <2>3, <2>4, <2>5, <2>6 DEF Make1d, TypeOK, graph, exec, given
<1> QED
  BY <1>1, <1>2, <1>3

\* The rescan of a target that was built keeps the graph well typed.
LEMMA RescanType ==
  ASSUME TypeOK, NEW t \in Targets, NEW inc \in Targets \cup {NoTarget}, Rescan(t, inc)
  PROVE  /\ includes' \in [Targets -> Targets \cup {NoTarget}]
         /\ rescanned' \in [Targets -> BOOLEAN]
         /\ fate' \in [Targets -> Fates]
         /\ depends' \in [Targets -> Seq(Targets)]
<1>1. RescanTarget(t) \in Targets
  BY Make1Assumption DEF RescanTarget
<1>2. includes' \in [Targets -> Targets \cup {NoTarget}]
  BY <1>1 DEF Rescan, TypeOK
<1>3. rescanned' \in [Targets -> BOOLEAN]
  BY DEF Rescan, TypeOK
<1>4. fate' \in [Targets -> Fates]
  <2>1. \A n \in Targets : n \in DOMAIN RescanFates[t] => RescanFates[t][n] \in Fates
    BY Make1Assumption
  <2>2. fate \in [Targets -> Fates]
    BY DEF TypeOK
  <2> HIDE DEF Fates
  <2> QED
    BY <2>1, <2>2 DEF Rescan
<1>5. depends' \in [Targets -> Seq(Targets)]
  <2> DEFINE o == RescanTarget(t)
             k(n) == Cardinality({j \in DOMAIN parents[o] : parents[o][j] = n})
  <2>1. depends \in [Targets -> Seq(Targets)] /\ parents[o] \in Seq(Targets)
    BY <1>1 DEF TypeOK
  <2>2. ASSUME NEW n \in Targets, inc # NoTarget
        PROVE  depends[n] \o [i \in 1..k(n) |-> inc] \in Seq(Targets)
    <3>1. k(n) \in Nat
      BY <2>1, OccurrencesType
    <3> HIDE DEF k
    <3>2. [i \in 1..k(n) |-> inc] \in Seq(Targets)
      BY <2>2, <3>1
    <3> QED
      BY <2>1, <3>2
  <2>3. depends' = IF inc = NoTarget THEN depends
                   ELSE [n \in Targets |-> depends[n] \o [i \in 1..k(n) |-> inc]]
    BY DEF Rescan
  <2> HIDE DEF k
  <2> QED
    BY <2>1, <2>2, <2>3
<1> QED
  BY <1>2, <1>3, <1>4, <1>5

\* The states pushed when t is done.
LEMMA TellParentsType ==
  ASSUME TypeOK, NEW t \in Targets, NEW inc \in Targets \cup {NoTarget}
  PROVE  TellParents(t, inc) \in Seq(States) /\ Release(t) \in Seq(States)
<1>1. TellParents(t, inc) \in Seq(States)
  <2> DEFINE ps == parents[t]
             told == [i \in DOMAIN ps |-> State(ps[i], NoTarget, "MAKE1B")]
             news == [i \in DOMAIN ps |-> State(inc, ps[i], "MAKE1A")]
  <2>1. ps \in Seq(Targets)
    BY DEF TypeOK
  <2> HIDE DEF ps
  <2>2. told \in Seq(States)
    BY <2>1, PushedType DEF Handlers
  <2>3. inc # NoTarget => news \in Seq(States)
    BY <2>1, PushedType DEF Handlers
  <2>4. TellParents(t, inc) = (IF inc = NoTarget THEN <<>> ELSE news) \o told
    BY DEF TellParents, ps
  <2> HIDE DEF told, news
  <2> QED
    BY <2>2, <2>3, <2>4
<1>2. Release(t) \in Seq(States)
  <2>1. CASE semaphore[t] = NoSem \/ semwait[semaphore[t]] = <<>>
    BY <2>1 DEF Release
  <2>2. CASE semaphore[t] # NoSem /\ semwait[semaphore[t]] # <<>>
    <3>1. Head(semwait[semaphore[t]]) \in Targets
      BY <2>2 DEF TypeOK
    <3>2. State(Head(semwait[semaphore[t]]), NoTarget, "MAKE1B") \in States
      BY <3>1, StateType DEF Handlers
    <3> HIDE DEF States
    <3> QED
      BY <2>2, <3>2 DEF Release
  <2> QED
    BY <2>1, <2>2
<1> QED
  BY <1>1, <1>2

\* The target that make1c() is through with holds its semaphore.
GivesBack == \A s \in Sems : s = semaphore[top.t] => semcnt[s] = 1

\* make1c() finishing a target keeps the state well typed.
LEMMA Make1cDoneType == TypeOK /\ GivesBack /\ Make1cDone => TypeOK'
<1> SUFFICES ASSUME TypeOK, GivesBack, Make1cDone PROVE TypeOK'
  OBVIOUS
<1> DEFINE t == top.t
           st == ActionsStatus(t)
           inc == IF Rescans(t, st) THEN Headers[t] ELSE NoTarget
<1>1. t \in Targets /\ Popped \in Seq(States)
  BY StackType DEF Make1cDone, Handler
<1>2. st \in Statuses
  BY <1>1, StatusType
<1>3. inc \in Targets \cup {NoTarget}
  BY <1>1, Make1Assumption
<1>4. /\ status' \in [Targets -> Statuses]
      /\ actStatus' \in [Actions -> Statuses]
  <2>1. /\ status' = [status EXCEPT ![t] = st]
        /\ actStatus' = [a \in Actions |-> IF a \in ToSet(ActionsOf[t]) THEN st
                                           ELSE actStatus[a]]
    BY DEF Make1cDone
  <2>2. status \in [Targets -> Statuses] /\ actStatus \in [Actions -> Statuses]
    BY DEF TypeOK
  <2> HIDE DEF st, t, Statuses
  <2> QED
    BY <1>1, <1>2, <2>1, <2>2
<1>5. counts' \in [failed : Nat, skipped : Nat, total : Nat, made : Nat]
  <2> DEFINE made   == progress[t] = "RUNNING" /\ st = EXEC_CMD_OK
             failed == progress[t] = "RUNNING" /\ st = EXEC_CMD_FAIL
  <2>1. counts' = [counts EXCEPT !.made   = IF made THEN counts.made + 1 ELSE counts.made,
                                 !.failed = IF failed THEN counts.failed + 1
                                            ELSE counts.failed]
    BY DEF Make1cDone, Tally
  <2>2. counts \in [failed : Nat, skipped : Nat, total : Nat, made : Nat]
    BY DEF TypeOK
  <2>3. /\ (IF made THEN counts.made + 1 ELSE counts.made) \in Nat
        /\ (IF failed THEN counts.failed + 1 ELSE counts.failed) \in Nat
    BY <2>2
  <2> HIDE DEF made, failed
  <2> QED
    BY <2>1, <2>2, <2>3
<1>6. progress' \in [Targets -> Progress]
  <2>1. progress' = [progress EXCEPT ![t] = "DONE"]
    BY DEF Make1cDone
  <2> QED
    BY <1>1, <2>1 DEF TypeOK, Progress
<1>7. /\ includes' \in [Targets -> Targets \cup {NoTarget}]
      /\ rescanned' \in [Targets -> BOOLEAN]
      /\ fate' \in [Targets -> Fates]
      /\ depends' \in [Targets -> Seq(Targets)]
  <2>1. CASE Rescan(t, inc)
    BY <1>1, <1>3, <2>1, RescanType
  <2>2. CASE UNCHANGED <<includes, rescanned, fate, depends>>
    BY <2>2 DEF TypeOK
  <2>3. Rescan(t, inc) \/ UNCHANGED <<includes, rescanned, fate, depends>>
    <3> HIDE DEF Rescan
    <3> QED
      BY DEF Make1cDone
  <2> QED
    BY <2>1, <2>2, <2>3
<1>8. /\ pc' \in PCs /\ stack' \in Seq(States)
      /\ semcnt' \in [Sems -> {0, 1}] /\ semwait' \in [Sems -> Seq(Targets)]
  <2>1. \/ pc' = "crashed" /\ UNCHANGED <<stack, semcnt, semwait>>
        \/ /\ pc' = pc
           /\ stack' = TellParents(t, inc) \o Release(t) \o Popped
           /\ semcnt' = [s \in Sems |-> IF s = semaphore[t] THEN semcnt[s] - 1
                                        ELSE semcnt[s]]
           /\ semwait' = [s \in Sems |-> IF s = semaphore[t] THEN Rest(semwait[s])
                                         ELSE semwait[s]]
    BY DEF Make1cDone
  <2>2. CASE pc' = "crashed" /\ UNCHANGED <<stack, semcnt, semwait>>
    BY <2>2 DEF TypeOK, PCs
  <2>3. CASE /\ pc' = pc
             /\ stack' = TellParents(t, inc) \o Release(t) \o Popped
             /\ semcnt' = [s \in Sems |-> IF s = semaphore[t] THEN semcnt[s] - 1
                                          ELSE semcnt[s]]
             /\ semwait' = [s \in Sems |-> IF s = semaphore[t] THEN Rest(semwait[s])
                                           ELSE semwait[s]]
    <3>1. TellParents(t, inc) \in Seq(States) /\ Release(t) \in Seq(States)
      BY <1>1, <1>3, TellParentsType
    <3> HIDE DEF t, inc
    <3>2. stack' \in Seq(States)
      BY <1>1, <2>3, <3>1
    <3>3. semcnt' \in [Sems -> {0, 1}]
      <4>1. semcnt \in [Sems -> {0, 1}]
        BY DEF TypeOK
      <4>2. \A s \in Sems : s = semaphore[top.t] => semcnt[s] = 1
        BY DEF GivesBack
      <4>3. semcnt' = [s \in Sems |-> IF s = semaphore[top.t] THEN semcnt[s] - 1 ELSE semcnt[s]]
        BY <2>3 DEF t
      <4> QED
        BY <4>1, <4>2, <4>3
    <3>4. semwait' \in [Sems -> Seq(Targets)]
      BY <2>3 DEF TypeOK, Rest
    <3> QED
      BY <2>3, <3>2, <3>3, <3>4 DEF TypeOK
  <2> QED
    BY <2>1, <2>2, <2>3
<1> QED
  BY <1>1, <1>4, <1>5, <1>6, <1>7, <1>8 DEF Make1cDone, TypeOK, exec, given

\* Waiting for commands, and make1()'s return, keep the state well typed.
LEMMA WaitType ==
  TypeOK /\ (ExecWait \/ AnyComplete \/ ExecReturn \/ Interrupt \/ Make1Return \/ Ended)
    => TypeOK'
<1>1. ASSUME TypeOK, ExecWait \/ ExecReturn \/ Interrupt \/ Ended PROVE TypeOK'
  <2>1. CASE ExecWait
    BY <1>1, <2>1 DEF ExecWait, TypeOK, PCs, graph, exec, given
  <2>2. CASE ExecReturn
    BY <1>1, <2>2 DEF ExecReturn, TypeOK, PCs, graph, exec, given
  <2>3. CASE Interrupt
    BY <1>1, <2>3 DEF Interrupt, TypeOK, graph, given
  <2>4. CASE Ended
    BY <1>1, <2>4 DEF Ended, TypeOK, vars, graph, exec, given
  <2> QED
    BY <1>1, <2>1, <2>2, <2>3, <2>4
<1>2. ASSUME TypeOK, NEW t \in Targets, NEW st \in {EXEC_CMD_OK, EXEC_CMD_FAIL},
             Complete(t, st)
      PROVE  TypeOK'
  <2> DEFINE new == [State(t, NoTarget, "MAKE1D") EXCEPT
                       !.status = IF sigint THEN EXEC_CMD_INTR ELSE st]
  <2>1. new \in States
    BY DEF State, States, Statuses, Handlers
  <2>2. stack' = <<new>> \o stack /\ stack \in Seq(States)
    BY <1>2 DEF Complete, TypeOK
  <2> HIDE DEF new, States
  <2>3. stack' \in Seq(States)
    BY <2>1, <2>2
  <2>4. running' \subseteq Targets
    BY <1>2 DEF Complete, TypeOK
  <2>5. file' \in [Names -> Contents]
    BY <1>2 DEF Complete, TypeOK, Contents
  <2> QED
    BY <1>2, <2>3, <2>4, <2>5 DEF Complete, TypeOK, graph, given
<1>3. ASSUME TypeOK, Make1Return PROVE TypeOK'
  <2>1. /\ pc' \in PCs /\ root' \in 1..Len(Roots)
        /\ stack' \in Seq(States)
        /\ counts' \in [failed : Nat, skipped : Nat, total : Nat, made : Nat]
    <3>1. CASE root < Len(Roots)
      <4>1. root + 1 \in 1..Len(Roots) /\ Roots[root + 1] \in Targets
        <5>1. root \in 1..Len(Roots) /\ Roots \in Seq(Targets)
          BY <1>3, Make1Assumption DEF TypeOK
        <5> QED
          BY <3>1, <5>1
      <4>2. State(Roots[root + 1], NoTarget, "MAKE1A") \in States
        BY <4>1, StateType DEF Handlers
      <4> HIDE DEF States
      <4>3. stack' = <<State(Roots[root + 1], NoTarget, "MAKE1A")>>
        BY <1>3, <3>1 DEF Make1Return
      <4>4. stack' \in Seq(States)
        BY <4>2, <4>3
      <4>5. root' = root + 1 /\ pc' = pc /\ counts' = ZeroCounts
        BY <1>3, <3>1 DEF Make1Return
      <4> QED
        BY <1>3, <4>1, <4>4, <4>5 DEF TypeOK, ZeroCounts
    <3>2. CASE ~(root < Len(Roots))
      BY <1>3, <3>2 DEF Make1Return, TypeOK, PCs
    <3> QED
      BY <3>1, <3>2
  <2>2. result' \in BOOLEAN
    BY <1>3 DEF Make1Return, TypeOK
  <2> QED
    BY <1>3, <2>1, <2>2 DEF Make1Return, TypeOK, graph, exec, given
<1>4. ASSUME TypeOK, AnyComplete PROVE TypeOK'
  BY <1>2, <1>4 DEF AnyComplete
<1> QED
  BY <1>1, <1>3, <1>4

\* Every step keeps the state well typed.
LEMMA NextType == TypeOK /\ (Make1cDone => GivesBack) /\ [Next]_vars => TypeOK'
<1> SUFFICES ASSUME TypeOK, Make1cDone => GivesBack, [Next]_vars PROVE TypeOK'
  OBVIOUS
<1>1. CASE UNCHANGED vars
  BY <1>1 DEF TypeOK, vars, graph, exec, given
<1>2. CASE Next
  BY <1>2, Make1aType, Make1bType, Make1LaunchType, Make1cDoneType, WaitType
  DEF Next, Loop
<1> QED
  BY <1>1, <1>2

-----------------------------------------------------------------------------
(***************************************************************************)
(* Semaphores exclude.  Between make1b() and the end of make1c() a target  *)
(* holds its semaphore m[t]; it is then one of the running targets R or    *)
(* has a MAKE1C or MAKE1D state on the stack q.  No two places hold the    *)
(* same semaphore, and one whose count is zero is free.                    *)
(***************************************************************************)
Holding(x)    == x.curstate \in {"MAKE1C", "MAKE1D"}
Same(m, t, u) == m[t] # NoSem /\ m[t] = m[u]

Exclusive(m, q, R) ==
  /\ \A i, j \in DOMAIN q : i # j /\ Holding(q[i]) /\ Holding(q[j]) => ~Same(m, q[i].t, q[j].t)
  /\ \A i \in DOMAIN q, u \in R : Holding(q[i]) => ~Same(m, q[i].t, u)
  /\ \A t, u \in R : t # u => ~Same(m, t, u)

Free(m, q, R, s) ==
  /\ \A i \in DOMAIN q : Holding(q[i]) => m[q[i].t] # s
  /\ \A u \in R : m[u] # s

\* The counts mean nothing once make1() has given up.
SemInv ==
  /\ Exclusive(semaphore, stack, running)
  /\ pc \notin {"crashed", "exited"} =>
       \A s \in Sems : /\ semcnt[s] \in {0, 1}
                       /\ semcnt[s] = 0 => Free(semaphore, stack, running, s)

\* Taking the top away leaves fewer holders.
LEMMA TailHolds ==
  ASSUME NEW m, NEW q \in Seq(States), NEW R, q # <<>>
  PROVE  /\ Exclusive(m, q, R) => Exclusive(m, Tail(q), R)
         /\ \A s : Free(m, q, R, s) => Free(m, Tail(q), R, s)
<1> HIDE DEF States
<1>1. \A i \in DOMAIN Tail(q) : Tail(q)[i] = q[i + 1] /\ i + 1 \in DOMAIN q
  OBVIOUS
<1>2. \A i, j \in DOMAIN Tail(q) : i # j => i + 1 # j + 1
  OBVIOUS
<1>3. Exclusive(m, q, R) => Exclusive(m, Tail(q), R)
  BY <1>1, <1>2, Zenon DEF Exclusive
<1>4. \A s : Free(m, q, R, s) => Free(m, Tail(q), R, s)
  BY <1>1, Zenon DEF Free
<1> QED
  BY <1>3, <1>4

\* Pushing states that hold nothing adds no holder.
LEMMA PushHolds ==
  ASSUME NEW m, NEW p \in Seq(States), NEW q \in Seq(States), NEW R,
         \A i \in DOMAIN p : ~Holding(p[i])
  PROVE  /\ Exclusive(m, q, R) => Exclusive(m, p \o q, R)
         /\ \A s : Free(m, q, R, s) => Free(m, p \o q, R, s)
<1> HIDE DEF States
<1>1. ASSUME NEW i \in DOMAIN (p \o q), Holding((p \o q)[i])
      PROVE  i - Len(p) \in DOMAIN q /\ (p \o q)[i] = q[i - Len(p)]
  <2>1. CASE i \in DOMAIN p
    <3>1. (p \o q)[i] = p[i]
      BY <2>1
    <3> QED
      BY <1>1, <2>1, <3>1
  <2>2. CASE i \notin DOMAIN p
    BY <2>2
  <2> QED
    BY <2>1, <2>2
<1>2. \A i, j \in DOMAIN (p \o q) : i # j => i - Len(p) # j - Len(p)
  OBVIOUS
<1>3. Exclusive(m, q, R) => Exclusive(m, p \o q, R)
  BY <1>1, <1>2, Zenon DEF Exclusive
<1>4. \A s : Free(m, q, R, s) => Free(m, p \o q, R, s)
  BY <1>1, Zenon DEF Free
<1> QED
  BY <1>3, <1>4

\* A holder x joins the stack: nobody else must hold its semaphore, and the
\* other semaphores stay as free as they were.
LEMMA HolderJoins ==
  ASSUME NEW m, NEW x \in States, NEW q \in Seq(States), NEW R
  PROVE  /\ Exclusive(m, q, R) /\ (m[x.t] = NoSem \/ Free(m, q, R, m[x.t]))
              => Exclusive(m, <<x>> \o q, R)
         /\ \A s : Free(m, q, R, s) /\ m[x.t] # s => Free(m, <<x>> \o q, R, s)
<1> HIDE DEF States
<1> DEFINE z == <<x>> \o q
<1>1. \A i \in DOMAIN z : \/ i = 1 /\ z[i] = x
                          \/ i # 1 /\ i - 1 \in DOMAIN q /\ z[i] = q[i - 1]
  <2> SUFFICES ASSUME NEW i \in DOMAIN z
               PROVE  \/ i = 1 /\ z[i] = x
                      \/ i # 1 /\ i - 1 \in DOMAIN q /\ z[i] = q[i - 1]
    OBVIOUS
  <2>1. i = 1 => z[i] = x
    OBVIOUS
  <2>2. CASE i # 1
    <3>1. i \in 2..(Len(q) + 1)
      BY <2>2
    <3>2. z[i] = q[i - 1]
      BY <3>1
    <3> QED
      BY <2>2, <3>1, <3>2
  <2> QED
    BY <2>1, <2>2
<1>2. \A i, j \in DOMAIN z : i # j => i - 1 # j - 1
  OBVIOUS
<1> HIDE DEF z
<1>3. ASSUME Exclusive(m, q, R), m[x.t] = NoSem \/ Free(m, q, R, m[x.t])
      PROVE  Exclusive(m, z, R)
  <2>1. \A i \in DOMAIN q : Holding(q[i]) => ~Same(m, q[i].t, x.t) /\ ~Same(m, x.t, q[i].t)
    BY <1>3 DEF Free, Same
  <2>2. \A u \in R : ~Same(m, x.t, u)
    BY <1>3 DEF Free, Same
  <2>3. ASSUME NEW i \in DOMAIN z, NEW j \in DOMAIN z, i # j, Holding(z[i]), Holding(z[j])
        PROVE  ~Same(m, z[i].t, z[j].t)
    <3>1. CASE i = 1
      BY <1>1, <2>1, <2>3, <3>1, Zenon
    <3>2. CASE i # 1 /\ j = 1
      BY <1>1, <2>1, <2>3, <3>2, Zenon
    <3>3. CASE i # 1 /\ j # 1
      BY <1>1, <1>2, <1>3, <2>3, <3>3, Zenon DEF Exclusive
    <3> QED
      BY <3>1, <3>2, <3>3
  <2>4. ASSUME NEW i \in DOMAIN z, NEW u \in R, Holding(z[i]) PROVE ~Same(m, z[i].t, u)
    BY <1>1, <1>3, <2>2, <2>4, Zenon DEF Exclusive
  <2> QED
    BY <1>3, <2>3, <2>4, Zenon DEF Exclusive
<1>4. ASSUME NEW s, Free(m, q, R, s), m[x.t] # s PROVE Free(m, z, R, s)
  BY <1>1, <1>4, Zenon DEF Free
<1> QED
  BY <1>3, <1>4 DEF z

\* A holder on top shares its semaphore with nobody.
LEMMA TopAlone ==
  ASSUME NEW m, NEW q \in Seq(States), NEW R, q # <<>>, Holding(Head(q))
  PROVE  /\ Exclusive(m, q, R) =>
              m[Head(q).t] = NoSem \/ Free(m, Tail(q), R, m[Head(q).t])
         /\ \A s : Free(m, q, R, s) => m[Head(q).t] # s
<1> HIDE DEF States
<1>1. 1 \in DOMAIN q /\ Head(q) = q[1]
  OBVIOUS
<1>2. \A i \in DOMAIN Tail(q) : i + 1 \in DOMAIN q /\ i + 1 # 1 /\ Tail(q)[i] = q[i + 1]
  OBVIOUS
<1>3. ASSUME Exclusive(m, q, R), m[Head(q).t] # NoSem
      PROVE  Free(m, Tail(q), R, m[Head(q).t])
  <2>1. ASSUME NEW i \in DOMAIN Tail(q), Holding(Tail(q)[i])
        PROVE  m[Tail(q)[i].t] # m[Head(q).t]
    <3>1. i + 1 \in DOMAIN q /\ i + 1 # 1 /\ Tail(q)[i] = q[i + 1]
      BY <1>2, <2>1, Zenon
    <3>2. ~Same(m, q[1].t, q[i + 1].t)
      BY <1>1, <1>3, <2>1, <3>1, Zenon DEF Exclusive
    <3> QED
      BY <1>1, <1>3, <3>1, <3>2, Zenon DEF Same
  <2>2. ASSUME NEW u \in R PROVE m[u] # m[Head(q).t]
    BY <1>1, <1>3, Zenon DEF Exclusive, Same
  <2> QED
    BY <2>1, <2>2, Zenon DEF Free
<1>4. ASSUME NEW s, Free(m, q, R, s) PROVE m[Head(q).t] # s
  BY <1>1, <1>4, Zenon DEF Free
<1> QED
  BY <1>3, <1>4, Zenon

\* A target whose semaphore nobody holds starts to run; one that ran stops.
LEMMA RunHolds ==
  ASSUME NEW m, NEW q, NEW R, NEW t
  PROVE  /\ Exclusive(m, q, R) /\ (m[t] = NoSem \/ Free(m, q, R, m[t]))
              => Exclusive(m, q, R \cup {t})
         /\ \A s : Free(m, q, R, s) /\ m[t] # s => Free(m, q, R \cup {t}, s)
         /\ Exclusive(m, q, R) => Exclusive(m, q, R \ {t})
         /\ Exclusive(m, q, R) /\ t \in R /\ m[t] # NoSem => Free(m, q, R \ {t}, m[t])
         /\ \A s : Free(m, q, R, s) => Free(m, q, R \ {t}, s)
         /\ \A s : Free(m, q, R, s) /\ t \in R => m[t] # s
<1>1. Exclusive(m, q, R) /\ (m[t] = NoSem \/ Free(m, q, R, m[t]))
        => Exclusive(m, q, R \cup {t})
  BY DEF Exclusive, Free, Same
<1>2. \A s : Free(m, q, R, s) /\ m[t] # s => Free(m, q, R \cup {t}, s)
  BY DEF Free
<1>3. Exclusive(m, q, R) => Exclusive(m, q, R \ {t})
  BY DEF Exclusive
<1>4. Exclusive(m, q, R) /\ t \in R /\ m[t] # NoSem => Free(m, q, R \ {t}, m[t])
  BY DEF Exclusive, Free, Same
<1>5. \A s : Free(m, q, R, s) => Free(m, q, R \ {t}, s)
  BY DEF Free
<1>6. \A s : Free(m, q, R, s) /\ t \in R => m[t] # s
  BY DEF Free
<1> QED
  BY <1>1, <1>2, <1>3, <1>4, <1>5, <1>6

\* What holds of the stack holds of the rest of it, and with states on it that
\* hold nothing: the form in which the handlers' steps use the lemmas above.
LEMMA StackHolds ==
  ASSUME TypeOK, stack # <<>>
  PROVE  /\ Exclusive(semaphore, stack, running) =>
              /\ Exclusive(semaphore, Tail(stack), running)
              /\ Exclusive(semaphore, Popped, running)
         /\ \A s : Free(semaphore, stack, running, s) =>
              /\ Free(semaphore, Tail(stack), running, s)
              /\ Free(semaphore, Popped, running, s)
         /\ \A s : Free(semaphore, Tail(stack), running, s) =>
              Free(semaphore, Popped, running, s)
<1> HIDE DEF States
<1>1. stack \in Seq(States) /\ Tail(stack) \in Seq(States)
  BY StackType DEF TypeOK
<1>2. /\ Exclusive(semaphore, stack, running) => Exclusive(semaphore, Tail(stack), running)
      /\ \A s : Free(semaphore, stack, running, s) => Free(semaphore, Tail(stack), running, s)
  BY <1>1, TailHolds
<1>3. CASE ~intr \/ Tail(stack) = <<>>
  <2>1. Popped = Tail(stack)
    BY <1>3 DEF Popped, Rest
  <2> QED
    BY <1>2, <2>1
<1>4. CASE intr /\ Tail(stack) # <<>>
  <2>1. Popped = Tail(Tail(stack))
    BY <1>4 DEF Popped, Rest
  <2>2. /\ Exclusive(semaphore, Tail(stack), running) =>
             Exclusive(semaphore, Tail(Tail(stack)), running)
        /\ \A s : Free(semaphore, Tail(stack), running, s) =>
             Free(semaphore, Tail(Tail(stack)), running, s)
    BY <1>1, <1>4, TailHolds
  <2> QED
    BY <1>2, <2>1, <2>2
<1> QED
  BY <1>3, <1>4

\* A step that pushes nothing that holds on a stack q that holds no more.
LEMMA NothingTaken ==
  ASSUME SemInv, NEW p \in Seq(States), NEW q \in Seq(States),
         \A i \in DOMAIN p : ~Holding(p[i]),
         Exclusive(semaphore, q, running),
         \A s : Free(semaphore, stack, running, s) => Free(semaphore, q, running, s),
         stack' = p \o q, UNCHANGED <<semaphore, running, semcnt>>,
         pc \in {"crashed", "exited"} => pc' \in {"crashed", "exited"}
  PROVE  SemInv'
<1>1. Exclusive(semaphore, p \o q, running)
  BY PushHolds
<1>2. \A s : Free(semaphore, q, running, s) => Free(semaphore, p \o q, running, s)
  BY PushHolds
<1> QED
  BY <1>1, <1>2 DEF SemInv

\* A handler that sets its next handler keeps what its target holds, or nothing.
LEMMA ContinueHolds ==
  ASSUME TypeOK, stack # <<>>, Exclusive(semaphore, stack, running), NEW c \in Handlers,
         c \in {"MAKE1C", "MAKE1D"} => Holding(top)
  PROVE  /\ Exclusive(semaphore, Continue(c), running)
         /\ \A s : Free(semaphore, stack, running, s) =>
                   Free(semaphore, Continue(c), running, s)
<1>1. stack \in Seq(States) /\ Tail(stack) \in Seq(States)
  BY StackType DEF TypeOK
<1> DEFINE x == [top EXCEPT !.curstate = c, !.status = StatusFor(c)]
<1>2. x \in States /\ x.t = top.t /\ x.curstate = c
  BY StackType DEF States, Statuses, StatusFor
<1>3. /\ Exclusive(semaphore, Tail(stack), running)
      /\ \A s : Free(semaphore, stack, running, s) => Free(semaphore, Tail(stack), running, s)
  BY StackHolds
<1>4. CASE intr
  BY <1>3, <1>4 DEF Continue
<1>5. CASE ~intr
  <2>1. Continue(c) = <<x>> \o Tail(stack)
    BY <1>5 DEF Continue
  <2> HIDE DEF x, States
  <2>2. CASE c \in {"MAKE1C", "MAKE1D"}
    <3>1. Holding(Head(stack)) /\ x.t = Head(stack).t
      BY <1>2, <2>2 DEF top
    <3>2. /\ semaphore[x.t] = NoSem \/ Free(semaphore, Tail(stack), running, semaphore[x.t])
          /\ \A s : Free(semaphore, stack, running, s) => semaphore[x.t] # s
      BY <1>1, <3>1, TopAlone
    <3>3. Exclusive(semaphore, <<x>> \o Tail(stack), running)
      BY <1>1, <1>2, <1>3, <3>2, HolderJoins
    <3>4. \A s : Free(semaphore, Tail(stack), running, s) /\ semaphore[x.t] # s =>
                 Free(semaphore, <<x>> \o Tail(stack), running, s)
      BY <1>1, <1>2, HolderJoins
    <3> QED
      BY <1>3, <2>1, <3>2, <3>3, <3>4
  <2>3. CASE c \notin {"MAKE1C", "MAKE1D"}
    <3>1. <<x>> \in Seq(States) /\ \A i \in DOMAIN <<x>> : ~Holding(<<x>>[i])
      BY <1>2, <2>3 DEF Holding
    <3>2. /\ Exclusive(semaphore, <<x>> \o Tail(stack), running)
          /\ \A s : Free(semaphore, Tail(stack), running, s) =>
                    Free(semaphore, <<x>> \o Tail(stack), running, s)
      BY <1>1, <1>3, <3>1, PushHolds
    <3> QED
      BY <1>3, <2>1, <3>2
  <2> QED
    BY <2>2, <2>3
<1> QED
  BY <1>4, <1>5

\* make1b() takes the semaphore.
LEMMA ReadyHolds == TypeOK /\ SemInv /\ Make1bReady => SemInv'
<1> SUFFICES ASSUME TypeOK, SemInv, Make1bReady PROVE SemInv'
  OBVIOUS
<1> DEFINE m == semaphore
           sem == semaphore[top.t]
           x == [top EXCEPT !.curstate = "MAKE1C", !.status = StatusFor("MAKE1C")]
<1>1. /\ pc = "loop" /\ stack # <<>> /\ ~SemBusy(top.t) /\ stack' = Continue("MAKE1C")
      /\ UNCHANGED <<semaphore, running>>
      /\ semcnt' = IF sem = NoSem \/ pc' # pc THEN semcnt ELSE [semcnt EXCEPT ![sem] = @ + 1]
      /\ pc' # pc => pc' \in {"crashed", "exited"}
  BY DEF Make1bReady, Takes, Handler, exec, given
<1>2. top.t \in Targets /\ Tail(stack) \in Seq(States) /\ sem \in Sems \cup {NoSem}
  BY <1>1, StackType DEF TypeOK
<1>3. /\ Exclusive(m, stack, running)
      /\ \A s \in Sems : /\ semcnt[s] \in {0, 1}
                         /\ semcnt[s] = 0 => Free(m, stack, running, s)
  BY <1>1 DEF SemInv
<1>4. /\ Exclusive(m, Tail(stack), running)
      /\ \A s : Free(m, stack, running, s) => Free(m, Tail(stack), running, s)
  BY <1>1, <1>3, StackHolds
<1>5. sem = NoSem \/ (sem \in Sems /\ semcnt[sem] = 0 /\ Free(m, Tail(stack), running, sem))
  BY <1>1, <1>2, <1>3, <1>4 DEF SemBusy
<1>6. /\ Exclusive(m, stack', running)
      /\ \A s : Free(m, stack, running, s) /\ sem # s => Free(m, stack', running, s)
  <2>1. CASE intr
    BY <1>1, <1>4, <2>1 DEF Continue
  <2>2. CASE ~intr
    <3>1. x \in States /\ x.t = top.t
      BY <1>1, StackType DEF States, Statuses, StatusFor, Handlers
    <3>2. stack' = <<x>> \o Tail(stack)
      BY <1>1, <2>2 DEF Continue
    <3> HIDE DEF x, States
    <3>3. Exclusive(m, <<x>> \o Tail(stack), running)
      BY <1>2, <1>4, <1>5, <3>1, HolderJoins
    <3>4. \A s : Free(m, Tail(stack), running, s) /\ m[x.t] # s =>
                 Free(m, <<x>> \o Tail(stack), running, s)
      BY <1>2, <3>1, HolderJoins
    <3> QED
      BY <1>4, <3>1, <3>2, <3>3, <3>4
  <2> QED
    BY <2>1, <2>2
<1>7. ASSUME pc' \notin {"crashed", "exited"}, NEW s \in Sems
      PROVE  /\ semcnt'[s] \in {0, 1}
             /\ semcnt'[s] = 0 => Free(m, stack', running, s)
  <2>1. semcnt' = IF sem = NoSem THEN semcnt ELSE [semcnt EXCEPT ![sem] = @ + 1]
    BY <1>1, <1>7
  <2>2. semcnt \in [Sems -> Int]
    BY DEF TypeOK
  <2>3. CASE sem = s
    <3>1. semcnt[s] = 0 /\ sem # NoSem
      BY <1>5, <2>3, Make1Assumption
    <3>2. semcnt'[s] = 1
      BY <2>1, <2>2, <2>3, <3>1
    <3> QED
      BY <3>2
  <2>4. CASE sem # s
    <3>1. semcnt'[s] = semcnt[s]
      BY <2>1, <2>2, <2>4
    <3> QED
      BY <1>3, <1>6, <2>4, <3>1
  <2> QED
    BY <2>3, <2>4
<1> HIDE DEF sem
<1> QED
  BY <1>1, <1>6, <1>7 DEF SemInv

\* A launched command holds its target's semaphore until it completes.
LEMMA LaunchHolds == TypeOK /\ SemInv /\ (Make1cLaunch \/ AnyComplete) => SemInv'
<1>1. ASSUME TypeOK, SemInv, Make1cLaunch PROVE SemInv'
  <2> DEFINE m == semaphore
             t == top.t
  <2>1. /\ stack # <<>> /\ Holding(Head(stack)) /\ t = Head(stack).t /\ pc = "loop"
        /\ stack' = Popped /\ running' = running \cup {t}
        /\ UNCHANGED <<semaphore, semcnt>>
    BY <1>1 DEF Make1cLaunch, Handler, Holding, given, top
  <2>2. stack \in Seq(States)
    BY <1>1 DEF TypeOK
  <2>3. /\ Exclusive(m, Popped, running)
        /\ \A s : Free(m, stack, running, s) => Free(m, Popped, running, s)
        /\ \A s : Free(m, Tail(stack), running, s) => Free(m, Popped, running, s)
    BY <1>1, <2>1, StackHolds DEF SemInv
  <2>4. /\ m[t] = NoSem \/ Free(m, Tail(stack), running, m[t])
        /\ \A s : Free(m, stack, running, s) => m[t] # s
    BY <1>1, <2>1, <2>2, TopAlone DEF SemInv
  <2> HIDE DEF t
  <2>5. Exclusive(m, Popped, running \cup {t})
    BY <2>3, <2>4, RunHolds
  <2>6. \A s : Free(m, Popped, running, s) /\ m[t] # s => Free(m, Popped, running \cup {t}, s)
    BY RunHolds
  <2>7. \A s : Free(m, stack, running, s) => Free(m, Popped, running \cup {t}, s)
    BY <2>3, <2>4, <2>6
  <2> QED
    BY <1>1, <2>1, <2>5, <2>7 DEF SemInv
<1>2. ASSUME TypeOK, SemInv, NEW t \in Targets, NEW st \in {EXEC_CMD_OK, EXEC_CMD_FAIL},
             Complete(t, st)
      PROVE  SemInv'
  <2> DEFINE m == semaphore
             x == [State(t, NoTarget, "MAKE1D") EXCEPT
                     !.status = IF sigint THEN EXEC_CMD_INTR ELSE st]
  <2>1. x \in States /\ x.t = t
    BY DEF State, States, Statuses, Handlers
  <2>2. /\ stack' = <<x>> \o stack /\ running' = running \ {t} /\ t \in running
        /\ pc = "exec_wait" /\ UNCHANGED <<semaphore, semcnt>>
    BY <1>2 DEF Complete, given
  <2> HIDE DEF x, States
  <2>3. stack \in Seq(States) /\ Exclusive(m, stack, running)
    BY <1>2 DEF TypeOK, SemInv
  <2>4. /\ Exclusive(m, stack, running \ {t})
        /\ m[t] = NoSem \/ Free(m, stack, running \ {t}, m[t])
        /\ \A s : Free(m, stack, running, s) => Free(m, stack, running \ {t}, s) /\ m[t] # s
    BY <2>2, <2>3, RunHolds
  <2>5. Exclusive(m, <<x>> \o stack, running \ {t})
    BY <2>1, <2>3, <2>4, HolderJoins
  <2>6. \A s : Free(m, stack, running \ {t}, s) /\ m[x.t] # s =>
               Free(m, <<x>> \o stack, running \ {t}, s)
    BY <2>1, <2>3, HolderJoins
  <2>7. \A s : Free(m, stack, running, s) => Free(m, <<x>> \o stack, running \ {t}, s)
    BY <2>1, <2>4, <2>6
  <2> QED
    BY <1>2, <2>2, <2>5, <2>7 DEF SemInv
<1> QED
  BY <1>1, <1>2 DEF AnyComplete

\* What make1c() pushes holds nothing.
LEMMA ToldHolds ==
  ASSUME TypeOK, NEW t \in Targets, NEW inc \in Targets \cup {NoTarget}
  PROVE  /\ TellParents(t, inc) \o Release(t) \in Seq(States)
         /\ \A i \in DOMAIN (TellParents(t, inc) \o Release(t)) :
              ~Holding((TellParents(t, inc) \o Release(t))[i])
<1> DEFINE Calm(q) == \A i \in DOMAIN q : ~Holding(q[i])
<1>1. \A p, q \in Seq(States) : Calm(p) /\ Calm(q) => Calm(p \o q)
  <2> HIDE DEF States
  <2> SUFFICES ASSUME NEW p \in Seq(States), NEW q \in Seq(States), Calm(p), Calm(q),
                      NEW i \in DOMAIN (p \o q)
               PROVE  ~Holding((p \o q)[i])
    OBVIOUS
  <2>1. CASE i \in DOMAIN p
    <3>1. (p \o q)[i] = p[i]
      BY <2>1
    <3> QED
      BY <2>1, <3>1
  <2>2. CASE i \notin DOMAIN p
    <3>1. (p \o q)[i] = q[i - Len(p)] /\ i - Len(p) \in DOMAIN q
      BY <2>2
    <3> QED
      BY <3>1
  <2> QED
    BY <2>1, <2>2
<1>2. TellParents(t, inc) \in Seq(States) /\ Release(t) \in Seq(States)
  BY TellParentsType
<1>3. Calm(TellParents(t, inc))
  <2> DEFINE ps == parents[t]
             told == [i \in DOMAIN ps |-> State(ps[i], NoTarget, "MAKE1B")]
             news == [i \in DOMAIN ps |-> State(inc, ps[i], "MAKE1A")]
  <2>1. ps \in Seq(Targets)
    BY DEF TypeOK
  <2>2. TellParents(t, inc) = (IF inc = NoTarget THEN <<>> ELSE news) \o told
    BY DEF TellParents
  <2> HIDE DEF ps
  <2>3. Calm(told) /\ Calm(news) /\ Calm(<<>>)
    BY DEF Holding, State
  <2>4. told \in Seq(States) /\ (inc # NoTarget => news \in Seq(States))
    BY <2>1, PushedType DEF Handlers
  <2> HIDE DEF told, news, Calm, States
  <2>5. CASE inc = NoTarget
    BY <2>2, <2>3, <2>4, <2>5
  <2>6. CASE inc # NoTarget
    BY <1>1, <2>2, <2>3, <2>4, <2>6
  <2> QED
    BY <2>5, <2>6
<1>4. Calm(Release(t))
  BY DEF Release, Holding, State
<1> HIDE DEF States
<1>5. TellParents(t, inc) \o Release(t) \in Seq(States)
  BY <1>2
<1>6. Calm(TellParents(t, inc) \o Release(t))
  <2> HIDE DEF Calm
  <2> QED
    BY <1>1, <1>2, <1>3, <1>4
<1> QED
  BY <1>5, <1>6

\* make1c() gives the semaphore back.
LEMMA DoneHolds == TypeOK /\ SemInv /\ Make1cDone => SemInv'
<1> SUFFICES ASSUME TypeOK, SemInv, Make1cDone PROVE SemInv'
  OBVIOUS
<1> DEFINE m == semaphore
           t == top.t
           inc == IF Rescans(t, ActionsStatus(t)) THEN Headers[t] ELSE NoTarget
           p == TellParents(t, inc) \o Release(t)
<1>1. /\ stack # <<>> /\ Holding(Head(stack)) /\ t = Head(stack).t /\ pc = "loop"
      /\ UNCHANGED <<semaphore, running>>
  BY DEF Make1cDone, Handler, Holding, given, exec, top
<1>2. stack \in Seq(States) /\ t \in Targets /\ Popped \in Seq(States)
  BY <1>1, StackType DEF TypeOK
<1>3. \/ pc' = "crashed" /\ UNCHANGED <<stack, semcnt, semwait>>
      \/ /\ pc' = pc
         /\ stack' = TellParents(t, inc) \o Release(t) \o Popped
         /\ semcnt' = [s \in Sems |-> IF s = m[t] THEN semcnt[s] - 1 ELSE semcnt[s]]
  BY DEF Make1cDone
<1>4. CASE pc' = "crashed" /\ UNCHANGED <<stack, semcnt, semwait>>
  BY <1>1, <1>4 DEF SemInv
<1>5. CASE /\ pc' = pc
           /\ stack' = TellParents(t, inc) \o Release(t) \o Popped
           /\ semcnt' = [s \in Sems |-> IF s = m[t] THEN semcnt[s] - 1 ELSE semcnt[s]]
  <2>1. inc \in Targets \cup {NoTarget}
    BY <1>2, Make1Assumption
  <2> HIDE DEF inc, t
  <2>2. p \in Seq(States) /\ \A i \in DOMAIN p : ~Holding(p[i])
    BY <1>2, <2>1, ToldHolds
  <2>3. stack' = p \o Popped
    BY <1>5
  <2> HIDE DEF p, States
  <2>4. /\ Exclusive(m, stack, running)
        /\ Exclusive(m, Popped, running)
        /\ \A s : Free(m, stack, running, s) => Free(m, Popped, running, s)
        /\ \A s : Free(m, Tail(stack), running, s) => Free(m, Popped, running, s)
    BY <1>1, StackHolds DEF SemInv
  <2>5. /\ m[t] = NoSem \/ Free(m, Tail(stack), running, m[t])
        /\ \A s : Free(m, stack, running, s) => m[t] # s
    BY <1>1, <1>2, <2>4, TopAlone
  <2>6. /\ Exclusive(m, p \o Popped, running)
        /\ \A s : Free(m, Popped, running, s) => Free(m, p \o Popped, running, s)
    BY <1>2, <2>2, <2>4, PushHolds
  <2>7. ASSUME NEW s \in Sems
        PROVE  /\ semcnt'[s] \in {0, 1}
               /\ semcnt'[s] = 0 => Free(m, p \o Popped, running, s)
    <3>1. semcnt[s] \in {0, 1} /\ (semcnt[s] = 0 => Free(m, stack, running, s))
      BY <1>1 DEF SemInv
    <3>2. CASE s = m[t]
      <4>1. semcnt[s] = 1
        BY <2>5, <3>1, <3>2
      <4>2. semcnt'[s] = 0
        BY <1>5, <3>2, <4>1
      <4>3. Free(m, p \o Popped, running, s)
        BY <2>4, <2>5, <2>6, <3>2, Make1Assumption
      <4> QED
        BY <4>2, <4>3
    <3>3. CASE s # m[t]
      <4>1. semcnt'[s] = semcnt[s]
        BY <1>5, <3>3
      <4> QED
        BY <2>4, <2>6, <3>1, <4>1
    <3> QED
      BY <3>2, <3>3
  <2> QED
    BY <1>1, <2>3, <2>6, <2>7 DEF SemInv
<1> QED
  BY <1>3, <1>4, <1>5

\* The handlers that neither take nor release a semaphore.
LEMMA OthersHold ==
  TypeOK /\ SemInv /\ (\/ Make1aSeen \/ Make1aStart \/ Make1atail \/ Make1bWait
                       \/ Make1bSemaphore \/ Make1cNoExec \/ Make1d) => SemInv'
<1>1. ASSUME TypeOK, SemInv, Make1aSeen \/ Make1bWait \/ Make1bSemaphore PROVE SemInv'
  <2>1. /\ stack # <<>> /\ pc' = pc /\ UNCHANGED <<semaphore, running, semcnt>>
        /\ stack' = Popped
    BY <1>1 DEF Make1aSeen, Make1bWait, Make1bSemaphore, Handler, given, exec
  <2>2. /\ Exclusive(semaphore, Popped, running)
        /\ \A s : Free(semaphore, stack, running, s) => Free(semaphore, Popped, running, s)
    BY <1>1, <2>1, StackHolds DEF SemInv
  <2> QED
    BY <1>1, <2>1, <2>2 DEF SemInv
<1>2. ASSUME TypeOK, SemInv, Make1atail \/ Make1cNoExec \/ Make1d PROVE SemInv'
  <2>1. /\ stack # <<>> /\ pc' = pc /\ UNCHANGED <<semaphore, running, semcnt>>
    BY <1>2 DEF Make1atail, Make1cNoExec, Make1d, Handler, given, exec
  <2>2. PICK c \in Handlers : /\ stack' = Continue(c)
                              /\ c \in {"MAKE1C", "MAKE1D"} => Holding(top)
    BY <1>2 DEF Make1atail, Make1cNoExec, Make1d, Handler, Handlers, Holding, top
  <2>3. Exclusive(semaphore, stack, running)
    BY <1>2 DEF SemInv
  <2>4. /\ Exclusive(semaphore, Continue(c), running)
        /\ \A s : Free(semaphore, stack, running, s) =>
                  Free(semaphore, Continue(c), running, s)
    BY <1>2, <2>1, <2>2, <2>3, ContinueHolds
  <2> QED
    BY <1>2, <2>1, <2>2, <2>4 DEF SemInv
<1>3. ASSUME TypeOK, SemInv, Make1aStart PROVE SemInv'
  <2> DEFINE deps == depends[top.t] \o NewIncludes(depends[top.t])
             pushed == [i \in DOMAIN deps |-> State(deps[i], top.t, "MAKE1A")]
             q == Continue("MAKE1ATAIL")
  <2>1. /\ stack # <<>> /\ pc' = pc /\ UNCHANGED <<semaphore, running, semcnt>>
        /\ stack' = IF intr THEN q ELSE pushed \o q
    BY <1>3 DEF Make1aStart, Handler, given, exec
  <2>2. top.t \in Targets /\ q \in Seq(States)
    BY <1>3, <2>1, StackType, ContinueType DEF Handlers
  <2>3. deps \in Seq(Targets)
    <3>1. depends[top.t] \in Seq(Targets)
      BY <1>3, <2>2 DEF TypeOK
    <3> QED
      BY <1>3, <3>1, NewIncludesType
  <2> HIDE DEF deps
  <2>4. pushed \in Seq(States) /\ \A i \in DOMAIN pushed : ~Holding(pushed[i])
    <3>1. pushed \in Seq(States)
      BY <2>2, <2>3, PushedType DEF Handlers
    <3> QED
      BY <3>1 DEF Holding, State
  <2>5. /\ Exclusive(semaphore, q, running)
        /\ \A s : Free(semaphore, stack, running, s) => Free(semaphore, q, running, s)
    BY <1>3, <2>1, ContinueHolds DEF SemInv, Handlers
  <2> HIDE DEF pushed, q, States
  <2>6. CASE intr
    BY <1>3, <2>1, <2>5, <2>6 DEF SemInv
  <2>7. CASE ~intr
    <3>1. stack' = pushed \o q
      BY <2>1, <2>7
    <3> QED
      BY <1>3, <2>1, <2>2, <2>4, <2>5, <3>1, NothingTaken
  <2> QED
    BY <2>6, <2>7
<1> QED
  BY <1>1, <1>2, <1>3

\* Waiting, the signal, and the next root: nothing changes hands.
LEMMA WaitHolds ==
  SemInv /\ (ExecWait \/ ExecReturn \/ Interrupt \/ Make1Return \/ Ended) => SemInv'
<1>1. ASSUME SemInv, ExecWait \/ ExecReturn \/ Interrupt \/ Ended PROVE SemInv'
  <2>1. /\ UNCHANGED <<semaphore, running, semcnt, stack>>
        /\ pc \in {"crashed", "exited"} => pc' \in {"crashed", "exited"}
    BY <1>1 DEF ExecWait, ExecReturn, Interrupt, Ended, vars, given, exec
  <2> QED
    BY <1>1, <2>1 DEF SemInv
<1>2. ASSUME SemInv, Make1Return PROVE SemInv'
  <2>1. /\ UNCHANGED <<semaphore, running, semcnt>> /\ pc = "loop" /\ stack = <<>>
        /\ \/ stack' = stack
           \/ stack' = <<State(Roots[root + 1], NoTarget, "MAKE1A")>>
    BY <1>2 DEF Make1Return, given, exec
  <2>2. \A i \in DOMAIN stack' : ~Holding(stack'[i])
    BY <2>1 DEF Holding, State
  <2>3. Exclusive(semaphore, stack', running)
    BY <1>2, <2>2 DEF SemInv, Exclusive
  <2>4. \A s : Free(semaphore, stack, running, s) => Free(semaphore, stack', running, s)
    BY <2>2 DEF Free
  <2> QED
    BY <1>2, <2>1, <2>3, <2>4 DEF SemInv
<1> QED
  BY <1>1, <1>2

\* Every step keeps SemInv.
LEMMA SemStep == TypeOK /\ SemInv /\ [Next]_vars => SemInv'
<1> SUFFICES ASSUME TypeOK, SemInv, [Next]_vars PROVE SemInv'
  OBVIOUS
<1>1. CASE UNCHANGED vars
  BY <1>1 DEF SemInv, vars, given, exec
<1>2. CASE Next
  BY <1>2, ReadyHolds, LaunchHolds, DoneHolds, OthersHold, WaitHolds DEF Next, Loop
<1> QED
  BY <1>1, <1>2

\* No semaphore is held before make1() starts.
LEMMA InitSem == Init => SemInv
<1> SUFFICES ASSUME Init PROVE SemInv
  OBVIOUS
<1>1. running = {} /\ \A i \in DOMAIN stack : ~Holding(stack[i])
  BY DEF Init, Holding, State
<1>2. \A s \in Sems : semcnt[s] = 0
  BY DEF Init
<1> QED
  BY <1>1, <1>2 DEF SemInv, Exclusive, Free

\* make1c() gives back only what its target has taken.
LEMMA SemGivenBack == TypeOK /\ SemInv /\ Make1cDone => GivesBack
<1> SUFFICES ASSUME TypeOK, SemInv, Make1cDone, NEW s \in Sems, s = semaphore[top.t]
             PROVE  semcnt[s] = 1
  BY DEF GivesBack
<1>1. /\ pc = "loop" /\ stack \in Seq(States) /\ stack # <<>>
      /\ Holding(stack[1]) /\ top = stack[1]
  BY DEF TypeOK, Make1cDone, Handler, Holding, top
<1>2. 1 \in DOMAIN stack
  BY <1>1
<1>3. ~Free(semaphore, stack, running, s)
  BY <1>1, <1>2 DEF Free
<1> QED
  BY <1>1, <1>3 DEF SemInv

\* Every step keeps the types and who holds what.
LEMMA TypeStep == TypeOK /\ SemInv /\ [Next]_vars => TypeOK' /\ SemInv'
BY NextType, SemGivenBack, SemStep

(***************************************************************************)
(* Every state of make1() is well typed: its stack holds states of real    *)
(* targets only, make1d() finds a status in its state, the chains stay     *)
(* chains, and a semaphore's count is 0 or 1: it is never taken twice, and *)
(* never given back by a target that did not take it.                      *)
(***************************************************************************)
THEOREM TypeCorrect == Spec => []TypeOK
<1> QED
  BY InitType, InitSem, TypeStep, PTL DEF Spec

(***************************************************************************)
(* Targets that share a semaphore are never updated at the same time:      *)
(* "the semaphore ... used to serialize" of make1b() and make1c() works    *)
(* for any number of jobs, targets and semaphores, interrupted or not.     *)
(***************************************************************************)
THEOREM SemaphoresExclude == Spec => []SemaphoreExclusion
<1>1. SemInv => SemaphoreExclusion
  BY DEF SemInv, Exclusive, Same, SemaphoreExclusion
<1> QED
  BY <1>1, InitType, InitSem, TypeStep, PTL DEF Spec

-----------------------------------------------------------------------------
(***************************************************************************)
(* After an interrupt nothing starts.  make1c() can start a command when   *)
(* its state is on top, so MAKE1C must never wait below another state: it  *)
(* would be resumed after the interrupt, its target's status still good.   *)
(***************************************************************************)

\* No state of the sequence is about to launch a command.
NoLaunch(q) == \A i \in DOMAIN q : q[i].curstate # "MAKE1C"

IntrInv ==
  /\ stack # <<>> => NoLaunch(Tail(stack))
  /\ pc = "exec_wait" => NoLaunch(stack)
  /\ pc = "loop" /\ intr /\ stack # <<>> /\ top.curstate = "MAKE1C" =>
       status[top.t] # EXEC_CMD_OK

\* States put in front, and states taken away.
LEMMA NoLaunchStack ==
  /\ \A p, q \in Seq(States) : NoLaunch(p) /\ NoLaunch(q) => NoLaunch(p \o q)
  /\ \A q \in Seq(States) : q # <<>> /\ NoLaunch(q) => NoLaunch(Tail(q))
  /\ \A q \in Seq(States) : NoLaunch(q) => NoLaunch(Rest(q))
  /\ \A x \in States, q \in Seq(States) :
       NoLaunch(q) => NoLaunch(Tail(<<x>> \o q)) /\ Head(<<x>> \o q) = x
                      /\ (x.curstate # "MAKE1C" => NoLaunch(<<x>> \o q))
  /\ NoLaunch(<<>>)
<1> HIDE DEF States
<1>1. ASSUME NEW p \in Seq(States), NEW q \in Seq(States), NoLaunch(p), NoLaunch(q)
      PROVE  NoLaunch(p \o q)
  <2>1. ASSUME NEW i \in DOMAIN (p \o q) PROVE (p \o q)[i].curstate # "MAKE1C"
    <3>1. CASE i \in DOMAIN p
      <4>1. (p \o q)[i] = p[i]
        BY <3>1
      <4> QED
        BY <1>1, <3>1, <4>1 DEF NoLaunch
    <3>2. CASE i \notin DOMAIN p
      <4>1. (p \o q)[i] = q[i - Len(p)] /\ i - Len(p) \in DOMAIN q
        BY <3>2
      <4> QED
        BY <1>1, <4>1 DEF NoLaunch
    <3> QED
      BY <3>1, <3>2
  <2> QED
    BY <2>1 DEF NoLaunch
<1>2. ASSUME NEW q \in Seq(States), q # <<>>, NoLaunch(q) PROVE NoLaunch(Tail(q))
  <2>1. ASSUME NEW i \in DOMAIN Tail(q) PROVE Tail(q)[i] = q[i + 1] /\ i + 1 \in DOMAIN q
    BY <1>2
  <2> QED
    BY <1>2, <2>1 DEF NoLaunch
<1>3. NoLaunch(<<>>)
  BY DEF NoLaunch
<1>4. ASSUME NEW x \in States, NEW q \in Seq(States), NoLaunch(q)
      PROVE  /\ NoLaunch(Tail(<<x>> \o q)) /\ Head(<<x>> \o q) = x
             /\ x.curstate # "MAKE1C" => NoLaunch(<<x>> \o q)
  <2>1. Tail(<<x>> \o q) = q /\ Head(<<x>> \o q) = x
    OBVIOUS
  <2>2. <<x>> \in Seq(States) /\ (x.curstate # "MAKE1C" => NoLaunch(<<x>>))
    BY DEF NoLaunch
  <2> QED
    BY <1>1, <1>4, <2>1, <2>2
<1> QED
  BY <1>1, <1>2, <1>3, <1>4 DEF Rest

\* It is enough that no state on the new stack is about to launch.
LEMMA QuietStack ==
  ASSUME stack' \in Seq(States), NoLaunch(stack')
  PROVE  IntrInv'
<1>1. stack' # <<>> => NoLaunch(Tail(stack'))
  BY NoLaunchStack
<1>2. stack' # <<>> => Head(stack').curstate # "MAKE1C"
  <2>1. stack' # <<>> => 1 \in DOMAIN stack' /\ Head(stack') = stack'[1]
    OBVIOUS
  <2> QED
    BY <2>1 DEF NoLaunch
<1> QED
  BY <1>1, <1>2 DEF IntrInv, top

\* A handler's own pops and replacements bring no launch to the top.
LEMMA QuietHandler ==
  ASSUME TypeOK, IntrInv, stack # <<>>
  PROVE  /\ NoLaunch(Tail(stack)) /\ NoLaunch(Popped)
         /\ \A c \in Handlers \ {"MAKE1C"} : NoLaunch(Continue(c))
         /\ \A c \in Handlers : intr => NoLaunch(Continue(c))
<1>1. Tail(stack) \in Seq(States) /\ NoLaunch(Tail(stack))
  BY StackType DEF IntrInv
<1>2. NoLaunch(Popped)
  BY <1>1, NoLaunchStack DEF Popped
<1>3. ASSUME NEW c \in Handlers, c # "MAKE1C" PROVE NoLaunch(Continue(c))
  <2> DEFINE x == [top EXCEPT !.curstate = c, !.status = StatusFor(c)]
  <2>1. x \in States /\ x.curstate = c
    BY StackType DEF States, Statuses, StatusFor
  <2> HIDE DEF x, States
  <2>2. NoLaunch(<<x>> \o Tail(stack))
    BY <1>1, <1>3, <2>1, NoLaunchStack
  <2> QED
    BY <1>1, <2>2 DEF Continue, x
<1>4. ASSUME NEW c \in Handlers, intr PROVE NoLaunch(Continue(c))
  BY <1>1, <1>4 DEF Continue
<1> QED
  BY <1>1, <1>2, <1>3, <1>4

\* States pushed for a sequence of targets launch nothing.
LEMMA QuietPushed ==
  ASSUME NEW q \in Seq(Targets), NEW p, NEW c \in Handlers, c # "MAKE1C"
  PROVE  /\ NoLaunch([i \in DOMAIN q |-> State(q[i], p, c)])
         /\ NoLaunch([i \in DOMAIN q |-> State(p, q[i], c)])
BY DEF NoLaunch, State

\* After an interrupt no step launches, and every step keeps IntrInv.
LEMMA IntrStep ==
  TypeOK /\ TypeOK' /\ IntrInv /\ [Next]_vars => IntrInv' /\ (intr => Launched = {})
<1> SUFFICES ASSUME TypeOK, TypeOK', IntrInv, [Next]_vars
             PROVE  IntrInv' /\ (intr => Launched = {})
  OBVIOUS
<1>0. stack' \in Seq(States)
  BY DEF TypeOK
<1>1. CASE UNCHANGED vars
  <2>1. UNCHANGED <<stack, pc, intr, status, running>>
    BY <1>1 DEF vars, exec
  <2> QED
    BY <2>1 DEF IntrInv, NoLaunch, top, Launched
<1>2. CASE Make1aSeen \/ Make1bWait \/ Make1bSemaphore
  <2>1. NoLaunch(stack') /\ running' = running
    BY <1>2, QuietHandler
    DEF Make1aSeen, Make1bWait, Make1bSemaphore, Handler, exec
  <2> QED
    BY <1>0, <2>1, QuietStack DEF Launched
<1>3. CASE Make1aStart
  <2> DEFINE deps == depends[top.t] \o NewIncludes(depends[top.t])
             pushed == [i \in DOMAIN deps |-> State(deps[i], top.t, "MAKE1A")]
  <2>1. top.t \in Targets /\ stack # <<>>
    BY <1>3, StackType DEF Make1aStart, Handler
  <2>2. Continue("MAKE1ATAIL") \in Seq(States) /\ NoLaunch(Continue("MAKE1ATAIL"))
    BY <2>1, ContinueType, QuietHandler DEF Handlers
  <2>3. deps \in Seq(Targets)
    <3>1. depends[top.t] \in Seq(Targets)
      BY <2>1 DEF TypeOK
    <3> QED
      BY <3>1, NewIncludesType
  <2> HIDE DEF deps
  <2>4. pushed \in Seq(States) /\ NoLaunch(pushed)
    BY <2>1, <2>3, PushedType, QuietPushed DEF Handlers
  <2>5. stack' = (IF intr THEN Continue("MAKE1ATAIL")
                  ELSE pushed \o Continue("MAKE1ATAIL")) /\ running' = running
    BY <1>3 DEF Make1aStart, deps, exec
  <2> HIDE DEF pushed
  <2>6. NoLaunch(stack')
    BY <2>2, <2>4, <2>5, NoLaunchStack
  <2> QED
    BY <1>0, <2>5, <2>6, QuietStack DEF Launched
<1>4. CASE Make1atail \/ Make1cNoExec
  <2>1. NoLaunch(stack') /\ running' = running
    BY <1>4, QuietHandler DEF Make1atail, Make1cNoExec, Handler, Handlers, exec
  <2> QED
    BY <1>0, <2>1, QuietStack DEF Launched
<1> DEFINE x == [top EXCEPT !.curstate = "MAKE1C", !.status = StatusFor("MAKE1C")]
<1>5. ASSUME stack # <<>>, ~intr, stack' = Continue("MAKE1C")
      PROVE  /\ NoLaunch(Tail(stack'))
             /\ stack' # <<>> /\ Head(stack').t = top.t
  <2>1. x \in States /\ x.t = top.t
    BY <1>5, StackType DEF States, Statuses, StatusFor, Handlers
  <2>2. stack' = <<x>> \o Tail(stack) /\ Tail(stack) \in Seq(States)
    BY <1>5, StackType DEF Continue
  <2> HIDE DEF x, States
  <2>3. NoLaunch(Tail(<<x>> \o Tail(stack))) /\ Head(<<x>> \o Tail(stack)) = x
    BY <1>5, <2>1, <2>2, QuietHandler, NoLaunchStack
  <2> QED
    BY <2>1, <2>2, <2>3
<1>6. CASE Make1bReady
  <2>1. stack # <<>> /\ pc = "loop" /\ intr' = intr /\ running' = running
    BY <1>6 DEF Make1bReady, Handler, exec
  <2>2. stack' = Continue("MAKE1C") /\ pc' # "exec_wait"
    BY <1>6, <2>1 DEF Make1bReady
  <2>3. CASE intr
    <3>1. NoLaunch(stack')
      BY <2>1, <2>2, <2>3, QuietHandler DEF Handlers
    <3> QED
      BY <1>0, <2>1, <3>1, QuietStack DEF Launched
  <2>4. CASE ~intr
    BY <1>5, <2>1, <2>2, <2>4 DEF IntrInv, Launched
  <2> QED
    BY <2>3, <2>4
<1>7. CASE Make1d
  <2>1. stack # <<>> /\ pc = "loop" /\ pc' = pc /\ running' = running
    BY <1>7 DEF Make1d, Handler, exec
  <2>2. stack' = Continue("MAKE1C")
    BY <1>7 DEF Make1d
  <2>3. CASE intr
    <3>1. NoLaunch(stack')
      BY <2>1, <2>2, <2>3, QuietHandler DEF Handlers
    <3> QED
      BY <1>0, <2>1, <3>1, QuietStack DEF Launched
  <2>4. CASE ~intr
    <3> DEFINE st == Judged(top.t, top.status)
    <3>1. top.t \in Targets
      BY <2>1, StackType
    <3>2. /\ intr' = (intr \/ st = EXEC_CMD_INTR \/ (st = EXEC_CMD_FAIL /\ globs.quitquick))
          /\ status' = [status EXCEPT ![top.t] = st]
      BY <1>7 DEF Make1d
    <3> HIDE DEF st
    <3>3. status'[top.t] = st
      <4>1. status \in [Targets -> Statuses]
        BY DEF TypeOK
      <4> QED
        BY <3>1, <3>2, <4>1
    <3>4. intr' => st # EXEC_CMD_OK
      <4>1. intr' => st = EXEC_CMD_INTR \/ st = EXEC_CMD_FAIL
        BY <2>4, <3>2, Zenon
      <4> QED
        BY <4>1 DEF EXEC_CMD_INTR, EXEC_CMD_FAIL, EXEC_CMD_OK
    <3>5. Head(stack').t = top.t /\ NoLaunch(Tail(stack'))
      BY <1>5, <2>1, <2>2, <2>4
    <3> QED
      BY <2>1, <2>4, <3>3, <3>4, <3>5 DEF IntrInv, Launched, top
  <2> QED
    BY <2>3, <2>4
<1>8. CASE Make1cLaunch
  <2>1. /\ pc = "loop" /\ stack # <<>> /\ top.curstate = "MAKE1C"
        /\ HasCommand(top.t) /\ stack' = Popped
    BY <1>8 DEF Make1cLaunch, Handler, top
  <2>2. ~intr
    BY <2>1 DEF IntrInv, HasCommand
  <2>3. NoLaunch(stack')
    BY <2>1, QuietHandler
  <2> QED
    BY <1>0, <2>2, <2>3, QuietStack
<1>9. CASE Make1cDone
  <2>1. stack # <<>> /\ top.t \in Targets /\ running' = running
    BY <1>9, StackType DEF Make1cDone, Handler, exec
  <2> DEFINE inc == IF Rescans(top.t, ActionsStatus(top.t)) THEN Headers[top.t]
                    ELSE NoTarget
  <2>2. CASE pc' = "crashed" /\ stack' = stack
    <3>1. IntrInv'
      BY <2>1, <2>2 DEF IntrInv
    <3> QED
      BY <2>1, <3>1 DEF Launched
  <2>3. CASE stack' = TellParents(top.t, inc) \o Release(top.t) \o Popped
    <3>1. inc \in Targets \cup {NoTarget}
      BY <2>1, Make1Assumption
    <3>2. TellParents(top.t, inc) \in Seq(States) /\ Release(top.t) \in Seq(States)
      BY <2>1, <3>1, TellParentsType
    <3> HIDE DEF inc
    <3>3. NoLaunch(TellParents(top.t, inc))
      <4> DEFINE ps == parents[top.t]
                 told == [i \in DOMAIN ps |-> State(ps[i], NoTarget, "MAKE1B")]
                 news == [i \in DOMAIN ps |-> State(inc, ps[i], "MAKE1A")]
      <4>1. ps \in Seq(Targets)
        BY <2>1 DEF TypeOK
      <4>2. TellParents(top.t, inc) = (IF inc = NoTarget THEN <<>> ELSE news) \o told
        BY DEF TellParents
      <4> HIDE DEF ps
      <4>3. told \in Seq(States) /\ NoLaunch(told) /\ NoLaunch(news)
        BY <4>1, PushedType, QuietPushed DEF Handlers
      <4>4. inc # NoTarget => news \in Seq(States)
        BY <3>1, <4>1, PushedType DEF Handlers
      <4> HIDE DEF told, news
      <4>5. CASE inc = NoTarget
        BY <4>2, <4>3, <4>5
      <4>6. CASE inc # NoTarget
        BY <4>2, <4>3, <4>4, <4>6, NoLaunchStack
      <4> QED
        BY <4>5, <4>6
    <3>4. NoLaunch(Release(top.t))
      BY DEF Release, NoLaunch, State
    <3>5. Popped \in Seq(States) /\ NoLaunch(Popped)
      BY <2>1, StackType, QuietHandler
    <3>6. NoLaunch(stack')
      <4>1. /\ TellParents(top.t, inc) \o Release(top.t) \in Seq(States)
            /\ NoLaunch(TellParents(top.t, inc) \o Release(top.t))
        BY <3>2, <3>3, <3>4, NoLaunchStack
      <4> QED
        BY <2>3, <3>5, <4>1, NoLaunchStack
    <3> QED
      BY <1>0, <2>1, <3>6, QuietStack DEF Launched
  <2> QED
    BY <1>9, <2>2, <2>3 DEF Make1cDone
<1>10. CASE ExecWait \/ ExecReturn \/ Interrupt \/ Ended
  <2>1. CASE ExecWait
    BY <1>0, <2>1, NoLaunchStack, QuietStack DEF ExecWait, Launched, exec
  <2>2. CASE ExecReturn
    BY <1>0, <2>2, QuietStack DEF ExecReturn, IntrInv, Launched, exec
  <2>3. CASE Interrupt \/ Ended
    <3>1. /\ UNCHANGED <<stack, intr, status, pc>>
          /\ running' = running
      BY <2>3 DEF Interrupt, Ended, vars, exec
    <3> QED
      BY <3>1 DEF IntrInv, Launched, top
  <2> QED
    BY <1>10, <2>1, <2>2, <2>3
<1>11. CASE AnyComplete
  <2>1. PICK t \in Targets, st \in {EXEC_CMD_OK, EXEC_CMD_FAIL} : Complete(t, st)
    BY <1>11 DEF AnyComplete
  <2> DEFINE y == [State(t, NoTarget, "MAKE1D") EXCEPT
                     !.status = IF sigint THEN EXEC_CMD_INTR ELSE st]
  <2>2. y \in States /\ y.curstate = "MAKE1D"
    BY DEF State, States, Statuses, Handlers
  <2>3. /\ stack' = <<y>> \o stack /\ NoLaunch(stack) /\ stack \in Seq(States)
        /\ running' \subseteq running
    BY <2>1 DEF Complete, IntrInv, TypeOK
  <2> HIDE DEF y, States
  <2>4. NoLaunch(stack')
    BY <2>2, <2>3, NoLaunchStack
  <2> QED
    BY <1>0, <2>3, <2>4, QuietStack DEF Launched
<1>12. CASE Make1Return
  <2>1. running' = running
    BY <1>12 DEF Make1Return, exec
  <2>2. CASE root < Len(Roots)
    <3>1. stack' = <<State(Roots[root + 1], NoTarget, "MAKE1A")>>
      BY <1>12, <2>2 DEF Make1Return
    <3>2. NoLaunch(stack')
      BY <3>1 DEF NoLaunch, State
    <3> QED
      BY <1>0, <2>1, <3>2, QuietStack DEF Launched
  <2>3. CASE ~(root < Len(Roots))
    <3>1. stack' = <<>>
      BY <1>12, <2>3 DEF Make1Return
    <3> QED
      BY <1>0, <2>1, <3>1, NoLaunchStack, QuietStack DEF Launched
  <2> QED
    BY <2>2, <2>3
<1> QED
  BY <1>1, <1>2, <1>3, <1>4, <1>6, <1>7, <1>8, <1>9, <1>10, <1>11, <1>12 DEF Next, Loop

(***************************************************************************)
(* "On interrupt, set intr so _everything_ fails": whatever the graph and  *)
(* whatever completes afterwards, no command is started once make1d() has  *)
(* seen an interrupt or, with -q, a failure.                               *)
(***************************************************************************)
THEOREM NoStartAfterIntr == Spec => NothingStartsAfterIntr
<1>1. Init => IntrInv
  BY DEF Init, IntrInv, NoLaunch, State, top
<1>2. TypeOK /\ TypeOK' /\ IntrInv /\ [Next]_vars => IntrInv' /\ [intr => Launched = {}]_vars
  BY IntrStep
<1> QED
  BY <1>1, <1>2, TypeCorrect, PTL DEF Spec, NothingStartsAfterIntr

-----------------------------------------------------------------------------
(***************************************************************************)
(* The number of commands running.                                         *)
(***************************************************************************)
JobsInv == IsFiniteSet(running) /\ JobsBounded

\* Every step keeps JobsInv.
LEMMA JobsStep == TypeOK /\ JobsInv /\ [Next]_vars => JobsInv'
<1> SUFFICES ASSUME TypeOK, JobsInv, [Next]_vars PROVE JobsInv'
  OBVIOUS
<1>1. /\ IsFiniteSet(running) /\ Cardinality(running) \in Nat
      /\ globs.jobs \in Nat /\ globs' = globs
  <2>1. IsFiniteSet(running) /\ Cardinality(running) \in Nat
    BY FS_CardinalityType DEF JobsInv
  <2>2. globs.jobs \in Nat
    BY DEF TypeOK
  <2>3. globs' = globs
    BY DEF Next, Loop, vars, given, AnyComplete, Make1aSeen, Make1aStart, Make1atail,
       Make1bWait, Make1bSemaphore, Make1bReady, Make1cLaunch, Make1cNoExec, Make1cDone,
       Make1d, ExecWait, ExecReturn, Make1Return, Complete, Interrupt, Ended
  <2> QED
    BY <2>1, <2>2, <2>3
<1>2. CASE Make1cLaunch
  <2>1. running' = running \cup {top.t} /\ pc = "loop"
    BY <1>2 DEF Make1cLaunch, Handler
  <2>2. /\ IsFiniteSet(running')
        /\ Cardinality(running') \in Nat
        /\ Cardinality(running') <= Cardinality(running) + 1
    <3>1. /\ IsFiniteSet(running \cup {top.t})
          /\ Cardinality(running \cup {top.t}) =
               IF top.t \in running THEN Cardinality(running) ELSE Cardinality(running) + 1
      BY <1>1, FS_AddElement
    <3> QED
      BY <1>1, <2>1, <3>1
  <2>3. pc' = IF Cardinality(running') >= globs.jobs THEN "exec_wait" ELSE "loop"
    BY <1>2 DEF Make1cLaunch, SlotsFull
  <2>4. Cardinality(running) < globs.jobs
    BY <2>1 DEF JobsInv, JobsBounded
  <2> QED
    BY <1>1, <2>2, <2>3, <2>4 DEF JobsInv, JobsBounded
<1>3. CASE AnyComplete
  <2>1. PICK t \in Targets : /\ t \in running /\ running' = running \ {t}
                             /\ pc = "exec_wait" /\ pc' = pc
    BY <1>3 DEF AnyComplete, Complete
  <2>2. /\ IsFiniteSet(running')
        /\ Cardinality(running') = Cardinality(running) - 1
    BY <1>1, <2>1, FS_RemoveElement
  <2> QED
    BY <1>1, <2>1, <2>2 DEF JobsInv, JobsBounded
<1>4. CASE ExecReturn
  <2>1. running' = running /\ Cardinality(running) < globs.jobs
    BY <1>1, <1>4 DEF ExecReturn, SlotsFull, exec
  <2> QED
    BY <1>1, <2>1 DEF JobsInv, JobsBounded
<1>5. ASSUME running' = running, pc' = "loop" => pc = "loop" PROVE JobsInv'
  BY <1>1, <1>5 DEF JobsInv, JobsBounded
<1>6. CASE Make1bReady
  <2>1. running' = running /\ pc = "loop"
    BY <1>6 DEF Make1bReady, Handler, exec
  <2> QED
    BY <1>5, <2>1
<1>7. CASE Make1cDone \/ Make1Return
  <2>1. running' = running /\ pc = "loop"
    BY <1>7 DEF Make1cDone, Make1Return, Handler, exec
  <2> QED
    BY <1>5, <2>1
<1>8. CASE \/ UNCHANGED vars \/ Make1aSeen \/ Make1aStart \/ Make1atail \/ Make1bWait
           \/ Make1bSemaphore \/ Make1cNoExec \/ Make1d \/ ExecWait \/ Interrupt \/ Ended
  <2>1. running' = running /\ (pc' = "loop" => pc = "loop")
    BY <1>8 DEF vars, exec, Make1aSeen, Make1aStart, Make1atail, Make1bWait,
       Make1bSemaphore, Make1cNoExec, Make1d, ExecWait, Interrupt, Ended
  <2> QED
    BY <1>5, <2>1
<1> QED
  BY <1>2, <1>3, <1>4, <1>6, <1>7, <1>8 DEF Next, Loop

(***************************************************************************)
(* However many targets are ready, no more than -j commands run at a time, *)
(* and exec_cmd() is only called when there is room for one more.          *)
(***************************************************************************)
THEOREM NeverTooManyJobs == Spec => []JobsBounded
<1>1. Init => JobsInv
  <2> SUFFICES ASSUME Init PROVE JobsInv
    OBVIOUS
  <2>1. running = {} /\ globs.jobs \in Nat \ {0}
    BY Make1Assumption DEF Init
  <2>2. IsFiniteSet({}) /\ Cardinality({}) = 0
    BY FS_EmptySet
  <2> QED
    BY <2>1, <2>2 DEF JobsInv, JobsBounded
<1>2. JobsInv => JobsBounded
  BY DEF JobsInv
<1> QED
  BY <1>1, <1>2, JobsStep, TypeCorrect, PTL DEF Spec

-----------------------------------------------------------------------------
(***************************************************************************)
(* make1() builds in order: no target is built before all it depends on.   *)
(* The code does not look at the dependencies when it starts a target, it  *)
(* counts: the proof is about what asynccnt[t] is at least.                *)
(***************************************************************************)

-----------------------------------------------------------------------------
(***************************************************************************)
(* The stack seen from below: handlers push and pop, and the place of a    *)
(* state counted from the bottom stays what it is.                         *)
(***************************************************************************)

Deep(q, b) == q[Len(q) + 1 - b]

\* The lowest n states of q are those of r.
Kept(q, r, n) ==
  /\ n \in Nat /\ n <= Len(q) /\ n <= Len(r)
  /\ \A b \in 1..n : Deep(r, b) = Deep(q, b)

\* Taking the top away keeps the others in their places.
LEMMA DeepTail ==
  ASSUME NEW q \in Seq(States), q # <<>>
  PROVE  /\ Len(q) \in Nat \ {0} /\ Len(Tail(q)) = Len(q) - 1
         /\ Kept(q, Tail(q), Len(q) - 1)
         /\ Deep(q, Len(q)) = Head(q)
<1> HIDE DEF States
<1>1. Len(q) \in Nat \ {0} /\ Len(Tail(q)) = Len(q) - 1
  OBVIOUS
<1>2. Deep(q, Len(q)) = Head(q)
  BY DEF Deep
<1>3. ASSUME NEW b \in 1..(Len(q) - 1) PROVE Deep(Tail(q), b) = Deep(q, b)
  <2>1. Len(q) - b \in 1..Len(Tail(q)) /\ Len(Tail(q)) + 1 - b = Len(q) - b
    BY <1>1
  <2>2. Tail(q)[Len(q) - b] = q[Len(q) - b + 1]
    BY <1>1, <2>1
  <2> QED
    BY <1>1, <2>1, <2>2 DEF Deep
<1> QED
  BY <1>1, <1>2, <1>3 DEF Kept

\* Pushing keeps all that is there.
LEMMA DeepPush ==
  ASSUME NEW p \in Seq(States), NEW q \in Seq(States)
  PROVE  /\ Len(p \o q) = Len(p) + Len(q) /\ Len(p) \in Nat /\ Len(q) \in Nat
         /\ Kept(q, p \o q, Len(q))
         /\ \A b \in (Len(q) + 1)..(Len(q) + Len(p)) :
              /\ Len(p) + Len(q) + 1 - b \in DOMAIN p
              /\ Deep(p \o q, b) = p[Len(p) + Len(q) + 1 - b]
<1> HIDE DEF States
<1>1. Len(p \o q) = Len(p) + Len(q) /\ Len(p) \in Nat /\ Len(q) \in Nat
  OBVIOUS
<1>2. ASSUME NEW b \in 1..Len(q) PROVE Deep(p \o q, b) = Deep(q, b)
  <2>1. (p \o q)[Len(p) + Len(q) + 1 - b] = q[Len(q) + 1 - b]
    BY <1>1
  <2> QED
    BY <1>1, <2>1 DEF Deep
<1>3. ASSUME NEW b \in (Len(q) + 1)..(Len(q) + Len(p))
      PROVE  /\ Len(p) + Len(q) + 1 - b \in DOMAIN p
             /\ Deep(p \o q, b) = p[Len(p) + Len(q) + 1 - b]
  <2>1. Len(p) + Len(q) + 1 - b \in 1..Len(p)
    BY <1>1
  <2> QED
    BY <1>1, <2>1 DEF Deep
<1> QED
  BY <1>1, <1>2, <1>3 DEF Kept

\* The same for one state.
LEMMA DeepOne ==
  ASSUME NEW x \in States, NEW q \in Seq(States)
  PROVE  /\ Len(<<x>> \o q) = Len(q) + 1
         /\ Kept(q, <<x>> \o q, Len(q))
         /\ Deep(<<x>> \o q, Len(q) + 1) = x
<1> DEFINE p == <<x>>
<1>1. p \in Seq(States) /\ Len(p) = 1 /\ p[1] = x
  OBVIOUS
<1> HIDE DEF p, States
<1>2. /\ Len(p \o q) = Len(p) + Len(q) /\ Len(q) \in Nat
      /\ Kept(q, p \o q, Len(q))
      /\ \A b \in (Len(q) + 1)..(Len(q) + Len(p)) :
           Deep(p \o q, b) = p[Len(p) + Len(q) + 1 - b]
  BY <1>1, DeepPush
<1>3. Deep(p \o q, Len(q) + 1) = x
  BY <1>1, <1>2
<1> QED
  BY <1>1, <1>2, <1>3 DEF p

\* What is kept of what is kept.
LEMMA KeptTrans ==
  ASSUME NEW q, NEW r, NEW s, NEW n, NEW m, Kept(q, r, n), Kept(r, s, m), m <= n
  PROVE  Kept(q, s, m)
BY DEF Kept

\* A state in the stack is a state.
LEMMA DeepType ==
  ASSUME NEW q \in Seq(States)
  PROVE  /\ Len(q) \in Nat
         /\ \A b \in 1..Len(q) : Deep(q, b) \in States
<1> HIDE DEF States
<1> QED
  BY DEF Deep

(***************************************************************************)
(* A handler runs for the top of the stack, at place h + 1.  What it pops  *)
(* leaves the h states below or, with intr set, perhaps one less; what it  *)
(* replaces by the next handler stays there, or is lost.                   *)
(***************************************************************************)
LEMMA Handling ==
  ASSUME TypeOK, stack # <<>>, NEW c \in Handlers, NEW h, h = Len(stack) - 1
  PROVE  /\ h \in Nat /\ Len(stack) = h + 1 /\ Deep(stack, h + 1) = top
         /\ \E n \in 0..h : /\ Len(Popped) = n /\ Kept(stack, Popped, n)
                            /\ ~intr => n = h
         /\ Kept(stack, Continue(c), h)
         /\ intr => Len(Continue(c)) = h
         /\ ~intr => /\ Len(Continue(c)) = h + 1
                     /\ Deep(Continue(c), h + 1) =
                          [top EXCEPT !.curstate = c, !.status = StatusFor(c)]
<1>1. /\ stack \in Seq(States) /\ Tail(stack) \in Seq(States) /\ Popped \in Seq(States)
  BY StackType DEF TypeOK
<1>2. /\ h \in Nat /\ Len(stack) = h + 1 /\ Deep(stack, h + 1) = top
      /\ Len(Tail(stack)) = h /\ Kept(stack, Tail(stack), h)
  <2> HIDE DEF States
  <2> QED
    BY <1>1, DeepTail DEF top
<1>3. \E n \in 0..h : Len(Popped) = n /\ Kept(stack, Popped, n) /\ (~intr => n = h)
  <2>1. CASE ~intr \/ Tail(stack) = <<>>
    <3>1. Popped = Tail(stack)
      BY <2>1 DEF Popped, Rest
    <3> QED
      BY <1>2, <3>1
  <2>2. CASE intr /\ Tail(stack) # <<>>
    <3>1. Popped = Tail(Tail(stack))
      BY <2>2 DEF Popped, Rest
    <3> DEFINE q == Tail(stack)
    <3>2. q \in Seq(States) /\ q # <<>> /\ Len(q) = h
      BY <1>1, <1>2, <2>2
    <3> HIDE DEF States, q
    <3>3. Len(q) \in Nat \ {0} /\ Len(Tail(q)) = Len(q) - 1 /\ Kept(q, Tail(q), Len(q) - 1)
      BY <3>2, DeepTail
    <3>4. /\ Len(Popped) = h - 1 /\ h - 1 \in 0..h
          /\ Kept(Tail(stack), Popped, h - 1)
      BY <1>2, <3>1, <3>2, <3>3 DEF q
    <3>5. h - 1 <= h
      BY <1>2
    <3>6. Kept(stack, Popped, h - 1)
      BY <1>2, <3>4, <3>5, KeptTrans
    <3> QED
      BY <2>2, <3>4, <3>6
  <2> QED
    BY <2>1, <2>2
<1>4. CASE intr
  BY <1>2, <1>3, <1>4 DEF Continue
<1>5. CASE ~intr
  <2> DEFINE x == [top EXCEPT !.curstate = c, !.status = StatusFor(c)]
  <2>1. x \in States
    BY StackType DEF States, Statuses, StatusFor
  <2>2. Continue(c) = <<x>> \o Tail(stack)
    BY <1>5 DEF Continue
  <2> HIDE DEF x, States
  <2>3. /\ Len(Continue(c)) = h + 1
        /\ Kept(Tail(stack), Continue(c), h)
        /\ Deep(Continue(c), h + 1) = x
    BY <1>1, <1>2, <2>1, <2>2, DeepOne
  <2>4. h <= h
    BY <1>2
  <2>5. Kept(stack, Continue(c), h)
    BY <1>2, <2>3, <2>4, KeptTrans
  <2>6. Deep(Continue(c), h + 1) = [top EXCEPT !.curstate = c, !.status = StatusFor(c)]
    BY <2>3 DEF x
  <2> QED
    BY <1>2, <1>3, <1>5, <2>3, <2>5, <2>6, Zenon
<1> QED
  BY <1>4, <1>5

-----------------------------------------------------------------------------
(***************************************************************************)
(* The invariant.                                                          *)
(***************************************************************************)

D(b)   == Deep(stack, b)
Places == 1..Len(stack)

TailOf(x, t)  == x.curstate = "MAKE1ATAIL" /\ x.t = t
Calling(x, t) == x.curstate \in {"MAKE1ATAIL", "MAKE1B"} /\ x.t = t

\* What t has still to be told of: by dependencies that are not done (of
\* progress P, with parents R), by states on the stack q that will call
\* make1b(t), and in the queues w of semaphores.
Owed(P, R, t) == {y \in Targets \X Nat : /\ P[y[1]] # "DONE"
                                         /\ y[2] \in DOMAIN R[y[1]] /\ R[y[1]][y[2]] = t}
Calls(q, t)   == {b \in 1..Len(q) : Calling(Deep(q, b), t)}
Queued(w, t)  == {y \in Sems \X Nat : y[2] \in DOMAIN w[y[1]] /\ w[y[1]][y[2]] = t}

\* By how much asynccnt[t] exceeds that: t can never be built unless it is 0.
Gap(t) == asynccnt[t] - (Cardinality(Owed(progress, parents, t))
                         + Cardinality(Calls(stack, t)) + Cardinality(Queued(semwait, t)))

Registered(d, t) == \E i \in DOMAIN parents[d] : parents[d][i] = t

\* t is about to be told of d when make1a(d) runs for it, below which there
\* is its own MAKE1ATAIL; after an interrupt that state will be lost.
Coming(d, t) ==
  \E a \in Places :
    /\ TailOf(D(a), t)
    /\ intr \/ \E b \in Places : b > a /\ D(b).curstate = "MAKE1A" /\ D(b).t = d /\ D(b).parent = t

WaitsFor(t, d) == progress[d] = "DONE" \/ Gap(t) > 0 \/ Registered(d, t) \/ Coming(d, t)

\* t was through make1b(): it is being built.
Begun(t) == asynccnt[t] = 0 /\ progress[t] \notin {"INIT", "DONE"}
Sound(t) == \A d \in ToSet(depends[t]) \ NoCare : status[d] = EXEC_CMD_OK

Counted == \A t \in Targets : /\ IsFiniteSet(Owed(progress, parents, t))
                              /\ IsFiniteSet(Queued(semwait, t))
                              /\ Gap(t) >= 0
Idle    == \A t \in Targets : progress[t] \in {"INIT", "DONE"} => asynccnt[t] = 0
Called  == \A b \in Places : D(b).curstate = "MAKE1A" /\ D(b).parent # NoTarget =>
             \E a \in 1..(b - 1) : TailOf(D(a), D(b).parent)
Alone   == /\ \A a, b \in Places : a # b /\ Holding(D(a)) /\ Holding(D(b)) => D(a).t # D(b).t
           /\ \A b \in Places : Holding(D(b)) => D(b).t \notin running /\ Begun(D(b).t)
           /\ \A t \in running : Begun(t)
Started == ~intr => \A t \in Targets : progress[t] = "ONSTACK" => \E a \in Places : TailOf(D(a), t)
Waits   == \A t \in Targets : progress[t] # "INIT" => \A d \in ToSet(depends[t]) : WaitsFor(t, d)
Past    == \A t \in Targets : progress[t] # "INIT" /\ asynccnt[t] = 0 =>
             \A d \in ToSet(depends[t]) : progress[d] = "DONE"
Fine    == /\ \A t \in running : Sound(t)
           /\ \A b \in Places : \/ D(b).curstate = "MAKE1D"
                                \/ D(b).curstate = "MAKE1C" /\ status[D(b).t] = EXEC_CMD_OK
                                => Sound(D(b).t)

OrderInv == Counted /\ Idle /\ Called /\ Alone /\ Started /\ Waits /\ Past /\ Fine

\* No target is visited again below itself: the graph has no cycle.
Apart == \A a, b \in Places : /\ a < b /\ D(a).curstate = "MAKE1ATAIL"
                              /\ D(b).curstate \in {"MAKE1A", "MAKE1ATAIL"}
                              => D(a).t # D(b).t

-----------------------------------------------------------------------------
(***************************************************************************)
(* How many calls of make1b(t) the stack holds.                            *)
(***************************************************************************)

KeptCalls(q, n, t) == {b \in 1..n : Calling(Deep(q, b), t)}
NewCalls(r, n, t)  == {b \in (n + 1)..Len(r) : Calling(Deep(r, b), t)}

\* They are as many as are kept and as are new; each one dropped counts.
LEMMA CallsCount ==
  ASSUME NEW q \in Seq(States), NEW r \in Seq(States), NEW n, Kept(q, r, n), NEW t
  PROVE  /\ IsFiniteSet(Calls(q, t)) /\ Cardinality(Calls(q, t)) \in Nat
         /\ IsFiniteSet(Calls(r, t)) /\ Cardinality(Calls(r, t)) \in Nat
         /\ Cardinality(KeptCalls(q, n, t)) \in Nat
         /\ Cardinality(KeptCalls(q, n, t)) <= Cardinality(Calls(q, t))
         /\ \A a \in (n + 1)..Len(q) : Calling(Deep(q, a), t) =>
              Cardinality(KeptCalls(q, n, t)) <= Cardinality(Calls(q, t)) - 1
         /\ \A a, b \in (n + 1)..Len(q) :
              a # b /\ Calling(Deep(q, a), t) /\ Calling(Deep(q, b), t) =>
                Cardinality(KeptCalls(q, n, t)) <= Cardinality(Calls(q, t)) - 2
         /\ IsFiniteSet(NewCalls(r, n, t)) /\ Cardinality(NewCalls(r, n, t)) \in Nat
         /\ Cardinality(Calls(r, t)) <=
              Cardinality(KeptCalls(q, n, t)) + Cardinality(NewCalls(r, n, t))
<1> DEFINE C == Calls(q, t)
           K == KeptCalls(q, n, t)
           N == NewCalls(r, n, t)
<1> HIDE DEF States
<1>1. /\ Len(q) \in Nat /\ Len(r) \in Nat /\ n \in Nat /\ n <= Len(q) /\ n <= Len(r)
      /\ \A b \in 1..n : Deep(r, b) = Deep(q, b)
  BY DEF Kept
<1>2. IsFiniteSet(1..Len(q)) /\ IsFiniteSet(1..Len(r))
  BY <1>1, FS_Interval
<1>3. /\ C \subseteq 1..Len(q) /\ Calls(r, t) \subseteq 1..Len(r) /\ N \subseteq 1..Len(r)
      /\ K \subseteq C /\ Calls(r, t) \subseteq K \cup N
  BY <1>1 DEF Calls, KeptCalls, NewCalls
<1>4. ASSUME NEW a \in (n + 1)..Len(q), Calling(Deep(q, a), t)
      PROVE  a \in C /\ a \notin K
  BY <1>1, <1>4 DEF Calls, KeptCalls
<1> HIDE DEF C, K, N
<1>5. IsFiniteSet(C) /\ IsFiniteSet(Calls(r, t)) /\ IsFiniteSet(N)
  BY <1>2, <1>3, FS_Subset
<1>6. IsFiniteSet(K) /\ Cardinality(K) <= Cardinality(C)
  BY <1>3, <1>5, FS_Subset
<1>7. /\ Cardinality(C) \in Nat /\ Cardinality(Calls(r, t)) \in Nat /\ Cardinality(N) \in Nat
      /\ Cardinality(K) \in Nat
  BY <1>5, <1>6, FS_CardinalityType
<1>8. ASSUME NEW a \in (n + 1)..Len(q), Calling(Deep(q, a), t)
      PROVE  Cardinality(K) <= Cardinality(C) - 1
  <2>1. IsFiniteSet(C \ {a}) /\ Cardinality(C \ {a}) = Cardinality(C) - 1
    BY <1>4, <1>5, <1>8, FS_RemoveElement
  <2>2. K \subseteq C \ {a}
    BY <1>3, <1>4, <1>8
  <2>3. Cardinality(K) <= Cardinality(C \ {a})
    BY <2>1, <2>2, FS_Subset
  <2> QED
    BY <2>1, <2>3
<1>9. ASSUME NEW a \in (n + 1)..Len(q), NEW b \in (n + 1)..Len(q), a # b,
             Calling(Deep(q, a), t), Calling(Deep(q, b), t)
      PROVE  Cardinality(K) <= Cardinality(C) - 2
  <2>1. IsFiniteSet(C \ {a}) /\ Cardinality(C \ {a}) = Cardinality(C) - 1 /\ b \in C \ {a}
    BY <1>4, <1>5, <1>9, FS_RemoveElement
  <2> DEFINE E == C \ {a}
  <2>2. K \subseteq E \ {b}
    BY <1>3, <1>4, <1>9
  <2>3. IsFiniteSet(E) /\ b \in E
    BY <2>1
  <2> HIDE DEF E
  <2>4. IsFiniteSet(E \ {b}) /\ Cardinality(E \ {b}) = Cardinality(E) - 1
    BY <2>3, FS_RemoveElement
  <2>5. Cardinality(K) <= Cardinality(E \ {b})
    BY <2>2, <2>4, FS_Subset
  <2> QED
    BY <1>7, <2>1, <2>4, <2>5 DEF E
<1>10. Cardinality(Calls(r, t)) <= Cardinality(K) + Cardinality(N)
  <2>1. IsFiniteSet(K \cup N)
    BY <1>5, <1>6, FS_Union
  <2>2. Cardinality(K \cup N) = Cardinality(K) + Cardinality(N) - Cardinality(K \cap N)
    BY <1>5, <1>6, FS_Union
  <2>3. IsFiniteSet(K \cap N)
    BY <1>6, FS_Intersection
  <2>4. Cardinality(K \cap N) \in Nat
    BY <2>3, FS_CardinalityType
  <2>5. Cardinality(Calls(r, t)) <= Cardinality(K \cup N)
    BY <1>3, <2>1, FS_Subset
  <2>6. Cardinality(K \cup N) \in Nat
    BY <2>1, FS_CardinalityType
  <2> QED
    BY <1>7, <2>2, <2>4, <2>5, <2>6
<1> QED
  BY <1>5, <1>7, <1>6, <1>8, <1>9, <1>10 DEF C, K, N
-----------------------------------------------------------------------------
(***************************************************************************)
(* What the invariant says of the target of a state on the stack.          *)
(***************************************************************************)

\* Dependencies are targets.
LEMMA DepsType ==
  ASSUME TypeOK
  PROVE  \A t \in Targets : \A d \in ToSet(depends[t]) : d \in Targets
<1> SUFFICES ASSUME NEW t \in Targets PROVE \A d \in ToSet(depends[t]) : d \in Targets
  OBVIOUS
<1>1. depends[t] \in Seq(Targets)
  BY DEF TypeOK
<1> QED
  BY <1>1 DEF ToSet

\* The numbers in Gap(t) are numbers.
LEMMA GapTypes ==
  ASSUME TypeOK, Counted, NEW t \in Targets
  PROVE  /\ Cardinality(Owed(progress, parents, t)) \in Nat
         /\ IsFiniteSet(Calls(stack, t)) /\ Cardinality(Calls(stack, t)) \in Nat
         /\ Cardinality(Queued(semwait, t)) \in Nat
         /\ asynccnt[t] \in Int /\ Gap(t) \in Nat
<1>1. IsFiniteSet(Owed(progress, parents, t)) /\ IsFiniteSet(Queued(semwait, t)) /\ Gap(t) >= 0
  BY DEF Counted
<1>2. stack \in Seq(States) /\ asynccnt[t] \in Int
  BY DEF TypeOK
<1>3. Kept(stack, stack, Len(stack))
  BY <1>2, DeepType DEF Kept
<1>4. IsFiniteSet(Calls(stack, t)) /\ Cardinality(Calls(stack, t)) \in Nat
  BY <1>2, <1>3, CallsCount
<1>5. /\ Cardinality(Owed(progress, parents, t)) \in Nat
      /\ Cardinality(Queued(semwait, t)) \in Nat
  BY <1>1, FS_CardinalityType
<1> QED
  BY <1>1, <1>2, <1>4, <1>5 DEF Gap

\* A target that is going to be called is not finished, nor begun.
LEMMA Caller ==
  ASSUME TypeOK, OrderInv, NEW b \in Places, NEW t \in Targets, Calling(D(b), t)
  PROVE  /\ asynccnt[t] >= 1 /\ Cardinality(Calls(stack, t)) >= 1
         /\ progress[t] \notin {"INIT", "DONE"} /\ t \notin running
         /\ \A c \in Places : Holding(D(c)) => D(c).t # t
<1>1. b \in Calls(stack, t)
  BY DEF Calls, D, Places
<1>2. IsFiniteSet(Calls(stack, t)) /\ Cardinality(Calls(stack, t)) \in Nat
  BY GapTypes DEF OrderInv
<1>3. Cardinality(Calls(stack, t)) # 0
  BY <1>1, <1>2, FS_EmptySet
<1>4. asynccnt[t] >= 1
  BY <1>2, <1>3, GapTypes DEF OrderInv, Gap
<1> QED
  BY <1>2, <1>3, <1>4 DEF OrderInv, Idle, Alone, Begun

-----------------------------------------------------------------------------
(***************************************************************************)
(* What the steps have in common.  Of the stack, n states stay; of the     *)
(* targets, only t may get on; counters keep their distance.               *)
(***************************************************************************)

GapsKept(n) ==
  \A x \in Targets :
    /\ IsFiniteSet(Owed(progress, parents, x))' /\ IsFiniteSet(Queued(semwait, x))'
    /\ Gap(x)' \in Int /\ Gap(x)' >= Gap(x)
    /\ intr /\ (\E a \in (n + 1)..Len(stack) : TailOf(D(a), x)) => Gap(x)' > Gap(x)

\* make1a() visits t for the first time.
Opens(t) == t \in Targets /\ progress[t] = "INIT" /\ progress'[t] # "INIT"

Steady(n, t) ==
  /\ Kept(stack, stack', n) /\ (~intr => n >= Len(stack) - 1) /\ (intr => intr')
  /\ \A x, y \in Targets : Registered(x, y) => Registered(x, y)'
  /\ \A x \in Targets :
       /\ progress[x] = "DONE" => progress'[x] = "DONE" /\ status'[x] = status[x]
       /\ x # t \/ ~Opens(t) =>
            /\ depends'[x] = depends[x]
            /\ progress'[x] = "INIT" <=> progress[x] = "INIT"
            /\ progress'[x] = "ONSTACK" =>
                 /\ progress[x] = "ONSTACK"
                 /\ ~intr => \A a \in (n + 1)..Len(stack) : ~TailOf(D(a), x)
       /\ x # t => /\ asynccnt'[x] = 0 <=> asynccnt[x] = 0
                   /\ progress'[x] = progress[x] /\ status'[x] = status[x]

\* A target just opened waits for all it depends on.
Opened(t) ==
  Opens(t) => /\ ~intr' /\ progress'[t] = "ONSTACK" => \E a \in Places' : TailOf(D(a)', t)
              /\ \A d \in ToSet(depends'[t]) : WaitsFor(t, d)'

\* t has no count without reason.
Entitled(t) ==
  t \in Targets =>
    /\ progress'[t] \in {"INIT", "DONE"} => asynccnt'[t] = 0
    /\ progress'[t] # "INIT" /\ asynccnt'[t] = 0 =>
         \A d \in ToSet(depends'[t]) : progress'[d] = "DONE"

\* What t's new states and commands need.
Right(t) ==
  Begun(t)' /\ (status'[t] = EXEC_CMD_OK => Sound(t)')

Pushed(n, t) ==
  /\ \A b \in 1..n : Holding(D(b)) => D(b).t # t
  /\ \A b \in (n + 1)..Len(stack') :
       LET x == D(b)' IN
         /\ x.curstate = "MAKE1A" => \/ x.parent = NoTarget
                                     \/ b > n + 1 /\ TailOf(D(n + 1)', x.parent)
         /\ Holding(x) => /\ b = n + 1 /\ x.t = t /\ t \in Targets /\ t \notin running'
                          /\ Right(t) /\ (x.curstate = "MAKE1D" => Sound(t)')
  /\ running' \subseteq running \cup {t}
  /\ t \in running' => Right(t) /\ Sound(t)'

\* A visit that is over has left its mark.
Visited(n) ==
  ~intr => \A b \in (n + 1)..Len(stack), d, x \in Targets :
    D(b).curstate = "MAKE1A" /\ D(b).t = d /\ D(b).parent = x =>
      progress'[d] = "DONE" \/ Registered(d, x)'

LEMMA Frame ==
  ASSUME TypeOK, TypeOK', OrderInv, NEW n, NEW t,
         GapsKept(n), Steady(n, t), Opened(t), Entitled(t), Pushed(n, t), Visited(n)
  PROVE  OrderInv'
<1>1. /\ stack \in Seq(States) /\ stack' \in Seq(States)
      /\ Len(stack) \in Nat /\ Len(stack') \in Nat
  <2>1. stack \in Seq(States) /\ stack' \in Seq(States)
    BY DEF TypeOK
  <2> QED
    BY <2>1, DeepType
<1>2. /\ n \in Nat /\ n <= Len(stack) /\ n <= Len(stack')
      /\ \A b \in 1..n : D(b)' = D(b)
      /\ \A b \in 1..n : b \in Places /\ b \in Places'
  BY <1>1 DEF Steady, Kept, D, Places
<1>3. \A b \in Places' : b \in 1..n \/ b \in (n + 1)..Len(stack')
  BY <1>1, <1>2 DEF Places
<1>4. \A b \in Places : b \in 1..n \/ b \in (n + 1)..Len(stack)
  BY <1>1, <1>2 DEF Places
<1>5. Counted'
  <2> SUFFICES ASSUME NEW x \in Targets
               PROVE  /\ IsFiniteSet(Owed(progress, parents, x))'
                      /\ IsFiniteSet(Queued(semwait, x))'
                      /\ Gap(x)' >= 0
    BY DEF Counted
  <2>1. Gap(x) \in Nat
    BY GapTypes DEF OrderInv
  <2>2. Gap(x)' \in Int /\ Gap(x)' >= Gap(x)
    BY DEF GapsKept
  <2>3. Gap(x)' >= 0
    BY <2>1, <2>2
  <2> QED
    BY <2>3 DEF GapsKept
<1>6. Idle'
  <2> SUFFICES ASSUME NEW x \in Targets, progress'[x] \in {"INIT", "DONE"} PROVE asynccnt'[x] = 0
    BY DEF Idle
  <2>1. CASE x = t
    BY <2>1 DEF Entitled
  <2>2. CASE x # t
    BY <2>2 DEF Steady, OrderInv, Idle
  <2> QED
    BY <2>1, <2>2
<1>7. Called'
  <2> SUFFICES ASSUME NEW b \in Places', D(b)'.curstate = "MAKE1A", D(b)'.parent # NoTarget
               PROVE  \E a \in 1..(b - 1) : TailOf(D(a)', D(b)'.parent)
    BY DEF Called, TailOf
  <2>1. CASE b \in 1..n
    <3>1. PICK a \in 1..(b - 1) : TailOf(D(a), D(b).parent)
      BY <1>2, <2>1 DEF OrderInv, Called
    <3>2. a \in 1..n
      BY <1>2, <2>1
    <3> QED
      BY <1>2, <2>1, <3>1, <3>2
  <2>2. CASE b \notin 1..n
    <3>1. b > n + 1 /\ TailOf(D(n + 1)', D(b)'.parent)
      BY <1>3, <2>2 DEF Pushed
    <3>2. n + 1 \in 1..(b - 1)
      BY <1>1, <1>2, <3>1 DEF Places
    <3> QED
      BY <3>1, <3>2
  <2> QED
    BY <2>1, <2>2
<1>8. \A x \in Targets : x # t /\ Begun(x) => Begun(x)'
  BY DEF Begun, Steady
<1>9. \A b \in Places : D(b).t \in Targets
  <2>1. \A b \in Places : D(b) \in States
    BY <1>1, DeepType DEF D, Places
  <2> QED
    BY <2>1 DEF States
<1>10. running \subseteq Targets
  BY DEF TypeOK
<1>11. Alone'
  <2>1. ASSUME NEW a \in Places', NEW b \in Places', a # b, Holding(D(a)'), Holding(D(b)')
        PROVE  D(a)'.t # D(b)'.t
    <3>1. CASE a \in 1..n /\ b \in 1..n
      BY <1>2, <2>1, <3>1 DEF OrderInv, Alone
    <3>2. CASE a \in 1..n /\ b \notin 1..n
      BY <1>2, <1>3, <2>1, <3>2 DEF Pushed
    <3>3. CASE a \notin 1..n /\ b \in 1..n
      BY <1>2, <1>3, <2>1, <3>3 DEF Pushed
    <3>4. CASE a \notin 1..n /\ b \notin 1..n
      BY <1>2, <1>3, <2>1, <3>4 DEF Pushed
    <3> QED
      BY <3>1, <3>2, <3>3, <3>4
  <2>2. ASSUME NEW b \in Places', Holding(D(b)')
        PROVE  D(b)'.t \notin running' /\ Begun(D(b).t)'
    <3>1. CASE b \in 1..n
      <4>1. D(b)' = D(b) /\ D(b).t # t /\ D(b).t \in Targets /\ D(b).t \notin running /\ Begun(D(b).t)
        BY <1>2, <1>9, <2>2, <3>1 DEF OrderInv, Alone, Pushed
      <4>2. Begun(D(b).t)'
        BY <1>8, <4>1 DEF Begun
      <4> QED
        BY <4>1, <4>2 DEF Pushed
    <3>2. CASE b \notin 1..n
      <4>1. D(b)'.t = t /\ t \notin running' /\ Begun(t)'
        BY <1>3, <2>2, <3>2 DEF Pushed, Right
      <4> QED
        BY <4>1 DEF Begun
    <3> QED
      BY <3>1, <3>2
  <2>3. ASSUME NEW x \in running' PROVE Begun(x)'
    <3>1. CASE x = t
      BY <2>3, <3>1 DEF Pushed, Right
    <3>2. CASE x # t
      BY <1>8, <1>10, <2>3, <3>2 DEF Pushed, OrderInv, Alone
    <3> QED
      BY <3>1, <3>2
  <2> QED
    BY <2>1, <2>2, <2>3 DEF Alone
<1>12. Started'
  <2> SUFFICES ASSUME ~intr', NEW x \in Targets, progress'[x] = "ONSTACK"
               PROVE  \E a \in Places' : TailOf(D(a)', x)
    BY DEF Started, TailOf
  <2>0. SUFFICES ASSUME x # t \/ ~Opens(t) PROVE \E a \in Places' : TailOf(D(a)', x)
    BY DEF Opened
  <2>1. ~intr /\ progress[x] = "ONSTACK" /\ \A a \in (n + 1)..Len(stack) : ~TailOf(D(a), x)
    BY <2>0 DEF Steady
  <2>2. PICK a \in Places : TailOf(D(a), x)
    BY <2>1 DEF OrderInv, Started
  <2>3. a \in 1..n
    BY <1>4, <2>1, <2>2
  <2> QED
    BY <1>2, <2>2, <2>3
<1>13. Waits'
  <2> SUFFICES ASSUME NEW x \in Targets, progress'[x] # "INIT", NEW d \in ToSet(depends'[x]),
                      x # t \/ ~Opens(t)
               PROVE  WaitsFor(x, d)'
    BY DEF Waits, Opened
  <2>0. d \in ToSet(depends[x])
    BY DEF Steady
  <2>1. d \in Targets
    BY <2>0, DepsType
  <2>2. progress[x] # "INIT" /\ WaitsFor(x, d)
    BY <2>0 DEF Steady, OrderInv, Waits
  <2>3. CASE progress[d] = "DONE"
    BY <2>1, <2>3 DEF Steady, WaitsFor
  <2>4. CASE Gap(x) > 0
    <3>1. Gap(x) \in Nat
      BY GapTypes DEF OrderInv
    <3>2. Gap(x)' \in Int /\ Gap(x)' >= Gap(x)
      BY DEF GapsKept
    <3>3. Gap(x)' > 0
      BY <2>4, <3>1, <3>2
    <3> QED
      BY <3>3 DEF WaitsFor
  <2>5. CASE Registered(d, x)
    BY <2>1, <2>5 DEF Steady, WaitsFor
  <2>6. CASE Coming(d, x)
    <3>1. PICK a \in Places : /\ TailOf(D(a), x)
                              /\ intr \/ \E b \in Places : /\ b > a /\ D(b).curstate = "MAKE1A"
                                                           /\ D(b).t = d /\ D(b).parent = x
      BY <2>6 DEF Coming
    <3>2. CASE a \in 1..n /\ intr
      <4>1. intr' /\ a \in Places' /\ TailOf(D(a), x)'
        BY <1>2, <3>1, <3>2 DEF Steady, TailOf
      <4> QED
        BY <4>1 DEF WaitsFor, Coming
    <3>3. CASE a \notin 1..n /\ intr
      <4>1. a \in (n + 1)..Len(stack)
        BY <1>4, <3>3
      <4>2. Gap(x) \in Nat
        BY GapTypes DEF OrderInv
      <4>3. Gap(x)' \in Int /\ Gap(x)' > Gap(x)
        BY <3>1, <3>3, <4>1 DEF GapsKept
      <4>4. Gap(x)' > 0
        BY <4>2, <4>3
      <4> QED
        BY <4>4 DEF WaitsFor
    <3>4. CASE ~intr
      <4>1. PICK b \in Places : /\ b > a /\ D(b).curstate = "MAKE1A"
                                /\ D(b).t = d /\ D(b).parent = x
        BY <3>1, <3>4
      <4>2. a \in 1..n
        BY <1>1, <1>2, <3>4, <4>1 DEF Steady, Places
      <4>3. CASE b \in 1..n
        <5>1. a \in Places' /\ b \in Places' /\ D(a)' = D(a) /\ D(b)' = D(b)
          BY <1>2, <4>2, <4>3
        <5>2. TailOf(D(a), x)'
          BY <3>1, <5>1 DEF TailOf
        <5> QED
          BY <4>1, <5>1, <5>2 DEF WaitsFor, Coming
      <4>4. CASE b \notin 1..n
        <5>1. b \in (n + 1)..Len(stack)
          BY <1>4, <4>4
        <5>2. progress'[d] = "DONE" \/ Registered(d, x)'
          BY <2>1, <3>4, <4>1, <5>1 DEF Visited
        <5> QED
          BY <5>2 DEF WaitsFor
      <4> QED
        BY <4>3, <4>4
    <3> QED
      BY <3>2, <3>3, <3>4
  <2> QED
    BY <2>2, <2>3, <2>4, <2>5, <2>6 DEF WaitsFor
<1>14. Past'
  <2> SUFFICES ASSUME NEW x \in Targets, progress'[x] # "INIT", asynccnt'[x] = 0,
                      NEW d \in ToSet(depends'[x])
               PROVE  progress'[d] = "DONE"
    BY DEF Past
  <2>1. CASE x = t
    BY <2>1 DEF Entitled
  <2>2. CASE x # t
    <3>0. d \in ToSet(depends[x])
      BY <2>2 DEF Steady
    <3>1. d \in Targets
      BY <3>0, DepsType
    <3>2. progress[d] = "DONE"
      BY <2>2, <3>0 DEF Steady, OrderInv, Past
    <3> QED
      BY <3>1, <3>2 DEF Steady
  <2> QED
    BY <2>1, <2>2
<1>15. \A x \in Targets : Begun(x) /\ Sound(x) => Sound(x)'
  <2> SUFFICES ASSUME NEW x \in Targets, Begun(x), Sound(x),
                      NEW d \in ToSet(depends'[x]) \ NoCare
               PROVE  status'[d] = EXEC_CMD_OK
    BY DEF Sound
  <2>0. d \in ToSet(depends[x]) \ NoCare
    BY DEF Begun, Opens, Steady
  <2>1. d \in Targets
    BY <2>0, DepsType
  <2>2. progress[d] = "DONE" /\ status[d] = EXEC_CMD_OK
    BY <2>0 DEF Begun, Sound, OrderInv, Past
  <2> QED
    BY <2>1, <2>2 DEF Steady
<1>16. Fine'
  <2>1. ASSUME NEW x \in running' PROVE Sound(x)'
    <3>1. CASE x = t
      BY <2>1, <3>1 DEF Pushed
    <3>2. CASE x # t
      <4>1. x \in running /\ x \in Targets
        BY <1>10, <2>1, <3>2 DEF Pushed
      <4> QED
        BY <1>15, <4>1 DEF OrderInv, Alone, Fine
    <3> QED
      BY <3>1, <3>2
  <2>2. ASSUME NEW b \in Places',
               \/ D(b)'.curstate = "MAKE1D"
               \/ D(b)'.curstate = "MAKE1C" /\ status'[D(b)'.t] = EXEC_CMD_OK
        PROVE  Sound(D(b).t)'
    <3>0. Holding(D(b)')
      BY <2>2 DEF Holding
    <3>1. CASE b \in 1..n
      <4>1. D(b)' = D(b) /\ D(b).t # t /\ D(b).t \in Targets /\ Begun(D(b).t)
        BY <1>2, <1>9, <3>0, <3>1 DEF OrderInv, Alone, Pushed
      <4>2. Sound(D(b).t)
        BY <1>2, <2>2, <3>1, <4>1 DEF Steady, OrderInv, Fine
      <4>3. Sound(D(b).t)'
        BY <1>15, <4>1, <4>2 DEF Sound
      <4> QED
        BY <4>3
    <3>2. CASE b \notin 1..n
      <4>1. D(b)'.t = t /\ Sound(t)'
        BY <1>3, <2>2, <3>0, <3>2 DEF Pushed, Right
      <4> QED
        BY <4>1 DEF Sound
    <3> QED
      BY <3>1, <3>2
  <2> QED
    BY <2>1, <2>2 DEF Fine
<1> QED
  BY <1>5, <1>6, <1>7, <1>11, <1>12, <1>13, <1>14, <1>16 DEF OrderInv

-----------------------------------------------------------------------------
(***************************************************************************)
(* Counting.  Gap(x) grows by g or more when asynccnt[x] keeps pace with o *)
(* more owed, u more queued and w more calls, k calls being dropped.       *)
(***************************************************************************)
LEMMA GapGrows ==
  ASSUME TypeOK, TypeOK', Counted, NEW x \in Targets, NEW n, Kept(stack, stack', n),
         NEW o \in Int, NEW u \in Int, NEW w \in Int, NEW k \in Int, NEW g \in Int,
         IsFiniteSet(Owed(progress, parents, x)'), IsFiniteSet(Queued(semwait, x)'),
         Cardinality(Owed(progress, parents, x)') <= Cardinality(Owed(progress, parents, x)) + o,
         Cardinality(Queued(semwait, x)') <= Cardinality(Queued(semwait, x)) + u,
         Cardinality(NewCalls(stack', n, x)) <= w,
         Cardinality(KeptCalls(stack, n, x)) <= Cardinality(Calls(stack, x)) - k,
         asynccnt'[x] - asynccnt[x] >= o + u + w - k + g
  PROVE  Gap(x)' \in Int /\ Gap(x)' >= Gap(x) + g
<1> DEFINE O == Cardinality(Owed(progress, parents, x))
           P == Cardinality(Owed(progress, parents, x)')
           Q == Cardinality(Queued(semwait, x))
           R == Cardinality(Queued(semwait, x)')
           C == Cardinality(Calls(stack, x))
           E == Cardinality(Calls(stack', x))
           K == Cardinality(KeptCalls(stack, n, x))
           N == Cardinality(NewCalls(stack', n, x))
           a == asynccnt[x]
           b == asynccnt'[x]
<1>1. stack \in Seq(States) /\ stack' \in Seq(States)
  BY DEF TypeOK
<1>2. E \in Nat /\ K \in Nat /\ N \in Nat /\ E <= K + N
  BY <1>1, CallsCount
<1>3. P \in Nat /\ R \in Nat
  BY FS_CardinalityType
<1>4. O \in Nat /\ C \in Nat /\ Q \in Nat /\ a \in Int
  BY GapTypes
<1>5. b \in Int
  BY DEF TypeOK
<1>6. P <= O + o /\ R <= Q + u /\ N <= w /\ K <= C - k /\ b - a >= o + u + w - k + g
  OBVIOUS
<1>7. Gap(x) = a - (O + C + Q) /\ Gap(x)' = b - (P + E + R)
  BY DEF Gap
<1> HIDE DEF O, P, Q, R, C, E, K, N, a, b
<1>8. b - (P + E + R) \in Int /\ b - (P + E + R) >= a - (O + C + Q) + g
  BY <1>2, <1>3, <1>4, <1>5, <1>6
<1> QED
  BY <1>7, <1>8

\* Nothing is owed or queued that was not.
LEMMA OwedSame ==
  ASSUME UNCHANGED <<parents, semwait>>,
         \A t \in Targets : progress'[t] = "DONE" <=> progress[t] = "DONE"
  PROVE  \A x \in Targets : /\ Owed(progress, parents, x)' = Owed(progress, parents, x)
                            /\ Queued(semwait, x)' = Queued(semwait, x)
BY DEF Owed, Queued

(***************************************************************************)
(* A step that registers and queues nobody, and counts nothing but that a  *)
(* call of make1b(t), on top, is over.  If it pushes a call, it replaces   *)
(* one.                                                                    *)
(***************************************************************************)
LEMMA QuietGaps ==
  ASSUME TypeOK, TypeOK', OrderInv, NEW n, NEW t, Kept(stack, stack', n),
         UNCHANGED <<parents, semwait>>,
         \A x \in Targets : progress'[x] = "DONE" <=> progress[x] = "DONE",
         \A x \in Targets :
           \/ asynccnt'[x] = asynccnt[x]
           \/ /\ asynccnt'[x] = asynccnt[x] - 1 /\ n < Len(stack)
              /\ D(Len(stack)).curstate = "MAKE1B" /\ D(Len(stack)).t = x
              /\ \A b \in (n + 1)..Len(stack') : ~Calling(D(b)', x),
         \A b \in (n + 1)..Len(stack') : \A x \in Targets : Calling(D(b)', x) =>
             ~intr /\ b = n + 1 /\ n < Len(stack) /\ Calling(D(n + 1), x)
  PROVE  GapsKept(n)
<1> SUFFICES ASSUME NEW x \in Targets
             PROVE  /\ IsFiniteSet(Owed(progress, parents, x))' /\ IsFiniteSet(Queued(semwait, x))'
                    /\ Gap(x)' \in Int /\ Gap(x)' >= Gap(x)
                    /\ intr /\ (\E a \in (n + 1)..Len(stack) : TailOf(D(a), x)) =>
                         Gap(x)' > Gap(x)
  BY DEF GapsKept
<1>1. /\ Owed(progress, parents, x)' = Owed(progress, parents, x)
      /\ Queued(semwait, x)' = Queued(semwait, x)
  BY OwedSame
<1>2. /\ IsFiniteSet(Owed(progress, parents, x)') /\ IsFiniteSet(Queued(semwait, x)')
  BY <1>1 DEF OrderInv, Counted
<1>3. /\ Cardinality(Owed(progress, parents, x)) \in Nat
      /\ Cardinality(Queued(semwait, x)) \in Nat /\ asynccnt[x] \in Int
      /\ Gap(x) \in Nat /\ IsFiniteSet(Calls(stack, x)) /\ Cardinality(Calls(stack, x)) \in Nat
  BY GapTypes DEF OrderInv
<1>4. stack \in Seq(States) /\ stack' \in Seq(States) /\ asynccnt'[x] \in Int
  BY DEF TypeOK
<1>5. Len(stack) \in Nat /\ n \in Nat /\ n <= Len(stack)
  BY <1>4, DeepType DEF Kept
<1> DEFINE C == Cardinality(Calls(stack, x))
           K == Cardinality(KeptCalls(stack, n, x))
           N == Cardinality(NewCalls(stack', n, x))
           a == asynccnt[x]
           b == asynccnt'[x]
<1>6. /\ K \in Nat /\ K <= C /\ N \in Nat
      /\ \A c \in (n + 1)..Len(stack) : Calling(D(c), x) => K <= C - 1
      /\ \A c, d \in (n + 1)..Len(stack) :
           c # d /\ Calling(D(c), x) /\ Calling(D(d), x) => K <= C - 2
  BY <1>4, CallsCount DEF D
<1>7. \/ N <= 0
      \/ N <= 1 /\ ~intr /\ K <= C - 1 /\ b = a
  <2>1. CASE \A c \in (n + 1)..Len(stack') : ~Calling(D(c)', x)
    <3>1. NewCalls(stack', n, x) = {}
      BY <2>1 DEF NewCalls, D
    <3>2. N = 0
      BY <3>1, FS_EmptySet
    <3> QED
      BY <3>2
  <2>2. CASE ~\A c \in (n + 1)..Len(stack') : ~Calling(D(c)', x)
    <3>1. ~intr /\ n < Len(stack) /\ Calling(D(n + 1), x) /\ b = a
      BY <2>2
    <3>2. n + 1 \in (n + 1)..Len(stack)
      BY <1>5, <3>1
    <3>3. NewCalls(stack', n, x) \subseteq {n + 1}
      BY DEF NewCalls, D
    <3>4. IsFiniteSet({n + 1}) /\ Cardinality({n + 1}) = 1
      BY FS_Singleton
    <3>5. N <= 1
      BY <3>3, <3>4, FS_Subset
    <3> QED
      BY <1>6, <3>1, <3>2, <3>5
  <2> QED
    BY <2>1, <2>2
<1>8. Cardinality(Owed(progress, parents, x)') <= Cardinality(Owed(progress, parents, x)) + 0
  BY <1>1, <1>3
<1>9. Cardinality(Queued(semwait, x)') <= Cardinality(Queued(semwait, x)) + 0
  BY <1>1, <1>3
<1>10. ASSUME NEW g \in {0, 1}, NEW w \in {0, 1}, NEW k \in {0, 1, 2},
              N <= w, K <= C - k, b - a >= w - k + g
       PROVE  Gap(x)' \in Int /\ Gap(x)' >= Gap(x) + g
  <2>1. b - a >= 0 + 0 + w - k + g /\ w \in Int /\ k \in Int /\ g \in Int /\ 0 \in Int
    BY <1>3, <1>4, <1>10
  <2> QED
    BY <1>2, <1>8, <1>9, <1>10, <2>1, GapGrows DEF OrderInv
<1>11. b = a \/ /\ b = a - 1 /\ N = 0
                /\ Len(stack) \in (n + 1)..Len(stack) /\ Calling(D(Len(stack)), x)
                /\ D(Len(stack)).curstate = "MAKE1B"
  <2>1. CASE b = a
    BY <2>1
  <2>2. CASE b # a
    <3>1. /\ b = a - 1 /\ n < Len(stack) /\ D(Len(stack)).curstate = "MAKE1B" /\ D(Len(stack)).t = x
          /\ \A c \in (n + 1)..Len(stack') : ~Calling(D(c)', x)
      BY <2>2
    <3>2. N = 0
      <4>1. NewCalls(stack', n, x) = {}
        BY <3>1 DEF NewCalls, D
      <4> QED
        BY <4>1, FS_EmptySet
    <3>3. Len(stack) \in (n + 1)..Len(stack)
      BY <1>5, <3>1
    <3> QED
      BY <3>1, <3>2, <3>3 DEF Calling
  <2> QED
    BY <2>1, <2>2
<1> HIDE DEF K, N, C, a, b
<1>12. Gap(x)' \in Int /\ Gap(x)' >= Gap(x)
  <2>0. a \in Int /\ b \in Int /\ C \in Nat
    BY <1>3, <1>4 DEF a, b, C
  <2>1. CASE b = a /\ N <= 0
    BY <1>3, <1>6, <1>10, <2>0, <2>1
  <2>2. CASE b = a /\ ~(N <= 0)
    BY <1>3, <1>6, <1>7, <1>10, <2>0, <2>2
  <2>3. CASE b # a
    <3>1. K <= C - 1 /\ N <= 0 /\ b = a - 1
      BY <1>6, <1>11, <2>3
    <3> QED
      BY <1>3, <1>10, <2>0, <3>1
  <2> QED
    BY <2>1, <2>2, <2>3
<1>13. ASSUME intr, NEW c \in (n + 1)..Len(stack), TailOf(D(c), x)
       PROVE  Gap(x)' > Gap(x)
  <2>0. a \in Int /\ b \in Int /\ C \in Nat /\ N <= 0
    BY <1>3, <1>4, <1>7, <1>13 DEF a, b, C
  <2>1. Calling(D(c), x)
    BY <1>13 DEF TailOf, Calling
  <2>2. CASE b = a
    <3>1. K <= C - 1
      BY <1>6, <2>1
    <3>2. b - a >= 0 - 1 + 1 /\ N <= 0 /\ K <= C - 1
      BY <2>0, <2>2, <3>1
    <3>3. Gap(x)' \in Int /\ Gap(x)' >= Gap(x) + 1
      BY <1>10, <3>2
    <3> QED
      BY <1>3, <3>3
  <2>3. CASE b # a
    <3>1. c # Len(stack)
      BY <1>11, <1>13, <2>3 DEF TailOf
    <3>2. K <= C - 2 /\ b = a - 1
      BY <1>6, <1>11, <2>1, <2>3, <3>1
    <3>3. b - a >= 0 - 2 + 1 /\ N <= 0 /\ K <= C - 2
      BY <2>0, <3>2
    <3>4. Gap(x)' \in Int /\ Gap(x)' >= Gap(x) + 1
      BY <1>10, <3>3
    <3> QED
      BY <1>3, <3>4
  <2> QED
    BY <2>2, <2>3
<1> QED
  BY <1>2, <1>12, <1>13

-----------------------------------------------------------------------------
(***************************************************************************)
(* The steps, one by one.                                                  *)
(***************************************************************************)

\* Every state on the stack is one of a target.
LEMMA Stacked ==
  ASSUME TypeOK
  PROVE  /\ stack \in Seq(States) /\ Len(stack) \in Nat
         /\ \A b \in Places : D(b) \in States /\ D(b).t \in Targets
<1>1. stack \in Seq(States)
  BY DEF TypeOK
<1>2. Len(stack) \in Nat /\ \A b \in Places : D(b) \in States
  BY <1>1, DeepType DEF D, Places
<1> QED
  BY <1>1, <1>2 DEF States

\* A step that only takes states off the stack.
LEMMA OnlyPops ==
  ASSUME TypeOK, OrderInv, NEW n, stack # <<>>, stack' = Popped,
         Len(Popped) = n, Kept(stack, Popped, n), ~intr => n = Len(stack) - 1,
         UNCHANGED <<progress, depends, status, running, intr>>,
         top.curstate # "MAKE1ATAIL",
         \A x, y \in Targets : Registered(x, y) => Registered(x, y)',
         \A x \in Targets : asynccnt'[x] = 0 <=> asynccnt[x] = 0
  PROVE  Steady(n, NoTarget) /\ Opened(NoTarget) /\ Entitled(NoTarget) /\ Pushed(n, NoTarget)
<1>1. NoTarget \notin Targets
  BY Make1Assumption
<1>2. /\ Len(stack) \in Nat /\ n \in Nat /\ n <= Len(stack) /\ stack' = Popped /\ Len(stack') = n
      /\ \A b \in 1..n : b \in Places
  BY Stacked DEF Kept, Places
<1>3. (n + 1)..Len(stack') = {}
  BY <1>2
<1>4. ~intr => \A a \in (n + 1)..Len(stack) : D(a) = top
  <2>1. ASSUME ~intr, NEW a \in (n + 1)..Len(stack) PROVE D(a) = top
    <3>1. a = Len(stack)
      BY <1>2, <2>1
    <3>2. D(Len(stack)) = Head(stack)
      BY Stacked, DeepTail DEF D
    <3> QED
      BY <3>1, <3>2 DEF top
  <2> QED
    BY <2>1
<1>5. Steady(n, NoTarget)
  <2>1. Kept(stack, stack', n) /\ (~intr => n >= Len(stack) - 1) /\ (intr => intr')
    BY <1>2
  <2>2. ASSUME ~intr, NEW a \in (n + 1)..Len(stack), NEW x PROVE ~TailOf(D(a), x)
    BY <1>4, <2>2 DEF TailOf
  <2> QED
    BY <2>1, <2>2 DEF Steady
<1>6. Pushed(n, NoTarget)
  <2>1. \A b \in 1..n : Holding(D(b)) => D(b).t # NoTarget
    BY <1>1, <1>2, Stacked
  <2>2. NoTarget \notin running
    BY <1>1 DEF TypeOK
  <2> QED
    BY <1>3, <2>1, <2>2 DEF Pushed
<1> QED
  BY <1>1, <1>5, <1>6 DEF Opened, Opens, Entitled

\* make1b(t) still waits: one call is answered, one less is counted.
LEMMA WaitOrdered ==
  ASSUME TypeOK, TypeOK', OrderInv, Make1bWait
  PROVE  OrderInv'
<1> PICK h : h = Len(stack) - 1
  OBVIOUS
<1> PICK t : t = top.t
  OBVIOUS
<1>1. stack # <<>> /\ top.curstate = "MAKE1B" /\ stack' = Popped /\ t \in Targets
  BY StackType DEF Make1bWait, Handler, top
<1>2. /\ h \in Nat /\ Len(stack) = h + 1 /\ D(h + 1) = top
      /\ \E n \in 0..h : /\ Len(Popped) = n /\ Kept(stack, Popped, n)
                         /\ ~intr => n = h
  BY <1>1, Handling DEF D, Handlers
<1>3. PICK n \in 0..h : Len(Popped) = n /\ Kept(stack, Popped, n) /\ (~intr => n = h)
  BY <1>2
<1>4. h + 1 \in Places /\ Calling(D(h + 1), t)
  BY <1>1, <1>2 DEF Places, Calling
<1>5. asynccnt[t] >= 1 /\ asynccnt[t] # 1 /\ asynccnt[t] \in Int
  BY <1>1, <1>4, Caller DEF Make1bWait, TypeOK
<1>6. /\ asynccnt' = [asynccnt EXCEPT ![t] = @ - 1] /\ asynccnt \in [Targets -> Int]
      /\ UNCHANGED <<progress, depends, status, running, intr, parents, semwait>>
  BY DEF Make1bWait, graph, exec, TypeOK
<1>7. \A x \in Targets : asynccnt'[x] = IF x = t THEN asynccnt[x] - 1 ELSE asynccnt[x]
  BY <1>6
<1>8. \A x \in Targets : asynccnt'[x] = 0 <=> asynccnt[x] = 0
  BY <1>5, <1>7
<1>9. \A x, y \in Targets : Registered(x, y) => Registered(x, y)'
  BY <1>6 DEF Registered
<1>10. Steady(n, NoTarget) /\ Opened(NoTarget) /\ Entitled(NoTarget) /\ Pushed(n, NoTarget)
  BY <1>1, <1>2, <1>3, <1>6, <1>8, <1>9, OnlyPops
<1>11. (n + 1)..Len(stack') = {} /\ n < Len(stack)
  BY <1>1, <1>2, <1>3
<1>12. GapsKept(n)
  <2>1. \A x \in Targets : \/ asynccnt'[x] = asynccnt[x]
                           \/ /\ asynccnt'[x] = asynccnt[x] - 1 /\ n < Len(stack)
                              /\ D(Len(stack)).curstate = "MAKE1B" /\ D(Len(stack)).t = x
                              /\ \A b \in (n + 1)..Len(stack') : ~Calling(D(b)', x)
    BY <1>1, <1>2, <1>7, <1>11
  <2>2. Kept(stack, stack', n)
    BY <1>1, <1>3
  <2> QED
    BY <1>6, <1>11, <2>1, <2>2, QuietGaps
<1>13. Visited(n)
  <2>1. ASSUME ~intr, NEW b \in (n + 1)..Len(stack) PROVE D(b).curstate # "MAKE1A"
    <3>1. b = h + 1
      BY <1>2, <1>3, <2>1
    <3> QED
      BY <1>1, <1>2, <3>1
  <2> QED
    BY <2>1 DEF Visited
<1> QED
  BY <1>10, <1>12, <1>13, Frame

\* What a handler that goes on to the next one leaves.
LEMMA Replaced ==
  ASSUME TypeOK, stack # <<>>, NEW c \in Handlers, stack' = Continue(c),
         NEW h, h = Len(stack) - 1, NEW t, t = top.t
  PROVE  /\ h \in Nat /\ Len(stack) = h + 1 /\ h < Len(stack) /\ h >= Len(stack) - 1
         /\ D(h + 1) = top /\ h + 1 \in Places /\ t \in Targets
         /\ Kept(stack, stack', h) /\ \A b \in 1..h : b \in Places /\ b # h + 1
         /\ \A b \in (h + 1)..Len(stack) : b = h + 1
         /\ \A b \in (h + 1)..Len(stack') :
              /\ ~intr /\ b = h + 1
              /\ D(b)'.curstate = c /\ D(b)'.t = t /\ D(b)'.parent = top.parent
<1>1. /\ h \in Nat /\ Len(stack) = h + 1 /\ Deep(stack, h + 1) = top
      /\ Kept(stack, Continue(c), h)
      /\ intr => Len(Continue(c)) = h
      /\ ~intr => /\ Len(Continue(c)) = h + 1
                  /\ Deep(Continue(c), h + 1) = [top EXCEPT !.curstate = c, !.status = StatusFor(c)]
  BY Handling
<1>2. top \in States /\ t \in Targets
  BY StackType
<1>3. ASSUME NEW b \in (h + 1)..Len(stack')
      PROVE  /\ ~intr /\ b = h + 1
             /\ D(b)'.curstate = c /\ D(b)'.t = t /\ D(b)'.parent = top.parent
  <2>0. /\ h \in Nat /\ b \in (h + 1)..Len(stack')
        /\ IF intr THEN Len(stack') = h ELSE Len(stack') = h + 1
    BY <1>1
  <2>1. ~intr /\ b = h + 1
    BY <2>0
  <2>2. D(b)' = [top EXCEPT !.curstate = c, !.status = StatusFor(c)]
    BY <1>1, <2>1 DEF D
  <2> QED
    BY <1>2, <2>1, <2>2 DEF States
<1> h \in Nat /\ Len(stack) = h + 1
  BY <1>1
<1>4. h < Len(stack) /\ h >= Len(stack) - 1 /\ h + 1 \in Places
  BY DEF Places
<1>5. \A b \in 1..h : b \in Places /\ b # h + 1
  BY DEF Places
<1>6. \A b \in (h + 1)..Len(stack) : b = h + 1
  OBVIOUS
<1> QED
  BY <1>1, <1>2, <1>3, <1>4, <1>5, <1>6 DEF D

\* make1atail(): the call of make1b(t) that was to come comes, or is lost.
LEMMA TailOrdered ==
  ASSUME TypeOK, TypeOK', OrderInv, Make1atail
  PROVE  OrderInv'
<1> PICK h : h = Len(stack) - 1
  OBVIOUS
<1> PICK t : t = top.t
  OBVIOUS
<1>1. stack # <<>> /\ top.curstate = "MAKE1ATAIL" /\ stack' = Continue("MAKE1B")
  BY DEF Make1atail, Handler, top
<1>2. /\ h \in Nat /\ Len(stack) = h + 1 /\ h < Len(stack) /\ h >= Len(stack) - 1
      /\ D(h + 1) = top /\ h + 1 \in Places /\ t \in Targets
      /\ Kept(stack, stack', h) /\ \A b \in 1..h : b \in Places /\ b # h + 1
      /\ \A b \in (h + 1)..Len(stack) : b = h + 1
      /\ \A b \in (h + 1)..Len(stack') :
           ~intr /\ b = h + 1 /\ D(b)'.curstate = "MAKE1B" /\ D(b)'.t = t
  BY <1>1, Replaced DEF Handlers
<1>3. TailOf(D(h + 1), t) /\ Calling(D(h + 1), t)
  BY <1>1, <1>2 DEF TailOf, Calling
<1>4. /\ asynccnt[t] >= 1 /\ progress[t] \notin {"INIT", "DONE"} /\ t \notin running
      /\ \A b \in Places : Holding(D(b)) => D(b).t # t
  BY <1>2, <1>3, Caller
<1>5. /\ progress' = [progress EXCEPT ![t] = "ACTIVE"] /\ progress \in [Targets -> Progress]
      /\ UNCHANGED <<asynccnt, depends, status, running, intr, parents, semwait>>
  BY DEF Make1atail, graph, exec, TypeOK
<1>6. \A x \in Targets : progress'[x] = IF x = t THEN "ACTIVE" ELSE progress[x]
  BY <1>5
<1>7. GapsKept(h)
  <2>1. \A x \in Targets : progress'[x] = "DONE" <=> progress[x] = "DONE"
    BY <1>4, <1>6
  <2>2. \A b \in (h + 1)..Len(stack') : \A x \in Targets : Calling(D(b)', x) =>
          ~intr /\ b = h + 1 /\ h < Len(stack) /\ Calling(D(h + 1), x)
    BY <1>2, <1>3 DEF Calling
  <2> QED
    BY <1>2, <1>5, <2>1, <2>2, QuietGaps
<1>8. Steady(h, t)
  <2>1. \A x, y \in Targets : Registered(x, y) => Registered(x, y)'
    BY <1>5 DEF Registered
  <2>2. \A x \in Targets : x # t => \A a \in (h + 1)..Len(stack) : ~TailOf(D(a), x)
    BY <1>2, <1>3 DEF TailOf
  <2> QED
    BY <1>2, <1>4, <1>5, <1>6, <2>1, <2>2 DEF Steady
<1>9. Opened(t) /\ Entitled(t)
  BY <1>2, <1>4, <1>5, <1>6 DEF Opened, Opens, Entitled
<1>10. Pushed(h, t)
  <2>1. \A b \in (h + 1)..Len(stack') : D(b)'.curstate = "MAKE1B" /\ ~Holding(D(b)')
    BY <1>2 DEF Holding
  <2> QED
    BY <1>2, <1>4, <1>5, <2>1 DEF Pushed
<1>11. Visited(h)
  BY <1>1, <1>2 DEF Visited
<1> QED
  BY <1>7, <1>8, <1>9, <1>10, <1>11, Frame

\* What the invariant says of a target that holds a state, or runs.
LEMMA Holder ==
  ASSUME TypeOK, OrderInv, NEW t \in Targets, Begun(t)
  PROVE  /\ asynccnt[t] = 0 /\ progress[t] \notin {"INIT", "DONE"}
         /\ \A d \in ToSet(depends[t]) : d \in Targets /\ progress[d] = "DONE" /\ d # t
<1>1. asynccnt[t] = 0 /\ progress[t] \notin {"INIT", "DONE"}
  BY DEF Begun
<1>2. \A d \in ToSet(depends[t]) : d \in Targets /\ progress[d] = "DONE"
  BY <1>1, DepsType DEF OrderInv, Past
<1> QED
  BY <1>1, <1>2

\* make1c() shows the command with -n, and make1d() judges one.
LEMMA NextOrdered ==
  ASSUME TypeOK, TypeOK', OrderInv, Make1cNoExec \/ Make1d
  PROVE  OrderInv'
<1> PICK h : h = Len(stack) - 1
  OBVIOUS
<1> PICK t : t = top.t
  OBVIOUS
<1> PICK c : c = IF top.curstate = "MAKE1C" THEN "MAKE1D" ELSE "MAKE1C"
  OBVIOUS
<1>1. /\ stack # <<>> /\ stack' = Continue(c) /\ c \in Handlers /\ Holding(top)
      /\ c = "MAKE1D" => status[t] = EXEC_CMD_OK /\ top.curstate = "MAKE1C"
      /\ c = "MAKE1C" => top.curstate = "MAKE1D"
  BY DEF Make1cNoExec, Make1d, Handler, top, HasCommand, Holding, Handlers
<1>2. /\ h \in Nat /\ Len(stack) = h + 1 /\ h < Len(stack) /\ h >= Len(stack) - 1
      /\ D(h + 1) = top /\ h + 1 \in Places /\ t \in Targets
      /\ Kept(stack, stack', h) /\ \A b \in 1..h : b \in Places /\ b # h + 1
      /\ \A b \in (h + 1)..Len(stack) : b = h + 1
      /\ \A b \in (h + 1)..Len(stack') : b = h + 1 /\ D(b)'.curstate = c /\ D(b)'.t = t
  BY <1>1, Replaced
<1>3. /\ Begun(t) /\ t \notin running /\ Sound(t)
      /\ \A b \in 1..h : Holding(D(b)) => D(b).t # t
  BY <1>1, <1>2 DEF OrderInv, Alone, Fine, Holding
<1>4. /\ UNCHANGED <<progress, asynccnt, depends, running, parents, semwait>>
      /\ \A x \in Targets : x # t => status'[x] = status[x]
      /\ intr => intr'
  BY DEF Make1cNoExec, Make1d, graph, exec, TypeOK
<1>5. /\ asynccnt[t] = 0 /\ progress[t] \notin {"INIT", "DONE"}
      /\ \A d \in ToSet(depends[t]) : d \in Targets /\ progress[d] = "DONE" /\ d # t
  BY <1>2, <1>3, Holder
<1>6. Begun(t)' /\ Sound(t)'
  BY <1>3, <1>4, <1>5 DEF Begun, Sound
<1>7. GapsKept(h)
  <2>1. \A b \in (h + 1)..Len(stack') : \A x \in Targets : ~Calling(D(b)', x)
    BY <1>1, <1>2 DEF Calling
  <2> QED
    BY <1>2, <1>4, <2>1, QuietGaps
<1>8. Steady(h, t)
  <2>1. \A x, y \in Targets : Registered(x, y) => Registered(x, y)'
    BY <1>4 DEF Registered
  <2>2. \A x \in Targets : \A a \in (h + 1)..Len(stack) : ~TailOf(D(a), x)
    BY <1>1, <1>2 DEF TailOf, Holding
  <2> QED
    BY <1>2, <1>4, <1>5, <2>1, <2>2 DEF Steady
<1>9. Opened(t) /\ Entitled(t)
  BY <1>2, <1>4, <1>5 DEF Opened, Opens, Entitled
<1>10. Pushed(h, t)
  <2>1. Right(t)
    BY <1>6 DEF Right
  <2>2. \A b \in (h + 1)..Len(stack') : D(b)'.curstate # "MAKE1A"
    BY <1>1, <1>2
  <2> QED
    BY <1>2, <1>3, <1>4, <1>6, <2>1, <2>2 DEF Pushed
<1>11. Visited(h)
  BY <1>1, <1>2 DEF Visited, Holding
<1> QED
  BY <1>7, <1>8, <1>9, <1>10, <1>11, Frame

\* What a handler that pops its state leaves: n states, those at the bottom.
LEMMA Taken ==
  ASSUME TypeOK, stack # <<>>, stack' = Popped
  PROVE  /\ Len(stack) \in Nat \ {0} /\ D(Len(stack)) = top /\ Len(stack) \in Places
         /\ top.t \in Targets
         /\ \E n \in Nat : /\ Kept(stack, stack', n) /\ Kept(stack, Popped, n) /\ Len(Popped) = n
                           /\ n < Len(stack) /\ Len(stack) \in (n + 1)..Len(stack)
                           /\ \A b \in 1..n : b \in Places /\ b # Len(stack)
                           /\ (n + 1)..Len(stack') = {}
                           /\ ~intr => /\ n = Len(stack) - 1 /\ n >= Len(stack) - 1
                                       /\ \A b \in (n + 1)..Len(stack) : b = Len(stack)
<1> PICK h : h = Len(stack) - 1
  OBVIOUS
<1>1. /\ h \in Nat /\ Len(stack) = h + 1 /\ Deep(stack, h + 1) = top
      /\ \E n \in 0..h : Len(Popped) = n /\ Kept(stack, Popped, n) /\ (~intr => n = h)
  BY Handling DEF Handlers
<1>2. top.t \in Targets
  BY StackType
<1>3. PICK n \in 0..h : Len(Popped) = n /\ Kept(stack, Popped, n) /\ (~intr => n = h)
  BY <1>1
<1> h \in Nat /\ Len(stack) = h + 1
  BY <1>1
<1>4. /\ n \in Nat /\ n < Len(stack) /\ Len(stack) \in (n + 1)..Len(stack)
      /\ \A b \in 1..n : b \in Places /\ b # Len(stack)
      /\ n = h => /\ n = Len(stack) - 1 /\ n >= Len(stack) - 1
                  /\ \A b \in (n + 1)..Len(stack) : b = Len(stack)
  BY DEF Places
<1>5. (n + 1)..Len(stack') = {}
  BY <1>3
<1>6. Len(stack) \in Nat \ {0} /\ Len(stack) \in Places
  BY DEF Places
<1> QED
  BY <1>1, <1>2, <1>3, <1>4, <1>5, <1>6 DEF D

\* make1c() launches a command.
LEMMA LaunchOrdered ==
  ASSUME TypeOK, TypeOK', OrderInv, Make1cLaunch
  PROVE  OrderInv'
<1> PICK t : t = top.t
  OBVIOUS
<1>1. /\ stack # <<>> /\ stack' = Popped /\ top.curstate = "MAKE1C" /\ status[t] = EXEC_CMD_OK
      /\ running' = running \cup {t}
      /\ UNCHANGED <<progress, asynccnt, depends, status, intr, parents, semwait>>
  BY DEF Make1cLaunch, Handler, top, HasCommand, graph
<1>2. /\ D(Len(stack)) = top /\ Len(stack) \in Places /\ t \in Targets
  BY <1>1, Taken
<1>3. PICK n \in Nat : /\ Kept(stack, stack', n) /\ n < Len(stack)
                       /\ \A b \in 1..n : b \in Places /\ b # Len(stack)
                       /\ (n + 1)..Len(stack') = {}
                       /\ ~intr => /\ n >= Len(stack) - 1
                                   /\ \A b \in (n + 1)..Len(stack) : b = Len(stack)
  BY <1>1, Taken
<1>4. /\ Begun(t) /\ t \notin running /\ Sound(t)
      /\ \A b \in 1..n : Holding(D(b)) => D(b).t # t
  BY <1>1, <1>2, <1>3 DEF OrderInv, Alone, Fine, Holding
<1>5. /\ asynccnt[t] = 0 /\ progress[t] \notin {"INIT", "DONE"}
      /\ \A d \in ToSet(depends[t]) : d \in Targets /\ progress[d] = "DONE" /\ d # t
  BY <1>2, <1>4, Holder
<1>6. Begun(t)' /\ Sound(t)'
  BY <1>1, <1>4, <1>5 DEF Begun, Sound
<1>7. GapsKept(n)
  BY <1>1, <1>3, QuietGaps
<1>8. Steady(n, t)
  <2>1. \A x, y \in Targets : Registered(x, y) => Registered(x, y)'
    BY <1>1 DEF Registered
  <2>2. ~intr => \A x \in Targets : \A a \in (n + 1)..Len(stack) : ~TailOf(D(a), x)
    BY <1>1, <1>2, <1>3 DEF TailOf
  <2> QED
    BY <1>1, <1>3, <2>1, <2>2 DEF Steady
<1>9. Opened(t) /\ Entitled(t)
  BY <1>1, <1>5 DEF Opened, Opens, Entitled
<1>10. Pushed(n, t)
  BY <1>1, <1>3, <1>4, <1>6 DEF Pushed, Right
<1>11. Visited(n)
  BY <1>1, <1>2, <1>3 DEF Visited
<1> QED
  BY <1>7, <1>8, <1>9, <1>10, <1>11, Frame

\* A command completes.
LEMMA CompleteOrdered ==
  ASSUME TypeOK, TypeOK', OrderInv, NEW t \in Targets, NEW st, Complete(t, st)
  PROVE  OrderInv'
<1> DEFINE x == [State(t, NoTarget, "MAKE1D") EXCEPT
                   !.status = IF sigint THEN EXEC_CMD_INTR ELSE st]
<1> PICK n : n = Len(stack)
  OBVIOUS
<1>1. /\ stack' = <<x>> \o stack /\ t \in running /\ running' = running \ {t}
      /\ UNCHANGED <<progress, asynccnt, depends, status, intr, parents, semwait>>
  BY DEF Complete, graph
<1>2. x.t = t /\ x.curstate = "MAKE1D"
  BY DEF State
<1> HIDE DEF x
<1>3. /\ stack \in Seq(States) /\ n \in Nat /\ stack' \in Seq(States)
      /\ \A b \in Places : D(b) \in States /\ D(b).t \in Targets
  BY Stacked DEF TypeOK
<1>4. /\ Len(stack') = n + 1 /\ Kept(stack, stack', n) /\ D(n + 1)' = x
  <2>1. x \in States
    <3>1. Len(stack') \in Nat /\ Head(stack') = x /\ stack' # <<>>
      BY <1>1, <1>3
    <3> HIDE DEF States
    <3> QED
      BY <1>3, <3>1
  <2> QED
    BY <1>1, <1>3, <2>1, DeepOne DEF D
<1>5. /\ (n + 1)..Len(stack) = {} /\ (\A b \in (n + 1)..Len(stack') : b = n + 1) /\ n >= Len(stack) - 1
      /\ \A b \in 1..n : b \in Places
  BY <1>3, <1>4 DEF Places
<1>6. /\ Begun(t) /\ Sound(t)
      /\ \A b \in 1..n : Holding(D(b)) => D(b).t # t
  BY <1>1, <1>5 DEF OrderInv, Alone, Fine
<1>7. /\ asynccnt[t] = 0 /\ progress[t] \notin {"INIT", "DONE"}
      /\ \A d \in ToSet(depends[t]) : d \in Targets /\ progress[d] = "DONE" /\ d # t
  BY <1>6, Holder
<1>8. Begun(t)' /\ Sound(t)'
  BY <1>1, <1>6, <1>7 DEF Begun, Sound
<1>9. GapsKept(n)
  <2>1. \A b \in (n + 1)..Len(stack') : \A y \in Targets : ~Calling(D(b)', y)
    BY <1>2, <1>4, <1>5 DEF Calling
  <2> QED
    BY <1>1, <1>4, <2>1, QuietGaps
<1>10. Steady(n, t)
  <2>1. \A y, z \in Targets : Registered(y, z) => Registered(y, z)'
    BY <1>1 DEF Registered
  <2> QED
    BY <1>1, <1>4, <1>5, <2>1 DEF Steady
<1>11. Opened(t) /\ Entitled(t)
  BY <1>1, <1>7 DEF Opened, Opens, Entitled
<1>12. Pushed(n, t)
  <2>1. ASSUME NEW b \in (n + 1)..Len(stack')
        PROVE  b = n + 1 /\ D(b)'.t = t /\ D(b)'.curstate = "MAKE1D"
    BY <1>2, <1>4, <1>5, <2>1
  <2> QED
    BY <1>1, <1>6, <1>8, <2>1 DEF Pushed, Right
<1>13. Visited(n)
  BY <1>5 DEF Visited
<1> QED
  BY <1>9, <1>10, <1>11, <1>12, <1>13, Frame

\* The worst of some statuses is good only when all are.
LEMMA WorstIsGood ==
  ASSUME NEW S, S \subseteq Statuses, S # {}, Max(S) = EXEC_CMD_OK
  PROVE  \A s \in S : s = EXEC_CMD_OK
<1>1. \A s \in S : s \in {0, 1, 2} /\ Max(S) >= s
  BY MaxOfStatuses DEF Statuses, EXEC_CMD_OK, EXEC_CMD_FAIL, EXEC_CMD_INTR
<1> QED
  BY <1>1 DEF EXEC_CMD_OK

\* Dependencies that make t's status good are good.
LEMMA GoodStatus ==
  ASSUME TypeOK, NEW t \in Targets, DependencyStatus(t) = EXEC_CMD_OK
  PROVE  Sound(t)
<1> DEFINE S == {status[t]} \cup {status[d] : d \in ToSet(depends[t]) \ NoCare}
<1>1. S \subseteq Statuses
  BY DepsType DEF TypeOK
<1>2. S # {} /\ Max(S) = EXEC_CMD_OK
  BY DEF DependencyStatus
<1> HIDE DEF S
<1>3. \A s \in S : s = EXEC_CMD_OK
  BY <1>1, <1>2, WorstIsGood
<1> QED
  BY <1>3 DEF S, Sound

(***************************************************************************)
(* make1b(t) finds a count of one: t's own call, which is being answered.  *)
(* Nothing else is owed, queued or to be called, so nothing t depends on   *)
(* is unfinished.                                                          *)
(***************************************************************************)
LEMMA LastCall ==
  ASSUME TypeOK, OrderInv, NEW b \in Places, NEW t \in Targets, Calling(D(b), t),
         D(b).curstate = "MAKE1B", asynccnt[t] = 1
  PROVE  \A d \in ToSet(depends[t]) : d \in Targets /\ progress[d] = "DONE"
<1> SUFFICES ASSUME NEW d \in ToSet(depends[t]) PROVE d \in Targets /\ progress[d] = "DONE"
  OBVIOUS
<1>1. d \in Targets
  BY DepsType
<1>2. progress[t] \notin {"INIT", "DONE"}
  BY Caller
<1>3. WaitsFor(t, d)
  BY <1>2 DEF OrderInv, Waits
<1> DEFINE O == Owed(progress, parents, t)
           C == Calls(stack, t)
<1>4. /\ Cardinality(O) \in Nat /\ IsFiniteSet(O) /\ IsFiniteSet(C) /\ Cardinality(C) \in Nat
      /\ Cardinality(Queued(semwait, t)) \in Nat /\ Gap(t) \in Nat
      /\ Gap(t) = 1 - (Cardinality(O) + Cardinality(C) + Cardinality(Queued(semwait, t)))
  BY GapTypes DEF OrderInv, Counted, Gap
<1>5. b \in C
  BY DEF Calls, D, Places
<1> HIDE DEF O, C
<1>6. Cardinality(C) >= 1
  <2>1. Cardinality(C) # 0
    BY <1>4, <1>5, FS_EmptySet
  <2> QED
    BY <1>4, <2>1
<1>7. Gap(t) = 0 /\ Cardinality(O) = 0 /\ Cardinality(C) = 1
  BY <1>4, <1>6
<1>8. CASE Registered(d, t)
  <2>1. PICK i \in DOMAIN parents[d] : parents[d][i] = t
    BY <1>8 DEF Registered
  <2>2. i \in Nat
    <3>1. parents[d] \in Seq(Targets)
      BY <1>1 DEF TypeOK
    <3> QED
      BY <3>1, <2>1
  <2>3. progress[d] # "DONE" => <<d, i>> \in O
    BY <1>1, <2>1, <2>2 DEF O, Owed
  <2>4. O = {}
    BY <1>4, <1>7, FS_EmptySet
  <2> QED
    BY <1>1, <2>3, <2>4
<1>9. CASE Coming(d, t)
  <2>1. PICK a \in Places : TailOf(D(a), t)
    BY <1>9 DEF Coming
  <2>2. a \in C /\ a # b
    BY <2>1 DEF C, Calls, D, Places, TailOf, Calling
  <2>3. IsFiniteSet(C \ {b}) /\ Cardinality(C \ {b}) = Cardinality(C) - 1
    BY <1>4, <1>5, FS_RemoveElement
  <2>4. C \ {b} = {}
    BY <1>7, <2>3, FS_EmptySet
  <2> QED
    BY <2>2, <2>4
<1> QED
  BY <1>1, <1>3, <1>4, <1>7, <1>8, <1>9 DEF WaitsFor

\* make1b() hands t to make1c().
LEMMA ReadyOrdered ==
  ASSUME TypeOK, TypeOK', OrderInv, Make1bReady
  PROVE  OrderInv'
<1> PICK h : h = Len(stack) - 1
  OBVIOUS
<1> PICK t : t = top.t
  OBVIOUS
<1>1. /\ stack # <<>> /\ top.curstate = "MAKE1B" /\ stack' = Continue("MAKE1C")
      /\ asynccnt[t] = 1 /\ asynccnt' = [asynccnt EXCEPT ![t] = 0]
      /\ UNCHANGED <<depends, running, intr, parents, semwait>>
  BY DEF Make1bReady, Handler, top, graph, exec
<1>2. /\ h \in Nat /\ Len(stack) = h + 1 /\ h < Len(stack) /\ h >= Len(stack) - 1
      /\ D(h + 1) = top /\ h + 1 \in Places /\ t \in Targets
      /\ Kept(stack, stack', h) /\ \A b \in 1..h : b \in Places /\ b # h + 1
      /\ \A b \in (h + 1)..Len(stack) : b = h + 1
      /\ \A b \in (h + 1)..Len(stack') : b = h + 1 /\ D(b)'.curstate = "MAKE1C" /\ D(b)'.t = t
  BY <1>1, Replaced DEF Handlers
<1>3. Calling(D(h + 1), t) /\ D(h + 1).curstate = "MAKE1B"
  BY <1>1, <1>2 DEF Calling
<1>4. /\ progress[t] \notin {"INIT", "DONE"} /\ t \notin running
      /\ \A b \in Places : Holding(D(b)) => D(b).t # t
  BY <1>2, <1>3, Caller
<1>5. \A d \in ToSet(depends[t]) : d \in Targets /\ progress[d] = "DONE" /\ d # t
  <2>1. asynccnt[t] = 1 /\ h + 1 \in Places /\ t \in Targets
    BY <1>1, <1>2
  <2>2. Calling(D(h + 1), t) /\ D(h + 1).curstate = "MAKE1B"
    BY <1>3
  <2>3. \A d \in ToSet(depends[t]) : d \in Targets /\ progress[d] = "DONE"
    BY <2>1, <2>2, LastCall
  <2> QED
    BY <1>4, <2>3
<1>6. \A x \in Targets : asynccnt'[x] = IF x = t THEN 0 ELSE asynccnt[x]
  BY <1>1 DEF TypeOK
<1>7. /\ \A x \in Targets : x # t => progress'[x] = progress[x]
      /\ progress'[t] \in {progress[t], "RUNNING"}
  <2>1. progress' = progress \/ progress' = [progress EXCEPT ![t] = "RUNNING"]
    BY DEF Make1bReady
  <2>2. progress \in [Targets -> Progress]
    BY DEF TypeOK
  <2> QED
    BY <1>2, <2>1, <2>2
<1>8. /\ \A x \in Targets : x # t => status'[x] = status[x]
      /\ status'[t] = EXEC_CMD_OK => DependencyStatus(t) = EXEC_CMD_OK
  BY SMTT(30), <1>2 DEF Make1bReady, TypeOK, EXEC_CMD_OK, EXEC_CMD_FAIL
<1>9. Right(t)
  <2>1. Begun(t)'
    BY <1>2, <1>4, <1>6, <1>7 DEF Begun
  <2>2. status'[t] = EXEC_CMD_OK => Sound(t)'
    <3>1. status'[t] = EXEC_CMD_OK => Sound(t)
      BY <1>2, <1>8, GoodStatus
    <3> QED
      BY <1>1, <1>5, <1>8, <3>1 DEF Sound
  <2> QED
    BY <2>1, <2>2 DEF Right
<1>10. GapsKept(h)
  <2>1. \A x \in Targets : progress'[x] = "DONE" <=> progress[x] = "DONE"
    BY <1>4, <1>7
  <2>2. \A b \in (h + 1)..Len(stack') : \A x \in Targets : ~Calling(D(b)', x)
    BY <1>2 DEF Calling
  <2>3. \A x \in Targets :
           \/ asynccnt'[x] = asynccnt[x]
           \/ /\ asynccnt'[x] = asynccnt[x] - 1 /\ h < Len(stack)
              /\ D(Len(stack)).curstate = "MAKE1B" /\ D(Len(stack)).t = x
              /\ \A b \in (h + 1)..Len(stack') : ~Calling(D(b)', x)
    <3>1. ASSUME NEW x \in Targets, x # t PROVE asynccnt'[x] = asynccnt[x]
      BY <1>6, <3>1
    <3>2. asynccnt'[t] = asynccnt[t] - 1
      BY <1>1, <1>2, <1>6
    <3>3. h < Len(stack) /\ D(Len(stack)).curstate = "MAKE1B" /\ D(Len(stack)).t = t
      BY <1>1, <1>2
    <3> QED
      BY <2>2, <3>1, <3>2, <3>3
  <2> QED
    BY <1>1, <1>2, <2>1, <2>2, <2>3, QuietGaps
<1>11. Steady(h, t)
  <2>1. \A x, y \in Targets : Registered(x, y) => Registered(x, y)'
    BY <1>1 DEF Registered
  <2>2. \A x \in Targets : \A a \in (h + 1)..Len(stack) : ~TailOf(D(a), x)
    BY <1>1, <1>2 DEF TailOf
  <2>3. \A x \in Targets :
          /\ progress[x] = "DONE" => progress'[x] = "DONE" /\ status'[x] = status[x]
          /\ progress'[x] = "INIT" <=> progress[x] = "INIT"
          /\ progress'[x] = "ONSTACK" => progress[x] = "ONSTACK"
          /\ x # t => /\ asynccnt'[x] = 0 <=> asynccnt[x] = 0
                      /\ progress'[x] = progress[x] /\ status'[x] = status[x]
    BY <1>4, <1>6, <1>7, <1>8
  <2> QED
    BY <1>1, <1>2, <2>1, <2>2, <2>3 DEF Steady
<1>12. Opened(t) /\ Entitled(t)
  BY <1>1, <1>2, <1>4, <1>5, <1>6, <1>7 DEF Opened, Opens, Entitled
<1>13. Pushed(h, t)
  <2>1. \A b \in (h + 1)..Len(stack') : D(b)'.curstate = "MAKE1C" /\ D(b)'.t = t /\ b = h + 1
    BY <1>2
  <2> QED
    BY <1>1, <1>2, <1>4, <1>9, <2>1 DEF Pushed
<1>14. Visited(h)
  BY <1>1, <1>2 DEF Visited
<1> QED
  BY <1>10, <1>11, <1>12, <1>13, <1>14, Frame

\* One more at most.
LEMMA OneMore ==
  ASSUME NEW S, NEW T, NEW e, IsFiniteSet(S), T \subseteq S \cup {e}
  PROVE  /\ IsFiniteSet(T) /\ Cardinality(T) <= Cardinality(S) + 1
         /\ Cardinality(S) \in Nat /\ Cardinality(T) \in Nat
<1>1. /\ IsFiniteSet(S \cup {e})
      /\ Cardinality(S \cup {e}) = IF e \in S THEN Cardinality(S) ELSE Cardinality(S) + 1
  BY FS_AddElement
<1>2. IsFiniteSet(T) /\ Cardinality(T) <= Cardinality(S \cup {e})
  BY <1>1, FS_Subset
<1>3. Cardinality(S) \in Nat /\ Cardinality(T) \in Nat
  BY <1>2, FS_CardinalityType
<1> QED
  BY <1>1, <1>2, <1>3

\* A step that pops, and counts what it registers or queues.
LEMMA PopGap ==
  ASSUME TypeOK, TypeOK', OrderInv, NEW x \in Targets, NEW n,
         Kept(stack, stack', n), (n + 1)..Len(stack') = {}, n < Len(stack),
         Len(stack) \in (n + 1)..Len(stack),
         NEW o \in Nat, NEW u \in Nat,
         IsFiniteSet(Owed(progress, parents, x)'), IsFiniteSet(Queued(semwait, x)'),
         Cardinality(Owed(progress, parents, x)') <= Cardinality(Owed(progress, parents, x)) + o,
         Cardinality(Queued(semwait, x)') <= Cardinality(Queued(semwait, x)) + u,
         \/ asynccnt'[x] - asynccnt[x] >= o + u
         \/ /\ asynccnt'[x] - asynccnt[x] >= o + u - 1
            /\ D(Len(stack)).curstate = "MAKE1B" /\ D(Len(stack)).t = x
  PROVE  /\ Gap(x)' \in Int /\ Gap(x)' >= Gap(x)
         /\ (\E a \in (n + 1)..Len(stack) : TailOf(D(a), x)) => Gap(x)' > Gap(x)
<1>1. stack \in Seq(States) /\ stack' \in Seq(States) /\ asynccnt'[x] \in Int
  BY DEF TypeOK
<1>2. Gap(x) \in Nat /\ asynccnt[x] \in Int
  BY GapTypes DEF OrderInv
<1> DEFINE C == Cardinality(Calls(stack, x))
           K == Cardinality(KeptCalls(stack, n, x))
           N == Cardinality(NewCalls(stack', n, x))
           i == asynccnt'[x] - asynccnt[x]
<1>3. /\ K \in Nat /\ C \in Nat /\ K <= C
      /\ \A c \in (n + 1)..Len(stack) : Calling(D(c), x) => K <= C - 1
      /\ \A c, d \in (n + 1)..Len(stack) :
           c # d /\ Calling(D(c), x) /\ Calling(D(d), x) => K <= C - 2
  BY <1>1, CallsCount DEF D
<1>4. N = 0
  <2>1. NewCalls(stack', n, x) = {}
    BY DEF NewCalls
  <2> QED
    BY <2>1, FS_EmptySet
<1>5. ASSUME NEW k \in Nat, NEW g \in Nat, K <= C - k, i >= o + u - k + g
      PROVE  Gap(x)' \in Int /\ Gap(x)' >= Gap(x) + g
  <2>1. N <= 0 /\ i >= o + u + 0 - k + g /\ 0 \in Int /\ o \in Int /\ u \in Int /\ k \in Int /\ g \in Int
    BY <1>1, <1>2, <1>4, <1>5
  <2> QED
    BY <1>5, <2>1, GapGrows DEF OrderInv
<1>6. \/ i >= o + u
      \/ i >= o + u - 1 /\ D(Len(stack)).curstate = "MAKE1B" /\ Calling(D(Len(stack)), x)
  BY DEF Calling
<1>7. i \in Int
  BY <1>1, <1>2
<1> HIDE DEF C, K, N, i
<1>8. Gap(x)' \in Int /\ Gap(x)' >= Gap(x)
  <2>1. CASE i >= o + u
    <3>1. K <= C - 0 /\ i >= o + u - 0 + 0
      BY <1>3, <1>7, <2>1
    <3>2. Gap(x)' \in Int /\ Gap(x)' >= Gap(x) + 0
      BY <1>5, <3>1
    <3> QED
      BY <1>2, <3>2
  <2>2. CASE ~(i >= o + u)
    <3>1. K <= C - 1 /\ i >= o + u - 1 + 0
      BY <1>3, <1>6, <1>7, <2>2
    <3>2. Gap(x)' \in Int /\ Gap(x)' >= Gap(x) + 0
      BY <1>5, <3>1
    <3> QED
      BY <1>2, <3>2
  <2> QED
    BY <2>1, <2>2
<1>9. ASSUME NEW a \in (n + 1)..Len(stack), TailOf(D(a), x)
      PROVE  Gap(x)' > Gap(x)
  <2>1. Calling(D(a), x)
    BY <1>9 DEF TailOf, Calling
  <2>2. CASE i >= o + u
    <3>1. K <= C - 1 /\ i >= o + u - 1 + 1
      BY <1>3, <1>7, <2>1, <2>2
    <3>2. Gap(x)' \in Int /\ Gap(x)' >= Gap(x) + 1
      BY <1>5, <3>1
    <3> QED
      BY <1>2, <3>2
  <2>3. CASE ~(i >= o + u)
    <3>1. a # Len(stack)
      BY <1>6, <1>9, <2>3 DEF TailOf
    <3>2. K <= C - 2
      BY <1>3, <1>6, <2>1, <2>3, <3>1
    <3>3. i >= o + u - 2 + 1
      BY <1>6, <1>7, <2>3
    <3>4. Gap(x)' \in Int /\ Gap(x)' >= Gap(x) + 1
      BY <1>5, <3>2, <3>3
    <3> QED
      BY <1>2, <3>4
  <2> QED
    BY <2>2, <2>3
<1> QED
  BY <1>8, <1>9

\* make1b(t) queues for its semaphore: the call is not answered, but kept.
LEMMA QueueOrdered ==
  ASSUME TypeOK, TypeOK', OrderInv, Make1bSemaphore
  PROVE  OrderInv'
<1> PICK t : t = top.t
  OBVIOUS
<1> PICK s : s = semaphore[t]
  OBVIOUS
<1>1. /\ stack # <<>> /\ stack' = Popped /\ top.curstate = "MAKE1B"
      /\ UNCHANGED <<progress, asynccnt, depends, status, running, intr, parents>>
  BY DEF Make1bSemaphore, Handler, top, graph, exec
<1>2. D(Len(stack)) = top /\ Len(stack) \in Places /\ t \in Targets
  BY <1>1, Taken
<1>3. PICK n \in Nat : /\ Kept(stack, stack', n) /\ Kept(stack, Popped, n) /\ Len(Popped) = n
                       /\ n < Len(stack) /\ Len(stack) \in (n + 1)..Len(stack)
                       /\ (n + 1)..Len(stack') = {}
                       /\ ~intr => /\ n = Len(stack) - 1
                                   /\ \A b \in (n + 1)..Len(stack) : b = Len(stack)
  BY <1>1, Taken
<1>4. s \in Sems /\ semwait' = [semwait EXCEPT ![s] = Append(@, t)]
  BY <1>2 DEF Make1bSemaphore, SemBusy, TypeOK
<1>5. GapsKept(n)
  <2> SUFFICES ASSUME NEW x \in Targets
               PROVE  /\ IsFiniteSet(Owed(progress, parents, x))' /\ IsFiniteSet(Queued(semwait, x))'
                      /\ Gap(x)' \in Int /\ Gap(x)' >= Gap(x)
                      /\ (\E a \in (n + 1)..Len(stack) : TailOf(D(a), x)) => Gap(x)' > Gap(x)
    BY DEF GapsKept
  <2>1. /\ IsFiniteSet(Owed(progress, parents, x)) /\ IsFiniteSet(Queued(semwait, x))
        /\ Cardinality(Owed(progress, parents, x)) \in Nat /\ Cardinality(Queued(semwait, x)) \in Nat
        /\ asynccnt[x] \in Int
    BY GapTypes DEF OrderInv, Counted
  <2>2. Owed(progress, parents, x)' = Owed(progress, parents, x)
    BY <1>1 DEF Owed
  <2> DEFINE e == <<s, Len(semwait[s]) + 1>>
  <2>3. /\ Queued(semwait, x)' \subseteq Queued(semwait, x) \cup {e}
        /\ x # t => Queued(semwait, x)' \subseteq Queued(semwait, x)
    <3>0. semwait \in [Sems -> Seq(Targets)] /\ semwait[s] \in Seq(Targets)
      BY <1>4 DEF TypeOK
    <3>1. DOMAIN semwait[s] = 1..Len(semwait[s]) /\ Len(semwait[s]) \in Nat
      BY <3>0
    <3>2. /\ \A r \in Sems : r # s => semwait'[r] = semwait[r]
          /\ semwait'[s] = Append(semwait[s], t)
      BY <1>4, <3>0
    <3>3. /\ DOMAIN semwait'[s] = 1..(Len(semwait[s]) + 1)
          /\ \A i \in 1..Len(semwait[s]) : semwait'[s][i] = semwait[s][i]
          /\ semwait'[s][Len(semwait[s]) + 1] = t
      BY <1>2, <3>0, <3>1, <3>2
    <3>4. ASSUME NEW y \in Sems \X Nat, y[2] \in DOMAIN semwait'[y[1]], semwait'[y[1]][y[2]] = x
          PROVE  y \in Queued(semwait, x) \/ (y = e /\ x = t)
      <4>0. y[1] \in Sems /\ y[2] \in Nat
        OBVIOUS
      <4>1. CASE y[1] # s
        <5>1. semwait'[y[1]] = semwait[y[1]]
          BY <3>2, <4>0, <4>1
        <5> QED
          BY <3>4, <5>1 DEF Queued
      <4>2. CASE y[1] = s
        <5>1. y[2] \in 1..Len(semwait[s]) \/ y[2] = Len(semwait[s]) + 1
          BY <3>1, <3>3, <3>4, <4>2
        <5>2. y = <<y[1], y[2]>>
          OBVIOUS
        <5>3. CASE y[2] \in 1..Len(semwait[s])
          <6>1. y[2] \in DOMAIN semwait[y[1]] /\ semwait[y[1]][y[2]] = x
            BY <3>1, <3>3, <3>4, <4>2, <5>3
          <6> QED
            BY <6>1 DEF Queued
        <5>4. CASE y[2] = Len(semwait[s]) + 1
          BY <3>3, <3>4, <4>2, <5>2, <5>4
        <5> QED
          BY <5>1, <5>3, <5>4
      <4> QED
        BY <4>1, <4>2
    <3> QED
      BY <3>4 DEF Queued
  <2> HIDE DEF e
  <2>4. IsFiniteSet(Owed(progress, parents, x)') /\ IsFiniteSet(Queued(semwait, x)')
    BY <2>1, <2>2, <2>3, OneMore
  <2>5. Cardinality(Owed(progress, parents, x)') <= Cardinality(Owed(progress, parents, x)) + 0
    BY <2>1, <2>2
  <2>6. CASE x = t
    <3>1. Cardinality(Queued(semwait, x)') <= Cardinality(Queued(semwait, x)) + 1
      BY <2>1, <2>3, OneMore
    <3>2. /\ asynccnt'[x] - asynccnt[x] >= 0 + 1 - 1
          /\ D(Len(stack)).curstate = "MAKE1B" /\ D(Len(stack)).t = x
      BY <1>1, <1>2, <2>1, <2>6
    <3>3. 0 \in Nat /\ 1 \in Nat
      OBVIOUS
    <3>4. /\ Gap(x)' \in Int /\ Gap(x)' >= Gap(x)
          /\ (\E a \in (n + 1)..Len(stack) : TailOf(D(a), x)) => Gap(x)' > Gap(x)
      BY <1>3, <2>4, <2>5, <3>1, <3>2, <3>3, PopGap
    <3> QED
      BY <2>4, <3>4
  <2>7. CASE x # t
    <3>1. Cardinality(Queued(semwait, x)') <= Cardinality(Queued(semwait, x))
      BY <2>1, <2>3, <2>7, FS_Subset
    <3>2. Cardinality(Queued(semwait, x)') \in Nat
      BY <2>4, FS_CardinalityType
    <3>3. Cardinality(Queued(semwait, x)') <= Cardinality(Queued(semwait, x)) + 0
      BY <2>1, <3>1, <3>2
    <3>4. asynccnt'[x] - asynccnt[x] >= 0 + 0 /\ 0 \in Nat
      BY <1>1, <2>1
    <3>5. /\ Gap(x)' \in Int /\ Gap(x)' >= Gap(x)
          /\ (\E a \in (n + 1)..Len(stack) : TailOf(D(a), x)) => Gap(x)' > Gap(x)
      BY <1>3, <2>4, <2>5, <3>3, <3>4, PopGap
    <3> QED
      BY <2>4, <3>5
  <2> QED
    BY <2>6, <2>7
<1>6. Steady(n, NoTarget) /\ Opened(NoTarget) /\ Entitled(NoTarget) /\ Pushed(n, NoTarget)
  <2>1. \A x, y \in Targets : Registered(x, y) => Registered(x, y)'
    BY <1>1 DEF Registered
  <2> QED
    BY <1>1, <1>3, <2>1, OnlyPops
<1>7. Visited(n)
  BY <1>1, <1>2, <1>3 DEF Visited
<1> QED
  BY <1>5, <1>6, <1>7, Frame

(***************************************************************************)
(* make1a(t) for the parent p: p is put among those to be told of t, and   *)
(* that is counted.                                                        *)
(***************************************************************************)
LEMMA NotifyCounts ==
  ASSUME TypeOK, OrderInv, NEW t \in Targets, NEW p \in Targets \cup {NoTarget}, Notify(t, p),
         \A x \in Targets : progress'[x] = "DONE" <=> progress[x] = "DONE", progress[t] # "DONE"
  PROVE  /\ \A x, y \in Targets : Registered(x, y) => Registered(x, y)'
         /\ p # NoTarget => Registered(t, p)'
         /\ \A x \in Targets :
              /\ IsFiniteSet(Owed(progress, parents, x)')
              /\ Cardinality(Owed(progress, parents, x)') <= Cardinality(Owed(progress, parents, x)) + 1
              /\ x # p => Cardinality(Owed(progress, parents, x)') <= Cardinality(Owed(progress, parents, x))
              /\ Cardinality(Owed(progress, parents, x)') \in Nat
<1>0. parents \in [Targets -> Seq(Targets)]
  BY DEF TypeOK
<1> DEFINE ps == parents[t]
           e  == <<t, Len(ps) + 1>>
<1>1. ps \in Seq(Targets) /\ Len(ps) \in Nat /\ DOMAIN ps = 1..Len(ps)
  <2>1. ps \in Seq(Targets)
    BY <1>0
  <2> QED
    BY <2>1
<1>2. /\ \A x \in Targets : x # t => parents'[x] = parents[x]
      /\ p = NoTarget => parents'[t] = ps
      /\ p # NoTarget => parents'[t] = Append(ps, p)
  BY <1>0 DEF Notify
<1> HIDE DEF ps
<1>3. /\ \A i \in DOMAIN ps : i \in DOMAIN parents'[t] /\ parents'[t][i] = ps[i]
      /\ p # NoTarget => Len(ps) + 1 \in DOMAIN parents'[t] /\ parents'[t][Len(ps) + 1] = p
      /\ \A i \in DOMAIN parents'[t] : i \in DOMAIN ps \/ (i = Len(ps) + 1 /\ parents'[t][i] = p)
  <2>1. CASE p = NoTarget
    BY <1>2, <2>1
  <2>2. CASE p # NoTarget
    <3>1. /\ DOMAIN Append(ps, p) = 1..(Len(ps) + 1) /\ Append(ps, p)[Len(ps) + 1] = p
          /\ \A i \in 1..Len(ps) : Append(ps, p)[i] = ps[i]
      BY <1>1, <2>2
    <3>2. \A i \in 1..(Len(ps) + 1) : i \in 1..Len(ps) \/ i = Len(ps) + 1
      BY <1>1
    <3>3. Len(ps) + 1 \in 1..(Len(ps) + 1) /\ \A i \in 1..Len(ps) : i \in 1..(Len(ps) + 1)
      BY <1>1
    <3> QED
      BY <1>1, <1>2, <2>2, <3>1, <3>2, <3>3, Zenon
  <2> QED
    BY <2>1, <2>2
<1>4. ASSUME NEW x \in Targets, NEW y \in Targets, Registered(x, y)
      PROVE  Registered(x, y)'
  <2>1. CASE x = t
    BY <1>3, <1>4, <2>1 DEF Registered, ps
  <2>2. CASE x # t
    BY <1>2, <1>4, <2>2 DEF Registered
  <2> QED
    BY <2>1, <2>2
<1>5. p # NoTarget => Registered(t, p)'
  BY <1>3 DEF Registered
<1>6. ASSUME NEW x \in Targets
      PROVE  /\ IsFiniteSet(Owed(progress, parents, x)')
             /\ Cardinality(Owed(progress, parents, x)') <= Cardinality(Owed(progress, parents, x)) + 1
             /\ x # p => Cardinality(Owed(progress, parents, x)') <= Cardinality(Owed(progress, parents, x))
             /\ Cardinality(Owed(progress, parents, x)') \in Nat
  <2> DEFINE O == Owed(progress, parents, x)
             P == Owed(progress, parents, x)'
  <2>1. ASSUME NEW y \in P PROVE y \in O \/ (y = e /\ x = p)
    <3>1. /\ y \in Targets \X Nat /\ progress'[y[1]] # "DONE"
          /\ y[2] \in DOMAIN parents'[y[1]] /\ parents'[y[1]][y[2]] = x
      BY DEF Owed
    <3>2. y[1] \in Targets /\ y[2] \in Nat /\ y = <<y[1], y[2]>>
      BY <3>1
    <3>3. CASE y[1] # t
      <4>1. parents'[y[1]] = parents[y[1]] /\ progress[y[1]] # "DONE"
        BY <1>2, <3>1, <3>2, <3>3
      <4> QED
        BY <3>1, <4>1 DEF Owed
    <3>4. CASE y[1] = t /\ y[2] \in DOMAIN ps
      <4>1. parents'[y[1]][y[2]] = ps[y[2]] /\ progress[y[1]] # "DONE" /\ ps = parents[y[1]]
        BY <1>3, <3>1, <3>2, <3>4 DEF ps
      <4>2. y[2] \in DOMAIN parents[y[1]] /\ parents[y[1]][y[2]] = x
        BY <3>1, <3>4, <4>1
      <4> QED
        BY <3>1, <4>1, <4>2 DEF Owed
    <3>5. CASE y[1] = t /\ y[2] \notin DOMAIN ps
      <4>1. y[2] = Len(ps) + 1 /\ x = p
        BY <1>3, <3>1, <3>5
      <4> QED
        BY <3>2, <3>5, <4>1
    <3> QED
      BY <3>3, <3>4, <3>5
  <2>2. IsFiniteSet(O)
    BY DEF OrderInv, Counted
  <2> HIDE DEF O, P, e
  <2>3. P \subseteq O \cup {e} /\ (x # p => P \subseteq O)
    BY <2>1
  <2>4. IsFiniteSet(P) /\ Cardinality(P) <= Cardinality(O) + 1 /\ Cardinality(P) \in Nat
    BY <2>2, <2>3, OneMore
  <2>5. x # p => Cardinality(P) <= Cardinality(O)
    BY <2>2, <2>3, FS_Subset
  <2> QED
    BY <2>4, <2>5 DEF O, P
<1> QED
  BY <1>4, <1>5, <1>6

\* make1a(t) finds t started: t has p to tell, or is done.
LEMMA SeenOrdered ==
  ASSUME TypeOK, TypeOK', OrderInv, Apart, Make1aSeen
  PROVE  OrderInv'
<1> PICK t : t = top.t
  OBVIOUS
<1> PICK p : p = top.parent
  OBVIOUS
<1>1. /\ stack # <<>> /\ stack' = Popped /\ top.curstate = "MAKE1A" /\ progress[t] # "INIT"
      /\ UNCHANGED <<progress, depends, status, running, intr, semwait>>
      /\ IF progress[t] \in {"ACTIVE", "RUNNING"} THEN Notify(t, p)
         ELSE UNCHANGED <<parents, asynccnt>>
  BY DEF Make1aSeen, Handler, top, Seen, exec
<1>2. D(Len(stack)) = top /\ Len(stack) \in Places /\ t \in Targets /\ p \in Targets \cup {NoTarget}
  BY <1>1, Taken, StackType
<1>3. PICK n \in Nat : /\ Kept(stack, stack', n) /\ Kept(stack, Popped, n) /\ Len(Popped) = n
                       /\ n < Len(stack) /\ Len(stack) \in (n + 1)..Len(stack)
                       /\ (n + 1)..Len(stack') = {}
                       /\ ~intr => /\ n = Len(stack) - 1
                                   /\ \A b \in (n + 1)..Len(stack) : b = Len(stack)
  BY <1>1, Taken
<1>4. \A x \in Targets : /\ asynccnt[x] \in Int /\ IsFiniteSet(Owed(progress, parents, x))
                         /\ IsFiniteSet(Queued(semwait, x))
                         /\ Cardinality(Owed(progress, parents, x)) \in Nat
                         /\ Cardinality(Queued(semwait, x)) \in Nat
  BY GapTypes DEF OrderInv, Counted
<1>5. p # NoTarget => asynccnt[p] >= 1
  <2> SUFFICES ASSUME p # NoTarget PROVE asynccnt[p] >= 1
    OBVIOUS
  <2>1. PICK a \in 1..(Len(stack) - 1) : TailOf(D(a), p)
    BY <1>1, <1>2 DEF OrderInv, Called
  <2>2. a \in Places /\ p \in Targets
    BY <1>2, Stacked DEF Places
  <2> QED
    BY <2>1, <2>2, Caller DEF TailOf, Calling
<1>6. CASE progress[t] \in {"ACTIVE", "RUNNING"}
  <2>1. Notify(t, p)
    BY <1>1, <1>6
  <2>2. \A x \in Targets : asynccnt'[x] = IF x = p THEN asynccnt[x] + 1 ELSE asynccnt[x]
    BY <1>6, <2>1 DEF Notify
  <2>3. \A x \in Targets : asynccnt'[x] = 0 <=> asynccnt[x] = 0
    <3>1. ASSUME NEW x \in Targets PROVE asynccnt'[x] = 0 <=> asynccnt[x] = 0
      <4>1. asynccnt[x] \in Int /\ (x = p => asynccnt[x] >= 1)
        BY <1>4, <1>5, Make1Assumption
      <4> QED
        BY <2>2, <4>1
    <3> QED
      BY <3>1
  <2>4. /\ \A x, y \in Targets : Registered(x, y) => Registered(x, y)'
        /\ p # NoTarget => Registered(t, p)'
        /\ \A x \in Targets :
              /\ IsFiniteSet(Owed(progress, parents, x)')
              /\ Cardinality(Owed(progress, parents, x)') <= Cardinality(Owed(progress, parents, x)) + 1
              /\ x # p => Cardinality(Owed(progress, parents, x)') <= Cardinality(Owed(progress, parents, x))
              /\ Cardinality(Owed(progress, parents, x)') \in Nat
    BY <1>1, <1>2, <1>6, <2>1, NotifyCounts
  <2>5. GapsKept(n)
    <3> SUFFICES ASSUME NEW x \in Targets
                 PROVE  /\ IsFiniteSet(Owed(progress, parents, x))' /\ IsFiniteSet(Queued(semwait, x))'
                        /\ Gap(x)' \in Int /\ Gap(x)' >= Gap(x)
                        /\ (\E a \in (n + 1)..Len(stack) : TailOf(D(a), x)) => Gap(x)' > Gap(x)
      BY DEF GapsKept
    <3>1. Queued(semwait, x)' = Queued(semwait, x)
      BY <1>1 DEF Queued
    <3>2. /\ IsFiniteSet(Owed(progress, parents, x)') /\ IsFiniteSet(Queued(semwait, x)')
          /\ Cardinality(Queued(semwait, x)') <= Cardinality(Queued(semwait, x)) + 0
      BY <1>4, <2>4, <3>1
    <3>3. PICK o \in {0, 1} :
             /\ Cardinality(Owed(progress, parents, x)') <= Cardinality(Owed(progress, parents, x)) + o
             /\ asynccnt'[x] - asynccnt[x] >= o + 0
      <4>1. CASE x = p
        <5>1. /\ Cardinality(Owed(progress, parents, x)') <= Cardinality(Owed(progress, parents, x)) + 1
              /\ asynccnt'[x] - asynccnt[x] >= 1 + 0
          BY <1>4, <2>2, <2>4, <4>1
        <5> QED
          BY <5>1
      <4>2. CASE x # p
        <5>1. /\ Cardinality(Owed(progress, parents, x)') <= Cardinality(Owed(progress, parents, x)) + 0
              /\ asynccnt'[x] - asynccnt[x] >= 0 + 0
          BY <1>4, <2>2, <2>4, <4>2
        <5> QED
          BY <5>1
      <4> QED
        BY <4>1, <4>2
    <3>4. o \in Nat /\ 0 \in Nat
      OBVIOUS
    <3>5. /\ Gap(x)' \in Int /\ Gap(x)' >= Gap(x)
          /\ (\E a \in (n + 1)..Len(stack) : TailOf(D(a), x)) => Gap(x)' > Gap(x)
      BY <1>3, <3>2, <3>3, <3>4, PopGap
    <3> QED
      BY <3>2, <3>5
  <2>6. Steady(n, NoTarget) /\ Opened(NoTarget) /\ Entitled(NoTarget) /\ Pushed(n, NoTarget)
    BY <1>1, <1>3, <2>3, <2>4, OnlyPops
  <2>7. Visited(n)
    <3>1. ASSUME ~intr, NEW b \in (n + 1)..Len(stack), NEW d \in Targets, NEW x \in Targets,
                 D(b).t = d, D(b).parent = x
          PROVE  Registered(d, x)'
      <4>1. d = t /\ x = p /\ p # NoTarget
        BY <1>2, <1>3, <3>1, Make1Assumption
      <4> QED
        BY <2>4, <4>1
    <3> QED
      BY <3>1 DEF Visited
  <2> QED
    BY <2>5, <2>6, <2>7, Frame
<1>7. CASE progress[t] \notin {"ACTIVE", "RUNNING"}
  <2>1. UNCHANGED <<parents, asynccnt>>
    BY <1>1, <1>7
  <2>2. \A x, y \in Targets : Registered(x, y) => Registered(x, y)'
    BY <2>1 DEF Registered
  <2>3. GapsKept(n)
    <3>1. \A x \in Targets : asynccnt'[x] = asynccnt[x]
      BY <2>1
    <3> QED
      BY <1>1, <1>3, <2>1, <3>1, QuietGaps
  <2>4. Steady(n, NoTarget) /\ Opened(NoTarget) /\ Entitled(NoTarget) /\ Pushed(n, NoTarget)
    BY <1>1, <1>3, <2>1, <2>2, OnlyPops
  <2>5. Visited(n)
    <3> SUFFICES ASSUME ~intr PROVE progress'[t] = "DONE"
      BY <1>2, <1>3 DEF Visited
    <3>1. progress[t] # "ONSTACK"
      <4> SUFFICES ASSUME progress[t] = "ONSTACK" PROVE FALSE
        OBVIOUS
      <4>1. PICK a \in Places : TailOf(D(a), t)
        BY <1>2 DEF OrderInv, Started
      <4>2. a < Len(stack)
        <5>1. a # Len(stack)
          BY <1>1, <1>2, <4>1 DEF TailOf
        <5> QED
          BY <5>1, Stacked DEF Places
      <4> QED
        BY <1>1, <1>2, <4>1, <4>2 DEF Apart, TailOf
    <3>2. progress[t] \in Progress
      BY <1>2 DEF TypeOK
    <3> QED
      BY <1>1, <1>7, <3>1, <3>2 DEF Progress
  <2> QED
    BY <2>3, <2>4, <2>5, Frame
<1> QED
  BY <1>6, <1>7

(***************************************************************************)
(* The first make1a(t): its own call of make1b(t) is counted and, above    *)
(* the state that will make it, one visit for each of its dependencies.    *)
(***************************************************************************)
Visits(deps, t) == [i \in DOMAIN deps |-> State(deps[i], t, "MAKE1A")]

\* What make1a(t) does to the stack: t's own state stays, the visits come above.
Opening(h, t, deps) ==
  /\ h \in Nat /\ Len(stack) = h + 1 /\ D(h + 1) = top /\ h + 1 \in Places
  /\ Kept(stack, stack', h)
  /\ intr => Len(stack') = h
  /\ ~intr => /\ h + 1 \in Places' /\ TailOf(D(h + 1)', t)
              /\ \A b \in (h + 2)..Len(stack') :
                   D(b)'.curstate = "MAKE1A" /\ D(b)'.parent = t /\ D(b)'.t \in ToSet(deps)
              /\ \A d \in ToSet(deps) : \E b \in Places' :
                   /\ b > h + 1 /\ D(b)'.curstate = "MAKE1A"
                   /\ D(b)'.t = d /\ D(b)'.parent = t

LEMMA OpenedStack ==
  ASSUME TypeOK, stack # <<>>, NEW h, h = Len(stack) - 1, NEW t, t = top.t,
         NEW deps \in Seq(Targets),
         stack' = IF intr THEN Continue("MAKE1ATAIL") ELSE Visits(deps, t) \o Continue("MAKE1ATAIL")
  PROVE  Opening(h, t, deps)
<1> DEFINE q == Continue("MAKE1ATAIL")
           p == Visits(deps, t)
<1>1. /\ h \in Nat /\ Len(stack) = h + 1 /\ Deep(stack, h + 1) = top
      /\ Kept(stack, q, h)
      /\ intr => Len(q) = h
      /\ ~intr => /\ Len(q) = h + 1
                  /\ Deep(q, h + 1) = [top EXCEPT !.curstate = "MAKE1ATAIL", !.status = StatusFor("MAKE1ATAIL")]
  BY Handling DEF Handlers
<1>2. t \in Targets /\ top \in States /\ q \in Seq(States) /\ p \in Seq(States)
  BY StackType, ContinueType, PushedType DEF Handlers, Visits
<1>3. h + 1 \in Places
  <2>1. h \in Nat /\ Len(stack) = h + 1
    BY <1>1
  <2> QED
    BY <2>1 DEF Places
<1>4. CASE intr
  <2>1. stack' = q
    BY <1>4
  <2> HIDE DEF q
  <2> QED
    BY <1>1, <1>3, <1>4, <2>1 DEF D, Opening
<1>5. CASE ~intr
  <2>1. stack' = p \o q
    BY <1>5
  <2>2. DOMAIN p = DOMAIN deps /\ Len(deps) \in Nat /\ DOMAIN deps = 1..Len(deps) /\ Len(p) = Len(deps)
    <3>1. Len(deps) \in Nat /\ DOMAIN deps = 1..Len(deps)
      OBVIOUS
    <3> QED
      BY <3>1 DEF Visits
  <2>3. \A i \in DOMAIN deps : p[i].curstate = "MAKE1A" /\ p[i].parent = t /\ p[i].t = deps[i]
    BY DEF State, Visits
  <2>4. Deep(q, h + 1).curstate = "MAKE1ATAIL" /\ Deep(q, h + 1).t = t
    BY <1>1, <1>2, <1>5 DEF States
  <2>5. Len(q) = h + 1 /\ Kept(stack, q, h)
    BY <1>1, <1>5
  <2> HIDE DEF p, q, States
  <2>6. /\ Len(p \o q) = Len(p) + Len(q)
        /\ Kept(q, p \o q, Len(q))
        /\ \A b \in (Len(q) + 1)..(Len(q) + Len(p)) :
              /\ Len(p) + Len(q) + 1 - b \in DOMAIN p
              /\ Deep(p \o q, b) = p[Len(p) + Len(q) + 1 - b]
    BY <1>2, DeepPush
  <2> DEFINE m == Len(deps)
  <2>7. /\ h \in Nat /\ m \in Nat /\ Len(stack') = m + h + 1
        /\ Kept(q, stack', h + 1)
        /\ \A b \in (h + 2)..(h + 1 + m) :
              m + h + 2 - b \in 1..m /\ D(b)' = p[m + h + 2 - b]
    <3>1. /\ h \in Nat /\ m \in Nat /\ Len(p) = m /\ Len(q) = h + 1 /\ stack' = p \o q
      BY <1>1, <2>1, <2>2, <2>5
    <3>2. Len(stack') = m + h + 1 /\ Kept(q, stack', h + 1)
      <4>1. Len(stack') = Len(p) + Len(q) /\ Kept(q, stack', Len(q))
        BY <2>1, <2>6, Zenon
      <4>2. Len(p) + Len(q) = m + h + 1
        BY <3>1
      <4> QED
        BY <3>1, <4>1, <4>2, Zenon
    <3>3. ASSUME NEW b \in (h + 2)..(h + 1 + m)
          PROVE  m + h + 2 - b \in 1..m /\ D(b)' = p[m + h + 2 - b]
      <4>1. b \in (Len(q) + 1)..(Len(q) + Len(p)) /\ Len(p) + Len(q) + 1 - b = m + h + 2 - b
        BY <3>1
      <4>2. m + h + 2 - b \in 1..m
        BY <3>1
      <4> QED
        BY <2>6, <3>1, <4>1, <4>2 DEF D
    <3> QED
      BY <3>1, <3>2, <3>3
  <2> HIDE DEF m
  <2>8. h <= h + 1 /\ h + 1 \in 1..(h + 1)
    BY <2>7
  <2>9. Kept(stack, stack', h)
    <3>1. Kept(q, stack', h)
      BY <2>7, <2>8 DEF Kept
    <3>2. h <= h
      BY <2>7
    <3> QED
      BY <2>5, <3>1, <3>2 DEF Kept
  <2>10. D(h + 1)' = Deep(q, h + 1)
    BY <2>7, <2>8 DEF Kept, D
  <2>11. h + 1 \in Places'
    BY <2>7 DEF Places
  <2>12. \A b \in (h + 2)..Len(stack') :
           D(b)'.curstate = "MAKE1A" /\ D(b)'.parent = t /\ D(b)'.t \in ToSet(deps)
    <3>1. \A b \in (h + 2)..Len(stack') : b \in (h + 2)..(h + 1 + m)
      BY <2>7
    <3>2. DOMAIN deps = 1..m /\ \A i \in 1..m : deps[i] \in ToSet(deps)
      BY <2>2 DEF m, ToSet
    <3>3. \A i \in 1..m : p[i].curstate = "MAKE1A" /\ p[i].parent = t /\ p[i].t \in ToSet(deps)
      BY <2>3, <3>2
    <3> QED
      BY <2>7, <3>1, <3>3
  <2>13. ASSUME NEW d \in ToSet(deps)
         PROVE  \E b \in Places' : /\ b > h + 1 /\ D(b)'.curstate = "MAKE1A"
                                   /\ D(b)'.t = d /\ D(b)'.parent = t
    <3>1. PICK i \in 1..m : deps[i] = d
      BY <2>2, <2>13 DEF ToSet, m
    <3> DEFINE b == m + h + 2 - i
    <3>2. b \in (h + 2)..(h + 1 + m) /\ b > h + 1 /\ m + h + 2 - b = i /\ b \in 1..(m + h + 1)
      BY <2>7
    <3> HIDE DEF b
    <3>3. D(b)' = p[i] /\ b \in Places'
      BY <2>7, <3>2 DEF Places
    <3>4. p[i].curstate = "MAKE1A" /\ p[i].parent = t /\ p[i].t = d
      BY <2>2, <2>3, <3>1 DEF m
    <3> QED
      BY <3>2, <3>3, <3>4
  <2> QED
    BY <1>1, <1>3, <1>5, <2>4, <2>9, <2>10, <2>11, <2>12, <2>13 DEF D, TailOf, Opening
<1> QED
  BY <1>4, <1>5

LEMMA StartOrdered ==
  ASSUME TypeOK, TypeOK', OrderInv, Make1aStart
  PROVE  OrderInv'
<1> PICK h : h = Len(stack) - 1
  OBVIOUS
<1> PICK t : t = top.t
  OBVIOUS
<1> PICK p : p = top.parent
  OBVIOUS
<1> PICK deps : deps = depends[t] \o NewIncludes(depends[t])
  OBVIOUS
<1>1. /\ stack # <<>> /\ top.curstate = "MAKE1A" /\ progress[t] = "INIT" /\ Notify(t, p)
      /\ depends' = [depends EXCEPT ![t] = deps]
      /\ progress' = [progress EXCEPT ![t] = "ONSTACK"]
      /\ stack' = IF intr THEN Continue("MAKE1ATAIL")
                  ELSE Visits(deps, t) \o Continue("MAKE1ATAIL")
      /\ UNCHANGED <<status, running, intr, semwait>>
  BY DEF Make1aStart, Handler, top, Seen, exec, Visits
<1>2. t \in Targets /\ p \in Targets \cup {NoTarget}
  BY <1>1, StackType
<1>3. deps \in Seq(Targets)
  <2>1. depends[t] \in Seq(Targets)
    BY <1>2 DEF TypeOK
  <2>2. NewIncludes(depends[t]) \in Seq(Targets)
    BY <2>1, NewIncludesType
  <2> QED
    BY <2>1, <2>2
<1>4. /\ h \in Nat /\ Len(stack) = h + 1 /\ D(h + 1) = top /\ h + 1 \in Places
      /\ Kept(stack, stack', h)
      /\ intr => Len(stack') = h
      /\ ~intr => /\ h + 1 \in Places' /\ TailOf(D(h + 1)', t)
                  /\ \A b \in (h + 2)..Len(stack') : D(b)'.curstate = "MAKE1A" /\ D(b)'.parent = t
                  /\ \A d \in ToSet(deps) : \E b \in Places' :
                       /\ b > h + 1 /\ D(b)'.curstate = "MAKE1A"
                       /\ D(b)'.t = d /\ D(b)'.parent = t
  <2>1. stack # <<>>
    BY <1>1
  <2>2. stack' = IF intr THEN Continue("MAKE1ATAIL") ELSE Visits(deps, t) \o Continue("MAKE1ATAIL")
    BY <1>1
  <2>3. Opening(h, t, deps)
    BY <1>3, <2>1, <2>2, OpenedStack
  <2> QED
    BY <2>3 DEF Opening
<1>5. /\ \A b \in 1..h : b \in Places /\ b # h + 1
      /\ \A b \in (h + 1)..Len(stack) : b = h + 1
      /\ h < Len(stack) /\ h >= Len(stack) - 1
  <2>1. h \in Nat /\ Len(stack) = h + 1
    BY <1>4
  <2> QED
    BY <2>1 DEF Places
<1>6. /\ \A x \in Targets : progress'[x] = IF x = t THEN "ONSTACK" ELSE progress[x]
      /\ \A x \in Targets : depends'[x] = IF x = t THEN deps ELSE depends[x]
  BY <1>1, <1>2 DEF TypeOK
<1>7. \A x \in Targets : progress'[x] = "DONE" <=> progress[x] = "DONE"
  BY <1>1, <1>6
<1>8. /\ \A x, y \in Targets : Registered(x, y) => Registered(x, y)'
      /\ p # NoTarget => Registered(t, p)'
      /\ \A x \in Targets :
           /\ IsFiniteSet(Owed(progress, parents, x)')
           /\ Cardinality(Owed(progress, parents, x)') <= Cardinality(Owed(progress, parents, x)) + 1
           /\ x # p => Cardinality(Owed(progress, parents, x)') <= Cardinality(Owed(progress, parents, x))
           /\ Cardinality(Owed(progress, parents, x)') \in Nat
  BY <1>1, <1>2, <1>7, NotifyCounts
<1>9. \A x \in Targets : /\ asynccnt[x] \in Int /\ Gap(x) \in Nat
                         /\ IsFiniteSet(Queued(semwait, x))
                         /\ Cardinality(Owed(progress, parents, x)) \in Nat
                         /\ Cardinality(Queued(semwait, x)) \in Nat
  BY GapTypes DEF OrderInv, Counted
<1>10. asynccnt[t] = 0
  BY <1>1, <1>2 DEF OrderInv, Idle
<1>11. p # NoTarget => asynccnt[p] >= 1 /\ progress[p] # "INIT" /\ p # t
  <2> SUFFICES ASSUME p # NoTarget PROVE asynccnt[p] >= 1 /\ progress[p] # "INIT"
    BY <1>1
  <2>1. PICK a \in 1..h : TailOf(D(a), p)
    <3>1. \E a \in 1..((h + 1) - 1) : TailOf(D(a), p)
      BY <1>1, <1>4 DEF OrderInv, Called
    <3>2. (h + 1) - 1 = h
      BY <1>4
    <3> QED
      BY <3>1, <3>2
  <2>2. a \in Places /\ p \in Targets
    BY <1>2, <1>5
  <2> QED
    BY <2>1, <2>2, Caller DEF TailOf, Calling
<1>12. \A x \in Targets : asynccnt'[x] = IF x = t THEN 1
                                         ELSE IF x = p THEN asynccnt[x] + 1 ELSE asynccnt[x]
  BY <1>1 DEF Notify
<1>13. ASSUME NEW x \in Targets
       PROVE  /\ Gap(x)' \in Int /\ Gap(x)' >= Gap(x)
              /\ intr /\ x = t => Gap(x)' > Gap(x)
  <2> DEFINE N == Cardinality(NewCalls(stack', h, x))
  <2>1. N \in {0, 1} /\ ((intr \/ x # t) => N = 0)
    <3>1. NewCalls(stack', h, x) \subseteq {h + 1}
      <4>1. ASSUME NEW b \in NewCalls(stack', h, x) PROVE b = h + 1
        <5>1. b \in (h + 1)..Len(stack') /\ Calling(D(b)', x)
          BY DEF NewCalls, D
        <5>2. ~intr
          <6>1. h \in Nat /\ (intr => Len(stack') = h)
            BY <1>4
          <6> QED
            BY <5>1, <6>1
        <5>3. b \notin (h + 2)..Len(stack')
          BY <1>4, <5>1, <5>2 DEF Calling
        <5>4. h \in Nat
          BY <1>4
        <5> QED
          BY <5>1, <5>3, <5>4
      <4> QED
        BY <4>1
    <3>2. intr \/ x # t => NewCalls(stack', h, x) = {}
      <4>1. ASSUME NEW b \in NewCalls(stack', h, x) PROVE ~intr /\ x = t
        <5>1. b \in (h + 1)..Len(stack') /\ Calling(D(b)', x) /\ b = h + 1
          BY <3>1 DEF NewCalls, D
        <5>2. ~intr
          <6>1. h \in Nat /\ (intr => Len(stack') = h)
            BY <1>4
          <6> QED
            BY <5>1, <6>1
        <5> QED
          BY <1>4, <5>1, <5>2 DEF TailOf, Calling
      <4> QED
        BY <4>1
    <3>3. IsFiniteSet({h + 1}) /\ Cardinality({h + 1}) = 1 /\ Cardinality({}) = 0
      BY FS_Singleton, FS_EmptySet
    <3>4. Cardinality(NewCalls(stack', h, x)) <= 1
      BY <3>1, <3>3, FS_Subset
    <3>5. N \in Nat
      <4>1. IsFiniteSet(NewCalls(stack', h, x))
        BY <3>1, <3>3, FS_Subset
      <4> QED
        BY <4>1, FS_CardinalityType
    <3>6. intr \/ x # t => N = 0
      BY <3>2, <3>3
    <3> HIDE DEF N
    <3>7. N <= 1
      BY <3>4 DEF N
    <3> QED
      BY <3>5, <3>6, <3>7
  <2>2. Cardinality(KeptCalls(stack, h, x)) <= Cardinality(Calls(stack, x)) - 0
    <3>1. stack \in Seq(States)
      BY DEF TypeOK
    <3>2. /\ Cardinality(KeptCalls(stack, h, x)) <= Cardinality(Calls(stack, x))
          /\ Cardinality(Calls(stack, x)) \in Nat
      <4>1. stack' \in Seq(States)
        BY DEF TypeOK
      <4> QED
        BY <1>4, <3>1, <4>1, CallsCount
    <3> QED
      BY <3>2
  <2>3. Queued(semwait, x)' = Queued(semwait, x)
    BY <1>1 DEF Queued
  <2>4. /\ IsFiniteSet(Owed(progress, parents, x)') /\ IsFiniteSet(Queued(semwait, x)')
        /\ Cardinality(Queued(semwait, x)') <= Cardinality(Queued(semwait, x)) + 0
    BY <1>8, <1>9, <2>3
  <2> HIDE DEF N
  <2>5. ASSUME NEW o \in {0, 1}, NEW g \in {0, 1},
               Cardinality(Owed(progress, parents, x)') <= Cardinality(Owed(progress, parents, x)) + o,
               asynccnt'[x] - asynccnt[x] >= o + 0 + N - 0 + g
        PROVE  Gap(x)' \in Int /\ Gap(x)' >= Gap(x) + g
    <3>1. N <= N /\ N \in Int /\ o \in Int /\ g \in Int /\ 0 \in Int
      BY <2>1
    <3>2. Cardinality(NewCalls(stack', h, x)) <= N
      BY <3>1 DEF N
    <3> QED
      BY <1>4, <2>2, <2>4, <2>5, <3>1, <3>2, GapGrows DEF OrderInv
  <2>6. CASE x = t
    <3>1. /\ Cardinality(Owed(progress, parents, x)') <= Cardinality(Owed(progress, parents, x)) + 0
          /\ asynccnt'[x] - asynccnt[x] = 1
      <4>1. x # p
        BY <1>2, <1>11, <2>6, Make1Assumption
      <4>2. Cardinality(Owed(progress, parents, x)') <= Cardinality(Owed(progress, parents, x))
        BY <1>8, <4>1
      <4>3. asynccnt'[x] = 1 /\ asynccnt[x] = 0
        BY <1>10, <1>12, <2>6
      <4> QED
        BY <1>8, <1>9, <4>2, <4>3
    <3>2. Gap(x)' \in Int /\ Gap(x)' >= Gap(x) + 0
      <4>1. asynccnt'[x] - asynccnt[x] >= 0 + 0 + N - 0 + 0
        BY <2>1, <3>1
      <4> QED
        BY <2>5, <3>1, <4>1
    <3>3. intr => Gap(x)' >= Gap(x) + 1
      <4>1. intr => asynccnt'[x] - asynccnt[x] >= 0 + 0 + N - 0 + 1
        BY <2>1, <3>1
      <4> QED
        BY <2>5, <3>1, <4>1
    <3> QED
      BY <1>9, <3>2, <3>3
  <2>7. CASE x # t /\ x = p
    <3>1. asynccnt'[x] - asynccnt[x] >= 1 + 0 + N - 0 + 0
      BY <1>9, <1>12, <2>1, <2>7
    <3>2. Gap(x)' \in Int /\ Gap(x)' >= Gap(x) + 0
      BY <1>8, <2>5, <3>1
    <3> QED
      BY <1>9, <2>7, <3>2
  <2>8. CASE x # t /\ x # p
    <3>1. asynccnt'[x] - asynccnt[x] >= 0 + 0 + N - 0 + 0
      BY <1>9, <1>12, <2>1, <2>8
    <3>2. Cardinality(Owed(progress, parents, x)') <= Cardinality(Owed(progress, parents, x)) + 0
      BY <1>8, <1>9, <2>8
    <3>3. Gap(x)' \in Int /\ Gap(x)' >= Gap(x) + 0
      BY <2>5, <3>1, <3>2
    <3> QED
      BY <1>9, <2>8, <3>3
  <2> QED
    BY <2>6, <2>7, <2>8
<1>14. GapsKept(h)
  <2>1. \A x \in Targets : IsFiniteSet(Owed(progress, parents, x)') /\ IsFiniteSet(Queued(semwait, x)')
    <3>1. \A x \in Targets : Queued(semwait, x)' = Queued(semwait, x)
      BY <1>1 DEF Queued
    <3> QED
      BY <1>8, <1>9, <3>1
  <2>2. \A x \in Targets : \A a \in (h + 1)..Len(stack) : ~TailOf(D(a), x)
    BY <1>1, <1>4, <1>5 DEF TailOf
  <2> QED
    BY <1>13, <2>1, <2>2 DEF GapsKept
<1>15. Steady(h, t)
  <2>1. \A x \in Targets : \A a \in (h + 1)..Len(stack) : ~TailOf(D(a), x)
    BY <1>1, <1>4, <1>5 DEF TailOf
  <2>2. ASSUME NEW x \in Targets, x # t PROVE asynccnt'[x] = 0 <=> asynccnt[x] = 0
    <3>1. asynccnt[x] \in Int /\ (x = p => asynccnt[x] >= 1)
      BY <1>9, <1>11, Make1Assumption
    <3> QED
      BY <1>12, <2>2, <3>1
  <2>3. Opens(t)
    BY <1>1, <1>2, <1>6 DEF Opens
  <2>4. \A x \in Targets :
       /\ progress[x] = "DONE" => progress'[x] = "DONE" /\ status'[x] = status[x]
       /\ x # t => /\ depends'[x] = depends[x]
                   /\ progress'[x] = progress[x] /\ status'[x] = status[x]
    BY <1>1, <1>6
  <2>5. Kept(stack, stack', h) /\ h >= Len(stack) - 1 /\ (intr => intr')
    BY <1>1, <1>4, <1>5
  <2> QED
    BY <1>8, <2>1, <2>2, <2>3, <2>4, <2>5 DEF Steady
<1>16. Opened(t)
  <2>1. ~intr' => \E a \in Places' : TailOf(D(a)', t)
    BY <1>1, <1>4
  <2>2. ASSUME NEW d \in ToSet(depends'[t]) PROVE WaitsFor(t, d)'
    <3>1. d \in ToSet(deps)
      BY <1>2, <1>6
    <3>2. CASE intr
      <4>1. Gap(t)' > 0
        <5>1. Gap(t)' \in Int /\ Gap(t)' > Gap(t) /\ Gap(t) \in Nat
          BY <1>2, <1>9, <1>13, <3>2
        <5> QED
          BY <5>1
      <4> QED
        BY <4>1 DEF WaitsFor
    <3>3. CASE ~intr
      <4>1. /\ h + 1 \in Places' /\ TailOf(D(h + 1), t)'
            /\ \E b \in Places' : /\ b > h + 1 /\ D(b)'.curstate = "MAKE1A"
                                  /\ D(b)'.t = d /\ D(b)'.parent = t
        BY <1>4, <3>1, <3>3 DEF TailOf
      <4>2. Coming(d, t)'
        BY <4>1 DEF Coming
      <4> QED
        BY <4>2 DEF WaitsFor
    <3> QED
      BY <3>2, <3>3
  <2> QED
    BY <2>1, <2>2 DEF Opened
<1>17. Entitled(t)
  BY <1>2, <1>6, <1>12 DEF Entitled
<1>18. Pushed(h, t)
  <2>1. t \notin running /\ \A b \in 1..h : Holding(D(b)) => D(b).t # t
    BY <1>1, <1>5 DEF OrderInv, Alone, Begun
  <2>2. ASSUME NEW b \in (h + 1)..Len(stack')
        PROVE  /\ D(b)'.curstate = "MAKE1A" => b > h + 1 /\ TailOf(D(h + 1)', D(b)'.parent)
               /\ ~Holding(D(b)')
    <3>1. ~intr /\ (b = h + 1 \/ (b > h + 1 /\ b \in (h + 2)..Len(stack')))
      <4>1. h \in Nat /\ (intr => Len(stack') = h)
        BY <1>4
      <4> QED
        BY <4>1
    <3>2. CASE b = h + 1
      BY <1>4, <3>1, <3>2 DEF TailOf, Holding
    <3>3. CASE b > h + 1 /\ b \in (h + 2)..Len(stack')
      BY <1>4, <3>1, <3>3 DEF Holding
    <3> QED
      BY <3>1, <3>2, <3>3
  <2> QED
    BY <1>1, <2>1, <2>2 DEF Pushed
<1>19. Visited(h)
  <2>1. ASSUME ~intr, NEW b \in (h + 1)..Len(stack), NEW d \in Targets, NEW x \in Targets,
               D(b).t = d, D(b).parent = x
        PROVE  Registered(d, x)'
    <3>1. d = t /\ x = p /\ p # NoTarget
      BY <1>4, <1>5, <2>1, Make1Assumption
    <3> QED
      BY <1>8, <3>1
  <2> QED
    BY <2>1 DEF Visited
<1> QED
  BY <1>14, <1>15, <1>16, <1>17, <1>18, <1>19, Frame

-----------------------------------------------------------------------------
(***************************************************************************)
(* make1c() is through with t: what was owed by t, and the place in the    *)
(* queue of the target that gets t's semaphore, become calls on the stack. *)
(***************************************************************************)

\* What t owed x, and whether x is the next to get t's semaphore.
Lost(t, x)  == {y \in Owed(progress, parents, x) : y[1] = t}
Woken(t, x) == IF /\ semaphore[t] # NoSem /\ semwait[semaphore[t]] # <<>>
                  /\ Head(semwait[semaphore[t]]) = x
               THEN 1 ELSE 0

LEMMA OwedLeft ==
  ASSUME TypeOK, OrderInv, NEW t \in Targets, NEW x \in Targets, parents' = parents,
         progress' = [progress EXCEPT ![t] = "DONE"]
  PROVE  /\ IsFiniteSet(Owed(progress, parents, x)')
         /\ IsFiniteSet(Lost(t, x)) /\ Cardinality(Lost(t, x)) \in Nat
         /\ Cardinality(Owed(progress, parents, x)') =
              Cardinality(Owed(progress, parents, x)) - Cardinality(Lost(t, x))
<1> DEFINE O == Owed(progress, parents, x)
           P == Owed(progress, parents, x)'
           L == Lost(t, x)
<1>1. \A y \in Targets : progress'[y] = IF y = t THEN "DONE" ELSE progress[y]
  BY DEF TypeOK
<1>2. IsFiniteSet(O)
  BY DEF OrderInv, Counted
<1>3. O = P \cup L /\ P \cap L = {} /\ P \subseteq O /\ L \subseteq O
  BY <1>1 DEF Owed, Lost
<1> HIDE DEF O, P, L
<1>4. IsFiniteSet(P) /\ IsFiniteSet(L)
  BY <1>2, <1>3, FS_Subset
<1>5. Cardinality(P) \in Nat /\ Cardinality(L) \in Nat /\ Cardinality({}) = 0
  BY <1>4, FS_CardinalityType, FS_EmptySet
<1>6. Cardinality(O) = Cardinality(P) + Cardinality(L) - Cardinality(P \cap L)
  BY <1>3, <1>4, FS_Union
<1>7. Cardinality(P) = Cardinality(O) - Cardinality(L)
  <2>1. Cardinality(P \cap L) = 0
    BY <1>3, <1>5, Zenon
  <2> QED
    BY <1>5, <1>6, <2>1
<1> QED
  BY <1>4, <1>5, <1>7 DEF O, P, L

LEMMA QueueLeft ==
  ASSUME TypeOK, OrderInv, NEW t \in Targets, NEW x \in Targets,
         semwait' = [s \in Sems |-> IF s = semaphore[t] THEN Rest(semwait[s]) ELSE semwait[s]]
  PROVE  /\ IsFiniteSet(Queued(semwait, x)') /\ Woken(t, x) \in {0, 1}
         /\ Cardinality(Queued(semwait, x)') <= Cardinality(Queued(semwait, x)) - Woken(t, x)
<1>1. /\ semwait \in [Sems -> Seq(Targets)] /\ IsFiniteSet(Queued(semwait, x))
      /\ semaphore[t] \in Sems \cup {NoSem}
  BY DEF TypeOK, OrderInv, Counted
<1>2. CASE semaphore[t] = NoSem \/ semwait[semaphore[t]] = <<>>
  <2>1. semwait' = semwait
    <3>1. \A s \in Sems : semwait'[s] = semwait[s]
      BY <1>2, Make1Assumption DEF Rest
    <3> QED
      BY <1>1, <3>1
  <2>2. Woken(t, x) = 0
    BY <1>2 DEF Woken
  <2>3. Queued(semwait, x)' = Queued(semwait, x)
    BY <2>1 DEF Queued
  <2>4. Cardinality(Queued(semwait, x)) \in Nat
    BY <1>1, FS_CardinalityType
  <2> QED
    BY <1>1, <2>2, <2>3, <2>4
<1>3. CASE semaphore[t] # NoSem /\ semwait[semaphore[t]] # <<>>
  <2> DEFINE s == semaphore[t]
             w == semwait[s]
             e == <<s, 1>>
             Q == Queued(semwait, x)
             R == Queued(semwait, x)'
             f == [y \in R |-> IF y[1] = s THEN <<s, y[2] + 1>> ELSE y]
  <2>1. s \in Sems /\ w \in Seq(Targets) /\ w # <<>>
    BY <1>1, <1>3
  <2>2. /\ semwait'[s] = Tail(w) /\ \A r \in Sems : r # s => semwait'[r] = semwait[r]
    BY <1>3, <2>1 DEF Rest
  <2> HIDE DEF w
  <2>3. /\ \A i \in DOMAIN Tail(w) : i + 1 \in DOMAIN w /\ i \in Nat /\ i # 0 /\ Tail(w)[i] = w[i + 1]
        /\ 1 \in DOMAIN w /\ w[1] = Head(w)
    BY <2>1
  <2>4. ASSUME NEW y \in R
        PROVE  /\ y[1] \in Sems /\ y[2] \in Nat /\ y = <<y[1], y[2]>>
               /\ y[1] = s => y[2] \in DOMAIN Tail(w) /\ Tail(w)[y[2]] = x
               /\ y[1] # s => y \in Q
    <3>1. y \in Sems \X Nat /\ y[2] \in DOMAIN semwait'[y[1]] /\ semwait'[y[1]][y[2]] = x
      BY DEF Queued
    <3>2. y[1] \in Sems /\ y[2] \in Nat /\ y = <<y[1], y[2]>>
      BY <3>1
    <3>3. y[1] # s => y \in Q
      BY <2>2, <3>1, <3>2 DEF Queued
    <3> QED
      BY <2>2, <3>1, <3>2, <3>3
  <2> HIDE DEF s
  <2>5. ASSUME NEW y \in R PROVE f[y] \in Q \ {e}
    <3>1. CASE y[1] = s
      <4>1. f[y] = <<s, y[2] + 1>> /\ y[2] + 1 \in Nat /\ y[2] + 1 # 1
        BY <2>3, <2>4, <3>1
      <4>2. y[2] + 1 \in DOMAIN w /\ w[y[2] + 1] = x
        BY <2>3, <2>4, <3>1
      <4>3. <<s, y[2] + 1>> \in Q
        BY <2>1, <4>1, <4>2 DEF Queued, w
      <4> QED
        BY <4>1, <4>3
    <3>2. CASE y[1] # s
      <4>1. f[y] = y /\ y \in Q /\ y # e
        BY <2>4, <3>2
      <4> QED
        BY <4>1
    <3> QED
      BY <3>1, <3>2
  <2>6. \A y, z \in R : f[y] = f[z] => y = z
    <3> SUFFICES ASSUME NEW y \in R, NEW z \in R, f[y] = f[z] PROVE y = z
      OBVIOUS
    <3>1. /\ y = <<y[1], y[2]>> /\ z = <<z[1], z[2]>> /\ y[2] \in Nat /\ z[2] \in Nat
      BY <2>4
    <3>2. f[y] = (IF y[1] = s THEN <<s, y[2] + 1>> ELSE y) /\ f[z] = (IF z[1] = s THEN <<s, z[2] + 1>> ELSE z)
      OBVIOUS
    <3> HIDE DEF f
    <3>3. CASE y[1] = s /\ z[1] = s
      <4>1. <<s, y[2] + 1>> = <<s, z[2] + 1>>
        BY <3>2, <3>3, Zenon
      <4>2. y[2] + 1 = z[2] + 1
        BY <4>1
      <4>3. y[2] = z[2]
        BY <3>1, <4>2
      <4> QED
        BY <3>1, <3>3, <4>3, Zenon
    <3>4. CASE y[1] = s /\ z[1] # s
      <4>1. z = <<s, y[2] + 1>>
        BY <3>2, <3>4, Zenon
      <4> QED
        BY <3>4, <4>1
    <3>5. CASE y[1] # s /\ z[1] = s
      <4>1. y = <<s, z[2] + 1>>
        BY <3>2, <3>5, Zenon
      <4> QED
        BY <3>5, <4>1
    <3>6. CASE y[1] # s /\ z[1] # s
      BY <3>2, <3>6
    <3> QED
      BY <3>3, <3>4, <3>5, <3>6
  <2>7. IsFiniteSet(Q \ {e}) /\ Cardinality(Q \ {e}) = IF e \in Q THEN Cardinality(Q) - 1 ELSE Cardinality(Q)
    BY <1>1, FS_RemoveElement
  <2>8. f \in Injection(R, Q \ {e})
    <3>1. f \in [R -> Q \ {e}]
      BY <2>5
    <3> HIDE DEF f
    <3> QED
      BY <2>6, <3>1 DEF Injection, IsInjective
  <2>9. IsFiniteSet(R) /\ Cardinality(R) <= Cardinality(Q \ {e})
    <3> HIDE DEF f, R, Q, e
    <3> QED
      BY <2>7, <2>8, FS_Injection
  <2>10. Woken(t, x) = IF Head(w) = x THEN 1 ELSE 0
    BY <1>3 DEF Woken, w, s
  <2>11. Head(w) = x => e \in Q
    BY <2>1, <2>3 DEF Queued, w
  <2>12. Cardinality(Q) \in Nat /\ Cardinality(R) \in Nat
    BY <1>1, <2>9, FS_CardinalityType
  <2> HIDE DEF Q, R, e
  <2>13. Cardinality(R) <= Cardinality(Q) - Woken(t, x) /\ Woken(t, x) \in {0, 1}
    BY <2>7, <2>9, <2>10, <2>11, <2>12
  <2> QED
    BY <2>9, <2>13 DEF Q, R
<1> QED
  BY <1>1, <1>2, <1>3

\* The states pushed for t's parents when headers() finds nothing.
Told(t) == [i \in DOMAIN parents[t] |-> State(parents[t][i], NoTarget, "MAKE1B")]

LEMMA ToldType ==
  ASSUME TypeOK, NEW t \in Targets
  PROVE  /\ Told(t) \in Seq(States) /\ Len(Told(t)) \in Nat
         /\ DOMAIN parents[t] = 1..Len(Told(t)) /\ TellParents(t, NoTarget) = Told(t)
         /\ \A i \in DOMAIN parents[t] : /\ Told(t)[i].curstate = "MAKE1B"
                                         /\ Told(t)[i].t = parents[t][i]
         /\ Release(t) \in Seq(States) /\ Len(Release(t)) \in {0, 1}
         /\ \A i \in 1..Len(Release(t)) :
              /\ i = 1 /\ Release(t)[1].curstate = "MAKE1B"
              /\ \A x \in Targets : Release(t)[1].t = x => Woken(t, x) = 1
<1>1. parents[t] \in Seq(Targets) /\ NoTarget \in Targets \cup {NoTarget}
  BY DEF TypeOK
<1>2. Told(t) \in Seq(States) /\ Release(t) \in Seq(States)
  BY <1>1, PushedType, TellParentsType DEF Told, Handlers
<1>3. DOMAIN parents[t] = 1..Len(Told(t)) /\ Len(Told(t)) \in Nat
  <2>1. DOMAIN parents[t] = DOMAIN Told(t)
    BY DEF Told
  <2> HIDE DEF States
  <2>2. DOMAIN Told(t) = 1..Len(Told(t)) /\ Len(Told(t)) \in Nat
    BY <1>2
  <2> QED
    BY <2>1, <2>2
<1>4. TellParents(t, NoTarget) = Told(t)
  <2>1. TellParents(t, NoTarget) = <<>> \o Told(t)
    BY DEF TellParents, Told
  <2> HIDE DEF States
  <2> QED
    BY <1>2, <2>1
<1>5. \A i \in DOMAIN parents[t] : Told(t)[i].curstate = "MAKE1B" /\ Told(t)[i].t = parents[t][i]
  BY DEF Told, State
<1>6. /\ Len(Release(t)) \in {0, 1}
      /\ \A i \in 1..Len(Release(t)) :
              /\ i = 1 /\ Release(t)[1].curstate = "MAKE1B"
              /\ \A x \in Targets : Release(t)[1].t = x => Woken(t, x) = 1
  <2>1. CASE semaphore[t] = NoSem \/ semwait[semaphore[t]] = <<>>
    <3>1. Release(t) = <<>>
      BY <2>1 DEF Release
    <3> QED
      BY <3>1
  <2>2. CASE semaphore[t] # NoSem /\ semwait[semaphore[t]] # <<>>
    <3> DEFINE y == State(Head(semwait[semaphore[t]]), NoTarget, "MAKE1B")
    <3>1. Release(t) = <<y>>
      BY <2>2 DEF Release
    <3>2. y.curstate = "MAKE1B" /\ y.t = Head(semwait[semaphore[t]])
      BY DEF State
    <3> HIDE DEF y
    <3>3. Len(Release(t)) = 1 /\ Release(t)[1] = y
      BY <3>1
    <3>4. \A x \in Targets : y.t = x => Woken(t, x) = 1
      BY <2>2, <3>2 DEF Woken
    <3> QED
      BY <3>2, <3>3, <3>4
  <2> QED
    BY <2>1, <2>2
<1> QED
  BY <1>2, <1>3, <1>4, <1>5, <1>6

\* The new calls are those that were owed or queued.
LEMMA ToldCalls ==
  ASSUME TypeOK, TypeOK', OrderInv, NEW t \in Targets, progress[t] # "DONE", NEW n \in Nat, stack # <<>>,
         Len(Popped) = n, stack' = (TellParents(t, NoTarget) \o Release(t)) \o Popped
  PROVE  /\ Kept(Popped, stack', n)
         /\ \A b \in (n + 1)..Len(stack') : D(b)'.curstate = "MAKE1B"
         /\ \A x \in Targets : Cardinality(NewCalls(stack', n, x)) <= Cardinality(Lost(t, x)) + Woken(t, x)
<1> DEFINE p == Told(t)
           q == Release(t)
           w == p \o q
           k == Len(p)
           m == Len(w)
<1>1. /\ p \in Seq(States) /\ q \in Seq(States) /\ w \in Seq(States) /\ Popped \in Seq(States)
      /\ stack' = w \o Popped
  <2>1. p \in Seq(States) /\ q \in Seq(States) /\ Popped \in Seq(States)
    BY ToldType, StackType
  <2>2. TellParents(t, NoTarget) = p
    BY ToldType
  <2> HIDE DEF p, q, States
  <2> QED
    BY <2>1, <2>2 DEF q
<1>2. /\ k \in Nat /\ Len(q) \in {0, 1} /\ m = k + Len(q) /\ m \in Nat
      /\ \A i \in 1..m : w[i].curstate = "MAKE1B"
      /\ \A i \in 1..k : i \in DOMAIN parents[t] /\ w[i].t = parents[t][i]
      /\ \A i \in 1..m : i > k => i = k + 1 /\ \A x \in Targets : w[i].t = x => Woken(t, x) = 1
  <2>1. /\ k \in Nat /\ DOMAIN parents[t] = 1..k
        /\ \A i \in 1..k : p[i].curstate = "MAKE1B" /\ p[i].t = parents[t][i]
        /\ Len(q) \in {0, 1}
        /\ \A i \in 1..Len(q) :
              /\ i = 1 /\ q[1].curstate = "MAKE1B"
              /\ \A x \in Targets : q[1].t = x => Woken(t, x) = 1
    BY ToldType
  <2> HIDE DEF p, q, States
  <2>2. /\ m = k + Len(q) /\ m \in Nat
        /\ \A i \in 1..m : IF i <= k THEN w[i] = p[i] ELSE w[i] = q[i - k]
    BY <1>1
  <2> HIDE DEF w, k, m
  <2>3. ASSUME NEW i \in 1..m
        PROVE  \/ i <= k /\ i \in 1..k /\ w[i] = p[i]
               \/ i > k /\ i = k + 1 /\ w[i] = q[1] /\ 1 \in 1..Len(q)
    <3>1. CASE i <= k
      BY <2>1, <2>2, <3>1
    <3>2. CASE ~(i <= k)
      <4>1. i - k \in 1..Len(q)
        BY <2>1, <2>2, <3>2
      <4>2. i - k = 1
        BY <2>1, <4>1
      <4>3. w[i] = q[i - k]
        BY <2>2, <3>2
      <4>4. w[i] = q[1] /\ 1 \in 1..Len(q)
        BY <4>1, <4>2, <4>3
      <4>5. i > k /\ i = k + 1
        BY <2>1, <2>2, <3>2, <4>2
      <4> QED
        BY <4>4, <4>5
    <3> QED
      BY <3>1, <3>2
  <2>4. \A i \in 1..k : i \in 1..m /\ ~(i > k)
    BY <2>1, <2>2
  <2>5. \A i \in 1..m : w[i].curstate = "MAKE1B"
    BY <2>1, <2>3
  <2>6. \A i \in 1..k : i \in DOMAIN parents[t] /\ w[i].t = parents[t][i]
    BY <2>1, <2>3, <2>4
  <2>7. \A i \in 1..m : i > k => i = k + 1 /\ \A x \in Targets : w[i].t = x => Woken(t, x) = 1
    <3> SUFFICES ASSUME NEW i \in 1..m, i > k
                 PROVE  i = k + 1 /\ \A x \in Targets : w[i].t = x => Woken(t, x) = 1
      OBVIOUS
    <3>1. ~(i <= k)
      BY <2>1
    <3> QED
      BY <2>1, <2>3, <3>1
  <2> QED
    BY <2>1, <2>2, <2>5, <2>6, <2>7
<1> HIDE DEF p, q, w, k, m, States
<1>3. /\ Len(stack') = m + n /\ Kept(Popped, stack', n)
      /\ \A b \in (n + 1)..(n + m) : m + n + 1 - b \in 1..m /\ D(b)' = w[m + n + 1 - b]
  <2>1. /\ Len(w \o Popped) = Len(w) + Len(Popped)
        /\ Kept(Popped, w \o Popped, Len(Popped))
        /\ \A b \in (Len(Popped) + 1)..(Len(Popped) + Len(w)) :
             /\ Len(w) + Len(Popped) + 1 - b \in DOMAIN w
             /\ Deep(w \o Popped, b) = w[Len(w) + Len(Popped) + 1 - b]
    BY <1>1, DeepPush
  <2>2. DOMAIN w = 1..Len(w)
    BY <1>1
  <2> QED
    BY <1>1, <2>1, <2>2 DEF m, D
<1>4. \A b \in (n + 1)..Len(stack') : b \in (n + 1)..(n + m)
  BY <1>2, <1>3
<1>5. \A b \in (n + 1)..Len(stack') : D(b)'.curstate = "MAKE1B"
  BY <1>2, <1>3, <1>4
<1>6. ASSUME NEW x \in Targets
      PROVE  Cardinality(NewCalls(stack', n, x)) <= Cardinality(Lost(t, x)) + Woken(t, x)
  <2> DEFINE N == NewCalls(stack', n, x)
             A == {b \in N : m + n + 1 - b <= k}
             e == m + n - k
             L == Lost(t, x)
             f == [b \in A |-> <<t, m + n + 1 - b>>]
  <2>1. ASSUME NEW b \in N
        PROVE  /\ b \in (n + 1)..(n + m) /\ b \in Int
               /\ m + n + 1 - b \in 1..m /\ w[m + n + 1 - b].t = x
    BY <1>3, <1>4 DEF NewCalls, Calling, D
  <2>2. IsFiniteSet(N)
    <3>1. IsFiniteSet((n + 1)..(n + m))
      BY <1>2, FS_Interval
    <3>2. N \subseteq (n + 1)..(n + m)
      BY <2>1
    <3> QED
      BY <3>1, <3>2, FS_Subset
  <2>3. N \subseteq A \cup {e}
    <3> SUFFICES ASSUME NEW b \in N, b \notin A PROVE b = e
      OBVIOUS
    <3>1. m + n + 1 - b > k /\ b \in Int
      BY <1>2, <2>1
    <3>2. m + n + 1 - b = k + 1
      BY <1>2, <2>1, <3>1
    <3>3. m \in Int /\ n \in Int /\ k \in Int
      BY <1>2
    <3> HIDE DEF A, N
    <3> QED
      BY <3>1, <3>2, <3>3
  <2>4. Woken(t, x) = 0 => N = A
    <3> SUFFICES ASSUME NEW b \in N, b \notin A PROVE Woken(t, x) = 1
      OBVIOUS
    <3>1. m + n + 1 - b > k
      BY <1>2, <2>1
    <3> QED
      BY <1>2, <2>1, <3>1
  <2>5. ASSUME NEW b \in A PROVE f[b] \in L
    <3>1. b \in N /\ m + n + 1 - b \in 1..k /\ m + n + 1 - b \in Nat
      BY <1>2, <2>1
    <3>2. m + n + 1 - b \in DOMAIN parents[t] /\ parents[t][m + n + 1 - b] = x
      BY <1>2, <2>1, <3>1
    <3>3. <<t, m + n + 1 - b>> \in L
      BY <3>1, <3>2 DEF Lost, Owed
    <3> QED
      BY <3>3
  <2>6. \A b, c \in A : f[b] = f[c] => b = c
    <3> SUFFICES ASSUME NEW b \in A, NEW c \in A, f[b] = f[c] PROVE b = c
      OBVIOUS
    <3>1. <<t, m + n + 1 - b>> = <<t, m + n + 1 - c>>
      OBVIOUS
    <3>2. m + n + 1 - b = m + n + 1 - c
      BY <3>1
    <3>3. b \in Int /\ c \in Int
      BY <2>1
    <3> QED
      BY <1>2, <3>2, <3>3
  <2>7. f \in Injection(A, L)
    <3>1. f \in [A -> L]
      BY <2>5
    <3> HIDE DEF f, A
    <3> QED
      BY <2>6, <3>1 DEF Injection, IsInjective
  <2>8. IsFiniteSet(L)
    <3>1. IsFiniteSet(Owed(progress, parents, x)) /\ L \subseteq Owed(progress, parents, x)
      BY DEF OrderInv, Counted, Lost
    <3> QED
      BY <3>1, FS_Subset
  <2> HIDE DEF f, A, N, L, e
  <2>9. IsFiniteSet(A) /\ Cardinality(A) <= Cardinality(L)
    BY <2>7, <2>8, FS_Injection
  <2>10. Cardinality(N) <= Cardinality(A) + 1 /\ Cardinality(A) \in Nat /\ Cardinality(N) \in Nat
    BY <2>3, <2>9, OneMore
  <2>11. Cardinality(L) \in Nat
    BY <2>8, FS_CardinalityType
  <2>12. Woken(t, x) \in {0, 1}
    BY DEF Woken
  <2>13. CASE Woken(t, x) = 0
    BY <2>4, <2>9, <2>10, <2>11, <2>13 DEF N, L
  <2>14. CASE Woken(t, x) = 1
    <3>1. Cardinality(N) <= Cardinality(L) + 1
      BY <2>9, <2>10, <2>11
    <3> QED
      BY <2>14, <3>1 DEF N, L
  <2> QED
    BY <2>12, <2>13, <2>14
<1> QED
  BY <1>3, <1>5, <1>6

\* make1c() is through with t: all who waited for it are called.
LEMMA DoneOrdered ==
  ASSUME NothingFound, TypeOK, TypeOK', OrderInv, Make1cDone
  PROVE  OrderInv'
<1> PICK h : h = Len(stack) - 1
  OBVIOUS
<1> PICK t : t = top.t
  OBVIOUS
<1>1. /\ stack # <<>> /\ top.curstate = "MAKE1C" /\ t \in Targets
  BY StackType DEF Make1cDone, Handler, top
<1>2. /\ stack' = (TellParents(t, NoTarget) \o Release(t)) \o Popped
      /\ semwait' = [s \in Sems |-> IF s = semaphore[t] THEN Rest(semwait[s]) ELSE semwait[s]]
      /\ UNCHANGED <<asynccnt, parents, depends, running, intr>>
      /\ progress' = [progress EXCEPT ![t] = "DONE"]
      /\ \A x \in Targets : x # t => status'[x] = status[x]
      /\ \A x \in Targets : progress'[x] = IF x = t THEN "DONE" ELSE progress[x]
  <2>1. /\ UNCHANGED <<asynccnt, parents, running, intr>>
        /\ progress' = [progress EXCEPT ![t] = "DONE"]
        /\ \E st : status' = [status EXCEPT ![t] = st]
    BY DEF Make1cDone, exec
  <2>2. depends' = depends
    BY <1>1 DEF Make1cDone, Rescan, NothingFound
  <2>3. /\ stack' = (TellParents(t, NoTarget) \o Release(t)) \o Popped
        /\ semwait' = [s \in Sems |-> IF s = semaphore[t] THEN Rest(semwait[s]) ELSE semwait[s]]
    BY <1>1 DEF Make1cDone, NothingFound
  <2>4. /\ \A x \in Targets : x # t => status'[x] = status[x]
        /\ \A x \in Targets : progress'[x] = IF x = t THEN "DONE" ELSE progress[x]
    BY <2>1 DEF TypeOK
  <2> QED
    BY <2>1, <2>2, <2>3, <2>4
<1>3. /\ h \in Nat /\ Len(stack) = h + 1 /\ D(h + 1) = top
      /\ \E n \in 0..h : /\ Len(Popped) = n /\ Kept(stack, Popped, n)
                         /\ ~intr => n = h
  BY <1>1, Handling DEF D, Handlers
<1>4. PICK n \in 0..h : Len(Popped) = n /\ Kept(stack, Popped, n) /\ (~intr => n = h)
  BY <1>3
<1>5. /\ n \in Nat /\ n < Len(stack) /\ h + 1 \in Places
      /\ \A b \in 1..n : b \in Places /\ b # h + 1
      /\ ~intr => n >= Len(stack) - 1 /\ \A b \in (n + 1)..Len(stack) : b = h + 1
  BY <1>3, <1>4 DEF Places
<1>6. /\ Begun(t) /\ t \notin running /\ progress[t] # "DONE"
      /\ \A b \in 1..n : Holding(D(b)) => D(b).t # t
  BY <1>1, <1>3, <1>5 DEF OrderInv, Alone, Holding, Begun
<1>7. /\ asynccnt[t] = 0 /\ progress[t] \notin {"INIT", "DONE"}
      /\ \A d \in ToSet(depends[t]) : d \in Targets /\ progress[d] = "DONE" /\ d # t
  BY <1>1, <1>6, Holder
<1>8. /\ Kept(stack, stack', n)
      /\ \A b \in (n + 1)..Len(stack') : D(b)'.curstate = "MAKE1B"
      /\ \A x \in Targets : Cardinality(NewCalls(stack', n, x)) <= Cardinality(Lost(t, x)) + Woken(t, x)
  <2>1. /\ Kept(Popped, stack', n)
        /\ \A b \in (n + 1)..Len(stack') : D(b)'.curstate = "MAKE1B"
        /\ \A x \in Targets :
             Cardinality(NewCalls(stack', n, x)) <= Cardinality(Lost(t, x)) + Woken(t, x)
    BY <1>1, <1>2, <1>4, <1>5, <1>6, ToldCalls
  <2>2. n <= n
    BY <1>5
  <2> QED
    BY <1>4, <2>1, <2>2, KeptTrans
<1>9. GapsKept(n)
  <2> SUFFICES ASSUME NEW x \in Targets
               PROVE  /\ IsFiniteSet(Owed(progress, parents, x)') /\ IsFiniteSet(Queued(semwait, x)')
                      /\ Gap(x)' \in Int /\ Gap(x)' >= Gap(x)
                      /\ intr /\ (\E a \in (n + 1)..Len(stack) : TailOf(D(a), x)) =>
                           Gap(x)' > Gap(x)
    BY DEF GapsKept
  <2> DEFINE L == Cardinality(Lost(t, x))
             W == Woken(t, x)
             O == Cardinality(Owed(progress, parents, x))
             P == Cardinality(Owed(progress, parents, x)')
             Q == Cardinality(Queued(semwait, x))
             R == Cardinality(Queued(semwait, x)')
             C == Cardinality(Calls(stack, x))
             K == Cardinality(KeptCalls(stack, n, x))
  <2>1. IsFiniteSet(Owed(progress, parents, x)') /\ L \in Nat /\ P = O - L
    BY <1>1, <1>2, OwedLeft
  <2>2. IsFiniteSet(Queued(semwait, x)') /\ W \in {0, 1} /\ R <= Q - W
    BY <1>1, <1>2, QueueLeft
  <2>3. O \in Nat /\ Q \in Nat /\ C \in Nat /\ asynccnt[x] \in Int /\ Gap(x) \in Nat
    BY GapTypes DEF OrderInv
  <2>4. /\ K \in Nat /\ K <= C
        /\ \A a \in (n + 1)..Len(stack) : Calling(D(a), x) => K <= C - 1
    <3>1. stack \in Seq(States) /\ stack' \in Seq(States)
      BY DEF TypeOK
    <3> QED
      BY <1>8, <3>1, CallsCount DEF D
  <2>5. R \in Nat
    BY <2>2, FS_CardinalityType
  <2>6. Cardinality(NewCalls(stack', n, x)) <= L + W
    BY <1>8
  <2>7. asynccnt'[x] = asynccnt[x]
    BY <1>2
  <2> HIDE DEF L, W, O, P, Q, R, C, K
  <2>8. ASSUME NEW g \in {0, 1}, K <= C - g PROVE Gap(x)' \in Int /\ Gap(x)' >= Gap(x) + g
    <3>1. /\ P <= O + (0 - L) /\ R <= Q + (0 - W)
          /\ 0 - L \in Int /\ 0 - W \in Int /\ L + W \in Int /\ g \in Int
      BY <2>1, <2>2, <2>3, <2>5
    <3>2. asynccnt'[x] - asynccnt[x] >= (0 - L) + (0 - W) + (L + W) - g + g
      BY <2>1, <2>2, <2>3, <2>7
    <3>3. /\ Cardinality(Owed(progress, parents, x)') <= Cardinality(Owed(progress, parents, x)) + (0 - L)
          /\ Cardinality(Queued(semwait, x)') <= Cardinality(Queued(semwait, x)) + (0 - W)
          /\ Cardinality(KeptCalls(stack, n, x)) <= Cardinality(Calls(stack, x)) - g
      BY <2>8, <3>1 DEF O, P, Q, R, C, K
    <3> QED
      BY <1>8, <2>1, <2>2, <2>6, <3>1, <3>2, <3>3, GapGrows DEF OrderInv
  <2>9. Gap(x)' \in Int /\ Gap(x)' >= Gap(x)
    <3>1. K <= C - 0
      BY <2>3, <2>4
    <3>2. Gap(x)' \in Int /\ Gap(x)' >= Gap(x) + 0
      BY <2>8, <3>1
    <3> QED
      BY <2>3, <3>2
  <2>10. ASSUME NEW a \in (n + 1)..Len(stack), TailOf(D(a), x) PROVE Gap(x)' > Gap(x)
    <3>1. K <= C - 1
      BY <2>4, <2>10 DEF TailOf, Calling
    <3>2. Gap(x)' \in Int /\ Gap(x)' >= Gap(x) + 1
      BY <2>8, <3>1
    <3> QED
      BY <2>3, <3>2
  <2> QED
    BY <2>1, <2>2, <2>9, <2>10
<1>10. Steady(n, t)
  <2>1. \A x, y \in Targets : Registered(x, y) => Registered(x, y)'
    BY <1>2 DEF Registered
  <2>2. ~intr => \A x \in Targets : \A a \in (n + 1)..Len(stack) : ~TailOf(D(a), x)
    BY <1>1, <1>3, <1>5 DEF TailOf
  <2> QED
    BY <1>2, <1>5, <1>7, <1>8, <2>1, <2>2 DEF Steady
<1>11. Opened(t)
  BY <1>7 DEF Opened, Opens
<1>12. Entitled(t)
  BY <1>2, <1>7 DEF Entitled
<1>13. Pushed(n, t)
  <2>1. \A b \in (n + 1)..Len(stack') : D(b)'.curstate # "MAKE1A" /\ ~Holding(D(b)')
    BY <1>8 DEF Holding
  <2> QED
    BY <1>2, <1>6, <2>1 DEF Pushed
<1>14. Visited(n)
  BY <1>1, <1>3, <1>5 DEF Visited
<1> QED
  BY <1>9, <1>10, <1>11, <1>12, <1>13, <1>14, Frame

\* Waiting, the signal and the end change nothing of this; a new root is a
\* visit from nobody.
LEMMA QuietOrdered ==
  ASSUME TypeOK, TypeOK', OrderInv,
         \/ ExecWait \/ ExecReturn \/ Interrupt \/ Make1Return \/ Ended \/ UNCHANGED vars
  PROVE  OrderInv'
<1>1. CASE stack' = stack
  <2>1. UNCHANGED <<stack, progress, asynccnt, parents, depends, status, running, intr, semwait>>
    BY <1>1 DEF ExecWait, ExecReturn, Interrupt, Make1Return, Ended, vars, graph, exec
  <2> QED
    BY <2>1 DEF OrderInv, Counted, Idle, Called, Alone, Started, Waits, Past, Fine, Gap,
        WaitsFor, Registered, Coming, Begun, Sound, D, Places
<1>2. CASE stack' # stack
  <2>1. /\ stack = <<>> /\ stack' = <<State(Roots[root + 1], NoTarget, "MAKE1A")>>
        /\ UNCHANGED <<progress, asynccnt, parents, depends, status, running, intr, semwait>>
    BY <1>2 DEF ExecWait, ExecReturn, Interrupt, Make1Return, Ended, vars, graph, exec
  <2>2. /\ Len(stack) = 0 /\ Len(stack') = 1 /\ (0 + 1)..Len(stack) = {} /\ 1..0 = {}
        /\ \A b \in (0 + 1)..Len(stack') : b = 1 /\ D(b)'.curstate = "MAKE1A" /\ D(b)'.parent = NoTarget
    <3> DEFINE x == State(Roots[root + 1], NoTarget, "MAKE1A")
    <3>1. x.curstate = "MAKE1A" /\ x.parent = NoTarget
      BY DEF State
    <3>0. stack' = <<x>> /\ stack = <<>>
      BY <2>1
    <3> HIDE DEF x
    <3>2. Len(stack) = 0 /\ Len(stack') = 1 /\ (0 + 1)..Len(stack) = {} /\ 1..0 = {} /\ stack'[1] = x
      BY <3>0
    <3>3. \A b \in (0 + 1)..Len(stack') : b = 1 /\ Len(stack') + 1 - b = 1
      BY <3>2
    <3> QED
      BY <3>1, <3>2, <3>3 DEF D, Deep
  <2>3. NoTarget \notin Targets /\ NoTarget \notin running
    BY Make1Assumption DEF TypeOK
  <2>4. Kept(stack, stack', 0) /\ 0 >= Len(stack) - 1
    BY <2>2 DEF Kept
  <2>5. GapsKept(0)
    <3>1. \A b \in (0 + 1)..Len(stack') : \A x \in Targets : ~Calling(D(b)', x)
      BY <2>2 DEF Calling
    <3> QED
      BY <2>1, <2>4, <3>1, QuietGaps
  <2>6. Steady(0, NoTarget)
    <3>1. \A x, y \in Targets : Registered(x, y) => Registered(x, y)'
      BY <2>1 DEF Registered
    <3> QED
      BY <2>1, <2>2, <2>4, <3>1 DEF Steady
  <2>7. Pushed(0, NoTarget)
    <3>1. \A b \in (0 + 1)..Len(stack') : ~Holding(D(b)')
      BY <2>2 DEF Holding
    <3>2. \A b \in 1..0 : Holding(D(b)) => D(b).t # NoTarget
      BY <2>2
    <3>3. running' = running /\ NoTarget \notin running'
      BY <2>1, <2>3
    <3> QED
      BY <2>2, <3>1, <3>2, <3>3 DEF Pushed
  <2>8. Opened(NoTarget) /\ Entitled(NoTarget) /\ Visited(0)
    BY <2>2, <2>3 DEF Opened, Opens, Entitled, Visited
  <2> QED
    BY <2>5, <2>6, <2>7, <2>8, Frame
<1> QED
  BY <1>1, <1>2

-----------------------------------------------------------------------------
(***************************************************************************)
(* Without a cycle.  A rank that falls from a target to all it depends on  *)
(* and includes falls all the way up the stack: what make1() visits above  *)
(* a MAKE1ATAIL state is below its target in the graph.                    *)
(***************************************************************************)

Under(x, y, rank) ==
  x.curstate = "MAKE1ATAIL" /\ y.curstate \in {"MAKE1A", "MAKE1ATAIL"} => rank[y.t] < rank[x.t]

Nested(rank)  == \A b \in Places : \A a \in 1..(b - 1) : Under(D(a), D(b), rank)
RankInv(rank) == Falls(rank, depends, includes) /\ Nested(rank)

LEMMA NestedApart ==
  ASSUME TypeOK, NEW rank \in [Targets -> Nat], Nested(rank)
  PROVE  Apart
<1> SUFFICES ASSUME NEW a \in Places, NEW b \in Places, a < b, D(a).curstate = "MAKE1ATAIL",
                    D(b).curstate \in {"MAKE1A", "MAKE1ATAIL"}
             PROVE  D(a).t # D(b).t
  BY DEF Apart
<1>1. a \in 1..(b - 1)
  BY DEF Places
<1>2. rank[D(b).t] < rank[D(a).t]
  BY <1>1 DEF Nested, Under
<1>3. D(a).t \in Targets
  BY Stacked
<1>4. rank[D(a).t] \in Nat
  BY <1>3
<1> QED
  BY <1>2, <1>4

\* What is new on the stack falls from what is under it.
LEMMA NestedFrame ==
  ASSUME TypeOK, TypeOK', NEW rank \in [Targets -> Nat], Nested(rank),
         NEW n, Kept(stack, stack', n),
         \A b \in (n + 1)..Len(stack') : \A a \in 1..(b - 1) : Under(D(a)', D(b)', rank)
  PROVE  Nested(rank)'
<1>1. Len(stack) \in Nat /\ Len(stack') \in Nat
  BY DeepType DEF TypeOK
<1> SUFFICES ASSUME NEW b \in 1..Len(stack'), NEW a \in 1..(b - 1) PROVE Under(D(a)', D(b)', rank)
  BY DEF Nested, Places, Under
<1>2. CASE b \in 1..n
  <2>1. a \in 1..n /\ b \in Places
    BY <1>1, <1>2 DEF Kept, Places
  <2>2. D(a)' = D(a) /\ D(b)' = D(b)
    BY <1>2, <2>1 DEF Kept, D
  <2> QED
    BY <2>1, <2>2 DEF Nested
<1>3. CASE b \notin 1..n
  <2>1. b \in (n + 1)..Len(stack')
    BY <1>1, <1>3 DEF Kept
  <2> QED
    BY <2>1
<1> QED
  BY <1>2, <1>3

\* A step that visits nobody.
LEMMA NestedQuiet ==
  ASSUME TypeOK, TypeOK', NEW rank \in [Targets -> Nat], RankInv(rank), NEW n,
         Kept(stack, stack', n), UNCHANGED <<depends, includes>>,
         \A b \in (n + 1)..Len(stack') : D(b)'.curstate \notin {"MAKE1A", "MAKE1ATAIL"}
  PROVE  RankInv(rank)'
<1>1. Nested(rank)'
  BY NestedFrame DEF RankInv, Under
<1> QED
  BY <1>1 DEF RankInv, Falls

\* What a sequence over S holds is in S.
LEMMA InSeq ==
  ASSUME NEW S, NEW q \in Seq(S)
  PROVE  \A x \in ToSet(q) : x \in S
BY DEF ToSet

\* make1a(t) visits what t depends on.
LEMMA StartRanked ==
  ASSUME TypeOK, TypeOK', NEW rank \in [Targets -> Nat], RankInv(rank), Make1aStart
  PROVE  RankInv(rank)'
<1> PICK h : h = Len(stack) - 1
  OBVIOUS
<1> PICK t : t = top.t
  OBVIOUS
<1> PICK new : new = NewIncludes(depends[t])
  OBVIOUS
<1> PICK deps : deps = depends[t] \o new
  OBVIOUS
<1>1. /\ stack # <<>> /\ top.curstate = "MAKE1A"
      /\ depends' = [depends EXCEPT ![t] = deps] /\ includes' = includes
      /\ stack' = IF intr THEN Continue("MAKE1ATAIL")
                  ELSE Visits(deps, t) \o Continue("MAKE1ATAIL")
  BY DEF Make1aStart, Handler, top, Visits
<1>2. t \in Targets
  BY <1>1, StackType
<1> DEFINE I == {x \in Targets : rank[x] < rank[t]}
<1>3. depends[t] \in Seq(Targets) /\ depends[t] \in Seq(I)
  <2>1. depends[t] \in Seq(Targets)
    BY <1>2 DEF TypeOK
  <2>2. \A d \in ToSet(depends[t]) : d \in I
    BY <1>2, DepsType DEF RankInv, Falls
  <2>3. \A i \in 1..Len(depends[t]) : depends[t][i] \in I
    BY <2>1, <2>2 DEF ToSet
  <2> HIDE DEF I
  <2> QED
    BY <2>1, <2>3
<1>4. new \in Seq(I) /\ new \in Seq(Targets)
  <2>1. ASSUME NEW i \in 1..Len(depends[t]), includes[depends[t][i]] # NoTarget
        PROVE  includes[depends[t][i]] \in I
    <3> DEFINE d == depends[t][i]
    <3>1. d \in Targets /\ rank[d] < rank[t]
      BY <1>3
    <3>2. includes[d] \in Targets /\ rank[includes[d]] < rank[d]
      BY <2>1, <3>1 DEF RankInv, Falls, TypeOK
    <3> QED
      BY <1>2, <3>1, <3>2
  <2>2. IncludesIn(depends[t], I)
    BY <2>1 DEF IncludesIn
  <2> QED
    BY <1>3, <2>2, NewIncludesOf, NewIncludesType
<1>5. deps \in Seq(I) /\ deps \in Seq(Targets)
  BY <1>3, <1>4
<1>6. \A d \in ToSet(deps) : d \in Targets /\ rank[d] < rank[t]
  <2>1. \A x \in I : x \in Targets /\ rank[x] < rank[t]
    OBVIOUS
  <2>2. \A x \in ToSet(deps) : x \in I
    BY <1>5, InSeq
  <2> QED
    BY <2>1, <2>2
<1> HIDE DEF I
<1>7. Falls(rank, depends', includes')
  <2>1. \A x \in Targets : depends'[x] = IF x = t THEN deps ELSE depends[x]
    BY <1>1 DEF TypeOK
  <2> QED
    BY <1>1, <1>6, <2>1 DEF RankInv, Falls
<1>8. Opening(h, t, deps)
  BY <1>1, <1>5, OpenedStack
<1>9. ASSUME NEW b \in (h + 1)..Len(stack'), NEW a \in 1..(b - 1) PROVE Under(D(a)', D(b)', rank)
  <2>1. /\ h \in Nat /\ Len(stack) = h + 1 /\ D(h + 1) = top /\ h + 1 \in Places
        /\ Kept(stack, stack', h)
        /\ intr => Len(stack') = h
        /\ ~intr => /\ TailOf(D(h + 1)', t)
                    /\ \A c \in (h + 2)..Len(stack') :
                         D(c)'.curstate = "MAKE1A" /\ D(c)'.t \in ToSet(deps)
    BY <1>8 DEF Opening
  <2>2. ~intr /\ a \in Int
    <3>1. h \in Nat /\ (intr => Len(stack') = h)
      BY <2>1
    <3> QED
      BY <3>1
  <2>3. ASSUME a \in 1..h, D(a)'.curstate = "MAKE1ATAIL" PROVE D(a)'.t \in Targets /\ rank[t] < rank[D(a)'.t]
    <3>1. D(a)' = D(a) /\ a \in 1..((h + 1) - 1) /\ a \in Places
      <4>1. D(a)' = D(a)
        BY <2>1, <2>3 DEF Kept, D
      <4>2. h \in Nat /\ Len(stack) = h + 1
        BY <2>1
      <4> QED
        BY <2>3, <4>1, <4>2 DEF Places
    <3>2. Under(D(a), D(h + 1), rank)
      BY <2>1, <3>1 DEF RankInv, Nested
    <3> QED
      BY <1>1, <2>1, <2>3, <3>1, <3>2, Stacked DEF Under
  <2>4. CASE b = h + 1
    <3>1. a \in 1..h
      BY <2>1, <2>4
    <3> QED
      BY <2>1, <2>2, <2>3, <2>4, <3>1 DEF Under, TailOf
  <2>5. CASE b # h + 1
    <3>1. b \in (h + 2)..Len(stack')
      BY <2>1, <2>5
    <3>2. D(b)'.t \in Targets /\ rank[D(b)'.t] < rank[t]
      BY <1>6, <2>1, <2>2, <3>1
    <3>3. CASE a \in 1..h
      <4>1. ASSUME D(a)'.curstate = "MAKE1ATAIL" PROVE rank[D(b)'.t] < rank[D(a)'.t]
        <5>1. D(a)'.t \in Targets /\ rank[t] < rank[D(a)'.t]
          BY <2>3, <3>3, <4>1
        <5> QED
          BY <1>2, <3>2, <5>1
      <4> QED
        BY <4>1 DEF Under
    <3>4. CASE a = h + 1
      BY <2>1, <2>2, <3>2, <3>4 DEF Under, TailOf
    <3>5. CASE a \notin 1..h /\ a # h + 1
      <4>1. a \in (h + 2)..Len(stack')
        BY <2>1, <3>1, <3>5
      <4> QED
        BY <2>1, <2>2, <4>1 DEF Under
    <3> QED
      BY <3>3, <3>4, <3>5
  <2> QED
    BY <2>4, <2>5
<1>10. Nested(rank)'
  <2>1. Kept(stack, stack', h)
    BY <1>8 DEF Opening
  <2> QED
    BY <1>9, <2>1, NestedFrame DEF RankInv
<1> QED
  BY <1>7, <1>10 DEF RankInv, Falls

\* What make1c() pushes when t is done: calls of make1b().
LEMMA DoneStack ==
  ASSUME NothingFound, TypeOK, TypeOK', OrderInv, Make1cDone
  PROVE  \E n \in Nat : /\ Kept(stack, stack', n)
                        /\ \A b \in (n + 1)..Len(stack') : D(b)'.curstate = "MAKE1B"
<1> PICK h : h = Len(stack) - 1
  OBVIOUS
<1> PICK t : t = top.t
  OBVIOUS
<1>1. /\ stack # <<>> /\ top.curstate = "MAKE1C" /\ t \in Targets
  BY StackType DEF Make1cDone, Handler, top
<1>2. stack' = (TellParents(t, NoTarget) \o Release(t)) \o Popped
  BY <1>1 DEF Make1cDone, NothingFound
<1>3. /\ h \in Nat /\ Len(stack) = h + 1 /\ D(h + 1) = top
      /\ \E n \in 0..h : Len(Popped) = n /\ Kept(stack, Popped, n)
  BY <1>1, Handling DEF D, Handlers
<1>4. PICK n \in 0..h : Len(Popped) = n /\ Kept(stack, Popped, n)
  BY <1>3
<1>5. n \in Nat /\ n <= n /\ h + 1 \in Places
  BY <1>3 DEF Places
<1>6. progress[t] # "DONE"
  BY <1>1, <1>3, <1>5 DEF OrderInv, Alone, Holding, Begun
<1>7. /\ Kept(Popped, stack', n)
      /\ \A b \in (n + 1)..Len(stack') : D(b)'.curstate = "MAKE1B"
  BY <1>1, <1>2, <1>4, <1>5, <1>6, ToldCalls
<1>8. Kept(stack, stack', n)
  BY <1>4, <1>5, <1>7, KeptTrans
<1> QED
  BY <1>5, <1>7, <1>8

\* Every step keeps RankInv.
LEMMA RankStep ==
  ASSUME NothingFound, TypeOK, TypeOK', OrderInv, NEW rank \in [Targets -> Nat], RankInv(rank),
         [Next]_vars
  PROVE  RankInv(rank)'
<1>1. CASE Make1aSeen \/ Make1bWait \/ Make1bSemaphore \/ Make1cLaunch
  <2>1. stack # <<>> /\ stack' = Popped /\ UNCHANGED <<depends, includes>>
    BY <1>1 DEF Make1aSeen, Make1bWait, Make1bSemaphore, Make1cLaunch, Handler, graph
  <2>2. PICK n \in Nat : Kept(stack, stack', n) /\ (n + 1)..Len(stack') = {}
    BY <2>1, Taken
  <2> QED
    BY <2>1, <2>2, NestedQuiet
<1>2. CASE Make1aStart
  BY <1>2, StartRanked
<1>3. CASE Make1atail \/ Make1bReady \/ Make1cNoExec \/ Make1d
  <2>1. PICK c \in Handlers \ {"MAKE1A", "MAKE1ATAIL"} : stack # <<>> /\ stack' = Continue(c)
    BY <1>3 DEF Make1atail, Make1bReady, Make1cNoExec, Make1d, Handler, Handlers
  <2>2. UNCHANGED <<depends, includes>>
    BY <1>3 DEF Make1atail, Make1bReady, Make1cNoExec, Make1d, graph
  <2>3. PICK h : h = Len(stack) - 1
    OBVIOUS
  <2>4. Kept(stack, stack', h) /\ \A b \in (h + 1)..Len(stack') : D(b)'.curstate = c
    BY <2>1, <2>3, Replaced
  <2> QED
    BY <2>1, <2>2, <2>4, NestedQuiet
<1>4. CASE Make1cDone
  <2>1. PICK n \in Nat : /\ Kept(stack, stack', n)
                         /\ \A b \in (n + 1)..Len(stack') : D(b)'.curstate = "MAKE1B"
    BY <1>4, DoneStack
  <2>2. Nested(rank)'
    BY <2>1, NestedFrame DEF RankInv, Under
  <2>3. PICK t \in Targets : t = top.t
    BY <1>4, StackType DEF Make1cDone, Handler
  <2>4. /\ depends' = depends
        /\ \A x \in Targets : includes'[x] \in {includes[x], NoTarget}
    BY ZenonT(40), <1>4, <2>3 DEF Make1cDone, Rescan, NothingFound, TypeOK
  <2>5. Falls(rank, depends', includes')
    BY <2>4 DEF RankInv, Falls
  <2> QED
    BY <2>2, <2>5 DEF RankInv, Falls
<1>5. CASE AnyComplete
  <2>1. PICK t \in Targets, st \in {EXEC_CMD_OK, EXEC_CMD_FAIL} : Complete(t, st)
    BY <1>5 DEF AnyComplete
  <2> DEFINE x == [State(t, NoTarget, "MAKE1D") EXCEPT
                     !.status = IF sigint THEN EXEC_CMD_INTR ELSE st]
  <2>2. stack' = <<x>> \o stack /\ x.curstate = "MAKE1D" /\ UNCHANGED <<depends, includes>>
    BY <2>1 DEF Complete, State, graph
  <2> HIDE DEF x
  <2>3. stack \in Seq(States) /\ stack' \in Seq(States)
    BY DEF TypeOK
  <2>4. x \in States
    <3>1. Len(stack') \in Nat /\ Head(stack') = x /\ stack' # <<>>
      BY <2>2, <2>3
    <3> HIDE DEF States
    <3> QED
      BY <2>3, <3>1
  <2> PICK n : n = Len(stack)
    OBVIOUS
  <2>5. /\ Len(stack') = n + 1 /\ n \in Nat
        /\ Kept(stack, stack', n) /\ D(n + 1)' = x
    BY <2>2, <2>3, <2>4, DeepOne, DeepType DEF D
  <2>6. \A b \in (n + 1)..Len(stack') : b = n + 1
    BY <2>5
  <2> QED
    BY <2>2, <2>5, <2>6, NestedQuiet
<1>6. CASE \/ ExecWait \/ ExecReturn \/ Interrupt \/ Make1Return \/ Ended \/ UNCHANGED vars
  <2>1. UNCHANGED <<depends, includes>>
    BY <1>6 DEF ExecWait, ExecReturn, Interrupt, Make1Return, Ended, vars, graph
  <2>2. CASE stack' = stack
    BY <2>1, <2>2 DEF RankInv, Nested, Falls, D, Places, Under
  <2>3. CASE stack' # stack
    <3>1. stack' = <<State(Roots[root + 1], NoTarget, "MAKE1A")>>
      BY <1>6, <2>3 DEF ExecWait, ExecReturn, Interrupt, Make1Return, Ended, vars
    <3>2. Len(stack') = 1
      BY <3>1
    <3>3. \A b \in 1..Len(stack') : 1..(b - 1) = {}
      BY <3>2
    <3>4. Nested(rank)'
      BY <3>3 DEF Nested, Places
    <3> QED
      BY <2>1, <3>4 DEF RankInv, Falls
  <2> QED
    BY <2>2, <2>3
<1> QED
  BY <1>1, <1>2, <1>3, <1>4, <1>5, <1>6 DEF Next, Loop

\* Every step keeps OrderInv.
LEMMA OrderStep ==
  ASSUME NothingFound, TypeOK, TypeOK', OrderInv, Apart, [Next]_vars
  PROVE  OrderInv'
<1>1. CASE AnyComplete
  <2>1. PICK t \in Targets, st \in {EXEC_CMD_OK, EXEC_CMD_FAIL} : Complete(t, st)
    BY <1>1 DEF AnyComplete
  <2> QED
    BY <2>1, CompleteOrdered
<1>2. CASE \/ ExecWait \/ ExecReturn \/ Interrupt \/ Make1Return \/ Ended \/ UNCHANGED vars
  BY <1>2, QuietOrdered
<1>3. CASE Make1aSeen \/ Make1aStart \/ Make1atail
  BY <1>3, SeenOrdered, StartOrdered, TailOrdered
<1>4. CASE Make1bWait \/ Make1bSemaphore \/ Make1bReady
  BY <1>4, WaitOrdered, QueueOrdered, ReadyOrdered
<1>5. CASE Make1cLaunch \/ Make1cNoExec \/ Make1cDone \/ Make1d
  BY <1>5, LaunchOrdered, NextOrdered, DoneOrdered
<1> QED
  BY <1>1, <1>2, <1>3, <1>4, <1>5 DEF Next, Loop

\* Nothing is counted, waited for or built when make1() is entered.
LEMMA InitOrdered ==
  ASSUME Init, TypeOK, NEW rank \in [Targets -> Nat], Acyclic(rank)
  PROVE  OrderInv /\ RankInv(rank)
<1>1. /\ running = {} /\ intr = FALSE
      /\ \A t \in Targets : progress[t] = "INIT" /\ asynccnt[t] = 0 /\ parents[t] = <<>>
      /\ \A s \in Sems : semwait[s] = <<>>
  BY DEF Init
<1>2. Places = {1} /\ D(1).curstate = "MAKE1A" /\ D(1).parent = NoTarget
  <2> DEFINE x == State(Roots[1], NoTarget, "MAKE1A")
  <2>1. stack = <<x>>
    BY DEF Init
  <2>2. x.curstate = "MAKE1A" /\ x.parent = NoTarget
    BY DEF State
  <2> HIDE DEF x
  <2>3. Len(stack) = 1 /\ stack[1] = x /\ 1..1 = {1} /\ Len(stack) + 1 - 1 = 1
    BY <2>1
  <2> QED
    BY <2>2, <2>3 DEF Places, D, Deep
<1>3. \A t \in Targets : /\ Owed(progress, parents, t) = {} /\ Queued(semwait, t) = {}
                         /\ Calls(stack, t) = {}
  <2>1. ASSUME NEW t \in Targets, NEW y \in Owed(progress, parents, t) PROVE FALSE
    <3>1. y[1] \in Targets /\ y[2] \in DOMAIN parents[y[1]]
      BY DEF Owed
    <3> QED
      BY <1>1, <3>1
  <2>2. ASSUME NEW t \in Targets, NEW y \in Queued(semwait, t) PROVE FALSE
    <3>1. y[1] \in Sems /\ y[2] \in DOMAIN semwait[y[1]]
      BY DEF Queued
    <3> QED
      BY <1>1, <3>1
  <2>3. ASSUME NEW t \in Targets, NEW b \in Calls(stack, t) PROVE FALSE
    BY <1>2 DEF Calls, Calling, D, Places
  <2> QED
    BY <2>1, <2>2, <2>3, Zenon
<1>4. Counted
  <2>1. IsFiniteSet({}) /\ Cardinality({}) = 0
    BY FS_EmptySet
  <2>2. \A t \in Targets : Gap(t) = 0 - (0 + 0 + 0)
    BY <1>1, <1>3, <2>1 DEF Gap
  <2> QED
    BY <1>3, <2>1, <2>2 DEF Counted
<1>5. OrderInv
  <2>1. Idle /\ Called /\ Started /\ Waits /\ Past
    BY <1>1, <1>2 DEF Idle, Called, Started, Waits, Past
  <2>2. Alone /\ Fine
    BY <1>1, <1>2 DEF Alone, Fine, Holding
  <2> QED
    BY <1>4, <2>1, <2>2 DEF OrderInv
<1>6. RankInv(rank)
  <2>1. Falls(rank, depends, includes)
    BY DEF Init, Acyclic
  <2>2. Nested(rank)
    BY <1>2 DEF Nested
  <2> QED
    BY <2>1, <2>2 DEF RankInv
<1> QED
  BY <1>5, <1>6

\* A target that starts or ends is one make1b() handed on, and has all it needs.
LEMMA HandedOn ==
  ASSUME TypeOK, OrderInv, [Next]_vars, NEW t \in Targets
  PROVE  /\ t \in Launched \/ (progress[t] # "DONE" /\ progress'[t] = "DONE") =>
              \A d \in ToSet(depends[t]) : progress[d] = "DONE"
         /\ t \in Launched => \A d \in ToSet(depends[t]) \ NoCare : status[d] = EXEC_CMD_OK
<1>1. CASE Make1cLaunch \/ Make1cDone
  <2>1. /\ stack # <<>> /\ top.curstate = "MAKE1C"
        /\ t \in Launched => t = top.t /\ status[t] = EXEC_CMD_OK
        /\ progress'[t] # progress[t] => t = top.t
    BY <1>1 DEF Make1cLaunch, Make1cDone, Handler, top, HasCommand, Launched, exec, TypeOK
  <2>2. Len(stack) \in Places /\ D(Len(stack)) = top
    <3>1. stack \in Seq(States)
      BY DEF TypeOK
    <3>2. Len(stack) \in Nat \ {0} /\ Deep(stack, Len(stack)) = Head(stack)
      BY <2>1, <3>1, DeepTail
    <3> QED
      BY <3>2 DEF Places, D, top
  <2>3. t = top.t => /\ Begun(t)
                     /\ status[t] = EXEC_CMD_OK => Sound(t)
    BY <2>1, <2>2 DEF OrderInv, Alone, Fine, Holding
  <2>4. Begun(t) => \A d \in ToSet(depends[t]) : progress[d] = "DONE"
    BY Holder
  <2> QED
    BY <2>1, <2>3, <2>4 DEF Sound
<1>2. CASE ~(Make1cLaunch \/ Make1cDone)
  <2>1. running' \subseteq running
    BY <1>2 DEF Next, Loop, AnyComplete, vars, exec, Make1aSeen, Make1aStart, Make1atail,
        Make1bWait, Make1bSemaphore, Make1bReady, Make1cNoExec, Make1d, ExecWait, ExecReturn,
        Make1Return, Complete, Interrupt, Ended
  <2>2. progress'[t] = "DONE" => progress[t] = "DONE"
    <3>1. CASE Make1aStart \/ Make1atail \/ Make1bReady
      BY ZenonT(40), <3>1 DEF Make1aStart, Make1atail, Make1bReady, TypeOK
    <3>2. CASE progress' = progress
      BY <3>2
    <3> QED
      BY <1>2, <3>1, <3>2 DEF Next, Loop, AnyComplete, vars, Make1aSeen,
          Make1bWait, Make1bSemaphore, Make1cNoExec, Make1d, ExecWait, ExecReturn,
          Make1Return, Complete, Interrupt, Ended
  <2> QED
    BY <2>1, <2>2 DEF Launched
<1> QED
  BY <1>1, <1>2

(***************************************************************************)
(* make1b's promise, "The target actually goes on to getting built in      *)
(* make1c() only after all of its dependencies have finished their         *)
(* processing", is kept for every acyclic graph in whose files headers()   *)
(* finds nothing new, in any order of completions, interrupted or not; and *)
(* no command is run for a target when a dependency it cares about failed. *)
(***************************************************************************)
THEOREM BuiltInOrder ==
  ASSUME NothingFound, NEW rank \in [Targets -> Nat], Acyclic(rank)
  PROVE  Spec => BuildsInOrder
<1>1. Init => OrderInv /\ RankInv(rank)
  BY InitType, InitOrdered
<1>2. TypeOK /\ TypeOK' /\ OrderInv /\ RankInv(rank) /\ [Next]_vars => OrderInv' /\ RankInv(rank)'
  <2> SUFFICES ASSUME TypeOK, TypeOK', OrderInv, RankInv(rank), [Next]_vars
               PROVE  OrderInv' /\ RankInv(rank)'
    OBVIOUS
  <2>1. Apart
    BY NestedApart DEF RankInv
  <2> QED
    BY <2>1, OrderStep, RankStep
<1>3. TypeOK /\ OrderInv /\ [Next]_vars =>
        [\A t \in Targets :
           /\ t \in Launched \/ (progress[t] # "DONE" /\ progress'[t] = "DONE") =>
                \A d \in ToSet(depends[t]) : progress[d] = "DONE"
           /\ t \in Launched =>
                \A d \in ToSet(depends[t]) \ NoCare : status[d] = EXEC_CMD_OK]_vars
  BY HandedOn
<1> QED
  BY <1>1, <1>2, <1>3, TypeCorrect, PTL DEF Spec, BuildsInOrder
=============================================================================
