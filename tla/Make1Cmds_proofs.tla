--------------------------- MODULE Make1Cmds_proofs ---------------------------
(***************************************************************************)
(* Proofs about make1cmds(), for all chains of actions, rules, sets of     *)
(* actions already executing and line lengths: every source is given to a  *)
(* command, every action is started once, and a list is split as needed.   *)
(***************************************************************************)
EXTENDS Make1CmdsCalls, Induction, SequenceTheorems, FiniteSetTheorems

-----------------------------------------------------------------------------
(***************************************************************************)
(* make1list().                                                            *)
(***************************************************************************)

\* make1list() leaves out s, for the modifiers of rule or as a duplicate.
LeftOut(rule, s, fresh, l) ==
  \/ Skipped(rule, s, fresh)
  \/ rule \in Together /\ Contains(l, BoundName[s])

\* The successive lists of make1list().
ListSteps(list, l, targets, rule, fresh) ==
  /\ list \in [0..Len(targets) -> Seq(Names)]
  /\ list[0] = l
  /\ list[Len(targets)] = Make1List(l, targets, rule, fresh)
  /\ \A i \in 1..Len(targets) :
       list[i] = IF LeftOut(rule, targets[i], fresh, list[i - 1]) THEN list[i - 1]
                 ELSE Append(list[i - 1], BoundName[targets[i]])

LEMMA Make1ListSteps ==
  ASSUME NEW l \in Seq(Names), NEW targets \in Seq(Targets), NEW rule, NEW fresh
  PROVE  \E list : ListSteps(list, l, targets, rule, fresh)
<1> DEFINE n == Len(targets)
           V == Seq(Names)
           Next(i, done) == IF LeftOut(rule, targets[i], fresh, done) THEN done
                            ELSE Append(done, BoundName[targets[i]])
           step == [x \in (1..n) \X V |-> Next(x[1], x[2])]
           Body(g) == [i \in 0..n |-> IF i = 0 THEN l ELSE Next(i, g[i - 1])]
           list == CHOOSE g : g = Body(g)
<1>1. n \in Nat /\ \A i \in 1..n : targets[i] \in Targets /\ BoundName[targets[i]] \in Names
  BY Make1CmdsAssumption
<1>2. \A i \in 1..n, done \in V : Next(i, done) \in V
  BY <1>1
<1>3. step \in [(1..n) \X V -> V]
  <2> HIDE DEF Next
  <2> QED
    BY <1>2
<1>4. PICK g : Follows(g, n, V, l, step)
  <2> HIDE DEF n, step
  <2>1. Steps(n, V, l, step)
    BY <1>1, <1>3 DEF Steps
  <2> QED
    BY <2>1, PrimitiveRecursion
<1> HIDE DEF n
<1>5. g = Body(g)
  <2>0. /\ g \in [0..n -> V]
        /\ g = [i \in 0..n |-> IF i = 0 THEN l ELSE step[<<i, g[i - 1]>>]]
    <3> HIDE DEF step
    <3> QED
      BY <1>4 DEF Follows
  <2>1. ASSUME NEW i \in 1..n PROVE step[<<i, g[i - 1]>>] = Next(i, g[i - 1])
    <3>0. i - 1 \in 0..n
      BY <1>1
    <3>1. g[i - 1] \in V
      <4> HIDE DEF step, Next
      <4> QED
        BY <2>0, <3>0
    <3> HIDE DEF Next
    <3> QED
      BY <3>1
  <2>2. ASSUME NEW i \in 0..n PROVE g[i] = IF i = 0 THEN l ELSE Next(i, g[i - 1])
    <3>1. i # 0 => i \in 1..n
      BY <1>1
    <3> HIDE DEF Next, step
    <3> QED
      BY <2>0, <2>1, <3>1
  <2>3. g = [i \in 0..n |-> g[i]]
    <3> HIDE DEF step
    <3> QED
      BY <2>0
  <2> HIDE DEF Next
  <2> QED
    BY <2>2, <2>3
<1>6. list = Body(list)
  <2> HIDE DEF Body
  <2> QED
    BY <1>5
<1>7. Make1List(l, targets, rule, fresh) = list[n]
  BY DEF Make1List, LeftOut, n
<1> HIDE DEF list
<1>8. list[0] = l /\ \A i \in 1..n : list[i] = Next(i, list[i - 1])
  <2> HIDE DEF Next
  <2> QED
    BY <1>1, <1>6
<1> DEFINE S == {i \in 0..n : list[i] \in V}
<1>9. \A i \in 0..n : i \in S
  <2>1. 0 \in S
    BY <1>1, <1>8
  <2>2. \A i \in 1..n : i - 1 \in S => i \in S
    <3> HIDE DEF Next, V
    <3> QED
      BY <1>1, <1>2, <1>8
  <2> HIDE DEF S
  <2> QED
    BY <1>1, <2>1, <2>2, FiniteInduction
<1>10. list \in [0..n -> V]
  <2> HIDE DEF Next
  <2> QED
    BY <1>6, <1>9
<1> QED
  BY <1>1, <1>7, <1>8, <1>10 DEF n, ListSteps

\* Appending adds one element to a sequence's set, and no duplicate of it.
LEMMA AppendSet ==
  ASSUME NEW T, NEW s \in Seq(T), NEW x
  PROVE  /\ ToSet(Append(s, x)) = ToSet(s) \cup {x}
         /\ IsInjective(s) /\ x \notin ToSet(s) => IsInjective(Append(s, x))
<1> DEFINE r == Append(s, x)
<1>1. /\ DOMAIN s = 1..Len(s) /\ Len(s) \in Nat
      /\ DOMAIN r = 1..(Len(s) + 1)
      /\ \A i \in 1..Len(s) : r[i] = s[i]
      /\ r[Len(s) + 1] = x
  OBVIOUS
<1> HIDE DEF r
<1>2. ToSet(r) = ToSet(s) \cup {x}
  BY <1>1 DEF ToSet
<1>3. ASSUME IsInjective(s), x \notin ToSet(s) PROVE IsInjective(r)
  BY <1>1, <1>3 DEF ToSet, IsInjective
<1> QED
  BY <1>2, <1>3 DEF r

\* Searching the list is asking whether the name is in its set.
LEMMA ContainsIsIn ==
  ASSUME NEW T, NEW s \in Seq(T), NEW x
  PROVE  Contains(s, x) <=> x \in ToSet(s)
BY DEF Contains, ToSet

\* What make1list() adds to a list: the names of the sources the rule wants.
LEMMA Make1ListAdds ==
  ASSUME NEW l \in Seq(Names), NEW targets \in Seq(Targets), NEW rule, NEW fresh
  PROVE  LET r == Make1List(l, targets, rule, fresh)
         IN  /\ r \in Seq(Names)
             /\ ToSet(r) = ToSet(l) \cup
                  {BoundName[x] : x \in {y \in ToSet(targets) : ~Skipped(rule, y, fresh)}}
             /\ rule \in Together /\ IsInjective(l) => IsInjective(r)
<1> DEFINE n == Len(targets)
           r == Make1List(l, targets, rule, fresh)
           Upto(i) == {BoundName[targets[j]] : j \in {k \in 1..i : ~Skipped(rule, targets[k], fresh)}}
<1>1. n \in Nat /\ DOMAIN targets = 1..n
  OBVIOUS
<1>0. PICK list : ListSteps(list, l, targets, rule, fresh)
  BY Make1ListSteps
<1>2. /\ list \in [0..n -> Seq(Names)]
      /\ list[0] = l
      /\ list[n] = r
      /\ \A i \in 1..n :
           list[i] = IF LeftOut(rule, targets[i], fresh, list[i - 1]) THEN list[i - 1]
                     ELSE Append(list[i - 1], BoundName[targets[i]])
  BY <1>0 DEF ListSteps
<1> HIDE DEF n, r
<1> DEFINE S == {i \in 0..n : /\ ToSet(list[i]) = ToSet(l) \cup Upto(i)
                              /\ rule \in Together /\ IsInjective(l) => IsInjective(list[i])}
<1>3. 0 \in S
  BY <1>1, <1>2
<1>4. ASSUME NEW i \in 1..n, i - 1 \in S PROVE i \in S
  <2> DEFINE done == list[i - 1]
             x    == BoundName[targets[i]]
  <2>1. /\ ToSet(done) = ToSet(l) \cup Upto(i - 1)
        /\ rule \in Together /\ IsInjective(l) => IsInjective(done)
    BY <1>4
  <2>2. done \in Seq(Names) /\ i - 1 \in Nat /\ i \in 0..n
    BY <1>1, <1>2
  <2>3. list[i] = IF LeftOut(rule, targets[i], fresh, done) THEN done ELSE Append(done, x)
    BY <1>2
  <2>4. Upto(i) = Upto(i - 1) \cup (IF Skipped(rule, targets[i], fresh) THEN {} ELSE {x})
    <3>1. 1..i = (1..(i - 1)) \cup {i}
      BY <2>2
    <3>2. CASE Skipped(rule, targets[i], fresh)
      <4>1. {k \in 1..i : ~Skipped(rule, targets[k], fresh)}
              = {k \in 1..(i - 1) : ~Skipped(rule, targets[k], fresh)}
        BY <3>1, <3>2
      <4> QED
        BY <3>2, <4>1
    <3>3. CASE ~Skipped(rule, targets[i], fresh)
      <4>1. {k \in 1..i : ~Skipped(rule, targets[k], fresh)}
              = {k \in 1..(i - 1) : ~Skipped(rule, targets[k], fresh)} \cup {i}
        BY <3>1, <3>3
      <4> QED
        BY <3>3, <4>1
    <3> QED
      BY <3>2, <3>3
  <2> HIDE DEF Upto
  <2>5. /\ Contains(done, x) <=> x \in ToSet(done)
        /\ ToSet(Append(done, x)) = ToSet(done) \cup {x}
        /\ IsInjective(done) /\ x \notin ToSet(done) => IsInjective(Append(done, x))
    <3> HIDE DEF done, x
    <3> QED
      BY <2>2, AppendSet, ContainsIsIn
  <2> HIDE DEF done, x
  <2>6. CASE Skipped(rule, targets[i], fresh)
    <3>1. list[i] = done
      BY <2>3, <2>6 DEF LeftOut
    <3> QED
      BY <2>1, <2>2, <2>4, <2>6, <3>1
  <2>7. CASE /\ ~Skipped(rule, targets[i], fresh)
             /\ LeftOut(rule, targets[i], fresh, done)
    <3>1. list[i] = done /\ x \in ToSet(done)
      BY <2>3, <2>5, <2>7 DEF LeftOut, x
    <3> QED
      BY <2>1, <2>2, <2>4, <2>7, <3>1
  <2>8. CASE ~LeftOut(rule, targets[i], fresh, done)
    <3>1. list[i] = Append(done, x)
      BY <2>3, <2>8
    <3>2. ~Skipped(rule, targets[i], fresh) /\ (rule \in Together => x \notin ToSet(done))
      BY <2>5, <2>8 DEF LeftOut, x
    <3>3. ToSet(list[i]) = ToSet(l) \cup Upto(i)
      BY <2>1, <2>4, <2>5, <3>1, <3>2
    <3>4. rule \in Together /\ IsInjective(l) => IsInjective(list[i])
      BY <2>1, <2>5, <3>1, <3>2
    <3> QED
      BY <2>2, <3>3, <3>4
  <2> QED
    BY <2>6, <2>7, <2>8
<1> HIDE DEF S
<1>5. \A i \in 0..n : i \in S
  BY <1>1, <1>3, <1>4, FiniteInduction
<1>6. n \in S /\ n \in 0..n
  BY <1>1, <1>5
<1>7. Upto(n) = {BoundName[x] : x \in {y \in ToSet(targets) : ~Skipped(rule, y, fresh)}}
  BY <1>1 DEF ToSet
<1> HIDE DEF Upto
<1> QED
  BY <1>2, <1>6, <1>7 DEF S, r

(***************************************************************************)
(* For a rule that is not TOGETHER, the k-th source, when the rule wants   *)
(* it, is found at the place of the wanted ones up to it.                  *)
(***************************************************************************)
LEMMA Make1ListInOrder ==
  ASSUME NEW targets \in Seq(Targets), NEW rule, rule \notin Together, NEW fresh
  PROVE  LET r == Make1List(<<>>, targets, rule, fresh)
             W == {k \in DOMAIN targets : ~Skipped(rule, targets[k], fresh)}
         IN  /\ Len(r) = Cardinality(W)
             /\ \A k \in W : r[Cardinality({j \in W : j <= k})] = BoundName[targets[k]]
<1> DEFINE n == Len(targets)
           r == Make1List(<<>>, targets, rule, fresh)
           W == {k \in 1..n : ~Skipped(rule, targets[k], fresh)}
           Upto(i) == {k \in W : k <= i}
           size == [i \in 0..n |-> Cardinality(Upto(i))]
<1>1. n \in Nat /\ DOMAIN targets = 1..n
  OBVIOUS
<1>0. PICK list : ListSteps(list, <<>>, targets, rule, fresh)
  <2>1. <<>> \in Seq(Names)
    OBVIOUS
  <2> QED
    BY <2>1, Make1ListSteps
<1>2. /\ list \in [0..n -> Seq(Names)]
      /\ list[0] = <<>>
      /\ list[n] = r
      /\ \A i \in 1..n :
           list[i] = IF LeftOut(rule, targets[i], fresh, list[i - 1]) THEN list[i - 1]
                     ELSE Append(list[i - 1], BoundName[targets[i]])
  BY <1>0 DEF ListSteps
<1> HIDE DEF n, r
<1>3. W \subseteq 1..n
  OBVIOUS
<1>4. ASSUME NEW i \in 0..n PROVE IsFiniteSet(Upto(i)) /\ Cardinality(Upto(i)) \in Nat
  <2>1. IsFiniteSet(1..n)
    BY <1>1, FS_Interval
  <2>2. Upto(i) \in SUBSET (1..n)
    BY <1>3
  <2> HIDE DEF Upto
  <2> QED
    BY <2>1, <2>2, FS_Subset, FS_CardinalityType
<1>5. Upto(0) = {} /\ size[0] = 0 /\ 0 \in 0..n
  <2>1. Upto(0) = {}
    BY <1>1, <1>3
  <2> QED
    BY <1>1, <2>1, FS_EmptySet
<1>6. ASSUME NEW i \in 1..n
      PROVE  /\ i - 1 \in 0..n /\ i \in 0..n
             /\ i \in W => size[i] = size[i - 1] + 1
             /\ i \notin W => size[i] = size[i - 1]
  <2>1. i - 1 \in 0..n /\ i \in 0..n
    BY <1>1
  <2>2. i \in W => Upto(i) = Upto(i - 1) \cup {i}
    BY <1>1, <1>3
  <2>3. i \notin W => Upto(i) = Upto(i - 1)
    BY <1>1, <1>3
  <2>4. i \notin Upto(i - 1)
    BY <1>1
  <2> HIDE DEF Upto, W
  <2>5. Cardinality(Upto(i - 1) \cup {i}) = Cardinality(Upto(i - 1)) + 1
    BY <1>4, <2>1, <2>4, FS_AddElement
  <2> QED
    BY <2>1, <2>2, <2>3, <2>5
<1>7. \A i \in 0..n : size[i] \in Nat
  BY <1>4
<1> DEFINE S == {i \in 0..n : /\ Len(list[i]) = size[i]
                              /\ \A k \in Upto(i) : /\ size[k] \in 1..size[i]
                                                    /\ list[i][size[k]] = BoundName[targets[k]]}
<1> HIDE DEF size
<1>8. 0 \in S
  BY <1>2, <1>5
<1>9. ASSUME NEW i \in 1..n, i - 1 \in S PROVE i \in S
  <2> DEFINE done == list[i - 1]
             x    == BoundName[targets[i]]
  <2>1. /\ Len(done) = size[i - 1]
        /\ \A k \in Upto(i - 1) : /\ size[k] \in 1..size[i - 1]
                                  /\ done[size[k]] = BoundName[targets[k]]
    BY <1>9
  <2>2. done \in Seq(Names) /\ i - 1 \in 0..n /\ i \in 0..n
    BY <1>1, <1>2
  <2>3. list[i] = IF LeftOut(rule, targets[i], fresh, done) THEN done ELSE Append(done, x)
    BY <1>2
  <2>4. LeftOut(rule, targets[i], fresh, done) <=> i \notin W
    BY DEF LeftOut
  <2>5. ASSUME NEW k \in Upto(i), k # i PROVE k \in Upto(i - 1)
    BY <1>1, <1>3, <2>5
  <2>6. size[i] \in Nat /\ size[i - 1] \in Nat
    BY <1>7, <2>2
  <2>7. CASE i \notin W
    <3>1. list[i] = done /\ size[i] = size[i - 1]
      BY <1>6, <2>3, <2>4, <2>7
    <3>2. \A k \in Upto(i) : k \in Upto(i - 1)
      BY <2>5, <2>7
    <3> HIDE DEF done, Upto
    <3> QED
      BY <2>1, <2>2, <3>1, <3>2
  <2>8. CASE i \in W
    <3>1. list[i] = Append(done, x) /\ size[i] = size[i - 1] + 1
      BY <1>6, <2>3, <2>4, <2>8
    <3> HIDE DEF done, x
    <3>2. /\ Len(list[i]) = size[i] /\ list[i][size[i]] = x
          /\ \A m \in 1..size[i - 1] : list[i][m] = done[m]
      BY <2>1, <2>2, <2>6, <3>1
    <3>3. ASSUME NEW k \in Upto(i)
          PROVE  size[k] \in 1..size[i] /\ list[i][size[k]] = BoundName[targets[k]]
      <4>1. CASE k = i
        BY <2>6, <3>1, <3>2, <4>1 DEF x
      <4>2. CASE k # i
        <5>1. k \in Upto(i - 1)
          BY <2>5, <4>2
        <5>2. size[k] \in 1..size[i - 1] /\ done[size[k]] = BoundName[targets[k]]
          BY <2>1, <5>1
        <5> QED
          BY <2>6, <3>1, <3>2, <5>2
      <4> QED
        BY <4>1, <4>2
    <3> QED
      BY <2>2, <3>2, <3>3
  <2> QED
    BY <2>7, <2>8
<1> HIDE DEF S
<1>10. \A i \in 0..n : i \in S
  BY <1>1, <1>8, <1>9, FiniteInduction
<1>11. n \in S /\ n \in 0..n
  BY <1>1, <1>10
<1>12. Upto(n) = W
  BY <1>1, <1>3
<1>13. Len(r) = Cardinality(W)
  BY <1>2, <1>11, <1>12 DEF S, size
<1>14. ASSUME NEW k \in W PROVE r[Cardinality({j \in W : j <= k})] = BoundName[targets[k]]
  <2>1. k \in Upto(n) /\ k \in 0..n
    BY <1>1, <1>3, <1>12
  <2>2. r[size[k]] = BoundName[targets[k]]
    BY <1>2, <1>11, <2>1 DEF S
  <2> QED
    BY <2>1, <2>2 DEF size
<1> QED
  BY <1>1, <1>13, <1>14 DEF r

-----------------------------------------------------------------------------
(***************************************************************************)
(* Sequences of sequences, end to end.                                     *)
(***************************************************************************)

\* f holds the concatenations of the first elements of s.
Flattens(f, s, T) ==
  /\ f \in [0..Len(s) -> Seq(T)]
  /\ f[0] = <<>>
  /\ \A i \in 1..Len(s) : f[i] = f[i - 1] \o s[i]

LEMMA FlattensExists ==
  ASSUME NEW T, NEW s \in Seq(Seq(T))
  PROVE  \E f : Flattens(f, s, T)
<1> DEFINE n == Len(s)
           V == Seq(T)
           none == <<>>
           step == [x \in (1..n) \X V |-> x[2] \o s[x[1]]]
<1>1. n \in Nat /\ none \in V /\ \A i \in 1..n : s[i] \in Seq(T)
  OBVIOUS
<1>2. step \in [(1..n) \X V -> V]
  <2>1. ASSUME NEW x \in (1..n) \X V PROVE x[2] \o s[x[1]] \in V
    <3>1. x[2] \in Seq(T) /\ s[x[1]] \in Seq(T)
      BY <1>1
    <3> QED
      BY <3>1
  <2> HIDE DEF V
  <2> QED
    BY <2>1
<1>3. PICK f : Follows(f, n, V, none, step)
  <2> HIDE DEF n, V, none, step
  <2>1. Steps(n, V, none, step)
    BY <1>1, <1>2 DEF Steps
  <2> QED
    BY <2>1, PrimitiveRecursion
<1>4. /\ f \in [0..n -> V]
      /\ f = [i \in 0..n |-> IF i = 0 THEN none ELSE step[<<i, f[i - 1]>>]]
  <2> HIDE DEF n, V, none, step
  <2> QED
    BY <1>3 DEF Follows
<1>5. f[0] = <<>>
  <2> HIDE DEF n, V, step
  <2> QED
    BY <1>1, <1>4
<1>6. ASSUME NEW i \in 1..n PROVE f[i] = f[i - 1] \o s[i]
  <2>1. i \in 0..n /\ i - 1 \in 0..n /\ i # 0
    BY <1>1
  <2>2. f[i - 1] \in V /\ f[i] = step[<<i, f[i - 1]>>]
    <3> HIDE DEF n, V, step, none
    <3> QED
      BY <1>4, <2>1
  <2> HIDE DEF n, V
  <2> QED
    BY <2>2
<1> QED
  BY <1>4, <1>5, <1>6 DEF Flattens

LEMMA FlattensSeq ==
  ASSUME NEW T, NEW s \in Seq(Seq(T)), NEW f, Flattens(f, s, T)
  PROVE  FlattenSeq(s) = f[Len(s)] /\ FlattenSeq(s) \in Seq(T)
<1> DEFINE n == Len(s)
           Body(g) == [i \in 1..n |-> IF i = 1 THEN s[i] ELSE g[i - 1] \o s[i]]
           flatten == CHOOSE g : g = Body(g)
<1>0. n \in Nat /\ \A i \in 1..n : s[i] \in Seq(T)
  OBVIOUS
<1>1. /\ f \in [0..n -> Seq(T)] /\ f[0] = <<>>
      /\ \A i \in 1..n : f[i] = f[i - 1] \o s[i]
  BY DEF Flattens
<1>2. f[n] \in Seq(T)
  BY <1>0, <1>1
<1>3. CASE n = 0
  <2>1. s = <<>> /\ FlattenSeq(s) = s
    BY <1>3 DEF FlattenSeq
  <2> QED
    BY <1>1, <1>2, <1>3, <2>1
<1>4. CASE n # 0
  <2> DEFINE h == [i \in 1..n |-> f[i]]
  <2>1. h = Body(h)
    <3>1. ASSUME NEW i \in 1..n PROVE f[i] = IF i = 1 THEN s[i] ELSE h[i - 1] \o s[i]
      <4>1. CASE i = 1
        <5> HIDE DEF n
        <5>1. f[i] = f[i - 1] \o s[i] /\ s[i] \in Seq(T)
          BY <1>0, <1>1
        <5>2. i - 1 = 0 /\ <<>> \o s[i] = s[i]
          BY <4>1, <5>1
        <5> QED
          BY <1>1, <4>1, <5>1, <5>2
      <4>2. CASE i # 1
        <5>1. i - 1 \in 1..n
          BY <1>0, <4>2
        <5>2. h[i - 1] = f[i - 1]
          BY <5>1
        <5> QED
          BY <1>1, <4>2, <5>2
      <4> QED
        BY <4>1, <4>2
    <3> HIDE DEF n
    <3> QED
      BY <3>1
  <2>2. flatten = Body(flatten)
    <3> HIDE DEF Body, h
    <3> QED
      BY <2>1
  <2>3. FlattenSeq(s) = flatten[n]
    BY <1>4 DEF FlattenSeq
  <2> HIDE DEF flatten
  <2> DEFINE S == {i \in 0..n : i # 0 => flatten[i] = f[i]}
  <2>4. 0 \in S
    BY <1>0
  <2>5. ASSUME NEW i \in 1..n, i - 1 \in S PROVE i \in S
    <3>1. flatten[i] = IF i = 1 THEN s[i] ELSE flatten[i - 1] \o s[i]
      <4> HIDE DEF n
      <4> QED
        BY <2>2
    <3>2. CASE i = 1
      <4> HIDE DEF n
      <4>1. f[i] = f[i - 1] \o s[i] /\ s[i] \in Seq(T)
        BY <1>0, <1>1
      <4>2. i - 1 = 0 /\ <<>> \o s[i] = s[i] /\ i \in 0..n
        BY <1>0, <3>2, <4>1
      <4> QED
        BY <1>1, <3>1, <3>2, <4>1, <4>2
    <3>3. CASE i # 1
      <4>1. i - 1 # 0 /\ i - 1 \in 0..n /\ i \in 0..n
        BY <1>0, <3>3
      <4>2. flatten[i - 1] = f[i - 1]
        BY <2>5, <4>1
      <4> QED
        BY <1>1, <3>1, <3>3, <4>1, <4>2
    <3> QED
      BY <3>2, <3>3
  <2> HIDE DEF S
  <2>6. \A i \in 0..n : i \in S
    BY <1>0, <2>4, <2>5, FiniteInduction
  <2>7. n \in S
    BY <1>0, <2>6
  <2>8. flatten[n] = f[n]
    BY <1>4, <2>7 DEF S
  <2> QED
    BY <1>2, <2>3, <2>8
<1> QED
  BY <1>3, <1>4

\* The concatenation of two sequences of sequences.
LEMMA FlattenConcat ==
  ASSUME NEW T, NEW s \in Seq(Seq(T)), NEW r \in Seq(Seq(T))
  PROVE  /\ FlattenSeq(s) \in Seq(T)
         /\ FlattenSeq(s \o r) = FlattenSeq(s) \o FlattenSeq(r)
<1>1. PICK f : Flattens(f, s, T)
  BY FlattensExists
<1>2. PICK g : Flattens(g, r, T)
  BY FlattensExists
<1> DEFINE n == Len(s)
           m == Len(r)
           h == [i \in 0..(n + m) |-> IF i <= n THEN f[i] ELSE f[n] \o g[i - n]]
<1>3. /\ n \in Nat /\ m \in Nat
      /\ s \o r \in Seq(Seq(T)) /\ Len(s \o r) = n + m
      /\ \A i \in 1..n : (s \o r)[i] = s[i] /\ s[i] \in Seq(T)
      /\ \A i \in 1..m : (s \o r)[n + i] = r[i] /\ r[i] \in Seq(T)
  BY ConcatProperties
<1>4. /\ f \in [0..n -> Seq(T)] /\ f[0] = <<>> /\ \A i \in 1..n : f[i] = f[i - 1] \o s[i]
      /\ g \in [0..m -> Seq(T)] /\ g[0] = <<>> /\ \A i \in 1..m : g[i] = g[i - 1] \o r[i]
  BY <1>1, <1>2 DEF Flattens
<1> HIDE DEF n, m
<1>0. n \in Nat /\ m \in Nat
  BY <1>3
<1>5. f[n] \in Seq(T)
  BY <1>0, <1>4
<1>6. h \in [0..(n + m) -> Seq(T)]
  <2>1. ASSUME NEW i \in 0..(n + m) PROVE h[i] \in Seq(T)
    <3>1. CASE i <= n
      BY <1>0, <1>4, <3>1
    <3>2. CASE ~(i <= n)
      <4>1. i - n \in 0..m
        BY <1>0, <3>2
      <4>2. g[i - n] \in Seq(T)
        BY <1>4, <4>1
      <4>3. f[n] \o g[i - n] \in Seq(T)
        BY <1>5, <4>2
      <4> QED
        BY <3>2, <4>3
    <3> QED
      BY <3>1, <3>2
  <2> QED
    BY <2>1
<1>7. h[0] = <<>>
  BY <1>0, <1>4
<1>8. ASSUME NEW i \in 1..(n + m) PROVE h[i] = h[i - 1] \o (s \o r)[i]
  <2>1. CASE i <= n
    <3>1. i \in 1..n /\ h[i] = f[i] /\ h[i - 1] = f[i - 1]
      BY <1>0, <2>1
    <3>2. (s \o r)[i] = s[i] /\ f[i] = f[i - 1] \o s[i]
      BY <1>3, <1>4, <3>1
    <3> HIDE DEF h
    <3> QED
      BY <3>1, <3>2
  <2>2. CASE ~(i <= n)
    <3> DEFINE k == i - n
    <3>1. /\ k \in 1..m /\ k - 1 \in 0..m /\ i = n + k /\ (i - 1) - n = k - 1
          /\ i \in 0..(n + m) /\ i - 1 \in 0..(n + m)
      BY <1>0, <2>2
    <3>2. h[i] = f[n] \o g[k]
      BY <2>2, <3>1
    <3>3. h[i - 1] = f[n] \o g[k - 1]
      <4>1. CASE i - 1 <= n
        <5>1. i - 1 = n /\ k - 1 = 0
          BY <1>0, <2>2, <4>1
        <5>2. h[i - 1] = f[n] /\ g[k - 1] = <<>>
          BY <1>4, <3>1, <4>1, <5>1
        <5>3. f[n] \o <<>> = f[n]
          BY <1>5
        <5> HIDE DEF h, k
        <5> QED
          BY <5>2, <5>3
      <4>2. CASE ~(i - 1 <= n)
        BY <3>1, <4>2
      <4> QED
        BY <4>1, <4>2
    <3> HIDE DEF h, k
    <3>4. (s \o r)[i] = r[k] /\ r[k] \in Seq(T)
      BY <1>3, <3>1
    <3>5. g[k] = g[k - 1] \o r[k] /\ g[k - 1] \in Seq(T)
      BY <1>4, <3>1
    <3>6. f[n] \o (g[k - 1] \o r[k]) = (f[n] \o g[k - 1]) \o r[k]
      <4> DEFINE x == f[n]
                 y == g[k - 1]
                 z == r[k]
      <4>1. x \in Seq(T) /\ y \in Seq(T) /\ z \in Seq(T)
        BY <1>5, <3>4, <3>5
      <4> HIDE DEF x, y, z
      <4>2. (x \o y) \o z = x \o (y \o z)
        BY ONLY <4>1, ConcatAssociative, SMTT(30)
      <4> QED
        BY ONLY <4>2 DEF x, y, z
    <3> QED
      BY <3>2, <3>3, <3>4, <3>5, <3>6
  <2> QED
    BY <2>1, <2>2
<1>9. h[n + m] = f[n] \o g[m]
  <2>1. CASE m = 0
    <3>1. h[n + m] = f[n] /\ g[m] = <<>>
      BY <1>0, <1>4, <2>1
    <3>2. f[n] \o <<>> = f[n]
      BY <1>5
    <3> HIDE DEF h
    <3> QED
      BY <3>1, <3>2
  <2>2. CASE m # 0
    <3>1. n + m \in 0..(n + m) /\ ~(n + m <= n) /\ (n + m) - n = m
      BY <1>0, <2>2
    <3> QED
      BY <3>1
  <2> QED
    BY <2>1, <2>2
<1> HIDE DEF h
<1>10. Flattens(h, s \o r, T)
  BY <1>3, <1>6, <1>7, <1>8 DEF Flattens
<1>11. FlattenSeq(s \o r) = h[n + m]
  BY <1>3, <1>10, FlattensSeq
<1>12. FlattenSeq(s) = f[n] /\ FlattenSeq(r) = g[m]
  BY <1>1, <1>2, FlattensSeq DEF n, m
<1> QED
  BY <1>5, <1>9, <1>11, <1>12

\* One sequence.
LEMMA FlattenOne ==
  ASSUME NEW T, NEW x \in Seq(T)
  PROVE  FlattenSeq(<<x>>) = x
<1> DEFINE f == [i \in 0..1 |-> IF i = 0 THEN <<>> ELSE x]
<1>1. f \in [0..1 -> Seq(T)] /\ f[0] = <<>> /\ f[1] = <<>> \o x
  OBVIOUS
<1>2. Flattens(f, <<x>>, T) /\ f[1] = x
  BY <1>1 DEF Flattens
<1> HIDE DEF f
<1>3. <<x>> \in Seq(Seq(T)) /\ Len(<<x>>) = 1
  OBVIOUS
<1> QED
  BY <1>2, <1>3, FlattensSeq

\* Sequences all empty.
LEMMA FlattenBlank ==
  ASSUME NEW T, NEW s, NEW n \in Nat, s = [k \in 1..n |-> <<>>]
  PROVE  s \in Seq(Seq(T)) /\ FlattenSeq(s) = <<>>
<1> DEFINE f == [i \in 0..n |-> <<>>]
<1>1. s \in Seq(Seq(T)) /\ Len(s) = n
  OBVIOUS
<1>2. Flattens(f, s, T) /\ f[n] = <<>>
  BY <1>1 DEF Flattens
<1> HIDE DEF f
<1> QED
  BY <1>1, <1>2, FlattensSeq

-----------------------------------------------------------------------------
(***************************************************************************)
(* The loop that cuts a list of sources into commands.                     *)
(***************************************************************************)

\* p cuts the list `rest' of sources of action a, from among those of ns.
Cuts(p, a, rest, ns) ==
  /\ p \in Seq(Seq(Names))
  /\ Len(p) > 0
  /\ \A k \in 1..Len(p) : p[k] # <<>> /\ (k # Len(p) => Fits(a, p[k]))
  /\ Fits(a, p[Len(p)]) => FlattenSeq(p) = rest
  /\ \/ Fits(a, p[Len(p)])
     \/ RuleOf[a] \notin Piecemeal
     \/ \E j \in 1..Len(ns) : p[Len(p)] = <<ns[j]>>

\* The piece of ns which the loop tries.
Piece(ns, start, chunk) ==
  SubSeq(ns, start + 1, IF start + chunk > Len(ns) THEN Len(ns) ELSE start + chunk)

\* split holds the pieces of ns from `start' on, tried in chunks.
SplitSteps(split, a, ns) ==
  \A start \in 0..Len(ns), chunk \in 1..Len(ns) :
    split[<<start, chunk>>] =
      IF Fits(a, Piece(ns, start, chunk))
      THEN IF start + chunk < Len(ns)
           THEN <<Piece(ns, start, chunk)>> \o split[<<start + chunk, chunk>>]
           ELSE <<Piece(ns, start, chunk)>>
      ELSE IF MayCut(a, chunk) THEN split[<<start, (chunk * 9) \div 10>>]
           ELSE <<Piece(ns, start, chunk)>>

\* A tenth less of more than one is less, and at least one.
LEMMA TenthLess ==
  ASSUME NEW n \in Nat, NEW chunk \in 1..n, chunk > 1
  PROVE  (chunk * 9) \div 10 \in 1..n /\ (chunk * 9) \div 10 < chunk
OBVIOUS

LEMMA SplitStepsExist ==
  ASSUME NEW a, NEW ns \in Seq(Names), ns # <<>>
  PROVE  \E split : SplitSteps(split, a, ns) /\ Split(a, ns) = split[<<0, Len(ns)>>]
<1> DEFINE n == Len(ns)
           D == (0..n) \X (1..n)
           V == Seq(Seq(Names))
           b == n + n
           P(d) == Piece(ns, d[1], d[2])
           On(d) == Fits(a, P(d)) /\ d[1] + d[2] < n
           Cut(d) == ~Fits(a, P(d)) /\ MayCut(a, d[2])
           mu == [d \in D |-> (n - d[1]) + d[2]]
           last == {d \in D : ~On(d) /\ ~Cut(d)}
           final == [d \in D |-> <<P(d)>>]
           next == [d \in D |-> IF On(d) THEN <<d[1] + d[2], d[2]>>
                                ELSE IF Cut(d) THEN <<d[1], (d[2] * 9) \div 10>> ELSE d]
           step == [x \in D \X V |-> IF On(x[1]) THEN <<P(x[1])>> \o x[2] ELSE x[2]]
           Body(g) == [d \in D |-> IF Fits(a, P(d))
                                  THEN IF d[1] + d[2] < n
                                       THEN <<P(d)>> \o g[<<d[1] + d[2], d[2]>>] ELSE <<P(d)>>
                                  ELSE IF MayCut(a, d[2])
                                       THEN g[<<d[1], (d[2] * 9) \div 10>>] ELSE <<P(d)>>]
           split == CHOOSE g : g = Body(g)
<1>1. n \in Nat /\ n > 0 /\ b \in Nat
  OBVIOUS
<1>2. \A d \in D : <<P(d)>> \in V
  <2>1. ASSUME NEW start \in 0..n, NEW chunk \in 1..n PROVE Piece(ns, start, chunk) \in Seq(Names)
    BY SubSeqProperties DEF Piece
  <2>2. \A d \in D : P(d) \in Seq(Names)
    BY <2>1
  <2> HIDE DEF P, D
  <2> QED
    BY <2>2
<1> HIDE DEF n, V, P
<1>3. \A d \in D : On(d) => <<d[1] + d[2], d[2]>> \in D
  BY <1>1
<1>4. \A d \in D : Cut(d) => /\ <<d[1], (d[2] * 9) \div 10>> \in D
                             /\ (d[2] * 9) \div 10 < d[2]
  <2>1. \A d \in D : Cut(d) => d[2] \in 1..n /\ d[2] > 1
    BY DEF MayCut
  <2>2. \A d \in D : Cut(d) => (d[2] * 9) \div 10 \in 1..n /\ (d[2] * 9) \div 10 < d[2]
    <3> HIDE DEF Cut, D
    <3> QED
      BY <1>1, <2>1, TenthLess
  <2> HIDE DEF Cut
  <2> QED
    BY <2>2
<1>5. Recursion(D, V, b, mu, last, final, next, step)
  <2>1. mu \in [D -> 0..b]
    BY <1>1
  <2>2. final \in [D -> V]
    <3> HIDE DEF D
    <3> QED
      BY <1>2
  <2>3. next \in [D -> D]
    <3> HIDE DEF D, On, Cut
    <3> QED
      BY <1>3, <1>4
  <2>4. step \in [D \X V -> V]
    <3>1. ASSUME NEW d \in D, NEW v \in V PROVE <<P(d)>> \o v \in V
      <4> HIDE DEF D
      <4> QED
        BY <1>2 DEF V
    <3> HIDE DEF D, On
    <3> QED
      BY <3>1
  <2>5. ASSUME NEW d \in D, d \notin last PROVE mu[next[d]] < mu[d]
    <3>1. CASE On(d)
      <4>1. next[d] = <<d[1] + d[2], d[2]>> /\ next[d] \in D
        <5> HIDE DEF D, On, Cut
        <5> QED
          BY <1>3, <3>1
      <4>2. mu[next[d]] = (n - (d[1] + d[2])) + d[2] /\ mu[d] = (n - d[1]) + d[2]
        <5> HIDE DEF next, D
        <5> QED
          BY <4>1
      <4> QED
        BY <1>1, <4>2
    <3>2. CASE ~On(d)
      <4>1. Cut(d)
        BY <2>5, <3>2
      <4>2. next[d] = <<d[1], (d[2] * 9) \div 10>> /\ next[d] \in D
        <5> HIDE DEF D, On, Cut
        <5> QED
          BY <1>4, <3>2, <4>1
      <4>3. mu[next[d]] = (n - d[1]) + (d[2] * 9) \div 10 /\ mu[d] = (n - d[1]) + d[2]
        <5> HIDE DEF next, D
        <5> QED
          BY <4>2
      <4>4. (d[2] * 9) \div 10 < d[2]
        <5> HIDE DEF D, Cut
        <5> QED
          BY <1>4, <4>1
      <4> DEFINE c == (d[2] * 9) \div 10
      <4>5. c \in Int /\ d[1] \in Int /\ d[2] \in Int
        OBVIOUS
      <4> HIDE DEF c, next, mu, D
      <4> QED
        BY <1>1, <4>3, <4>4, <4>5 DEF c
    <3> QED
      BY <3>1, <3>2
  <2> HIDE DEF D, mu, last, final, next, step, b
  <2> QED
    BY <1>1, <2>1, <2>2, <2>3, <2>4, <2>5 DEF Recursion
<1>6. PICK g : Solves(g, D, V, last, final, next, step)
  <2> HIDE DEF D, mu, last, final, next, step, b
  <2> QED
    BY <1>5, MeasuredRecursion
<1>7. /\ g \in [D -> V]
      /\ \A d \in D : g[d] = IF d \in last THEN final[d] ELSE step[<<d, g[next[d]]>>]
  <2> HIDE DEF D, mu, last, final, next, step, b
  <2> QED
    BY <1>6 DEF Solves
<1>8. ASSUME NEW d \in D
      PROVE  g[d] = IF On(d) THEN <<P(d)>> \o g[<<d[1] + d[2], d[2]>>]
                    ELSE IF Cut(d) THEN g[<<d[1], (d[2] * 9) \div 10>>] ELSE <<P(d)>>
  <2> HIDE DEF D, On, Cut
  <2>1. next[d] \in D /\ g[next[d]] \in V
    BY <1>3, <1>4, <1>7
  <2>2. step[<<d, g[next[d]]>>] = IF On(d) THEN <<P(d)>> \o g[next[d]] ELSE g[next[d]]
    <3> HIDE DEF next
    <3> QED
      BY <2>1
  <2>3. final[d] = <<P(d)>> /\ (d \in last <=> ~On(d) /\ ~Cut(d))
    OBVIOUS
  <2>4. CASE On(d)
    <3>1. next[d] = <<d[1] + d[2], d[2]>>
      BY <2>4
    <3> HIDE DEF next, step, last, final
    <3> QED
      BY <1>7, <2>2, <2>3, <2>4, <3>1
  <2>5. CASE ~On(d) /\ Cut(d)
    <3>1. next[d] = <<d[1], (d[2] * 9) \div 10>>
      BY <2>5
    <3> HIDE DEF next, step, last, final
    <3> QED
      BY <1>7, <2>2, <2>3, <2>5, <3>1
  <2>6. CASE ~On(d) /\ ~Cut(d)
    <3> HIDE DEF next, step, last, final
    <3> QED
      BY <1>7, <2>3, <2>6
  <2> QED
    BY <2>4, <2>5, <2>6
<1>9. g = Body(g)
  <2>1. g = [d \in D |-> g[d]]
    <3> HIDE DEF D, last, final, next, step
    <3> QED
      BY <1>7
  <2> HIDE DEF D, last, final, next, step, mu
  <2> QED
    BY <1>8, <2>1
<1>10. split = Body(split)
  <2> HIDE DEF Body
  <2> QED
    BY <1>9
<1>11. Split(a, ns) = split[<<0, n>>]
  BY <1>1 DEF Split, Piece, n, P
<1> HIDE DEF split
<1>12. ASSUME NEW start \in 0..n, NEW chunk \in 1..n
       PROVE  split[<<start, chunk>>] =
                IF Fits(a, Piece(ns, start, chunk))
                THEN IF start + chunk < n
                     THEN <<Piece(ns, start, chunk)>> \o split[<<start + chunk, chunk>>]
                     ELSE <<Piece(ns, start, chunk)>>
                ELSE IF MayCut(a, chunk) THEN split[<<start, (chunk * 9) \div 10>>]
                     ELSE <<Piece(ns, start, chunk)>>
  <2> DEFINE d == <<start, chunk>>
  <2>1. d \in D /\ d[1] = start /\ d[2] = chunk
    OBVIOUS
  <2> HIDE DEF d, D
  <2>2. split[d] = IF Fits(a, P(d))
                   THEN IF d[1] + d[2] < n
                        THEN <<P(d)>> \o split[<<d[1] + d[2], d[2]>>] ELSE <<P(d)>>
                   ELSE IF MayCut(a, d[2])
                        THEN split[<<d[1], (d[2] * 9) \div 10>>] ELSE <<P(d)>>
    BY <1>10, <2>1
  <2> QED
    BY <2>1, <2>2 DEF d, P
<1>13. SplitSteps(split, a, ns)
  BY <1>12 DEF SplitSteps, n
<1> QED
  BY <1>11, <1>13 DEF n

\* Each piece tried is some of the sources left, in order.
LEMMA PieceProperties ==
  ASSUME NEW ns \in Seq(Names), NEW start \in Nat, start < Len(ns), NEW chunk \in 1..Len(ns)
  PROVE  /\ Piece(ns, start, chunk) \in Seq(Names) \ {<<>>}
         /\ chunk = 1 => Piece(ns, start, chunk) = <<ns[start + 1]>>
         /\ ~(start + chunk < Len(ns)) => Piece(ns, start, chunk) = SubSeq(ns, start + 1, Len(ns))
         /\ start + chunk < Len(ns) =>
              Piece(ns, start, chunk) \o SubSeq(ns, (start + chunk) + 1, Len(ns))
                = SubSeq(ns, start + 1, Len(ns))
<1> DEFINE n == Len(ns)
           e == IF start + chunk > n THEN n ELSE start + chunk
           p == Piece(ns, start, chunk)
<1>1. n \in Nat /\ chunk \in Nat /\ start < n /\ chunk > 0
  OBVIOUS
<1>2. start + 1 \in 1..(n + 1) /\ e \in start..n /\ e >= start + 1
  BY <1>1
<1>3. /\ p \in Seq(Names)
      /\ Len(p) = IF start + 1 <= e THEN (e - (start + 1)) + 1 ELSE 0
      /\ \A i \in 1..((e - (start + 1)) + 1) : p[i] = ns[((start + 1) + i) - 1]
  <2>1. \A i \in (start + 1)..e : ns[i] \in Names
    BY <1>2
  <2> HIDE DEF e, n
  <2> QED
    BY <1>1, <1>2, <2>1, SubSeqProperties DEF Piece, e, n
<1>4. p # <<>>
  <2>1. Len(p) > 0
    BY <1>1, <1>2, <1>3
  <2> QED
    BY <2>1
<1>5. ASSUME chunk = 1 PROVE p = <<ns[start + 1]>>
  <2>1. e = start + 1
    BY <1>1, <1>5
  <2>2. Len(p) = 1 /\ p[1] = ns[start + 1]
    BY <1>1, <1>3, <2>1
  <2> QED
    BY <1>3, <2>2
<1>6. ~(start + chunk < n) => p = SubSeq(ns, start + 1, n)
  BY <1>1 DEF Piece
<1>7. ASSUME start + chunk < n
      PROVE  p \o SubSeq(ns, (start + chunk) + 1, n) = SubSeq(ns, start + 1, n)
  <2>1. p = SubSeq(ns, start + 1, start + chunk)
    BY <1>1, <1>7 DEF Piece
  <2>2. /\ start + 1 \in 1..(Len(ns) + 1) /\ start + chunk \in ((start + 1) - 1)..Len(ns)
        /\ n \in (start + chunk)..Len(ns)
    BY <1>1, <1>7
  <2> HIDE DEF p, n, e
  <2> QED
    BY <2>1, <2>2, ConcatAdjacentSubSeq
<1> QED
  BY <1>3, <1>4, <1>5, <1>6, <1>7

\* One piece, the last.
LEMMA CutsOne ==
  ASSUME NEW a, NEW ns, NEW x \in Seq(Names), x # <<>>, NEW rest,
         Fits(a, x) => x = rest,
         Fits(a, x) \/ RuleOf[a] \notin Piecemeal \/ \E j \in 1..Len(ns) : x = <<ns[j]>>
  PROVE  Cuts(<<x>>, a, rest, ns)
<1> DEFINE p == <<x>>
<1>1. p \in Seq(Seq(Names)) /\ Len(p) = 1 /\ p[1] = x
  OBVIOUS
<1>2. FlattenSeq(p) = x
  BY FlattenOne
<1> HIDE DEF p
<1>3. \A k \in 1..Len(p) : p[k] # <<>> /\ (k # Len(p) => Fits(a, p[k]))
  BY <1>1
<1>4. Cuts(p, a, rest, ns)
  BY <1>1, <1>2, <1>3 DEF Cuts
<1> QED
  BY <1>4 DEF p

\* A sequence put after one of a single element.
LEMMA OneBefore ==
  ASSUME NEW T, NEW one \in Seq(T), Len(one) = 1, NEW q \in Seq(T)
  PROVE  /\ one \o q \in Seq(T) /\ Len(one \o q) = 1 + Len(q)
         /\ (one \o q)[1] = one[1]
         /\ \A k \in 2..(1 + Len(q)) : (one \o q)[k] = q[k - 1]
<1> DEFINE p == one \o q
<1>1. /\ p \in Seq(T)
      /\ Len(p) = Len(one) + Len(q)
      /\ \A i \in 1..(Len(one) + Len(q)) : p[i] = IF i <= Len(one) THEN one[i] ELSE q[i - Len(one)]
  BY ConcatProperties
<1>2. Len(q) \in Nat
  OBVIOUS
<1> HIDE DEF p
<1>3. /\ p \in Seq(T) /\ Len(p) = 1 + Len(q)
      /\ p[1] = one[1]
      /\ \A k \in 2..(1 + Len(q)) : p[k] = q[k - 1]
  BY <1>1, <1>2
<1> QED
  BY <1>3 DEF p

\* One piece that fits, and those after it.
LEMMA CutsMore ==
  ASSUME NEW a, NEW ns, NEW x \in Seq(Names), x # <<>>, Fits(a, x),
         NEW rest, NEW q, Cuts(q, a, rest, ns)
  PROVE  Cuts(<<x>> \o q, a, x \o rest, ns)
<1> DEFINE one == <<x>>
           p == one \o q
<1>1. one \in Seq(Seq(Names)) /\ Len(one) = 1 /\ one[1] = x
  OBVIOUS
<1>2. q \in Seq(Seq(Names)) /\ Len(q) \in Nat /\ Len(q) > 0
  BY DEF Cuts
<1> HIDE DEF one
<1>3. /\ p \in Seq(Seq(Names)) /\ Len(p) = 1 + Len(q)
      /\ p[1] = x
      /\ \A k \in 2..(1 + Len(q)) : p[k] = q[k - 1]
  <2> DEFINE T == Seq(Names)
  <2>1. one \in Seq(T) /\ q \in Seq(T) /\ Len(one) = 1
    BY <1>1, <1>2
  <2> HIDE DEF T
  <2>2. /\ p \in Seq(T) /\ Len(p) = 1 + Len(q) /\ p[1] = one[1]
        /\ \A k \in 2..(1 + Len(q)) : p[k] = q[k - 1]
    BY ONLY <2>1, OneBefore DEF p
  <2> QED
    BY <1>1, <2>2 DEF T
<1>4. FlattenSeq(p) = x \o FlattenSeq(q)
  <2>1. FlattenSeq(one) = x
    BY FlattenOne DEF one
  <2>2. FlattenSeq(p) = FlattenSeq(one) \o FlattenSeq(q)
    BY <1>1, <1>2, FlattenConcat
  <2> QED
    BY <2>1, <2>2
<1>5. p[Len(p)] = q[Len(q)]
  BY <1>2, <1>3
<1>6. ASSUME NEW k \in 1..Len(p) PROVE p[k] # <<>> /\ (k # Len(p) => Fits(a, p[k]))
  <2>1. CASE k = 1
    BY <1>3, <2>1
  <2>2. CASE k # 1
    <3>1. k \in 2..(1 + Len(q)) /\ k - 1 \in 1..Len(q) /\ (k # Len(p) => k - 1 # Len(q))
      BY <1>2, <1>3, <2>2
    <3>2. q[k - 1] # <<>> /\ (k - 1 # Len(q) => Fits(a, q[k - 1]))
      BY <3>1 DEF Cuts
    <3> HIDE DEF p
    <3> QED
      BY <1>3, <3>1, <3>2
  <2> QED
    BY <2>1, <2>2
<1> HIDE DEF p
<1>7. Len(p) > 0
  BY <1>2, <1>3
<1>8. Cuts(p, a, x \o rest, ns)
  BY <1>2, <1>3, <1>4, <1>5, <1>6, <1>7 DEF Cuts
<1> QED
  BY <1>8 DEF p, one

\* The pieces of the sources from any place on.
LEMMA SplitCuts ==
  ASSUME NEW a, NEW ns \in Seq(Names), ns # <<>>
  PROVE  /\ Cuts(Split(a, ns), a, ns, ns)
         /\ RuleOf[a] \notin Piecemeal => Split(a, ns) = <<ns>>
<1> DEFINE n == Len(ns)
<1>1. PICK split : SplitSteps(split, a, ns) /\ Split(a, ns) = split[<<0, n>>]
  BY SplitStepsExist
<1>2. n \in Nat /\ n > 0
  OBVIOUS
<1> DEFINE After(start) == SubSeq(ns, start + 1, n)
           Good(start, chunk) == Cuts(split[<<start, chunk>>], a, After(start), ns)
           S == {k \in 0..(n + n) : \A start \in 0..(n - 1), chunk \in 1..n :
                                      (n - start) + chunk <= k => Good(start, chunk)}
<1>3. ASSUME NEW start \in 0..(n - 1), NEW chunk \in 1..n
      PROVE  /\ start \in 0..n
             /\ split[<<start, chunk>>] =
                  IF Fits(a, Piece(ns, start, chunk))
                  THEN IF start + chunk < n
                       THEN <<Piece(ns, start, chunk)>> \o split[<<start + chunk, chunk>>]
                       ELSE <<Piece(ns, start, chunk)>>
                  ELSE IF MayCut(a, chunk) THEN split[<<start, (chunk * 9) \div 10>>]
                       ELSE <<Piece(ns, start, chunk)>>
  <2>1. start \in 0..n
    BY <1>2
  <2> QED
    BY <1>1, <2>1 DEF SplitSteps
<1> HIDE DEF n
<1>4. 0 \in S
  BY <1>2
<1>5. ASSUME NEW k \in 1..(n + n), k - 1 \in S PROVE k \in S
  <2>1. SUFFICES ASSUME NEW start \in 0..(n - 1), NEW chunk \in 1..n, (n - start) + chunk <= k
                 PROVE  Good(start, chunk)
    BY <1>2
  <2> DEFINE x == Piece(ns, start, chunk)
  <2>2. /\ start \in Nat /\ start < n /\ chunk \in Nat /\ chunk > 0 /\ k \in Nat
    BY <1>2
  <2>3. /\ x \in Seq(Names) /\ x # <<>>
        /\ chunk = 1 => x = <<ns[start + 1]>>
        /\ ~(start + chunk < n) => x = After(start)
        /\ start + chunk < n => x \o After(start + chunk) = After(start)
    BY <2>2, PieceProperties DEF n
  <2> HIDE DEF x, After, S
  <2>4. CASE Fits(a, x) /\ start + chunk < n
    <3>1. split[<<start, chunk>>] = <<x>> \o split[<<start + chunk, chunk>>]
      BY <1>3, <2>4 DEF x
    <3>2. start + chunk \in 0..(n - 1) /\ (n - (start + chunk)) + chunk <= k - 1
      BY <1>2, <2>1, <2>2, <2>4
    <3>3. Good(start + chunk, chunk)
      <4> HIDE DEF Good
      <4> QED
        BY <1>5, <3>2 DEF S
    <3> QED
      BY <2>3, <2>4, <3>1, <3>3, CutsMore
  <2>5. CASE Fits(a, x) /\ ~(start + chunk < n)
    <3>1. split[<<start, chunk>>] = <<x>>
      BY <1>3, <2>5 DEF x
    <3> QED
      BY <2>3, <2>5, <3>1, CutsOne
  <2>6. CASE ~Fits(a, x) /\ MayCut(a, chunk)
    <3> DEFINE c == (chunk * 9) \div 10
    <3>1. split[<<start, chunk>>] = split[<<start, c>>]
      BY <1>3, <2>6 DEF x
    <3>2. c \in 1..n /\ c < chunk
      BY <1>2, <2>6, TenthLess DEF MayCut
    <3> HIDE DEF c
    <3>3. (n - start) + c <= k - 1
      BY <1>2, <2>1, <2>2, <3>2
    <3>4. Good(start, c)
      <4> HIDE DEF Good
      <4> QED
        BY <1>5, <3>2, <3>3 DEF S
    <3> QED
      BY <3>1, <3>4
  <2>7. CASE ~Fits(a, x) /\ ~MayCut(a, chunk)
    <3>1. split[<<start, chunk>>] = <<x>>
      BY <1>3, <2>7 DEF x
    <3>2. RuleOf[a] \notin Piecemeal \/ chunk = 1
      BY <2>2, <2>7 DEF MayCut
    <3>3. start + 1 \in 1..Len(ns)
      BY <1>2, <2>2 DEF n
    <3>4. RuleOf[a] \notin Piecemeal \/ \E j \in 1..Len(ns) : x = <<ns[j]>>
      BY <2>3, <3>2, <3>3
    <3> QED
      BY <2>3, <2>7, <3>1, <3>4, CutsOne
  <2> QED
    BY <2>4, <2>5, <2>6, <2>7
<1> HIDE DEF S
<1>6. \A k \in 0..(n + n) : k \in S
  <2>1. n + n \in Nat
    BY <1>2
  <2> QED
    BY <1>4, <1>5, <2>1, FiniteInduction
<1>7. Good(0, n)
  <2>1. n + n \in 0..(n + n) /\ 0 \in 0..(n - 1) /\ n \in 1..n /\ (n - 0) + n <= n + n
    BY <1>2
  <2> HIDE DEF Good
  <2> QED
    BY <1>6, <2>1 DEF S
<1>8. After(0) = ns
  <2>1. SubSeq(ns, 1, Len(ns)) = ns
    BY SubSeqFull
  <2> QED
    BY <2>1 DEF n
<1>9. ASSUME RuleOf[a] \notin Piecemeal PROVE split[<<0, n>>] = <<ns>>
  <2>1. 0 \in 0..(n - 1) /\ n \in 1..n /\ ~(0 + n < n) /\ 0 \in Nat /\ 0 < n
    BY <1>2
  <2>2. Piece(ns, 0, n) = ns
    BY <1>8, <2>1, PieceProperties DEF n
  <2>3. ~MayCut(a, n)
    BY <1>9 DEF MayCut
  <2> QED
    BY <1>3, <2>1, <2>2, <2>3
<1> QED
  BY <1>1, <1>7, <1>8, <1>9

-----------------------------------------------------------------------------
(***************************************************************************)
(* The sources of a group of actions, and the actions of a group.          *)
(***************************************************************************)

\* The names of the sources of b which the rule wants.
NamesOf(b, rule, fresh) ==
  {BoundName[x] : x \in {y \in ToSet(SourcesOf[b]) : ~Skipped(rule, y, fresh)}}

\* The names of the sources of a group are those of its actions.
LEMMA GatheredNames ==
  ASSUME NEW group \in Seq(Actions), NEW rule, NEW fresh
  PROVE  LET r == Gathered(group, rule, fresh)
         IN  /\ r \in Seq(Names)
             /\ ToSet(r) = UNION {NamesOf(group[k], rule, fresh) : k \in 1..Len(group)}
             /\ rule \in Together => IsInjective(r)
             /\ Len(group) = 1 => r = Make1List(<<>>, SourcesOf[group[1]], rule, fresh)
<1> DEFINE n == Len(group)
           V == Seq(Names)
           none == <<>>
           r == Gathered(group, rule, fresh)
           Next(k, done) == Make1List(done, SourcesOf[group[k]], rule, fresh)
           step == [x \in (1..n) \X V |-> Next(x[1], x[2])]
           Body(g) == [k \in 0..n |-> IF k = 0 THEN none ELSE Next(k, g[k - 1])]
           list == CHOOSE g : g = Body(g)
           Upto(k) == UNION {NamesOf(group[j], rule, fresh) : j \in 1..k}
<1>1. /\ n \in Nat /\ none \in V /\ ToSet(none) = {} /\ IsInjective(none)
      /\ \A k \in 1..n : group[k] \in Actions /\ SourcesOf[group[k]] \in Seq(Targets)
  BY Make1CmdsAssumption DEF ToSet, IsInjective
<1>2. ASSUME NEW k \in 1..n, NEW done \in V
      PROVE  /\ Next(k, done) \in V
             /\ ToSet(Next(k, done)) = ToSet(done) \cup NamesOf(group[k], rule, fresh)
             /\ rule \in Together /\ IsInjective(done) => IsInjective(Next(k, done))
  BY <1>1, Make1ListAdds DEF NamesOf
<1> HIDE DEF n, V, none, Next
<1>3. step \in [(1..n) \X V -> V]
  BY <1>2
<1>4. PICK g : Follows(g, n, V, none, step)
  <2> HIDE DEF step
  <2>1. Steps(n, V, none, step)
    BY <1>1, <1>3 DEF Steps
  <2> QED
    BY <2>1, PrimitiveRecursion
<1>5. g = Body(g)
  <2>1. /\ g \in [0..n -> V]
        /\ g = [k \in 0..n |-> IF k = 0 THEN none ELSE step[<<k, g[k - 1]>>]]
    <3> HIDE DEF step
    <3> QED
      BY <1>4 DEF Follows
  <2>2. ASSUME NEW k \in 1..n PROVE step[<<k, g[k - 1]>>] = Next(k, g[k - 1])
    <3>1. k - 1 \in 0..n
      BY <1>1
    <3>2. g[k - 1] \in V
      <4> HIDE DEF step
      <4> QED
        BY <2>1, <3>1
    <3> QED
      BY <3>2
  <2>3. ASSUME NEW k \in 0..n PROVE g[k] = IF k = 0 THEN none ELSE Next(k, g[k - 1])
    <3>1. k # 0 => k \in 1..n
      BY <1>1
    <3> HIDE DEF step
    <3> QED
      BY <2>1, <2>2, <3>1
  <2>4. g = [k \in 0..n |-> g[k]]
    <3> HIDE DEF step
    <3> QED
      BY <2>1
  <2> QED
    BY <2>3, <2>4
<1>6. list = Body(list)
  <2> HIDE DEF Body
  <2> QED
    BY <1>5
<1>7. r = list[n]
  BY DEF Gathered, n, Next, none
<1> HIDE DEF list, r
<1>8. list[0] = none /\ \A k \in 1..n : list[k] = Next(k, list[k - 1])
  BY <1>1, <1>6
<1> DEFINE S == {k \in 0..n : /\ list[k] \in V
                              /\ ToSet(list[k]) = Upto(k)
                              /\ rule \in Together => IsInjective(list[k])}
<1>9. 0 \in S
  <2>1. Upto(0) = {}
    OBVIOUS
  <2>2. list[0] \in V /\ ToSet(list[0]) = {} /\ IsInjective(list[0])
    BY <1>1, <1>8
  <2>3. 0 \in 0..n
    BY <1>1
  <2> HIDE DEF Upto
  <2> QED
    BY <2>1, <2>2, <2>3
<1>10. ASSUME NEW k \in 1..n, k - 1 \in S PROVE k \in S
  <2>1. Upto(k) = Upto(k - 1) \cup NamesOf(group[k], rule, fresh)
    <3>1. 1..k = (1..(k - 1)) \cup {k}
      BY <1>1
    <3> QED
      BY <3>1
  <2>2. k \in 0..n /\ list[k] = Next(k, list[k - 1])
    BY <1>1, <1>8
  <2> HIDE DEF Upto
  <2>3. /\ list[k - 1] \in V /\ ToSet(list[k - 1]) = Upto(k - 1)
        /\ rule \in Together => IsInjective(list[k - 1])
    BY <1>10
  <2> QED
    BY <1>2, <2>1, <2>2, <2>3
<1> HIDE DEF S
<1>11. \A k \in 0..n : k \in S
  BY <1>1, <1>9, <1>10, FiniteInduction
<1>12. n \in S
  BY <1>1, <1>11
<1>13. /\ r \in V /\ ToSet(r) = Upto(n)
       /\ rule \in Together => IsInjective(r)
  <2> HIDE DEF Upto
  <2> QED
    BY <1>7, <1>12 DEF S
<1>14. ASSUME n = 1 PROVE r = Make1List(<<>>, SourcesOf[group[1]], rule, fresh)
  <2>1. 1 \in 1..n /\ 1 - 1 = 0
    BY <1>14
  <2>2. list[1] = Next(1, list[1 - 1])
    BY <1>8, <2>1
  <2> QED
    BY <1>7, <1>8, <1>14, <2>1, <2>2 DEF Next, none
<1> QED
  BY <1>13, <1>14 DEF r, n, V

\* The actions merged into the i-th, whose rule is TOGETHER.
LEMMA MergedActions ==
  ASSUME NEW chain \in Seq(Actions), NEW i \in 1..Len(chain), NEW running
  PROVE  LET m == Merged(chain, i, running)
         IN  /\ m \in Seq(Actions)
             /\ RuleOf[chain[i]] \notin Together => m = <<>>
             /\ RuleOf[chain[i]] \in Together =>
                  ToSet(m) = {chain[k] : k \in {j \in (i + 1)..Len(chain) :
                                               /\ RuleOf[chain[j]] = RuleOf[chain[i]]
                                               /\ chain[j] \notin running \cup {chain[i]}}}
<1> DEFINE n == Len(chain) - i
           a == chain[i]
           V == Seq(Actions)
           none == <<>>
           m == Merged(chain, i, running)
           Next(k, done) == IF /\ RuleOf[chain[i + k]] = RuleOf[a]
                               /\ chain[i + k] \notin running \cup NowRunning(a, done)
                            THEN Append(done, chain[i + k]) ELSE done
           step == [x \in (1..n) \X V |-> Next(x[1], x[2])]
           Body(g) == [k \in 0..n |-> IF k = 0 THEN none ELSE Next(k, g[k - 1])]
           later == CHOOSE g : g = Body(g)
           Takes(k) == /\ RuleOf[chain[i + k]] = RuleOf[a]
                       /\ chain[i + k] \notin running \cup {a}
           Upto(k) == {chain[i + j] : j \in {h \in 1..k : Takes(h)}}
<1>0. n \in Nat /\ i \in Nat /\ Len(chain) \in Nat /\ Len(chain) = i + n
  OBVIOUS
<1>1. /\ n \in Nat /\ none \in V /\ ToSet(none) = {} /\ i \in Nat
      /\ \A k \in 1..n : chain[i + k] \in Actions
  <2>1. none \in V /\ ToSet(none) = {}
    BY DEF ToSet
  <2>2. ASSUME NEW k \in 1..n PROVE chain[i + k] \in Actions
    <3>1. i + k \in 1..Len(chain)
      BY <1>0
    <3> QED
      BY <3>1
  <2> QED
    BY <1>0, <2>1, <2>2
<1>2. ASSUME NEW k \in 1..n, NEW done \in V
      PROVE  /\ Next(k, done) \in V
             /\ ToSet(Next(k, done)) = IF Takes(k) THEN ToSet(done) \cup {chain[i + k]} ELSE ToSet(done)
  <2>1. ToSet(Append(done, chain[i + k])) = ToSet(done) \cup {chain[i + k]}
    BY AppendSet
  <2>2. chain[i + k] \in Actions
    BY <1>1
  <2> DEFINE b == chain[i + k]
  <2>3. b \notin running \cup NowRunning(a, done) <=> b \notin running \cup {a} /\ b \notin ToSet(done)
    BY DEF NowRunning
  <2>4. Append(done, b) \in V
    BY <2>2
  <2> HIDE DEF n, a, V, b
  <2>5. CASE Takes(k) /\ b \notin ToSet(done)
    <3>1. Next(k, done) = Append(done, b)
      BY <2>3, <2>5 DEF b
    <3> QED
      BY <2>1, <2>4, <2>5, <3>1 DEF b
  <2>6. CASE ~(Takes(k) /\ b \notin ToSet(done))
    <3>1. Next(k, done) = done
      BY <2>3, <2>6 DEF b
    <3> QED
      BY <2>6, <3>1 DEF b
  <2> QED
    BY <2>5, <2>6
<1> HIDE DEF n, V, none, Next, a
<1>3. step \in [(1..n) \X V -> V]
  BY <1>2
<1>4. PICK g : Follows(g, n, V, none, step)
  <2> HIDE DEF step
  <2>1. Steps(n, V, none, step)
    BY <1>1, <1>3 DEF Steps
  <2> QED
    BY <2>1, PrimitiveRecursion
<1>5. g = Body(g)
  <2>1. /\ g \in [0..n -> V]
        /\ g = [k \in 0..n |-> IF k = 0 THEN none ELSE step[<<k, g[k - 1]>>]]
    <3> HIDE DEF step
    <3> QED
      BY <1>4 DEF Follows
  <2>2. ASSUME NEW k \in 1..n PROVE step[<<k, g[k - 1]>>] = Next(k, g[k - 1])
    <3>1. k - 1 \in 0..n
      BY <1>1
    <3>2. g[k - 1] \in V
      <4> HIDE DEF step
      <4> QED
        BY <2>1, <3>1
    <3> QED
      BY <3>2
  <2>3. ASSUME NEW k \in 0..n PROVE g[k] = IF k = 0 THEN none ELSE Next(k, g[k - 1])
    <3>1. k # 0 => k \in 1..n
      BY <1>1
    <3> HIDE DEF step
    <3> QED
      BY <2>1, <2>2, <3>1
  <2>4. g = [k \in 0..n |-> g[k]]
    <3> HIDE DEF step
    <3> QED
      BY <2>1
  <2> QED
    BY <2>3, <2>4
<1>6. later = Body(later)
  <2> HIDE DEF Body
  <2> QED
    BY <1>5
<1>7. m = IF RuleOf[a] \in Together THEN later[n] ELSE <<>>
  BY DEF Merged, n, Next, none, a
<1> HIDE DEF later, m
<1>8. later[0] = none /\ \A k \in 1..n : later[k] = Next(k, later[k - 1])
  BY <1>1, <1>6
<1> DEFINE S == {k \in 0..n : later[k] \in V /\ ToSet(later[k]) = Upto(k)}
<1>9. 0 \in S
  <2>1. Upto(0) = {}
    OBVIOUS
  <2>2. later[0] \in V /\ ToSet(later[0]) = {}
    BY <1>1, <1>8
  <2>3. 0 \in 0..n
    BY <1>1
  <2> HIDE DEF Upto
  <2> QED
    BY <2>1, <2>2, <2>3
<1>10. ASSUME NEW k \in 1..n, k - 1 \in S PROVE k \in S
  <2>1. Upto(k) = IF Takes(k) THEN Upto(k - 1) \cup {chain[i + k]} ELSE Upto(k - 1)
    <3>1. 1..k = (1..(k - 1)) \cup {k}
      BY <1>1
    <3>2. {h \in 1..k : Takes(h)} = IF Takes(k) THEN {h \in 1..(k - 1) : Takes(h)} \cup {k}
                                    ELSE {h \in 1..(k - 1) : Takes(h)}
      <4> HIDE DEF Takes
      <4> QED
        BY <3>1
    <3> HIDE DEF Takes
    <3> QED
      BY <3>2
  <2>2. k \in 0..n /\ later[k] = Next(k, later[k - 1])
    BY <1>1, <1>8
  <2> HIDE DEF Upto, Takes
  <2>3. later[k - 1] \in V /\ ToSet(later[k - 1]) = Upto(k - 1)
    BY <1>10
  <2> QED
    BY <1>2, <2>1, <2>2, <2>3
<1> HIDE DEF S
<1>11. \A k \in 0..n : k \in S
  BY <1>1, <1>9, <1>10, FiniteInduction
<1>12. n \in S
  BY <1>1, <1>11
<1>13. later[n] \in V /\ ToSet(later[n]) = Upto(n)
  <2> HIDE DEF Upto
  <2> QED
    BY <1>12 DEF S
<1>14. Upto(n) = {chain[k] : k \in {j \in (i + 1)..Len(chain) : /\ RuleOf[chain[j]] = RuleOf[a]
                                                          /\ chain[j] \notin running \cup {a}}}
  <2> DEFINE J == {j \in (i + 1)..Len(chain) : /\ RuleOf[chain[j]] = RuleOf[a]
                                            /\ chain[j] \notin running \cup {a}}
  <2>1. \A h \in 1..n : i + h \in (i + 1)..Len(chain)
    BY <1>0
  <2>2. \A j \in (i + 1)..Len(chain) : j - i \in 1..n /\ i + (j - i) = j
    BY <1>0
  <2>3. ASSUME NEW x \in Upto(n) PROVE \E k \in J : x = chain[k]
    <3>1. PICK h \in 1..n : Takes(h) /\ x = chain[i + h]
      OBVIOUS
    <3>2. i + h \in J
      BY <2>1, <3>1
    <3> HIDE DEF J
    <3> QED
      BY <3>1, <3>2
  <2>4. ASSUME NEW k \in J PROVE chain[k] \in Upto(n)
    <3>1. k - i \in 1..n /\ i + (k - i) = k
      BY <2>2
    <3>2. Takes(k - i)
      BY <3>1
    <3>3. chain[i + (k - i)] \in Upto(n)
      BY <3>1, <3>2
    <3> HIDE DEF Upto, J
    <3> QED
      BY <3>1, <3>3
  <2> HIDE DEF Upto, J
  <2>5. Upto(n) = {chain[k] : k \in J}
    BY <2>3, <2>4
  <2> QED
    BY <2>5 DEF J
<1> HIDE DEF Upto
<1> QED
  BY <1>1, <1>7, <1>13, <1>14 DEF m, a, V, none

-----------------------------------------------------------------------------
(***************************************************************************)
(* The rounds of make1cmds() for the target asked for.                     *)
(***************************************************************************)

Leaders == Starting \ Led

\* The actions with their `running' flag set after m rounds.
Covered(m) == busy \cup {Chain[k] : k \in UNION {Leads(j) : j \in Starting \cap (1..m)}}

\* The sources of the commands of the i-th action.
SourcesFor(i) ==
  Gathered(<<Chain[i]>> \o Merged(Chain, i, Covered(i - 1)), RuleOf[Chain[i]], new)

LEMMA ChainType ==
  ASSUME target \in Targets
  PROVE  /\ Chain \in Seq(Actions) /\ Len(Chain) \in Nat /\ DOMAIN Chain = 1..Len(Chain)
         /\ \A i \in 1..Len(Chain) : Chain[i] \in Actions /\ i \in Nat
         /\ Starting \subseteq 1..Len(Chain)
<1>1. Chain \in Seq(Actions)
  BY Make1CmdsAssumption DEF Chain
<1> QED
  BY <1>1 DEF Starting

\* j leads k.
LEMMA LeadsIs ==
  ASSUME target \in Targets, NEW j, NEW k
  PROVE  k \in Leads(j) <=> /\ k \in Starting
                            /\ \/ k = j
                               \/ /\ k > j /\ RuleOf[Chain[j]] \in Together
                                  /\ RuleOf[Chain[k]] = RuleOf[Chain[j]]
BY DEF Leads

LEMMA CoveredIs ==
  ASSUME NEW m, NEW x
  PROVE  x \in Covered(m) <=>
           x \in busy \/ \E j \in Starting : j \in 1..m /\ \E k \in Leads(j) : x = Chain[k]
BY DEF Covered

\* An action that is running leads no other.
LEMMA CoveredStays ==
  ASSUME target \in Targets, NEW i \in 1..Len(Chain), Chain[i] \in Covered(i - 1)
  PROVE  Covered(i) = Covered(i - 1)
<1>1. i \in Nat /\ 1..(i - 1) \subseteq 1..i
  BY ChainType
<1>2. ASSUME NEW x \in Covered(i - 1) PROVE x \in Covered(i)
  BY <1>1, <1>2, CoveredIs
<1>3. ASSUME NEW x \in Covered(i) PROVE x \in Covered(i - 1)
  <2>1. CASE x \in busy
    BY <2>1, CoveredIs
  <2>2. CASE x \notin busy
    <3>1. PICK j \in Starting : j \in 1..i /\ \E k \in Leads(j) : x = Chain[k]
      BY <1>3, <2>2, CoveredIs
    <3>2. CASE j # i
      <4>1. j \in 1..(i - 1)
        BY <1>1, <3>1, <3>2
      <4> QED
        BY <3>1, <4>1, CoveredIs
    <3>3. CASE j = i
      <4>1. PICK k \in Leads(i) : x = Chain[k]
        BY <3>1, <3>3
      <4>2. i \in Starting /\ Chain[i] \notin busy
        BY <3>1, <3>3 DEF Starting
      <4>3. PICK h \in Starting : h \in 1..(i - 1) /\ \E l \in Leads(h) : Chain[i] = Chain[l]
        BY <4>2, CoveredIs
      <4>4. PICK l \in Leads(h) : Chain[i] = Chain[l]
        BY <4>3
      <4>5. CASE k = i
        BY <4>1, <4>3, <4>5, CoveredIs
      <4>6. CASE k # i
        <5>1. /\ k \in Starting /\ k > i /\ RuleOf[Chain[i]] \in Together
              /\ RuleOf[Chain[k]] = RuleOf[Chain[i]]
          BY <4>1, <4>6, LeadsIs
        <5>2. RuleOf[Chain[l]] = RuleOf[Chain[h]]
          BY LeadsIs
        <5>3. k > h
          <6>1. h \in Nat /\ k \in Nat /\ h < i
            BY <1>1, <4>3, <5>1, ChainType
          <6> QED
            BY <1>1, <5>1, <6>1
        <5>4. k \in Leads(h)
          BY <4>4, <5>1, <5>2, <5>3, LeadsIs
        <5> QED
          BY <4>1, <4>3, <5>4, CoveredIs
      <4> QED
        BY <4>5, <4>6
    <3> QED
      BY <3>2, <3>3
  <2> QED
    BY <2>1, <2>2
<1> QED
  BY <1>2, <1>3

\* An action that is not running starts, and is not led.
LEMMA NotCovered ==
  ASSUME target \in Targets, NEW i \in 1..Len(Chain), Chain[i] \notin Covered(i - 1)
  PROVE  i \in Leaders
<1>1. i \in Starting
  BY ChainType, CoveredIs DEF Starting
<1>2. ASSUME NEW j \in Starting, j # i, i \in Leads(j) PROVE FALSE
  <2>1. i > j
    BY <1>2, LeadsIs
  <2>2. j \in Nat /\ i \in Nat /\ j \in 1..Len(Chain)
    BY ChainType
  <2>3. j \in 1..(i - 1)
    BY <2>1, <2>2
  <2> QED
    BY <1>2, <2>3, CoveredIs
<1> QED
  BY <1>1, <1>2 DEF Leaders, Led

\* A leader whose rule is TOGETHER finds its action, and those of the
\* others it leads, not running.
LEMMA LeaderNotCovered ==
  ASSUME target \in Targets, NEW i \in Leaders, RuleOf[Chain[i]] \in Together,
         NEW k \in Leads(i)
  PROVE  Chain[k] \notin Covered(i - 1)
<1>1. i \in Starting /\ k \in Starting /\ RuleOf[Chain[k]] = RuleOf[Chain[i]]
  BY LeadsIs DEF Leaders
<1>2. i \in Nat /\ i \in 1..Len(Chain)
  BY <1>1, ChainType
<1>3. SUFFICES ASSUME Chain[k] \in Covered(i - 1) PROVE FALSE
  OBVIOUS
<1>4. Chain[k] \notin busy
  BY <1>1 DEF Starting
<1>5. PICK j \in Starting : j \in 1..(i - 1) /\ \E l \in Leads(j) : Chain[k] = Chain[l]
  BY <1>3, <1>4, CoveredIs
<1>6. RuleOf[Chain[j]] = RuleOf[Chain[i]]
  <2>1. PICK l \in Leads(j) : Chain[k] = Chain[l]
    BY <1>5
  <2>2. RuleOf[Chain[l]] = RuleOf[Chain[j]]
    BY LeadsIs
  <2> QED
    BY <1>1, <2>1, <2>2
<1>7. i > j /\ i # j
  <2>1. j \in Nat
    BY <1>5, ChainType
  <2> QED
    BY <1>2, <1>5, <2>1
<1>8. i \in Leads(j)
  BY <1>1, <1>6, <1>7, LeadsIs
<1> QED
  BY <1>1, <1>7, <1>8 DEF Leaders, Led

\* The actions a leader leads are its own and those merged into it.
LEMMA LedAreMerged ==
  ASSUME target \in Targets, NEW i \in Leaders
  PROVE  LET m == Merged(Chain, i, Covered(i - 1))
         IN  /\ m \in Seq(Actions)
             /\ {Chain[k] : k \in Leads(i)} = {Chain[i]} \cup ToSet(m)
             /\ RuleOf[Chain[i]] \notin Together => Leads(i) = {i} /\ m = <<>>
<1> DEFINE m == Merged(Chain, i, Covered(i - 1))
           L == {Chain[k] : k \in Leads(i)}
<1>1. i \in Starting /\ i \in 1..Len(Chain) /\ i \in Nat /\ Chain \in Seq(Actions) /\ Len(Chain) \in Nat
  BY ChainType DEF Leaders
<1>2. /\ m \in Seq(Actions)
      /\ RuleOf[Chain[i]] \notin Together => m = <<>>
      /\ RuleOf[Chain[i]] \in Together =>
           ToSet(m) = {Chain[k] : k \in {j \in (i + 1)..Len(Chain) :
                                          /\ RuleOf[Chain[j]] = RuleOf[Chain[i]]
                                          /\ Chain[j] \notin Covered(i - 1) \cup {Chain[i]}}}
  BY <1>1, MergedActions
<1>3. i \in Leads(i)
  BY <1>1, LeadsIs
<1> HIDE DEF m
<1>4. CASE RuleOf[Chain[i]] \notin Together
  <2>1. Leads(i) = {i}
    BY <1>3, <1>4, LeadsIs
  <2>2. ToSet(<<>>) = {}
    BY DEF ToSet
  <2> QED
    BY <1>2, <1>4, <2>1, <2>2 DEF m
<1>5. CASE RuleOf[Chain[i]] \in Together
  <2>1. ASSUME NEW k \in Leads(i), k # i, Chain[k] # Chain[i] PROVE Chain[k] \in ToSet(m)
    <3>1. k > i /\ RuleOf[Chain[k]] = RuleOf[Chain[i]] /\ k \in Starting
      BY <2>1, LeadsIs
    <3>2. k \in (i + 1)..Len(Chain)
      <4>1. k \in 1..Len(Chain) /\ k \in Nat
        BY <3>1, ChainType
      <4> QED
        BY <1>1, <3>1, <4>1
    <3>3. Chain[k] \notin Covered(i - 1)
      BY <1>5, LeaderNotCovered
    <3> QED
      BY <1>2, <1>5, <2>1, <3>1, <3>2, <3>3
  <2>2. ASSUME NEW x \in ToSet(m) PROVE x \in L
    <3>1. PICK k \in (i + 1)..Len(Chain) : /\ RuleOf[Chain[k]] = RuleOf[Chain[i]]
                                           /\ Chain[k] \notin Covered(i - 1)
                                           /\ x = Chain[k]
      BY <1>2, <1>5, <2>2
    <3>2. k \in 1..Len(Chain) /\ k > i
      BY <1>1
    <3>3. k \in Starting
      BY <3>1, <3>2, ChainType, CoveredIs DEF Starting
    <3>4. k \in Leads(i)
      BY <1>5, <3>1, <3>2, <3>3, LeadsIs
    <3> QED
      BY <3>1, <3>4
  <2>3. ASSUME NEW x \in L PROVE x \in {Chain[i]} \cup ToSet(m)
    BY <2>1
  <2>4. Chain[i] \in L
    BY <1>3
  <2> HIDE DEF L
  <2>5. L = {Chain[i]} \cup ToSet(m)
    BY <2>2, <2>3, <2>4
  <2> QED
    BY <1>2, <1>5, <2>5 DEF m, L
<1> QED
  BY <1>4, <1>5

\* What a round adds to the actions that are running.
LEMMA CoveredGrows ==
  ASSUME target \in Targets, NEW i \in 1..Len(Chain), Chain[i] \notin Covered(i - 1)
  PROVE  /\ i \in Leaders
         /\ Covered(i) = Covered(i - 1) \cup
              NowRunning(Chain[i], Merged(Chain, i, Covered(i - 1)))
<1>1. i \in Leaders
  BY NotCovered
<1>2. i \in Starting /\ i \in Nat
  BY <1>1, ChainType DEF Leaders
<1>3. NowRunning(Chain[i], Merged(Chain, i, Covered(i - 1))) = {Chain[k] : k \in Leads(i)}
  BY <1>1, LedAreMerged DEF NowRunning
<1>4. 1..i = (1..(i - 1)) \cup {i}
  BY <1>2
<1>5. Covered(i) = Covered(i - 1) \cup {Chain[k] : k \in Leads(i)}
  BY <1>2, <1>4 DEF Covered
<1> QED
  BY <1>1, <1>3, <1>5

\* A leader that finds its action running has the sources of an earlier
\* leader with the same action.
LEMMA LeaderRepeated ==
  ASSUME target \in Targets, NEW i \in Leaders, Chain[i] \in Covered(i - 1)
  PROVE  \E j \in Leaders \cap (1..(i - 1)) : Chain[j] = Chain[i] /\ SourcesFor(j) = SourcesFor(i)
<1>1. i \in Starting /\ i \in 1..Len(Chain) /\ i \in Nat /\ i \in Leads(i) /\ Chain[i] \notin busy
  BY ChainType, LeadsIs DEF Leaders, Starting
<1>2. RuleOf[Chain[i]] \notin Together
  BY <1>1, LeaderNotCovered
<1>3. PICK j \in Starting : j \in 1..(i - 1) /\ \E l \in Leads(j) : Chain[i] = Chain[l]
  BY <1>1, CoveredIs
<1>4. PICK l \in Leads(j) : Chain[i] = Chain[l]
  BY <1>3
<1>5. RuleOf[Chain[l]] = RuleOf[Chain[j]]
  BY LeadsIs
<1>6. l = j
  BY <1>2, <1>4, <1>5, LeadsIs
<1>7. j \in Leaders
  <2>1. ASSUME NEW h \in Starting, h # j, j \in Leads(h) PROVE FALSE
    BY <1>2, <1>4, <1>6, <2>1, LeadsIs
  <2> QED
    BY <2>1 DEF Leaders, Led
<1>8. /\ Merged(Chain, i, Covered(i - 1)) = <<>>
      /\ Merged(Chain, j, Covered(j - 1)) = <<>>
  BY <1>2, <1>4, <1>6, <1>7, LedAreMerged
<1>9. Chain[j] = Chain[i]
  BY <1>4, <1>6
<1>10. SourcesFor(j) = SourcesFor(i)
  BY <1>8, <1>9 DEF SourcesFor
<1> QED
  BY <1>3, <1>7, <1>9, <1>10

\* The sources of a leader's commands.
LEMMA SourcesForNames ==
  ASSUME target \in Targets, NEW i \in Leaders
  PROVE  LET rule == RuleOf[Chain[i]]
         IN  /\ SourcesFor(i) \in Seq(Names)
             /\ ToSet(SourcesFor(i)) = UNION {NamesOf(Chain[k], rule, new) : k \in Leads(i)}
             /\ rule \in Together => IsInjective(SourcesFor(i))
             /\ rule \notin Together =>
                  SourcesFor(i) = Make1List(<<>>, SourcesOf[Chain[i]], rule, new)
<1> DEFINE m == Merged(Chain, i, Covered(i - 1))
           rule == RuleOf[Chain[i]]
           one == <<Chain[i]>>
           group == one \o m
<1>1. Chain[i] \in Actions
  BY ChainType DEF Leaders
<1>2. /\ m \in Seq(Actions)
      /\ {Chain[k] : k \in Leads(i)} = {Chain[i]} \cup ToSet(m)
      /\ rule \notin Together => Leads(i) = {i} /\ m = <<>>
  BY LedAreMerged
<1>3. one \in Seq(Actions) /\ Len(one) = 1 /\ one[1] = Chain[i]
  BY <1>1
<1> HIDE DEF m, one
<1>4. /\ group \in Seq(Actions) /\ Len(group) = 1 + Len(m)
      /\ group[1] = Chain[i]
      /\ \A k \in 2..(1 + Len(m)) : group[k] = m[k - 1]
  BY <1>2, <1>3, OneBefore
<1>5. ToSet(m) = {m[k] : k \in 1..Len(m)} /\ Len(m) \in Nat
  BY <1>2 DEF ToSet
<1> HIDE DEF group
<1>6. {group[k] : k \in 1..Len(group)} = {Chain[k] : k \in Leads(i)}
  <2>1. ASSUME NEW k \in 1..Len(group) PROVE group[k] \in {Chain[i]} \cup ToSet(m)
    <3>1. CASE k = 1
      BY <1>4, <3>1
    <3>2. CASE k # 1
      <4>1. k \in 2..(1 + Len(m)) /\ k - 1 \in 1..Len(m)
        BY <1>4, <1>5, <3>2
      <4> QED
        BY <1>4, <1>5, <4>1
    <3> QED
      BY <3>1, <3>2
  <2>2. ASSUME NEW x \in {Chain[i]} \cup ToSet(m) PROVE \E k \in 1..Len(group) : x = group[k]
    <3>1. CASE x = Chain[i]
      <4>1. 1 \in 1..Len(group)
        BY <1>4, <1>5
      <4> QED
        BY <1>4, <3>1, <4>1
    <3>2. CASE x \in ToSet(m)
      <4>1. PICK k \in 1..Len(m) : x = m[k]
        BY <1>5, <3>2
      <4>2. k + 1 \in 2..(1 + Len(m)) /\ k + 1 \in 1..Len(group) /\ (k + 1) - 1 = k
        BY <1>4, <1>5
      <4>3. group[k + 1] = m[k]
        BY <1>4, <4>2
      <4> QED
        BY <4>1, <4>2, <4>3
    <3> QED
      BY <3>1, <3>2
  <2>3. {group[k] : k \in 1..Len(group)} = {Chain[i]} \cup ToSet(m)
    BY ONLY <2>1, <2>2
  <2> QED
    BY <1>2, <2>3
<1>7. /\ SourcesFor(i) \in Seq(Names)
      /\ ToSet(SourcesFor(i)) = UNION {NamesOf(group[k], rule, new) : k \in 1..Len(group)}
      /\ rule \in Together => IsInjective(SourcesFor(i))
      /\ Len(group) = 1 => SourcesFor(i) = Make1List(<<>>, SourcesOf[group[1]], rule, new)
  <2>1. SourcesFor(i) = Gathered(group, rule, new)
    BY DEF SourcesFor, group, one, m
  <2> DEFINE r == Gathered(group, rule, new)
  <2>2. group \in Seq(Actions)
    BY <1>4
  <2> HIDE DEF rule
  <2>3. /\ r \in Seq(Names)
        /\ ToSet(r) = UNION {NamesOf(group[k], rule, new) : k \in 1..Len(group)}
        /\ rule \in Together => IsInjective(r)
        /\ Len(group) = 1 => r = Make1List(<<>>, SourcesOf[group[1]], rule, new)
    BY ONLY <2>2, GatheredNames
  <2> QED
    BY <2>1, <2>3
<1>8. UNION {NamesOf(group[k], rule, new) : k \in 1..Len(group)}
        = UNION {NamesOf(Chain[k], rule, new) : k \in Leads(i)}
  <2> DEFINE A == {group[k] : k \in 1..Len(group)}
             B == {Chain[k] : k \in Leads(i)}
  <2>1. UNION {NamesOf(b, rule, new) : b \in A} = UNION {NamesOf(group[k], rule, new) : k \in 1..Len(group)}
    OBVIOUS
  <2>2. UNION {NamesOf(b, rule, new) : b \in B} = UNION {NamesOf(Chain[k], rule, new) : k \in Leads(i)}
    OBVIOUS
  <2> QED
    BY <1>6, <2>1, <2>2
<1>9. rule \notin Together => Len(group) = 1
  <2>1. Len(<<>>) = 0
    OBVIOUS
  <2> QED
    BY <1>2, <1>4, <2>1
<1> QED
  BY <1>4, <1>7, <1>8, <1>9

CmdSet == [action : Actions, sources : Seq(Names)]

\* The sources of the commands for action a, end to end.
SharesOf(cmds, a) ==
  [k \in DOMAIN cmds |-> IF cmds[k].action = a THEN cmds[k].sources ELSE <<>>]
GivenIn(cmds, a) == FlattenSeq(SharesOf(cmds, a))

\* The commands of action a, one for each piece.
CommandsOf(a, pieces) == [k \in DOMAIN pieces |-> [action |-> a, sources |-> pieces[k]]]

LEMMA SharesType ==
  ASSUME NEW cmds \in Seq(CmdSet), NEW a
  PROVE  /\ SharesOf(cmds, a) \in Seq(Seq(Names))
         /\ Len(SharesOf(cmds, a)) = Len(cmds)
         /\ \A k \in 1..Len(cmds) :
              SharesOf(cmds, a)[k] = IF cmds[k].action = a THEN cmds[k].sources ELSE <<>>
<1>1. Len(cmds) \in Nat /\ DOMAIN cmds = 1..Len(cmds)
  OBVIOUS
<1>2. \A k \in 1..Len(cmds) : cmds[k].sources \in Seq(Names)
  <2>1. \A k \in 1..Len(cmds) : cmds[k] \in CmdSet
    OBVIOUS
  <2> QED
    BY <2>1 DEF CmdSet
<1>3. <<>> \in Seq(Names)
  OBVIOUS
<1> DEFINE V == Seq(Names)
           F(k) == IF cmds[k].action = a THEN cmds[k].sources ELSE <<>>
           f == [k \in 1..Len(cmds) |-> F(k)]
<1>4. \A k \in 1..Len(cmds) : F(k) \in V
  BY <1>2, <1>3
<1>5. SharesOf(cmds, a) = f
  BY <1>1 DEF SharesOf
<1> HIDE DEF V, F
<1>6. f \in Seq(V) /\ Len(f) = Len(cmds) /\ \A k \in 1..Len(cmds) : f[k] = F(k)
  BY <1>1, <1>4
<1> HIDE DEF f
<1> QED
  BY <1>5, <1>6 DEF V, F

LEMMA CommandsOfType ==
  ASSUME NEW a \in Actions, NEW pieces \in Seq(Seq(Names))
  PROVE  /\ CommandsOf(a, pieces) \in Seq(CmdSet)
         /\ Len(CommandsOf(a, pieces)) = Len(pieces)
         /\ \A k \in 1..Len(pieces) : CommandsOf(a, pieces)[k] = [action |-> a, sources |-> pieces[k]]
         /\ SharesOf(CommandsOf(a, pieces), a) = pieces
         /\ \A b : b # a => SharesOf(CommandsOf(a, pieces), b) = [k \in 1..Len(pieces) |-> <<>>]
<1> DEFINE n == Len(pieces)
           c == CommandsOf(a, pieces)
           F(k) == [action |-> a, sources |-> pieces[k]]
           f == [k \in 1..n |-> F(k)]
<1>1. n \in Nat /\ DOMAIN pieces = 1..n /\ \A k \in 1..n : pieces[k] \in Seq(Names)
  OBVIOUS
<1>2. \A k \in 1..n : F(k) \in CmdSet /\ F(k).action = a /\ F(k).sources = pieces[k]
  BY <1>1 DEF CmdSet
<1>3. c = f
  BY <1>1 DEF CommandsOf
<1> HIDE DEF n, F
<1>4. f \in Seq(CmdSet) /\ Len(f) = n /\ DOMAIN f = 1..n /\ \A k \in 1..n : f[k] = F(k)
  BY <1>1, <1>2
<1> HIDE DEF f
<1>5. SharesOf(f, a) = pieces
  <2>1. SharesOf(f, a) = [k \in 1..n |-> pieces[k]]
    BY <1>2, <1>4 DEF SharesOf
  <2>2. pieces = [k \in 1..n |-> pieces[k]]
    BY <1>1
  <2> QED
    BY <2>1, <2>2
<1>6. ASSUME NEW b, b # a PROVE SharesOf(f, b) = [k \in 1..n |-> <<>>]
  BY <1>2, <1>4, <1>6 DEF SharesOf
<1> QED
  BY <1>3, <1>4, <1>5, <1>6 DEF n, F

\* The commands of one more action.
LEMMA GivenMore ==
  ASSUME NEW cmds \in Seq(CmdSet), NEW a \in Actions, NEW pieces \in Seq(Seq(Names))
  PROVE  LET more == cmds \o CommandsOf(a, pieces)
         IN  /\ more \in Seq(CmdSet)
             /\ Len(more) = Len(cmds) + Len(pieces)
             /\ \A k \in 1..Len(cmds) : more[k] = cmds[k]
             /\ \A k \in 1..Len(pieces) :
                  more[Len(cmds) + k] = [action |-> a, sources |-> pieces[k]]
             /\ \A b : b # a => GivenIn(more, b) = GivenIn(cmds, b)
             /\ (\A k \in 1..Len(cmds) : cmds[k].action # a) => GivenIn(more, a) = FlattenSeq(pieces)
<1> DEFINE n == Len(cmds)
           m == Len(pieces)
           extra == CommandsOf(a, pieces)
           more == cmds \o extra
           V == Seq(Names)
           blank == [k \in 1..m |-> <<>>]
<1>1. /\ extra \in Seq(CmdSet) /\ Len(extra) = m
      /\ \A k \in 1..m : extra[k] = [action |-> a, sources |-> pieces[k]]
      /\ SharesOf(extra, a) = pieces
      /\ \A b : b # a => SharesOf(extra, b) = blank
  BY CommandsOfType
<1>2. n \in Nat /\ m \in Nat
  OBVIOUS
<1> HIDE DEF extra, blank
<1>3. /\ more \in Seq(CmdSet) /\ Len(more) = n + m
      /\ \A k \in 1..(n + m) : more[k] = IF k <= n THEN cmds[k] ELSE extra[k - n]
  <2>1. cmds \in Seq(CmdSet) /\ extra \in Seq(CmdSet) /\ Len(extra) = m
    BY <1>1
  <2> HIDE DEF m
  <2> QED
    BY ONLY <2>1, ConcatProperties
<1> HIDE DEF more, n, m
<1>4. ASSUME NEW b PROVE SharesOf(more, b) = SharesOf(cmds, b) \o SharesOf(extra, b)
  <2> DEFINE s == SharesOf(cmds, b)
             r == SharesOf(extra, b)
             u == SharesOf(more, b)
  <2>1. /\ s \in Seq(V) /\ Len(s) = n
        /\ \A k \in 1..n : s[k] = IF cmds[k].action = b THEN cmds[k].sources ELSE <<>>
    BY SharesType DEF n
  <2>2. /\ r \in Seq(V) /\ Len(r) = m
        /\ \A k \in 1..m : r[k] = IF extra[k].action = b THEN extra[k].sources ELSE <<>>
    BY <1>1, SharesType
  <2>3. /\ u \in Seq(V) /\ Len(u) = n + m
        /\ \A k \in 1..(n + m) : u[k] = IF more[k].action = b THEN more[k].sources ELSE <<>>
    BY <1>3, SharesType
  <2> HIDE DEF s, r, u, V
  <2>4. /\ s \o r \in Seq(V) /\ Len(s \o r) = n + m
        /\ \A k \in 1..(n + m) : (s \o r)[k] = IF k <= n THEN s[k] ELSE r[k - n]
    BY <2>1, <2>2, ConcatProperties
  <2>5. ASSUME NEW k \in 1..(n + m) PROVE u[k] = (s \o r)[k]
    <3>1. CASE k <= n
      <4>1. k \in 1..n
        BY <1>2, <3>1
      <4> QED
        BY <1>3, <2>1, <2>3, <2>4, <3>1, <4>1
    <3>2. CASE ~(k <= n)
      <4>1. k - n \in 1..m
        BY <1>2, <3>2
      <4> QED
        BY <1>3, <2>2, <2>3, <2>4, <3>2, <4>1
    <3> QED
      BY <3>1, <3>2
  <2>6. u = s \o r
    BY <1>2, <2>3, <2>4, <2>5, SeqEqual
  <2> QED
    BY <2>6 DEF s, r, u
<1>5. ASSUME NEW b PROVE GivenIn(more, b) = GivenIn(cmds, b) \o FlattenSeq(SharesOf(extra, b))
                         /\ GivenIn(cmds, b) \in V
  <2>1. SharesOf(cmds, b) \in Seq(V) /\ SharesOf(extra, b) \in Seq(V)
    BY <1>1, SharesType
  <2> QED
    BY <1>4, <2>1, FlattenConcat DEF GivenIn
<1>6. ASSUME NEW b, b # a PROVE GivenIn(more, b) = GivenIn(cmds, b)
  <2>1. FlattenSeq(blank) = <<>>
    BY <1>2, FlattenBlank DEF blank
  <2>2. GivenIn(cmds, b) \o <<>> = GivenIn(cmds, b)
    BY <1>5
  <2> QED
    BY <1>1, <1>5, <1>6, <2>1, <2>2
<1>7. ASSUME \A k \in 1..n : cmds[k].action # a PROVE GivenIn(more, a) = FlattenSeq(pieces)
  <2>1. SharesOf(cmds, a) = [k \in 1..n |-> <<>>]
    <3>1. DOMAIN cmds = 1..n
      BY DEF n
    <3> QED
      BY <1>7, <3>1 DEF SharesOf
  <2>2. GivenIn(cmds, a) = <<>>
    BY <1>2, <2>1, FlattenBlank DEF GivenIn
  <2>3. FlattenSeq(pieces) \in V
    BY FlattenConcat
  <2>4. <<>> \o FlattenSeq(pieces) = FlattenSeq(pieces)
    BY <2>3
  <2> QED
    BY <1>1, <1>5, <2>2, <2>4
<1>8. /\ \A k \in 1..n : more[k] = cmds[k]
      /\ \A k \in 1..m : more[n + k] = [action |-> a, sources |-> pieces[k]]
  <2>1. ASSUME NEW k \in 1..n PROVE more[k] = cmds[k]
    BY <1>2, <1>3
  <2>2. ASSUME NEW k \in 1..m PROVE more[n + k] = extra[k]
    <3>1. n + k \in 1..(n + m) /\ ~(n + k <= n) /\ (n + k) - n = k
      BY <1>2
    <3> QED
      BY <1>3, <3>1
  <2> QED
    BY <1>1, <2>1, <2>2
<1> QED
  BY <1>3, <1>6, <1>7, <1>8 DEF more, extra, n, m

\* No command of a: nothing given to it.
LEMMA NoneGiven ==
  ASSUME NEW cmds \in Seq(CmdSet), NEW a, \A k \in 1..Len(cmds) : cmds[k].action # a
  PROVE  GivenIn(cmds, a) = <<>>
<1>1. SharesOf(cmds, a) = [k \in 1..Len(cmds) |-> <<>>] /\ Len(cmds) \in Nat
  BY DEF SharesOf
<1> QED
  BY <1>1, FlattenBlank DEF GivenIn

\* The pieces of any list of sources.
LEMMA SplitPieces ==
  ASSUME NEW a, NEW ns \in Seq(Names)
  PROVE  LET p == Split(a, ns)
         IN  /\ p \in Seq(Seq(Names))
             /\ Len(p) > 0
             /\ \A k \in 1..Len(p) : /\ ns # <<>> => p[k] # <<>>
                                     /\ k # Len(p) => Fits(a, p[k])
                                     /\ RuleOf[a] \notin Piecemeal => p[k] = ns
             /\ Fits(a, Last(p)) => FlattenSeq(p) = ns
             /\ \/ Fits(a, Last(p))
                \/ RuleOf[a] \notin Piecemeal
                \/ Last(p) = <<>>
                \/ \E j \in 1..Len(ns) : Last(p) = <<ns[j]>>
<1> DEFINE p == Split(a, ns)
           one == <<ns>>
<1>1. one \in Seq(Seq(Names)) /\ Len(one) = 1 /\ one[1] = ns
  OBVIOUS
<1>2. CASE ns = <<>>
  <2>1. p = one
    BY <1>2 DEF Split
  <2>2. FlattenSeq(one) = ns
    BY FlattenOne
  <2>3. p \in Seq(Seq(Names))
    BY <1>1, <2>1
  <2> HIDE DEF one, p
  <2>4. Len(p) = 1 /\ p[1] = ns
    <3>1. Len(one) = 1 /\ one[1] = ns
      BY <1>1
    <3> QED
      BY ONLY <2>1, <3>1
  <2>5. Last(p) = ns
    BY ONLY <2>4 DEF Last
  <2>6. \A k \in 1..Len(p) : k = Len(p) /\ p[k] = ns
    BY ONLY <2>4
  <2>7. Len(p) > 0
    BY ONLY <2>4
  <2> QED
    BY <1>2, <2>1, <2>2, <2>3, <2>5, <2>6, <2>7 DEF p
<1>3. CASE ns # <<>>
  <2>1. Cuts(p, a, ns, ns) /\ (RuleOf[a] \notin Piecemeal => p = one)
    BY <1>3, SplitCuts
  <2> HIDE DEF one, p
  <2>2. RuleOf[a] \notin Piecemeal => \A k \in 1..Len(p) : p[k] = ns
    BY <1>1, <2>1
  <2> QED
    BY <2>1, <2>2 DEF Cuts, Last, p
<1> QED
  BY <1>2, <1>3

-----------------------------------------------------------------------------
(***************************************************************************)
(* The inductive invariant of make1cmds()'s loop over the actions.         *)
(***************************************************************************)

\* No smaller list of sources for the i-th action can be tried.
Stuck(i) ==
  \/ RuleOf[Chain[i]] \notin Piecemeal
  \/ \E j \in 1..Len(SourcesFor(i)) : ~Fits(Chain[i], <<SourcesFor(i)[j]>>)
  \/ ~Fits(Chain[i], <<>>)

\* The k-th command is as long as it may be.
CmdFine(cs, k) ==
  /\ Fits(cs[k].action, cs[k].sources)
  /\ GivenIn(cs, cs[k].action) # <<>> => cs[k].sources # <<>>
  /\ RuleOf[cs[k].action] \notin Piecemeal => cs[k].sources = GivenIn(cs, cs[k].action)

\* After m rounds.
RoundInv(acc, m) ==
  /\ acc \in [cmds : Seq(CmdSet), running : SUBSET Actions, tooLong : BOOLEAN]
  /\ busy \subseteq acc.running
  /\ \A k \in 1..Len(acc.cmds) :
       /\ acc.cmds[k].action \in acc.running
       /\ \E i \in Leaders : acc.cmds[k].action = Chain[i]
       /\ CmdFine(acc.cmds, k)
  /\ ~acc.tooLong => /\ acc.running = Covered(m)
                     /\ \A i \in Leaders \cap (1..m) : GivenIn(acc.cmds, Chain[i]) = SourcesFor(i)
  /\ acc.tooLong => \E i \in Leaders : Stuck(i)

\* A round that starts an action.
LEMMA RoundStarts ==
  ASSUME target \in Targets, NEW i \in 1..Len(Chain), NEW acc, RoundInv(acc, i - 1),
         ~acc.tooLong, Chain[i] \notin acc.running
  PROVE  RoundInv(AddAction(acc, Chain, i, new), i)
<1> DEFINE a == Chain[i]
           rule == RuleOf[a]
           merged == Merged(Chain, i, acc.running)
           ns == Gathered(<<a>> \o merged, rule, new)
           pieces == Split(a, ns)
           now == acc.running \cup NowRunning(a, merged)
           res == AddAction(acc, Chain, i, new)
           more == acc.cmds \o CommandsOf(a, pieces)
<1>1. /\ acc \in [cmds : Seq(CmdSet), running : SUBSET Actions, tooLong : BOOLEAN]
      /\ busy \subseteq acc.running
      /\ acc.running = Covered(i - 1)
      /\ \A k \in 1..Len(acc.cmds) : /\ acc.cmds[k].action \in acc.running
                                     /\ \E j \in Leaders : acc.cmds[k].action = Chain[j]
                                     /\ CmdFine(acc.cmds, k)
      /\ \A j \in Leaders \cap (1..(i - 1)) : GivenIn(acc.cmds, Chain[j]) = SourcesFor(j)
  BY DEF RoundInv
<1>2. i \in Leaders /\ now = Covered(i)
  BY <1>1, CoveredGrows
<1>3. /\ a \in Actions /\ i \in Nat /\ Chain \in Seq(Actions)
      /\ now \in SUBSET Actions
  <2>1. a \in Actions /\ i \in Nat /\ Chain \in Seq(Actions)
    BY ChainType
  <2>2. merged \in Seq(Actions)
    BY <2>1, MergedActions
  <2>3. ToSet(merged) \subseteq Actions
    BY <2>2 DEF ToSet
  <2> QED
    BY <1>1, <2>1, <2>3 DEF NowRunning
<1>4. ns = SourcesFor(i) /\ ns \in Seq(Names)
  <2>1. ns = SourcesFor(i)
    BY <1>1 DEF SourcesFor
  <2> HIDE DEF ns
  <2> QED
    BY <1>2, <2>1, SourcesForNames
<1>5. /\ acc.cmds \in Seq(CmdSet) /\ Len(acc.cmds) \in Nat
      /\ \A k \in 1..Len(acc.cmds) : acc.cmds[k].action # a
  BY <1>1
<1>6. \A j \in Leaders \cap (1..i) : j = i \/ j \in Leaders \cap (1..(i - 1))
  BY <1>3
<1> HIDE DEF merged, ns, pieces, now, res, more, a
<1>7. CASE ns = <<>> /\ rule \in NewSrcs \cup ExistingOnly
  <2>1. res = [acc EXCEPT !.running = now]
    BY <1>7 DEF res, AddAction, now, merged, ns, a
  <2>2. res.cmds = acc.cmds /\ res.running = now /\ res.tooLong = acc.tooLong
    BY <1>1, <2>1
  <2>3. res \in [cmds : Seq(CmdSet), running : SUBSET Actions, tooLong : BOOLEAN]
    BY <1>1, <1>3, <2>1
  <2>4. GivenIn(acc.cmds, Chain[i]) = SourcesFor(i)
    BY <1>4, <1>5, <1>7, NoneGiven DEF a
  <2>5. acc.running \subseteq now
    BY DEF now
  <2>6. \A j \in Leaders \cap (1..i) : GivenIn(res.cmds, Chain[j]) = SourcesFor(j)
    BY <1>1, <1>6, <2>2, <2>4
  <2>7. \A k \in 1..Len(res.cmds) : /\ res.cmds[k].action \in res.running
                                    /\ \E j \in Leaders : res.cmds[k].action = Chain[j]
                                    /\ CmdFine(res.cmds, k)
    BY <1>1, <2>2, <2>5
  <2>8. busy \subseteq res.running /\ res.running = Covered(i) /\ ~res.tooLong
    BY <1>1, <1>2, <2>2, <2>5
  <2> QED
    BY <2>3, <2>6, <2>7, <2>8 DEF RoundInv, res
<1>8. CASE ~(ns = <<>> /\ rule \in NewSrcs \cup ExistingOnly) /\ ~Fits(a, Last(pieces))
  <2>1. res = [acc EXCEPT !.running = now, !.tooLong = TRUE]
    BY <1>8 DEF res, AddAction, now, merged, ns, pieces, a
  <2>2. res.cmds = acc.cmds /\ res.running = now /\ res.tooLong
    BY <1>1, <2>1
  <2>3. res \in [cmds : Seq(CmdSet), running : SUBSET Actions, tooLong : BOOLEAN]
    BY <1>1, <1>3, <2>1
  <2>4. acc.running \subseteq now
    BY DEF now
  <2>5. \A k \in 1..Len(res.cmds) : /\ res.cmds[k].action \in res.running
                                    /\ \E j \in Leaders : res.cmds[k].action = Chain[j]
                                    /\ CmdFine(res.cmds, k)
    BY <1>1, <2>2, <2>4
  <2>6. Stuck(i)
    <3>1. \/ rule \notin Piecemeal
          \/ Last(pieces) = <<>>
          \/ \E j \in 1..Len(ns) : Last(pieces) = <<ns[j]>>
      BY <1>4, <1>8, SplitPieces DEF pieces
    <3> QED
      BY <1>4, <1>8, <3>1 DEF Stuck, a
  <2>7. busy \subseteq res.running
    BY <1>1, <2>2, <2>4
  <2> QED
    BY <1>2, <2>2, <2>3, <2>5, <2>6, <2>7 DEF RoundInv, res
<1>9. CASE ~(ns = <<>> /\ rule \in NewSrcs \cup ExistingOnly) /\ Fits(a, Last(pieces))
  <2>1. res = [acc EXCEPT !.running = now, !.cmds = more]
    BY <1>9 DEF res, AddAction, now, merged, ns, pieces, a, more, CommandsOf
  <2>2. /\ pieces \in Seq(Seq(Names)) /\ Len(pieces) \in Nat /\ Len(pieces) > 0
        /\ \A k \in 1..Len(pieces) : /\ ns # <<>> => pieces[k] # <<>>
                                     /\ k # Len(pieces) => Fits(a, pieces[k])
                                     /\ rule \notin Piecemeal => pieces[k] = ns
        /\ FlattenSeq(pieces) = ns
    <3>1. /\ pieces \in Seq(Seq(Names)) /\ Len(pieces) > 0
          /\ \A k \in 1..Len(pieces) : /\ ns # <<>> => pieces[k] # <<>>
                                       /\ k # Len(pieces) => Fits(a, pieces[k])
                                       /\ rule \notin Piecemeal => pieces[k] = ns
          /\ FlattenSeq(pieces) = ns
      BY <1>4, <1>9, SplitPieces DEF pieces
    <3>2. Len(pieces) \in Nat
      BY <3>1
    <3> QED
      BY <3>1, <3>2
  <2>3. \A k \in 1..Len(pieces) : Fits(a, pieces[k])
    BY <1>9, <2>2 DEF Last
  <2>4. /\ more \in Seq(CmdSet)
        /\ Len(more) = Len(acc.cmds) + Len(pieces)
        /\ \A k \in 1..Len(acc.cmds) : more[k] = acc.cmds[k]
        /\ \A k \in 1..Len(pieces) : more[Len(acc.cmds) + k] = [action |-> a, sources |-> pieces[k]]
        /\ \A b : b # a => GivenIn(more, b) = GivenIn(acc.cmds, b)
        /\ GivenIn(more, a) = ns
    <3>1. pieces \in Seq(Seq(Names))
      BY <2>2
    <3>2. FlattenSeq(pieces) = ns
      BY <2>2
    <3> DEFINE had == acc.cmds
    <3>3. had \in Seq(CmdSet) /\ \A k \in 1..Len(had) : had[k].action # a
      BY <1>5
    <3>4. a \in Actions
      BY <1>3
    <3> HIDE DEF had
    <3>5. LET m == had \o CommandsOf(a, pieces)
          IN  /\ m \in Seq(CmdSet)
              /\ Len(m) = Len(had) + Len(pieces)
              /\ \A k \in 1..Len(had) : m[k] = had[k]
              /\ \A k \in 1..Len(pieces) : m[Len(had) + k] = [action |-> a, sources |-> pieces[k]]
              /\ \A b : b # a => GivenIn(m, b) = GivenIn(had, b)
              /\ GivenIn(m, a) = FlattenSeq(pieces)
      BY ONLY <3>1, <3>3, <3>4, GivenMore
    <3> QED
      BY ONLY <3>2, <3>5 DEF more, had
  <2>5. res.cmds = more /\ res.running = now /\ ~res.tooLong
    BY <1>1, <2>1
  <2>6. res \in [cmds : Seq(CmdSet), running : SUBSET Actions, tooLong : BOOLEAN]
    BY <1>1, <1>3, <2>1, <2>4
  <2>7. acc.running \subseteq now /\ a \in now
    BY DEF now, NowRunning
  <2>8. ASSUME NEW k \in 1..Len(more)
        PROVE  /\ more[k].action \in now
               /\ \E j \in Leaders : more[k].action = Chain[j]
               /\ CmdFine(more, k)
    <3>1. CASE k \in 1..Len(acc.cmds)
      <4>1. more[k] = acc.cmds[k] /\ more[k].action # a
        BY <1>5, <2>4, <3>1
      <4>2. GivenIn(more, more[k].action) = GivenIn(acc.cmds, more[k].action)
        BY <2>4, <4>1
      <4>3. CmdFine(acc.cmds, k)
        BY <1>1, <3>1
      <4>4. CmdFine(more, k)
        BY <4>1, <4>2, <4>3 DEF CmdFine
      <4> QED
        BY <1>1, <2>7, <3>1, <4>1, <4>4
    <3>2. CASE k \notin 1..Len(acc.cmds)
      <4> DEFINE h == k - Len(acc.cmds)
      <4>1. h \in 1..Len(pieces) /\ k = Len(acc.cmds) + h
        BY <1>5, <2>2, <2>4, <3>2
      <4> HIDE DEF h
      <4>2. more[k] = [action |-> a, sources |-> pieces[h]]
        BY <2>4, <4>1
      <4>3. more[k].action = a /\ more[k].sources = pieces[h]
        BY <4>2
      <4>4. CmdFine(more, k)
        BY <2>2, <2>3, <2>4, <4>1, <4>3 DEF CmdFine
      <4> QED
        BY <1>2, <2>7, <4>3, <4>4 DEF a
    <3> QED
      BY <3>1, <3>2
  <2>9. ASSUME NEW j \in Leaders \cap (1..i) PROVE GivenIn(more, Chain[j]) = SourcesFor(j)
    <3>1. CASE j = i
      BY <1>4, <2>4, <3>1 DEF a
    <3>2. CASE j # i
      <4>1. j \in Leaders /\ j \in 1..(i - 1)
        BY <1>6, <3>2
      <4>2. Chain[j] \in Covered(i - 1)
        <5>1. j \in Starting /\ j \in Leads(j)
          BY <4>1, LeadsIs DEF Leaders
        <5> QED
          BY <4>1, <5>1, CoveredIs
      <4>3. Chain[j] # a
        BY <1>1, <4>2 DEF a
      <4> QED
        BY <1>1, <2>4, <4>1, <4>3
    <3> QED
      BY <3>1, <3>2
  <2>10. busy \subseteq now
    BY <1>1, <2>7
  <2> QED
    BY <1>2, <2>5, <2>6, <2>8, <2>9, <2>10 DEF RoundInv, res
<1> QED
  BY <1>7, <1>8, <1>9

\* A round that starts none.
LEMMA RoundSkips ==
  ASSUME target \in Targets, NEW i \in 1..Len(Chain), NEW acc, RoundInv(acc, i - 1),
         acc.tooLong \/ Chain[i] \in acc.running
  PROVE  RoundInv(acc, i)
<1>1. CASE acc.tooLong
  BY <1>1 DEF RoundInv
<1>2. CASE ~acc.tooLong
  <2>1. /\ acc.running = Covered(i - 1)
        /\ \A j \in Leaders \cap (1..(i - 1)) : GivenIn(acc.cmds, Chain[j]) = SourcesFor(j)
    BY <1>2 DEF RoundInv
  <2>2. Chain[i] \in Covered(i - 1)
    BY <1>2, <2>1
  <2>3. Covered(i) = Covered(i - 1)
    BY <2>2, CoveredStays
  <2>4. ASSUME NEW j \in Leaders \cap (1..i) PROVE GivenIn(acc.cmds, Chain[j]) = SourcesFor(j)
    <3>1. CASE j = i
      <4>1. PICK h \in Leaders \cap (1..(i - 1)) : Chain[h] = Chain[i] /\ SourcesFor(h) = SourcesFor(i)
        BY <2>2, <3>1, LeaderRepeated
      <4> QED
        BY <2>1, <3>1, <4>1
    <3>2. CASE j # i
      <4>1. i \in Nat
        BY ChainType
      <4>2. j \in 1..(i - 1)
        BY <3>2, <4>1
      <4> QED
        BY <2>1, <4>2
    <3> QED
      BY <3>1, <3>2
  <2> QED
    BY <1>2, <2>1, <2>3, <2>4 DEF RoundInv
<1> QED
  BY <1>1, <1>2

\* What a round has to say of an accumulator of the right type.
LEMMA AddActionType ==
  ASSUME NEW chain \in Seq(Actions), NEW i \in 1..Len(chain),
         NEW acc \in [cmds : Seq(CmdSet), running : SUBSET Actions, tooLong : BOOLEAN],
         NEW fresh
  PROVE  AddAction(acc, chain, i, fresh)
           \in [cmds : Seq(CmdSet), running : SUBSET Actions, tooLong : BOOLEAN]
<1> DEFINE a == chain[i]
           merged == Merged(chain, i, acc.running)
           group == <<a>> \o merged
           ns == Gathered(group, RuleOf[a], fresh)
           pieces == Split(a, ns)
           now == acc.running \cup NowRunning(a, merged)
           extra == CommandsOf(a, pieces)
           more == acc.cmds \o extra
           res == AddAction(acc, chain, i, fresh)
<1>1. a \in Actions /\ acc.running \subseteq Actions /\ acc.cmds \in Seq(CmdSet) /\ acc.tooLong \in BOOLEAN
  OBVIOUS
<1>2. merged \in Seq(Actions)
  BY MergedActions
<1>3. group \in Seq(Actions) /\ now \in SUBSET Actions
  <2> HIDE DEF merged, a
  <2>1. ToSet(merged) \subseteq Actions
    BY <1>2 DEF ToSet
  <2> QED
    BY <1>1, <1>2, <2>1 DEF NowRunning
<1>4. \/ res = [acc EXCEPT !.running = now]
      \/ res = [acc EXCEPT !.running = now, !.tooLong = TRUE]
      \/ res = [acc EXCEPT !.running = now, !.cmds = more]
  BY DEF AddAction, CommandsOf
<1> HIDE DEF a, merged, group, now, res, pieces
<1>5. ns \in Seq(Names)
  BY <1>3, GatheredNames
<1> HIDE DEF ns
<1>6. pieces \in Seq(Seq(Names))
  BY <1>1, <1>5, SplitPieces DEF pieces
<1>7. extra \in Seq(CmdSet)
  BY <1>1, <1>6, CommandsOfType
<1> HIDE DEF extra
<1>8. more \in Seq(CmdSet)
  BY <1>1, <1>7
<1> HIDE DEF more
<1>9. res \in [cmds : Seq(CmdSet), running : SUBSET Actions, tooLong : BOOLEAN]
  BY <1>1, <1>3, <1>4, <1>8
<1> QED
  BY <1>9 DEF res

\* make1cmds() as a whole.
LEMMA AllRounds ==
  ASSUME target \in Targets, busy \subseteq Actions
  PROVE  RoundInv(Made, Len(Chain))
<1> DEFINE n == Len(Chain)
           V == [cmds : Seq(CmdSet), running : SUBSET Actions, tooLong : BOOLEAN]
           none == [cmds |-> <<>>, running |-> busy, tooLong |-> FALSE]
           Next(i, acc) == IF acc.tooLong \/ Chain[i] \in acc.running THEN acc
                           ELSE AddAction(acc, Chain, i, new)
           step == [x \in (1..n) \X V |-> Next(x[1], x[2])]
           Body(g) == [i \in 0..n |-> IF i = 0 THEN none ELSE Next(i, g[i - 1])]
           build == CHOOSE g : g = Body(g)
<1>1. n \in Nat
  BY ChainType
<1>2. none \in V /\ RoundInv(none, 0)
  <2>1. /\ none \in V /\ none.cmds = <<>> /\ none.running = busy /\ none.tooLong = FALSE
        /\ Len(none.cmds) = 0
    OBVIOUS
  <2>2. Covered(0) = busy
    BY CoveredIs
  <2> HIDE DEF none
  <2> QED
    BY <2>1, <2>2 DEF RoundInv
<1>3. ASSUME NEW i \in 1..n, NEW acc, RoundInv(acc, i - 1) PROVE RoundInv(Next(i, acc), i)
  <2>1. CASE acc.tooLong \/ Chain[i] \in acc.running
    BY <1>3, <2>1, RoundSkips
  <2>2. CASE ~(acc.tooLong \/ Chain[i] \in acc.running)
    BY <1>3, <2>2, RoundStarts
  <2> QED
    BY <2>1, <2>2
<1>4. ASSUME NEW i \in 1..n, NEW acc \in V PROVE Next(i, acc) \in V
  BY ChainType, AddActionType
<1>5. Made = build[n]
  BY DEF Made, Make1Cmds, Chain
<1> HIDE DEF n, V, none, Next
<1>6. step \in [(1..n) \X V -> V]
  BY <1>4
<1>7. PICK g : Follows(g, n, V, none, step)
  <2> HIDE DEF step
  <2>1. Steps(n, V, none, step)
    BY <1>1, <1>2, <1>6 DEF Steps
  <2> QED
    BY <2>1, PrimitiveRecursion
<1>8. g = Body(g)
  <2>1. /\ g \in [0..n -> V]
        /\ g = [k \in 0..n |-> IF k = 0 THEN none ELSE step[<<k, g[k - 1]>>]]
    <3> HIDE DEF step
    <3> QED
      BY <1>7 DEF Follows
  <2>2. ASSUME NEW k \in 1..n PROVE step[<<k, g[k - 1]>>] = Next(k, g[k - 1])
    <3>1. k - 1 \in 0..n
      BY <1>1
    <3>2. g[k - 1] \in V
      <4> HIDE DEF step
      <4> QED
        BY <2>1, <3>1
    <3> QED
      BY <3>2
  <2>3. ASSUME NEW k \in 0..n PROVE g[k] = IF k = 0 THEN none ELSE Next(k, g[k - 1])
    <3>1. k # 0 => k \in 1..n
      BY <1>1
    <3> HIDE DEF step
    <3> QED
      BY <2>1, <2>2, <3>1
  <2>4. g = [k \in 0..n |-> g[k]]
    <3> HIDE DEF step
    <3> QED
      BY <2>1
  <2> QED
    BY <2>3, <2>4
<1>9. build = Body(build)
  <2> HIDE DEF Body
  <2> QED
    BY <1>8
<1> HIDE DEF build
<1>10. build[0] = none /\ \A k \in 1..n : build[k] = Next(k, build[k - 1])
  BY <1>1, <1>9
<1> DEFINE S == {k \in 0..n : RoundInv(build[k], k)}
<1>11. 0 \in S
  BY <1>1, <1>2, <1>10
<1>12. ASSUME NEW k \in 1..n, k - 1 \in S PROVE k \in S
  BY <1>1, <1>3, <1>10, <1>12
<1> HIDE DEF S
<1>13. \A k \in 0..n : k \in S
  BY <1>1, <1>11, <1>12, FiniteInduction
<1>14. n \in S
  BY <1>1, <1>13
<1> QED
  BY <1>5, <1>14 DEF S, n
-----------------------------------------------------------------------------
(***************************************************************************)
(* What the calls of make1cmds() answer.                                   *)
(***************************************************************************)

LEMMA WantedIsNotSkipped ==
  ASSUME NEW a, NEW x
  PROVE  Wanted(a, x) <=> ~Skipped(RuleOf[a], x, new)
<1> DEFINE rule == RuleOf[a]
<1>1. Wanted(a, x) = CASE rule \in NewSrcs \cap ExistingOnly -> x \in new \cup Existing
                       [] rule \in NewSrcs \ ExistingOnly    -> x \in new
                       [] rule \in ExistingOnly \ NewSrcs    -> x \in Existing
                       [] OTHER                              -> TRUE
  BY DEF Wanted
<1>2. CASE rule \in NewSrcs /\ rule \in ExistingOnly
  BY <1>1, <1>2 DEF Skipped
<1>3. CASE rule \in NewSrcs /\ rule \notin ExistingOnly
  BY <1>1, <1>3 DEF Skipped
<1>4. CASE rule \notin NewSrcs /\ rule \in ExistingOnly
  BY <1>1, <1>4 DEF Skipped
<1>5. CASE rule \notin NewSrcs /\ rule \notin ExistingOnly
  BY <1>1, <1>5 DEF Skipped
<1> QED
  BY <1>2, <1>3, <1>4, <1>5

LEMMA GivenIsGivenIn ==
  ASSUME NEW a
  PROVE  Given(a) = GivenIn(Made.cmds, a)
BY DEF Given, GivenIn, SharesOf

\* What is asked for.
CallType == target \in Targets /\ busy \subseteq Actions

\* Whatever is asked, and whatever has been asked before: the target is one of
\* the graph's and the flags are those of actions.  (make1cmds' arguments)
THEOREM CallsTyped == CmdsSpec => []CallType
<1>1. CmdsInit => CallType
  BY DEF CmdsInit, CallType
<1>2. CallType /\ [Ask]_cmdsVars => CallType'
  BY DEF CallType, Ask, cmdsVars
<1> QED
  BY <1>1, <1>2, PTL DEF CmdsSpec

\* What AllRounds says of a whole call.
LEMMA CallAnswered ==
  ASSUME CallType
  PROVE  /\ Made \in [cmds : Seq(CmdSet), running : SUBSET Actions, tooLong : BOOLEAN]
         /\ busy \subseteq Made.running
         /\ DOMAIN Made.cmds = 1..Len(Made.cmds)
         /\ \A k \in 1..Len(Made.cmds) :
              /\ Made.cmds[k].action \in Made.running
              /\ \E i \in Leaders : Made.cmds[k].action = Chain[i]
              /\ CmdFine(Made.cmds, k)
         /\ ~Made.tooLong => /\ Made.running = Covered(Len(Chain))
                             /\ \A i \in Leaders : Given(Chain[i]) = SourcesFor(i)
         /\ Made.tooLong => \E i \in Leaders : Stuck(i)
<1>1. RoundInv(Made, Len(Chain))
  BY AllRounds DEF CallType
<1>2. Leaders \subseteq 1..Len(Chain)
  BY ChainType DEF Leaders, CallType
<1>3. \A i \in Leaders : Given(Chain[i]) = GivenIn(Made.cmds, Chain[i])
  BY GivenIsGivenIn
<1>4. Made.cmds \in Seq(CmdSet)
  BY <1>1 DEF RoundInv
<1> HIDE DEF Made
<1>5. DOMAIN Made.cmds = 1..Len(Made.cmds)
  BY <1>4
<1>6. Leaders \cap (1..Len(Chain)) = Leaders
  BY <1>2
<1> QED
  BY <1>1, <1>3, <1>5, <1>6 DEF RoundInv

\* make1cmds() never drops, repeats or reorders a source, however the actions
\* are grouped (TOGETHER) and the lists are cut (PIECEMEAL), for any number of
\* actions and sources and any length of line.
THEOREM MakeCmdsGivesEverySource == CmdsSpec => []EverySourceGiven
<1>1. CallType => EverySourceGiven
  <2> SUFFICES ASSUME CallType, ~Made.tooLong, NEW i \in Leaders
               PROVE  LET a      == Chain[i]
                          wanted == UNION {{x \in ToSet(SourcesOf[Chain[j]]) : Wanted(a, x)} : j \in Leads(i)}
                      IN  IF RuleOf[a] \in Together
                          THEN /\ ToSet(Given(a)) = {BoundName[x] : x \in wanted}
                               /\ IsInjective(Given(a))
                          ELSE LET W == {k \in DOMAIN SourcesOf[a] : Wanted(a, SourcesOf[a][k])}
                               IN  /\ Len(Given(a)) = Cardinality(W)
                                   /\ \A k \in W : Given(a)[Cardinality({j \in W : j <= k})]
                                                     = BoundName[SourcesOf[a][k]]
    BY DEF EverySourceGiven, Leaders
  <2> DEFINE a == Chain[i]
             rule == RuleOf[a]
             wanted == UNION {{x \in ToSet(SourcesOf[Chain[j]]) : Wanted(a, x)} : j \in Leads(i)}
             W == {k \in DOMAIN SourcesOf[a] : Wanted(a, SourcesOf[a][k])}
             given == Given(a)
  <2>1. given = SourcesFor(i)
    BY CallAnswered
  <2>2. /\ ToSet(SourcesFor(i)) = UNION {NamesOf(Chain[k], rule, new) : k \in Leads(i)}
        /\ rule \in Together => IsInjective(SourcesFor(i))
        /\ rule \notin Together => SourcesFor(i) = Make1List(<<>>, SourcesOf[a], rule, new)
    BY SourcesForNames DEF CallType
  <2>3. \A x : Wanted(a, x) <=> ~Skipped(rule, x, new)
    BY WantedIsNotSkipped
  <2>4. a \in Actions
    BY ChainType DEF CallType, Leaders
  <2> HIDE DEF a, given
  <2>5. CASE rule \in Together
    <3>1. UNION {NamesOf(Chain[k], rule, new) : k \in Leads(i)} = {BoundName[x] : x \in wanted}
      <4> HIDE DEF rule
      <4>1. \A k : NamesOf(Chain[k], rule, new)
                     = {BoundName[x] : x \in {y \in ToSet(SourcesOf[Chain[k]]) : Wanted(a, y)}}
        BY <2>3 DEF NamesOf
      <4> DEFINE names == UNION {NamesOf(Chain[k], rule, new) : k \in Leads(i)}
      <4>2. ASSUME NEW n \in names PROVE \E x \in wanted : n = BoundName[x]
        <5>1. PICK k \in Leads(i) : n \in NamesOf(Chain[k], rule, new)
          OBVIOUS
        <5>3. n \in {BoundName[x] : x \in {y \in ToSet(SourcesOf[Chain[k]]) : Wanted(a, y)}}
          BY ONLY <4>1, <5>1
        <5>2. PICK x \in ToSet(SourcesOf[Chain[k]]) : Wanted(a, x) /\ n = BoundName[x]
          BY ONLY <5>3
        <5> QED
          BY <5>2
      <4>3. ASSUME NEW x \in wanted PROVE BoundName[x] \in names
        <5>1. PICK k \in Leads(i) : x \in ToSet(SourcesOf[Chain[k]]) /\ Wanted(a, x)
          OBVIOUS
        <5>2. BoundName[x] \in NamesOf(Chain[k], rule, new)
          BY <4>1, <5>1
        <5> QED
          BY <5>2
      <4> HIDE DEF names, wanted
      <4>4. names = {BoundName[x] : x \in wanted}
        BY <4>2, <4>3
      <4> QED
        BY <4>4 DEF names
    <3> HIDE DEF rule, wanted
    <3>2. ToSet(given) = {BoundName[x] : x \in wanted} /\ IsInjective(given)
      BY <2>1, <2>2, <2>5, <3>1
    <3> QED
      BY <2>5, <3>2 DEF rule, wanted, a, given
  <2>6. CASE rule \notin Together
    <3>1. SourcesOf[a] \in Seq(Targets)
      BY <2>4, Make1CmdsAssumption
    <3> HIDE DEF rule
    <3> DEFINE V == {k \in DOMAIN SourcesOf[a] : ~Skipped(rule, SourcesOf[a][k], new)}
    <3>2. /\ Len(given) = Cardinality(V)
          /\ \A k \in V : given[Cardinality({j \in V : j <= k})] = BoundName[SourcesOf[a][k]]
      BY <2>1, <2>2, <2>6, <3>1, Make1ListInOrder
    <3>3. V = W
      BY <2>3
    <3> HIDE DEF V, W
    <3>4. /\ Len(given) = Cardinality(W)
          /\ \A k \in W : given[Cardinality({j \in W : j <= k})] = BoundName[SourcesOf[a][k]]
      BY <3>2, <3>3
    <3> QED
      BY <2>6, <3>4 DEF rule, W, a, given
  <2> QED
    BY <2>5, <2>6
<1> QED
  BY <1>1, CallsTyped, PTL

\* Every action of the target starts, once, under its own name or its leader's:
\* the `running' flags after make1cmds() are the ones before and the target's.
THEOREM MakeCmdsStartsActionsOnce == CmdsSpec => []ActionsStartedOnce
<1>1. CallType => ActionsStartedOnce
  <2> SUFFICES ASSUME CallType PROVE ActionsStartedOnce
    OBVIOUS
  <2>1. Covered(Len(Chain)) = busy \cup ToSet(Chain)
    <3>1. /\ Starting \subseteq 1..Len(Chain) /\ DOMAIN Chain = 1..Len(Chain)
      BY ChainType DEF CallType
    <3>2. ToSet(Chain) = {Chain[k] : k \in 1..Len(Chain)}
      BY <3>1 DEF ToSet
    <3>3. ASSUME NEW x \in Covered(Len(Chain)) PROVE x \in busy \cup ToSet(Chain)
      <4>1. CASE \E j \in Starting : j \in 1..Len(Chain) /\ \E k \in Leads(j) : x = Chain[k]
        <5>1. PICK j \in Starting : \E k \in Leads(j) : x = Chain[k]
          BY <4>1
        <5>2. PICK k \in Leads(j) : x = Chain[k]
          BY <5>1
        <5>3. k \in Starting
          BY DEF Leads
        <5> QED
          BY <3>1, <3>2, <5>2, <5>3
      <4> QED
        BY <3>3, <4>1, CoveredIs
    <3>4. ASSUME NEW x \in busy \cup ToSet(Chain) PROVE x \in Covered(Len(Chain))
      <4>1. CASE x \in busy
        BY <4>1, CoveredIs
      <4>2. CASE x \notin busy
        <5>1. PICK k \in 1..Len(Chain) : x = Chain[k]
          BY <3>2, <4>2
        <5>2. k \in Starting /\ k \in Leads(k)
          BY <3>1, <4>2, <5>1 DEF Starting, Leads
        <5> QED
          BY <5>1, <5>2, CoveredIs
      <4> QED
        BY <4>1, <4>2
    <3> QED
      BY <3>3, <3>4
  <2>2. /\ DOMAIN Made.cmds = 1..Len(Made.cmds)
        /\ \A k \in 1..Len(Made.cmds) : \E i \in Leaders : Made.cmds[k].action = Chain[i]
        /\ ~Made.tooLong => Made.running = Covered(Len(Chain))
    BY CallAnswered
  <2> QED
    BY <2>1, <2>2 DEF ActionsStartedOnce, Leaders
<1> QED
  BY <1>1, CallsTyped, PTL

\* Every command fits the line, none of a list is empty, only a PIECEMEAL rule
\* has its list cut, and exit(EXITBAD) is met only where no smaller list is left.
THEOREM MakeCmdsSplitsAsNeeded == CmdsSpec => []SplitAsNeeded
<1>1. CallType => SplitAsNeeded
  <2> SUFFICES ASSUME CallType PROVE SplitAsNeeded
    OBVIOUS
  <2>1. ASSUME NEW k \in DOMAIN Made.cmds
        PROVE  LET c == Made.cmds[k]
               IN  /\ Fits(c.action, c.sources)
                   /\ Given(c.action) # <<>> => c.sources # <<>>
                   /\ RuleOf[c.action] \notin Piecemeal => c.sources = Given(c.action)
    <3>1. CmdFine(Made.cmds, k)
      BY CallAnswered
    <3>2. Given(Made.cmds[k].action) = GivenIn(Made.cmds, Made.cmds[k].action)
      BY GivenIsGivenIn
    <3> HIDE DEF Made
    <3> QED
      BY <3>1, <3>2 DEF CmdFine
  <2>2. ASSUME Made.tooLong
        PROVE  \E i \in Starting \ Led :
                 LET a    == Chain[i]
                     from == UNION {ToSet(SourcesOf[Chain[j]]) : j \in Leads(i)}
                 IN  \/ RuleOf[a] \notin Piecemeal
                     \/ \E x \in from : Wanted(a, x) /\ ~Fits(a, <<BoundName[x]>>)
                     \/ ~Fits(a, <<>>)
    <3>1. PICK i \in Leaders : Stuck(i)
      BY <2>2, CallAnswered
    <3> DEFINE a == Chain[i]
               from == UNION {ToSet(SourcesOf[Chain[j]]) : j \in Leads(i)}
    <3>2. ASSUME NEW j \in 1..Len(SourcesFor(i)), ~Fits(a, <<SourcesFor(i)[j]>>)
          PROVE  \E x \in from : Wanted(a, x) /\ ~Fits(a, <<BoundName[x]>>)
      <4>1. SourcesFor(i)[j] \in UNION {NamesOf(Chain[k], RuleOf[a], new) : k \in Leads(i)}
        <5>1. SourcesFor(i) \in Seq(Names)
          BY SourcesForNames DEF CallType
        <5>2. ToSet(SourcesFor(i)) = UNION {NamesOf(Chain[k], RuleOf[a], new) : k \in Leads(i)}
          BY SourcesForNames DEF CallType
        <5>3. SourcesFor(i)[j] \in ToSet(SourcesFor(i))
          BY <5>1 DEF ToSet
        <5> QED
          BY <5>2, <5>3
      <4>2. PICK k \in Leads(i) : SourcesFor(i)[j] \in NamesOf(Chain[k], RuleOf[a], new)
        BY <4>1
      <4>3. PICK x \in ToSet(SourcesOf[Chain[k]]) : /\ ~Skipped(RuleOf[a], x, new)
                                                   /\ SourcesFor(i)[j] = BoundName[x]
        BY <4>2 DEF NamesOf
      <4>4. x \in from /\ Wanted(a, x)
        BY <4>3, WantedIsNotSkipped
      <4> QED
        BY <3>2, <4>3, <4>4
    <3>3. \/ RuleOf[a] \notin Piecemeal
          \/ \E j \in 1..Len(SourcesFor(i)) : ~Fits(a, <<SourcesFor(i)[j]>>)
          \/ ~Fits(a, <<>>)
      BY <3>1 DEF Stuck
    <3>4. i \in Starting \ Led
      BY DEF Leaders
    <3> HIDE DEF a, from
    <3>5. \/ RuleOf[a] \notin Piecemeal
          \/ \E x \in from : Wanted(a, x) /\ ~Fits(a, <<BoundName[x]>>)
          \/ ~Fits(a, <<>>)
      BY <3>2, <3>3
    <3> QED
      BY <3>4, <3>5 DEF a, from
  <2> QED
    BY <2>1, <2>2 DEF SplitAsNeeded
<1> QED
  BY <1>1, CallsTyped, PTL

\* What Make1 assumes of make1cmds() (CommandsAssumption) of the call asked for.
AnswersAsAssumed ==
  /\ Made.cmds \in Seq([action : Actions, sources : Seq(Names)])
  /\ Made.running \in SUBSET Actions
  /\ busy \subseteq Made.running
  /\ Made.tooLong \in BOOLEAN
  /\ \A k \in DOMAIN Made.cmds :
       Made.cmds[k].action \in (Made.running \ busy) \cap ToSet(Chain)

\* make1cmds() keeps what make1c() relies on: flags are only ever set, and each
\* command is for an action of the target whose flag this very call has set.
THEOREM MakeCmdsAnswersAsAssumed == CmdsSpec => []AnswersAsAssumed
<1>1. CallType => AnswersAsAssumed
  <2> SUFFICES ASSUME CallType PROVE AnswersAsAssumed
    OBVIOUS
  <2>1. /\ Made \in [cmds : Seq(CmdSet), running : SUBSET Actions, tooLong : BOOLEAN]
        /\ busy \subseteq Made.running
        /\ DOMAIN Made.cmds = 1..Len(Made.cmds)
        /\ \A k \in 1..Len(Made.cmds) : /\ Made.cmds[k].action \in Made.running
                                        /\ \E i \in Leaders : Made.cmds[k].action = Chain[i]
    BY CallAnswered
  <2>2. \A i \in Leaders : Chain[i] \in ToSet(Chain) \ busy
    BY DEF Leaders, Starting, ToSet
  <2> HIDE DEF Made
  <2>3. \A k \in DOMAIN Made.cmds :
          Made.cmds[k].action \in (Made.running \ busy) \cap ToSet(Chain)
    BY <2>1, <2>2
  <2> QED
    BY <2>1, <2>3 DEF AnswersAsAssumed, CmdSet
<1> QED
  BY <1>1, CallsTyped, PTL
=============================================================================
