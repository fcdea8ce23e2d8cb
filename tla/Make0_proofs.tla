---------------------------- MODULE Make0_proofs ----------------------------
(***************************************************************************)
(* Proofs about make0(), for every graph rule calls can build.             *)
(***************************************************************************)
EXTENDS Make0Calls, Induction, SequenceTheorems, FiniteSetTheorems

-----------------------------------------------------------------------------
(***************************************************************************)
(* Lists.                                                                  *)
(***************************************************************************)

\* The elements of a list.
LEMMA SetOfList ==
  ASSUME NEW T, NEW s \in Seq(T)
  PROVE  /\ ToSet(s) \subseteq T
         /\ \A x : x \in ToSet(s) <=> \E i \in 1..Len(s) : s[i] = x
BY DEF ToSet

\* Two lists, end to end.
LEMMA ConcatSet ==
  ASSUME NEW T, NEW s \in Seq(T), NEW r \in Seq(T)
  PROVE  s \o r \in Seq(T) /\ ToSet(s \o r) = ToSet(s) \cup ToSet(r)
<1> DEFINE c == s \o r
<1>1. /\ Len(s) \in Nat /\ Len(r) \in Nat
      /\ DOMAIN s = 1..Len(s) /\ DOMAIN r = 1..Len(r)
      /\ c \in Seq(T) /\ DOMAIN c = 1..(Len(s) + Len(r))
      /\ \A i \in 1..(Len(s) + Len(r)) :
           c[i] = IF i <= Len(s) THEN s[i] ELSE r[i - Len(s)]
  OBVIOUS
<1>2. \A j \in 1..Len(r) : /\ j + Len(s) \in 1..(Len(s) + Len(r))
                           /\ c[j + Len(s)] = r[j]
  <2> TAKE j \in 1..Len(r)
  <2>1. j + Len(s) \in 1..(Len(s) + Len(r)) /\ ~(j + Len(s) <= Len(s)) /\ (j + Len(s)) - Len(s) = j
    BY <1>1
  <2> HIDE DEF c
  <2> QED
    BY <1>1, <2>1
<1>3. \A i \in 1..Len(s) : i \in 1..(Len(s) + Len(r)) /\ c[i] = s[i]
  BY <1>1
<1> HIDE DEF c
<1>4. \A i \in 1..(Len(s) + Len(r)) : c[i] \in ToSet(s) \cup ToSet(r)
  <2> TAKE i \in 1..(Len(s) + Len(r))
  <2>1. CASE i <= Len(s)
    BY <1>1, <2>1 DEF ToSet
  <2>2. CASE ~(i <= Len(s))
    <3>1. i - Len(s) \in 1..Len(r)
      BY <1>1, <2>2
    <3> QED
      BY <1>1, <2>2, <3>1 DEF ToSet
  <2> QED
    BY <2>1, <2>2
<1>5. ToSet(c) \subseteq ToSet(s) \cup ToSet(r)
  BY <1>1, <1>4, SetOfList
<1>6. ToSet(s) \subseteq ToSet(c)
  BY <1>1, <1>3, SetOfList
<1>7. ToSet(r) \subseteq ToSet(c)
  BY <1>1, <1>2, SetOfList
<1> QED
  BY <1>1, <1>5, <1>6, <1>7 DEF c

LEMMA AppendedSet ==
  ASSUME NEW T, NEW s \in Seq(T), NEW x \in T
  PROVE  Append(s, x) \in Seq(T) /\ ToSet(Append(s, x)) = ToSet(s) \cup {x}
<1>1. <<x>> \in Seq(T) /\ ToSet(<<x>>) = {x} /\ Append(s, x) = s \o <<x>>
  <2>1. DOMAIN <<x>> = {1} /\ <<x>>[1] = x
    OBVIOUS
  <2>2. ToSet(<<x>>) = {x}
    BY <2>1 DEF ToSet
  <2> QED
    BY <2>2
<1>2. s \o <<x>> \in Seq(T) /\ ToSet(s \o <<x>>) = ToSet(s) \cup ToSet(<<x>>)
  BY <1>1, ConcatSet
<1> QED
  BY <1>1, <1>2

-----------------------------------------------------------------------------
(***************************************************************************)
(* The chains that rule calls make longer.                                 *)
(***************************************************************************)

\* The successive chains of targetlist().
LinkSteps(c, chain, targets, added, T) ==
  /\ c \in [0..Len(targets) -> [Nodes -> Seq(T)]]
  /\ c[0] = chain
  /\ c[Len(targets)] = Linked(chain, targets, added)
  /\ \A i \in 1..Len(targets) : c[i] = [c[i - 1] EXCEPT ![targets[i]] = @ \o added]

LEMMA LinkStepsExist ==
  ASSUME NEW T, NEW chain \in [Nodes -> Seq(T)], NEW targets \in Seq(Nodes), NEW added \in Seq(T)
  PROVE  \E c : LinkSteps(c, chain, targets, added, T)
<1> DEFINE n == Len(targets)
           V == [Nodes -> Seq(T)]
           More(i, done) == [done EXCEPT ![targets[i]] = @ \o added]
           step == [x \in (1..n) \X V |-> More(x[1], x[2])]
           Body(f) == [i \in 0..n |-> IF i = 0 THEN chain ELSE More(i, f[i - 1])]
           linked == CHOOSE f : f = Body(f)
<1>1. n \in Nat /\ \A i \in 1..n : targets[i] \in Nodes
  OBVIOUS
<1>2. \A i \in 1..n, done \in V : More(i, done) \in V
  <2> TAKE i \in 1..n, done \in V
  <2>1. done[targets[i]] \o added \in Seq(T)
    BY <1>1
  <2> HIDE DEF n
  <2> QED
    BY <1>1, <2>1
<1>3. step \in [(1..n) \X V -> V]
  <2> HIDE DEF More, V, n
  <2> QED
    BY <1>2
<1>4. PICK f : Follows(f, n, V, chain, step)
  <2> HIDE DEF n, step
  <2>1. Steps(n, V, chain, step)
    BY <1>1, <1>3 DEF Steps
  <2> QED
    BY <2>1, PrimitiveRecursion
<1> HIDE DEF n
<1>5. /\ f \in [0..n -> V]
      /\ f = [i \in 0..n |-> IF i = 0 THEN chain ELSE step[<<i, f[i - 1]>>]]
  <2> HIDE DEF step, V
  <2> QED
    BY <1>4 DEF Follows
<1>6. ASSUME NEW i \in 1..n PROVE step[<<i, f[i - 1]>>] = More(i, f[i - 1])
  <2>1. i - 1 \in 0..n
    BY <1>1
  <2>2. f[i - 1] \in V
    <3> HIDE DEF step, More, V
    <3> QED
      BY <1>5, <2>1
  <2> HIDE DEF More, V
  <2> QED
    BY <2>2
<1>7. f = Body(f)
  <2> HIDE DEF step, More, V
  <2>1. \A i \in 0..n : i # 0 => i \in 1..n
    BY <1>1
  <2> QED
    BY <1>5, <1>6, <2>1
<1>8. linked = Body(linked)
  <2> HIDE DEF Body
  <2> QED
    BY <1>7
<1>9. Linked(chain, targets, added) = linked[n]
  BY DEF Linked, n
<1> HIDE DEF linked
<1>10. linked[0] = chain /\ \A i \in 1..n : linked[i] = More(i, linked[i - 1])
  <2> HIDE DEF More
  <2> QED
    BY <1>1, <1>8
<1> DEFINE S == {i \in 0..n : linked[i] \in V}
<1>11. \A i \in 0..n : i \in S
  <2>1. 0 \in S
    BY <1>1, <1>10
  <2>2. \A i \in 1..n : i - 1 \in S => i \in S
    <3> HIDE DEF More, V
    <3> QED
      BY <1>1, <1>2, <1>10
  <2> HIDE DEF S
  <2> QED
    BY <1>1, <2>1, <2>2, FiniteInduction
<1>12. linked \in [0..n -> V]
  <2> HIDE DEF More, V
  <2> QED
    BY <1>8, <1>11
<1> QED
  BY <1>1, <1>9, <1>10, <1>12 DEF n, LinkSteps

\* The chain of each target has what is added at its end, no other changes.
LinksMore(d, chain, targets, added) ==
  \A x \in Nodes :
    /\ x \notin ToSet(targets) => d[x] = chain[x]
    /\ ToSet(d[x]) = ToSet(chain[x]) \cup (IF x \in ToSet(targets) THEN ToSet(added) ELSE {})

LEMMA LinkedIs ==
  ASSUME NEW T, NEW chain \in [Nodes -> Seq(T)], NEW targets \in Seq(Nodes), NEW added \in Seq(T)
  PROVE  /\ Linked(chain, targets, added) \in [Nodes -> Seq(T)]
         /\ LinksMore(Linked(chain, targets, added), chain, targets, added)
<1> DEFINE n == Len(targets)
<1>1. PICK c : LinkSteps(c, chain, targets, added, T)
  BY LinkStepsExist
<1>2. /\ n \in Nat /\ \A i \in 1..n : targets[i] \in Nodes
      /\ DOMAIN targets = 1..n
  OBVIOUS
<1>3. /\ c \in [0..n -> [Nodes -> Seq(T)]]
      /\ c[0] = chain
      /\ c[n] = Linked(chain, targets, added)
      /\ \A i \in 1..n : c[i] = [c[i - 1] EXCEPT ![targets[i]] = @ \o added]
  BY <1>1 DEF LinkSteps
<1> DEFINE V == [Nodes -> Seq(T)]
<1> HIDE DEF n
<1>a. c \in [0..n -> V]
  BY <1>3
<1> DEFINE Given(i, x) == \E j \in 1..i : targets[j] = x
           S == {i \in 0..n : \A x \in Nodes :
                   /\ ~Given(i, x) => c[i][x] = chain[x]
                   /\ ToSet(c[i][x]) = ToSet(chain[x]) \cup (IF Given(i, x) THEN ToSet(added) ELSE {})}
<1>4. \A i \in 0..n : i \in S
  <2>1. 0 \in S
    BY <1>2, <1>3
  <2>2. ASSUME NEW i \in 1..n, i - 1 \in S PROVE i \in S
    <3>1. i - 1 \in 0..n /\ i \in 0..n /\ c[i - 1] \in V
      <4>1. i - 1 \in 0..n /\ i \in 0..n
        BY <1>2
      <4> HIDE DEF V
      <4> QED
        BY <1>a, <4>1
    <3>2. ASSUME NEW x \in Nodes
          PROVE  /\ ~Given(i, x) => c[i][x] = chain[x]
                 /\ ToSet(c[i][x]) = ToSet(chain[x]) \cup (IF Given(i, x) THEN ToSet(added) ELSE {})
      <4>1. Given(i, x) <=> Given(i - 1, x) \/ targets[i] = x
        <5>1. \A j \in 1..i : j \in 1..(i - 1) \/ j = i
          BY <1>2
        <5>2. \A j \in 1..(i - 1) : j \in 1..i
          BY <1>2
        <5>3. i \in 1..i
          BY <1>2
        <5> QED
          BY <5>1, <5>2, <5>3
      <4>2. /\ ~Given(i - 1, x) => c[i - 1][x] = chain[x]
            /\ ToSet(c[i - 1][x]) = ToSet(chain[x]) \cup (IF Given(i - 1, x) THEN ToSet(added) ELSE {})
        BY <2>2
      <4>3. c[i][x] = IF targets[i] = x THEN c[i - 1][x] \o added ELSE c[i - 1][x]
        <5>1. c[i] = [c[i - 1] EXCEPT ![targets[i]] = @ \o added]
          BY <1>3
        <5> QED
          BY <3>1, <5>1
      <4>4. ToSet(c[i - 1][x] \o added) = ToSet(c[i - 1][x]) \cup ToSet(added)
        BY <3>1, ConcatSet
      <4> HIDE DEF Given
      <4> QED
        BY <4>1, <4>2, <4>3, <4>4
    <3> HIDE DEF Given
    <3> QED
      BY <3>1, <3>2
  <2> HIDE DEF S
  <2> QED
    BY <1>2, <2>1, <2>2, FiniteInduction
<1>5. n \in S /\ \A x : Given(n, x) <=> x \in ToSet(targets)
  <2>1. n \in 0..n
    BY <1>2
  <2>2. \A x : Given(n, x) <=> x \in ToSet(targets)
    BY <1>2 DEF ToSet
  <2> QED
    BY <1>4, <2>1, <2>2
<1> HIDE DEF Given
<1>6. \A x \in Nodes :
              /\ x \notin ToSet(targets) => c[n][x] = chain[x]
              /\ ToSet(c[n][x]) =
                   ToSet(chain[x]) \cup (IF x \in ToSet(targets) THEN ToSet(added) ELSE {})
  BY <1>5
<1>7. c[n] \in V
  <2>1. n \in 0..n
    BY <1>2
  <2> HIDE DEF V
  <2> QED
    BY <1>a, <2>1
<1> HIDE DEF V
<1>8. LinksMore(c[n], chain, targets, added)
  BY <1>6 DEF LinksMore
<1> QED
  BY <1>3, <1>7, <1>8 DEF V

-----------------------------------------------------------------------------
(***************************************************************************)
(* Graphs, and what rule calls do to them.                                 *)
(***************************************************************************)

LEMMA NodesOfFiles ==
  /\ Files \subseteq Nodes /\ InternalNodes \subseteq Nodes
  /\ \A f \in Files : /\ IncludeNode[f] \in Nodes /\ IncludeNode[f] \in InternalNodes
                      /\ IncludeNode[f] \notin Files
  /\ \A f, e \in Files : IncludeNode[f] = IncludeNode[e] => f = e
  /\ \A x \in Nodes : x \in Files \/ \E f \in Files : x = IncludeNode[f]
  /\ \A x \in InternalNodes : x \notin Files /\ \E f \in Files : x = IncludeNode[f]
  /\ NoTarget \notin Nodes
BY DepGraphAssumption DEF Nodes, InternalNodes, IsInjective

LEMMA GraphFields ==
  ASSUME NEW h \in Graphs
  PROVE  /\ h.depends \in [Nodes -> Seq(Nodes)] /\ h.dependants \in [Nodes -> Seq(Nodes)]
         /\ h.rebuilds \in [Nodes -> Seq(Nodes)] /\ h.actions \in [Nodes -> Seq(DOMAIN ActionTargets)]
         /\ h.includes \in [Nodes -> Nodes \cup {NoTarget}] /\ h.flags \in [Nodes -> SUBSET TargetFlags]
         /\ h.disk \in [Files -> Nat] /\ h.binding \in [Nodes -> Bindings] /\ h.time \in [Nodes -> Nat]
         /\ h.leaf \in [Nodes -> Nat] /\ h.fate \in [Nodes -> Fates]
         /\ h.cantfind \in Nat /\ h.cantmake \in Nat
BY DEF Graphs

\* What n depends on.
Sources(h, n) == ToSet(h.depends[n])

\* Nothing is bound or decided in between.
SameButChains(h, k) ==
  /\ k.disk = h.disk /\ k.binding = h.binding /\ k.time = h.time /\ k.leaf = h.leaf
  /\ k.fate = h.fate /\ k.cantfind = h.cantfind /\ k.cantmake = h.cantmake

\* Only chains of dependencies, dependants and includes change.
SameButLinks(h, k) ==
  /\ SameButChains(h, k)
  /\ k.flags = h.flags /\ k.rebuilds = h.rebuilds /\ k.actions = h.actions

\* t includes the files of F, too.
IncludesMore(h, k, t, F) ==
  /\ k \in Graphs
  /\ SameButLinks(h, k)
  /\ k.includes = [h.includes EXCEPT ![t] = IncludeNode[t]]
  /\ \A x \in Nodes : /\ x # IncludeNode[t] => k.depends[x] = h.depends[x]
                      /\ Sources(k, x) = Sources(h, x) \cup (IF x = IncludeNode[t] THEN F ELSE {})

LEMMA TargetIncludeIs ==
  ASSUME NEW h \in Graphs, NEW t \in Files, NEW x \in Files
  PROVE  IncludesMore(h, TargetInclude(h, t, x), t, {x})
<1> DEFINE i == IncludeNode[t]
           more == Append(h.depends[i], x)
           k == [h EXCEPT !.includes = [h.includes EXCEPT ![t] = i],
                          !.depends = [h.depends EXCEPT ![i] = more]]
<1>1. i \in Nodes /\ t \in Nodes /\ x \in Nodes
  BY NodesOfFiles
<1>2. /\ h.depends \in [Nodes -> Seq(Nodes)]
      /\ h.includes \in [Nodes -> Nodes \cup {NoTarget}]
  BY GraphFields
<1>3. more \in Seq(Nodes) /\ ToSet(more) = ToSet(h.depends[i]) \cup {x}
  BY <1>1, <1>2, AppendedSet
<1>4. TargetInclude(h, t, x) = k
  BY DEF TargetInclude
<1> HIDE DEF i, more
<1>5. /\ [h.includes EXCEPT ![t] = i] \in [Nodes -> Nodes \cup {NoTarget}]
      /\ [h.depends EXCEPT ![i] = more] \in [Nodes -> Seq(Nodes)]
  BY <1>1, <1>2, <1>3
<1>6. k \in Graphs
  BY <1>5 DEF Graphs
<1>7. SameButLinks(h, k)
  BY DEF SameButLinks, SameButChains, Graphs
<1>8. k.includes = [h.includes EXCEPT ![t] = i] /\ k.depends = [h.depends EXCEPT ![i] = more]
  BY DEF Graphs
<1>9. ASSUME NEW y \in Nodes
      PROVE  /\ y # i => k.depends[y] = h.depends[y]
             /\ Sources(k, y) = Sources(h, y) \cup (IF y = i THEN {x} ELSE {})
  <2> HIDE DEF k
  <2> QED
    BY <1>1, <1>2, <1>3, <1>8 DEF Sources
<1> QED
  BY <1>4, <1>6, <1>7, <1>8, <1>9 DEF IncludesMore, i

\* A list of one.
LEMMA OneOnly ==
  ASSUME NEW T, NEW x \in T
  PROVE  <<x>> \in Seq(T) /\ ToSet(<<x>>) = {x} /\ Len(<<x>>) = 1 /\ <<x>>[1] = x
<1>1. DOMAIN <<x>> = {1} /\ <<x>>[1] = x
  OBVIOUS
<1>2. ToSet(<<x>>) = {x}
  BY <1>1 DEF ToSet
<1> QED
  BY <1>2

\* The reverse links are links.
LEMMA EnterIs ==
  ASSUME NEW h \in Graphs, NEW targets \in Seq(Nodes), NEW sources \in Seq(Nodes)
  PROVE  LET k == Enter(h, targets, sources)
         IN  /\ k \in Graphs /\ SameButLinks(h, k)
             /\ k.depends = h.depends /\ k.includes = h.includes
<1> DEFINE D == Linked(h.dependants, sources, targets)
           k == [h EXCEPT !.dependants = D]
<1>1. D \in [Nodes -> Seq(Nodes)]
  <2>1. h.dependants \in [Nodes -> Seq(Nodes)]
    BY GraphFields
  <2> QED
    BY <2>1, LinkedIs
<1>2. Enter(h, targets, sources) = k
  BY DEF Enter
<1> HIDE DEF D
<1>3. k \in Graphs /\ SameButLinks(h, k) /\ k.depends = h.depends /\ k.includes = h.includes
  BY <1>1 DEF Graphs, SameButLinks, SameButChains
<1> QED
  BY <1>2, <1>3

LEMMA IncludesIs ==
  ASSUME NEW h \in Graphs, NEW t \in Files, NEW sources \in Seq(Files)
  PROVE  IncludesMore(h, Includes(h, <<t>>, sources), t, ToSet(sources))
<1> DEFINE i == IncludeNode[t]
           inc == [n \in Nodes |-> IF n \in ToSet(<<t>>) THEN IncludeNode[n] ELSE h.includes[n]]
           nodes == [j \in DOMAIN <<t>> |-> IncludeNode[<<t>>[j]]]
           D == Linked(h.depends, nodes, sources)
           k == [h EXCEPT !.includes = inc, !.depends = D]
<1>1. i \in Nodes /\ t \in Nodes /\ Files \subseteq Nodes
  BY NodesOfFiles
<1>2. /\ h.depends \in [Nodes -> Seq(Nodes)]
      /\ h.includes \in [Nodes -> Nodes \cup {NoTarget}]
  BY GraphFields
<1>3. ToSet(<<t>>) = {t} /\ <<t>> \in Seq(Nodes)
  BY <1>1, OneOnly
<1>4. sources \in Seq(Nodes)
  BY <1>1
<1>5. nodes = <<i>>
  OBVIOUS
<1>6. inc = [h.includes EXCEPT ![t] = i]
  BY <1>1, <1>2, <1>3
<1>7. inc \in [Nodes -> Nodes \cup {NoTarget}]
  <2> HIDE DEF inc
  <2> QED
    BY <1>1, <1>2, <1>6
<1>8. /\ D \in [Nodes -> Seq(Nodes)]
      /\ \A y \in Nodes : /\ y # i => D[y] = h.depends[y]
                          /\ ToSet(D[y]) = ToSet(h.depends[y]) \cup (IF y = i THEN ToSet(sources) ELSE {})
  <2>1. <<i>> \in Seq(Nodes) /\ ToSet(<<i>>) = {i}
    BY <1>1, OneOnly
  <2>2. /\ Linked(h.depends, <<i>>, sources) \in [Nodes -> Seq(Nodes)]
        /\ \A y \in Nodes :
              /\ y \notin ToSet(<<i>>) => Linked(h.depends, <<i>>, sources)[y] = h.depends[y]
              /\ ToSet(Linked(h.depends, <<i>>, sources)[y]) =
                   ToSet(h.depends[y]) \cup (IF y \in ToSet(<<i>>) THEN ToSet(sources) ELSE {})
    <3>1. LinksMore(Linked(h.depends, <<i>>, sources), h.depends, <<i>>, sources)
      BY <1>2, <1>4, <2>1, LinkedIs
    <3>2. Linked(h.depends, <<i>>, sources) \in [Nodes -> Seq(Nodes)]
      BY <1>2, <1>4, <2>1, LinkedIs
    <3> QED
      BY <3>1, <3>2 DEF LinksMore
  <2> HIDE DEF i, nodes
  <2> QED
    BY <1>5, <2>1, <2>2
<1>9. Includes(h, <<t>>, sources) = Enter(k, <<t>>, sources)
  BY DEF Includes
<1> HIDE DEF D, inc
<1>10. /\ k \in Graphs /\ SameButLinks(h, k)
       /\ k.depends = D /\ k.includes = inc
  BY <1>7, <1>8 DEF Graphs, SameButLinks, SameButChains
<1> DEFINE e == Enter(k, <<t>>, sources)
<1>11. /\ e \in Graphs /\ SameButLinks(k, e)
       /\ e.depends = k.depends /\ e.includes = k.includes
  <2> HIDE DEF k
  <2> QED
    BY <1>3, <1>4, <1>10, EnterIs
<1> HIDE DEF k, e
<1>12. SameButLinks(h, e)
  BY <1>10, <1>11 DEF SameButLinks, SameButChains
<1>13. IncludesMore(h, e, t, ToSet(sources))
  BY <1>6, <1>8, <1>10, <1>11, <1>12 DEF IncludesMore, Sources, i
<1> QED
  BY <1>9, <1>13 DEF e

\* A sequence of one call's arguments: what DEPENDS, REBUILDS, the flag rules
\* and a rule with actions do.
LEMMA DependsIs ==
  ASSUME NEW h \in Graphs, NEW t \in Files, NEW s \in Files
  PROVE  LET k == Depends(h, <<t>>, <<s>>)
         IN  /\ k \in Graphs /\ SameButLinks(h, k) /\ k.includes = h.includes
             /\ \A x \in Nodes : Sources(k, x) \subseteq Sources(h, x) \cup {s}
             /\ \A x \in Nodes : Sources(h, x) \subseteq Sources(k, x)
<1> DEFINE D == Linked(h.depends, <<t>>, <<s>>)
           b == [h EXCEPT !.depends = D]
           k == Enter(b, <<t>>, <<s>>)
<1>1. t \in Nodes /\ s \in Nodes
  BY NodesOfFiles
<1>2. <<t>> \in Seq(Nodes) /\ <<s>> \in Seq(Nodes) /\ ToSet(<<s>>) = {s}
  BY <1>1, OneOnly
<1>3. h.depends \in [Nodes -> Seq(Nodes)]
  BY GraphFields
<1>4. D \in [Nodes -> Seq(Nodes)] /\ LinksMore(D, h.depends, <<t>>, <<s>>)
  BY <1>2, <1>3, LinkedIs
<1>5. Depends(h, <<t>>, <<s>>) = k
  BY DEF Depends
<1> HIDE DEF D
<1>6. b \in Graphs /\ SameButLinks(h, b) /\ b.depends = D /\ b.includes = h.includes
  BY <1>4 DEF Graphs, SameButLinks, SameButChains
<1> HIDE DEF b
<1>7. /\ k \in Graphs /\ SameButLinks(b, k)
      /\ k.depends = b.depends /\ k.includes = b.includes
  BY <1>2, <1>6, EnterIs
<1> HIDE DEF k
<1>8. SameButLinks(h, k)
  BY <1>6, <1>7 DEF SameButLinks, SameButChains
<1>9. \A x \in Nodes : /\ Sources(k, x) \subseteq Sources(h, x) \cup {s}
                       /\ Sources(h, x) \subseteq Sources(k, x)
  BY <1>2, <1>4, <1>6, <1>7 DEF LinksMore, Sources
<1> QED
  BY <1>5, <1>6, <1>7, <1>8, <1>9

LEMMA RebuildsIs ==
  ASSUME NEW h \in Graphs, NEW t \in Files, NEW s \in Files
  PROVE  LET k == Rebuilds(h, <<t>>, <<s>>)
         IN  /\ k \in Graphs /\ SameButChains(h, k) /\ k.includes = h.includes
             /\ k.depends = h.depends /\ k.flags = h.flags /\ k.actions = h.actions
<1> DEFINE D == Linked(h.rebuilds, <<t>>, <<s>>)
           k == [h EXCEPT !.rebuilds = D]
<1>1. t \in Nodes /\ s \in Nodes
  BY NodesOfFiles
<1>2. <<t>> \in Seq(Nodes) /\ <<s>> \in Seq(Nodes)
  BY <1>1, OneOnly
<1>3. h.rebuilds \in [Nodes -> Seq(Nodes)]
  BY GraphFields
<1>4. D \in [Nodes -> Seq(Nodes)]
  BY <1>2, <1>3, LinkedIs
<1>5. Rebuilds(h, <<t>>, <<s>>) = k
  BY DEF Rebuilds
<1> HIDE DEF D
<1>6. /\ k \in Graphs /\ SameButChains(h, k) /\ k.includes = h.includes
      /\ k.depends = h.depends /\ k.flags = h.flags /\ k.actions = h.actions
  BY <1>4 DEF Graphs, SameButChains
<1> QED
  BY <1>5, <1>6

LEMMA SetFlagIs ==
  ASSUME NEW h \in Graphs, NEW t \in Files, NEW flag \in TargetFlags
  PROVE  LET k == SetFlag(h, <<t>>, flag)
         IN  /\ k \in Graphs /\ SameButChains(h, k) /\ k.includes = h.includes
             /\ k.depends = h.depends /\ k.rebuilds = h.rebuilds /\ k.actions = h.actions
             /\ \A x \in Nodes : h.flags[x] \subseteq k.flags[x]
<1> DEFINE F == [n \in Nodes |-> IF n \in ToSet(<<t>>) THEN h.flags[n] \cup {flag} ELSE h.flags[n]]
           k == [h EXCEPT !.flags = F]
<1>1. h.flags \in [Nodes -> SUBSET TargetFlags]
  BY GraphFields
<1>2. F \in [Nodes -> SUBSET TargetFlags] /\ \A x \in Nodes : h.flags[x] \subseteq F[x]
  BY <1>1
<1>3. SetFlag(h, <<t>>, flag) = k
  BY DEF SetFlag
<1> HIDE DEF F
<1>4. /\ k \in Graphs /\ SameButChains(h, k) /\ k.includes = h.includes
      /\ k.depends = h.depends /\ k.rebuilds = h.rebuilds /\ k.actions = h.actions
      /\ k.flags = F
  BY <1>2 DEF Graphs, SameButChains
<1> QED
  BY <1>2, <1>3, <1>4

\* Files are depended on and included, and nothing that was is forgotten.
LinksGrow(h, k) ==
  /\ \A x \in Nodes : /\ Sources(h, x) \subseteq Sources(k, x)
                      /\ Sources(k, x) \subseteq Sources(h, x) \cup Files
  /\ \A f \in Files : k.includes[f] \in {h.includes[f], IncludeNode[f]}
  /\ \A x \in InternalNodes : k.includes[x] = h.includes[x]

\* Two targets that include each other.
Paired(k, x, y) ==
  /\ k.includes[x] = IncludeNode[x] /\ k.includes[y] = IncludeNode[y]
  /\ y \in Sources(k, IncludeNode[x]) /\ x \in Sources(k, IncludeNode[y])

LEMMA IncludesMoreGrows ==
  ASSUME NEW h \in Graphs, NEW k, NEW t \in Files, NEW F \in SUBSET Files, IncludesMore(h, k, t, F)
  PROVE  k \in Graphs /\ SameButLinks(h, k) /\ LinksGrow(h, k)
<1>1. h.includes \in [Nodes -> Nodes \cup {NoTarget}]
  BY GraphFields
<1>2. \A f \in Files : k.includes[f] \in {h.includes[f], IncludeNode[f]}
  BY <1>1, NodesOfFiles DEF IncludesMore
<1>3. \A x \in InternalNodes : k.includes[x] = h.includes[x]
  BY <1>1, NodesOfFiles DEF IncludesMore
<1>4. \A x \in Nodes : /\ Sources(h, x) \subseteq Sources(k, x)
                       /\ Sources(k, x) \subseteq Sources(h, x) \cup Files
  BY DEF IncludesMore
<1> QED
  BY <1>2, <1>3, <1>4 DEF IncludesMore, LinksGrow

LEMMA LinksGrowOn ==
  ASSUME NEW h, NEW k, NEW b, SameButLinks(h, k), SameButLinks(k, b), LinksGrow(h, k), LinksGrow(k, b)
  PROVE  SameButLinks(h, b) /\ LinksGrow(h, b)
<1>1. SameButLinks(h, b)
  BY DEF SameButLinks, SameButChains
<1>2. LinksGrow(h, b)
  BY DEF LinksGrow
<1> QED
  BY <1>1, <1>2

LEMMA PairIs ==
  ASSUME NEW h \in Graphs, NEW x \in Files, NEW y \in Files
  PROVE  LET k == Pair(h, x, y)
         IN  k \in Graphs /\ SameButLinks(h, k) /\ LinksGrow(h, k) /\ Paired(k, x, y)
<1> DEFINE b == TargetInclude(h, y, x)
           k == TargetInclude(b, x, y)
<1>1. IncludesMore(h, b, y, {x})
  BY TargetIncludeIs
<1>2. Pair(h, x, y) = k
  BY DEF Pair
<1> HIDE DEF b
<1>3. b \in Graphs /\ SameButLinks(h, b) /\ LinksGrow(h, b)
  BY <1>1, IncludesMoreGrows
<1>4. IncludesMore(b, k, x, {y})
  BY <1>3, TargetIncludeIs
<1> HIDE DEF k
<1>5. k \in Graphs /\ SameButLinks(b, k) /\ LinksGrow(b, k)
  BY <1>3, <1>4, IncludesMoreGrows
<1>6. SameButLinks(h, k) /\ LinksGrow(h, k)
  BY <1>3, <1>5, LinksGrowOn
<1>7. Paired(k, x, y)
  <2>1. /\ IncludeNode[x] \in Nodes /\ IncludeNode[y] \in Nodes /\ x \in Nodes /\ y \in Nodes
        /\ b.includes \in [Nodes -> Nodes \cup {NoTarget}]
        /\ h.includes \in [Nodes -> Nodes \cup {NoTarget}]
    BY <1>3, NodesOfFiles, GraphFields
  <2>2. k.includes[x] = IncludeNode[x] /\ k.includes[y] = IncludeNode[y]
    BY <1>1, <1>4, <2>1 DEF IncludesMore
  <2>3. y \in Sources(k, IncludeNode[x])
    BY <1>4, <2>1 DEF IncludesMore
  <2>4. x \in Sources(k, IncludeNode[y])
    BY <1>1, <1>4, <2>1 DEF IncludesMore
  <2> QED
    BY <2>2, <2>3, <2>4 DEF Paired
<1> QED
  BY <1>2, <1>5, <1>6, <1>7

LEMMA PairedStays ==
  ASSUME NEW h \in Graphs, NEW k \in Graphs, LinksGrow(h, k), NEW x \in Files, NEW y \in Files, Paired(h, x, y)
  PROVE  Paired(k, x, y)
BY NodesOfFiles DEF LinksGrow, Paired

\* What a call of a rule with actions makes of the graph.
CallsRule(h, k, a) ==
  /\ k \in Graphs
  /\ SameButChains(h, k) /\ k.flags = h.flags /\ k.rebuilds = h.rebuilds
  /\ LinksGrow(h, k)
  /\ LinksMore(k.actions, h.actions, ActionTargets[a], <<a>>)
  /\ \A i \in 2..Len(ActionTargets[a]) : Paired(k, ActionTargets[a][1], ActionTargets[a][i])

\* The successive graphs of the loop in evaluate_rule().
PairSteps(c, h, ts) ==
  /\ c \in [0..Len(ts) -> Graphs]
  /\ c[0] = h
  /\ \A i \in 1..Len(ts) : c[i] = IF i < 2 THEN h ELSE Pair(c[i - 1], ts[1], ts[i])

LEMMA PairStepsExist ==
  ASSUME NEW h \in Graphs, NEW a \in DOMAIN ActionTargets
  PROVE  \E c : /\ PairSteps(c, h, ActionTargets[a])
                /\ CallRule(h, a) = [c[Len(ActionTargets[a])] EXCEPT
                                       !.actions = Linked(@, ActionTargets[a], <<a>>)]
<1> DEFINE ts == ActionTargets[a]
           n == Len(ts)
           Then(i, done) == IF i < 2 THEN h ELSE Pair(done, ts[1], ts[i])
           step == [x \in (1..n) \X Graphs |-> Then(x[1], x[2])]
           Body(f) == [i \in 0..n |-> IF i < 2 THEN h ELSE Pair(f[i - 1], ts[1], ts[i])]
           paired == CHOOSE f : f = Body(f)
<1>1. n \in Nat /\ \A i \in 1..n : ts[i] \in Files
  BY DepGraphAssumption
<1>2. \A i \in 1..n, done \in Graphs : Then(i, done) \in Graphs
  <2> TAKE i \in 1..n, done \in Graphs
  <2>1. CASE i < 2
    BY <2>1
  <2>2. CASE ~(i < 2)
    <3>1. ts[1] \in Files /\ ts[i] \in Files
      <4>1. 1 \in 1..n
        BY <1>1, <2>2
      <4> HIDE DEF ts, n
      <4> QED
        BY <1>1, <4>1
    <3> HIDE DEF ts, n
    <3>2. Pair(done, ts[1], ts[i]) \in Graphs
      BY <3>1, PairIs
    <3> QED
      BY <2>2, <3>2
  <2> QED
    BY <2>1, <2>2
<1>3. step \in [(1..n) \X Graphs -> Graphs]
  <2> HIDE DEF Then, n
  <2> QED
    BY <1>2
<1>4. PICK f : Follows(f, n, Graphs, h, step)
  <2> HIDE DEF n, step
  <2>1. Steps(n, Graphs, h, step)
    BY <1>1, <1>3 DEF Steps
  <2> QED
    BY <2>1, PrimitiveRecursion
<1>5. /\ f \in [0..n -> Graphs]
      /\ f = [i \in 0..n |-> IF i = 0 THEN h ELSE step[<<i, f[i - 1]>>]]
  <2> HIDE DEF step, n
  <2> QED
    BY <1>4 DEF Follows
<1> HIDE DEF n
<1>6. ASSUME NEW i \in 1..n PROVE step[<<i, f[i - 1]>>] = Then(i, f[i - 1])
  <2>1. i - 1 \in 0..n
    BY <1>1
  <2>2. f[i - 1] \in Graphs
    <3> HIDE DEF step, Then
    <3> QED
      BY <1>5, <2>1
  <2> HIDE DEF Then
  <2> QED
    BY <2>2
<1>7. f = Body(f)
  <2>1. \A i \in 0..n : i # 0 => i \in 1..n
    BY <1>1
  <2>2. \A i \in 0..n : i = 0 => i < 2
    OBVIOUS
  <2>3. f = [i \in 0..n |-> IF i = 0 THEN h ELSE Then(i, f[i - 1])]
    <3> HIDE DEF step, Then
    <3> QED
      BY <1>5, <1>6, <2>1
  <2>4. \A i \in 0..n : (IF i = 0 THEN h ELSE Then(i, f[i - 1])) = (IF i < 2 THEN h ELSE Pair(f[i - 1], ts[1], ts[i]))
    <3> HIDE DEF ts
    <3> QED
      BY <2>2
  <2> HIDE DEF step, ts, Then
  <2> QED
    BY <2>3, <2>4
<1>8. paired = Body(paired)
  <2> HIDE DEF Body
  <2> QED
    BY <1>7
<1>9. CallRule(h, a) = [paired[n] EXCEPT !.actions = Linked(@, ts, <<a>>)]
  BY DEF CallRule, n
<1> HIDE DEF paired
<1>10. paired[0] = h /\ \A i \in 1..n : paired[i] = Then(i, paired[i - 1])
  <2> HIDE DEF ts
  <2>1. \A i \in 0..n : paired[i] = IF i < 2 THEN h ELSE Pair(paired[i - 1], ts[1], ts[i])
    BY <1>8
  <2> QED
    BY <1>1, <2>1
<1> DEFINE S == {i \in 0..n : paired[i] \in Graphs}
<1>11. \A i \in 0..n : i \in S
  <2>1. 0 \in S
    BY <1>1, <1>10
  <2>2. \A i \in 1..n : i - 1 \in S => i \in S
    <3> HIDE DEF Then
    <3> QED
      BY <1>1, <1>2, <1>10
  <2> HIDE DEF S
  <2> QED
    BY <1>1, <2>1, <2>2, FiniteInduction
<1>12. paired \in [0..n -> Graphs]
  <2> HIDE DEF ts
  <2> QED
    BY <1>8, <1>11
<1>13. PairSteps(paired, h, ts)
  BY <1>10, <1>12 DEF PairSteps, n
<1> QED
  BY <1>9, <1>13 DEF n

LEMMA CallRuleIs ==
  ASSUME NEW h \in Graphs, NEW a \in DOMAIN ActionTargets
  PROVE  CallsRule(h, CallRule(h, a), a)
<1> DEFINE ts == ActionTargets[a]
           n == Len(ts)
<1>1. PICK c : PairSteps(c, h, ts) /\ CallRule(h, a) = [c[n] EXCEPT !.actions = Linked(@, ts, <<a>>)]
  BY PairStepsExist
<1>2. n \in Nat /\ \A i \in 1..n : ts[i] \in Files
  BY DepGraphAssumption
<1>3. ts \in Seq(Nodes)
  BY DepGraphAssumption, NodesOfFiles
<1>4. /\ c \in [0..n -> Graphs] /\ c[0] = h
      /\ \A i \in 1..n : c[i] = IF i < 2 THEN h ELSE Pair(c[i - 1], ts[1], ts[i])
  BY <1>1 DEF PairSteps
<1> HIDE DEF ts, n
<1> DEFINE S == {i \in 0..n : /\ SameButLinks(h, c[i]) /\ LinksGrow(h, c[i])
                              /\ \A j \in 2..i : Paired(c[i], ts[1], ts[j])}
<1>5. SameButLinks(h, h) /\ LinksGrow(h, h)
  BY DEF SameButLinks, SameButChains, LinksGrow
<1>6. \A i \in 0..n : i \in S
  <2>1. 0 \in S
    BY <1>2, <1>4, <1>5
  <2>2. ASSUME NEW i \in 1..n, i - 1 \in S PROVE i \in S
    <3>1. i \in 0..n /\ i - 1 \in 0..n /\ c[i - 1] \in Graphs /\ c[i] \in Graphs
      BY <1>2, <1>4
    <3>2. CASE i < 2
      BY <1>2, <1>4, <1>5, <3>1, <3>2
    <3>3. CASE ~(i < 2)
      <4>1. 1 \in 1..n /\ ts[1] \in Files /\ ts[i] \in Files
        BY <1>2, <3>3
      <4>2. c[i] = Pair(c[i - 1], ts[1], ts[i])
        BY <1>4, <3>3
      <4>3. SameButLinks(c[i - 1], c[i]) /\ LinksGrow(c[i - 1], c[i]) /\ Paired(c[i], ts[1], ts[i])
        BY <3>1, <4>1, <4>2, PairIs
      <4>4. SameButLinks(h, c[i - 1]) /\ LinksGrow(h, c[i - 1]) /\ \A j \in 2..(i - 1) : Paired(c[i - 1], ts[1], ts[j])
        BY <2>2
      <4>5. SameButLinks(h, c[i]) /\ LinksGrow(h, c[i])
        BY <4>3, <4>4, LinksGrowOn
      <4>6. ASSUME NEW j \in 2..i PROVE Paired(c[i], ts[1], ts[j])
        <5>1. CASE j = i
          BY <4>3, <5>1
        <5>2. CASE j # i
          <6>1. j \in 2..(i - 1) /\ j \in 1..n
            BY <1>2, <5>2
          <6>2. ts[j] \in Files
            BY <1>2, <6>1
          <6> QED
            BY <3>1, <4>1, <4>3, <4>4, <6>1, <6>2, PairedStays
        <5> QED
          BY <5>1, <5>2
      <4> QED
        BY <3>1, <4>5, <4>6
    <3> QED
      BY <3>2, <3>3
  <2> HIDE DEF S
  <2> QED
    BY <1>2, <2>1, <2>2, FiniteInduction
<1>7. n \in 0..n
  BY <1>2
<1>8. /\ SameButLinks(h, c[n]) /\ LinksGrow(h, c[n])
      /\ \A j \in 2..n : Paired(c[n], ts[1], ts[j])
      /\ c[n] \in Graphs
  BY <1>4, <1>6, <1>7
<1> DEFINE b == c[n]
           A == Linked(b.actions, ts, <<a>>)
           k == [b EXCEPT !.actions = A]
<1>9. A \in [Nodes -> Seq(DOMAIN ActionTargets)] /\ LinksMore(A, b.actions, ts, <<a>>)
  <2>1. <<a>> \in Seq(DOMAIN ActionTargets)
    BY OneOnly
  <2>2. b.actions \in [Nodes -> Seq(DOMAIN ActionTargets)]
    BY <1>8, GraphFields
  <2> HIDE DEF b
  <2> QED
    BY <1>3, <2>1, <2>2, LinkedIs
<1>10. CallRule(h, a) = k
  BY <1>1
<1> HIDE DEF A
<1>11. b.actions = h.actions
  BY <1>8 DEF SameButLinks
<1> HIDE DEF b
<1>12. b \in Graphs
  BY <1>8 DEF b
<1>13. /\ k \in Graphs /\ SameButChains(b, k) /\ k.flags = b.flags /\ k.rebuilds = b.rebuilds
       /\ k.depends = b.depends /\ k.includes = b.includes /\ k.actions = A
  BY <1>9, <1>12 DEF Graphs, SameButChains
<1> HIDE DEF k
<1>14. SameButChains(h, k) /\ k.flags = h.flags /\ k.rebuilds = h.rebuilds
  BY <1>8, <1>13 DEF SameButLinks, SameButChains, b
<1>15. LinksGrow(h, k)
  <2>1. LinksGrow(h, b)
    BY <1>8 DEF b
  <2> QED
    BY <1>13, <2>1 DEF LinksGrow, Sources
<1>16. \A j \in 2..n : Paired(k, ts[1], ts[j])
  BY <1>8, <1>13 DEF Paired, Sources, b
<1>17. LinksMore(k.actions, h.actions, ts, <<a>>)
  BY <1>9, <1>11, <1>13
<1> QED
  BY <1>10, <1>13, <1>14, <1>15, <1>16, <1>17 DEF CallsRule, ts, n

-----------------------------------------------------------------------------
(***************************************************************************)
(* While a Jamfile is read.                                                *)
(***************************************************************************)

\* The targets of one action include each other, the first and every other.
Joined(h) ==
  \A x \in Nodes, a \in DOMAIN ActionTargets :
    a \in ToSet(h.actions[x]) =>
      /\ x \in ToSet(ActionTargets[a])
      /\ \A i \in 2..Len(ActionTargets[a]) : Paired(h, ActionTargets[a][1], ActionTargets[a][i])

\* A node of includes is reached through `includes', and is not a file.
Shaped(h) ==
  /\ \A f \in Files : h.includes[f] \in {NoTarget, IncludeNode[f]}
  /\ \A x \in InternalNodes : h.includes[x] = NoTarget /\ "NOTFILE" \in h.flags[x]

\* Nothing is bound, and no fate decided.
Fresh(h) ==
  /\ \A x \in Nodes : /\ h.fate[x] = T_FATE_INIT /\ h.binding[x] = "UNBOUND"
                      /\ h.time[x] = 0 /\ h.leaf[x] = 0
                      /\ Sources(h, x) \subseteq Files
  /\ h.cantfind = 0

Parsed(h) == h \in Graphs /\ Shaped(h) /\ Fresh(h) /\ Joined(h)

\* No Jamfile says REBUILDS.
NoRebuilds == \A c \in Calls \cup ToSet(Base) : c.rule # "REBUILDS"
Peaceful(h) == \A x \in Nodes : h.rebuilds[x] = <<>>

LEMMA ParsedEmpty == Parsed(EmptyGraph) /\ Peaceful(EmptyGraph)
<1>1. NoTarget \notin Nodes /\ Files \subseteq Nodes /\ InternalNodes \subseteq Nodes
      /\ \A x \in InternalNodes : x \notin Files
  BY NodesOfFiles
<1>2. T_FATE_INIT \in Fates /\ "UNBOUND" \in Bindings
  BY DEF Fates, T_FATE_INIT, T_FATE_CANTMAKE, Bindings
<1>3. ToSet(<<>>) = {} /\ \A T : <<>> \in Seq(T)
  BY DEF ToSet
<1>4. EmptyGraph \in Graphs
  <2>1. /\ [n \in Nodes |-> <<>>] \in [Nodes -> Seq(Nodes)]
        /\ [n \in Nodes |-> <<>>] \in [Nodes -> Seq(DOMAIN ActionTargets)]
        /\ [n \in Nodes |-> NoTarget] \in [Nodes -> Nodes \cup {NoTarget}]
        /\ [n \in Nodes |-> IF n \in Files THEN {} ELSE {"NOTFILE", "INTERNAL"}] \in [Nodes -> SUBSET TargetFlags]
        /\ [f \in Files |-> 0] \in [Files -> Nat]
        /\ [n \in Nodes |-> "UNBOUND"] \in [Nodes -> Bindings]
        /\ [n \in Nodes |-> 0] \in [Nodes -> Nat]
        /\ [n \in Nodes |-> T_FATE_INIT] \in [Nodes -> Fates]
    <3>1. [n \in Nodes |-> <<>>] \in [Nodes -> Seq(Nodes)]
      BY <1>3
    <3>2. [n \in Nodes |-> <<>>] \in [Nodes -> Seq(DOMAIN ActionTargets)]
      BY <1>3
    <3>3. [n \in Nodes |-> NoTarget] \in [Nodes -> Nodes \cup {NoTarget}]
      OBVIOUS
    <3>4. [n \in Nodes |-> IF n \in Files THEN {} ELSE {"NOTFILE", "INTERNAL"}] \in [Nodes -> SUBSET TargetFlags]
      <4>1. {"NOTFILE", "INTERNAL"} \subseteq TargetFlags
        BY DEF TargetFlags
      <4> QED
        BY <4>1
    <3>5. [f \in Files |-> 0] \in [Files -> Nat] /\ [n \in Nodes |-> 0] \in [Nodes -> Nat]
      OBVIOUS
    <3>6. [n \in Nodes |-> "UNBOUND"] \in [Nodes -> Bindings] /\ [n \in Nodes |-> T_FATE_INIT] \in [Nodes -> Fates]
      BY <1>2
    <3> QED
      BY <3>1, <3>2, <3>3, <3>4, <3>5, <3>6
  <2> QED
    BY <2>1 DEF EmptyGraph, Graphs
<1>5. Shaped(EmptyGraph)
  BY <1>1 DEF Shaped, EmptyGraph
<1>6. Fresh(EmptyGraph)
  BY <1>3 DEF Fresh, Sources, EmptyGraph
<1>7. Joined(EmptyGraph)
  BY <1>3 DEF Joined, EmptyGraph
<1> QED
  BY <1>4, <1>5, <1>6, <1>7 DEF Parsed, Peaceful, EmptyGraph

LEMMA FreshStays ==
  ASSUME NEW h \in Graphs, NEW k \in Graphs, SameButChains(h, k), Fresh(h),
         \A x \in Nodes : Sources(k, x) \subseteq Sources(h, x) \cup Files
  PROVE  Fresh(k)
BY DEF Fresh, SameButChains

\* Longer chains keep what there is.
LEMMA ParsedGrows ==
  ASSUME NEW h, Parsed(h), NEW k \in Graphs, SameButChains(h, k), LinksGrow(h, k),
         \A x \in Nodes : h.flags[x] \subseteq k.flags[x], k.actions = h.actions
  PROVE  Parsed(k)
<1>1. Fresh(k)
  BY FreshStays DEF Parsed, LinksGrow
<1>2. Shaped(k)
  BY NodesOfFiles DEF Parsed, Shaped, LinksGrow
<1>3. Joined(k)
  <2> SUFFICES ASSUME NEW x \in Nodes, NEW a \in DOMAIN ActionTargets, a \in ToSet(k.actions[x])
               PROVE  /\ x \in ToSet(ActionTargets[a])
                      /\ \A i \in 2..Len(ActionTargets[a]) :
                           Paired(k, ActionTargets[a][1], ActionTargets[a][i])
    BY DEF Joined
  <2>1. /\ x \in ToSet(ActionTargets[a])
        /\ \A i \in 2..Len(ActionTargets[a]) : Paired(h, ActionTargets[a][1], ActionTargets[a][i])
    BY DEF Parsed, Joined
  <2>2. ASSUME NEW i \in 2..Len(ActionTargets[a])
        PROVE  ActionTargets[a][1] \in Files /\ ActionTargets[a][i] \in Files
    BY DepGraphAssumption
  <2> QED
    BY <2>1, <2>2, PairedStays DEF Parsed
<1> QED
  BY <1>1, <1>2, <1>3 DEF Parsed

LEMMA ParsedApply ==
  ASSUME NEW h, Parsed(h), NEW c \in RuleCalls
  PROVE  Parsed(Apply(h, c)) /\ (c.rule # "REBUILDS" /\ Peaceful(h) => Peaceful(Apply(h, c)))
<1>0. h \in Graphs
  BY DEF Parsed
<1>1. CASE c.rule = "DEPENDS"
  <2> DEFINE k == Depends(h, <<c.t>>, <<c.s>>)
  <2>1. c.t \in Files /\ c.s \in Files
    BY <1>1 DEF RuleCalls, FlagRules, TargetFlags
  <2>2. /\ k \in Graphs /\ SameButLinks(h, k) /\ k.includes = h.includes
        /\ \A x \in Nodes : Sources(k, x) \subseteq Sources(h, x) \cup {c.s}
        /\ \A x \in Nodes : Sources(h, x) \subseteq Sources(k, x)
    BY <1>0, <2>1, DependsIs
  <2>3. Apply(h, c) = k
    BY <1>1 DEF Apply
  <2> HIDE DEF k
  <2>4. LinksGrow(h, k)
    BY <2>1, <2>2 DEF LinksGrow
  <2>5. Parsed(k)
    BY <2>2, <2>4, ParsedGrows DEF SameButLinks
  <2> QED
    BY <2>2, <2>3, <2>5 DEF SameButLinks, Peaceful
<1>2. CASE c.rule = "INCLUDES"
  <2> DEFINE k == Includes(h, <<c.t>>, <<c.s>>)
  <2>1. c.t \in Files /\ c.s \in Files
    BY <1>2 DEF RuleCalls, FlagRules, TargetFlags
  <2>2. <<c.s>> \in Seq(Files) /\ ToSet(<<c.s>>) \in SUBSET Files
    BY <2>1, OneOnly
  <2>3. IncludesMore(h, k, c.t, ToSet(<<c.s>>))
    BY <1>0, <2>1, <2>2, IncludesIs
  <2>4. Apply(h, c) = k
    BY <1>2 DEF Apply
  <2> HIDE DEF k
  <2>5. k \in Graphs /\ SameButLinks(h, k) /\ LinksGrow(h, k)
    BY <1>0, <2>1, <2>2, <2>3, IncludesMoreGrows
  <2>6. Parsed(k)
    BY <2>5, ParsedGrows DEF SameButLinks
  <2> QED
    BY <2>4, <2>5, <2>6 DEF SameButLinks, Peaceful
<1>3. CASE c.rule = "REBUILDS"
  <2> DEFINE k == Rebuilds(h, <<c.t>>, <<c.s>>)
  <2>1. c.t \in Files /\ c.s \in Files
    BY <1>3 DEF RuleCalls, FlagRules, TargetFlags
  <2>2. /\ k \in Graphs /\ SameButChains(h, k) /\ k.includes = h.includes
        /\ k.depends = h.depends /\ k.flags = h.flags /\ k.actions = h.actions
    BY <1>0, <2>1, RebuildsIs
  <2>3. Apply(h, c) = k
    BY <1>3 DEF Apply
  <2> HIDE DEF k
  <2>4. LinksGrow(h, k)
    BY <2>2 DEF LinksGrow, Sources
  <2>5. Parsed(k)
    BY <2>2, <2>4, ParsedGrows
  <2> QED
    BY <1>3, <2>3, <2>5
<1>4. CASE c.rule = "ACTION"
  <2> DEFINE k == CallRule(h, c.t)
             ts == ActionTargets[c.t]
  <2>1. c.t \in DOMAIN ActionTargets
    BY <1>4 DEF RuleCalls, FlagRules, TargetFlags
  <2>2. CallsRule(h, k, c.t)
    BY <1>0, <2>1, CallRuleIs
  <2>3. Apply(h, c) = k
    BY <1>4 DEF Apply
  <2> HIDE DEF k
  <2>4. Fresh(k)
    BY <1>0, <2>2, FreshStays DEF Parsed, CallsRule, LinksGrow
  <2>5. Shaped(k)
    BY <2>2, NodesOfFiles DEF Parsed, Shaped, CallsRule, LinksGrow
  <2>6. Joined(k)
    <3> SUFFICES ASSUME NEW x \in Nodes, NEW a \in DOMAIN ActionTargets, a \in ToSet(k.actions[x])
                 PROVE  /\ x \in ToSet(ActionTargets[a])
                        /\ \A i \in 2..Len(ActionTargets[a]) :
                             Paired(k, ActionTargets[a][1], ActionTargets[a][i])
      BY DEF Joined
    <3>1. CASE a \in ToSet(h.actions[x])
      <4>1. /\ x \in ToSet(ActionTargets[a])
            /\ \A i \in 2..Len(ActionTargets[a]) : Paired(h, ActionTargets[a][1], ActionTargets[a][i])
        BY <3>1 DEF Parsed, Joined
      <4>2. ASSUME NEW i \in 2..Len(ActionTargets[a])
            PROVE  ActionTargets[a][1] \in Files /\ ActionTargets[a][i] \in Files
        BY DepGraphAssumption
      <4> QED
        BY <1>0, <2>2, <4>1, <4>2, PairedStays DEF CallsRule
    <3>2. CASE a \notin ToSet(h.actions[x])
      <4>1. ToSet(<<c.t>>) = {c.t}
        BY <2>1, OneOnly
      <4>2. x \in ToSet(ts) /\ a = c.t
        BY <2>2, <3>2, <4>1 DEF CallsRule, LinksMore
      <4> QED
        BY <2>2, <4>2 DEF CallsRule
    <3> QED
      BY <3>1, <3>2
  <2>7. Parsed(k)
    BY <2>2, <2>4, <2>5, <2>6 DEF Parsed, CallsRule
  <2> QED
    BY <2>2, <2>3, <2>7 DEF CallsRule, Peaceful
<1>5. CASE c.rule \in FlagRules
  <2> DEFINE k == SetFlag(h, <<c.t>>, c.rule)
  <2>0. FlagRules \subseteq TargetFlags
    BY DEF FlagRules
  <2>1. c.t \in Files /\ c.rule \in TargetFlags
    <3>1. c.t \in Files
      BY <1>5 DEF RuleCalls, FlagRules, TargetFlags
    <3> QED
      BY <1>5, <2>0, <3>1
  <2>2. /\ k \in Graphs /\ SameButChains(h, k) /\ k.includes = h.includes
        /\ k.depends = h.depends /\ k.rebuilds = h.rebuilds /\ k.actions = h.actions
        /\ \A x \in Nodes : h.flags[x] \subseteq k.flags[x]
    BY <1>0, <2>1, SetFlagIs
  <2>3. Apply(h, c) = k
    BY <1>5 DEF Apply, FlagRules, TargetFlags
  <2> HIDE DEF k
  <2>4. LinksGrow(h, k)
    BY <2>2 DEF LinksGrow, Sources
  <2>5. Parsed(k)
    BY <2>2, <2>4, ParsedGrows
  <2> QED
    BY <2>2, <2>3, <2>5 DEF Peaceful
<1> QED
  BY <1>1, <1>2, <1>3, <1>4, <1>5 DEF RuleCalls

LEMMA AfterCallsParsed ==
  ASSUME NEW seq \in Seq(RuleCalls)
  PROVE  /\ Parsed(AfterCalls(seq))
         /\ (\A c \in ToSet(seq) : c.rule # "REBUILDS") => Peaceful(AfterCalls(seq))
<1> DEFINE n == Len(seq)
           V == {h \in Graphs : Parsed(h)}
           step == [x \in (1..n) \X V |-> Apply(x[2], seq[x[1]])]
           Body(f) == [i \in 0..n |-> IF i = 0 THEN EmptyGraph ELSE Apply(f[i - 1], seq[i])]
           after == CHOOSE f : f = Body(f)
<1>1. n \in Nat /\ \A i \in 1..n : seq[i] \in RuleCalls
  OBVIOUS
<1>2. \A i \in 1..n, h \in V : Apply(h, seq[i]) \in V
  <2> HIDE DEF n
  <2> QED
    BY <1>1, ParsedApply DEF Parsed
<1>3. step \in [(1..n) \X V -> V]
  <2> HIDE DEF n, V
  <2> QED
    BY <1>2
<1>4. PICK f : Follows(f, n, V, EmptyGraph, step)
  <2>0. EmptyGraph \in V
    BY ParsedEmpty DEF Parsed
  <2> HIDE DEF n, step, V
  <2>1. Steps(n, V, EmptyGraph, step)
    BY <1>1, <1>3, <2>0 DEF Steps
  <2> QED
    BY <2>1, PrimitiveRecursion
<1> HIDE DEF n
<1>5. /\ f \in [0..n -> V]
      /\ f = [i \in 0..n |-> IF i = 0 THEN EmptyGraph ELSE step[<<i, f[i - 1]>>]]
  <2> HIDE DEF step, V
  <2> QED
    BY <1>4 DEF Follows
<1>6. ASSUME NEW i \in 1..n PROVE step[<<i, f[i - 1]>>] = Apply(f[i - 1], seq[i])
  <2>1. i - 1 \in 0..n
    BY <1>1
  <2>2. f[i - 1] \in V
    <3> HIDE DEF step, V
    <3> QED
      BY <1>5, <2>1
  <2> HIDE DEF V
  <2> QED
    BY <2>2
<1>7. f = Body(f)
  <2> HIDE DEF step, V
  <2>1. \A i \in 0..n : i # 0 => i \in 1..n
    BY <1>1
  <2> QED
    BY <1>5, <1>6, <2>1
<1>8. after = Body(after)
  <2> HIDE DEF Body
  <2> QED
    BY <1>7
<1>9. AfterCalls(seq) = after[n]
  BY DEF AfterCalls, n
<1> HIDE DEF after
<1>10. after[0] = EmptyGraph /\ \A i \in 1..n : after[i] = Apply(after[i - 1], seq[i])
  BY <1>1, <1>8
<1> DEFINE Quiet == \A c \in ToSet(seq) : c.rule # "REBUILDS"
           S == {i \in 0..n : Parsed(after[i]) /\ (Quiet => Peaceful(after[i]))}
<1>11. \A i \in 1..n : seq[i] \in ToSet(seq)
  BY SetOfList DEF n
<1>12. \A i \in 0..n : i \in S
  <2>1. 0 \in S
    BY <1>1, <1>10, ParsedEmpty
  <2>2. ASSUME NEW i \in 1..n, i - 1 \in S PROVE i \in S
    <3>1. Parsed(after[i - 1]) /\ (Quiet => Peaceful(after[i - 1])) /\ seq[i] \in RuleCalls
      BY <1>1, <2>2
    <3>2. i \in 0..n /\ after[i] = Apply(after[i - 1], seq[i])
      BY <1>1, <1>10
    <3>3. Quiet => seq[i].rule # "REBUILDS"
      BY <1>11
    <3> HIDE DEF Quiet
    <3> QED
      BY <3>1, <3>2, <3>3, ParsedApply
  <2> HIDE DEF S
  <2> QED
    BY <1>1, <2>1, <2>2, FiniteInduction
<1>13. n \in S
  BY <1>1, <1>12
<1> QED
  BY <1>9, <1>13

-----------------------------------------------------------------------------
(***************************************************************************)
(* A step for each target of a list.                                       *)
(***************************************************************************)
Steppers == [Graphs \X Nodes -> Graphs]

\* The successive graphs.
AlongSteps(c, h, ts, step) ==
  /\ c \in [0..Len(ts) -> Graphs]
  /\ c[0] = h
  /\ c[Len(ts)] = Along(h, ts, step)
  /\ \A i \in 1..Len(ts) : c[i] = step[<<c[i - 1], ts[i]>>]

LEMMA AlongStepsExist ==
  ASSUME NEW h \in Graphs, NEW ts \in Seq(Nodes), NEW step \in Steppers
  PROVE  \E c : AlongSteps(c, h, ts, step)
<1> DEFINE n == Len(ts)
           Then(i, k) == step[<<k, ts[i]>>]
           on == [x \in (1..n) \X Graphs |-> Then(x[1], x[2])]
           Body(f) == [i \in 0..n |-> IF i = 0 THEN h ELSE Then(i, f[i - 1])]
           after == CHOOSE f : f = Body(f)
<1>1. n \in Nat /\ \A i \in 1..n : ts[i] \in Nodes
  OBVIOUS
<1> HIDE DEF n
<1>2. \A i \in 1..n, k \in Graphs : Then(i, k) \in Graphs
  BY <1>1 DEF Steppers
<1>a. Along(h, ts, step) = after[n]
  BY DEF Along, n
<1> HIDE DEF Then
<1>3. on \in [(1..n) \X Graphs -> Graphs]
  BY <1>2
<1>4. PICK f : Follows(f, n, Graphs, h, on)
  <2> HIDE DEF on
  <2>1. Steps(n, Graphs, h, on)
    BY <1>1, <1>3 DEF Steps
  <2> QED
    BY <2>1, PrimitiveRecursion
<1>5. /\ f \in [0..n -> Graphs]
      /\ f = [i \in 0..n |-> IF i = 0 THEN h ELSE on[<<i, f[i - 1]>>]]
  <2> HIDE DEF on
  <2> QED
    BY <1>4 DEF Follows
<1>6. ASSUME NEW i \in 1..n PROVE on[<<i, f[i - 1]>>] = Then(i, f[i - 1])
  <2>1. i - 1 \in 0..n
    BY <1>1
  <2>2. f[i - 1] \in Graphs
    <3> HIDE DEF on
    <3> QED
      BY <1>5, <2>1
  <2> QED
    BY <2>2
<1>7. f = Body(f)
  <2> HIDE DEF on
  <2>1. \A i \in 0..n : i # 0 => i \in 1..n
    BY <1>1
  <2> QED
    BY <1>5, <1>6, <2>1
<1>8. after = Body(after)
  <2> HIDE DEF Body
  <2> QED
    BY <1>7
<1> HIDE DEF after
<1>10. after[0] = h /\ \A i \in 1..n : after[i] = Then(i, after[i - 1])
  BY <1>1, <1>8
<1> DEFINE S == {i \in 0..n : after[i] \in Graphs}
<1>11. \A i \in 0..n : i \in S
  <2>1. 0 \in S
    BY <1>1, <1>10
  <2>2. ASSUME NEW i \in 1..n, i - 1 \in S PROVE i \in S
    <3>1. i \in 0..n /\ after[i - 1] \in Graphs
      BY <1>1, <2>2
    <3> QED
      BY <1>2, <1>10, <3>1
  <2> HIDE DEF S
  <2> QED
    BY <1>1, <2>1, <2>2, FiniteInduction
<1>12. after \in [0..n -> Graphs]
  BY <1>8, <1>11
<1> QED
  BY <1>a, <1>10, <1>12 DEF n, Then, AlongSteps

\* What every step keeps, all of them keep.
LEMMA AlongKeeps ==
  ASSUME NEW h \in Graphs, NEW ts \in Seq(Nodes), NEW step \in Steppers, NEW S,
         h \in S, \A k \in Graphs \cap S, x \in ToSet(ts) : step[<<k, x>>] \in S
  PROVE  Along(h, ts, step) \in S \cap Graphs
<1>1. PICK c : AlongSteps(c, h, ts, step)
  BY AlongStepsExist
<1> DEFINE n == Len(ts)
           T == {i \in 0..n : c[i] \in S}
<1>2. /\ n \in Nat /\ c \in [0..n -> Graphs] /\ c[0] = h /\ c[n] = Along(h, ts, step)
      /\ \A i \in 1..n : c[i] = step[<<c[i - 1], ts[i]>>]
  BY <1>1 DEF AlongSteps
<1>3. \A i \in 1..n : ts[i] \in ToSet(ts)
  BY SetOfList
<1> HIDE DEF n
<1>4. \A i \in 0..n : i \in T
  <2>1. 0 \in T
    BY <1>2
  <2>2. ASSUME NEW i \in 1..n, i - 1 \in T PROVE i \in T
    <3>1. i - 1 \in 0..n /\ i \in 0..n /\ c[i - 1] \in Graphs
      BY <1>2
    <3> QED
      BY <1>2, <1>3, <2>2, <3>1
  <2> HIDE DEF T
  <2> QED
    BY <1>2, <2>1, <2>2, FiniteInduction
<1>5. n \in 0..n
  BY <1>2
<1> QED
  BY <1>2, <1>4, <1>5

\* Nothing happens for an empty list.
LEMMA AlongNothing ==
  ASSUME NEW h \in Graphs, NEW step \in Steppers
  PROVE  Along(h, <<>>, step) = h
<1>1. <<>> \in Seq(Nodes) /\ Len(<<>>) = 0
  OBVIOUS
<1>2. PICK c : AlongSteps(c, h, <<>>, step)
  BY <1>1, AlongStepsExist
<1> QED
  BY <1>1, <1>2 DEF AlongSteps

-----------------------------------------------------------------------------
(***************************************************************************)
(* The worst of a list of dependencies, and their includes.                *)
(***************************************************************************)
LEMMA ListBounded ==
  ASSUME NEW deps \in Seq(Nodes), NEW field \in [Nodes -> Nat]
  PROVE  \E b \in Nat : \A d \in ToSet(deps) : field[d] <= b
<1> DEFINE n == Len(deps)
           S == {i \in 0..n : \E b \in Nat : \A j \in 1..i : field[deps[j]] <= b}
<1>1. n \in Nat /\ \A i \in 1..n : deps[i] \in Nodes
  OBVIOUS
<1>2. \A d \in ToSet(deps) : \E i \in 1..n : deps[i] = d
  BY SetOfList
<1> HIDE DEF n
<1>3. \A i \in 0..n : i \in S
  <2>1. 0 \in S
    BY <1>1
  <2>2. ASSUME NEW i \in 1..n, i - 1 \in S PROVE i \in S
    <3>1. PICK b \in Nat : \A j \in 1..(i - 1) : field[deps[j]] <= b
      BY <2>2
    <3> DEFINE v == field[deps[i]]
               m == IF b <= v THEN v ELSE b
    <3>2. v \in Nat
      BY <1>1
    <3> HIDE DEF v
    <3>3. m \in Nat /\ b <= m /\ v <= m
      BY <3>2
    <3>4. ASSUME NEW j \in 1..i PROVE field[deps[j]] <= m
      <4>1. CASE j = i
        BY <3>3, <4>1 DEF v
      <4>2. CASE j # i
        <5>1. j \in 1..(i - 1) /\ j \in 1..n
          BY <1>1, <4>2
        <5>2. field[deps[j]] \in Nat /\ field[deps[j]] <= b
          BY <1>1, <3>1, <5>1
        <5> HIDE DEF m
        <5> QED
          BY <3>3, <5>2
      <4> QED
        BY <4>1, <4>2
    <3> HIDE DEF m
    <3> QED
      BY <1>1, <3>3, <3>4
  <2> HIDE DEF S
  <2> QED
    BY <1>1, <2>1, <2>2, FiniteInduction
<1>4. n \in S
  <2>1. n \in 0..n
    BY <1>1
  <2> QED
    BY <1>3, <2>1
<1>5. PICK b \in Nat : \A j \in 1..n : field[deps[j]] <= b
  BY <1>4
<1> QED
  BY <1>2, <1>5

LEMMA WorstIs ==
  ASSUME NEW h, NEW deps \in Seq(Nodes), NEW field \in [Nodes -> Nat]
  PROVE  /\ Worst(h, deps, field) \in Nat
         /\ \A d \in ToSet(deps) : field[d] <= Worst(h, deps, field)
         /\ Worst(h, deps, field) = 0 \/ \E d \in ToSet(deps) : Worst(h, deps, field) = field[d]
<1> DEFINE V == {0} \cup {field[d] : d \in ToSet(deps)}
<1>1. ToSet(deps) \subseteq Nodes
  BY SetOfList
<1>2. PICK b \in Nat : \A d \in ToSet(deps) : field[d] <= b
  BY ListBounded
<1>3. V \subseteq Nat /\ V # {} /\ \A x \in V : x <= b
  BY <1>1, <1>2
<1>4. \E m \in V : \A x \in V : m >= x
  <2> HIDE DEF V
  <2> QED
    BY <1>3, GreatestOf
<1>5. Max(V) \in V /\ \A x \in V : Max(V) >= x
  <2> HIDE DEF V
  <2> QED
    BY <1>4 DEF Max
<1>6. Worst(h, deps, field) = Max(V)
  BY DEF Worst
<1> DEFINE w == Max(V)
<1> HIDE DEF w
<1>7. w \in V /\ \A x \in V : w >= x
  BY <1>5 DEF w
<1>8. \A d \in ToSet(deps) : field[d] \in Nat /\ field[d] <= w
  BY <1>1, <1>3, <1>7
<1> QED
  BY <1>3, <1>6, <1>7, <1>8 DEF w

\* The includes of what t depends on join its dependencies.
LEMMA WithIncludesIs ==
  ASSUME NEW h \in Graphs, NEW t \in Nodes
  PROVE  /\ WithIncludes(h, t) \in Seq(Nodes)
         /\ \A x : x \in ToSet(WithIncludes(h, t)) <=>
              \/ x \in Sources(h, t)
              \/ \E d \in Sources(h, t) : h.includes[d] # NoTarget /\ x = h.includes[d]
<1> DEFINE deps == h.depends[t]
           n == Len(deps)
           V == Seq(Nodes)
           inc(i) == h.includes[deps[i]]
           Then(i, done) == IF inc(i) = NoTarget THEN done ELSE Append(done, inc(i))
           step == [x \in (1..n) \X V |-> Then(x[1], x[2])]
           Body(f) == [i \in 0..n |-> IF i = 0 THEN deps
                                      ELSE IF inc(i) = NoTarget THEN f[i - 1]
                                      ELSE Append(f[i - 1], inc(i))]
           chain == CHOOSE f : f = Body(f)
<1>0. h.depends \in [Nodes -> Seq(Nodes)] /\ h.includes \in [Nodes -> Nodes \cup {NoTarget}]
  BY GraphFields
<1>1. /\ n \in Nat /\ deps \in V
      /\ \A i \in 1..n : deps[i] \in Nodes /\ inc(i) \in Nodes \cup {NoTarget}
  BY <1>0
<1>2. \A x : x \in Sources(h, t) <=> \E i \in 1..n : deps[i] = x
  BY <1>1, SetOfList DEF Sources
<1>3. WithIncludes(h, t) = chain[n]
  BY DEF WithIncludes
<1>4. Sources(h, t) = ToSet(deps)
  BY DEF Sources
<1>a. \A i \in 1..n : inc(i) = h.includes[deps[i]]
  OBVIOUS
<1> HIDE DEF n, deps, inc
<1>5. \A i \in 1..n, done \in V : Then(i, done) \in V
  BY <1>1
<1> HIDE DEF V
<1>6. step \in [(1..n) \X V -> V]
  <2> HIDE DEF Then
  <2> QED
    BY <1>5
<1>7. PICK f : Follows(f, n, V, deps, step)
  <2> HIDE DEF step
  <2>1. Steps(n, V, deps, step)
    BY <1>1, <1>6 DEF Steps
  <2> QED
    BY <2>1, PrimitiveRecursion
<1>8. /\ f \in [0..n -> V]
      /\ f = [i \in 0..n |-> IF i = 0 THEN deps ELSE step[<<i, f[i - 1]>>]]
  <2> HIDE DEF step
  <2> QED
    BY <1>7 DEF Follows
<1>9. ASSUME NEW i \in 1..n PROVE step[<<i, f[i - 1]>>] = Then(i, f[i - 1])
  <2>1. i - 1 \in 0..n
    BY <1>1
  <2>2. f[i - 1] \in V
    <3> HIDE DEF step
    <3> QED
      BY <1>8, <2>1
  <2> HIDE DEF Then
  <2> QED
    BY <2>2
<1>10. f = Body(f)
  <2>1. \A i \in 0..n : i # 0 => i \in 1..n
    BY <1>1
  <2>2. \A i \in 1..n : Then(i, f[i - 1]) = IF inc(i) = NoTarget THEN f[i - 1] ELSE Append(f[i - 1], inc(i))
    OBVIOUS
  <2> HIDE DEF step, Then
  <2> QED
    BY <1>8, <1>9, <2>1, <2>2
<1>11. chain = Body(chain)
  <2> HIDE DEF Body
  <2> QED
    BY <1>10
<1> HIDE DEF chain
<1>12. chain[0] = deps /\ \A i \in 1..n : chain[i] = Then(i, chain[i - 1])
  <2>1. \A i \in 0..n : chain[i] = IF i = 0 THEN deps
                                    ELSE IF inc(i) = NoTarget THEN chain[i - 1]
                                    ELSE Append(chain[i - 1], inc(i))
    BY <1>11
  <2>2. 0 \in 0..n /\ \A i \in 1..n : i \in 0..n /\ i # 0
    BY <1>1
  <2> QED
    BY <2>1, <2>2
<1> DEFINE Added(i, x) == \E j \in 1..i : inc(j) # NoTarget /\ x = inc(j)
           S == {i \in 0..n : /\ chain[i] \in V
                              /\ \A x : x \in ToSet(chain[i]) <=> x \in ToSet(deps) \/ Added(i, x)}
<1>13. \A i \in 0..n : i \in S
  <2>1. 0 \in S
    BY <1>1, <1>12
  <2>2. ASSUME NEW i \in 1..n, i - 1 \in S PROVE i \in S
    <3>0. /\ chain[i - 1] \in V
          /\ \A x : x \in ToSet(chain[i - 1]) <=> x \in ToSet(deps) \/ Added(i - 1, x)
      BY <2>2
    <3>1. ASSUME NEW x PROVE Added(i, x) <=> Added(i - 1, x) \/ (inc(i) # NoTarget /\ x = inc(i))
      <4>1. \A j \in 1..i : j \in 1..(i - 1) \/ j = i
        BY <1>1
      <4>2. \A j \in 1..(i - 1) : j \in 1..i
        BY <1>1
      <4>3. i \in 1..i
        BY <1>1
      <4> QED
        BY <4>1, <4>2, <4>3
    <3>2. chain[i] = Then(i, chain[i - 1]) /\ i \in 0..n
      BY <1>1, <1>12
    <3>3. CASE inc(i) = NoTarget
      <4> HIDE DEF Added
      <4> QED
        BY <3>0, <3>1, <3>2, <3>3
    <3>4. CASE inc(i) # NoTarget
      <4>1. inc(i) \in Nodes
        BY <1>1, <3>4
      <4>2. chain[i] = Append(chain[i - 1], inc(i))
        BY <3>2, <3>4
      <4>3. chain[i] \in V /\ ToSet(chain[i]) = ToSet(chain[i - 1]) \cup {inc(i)}
        BY <3>0, <4>1, <4>2, AppendedSet DEF V
      <4> HIDE DEF Added
      <4> QED
        BY <3>0, <3>1, <3>2, <3>4, <4>3
    <3> QED
      BY <3>3, <3>4
  <2> HIDE DEF S
  <2> QED
    BY <1>1, <2>1, <2>2, FiniteInduction
<1>14. n \in S
  <2>1. n \in 0..n
    BY <1>1
  <2> HIDE DEF S
  <2> QED
    BY <1>13, <2>1
<1>15. chain[n] \in Seq(Nodes) /\ \A x : x \in ToSet(chain[n]) <=> x \in ToSet(deps) \/ Added(n, x)
  BY <1>14 DEF V
<1>16. ASSUME NEW x
       PROVE  Added(n, x) <=> \E d \in Sources(h, t) : h.includes[d] # NoTarget /\ x = h.includes[d]
  <2>1. ASSUME Added(n, x) PROVE \E d \in Sources(h, t) : h.includes[d] # NoTarget /\ x = h.includes[d]
    <3>1. PICK j \in 1..n : inc(j) # NoTarget /\ x = inc(j)
      BY <2>1
    <3> QED
      BY <1>2, <1>a, <3>1
  <2>2. ASSUME NEW d \in Sources(h, t), h.includes[d] # NoTarget /\ x = h.includes[d] PROVE Added(n, x)
    <3>1. PICK j \in 1..n : deps[j] = d
      BY <1>2
    <3> QED
      BY <1>a, <2>2, <3>1
  <2> HIDE DEF Added
  <2> QED
    BY <2>1, <2>2
<1> HIDE DEF Added
<1> QED
  BY <1>3, <1>4, <1>15, <1>16

\* A list with one element put in its place.
LEMMA InsertedIs ==
  ASSUME NEW T, NEW s \in Seq(T), NEW i \in 1..(Len(s) + 1), NEW e \in T
  PROVE  InsertAt(s, i, e) \in Seq(T) /\ ToSet(InsertAt(s, i, e)) = ToSet(s) \cup {e}
<1> DEFINE a == SubSeq(s, 1, i - 1)
           b == SubSeq(s, i, Len(s))
           n == Len(s)
           m == <<e>>
           am == a \o m
<1>1. n \in Nat /\ DOMAIN s = 1..n /\ \A j \in 1..n : s[j] \in T
  OBVIOUS
<1>2. /\ a \in Seq(T) /\ Len(a) = i - 1 /\ \A j \in 1..(i - 1) : j \in 1..n /\ a[j] = s[j]
  OBVIOUS
<1>3. b \in Seq(T) /\ Len(b) = n - i + 1 /\ \A j \in 1..(n - i + 1) : i + j - 1 \in 1..n /\ b[j] = s[i + j - 1]
  OBVIOUS
<1>4. InsertAt(s, i, e) = am \o b
  BY DEF InsertAt
<1>5. m \in Seq(T) /\ ToSet(m) = {e}
  BY OneOnly
<1> HIDE DEF n, a, b, m
<1>6. am \in Seq(T) /\ ToSet(am) = ToSet(a) \cup {e}
  BY <1>2, <1>5, ConcatSet
<1> HIDE DEF am
<1>7. am \o b \in Seq(T) /\ ToSet(am \o b) = ToSet(a) \cup {e} \cup ToSet(b)
  BY <1>3, <1>6, ConcatSet
<1>8. i \in 1..(n + 1)
  BY DEF n
<1>9. ToSet(s) = ToSet(a) \cup ToSet(b)
  <2>1. ASSUME NEW x PROVE x \in ToSet(s) <=> \E j \in 1..n : s[j] = x
    BY <1>1 DEF ToSet
  <2>2. ASSUME NEW x PROVE x \in ToSet(a) <=> \E j \in 1..(i - 1) : a[j] = x
    BY <1>2, SetOfList
  <2>3. ASSUME NEW x PROVE x \in ToSet(b) <=> \E j \in 1..(n - i + 1) : b[j] = x
    BY <1>3, SetOfList
  <2>4. \A j \in 1..n : \/ j \in 1..(i - 1)
                        \/ j - i + 1 \in 1..(n - i + 1) /\ i + (j - i + 1) - 1 = j
    BY <1>1, <1>8
  <2>5. \A x : x \in ToSet(s) => x \in ToSet(a) \cup ToSet(b)
    BY <1>2, <1>3, <2>1, <2>2, <2>3, <2>4
  <2>6. \A x : x \in ToSet(a) \cup ToSet(b) => x \in ToSet(s)
    BY <1>2, <1>3, <2>1, <2>2, <2>3
  <2> QED
    BY <2>5, <2>6
<1> QED
  BY <1>4, <1>7, <1>9

\* make0sort() loses and adds none.
LEMMA SortIs ==
  ASSUME NEW h \in Graphs, NEW deps \in Seq(Nodes)
  PROVE  SortByTime(h, deps) \in Seq(Nodes) /\ ToSet(SortByTime(h, deps)) = ToSet(deps)
<1> DEFINE n == Len(deps)
           V == Seq(Nodes)
           newer(i, done) == {k \in DOMAIN done : \A j \in 1..k : h.time[done[j]] > h.time[deps[i]]}
           Then(i, done) == InsertAt(done, Cardinality(newer(i, done)) + 1, deps[i])
           step == [x \in (1..n) \X V |-> Then(x[1], x[2])]
           Body(f) == [i \in 0..n |-> IF i = 0 THEN <<>> ELSE Then(i, f[i - 1])]
           sorted == CHOOSE f : f = Body(f)
<1>1. n \in Nat /\ <<>> \in V /\ \A i \in 1..n : deps[i] \in Nodes
  OBVIOUS
<1>2. SortByTime(h, deps) = sorted[n]
  BY DEF SortByTime
<1>3. ToSet(deps) = {deps[i] : i \in 1..n}
  BY SetOfList
<1> HIDE DEF n
<1>4. ASSUME NEW i \in 1..n, NEW done \in V
      PROVE  Then(i, done) \in V /\ ToSet(Then(i, done)) = ToSet(done) \cup {deps[i]}
  <2>1. newer(i, done) \subseteq 1..Len(done) /\ Len(done) \in Nat
    OBVIOUS
  <2> HIDE DEF newer
  <2>2. IsFiniteSet(1..Len(done)) /\ Cardinality(1..Len(done)) = Len(done)
    <3> DEFINE m == Len(done)
    <3> HIDE DEF m
    <3>1. m \in Nat
      BY <2>1 DEF m
    <3>2. IsFiniteSet(1..m) /\ Cardinality(1..m) = IF 1 > m THEN 0 ELSE m - 1 + 1
      BY <3>1, FS_Interval
    <3>3. Cardinality(1..m) = m
      BY <3>1, <3>2
    <3> QED
      BY <3>2, <3>3 DEF m
  <2>3. Cardinality(newer(i, done)) \in Nat /\ Cardinality(newer(i, done)) <= Len(done)
    BY <2>1, <2>2, FS_Subset, FS_CardinalityType
  <2> DEFINE c == Cardinality(newer(i, done))
  <2> HIDE DEF c
  <2>4. c + 1 \in 1..(Len(done) + 1)
    BY <2>1, <2>3 DEF c
  <2>5. InsertAt(done, c + 1, deps[i]) \in V /\ ToSet(InsertAt(done, c + 1, deps[i])) = ToSet(done) \cup {deps[i]}
    BY <1>1, <2>4, InsertedIs
  <2> QED
    BY <2>5 DEF c
<1> HIDE DEF V, Then
<1>5. step \in [(1..n) \X V -> V]
  BY <1>4
<1>6. PICK f : Follows(f, n, V, <<>>, step)
  <2> HIDE DEF step
  <2>1. Steps(n, V, <<>>, step)
    BY <1>1, <1>5 DEF Steps
  <2> QED
    BY <2>1, PrimitiveRecursion
<1>7. /\ f \in [0..n -> V]
      /\ f = [i \in 0..n |-> IF i = 0 THEN <<>> ELSE step[<<i, f[i - 1]>>]]
  <2> HIDE DEF step
  <2> QED
    BY <1>6 DEF Follows
<1>8. ASSUME NEW i \in 1..n PROVE step[<<i, f[i - 1]>>] = Then(i, f[i - 1])
  <2>1. i - 1 \in 0..n
    BY <1>1
  <2>2. f[i - 1] \in V
    <3> HIDE DEF step
    <3> QED
      BY <1>7, <2>1
  <2> QED
    BY <2>2
<1>9. f = Body(f)
  <2>1. \A i \in 0..n : i # 0 => i \in 1..n
    BY <1>1
  <2> HIDE DEF step
  <2> QED
    BY <1>7, <1>8, <2>1
<1>10. sorted = Body(sorted)
  <2> HIDE DEF Body
  <2> QED
    BY <1>9
<1> HIDE DEF sorted
<1>11. sorted[0] = <<>> /\ \A i \in 1..n : sorted[i] = Then(i, sorted[i - 1])
  <2>1. \A i \in 0..n : sorted[i] = IF i = 0 THEN <<>> ELSE Then(i, sorted[i - 1])
    BY <1>10
  <2>2. 0 \in 0..n /\ \A i \in 1..n : i \in 0..n /\ i # 0
    BY <1>1
  <2> QED
    BY <2>1, <2>2
<1> DEFINE S == {i \in 0..n : sorted[i] \in V /\ ToSet(sorted[i]) = {deps[j] : j \in 1..i}}
<1>12. \A i \in 0..n : i \in S
  <2>1. 0 \in S
    BY <1>1, <1>11 DEF ToSet
  <2>2. ASSUME NEW i \in 1..n, i - 1 \in S PROVE i \in S
    <3>1. sorted[i] = Then(i, sorted[i - 1]) /\ i \in 0..n
      BY <1>1, <1>11
    <3>2. sorted[i] \in V /\ ToSet(sorted[i]) = {deps[j] : j \in 1..(i - 1)} \cup {deps[i]}
      BY <1>4, <2>2, <3>1
    <3>3. (\A j \in 1..i : j \in 1..(i - 1) \/ j = i) /\ (\A j \in 1..(i - 1) : j \in 1..i) /\ i \in 1..i
      BY <1>1
    <3>4. {deps[j] : j \in 1..(i - 1)} \cup {deps[i]} = {deps[j] : j \in 1..i}
      BY <3>3
    <3> QED
      BY <3>1, <3>2, <3>4
  <2> HIDE DEF S
  <2> QED
    BY <1>1, <2>1, <2>2, FiniteInduction
<1>13. n \in S
  <2>1. n \in 0..n
    BY <1>1
  <2> HIDE DEF S
  <2> QED
    BY <1>12, <2>1
<1> QED
  BY <1>2, <1>3, <1>13 DEF V

-----------------------------------------------------------------------------
(***************************************************************************)
(* REBUILDS: what it does to a graph is a graph.                           *)
(***************************************************************************)
LEMMA FateSet ==
  ASSUME NEW h \in Graphs, NEW x \in Nodes, NEW fate \in Fates
  PROVE  [h EXCEPT !.fate[x] = fate] \in Graphs
<1>1. [h.fate EXCEPT ![x] = fate] \in [Nodes -> Fates]
  BY GraphFields
<1> DEFINE F == [h.fate EXCEPT ![x] = fate]
<1> HIDE DEF F
<1> QED
  BY <1>1 DEF Graphs, F

LEMMA FateNumbers ==
  /\ Fates = 0..12
  /\ T_FATE_INIT = 0 /\ T_FATE_MAKING = 1 /\ T_FATE_STABLE = 2 /\ T_FATE_NEWER = 3
  /\ T_FATE_SPOIL = 4 /\ T_FATE_ISTMP = 4 /\ T_FATE_BUILD = 5 /\ T_FATE_TOUCHED = 5
  /\ T_FATE_REBUILD = 6 /\ T_FATE_MISSING = 7 /\ T_FATE_NEEDTMP = 8 /\ T_FATE_OUTDATED = 9
  /\ T_FATE_UPDATE = 10 /\ T_FATE_BROKEN = 11 /\ T_FATE_CANTFIND = 11 /\ T_FATE_CANTMAKE = 12
BY DEF Fates, T_FATE_INIT, T_FATE_MAKING, T_FATE_STABLE, T_FATE_NEWER, T_FATE_SPOIL,
       T_FATE_ISTMP, T_FATE_BUILD, T_FATE_TOUCHED, T_FATE_REBUILD, T_FATE_MISSING,
       T_FATE_NEEDTMP, T_FATE_OUTDATED, T_FATE_UPDATE, T_FATE_BROKEN, T_FATE_CANTFIND,
       T_FATE_CANTMAKE

LEMMA NodesFinite == IsFiniteSet(Nodes) /\ Cardinality(Nodes) \in Nat
<1>1. IsFiniteSet(Files)
  BY DepGraphAssumption
<1>2. IsFiniteSet({IncludeNode[f] : f \in Files})
  <2> DEFINE I == [f \in Files |-> IncludeNode[f]]
             D == {I[f] : f \in Files}
  <2>1. IsFiniteSet(D)
    <3>1. I \in [Files -> D]
      OBVIOUS
    <3>2. I \in Surjection(Files, D)
      <4> HIDE DEF I
      <4> QED
        BY <3>1 DEF Surjection
    <3> HIDE DEF I, D
    <3> QED
      BY <1>1, <3>2, FS_Surjection
  <2>2. D = {IncludeNode[f] : f \in Files}
    OBVIOUS
  <2> HIDE DEF D
  <2> QED
    BY <2>1, <2>2
<1>3. IsFiniteSet(Nodes)
  BY <1>1, <1>2, FS_Union DEF Nodes
<1> QED
  BY <1>3, FS_CardinalityType

LEMMA UpdateDependantsIs ==
  ASSUME NEW h \in Graphs, NEW t \in Nodes
  PROVE  UpdateDependants(h, t) \in Graphs
<1> DEFINE n == Cardinality(Nodes)
           Told(u, y) ==
             IF y[1].fate[y[2]] = T_FATE_INIT \/ y[1].fate[y[2]] >= T_FATE_BUILD THEN y[1]
             ELSE IF y[1].fate[y[2]] > T_FATE_MAKING
             THEN u[<<[y[1] EXCEPT !.fate[y[2]] = T_FATE_UPDATE], y[2]>>]
             ELSE [y[1] EXCEPT !.fate[y[2]] = T_FATE_UPDATE]
           Inner(u) == [y \in Graphs \X Nodes |-> Told(u, y)]
           Outer(u, x) == Along(x[1], x[1].dependants[x[2]], Inner(u))
           base == [x \in Graphs \X Nodes |-> x[1]]
           step == [z \in (1..n) \X Steppers |-> [x \in Graphs \X Nodes |-> Outer(z[2], x)]]
           Body(f) == [i \in 0..n |-> [x \in Graphs \X Nodes |-> IF i = 0 THEN x[1] ELSE Outer(f[i - 1], x)]]
           update == CHOOSE f : f = Body(f)
<1>1. UpdateDependants(h, t) = update[n][<<h, t>>]
  BY DEF UpdateDependants
<1>2. ASSUME NEW u \in Steppers PROVE Inner(u) \in Steppers
  <2>1. ASSUME NEW y \in Graphs \X Nodes PROVE Told(u, y) \in Graphs
    <3>1. y[1] \in Graphs /\ y[2] \in Nodes
      OBVIOUS
    <3> DEFINE k == [y[1] EXCEPT !.fate[y[2]] = T_FATE_UPDATE]
    <3>2. k \in Graphs
      <4>1. T_FATE_UPDATE \in Fates
        BY FateNumbers
      <4> QED
        BY <3>1, <4>1, FateSet
    <3> HIDE DEF k
    <3>3. u[<<k, y[2]>>] \in Graphs
      BY <3>1, <3>2 DEF Steppers
    <3>4. Told(u, y) = IF y[1].fate[y[2]] = T_FATE_INIT \/ y[1].fate[y[2]] >= T_FATE_BUILD THEN y[1]
                       ELSE IF y[1].fate[y[2]] > T_FATE_MAKING THEN u[<<k, y[2]>>] ELSE k
      BY DEF k
    <3> HIDE DEF Told
    <3> QED
      BY <3>1, <3>2, <3>3, <3>4
  <2> HIDE DEF Told
  <2> QED
    BY <2>1 DEF Steppers
<1>3. ASSUME NEW u \in Steppers, NEW x \in Graphs \X Nodes PROVE Outer(u, x) \in Graphs
  <2>1. x[1] \in Graphs /\ x[2] \in Nodes
    OBVIOUS
  <2>2. x[1].dependants[x[2]] \in Seq(Nodes)
    BY <2>1, GraphFields
  <2>3. Inner(u) \in Steppers
    BY <1>2
  <2> HIDE DEF Inner
  <2>4. Along(x[1], x[1].dependants[x[2]], Inner(u)) \in Graphs
    <3> DEFINE S == Graphs
    <3>1. \A k \in Graphs \cap S, e \in ToSet(x[1].dependants[x[2]]) : Inner(u)[<<k, e>>] \in S
      BY <2>2, <2>3, SetOfList DEF Steppers
    <3> HIDE DEF S
    <3>2. x[1] \in S
      BY <2>1 DEF S
    <3> QED
      BY <2>1, <2>2, <2>3, <3>1, <3>2, AlongKeeps
  <2> QED
    BY <2>4
<1>4. n \in Nat
  BY NodesFinite
<1> HIDE DEF Outer, n
<1>5. base \in Steppers
  BY DEF Steppers
<1>6. step \in [(1..n) \X Steppers -> Steppers]
  BY <1>3 DEF Steppers
<1>7. PICK f : Follows(f, n, Steppers, base, step)
  <2> HIDE DEF step, base
  <2>1. Steps(n, Steppers, base, step)
    BY <1>4, <1>5, <1>6 DEF Steps
  <2> QED
    BY <2>1, PrimitiveRecursion
<1>8. /\ f \in [0..n -> Steppers]
      /\ f = [i \in 0..n |-> IF i = 0 THEN base ELSE step[<<i, f[i - 1]>>]]
  <2> HIDE DEF step, base
  <2> QED
    BY <1>7 DEF Follows
<1>9. ASSUME NEW i \in 1..n PROVE step[<<i, f[i - 1]>>] = [x \in Graphs \X Nodes |-> Outer(f[i - 1], x)]
  <2>1. i - 1 \in 0..n
    BY <1>4
  <2>2. f[i - 1] \in Steppers
    <3> HIDE DEF step, base
    <3> QED
      BY <1>8, <2>1
  <2> QED
    BY <2>2
<1>10. f = Body(f)
  <2>1. \A i \in 0..n : i # 0 => i \in 1..n
    BY <1>4
  <2>2. \A i \in 0..n : f[i] = [x \in Graphs \X Nodes |-> IF i = 0 THEN x[1] ELSE Outer(f[i - 1], x)]
    <3> TAKE i \in 0..n
    <3>1. f[i] = IF i = 0 THEN base ELSE step[<<i, f[i - 1]>>]
      <4> HIDE DEF step, base
      <4> QED
        BY <1>8
    <3>2. CASE i = 0
      <4> HIDE DEF step
      <4> QED
        BY <3>1, <3>2
    <3>3. CASE i # 0
      <4>1. f[i] = step[<<i, f[i - 1]>>]
        <5> HIDE DEF step, base
        <5> QED
          BY <3>1, <3>3
      <4> HIDE DEF step, base
      <4> QED
        BY <1>9, <2>1, <3>3, <4>1
    <3> QED
      BY <3>2, <3>3
  <2> HIDE DEF step, base
  <2> QED
    BY <1>8, <2>2
<1>11. update = Body(update)
  <2> HIDE DEF Body
  <2> QED
    BY <1>10
<1> HIDE DEF update
<1>12. \A i \in 0..n : update[i] = [x \in Graphs \X Nodes |-> IF i = 0 THEN x[1] ELSE Outer(update[i - 1], x)]
  BY <1>11
<1> DEFINE S == {i \in 0..n : update[i] \in Steppers}
<1>13. \A i \in 0..n : i \in S
  <2>1. 0 \in S
    <3>1. 0 \in 0..n
      BY <1>4
    <3>2. update[0] = [x \in Graphs \X Nodes |-> IF 0 = 0 THEN x[1] ELSE Outer(update[0 - 1], x)]
      BY <1>12, <3>1
    <3> QED
      BY <3>1, <3>2 DEF Steppers
  <2>2. ASSUME NEW i \in 1..n, i - 1 \in S PROVE i \in S
    <3>1. i \in 0..n /\ i # 0 /\ update[i - 1] \in Steppers
      BY <1>4, <2>2
    <3>2. update[i] = [x \in Graphs \X Nodes |-> IF i = 0 THEN x[1] ELSE Outer(update[i - 1], x)]
      BY <1>12, <3>1
    <3>3. \A x \in Graphs \X Nodes : Outer(update[i - 1], x) \in Graphs
      BY <1>3, <3>1
    <3> QED
      BY <3>1, <3>2, <3>3 DEF Steppers
  <2> HIDE DEF S
  <2> QED
    BY <1>4, <2>1, <2>2, FiniteInduction
<1>14. update[n] \in Steppers
  <2>1. n \in 0..n
    BY <1>4
  <2> QED
    BY <1>13, <2>1
<1> QED
  BY <1>1, <1>14 DEF Steppers

LEMMA ForceRebuildsIs ==
  ASSUME NEW h \in Graphs, NEW t \in Nodes
  PROVE  /\ ForceRebuilds(h, t) \in Graphs
         /\ h.rebuilds[t] = <<>> => ForceRebuilds(h, t) = h
<1> DEFINE step == [y \in Graphs \X Nodes |-> ForceRebuild(y[1], y[2])]
<1>1. ASSUME NEW y \in Graphs \X Nodes PROVE ForceRebuild(y[1], y[2]) \in Graphs
  <2>1. y[1] \in Graphs /\ y[2] \in Nodes
    OBVIOUS
  <2> DEFINE k == [y[1] EXCEPT !.fate[y[2]] = T_FATE_REBUILD]
  <2>2. k \in Graphs
    <3>1. T_FATE_REBUILD \in Fates
      BY FateNumbers
    <3> QED
      BY <2>1, <3>1, FateSet
  <2> HIDE DEF k
  <2>3. UpdateDependants(k, y[2]) \in Graphs
    BY <2>1, <2>2, UpdateDependantsIs
  <2> QED
    BY <2>1, <2>3 DEF ForceRebuild, k
<1>2. step \in Steppers
  BY <1>1 DEF Steppers
<1>3. ForceRebuilds(h, t) = Along(h, h.rebuilds[t], step)
  BY DEF ForceRebuilds
<1> HIDE DEF step
<1>4. h.rebuilds[t] \in Seq(Nodes)
  BY GraphFields
<1> DEFINE S == Graphs
<1>5. \A k \in Graphs \cap S, e \in ToSet(h.rebuilds[t]) : step[<<k, e>>] \in S
  BY <1>2, <1>4, SetOfList DEF Steppers
<1>6. h \in S
  OBVIOUS
<1> HIDE DEF S
<1>7. Along(h, h.rebuilds[t], step) \in Graphs
  BY <1>2, <1>4, <1>5, <1>6, AlongKeeps
<1>8. h.rebuilds[t] = <<>> => Along(h, h.rebuilds[t], step) = h
  BY <1>2, AlongNothing
<1> QED
  BY <1>3, <1>7, <1>8

-----------------------------------------------------------------------------
(***************************************************************************)
(* Steps 4 to 6 of make0().                                                *)
(***************************************************************************)

\* Neither flag that keeps a target from heeding its dependencies.
Heeds(h, t) == h.flags[t] \cap {"NOUPDATE", "LEAVES"} = {}

\* A target without actions and dependencies, missing, is all that may be lost.
DiagnosedAs(h, t, fate) ==
  /\ fate \in Fates /\ fate >= T_FATE_STABLE
  /\ Heeds(h, t) => \A d \in Sources(h, t) :
       /\ h.fate[d] >= T_FATE_BROKEN => fate = T_FATE_CANTMAKE
       /\ h.fate[d] >= T_FATE_SPOIL  => fate >= T_FATE_UPDATE
       /\ h.binding[t] = "EXISTS" /\ h.time[d] > h.time[t] => fate >= T_FATE_BUILD
  /\ h.binding[t] = "MISSING" /\ "NOCARE" \notin h.flags[t] => fate >= T_FATE_BUILD
  /\ "TOUCHED" \in h.flags[t] /\ ~(h.binding[t] = "MISSING" /\ "NOCARE" \in h.flags[t])
       => fate >= T_FATE_BUILD
  /\ fate >= T_FATE_BROKEN =>
       \/ fate = T_FATE_CANTFIND /\ h.binding[t] = "MISSING"
       \/ fate = T_FATE_CANTMAKE /\ \E d \in Sources(h, t) : h.fate[d] >= T_FATE_BROKEN

LEMMA LaterIs ==
  ASSUME NEW a \in Nat, NEW b \in Nat
  PROVE  Later(a, b) \in {a, b} /\ Later(a, b) >= a /\ Later(a, b) >= b
BY DEF Later

LEMMA DiagnosisIs ==
  ASSUME NEW h \in Graphs, NEW t \in Nodes, NEW p \in Parents
  PROVE  DiagnosedAs(h, t, OrLost(h, t, Diagnosis(h, t, p, LastOf(h, t), FateOf(h, t))))
<1> DEFINE last == LastOf(h, t)
           all == FateOf(h, t)
           found == Diagnosis(h, t, p, last, all)
           fate == OrLost(h, t, found)
           worst == Worst(h, h.depends[t], h.fate)
           latest == Worst(h, h.depends[t], h.time)
<1>1. /\ h.depends[t] \in Seq(Nodes) /\ h.time \in [Nodes -> Nat] /\ h.leaf \in [Nodes -> Nat]
      /\ h.fate \in [Nodes -> Fates] /\ h.fate \in [Nodes -> Nat] /\ h.binding[t] \in Bindings
      /\ Sources(h, t) \subseteq Nodes /\ h.flags[t] \subseteq TargetFlags
      /\ h.time[t] \in Nat
  <2>1. Fates \subseteq Nat
    BY FateNumbers
  <2>2. h.depends[t] \in Seq(Nodes) /\ h.fate \in [Nodes -> Fates]
    BY GraphFields
  <2>3. h.fate \in [Nodes -> Nat]
    BY <2>1, <2>2
  <2>4. Sources(h, t) \subseteq Nodes
    BY <2>2, SetOfList DEF Sources
  <2> QED
    BY <2>2, <2>3, <2>4, GraphFields
<1>2. /\ worst \in Nat /\ \A d \in Sources(h, t) : h.fate[d] <= worst
      /\ worst = 0 \/ \E d \in Sources(h, t) : worst = h.fate[d]
  BY <1>1, WorstIs DEF Sources
<1>3. latest \in Nat /\ \A d \in Sources(h, t) : h.time[d] <= latest
  BY <1>1, WorstIs DEF Sources
<1>4. all = IF Heeds(h, t) THEN Later(T_FATE_STABLE, worst) ELSE T_FATE_STABLE
  BY DEF FateOf, Heeds
<1>5. Heeds(h, t) => last = latest /\ "NOUPDATE" \notin h.flags[t]
  BY DEF LastOf, Heeds
<1>6. all \in Fates /\ all >= T_FATE_STABLE
  BY <1>1, <1>2, <1>4, FateNumbers DEF Later
<1>7. Heeds(h, t) => \A d \in Sources(h, t) : h.fate[d] <= all
  BY <1>1, <1>2, <1>4, <1>6, FateNumbers DEF Later
<1>8. all >= T_FATE_BROKEN => \E d \in Sources(h, t) : h.fate[d] >= T_FATE_BROKEN
  BY <1>1, <1>2, <1>4, FateNumbers DEF Later
<1> DEFINE touched == "TOUCHED" \in h.flags[t] \/ (Anyhow /\ "NOUPDATE" \notin h.flags[t])
           time == IF "NOUPDATE" \in h.flags[t] THEN 0 ELSE h.time[t]
<1>9. /\ all >= T_FATE_BROKEN => found = T_FATE_CANTMAKE
      /\ all >= T_FATE_SPOIL /\ ~(all >= T_FATE_BROKEN) => found = T_FATE_UPDATE
      /\ ~(all >= T_FATE_SPOIL) =>
           /\ h.binding[t] = "MISSING" => found = T_FATE_MISSING
           /\ h.binding[t] # "MISSING" =>
                /\ found \in {T_FATE_OUTDATED, T_FATE_NEEDTMP, T_FATE_TOUCHED,
                              T_FATE_ISTMP, T_FATE_NEWER, T_FATE_STABLE}
                /\ h.binding[t] = "EXISTS" /\ Outdated(last, time) => found = T_FATE_OUTDATED
                /\ touched => found \in {T_FATE_OUTDATED, T_FATE_NEEDTMP, T_FATE_TOUCHED}
  <2> HIDE DEF last, all
  <2>1. all \in 0..12 /\ T_FATE_SPOIL = 4 /\ T_FATE_BROKEN = 11
    BY <1>6, FateNumbers
  <2>2. CASE all >= T_FATE_BROKEN
    BY <2>1, <2>2 DEF Diagnosis
  <2>3. CASE all >= T_FATE_SPOIL /\ ~(all >= T_FATE_BROKEN)
    BY <2>1, <2>3 DEF Diagnosis
  <2>4. CASE ~(all >= T_FATE_SPOIL)
    <3>1. ~(all >= T_FATE_BROKEN) /\ ~(all >= T_FATE_SPOIL /\ all < T_FATE_BROKEN)
      BY <2>1, <2>4
    <3>2. h.binding[t] = "MISSING" => found = T_FATE_MISSING
      BY <3>1 DEF Diagnosis
    <3>3. ASSUME h.binding[t] # "MISSING"
          PROVE  /\ found \in {T_FATE_OUTDATED, T_FATE_NEEDTMP, T_FATE_TOUCHED,
                              T_FATE_ISTMP, T_FATE_NEWER, T_FATE_STABLE}
                 /\ h.binding[t] = "EXISTS" /\ Outdated(last, time) => found = T_FATE_OUTDATED
                 /\ touched => found \in {T_FATE_OUTDATED, T_FATE_NEEDTMP, T_FATE_TOUCHED}
      BY <3>1, <3>3, Zenon DEF Diagnosis
    <3> QED
      BY <2>1, <2>4, <3>2, <3>3
  <2> QED
    BY <2>2, <2>3, <2>4
<1>10. /\ fate \in {found, T_FATE_STABLE, T_FATE_CANTFIND}
       /\ found # T_FATE_MISSING => fate = found
       /\ fate = T_FATE_STABLE => found = T_FATE_STABLE \/ (found = T_FATE_MISSING /\ "NOCARE" \in h.flags[t])
       /\ fate = T_FATE_CANTFIND => found \in {T_FATE_MISSING, T_FATE_CANTFIND}
  BY FateNumbers DEF OrLost
<1>11. fate = OrLost(h, t, Diagnosis(h, t, p, LastOf(h, t), FateOf(h, t)))
  OBVIOUS
<1> HIDE DEF fate, found, all, last, worst, latest
<1>12. fate \in Fates /\ fate >= T_FATE_STABLE /\ found \in Fates
  <2>1. found \in 2..12
    BY <1>6, <1>9, FateNumbers
  <2> QED
    BY <1>10, <2>1, FateNumbers
<1>13. ASSUME Heeds(h, t), NEW d \in Sources(h, t)
       PROVE  /\ h.fate[d] >= T_FATE_BROKEN => fate = T_FATE_CANTMAKE
              /\ h.fate[d] >= T_FATE_SPOIL  => fate >= T_FATE_UPDATE
              /\ h.binding[t] = "EXISTS" /\ h.time[d] > h.time[t] => fate >= T_FATE_BUILD
  <2>1. h.fate[d] \in 0..12 /\ all \in 0..12 /\ h.fate[d] <= all
    BY <1>1, <1>6, <1>7, <1>13, FateNumbers
  <2>2. h.fate[d] >= T_FATE_BROKEN => fate = T_FATE_CANTMAKE
    BY <1>9, <1>10, <2>1, FateNumbers
  <2>3. h.fate[d] >= T_FATE_SPOIL  => fate >= T_FATE_UPDATE
    BY <1>9, <1>10, <2>1, FateNumbers
  <2>4. ASSUME h.binding[t] = "EXISTS" /\ h.time[d] > h.time[t] PROVE fate >= T_FATE_BUILD
    <3>1. h.time[d] \in Nat /\ h.time[d] <= latest
      BY <1>1, <1>3
    <3>2. Outdated(last, time)
      BY <1>1, <1>3, <1>5, <1>13, <2>4, <3>1 DEF Outdated
    <3> HIDE DEF time, touched
    <3> QED
      BY <1>9, <1>10, <2>1, <2>4, <3>2, FateNumbers
  <2> QED
    BY <2>2, <2>3, <2>4
<1>14. h.binding[t] = "MISSING" /\ "NOCARE" \notin h.flags[t] => fate >= T_FATE_BUILD
  BY <1>6, <1>9, <1>10, FateNumbers
<1>15. "TOUCHED" \in h.flags[t] /\ ~(h.binding[t] = "MISSING" /\ "NOCARE" \in h.flags[t])
         => fate >= T_FATE_BUILD
  BY <1>6, <1>9, <1>10, FateNumbers
<1>16. fate >= T_FATE_BROKEN =>
         \/ fate = T_FATE_CANTFIND /\ h.binding[t] = "MISSING"
         \/ fate = T_FATE_CANTMAKE /\ \E d \in Sources(h, t) : h.fate[d] >= T_FATE_BROKEN
  BY <1>6, <1>8, <1>9, <1>10, FateNumbers
<1> QED
  BY <1>11, <1>12, <1>13, <1>14, <1>15, <1>16 DEF DiagnosedAs

\* The age that t has from its dependencies is that of one of them.
LEMMA LastOfIs ==
  ASSUME NEW h \in Graphs, NEW t \in Nodes
  PROVE  /\ LastOf(h, t) \in Nat
         /\ \/ LastOf(h, t) = 0
            \/ /\ "NOUPDATE" \notin h.flags[t]
               /\ \E d \in Sources(h, t) :
                    LastOf(h, t) = IF "LEAVES" \in h.flags[t] THEN h.leaf[d] ELSE h.time[d]
<1>1. h.depends[t] \in Seq(Nodes) /\ h.time \in [Nodes -> Nat] /\ h.leaf \in [Nodes -> Nat]
  BY GraphFields
<1>2. /\ Worst(h, h.depends[t], h.leaf) \in Nat
      /\ \/ Worst(h, h.depends[t], h.leaf) = 0
         \/ \E d \in Sources(h, t) : Worst(h, h.depends[t], h.leaf) = h.leaf[d]
  BY <1>1, WorstIs DEF Sources
<1>3. /\ Worst(h, h.depends[t], h.time) \in Nat
      /\ \/ Worst(h, h.depends[t], h.time) = 0
         \/ \E d \in Sources(h, t) : Worst(h, h.depends[t], h.time) = h.time[d]
  BY <1>1, WorstIs DEF Sources
<1>4. LastOf(h, t) = IF "NOUPDATE" \in h.flags[t] THEN 0
                     ELSE IF "LEAVES" \in h.flags[t] THEN Worst(h, h.depends[t], h.leaf)
                     ELSE Worst(h, h.depends[t], h.time)
  BY DEF LastOf
<1> QED
  BY <1>2, <1>3, <1>4

\* Made neither broken nor left alone: why that may be.
MadeBecause(h, t, p, fate) ==
  fate >= T_FATE_SPOIL /\ fate < T_FATE_BROKEN =>
    \/ Heeds(h, t) /\ \E d \in Sources(h, t) : h.fate[d] >= T_FATE_SPOIL /\ h.fate[d] < T_FATE_BROKEN
    \/ h.binding[t] = "MISSING"
    \/ h.binding[t] = "EXISTS" /\ LastOf(h, t) > IF "NOUPDATE" \in h.flags[t] THEN 0 ELSE h.time[t]
    \/ /\ h.binding[t] = "PARENTS"
       /\ p \in Nodes => \/ LastOf(h, t) > h.time[p]
                         \/ h.includes[t] # NoTarget /\ h.time[h.includes[t]] > h.time[p]
    \/ "TOUCHED" \in h.flags[t] \/ (Anyhow /\ "NOUPDATE" \notin h.flags[t])
    \/ h.binding[t] = "EXISTS" /\ "TEMP" \in h.flags[t]

LEMMA MadeBecauseIs ==
  ASSUME NEW h \in Graphs, NEW t \in Nodes, NEW p \in Parents
  PROVE  MadeBecause(h, t, p, OrLost(h, t, Diagnosis(h, t, p, LastOf(h, t), FateOf(h, t))))
<1> DEFINE last == LastOf(h, t)
           all == FateOf(h, t)
           found == Diagnosis(h, t, p, last, all)
           fate == OrLost(h, t, found)
           worst == Worst(h, h.depends[t], h.fate)
           time == IF "NOUPDATE" \in h.flags[t] THEN 0 ELSE h.time[t]
           hlast == IF h.includes[t] = NoTarget THEN 0 ELSE h.time[h.includes[t]]
           touched == "TOUCHED" \in h.flags[t] \/ (Anyhow /\ "NOUPDATE" \notin h.flags[t])
<1>1. /\ h.depends[t] \in Seq(Nodes) /\ h.fate \in [Nodes -> Fates] /\ h.fate \in [Nodes -> Nat]
      /\ h.time \in [Nodes -> Nat]
  <2>1. Fates \subseteq Nat
    BY FateNumbers
  <2>2. h.depends[t] \in Seq(Nodes) /\ h.fate \in [Nodes -> Fates] /\ h.time \in [Nodes -> Nat]
    BY GraphFields
  <2> QED
    BY <2>1, <2>2
<1>2. worst \in Nat /\ (worst = 0 \/ \E d \in Sources(h, t) : worst = h.fate[d])
  BY <1>1, WorstIs DEF Sources
<1>3. all = IF Heeds(h, t) THEN Later(T_FATE_STABLE, worst) ELSE T_FATE_STABLE
  BY DEF FateOf, Heeds
<1> HIDE DEF worst
<1>4. all \in Nat
  BY <1>2, <1>3, FateNumbers DEF Later
<1>5. all >= T_FATE_SPOIL /\ all < T_FATE_BROKEN =>
        Heeds(h, t) /\ \E d \in Sources(h, t) : h.fate[d] >= T_FATE_SPOIL /\ h.fate[d] < T_FATE_BROKEN
  BY <1>2, <1>3, FateNumbers DEF Later
<1>6. fate \in {found, T_FATE_STABLE, T_FATE_CANTFIND}
  BY DEF OrLost
<1> HIDE DEF last, all
<1>7. all >= T_FATE_BROKEN => found = T_FATE_CANTMAKE
  BY <1>4, FateNumbers DEF Diagnosis
<1>8. ~(all >= T_FATE_SPOIL) =>
        \/ h.binding[t] = "MISSING"
        \/ h.binding[t] = "EXISTS" /\ Outdated(last, time)
        \/ h.binding[t] = "PARENTS" /\ (Outdated(last, h.time[p]) \/ Outdated(hlast, h.time[p]))
        \/ touched
        \/ h.binding[t] = "EXISTS" /\ "TEMP" \in h.flags[t]
        \/ found \in {T_FATE_NEWER, T_FATE_STABLE}
  <2>1. ~(all >= T_FATE_SPOIL) => ~(all >= T_FATE_BROKEN) /\ ~(all >= T_FATE_SPOIL /\ all < T_FATE_BROKEN)
    BY <1>4, FateNumbers
  <2> QED
    BY <2>1, Zenon DEF Diagnosis
<1>9. fate = OrLost(h, t, Diagnosis(h, t, p, LastOf(h, t), FateOf(h, t)))
  BY DEF last, all
<1> HIDE DEF found, fate
<1>10. p \in Nodes /\ Outdated(hlast, h.time[p]) => h.includes[t] # NoTarget /\ h.time[h.includes[t]] > h.time[p]
  <2>1. p \in Nodes => h.time[p] \in Nat
    BY <1>1
  <2> QED
    BY <2>1 DEF Outdated
<1> HIDE DEF hlast
<1>11. MadeBecause(h, t, p, fate)
  <2> SUFFICES ASSUME fate >= T_FATE_SPOIL, fate < T_FATE_BROKEN
               PROVE  \/ Heeds(h, t) /\ \E d \in Sources(h, t) : h.fate[d] >= T_FATE_SPOIL /\ h.fate[d] < T_FATE_BROKEN
                      \/ h.binding[t] = "MISSING"
                      \/ h.binding[t] = "EXISTS" /\ last > time
                      \/ /\ h.binding[t] = "PARENTS"
                         /\ p \in Nodes => \/ last > h.time[p]
                                           \/ h.includes[t] # NoTarget /\ h.time[h.includes[t]] > h.time[p]
                      \/ touched
                      \/ h.binding[t] = "EXISTS" /\ "TEMP" \in h.flags[t]
    BY DEF MadeBecause, last
  <2>1. fate = found /\ ~(all >= T_FATE_BROKEN) /\ found \notin {T_FATE_NEWER, T_FATE_STABLE}
    BY <1>6, <1>7, FateNumbers
  <2>2. CASE all >= T_FATE_SPOIL
    BY <1>4, <1>5, <2>1, <2>2, FateNumbers
  <2>3. CASE ~(all >= T_FATE_SPOIL)
    <3> HIDE DEF time, touched
    <3> QED
      BY <1>8, <1>10, <2>1, <2>3 DEF Outdated
  <2> QED
    BY <2>2, <2>3
<1> QED
  BY <1>9, <1>11

\* What steps 4 to 6 make of h, when no other target is rebuilt because of t.
Decided(h, k, t, p) ==
  /\ k.disk = h.disk /\ k.flags = h.flags /\ k.actions = h.actions /\ k.rebuilds = h.rebuilds
  /\ k.includes = h.includes /\ k.binding = h.binding
  /\ \A x \in Nodes : /\ Sources(k, x) = Sources(h, x)
                      /\ x # t => /\ k.fate[x] = h.fate[x] /\ k.time[x] = h.time[x]
                                  /\ k.leaf[x] = h.leaf[x]
  /\ DiagnosedAs(h, t, k.fate[t]) /\ MadeBecause(h, t, p, k.fate[t])
  /\ k.time[t] \in {0, h.time[t], LastOf(h, t)}
  /\ k.leaf[t] = IF Worst(h, h.depends[t], h.leaf) # 0 THEN Worst(h, h.depends[t], h.leaf) ELSE k.time[t]
  /\ "NOUPDATE" \notin h.flags[t] => k.time[t] >= h.time[t]
  /\ Heeds(h, t) => \A d \in Sources(h, t) : h.time[d] <= k.time[t]
  /\ k.cantfind >= h.cantfind
  /\ t \in Files /\ k.fate[t] = T_FATE_CANTFIND => k.cantfind > 0

LEMMA DecideIs ==
  ASSUME NEW h \in Graphs, NEW t \in Nodes, NEW p \in Parents
  PROVE  /\ Decide(h, t, p) \in Graphs
         /\ h.rebuilds[t] = <<>> /\ h.fate[t] = T_FATE_MAKING => Decided(h, Decide(h, t, p), t, p)
<1> DEFINE last    == LastOf(h, t)
           worst   == Worst(h, h.depends[t], h.leaf)
           found   == OrLost(h, t, Diagnosis(h, t, p, last, FateOf(h, t)))
           fate    == Later(h.fate[t], found)
           age     == IF "NOUPDATE" \in h.flags[t] THEN 0 ELSE h.time[t]
           time    == Later(age, last)
           leaf    == IF worst # 0 THEN worst ELSE time
           decided == [h EXCEPT !.fate[t] = fate, !.time[t] = time, !.leaf[t] = leaf]
           forced  == IF fate >= T_FATE_BUILD /\ fate < T_FATE_BROKEN
                      THEN ForceRebuilds(decided, t) ELSE decided
           order   == SortByTime(forced, forced.depends[t])
           sorted  == IF NewestFirst THEN [forced EXCEPT !.depends[t] = order] ELSE forced
           found1  == IF fate = T_FATE_CANTFIND THEN sorted.cantfind + 1 ELSE sorted.cantfind
           made1   == IF fate = T_FATE_CANTMAKE /\ sorted.actions[t] # <<>>
                      THEN sorted.cantmake + 1 ELSE sorted.cantmake
           counted == [sorted EXCEPT !.cantfind = found1, !.cantmake = made1]
<1>1. /\ h.depends[t] \in Seq(Nodes) /\ h.time \in [Nodes -> Nat] /\ h.leaf \in [Nodes -> Nat]
      /\ h.fate \in [Nodes -> Fates] /\ h.time[t] \in Nat /\ h.fate[t] \in Fates
  BY GraphFields
<1>a. WithFate(h, t, fate) = decided
  BY DEF WithFate
<1>b. Sorted(forced, t) = sorted
  BY DEF Sorted
<1>c. Counted(sorted, t, fate) = IF t \in InternalNodes THEN sorted ELSE counted
  BY DEF Counted
<1>d. Decide(h, t, p) = Counted(Sorted(IF fate >= T_FATE_BUILD /\ fate < T_FATE_BROKEN
                                       THEN ForceRebuilds(WithFate(h, t, fate), t)
                                       ELSE WithFate(h, t, fate), t), t, fate)
  BY DEF Decide
<1>3. DiagnosedAs(h, t, found) /\ MadeBecause(h, t, p, found)
  BY DiagnosisIs, MadeBecauseIs
<1>4. last \in Nat /\ worst \in Nat /\ age \in Nat
  BY <1>1, WorstIs DEF LastOf
<1>5. Heeds(h, t) => \A d \in Sources(h, t) : h.time[d] <= last
  BY <1>1, WorstIs DEF LastOf, Heeds, Sources
<1>6. found \in Fates /\ found >= T_FATE_STABLE
  BY <1>3 DEF DiagnosedAs
<1>2. Decide(h, t, p) = IF t \in InternalNodes THEN sorted ELSE counted
  <2> HIDE DEF decided, forced, sorted, counted, fate
  <2>1. (IF fate >= T_FATE_BUILD /\ fate < T_FATE_BROKEN
        THEN ForceRebuilds(WithFate(h, t, fate), t) ELSE WithFate(h, t, fate)) = forced
    BY <1>a DEF forced
  <2> QED
    BY <1>b, <1>c, <1>d, <2>1
<1> HIDE DEF last, worst, found
<1>7. "NOUPDATE" \notin h.flags[t] => age = h.time[t]
  OBVIOUS
<1>e. age \in {0, h.time[t]} /\ last = LastOf(h, t)
  BY DEF last
<1> HIDE DEF age
<1>8. time \in Nat /\ time >= age /\ time >= last /\ time \in {age, last}
  BY <1>4, LaterIs
<1>9. fate \in Fates
  BY <1>1, <1>6, FateNumbers DEF Later
<1>10. h.fate[t] = T_FATE_MAKING => fate = found
  BY <1>6, FateNumbers DEF Later
<1> HIDE DEF fate, time
<1>11. leaf \in Nat /\ leaf = IF worst # 0 THEN worst ELSE time
  BY <1>4, <1>8
<1> HIDE DEF leaf
<1>12. /\ [h.fate EXCEPT ![t] = fate] \in [Nodes -> Fates]
       /\ [h.time EXCEPT ![t] = time] \in [Nodes -> Nat]
       /\ [h.leaf EXCEPT ![t] = leaf] \in [Nodes -> Nat]
  BY <1>1, <1>8, <1>9, <1>11
<1>13. /\ decided \in Graphs
       /\ decided.fate = [h.fate EXCEPT ![t] = fate] /\ decided.time = [h.time EXCEPT ![t] = time]
       /\ decided.leaf = [h.leaf EXCEPT ![t] = leaf]
       /\ decided.disk = h.disk /\ decided.flags = h.flags /\ decided.actions = h.actions
       /\ decided.rebuilds = h.rebuilds /\ decided.includes = h.includes
       /\ decided.binding = h.binding /\ decided.cantfind = h.cantfind
       /\ decided.depends = h.depends
  <2> DEFINE F == [h.fate EXCEPT ![t] = fate]
             T == [h.time EXCEPT ![t] = time]
             L == [h.leaf EXCEPT ![t] = leaf]
  <2>1. decided = [h EXCEPT !.fate = F, !.time = T, !.leaf = L]
    OBVIOUS
  <2>2. F \in [Nodes -> Fates] /\ T \in [Nodes -> Nat] /\ L \in [Nodes -> Nat]
    BY <1>12
  <2> HIDE DEF F, T, L, decided
  <2>3. /\ decided \in Graphs
        /\ decided.fate = F /\ decided.time = T /\ decided.leaf = L
        /\ decided.disk = h.disk /\ decided.flags = h.flags /\ decided.actions = h.actions
        /\ decided.rebuilds = h.rebuilds /\ decided.includes = h.includes
        /\ decided.binding = h.binding /\ decided.cantfind = h.cantfind
        /\ decided.depends = h.depends
    BY <2>1, <2>2 DEF Graphs
  <2> QED
    BY <2>3 DEF F, T, L
<1> HIDE DEF decided
<1>14. forced \in Graphs /\ (h.rebuilds[t] = <<>> => forced = decided)
  BY <1>13, ForceRebuildsIs
<1> HIDE DEF forced
<1>15. /\ sorted \in Graphs
       /\ sorted.disk = forced.disk /\ sorted.flags = forced.flags /\ sorted.actions = forced.actions
       /\ sorted.rebuilds = forced.rebuilds /\ sorted.includes = forced.includes
       /\ sorted.binding = forced.binding /\ sorted.cantfind = forced.cantfind
       /\ sorted.cantmake = forced.cantmake
       /\ sorted.fate = forced.fate /\ sorted.time = forced.time /\ sorted.leaf = forced.leaf
       /\ \A x \in Nodes : Sources(sorted, x) = Sources(forced, x)
  <2>1. CASE ~NewestFirst
    BY <1>14, <2>1 DEF Sources
  <2>2. CASE NewestFirst
    <3>1. forced.depends[t] \in Seq(Nodes) /\ forced.depends \in [Nodes -> Seq(Nodes)]
      BY <1>14, GraphFields
    <3>2. order \in Seq(Nodes) /\ ToSet(order) = ToSet(forced.depends[t])
      BY <1>14, <3>1, SortIs
    <3> DEFINE D == [forced.depends EXCEPT ![t] = order]
               s == [forced EXCEPT !.depends = D]
    <3>3. sorted = s
      BY <2>2
    <3> HIDE DEF order
    <3>4. D \in [Nodes -> Seq(Nodes)] /\ \A x \in Nodes : ToSet(D[x]) = ToSet(forced.depends[x])
      BY <3>1, <3>2
    <3> HIDE DEF D
    <3>5. /\ s \in Graphs
          /\ s.disk = forced.disk /\ s.flags = forced.flags /\ s.actions = forced.actions
          /\ s.rebuilds = forced.rebuilds /\ s.includes = forced.includes
          /\ s.binding = forced.binding /\ s.cantfind = forced.cantfind
          /\ s.cantmake = forced.cantmake
          /\ s.fate = forced.fate /\ s.time = forced.time /\ s.leaf = forced.leaf /\ s.depends = D
      BY <1>14, <3>4 DEF Graphs
    <3> HIDE DEF s, sorted
    <3> QED
      BY <3>3, <3>4, <3>5 DEF Sources
  <2> QED
    BY <2>1, <2>2
<1> HIDE DEF sorted
<1>16. sorted.cantfind \in Nat /\ sorted.cantmake \in Nat
  BY <1>15, GraphFields
<1>17. found1 \in Nat /\ made1 \in Nat /\ found1 >= sorted.cantfind
       /\ (fate = T_FATE_CANTFIND => found1 > 0)
  BY <1>16
<1> HIDE DEF found1, made1
<1>18. /\ counted \in Graphs
       /\ counted.disk = sorted.disk /\ counted.flags = sorted.flags /\ counted.actions = sorted.actions
       /\ counted.rebuilds = sorted.rebuilds /\ counted.includes = sorted.includes
       /\ counted.binding = sorted.binding /\ counted.cantfind = found1
       /\ counted.depends = sorted.depends
       /\ counted.fate = sorted.fate /\ counted.time = sorted.time /\ counted.leaf = sorted.leaf
  BY <1>15, <1>17 DEF Graphs
<1> HIDE DEF counted
<1> DEFINE k == Decide(h, t, p)
<1>19. k \in Graphs
  BY <1>2, <1>15, <1>18
<1>20. ASSUME h.rebuilds[t] = <<>>, h.fate[t] = T_FATE_MAKING PROVE Decided(h, k, t, p)
  <2>1. forced = decided /\ fate = found
    BY <1>10, <1>14, <1>20
  <2>2. /\ k.disk = sorted.disk /\ k.flags = sorted.flags /\ k.actions = sorted.actions
        /\ k.rebuilds = sorted.rebuilds /\ k.includes = sorted.includes
        /\ k.binding = sorted.binding /\ k.fate = sorted.fate /\ k.time = sorted.time /\ k.leaf = sorted.leaf
        /\ k.depends = sorted.depends /\ k.cantfind >= sorted.cantfind
        /\ (t \in Files /\ fate = T_FATE_CANTFIND => k.cantfind > 0)
    <3>1. t \in InternalNodes => t \notin Files
      BY NodesOfFiles
    <3>2. CASE t \in InternalNodes
      BY <1>2, <1>16, <3>1, <3>2
    <3>3. CASE t \notin InternalNodes
      BY <1>2, <1>17, <1>18, <3>3
    <3> QED
      BY <3>2, <3>3
  <2> HIDE DEF k
  <2>3. /\ k.fate = [h.fate EXCEPT ![t] = found] /\ k.time = [h.time EXCEPT ![t] = time]
        /\ k.leaf = [h.leaf EXCEPT ![t] = leaf]
    BY <1>13, <1>15, <2>1, <2>2
  <2>4. k.fate[t] = found /\ k.time[t] = time /\ k.leaf[t] = leaf
        /\ \A x \in Nodes : x # t => k.fate[x] = h.fate[x] /\ k.time[x] = h.time[x] /\ k.leaf[x] = h.leaf[x]
    BY <1>1, <2>3
  <2>5. \A x \in Nodes : Sources(k, x) = Sources(h, x)
    BY <1>13, <1>15, <2>1, <2>2 DEF Sources
  <2>6. /\ k.disk = h.disk /\ k.flags = h.flags /\ k.actions = h.actions /\ k.rebuilds = h.rebuilds
        /\ k.includes = h.includes /\ k.binding = h.binding /\ k.cantfind >= h.cantfind
    BY <1>13, <1>15, <2>1, <2>2
  <2>7. "NOUPDATE" \notin h.flags[t] => k.time[t] >= h.time[t]
    BY <1>7, <1>8, <2>4
  <2>8. Heeds(h, t) => \A d \in Sources(h, t) : h.time[d] <= k.time[t]
    <3> SUFFICES ASSUME Heeds(h, t), NEW d \in Sources(h, t) PROVE h.time[d] <= k.time[t]
      OBVIOUS
    <3>1. d \in Nodes
      BY <1>1, SetOfList DEF Sources
    <3>2. h.time[d] \in Nat /\ h.time[d] <= last
      BY <1>1, <1>5, <3>1
    <3> QED
      BY <1>4, <1>8, <2>4, <3>2
  <2>9. t \in Files /\ k.fate[t] = T_FATE_CANTFIND => k.cantfind > 0
    BY <2>1, <2>2, <2>4
  <2>10. k.time[t] \in {0, h.time[t], LastOf(h, t)}
    BY <1>e, <1>8, <2>4
  <2>11. k.leaf[t] = IF Worst(h, h.depends[t], h.leaf) # 0 THEN Worst(h, h.depends[t], h.leaf) ELSE k.time[t]
    BY <1>11, <2>4 DEF worst
  <2> QED
    BY <1>3, <2>4, <2>5, <2>6, <2>7, <2>8, <2>9, <2>10, <2>11 DEF Decided
<1> QED
  BY <1>19, <1>20

-----------------------------------------------------------------------------
(***************************************************************************)
(* Binding.                                                                *)
(***************************************************************************)

\* Only t includes more, and only through the node of its includes.
HeaderLinks(h, k, t) ==
  /\ \A x \in Nodes :
       /\ x # t => k.includes[x] = h.includes[x]
       /\ Sources(h, x) \subseteq Sources(k, x)
       /\ Sources(k, x) \subseteq Sources(h, x) \cup Files
       /\ Sources(k, x) = Sources(h, x) \/ (t \in Files /\ x = IncludeNode[t] /\ k.includes[t] = IncludeNode[t])
  /\ k.includes[t] = h.includes[t] \/ (t \in Files /\ k.includes[t] = IncludeNode[t])

LEMMA HeaderLinksFrom ==
  ASSUME NEW h \in Graphs, NEW k, NEW t \in Files, NEW F \in SUBSET Files, IncludesMore(h, k, t, F)
  PROVE  HeaderLinks(h, k, t)
<1>1. h.includes \in [Nodes -> Nodes \cup {NoTarget}] /\ t \in Nodes
  BY GraphFields, NodesOfFiles
<1>2. k.includes[t] = IncludeNode[t] /\ \A x \in Nodes : x # t => k.includes[x] = h.includes[x]
  BY <1>1 DEF IncludesMore
<1>3. \A x \in Nodes : Sources(k, x) = Sources(h, x) \cup (IF x = IncludeNode[t] THEN F ELSE {})
  BY DEF IncludesMore
<1> QED
  BY <1>2, <1>3 DEF HeaderLinks

LEMMA HeaderLinksOn ==
  ASSUME NEW h, NEW k, NEW b, NEW t, HeaderLinks(h, k, t), HeaderLinks(k, b, t)
  PROVE  HeaderLinks(h, b, t)
<1>1. \A x \in Nodes : x # t => b.includes[x] = h.includes[x]
  BY DEF HeaderLinks
<1>2. b.includes[t] = h.includes[t] \/ (t \in Files /\ b.includes[t] = IncludeNode[t])
  BY DEF HeaderLinks
<1>3. \A x \in Nodes : Sources(h, x) \subseteq Sources(b, x) /\ Sources(b, x) \subseteq Sources(h, x) \cup Files
  BY DEF HeaderLinks
<1>4. \A x \in Nodes : Sources(b, x) = Sources(h, x) \/ (t \in Files /\ x = IncludeNode[t] /\ b.includes[t] = IncludeNode[t])
  BY DEF HeaderLinks
<1> QED
  BY <1>1, <1>2, <1>3, <1>4 DEF HeaderLinks

\* What binding makes of a target.
BoundAs(k, t) ==
  IF t \in InternalNodes \/ "NOTFILE" \in k.flags[t] THEN k.binding[t] = "UNBOUND"
  ELSE /\ k.time[t] = k.disk[t]
       /\ k.disk[t] # 0 => k.binding[t] = "EXISTS"
       /\ k.disk[t] = 0 => k.binding[t] = "MISSING" \/ (k.binding[t] = "PARENTS" /\ "TEMP" \in k.flags[t])

\* A temporary file that is missing: so is p, or p's time stands for its.
Parented(k, t, p) ==
  "TEMP" \in k.flags[t] =>
    /\ k.binding[t] = "MISSING" /\ p \in Nodes \ {t} => k.binding[p] = "MISSING"
    /\ k.binding[t] = "PARENTS" => p \in Nodes

Binds(h, k, t, p) ==
  /\ k.disk = h.disk /\ k.flags = h.flags /\ k.actions = h.actions /\ k.rebuilds = h.rebuilds
  /\ k.fate = h.fate /\ k.cantfind = h.cantfind /\ k.leaf = h.leaf
  /\ HeaderLinks(h, k, t)
  /\ \A x \in Nodes : x # t => k.binding[x] = h.binding[x] /\ k.time[x] = h.time[x]
  /\ h.binding[t] = "UNBOUND" => BoundAs(k, t) /\ Parented(k, t, p)
  /\ t \in InternalNodes \/ "NOTFILE" \in h.flags[t] => k.time[t] = h.time[t]

\* Another binding and time for t.
SameButBinding(h, k, t) ==
  /\ k \in Graphs
  /\ k.disk = h.disk /\ k.flags = h.flags /\ k.actions = h.actions /\ k.rebuilds = h.rebuilds
  /\ k.fate = h.fate /\ k.cantfind = h.cantfind /\ k.depends = h.depends /\ k.includes = h.includes
  /\ k.leaf = h.leaf
  /\ \A x \in Nodes : x # t => k.binding[x] = h.binding[x] /\ k.time[x] = h.time[x]

LEMMA BindingSet ==
  ASSUME NEW h \in Graphs, NEW t \in Nodes, NEW b \in Bindings
  PROVE  /\ SameButBinding(h, [h EXCEPT !.binding[t] = b], t)
         /\ [h EXCEPT !.binding[t] = b].binding[t] = b /\ [h EXCEPT !.binding[t] = b].time = h.time
<1> DEFINE B == [h.binding EXCEPT ![t] = b]
           k == [h EXCEPT !.binding = B]
<1>1. B \in [Nodes -> Bindings] /\ B[t] = b /\ \A x \in Nodes : x # t => B[x] = h.binding[x]
  BY GraphFields
<1>2. [h EXCEPT !.binding[t] = b] = k
  OBVIOUS
<1> HIDE DEF B
<1>3. /\ k \in Graphs
      /\ k.disk = h.disk /\ k.flags = h.flags /\ k.actions = h.actions /\ k.rebuilds = h.rebuilds
      /\ k.fate = h.fate /\ k.cantfind = h.cantfind /\ k.depends = h.depends /\ k.includes = h.includes
      /\ k.binding = B /\ k.time = h.time /\ k.leaf = h.leaf
  BY <1>1 DEF Graphs
<1> HIDE DEF k
<1> QED
  BY <1>1, <1>2, <1>3 DEF SameButBinding

LEMMA BindIs ==
  ASSUME NEW h \in Graphs, NEW t \in Nodes, NEW p \in Parents
  PROVE  Bind(h, t, p) \in Graphs /\ Binds(h, Bind(h, t, p), t, p)
<1> DEFINE fresh == h.binding[t] = "UNBOUND" /\ "NOTFILE" \notin h.flags[t]
           same  == IF fresh /\ Another[t] # NoTarget THEN TargetInclude(h, t, Another[t]) ELSE h
           found == IF h.disk[t] # 0 THEN "EXISTS" ELSE "MISSING"
           timed == [same EXCEPT !.time[t] = h.disk[t]]
           bound == IF ~fresh THEN same
                    ELSE [same EXCEPT !.time[t] = h.disk[t],
                                      !.binding[t] = IF h.disk[t] # 0 THEN "EXISTS" ELSE "MISSING"]
           temp  == IF /\ p # NoTarget /\ "TEMP" \in h.flags[t]
                       /\ bound.binding[t] = "MISSING" /\ bound.binding[p] # "MISSING"
                    THEN [bound EXCEPT !.binding[t] = "PARENTS"] ELSE bound
           end   == IF temp.binding[t] = "EXISTS" /\ HeadersOf[t] # <<>>
                    THEN Includes(temp, <<t>>, HeadersOf[t]) ELSE temp
<1>1. Bind(h, t, p) = IF t \in InternalNodes THEN h ELSE end
  BY DEF Bind
<1>2. HeaderLinks(h, h, t)
  BY DEF HeaderLinks
<1>3. ASSUME t \in InternalNodes PROVE Binds(h, h, t, p)
  BY <1>2, <1>3 DEF Binds, BoundAs, Parented
<1>4. ASSUME t \notin InternalNodes PROVE end \in Graphs /\ Binds(h, end, t, p)
  <2>1. t \in Files
    BY <1>4 DEF Nodes, InternalNodes
  <2>2. Another[t] \in Files \cup {NoTarget} /\ HeadersOf[t] \in Seq(Files) /\ h.disk[t] \in Nat
    BY <2>1, Make0Assumption, GraphFields
  <2>3. same \in Graphs /\ SameButLinks(h, same) /\ HeaderLinks(h, same, t)
    <3>1. CASE fresh /\ Another[t] # NoTarget
      <4>1. Another[t] \in Files
        BY <2>2, <3>1
      <4>2. IncludesMore(h, TargetInclude(h, t, Another[t]), t, {Another[t]})
        BY <2>1, <4>1, TargetIncludeIs
      <4>3. {Another[t]} \in SUBSET Files
        BY <4>1
      <4>4. same = TargetInclude(h, t, Another[t])
        BY <3>1
      <4>5. HeaderLinks(h, same, t)
        BY <2>1, <4>2, <4>3, <4>4, HeaderLinksFrom
      <4> QED
        BY <4>2, <4>4, <4>5 DEF IncludesMore
    <3>2. CASE ~(fresh /\ Another[t] # NoTarget)
      BY <1>2, <3>2 DEF SameButLinks, SameButChains
    <3> QED
      BY <3>1, <3>2
  <2>4. fresh <=> (h.binding[t] = "UNBOUND" /\ "NOTFILE" \notin h.flags[t])
    OBVIOUS
  <2> HIDE DEF same, fresh
  <2>5. /\ SameButBinding(same, bound, t)
        /\ ~fresh => bound.binding[t] = h.binding[t] /\ bound.time[t] = h.time[t]
        /\ fresh => bound.binding[t] = found /\ bound.time[t] = h.disk[t]
    <3>1. CASE ~fresh
      BY <2>3, <3>1 DEF SameButBinding, SameButLinks, SameButChains
    <3>2. CASE fresh
      <4> DEFINE T == [same.time EXCEPT ![t] = h.disk[t]]
                 k == [same EXCEPT !.time = T]
      <4>1. T \in [Nodes -> Nat] /\ T[t] = h.disk[t] /\ \A x \in Nodes : x # t => T[x] = same.time[x]
        BY <2>2, <2>3, GraphFields
      <4>2. bound = [k EXCEPT !.binding[t] = found]
        BY <3>2
      <4> HIDE DEF T
      <4>3. /\ k \in Graphs
            /\ k.disk = same.disk /\ k.flags = same.flags /\ k.actions = same.actions /\ k.rebuilds = same.rebuilds
            /\ k.fate = same.fate /\ k.cantfind = same.cantfind /\ k.depends = same.depends /\ k.includes = same.includes
            /\ k.binding = same.binding /\ k.time = T /\ k.leaf = same.leaf
        BY <2>3, <4>1 DEF Graphs
      <4>4. found \in Bindings
        BY DEF Bindings
      <4> HIDE DEF k, found
      <4>5. SameButBinding(k, [k EXCEPT !.binding[t] = found], t)
            /\ [k EXCEPT !.binding[t] = found].binding[t] = found /\ [k EXCEPT !.binding[t] = found].time = k.time
        BY <4>3, <4>4, BindingSet
      <4>6. SameButBinding(k, bound, t) /\ bound.binding[t] = found /\ bound.time = k.time
        BY <4>2, <4>5
      <4> HIDE DEF bound
      <4> QED
        BY <3>2, <4>1, <4>3, <4>6 DEF SameButBinding
    <3> QED
      BY <3>1, <3>2
  <2>6. found = IF h.disk[t] # 0 THEN "EXISTS" ELSE "MISSING"
    OBVIOUS
  <2> HIDE DEF bound, found
  <2>7. /\ SameButBinding(bound, temp, t) /\ temp.time = bound.time
        /\ temp.binding[t] = bound.binding[t]
             \/ (bound.binding[t] = "MISSING" /\ temp.binding[t] = "PARENTS" /\ "TEMP" \in h.flags[t])
        /\ temp.binding[t] = "PARENTS" /\ bound.binding[t] # "PARENTS" => p # NoTarget
        /\ temp.binding[t] = "MISSING" /\ "TEMP" \in h.flags[t] /\ p # NoTarget => bound.binding[p] = "MISSING"
    <3>1. bound \in Graphs /\ "PARENTS" \in Bindings
      BY <2>5 DEF SameButBinding, Bindings
    <3>2. CASE /\ p # NoTarget /\ "TEMP" \in h.flags[t]
               /\ bound.binding[t] = "MISSING" /\ bound.binding[p] # "MISSING"
      <4>1. temp = [bound EXCEPT !.binding[t] = "PARENTS"]
        BY <3>2
      <4> HIDE DEF temp
      <4>2. temp.binding[t] = "PARENTS" /\ SameButBinding(bound, temp, t) /\ temp.time = bound.time
        BY <3>1, <4>1, BindingSet
      <4> QED
        BY <3>2, <4>2
    <3>3. CASE ~(/\ p # NoTarget /\ "TEMP" \in h.flags[t]
                 /\ bound.binding[t] = "MISSING" /\ bound.binding[p] # "MISSING")
      BY <3>1, <3>3 DEF SameButBinding
    <3> QED
      BY <3>2, <3>3
  <2> HIDE DEF temp
  <2>8. /\ temp \in Graphs /\ HeaderLinks(h, temp, t)
        /\ temp.disk = h.disk /\ temp.flags = h.flags /\ temp.actions = h.actions /\ temp.rebuilds = h.rebuilds
        /\ temp.fate = h.fate /\ temp.cantfind = h.cantfind /\ temp.leaf = h.leaf
        /\ \A x \in Nodes : x # t => temp.binding[x] = h.binding[x] /\ temp.time[x] = h.time[x]
    BY <2>3, <2>5, <2>7 DEF SameButBinding, SameButLinks, SameButChains, HeaderLinks, Sources
  <2>9. h.binding[t] = "UNBOUND" => BoundAs(temp, t)
    BY <1>4, <2>4, <2>5, <2>6, <2>7, <2>8 DEF BoundAs
  <2>a. h.binding[t] = "UNBOUND" => Parented(temp, t, p)
    <3>1. p \in Nodes \/ p = NoTarget
      BY DEF Parents
    <3>2. h.binding[t] = "UNBOUND" => bound.binding[t] # "PARENTS"
      BY <2>5, <2>6
    <3>3. p \in Nodes \ {t} => temp.binding[p] = bound.binding[p]
      BY <2>7 DEF SameButBinding
    <3>4. p \in Nodes => p # NoTarget
      BY NodesOfFiles
    <3> QED
      BY <2>7, <2>8, <3>1, <3>2, <3>3, <3>4 DEF Parented
  <2>b. "NOTFILE" \in h.flags[t] => temp.time[t] = h.time[t]
    BY <2>4, <2>5, <2>7
  <2>10. end \in Graphs /\ SameButLinks(temp, end) /\ HeaderLinks(temp, end, t)
    <3>1. CASE temp.binding[t] = "EXISTS" /\ HeadersOf[t] # <<>>
      <4>1. IncludesMore(temp, Includes(temp, <<t>>, HeadersOf[t]), t, ToSet(HeadersOf[t]))
        BY <2>1, <2>2, <2>8, IncludesIs
      <4>2. ToSet(HeadersOf[t]) \in SUBSET Files
        BY <2>2, SetOfList
      <4>3. end = Includes(temp, <<t>>, HeadersOf[t])
        BY <3>1
      <4> HIDE DEF end
      <4>4. HeaderLinks(temp, end, t)
        BY <2>1, <2>8, <4>1, <4>2, <4>3, HeaderLinksFrom
      <4> QED
        BY <4>1, <4>3, <4>4 DEF IncludesMore
    <3>2. CASE ~(temp.binding[t] = "EXISTS" /\ HeadersOf[t] # <<>>)
      BY <2>8, <3>2 DEF SameButLinks, SameButChains, HeaderLinks
    <3> QED
      BY <3>1, <3>2
  <2> HIDE DEF end
  <2>11. HeaderLinks(h, end, t)
    BY <2>8, <2>10, HeaderLinksOn
  <2> QED
    BY <1>4, <2>8, <2>9, <2>a, <2>b, <2>10, <2>11 DEF Binds, BoundAs, Parented, SameButLinks, SameButChains
<1> QED
  BY <1>1, <1>3, <1>4

-----------------------------------------------------------------------------
(***************************************************************************)
(* The visit of a target: step by step, what it makes of a graph is one.   *)
(***************************************************************************)
Visitors == [Graphs \X Nodes \X Parents -> Graphs]

\* What is visited by way of a list.
ListStep(p, visit) ==
  [y \in Graphs \X Nodes |->
     IF y[1].fate[y[2]] = T_FATE_INIT THEN visit[<<y[1], y[2], p>>] ELSE y[1]]

LEMMA ListStepIs ==
  ASSUME NEW p \in Parents, NEW visit \in Visitors
  PROVE  /\ ListStep(p, visit) \in Steppers
         /\ \A h \in Graphs, x \in Nodes :
              ListStep(p, visit)[<<h, x>>] = IF h.fate[x] = T_FATE_INIT THEN visit[<<h, x, p>>] ELSE h
<1>1. ASSUME NEW h \in Graphs, NEW x \in Nodes PROVE visit[<<h, x, p>>] \in Graphs
  BY DEF Visitors
<1>2. ASSUME NEW y \in Graphs \X Nodes
      PROVE  (IF y[1].fate[y[2]] = T_FATE_INIT THEN visit[<<y[1], y[2], p>>] ELSE y[1]) \in Graphs
  <2>1. y[1] \in Graphs /\ y[2] \in Nodes
    OBVIOUS
  <2>2. visit[<<y[1], y[2], p>>] \in Graphs
    BY <1>1, <2>1
  <2> QED
    BY <2>1, <2>2
<1>3. ListStep(p, visit) \in Steppers
  BY <1>2 DEF ListStep, Steppers
<1>4. ASSUME NEW h \in Graphs, NEW x \in Nodes
      PROVE  ListStep(p, visit)[<<h, x>>] = IF h.fate[x] = T_FATE_INIT THEN visit[<<h, x, p>>] ELSE h
  BY DEF ListStep
<1> QED
  BY <1>3, <1>4

LEMMA VisitAllIs ==
  ASSUME NEW h \in Graphs, NEW ts \in Seq(Nodes), NEW p \in Parents, NEW visit \in Visitors
  PROVE  /\ VisitAll(h, ts, p, visit) = Along(h, ts, ListStep(p, visit))
         /\ VisitAll(h, ts, p, visit) \in Graphs
<1>1. VisitAll(h, ts, p, visit) = Along(h, ts, ListStep(p, visit))
  BY DEF VisitAll, ListStep
<1> DEFINE step == ListStep(p, visit)
           S == Graphs
<1>2. step \in Steppers
  BY ListStepIs
<1> HIDE DEF step
<1>3. \A k \in Graphs \cap S, e \in ToSet(ts) : step[<<k, e>>] \in S
  BY <1>2, SetOfList DEF Steppers
<1>4. h \in S
  OBVIOUS
<1> HIDE DEF S
<1>5. Along(h, ts, step) \in Graphs
  BY <1>2, <1>3, <1>4, AlongKeeps
<1> QED
  BY <1>1, <1>5 DEF step

\* make0(t, p) up to the visit of what t includes.
Begun(h, t, p) == Bind([h EXCEPT !.fate[t] = T_FATE_MAKING], t, p)
Half(h, t, p, visit) ==
  VisitAll(Begun(h, t, p), Begun(h, t, p).depends[t], TimeParent(Begun(h, t, p), t, p), visit)
\* ... up to step 3c, and with the includes of the dependencies.
Most(h, t, p, visit) ==
  IF Half(h, t, p, visit).includes[t] = NoTarget THEN Half(h, t, p, visit)
  ELSE visit[<<Half(h, t, p, visit), Half(h, t, p, visit).includes[t], p>>]
Joins(h, t) == [h EXCEPT !.depends[t] = WithIncludes(h, t)]

LEMMA BeginsIs ==
  ASSUME NEW h \in Graphs, NEW t \in Nodes, NEW p \in Parents
  PROVE  Begun(h, t, p) \in Graphs
<1> DEFINE k == [h EXCEPT !.fate[t] = T_FATE_MAKING]
<1>1. k \in Graphs
  <2>1. T_FATE_MAKING \in Fates
    BY FateNumbers
  <2> QED
    BY <2>1, FateSet
<1> HIDE DEF k
<1>2. Bind(k, t, p) \in Graphs
  BY <1>1, BindIs
<1> QED
  BY <1>2 DEF Begun, k

\* t depends on the includes of what it depends on.
Includers(h, k, t) ==
  /\ k.disk = h.disk /\ k.flags = h.flags /\ k.actions = h.actions /\ k.rebuilds = h.rebuilds
  /\ k.includes = h.includes /\ k.binding = h.binding /\ k.cantfind = h.cantfind
  /\ k.fate = h.fate /\ k.time = h.time /\ k.leaf = h.leaf
  /\ \A x \in Nodes : x # t => Sources(k, x) = Sources(h, x)
  /\ \A x : x \in Sources(k, t) <=>
       x \in Sources(h, t) \/ \E d \in Sources(h, t) : h.includes[d] # NoTarget /\ x = h.includes[d]

LEMMA JoinsIs ==
  ASSUME NEW h \in Graphs, NEW t \in Nodes
  PROVE  Joins(h, t) \in Graphs /\ Includers(h, Joins(h, t), t)
<1> DEFINE D == [h.depends EXCEPT ![t] = WithIncludes(h, t)]
           k == [h EXCEPT !.depends = D]
<1>1. WithIncludes(h, t) \in Seq(Nodes) /\ h.depends \in [Nodes -> Seq(Nodes)]
  BY WithIncludesIs, GraphFields
<1>2. D \in [Nodes -> Seq(Nodes)] /\ D[t] = WithIncludes(h, t) /\ \A x \in Nodes : x # t => D[x] = h.depends[x]
  BY <1>1
<1>3. Joins(h, t) = k
  BY DEF Joins
<1> HIDE DEF D
<1>4. /\ k \in Graphs /\ k.depends = D
      /\ k.disk = h.disk /\ k.flags = h.flags /\ k.actions = h.actions /\ k.rebuilds = h.rebuilds
      /\ k.includes = h.includes /\ k.binding = h.binding /\ k.cantfind = h.cantfind
      /\ k.fate = h.fate /\ k.time = h.time /\ k.leaf = h.leaf
  BY <1>2 DEF Graphs
<1> HIDE DEF k
<1>5. Sources(k, t) = ToSet(WithIncludes(h, t)) /\ \A x \in Nodes : x # t => Sources(k, x) = Sources(h, x)
  BY <1>2, <1>4 DEF Sources
<1>6. \A x : x \in ToSet(WithIncludes(h, t)) <=>
         x \in Sources(h, t) \/ \E d \in Sources(h, t) : h.includes[d] # NoTarget /\ x = h.includes[d]
  BY WithIncludesIs
<1>7. Includers(h, k, t)
  BY <1>4, <1>5, <1>6 DEF Includers
<1> QED
  BY <1>3, <1>4, <1>7

LEMMA VisitBelowIs ==
  ASSUME NEW h \in Graphs, NEW t \in Nodes, NEW p \in Parents, NEW visit \in Visitors
  PROVE  /\ VisitBelow(h, t, p, visit) = Decide(Joins(Most(h, t, p, visit), t), t, p)
         /\ TimeParent(Begun(h, t, p), t, p) \in Parents
         /\ Begun(h, t, p).depends[t] \in Seq(Nodes)
         /\ Half(h, t, p, visit) \in Graphs
         /\ Most(h, t, p, visit) \in Graphs
         /\ Joins(Most(h, t, p, visit), t) \in Graphs
         /\ VisitBelow(h, t, p, visit) \in Graphs
<1>1. VisitBelow(h, t, p, visit) = Decide(Joins(Most(h, t, p, visit), t), t, p)
  BY DEF VisitBelow, Joins, Most, Half, Begun
<1> DEFINE b == Begun(h, t, p)
           half == Half(h, t, p, visit)
           most == Most(h, t, p, visit)
<1>2. b \in Graphs
  BY BeginsIs
<1>3. TimeParent(b, t, p) \in Parents
  BY DEF TimeParent, Parents
<1>4. half = VisitAll(b, b.depends[t], TimeParent(b, t, p), visit)
  BY DEF Half
<1>5. most = IF half.includes[t] = NoTarget THEN half ELSE visit[<<half, half.includes[t], p>>]
  BY DEF Most
<1> HIDE DEF b, half, most
<1>6. b.depends[t] \in Seq(Nodes)
  BY <1>2, GraphFields
<1>7. half \in Graphs
  BY <1>2, <1>3, <1>4, <1>6, VisitAllIs
<1>8. most \in Graphs
  <2>1. half.includes[t] \in Nodes \cup {NoTarget}
    BY <1>7, GraphFields
  <2>2. half.includes[t] \in Nodes => visit[<<half, half.includes[t], p>>] \in Graphs
    BY <1>7 DEF Visitors
  <2> QED
    BY <1>5, <1>7, <2>1, <2>2
<1>9. Joins(most, t) \in Graphs
  BY <1>8, JoinsIs
<1>10. Decide(Joins(most, t), t, p) \in Graphs
  BY <1>9, DecideIs
<1> QED
  BY <1>1, <1>3, <1>6, <1>7, <1>8, <1>9, <1>10 DEF b, half, most

\* The visits of each depth.
VisitSteps(v) ==
  /\ v \in [0..Deepest -> Visitors]
  /\ \A n \in 1..Deepest, h \in Graphs, t \in Nodes, p \in Parents :
       v[n][<<h, t, p>>] = VisitBelow(h, t, p, v[n - 1])
  /\ \A h \in Graphs, t \in Nodes, p \in Parents : Visit(h, t, p) = v[Deepest][<<h, t, p>>]

LEMMA VisitStepsExist == \E v : VisitSteps(v)
<1> DEFINE X == Graphs \X Nodes \X Parents
           Outer(u, x) == VisitBelow(x[1], x[2], x[3], u)
           n == Deepest
           base == [x \in X |-> x[1]]
           step == [z \in (1..n) \X Visitors |-> [x \in X |-> Outer(z[2], x)]]
           Body(f) == [i \in 0..n |-> [x \in X |-> IF i = 0 THEN x[1] ELSE Outer(f[i - 1], x)]]
           visit == CHOOSE f : f = Body(f)
<1>1. \A h \in Graphs, t \in Nodes, p \in Parents : Visit(h, t, p) = visit[n][<<h, t, p>>]
  BY DEF Visit
<1>2. Visitors = [X -> Graphs]
  BY DEF Visitors
<1>3. ASSUME NEW u \in Visitors, NEW x \in X PROVE Outer(u, x) \in Graphs
  <2>1. x[1] \in Graphs /\ x[2] \in Nodes /\ x[3] \in Parents
    OBVIOUS
  <2> QED
    BY <2>1, VisitBelowIs
<1>4. n \in Nat
  BY NodesFinite DEF Deepest
<1>a. \A u : \A h \in Graphs, t \in Nodes, p \in Parents :
        <<h, t, p>> \in X /\ Outer(u, <<h, t, p>>) = VisitBelow(h, t, p, u)
  OBVIOUS
<1>b. \A x \in X : x[1] \in Graphs
  OBVIOUS
<1> HIDE DEF Outer, n, X
<1>5. base \in Visitors
  BY <1>2, <1>b
<1>6. step \in [(1..n) \X Visitors -> Visitors]
  BY <1>2, <1>3
<1>7. PICK f : Follows(f, n, Visitors, base, step)
  <2> HIDE DEF step, base
  <2>1. Steps(n, Visitors, base, step)
    BY <1>4, <1>5, <1>6 DEF Steps
  <2> QED
    BY <2>1, PrimitiveRecursion
<1>8. /\ f \in [0..n -> Visitors]
      /\ f = [i \in 0..n |-> IF i = 0 THEN base ELSE step[<<i, f[i - 1]>>]]
  <2> HIDE DEF step, base
  <2> QED
    BY <1>7 DEF Follows
<1>9. ASSUME NEW i \in 1..n PROVE step[<<i, f[i - 1]>>] = [x \in X |-> Outer(f[i - 1], x)]
  <2>1. i - 1 \in 0..n
    BY <1>4
  <2>2. f[i - 1] \in Visitors
    <3> HIDE DEF step, base
    <3> QED
      BY <1>8, <2>1
  <2> QED
    BY <2>2
<1>10. f = Body(f)
  <2>1. \A i \in 0..n : i # 0 => i \in 1..n
    BY <1>4
  <2>2. \A i \in 0..n : f[i] = [x \in X |-> IF i = 0 THEN x[1] ELSE Outer(f[i - 1], x)]
    <3> TAKE i \in 0..n
    <3>1. f[i] = IF i = 0 THEN base ELSE step[<<i, f[i - 1]>>]
      <4> HIDE DEF step, base
      <4> QED
        BY <1>8
    <3>2. CASE i = 0
      <4> HIDE DEF step
      <4> QED
        BY <3>1, <3>2
    <3>3. CASE i # 0
      <4>1. f[i] = step[<<i, f[i - 1]>>]
        <5> HIDE DEF step, base
        <5> QED
          BY <3>1, <3>3
      <4> HIDE DEF step, base
      <4> QED
        BY <1>9, <2>1, <3>3, <4>1
    <3> QED
      BY <3>2, <3>3
  <2> HIDE DEF step, base
  <2> QED
    BY <1>8, <2>2
<1>11. visit = Body(visit)
  <2> HIDE DEF Body
  <2> QED
    BY <1>10
<1> HIDE DEF visit
<1>12. \A i \in 0..n : visit[i] = [x \in X |-> IF i = 0 THEN x[1] ELSE Outer(visit[i - 1], x)]
  BY <1>11
<1> DEFINE S == {i \in 0..n : visit[i] \in Visitors}
<1>13. \A i \in 0..n : i \in S
  <2>1. 0 \in S
    <3>1. 0 \in 0..n
      BY <1>4
    <3>2. visit[0] = [x \in X |-> IF 0 = 0 THEN x[1] ELSE Outer(visit[0 - 1], x)]
      BY <1>12, <3>1
    <3> QED
      BY <1>2, <1>b, <3>1, <3>2
  <2>2. ASSUME NEW i \in 1..n, i - 1 \in S PROVE i \in S
    <3>1. i \in 0..n /\ i # 0 /\ visit[i - 1] \in Visitors
      BY <1>4, <2>2
    <3>2. visit[i] = [x \in X |-> IF i = 0 THEN x[1] ELSE Outer(visit[i - 1], x)]
      BY <1>12, <3>1
    <3>3. \A x \in X : Outer(visit[i - 1], x) \in Graphs
      BY <1>3, <3>1
    <3> QED
      BY <1>2, <3>1, <3>2, <3>3
  <2> HIDE DEF S
  <2> QED
    BY <1>4, <2>1, <2>2, FiniteInduction
<1>14. visit \in [0..n -> Visitors]
  BY <1>11, <1>13
<1>15. ASSUME NEW i \in 1..n, NEW h \in Graphs, NEW t \in Nodes, NEW p \in Parents
       PROVE  visit[i][<<h, t, p>>] = VisitBelow(h, t, p, visit[i - 1])
  <2>1. i \in 0..n /\ i # 0
    BY <1>4
  <2>2. visit[i] = [x \in X |-> Outer(visit[i - 1], x)]
    BY <1>12, <2>1
  <2>3. <<h, t, p>> \in X /\ Outer(visit[i - 1], <<h, t, p>>) = VisitBelow(h, t, p, visit[i - 1])
    BY <1>a
  <2> QED
    BY <2>2, <2>3
<1>16. VisitSteps(visit)
  BY <1>1, <1>14, <1>15 DEF VisitSteps, n
<1> QED
  BY <1>16

-----------------------------------------------------------------------------
(***************************************************************************)
(* What is known of a target once its fate is decided.  On a cycle it was  *)
(* decided while one of its dependencies was still being visited.          *)
(***************************************************************************)
Done(h, x)   == h.fate[x] >= T_FATE_STABLE
Making(h, x) == h.fate[x] = T_FATE_MAKING

\* A file, and there is one, or none.
IsFile(h, x) == x \in Files /\ "NOTFILE" \notin h.flags[x]

\* a leads to b: so does everything closed under dependencies and includes.
Closed(h, S) ==
  \A x \in S : Sources(h, x) \subseteq S /\ (h.includes[x] # NoTarget => h.includes[x] \in S)
Leads(h, a, b) == \A S \in SUBSET Nodes : a \in S /\ Closed(h, S) => b \in S
OnCycle(h, n) == \E e \in Sources(h, n) : Leads(h, e, n)

\* What the file of n and its flags say.
OfItself(h, n) ==
  /\ h.fate[n] >= T_FATE_BROKEN => h.cantfind > 0
  /\ IsFile(h, n) /\ h.disk[n] # 0 /\ "NOUPDATE" \notin h.flags[n] => h.time[n] >= h.disk[n]
  /\ IsFile(h, n) /\ h.disk[n] = 0 /\ h.flags[n] \cap {"TEMP", "NOCARE"} = {} => h.fate[n] >= T_FATE_BUILD
  /\ "TOUCHED" \in h.flags[n] /\ ~(IsFile(h, n) /\ h.disk[n] = 0 /\ "NOCARE" \in h.flags[n])
       => h.fate[n] >= T_FATE_BUILD

\* What its dependencies say.
OfDepends(h, n) ==
  \A d \in Sources(h, n) :
    /\ Done(h, d)
    /\ Heeds(h, n) =>
         /\ h.fate[d] >= T_FATE_BROKEN => h.fate[n] = T_FATE_CANTMAKE
         /\ h.fate[d] >= T_FATE_SPOIL => h.fate[n] >= T_FATE_UPDATE
         /\ h.time[d] <= h.time[n]
         /\ IsFile(h, n) /\ h.disk[n] # 0 /\ h.disk[n] < h.time[d] => h.fate[n] >= T_FATE_BUILD

\* Its dependencies have been visited, and their includes joined them.
OfVisit(h, n) ==
  /\ \A d \in Sources(h, n) :
       /\ h.fate[d] # T_FATE_INIT \/ \E f \in Files : d = IncludeNode[f] /\ Making(h, f)
       /\ h.includes[d] # NoTarget => h.includes[d] \in Sources(h, n)
  /\ h.includes[n] # NoTarget => Done(h, h.includes[n])

Whole(h, n) == OfItself(h, n) /\ (OnCycle(h, n) \/ OfDepends(h, n)) /\ OfVisit(h, n)

(***************************************************************************)
(* Why a target is made, and whose file its times come from.               *)
(***************************************************************************)
OnFile(h, x) == IsFile(h, x) /\ h.disk[x] # 0

\* b is reached from a: it is in every set closed under `next' that has a.
Path(next, a, b) == \A S \in SUBSET Nodes : a \in S /\ (\A x \in S : next[x] \subseteq S) => b \in S
All(h)    == [x \in Nodes |-> Sources(h, x)]
Minded(h) == [x \in Nodes |-> IF Heeds(h, x) THEN Sources(h, x) ELSE {}]

\* The dependencies of t and its includes.
Feeds(h, t) == Sources(h, t) \cup ({h.includes[t]} \ {NoTarget})

\* A temporary file is asked for, or something made from it is no file or older.
Shown(h, t) ==
  \/ t \in ToSet(Asked)
  \/ \E n \in Nodes : /\ t \in Sources(h, n) /\ h.fate[n] # T_FATE_INIT
                      /\ \/ ~OnFile(h, n)
                         \/ \E s \in Feeds(h, t), d \in Nodes :
                              Path(All(h), s, d) /\ OnFile(h, d) /\ h.disk[n] < h.disk[d]

\* The reasons that t itself has.
Cause(h, t) ==
  \/ "TOUCHED" \in h.flags[t] \/ (Anyhow /\ "NOUPDATE" \notin h.flags[t])
  \/ "TEMP" \in h.flags[t] /\ OnFile(h, t)
  \/ IsFile(h, t) /\ h.disk[t] = 0 /\ ("TEMP" \in h.flags[t] => Shown(h, t))
  \/ /\ "NOUPDATE" \notin h.flags[t] /\ OnFile(h, t)
     /\ IF "LEAVES" \in h.flags[t]
        THEN \E c \in Sources(h, t) : Done(h, c) /\ h.leaf[c] > h.disk[t]
        ELSE \E d \in Nodes : Path(All(h), t, d) /\ OnFile(h, d) /\ h.disk[d] > h.disk[t]

\* v is the age of a file that x is made from, or of x.
Dated(h, x, v) == v = 0 \/ \E e \in Nodes : Path(All(h), x, e) /\ OnFile(h, e) /\ h.disk[e] = v

\* The newest leaf is one of a dependency or, when they have none, n itself.
LeafOfDepends(h, n) ==
  /\ \A d \in Sources(h, n) : Done(h, d)
  /\ h.leaf[n] = 0 => \A d \in Sources(h, n) : h.leaf[d] = 0
  /\ h.leaf[n] # 0 => \/ \E d \in Sources(h, n) : h.leaf[d] = h.leaf[n]
                      \/ h.leaf[n] = h.time[n] /\ \A d \in Sources(h, n) : h.leaf[d] = 0
  /\ \/ h.time[n] = 0
     \/ OnFile(h, n) /\ h.time[n] = h.disk[n]
     \/ \E d \in Sources(h, n) : h.time[n] \in {h.time[d], h.leaf[d]}

\* What is known of the reasons and times of x.
CausedAt(h, x) ==
  /\ h.fate[x] = T_FATE_INIT => h.time[x] = 0
  /\ ~Done(h, x) => h.leaf[x] = 0
  /\ Dated(h, x, h.time[x]) /\ Dated(h, x, h.leaf[x])
  /\ Done(h, x) =>
       /\ h.leaf[x] = 0 => h.time[x] = 0
       /\ h.fate[x] >= T_FATE_SPOIL /\ h.fate[x] < T_FATE_BROKEN
            => \E e \in Nodes : Path(Minded(h), x, e) /\ Cause(h, e)
       /\ OnCycle(h, x) \/ LeafOfDepends(h, x)

\* A graph in the course of make0().
Sound(h) ==
  /\ h \in Graphs /\ Shaped(h) /\ Peaceful(h) /\ Joined(h)
  /\ \A x \in Nodes : /\ ~Done(h, x) => Sources(h, x) \subseteq Files
                      /\ h.fate[x] = T_FATE_INIT => h.binding[x] = "UNBOUND"
                      /\ Done(h, x) => Whole(h, x)
                      /\ CausedAt(h, x)
  /\ \A f \in Files :
       /\ h.fate[IncludeNode[f]] # T_FATE_INIT => h.fate[f] # T_FATE_INIT
       /\ \A x \in Nodes : IncludeNode[f] \in Sources(h, x) =>
            h.fate[f] # T_FATE_INIT /\ h.includes[f] = IncludeNode[f]

\* Later: what is decided stays, and so do the links.
Grows(h, k) ==
  /\ k.disk = h.disk /\ k.flags = h.flags /\ k.actions = h.actions /\ k.rebuilds = h.rebuilds
  /\ k.cantfind >= h.cantfind
  /\ \A x \in Nodes :
       /\ Sources(h, x) \subseteq Sources(k, x)
       /\ h.includes[x] # NoTarget => k.includes[x] = h.includes[x]
       /\ h.fate[x] # T_FATE_INIT => k.fate[x] # T_FATE_INIT /\ k.includes[x] = h.includes[x]
       /\ Done(h, x) => /\ k.fate[x] = h.fate[x] /\ k.time[x] = h.time[x] /\ k.leaf[x] = h.leaf[x]
                        /\ Sources(k, x) = Sources(h, x)
  /\ \A f \in Files : Making(h, f) /\ h.includes[f] = IncludeNode[f]
                        => Making(k, f) \/ k.fate[IncludeNode[f]] # T_FATE_INIT

LEMMA LeadsGrows ==
  ASSUME NEW h, NEW k, Grows(h, k), NEW a, NEW b, Leads(h, a, b)
  PROVE  Leads(k, a, b)
<1> SUFFICES ASSUME NEW S \in SUBSET Nodes, a \in S, Closed(k, S) PROVE b \in S
  BY DEF Leads
<1>1. Closed(h, S)
  <2> SUFFICES ASSUME NEW x \in S
               PROVE  Sources(h, x) \subseteq S /\ (h.includes[x] # NoTarget => h.includes[x] \in S)
    BY DEF Closed
  <2>1. Sources(k, x) \subseteq S /\ (k.includes[x] # NoTarget => k.includes[x] \in S)
    BY DEF Closed
  <2>2. Sources(h, x) \subseteq Sources(k, x) /\ (h.includes[x] # NoTarget => k.includes[x] = h.includes[x])
    BY DEF Grows
  <2> QED
    BY <2>1, <2>2
<1> QED
  BY <1>1 DEF Leads

LEMMA LeadsOn ==
  ASSUME NEW h, NEW a, NEW b, NEW x, Leads(h, a, b), Leads(h, b, x)
  PROVE  Leads(h, a, x)
BY DEF Leads

LEMMA LeadsNext ==
  ASSUME NEW h, NEW t \in Nodes
  PROVE  /\ Leads(h, t, t)
         /\ \A d \in Sources(h, t) : Leads(h, t, d)
         /\ h.includes[t] # NoTarget => Leads(h, t, h.includes[t])
BY DEF Leads, Closed

LEMMA PathMore ==
  ASSUME NEW m, NEW n, \A x \in Nodes : m[x] \subseteq n[x], NEW a, NEW b, Path(m, a, b)
  PROVE  Path(n, a, b)
<1> SUFFICES ASSUME NEW S \in SUBSET Nodes, a \in S, \A x \in S : n[x] \subseteq S PROVE b \in S
  BY DEF Path
<1>1. \A x \in S : m[x] \subseteq S
  OBVIOUS
<1> QED
  BY <1>1 DEF Path

LEMMA PathSelf == \A m, a : Path(m, a, a)
BY DEF Path

LEMMA PathFrom ==
  ASSUME NEW m, NEW a, NEW c \in m[a], NEW b, Path(m, c, b)
  PROVE  Path(m, a, b)
BY DEF Path

LEMMA PathsGrow ==
  ASSUME NEW h, NEW k, Grows(h, k), NEW a, NEW b
  PROVE  /\ Path(All(h), a, b) => Path(All(k), a, b)
         /\ Path(Minded(h), a, b) => Path(Minded(k), a, b)
<1>1. \A x \in Nodes : Sources(h, x) \subseteq Sources(k, x) /\ (Heeds(h, x) <=> Heeds(k, x))
  BY DEF Grows, Heeds
<1>2. \A x \in Nodes : All(h)[x] \subseteq All(k)[x]
  BY <1>1 DEF All
<1>3. \A x \in Nodes : Minded(h)[x] \subseteq Minded(k)[x]
  BY <1>1 DEF Minded
<1> QED
  BY <1>2, <1>3, PathMore

LEMMA FileGrows ==
  ASSUME NEW h, NEW k, Grows(h, k)
  PROVE  \A x : (IsFile(h, x) <=> IsFile(k, x)) /\ (OnFile(h, x) <=> OnFile(k, x))
BY DEF Grows, IsFile, OnFile

LEMMA DatedGrows ==
  ASSUME NEW h, NEW k, Grows(h, k), NEW x, NEW v, Dated(h, x, v)
  PROVE  Dated(k, x, v)
<1>1. k.disk = h.disk
  BY DEF Grows
<1>2. CASE v = 0
  BY <1>2 DEF Dated
<1>3. ASSUME NEW e \in Nodes, Path(All(h), x, e), OnFile(h, e), h.disk[e] = v
      PROVE  Dated(k, x, v)
  BY <1>1, <1>3, PathsGrow, FileGrows DEF Dated
<1> QED
  BY <1>2, <1>3 DEF Dated

\* A reason stays one.
LEMMA CauseGrows ==
  ASSUME NEW h \in Graphs, NEW k, Grows(h, k), NEW t \in Nodes, Cause(h, t)
  PROVE  Cause(k, t)
<1>1. /\ k.disk = h.disk /\ k.flags = h.flags /\ Sources(h, t) \subseteq Sources(k, t)
      /\ Sources(h, t) \subseteq Nodes
  <2>1. Sources(h, t) \subseteq Nodes
    BY GraphFields, SetOfList DEF Sources
  <2> QED
    BY <2>1 DEF Grows
<1>2. \A x : (IsFile(h, x) <=> IsFile(k, x)) /\ (OnFile(h, x) <=> OnFile(k, x))
  BY FileGrows
<1>3. Feeds(h, t) \subseteq Feeds(k, t)
  BY <1>1 DEF Feeds, Grows
<1>4. Shown(h, t) => Shown(k, t)
  <2> SUFFICES ASSUME NEW n \in Nodes, t \in Sources(h, n), h.fate[n] # T_FATE_INIT,
                      \/ ~OnFile(h, n)
                      \/ \E s \in Feeds(h, t), d \in Nodes :
                           Path(All(h), s, d) /\ OnFile(h, d) /\ h.disk[n] < h.disk[d]
               PROVE  Shown(k, t)
    BY DEF Shown
  <2>1. t \in Sources(k, n) /\ k.fate[n] # T_FATE_INIT
    BY DEF Grows
  <2>2. CASE ~OnFile(h, n)
    BY <1>2, <2>1, <2>2 DEF Shown
  <2>3. ASSUME NEW s \in Feeds(h, t), NEW d \in Nodes,
               Path(All(h), s, d), OnFile(h, d), h.disk[n] < h.disk[d]
        PROVE  Shown(k, t)
    <3>1. s \in Feeds(k, t) /\ Path(All(k), s, d) /\ OnFile(k, d) /\ k.disk[n] < k.disk[d]
      BY <1>1, <1>2, <1>3, <2>3, PathsGrow
    <3> QED
      BY <2>1, <3>1 DEF Shown
  <2> QED
    BY <2>2, <2>3
<1>5. ASSUME NEW c \in Sources(h, t), Done(h, c), h.leaf[c] > h.disk[t]
      PROVE  \E x \in Sources(k, t) : Done(k, x) /\ k.leaf[x] > k.disk[t]
  <2>1. c \in Sources(k, t) /\ c \in Nodes
    BY <1>1
  <2>2. Done(k, c) /\ k.leaf[c] > k.disk[t]
    BY <1>1, <1>5, <2>1 DEF Grows, Done
  <2> QED
    BY <2>1, <2>2
<1>6. ASSUME NEW d \in Nodes, Path(All(h), t, d), OnFile(h, d), h.disk[d] > h.disk[t]
      PROVE  \E x \in Nodes : Path(All(k), t, x) /\ OnFile(k, x) /\ k.disk[x] > k.disk[t]
  BY <1>1, <1>2, <1>6, PathsGrow
<1> QED
  BY <1>1, <1>2, <1>4, <1>5, <1>6 DEF Cause

LEMMA CausedStays ==
  ASSUME NEW h \in Graphs, NEW k, Grows(h, k), NEW x \in Nodes, CausedAt(h, x),
         k.fate[x] = h.fate[x], k.time[x] = h.time[x], k.leaf[x] = h.leaf[x]
  PROVE  CausedAt(k, x)
<1>1. Done(k, x) <=> Done(h, x)
  BY DEF Done
<1>2. Dated(k, x, k.time[x]) /\ Dated(k, x, k.leaf[x])
  BY DatedGrows DEF CausedAt
<1>3. ASSUME Done(h, x) PROVE OnCycle(k, x) \/ LeafOfDepends(k, x)
  <2>1. Sources(k, x) = Sources(h, x) /\ k.disk = h.disk
    BY <1>3 DEF Grows
  <2>2. OnCycle(h, x) => OnCycle(k, x)
    BY <2>1, LeadsGrows DEF OnCycle
  <2>3. ASSUME LeafOfDepends(h, x) PROVE LeafOfDepends(k, x)
    <3>1. Sources(h, x) \subseteq Nodes
      BY GraphFields, SetOfList DEF Sources
    <3>2. \A d \in Sources(h, x) : Done(h, d) /\ Done(k, d) /\ k.leaf[d] = h.leaf[d] /\ k.time[d] = h.time[d]
      BY <2>3, <3>1 DEF LeafOfDepends, Grows, Done
    <3>3. OnFile(k, x) <=> OnFile(h, x)
      BY FileGrows
    <3> QED
      BY <2>1, <2>3, <3>2, <3>3 DEF LeafOfDepends
  <2> QED
    BY <1>3, <2>2, <2>3 DEF CausedAt
<1>4. ASSUME NEW e \in Nodes, Path(Minded(h), x, e), Cause(h, e)
      PROVE  \E d \in Nodes : Path(Minded(k), x, d) /\ Cause(k, d)
  BY <1>4, PathsGrow, CauseGrows
<1> QED
  BY <1>1, <1>2, <1>3, <1>4 DEF CausedAt

LEMMA JoinedGrows ==
  ASSUME NEW h, NEW k, Joined(h), k.actions = h.actions,
         \A x \in Nodes : /\ Sources(h, x) \subseteq Sources(k, x)
                          /\ h.includes[x] # NoTarget => k.includes[x] = h.includes[x]
  PROVE  Joined(k)
<1> SUFFICES ASSUME NEW x \in Nodes, NEW a \in DOMAIN ActionTargets, a \in ToSet(k.actions[x])
             PROVE  /\ x \in ToSet(ActionTargets[a])
                    /\ \A i \in 2..Len(ActionTargets[a]) :
                         Paired(k, ActionTargets[a][1], ActionTargets[a][i])
  BY DEF Joined
<1>1. /\ x \in ToSet(ActionTargets[a])
      /\ \A i \in 2..Len(ActionTargets[a]) : Paired(h, ActionTargets[a][1], ActionTargets[a][i])
  BY DEF Joined
<1>2. ASSUME NEW i \in 2..Len(ActionTargets[a])
      PROVE  Paired(k, ActionTargets[a][1], ActionTargets[a][i])
  <2> DEFINE f == ActionTargets[a][1]
             e == ActionTargets[a][i]
  <2>1. f \in Files /\ e \in Files
    BY DepGraphAssumption
  <2>2. Paired(h, f, e)
    BY <1>1
  <2> HIDE DEF f, e
  <2>3. /\ f \in Nodes /\ e \in Nodes /\ IncludeNode[f] \in Nodes /\ IncludeNode[e] \in Nodes
        /\ IncludeNode[f] # NoTarget /\ IncludeNode[e] # NoTarget
    BY <2>1, NodesOfFiles
  <2>4. Paired(k, f, e)
    BY <2>2, <2>3 DEF Paired
  <2> QED
    BY <2>4 DEF f, e
<1> QED
  BY <1>1, <1>2

LEMMA WholeStays ==
  ASSUME NEW h, Sound(h), NEW k \in Graphs, Shaped(k), Grows(h, k), NEW n \in Nodes, Done(h, n)
  PROVE  Whole(k, n)
<1>1. Whole(h, n) /\ h \in Graphs
  BY DEF Sound
<1>2. /\ k.fate[n] = h.fate[n] /\ k.time[n] = h.time[n] /\ Sources(k, n) = Sources(h, n)
      /\ k.disk = h.disk /\ k.flags = h.flags /\ k.cantfind >= h.cantfind
      /\ Sources(h, n) \subseteq Nodes
  <2>1. Sources(h, n) \subseteq Nodes
    BY <1>1, GraphFields, SetOfList DEF Sources
  <2> QED
    BY <2>1 DEF Grows
<1>3. OfItself(k, n)
  <2>1. k.cantfind \in Nat /\ h.cantfind \in Nat
    BY <1>1, GraphFields
  <2> QED
    BY <1>1, <1>2, <2>1 DEF Whole, OfItself, IsFile
<1>4. OnCycle(h, n) => OnCycle(k, n)
  BY <1>2, LeadsGrows DEF OnCycle
<1>5. OfDepends(h, n) => OfDepends(k, n)
  BY <1>2 DEF OfDepends, Grows, IsFile, Heeds, Done
<1>6. OfVisit(k, n)
  <2>1. ASSUME NEW d \in Sources(k, n)
        PROVE  k.fate[d] # T_FATE_INIT \/ \E f \in Files : d = IncludeNode[f] /\ Making(k, f)
    <3>1. h.fate[d] # T_FATE_INIT \/ \E f \in Files : d = IncludeNode[f] /\ Making(h, f)
      BY <1>1, <1>2, <2>1 DEF Whole, OfVisit
    <3>2. h.fate[d] # T_FATE_INIT => k.fate[d] # T_FATE_INIT
      BY <1>2 DEF Grows
    <3>3. ASSUME NEW f \in Files, d = IncludeNode[f], Making(h, f)
          PROVE  k.fate[d] # T_FATE_INIT \/ Making(k, f)
      <4>1. h.includes[f] = IncludeNode[f]
        BY <1>2, <3>3 DEF Sound
      <4> QED
        BY <3>3, <4>1 DEF Grows
    <3> QED
      BY <3>1, <3>2, <3>3
  <2>2. ASSUME NEW d \in Sources(k, n), k.includes[d] # NoTarget
        PROVE  k.includes[d] \in Sources(k, n)
    <3>1. h.fate[d] # T_FATE_INIT \/ \E f \in Files : d = IncludeNode[f] /\ Making(h, f)
      BY <1>1, <1>2, <2>2 DEF Whole, OfVisit
    <3>2. ASSUME NEW f \in Files, d = IncludeNode[f] PROVE k.includes[d] = NoTarget
      BY <3>2, NodesOfFiles DEF Shaped
    <3>3. h.fate[d] # T_FATE_INIT
      BY <2>2, <3>1, <3>2
    <3>4. k.includes[d] = h.includes[d]
      BY <1>2, <3>3 DEF Grows
    <3> QED
      BY <1>1, <1>2, <2>2, <3>4 DEF Whole, OfVisit
  <2>3. k.includes[n] # NoTarget => Done(k, k.includes[n])
    <3>1. h.fate[n] # T_FATE_INIT
      <4>1. h.fate[n] \in Fates
        BY <1>1, GraphFields
      <4> QED
        BY <4>1, FateNumbers DEF Done
    <3>2. k.includes[n] = h.includes[n]
      BY <3>1 DEF Grows
    <3>3. h.includes[n] # NoTarget => h.includes[n] \in Nodes
      BY <1>1, GraphFields
    <3> QED
      BY <1>1, <3>2, <3>3 DEF Whole, OfVisit, Grows, Done
  <2> QED
    BY <2>1, <2>2, <2>3 DEF OfVisit
<1> QED
  BY <1>1, <1>3, <1>4, <1>5, <1>6 DEF Whole

-----------------------------------------------------------------------------
(***************************************************************************)
(* A visit, from its call to its return.                                   *)
(***************************************************************************)

\* From before the visits of others to after them.
Kept(h, k) ==
  /\ k.disk = h.disk /\ k.flags = h.flags /\ k.actions = h.actions /\ k.rebuilds = h.rebuilds
  /\ k.cantfind >= h.cantfind
  /\ \A x \in Nodes :
       /\ Sources(h, x) \subseteq Sources(k, x)
       /\ h.includes[x] # NoTarget => k.includes[x] = h.includes[x]
       /\ h.fate[x] # T_FATE_INIT =>
            /\ k.fate[x] = h.fate[x] /\ k.binding[x] = h.binding[x] /\ k.time[x] = h.time[x]
            /\ k.includes[x] = h.includes[x] /\ Sources(k, x) = Sources(h, x)
            /\ k.leaf[x] = h.leaf[x]
       /\ h.fate[x] = T_FATE_INIT => ~Making(k, x)

\* The includes of a file that is being visited wait for it.
Waits(h, k, t) ==
  \A f \in Files : Making(h, f) /\ IncludeNode[f] # t => k.fate[IncludeNode[f]] = h.fate[IncludeNode[f]]

\* Who visits t: make(), the file whose includes it is, or a target made from
\* it, with a time of its own to compare with unless that is no file.
Called(h, t, p) ==
  \/ t \in InternalNodes
  \/ p = NoTarget /\ t \in ToSet(Asked)
  \/ \E x \in Nodes : /\ Making(h, x) /\ t \in Sources(h, x)
                      /\ ~OnFile(h, x) \/ (p = x /\ BoundAs(h, x))

\* When t may be visited: everything on the way to it is being visited.
Before(h, t, p) ==
  /\ Sound(h)
  /\ Called(h, t, p)
  /\ h.fate[t] = T_FATE_INIT
  /\ \A f \in Files : t = IncludeNode[f] => Making(h, f)
  /\ \A x \in Nodes : Making(h, x) => Leads(h, x, t)

After(h, k, t) == Sound(k) /\ Kept(h, k) /\ Done(k, t) /\ Waits(h, k, t)

LEMMA KeptGrows ==
  ASSUME NEW h \in Graphs, NEW k, Kept(h, k)
  PROVE  Grows(h, k)
<1>1. \A x \in Nodes : Done(h, x) => h.fate[x] # T_FATE_INIT
  BY GraphFields, FateNumbers DEF Done
<1>2. \A f \in Files : f \in Nodes
  BY NodesOfFiles
<1>3. \A f \in Files : Making(h, f) => Making(k, f)
  BY <1>2, FateNumbers DEF Kept, Making
<1> QED
  BY <1>1, <1>3 DEF Kept, Grows

LEMMA KeptOn ==
  ASSUME NEW h \in Graphs, NEW k \in Graphs, NEW b \in Graphs, Kept(h, k), Kept(k, b)
  PROVE  Kept(h, b)
<1>1. h.cantfind \in Nat /\ k.cantfind \in Nat /\ b.cantfind \in Nat
  BY GraphFields
<1>2. b.cantfind >= h.cantfind
  BY <1>1 DEF Kept
<1>3. ASSUME NEW x \in Nodes
      PROVE  /\ Sources(h, x) \subseteq Sources(b, x)
             /\ h.includes[x] # NoTarget => b.includes[x] = h.includes[x]
             /\ h.fate[x] # T_FATE_INIT =>
                  /\ b.fate[x] = h.fate[x] /\ b.binding[x] = h.binding[x] /\ b.time[x] = h.time[x]
                  /\ b.includes[x] = h.includes[x] /\ Sources(b, x) = Sources(h, x)
                  /\ b.leaf[x] = h.leaf[x]
             /\ h.fate[x] = T_FATE_INIT => ~Making(b, x)
  BY DEF Kept, Making
<1> QED
  BY <1>2, <1>3 DEF Kept

LEMMA KeptSelf ==
  ASSUME NEW h \in Graphs
  PROVE  Kept(h, h)
<1>1. h.cantfind \in Nat
  BY GraphFields
<1> QED
  BY <1>1, FateNumbers DEF Kept, Making

\* The graph when the dependencies of t are about to be visited.
Opened(h, b, t, p) ==
  /\ Sound(b) /\ Making(b, t) /\ BoundAs(b, t) /\ Parented(b, t, p)
  /\ b.disk = h.disk /\ b.flags = h.flags /\ b.actions = h.actions /\ b.rebuilds = h.rebuilds
  /\ b.cantfind = h.cantfind /\ b.leaf = h.leaf
  /\ t \in InternalNodes \/ "NOTFILE" \in b.flags[t] => b.time[t] = 0
  /\ \A x \in Nodes :
       /\ Sources(h, x) \subseteq Sources(b, x)
       /\ h.includes[x] # NoTarget => b.includes[x] = h.includes[x]
       /\ x # t => /\ b.fate[x] = h.fate[x] /\ b.binding[x] = h.binding[x]
                   /\ b.time[x] = h.time[x] /\ b.includes[x] = h.includes[x]
       /\ h.fate[x] # T_FATE_INIT => Sources(b, x) = Sources(h, x)
       /\ Making(b, x) => Leads(b, x, t)

LEMMA BegunOpens ==
  ASSUME NEW h \in Graphs, NEW t \in Nodes, NEW p \in Parents, Before(h, t, p)
  PROVE  Opened(h, Begun(h, t, p), t, p)
<1> DEFINE F == [h.fate EXCEPT ![t] = T_FATE_MAKING]
           m == [h EXCEPT !.fate = F]
           b == Begun(h, t, p)
<1>1. F \in [Nodes -> Fates] /\ F[t] = T_FATE_MAKING /\ \A x \in Nodes : x # t => F[x] = h.fate[x]
  <2>1. T_FATE_MAKING \in Fates
    BY FateNumbers
  <2> QED
    BY <2>1, GraphFields
<1>2. b = Bind(m, t, p)
  BY DEF Begun
<1> HIDE DEF F
<1>3. /\ m \in Graphs /\ m.fate = F
      /\ m.disk = h.disk /\ m.flags = h.flags /\ m.actions = h.actions /\ m.rebuilds = h.rebuilds
      /\ m.cantfind = h.cantfind /\ m.depends = h.depends /\ m.includes = h.includes
      /\ m.binding = h.binding /\ m.time = h.time /\ m.leaf = h.leaf
  BY <1>1 DEF Graphs
<1> HIDE DEF m, b
<1>4. b \in Graphs /\ Binds(m, b, t, p)
  BY <1>2, <1>3, BindIs
<1>5. Sound(h) /\ h.fate[t] = T_FATE_INIT
      /\ (\A f \in Files : t = IncludeNode[f] => Making(h, f))
      /\ (\A x \in Nodes : Making(h, x) => Leads(h, x, t))
  BY DEF Before
<1>6. Shaped(h) /\ Peaceful(h) /\ Joined(h)
  BY <1>5 DEF Sound
<1>7. /\ b.disk = h.disk /\ b.flags = h.flags /\ b.actions = h.actions /\ b.rebuilds = h.rebuilds
      /\ b.cantfind = h.cantfind /\ b.fate = F /\ b.leaf = h.leaf
      /\ \A x \in Nodes : x # t => b.binding[x] = h.binding[x] /\ b.time[x] = h.time[x]
  BY <1>3, <1>4 DEF Binds
<1>8. HeaderLinks(h, b, t)
  BY <1>3, <1>4 DEF Binds, HeaderLinks, Sources
<1>9. /\ BoundAs(b, t) /\ Parented(b, t, p)
      /\ t \in InternalNodes \/ "NOTFILE" \in b.flags[t] => b.time[t] = 0
  <2>1. h.binding[t] = "UNBOUND" /\ CausedAt(h, t)
    BY <1>5 DEF Sound
  <2>2. h.time[t] = 0
    BY <1>5, <2>1 DEF CausedAt
  <2> QED
    BY <1>3, <1>4, <2>1, <2>2 DEF Binds
<1>10. /\ Making(b, t) /\ \A x \in Nodes : x # t => b.fate[x] = h.fate[x]
  BY <1>1, <1>7 DEF Making
<1>11. Shaped(b)
  BY <1>6, <1>7, <1>8, NodesOfFiles DEF Shaped, HeaderLinks
<1>12. ASSUME NEW x \in Nodes
       PROVE  /\ Sources(h, x) \subseteq Sources(b, x)
              /\ h.includes[x] # NoTarget => b.includes[x] = h.includes[x]
              /\ x # t => b.includes[x] = h.includes[x]
  <2>1. h.includes[x] # NoTarget => b.includes[x] = h.includes[x]
    <3>1. x = t /\ b.includes[t] # h.includes[t] => t \in Files /\ b.includes[t] = IncludeNode[t]
      BY <1>8 DEF HeaderLinks
    <3>2. x # t => b.includes[x] = h.includes[x]
      BY <1>8 DEF HeaderLinks
    <3>3. x \in Files /\ h.includes[x] # NoTarget => h.includes[x] = IncludeNode[x]
      BY <1>6 DEF Shaped
    <3> QED
      BY <3>1, <3>2, <3>3
  <2> QED
    BY <1>8, <2>1 DEF HeaderLinks
<1>13. Joined(b) /\ Peaceful(b)
  BY <1>6, <1>7, <1>12, JoinedGrows DEF Peaceful
<1>14. ASSUME NEW x \in Nodes, h.fate[x] # T_FATE_INIT PROVE Sources(b, x) = Sources(h, x)
  <2>1. CASE Sources(b, x) = Sources(h, x)
    BY <2>1
  <2>2. CASE t \in Files /\ x = IncludeNode[t] /\ b.includes[t] = IncludeNode[t]
    BY <1>5, <1>14, <2>2 DEF Sound
  <2> QED
    BY <1>8, <2>1, <2>2 DEF HeaderLinks
<1>15. \A x \in Nodes : Done(h, x) => h.fate[x] # T_FATE_INIT /\ x # t
  BY <1>5, GraphFields, FateNumbers DEF Done
<1>16. \A x \in Nodes : Done(b, x) => Done(h, x)
  BY <1>10, FateNumbers DEF Done, Making
<1>17. Grows(h, b)
  <2>1. h.cantfind \in Nat
    BY GraphFields
  <2>2. ASSUME NEW x \in Nodes
        PROVE  /\ h.fate[x] # T_FATE_INIT => b.fate[x] # T_FATE_INIT /\ b.includes[x] = h.includes[x]
               /\ Done(h, x) => /\ b.fate[x] = h.fate[x] /\ b.time[x] = h.time[x]
                                /\ b.leaf[x] = h.leaf[x] /\ Sources(b, x) = Sources(h, x)
    BY <1>5, <1>7, <1>10, <1>12, <1>14, <1>15
  <2>3. \A f \in Files : Making(h, f) => Making(b, f)
    BY <1>10, NodesOfFiles DEF Making
  <2> QED
    BY <1>7, <1>12, <2>1, <2>2, <2>3 DEF Grows
<1>18. Sound(b)
  <2>1. ASSUME NEW x \in Nodes
        PROVE  /\ ~Done(b, x) => Sources(b, x) \subseteq Files
               /\ b.fate[x] = T_FATE_INIT => b.binding[x] = "UNBOUND"
               /\ Done(b, x) => Whole(b, x)
               /\ CausedAt(b, x)
    <3>1. ~Done(b, x) => Sources(b, x) \subseteq Files
      <4>1. ~Done(b, x) => ~Done(h, x)
        BY <1>10, <1>15 DEF Done
      <4>2. Sources(b, x) \subseteq Sources(h, x) \cup Files
        BY <1>8 DEF HeaderLinks
      <4> QED
        BY <1>5, <4>1, <4>2 DEF Sound
    <3>2. b.fate[x] = T_FATE_INIT => b.binding[x] = "UNBOUND"
      BY <1>5, <1>7, <1>10, FateNumbers DEF Sound, Making
    <3>3. Done(b, x) => Whole(b, x)
      BY <1>4, <1>5, <1>11, <1>16, <1>17, WholeStays
    <3>4. CASE x # t
      <4>1. CausedAt(h, x)
        BY <1>5 DEF Sound
      <4>2. CausedAt(b, x)
        BY <1>7, <1>10, <1>17, <3>4, <4>1, CausedStays
      <4> QED
        BY <3>1, <3>2, <3>3, <4>2
    <3>5. CASE x = t
      <4>1. h.leaf[t] = 0 /\ b.leaf[t] = 0
        <5>1. CausedAt(h, t) /\ ~Done(h, t)
          BY <1>5, FateNumbers DEF Sound, Done
        <5> QED
          BY <1>7, <5>1 DEF CausedAt
      <4>2. ~Done(b, t) /\ b.fate[t] # T_FATE_INIT
        BY <1>10, FateNumbers DEF Making, Done
      <4>3. Dated(b, t, b.time[t])
        <5>1. CASE b.time[t] = 0
          BY <5>1 DEF Dated
        <5>2. CASE b.time[t] # 0
          <6>1. t \in Files /\ "NOTFILE" \notin b.flags[t]
            BY <1>9, <5>2 DEF Nodes, InternalNodes
          <6>2. b.time[t] = b.disk[t]
            BY <1>9, <6>1, NodesOfFiles DEF BoundAs
          <6> QED
            BY <5>2, <6>1, <6>2, PathSelf DEF Dated, OnFile, IsFile
        <5> QED
          BY <5>1, <5>2
      <4>4. CausedAt(b, t)
        BY <4>1, <4>2, <4>3 DEF CausedAt, Dated
      <4> QED
        BY <3>1, <3>2, <3>3, <3>5, <4>4
    <3> QED
      BY <3>4, <3>5
  <2>2. ASSUME NEW f \in Files
        PROVE  /\ b.fate[IncludeNode[f]] # T_FATE_INIT => b.fate[f] # T_FATE_INIT
               /\ \A x \in Nodes : IncludeNode[f] \in Sources(b, x) =>
                    b.fate[f] # T_FATE_INIT /\ b.includes[f] = IncludeNode[f]
    <3>0. f \in Nodes /\ IncludeNode[f] \in Nodes /\ IncludeNode[f] \notin Files
      BY NodesOfFiles
    <3>1. h.fate[f] # T_FATE_INIT => b.fate[f] # T_FATE_INIT
      BY <1>5, <1>10, <3>0
    <3>2. b.fate[IncludeNode[f]] # T_FATE_INIT => b.fate[f] # T_FATE_INIT
      <4>1. CASE IncludeNode[f] = t
        BY <1>5, <3>1, <4>1, FateNumbers DEF Making
      <4>2. CASE IncludeNode[f] # t
        BY <1>5, <1>10, <3>0, <3>1, <4>2 DEF Sound
      <4> QED
        BY <4>1, <4>2
    <3>3. ASSUME NEW x \in Nodes, IncludeNode[f] \in Sources(b, x)
          PROVE  b.fate[f] # T_FATE_INIT /\ b.includes[f] = IncludeNode[f]
      <4>1. IncludeNode[f] \in Sources(h, x)
        BY <1>8, <3>0, <3>3 DEF HeaderLinks
      <4>2. h.fate[f] # T_FATE_INIT /\ h.includes[f] = IncludeNode[f]
        BY <1>5, <4>1 DEF Sound
      <4> QED
        BY <1>5, <1>12, <3>0, <3>1, <4>2
    <3> QED
      BY <3>2, <3>3
  <2> QED
    BY <1>4, <1>11, <1>13, <2>1, <2>2 DEF Sound
<1>19. ASSUME NEW x \in Nodes, Making(b, x) PROVE Leads(b, x, t)
  <2>1. CASE x = t
    BY <2>1, LeadsNext
  <2>2. CASE x # t
    <3>1. Leads(h, x, t)
      BY <1>5, <1>10, <1>19, <2>2 DEF Making
    <3> QED
      BY <1>17, <3>1, LeadsGrows
  <2> QED
    BY <2>1, <2>2
<1> QED
  BY <1>7, <1>9, <1>10, <1>12, <1>14, <1>18, <1>19 DEF Opened, b

\* The graph when all that t waits for has been visited.
Ready(b, q, t) ==
  /\ Sound(q) /\ Kept(b, q)
  /\ \A d \in Sources(b, t) : q.fate[d] # T_FATE_INIT
  /\ q.includes[t] # NoTarget => Done(q, q.includes[t])

\* Only t has changed, and is done.
Closes(q, e, t) ==
  /\ e.disk = q.disk /\ e.flags = q.flags /\ e.actions = q.actions /\ e.rebuilds = q.rebuilds
  /\ e.includes = q.includes /\ e.binding = q.binding /\ e.cantfind >= q.cantfind
  /\ \A x \in Nodes : /\ Sources(q, x) \subseteq Sources(e, x)
                      /\ x # t => /\ e.fate[x] = q.fate[x] /\ e.time[x] = q.time[x]
                                  /\ e.leaf[x] = q.leaf[x] /\ Sources(e, x) = Sources(q, x)
  /\ Done(e, t)

\* The time that t has from its dependencies is that of a file below one.
LEMMA LastDated ==
  ASSUME NEW q, Sound(q), NEW j \in Graphs, NEW t \in Nodes, Includers(q, j, t),
         NEW e, Grows(q, e), LastOf(j, t) # 0
  PROVE  /\ "NOUPDATE" \notin q.flags[t]
         /\ \E d \in Sources(j, t) :
              /\ d \in Nodes /\ LastOf(j, t) = IF "LEAVES" \in q.flags[t] THEN q.leaf[d] ELSE q.time[d]
              /\ \E f \in Nodes : Path(All(e), d, f) /\ OnFile(e, f) /\ e.disk[f] = LastOf(j, t)
<1>1. "NOUPDATE" \notin j.flags[t] /\ j.flags = q.flags /\ j.time = q.time /\ j.leaf = q.leaf
  BY LastOfIs DEF Includers
<1>2. PICK d \in Sources(j, t) : LastOf(j, t) = IF "LEAVES" \in j.flags[t] THEN j.leaf[d] ELSE j.time[d]
  BY LastOfIs
<1>3. d \in Nodes
  BY GraphFields, SetOfList DEF Sources
<1>4. CausedAt(q, d)
  BY <1>3 DEF Sound
<1>5. Dated(q, d, LastOf(j, t))
  BY <1>1, <1>2, <1>4 DEF CausedAt
<1>6. Dated(e, d, LastOf(j, t))
  BY <1>5, DatedGrows
<1> QED
  BY <1>1, <1>2, <1>3, <1>6 DEF Dated

\* Why t is made, as Called tells it of its parent.
LEMMA EndCause ==
  ASSUME NEW h \in Graphs, NEW t \in Nodes, NEW p \in Parents, Before(h, t, p),
         NEW b \in Graphs, Opened(h, b, t, p),
         NEW q \in Graphs, Sound(q), Kept(b, q), NEW j \in Graphs, Includers(q, j, t),
         NEW e \in Graphs, Decided(j, e, t, p), Closes(q, e, t), Grows(q, e),
         e.fate[t] >= T_FATE_SPOIL, e.fate[t] < T_FATE_BROKEN
  PROVE  \E x \in Nodes : Path(Minded(e), t, x) /\ Cause(e, x)
<1>1. h.fate[t] = T_FATE_INIT /\ Called(h, t, p) /\ Making(b, t) /\ BoundAs(b, t) /\ Parented(b, t, p)
  BY DEF Before, Opened
<1>2. /\ Making(q, t) /\ q.binding[t] = b.binding[t] /\ q.time[t] = b.time[t]
      /\ q.flags = b.flags /\ q.disk = b.disk /\ b.flags = h.flags /\ b.disk = h.disk
  BY <1>1, FateNumbers DEF Kept, Making, Opened
<1>3. /\ j.flags = q.flags /\ j.disk = q.disk /\ j.binding = q.binding /\ j.time = q.time
      /\ j.leaf = q.leaf /\ j.fate = q.fate /\ j.includes = q.includes
  BY DEF Includers
<1>4. /\ e.flags = q.flags /\ e.disk = q.disk /\ e.binding = q.binding /\ e.includes = q.includes
      /\ Sources(e, t) = Sources(j, t)
      /\ \A x \in Nodes : x # t => e.fate[x] = q.fate[x] /\ e.time[x] = q.time[x] /\ e.leaf[x] = q.leaf[x]
      /\ \A x \in Nodes : Sources(q, x) \subseteq Sources(e, x)
  BY <1>3 DEF Closes, Decided
<1>5. Sources(j, t) \subseteq Nodes
  BY GraphFields, SetOfList DEF Sources
<1>6. \A x : (IsFile(q, x) <=> IsFile(e, x)) /\ (OnFile(q, x) <=> OnFile(e, x))
  BY FileGrows
<1>7. /\ e.binding[t] # "UNBOUND" => IsFile(e, t) /\ q.time[t] = e.disk[t]
      /\ e.binding[t] = "EXISTS" => OnFile(e, t)
      /\ e.binding[t] \in {"MISSING", "PARENTS"} => e.disk[t] = 0
      /\ e.binding[t] = "PARENTS" => "TEMP" \in e.flags[t]
  <2>1. t \in InternalNodes \/ t \in Files
    BY DEF Nodes, InternalNodes
  <2>3. IF t \in InternalNodes \/ "NOTFILE" \in e.flags[t] THEN e.binding[t] = "UNBOUND"
        ELSE /\ q.time[t] = e.disk[t]
             /\ e.disk[t] # 0 => e.binding[t] = "EXISTS"
             /\ e.disk[t] = 0 => e.binding[t] = "MISSING" \/ (e.binding[t] = "PARENTS" /\ "TEMP" \in e.flags[t])
    BY <1>1, <1>2, <1>4 DEF BoundAs
  <2> QED
    BY <2>1, <2>3 DEF IsFile, OnFile
<1>8. Cause(e, t) => \E x \in Nodes : Path(Minded(e), t, x) /\ Cause(e, x)
  BY PathSelf
\* A dependency that is made.
<1>9. ASSUME Heeds(j, t), NEW d \in Sources(j, t), j.fate[d] >= T_FATE_SPOIL, j.fate[d] < T_FATE_BROKEN
      PROVE  \E x \in Nodes : Path(Minded(e), t, x) /\ Cause(e, x)
  <2>1. d \in Nodes /\ q.fate[d] >= T_FATE_SPOIL /\ q.fate[d] < T_FATE_BROKEN
    BY <1>3, <1>5, <1>9
  <2>2. Done(q, d)
    <3>1. q.fate[d] \in Fates
      BY <2>1, GraphFields
    <3> QED
      BY <2>1, <3>1, FateNumbers DEF Done
  <2>3. CausedAt(q, d)
    BY <2>1 DEF Sound
  <2>4. PICK x \in Nodes : Path(Minded(q), d, x) /\ Cause(q, x)
    BY <2>1, <2>2, <2>3 DEF CausedAt
  <2>5. Path(Minded(e), d, x) /\ Cause(e, x)
    BY <2>4, PathsGrow, CauseGrows
  <2>6. d \in Minded(e)[t]
    BY <1>3, <1>4, <1>9 DEF Minded, Heeds
  <2> QED
    BY <2>5, <2>6, PathFrom
\* A file that is older than one it is made from.
<1>10. ASSUME j.binding[t] = "EXISTS",
              LastOf(j, t) > IF "NOUPDATE" \in j.flags[t] THEN 0 ELSE j.time[t]
       PROVE  Cause(e, t)
  <2>0. j.time[t] \in Nat /\ LastOf(j, t) \in Nat
    BY GraphFields, LastOfIs
  <2>1. LastOf(j, t) # 0
    BY <1>10, <2>0
  <2>2. "NOUPDATE" \notin q.flags[t]
    BY <2>1, LastDated
  <2>3. PICK d \in Sources(j, t) :
           /\ d \in Nodes /\ LastOf(j, t) = IF "LEAVES" \in q.flags[t] THEN q.leaf[d] ELSE q.time[d]
           /\ \E f \in Nodes : Path(All(e), d, f) /\ OnFile(e, f) /\ e.disk[f] = LastOf(j, t)
    BY <2>1, LastDated
  <2>4. OnFile(e, t) /\ q.time[t] = e.disk[t] /\ LastOf(j, t) > e.disk[t]
    BY <1>3, <1>4, <1>7, <1>10, <2>2
  <2>5. CASE "LEAVES" \in q.flags[t]
    <3>1. q.leaf[d] > e.disk[t] /\ q.leaf[d] # 0
      BY <2>1, <2>3, <2>4, <2>5
    <3>2. Done(q, d)
      <4>1. CausedAt(q, d)
        BY <2>3 DEF Sound
      <4> QED
        BY <3>1, <4>1 DEF CausedAt
    <3>3. d # t
      BY <1>2, <3>2, FateNumbers DEF Making, Done
    <3>4. Done(e, d) /\ e.leaf[d] > e.disk[t] /\ d \in Sources(e, t)
      BY <1>4, <2>3, <3>1, <3>2, <3>3 DEF Done
    <3> QED
      BY <1>4, <2>2, <2>4, <2>5, <3>4 DEF Cause
  <2>6. CASE "LEAVES" \notin q.flags[t]
    <3>1. PICK f \in Nodes : Path(All(e), d, f) /\ OnFile(e, f) /\ e.disk[f] = LastOf(j, t)
      BY <2>3
    <3>2. d \in All(e)[t]
      BY <1>4 DEF All
    <3>3. Path(All(e), t, f)
      BY <3>1, <3>2, PathFrom
    <3> QED
      BY <1>4, <2>2, <2>4, <2>6, <3>1, <3>3 DEF Cause
  <2> QED
    BY <2>5, <2>6
\* A missing file.
<1>11. ASSUME \/ e.binding[t] = "MISSING"
              \/ /\ e.binding[t] = "PARENTS"
                 /\ p \in Nodes => \/ LastOf(j, t) > j.time[p]
                                   \/ j.includes[t] # NoTarget /\ j.time[j.includes[t]] > j.time[p]
       PROVE  Cause(e, t)
  <2>1. IsFile(e, t) /\ e.disk[t] = 0
    BY <1>7, <1>11
  <2> SUFFICES ASSUME "TEMP" \in e.flags[t] PROVE Shown(e, t)
    BY <2>1 DEF Cause
  <2>2. t \notin InternalNodes
    BY <2>1, NodesOfFiles DEF IsFile, InternalNodes
  <2>3. CASE t \in ToSet(Asked)
    BY <2>3 DEF Shown
  <2>4. ASSUME NEW x \in Nodes, Making(h, x), t \in Sources(h, x), ~OnFile(h, x) \/ (p = x /\ BoundAs(h, x))
        PROVE  Shown(e, t)
    <3>1. x # t /\ h.fate[x] # T_FATE_INIT
      BY <1>1, <2>4, FateNumbers DEF Making
    <3>2. /\ b.fate[x] = h.fate[x] /\ b.binding[x] = h.binding[x] /\ b.time[x] = h.time[x]
          /\ Sources(h, x) \subseteq Sources(b, x)
      BY <3>1 DEF Opened
    <3>3. /\ q.fate[x] = h.fate[x] /\ q.binding[x] = h.binding[x] /\ q.time[x] = h.time[x]
          /\ Sources(h, x) \subseteq Sources(q, x)
      BY <3>1, <3>2 DEF Kept
    <3>4. t \in Sources(e, x) /\ e.fate[x] # T_FATE_INIT
      BY <1>4, <2>4, <3>1, <3>3
    <3>5. OnFile(e, x) <=> OnFile(h, x)
      BY <1>2, <1>4 DEF OnFile, IsFile
    <3>6. CASE ~OnFile(h, x)
      BY <3>4, <3>5, <3>6 DEF Shown
    <3>7. CASE OnFile(h, x)
      <4>1. p = x /\ BoundAs(h, x)
        BY <2>4, <3>7
      <4>2. h.binding[x] = "EXISTS" /\ h.time[x] = h.disk[x]
        BY <3>7, <4>1, NodesOfFiles DEF BoundAs, OnFile, IsFile, InternalNodes
      <4>3. e.binding[t] # "MISSING"
        <5>1. b.binding[p] = "EXISTS" /\ p \in Nodes \ {t} /\ "TEMP" \in b.flags[t]
          BY <1>2, <1>4, <3>1, <3>2, <4>1, <4>2
        <5>2. b.binding[t] # "MISSING"
          BY <1>1, <5>1 DEF Parented
        <5> QED
          BY <1>2, <1>4, <5>2
      <4>4. j.time[p] = e.disk[x]
        BY <1>2, <1>3, <1>4, <3>3, <4>1, <4>2
      <4>5. \/ LastOf(j, t) > e.disk[x]
            \/ j.includes[t] # NoTarget /\ j.time[j.includes[t]] > e.disk[x]
        BY <1>11, <4>1, <4>3, <4>4
      <4>6. e.disk[x] \in Nat /\ LastOf(j, t) \in Nat
        BY <3>7, GraphFields, LastOfIs DEF OnFile, IsFile
      <4>7. \E s \in Feeds(e, t), f \in Nodes : Path(All(e), s, f) /\ OnFile(e, f) /\ e.disk[x] < e.disk[f]
        <5>1. CASE LastOf(j, t) > e.disk[x]
          <6>1. LastOf(j, t) # 0
            BY <4>6, <5>1
          <6>2. PICK d \in Sources(j, t) :
                  \E f \in Nodes : Path(All(e), d, f) /\ OnFile(e, f) /\ e.disk[f] = LastOf(j, t)
            BY <6>1, LastDated
          <6>3. d \in Feeds(e, t)
            BY <1>4, <6>2 DEF Feeds
          <6> QED
            BY <4>6, <5>1, <6>2, <6>3
        <5>2. ASSUME j.includes[t] # NoTarget, j.time[j.includes[t]] > e.disk[x]
              PROVE  \E s \in Feeds(e, t), f \in Nodes :
                       Path(All(e), s, f) /\ OnFile(e, f) /\ e.disk[x] < e.disk[f]
          <6> DEFINE s == j.includes[t]
          <6>1. s \in Nodes /\ s \in Feeds(e, t)
            BY <1>3, <1>4, <5>2, GraphFields DEF Feeds
          <6>2. CausedAt(q, s)
            BY <6>1 DEF Sound
          <6>3. Dated(q, s, q.time[s])
            BY <6>2 DEF CausedAt
          <6>4. Dated(e, s, q.time[s])
            BY <6>3, DatedGrows
          <6>5. q.time[s] > e.disk[x]
            BY <1>3, <5>2
          <6>6. q.time[s] # 0
            BY <4>6, <6>5
          <6> HIDE DEF s
          <6> QED
            BY <4>6, <6>1, <6>4, <6>5, <6>6 DEF Dated
        <5> QED
          BY <4>5, <5>1, <5>2
      <4> QED
        BY <3>4, <4>7 DEF Shown
    <3> QED
      BY <3>6, <3>7
  <2> QED
    BY <1>1, <2>2, <2>3, <2>4 DEF Called
<1>12. ASSUME "TOUCHED" \in j.flags[t] \/ (Anyhow /\ "NOUPDATE" \notin j.flags[t]) PROVE Cause(e, t)
  BY <1>3, <1>4, <1>12 DEF Cause
<1>13. ASSUME j.binding[t] = "EXISTS", "TEMP" \in j.flags[t] PROVE Cause(e, t)
  BY <1>3, <1>4, <1>7, <1>13 DEF Cause
<1>14. MadeBecause(j, t, p, e.fate[t])
  BY DEF Decided
<1>15. j.binding[t] = e.binding[t]
  BY <1>3, <1>4
<1> QED
  BY <1>8, <1>9, <1>10, <1>11, <1>12, <1>13, <1>14, <1>15 DEF MadeBecause

LEMMA EndCaused ==
  ASSUME NEW h \in Graphs, NEW t \in Nodes, NEW p \in Parents, Before(h, t, p),
         NEW b \in Graphs, Opened(h, b, t, p),
         NEW q \in Graphs, Sound(q), Kept(b, q), NEW j \in Graphs, Includers(q, j, t),
         NEW e \in Graphs, Decided(j, e, t, p), Closes(q, e, t), Grows(q, e),
         \A x \in Sources(e, t) : OnCycle(e, t) \/ Done(q, x)
  PROVE  CausedAt(e, t)
<1> DEFINE worst == Worst(j, j.depends[t], j.leaf)
<1>1. Making(b, t) /\ BoundAs(b, t) /\ (t \in InternalNodes \/ "NOTFILE" \in b.flags[t] => b.time[t] = 0)
  BY DEF Opened
<1>2. /\ Making(q, t) /\ q.time[t] = b.time[t] /\ q.flags = b.flags /\ q.disk = b.disk /\ ~Done(q, t)
  BY <1>1, FateNumbers DEF Kept, Making, Done
<1>3. j.time = q.time /\ j.leaf = q.leaf /\ j.flags = q.flags
  BY DEF Includers
<1>4. /\ e.flags = q.flags /\ e.disk = q.disk /\ Sources(e, t) = Sources(j, t)
      /\ \A x \in Nodes : x # t => e.fate[x] = q.fate[x] /\ e.time[x] = q.time[x] /\ e.leaf[x] = q.leaf[x]
      /\ Done(e, t)
  BY DEF Closes, Decided
<1>5. Sources(j, t) \subseteq Nodes /\ j.depends[t] \in Seq(Nodes) /\ j.leaf \in [Nodes -> Nat]
  BY GraphFields, SetOfList DEF Sources
<1>6. /\ worst \in Nat
      /\ worst = 0 \/ \E d \in Sources(j, t) : worst = q.leaf[d]
      /\ \A d \in Sources(j, t) : q.leaf[d] <= worst
  BY <1>3, <1>5, WorstIs DEF Sources
<1>7. /\ e.time[t] \in {0, q.time[t], LastOf(j, t)}
      /\ e.leaf[t] = IF worst # 0 THEN worst ELSE e.time[t]
      /\ "NOUPDATE" \notin q.flags[t] => e.time[t] >= q.time[t]
  BY <1>3 DEF Decided
<1> HIDE DEF worst
<1>8. q.time[t] = 0 \/ (OnFile(e, t) /\ q.time[t] = e.disk[t])
  <2>1. t \in InternalNodes \/ t \in Files
    BY DEF Nodes, InternalNodes
  <2> QED
    BY <1>1, <1>2, <1>4, <2>1 DEF BoundAs, OnFile, IsFile
<1>9. ASSUME LastOf(j, t) # 0 PROVE \E d \in Sources(j, t) : LastOf(j, t) \in {q.time[d], q.leaf[d]}
  BY <1>9, LastDated
<1>10. Dated(e, t, q.time[t])
  BY <1>8, PathSelf DEF Dated
<1>11. \A v : \A d \in Sources(j, t) : Dated(e, d, v) => Dated(e, t, v)
  <2>1. Sources(j, t) = All(e)[t]
    BY <1>4 DEF All
  <2> QED
    BY <2>1, PathFrom DEF Dated
<1>12. Dated(e, t, e.time[t])
  <2>1. Dated(e, t, LastOf(j, t))
    <3>1. CASE LastOf(j, t) = 0
      BY <3>1 DEF Dated
    <3>2. CASE LastOf(j, t) # 0
      <4>1. PICK d \in Sources(j, t) :
              \E f \in Nodes : Path(All(e), d, f) /\ OnFile(e, f) /\ e.disk[f] = LastOf(j, t)
        BY <3>2, LastDated
      <4>2. Dated(e, d, LastOf(j, t))
        BY <4>1 DEF Dated
      <4> QED
        BY <1>11, <4>2
    <3> QED
      BY <3>1, <3>2
  <2> QED
    BY <1>7, <1>10, <2>1 DEF Dated
<1>13. Dated(e, t, e.leaf[t])
  <2>1. ASSUME NEW d \in Sources(j, t), worst = q.leaf[d] PROVE Dated(e, t, worst)
    <3>1. CausedAt(q, d)
      BY <1>5 DEF Sound
    <3>2. Dated(q, d, worst)
      BY <2>1, <3>1 DEF CausedAt
    <3>3. Dated(e, d, worst)
      BY <3>2, DatedGrows
    <3> QED
      BY <1>11, <3>3
  <2> QED
    BY <1>6, <1>7, <1>12, <2>1
<1>14. e.leaf[t] = 0 => e.time[t] = 0
  BY <1>7
<1>15. ASSUME \A x \in Sources(e, t) : Done(q, x) PROVE LeafOfDepends(e, t)
  <2>1. \A d \in Sources(e, t) : /\ d \in Nodes /\ d # t /\ Done(e, d)
                                 /\ e.leaf[d] = q.leaf[d] /\ e.time[d] = q.time[d]
    BY <1>2, <1>4, <1>5, <1>15 DEF Done
  <2>2. worst = 0 => \A d \in Sources(e, t) : e.leaf[d] = 0
    <3>1. \A d \in Sources(e, t) : q.leaf[d] \in Nat
      BY <1>3, <1>4, <1>5
    <3> QED
      BY <1>4, <1>6, <2>1, <3>1
  <2>3. e.leaf[t] = 0 => \A d \in Sources(e, t) : e.leaf[d] = 0
    BY <1>7, <2>2
  <2>4. e.leaf[t] # 0 => \/ \E d \in Sources(e, t) : e.leaf[d] = e.leaf[t]
                         \/ e.leaf[t] = e.time[t] /\ \A d \in Sources(e, t) : e.leaf[d] = 0
    BY <1>4, <1>6, <1>7, <2>1, <2>2
  <2>5. \/ e.time[t] = 0
        \/ OnFile(e, t) /\ e.time[t] = e.disk[t]
        \/ \E d \in Sources(e, t) : e.time[t] \in {e.time[d], e.leaf[d]}
    BY <1>4, <1>7, <1>8, <1>9, <2>1
  <2> QED
    BY <2>1, <2>3, <2>4, <2>5 DEF LeafOfDepends
<1>16. e.fate[t] >= T_FATE_SPOIL /\ e.fate[t] < T_FATE_BROKEN
         => \E x \in Nodes : Path(Minded(e), t, x) /\ Cause(e, x)
  BY EndCause
<1>17. e.fate[t] # T_FATE_INIT
  <2>1. e.fate[t] \in Fates
    BY GraphFields
  <2> QED
    BY <1>4, <2>1, FateNumbers DEF Done
<1> QED
  BY <1>4, <1>12, <1>13, <1>14, <1>15, <1>16, <1>17 DEF CausedAt

LEMMA EndCloses ==
  ASSUME NEW h \in Graphs, NEW t \in Nodes, NEW p \in Parents, Before(h, t, p),
         NEW b \in Graphs, Opened(h, b, t, p), NEW q \in Graphs, Ready(b, q, t)
  PROVE  /\ Closes(q, Decide(Joins(q, t), t, p), t)
         /\ Sound(Decide(Joins(q, t), t, p))
<1> DEFINE j == Joins(q, t)
           e == Decide(j, t, p)
           D == Sources(q, t)
<1>1. /\ Sound(b) /\ Making(b, t) /\ BoundAs(b, t) /\ \A x \in Nodes : Making(b, x) => Leads(b, x, t)
  BY DEF Opened
<1>2. /\ Sound(q) /\ Kept(b, q) /\ \A d \in Sources(b, t) : q.fate[d] # T_FATE_INIT
      /\ q.includes[t] # NoTarget => Done(q, q.includes[t])
  BY DEF Ready
<1>3. Shaped(q) /\ Peaceful(q) /\ Joined(q)
  BY <1>2 DEF Sound
<1>4. /\ Making(q, t) /\ D = Sources(b, t) /\ BoundAs(q, t)
      /\ q.fate[t] # T_FATE_INIT /\ ~Done(q, t)
  <2>1. b.fate[t] # T_FATE_INIT
    BY <1>1, FateNumbers DEF Making
  <2> QED
    BY <1>1, <1>2, <2>1, FateNumbers DEF Kept, Making, BoundAs, Done
<1>5. D \subseteq Files /\ D \subseteq Nodes
  BY <1>2, <1>4, NodesOfFiles DEF Sound
<1>6. \A d \in D : q.fate[d] # T_FATE_INIT
  BY <1>2, <1>4
<1>7. /\ j \in Graphs
      /\ j.disk = q.disk /\ j.flags = q.flags /\ j.actions = q.actions /\ j.rebuilds = q.rebuilds
      /\ j.includes = q.includes /\ j.binding = q.binding /\ j.cantfind = q.cantfind
      /\ j.fate = q.fate /\ j.time = q.time /\ j.leaf = q.leaf
      /\ \A x \in Nodes : x # t => Sources(j, x) = Sources(q, x)
  BY JoinsIs DEF Includers
<1>8. \A x : x \in Sources(j, t) <=> x \in D \/ \E d \in D : q.includes[d] # NoTarget /\ x = q.includes[d]
  BY JoinsIs DEF Includers
<1> HIDE DEF j
<1>9. e \in Graphs /\ Decided(j, e, t, p)
  <2>1. j.rebuilds[t] = <<>> /\ j.fate[t] = T_FATE_MAKING
    BY <1>3, <1>4, <1>7 DEF Peaceful, Making
  <2> QED
    BY <1>7, <2>1, DecideIs
<1> HIDE DEF e, D
<1>10. /\ e.disk = q.disk /\ e.flags = q.flags /\ e.actions = q.actions /\ e.rebuilds = q.rebuilds
       /\ e.includes = q.includes /\ e.binding = q.binding /\ e.cantfind >= q.cantfind
       /\ Sources(e, t) = Sources(j, t)
       /\ \A x \in Nodes : x # t => /\ e.fate[x] = q.fate[x] /\ e.time[x] = q.time[x]
                                    /\ e.leaf[x] = q.leaf[x] /\ Sources(e, x) = Sources(q, x)
       /\ DiagnosedAs(j, t, e.fate[t])
  BY <1>7, <1>9 DEF Decided
<1>11. Done(e, t) /\ D \subseteq Sources(e, t)
  BY <1>8, <1>10 DEF DiagnosedAs, Done
<1>12. Closes(q, e, t)
  BY <1>10, <1>11 DEF Closes, D
<1>13. \A d \in D : q.includes[d] # NoTarget =>
         /\ q.includes[d] = IncludeNode[d] /\ d \in Files /\ q.includes[d] \in Sources(e, t)
  BY <1>3, <1>5, <1>8, <1>10 DEF Shaped
<1>14. ASSUME NEW x \in Sources(e, t)
       PROVE  x \in D \/ \E d \in D : d \in Files /\ x = IncludeNode[d] /\ q.includes[d] = IncludeNode[d]
  BY <1>8, <1>10, <1>13
<1>15. Shaped(e) /\ Peaceful(e)
  BY <1>3, <1>10 DEF Shaped, Peaceful
<1>16. Joined(e)
  BY <1>3, <1>12, JoinedGrows DEF Closes
<1>17. \A x \in Nodes : q.fate[x] # T_FATE_INIT => e.fate[x] # T_FATE_INIT
  <2>1. e.fate[t] # T_FATE_INIT
    BY <1>9, <1>11, GraphFields, FateNumbers DEF Done
  <2> QED
    BY <1>10, <2>1
<1>18. Grows(q, e)
  <2>1. ASSUME NEW f \in Files, Making(q, f), q.includes[f] = IncludeNode[f]
        PROVE  Making(e, f) \/ e.fate[IncludeNode[f]] # T_FATE_INIT
    <3>1. f \in Nodes /\ IncludeNode[f] \in Nodes /\ IncludeNode[f] # NoTarget
      BY NodesOfFiles
    <3>2. CASE f = t
      <4>1. Done(q, IncludeNode[f])
        BY <1>2, <2>1, <3>1, <3>2
      <4>2. q.fate[IncludeNode[f]] # T_FATE_INIT
        BY <3>1, <4>1, GraphFields, FateNumbers DEF Done
      <4> QED
        BY <1>17, <3>1, <4>2
    <3>3. CASE f # t
      BY <1>10, <2>1, <3>1, <3>3 DEF Making
    <3> QED
      BY <3>2, <3>3
  <2>2. \A x \in Nodes : Done(q, x) => x # t
    BY <1>4
  <2>3. ASSUME NEW x \in Nodes
        PROVE  /\ Sources(q, x) \subseteq Sources(e, x)
               /\ q.includes[x] # NoTarget => e.includes[x] = q.includes[x]
               /\ q.fate[x] # T_FATE_INIT => e.fate[x] # T_FATE_INIT /\ e.includes[x] = q.includes[x]
               /\ Done(q, x) => /\ e.fate[x] = q.fate[x] /\ e.time[x] = q.time[x]
                                /\ e.leaf[x] = q.leaf[x] /\ Sources(e, x) = Sources(q, x)
    BY <1>10, <1>12, <1>17, <2>2 DEF Closes
  <2> QED
    BY <1>10, <2>1, <2>3 DEF Grows
<1>19. Grows(b, q)
  BY <1>2, KeptGrows
<1>20. ASSUME NEW x \in Nodes, Making(q, x) PROVE Leads(e, x, t)
  <2>1. Making(b, x)
    <3>1. b.fate[x] # T_FATE_INIT
      BY <1>2, <1>20 DEF Kept
    <3> QED
      BY <1>2, <1>20, <3>1 DEF Kept, Making
  <2> QED
    BY <1>1, <1>18, <1>19, <2>1, LeadsGrows
\* What t depends on has been visited, or it is on a cycle.
<1>21. ASSUME NEW x \in Sources(e, t)
       PROVE  \/ Done(q, x) /\ x # t /\ x \in Nodes
              \/ OnCycle(e, t) /\ (e.fate[x] # T_FATE_INIT \/ \E f \in Files : x = IncludeNode[f] /\ Making(e, f))
  <2>1. CASE x \in D
    <3>1. x \in Nodes /\ q.fate[x] \in Fates /\ q.fate[x] # T_FATE_INIT
      BY <1>5, <1>6, <2>1, GraphFields
    <3>2. Done(q, x) \/ Making(q, x)
      BY <3>1, FateNumbers DEF Done, Making
    <3>3. Making(q, x) => OnCycle(e, t)
      BY <1>20, <1>21, <3>1 DEF OnCycle
    <3> QED
      BY <1>4, <1>17, <3>1, <3>2, <3>3
  <2>2. ASSUME NEW d \in D, d \in Files, x = IncludeNode[d], q.includes[d] = IncludeNode[d]
        PROVE  \/ Done(q, x) /\ x # t /\ x \in Nodes
               \/ OnCycle(e, t) /\ \E f \in Files : x = IncludeNode[f] /\ Making(e, f)
    <3>1. /\ d \in Nodes /\ x \in Nodes /\ x # NoTarget /\ q.fate[d] \in Fates /\ q.fate[d] # T_FATE_INIT
      BY <1>6, <2>2, NodesOfFiles, GraphFields
    <3>2. Done(q, x) => x # t
      BY <1>4
    <3>3. CASE Done(q, d)
      <4>1. Whole(q, d)
        BY <1>2, <3>1, <3>3 DEF Sound
      <4> QED
        BY <2>2, <3>1, <3>2, <4>1 DEF Whole, OfVisit
    <3>4. CASE Making(q, d) /\ d = t
      BY <1>2, <2>2, <3>1, <3>2, <3>4
    <3>5. CASE Making(q, d) /\ d # t
      <4>1. OnCycle(e, t)
        BY <1>11, <1>20, <3>1, <3>5 DEF OnCycle
      <4> QED
        BY <1>10, <2>2, <3>1, <3>5, <4>1 DEF Making
    <3> QED
      BY <3>1, <3>3, <3>4, <3>5, FateNumbers DEF Done, Making
  <2> QED
    BY <1>14, <2>1, <2>2
<1>22. OfItself(e, t)
  <2>1. BoundAs(j, t) /\ j.flags = e.flags /\ j.disk = e.disk /\ j.binding = e.binding
    BY <1>4, <1>7, <1>10 DEF BoundAs
  <2>2. t \in Files <=> t \notin InternalNodes
    BY NodesOfFiles DEF Nodes, InternalNodes
  <2>3. e.fate[t] >= T_FATE_BROKEN => e.cantfind > 0
    <3>1. CASE e.fate[t] = T_FATE_CANTFIND /\ j.binding[t] = "MISSING"
      <4>1. t \in Files
        BY <2>1, <2>2, <3>1 DEF BoundAs
      <4> QED
        BY <1>9, <3>1, <4>1 DEF Decided
    <3>2. ASSUME NEW d \in Sources(j, t), j.fate[d] >= T_FATE_BROKEN PROVE e.cantfind > 0
      <4>1. d \in Nodes
        BY <1>7, <3>2, GraphFields, SetOfList DEF Sources
      <4>2. q.fate[d] >= T_FATE_BROKEN /\ q.fate[d] \in Fates
        BY <1>7, <3>2, <4>1, GraphFields
      <4>3. Done(q, d)
        BY <4>2, FateNumbers DEF Done
      <4>4. q.cantfind > 0
        BY <1>2, <4>1, <4>2, <4>3 DEF Sound, Whole, OfItself
      <4> QED
        BY <1>9, <1>10, <4>4, GraphFields
    <3> QED
      BY <1>10, <3>1, <3>2 DEF DiagnosedAs
  <2>4. IsFile(e, t) /\ e.disk[t] # 0 /\ "NOUPDATE" \notin e.flags[t] => e.time[t] >= e.disk[t]
    BY <1>9, <1>10, <2>1, <2>2 DEF BoundAs, Decided, IsFile
  <2>5. IsFile(e, t) /\ e.disk[t] = 0 /\ e.flags[t] \cap {"TEMP", "NOCARE"} = {} => e.fate[t] >= T_FATE_BUILD
    BY <1>10, <2>1, <2>2 DEF BoundAs, DiagnosedAs, IsFile
  <2>6. "TOUCHED" \in e.flags[t] /\ ~(IsFile(e, t) /\ e.disk[t] = 0 /\ "NOCARE" \in e.flags[t])
          => e.fate[t] >= T_FATE_BUILD
    <3>1. j.binding[t] = "MISSING" => IsFile(e, t) /\ e.disk[t] = 0
      BY <2>1, <2>2 DEF BoundAs, IsFile
    <3> QED
      BY <1>10, <2>1, <3>1 DEF DiagnosedAs
  <2> QED
    BY <2>3, <2>4, <2>5, <2>6 DEF OfItself
<1>23. OnCycle(e, t) \/ OfDepends(e, t)
  <2> SUFFICES ASSUME ~OnCycle(e, t) PROVE OfDepends(e, t)
    OBVIOUS
  <2> SUFFICES ASSUME NEW d \in Sources(e, t)
               PROVE  /\ Done(e, d)
                      /\ Heeds(e, t) =>
                           /\ e.fate[d] >= T_FATE_BROKEN => e.fate[t] = T_FATE_CANTMAKE
                           /\ e.fate[d] >= T_FATE_SPOIL => e.fate[t] >= T_FATE_UPDATE
                           /\ e.time[d] <= e.time[t]
                           /\ IsFile(e, t) /\ e.disk[t] # 0 /\ e.disk[t] < e.time[d]
                                => e.fate[t] >= T_FATE_BUILD
    BY DEF OfDepends
  <2>1. Done(q, d) /\ d # t /\ d \in Nodes
    BY <1>21
  <2>2. /\ e.fate[d] = q.fate[d] /\ j.fate[d] = q.fate[d]
        /\ e.time[d] = q.time[d] /\ j.time[d] = q.time[d] /\ d \in Sources(j, t)
    BY <1>7, <1>10, <2>1
  <2>3. BoundAs(j, t) /\ j.flags = e.flags /\ j.disk = e.disk /\ j.binding = e.binding
    BY <1>4, <1>7, <1>10 DEF BoundAs
  <2>4. Heeds(j, t) <=> Heeds(e, t)
    BY <2>3 DEF Heeds
  <2>5. Heeds(e, t) => /\ e.fate[d] >= T_FATE_BROKEN => e.fate[t] = T_FATE_CANTMAKE
                       /\ e.fate[d] >= T_FATE_SPOIL => e.fate[t] >= T_FATE_UPDATE
    BY <1>10, <2>2, <2>4 DEF DiagnosedAs
  <2>6. Heeds(e, t) => e.time[d] <= e.time[t]
    BY <1>9, <2>2, <2>4 DEF Decided
  <2>7. Heeds(e, t) /\ IsFile(e, t) /\ e.disk[t] # 0 /\ e.disk[t] < e.time[d] => e.fate[t] >= T_FATE_BUILD
    <3> SUFFICES ASSUME Heeds(e, t), IsFile(e, t), e.disk[t] # 0, e.disk[t] < e.time[d]
                 PROVE  e.fate[t] >= T_FATE_BUILD
      OBVIOUS
    <3>1. j.binding[t] = "EXISTS" /\ j.time[t] = e.disk[t]
      BY <2>3, NodesOfFiles DEF BoundAs, IsFile
    <3>2. e.disk[t] \in Nat /\ e.time[d] \in Nat
      BY <1>9, <2>1, GraphFields DEF IsFile
    <3>3. j.time[d] > j.time[t]
      BY <2>2, <3>1, <3>2
    <3> QED
      BY <1>10, <2>2, <2>4, <3>1, <3>3 DEF DiagnosedAs
  <2>8. Done(e, d)
    BY <2>1, <2>2 DEF Done
  <2> QED
    BY <2>5, <2>6, <2>7, <2>8
<1>24. OfVisit(e, t)
  <2>1. ASSUME NEW d \in Sources(e, t)
        PROVE  /\ e.fate[d] # T_FATE_INIT \/ \E f \in Files : d = IncludeNode[f] /\ Making(e, f)
               /\ e.includes[d] # NoTarget => e.includes[d] \in Sources(e, t)
    <3>1. Done(q, d) /\ d \in Nodes => q.fate[d] # T_FATE_INIT
      BY GraphFields, FateNumbers DEF Done
    <3>2. e.fate[d] # T_FATE_INIT \/ \E f \in Files : d = IncludeNode[f] /\ Making(e, f)
      BY <1>17, <1>21, <3>1
    <3>3. \A f \in Files : e.includes[IncludeNode[f]] = NoTarget
      BY <1>15, NodesOfFiles DEF Shaped
    <3>4. e.includes[d] # NoTarget => e.includes[d] \in Sources(e, t)
      BY <1>10, <1>13, <1>14, <3>3
    <3> QED
      BY <3>2, <3>4
  <2>2. e.includes[t] # NoTarget => Done(e, e.includes[t])
    <3> SUFFICES ASSUME e.includes[t] # NoTarget PROVE Done(e, e.includes[t])
      OBVIOUS
    <3>1. Done(q, q.includes[t]) /\ q.includes[t] = e.includes[t]
      BY <1>2, <1>10
    <3>2. q.includes[t] \in Nodes
      BY <1>10, GraphFields
    <3>3. q.includes[t] # t
      BY <1>4, <3>1
    <3> QED
      BY <1>10, <3>1, <3>2, <3>3 DEF Done
  <2> QED
    BY <2>1, <2>2 DEF OfVisit
<1>25. CausedAt(e, t)
  <2>1. /\ Sound(q) /\ Kept(b, q) /\ Closes(q, e, t) /\ Grows(q, e) /\ Decided(j, e, t, p)
        /\ Includers(q, j, t) /\ \A d \in Sources(b, t) : q.fate[d] # T_FATE_INIT
    BY <1>2, <1>9, <1>12, <1>18, JoinsIs DEF j
  <2>2. \A x \in Sources(e, t) : OnCycle(e, t) \/ Done(q, x)
    BY <1>21
  <2> QED
    BY <1>7, <1>9, <2>1, <2>2, EndCaused
<1>26. Sound(e)
  <2>1. ASSUME NEW x \in Nodes
        PROVE  /\ ~Done(e, x) => Sources(e, x) \subseteq Files
               /\ e.fate[x] = T_FATE_INIT => e.binding[x] = "UNBOUND"
               /\ Done(e, x) => Whole(e, x)
               /\ CausedAt(e, x)
    <3>1. CASE x = t
      <4>1. e.fate[t] # T_FATE_INIT
        BY <1>4, <1>17
      <4> QED
        BY <1>11, <1>22, <1>23, <1>24, <1>25, <3>1, <4>1 DEF Whole
    <3>2. CASE x # t
      <4>1. ~Done(e, x) => Sources(e, x) \subseteq Files
        BY <1>2, <1>10, <3>2 DEF Sound, Done
      <4>2. e.fate[x] = T_FATE_INIT => e.binding[x] = "UNBOUND"
        BY <1>2, <1>10, <3>2 DEF Sound
      <4>3. Done(e, x) => Done(q, x)
        BY <1>10, <3>2 DEF Done
      <4>4. Done(q, x) => Whole(e, x)
        BY <1>2, <1>9, <1>15, <1>18, WholeStays
      <4>5. CausedAt(q, x)
        BY <1>2 DEF Sound
      <4>6. CausedAt(e, x)
        BY <1>10, <1>18, <3>2, <4>5, CausedStays
      <4> QED
        BY <4>1, <4>2, <4>3, <4>4, <4>6
    <3> QED
      BY <3>1, <3>2
  <2>2. ASSUME NEW f \in Files
        PROVE  /\ e.fate[IncludeNode[f]] # T_FATE_INIT => e.fate[f] # T_FATE_INIT
               /\ \A x \in Nodes : IncludeNode[f] \in Sources(e, x) =>
                    e.fate[f] # T_FATE_INIT /\ e.includes[f] = IncludeNode[f]
    <3>1. f \in Nodes /\ IncludeNode[f] \in Nodes /\ IncludeNode[f] \notin Files
          /\ \A d \in Files : IncludeNode[f] = IncludeNode[d] => f = d
      BY NodesOfFiles
    <3>2. e.fate[IncludeNode[f]] # T_FATE_INIT => q.fate[IncludeNode[f]] # T_FATE_INIT
      BY <1>4, <1>10, <3>1
    <3>3. q.fate[IncludeNode[f]] # T_FATE_INIT => q.fate[f] # T_FATE_INIT
      BY <1>2 DEF Sound
    <3>4. ASSUME NEW x \in Nodes, IncludeNode[f] \in Sources(e, x)
          PROVE  q.fate[f] # T_FATE_INIT /\ q.includes[f] = IncludeNode[f]
      <4>1. CASE x = t
        <5>1. f \in D /\ q.includes[f] = IncludeNode[f]
          BY <1>5, <1>14, <3>1, <3>4, <4>1
        <5> QED
          BY <1>6, <5>1
      <4>2. CASE x # t
        BY <1>2, <1>10, <3>4, <4>2 DEF Sound
      <4> QED
        BY <4>1, <4>2
    <3> QED
      BY <1>10, <1>17, <3>1, <3>2, <3>3, <3>4
  <2> QED
    BY <1>9, <1>15, <1>16, <2>1, <2>2 DEF Sound
<1> QED
  BY <1>12, <1>26 DEF e, j

\* Those still to be visited.
Left(h) == {x \in Nodes : h.fate[x] = T_FATE_INIT}

\* `visit' does what it should as long as there are no more than n.
Keeps(visit, n) ==
  \A h \in Graphs, t \in Nodes, p \in Parents :
    Before(h, t, p) /\ Cardinality(Left(h)) <= n => After(h, visit[<<h, t, p>>], t)

LEMMA LeftIs ==
  ASSUME NEW h
  PROVE  /\ IsFiniteSet(Left(h)) /\ Cardinality(Left(h)) \in Nat
         /\ Cardinality(Left(h)) <= Cardinality(Nodes)
<1>1. Left(h) \subseteq Nodes
  BY DEF Left
<1> QED
  BY <1>1, NodesFinite, FS_Subset, FS_CardinalityType

LEMMA LeftShrinks ==
  ASSUME NEW h, NEW k, Left(k) \subseteq Left(h)
  PROVE  Cardinality(Left(k)) <= Cardinality(Left(h))
BY LeftIs, FS_Subset

LEMMA LeftLess ==
  ASSUME NEW h, NEW k, NEW t, t \in Left(h), t \notin Left(k), Left(k) \subseteq Left(h)
  PROVE  Cardinality(Left(k)) + 1 <= Cardinality(Left(h))
<1> DEFINE S == Left(h)
           T == Left(k)
           R == S \ {t}
<1>1. IsFiniteSet(S) /\ Cardinality(S) \in Nat /\ IsFiniteSet(T) /\ Cardinality(T) \in Nat
  BY LeftIs
<1> HIDE DEF S, T
<1>2. t \in S /\ t \notin T /\ T \subseteq S
  BY DEF S, T
<1>3. IsFiniteSet(R) /\ Cardinality(R) = Cardinality(S) - 1
  BY <1>1, <1>2, FS_RemoveElement
<1>4. T \subseteq R
  BY <1>2
<1> HIDE DEF R
<1>5. Cardinality(T) <= Cardinality(R)
  BY <1>3, <1>4, FS_Subset
<1> QED
  BY <1>1, <1>3, <1>5 DEF S, T

LEMMA KeptLeft ==
  ASSUME NEW h, NEW k, Kept(h, k)
  PROVE  Left(k) \subseteq Left(h)
BY DEF Kept, Left

\* The loop over the dependencies of t.
LEMMA ListVisited ==
  ASSUME NEW n \in Nat, NEW visit \in Visitors, Keeps(visit, n),
         NEW h, NEW t \in Nodes, NEW b \in Graphs, NEW o, Opened(h, b, t, o), Cardinality(Left(b)) <= n,
         NEW p \in Parents, ~OnFile(b, t) \/ p = t
  PROVE  LET half == VisitAll(b, b.depends[t], p, visit)
         IN  /\ half \in Graphs /\ Sound(half) /\ Kept(b, half)
             /\ \A d \in Sources(b, t) : half.fate[d] # T_FATE_INIT
             /\ \A f \in Files : Making(b, f) => half.fate[IncludeNode[f]] = b.fate[IncludeNode[f]]
<1> DEFINE half == VisitAll(b, b.depends[t], p, visit)
           ts == b.depends[t]
           len == Len(ts)
           step == ListStep(p, visit)
<1>1. ts \in Seq(Nodes) /\ len \in Nat /\ \A i \in 1..len : ts[i] \in Nodes
  BY GraphFields
<1>2. /\ step \in Steppers
      /\ \A k \in Graphs, x \in Nodes :
           step[<<k, x>>] = IF k.fate[x] = T_FATE_INIT THEN visit[<<k, x, p>>] ELSE k
  BY ListStepIs
<1>3. half = Along(b, ts, step)
  BY <1>1, VisitAllIs
<1>4. \A x : x \in Sources(b, t) <=> \E i \in 1..len : ts[i] = x
  BY <1>1, SetOfList DEF Sources
<1> HIDE DEF step, ts, half
<1>5. PICK c : AlongSteps(c, b, ts, step)
  BY <1>1, <1>2, AlongStepsExist
<1>6. /\ c \in [0..len -> Graphs] /\ c[0] = b /\ c[len] = half
      /\ \A i \in 1..len : c[i] = step[<<c[i - 1], ts[i]>>]
  BY <1>3, <1>5 DEF AlongSteps
<1>7. Sound(b) /\ Making(b, t) /\ BoundAs(b, t) /\ \A x \in Nodes : Making(b, x) => Leads(b, x, t)
  BY DEF Opened
<1>8. \A i \in 1..len : ts[i] \in Files
  <2>1. ~Done(b, t)
    BY <1>7, FateNumbers DEF Making, Done
  <2>2. Sources(b, t) \subseteq Files
    BY <1>7, <2>1 DEF Sound
  <2> QED
    BY <1>4, <2>2
<1> HIDE DEF len
<1> DEFINE Went(k) == \A f \in Files : Making(b, f) => k.fate[IncludeNode[f]] = b.fate[IncludeNode[f]]
           S == {i \in 0..len : /\ Sound(c[i]) /\ Kept(b, c[i]) /\ Went(c[i])
                                /\ \A l \in 1..i : c[i].fate[ts[l]] # T_FATE_INIT}
<1>9. \A i \in 0..len : i \in S
  <2>1. 0 \in S
    <3>1. Kept(b, b)
      BY KeptSelf
    <3> QED
      BY <1>1, <1>6, <1>7, <3>1
  <2>2. ASSUME NEW i \in 1..len, i - 1 \in S PROVE i \in S
    <3> DEFINE k == c[i - 1]
               x == ts[i]
               e == c[i]
    <3>1. i \in 0..len /\ i - 1 \in 0..len /\ k \in Graphs /\ e \in Graphs /\ x \in Nodes /\ x \in Files
      BY <1>1, <1>6, <1>8
    <3>2. /\ Sound(k) /\ Kept(b, k) /\ Went(k)
          /\ \A l \in 1..(i - 1) : k.fate[ts[l]] # T_FATE_INIT
      BY <2>2
    <3>3. e = IF k.fate[x] = T_FATE_INIT THEN visit[<<k, x, p>>] ELSE k
      BY <1>2, <1>6, <3>1
    <3>4. \A l \in 1..i : ts[l] \in Nodes /\ (l \in 1..(i - 1) \/ ts[l] = x)
      BY <1>1
    <3> HIDE DEF Went, k, x, e
    <3>5. Sound(e) /\ Kept(b, e) /\ Went(e) /\ Kept(k, e) /\ e.fate[x] # T_FATE_INIT
      <4>1. CASE k.fate[x] # T_FATE_INIT
        BY <3>1, <3>2, <3>3, <4>1, KeptSelf
      <4>2. CASE k.fate[x] = T_FATE_INIT
        <5>1. x \in Sources(b, t)
          BY <1>4 DEF x
        <5>2. Grows(b, k)
          BY <3>2, KeptGrows
        <5>3. ASSUME NEW m \in Nodes, Making(k, m) PROVE Leads(k, m, x)
          <6>1. Making(b, m)
            <7>1. b.fate[m] # T_FATE_INIT
              BY <3>2, <5>3 DEF Kept
            <7> QED
              BY <3>2, <5>3, <7>1 DEF Kept, Making
          <6>2. Leads(k, m, t)
            BY <1>7, <5>2, <6>1, LeadsGrows
          <6>3. Leads(b, t, x)
            BY <5>1, LeadsNext
          <6>4. Leads(k, t, x)
            BY <5>2, <6>3, LeadsGrows
          <6> QED
            BY <6>2, <6>4, LeadsOn
        <5>4. \A f \in Files : x # IncludeNode[f]
          BY <3>1, NodesOfFiles
        <5>4a. Called(k, x, p)
          <6>1. Making(k, t) /\ x \in Sources(k, t)
            BY <1>7, <3>2, <5>1, FateNumbers DEF Kept, Making
          <6>2. /\ k.flags = b.flags /\ k.disk = b.disk
                /\ k.binding[t] = b.binding[t] /\ k.time[t] = b.time[t]
            BY <1>7, <3>2, FateNumbers DEF Kept, Making
          <6>3. (OnFile(k, t) <=> OnFile(b, t)) /\ (BoundAs(k, t) <=> BoundAs(b, t))
            BY <6>2 DEF OnFile, IsFile, BoundAs
          <6> QED
            BY <1>7, <6>1, <6>3 DEF Called
        <5>5. Before(k, x, p)
          BY <3>2, <4>2, <5>3, <5>4, <5>4a DEF Before
        <5>6. Cardinality(Left(k)) <= n
          <6>1. Cardinality(Left(k)) <= Cardinality(Left(b))
            BY <3>2, KeptLeft, LeftShrinks
          <6> QED
            BY <6>1, LeftIs
        <5>7. After(k, e, x)
          BY <3>1, <3>3, <4>2, <5>5, <5>6 DEF Keeps
        <5>8. Sound(e) /\ Kept(k, e) /\ Done(e, x) /\ Waits(k, e, x)
          BY <5>7 DEF After
        <5>9. Kept(b, e)
          BY <3>1, <3>2, <5>8, KeptOn
        <5>10. Went(e)
          <6> SUFFICES ASSUME NEW f \in Files, Making(b, f)
                       PROVE  e.fate[IncludeNode[f]] = b.fate[IncludeNode[f]]
            BY DEF Went
          <6>1. Making(k, f)
            BY <3>2, NodesOfFiles, FateNumbers DEF Kept, Making
          <6> QED
            BY <3>2, <5>4, <5>8, <6>1 DEF Went, Waits
        <5>11. e.fate[x] # T_FATE_INIT
          BY <3>1, <5>8, GraphFields, FateNumbers DEF Done
        <5> QED
          BY <5>8, <5>9, <5>10, <5>11
      <4> QED
        BY <4>1, <4>2
    <3>6. \A l \in 1..i : e.fate[ts[l]] # T_FATE_INIT
      BY <3>2, <3>4, <3>5 DEF Kept
    <3> QED
      BY <3>1, <3>5, <3>6 DEF e
  <2> HIDE DEF S
  <2> QED
    BY <1>1, <2>1, <2>2, FiniteInduction DEF len
<1>10. len \in S /\ half \in Graphs
  <2>1. len \in 0..len
    BY <1>1 DEF len
  <2> HIDE DEF S
  <2> QED
    BY <1>6, <1>9, <2>1
<1> QED
  BY <1>4, <1>6, <1>10 DEF half

\* The includes of t, once its dependencies have been visited.
LEMMA MostReady ==
  ASSUME NEW n \in Nat, NEW visit \in Visitors, Keeps(visit, n),
         NEW h \in Graphs, NEW t \in Nodes, NEW p \in Parents, Before(h, t, p), Cardinality(Left(h)) <= n + 1
  PROVE  Ready(Begun(h, t, p), Most(h, t, p, visit), t) /\ Waits(h, Most(h, t, p, visit), t)
<1> DEFINE b == Begun(h, t, p)
           half == Half(h, t, p, visit)
           q == Most(h, t, p, visit)
<1>1. b \in Graphs /\ half \in Graphs /\ q \in Graphs /\ TimeParent(b, t, p) \in Parents
  BY BeginsIs, VisitBelowIs
<1>2. Opened(h, b, t, p)
  BY BegunOpens
<1>3. half = VisitAll(b, b.depends[t], TimeParent(b, t, p), visit)
  BY DEF Half
<1>4. q = IF half.includes[t] = NoTarget THEN half ELSE visit[<<half, half.includes[t], p>>]
  BY DEF Most
<1> HIDE DEF b, half, q
<1>5. /\ Sound(b) /\ Making(b, t)
      /\ \A x \in Nodes : x # t => b.fate[x] = h.fate[x]
      /\ \A x \in Nodes : Making(b, x) => Leads(b, x, t)
  BY <1>2 DEF Opened
<1>6. Sound(h) /\ h.fate[t] = T_FATE_INIT
  BY DEF Before
<1>7. Cardinality(Left(b)) <= n
  <2>1. t \in Left(h) /\ t \notin Left(b) /\ Left(b) \subseteq Left(h)
    BY <1>5, <1>6, FateNumbers DEF Left, Making
  <2>2. Cardinality(Left(b)) + 1 <= Cardinality(Left(h))
    BY <2>1, LeftLess
  <2> QED
    BY <2>2, LeftIs
<1>7a. ~OnFile(b, t) \/ TimeParent(b, t, p) = t
  <2>1. OnFile(b, t) => t \notin InternalNodes /\ b.binding[t] # "PARENTS"
    BY <1>2, NodesOfFiles DEF Opened, BoundAs, OnFile, IsFile, InternalNodes
  <2> QED
    BY <2>1 DEF TimeParent
<1>8. /\ Sound(half) /\ Kept(b, half)
      /\ \A d \in Sources(b, t) : half.fate[d] # T_FATE_INIT
      /\ \A f \in Files : Making(b, f) => half.fate[IncludeNode[f]] = b.fate[IncludeNode[f]]
  BY <1>1, <1>2, <1>3, <1>7, <1>7a, ListVisited
<1>9. ASSUME NEW f \in Files, Making(h, f), IncludeNode[f] # t
      PROVE  f # t /\ Making(b, f) /\ Making(half, f) /\ half.fate[IncludeNode[f]] = h.fate[IncludeNode[f]]
  <2>1. f \in Nodes /\ IncludeNode[f] \in Nodes
    BY NodesOfFiles
  <2>2. f # t
    BY <1>6, <1>9, FateNumbers DEF Making
  <2>3. Making(b, f)
    BY <1>5, <1>9, <2>1, <2>2 DEF Making
  <2>4. Making(half, f)
    BY <1>8, <2>1, <2>3, FateNumbers DEF Kept, Making
  <2> QED
    BY <1>5, <1>8, <1>9, <2>1, <2>2, <2>3, <2>4
<1>10. CASE half.includes[t] = NoTarget
  <2>1. q = half
    BY <1>4, <1>10
  <2>2. Waits(h, q, t)
    BY <1>9, <2>1 DEF Waits
  <2> QED
    BY <1>8, <1>10, <2>1, <2>2 DEF Ready, b, q
<1>11. CASE half.includes[t] # NoTarget
  <2> DEFINE i == IncludeNode[t]
  <2>1. t \in Files /\ half.includes[t] = i
    BY <1>8, <1>11 DEF Sound, Shaped, Nodes, InternalNodes
  <2>2. i \in Nodes /\ i # t /\ \A f \in Files : IncludeNode[f] = i => f = t
    BY <2>1, NodesOfFiles
  <2>3. q = visit[<<half, i, p>>]
    BY <1>4, <1>11, <2>1
  <2> HIDE DEF i
  <2>4. half.fate[i] = T_FATE_INIT
    <3>1. half.fate[i] = b.fate[i]
      BY <1>5, <1>8, <2>1 DEF i
    <3>2. b.fate[i] = h.fate[i]
      BY <1>5, <2>2
    <3>3. h.fate[i] = T_FATE_INIT
      BY <1>6, <2>1 DEF Sound, i
    <3> QED
      BY <3>1, <3>2, <3>3
  <2>5. Making(half, t)
    BY <1>5, <1>8, FateNumbers DEF Kept, Making
  <2>6. ASSUME NEW x \in Nodes, Making(half, x) PROVE Leads(half, x, i)
    <3>1. Making(b, x)
      <4>1. b.fate[x] # T_FATE_INIT
        BY <1>8, <2>6 DEF Kept
      <4> QED
        BY <1>8, <2>6, <4>1 DEF Kept, Making
    <3>2. Leads(half, x, t)
      BY <1>1, <1>5, <1>8, <3>1, KeptGrows, LeadsGrows
    <3>3. Leads(half, t, i)
      BY <1>11, <2>1, LeadsNext
    <3> QED
      BY <3>2, <3>3, LeadsOn
  <2>7. Before(half, i, p)
    <3>1. Called(half, i, p)
      BY <2>1 DEF Called, InternalNodes, i
    <3> QED
      BY <1>8, <2>2, <2>4, <2>5, <2>6, <3>1 DEF Before
  <2>8. Cardinality(Left(half)) <= n
    <3>1. Cardinality(Left(half)) <= Cardinality(Left(b))
      BY <1>8, KeptLeft, LeftShrinks
    <3> QED
      BY <1>7, <3>1, LeftIs
  <2>9. After(half, q, i)
    BY <1>1, <2>2, <2>3, <2>7, <2>8 DEF Keeps
  <2>10. Sound(q) /\ Kept(half, q) /\ Done(q, i) /\ Waits(half, q, i)
    BY <2>9 DEF After
  <2>11. Kept(b, q)
    BY <1>1, <1>8, <2>10, KeptOn
  <2>12. \A d \in Sources(b, t) : q.fate[d] # T_FATE_INIT
    <3>1. Sources(b, t) \subseteq Nodes
      BY <1>1, GraphFields, SetOfList DEF Sources
    <3> QED
      BY <1>8, <2>10, <3>1 DEF Kept
  <2>13. q.includes[t] = i
    BY <2>1, <2>5, <2>10, FateNumbers DEF Kept, Making
  <2>14. Ready(b, q, t)
    BY <2>10, <2>11, <2>12, <2>13 DEF Ready
  <2>15. Waits(h, q, t)
    <3> SUFFICES ASSUME NEW f \in Files, Making(h, f), IncludeNode[f] # t
                 PROVE  q.fate[IncludeNode[f]] = h.fate[IncludeNode[f]]
      BY DEF Waits
    <3>1. f # t /\ Making(half, f) /\ half.fate[IncludeNode[f]] = h.fate[IncludeNode[f]]
      BY <1>9
    <3>2. IncludeNode[f] # i
      BY <2>2, <3>1
    <3> QED
      BY <2>10, <3>1, <3>2 DEF Waits
  <2> QED
    BY <2>14, <2>15 DEF b, q
<1> QED
  BY <1>10, <1>11

LEMMA BelowKeeps ==
  ASSUME NEW n \in Nat, NEW visit \in Visitors, Keeps(visit, n),
         NEW h \in Graphs, NEW t \in Nodes, NEW p \in Parents, Before(h, t, p), Cardinality(Left(h)) <= n + 1
  PROVE  After(h, VisitBelow(h, t, p, visit), t)
<1> DEFINE b == Begun(h, t, p)
           q == Most(h, t, p, visit)
           e == Decide(Joins(q, t), t, p)
<1>1. b \in Graphs /\ q \in Graphs /\ VisitBelow(h, t, p, visit) = e /\ e \in Graphs
  BY BeginsIs, VisitBelowIs
<1>2. Opened(h, b, t, p)
  BY BegunOpens
<1>3. Ready(b, q, t) /\ Waits(h, q, t)
  BY MostReady
<1> HIDE DEF b, q
<1>4. Closes(q, e, t) /\ Sound(e)
  BY <1>1, <1>2, <1>3, EndCloses
<1> HIDE DEF e
<1>5. h.fate[t] = T_FATE_INIT
  BY DEF Before
<1>6. e.cantfind >= h.cantfind
  <2>1. e.cantfind \in Nat /\ q.cantfind \in Nat /\ b.cantfind \in Nat /\ h.cantfind \in Nat
    BY <1>1, GraphFields
  <2> QED
    BY <1>2, <1>3, <1>4, <2>1 DEF Closes, Ready, Kept, Opened
<1>7. ASSUME NEW x \in Nodes
      PROVE  /\ Sources(h, x) \subseteq Sources(e, x)
             /\ h.includes[x] # NoTarget => e.includes[x] = h.includes[x]
             /\ h.fate[x] # T_FATE_INIT =>
                  /\ e.fate[x] = h.fate[x] /\ e.binding[x] = h.binding[x] /\ e.time[x] = h.time[x]
                  /\ e.includes[x] = h.includes[x] /\ Sources(e, x) = Sources(h, x)
                  /\ e.leaf[x] = h.leaf[x]
             /\ h.fate[x] = T_FATE_INIT => ~Making(e, x)
  <2>1. Kept(b, q)
    BY <1>3 DEF Ready
  <2>2. Sources(h, x) \subseteq Sources(e, x)
    BY <1>2, <1>4, <2>1 DEF Opened, Kept, Closes
  <2>3. h.includes[x] # NoTarget => e.includes[x] = h.includes[x]
    BY <1>2, <1>4, <2>1 DEF Opened, Kept, Closes
  <2>4. ASSUME h.fate[x] # T_FATE_INIT
        PROVE  /\ e.fate[x] = h.fate[x] /\ e.binding[x] = h.binding[x] /\ e.time[x] = h.time[x]
               /\ e.includes[x] = h.includes[x] /\ Sources(e, x) = Sources(h, x)
               /\ e.leaf[x] = h.leaf[x]
    <3>1. x # t
      BY <1>5, <2>4
    <3>2. /\ b.fate[x] = h.fate[x] /\ b.binding[x] = h.binding[x] /\ b.time[x] = h.time[x]
          /\ b.includes[x] = h.includes[x] /\ Sources(b, x) = Sources(h, x)
          /\ b.leaf[x] = h.leaf[x]
      BY <1>2, <2>4, <3>1 DEF Opened
    <3>3. /\ q.fate[x] = b.fate[x] /\ q.binding[x] = b.binding[x] /\ q.time[x] = b.time[x]
          /\ q.includes[x] = b.includes[x] /\ Sources(q, x) = Sources(b, x)
          /\ q.leaf[x] = b.leaf[x]
      BY <2>1, <2>4, <3>2 DEF Kept
    <3> QED
      BY <1>4, <3>1, <3>2, <3>3 DEF Closes
  <2>5. ASSUME h.fate[x] = T_FATE_INIT PROVE ~Making(e, x)
    <3>1. CASE x = t
      BY <1>4, <3>1, FateNumbers DEF Closes, Done, Making
    <3>2. CASE x # t
      <4>1. b.fate[x] = T_FATE_INIT
        BY <1>2, <2>5, <3>2 DEF Opened
      <4> QED
        BY <1>4, <2>1, <3>2, <4>1 DEF Kept, Closes, Making
    <3> QED
      BY <3>1, <3>2
  <2> QED
    BY <2>2, <2>3, <2>4, <2>5
<1>8. e.disk = h.disk /\ e.flags = h.flags /\ e.actions = h.actions /\ e.rebuilds = h.rebuilds
  BY <1>2, <1>3, <1>4 DEF Opened, Ready, Kept, Closes
<1>9. Kept(h, e)
  BY <1>6, <1>7, <1>8 DEF Kept
<1>10. Waits(h, e, t)
  BY <1>3, <1>4, NodesOfFiles DEF Waits, Closes
<1>11. Done(e, t)
  BY <1>4 DEF Closes
<1> QED
  BY <1>1, <1>4, <1>9, <1>10, <1>11 DEF After

\* make0() of a target nobody has visited.
LEMMA VisitIs ==
  ASSUME NEW h \in Graphs, NEW t \in Nodes, NEW p \in Parents, Before(h, t, p)
  PROVE  After(h, Visit(h, t, p), t)
<1>1. PICK v : VisitSteps(v)
  BY VisitStepsExist
<1> DEFINE n == Deepest
           S == {i \in 0..n : Keeps(v[i], i)}
<1>2. n \in Nat /\ Cardinality(Nodes) <= n
  BY NodesFinite DEF Deepest
<1>3. /\ v \in [0..n -> Visitors]
      /\ \A i \in 1..n, k \in Graphs, x \in Nodes, y \in Parents :
           v[i][<<k, x, y>>] = VisitBelow(k, x, y, v[i - 1])
      /\ Visit(h, t, p) = v[n][<<h, t, p>>]
  BY <1>1 DEF VisitSteps
<1> HIDE DEF n
<1>4. \A i \in 0..n : i \in S
  <2>1. 0 \in S
    <3>1. ASSUME NEW k \in Graphs, NEW x \in Nodes, NEW y \in Parents,
                 Before(k, x, y), Cardinality(Left(k)) <= 0
          PROVE  FALSE
      <4>1. Cardinality(Left(k)) = 0
        BY <3>1, LeftIs
      <4>2. Left(k) = {}
        BY <4>1, LeftIs, FS_EmptySet
      <4> QED
        BY <3>1, <4>2 DEF Before, Left
    <3> QED
      BY <1>2, <3>1 DEF Keeps
  <2>2. ASSUME NEW i \in 1..n, i - 1 \in S PROVE i \in S
    <3>1. i - 1 \in 0..n /\ i \in 0..n /\ i - 1 \in Nat /\ (i - 1) + 1 = i
      BY <1>2
    <3>2. v[i - 1] \in Visitors /\ Keeps(v[i - 1], i - 1)
      BY <1>3, <2>2, <3>1
    <3> DEFINE m == i - 1
               u == v[i - 1]
    <3>3. m \in Nat /\ m + 1 = i /\ u \in Visitors /\ Keeps(u, m)
      BY <3>1, <3>2
    <3>4. \A k \in Graphs, x \in Nodes, y \in Parents : v[i][<<k, x, y>>] = VisitBelow(k, x, y, u)
      BY <1>3
    <3> HIDE DEF m, u
    <3>5. ASSUME NEW k \in Graphs, NEW x \in Nodes, NEW y \in Parents,
                 Before(k, x, y), Cardinality(Left(k)) <= i
          PROVE  After(k, v[i][<<k, x, y>>], x)
      <4>1. Cardinality(Left(k)) <= m + 1
        BY <3>3, <3>5
      <4>2. After(k, VisitBelow(k, x, y, u), x)
        BY <3>3, <3>5, <4>1, BelowKeeps
      <4> QED
        BY <3>4, <4>2
    <3> QED
      BY <3>1, <3>5 DEF Keeps
  <2> HIDE DEF S
  <2> QED
    BY <1>2, <2>1, <2>2, FiniteInduction
<1>5. Keeps(v[n], n)
  <2>1. n \in 0..n
    BY <1>2
  <2> QED
    BY <1>4, <2>1
<1>6. Cardinality(Left(h)) <= n
  BY <1>2, LeftIs, NodesFinite
<1> QED
  BY <1>3, <1>5, <1>6 DEF Keeps

-----------------------------------------------------------------------------
(***************************************************************************)
(* make(): the target that is asked for.                                   *)
(***************************************************************************)
Asks == [y \in Graphs \X Nodes |-> Visit(y[1], y[2], NoTarget)]

LEMMA VisitTyped ==
  ASSUME NEW h \in Graphs, NEW t \in Nodes, NEW p \in Parents
  PROVE  Visit(h, t, p) \in Graphs
<1>1. PICK v : VisitSteps(v)
  BY VisitStepsExist
<1>2. Deepest \in Nat
  BY NodesFinite DEF Deepest
<1>3. v[Deepest] \in Visitors /\ Visit(h, t, p) = v[Deepest][<<h, t, p>>]
  BY <1>1, <1>2 DEF VisitSteps
<1> QED
  BY <1>3 DEF Visitors

LEMMA AsksIs == Asks \in Steppers /\ \A h \in Graphs, t \in Nodes : Asks[<<h, t>>] = Visit(h, t, NoTarget)
<1>1. NoTarget \in Parents
  BY DEF Parents
<1>2. \A h \in Graphs, t \in Nodes : Visit(h, t, NoTarget) \in Graphs
  BY <1>1, VisitTyped
<1>3. ASSUME NEW y \in Graphs \X Nodes PROVE Visit(y[1], y[2], NoTarget) \in Graphs
  <2>1. y[1] \in Graphs /\ y[2] \in Nodes
    OBVIOUS
  <2> QED
    BY <1>2, <2>1
<1>4. Asks \in Steppers
  BY <1>3 DEF Asks, Steppers
<1>5. ASSUME NEW h \in Graphs, NEW t \in Nodes PROVE Asks[<<h, t>>] = Visit(h, t, NoTarget)
  BY DEF Asks
<1> QED
  BY <1>4, <1>5

LEMMA DiskSet ==
  ASSUME NEW h \in Graphs, NEW disk \in [Files -> Nat]
  PROVE  [h EXCEPT !.disk = disk] \in Graphs
BY DEF Graphs

LEMMA MakeTyped ==
  ASSUME NEW h \in Graphs, NEW disk \in Disks
  PROVE  Make0All(h, disk, Asked) \in Graphs
<1> DEFINE k == [h EXCEPT !.disk = disk]
           S == Graphs
<1>1. disk \in [Files -> Nat] /\ Asked \in Seq(Nodes)
  BY CallsAssumption, NodesOfFiles
<1>2. k \in Graphs
  BY <1>1, DiskSet
<1>3. Make0All(h, disk, Asked) = Along(k, Asked, Asks)
  BY DEF Make0All, Asks
<1> HIDE DEF k
<1>4. \A b \in Graphs \cap S, e \in ToSet(Asked) : Asks[<<b, e>>] \in S
  BY <1>1, AsksIs, SetOfList DEF Steppers
<1>5. k \in S
  BY <1>2
<1> HIDE DEF S
<1>6. Along(k, Asked, Asks) \in Graphs
  BY <1>1, <1>2, <1>4, <1>5, AsksIs, AlongKeeps
<1> QED
  BY <1>3, <1>6

\* Once all is decided.
Over(h) == /\ Sound(h)
           /\ \A x \in Nodes : ~Making(h, x)
           /\ \A a \in ToSet(Asked) : Done(h, a)

\* One target is asked for.
OneAsked == Len(Asked) = 1

LEMMA ParsedSound ==
  ASSUME NEW h, Parsed(h), Peaceful(h), NEW disk \in [Files -> Nat]
  PROVE  Sound([h EXCEPT !.disk = disk]) /\ \A x \in Nodes : [h EXCEPT !.disk = disk].fate[x] = T_FATE_INIT
<1> DEFINE k == [h EXCEPT !.disk = disk]
<1>1. h \in Graphs /\ Shaped(h) /\ Fresh(h) /\ Joined(h)
  BY DEF Parsed
<1>2. /\ k \in Graphs /\ k.depends = h.depends /\ k.rebuilds = h.rebuilds /\ k.actions = h.actions
      /\ k.includes = h.includes /\ k.flags = h.flags /\ k.binding = h.binding /\ k.fate = h.fate
      /\ k.time = h.time /\ k.leaf = h.leaf
  BY <1>1, DiskSet DEF Graphs
<1> HIDE DEF k
<1>3. \A x \in Nodes : /\ k.fate[x] = T_FATE_INIT /\ k.binding[x] = "UNBOUND" /\ Sources(k, x) \subseteq Files
                       /\ ~Done(k, x) /\ CausedAt(k, x)
  BY <1>1, <1>2, FateNumbers DEF Fresh, Sources, Done, CausedAt, Dated
<1>4. Shaped(k) /\ Peaceful(k) /\ Joined(k)
  BY <1>1, <1>2 DEF Shaped, Peaceful, Joined, Paired, Sources
<1>5. Sound(k)
  BY <1>2, <1>3, <1>4, NodesOfFiles DEF Sound
<1> QED
  BY <1>3, <1>5 DEF k

LEMMA MakeIs ==
  ASSUME OneAsked, NEW h, Parsed(h), Peaceful(h), NEW disk \in Disks
  PROVE  Over(Make0All(h, disk, Asked))
<1> DEFINE b == [h EXCEPT !.disk = disk]
           a == Asked[1]
           k == Visit(b, a, NoTarget)
<1>1. disk \in [Files -> Nat] /\ Asked \in Seq(Nodes) /\ Asked \in Seq(Files) /\ Len(Asked) = 1
  BY CallsAssumption, NodesOfFiles DEF OneAsked
<1>2. a \in Files /\ a \in Nodes /\ \A x \in ToSet(Asked) : x = a
  BY <1>1, NodesOfFiles, SetOfList
<1>3. Sound(b) /\ b \in Graphs /\ \A x \in Nodes : b.fate[x] = T_FATE_INIT
  BY <1>1, ParsedSound DEF Sound
<1>4. Make0All(h, disk, Asked) = Along(b, Asked, Asks)
  BY DEF Make0All, Asks
<1> HIDE DEF b
<1>5. PICK c : AlongSteps(c, b, Asked, Asks)
  BY <1>1, <1>3, AsksIs, AlongStepsExist
<1>6. Along(b, Asked, Asks) = k
  <2>1. 1 \in 1..Len(Asked)
    BY <1>1
  <2>2. c[1] = Asks[<<c[0], Asked[1]>>] /\ c[0] = b /\ c[1] = Along(b, Asked, Asks)
    BY <1>1, <1>5, <2>1 DEF AlongSteps
  <2> QED
    BY <1>2, <1>3, <2>2, AsksIs
<1> HIDE DEF a, k
<1>7. \A x \in Nodes : ~Making(b, x)
  BY <1>3, FateNumbers DEF Making
<1>8. Before(b, a, NoTarget)
  <2>1. a \in ToSet(Asked)
    BY <1>1, SetOfList DEF a
  <2> QED
    BY <1>2, <1>3, <1>7, <2>1, NodesOfFiles DEF Before, Called
<1>9. NoTarget \in Parents
  BY DEF Parents
<1>10. After(b, k, a)
  BY <1>2, <1>3, <1>8, <1>9, VisitIs DEF k
<1>11. \A x \in Nodes : ~Making(k, x)
  BY <1>3, <1>10 DEF After, Kept
<1>12. Over(k)
  BY <1>2, <1>10, <1>11 DEF After, Over
<1> QED
  BY <1>4, <1>6, <1>12

-----------------------------------------------------------------------------
(***************************************************************************)
(* The invariant.                                                          *)
(***************************************************************************)
TypeOK == /\ g \in Graphs
          /\ calls \in 0..MaxCalls
          /\ phase \in {"parse", "made"}
          /\ phase = "parse" => Parsed(g)

IInv == /\ phase = "parse" => Parsed(g) /\ Peaceful(g)
        /\ phase = "made" => Over(g)
        /\ phase \in {"parse", "made"}

\* Whatever the calls, the graph that is built, and the graph make0() makes of
\* it, is well formed: every link leads to a target and every fate is one of the
\* enumeration; until then the targets of an action include each other.
THEOREM TypeCorrect == Spec => []TypeOK
<1>1. Init => TypeOK
  <2> SUFFICES ASSUME Init PROVE TypeOK
    OBVIOUS
  <2>1. Parsed(AfterCalls(Base))
    BY CallsAssumption, AfterCallsParsed
  <2>2. 0 \in 0..MaxCalls
    BY CallsAssumption
  <2> QED
    BY <2>1, <2>2 DEF Init, TypeOK, Parsed
<1>2. TypeOK /\ [Next]_vars => TypeOK'
  <2> SUFFICES ASSUME TypeOK, [Next]_vars PROVE TypeOK'
    OBVIOUS
  <2>1. CASE Call
    <3>1. PICK c \in Calls : g' = Apply(g, c)
      BY <2>1 DEF Call
    <3>2. Parsed(g) /\ c \in RuleCalls
      BY <2>1, CallsAssumption DEF Call, TypeOK
    <3>3. Parsed(g')
      BY <3>1, <3>2, ParsedApply
    <3>4. calls' \in 0..MaxCalls
      BY <2>1, CallsAssumption DEF Call, TypeOK
    <3> QED
      BY <2>1, <3>3, <3>4 DEF Call, TypeOK, Parsed
  <2>2. CASE Make
    <3>1. g' \in Graphs
      BY <2>2, MakeTyped DEF Make, TypeOK
    <3> QED
      BY <2>2, <3>1 DEF Make, TypeOK
  <2>3. CASE UNCHANGED vars
    BY <2>3 DEF vars, TypeOK, Parsed, Fresh, Shaped, Joined, Paired, Sources
  <2> QED
    BY <2>1, <2>2, <2>3 DEF Next
<1> QED
  BY <1>1, <1>2, PTL DEF Spec

LEMMA Invariant ==
  ASSUME NoRebuilds, OneAsked
  PROVE  Spec => []IInv
<1>1. Init => IInv
  <2> SUFFICES ASSUME Init PROVE IInv
    OBVIOUS
  <2>1. Parsed(AfterCalls(Base)) /\ Peaceful(AfterCalls(Base))
    BY CallsAssumption, AfterCallsParsed DEF NoRebuilds
  <2> QED
    BY <2>1 DEF Init, IInv
<1>2. IInv /\ [Next]_vars => IInv'
  <2> SUFFICES ASSUME IInv, [Next]_vars PROVE IInv'
    OBVIOUS
  <2>1. CASE Call
    <3>1. PICK c \in Calls : g' = Apply(g, c)
      BY <2>1 DEF Call
    <3>2. Parsed(g) /\ Peaceful(g) /\ c \in RuleCalls /\ c.rule # "REBUILDS"
      BY <2>1, CallsAssumption DEF Call, IInv, NoRebuilds
    <3>3. Parsed(g') /\ Peaceful(g')
      BY <3>1, <3>2, ParsedApply
    <3> QED
      BY <2>1, <3>3 DEF Call, IInv, Parsed, Peaceful
  <2>2. CASE Make
    <3>1. Over(g')
      BY <2>2, MakeIs DEF Make, IInv
    <3> QED
      BY <2>2, <3>1 DEF Make, IInv
  <2>3. CASE UNCHANGED vars
    BY <2>3 DEF vars, IInv
  <2> QED
    BY <2>1, <2>2, <2>3 DEF Next
<1> QED
  BY <1>1, <1>2, PTL DEF Spec

-----------------------------------------------------------------------------
(***************************************************************************)
(* What can be reached.                                                    *)
(***************************************************************************)
Nexts == [Nodes -> SUBSET Nodes]

Onward(next, R) == R \cup UNION {next[m] : m \in R}

LEMMA OnwardIs ==
  ASSUME NEW next \in Nexts, NEW R \in SUBSET Nodes
  PROVE  /\ Onward(next, R) \in SUBSET Nodes /\ R \subseteq Onward(next, R)
         /\ \A m \in R : next[m] \subseteq Onward(next, R)
         /\ \A x \in Onward(next, R) : x \in R \/ \E m \in R : x \in next[m]
BY DEF Onward, Nexts

\* The successive sets.
ReachSteps(c, S, next) ==
  /\ c \in [0..Cardinality(Nodes) -> SUBSET Nodes]
  /\ c[0] = S
  /\ c[Cardinality(Nodes)] = Closure(S, next)
  /\ \A i \in 1..Cardinality(Nodes) : c[i] = Onward(next, c[i - 1])

LEMMA ReachStepsExist ==
  ASSUME NEW S \in SUBSET Nodes, NEW next \in Nexts
  PROVE  \E c : ReachSteps(c, S, next)
<1> DEFINE n == Cardinality(Nodes)
           V == SUBSET Nodes
           step == [x \in (1..n) \X V |-> Onward(next, x[2])]
           Then(R) == LET before == R IN before \cup UNION {next[m] : m \in before}
           Body(f) == [k \in 0..n |-> IF k = 0 THEN S ELSE Onward(next, f[k - 1])]
           Code(f) == [k \in 0..n |-> IF k = 0 THEN S ELSE Then(f[k - 1])]
           reach == CHOOSE f : f = Code(f)
<1>1. n \in Nat
  BY NodesFinite
<1>2. Closure(S, next) = reach[n]
  BY DEF Closure
<1>3. \A R : Then(R) = Onward(next, R)
  BY DEF Onward
<1>4. \A f : Code(f) = Body(f)
  <2> HIDE DEF n, Then
  <2> QED
    BY <1>3
<1> HIDE DEF n, V, Then, Code
<1>5. step \in [(1..n) \X V -> V]
  <2>1. \A R \in V : Onward(next, R) \in V
    BY OnwardIs DEF V
  <2> QED
    BY <2>1
<1>6. PICK f : Follows(f, n, V, S, step)
  <2>0. S \in V
    BY DEF V
  <2> HIDE DEF step
  <2>1. Steps(n, V, S, step)
    BY <1>1, <1>5, <2>0 DEF Steps
  <2> QED
    BY <2>1, PrimitiveRecursion
<1>7. /\ f \in [0..n -> V]
      /\ f = [i \in 0..n |-> IF i = 0 THEN S ELSE step[<<i, f[i - 1]>>]]
  <2> HIDE DEF step
  <2> QED
    BY <1>6 DEF Follows
<1>8. ASSUME NEW i \in 1..n PROVE step[<<i, f[i - 1]>>] = Onward(next, f[i - 1])
  <2>1. i - 1 \in 0..n
    BY <1>1
  <2>2. f[i - 1] \in V
    <3> HIDE DEF step
    <3> QED
      BY <1>7, <2>1
  <2> QED
    BY <2>2
<1>9. f = Body(f)
  <2> HIDE DEF step
  <2>1. \A i \in 0..n : i # 0 => i \in 1..n
    BY <1>1
  <2> QED
    BY <1>7, <1>8, <2>1
<1>10. reach = Body(reach)
  <2>1. f = Code(f)
    BY <1>4, <1>9
  <2>2. reach = Code(reach)
    BY <2>1
  <2> HIDE DEF reach, Body
  <2> QED
    BY <1>4, <2>2
<1> HIDE DEF reach
<1>11. reach[0] = S /\ \A i \in 1..n : reach[i] = Onward(next, reach[i - 1])
  BY <1>1, <1>10
<1> DEFINE T == {i \in 0..n : reach[i] \in V}
<1>12. \A i \in 0..n : i \in T
  <2>1. 0 \in T
    BY <1>1, <1>11 DEF V
  <2>2. ASSUME NEW i \in 1..n, i - 1 \in T PROVE i \in T
    <3>1. i \in 0..n
      BY <1>1
    <3> QED
      BY <1>11, <2>2, <3>1, OnwardIs DEF V
  <2> HIDE DEF T
  <2> QED
    BY <1>1, <2>1, <2>2, FiniteInduction
<1>13. reach \in [0..n -> V]
  BY <1>10, <1>12
<1>14. ReachSteps(reach, S, next)
  BY <1>2, <1>11, <1>13 DEF ReachSteps, n, V
<1> QED
  BY <1>14

\* No set closed under `next' is smaller.
LEMMA ClosureLeast ==
  ASSUME NEW S \in SUBSET Nodes, NEW next \in Nexts, NEW T, S \subseteq T,
         \A m \in T \cap Nodes : next[m] \subseteq T
  PROVE  Closure(S, next) \subseteq T
<1> DEFINE n == Cardinality(Nodes)
<1>1. PICK c : ReachSteps(c, S, next)
  BY ReachStepsExist
<1>2. /\ c \in [0..n -> SUBSET Nodes] /\ c[0] = S /\ c[n] = Closure(S, next)
      /\ \A i \in 1..n : c[i] = Onward(next, c[i - 1])
  BY <1>1 DEF ReachSteps
<1>3. n \in Nat
  BY NodesFinite
<1> HIDE DEF n
<1> DEFINE R == {i \in 0..n : c[i] \subseteq T}
<1>4. \A i \in 0..n : i \in R
  <2>1. 0 \in R
    BY <1>2, <1>3
  <2>2. ASSUME NEW i \in 1..n, i - 1 \in R PROVE i \in R
    <3>1. i \in 0..n /\ i - 1 \in 0..n /\ c[i - 1] \in SUBSET Nodes /\ c[i - 1] \subseteq T
      BY <1>2, <1>3, <2>2
    <3>2. \A x \in c[i] : x \in c[i - 1] \/ \E m \in c[i - 1] : x \in next[m]
      BY <1>2, <3>1, OnwardIs
    <3> QED
      BY <3>1, <3>2
  <2> HIDE DEF R
  <2> QED
    BY <1>3, <2>1, <2>2, FiniteInduction
<1>5. n \in 0..n
  BY <1>3
<1> QED
  BY <1>2, <1>4, <1>5

\* It is closed itself: after as many steps as there are targets nothing is new.
LEMMA ClosureIs ==
  ASSUME NEW S \in SUBSET Nodes, NEW next \in Nexts
  PROVE  /\ S \subseteq Closure(S, next) /\ Closure(S, next) \in SUBSET Nodes
         /\ \A m \in Closure(S, next) : next[m] \subseteq Closure(S, next)
<1> DEFINE n == Cardinality(Nodes)
<1>1. PICK c : ReachSteps(c, S, next)
  BY ReachStepsExist
<1>2. /\ c \in [0..n -> SUBSET Nodes] /\ c[0] = S /\ c[n] = Closure(S, next)
      /\ \A i \in 1..n : c[i] = Onward(next, c[i - 1])
  BY <1>1 DEF ReachSteps
<1>3. n \in Nat /\ IsFiniteSet(Nodes)
  BY NodesFinite
<1>4. \A R \in SUBSET Nodes : IsFiniteSet(R) /\ Cardinality(R) \in Nat /\ Cardinality(R) <= n /\ (Cardinality(R) = n => R = Nodes)
  BY <1>3, FS_Subset, FS_CardinalityType
<1> HIDE DEF n
<1> DEFINE Stuck(R) == \A m \in R : next[m] \subseteq R
           T == {i \in 0..n : S \subseteq c[i] /\ (Stuck(c[i]) \/ Cardinality(c[i]) >= i)}
<1>5. \A i \in 0..n : i \in T
  <2>1. 0 \in T
    <3>1. 0 \in 0..n /\ Cardinality(c[0]) \in Nat
      BY <1>2, <1>3, <1>4
    <3> QED
      BY <1>2, <3>1
  <2>2. ASSUME NEW i \in 1..n, i - 1 \in T PROVE i \in T
    <3> DEFINE R == c[i - 1]
               Q == c[i]
    <3>1. i \in 0..n /\ i - 1 \in 0..n /\ R \in SUBSET Nodes /\ Q \in SUBSET Nodes /\ Q = Onward(next, R)
      BY <1>2, <1>3
    <3>2. S \subseteq R /\ (Stuck(R) \/ Cardinality(R) >= i - 1)
      BY <2>2
    <3> HIDE DEF R, Q
    <3>3. R \subseteq Q /\ (\A m \in R : next[m] \subseteq Q)
          /\ \A x \in Q : x \in R \/ \E m \in R : x \in next[m]
      BY <3>1, OnwardIs
    <3>4. CASE Stuck(R)
      <4>1. Q = R
        BY <3>3, <3>4
      <4> QED
        BY <3>1, <3>2, <3>4, <4>1 DEF R, Q
    <3>5. CASE ~Stuck(R)
      <4>1. R # Q
        BY <3>3, <3>5
      <4>2. IsFiniteSet(Q) /\ Cardinality(Q) \in Nat /\ Cardinality(R) \in Nat
        BY <1>4, <3>1
      <4>3. Cardinality(R) <= Cardinality(Q) /\ Cardinality(R) # Cardinality(Q)
        BY <3>3, <4>1, <4>2, FS_Subset
      <4>4. Cardinality(R) >= i - 1
        BY <3>2, <3>5
      <4>5. Cardinality(Q) >= i
        BY <4>2, <4>3, <4>4
      <4> HIDE DEF Stuck
      <4> QED
        BY <3>1, <3>2, <3>3, <4>5 DEF R, Q
    <3> QED
      BY <3>4, <3>5
  <2> HIDE DEF T
  <2> QED
    BY <1>3, <2>1, <2>2, FiniteInduction
<1>6. n \in 0..n /\ n \in T
  BY <1>3, <1>5
<1>7. c[n] \in SUBSET Nodes /\ S \subseteq c[n] /\ (Stuck(c[n]) \/ Cardinality(c[n]) >= n)
  BY <1>2, <1>6
<1>8. Stuck(c[n])
  <2>1. CASE Cardinality(c[n]) >= n
    <3>1. c[n] = Nodes
      BY <1>3, <1>4, <1>7, <2>1
    <3> QED
      BY <3>1 DEF Nexts
  <2> QED
    BY <1>7, <2>1
<1> QED
  BY <1>2, <1>7, <1>8

-----------------------------------------------------------------------------
(***************************************************************************)
(* What make0() has decided.                                               *)
(***************************************************************************)
LEMMA LinksTyped ==
  ASSUME g \in Graphs
  PROVE  /\ \A n \in Nodes : /\ Deps(n) = Sources(g, n) /\ Deps(n) \in SUBSET Nodes
                             /\ Heeded(n) \subseteq Deps(n) /\ Known(n) \subseteq Heeded(n)
         /\ [n \in Nodes |-> Deps(n)] \in Nexts
         /\ [n \in Nodes |-> Known(n)] \in Nexts
<1>1. \A n \in Nodes : Deps(n) = Sources(g, n) /\ Deps(n) \in SUBSET Nodes
  BY GraphFields, SetOfList DEF Deps, Sources
<1>2. \A n \in Nodes : Heeded(n) \subseteq Deps(n)
  BY DEF Heeded
<1>3. \A n \in Nodes : Known(n) \subseteq Heeded(n)
  BY DEF Known
<1>4. [n \in Nodes |-> Deps(n)] \in Nexts
  <2> HIDE DEF Deps
  <2> QED
    BY <1>1 DEF Nexts
<1>5. [n \in Nodes |-> Known(n)] \in Nexts
  BY <1>1, <1>2, <1>3 DEF Nexts
<1> QED
  BY <1>1, <1>2, <1>3, <1>4, <1>5

LEMMA AllOfIs ==
  ASSUME g \in Graphs, NEW S \in SUBSET Nodes
  PROVE  /\ S \subseteq AllOf(S) /\ AllOf(S) \in SUBSET Nodes
         /\ \A m \in AllOf(S) : Deps(m) \subseteq AllOf(S)
         /\ \A T \in SUBSET Nodes : S \subseteq T /\ (\A m \in T : Deps(m) \subseteq T) => AllOf(S) \subseteq T
<1> DEFINE next == [n \in Nodes |-> Deps(n)]
<1>1. next \in Nexts /\ \A m \in Nodes : next[m] = Deps(m)
  BY LinksTyped
<1>2. AllOf(S) = Closure(S, next)
  BY DEF AllOf
<1> HIDE DEF next
<1>3. /\ S \subseteq AllOf(S) /\ AllOf(S) \in SUBSET Nodes
      /\ \A m \in AllOf(S) : next[m] \subseteq AllOf(S)
  BY <1>1, <1>2, ClosureIs
<1>4. ASSUME NEW T \in SUBSET Nodes, S \subseteq T, \A m \in T : Deps(m) \subseteq T
      PROVE  AllOf(S) \subseteq T
  <2>1. \A m \in T \cap Nodes : next[m] \subseteq T
    BY <1>1, <1>4
  <2> QED
    BY <1>1, <1>2, <1>4, <2>1, ClosureLeast
<1> QED
  BY <1>1, <1>3, <1>4

LEMMA DoneNext ==
  ASSUME Over(g), NEW n \in Nodes, Done(g, n)
  PROVE  /\ Deps(n) \in SUBSET Nodes
         /\ \A d \in Deps(n) : /\ Done(g, d)
                               /\ g.includes[d] # NoTarget => g.includes[d] \in Deps(n)
<1>1. g \in Graphs /\ OfVisit(g, n) /\ \A x \in Nodes : ~Making(g, x)
  BY DEF Over, Sound, Whole
<1>2. Deps(n) = Sources(g, n) /\ Deps(n) \in SUBSET Nodes
  BY <1>1, LinksTyped
<1>3. ASSUME NEW d \in Deps(n) PROVE Done(g, d)
  <2>1. g.fate[d] # T_FATE_INIT
    BY <1>1, <1>2, NodesOfFiles DEF OfVisit
  <2>2. d \in Nodes /\ g.fate[d] \in Fates /\ ~Making(g, d)
    BY <1>1, <1>2, GraphFields
  <2> QED
    BY <2>1, <2>2, FateNumbers DEF Done, Making
<1> QED
  BY <1>1, <1>2, <1>3 DEF OfVisit

LEMMA VisitedDone ==
  ASSUME Over(g)
  PROVE  Visited \in SUBSET Nodes /\ \A n \in Visited : Done(g, n)
<1> DEFINE T == {x \in Nodes : Done(g, x)}
           S == ToSet(Asked)
<1>1. g \in Graphs
  BY DEF Over, Sound
<1>2. S \in SUBSET Nodes /\ S \subseteq T
  <2>1. S \in SUBSET Files
    BY CallsAssumption, SetOfList
  <2> QED
    BY <2>1, NodesOfFiles DEF Over
<1>3. \A m \in T : Deps(m) \subseteq T
  BY DoneNext
<1>4. T \in SUBSET Nodes
  OBVIOUS
<1>5. Visited = AllOf(S)
  BY DEF Visited
<1> HIDE DEF T, S
<1>6. AllOf(S) \subseteq T /\ AllOf(S) \in SUBSET Nodes
  BY <1>1, <1>2, <1>3, <1>4, AllOfIs
<1> QED
  BY <1>5, <1>6 DEF T

LEMMA AllDepsDone ==
  ASSUME Over(g), NEW n \in Nodes, Done(g, n)
  PROVE  /\ Deps(n) \subseteq AllDeps(n) /\ AllDeps(n) \in SUBSET Nodes
         /\ \A m \in AllDeps(n) : /\ Done(g, m) /\ Deps(m) \subseteq AllDeps(n)
                                  /\ g.includes[m] # NoTarget => g.includes[m] \in AllDeps(n)
<1> DEFINE A == AllDeps(n)
           T == {x \in A : Done(g, x) /\ (g.includes[x] # NoTarget => g.includes[x] \in A)}
<1>1. g \in Graphs
  BY DEF Over, Sound
<1>2. A = AllOf(Deps(n))
  BY DEF AllDeps
<1>3. Deps(n) \in SUBSET Nodes
  BY DoneNext
<1> HIDE DEF A
<1>4. Deps(n) \subseteq A /\ A \in SUBSET Nodes /\ \A m \in A : Deps(m) \subseteq A
  BY <1>1, <1>2, <1>3, AllOfIs
<1>5. Deps(n) \subseteq T
  BY <1>4, DoneNext
<1>6. ASSUME NEW m \in T PROVE Deps(m) \subseteq T
  <2>1. m \in Nodes /\ m \in A /\ Done(g, m) /\ Deps(m) \subseteq A
    BY <1>4
  <2> QED
    BY <2>1, DoneNext
<1>7. T \in SUBSET Nodes
  BY <1>4
<1> HIDE DEF T
<1>8. A \subseteq T
  BY <1>1, <1>2, <1>3, <1>5, <1>6, <1>7, AllOfIs
<1> QED
  BY <1>4, <1>8 DEF T, A

\* A target that does not depend on itself knew the fate of all it depends on.
LEMMA DependsKnown ==
  ASSUME Over(g), NEW n \in Nodes, Done(g, n), n \notin AllDeps(n)
  PROVE  OfDepends(g, n) /\ LeafOfDepends(g, n)
<1> DEFINE A == AllDeps(n)
<1>1. g \in Graphs /\ Whole(g, n) /\ CausedAt(g, n)
  BY DEF Over, Sound
<1>2. /\ Deps(n) \subseteq A /\ A \in SUBSET Nodes /\ n \notin A
      /\ \A m \in A : Deps(m) \subseteq A /\ (g.includes[m] # NoTarget => g.includes[m] \in A)
  BY AllDepsDone
<1> HIDE DEF A
<1>3. Closed(g, A)
  BY <1>1, <1>2, LinksTyped DEF Closed
<1>4. ~OnCycle(g, n)
  BY <1>1, <1>2, <1>3, LinksTyped DEF OnCycle, Leads
<1> QED
  BY <1>1, <1>4 DEF Whole, CausedAt

LEMMA FatesDecidedIs ==
  ASSUME IInv
  PROVE  FatesDecided
BY VisitedDone DEF IInv, FatesDecided, Done

LEMMA JointTargetsIs ==
  ASSUME IInv
  PROVE  JointTargets
<1> SUFFICES ASSUME Over(g),
                    NEW t \in Visited, NEW d \in Files, d \in Deps(t),
                    NEW a \in ToSet(g.actions[d]), NEW x \in ToSet(ActionTargets[a])
             PROVE  x \in AllDeps(t)
  BY DEF IInv, JointTargets
<1> DEFINE A == AllDeps(t)
           ts == ActionTargets[a]
<1>1. g \in Graphs /\ Joined(g) /\ t \in Nodes /\ Done(g, t)
  BY VisitedDone DEF Over, Sound
<1>2. /\ d \in A /\ \A m \in A : /\ m \in Nodes /\ Sources(g, m) \subseteq A
                                 /\ g.includes[m] # NoTarget => g.includes[m] \in A
  BY <1>1, AllDepsDone, LinksTyped
<1>3. a \in DOMAIN ActionTargets
  <2>1. g.actions[d] \in Seq(DOMAIN ActionTargets)
    BY <1>1, GraphFields, NodesOfFiles
  <2> QED
    BY <2>1, SetOfList
<1>4. ts \in Seq(Files)
  BY <1>3, DepGraphAssumption
<1>5. d \in ToSet(ts) /\ \A i \in 2..Len(ts) : Paired(g, ts[1], ts[i])
  BY <1>1, <1>3, NodesOfFiles DEF Joined
<1> HIDE DEF A, ts
<1>6. /\ \E i \in 1..Len(ts) : ts[i] = d
      /\ \E i \in 1..Len(ts) : ts[i] = x
  BY <1>4, <1>5, SetOfList DEF ts
<1>7. \A i \in 1..Len(ts) : ts[i] \in Files /\ IncludeNode[ts[i]] # NoTarget
  BY <1>4, NodesOfFiles
<1>8. ts[1] \in A
  <2>1. PICK i \in 1..Len(ts) : ts[i] = d
    BY <1>6
  <2>2. CASE i = 1
    BY <1>2, <2>1, <2>2
  <2>3. CASE i # 1
    <3>1. i \in 2..Len(ts)
      BY <1>4, <2>3
    <3>2. g.includes[d] = IncludeNode[d] /\ ts[1] \in Sources(g, IncludeNode[d])
      BY <1>5, <2>1, <3>1 DEF Paired
    <3>3. IncludeNode[d] \in A
      BY <1>2, <1>7, <2>1, <3>2
    <3> QED
      BY <1>2, <3>2, <3>3
  <2> QED
    BY <2>2, <2>3
<1>9. PICK i \in 1..Len(ts) : ts[i] = x
  BY <1>6
<1>10. CASE i = 1
  BY <1>8, <1>9, <1>10 DEF A
<1>11. CASE i # 1
  <2>1. i \in 2..Len(ts) /\ 1 \in 1..Len(ts)
    BY <1>4, <1>11
  <2>2. g.includes[ts[1]] = IncludeNode[ts[1]] /\ x \in Sources(g, IncludeNode[ts[1]])
    BY <1>5, <1>9, <2>1 DEF Paired
  <2>3. IncludeNode[ts[1]] \in A
    BY <1>2, <1>7, <1>8, <2>1, <2>2
  <2> QED
    BY <1>2, <2>2, <2>3 DEF A
<1> QED
  BY <1>10, <1>11

LEMMA BrokenSpreadsIs ==
  ASSUME IInv
  PROVE  BrokenSpreads
<1> SUFFICES ASSUME Over(g)
             PROVE  /\ \A t \in Visited : (\E d \in Known(t) : Broken(d)) => g.fate[t] = T_FATE_CANTMAKE
                    /\ (\E t \in Visited : Broken(t)) => g.cantfind > 0
  BY DEF IInv, BrokenSpreads
<1>1. g \in Graphs
  BY DEF Over, Sound
<1>2. ASSUME NEW t \in Visited
      PROVE  t \in Nodes /\ Done(g, t) /\ OfItself(g, t)
  BY VisitedDone DEF Over, Sound, Whole
<1>3. ASSUME NEW t \in Visited, NEW d \in Known(t), Broken(d)
      PROVE  g.fate[t] = T_FATE_CANTMAKE
  <2>1. t \notin AllDeps(t) /\ d \in Heeded(t)
    BY <1>3 DEF Known
  <2>2. OfDepends(g, t)
    BY <1>2, <2>1, DependsKnown
  <2>3. Heeds(g, t) /\ d \in Sources(g, t)
    BY <1>1, <1>2, <2>1, LinksTyped DEF Heeded, Heeds, Flags
  <2> QED
    BY <1>3, <2>2, <2>3 DEF OfDepends, Broken
<1>4. ASSUME NEW t \in Visited, Broken(t) PROVE g.cantfind > 0
  BY <1>2, <1>4 DEF OfItself, Broken
<1> QED
  BY <1>3, <1>4

\* As stable as a target that is not made, and not newer than its file.
Calm(t) == {x \in Nodes : /\ Done(g, x) /\ g.fate[x] < T_FATE_SPOIL
                          /\ OnDisk(t) => g.time[x] <= g.disk[t]}

LEMMA CalmBelow ==
  ASSUME Over(g), NEW t \in Nodes, Done(g, t), g.fate[t] < T_FATE_BUILD
  PROVE  AllKnown(t) \subseteq Calm(t)
<1> DEFINE next == [n \in Nodes |-> Known(n)]
<1>1. g \in Graphs
  BY DEF Over, Sound
<1>2. next \in Nexts /\ \A m \in Nodes : next[m] = Known(m)
  BY <1>1, LinksTyped
<1>3. AllKnown(t) = Closure(Known(t), next)
  BY DEF AllKnown
<1> HIDE DEF next
<1>4. ASSUME NEW m \in Nodes, Done(g, m), NEW x \in Known(m)
      PROVE  /\ x \in Nodes /\ g.fate[x] \in Fates /\ g.time[x] \in Nat /\ Done(g, x)
             /\ g.fate[x] >= T_FATE_SPOIL => g.fate[m] >= T_FATE_UPDATE
             /\ g.time[x] <= g.time[m]
             /\ OnDisk(m) /\ g.disk[m] < g.time[x] => g.fate[m] >= T_FATE_BUILD
  <2>1. m \notin AllDeps(m) /\ x \in Heeded(m)
    BY <1>4 DEF Known
  <2>2. OfDepends(g, m)
    BY <1>4, <2>1, DependsKnown
  <2>3. Heeds(g, m) /\ x \in Sources(g, m) /\ x \in Nodes
    BY <1>1, <2>1, LinksTyped DEF Heeded, Heeds, Flags
  <2>4. OnDisk(m) => IsFile(g, m) /\ g.disk[m] # 0
    BY DEF OnDisk, IsFile, Flags
  <2>5. g.fate[x] \in Fates /\ g.time[x] \in Nat
    BY <1>1, <2>3, GraphFields
  <2> QED
    BY <2>2, <2>3, <2>4, <2>5 DEF OfDepends
<1>5. OnDisk(t) => g.disk[t] \in Nat
  BY <1>1, GraphFields DEF OnDisk
<1>6. Known(t) \subseteq Calm(t)
  <2> SUFFICES ASSUME NEW x \in Known(t) PROVE x \in Calm(t)
    OBVIOUS
  <2>1. /\ x \in Nodes /\ g.fate[x] \in Fates /\ g.time[x] \in Nat /\ Done(g, x)
        /\ g.fate[x] >= T_FATE_SPOIL => g.fate[t] >= T_FATE_UPDATE
        /\ OnDisk(t) /\ g.disk[t] < g.time[x] => g.fate[t] >= T_FATE_BUILD
    BY <1>4
  <2>2. g.fate[t] \in Fates
    BY <1>1, GraphFields
  <2>3. g.fate[x] < T_FATE_SPOIL
    BY <2>1, <2>2, FateNumbers
  <2>4. OnDisk(t) => g.time[x] <= g.disk[t]
    BY <1>5, <2>1, <2>2, FateNumbers
  <2> QED
    BY <2>1, <2>3, <2>4 DEF Calm
<1>7. ASSUME NEW m \in Calm(t) \cap Nodes PROVE next[m] \subseteq Calm(t)
  <2> SUFFICES ASSUME NEW x \in Known(m) PROVE x \in Calm(t)
    BY <1>2
  <2>1. m \in Nodes /\ Done(g, m) /\ g.fate[m] < T_FATE_SPOIL /\ (OnDisk(t) => g.time[m] <= g.disk[t])
    BY DEF Calm
  <2>2. /\ x \in Nodes /\ g.fate[x] \in Fates /\ g.time[x] \in Nat /\ Done(g, x)
        /\ g.fate[x] >= T_FATE_SPOIL => g.fate[m] >= T_FATE_UPDATE
        /\ g.time[x] <= g.time[m]
    BY <1>4, <2>1
  <2>3. g.fate[m] \in Fates /\ g.time[m] \in Nat
    BY <1>1, <2>1, GraphFields
  <2>4. g.fate[x] < T_FATE_SPOIL
    BY <2>1, <2>2, <2>3, FateNumbers
  <2>5. OnDisk(t) => g.time[x] <= g.disk[t]
    BY <1>5, <2>1, <2>2, <2>3
  <2> QED
    BY <2>2, <2>4, <2>5 DEF Calm
<1>8. Known(t) \in SUBSET Nodes
  BY <1>6 DEF Calm
<1> QED
  BY <1>2, <1>3, <1>6, <1>7, <1>8, ClosureLeast

LEMMA UpdatedWhenNeededIs ==
  ASSUME IInv
  PROVE  UpdatedWhenNeeded
<1> SUFFICES ASSUME Over(g), NEW t \in Visited \cap Files, ~Broken(t),
                    \/ Missing(t) /\ Flags(t) \cap {"TEMP", "NOCARE"} = {}
                    \/ "TOUCHED" \in Flags(t) /\ ~(Missing(t) /\ "NOCARE" \in Flags(t))
                    \/ \E d \in AllKnown(t) : \/ Older(t, d) /\ "NOUPDATE" \notin Flags(d)
                                              \/ ToBuild(d)
             PROVE  ToBuild(t)
  BY DEF IInv, UpdatedWhenNeeded
<1>1. g \in Graphs /\ t \in Nodes /\ t \in Files /\ Done(g, t) /\ OfItself(g, t)
  BY VisitedDone, NodesOfFiles DEF Over, Sound, Whole
<1>2. g.fate[t] \in Fates /\ (ToBuild(t) <=> g.fate[t] >= T_FATE_BUILD)
  BY <1>1, GraphFields, FateNumbers DEF ToBuild, Broken
<1>3. CASE Missing(t) /\ Flags(t) \cap {"TEMP", "NOCARE"} = {}
  BY <1>1, <1>2, <1>3 DEF OfItself, Missing, IsFile, Flags
<1>4. CASE "TOUCHED" \in Flags(t) /\ ~(Missing(t) /\ "NOCARE" \in Flags(t))
  BY <1>1, <1>2, <1>4 DEF OfItself, Missing, IsFile, Flags
<1>5. ASSUME NEW d \in AllKnown(t), (Older(t, d) /\ "NOUPDATE" \notin Flags(d)) \/ ToBuild(d), ~ToBuild(t)
      PROVE  FALSE
  <2>1. g.fate[t] < T_FATE_BUILD
    BY <1>2, <1>5, FateNumbers
  <2>2. d \in Nodes /\ Done(g, d) /\ g.fate[d] < T_FATE_SPOIL /\ (OnDisk(t) => g.time[d] <= g.disk[t])
    BY <1>1, <1>5, <2>1, CalmBelow DEF Calm
  <2>3. OfItself(g, d)
    BY <2>2 DEF Over, Sound, Whole
  <2>4. g.fate[d] \in Fates /\ g.time[d] \in Nat
    BY <1>1, <2>2, GraphFields
  <2>5. CASE ToBuild(d)
    BY <2>2, <2>4, <2>5, FateNumbers DEF ToBuild
  <2>6. CASE Older(t, d) /\ "NOUPDATE" \notin Flags(d)
    <3>1. OnDisk(t) /\ OnDisk(d) /\ g.disk[t] < g.disk[d]
      BY <2>6 DEF Older
    <3>2. g.disk[t] \in Nat /\ g.disk[d] \in Nat
      BY <1>1, <3>1, GraphFields DEF OnDisk
    <3>3. g.time[d] >= g.disk[d]
      BY <2>3, <2>6, <3>1 DEF OfItself, OnDisk, IsFile, Flags
    <3> QED
      BY <2>2, <2>4, <3>1, <3>2, <3>3
  <2> QED
    BY <1>5, <2>5, <2>6
<1> QED
  BY <1>3, <1>4, <1>5

LEMMA PathIn ==
  ASSUME NEW next \in Nexts, NEW a \in Nodes, NEW b, Path(next, a, b)
  PROVE  b = a \/ b \in Closure(next[a], next)
<1> DEFINE C == Closure(next[a], next)
           T == {a} \cup C
<1>1. next[a] \in SUBSET Nodes
  BY DEF Nexts
<1>2. next[a] \subseteq C /\ C \in SUBSET Nodes /\ \A m \in C : next[m] \subseteq C
  BY <1>1, ClosureIs
<1> HIDE DEF C
<1>3. T \in SUBSET Nodes /\ a \in T /\ \A m \in T : next[m] \subseteq T
  BY <1>2
<1>4. b \in T
  BY <1>3 DEF Path
<1> QED
  BY <1>4 DEF C

LEMMA PathsIn ==
  ASSUME g \in Graphs, NEW a \in Nodes, NEW b
  PROVE  /\ Path(All(g), a, b) => b = a \/ b \in AllDeps(a)
         /\ Path(Minded(g), a, b) => Path(All(g), a, b) /\ (b = a \/ b \in AllHeeded(a))
<1>1. \A n \in Nodes : /\ Deps(n) = Sources(g, n) /\ Deps(n) \in SUBSET Nodes
                       /\ Heeded(n) = IF Heeds(g, n) THEN Sources(g, n) ELSE {}
  BY LinksTyped DEF Heeded, Heeds, Flags
<1>2. All(g) = [n \in Nodes |-> Deps(n)] /\ Minded(g) = [m \in Nodes |-> Heeded(m)]
  <2> HIDE DEF Deps, Heeded
  <2> QED
    BY <1>1 DEF All, Minded
<1>3. All(g) \in Nexts /\ Minded(g) \in Nexts
  BY <1>1 DEF All, Minded, Nexts
<1>4. All(g)[a] = Deps(a) /\ Minded(g)[a] = Heeded(a)
  BY <1>1 DEF All, Minded
<1>5. AllDeps(a) = Closure(All(g)[a], All(g)) /\ AllHeeded(a) = Closure(Minded(g)[a], Minded(g))
  BY <1>2, <1>4 DEF AllDeps, AllOf, AllHeeded
<1>6. \A x \in Nodes : Minded(g)[x] \subseteq All(g)[x]
  BY DEF All, Minded
<1> QED
  BY <1>3, <1>5, <1>6, PathIn, PathMore

\* A target nothing below which has a leaf is one itself.
LEMMA LeafIs ==
  ASSUME Over(g), NEW e \in Nodes, Done(g, e), ~Cyclic(e),
         NEW y \in AllDeps(e), \A d \in Deps(y) : g.leaf[d] = 0
  PROVE  Leaf(y)
<1> DEFINE A == AllDeps(e)
           T == {x \in A : g.leaf[x] = 0}
<1>1. g \in Graphs
  BY DEF Over, Sound
<1>2. A \in SUBSET Nodes /\ \A m \in A : Done(g, m) /\ Deps(m) \subseteq A /\ m \notin AllDeps(m)
  BY AllDepsDone DEF Cyclic
<1>3. \A m \in A : Deps(m) = Sources(g, m)
  BY <1>1, <1>2, LinksTyped
<1>4. y \in A
  OBVIOUS
<1> HIDE DEF A
<1>5. ASSUME NEW m \in T PROVE Deps(m) \subseteq T
  <2>1. LeafOfDepends(g, m)
    BY <1>2, DependsKnown
  <2> QED
    BY <1>2, <1>3, <2>1 DEF LeafOfDepends
<1>6. Deps(y) \subseteq T /\ T \in SUBSET Nodes /\ Deps(y) \in SUBSET Nodes
  BY <1>2, <1>4
<1> HIDE DEF T
<1>7. AllDeps(y) \subseteq T
  BY <1>1, <1>5, <1>6, AllOfIs DEF AllDeps
<1>8. ASSUME NEW d \in AllDeps(y), OnDisk(d) PROVE "NOUPDATE" \in Flags(d)
  <2>1. d \in Nodes /\ Done(g, d) /\ g.leaf[d] = 0
    BY <1>2, <1>7 DEF T
  <2>2. CausedAt(g, d) /\ OfItself(g, d)
    BY <2>1 DEF Over, Sound, Whole
  <2>3. g.time[d] = 0
    BY <2>1, <2>2 DEF CausedAt
  <2>4. d \in Files /\ g.disk[d] \in Nat /\ g.disk[d] # 0
    BY <1>1, <1>8, GraphFields DEF OnDisk
  <2> QED
    BY <1>8, <2>2, <2>3, <2>4 DEF OfItself, OnDisk, IsFile, Flags
<1> QED
  BY <1>8 DEF Leaf

\* Where no file includes itself, the newest leaf is a leaf.
LEMMA LeafFound ==
  ASSUME Over(g), NEW e \in Nodes, Done(g, e), ~Cyclic(e), NEW c \in Deps(e), g.leaf[c] # 0
  PROVE  \E y \in AllDeps(e) : OnDisk(y) /\ g.disk[y] = g.leaf[c] /\ Leaf(y)
<1> DEFINE A == AllDeps(e)
           v == g.leaf[c]
           size(y) == Cardinality(AllDeps(y))
           n == Cardinality(Nodes)
           Found == \E y \in A : OnDisk(y) /\ g.disk[y] = v /\ Leaf(y)
<1>1. g \in Graphs
  BY DEF Over, Sound
<1>2. /\ A \in SUBSET Nodes /\ c \in A
      /\ \A m \in A : Done(g, m) /\ Deps(m) \subseteq A /\ m \notin AllDeps(m)
  BY AllDepsDone DEF Cyclic
<1>3. v # 0
  OBVIOUS
<1>4. ASSUME NEW y \in A
      PROVE  AllDeps(y) \in SUBSET Nodes /\ Deps(y) = Sources(g, y) /\ LeafOfDepends(g, y) /\ CausedAt(g, y)
  <2>1. y \in Nodes /\ Done(g, y) /\ y \notin AllDeps(y)
    BY <1>2
  <2> QED
    BY <1>1, <2>1, AllDepsDone, DependsKnown, LinksTyped DEF Over, Sound
<1>5. ASSUME NEW y \in A, g.leaf[y] = v, \A d \in Deps(y) : g.leaf[d] # v
      PROVE  Found
  <2>1. g.leaf[y] = g.time[y] /\ \A d \in Deps(y) : g.leaf[d] = 0
    BY <1>3, <1>4, <1>5 DEF LeafOfDepends
  <2>2. Leaf(y)
    BY <2>1, LeafIs
  <2>3. \A d \in Deps(y) : g.time[d] = 0
    <3> SUFFICES ASSUME NEW d \in Deps(y) PROVE g.time[d] = 0
      OBVIOUS
    <3>1. d \in A /\ Done(g, d)
      BY <1>2
    <3> QED
      BY <1>4, <2>1, <3>1 DEF CausedAt
  <2>4. OnFile(g, y) /\ g.disk[y] = v
    BY <1>3, <1>4, <1>5, <2>1, <2>3 DEF LeafOfDepends
  <2> QED
    BY <2>2, <2>4 DEF OnFile, IsFile, OnDisk, Flags
<1> HIDE DEF A, v, Found
<1>6. n \in Nat /\ IsFiniteSet(Nodes)
  BY NodesFinite
<1>7. \A y \in A : IsFiniteSet(AllDeps(y)) /\ size(y) \in Nat /\ size(y) <= n
  BY <1>4, <1>6, FS_Subset, FS_CardinalityType
\* The sources of a target have less below them.
<1>8. ASSUME NEW y \in A, NEW d \in Deps(y) PROVE d \in A /\ size(d) + 1 <= size(y)
  <2> DEFINE D == AllDeps(d)
             Y == AllDeps(y)
             R == Y \ {d}
  <2>1. d \in A /\ d \in Nodes /\ y \in Nodes /\ Done(g, y) /\ d \notin D /\ Done(g, d)
    BY <1>2
  <2>2. Deps(y) \subseteq Y /\ Y \in SUBSET Nodes /\ \A m \in Y : Deps(m) \subseteq Y
    BY <2>1, AllDepsDone
  <2>3. D \subseteq Y
    <3>1. Deps(d) \subseteq Y /\ Deps(d) \in SUBSET Nodes
      BY <2>2
    <3> HIDE DEF Y
    <3> QED
      BY <1>1, <2>2, <3>1, AllOfIs DEF AllDeps
  <2>4. d \in Y /\ IsFiniteSet(Y) /\ Cardinality(Y) \in Nat /\ Cardinality(D) \in Nat
    BY <1>7, <2>1, <2>2
  <2> HIDE DEF D, Y
  <2>5. IsFiniteSet(R) /\ Cardinality(R) = Cardinality(Y) - 1
    BY <2>4, FS_RemoveElement
  <2>6. D \subseteq R
    BY <2>1, <2>3
  <2> HIDE DEF R
  <2>7. Cardinality(D) <= Cardinality(R)
    BY <2>5, <2>6, FS_Subset
  <2> QED
    BY <2>1, <2>4, <2>5, <2>7 DEF D, Y
<1> HIDE DEF size, n
<1> DEFINE S == {i \in 0..n : \A y \in A : g.leaf[y] = v /\ size(y) <= i => Found}
<1>9. \A i \in 0..n : i \in S
  <2>1. 0 \in S
    <3>1. ASSUME NEW y \in A, g.leaf[y] = v, size(y) <= 0 PROVE Found
      <4>1. \A d \in Deps(y) : FALSE
        BY <1>7, <1>8, <3>1
      <4> QED
        BY <1>5, <3>1, <4>1
    <3> QED
      BY <1>6, <3>1
  <2>2. ASSUME NEW i \in 1..n, i - 1 \in S PROVE i \in S
    <3>1. ASSUME NEW y \in A, g.leaf[y] = v, size(y) <= i PROVE Found
      <4>1. ASSUME NEW d \in Deps(y), g.leaf[d] = v PROVE Found
        <5>1. d \in A /\ size(d) <= i - 1
          BY <1>6, <1>7, <1>8, <3>1
        <5> QED
          BY <2>2, <4>1, <5>1
      <4> QED
        BY <1>5, <3>1, <4>1
    <3> QED
      BY <1>6, <3>1
  <2> HIDE DEF S
  <2> QED
    BY <1>6, <2>1, <2>2, FiniteInduction
<1>10. Found
  <2>1. n \in S
    BY <1>6, <1>9
  <2> QED
    BY <1>2, <1>7, <2>1 DEF v
<1> QED
  BY <1>10 DEF Found, A, v

\* What make0() saw as a reason is one.
LEMMA CauseIsReason ==
  ASSUME Over(g), NEW e \in Nodes, Done(g, e), Cause(g, e)
  PROVE  Reason(e)
<1>1. g \in Graphs /\ Deps(e) = Sources(g, e) /\ Deps(e) \in SUBSET Nodes
  BY LinksTyped DEF Over, Sound
<1>2. \A x : /\ OnFile(g, x) <=> OnDisk(x)
             /\ IsFile(g, x) /\ g.disk[x] = 0 <=> Missing(x)
  BY DEF OnFile, IsFile, OnDisk, Missing, Flags
<1>3. \A x : OnDisk(x) => g.disk[x] \in Nat
  BY <1>1, GraphFields DEF OnDisk
<1>4. CASE "TOUCHED" \in g.flags[e] \/ (Anyhow /\ "NOUPDATE" \notin g.flags[e])
  BY <1>4 DEF Reason, Flags
<1>5. CASE "TEMP" \in g.flags[e] /\ OnFile(g, e)
  BY <1>2, <1>5 DEF Reason, Flags
<1>6. CASE IsFile(g, e) /\ g.disk[e] = 0 /\ ("TEMP" \in g.flags[e] => Shown(g, e))
  <2>1. ASSUME Shown(g, e), e \notin ToSet(Asked) PROVE Needed(e)
    <3>1. PICK n \in Nodes : /\ e \in Sources(g, n) /\ g.fate[n] # T_FATE_INIT
                             /\ \/ ~OnFile(g, n)
                                \/ \E s \in Feeds(g, e), d \in Nodes :
                                     Path(All(g), s, d) /\ OnFile(g, d) /\ g.disk[n] < g.disk[d]
      BY <2>1 DEF Shown
    <3>2. e \in Deps(n)
      BY <1>1, <3>1, LinksTyped
    <3>3. CASE ~OnFile(g, n)
      BY <1>2, <3>1, <3>2, <3>3 DEF Needed
    <3>4. CASE OnFile(g, n)
      <4>1. PICK s \in Feeds(g, e), d \in Nodes : Path(All(g), s, d) /\ OnFile(g, d) /\ g.disk[n] < g.disk[d]
        BY <3>1, <3>4
      <4> DEFINE F == Deps(e) \cup Incs(e)
      <4>2. F \in SUBSET Nodes /\ s \in F
        <5>1. g.includes[e] \in Nodes \cup {NoTarget}
          BY <1>1, GraphFields
        <5> QED
          BY <1>1, <5>1 DEF Feeds, Incs
      <4> HIDE DEF F
      <4>3. F \subseteq AllOf(F) /\ AllOf(F) \in SUBSET Nodes /\ \A m \in AllOf(F) : Deps(m) \subseteq AllOf(F)
        BY <1>1, <4>2, AllOfIs
      <4>4. \A m \in AllOf(F) : All(g)[m] \subseteq AllOf(F)
        BY <1>1, <4>3, LinksTyped DEF All
      <4>5. d \in AllOf(F)
        BY <4>1, <4>2, <4>3, <4>4 DEF Path
      <4>6. Older(n, d)
        BY <1>2, <3>4, <4>1 DEF Older
      <4> QED
        BY <3>1, <3>2, <4>5, <4>6 DEF Needed, F
    <3> QED
      BY <3>3, <3>4
  <2>2. Shown(g, e) => Needed(e)
    BY <2>1 DEF Needed
  <2> QED
    BY <1>2, <1>6, <2>2 DEF Reason, Flags
<1>7. CASE /\ "NOUPDATE" \notin g.flags[e] /\ OnFile(g, e)
           /\ IF "LEAVES" \in g.flags[e]
              THEN \E c \in Sources(g, e) : Done(g, c) /\ g.leaf[c] > g.disk[e]
              ELSE \E d \in Nodes : Path(All(g), e, d) /\ OnFile(g, d) /\ g.disk[d] > g.disk[e]
  <2>0. OnDisk(e) /\ g.disk[e] \in Nat
    BY <1>2, <1>3, <1>7
  <2>1. ASSUME NEW d \in Nodes, Path(All(g), e, d), OnFile(g, d), g.disk[d] > g.disk[e]
        PROVE  d \in AllDeps(e) /\ Older(e, d)
    <3>1. OnDisk(d) /\ g.disk[d] \in Nat
      BY <1>2, <1>3, <2>1
    <3>2. Older(e, d) /\ d # e
      BY <2>0, <2>1, <3>1 DEF Older
    <3> QED
      BY <1>1, <2>1, <3>2, PathsIn
  <2>2. CASE "LEAVES" \notin g.flags[e]
    BY <1>7, <2>1, <2>2 DEF Reason, Flags
  <2>3. CASE "LEAVES" \in g.flags[e]
    <3>1. PICK c \in Sources(g, e) : Done(g, c) /\ g.leaf[c] > g.disk[e]
      BY <1>7, <2>3
    <3>2. c \in Deps(e) /\ c \in Nodes /\ g.leaf[c] \in Nat /\ g.leaf[c] # 0
      <4>1. c \in Deps(e) /\ c \in Nodes
        BY <1>1
      <4>2. g.leaf[c] \in Nat
        BY <1>1, <4>1, GraphFields
      <4> QED
        BY <2>0, <3>1, <4>1, <4>2
    <3>3. CASE Cyclic(e)
      <4>1. CausedAt(g, c)
        BY <3>2 DEF Over, Sound
      <4>2. PICK d \in Nodes : Path(All(g), c, d) /\ OnFile(g, d) /\ g.disk[d] = g.leaf[c]
        BY <3>2, <4>1 DEF CausedAt, Dated
      <4>3. c \in All(g)[e]
        BY DEF All
      <4>4. Path(All(g), e, d)
        BY <4>2, <4>3, PathFrom
      <4>5. d \in AllDeps(e) /\ Older(e, d)
        BY <2>1, <3>1, <4>2, <4>4
      <4> QED
        BY <1>7, <3>3, <4>5 DEF Reason, Flags
    <3>4. CASE ~Cyclic(e)
      <4>1. PICK y \in AllDeps(e) : OnDisk(y) /\ g.disk[y] = g.leaf[c] /\ Leaf(y)
        BY <3>2, <3>4, LeafFound
      <4>2. Older(e, y)
        BY <2>0, <3>1, <3>2, <4>1 DEF Older
      <4> QED
        BY <1>7, <4>1, <4>2 DEF Reason, Flags
    <3> QED
      BY <3>3, <3>4
  <2> QED
    BY <2>2, <2>3
<1> QED
  BY <1>4, <1>5, <1>6, <1>7 DEF Cause

LEMMA UpdatedOnlyForAReasonIs ==
  ASSUME IInv
  PROVE  UpdatedOnlyForAReason
<1> SUFFICES ASSUME Over(g), NEW t \in Visited, ToBuild(t)
             PROVE  \E d \in {t} \cup AllHeeded(t) : Reason(d)
  BY DEF IInv, UpdatedOnlyForAReason
<1>1. g \in Graphs /\ t \in Nodes /\ Done(g, t) /\ CausedAt(g, t)
  BY VisitedDone DEF Over, Sound
<1>2. g.fate[t] >= T_FATE_SPOIL /\ g.fate[t] < T_FATE_BROKEN
  <2>1. g.fate[t] \in Fates
    BY <1>1, GraphFields
  <2> QED
    BY <2>1, FateNumbers DEF ToBuild
<1>3. PICK e \in Nodes : Path(Minded(g), t, e) /\ Cause(g, e)
  BY <1>1, <1>2 DEF CausedAt
<1>4. e \in {t} \cup AllHeeded(t) /\ (e = t \/ e \in AllDeps(t))
  BY <1>1, <1>3, PathsIn
<1>5. Done(g, e)
  BY <1>1, <1>4, AllDepsDone
<1> QED
  BY <1>3, <1>4, <1>5, CauseIsReason

\* make1() finds a fate it knows for every target it reaches: none is left
\* undecided, whatever the graph, its cycles among them, unless rebuilds are
\* declared (a rebuilt target skips its own visit, see MCMake0_rebuilds).
THEOREM DecidedFates ==
  ASSUME NoRebuilds, OneAsked
  PROVE  Spec => []FatesDecided
<1>1. IInv => FatesDecided
  BY FatesDecidedIs
<1> QED
  BY <1>1, Invariant, PTL

\* In the graph that make0() leaves, all targets of a joint action can be reached
\* from whoever depends on one of them, through the includes that evaluate_rule()
\* gives them and step 3c adds: that make1() waits for them does not follow.
THEOREM TargetsJoined ==
  ASSUME NoRebuilds, OneAsked
  PROVE  Spec => []JointTargets
<1>1. IInv => JointTargets
  BY JointTargetsIs
<1> QED
  BY <1>1, Invariant, PTL

\* A target is updated that is missing or touched, or that is older than, or
\* depends on an update of, something it depends on, however indirectly.
THEOREM UpdatesMade ==
  ASSUME NoRebuilds, OneAsked
  PROVE  Spec => []UpdatedWhenNeeded
<1>1. IInv => UpdatedWhenNeeded
  BY UpdatedWhenNeededIs
<1> QED
  BY <1>1, Invariant, PTL

\* What cannot be found or made takes down those that depend on it, and is
\* counted for make()'s report.
THEOREM BreakageSpread ==
  ASSUME NoRebuilds, OneAsked
  PROVE  Spec => []BrokenSpreads
<1>1. IInv => BrokenSpreads
  BY BrokenSpreadsIs
<1> QED
  BY <1>1, Invariant, PTL

\* No target is updated that is neither missing, touched, temporary nor older
\* than what it is made from, nor depends on one that is: make0() rebuilds no
\* more than what the ages of the files ask for.
THEOREM OnlyForAReason ==
  ASSUME NoRebuilds, OneAsked
  PROVE  Spec => []UpdatedOnlyForAReason
<1>1. IInv => UpdatedOnlyForAReason
  BY UpdatedOnlyForAReasonIs
<1> QED
  BY <1>1, Invariant, PTL
=============================================================================
