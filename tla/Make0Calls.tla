------------------------------ MODULE Make0Calls ------------------------------
(***************************************************************************)
(* A Jamfile's rule calls, in any order, and then make() up to make1():    *)
(* what make0() must have decided of the graph they have built.            *)
(***************************************************************************)
EXTENDS Make0

CONSTANTS
  Calls,      \* the rule calls a Jamfile may make, in any order
  MaxCalls,   \* how many of them
  Base,       \* the calls every Jamfile makes first
  Disks,      \* the possible ages of the files
  Asked       \* the targets to make

\* A call, as in a Jamfile.
DependsOn(t, s)   == [rule |-> "DEPENDS",  t |-> t, s |-> s]
IncludesFile(t, s) == [rule |-> "INCLUDES", t |-> t, s |-> s]
RebuildsToo(t, s) == [rule |-> "REBUILDS", t |-> t, s |-> s]
Flagged(f, t)     == [rule |-> f, t |-> t, s |-> t]
Action(a)         == [rule |-> "ACTION",   t |-> a, s |-> a]

\* The flag rules, by the flag they set.
FlagRules == TargetFlags \ {"INTERNAL"}

RuleCalls ==
  [rule : {"DEPENDS", "INCLUDES", "REBUILDS"}, t : Files, s : Files]
    \cup [rule : {"ACTION"}, t : DOMAIN ActionTargets, s : DOMAIN ActionTargets]
    \cup [rule : FlagRules, t : Files, s : Files]

ASSUME CallsAssumption ==
  /\ Calls \subseteq RuleCalls
  /\ MaxCalls \in Nat
  /\ Base \in Seq(RuleCalls)
  /\ Disks \subseteq [Files -> Nat]
  /\ Asked \in Seq(Files)

Apply(h, c) ==
  CASE c.rule = "DEPENDS"  -> Depends(h, <<c.t>>, <<c.s>>)
    [] c.rule = "INCLUDES" -> Includes(h, <<c.t>>, <<c.s>>)
    [] c.rule = "REBUILDS" -> Rebuilds(h, <<c.t>>, <<c.s>>)
    [] c.rule = "ACTION"   -> CallRule(h, c.t)
    [] OTHER               -> SetFlag(h, <<c.t>>, c.rule)

VARIABLES g, calls, phase
vars == <<g, calls, phase>>

\* The graph after the calls of a sequence, in order.
AfterCalls(seq) ==
  LET after[i \in 0..Len(seq)] == IF i = 0 THEN EmptyGraph ELSE Apply(after[i - 1], seq[i])
  IN  after[Len(seq)]

Init == /\ g = AfterCalls(Base)
        /\ calls = 0
        /\ phase = "parse"

Call == /\ phase = "parse" /\ calls < MaxCalls
        /\ \E c \in Calls : g' = Apply(g, c)
        /\ calls' = calls + 1
        /\ phase' = phase

Make == /\ phase = "parse"
        /\ \E disk \in Disks : g' = Make0All(g, disk, Asked)
        /\ calls' = calls
        /\ phase' = "made"

Next == Call \/ Make
Spec == Init /\ [][Next]_vars

-----------------------------------------------------------------------------

Flags(n) == g.flags[n]
Deps(n)  == ToSet(g.depends[n])
\* The dependencies whose age and fate count for n.
Heeded(n) == IF Flags(n) \cap {"NOUPDATE", "LEAVES"} # {} THEN {} ELSE Deps(n)

\* What is reached from S by following `next': no path is longer than Nodes.
Closure(S, next) ==
  LET reach[k \in 0..Cardinality(Nodes)] ==
        IF k = 0 THEN S
        ELSE LET before == reach[k - 1] IN before \cup UNION {next[m] : m \in before}
  IN  reach[Cardinality(Nodes)]
AllOf(S)     == Closure(S, [n \in Nodes |-> Deps(n)])
\* What n depends on, directly or not, the includes of its sources among them.
AllDeps(n)   == AllOf(Deps(n))
AllHeeded(n) == Closure(Heeded(n), [m \in Nodes |-> Heeded(m)])
\* The same, not looked for behind headers that include each other.
Known(n)     == IF n \in AllDeps(n) THEN {} ELSE Heeded(n)
AllKnown(n)  == Closure(Known(n), [m \in Nodes |-> Known(m)])
Visited      == AllOf(ToSet(Asked))

OnDisk(n)     == n \in Files /\ "NOTFILE" \notin Flags(n) /\ g.disk[n] # 0
Missing(n)    == n \in Files /\ "NOTFILE" \notin Flags(n) /\ g.disk[n] = 0
Older(n, d)   == OnDisk(n) /\ OnDisk(d) /\ g.disk[n] < g.disk[d]
ToBuild(n)    == g.fate[n] >= T_FATE_BUILD /\ g.fate[n] < T_FATE_BROKEN
Broken(n)     == g.fate[n] >= T_FATE_BROKEN

(***************************************************************************)
(* make1() has a case for every fate: "All possible fates should have been *)
(* accounted for by now", so make0() must have decided one for each target *)
(* that make1() will reach.                                                *)
(***************************************************************************)
FatesDecided == phase = "made" => \A n \in Visited : g.fate[n] >= T_FATE_STABLE

(***************************************************************************)
(* "Normally, bjam updates a target if it is missing, if its filesystem    *)
(* modification time is older than any of its dependencies (recursively),  *)
(* or if any of its dependencies are being updated."  (Of files that       *)
(* include each other one is visited while the other's fate is still       *)
(* MAKING, and a later update of it goes unnoticed: those are left out.)   *)
(***************************************************************************)
UpdatedWhenNeeded ==
  phase = "made" =>
    \A t \in Visited \cap Files :
      /\ ~Broken(t)
      /\ \/ Missing(t) /\ Flags(t) \cap {"TEMP", "NOCARE"} = {}
         \/ "TOUCHED" \in Flags(t) /\ ~(Missing(t) /\ "NOCARE" \in Flags(t))
         \/ \E d \in AllKnown(t) : \/ Older(t, d) /\ "NOUPDATE" \notin Flags(d)
                                   \/ ToBuild(d)
      => ToBuild(t)

(***************************************************************************)
(* Nothing is updated without a reason: it, or something whose fate it     *)
(* takes over, was touched, or is a temporary file left behind             *)
(* (T_FATE_ISTMP spoils its dependants), or is missing (and, if temporary, *)
(* asked for, or a target made from it is missing or older than what it    *)
(* is made from), or is older than something it is made from (for LEAVES,  *)
(* a leaf, unless files below include each other), or is rebuilt because   *)
(* of a target that is: then so is all that depends on it, LEAVES or not.  *)
(***************************************************************************)
Incs(n)     == {g.includes[n]} \ {NoTarget}
Leaf(n)     == \A d \in AllDeps(n) : OnDisk(d) => "NOUPDATE" \in Flags(d)
Cyclic(n)   == \E d \in AllDeps(n) : d \in AllDeps(d)
Needed(t)   == \/ t \in ToSet(Asked)
               \/ \E n \in Nodes : /\ t \in Deps(n) /\ g.fate[n] # T_FATE_INIT
                                  /\ \/ ~OnDisk(n)
                                     \/ \E d \in AllOf(Deps(t) \cup Incs(t)) : Older(n, d)
\* What update_dependants() may take along when x is rebuilt, and x.
Taken(x)    == Closure({x}, [n \in Nodes |-> ToSet(g.dependants[n])])
Reason(t) ==
  \/ "TOUCHED" \in Flags(t) \/ (Anyhow /\ "NOUPDATE" \notin Flags(t))
  \/ "TEMP" \in Flags(t) /\ OnDisk(t)
  \/ Missing(t) /\ ("TEMP" \in Flags(t) => Needed(t))
  \/ "NOUPDATE" \notin Flags(t) /\
       \E d \in AllDeps(t) : Older(t, d) /\ ("LEAVES" \in Flags(t) => Leaf(d) \/ Cyclic(t))
  \/ \E r \in Visited : ToBuild(r) /\ \E x \in ToSet(g.rebuilds[r]) : t \in Taken(x)
UpdatedOnlyForAReason ==
  phase = "made" =>
    \A t \in Visited : ToBuild(t) => \E d \in {t} \cup AllHeeded(t) : Reason(d)

(***************************************************************************)
(* A target that cannot be found or made takes down all that depend on it, *)
(* and make() reports it.  (Again but for files that include each other:   *)
(* the includes of one have their fate before the other has.)              *)
(***************************************************************************)
BrokenSpreads ==
  phase = "made" =>
    /\ \A t \in Visited : (\E d \in Known(t) : Broken(d)) => g.fate[t] = T_FATE_CANTMAKE
    /\ (\E t \in Visited : Broken(t)) => g.cantfind > 0

(***************************************************************************)
(* "This makes anyone depending on any of those targets implicitly depend  *)
(* on all of them": in the graph that make0() leaves, all the targets of a *)
(* joint action can be reached from whoever uses one of them, however many *)
(* rule calls tied them and in whatever order.  It is not said that make1()*)
(* waits for the action: with three targets it may not, see OutputsReady.  *)
(***************************************************************************)
JointTargets ==
  phase = "made" =>
    \A t \in Visited, d \in Files : d \in Deps(t) =>
      \A a \in ToSet(g.actions[d]) : ToSet(ActionTargets[a]) \subseteq AllDeps(t) \cup {t}

(***************************************************************************)
(* A target that is built has those on its rebuilds list built, too, and   *)
(* all that is made from them: what update_dependants() has been through   *)
(* already and what make0() comes to later.                                *)
(***************************************************************************)
RebuildsHonoured ==
  phase = "made" =>
    \A t \in Visited : ToBuild(t) =>
      \A r \in ToSet(g.rebuilds[t]) :
        \A x \in {r} \cup {n \in Visited : r \in Deps(n) \cup AllHeeded(n)} :
          g.fate[x] >= T_FATE_BUILD
=============================================================================
