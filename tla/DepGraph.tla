------------------------------ MODULE DepGraph ------------------------------
(***************************************************************************)
(* The dependency graph as the rules of a Jamfile build it.  A graph g is  *)
(* a record of functions on TARGET nodes, one per field of TARGET:         *)
(*   depends, dependants, rebuilds, actions   chains                       *)
(*   includes                                 a node or NoTarget           *)
(*   flags                                    the T_FLAG_ bits that are set *)
(* and of what make0() finds and decides:                                  *)
(*   disk                         the time of each file, 0 when missing    *)
(*   binding, time, leaf, fate    per node (times are numbers, 0: none)    *)
(*   cantfind, cantmake           the counts that make() reports           *)
(* A file's includes are the dependencies of an internal node of its own,  *)
(* IncludeNode[f]; whoever depends on f is made to depend on that node.    *)
(***************************************************************************)
EXTENDS Rules, Sequences, SequencesExt, FiniteSets

CONSTANTS
  Files,        \* targets a Jamfile can name
  NoTarget,
  IncludeNode,  \* the internal node copytarget() makes for a file
  ActionTargets \* action->targets: the $(<) a rule with actions was called with

Nodes        == Files \cup {IncludeNode[f] : f \in Files}
InternalNodes == {IncludeNode[f] : f \in Files}

ASSUME DepGraphAssumption ==
  /\ NoTarget \notin Nodes
  /\ IsInjective(IncludeNode) /\ DOMAIN IncludeNode = Files
  /\ Files \cap InternalNodes = {}
  /\ IsFiniteSet(Files)
  /\ \A a \in DOMAIN ActionTargets : ActionTargets[a] \in Seq(Files)

Bindings == {"UNBOUND", "MISSING", "PARENTS", "EXISTS"}
TargetFlags == {"TEMP", "NOCARE", "NOTFILE", "TOUCHED", "LEAVES", "NOUPDATE", "INTERNAL"}

Graphs ==
  [depends : [Nodes -> Seq(Nodes)], dependants : [Nodes -> Seq(Nodes)],
   rebuilds : [Nodes -> Seq(Nodes)], actions : [Nodes -> Seq(DOMAIN ActionTargets)],
   includes : [Nodes -> Nodes \cup {NoTarget}], flags : [Nodes -> SUBSET TargetFlags],
   disk : [Files -> Nat], binding : [Nodes -> Bindings], time : [Nodes -> Nat],
   leaf : [Nodes -> Nat], fate : [Nodes -> Fates], cantfind : Nat, cantmake : Nat]

\* A TARGET as bindtarget() makes it: nothing is bound, no fate is decided.
EmptyGraph ==
  [depends    |-> [n \in Nodes |-> <<>>],
   dependants |-> [n \in Nodes |-> <<>>],
   rebuilds   |-> [n \in Nodes |-> <<>>],
   actions    |-> [n \in Nodes |-> <<>>],
   includes   |-> [n \in Nodes |-> NoTarget],
   flags      |-> [n \in Nodes |-> IF n \in Files THEN {} ELSE {"NOTFILE", "INTERNAL"}],
   disk       |-> [f \in Files |-> 0],
   binding    |-> [n \in Nodes |-> "UNBOUND"],
   time       |-> [n \in Nodes |-> 0],
   leaf       |-> [n \in Nodes |-> 0],
   fate       |-> [n \in Nodes |-> T_FATE_INIT],
   cantfind   |-> 0,
   cantmake   |-> 0]

\* target_include(): the node of `including' is created when first needed.
TargetInclude(g, including, included) ==
  [g EXCEPT !.includes[including] = IncludeNode[including],
            !.depends[IncludeNode[including]] = Append(@, included)]

\* targetlist(), for each of `targets': `added' at the end of its chain.
Linked(chain, targets, added) ==
  LET linked[i \in 0..Len(targets)] ==
        IF i = 0 THEN chain ELSE [linked[i - 1] EXCEPT ![targets[i]] = @ \o added]
  IN  linked[Len(targets)]

\* The reverse links of DEPENDS and INCLUDES: from sources to targets.
Enter(g, targets, sources) == [g EXCEPT !.dependants = Linked(@, sources, targets)]

\* DEPENDS targets : sources ;
Depends(g, targets, sources) ==
  Enter([g EXCEPT !.depends = Linked(@, targets, sources)], targets, sources)

\* INCLUDES targets : sources ;
Includes(g, targets, sources) ==
  LET nodes == [i \in DOMAIN targets |-> IncludeNode[targets[i]]]
  IN  Enter([g EXCEPT !.includes = [n \in Nodes |-> IF n \in ToSet(targets)
                                                    THEN IncludeNode[n] ELSE g.includes[n]],
                      !.depends = Linked(@, nodes, sources)],
            targets, sources)

\* REBUILDS targets : rebuilds ;
Rebuilds(g, targets, rebuilds) == [g EXCEPT !.rebuilds = Linked(@, targets, rebuilds)]

\* TEMPORARY, NOCARE, NOTFILE, ALWAYS (TOUCHED), LEAVES or NOUPDATE targets ;
SetFlag(g, targets, flag) ==
  [g EXCEPT !.flags = [n \in Nodes |-> IF n \in ToSet(targets)
                                       THEN g.flags[n] \cup {flag} ELSE g.flags[n]]]

\* Mutant: the other targets do not include the first.
PairOneWay(g, first, t) == TargetInclude(g, first, t)

\* The first target of an action and another one include each other.
Pair(g, first, t) == TargetInclude(TargetInclude(g, t, first), first, t)

(***************************************************************************)
(* A call of a rule with actions, evaluate_rule(): the targets one action  *)
(* builds together are made to include each other, the first and every     *)
(* other one both ways, and the action joins the chain of each.            *)
(***************************************************************************)
CallRule(g, a) ==
  LET ts == ActionTargets[a]
      paired[i \in 0..Len(ts)] == IF i < 2 THEN g ELSE Pair(paired[i - 1], ts[1], ts[i])
  IN  [paired[Len(ts)] EXCEPT !.actions = Linked(@, ts, <<a>>)]

\* Step 3c of make0(): the includes of t's dependencies join t's dependencies.
WithIncludes(g, t) ==
  LET deps == g.depends[t]
      chain[i \in 0..Len(deps)] ==
        IF i = 0 THEN deps
        ELSE IF g.includes[deps[i]] = NoTarget THEN chain[i - 1]
        ELSE Append(chain[i - 1], g.includes[deps[i]])
  IN  chain[Len(deps)]
=============================================================================
