--------------------------- MODULE Make1CmdsCalls ---------------------------
(***************************************************************************)
(* The calls of make1cmds() a build may make: for any target, with any set *)
(* of actions already executing and any set of updated sources; and what   *)
(* the commands it answers with must be.                                   *)
(***************************************************************************)
EXTENDS Make1Cmds, FiniteSets

VARIABLES
  target,  \* the target whose commands are asked for
  busy,    \* the actions with their `running' flag set
  new      \* the targets whose fate is above STABLE
cmdsVars == <<target, busy, new>>

SourceNodes == UNION {ToSet(SourcesOf[a]) : a \in Actions}

CmdsInit == target \in Targets /\ busy = {} /\ new = {}
Ask == /\ target' \in Targets
       /\ busy' \in SUBSET Actions
       /\ new' \in SUBSET SourceNodes
CmdsSpec == CmdsInit /\ [][Ask]_cmdsVars

Made  == Make1Cmds(target, busy, new)
Chain == ActionsOf[target]

\* The actions of the target that start, and those one leads: itself and,
\* when its rule is TOGETHER, the later ones of the same rule.
Starting == {i \in DOMAIN Chain : Chain[i] \notin busy}
Leads(i) == {j \in Starting : \/ j = i
                              \/ /\ j > i
                                 /\ RuleOf[Chain[i]] \in Together
                                 /\ RuleOf[Chain[j]] = RuleOf[Chain[i]]}
Led      == {j \in Starting : \E i \in Starting : i # j /\ j \in Leads(i)}

Wanted(a, x) ==
  LET rule == RuleOf[a] IN
  CASE rule \in NewSrcs \cap ExistingOnly -> x \in new \cup Existing
    [] rule \in NewSrcs \ ExistingOnly    -> x \in new
    [] rule \in ExistingOnly \ NewSrcs    -> x \in Existing
    [] OTHER                              -> TRUE

\* The sources of all commands made for action a, end to end.
Given(a) == FlattenSeq([k \in DOMAIN Made.cmds |->
              IF Made.cmds[k].action = a THEN Made.cmds[k].sources ELSE <<>>])

(***************************************************************************)
(* However the sources are grouped and split, each one the rule wants is   *)
(* given to a command: as often and in the order written or, for TOGETHER, *)
(* once for the whole group.  (make1list, and the splitting loop.)         *)
(***************************************************************************)
EverySourceGiven ==
  ~Made.tooLong =>
    \A i \in Starting \ Led :
      LET a      == Chain[i]
          wanted == UNION {{x \in ToSet(SourcesOf[Chain[j]]) : Wanted(a, x)} : j \in Leads(i)}
      IN  IF RuleOf[a] \in Together
          THEN /\ ToSet(Given(a)) = {BoundName[x] : x \in wanted}
               /\ IsInjective(Given(a))
          ELSE LET W == {k \in DOMAIN SourcesOf[a] : Wanted(a, SourcesOf[a][k])}
               IN  /\ Len(Given(a)) = Cardinality(W)
                   /\ \A k \in W : Given(a)[Cardinality({j \in W : j <= k})] = BoundName[SourcesOf[a][k]]

(***************************************************************************)
(* Every action of the target is accounted for: it starts now, under its   *)
(* own name or its leader's, and no later target will start it again; and  *)
(* only an action that was not running gets commands.  (action->running)   *)
(***************************************************************************)
ActionsStartedOnce ==
  /\ ~Made.tooLong => Made.running = busy \cup ToSet(Chain)
  /\ \A k \in DOMAIN Made.cmds :
       Made.cmds[k].action \in {Chain[i] : i \in Starting \ Led}

(***************************************************************************)
(* A command is as long as it may be and no longer: every one made fits,   *)
(* none is empty when there are sources to give, and the program gives up  *)
(* only on a list it may not split or on a single source.                  *)
(***************************************************************************)
SplitAsNeeded ==
  /\ \A k \in DOMAIN Made.cmds :
       LET c == Made.cmds[k]
       IN  /\ Fits(c.action, c.sources)
           /\ Given(c.action) # <<>> => c.sources # <<>>
           /\ RuleOf[c.action] \notin Piecemeal => c.sources = Given(c.action)
  /\ Made.tooLong =>
       \E i \in Starting \ Led :
         LET a    == Chain[i]
             from == UNION {ToSet(SourcesOf[Chain[j]]) : j \in Leads(i)}
         IN  \/ RuleOf[a] \notin Piecemeal
             \/ \E x \in from : Wanted(a, x) /\ ~Fits(a, <<BoundName[x]>>)
             \/ ~Fits(a, <<>>)
=============================================================================
