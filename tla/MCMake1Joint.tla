---------------------------- MODULE MCMake1Joint ----------------------------
(***************************************************************************)
(* make1() after make0(), on graphs with an action that builds several     *)
(* targets at once: a generator writes a parser, its header and, with      *)
(* Three, a table, and two objects are compiled from them.                 *)
(***************************************************************************)
EXTENDS Make1

CONSTANTS Generated,  \* the targets of the joint action, in order
          Uses1, Uses2,  \* what the two objects depend on
  Locked        \* targets that may share a semaphore

MCFiles   == {"all", "o1", "o2"} \cup ToSet(Generated)
MCRoots   == <<"all">>
Plus      == [f \in MCFiles |->
                CASE f = "all" -> "all+" [] f = "o1" -> "o1+" [] f = "o2" -> "o2+"
                  [] f = "c" -> "c+" [] f = "h" -> "h+" [] f = "tab" -> "tab+"]
MCActions == {"gen", "cc1", "cc2"}
MCTargetsOf == [a \in MCActions |-> CASE a = "gen" -> Generated [] a = "cc1" -> <<"o1">> [] a = "cc2" -> <<"o2">>]

M0 == INSTANCE Make0 WITH
        Files <- MCFiles, IncludeNode <- Plus, ActionTargets <- MCTargetsOf,
        HeadersOf <- [n \in MCFiles |-> <<>>], Another <- [f \in MCFiles |-> NoTarget],
        Anyhow <- FALSE, NewestFirst <- FALSE

MCTargets   == M0!Nodes
Rule(g, a)  == M0!CallRule(g, a)
MCGraph     ==
  LET g1 == FoldLeft(Rule, M0!EmptyGraph, <<"gen", "cc1", "cc2">>)
      g2 == M0!Depends(g1, <<"all">>, <<"o1", "o2">>)
      g3 == M0!SetFlag(g2, <<"all">>, "NOTFILE")
  IN  M0!Depends(M0!Depends(g3, <<"o1">>, Uses1), <<"o2">>, Uses2)

\* Files are missing or as old as they should be, the header apart.
MCDisks == {[f \in MCFiles |-> IF f \in ToSet(Generated) THEN d[1] ELSE d[2]] :
              d \in {<<0, 0>>, <<0, 2>>, <<3, 2>>}}
Semaphores  == {[t \in MCTargets |-> IF t \in Locked THEN l ELSE NoSem] : l \in {NoSem, "lock"}}
MCMade      == {M0!Make0All(MCGraph, disk, MCRoots) : disk \in MCDisks}
MCStarts    == {[depends |-> g.depends, includes |-> g.includes, fate |-> g.fate,
                 semaphore |-> l] : g \in MCMade, l \in Semaphores}
MCActionsOf == MCGraph.actions
MCInternal  == M0!InternalNodes
MCOriginal  == [n \in MCInternal |-> CHOOSE f \in MCFiles : Plus[f] = n]
MCBoundName == [t \in MCTargets |-> t]
MCOutputs   == [a \in MCActions |-> ToSet(MCTargetsOf[a])]

Make == INSTANCE Make1Cmds WITH
          Targets <- MCTargets, Names <- MCTargets, Actions <- MCActions,
          RuleSet <- MCActions, ActionsOf <- MCActionsOf,
          RuleOf <- [a \in MCActions |-> a], TargetsOf <- MCTargetsOf,
          SourcesOf <- [a \in MCActions |-> <<>>], BoundName <- MCBoundName,
          Existing <- {}, Together <- {}, Piecemeal <- {}, NewSrcs <- {},
          ExistingOnly <- {}, Width <- [n \in MCTargets |-> 1], MaxLine <- 3
MCCommands(t, busy, new) == Make!Make1Cmds(t, busy, new)

NoHeaders   == [t \in MCTargets |-> NoTarget]
NoFates     == [t \in MCTargets |-> <<>>]
ThreeJobs   == {[jobs |-> 3, quitquick |-> FALSE, noexec |-> FALSE]}
Two         == <<"c", "h">>
Three       == <<"c", "h", "tab">>
UsesC       == <<"c">>
UsesH       == <<"h">>
UsesTab     == <<"tab">>
=============================================================================
