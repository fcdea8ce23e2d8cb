--------------------------- MODULE MCMake1Rescan ---------------------------
(***************************************************************************)
(* make1() when building a file reveals new headers.  An object is made    *)
(* from a generated source `gen', whose headers are known once it is       *)
(* built, or from `src', which is known to include the generated header h; *)
(* `all' may ask for h as well.                                            *)
(***************************************************************************)
EXTENDS Make1

CONSTANTS Found,    \* the headers that gen turns out to include
          HNeeds    \* what h itself depends on

MCTargets == {"all", "obj", "gen", "gen+", "src", "src+1", "src+2", "h", "x"}
MCRoots   == <<"all">>
MCInternal == {"gen+", "src+1", "src+2"}
MCOriginal == [n \in MCInternal |-> IF n = "gen+" THEN "gen" ELSE "src"]

NoLocks == [t \in MCTargets |-> NoSem]
Locks   == [t \in MCTargets |-> IF t \in {"gen", "h"} THEN "lock" ELSE NoSem]

Graph(allOf, objOf) ==
  [t \in MCTargets |-> CASE t = "all" -> allOf [] t = "obj" -> objOf
                         [] t = "gen+" -> Found [] t = "h" -> HNeeds
                         [] t \in {"src+1", "src+2"} -> <<"h">> [] OTHER -> <<>>]

\* make0() decides the fate of what it can reach: h and x may be unknown yet.
Known(allOf, objOf) == ToSet(allOf) \cup ToSet(objOf) \cup
                       (IF Contains(objOf, "src+1") THEN {"h"} ELSE {})
Fate(known) ==
  [t \in MCTargets |->
     CASE t \in {"gen", "h"} -> IF t \in known THEN T_FATE_MISSING ELSE T_FATE_INIT
       [] t = "x"            -> IF "h" \in known THEN T_FATE_MISSING ELSE T_FATE_INIT
       [] t = "src"          -> T_FATE_STABLE
       [] t \in {"all", "obj", "src+1"} -> T_FATE_UPDATE
       [] OTHER              -> T_FATE_INIT]

MCIncludes == [t \in MCTargets |-> IF t = "src" THEN "src+1" ELSE NoTarget]

MCStarts ==
  {[depends |-> Graph(a, o), includes |-> MCIncludes,
    fate |-> Fate(Known(a, o)), semaphore |-> l] :
     a \in {<<"obj">>, <<"obj", "h">>, <<"h", "obj">>},
     o \in {<<"gen">>, <<"src", "src+1">>, <<"gen", "src", "src+1">>},
     l \in {NoLocks, Locks}}

\* The node that a rescan creates, and the fates it is given with it.
MCHeaders == [t \in MCTargets |-> CASE t = "gen" -> "gen+" [] t = "src+1" -> "src+2"
                                    [] OTHER -> NoTarget]
MCRescanFates ==
  [t \in MCTargets |->
     CASE t = "gen" ->
            [n \in {"gen+", "h", "x"} |-> IF n = "gen+" THEN T_FATE_UPDATE ELSE T_FATE_MISSING]
       [] t = "src+1" -> [n \in {"src+2"} |-> T_FATE_UPDATE]
       [] OTHER -> <<>>]

MCActions   == {"cc", "gen", "mkh", "mkx"}
MCActionsOf == [t \in MCTargets |-> CASE t = "obj" -> <<"cc">> [] t = "gen" -> <<"gen">>
                                      [] t = "h" -> <<"mkh">> [] t = "x" -> <<"mkx">>
                                      [] OTHER -> <<>>]
MCBoundName == [t \in MCTargets |-> t]
MCOutputs   == [a \in MCActions |-> {t \in MCTargets : Contains(MCActionsOf[t], a)}]
MCOptions   == {[jobs |-> j, quitquick |-> FALSE, noexec |-> FALSE] : j \in 1..3}

Make == INSTANCE Make1Cmds WITH
          Targets <- MCTargets, Names <- MCTargets, Actions <- MCActions,
          RuleSet <- MCActions, ActionsOf <- MCActionsOf,
          RuleOf <- [a \in MCActions |-> a],
          TargetsOf <- [a \in MCActions |-> SetToSeq(MCOutputs[a])],
          SourcesOf <- [a \in MCActions |-> <<>>], BoundName <- MCBoundName,
          Existing <- {}, Together <- {}, Piecemeal <- {}, NewSrcs <- {},
          ExistingOnly <- {}, Width <- [n \in MCTargets |-> 1], MaxLine <- 1
MCCommands(t, busy, new) == Make!Make1Cmds(t, busy, new)

Header      == <<"h">>
Nothing     == <<>>
Prerequisite == <<"x">>
=============================================================================
