------------------------------ MODULE MCMake1 ------------------------------
(***************************************************************************)
(* make1() on every dependency graph of four targets: `all' and three      *)
(* more, each depending on any of those after it, each up to date, out of  *)
(* date or, without actions, impossible to find.  Two of them are asked    *)
(* for, and SIGINT may arrive at any moment.                               *)
(***************************************************************************)
EXTENDS Make1

MCTargets == {"all", "lib", "obj", "src"}
Order     == <<"all", "lib", "obj", "src">>
MCRoots   == <<"all">>

NoHeaders == [t \in MCTargets |-> NoTarget]

\* Every list of later targets, in order.
Later(i) == {SelectSeq(Order, LAMBDA x : x \in S) :
               S \in SUBSET {Order[j] : j \in (i + 1)..4}}

MCGraphs == {[t \in MCTargets |-> CASE t = "all" -> g[1] [] t = "lib" -> g[2]
                                    [] t = "obj" -> g[3] [] t = "src" -> <<>>] :
               g \in Later(1) \X Later(2) \X Later(3)}

\* What make0() decides for a target on its own account.
OwnFates == {[t \in MCTargets |-> CASE t = "src" -> s [] t = "obj" -> o
                                    [] t = "lib" -> T_FATE_MISSING
                                    [] t = "all" -> T_FATE_TOUCHED] :
               s \in {T_FATE_STABLE, T_FATE_CANTFIND},
               o \in {T_FATE_NEWER, T_FATE_OUTDATED}}

\* The fates after step 4d of make0(): a broken dependency breaks its
\* dependants, and one to be updated has them updated.  A target that no
\* root depends on has not been visited.
Reached(g) ==
  LET seen[i \in 1..4] == \/ Contains(Roots, Order[i])
                          \/ \E j \in 1..(i - 1) : seen[j] /\ Contains(g[Order[j]], Order[i])
  IN  {Order[i] : i \in {j \in 1..4 : seen[j]}}

Spread(g, own) ==
  LET f[i \in 1..4] ==
        LET t     == Order[i]
            worst == Max({T_FATE_STABLE} \cup {f[j] : j \in {k \in (i + 1)..4 : Contains(g[t], Order[k])}})
        IN  IF worst >= T_FATE_BROKEN THEN T_FATE_CANTMAKE
            ELSE IF worst >= T_FATE_SPOIL THEN T_FATE_UPDATE ELSE own[t]
  IN  [t \in MCTargets |-> IF t \in Reached(g) THEN f[CHOOSE i \in 1..4 : Order[i] = t]
                           ELSE T_FATE_INIT]

\* Without semaphores, or with one that all the targets share but `all'.
NoLocks  == [t \in MCTargets |-> NoSem]
Locks    == [t \in MCTargets |-> IF t = "all" THEN NoSem ELSE "lock"]

MCStarts == {[depends |-> g, includes |-> NoHeaders, fate |-> Spread(g, own), semaphore |-> l] :
               g \in MCGraphs, own \in OwnFates, l \in {NoLocks, Locks}}
Unlocked == {s \in MCStarts : s.semaphore = NoLocks}

MCActions   == {"ar", "cc1", "cc2", "stamp"}
MCActionsOf == [t \in MCTargets |-> CASE t = "all" -> <<"stamp">> [] t = "lib" -> <<"ar">>
                                      [] t = "obj" -> <<"cc1", "cc2">> [] t = "src" -> <<>>]
MCBoundName == [t \in MCTargets |-> t]
MCOutputs   == [a \in MCActions |-> {t \in MCTargets : Contains(MCActionsOf[t], a)}]

Make == INSTANCE Make1Cmds WITH
          Targets <- MCTargets, Names <- MCTargets, Actions <- MCActions,
          RuleSet <- MCActions, ActionsOf <- MCActionsOf,
          RuleOf <- [a \in MCActions |-> a],
          TargetsOf <- [a \in MCActions |-> SetToSeq(MCOutputs[a])],
          SourcesOf <- [a \in MCActions |-> <<>>], BoundName <- MCBoundName,
          Existing <- {}, Together <- {}, Piecemeal <- {}, NewSrcs <- {},
          ExistingOnly <- {}, Width <- [n \in MCTargets |-> 1], MaxLine <- 1
MCCommands(t, busy, new) == Make!Make1Cmds(t, busy, new)

\* Command lines.
Line(jobs, quick, show) == [jobs |-> jobs, quitquick |-> quick, noexec |-> show]
MCOptions == {Line(2, FALSE, FALSE), Line(3, FALSE, FALSE), Line(2, TRUE, FALSE), Line(2, FALSE, TRUE)}
Quitting  == {Line(2, TRUE, FALSE)}

NoFates     == [t \in MCTargets |-> <<>>]
TwoRoots    == <<"all", "lib">>
NoOriginals == <<>>

\* These are graphs the theorems about make1() are for.
ASSUME GraphsAssumption ==
  /\ NothingFound
  /\ Acyclic([t \in MCTargets |-> 4 - CHOOSE i \in 1..4 : Order[i] = t])
  /\ FatesExplained
=============================================================================
