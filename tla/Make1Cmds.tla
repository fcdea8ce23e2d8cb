----------------------------- MODULE Make1Cmds -----------------------------
(***************************************************************************)
(* make1cmds(): turning a target's chain of ACTIONs into the chain of CMDs *)
(* that make1c() launches one at a time.  Actions already executing (for   *)
(* another target, or merged into an earlier TOGETHER action) are skipped; *)
(* TOGETHER actions of one rule are grouped, PIECEMEAL ones are split, and *)
(* a command that fits in no way ends the program.                         *)
(***************************************************************************)
EXTENDS Rules, Sequences, SequencesExt

CONSTANTS
  Targets,      \* TARGET nodes
  Names,        \* strings a target may be bound to
  Actions,      \* ACTION instances: one per call of a rule with actions
  RuleSet,      \* rules that have actions
  ActionsOf,    \* t->actions: the chain of actions that update t
  RuleOf,       \* action->rule
  TargetsOf,    \* action->targets
  SourcesOf,    \* action->sources
  BoundName,    \* t->boundname, after binding
  Existing,     \* targets bound to a file that exists (T_BIND_EXISTS)
  Together, Piecemeal, NewSrcs, ExistingOnly,  \* sets of rules: their RULE_ flags
  Width,        \* length of a bound name in the command line
  MaxLine       \* room for bound names on the longest line (MAXLINE)

ASSUME Make1CmdsAssumption ==
  /\ ActionsOf \in [Targets -> Seq(Actions)]
  /\ RuleOf \in [Actions -> RuleSet]
  /\ TargetsOf \in [Actions -> Seq(Targets)]
  /\ SourcesOf \in [Actions -> Seq(Targets)]
  /\ BoundName \in [Targets -> Names]
  /\ Existing \subseteq Targets
  /\ Together \cup Piecemeal \cup NewSrcs \cup ExistingOnly \subseteq RuleSet
  /\ Width \in [Names -> Nat]
  /\ MaxLine \in Nat

(***************************************************************************)
(* A source that the rule's modifiers leave out of $(>).  `new' is the set *)
(* of targets whose fate is above STABLE.                                  *)
(***************************************************************************)
Skipped(rule, s, new) ==
  LET missing == rule \in ExistingOnly /\ s \notin Existing
      old     == rule \in NewSrcs /\ s \notin new
  IN  IF rule \in ExistingOnly \cap NewSrcs THEN missing /\ old ELSE missing \/ old

\* Mutant: duplicates are dropped for every rule.
Make1ListUnique(l, targets, rule, new) ==
  LET list[i \in 0..Len(targets)] ==
        IF i = 0 THEN l
        ELSE LET done == list[i - 1]
                 s    == targets[i]
             IN  IF Skipped(rule, s, new) \/ Contains(done, BoundName[s])
                 THEN done ELSE Append(done, BoundName[s])
  IN  list[Len(targets)]

\* make1list(): append the bound names of `targets' to the list l.
Make1List(l, targets, rule, new) ==
  LET list[i \in 0..Len(targets)] ==
        IF i = 0 THEN l
        ELSE LET done == list[i - 1]
                 s    == targets[i]
             IN  IF \/ Skipped(rule, s, new)
                    \/ rule \in Together /\ Contains(done, BoundName[s])
                 THEN done ELSE Append(done, BoundName[s])
  IN  list[Len(targets)]

\* The $(<) of an action's commands: every target, unfiltered.
CmdTargets(a) == [i \in DOMAIN TargetsOf[a] |-> BoundName[TargetsOf[a][i]]]

\* cmd_new() does not return 0: the command's longest line fits.
Fits(a, sources) ==
  FoldLeft(LAMBDA w, n : w + Width[n], 0, CmdTargets(a) \o sources) <= MaxLine

\* Mutant: a chunk of two is not cut.
MayCutThree(a, chunk) == RuleOf[a] \in Piecemeal /\ chunk > 2

\* A chunk of a's sources that does not fit can be made smaller.
MayCut(a, chunk) == RuleOf[a] \in Piecemeal /\ chunk > 1

(***************************************************************************)
(* The do-while loop that cuts the sources ns of action a into commands:   *)
(* the chunk shrinks by a tenth while it does not fit and never grows      *)
(* again.  A last piece that does not fit is the one exit(EXITBAD) prints. *)
(***************************************************************************)
Split(a, ns) ==
  LET n == Len(ns)
      split[at \in (0..n) \X (1..n)] ==
        LET start == at[1]
            chunk == at[2]
            end   == IF start + chunk > n THEN n ELSE start + chunk
            piece == SubSeq(ns, start + 1, end)
        IN  IF Fits(a, piece)
            THEN IF start + chunk < n
                 THEN <<piece>> \o split[<<start + chunk, chunk>>] ELSE <<piece>>
            ELSE IF MayCut(a, chunk)
                 THEN split[<<start, (chunk * 9) \div 10>>]
                 ELSE <<piece>>
  IN  IF n = 0 THEN <<ns>> ELSE split[<<0, n>>]

\* Mutant: the flag of the merged actions is not set.
OnlyLeader(a, merged) == {a}

\* The actions whose `running' flag is set: a and those merged into it.
NowRunning(a, merged) == {a} \cup ToSet(merged)

\* The later actions of the chain that are merged into the i-th.
Merged(chain, i, running) ==
  LET a == chain[i]
      later[k \in 0..(Len(chain) - i)] ==
        IF k = 0 THEN <<>>
        ELSE LET done == later[k - 1]
                 b    == chain[i + k]
             IN  IF RuleOf[b] = RuleOf[a] /\ b \notin running \cup NowRunning(a, done)
                 THEN Append(done, b) ELSE done
  IN  IF RuleOf[a] \in Together THEN later[Len(chain) - i] ELSE <<>>

\* The sources of the actions in `group', in one list.
Gathered(group, rule, new) ==
  LET list[k \in 0..Len(group)] ==
        IF k = 0 THEN <<>> ELSE Make1List(list[k - 1], SourcesOf[group[k]], rule, new)
  IN  list[Len(group)]

\* One round of make1cmds()'s loop, for the i-th action of the chain.
AddAction(acc, chain, i, new) ==
  LET a      == chain[i]
      rule   == RuleOf[a]
      merged == Merged(chain, i, acc.running)
      ns     == Gathered(<<a>> \o merged, rule, new)
      pieces == Split(a, ns)
      busy   == acc.running \cup NowRunning(a, merged)
  IN  IF ns = <<>> /\ rule \in NewSrcs \cup ExistingOnly
      THEN [acc EXCEPT !.running = busy]
      ELSE IF ~Fits(a, Last(pieces))
      THEN [acc EXCEPT !.running = busy, !.tooLong = TRUE]
      ELSE [acc EXCEPT !.running = busy,
                       !.cmds = @ \o [k \in DOMAIN pieces |->
                                        [action |-> a, sources |-> pieces[k]]]]

(***************************************************************************)
(* make1cmds(t): the commands of t, the actions whose `running' flag is    *)
(* now set, and whether the program gave up on a line that is too long.    *)
(***************************************************************************)
Make1Cmds(t, running, new) ==
  LET chain == ActionsOf[t]
      build[i \in 0..Len(chain)] ==
        IF i = 0 THEN [cmds |-> <<>>, running |-> running, tooLong |-> FALSE]
        ELSE LET acc == build[i - 1]
             IN  IF acc.tooLong \/ chain[i] \in acc.running THEN acc
                 ELSE AddAction(acc, chain, i, new)
  IN  build[Len(chain)]
=============================================================================
