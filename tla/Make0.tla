------------------------------- MODULE Make0 -------------------------------
(***************************************************************************)
(* make0(): binding targets to files and deciding their fate.  It visits   *)
(* the graph depth first, once per target.  The C recursion is a function  *)
(* on the depth that is left: no call is more than Deepest calls deep.     *)
(***************************************************************************)
EXTENDS DepGraph

CONSTANTS
  HeadersOf,   \* headers(): what HDRRULE makes a file include, once it exists
  Another,     \* search(): the explicitly located target a file turns out to be
  Anyhow,      \* -a
  NewestFirst  \* globs.newestfirst, -g

ASSUME Make0Assumption ==
  /\ HeadersOf \in [Files -> Seq(Files)]
  /\ Another \in [Files -> Files \cup {NoTarget}]
  /\ Anyhow \in BOOLEAN
  /\ NewestFirst \in BOOLEAN

Later(a, b) == IF a > b THEN a ELSE b

\* The graph after `step', a function of a graph and a node, for each of ts.
Along(g, ts, step) ==
  LET after[i \in 0..Len(ts)] == IF i = 0 THEN g ELSE step[<<after[i - 1], ts[i]>>]
  IN  after[Len(ts)]

\* Steps 2b and 2c: bind a file, once, and scan it for headers if it exists.
\* Internal nodes are NOTFILE, and stay as they are.
Bind(g, t, p) ==
  LET fresh  == g.binding[t] = "UNBOUND" /\ "NOTFILE" \notin g.flags[t]
      same   == IF fresh /\ Another[t] # NoTarget THEN TargetInclude(g, t, Another[t]) ELSE g
      bound  == IF ~fresh THEN same
                ELSE [same EXCEPT !.time[t] = g.disk[t],
                                  !.binding[t] = IF g.disk[t] # 0 THEN "EXISTS" ELSE "MISSING"]
      temp   == IF /\ p # NoTarget /\ "TEMP" \in g.flags[t]
                   /\ bound.binding[t] = "MISSING" /\ bound.binding[p] # "MISSING"
                THEN [bound EXCEPT !.binding[t] = "PARENTS"] ELSE bound
  IN  IF t \in InternalNodes THEN g
      ELSE IF temp.binding[t] = "EXISTS" /\ HeadersOf[t] # <<>>
      THEN Includes(temp, <<t>>, HeadersOf[t]) ELSE temp

\* The target whose time stands for that of a node without a file.
TimeParent(g, t, p) ==
  IF p # NoTarget /\ (t \in InternalNodes \/ ("TEMP" \in g.flags[t] /\ g.binding[t] = "PARENTS"))
  THEN p ELSE t

-----------------------------------------------------------------------------
(***************************************************************************)
(* Targets that are rebuilt whenever t is.                                 *)
(***************************************************************************)

\* update_dependants(): those already visited that depend on t.
UpdateDependants(g, t) ==
  LET update[n \in 0..Cardinality(Nodes)] ==
        [x \in Graphs \X Nodes |->
           IF n = 0 THEN x[1]
           ELSE Along(x[1], x[1].dependants[x[2]],
                  [y \in Graphs \X Nodes |->
                     LET h     == y[1]
                         p     == y[2]
                         fate0 == h.fate[p]
                         upd   == [h EXCEPT !.fate[p] = T_FATE_UPDATE]
                     IN  IF fate0 = T_FATE_INIT \/ fate0 >= T_FATE_BUILD THEN h
                         ELSE IF fate0 > T_FATE_MAKING THEN update[n - 1][<<upd, p>>]
                         ELSE upd])]
  IN  update[Cardinality(Nodes)][<<g, t>>]

\* Mutant: update_dependants() is not called.
ForceAlone(g, r) ==
  IF g.fate[r] >= T_FATE_BUILD THEN g ELSE [g EXCEPT !.fate[r] = T_FATE_REBUILD]

\* What force_rebuilds() does with one target.
ForceRebuild(g, r) ==
  IF g.fate[r] >= T_FATE_BUILD THEN g
  ELSE UpdateDependants([g EXCEPT !.fate[r] = T_FATE_REBUILD], r)

\* force_rebuilds()
ForceRebuilds(g, t) ==
  Along(g, g.rebuilds[t], [y \in Graphs \X Nodes |-> ForceRebuild(y[1], y[2])])

-----------------------------------------------------------------------------
(***************************************************************************)
(* Step 4: time and fate.                                                  *)
(***************************************************************************)

\* Mutant: the last dependency decides.
LastOne(g, deps, field) == IF deps = <<>> THEN 0 ELSE field[Last(deps)]

Worst(g, deps, field) == Max({0} \cup {field[d] : d \in ToSet(deps)})

\* Steps 4a and 4c: the time and the fate that t gets from its dependencies.
LastOf(g, t) == IF "NOUPDATE" \in g.flags[t] THEN 0
                ELSE IF "LEAVES" \in g.flags[t] THEN Worst(g, g.depends[t], g.leaf)
                ELSE Worst(g, g.depends[t], g.time)
FateOf(g, t) == IF g.flags[t] \cap {"NOUPDATE", "LEAVES"} # {} THEN T_FATE_STABLE
                ELSE Later(T_FATE_STABLE, Worst(g, g.depends[t], g.fate))

\* Mutant: files of the same age are outdated.
NotNewer(last, time) == last >= time

Outdated(last, time) == last > time

\* Step 4d, from the least to the most stable.
Diagnosis(g, t, p, last, fate) ==
  LET binding == g.binding[t]
      hlast   == IF g.includes[t] = NoTarget THEN 0 ELSE g.time[g.includes[t]]
      time    == IF "NOUPDATE" \in g.flags[t] THEN 0 ELSE g.time[t]
  IN  CASE fate >= T_FATE_BROKEN                        -> T_FATE_CANTMAKE
        [] fate >= T_FATE_SPOIL /\ fate < T_FATE_BROKEN -> T_FATE_UPDATE
        [] OTHER ->
           IF binding = "MISSING" THEN T_FATE_MISSING
           ELSE IF binding = "EXISTS" /\ Outdated(last, time) THEN T_FATE_OUTDATED
           ELSE IF binding = "PARENTS" /\ (Outdated(last, g.time[p]) \/ Outdated(hlast, g.time[p]))
           THEN T_FATE_NEEDTMP
           ELSE IF "TOUCHED" \in g.flags[t] \/ (Anyhow /\ "NOUPDATE" \notin g.flags[t]) THEN T_FATE_TOUCHED
           ELSE IF binding = "EXISTS" /\ "TEMP" \in g.flags[t] THEN T_FATE_ISTMP
           ELSE IF /\ binding = "EXISTS" /\ p # NoTarget
                   /\ g.binding[p] # "UNBOUND" /\ time > g.time[p]
           THEN T_FATE_NEWER
           ELSE T_FATE_STABLE

\* Step 4e: missing, and neither actions nor dependencies to make it from.
OrLost(g, t, fate) ==
  IF fate = T_FATE_MISSING /\ g.actions[t] = <<>> /\ g.depends[t] = <<>>
  THEN IF "NOCARE" \in g.flags[t] THEN T_FATE_STABLE ELSE T_FATE_CANTFIND
  ELSE fate

\* make0sort(): newest first, an equally old one in front of those before it.
SortByTime(g, deps) ==
  LET sorted[i \in 0..Len(deps)] ==
        IF i = 0 THEN <<>>
        ELSE LET done  == sorted[i - 1]
                 newer == {k \in DOMAIN done : \A j \in 1..k : g.time[done[j]] > g.time[deps[i]]}
             IN  InsertAt(done, Cardinality(newer) + 1, deps[i])
  IN  sorted[Len(deps)]

\* The time, the newest leaf and the fate of t, once known.
WithFate(g, t, fate) ==
  LET last == LastOf(g, t)
      leaf == Worst(g, g.depends[t], g.leaf)
      time == Later(IF "NOUPDATE" \in g.flags[t] THEN 0 ELSE g.time[t], last)
  IN  [g EXCEPT !.fate[t] = fate, !.time[t] = time, !.leaf[t] = IF leaf # 0 THEN leaf ELSE time]

\* Step 5.
Sorted(g, t) == IF NewestFirst THEN [g EXCEPT !.depends[t] = SortByTime(g, @)] ELSE g

\* Step 6: what make() will report.
Counted(g, t, fate) ==
  IF t \in InternalNodes THEN g
  ELSE [g EXCEPT !.cantfind = IF fate = T_FATE_CANTFIND THEN @ + 1 ELSE @,
                 !.cantmake = IF fate = T_FATE_CANTMAKE /\ g.actions[t] # <<>> THEN @ + 1 ELSE @]

\* Steps 4 to 6.
Decide(g, t, p) ==
  LET fate    == Later(g.fate[t], OrLost(g, t, Diagnosis(g, t, p, LastOf(g, t), FateOf(g, t))))
      decided == WithFate(g, t, fate)
      forced  == IF fate >= T_FATE_BUILD /\ fate < T_FATE_BROKEN
                 THEN ForceRebuilds(decided, t) ELSE decided
  IN  Counted(Sorted(forced, t), t, fate)

-----------------------------------------------------------------------------
Parents == Nodes \cup {NoTarget}
Deepest == 2 * Cardinality(Nodes)

\* The dependencies whose fate is still INIT are visited, in order.
VisitAll(g, deps, p, visit) ==
  Along(g, deps, [y \in Graphs \X Nodes |->
    IF y[1].fate[y[2]] = T_FATE_INIT THEN visit[<<y[1], y[2], p>>] ELSE y[1]])

\* Mutant: the includes of t are not visited.
VisitDepends(g, t, p, visit) ==
  LET bound == Bind([g EXCEPT !.fate[t] = T_FATE_MAKING], t, p)
      deps  == VisitAll(bound, bound.depends[t], TimeParent(bound, t, p), visit)
  IN  Decide([deps EXCEPT !.depends[t] = WithIncludes(deps, t)], t, p)

\* The body of make0(t, p), with `visit' for the calls it makes of itself.
VisitBelow(g, t, p, visit) ==
  LET bound == Bind([g EXCEPT !.fate[t] = T_FATE_MAKING], t, p)
      deps  == VisitAll(bound, bound.depends[t], TimeParent(bound, t, p), visit)
      incs  == IF deps.includes[t] = NoTarget THEN deps
               ELSE visit[<<deps, deps.includes[t], p>>]
  IN  Decide([incs EXCEPT !.depends[t] = WithIncludes(incs, t)], t, p)

\* make0(t, p): t is visited from p.
Visit(g, t, p) ==
  LET visit[n \in 0..Deepest] ==
        [x \in Graphs \X Nodes \X Parents |->
           IF n = 0 THEN x[1] ELSE VisitBelow(x[1], x[2], x[3], visit[n - 1])]
  IN  visit[Deepest][<<g, t, p>>]

\* make() up to make1(): every target asked for, whatever its fate by now.
Make0All(g, disk, targets) ==
  Along([g EXCEPT !.disk = disk], targets,
        [y \in Graphs \X Nodes |-> Visit(y[1], y[2], NoTarget)])
=============================================================================
