------------------------------- MODULE Files -------------------------------
(***************************************************************************)
(* What one run of the engine knows of the files, and how search() binds a *)
(* target to one of them.  Nothing learnt of a file is ever looked at      *)
(* again, except that it was missing:                                      *)
(*   time      file_info(): the time of a file stat() has found, 0: none   *)
(*   listed    directories file_dirscan() has read, listing: what it saw   *)
(*   scanned   BIND_SCANNED: directories timestamp() has asked about       *)
(*   bind      timestamp()'s own table: progress and time of a path        *)
(*   located   explicit_bindings: the target LOCATEd at a path             *)
(* On Unix a scan stats what it lists, so progress is never SPOTTED or     *)
(* MISSING.                                                                *)
(***************************************************************************)
EXTENDS Naturals, Sequences, SequencesExt

CONSTANTS
  Targets, NoTarget,
  Names, FileName,   \* the file name in a target's name, its grist removed
  Dirs, Cwd,         \* directories; Cwd is where a file is that is found nowhere
  KeptDirs,          \* those that exist even when empty
  Locate,            \* LOCATE on the target: its first directory, or none
  SearchPath         \* SEARCH on the target: directories

Paths == Dirs \X Names
At(d, t) == <<d, FileName[t]>>

ASSUME FilesAssumption ==
  /\ NoTarget \notin Targets
  /\ FileName \in [Targets -> Names]
  /\ Cwd \in Dirs /\ KeptDirs \subseteq Dirs
  /\ Locate \in [Targets -> {{}} \cup {{d} : d \in Dirs}]
  /\ SearchPath \in [Targets -> Seq(Dirs)]

NothingKnown ==
  [time    |-> [p \in Paths |-> 0],
   listed  |-> {}, listing |-> [d \in Dirs |-> {}],
   scanned |-> {},
   bind    |-> [p \in Paths |-> [progress |-> "INIT", time |-> 0]],
   located |-> [p \in Paths |-> NoTarget]]

\* The disk is a function from paths to times here, 0 of a missing file.
DirExists(disk, d) == d \in KeptDirs \/ \E n \in Names : disk[<<d, n>>] # 0

\* file_query() of every path in P: only what is not known yet is looked at.
Query(f, disk, P) ==
  [f EXCEPT !.time = [p \in Paths |-> IF p \in P /\ f.time[p] = 0 THEN disk[p] ELSE f.time[p]]]

\* file_dirscan() of every directory in D: it reads each once, if it can.
DirScan(f, disk, D) ==
  LET read  == {d \in D \ f.listed : DirExists(disk, d)}
      there == [d \in Dirs |-> IF d \in read THEN {n \in Names : disk[<<d, n>>] # 0}
                               ELSE f.listing[d]]
  IN  Query([f EXCEPT !.listed = @ \cup read, !.listing = there],
            disk, {p \in Paths : p[1] \in read /\ p[2] \in there[p[1]]})

\* time_enter() of everything seen in the directories D.
Enter(f, D) ==
  [f EXCEPT !.bind = [p \in Paths |->
     IF p[1] \in D /\ p[2] \in f.listing[p[1]]
     THEN [progress |-> "FOUND", time |-> f.time[p]] ELSE f.bind[p]]]

\* Mutant: that a directory was scanned is not noted.
UnscannedOf(f, P) == {p[1] : p \in {q \in P : f.bind[q].progress = "INIT"}}

\* The directories a timestamp() of P has to scan.
ToScan(f, P) == {p[1] : p \in {q \in P : f.bind[q].progress = "INIT"}} \ f.scanned

\* timestamp() of every path in P.
Timestamp(f, disk, P) ==
  LET dirs  == ToScan(f, P)
      asked == [f EXCEPT !.scanned = @ \cup dirs,
                         !.bind = [p \in Paths |->
                           IF p \in P /\ f.bind[p].progress = "INIT"
                           THEN [progress |-> "NOENTRY", time |-> 0] ELSE f.bind[p]]]
  IN  Enter(DirScan(asked, disk, dirs), dirs)

TimeOf(f, p) == IF f.bind[p].progress = "FOUND" THEN f.bind[p].time ELSE 0

\* The places in t's SEARCH where search() would stop: another target was
\* LOCATEd there, or a file_query() finds a file.
Stops(f, disk, t) ==
  {i \in DOMAIN SearchPath[t] :
     LET p == At(SearchPath[t][i], t)
     IN  f.located[p] # NoTarget \/ Query(f, disk, {p}).time[p] # 0}

\* Mutant: the last directory counts.
FarthestOf(S) == CHOOSE i \in S : \A j \in S : i >= j

FirstOf(S) == CHOOSE i \in S : \A j \in S : i <= j

(***************************************************************************)
(* search(): a target with LOCATE is there, whether or not it exists; else *)
(* the first stop along SEARCH; else the plain path.  It queries and times *)
(* every path it passes.                                                   *)
(***************************************************************************)
Search(f, disk, t) ==
  LET stops  == Stops(f, disk, t)
      last   == IF stops = {} THEN Len(SearchPath[t]) ELSE FirstOf(stops)
      passed == {At(SearchPath[t][i], t) : i \in 1..last}
      seen   == Timestamp(Query(f, disk, passed), disk, passed)
      plain  == At(Cwd, t)
      answer(g, p, other) == [files |-> g, path |-> p, time |-> TimeOf(g, p), another |-> other]
  IN  IF Locate[t] # {}
      THEN LET p == At(CHOOSE d \in Locate[t] : TRUE, t)
               g == Timestamp(f, disk, {p})
           IN  answer([g EXCEPT !.located[p] = IF @ = NoTarget THEN t ELSE @], p, NoTarget)
      ELSE IF stops # {}
      THEN LET p == At(SearchPath[t][last], t) IN answer(seen, p, seen.located[p])
      ELSE answer(Timestamp(seen, disk, {plain}), plain, NoTarget)
=============================================================================
