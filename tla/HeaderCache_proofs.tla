------------------------- MODULE HeaderCache_proofs -------------------------
(***************************************************************************)
(* Theorems about search(), the header cache and the runs that use it, for *)
(* all targets, directories, files and patterns, any number of runs, edits *)
(* and crashes.                                                            *)
(***************************************************************************)
EXTENDS HeaderCache, Induction, SequenceTheorems, FiniteSetTheorems

-----------------------------------------------------------------------------
(***************************************************************************)
(* What is known of the files.                                             *)
(***************************************************************************)

\* The tables of Files, with times in T.
Bindings(T) == [progress : {"INIT", "NOENTRY", "FOUND"}, time : T]
FileTables(T) ==
  [time    : [Paths -> T],
   listed  : SUBSET Dirs, listing : [Dirs -> SUBSET Names],
   scanned : SUBSET Dirs,
   bind    : [Paths -> Bindings(T)],
   located : [Paths -> Targets \cup {NoTarget}]]

\* timestamp() has answered for the paths of the directories it has scanned
\* and no others, with the time file_info() has, and knows what is listed.
Agree(f) ==
  /\ \A p \in Paths : f.bind[p].progress # "INIT" => p[1] \in f.scanned
  /\ \A p \in Paths : f.bind[p].progress = "FOUND" => f.time[p] # 0 /\ f.bind[p].time = f.time[p]
  /\ \A p \in Paths : p[2] \in f.listing[p[1]] => f.time[p] # 0

\* What is known of p is so on the disk.
Shows(f, dt, p) ==
  /\ f.time[p] # 0 => f.time[p] = dt[p]
  /\ p[1] \in f.listed /\ dt[p] # 0 => p[2] \in f.listing[p[1]]
  /\ p[1] \in f.scanned /\ dt[p] # 0 => f.bind[p].progress = "FOUND"

\* The tables g know all that f did, and nothing that is not so.
Extends(f, g, dt) ==
  /\ Agree(f) => Agree(g)
  /\ \A p \in Paths : Shows(f, dt, p) => Shows(g, dt, p)
  /\ \A p \in Paths : f.time[p] # 0 => g.time[p] = f.time[p]
  /\ Agree(f) => \A p \in Paths : f.bind[p].progress # "INIT" => g.bind[p] = f.bind[p]

-----------------------------------------------------------------------------
(***************************************************************************)
(* The inductive invariant.                                                *)
(***************************************************************************)

Times == 0..clock

Typed ==
  /\ TypeOK
  /\ files \in FileTables(Times)
  /\ makes \in Nat

\* A process that is not there knows nothing, one that parses has read no cache.
Resting ==
  /\ phase = "off" => Blank
  /\ makes = 0 => /\ \A t \in Targets : fate[t] = "INIT"
                  /\ entries = <<>> /\ phase \in {"off", "parse"}
  /\ todo # {} => phase \in {"make0", "make1"}
  /\ toSave # <<>> => phase = "saving"

\* What a run knows of a file it has not written is so.
FilesTrue ==
  /\ Agree(files)
  /\ \A p \in Paths \ written : Shows(files, DiskTimes, p)

\* explicit_bindings has what is LOCATEd, and after the first
\* bind_explicitly_located_targets() all of it.
LocatedRight ==
  \A p \in Paths : /\ files.located[p] # NoTarget => files.located[p] \in PlacedAt(p)
                   /\ makes > 0 /\ PlacedAt(p) # {} => files.located[p] # NoTarget

\* A target is bound once make0() has visited it, and is not older than the
\* file it is bound to unless that has been written since.
Bound ==
  \A t \in Targets :
    /\ target[t].binding = "UNBOUND" <=> fate[t] = "INIT"
    /\ target[t].binding = "EXISTS" =>
         LET p == target[t].path
         IN  /\ files.bind[p].progress = "FOUND"
             /\ p \notin written => disk[p].time # 0 /\ target[t].time >= disk[p].time
    /\ target[t].binding # "UNBOUND" /\ Locate[t] # {} => target[t].path \in {At(d, t) : d \in Locate[t]}

\* What the patterns of h find among the names c, and what headers() leaves of h.
Finds(h, c) == {n \in c : \E i \in 1..MAXINC : i <= Len(h) /\ n \in Matched[h[i]]}
RestOf(h)   == SubSeq(h, MAXINC + 1, Len(h))

\* An entry has what its file includes, unless the file was written since.
GoodFor(e, files0, now) ==
  /\ e.time <= now
  /\ \E h \in HdrScans :
       /\ e.scan = RestOf(h)
       /\ LET f == files0[e.path]
          IN  f.time # 0 /\ e.time >= f.time => e.includes = Finds(h, f.includes)
Good(e) == GoodFor(e, disk, clock)

EntriesGood ==
  /\ \A i \in DOMAIN entries : Good(entries[i])
  /\ \A i \in DOMAIN toSave : Good(toSave[i])
  /\ \A i \in DOMAIN cacheFile.records : Good(cacheFile.records[i])
  /\ \A p \in Paths : hash[p] # 0 => entries[hash[p]].path = p

\* An entry has aged with every run in which it was not asked for.
Slack == IF makes > 1 \/ phase \notin {"make0", "saving"} THEN 1 ELSE 0
AgedFor(e, lately, slack) == lately[e.path] <= e.age + slack
Aged(e) == AgedFor(e, idle, Slack)
Ages ==
  MaxAge # 0 =>
    /\ \A i \in DOMAIN entries : Aged(entries[i])
    /\ \A i \in DOMAIN toSave : Aged(toSave[i])
    /\ \A i \in DOMAIN cacheFile.records : AgedFor(cacheFile.records[i], idle, 1)
    /\ phase = "saving" =>
         \A i \in DOMAIN cacheFile.records : Aged(cacheFile.records[i]) /\ cacheFile.records[i].age <= MaxAge

IInv == Typed /\ Resting /\ FilesTrue /\ LocatedRight /\ Bound /\ EntriesGood /\ Ages

-----------------------------------------------------------------------------
(***************************************************************************)
(* The operators of Files.                                                 *)
(***************************************************************************)

LEMMA PathsType == \A p \in Paths : p[1] \in Dirs /\ p[2] \in Names /\ p = <<p[1], p[2]>>
BY DEF Paths

LEMMA QueryFields ==
  ASSUME NEW T, NEW f \in FileTables(T), NEW dt \in [Paths -> T], NEW P
  PROVE  /\ Query(f, dt, P) \in FileTables(T)
         /\ \A p \in Paths : Query(f, dt, P).time[p] =
                               IF p \in P /\ f.time[p] = 0 THEN dt[p] ELSE f.time[p]
         /\ Query(f, dt, P).listed = f.listed /\ Query(f, dt, P).listing = f.listing
         /\ Query(f, dt, P).scanned = f.scanned /\ Query(f, dt, P).bind = f.bind
         /\ Query(f, dt, P).located = f.located
BY DEF Query, FileTables

\* The directories a scan reads.
Reads(f, dt, D) == {d \in D \ f.listed : DirExists(dt, d)}

LEMMA DirScanFields ==
  ASSUME NEW T, NEW f \in FileTables(T), NEW dt \in [Paths -> T], NEW D \in SUBSET Dirs
  PROVE  /\ DirScan(f, dt, D) \in FileTables(T)
         /\ DirScan(f, dt, D).listed = f.listed \cup Reads(f, dt, D)
         /\ \A p \in Paths : p[2] \in DirScan(f, dt, D).listing[p[1]] <=>
                               IF p[1] \in Reads(f, dt, D) THEN dt[p] # 0 ELSE p[2] \in f.listing[p[1]]
         /\ \A p \in Paths : DirScan(f, dt, D).time[p] =
                               IF p[1] \in Reads(f, dt, D) /\ dt[p] # 0 /\ f.time[p] = 0 THEN dt[p] ELSE f.time[p]
         /\ DirScan(f, dt, D).scanned = f.scanned /\ DirScan(f, dt, D).bind = f.bind
         /\ DirScan(f, dt, D).located = f.located
<1> DEFINE read  == Reads(f, dt, D)
           there == [d \in Dirs |-> IF d \in read THEN {n \in Names : dt[<<d, n>>] # 0} ELSE f.listing[d]]
           g     == [f EXCEPT !.listed = @ \cup read, !.listing = there]
           P     == {p \in Paths : p[1] \in read /\ p[2] \in there[p[1]]}
<1>1. DirScan(f, dt, D) = Query(g, dt, P)
  BY DEF DirScan, Reads
<1>2. read \subseteq Dirs
  BY DEF Reads
<1>3. there \in [Dirs -> SUBSET Names]
  BY DEF FileTables
<1>4. /\ g \in FileTables(T)
      /\ g.time = f.time /\ g.listed = f.listed \cup read /\ g.listing = there
      /\ g.scanned = f.scanned /\ g.bind = f.bind /\ g.located = f.located
  <2> HIDE DEF read, there
  <2> QED
    BY <1>2, <1>3 DEF FileTables
<1>5. \A p \in Paths : p \in P <=> p[1] \in read /\ dt[p] # 0
  BY PathsType
<1>8. \A p \in Paths : p[2] \in there[p[1]] <=> IF p[1] \in read THEN dt[p] # 0 ELSE p[2] \in f.listing[p[1]]
  <2> HIDE DEF read
  <2> QED
    BY PathsType
<1> HIDE DEF P, g, there
<1>6. \A p \in Paths : Query(g, dt, P).time[p] = IF p \in P /\ g.time[p] = 0 THEN dt[p] ELSE g.time[p]
  BY <1>4, QueryFields
<1>7. /\ Query(g, dt, P) \in FileTables(T)
      /\ Query(g, dt, P).listed = g.listed /\ Query(g, dt, P).listing = g.listing
      /\ Query(g, dt, P).scanned = g.scanned /\ Query(g, dt, P).bind = g.bind
      /\ Query(g, dt, P).located = g.located
  BY <1>4, QueryFields
<1> QED
  BY <1>1, <1>4, <1>5, <1>6, <1>7, <1>8

LEMMA TimestampFields ==
  ASSUME NEW T, 0 \in T, NEW f \in FileTables(T), NEW dt \in [Paths -> T], NEW P \in SUBSET Paths
  PROVE  LET D == ToScan(f, P)
             g == Timestamp(f, dt, P)
         IN  /\ g \in FileTables(T)
             /\ g.listed = f.listed \cup Reads(f, dt, D)
             /\ \A p \in Paths : p[2] \in g.listing[p[1]] <=>
                                   IF p[1] \in Reads(f, dt, D) THEN dt[p] # 0 ELSE p[2] \in f.listing[p[1]]
             /\ \A p \in Paths : g.time[p] =
                                   IF p[1] \in Reads(f, dt, D) /\ dt[p] # 0 /\ f.time[p] = 0 THEN dt[p] ELSE f.time[p]
             /\ g.scanned = f.scanned \cup D
             /\ \A p \in Paths : g.bind[p] =
                  IF p[1] \in D /\ p[2] \in g.listing[p[1]] THEN [progress |-> "FOUND", time |-> g.time[p]]
                  ELSE IF p \in P /\ f.bind[p].progress = "INIT" THEN [progress |-> "NOENTRY", time |-> 0]
                  ELSE f.bind[p]
             /\ g.located = f.located
<1> DEFINE D     == ToScan(f, P)
           asked == [f EXCEPT !.scanned = @ \cup D,
                              !.bind = [p \in Paths |->
                                IF p \in P /\ f.bind[p].progress = "INIT"
                                THEN [progress |-> "NOENTRY", time |-> 0] ELSE f.bind[p]]]
           h == DirScan(asked, dt, D)
           g == Timestamp(f, dt, P)
<1>1. g = Enter(h, D)
  BY DEF Timestamp
<1>2. D \subseteq Dirs
  BY PathsType DEF ToScan
<1>3. [p \in Paths |-> IF p \in P /\ f.bind[p].progress = "INIT"
                       THEN [progress |-> "NOENTRY", time |-> 0] ELSE f.bind[p]] \in [Paths -> Bindings(T)]
  BY DEF FileTables, Bindings
<1> HIDE DEF D
<1>4. /\ asked \in FileTables(T)
      /\ asked.time = f.time /\ asked.listed = f.listed /\ asked.listing = f.listing
      /\ asked.scanned = f.scanned \cup D /\ asked.located = f.located
      /\ \A p \in Paths : asked.bind[p] = IF p \in P /\ f.bind[p].progress = "INIT"
                                          THEN [progress |-> "NOENTRY", time |-> 0] ELSE f.bind[p]
  BY <1>2, <1>3 DEF FileTables
<1>5. Reads(asked, dt, D) = Reads(f, dt, D)
  BY <1>4 DEF Reads
<1> HIDE DEF asked
<1>6. /\ h \in FileTables(T)
      /\ h.listed = f.listed \cup Reads(f, dt, D)
      /\ h.scanned = asked.scanned /\ h.bind = asked.bind /\ h.located = asked.located
  <2>1. /\ h \in FileTables(T)
        /\ h.listed = asked.listed \cup Reads(asked, dt, D)
        /\ h.scanned = asked.scanned /\ h.bind = asked.bind /\ h.located = asked.located
    BY <1>2, <1>4, DirScanFields
  <2> HIDE DEF h
  <2> QED
    BY <1>4, <1>5, <2>1
<1>7. \A p \in Paths : p[2] \in h.listing[p[1]] <=>
        IF p[1] \in Reads(f, dt, D) THEN dt[p] # 0 ELSE p[2] \in f.listing[p[1]]
  <2>1. \A p \in Paths : p[2] \in h.listing[p[1]] <=>
          IF p[1] \in Reads(asked, dt, D) THEN dt[p] # 0 ELSE p[2] \in asked.listing[p[1]]
    BY <1>2, <1>4, DirScanFields
  <2> HIDE DEF h
  <2> QED
    BY <1>4, <1>5, <2>1
<1>8. \A p \in Paths : h.time[p] =
        IF p[1] \in Reads(f, dt, D) /\ dt[p] # 0 /\ f.time[p] = 0 THEN dt[p] ELSE f.time[p]
  <2>1. \A p \in Paths : h.time[p] =
          IF p[1] \in Reads(asked, dt, D) /\ dt[p] # 0 /\ asked.time[p] = 0 THEN dt[p] ELSE asked.time[p]
    BY <1>2, <1>4, DirScanFields
  <2> HIDE DEF h
  <2> QED
    BY <1>4, <1>5, <2>1
<1> HIDE DEF h, g
<1>9. /\ g \in FileTables(T)
      /\ g.listed = h.listed /\ g.listing = h.listing /\ g.time = h.time
      /\ g.scanned = h.scanned /\ g.located = h.located
      /\ \A p \in Paths : g.bind[p] = IF p[1] \in D /\ p[2] \in h.listing[p[1]]
                                      THEN [progress |-> "FOUND", time |-> h.time[p]] ELSE h.bind[p]
  <2>1. [p \in Paths |-> IF p[1] \in D /\ p[2] \in h.listing[p[1]]
                         THEN [progress |-> "FOUND", time |-> h.time[p]] ELSE h.bind[p]] \in [Paths -> Bindings(T)]
    BY <1>6 DEF FileTables, Bindings
  <2> QED
    BY <1>1, <1>6, <2>1 DEF Enter, FileTables
<1> QED
  BY <1>4, <1>6, <1>7, <1>8, <1>9 DEF D, g

\* What a scan of D keeps; D has what there is in it listed.
LEMMA ReadsAll ==
  ASSUME NEW f, NEW dt, NEW D, NEW p \in Paths, p[1] \in D, dt[p] # 0, p[1] \notin f.listed
  PROVE  p[1] \in Reads(f, dt, D)
BY PathsType DEF Reads, DirExists

LEMMA QueryExtends ==
  ASSUME NEW T, NEW f \in FileTables(T), NEW dt \in [Paths -> T], NEW P
  PROVE  Extends(f, Query(f, dt, P), dt)
<1> DEFINE g == Query(f, dt, P)
<1>1. /\ \A p \in Paths : g.time[p] = IF p \in P /\ f.time[p] = 0 THEN dt[p] ELSE f.time[p]
      /\ g.listed = f.listed /\ g.listing = f.listing
      /\ g.scanned = f.scanned /\ g.bind = f.bind
  BY QueryFields
<1> HIDE DEF g
<1> QED
  BY <1>1 DEF Extends, Agree, Shows, g

LEMMA DirScanExtends ==
  ASSUME NEW T, NEW f \in FileTables(T), NEW dt \in [Paths -> T], NEW D \in SUBSET Dirs
  PROVE  Extends(f, DirScan(f, dt, D), dt)
<1> DEFINE g == DirScan(f, dt, D)
           R == Reads(f, dt, D)
<1>1. /\ g.listed = f.listed \cup R
      /\ g.scanned = f.scanned /\ g.bind = f.bind
  BY DirScanFields
<1>3. \A p \in Paths : g.time[p] = IF p[1] \in R /\ dt[p] # 0 /\ f.time[p] = 0 THEN dt[p] ELSE f.time[p]
  BY DirScanFields
<1>4. \A p \in Paths : p[2] \in g.listing[p[1]] <=> IF p[1] \in R THEN dt[p] # 0 ELSE p[2] \in f.listing[p[1]]
  BY DirScanFields
<1>5. R \cap f.listed = {}
  BY DEF Reads
<1> HIDE DEF g, R
<1> QED
  BY <1>1, <1>3, <1>4, <1>5 DEF Extends, Agree, Shows, g

LEMMA TimestampExtends ==
  ASSUME NEW T, 0 \in T, NEW f \in FileTables(T), NEW dt \in [Paths -> T], NEW P \in SUBSET Paths
  PROVE  /\ Extends(f, Timestamp(f, dt, P), dt)
         /\ \A p \in P : Timestamp(f, dt, P).bind[p].progress # "INIT"
<1> DEFINE g == Timestamp(f, dt, P)
           D == ToScan(f, P)
           R == Reads(f, dt, D)
<1>1. /\ g.listed = f.listed \cup R
      /\ g.scanned = f.scanned \cup D
  BY TimestampFields
<1>3. \A p \in Paths : g.time[p] = IF p[1] \in R /\ dt[p] # 0 /\ f.time[p] = 0 THEN dt[p] ELSE f.time[p]
  BY TimestampFields
<1>4. \A p \in Paths : g.bind[p] =
        IF p[1] \in D /\ p[2] \in g.listing[p[1]] THEN [progress |-> "FOUND", time |-> g.time[p]]
        ELSE IF p \in P /\ f.bind[p].progress = "INIT" THEN [progress |-> "NOENTRY", time |-> 0]
        ELSE f.bind[p]
  BY TimestampFields
<1>5. \A p \in Paths : p[2] \in g.listing[p[1]] <=> IF p[1] \in R THEN dt[p] # 0 ELSE p[2] \in f.listing[p[1]]
  BY TimestampFields
<1>6. R \cap f.listed = {} /\ R \subseteq D
  BY DEF Reads
<1>7. \A p \in Paths : p[1] \in D /\ dt[p] # 0 /\ p[1] \notin f.listed => p[1] \in R
  BY ReadsAll
<1>8. /\ D \cap f.scanned = {}
      /\ \A p \in P : f.bind[p].progress = "INIT" => p[1] \in D \cup f.scanned
  BY DEF ToScan
<1> HIDE DEF g, D, R
<1>9. \A p \in P : g.bind[p].progress # "INIT"
  <2> TAKE p \in P
  <2>1. p \in Paths
    OBVIOUS
  <2>2. \/ g.bind[p] = [progress |-> "FOUND", time |-> g.time[p]]
        \/ g.bind[p] = [progress |-> "NOENTRY", time |-> 0]
        \/ g.bind[p] = f.bind[p] /\ f.bind[p].progress # "INIT"
    BY <1>4, <2>1
  <2> QED
    BY <2>2
<1>10. ASSUME Agree(f) PROVE Agree(g)
  <2>1. ASSUME NEW p \in Paths, g.bind[p].progress # "INIT" PROVE p[1] \in g.scanned
    BY <1>1, <1>4, <1>8, <1>10, <2>1 DEF Agree
  <2>2. ASSUME NEW p \in Paths, p[2] \in g.listing[p[1]] PROVE g.time[p] # 0
    BY <1>3, <1>5, <1>10, <2>2 DEF Agree
  <2>3. ASSUME NEW p \in Paths, g.bind[p].progress = "FOUND"
        PROVE  g.time[p] # 0 /\ g.bind[p].time = g.time[p]
    <3>1. \/ p[2] \in g.listing[p[1]] /\ g.bind[p] = [progress |-> "FOUND", time |-> g.time[p]]
          \/ g.bind[p] = [progress |-> "NOENTRY", time |-> 0]
          \/ g.bind[p] = f.bind[p]
      BY <1>4
    <3>2. CASE p[2] \in g.listing[p[1]] /\ g.bind[p] = [progress |-> "FOUND", time |-> g.time[p]]
      BY <2>2, <3>2
    <3>3. CASE g.bind[p] = [progress |-> "NOENTRY", time |-> 0]
      BY <2>3, <3>3
    <3>4. CASE g.bind[p] = f.bind[p]
      <4>1. f.time[p] # 0 /\ f.bind[p].time = f.time[p]
        BY <1>10, <2>3, <3>4 DEF Agree
      <4> QED
        BY <1>3, <3>4, <4>1
    <3> QED
      BY <3>1, <3>2, <3>3, <3>4
  <2> QED
    BY <2>1, <2>2, <2>3 DEF Agree
<1>11. ASSUME NEW p \in Paths, Shows(f, dt, p) PROVE Shows(g, dt, p)
  <2>1. g.time[p] # 0 => g.time[p] = dt[p]
    BY <1>3, <1>11 DEF Shows
  <2>2. p[1] \in g.listed /\ dt[p] # 0 => p[2] \in g.listing[p[1]]
    BY <1>1, <1>5, <1>11 DEF Shows
  <2>3. p[1] \in g.scanned /\ dt[p] # 0 => g.bind[p].progress = "FOUND"
    <3>1. CASE p[1] \in D /\ dt[p] # 0
      <4>1. p[2] \in g.listing[p[1]]
        BY <1>5, <1>7, <1>11, <3>1 DEF Shows
      <4>2. g.bind[p] = [progress |-> "FOUND", time |-> g.time[p]]
        BY <1>4, <3>1, <4>1
      <4> QED
        BY <4>2
    <3>2. CASE p[1] \notin D /\ p[1] \in f.scanned /\ dt[p] # 0
      <4>1. f.bind[p].progress = "FOUND"
        BY <1>11, <3>2 DEF Shows
      <4> QED
        BY <1>4, <3>2, <4>1
    <3> QED
      BY <1>1, <3>1, <3>2
  <2> QED
    BY <2>1, <2>2, <2>3 DEF Shows
<1>12. \A p \in Paths : f.time[p] # 0 => g.time[p] = f.time[p]
  BY <1>3
<1>13. ASSUME Agree(f) PROVE \A p \in Paths : f.bind[p].progress # "INIT" => g.bind[p] = f.bind[p]
  BY <1>4, <1>8, <1>13 DEF Agree
<1> QED
  BY <1>9, <1>10, <1>11, <1>12, <1>13 DEF Extends, g

LEMMA ExtendsTrans ==
  ASSUME NEW f, NEW g, NEW h, NEW dt, Extends(f, g, dt), Extends(g, h, dt)
  PROVE  Extends(f, h, dt)
BY DEF Extends

\* explicit_bindings does not matter for what is known of the files.
LEMMA LocatedExtends ==
  ASSUME NEW f, NEW g, NEW dt,
         g.time = f.time, g.listed = f.listed, g.listing = f.listing,
         g.scanned = f.scanned, g.bind = f.bind
  PROVE  Extends(f, g, dt)
BY DEF Extends, Agree, Shows

LEMMA FirstIsLeast ==
  ASSUME NEW S, S \subseteq Nat, S # {}
  PROVE  FirstOf(S) \in S /\ \A j \in S : FirstOf(S) <= j
<1>1. \E m \in S : \A n \in S : m <= n
  BY LeastOf
<1> QED
  BY <1>1 DEF FirstOf

LEMMA TimeOfType ==
  ASSUME NEW T, 0 \in T, NEW f \in FileTables(T), NEW p \in Paths
  PROVE  TimeOf(f, p) \in T
BY DEF TimeOf, FileTables, Bindings

LEMMA AtType ==
  ASSUME NEW d \in Dirs, NEW t \in Targets
  PROVE  At(d, t) \in Paths
BY FilesAssumption DEF At, Paths

\* The place a target is LOCATEd at.
PlaceOf(t) == At(CHOOSE d \in Locate[t] : TRUE, t)

LEMMA PlaceType ==
  ASSUME NEW t \in Targets, Locate[t] # {}
  PROVE  /\ PlaceOf(t) \in Paths
         /\ \E d \in Dirs : Locate[t] = {d} /\ PlaceOf(t) = At(d, t)
<1>1. PICK d \in Dirs : Locate[t] = {d}
  BY FilesAssumption
<1>2. (CHOOSE x \in Locate[t] : TRUE) = d
  BY <1>1
<1> QED
  BY <1>1, <1>2, AtType DEF PlaceOf

LEMMA PlacedAtIs ==
  ASSUME NEW p
  PROVE  PlacedAt(p) = {t \in Targets : Locate[t] # {} /\ PlaceOf(t) = p}
<1>1. ASSUME NEW t \in Targets PROVE (\E d \in Locate[t] : At(d, t) = p) <=> Locate[t] # {} /\ PlaceOf(t) = p
  <2>1. CASE Locate[t] = {}
    BY <2>1
  <2>2. CASE Locate[t] # {}
    BY <2>2, PlaceType
  <2> QED
    BY <2>1, <2>2
<1> QED
  BY <1>1 DEF PlacedAt

\* search() of a target with LOCATE.
LEMMA SearchLocated ==
  ASSUME NEW T, 0 \in T, NEW f \in FileTables(T), NEW dt \in [Paths -> T],
         NEW t \in Targets, Locate[t] # {}
  PROVE  LET s == Search(f, dt, t)
             p == PlaceOf(t)
         IN  /\ s.files \in FileTables(T) /\ s.path = p /\ s.another = NoTarget
             /\ s.time = TimeOf(s.files, p)
             /\ Extends(f, s.files, dt)
             /\ \A q \in Paths : s.files.located[q] =
                                   IF q = p /\ f.located[q] = NoTarget THEN t ELSE f.located[q]
<1> DEFINE p == PlaceOf(t)
           g == Timestamp(f, dt, {p})
           h == [g EXCEPT !.located[p] = IF @ = NoTarget THEN t ELSE @]
<1>1. p \in Paths
  BY PlaceType
<1>2. /\ g \in FileTables(T) /\ g.located = f.located
      /\ Extends(f, g, dt)
  BY <1>1, TimestampFields, TimestampExtends
<1>3. Search(f, dt, t) = [files |-> h, path |-> p, time |-> TimeOf(h, p), another |-> NoTarget]
  BY DEF Search, PlaceOf
<1> HIDE DEF p, g
<1>4. [g.located EXCEPT ![p] = IF @ = NoTarget THEN t ELSE @] \in [Paths -> Targets \cup {NoTarget}]
  BY <1>1, <1>2 DEF FileTables
<1>5. /\ h.time = g.time /\ h.listed = g.listed /\ h.listing = g.listing
      /\ h.scanned = g.scanned /\ h.bind = g.bind
      /\ h.located = [g.located EXCEPT ![p] = IF @ = NoTarget THEN t ELSE @]
      /\ h \in FileTables(T)
  BY <1>1, <1>2, <1>4 DEF FileTables
<1>6. \A q \in Paths : h.located[q] = IF q = p /\ f.located[q] = NoTarget THEN t ELSE f.located[q]
  BY <1>1, <1>2, <1>5 DEF FileTables
<1> HIDE DEF h
<1>7. Extends(f, h, dt)
  BY <1>2, <1>5, LocatedExtends, ExtendsTrans
<1> DEFINE s == Search(f, dt, t)
<1>8. s.files = h /\ s.path = p /\ s.time = TimeOf(h, p) /\ s.another = NoTarget
  <2> HIDE DEF s
  <2> QED
    BY <1>3 DEF s
<1> HIDE DEF s
<1>9. s.time = TimeOf(s.files, p)
  BY <1>8
<1> QED
  BY <1>5, <1>6, <1>7, <1>8, <1>9 DEF p, s

\* search() of a target without.
LEMMA SearchAlong ==
  ASSUME NEW T, 0 \in T, NEW f \in FileTables(T), NEW dt \in [Paths -> T],
         NEW t \in Targets, Locate[t] = {}
  PROVE  LET s     == Search(f, dt, t)
             stops == Stops(f, dt, t)
         IN  /\ s.files \in FileTables(T) /\ s.path \in Paths
             /\ s.time = TimeOf(s.files, s.path)
             /\ Extends(f, s.files, dt)
             /\ s.files.bind[s.path].progress # "INIT"
             /\ s.files.located = f.located
             /\ stops = {} => s.path = At(Cwd, t) /\ s.another = NoTarget
             /\ stops # {} => /\ FirstOf(stops) \in stops /\ \A j \in stops : FirstOf(stops) <= j
                              /\ s.path = At(SearchPath[t][FirstOf(stops)], t)
                              /\ s.another = f.located[s.path]
<1> DEFINE stops  == Stops(f, dt, t)
           last   == IF stops = {} THEN Len(SearchPath[t]) ELSE FirstOf(stops)
           passed == {At(SearchPath[t][i], t) : i \in 1..last}
           seen   == Timestamp(Query(f, dt, passed), dt, passed)
           plain  == At(Cwd, t)
           there  == At(SearchPath[t][last], t)
           other  == Timestamp(seen, dt, {plain})
<1>1. SearchPath[t] \in Seq(Dirs)
  BY FilesAssumption
<1>2. stops \subseteq 1..Len(SearchPath[t]) /\ stops \subseteq Nat
  BY <1>1 DEF Stops
<1>3. stops # {} => FirstOf(stops) \in stops /\ \A j \in stops : FirstOf(stops) <= j
  <2> HIDE DEF stops
  <2> QED
    BY <1>2, FirstIsLeast
<1>4. last \in 0..Len(SearchPath[t])
  <2>1. Len(SearchPath[t]) \in Nat
    BY <1>1
  <2>2. CASE stops = {}
    BY <2>1, <2>2
  <2>3. CASE stops # {}
    <3> HIDE DEF stops
    <3>1. FirstOf(stops) \in 1..Len(SearchPath[t])
      BY <1>2, <1>3, <2>3
    <3>2. last = FirstOf(stops)
      BY <2>3
    <3> QED
      BY <2>1, <3>1, <3>2
  <2> QED
    BY <2>2, <2>3
<1>5. plain \in Paths
  BY AtType, FilesAssumption
<1>6. passed \in SUBSET Paths
  <2> HIDE DEF last
  <2>1. ASSUME NEW i \in 1..last PROVE At(SearchPath[t][i], t) \in Paths
    <3>1. SearchPath[t][i] \in Dirs
      BY <1>1, <1>4
    <3> QED
      BY <3>1, AtType
  <2> QED
    BY <2>1
<1>7. stops # {} => there \in passed
  <2>1. ASSUME stops # {} PROVE last \in 1..last
    <3> HIDE DEF stops
    <3>1. FirstOf(stops) \in 1..Len(SearchPath[t])
      BY <1>2, <1>3, <2>1
    <3>2. last = FirstOf(stops)
      BY <2>1
    <3> QED
      BY <3>1, <3>2
  <2> HIDE DEF stops, last
  <2> QED
    BY <2>1
<1>8. Search(f, dt, t) =
        IF stops # {}
        THEN [files |-> seen, path |-> there, time |-> TimeOf(seen, there), another |-> seen.located[there]]
        ELSE [files |-> other, path |-> plain, time |-> TimeOf(other, plain), another |-> NoTarget]
  BY DEF Search
<1> HIDE DEF passed, stops, last, plain
<1>9. /\ Query(f, dt, passed) \in FileTables(T)
      /\ Query(f, dt, passed).located = f.located
      /\ Extends(f, Query(f, dt, passed), dt)
  BY QueryFields, QueryExtends
<1>10. /\ seen \in FileTables(T) /\ seen.located = f.located
       /\ Extends(f, seen, dt)
       /\ \A p \in passed : seen.bind[p].progress # "INIT"
  BY <1>6, <1>9, TimestampFields, TimestampExtends, ExtendsTrans
<1> HIDE DEF seen
<1>11. {plain} \in SUBSET Paths
  BY <1>5
<1>12. /\ other \in FileTables(T) /\ other.located = f.located
       /\ Extends(f, other, dt)
       /\ other.bind[plain].progress # "INIT"
  BY <1>10, <1>11, TimestampFields, TimestampExtends, ExtendsTrans
<1> HIDE DEF other, there
<1>13. CASE stops # {}
  <2>1. there \in Paths
    BY <1>6, <1>7, <1>13
  <2>2. last = FirstOf(stops)
    BY <1>13 DEF last
  <2> QED
    BY <1>3, <1>7, <1>8, <1>10, <1>13, <2>1, <2>2 DEF there, stops
<1>14. CASE stops = {}
  BY <1>5, <1>8, <1>12, <1>14 DEF plain, stops
<1> QED
  BY <1>13, <1>14

-----------------------------------------------------------------------------
(***************************************************************************)
(* What make0() computes over the graph.                                   *)
(***************************************************************************)

LEMMA ReachedType ==
  ASSUME NEW S \in SUBSET Targets, \A t \in Targets : target[t].includes \subseteq Targets
  PROVE  Reached(S) \subseteq Targets
<1> DEFINE n == Cardinality(Targets)
           Step(g, k) == IF k = 0 THEN S
                         ELSE g[k - 1] \cup UNION {Sources[d] \cup target[d].includes : d \in g[k - 1]}
           Upto(k, g) == g = [i \in 0..k |-> Step(g, i)]
           r == CHOOSE g : Upto(n, g)
<1>1. n \in Nat
  BY HeaderCacheAssumption, FS_CardinalityType
<1>2. \E g : Upto(n, g)
  <2> DEFINE K == {k \in Nat : \E g : Upto(k, g)}
  <2>1. 0 \in K
    <3>1. Upto(0, [i \in 0..0 |-> S])
      OBVIOUS
    <3> QED
      BY <3>1
  <2>2. ASSUME NEW k \in Nat, k \in K PROVE k + 1 \in K
    <3>1. PICK g : Upto(k, g)
      BY <2>2
    <3> DEFINE h == [i \in 0..(k + 1) |-> IF i = k + 1 THEN Step(g, k + 1) ELSE g[i]]
    <3>2. ASSUME NEW i \in 0..(k + 1) PROVE h[i] = Step(h, i)
      <4>1. CASE i = k + 1
        <5>1. h[i - 1] = g[i - 1]
          BY <4>1
        <5> QED
          BY <4>1, <5>1
      <4>2. CASE i # k + 1
        <5>1. i \in 0..k /\ (i # 0 => h[i - 1] = g[i - 1])
          BY <4>2
        <5>2. g[i] = Step(g, i)
          BY <3>1, <5>1
        <5> QED
          BY <4>2, <5>1, <5>2
      <4> QED
        BY <4>1, <4>2
    <3>3. h = [i \in 0..(k + 1) |-> h[i]]
      OBVIOUS
    <3> HIDE DEF h, Step
    <3>4. h = [i \in 0..(k + 1) |-> Step(h, i)]
      BY <3>2, <3>3
    <3> QED
      BY <3>4
  <2> HIDE DEF K
  <2>3. \A k \in Nat : k \in K
    BY <2>1, <2>2, SetInduction
  <2>4. n \in K
    BY <1>1, <2>3
  <2> HIDE DEF Upto, n
  <2> QED
    BY <2>4 DEF K
<1>3. r = [i \in 0..n |-> Step(r, i)]
  <2> HIDE DEF Step
  <2> QED
    BY <1>2
<1>4. Reached(S) = r[n]
  BY DEF Reached
<1> HIDE DEF r
<1> DEFINE K == {k \in Nat : k <= n => r[k] \subseteq Targets}
<1>5. 0 \in K
  BY <1>1, <1>3
<1>6. ASSUME NEW k \in Nat, k \in K PROVE k + 1 \in K
  <2>1. SUFFICES ASSUME k + 1 <= n PROVE r[k + 1] \subseteq Targets
    OBVIOUS
  <2>2. k + 1 \in 0..n /\ k + 1 # 0 /\ (k + 1) - 1 = k /\ k <= n
    BY <1>1, <2>1
  <2>3. r[k] \subseteq Targets
    BY <1>6, <2>2
  <2>4. r[k + 1] = Step(r, k + 1)
    BY <1>3, <2>2
  <2>5. r[k + 1] = r[k] \cup UNION {Sources[d] \cup target[d].includes : d \in r[k]}
    BY <2>2, <2>4
  <2>6. \A d \in r[k] : Sources[d] \cup target[d].includes \subseteq Targets
    BY <2>3, HeaderCacheAssumption
  <2> QED
    BY <2>3, <2>5, <2>6
<1> HIDE DEF K
<1>7. \A k \in Nat : k \in K
  BY <1>5, <1>6, SetInduction
<1> QED
  BY <1>1, <1>4, <1>7 DEF K

LEMMA LatestType ==
  ASSUME Typed, NEW S \in SUBSET Targets, S # {}
  PROVE  Latest(S) \in Times /\ \A d \in S : Latest(S) >= target[d].time
<1> DEFINE times == {target[d].time : d \in S}
<1>1. clock \in Nat /\ \A d \in S : target[d].time \in 0..clock
  BY DEF Typed, TypeOK
<1>2. times \subseteq Nat /\ times # {} /\ \A x \in times : x <= clock
  BY <1>1
<1>3. \E m \in times : \A n \in times : m >= n
  <2> HIDE DEF times
  <2> QED
    BY <1>1, <1>2, GreatestOf
<1>4. Latest(S) \in times /\ \A n \in times : Latest(S) >= n
  BY <1>3 DEF Latest
<1> QED
  BY <1>1, <1>4 DEF Times

LEMMA BehindType ==
  ASSUME Typed, NEW t \in Targets
  PROVE  {t} \cup Behind(t) \in SUBSET Targets
<1>1. Sources[t] \in SUBSET Targets
  BY HeaderCacheAssumption
<1>2. \A u \in Targets : target[u].includes \subseteq Targets
  BY DEF Typed, TypeOK
<1> QED
  BY <1>1, <1>2, ReachedType DEF Behind

-----------------------------------------------------------------------------
(***************************************************************************)
(* What the steps do to the cache.                                         *)
(***************************************************************************)

LEMMA TimesType ==
  ASSUME Typed
  PROVE  /\ clock \in Nat /\ 0 \in Times /\ Times \subseteq Nat
         /\ DiskTimes \in [Paths -> Times]
         /\ \A p \in Paths : DiskTimes[p] = disk[p].time
<1>1. clock \in Nat /\ \A p \in Paths : disk[p].time \in 0..clock
  BY DEF Typed, TypeOK
<1> QED
  BY <1>1 DEF DiskTimes, Times

\* What is read of a cache file are its first records.
LEMMA ReadableIs ==
  ASSUME NEW recs \in Seq(Records)
  PROVE  /\ Readable(recs) \in Seq(Records)
         /\ Len(Readable(recs)) <= Len(recs)
         /\ \A i \in 1..Len(Readable(recs)) : Readable(recs)[i] = recs[i]
<1> DEFINE R == Repeated(recs)
<1>1. Len(recs) \in Nat /\ R \subseteq 1..Len(recs)
  BY DEF Repeated
<1> HIDE DEF R
<1>2. CASE R = {}
  BY <1>2 DEF Readable, R
<1>3. CASE R # {}
  <2>0. R \subseteq Nat
    BY <1>1
  <2>1. FirstOf(R) \in 1..Len(recs)
    BY <1>1, <1>3, <2>0, FirstIsLeast
  <2> DEFINE n == FirstOf(R) - 1
  <2>2. n \in 0..Len(recs) /\ n <= Len(recs)
    BY <1>1, <2>1
  <2>3. Readable(recs) = SubSeq(recs, 1, n)
    BY <1>3 DEF Readable, R
  <2> HIDE DEF n
  <2>4. /\ SubSeq(recs, 1, n) \in Seq(Records) /\ Len(SubSeq(recs, 1, n)) = n
        /\ \A i \in 1..n : SubSeq(recs, 1, n)[i] = recs[i]
    BY <1>1, <2>2
  <2> QED
    BY <2>2, <2>3, <2>4
<1> QED
  BY <1>2, <1>3

\* hcache_init(): the entries there were, and the records read, a run older.
Older(e) == [e EXCEPT !.age = @ + 1]

LEMMA ReadCacheIs ==
  ASSUME Typed, ReadCache
  PROVE  /\ entries' \in Seq(Records)
         /\ \A i \in DOMAIN entries' :
              \/ i \in DOMAIN entries /\ entries'[i] = entries[i]
              \/ \E j \in DOMAIN cacheFile.records : entries'[i] = Older(cacheFile.records[j])
         /\ hash' \in [Paths -> 0..Len(entries')]
         /\ \A p \in Paths : hash'[p] # 0 => hash'[p] \in DOMAIN entries' /\ entries'[hash'[p]].path = p
<1> DEFINE recs == Readable(cacheFile.records)
           older == [i \in DOMAIN recs |-> Older(recs[i])]
           n == Len(entries)
<1>1. entries \in Seq(Records) /\ cacheFile.records \in Seq(Records)
  BY DEF Typed, TypeOK
<1>2. /\ recs \in Seq(Records) /\ Len(recs) <= Len(cacheFile.records)
      /\ \A i \in 1..Len(recs) : recs[i] = cacheFile.records[i]
  BY <1>1, ReadableIs
<1>3. entries' = entries \o older
  BY DEF ReadCache, Older
<1>4. \A p \in Paths : /\ (\E i \in DOMAIN recs : recs[i].path = p)
                            => hash'[p] = n + CHOOSE i \in DOMAIN recs : recs[i].path = p
                       /\ ~(\E i \in DOMAIN recs : recs[i].path = p) => hash'[p] = 0
  BY DEF ReadCache
<1>5. DOMAIN hash' = Paths /\ hash' = [p \in Paths |-> hash'[p]]
  BY DEF ReadCache
<1> HIDE DEF recs
<1>6. \A e \in Records : Older(e) \in Records /\ Older(e).path = e.path
  BY DEF Older, Records
<1>7. /\ older \in Seq(Records) /\ Len(older) = Len(recs)
      /\ \A i \in 1..Len(recs) : older[i] = Older(recs[i])
  BY <1>2, <1>6
<1> HIDE DEF older
<1>8. /\ entries' \in Seq(Records) /\ Len(entries') = n + Len(recs)
      /\ \A i \in 1..n : entries'[i] = entries[i]
      /\ \A i \in 1..Len(recs) : entries'[n + i] = older[i]
      /\ n \in Nat /\ Len(recs) \in Nat
  <2> DEFINE all == entries \o older
  <2>1. /\ all \in Seq(Records) /\ Len(all) = Len(entries) + Len(older)
        /\ \A i \in 1..(Len(entries) + Len(older)) :
             all[i] = IF i <= Len(entries) THEN entries[i] ELSE older[i - Len(entries)]
    BY <1>1, <1>7, ConcatProperties
  <2>2. n \in Nat /\ Len(recs) \in Nat /\ Len(older) = Len(recs) /\ entries' = all
    BY <1>1, <1>2, <1>3, <1>7
  <2> HIDE DEF all
  <2>3. ASSUME NEW i \in 1..n PROVE entries'[i] = entries[i]
    BY <2>1, <2>2
  <2>4. ASSUME NEW i \in 1..Len(recs) PROVE entries'[n + i] = older[i]
    <3>1. n + i \in 1..(n + Len(recs)) /\ ~(n + i <= n) /\ (n + i) - n = i
      BY <2>2
    <3> QED
      BY <2>1, <2>2, <3>1
  <2> QED
    BY <2>1, <2>2, <2>3, <2>4
<1>9. ASSUME NEW i \in DOMAIN entries'
      PROVE  \/ i \in DOMAIN entries /\ entries'[i] = entries[i]
             \/ \E j \in DOMAIN cacheFile.records : entries'[i] = Older(cacheFile.records[j])
  <2>1. i \in 1..(n + Len(recs))
    BY <1>8
  <2>2. CASE i \in 1..n
    BY <1>1, <1>8, <2>2
  <2>3. CASE i \notin 1..n
    <3>1. i - n \in 1..Len(recs) /\ n + (i - n) = i
      BY <1>8, <2>1, <2>3
    <3>2. entries'[i] = Older(recs[i - n])
      BY <1>7, <1>8, <3>1
    <3>3. i - n \in DOMAIN cacheFile.records /\ recs[i - n] = cacheFile.records[i - n]
      BY <1>1, <1>2, <1>8, <3>1
    <3> QED
      BY <3>2, <3>3
  <2> QED
    BY <2>2, <2>3
<1>10. ASSUME NEW p \in Paths
       PROVE  /\ hash'[p] \in 0..Len(entries')
              /\ hash'[p] # 0 => hash'[p] \in DOMAIN entries' /\ entries'[hash'[p]].path = p
  <2>1. CASE \E i \in DOMAIN recs : recs[i].path = p
    <3> DEFINE i == CHOOSE i \in DOMAIN recs : recs[i].path = p
    <3>1. i \in DOMAIN recs /\ recs[i].path = p /\ hash'[p] = n + i
      BY <1>4, <2>1
    <3> HIDE DEF i
    <3>2. i \in 1..Len(recs)
      BY <1>2, <3>1
    <3>3. n + i \in 1..Len(entries') /\ n + i \in DOMAIN entries'
      BY <1>8, <3>2
    <3>4. entries'[n + i] = Older(recs[i]) /\ recs[i] \in Records
      BY <1>2, <1>7, <1>8, <3>2
    <3> QED
      BY <1>6, <3>1, <3>3, <3>4
  <2>2. CASE ~\E i \in DOMAIN recs : recs[i].path = p
    BY SMTT(30), <1>4, <1>8, <2>2
  <2> QED
    BY <2>1, <2>2
<1>11. hash' \in [Paths -> 0..Len(entries')]
  BY <1>5, <1>10
<1> QED
  BY <1>8, <1>9, <1>10, <1>11

\* What hcache() answers is a set of names.
LEMMA CachedType ==
  ASSUME Typed, NEW p \in Paths, NEW time
  PROVE  Cached(p, time) \in SUBSET Names
<1>1. entries \in Seq(Records) /\ hash[p] \in 0..Len(entries)
  BY DEF Typed, TypeOK
<1>2. disk[p].includes \subseteq Names
  BY DEF Typed, TypeOK
<1>3. CASE Hit(p, time)
  <2>1. hash[p] \in 1..Len(entries)
    BY <1>1, <1>3 DEF Hit
  <2>2. entries[hash[p]] \in Records
    BY <1>1, <2>1
  <2> QED
    BY <1>3, <2>2 DEF Cached, Records
<1>4. CASE ~Hit(p, time)
  BY <1>2, <1>4 DEF Cached, InFile
<1> QED
  BY <1>3, <1>4

LEMMA RestType ==
  ASSUME NEW h \in HdrScans
  PROVE  RestOf(h) \in Seq(DOMAIN Matched)
<1>1. h \in Seq(DOMAIN Matched) /\ MAXINC \in Nat
  BY HeaderCacheAssumption
<1>2. Len(h) \in Nat
  BY <1>1
<1>3. MAXINC + 1 \in 1..(Len(h) + 1) \/ MAXINC + 1 > Len(h)
  BY <1>1, <1>2
<1>4. \A i \in (MAXINC + 1)..Len(h) : i \in 1..Len(h)
  BY <1>1, <1>2
<1> QED
  BY <1>1, <1>2, <1>4 DEF RestOf

\* hcache(): p has one entry more, or its entry is another one now.
NewEntry(p, time) == [path |-> p, time |-> time, age |-> 0, includes |-> Cached(p, time), scan |-> Rest]

LEMMA AskIs ==
  ASSUME Typed, NEW p \in Paths, NEW time \in Nat, Ask(p, time)
  PROVE  /\ NewEntry(p, time) \in Records
         /\ entries' \in Seq(Records)
         /\ \A i \in DOMAIN entries' :
              \/ entries'[i] = NewEntry(p, time)
              \/ i \in DOMAIN entries /\ entries'[i] = entries[i]
         /\ hash' \in [Paths -> 0..Len(entries')]
         /\ (\A q \in Paths : hash[q] # 0 => entries[hash[q]].path = q)
              => \A q \in Paths : hash'[q] # 0 => entries'[hash'[q]].path = q
         /\ idle' \in [Paths -> Nat] /\ idle' = [idle EXCEPT ![p] = 0]
<1> DEFINE e == NewEntry(p, time)
           n == Len(entries)
<1>1. /\ entries \in Seq(Records) /\ hash \in [Paths -> 0..n] /\ idle \in [Paths -> Nat]
      /\ hdrscan \in HdrScans /\ n \in Nat
  BY DEF Typed, TypeOK
<1>2. e \in Records
  BY <1>1, CachedType, RestType DEF NewEntry, Records, Rest, RestOf
<1>3. e.path = p
  BY DEF NewEntry
<1>4. /\ hash[p] = 0 => entries' = Append(entries, e) /\ hash' = [hash EXCEPT ![p] = n + 1]
      /\ hash[p] # 0 => entries' = [entries EXCEPT ![hash[p]] = e] /\ hash' = hash
      /\ idle' = [idle EXCEPT ![p] = 0]
  BY DEF Ask, NewEntry
<1> HIDE DEF e
<1>5. CASE hash[p] = 0
  <2>1. /\ entries' \in Seq(Records) /\ Len(entries') = n + 1
        /\ \A i \in 1..n : entries'[i] = entries[i]
        /\ entries'[n + 1] = e
    <3> DEFINE all == Append(entries, e)
    <3>1. /\ all \in Seq(Records) /\ Len(all) = n + 1
          /\ \A i \in 1..n : all[i] = entries[i]
          /\ all[n + 1] = e
      BY <1>1, <1>2, AppendProperties
    <3>2. entries' = all
      BY <1>4, <1>5
    <3> HIDE DEF all
    <3> QED
      BY <3>1, <3>2
  <2>2. hash' \in [Paths -> 0..Len(entries')]
    BY <1>1, <1>4, <1>5, <2>1
  <2>3. \A i \in DOMAIN entries' : entries'[i] = e \/ (i \in DOMAIN entries /\ entries'[i] = entries[i])
    BY SMTT(30), <1>1, <2>1
  <2>4. ASSUME \A q \in Paths : hash[q] # 0 => entries[hash[q]].path = q
        PROVE  \A q \in Paths : hash'[q] # 0 => entries'[hash'[q]].path = q
    <3>1. TAKE q \in Paths
    <3>2. CASE q = p
      BY <1>1, <1>3, <1>4, <1>5, <2>1, <3>2
    <3>3. CASE q # p
      <4>1. hash'[q] = hash[q] /\ hash[q] \in 0..n
        BY <1>1, <1>4, <1>5, <3>3
      <4> QED
        BY <1>1, <2>1, <2>4, <4>1
    <3> QED
      BY <3>2, <3>3
  <2> QED
    BY <1>1, <1>2, <1>4, <2>1, <2>2, <2>3, <2>4 DEF e
<1>6. CASE hash[p] # 0
  <2>1. hash[p] \in 1..n
    BY <1>1, <1>6
  <2>2. /\ entries' \in Seq(Records) /\ Len(entries') = n
        /\ \A i \in 1..n : entries'[i] = IF i = hash[p] THEN e ELSE entries[i]
    <3> DEFINE k == hash[p]
               all == [entries EXCEPT ![k] = e]
    <3>1. k \in 1..Len(entries)
      BY <2>1
    <3>2. entries' = all
      BY <1>4, <1>6
    <3> HIDE DEF k
    <3>3. /\ all \in Seq(Records) /\ Len(all) = n
          /\ \A i \in 1..n : all[i] = IF i = k THEN e ELSE entries[i]
      BY <1>1, <1>2, <3>1, ExceptSeq
    <3> HIDE DEF all
    <3> QED
      BY <3>2, <3>3 DEF k
  <2>3. hash' \in [Paths -> 0..Len(entries')]
    BY <1>1, <1>4, <1>6, <2>2
  <2>4. \A i \in DOMAIN entries' : entries'[i] = e \/ (i \in DOMAIN entries /\ entries'[i] = entries[i])
    BY <1>1, <2>2
  <2>5. ASSUME \A q \in Paths : hash[q] # 0 => entries[hash[q]].path = q
        PROVE  \A q \in Paths : hash'[q] # 0 => entries'[hash'[q]].path = q
    <3>1. TAKE q \in Paths
    <3>2. hash[q] \in 0..n /\ hash' = hash
      BY <1>1, <1>4, <1>6
    <3>3. CASE hash[q] = hash[p] /\ hash[q] # 0
      <4>1. q = p
        BY <2>5, <3>3
      <4> QED
        BY <1>3, <2>1, <2>2, <3>2, <3>3, <4>1
    <3>4. CASE hash[q] # hash[p] \/ hash[q] = 0
      BY <2>2, <2>5, <3>2, <3>4
    <3> QED
      BY <3>3, <3>4
  <2> QED
    BY <1>1, <1>2, <1>4, <2>2, <2>3, <2>4, <2>5 DEF e
<1> QED
  BY <1>5, <1>6

\* hcache_done(): the entries, the newest first.
LEMMA RenewedIs ==
  ASSUME NEW es \in Seq(Records)
  PROVE  /\ Renewed(es) \in Seq(Records) /\ Len(Renewed(es)) = Len(es)
         /\ \A i \in 1..Len(es) : Renewed(es)[i] = IF MaxAge = 0 THEN [es[i] EXCEPT !.age = 0] ELSE es[i]
<1> DEFINE f(e) == [e EXCEPT !.age = 0]
           fs == [i \in DOMAIN es |-> f(es[i])]
<1>1. \A e \in Records : f(e) \in Records
  BY DEF Records
<1>2. fs \in Seq(Records) /\ Len(fs) = Len(es) /\ \A i \in 1..Len(es) : fs[i] = f(es[i])
  <2> HIDE DEF f
  <2> QED
    BY <1>1
<1> QED
  BY <1>2 DEF Renewed

LEMMA ReverseIs ==
  ASSUME NEW S, NEW s \in Seq(S)
  PROVE  /\ Reverse(s) \in Seq(S)
         /\ \A i \in DOMAIN Reverse(s) : \E j \in DOMAIN s : Reverse(s)[i] = s[j]
<1>1. Len(s) \in Nat /\ DOMAIN s = 1..Len(s)
  OBVIOUS
<1>2. \A i \in 1..Len(s) : Len(s) - i + 1 \in 1..Len(s)
  BY <1>1
<1>3. Reverse(s) = [i \in 1..Len(s) |-> s[Len(s) - i + 1]]
  BY DEF Reverse
<1>4. \A i \in 1..Len(s) : s[Len(s) - i + 1] \in S
  BY <1>2
<1> QED
  BY <1>1, <1>2, <1>3, <1>4

-----------------------------------------------------------------------------
(***************************************************************************)
(* Type correctness.                                                       *)
(***************************************************************************)

TargetTable(T) == [path : Paths, time : T, includes : SUBSET Targets,
                   binding : {"UNBOUND", "MISSING", "EXISTS"}]

LEMMA UnboundType ==
  ASSUME NEW T, 0 \in T
  PROVE  Unbound \in TargetTable(T) /\ Unbound.binding = "UNBOUND" /\ Unbound.includes = {}
<1>1. (CHOOSE t \in Targets : TRUE) \in Targets
  BY HeaderCacheAssumption
<1>2. At(Cwd, CHOOSE t \in Targets : TRUE) \in Paths
  BY <1>1, AtType, FilesAssumption
<1> QED
  BY <1>2 DEF Unbound, TargetTable

LEMMA NothingKnownType ==
  ASSUME NEW T, 0 \in T
  PROVE  NothingKnown \in FileTables(T)
BY DEF NothingKnown, FileTables, Bindings

LEMMA FileTablesGrow ==
  ASSUME NEW T, NEW U, T \subseteq U
  PROVE  FileTables(T) \subseteq FileTables(U)
<1>1. Bindings(T) \subseteq Bindings(U)
  BY DEF Bindings
<1>2. [Paths -> T] \subseteq [Paths -> U] /\ [Paths -> Bindings(T)] \subseteq [Paths -> Bindings(U)]
  BY <1>1
<1> QED
  BY <1>2 DEF FileTables

\* What Typed says, variable by variable.
TypedDisk == /\ clock \in Nat
             /\ disk \in [Paths -> [time : Times, includes : SUBSET Names]]
             /\ cacheFile \in [records : Seq(Records), end : {"whole", "cut", "atScan"}]
             /\ hdrscan \in HdrScans
             /\ phase \in {"off", "parse", "make0", "saving", "make1"}
TypedTargets == /\ files \in FileTables(Times)
                /\ target \in [Targets -> TargetTable(Times)]
                /\ fate \in [Targets -> {"INIT", "MAKING", "STABLE", "BUILD"}]
                /\ todo \subseteq Targets /\ done \subseteq Targets
                /\ rescanned \subseteq Targets \X {"file", "node"}
                /\ written \subseteq Paths
TypedCache == /\ entries \in Seq(Records) /\ toSave \in Seq(Records)
              /\ hash \in [Paths -> 0..Len(entries)]
              /\ idle \in [Paths -> Nat]
              /\ makes \in Nat

LEMMA TypedParts == Typed <=> TypedDisk /\ TypedTargets /\ TypedCache
BY DEF Typed, TypeOK, TypedDisk, TypedTargets, TypedCache, Times, TargetTable

LEMMA TypedPrime == TypedDisk' /\ TypedTargets' /\ TypedCache' => Typed'
<1>1. (TypedDisk /\ TypedTargets /\ TypedCache => Typed)'
  BY TypedParts, PTL
<1> QED
  BY <1>1

LEMMA TimesGrow ==
  ASSUME clock \in Nat, clock' = clock \/ clock' = clock + 1
  PROVE  /\ clock' \in Nat /\ Times \subseteq Times' /\ clock' \in Times'
         /\ FileTables(Times) \subseteq FileTables(Times)'
         /\ TargetTable(Times) \subseteq TargetTable(Times)'
<1>1. clock' \in Nat /\ Times \subseteq Times' /\ clock' \in Times'
  BY DEF Times
<1>2. FileTables(Times) \subseteq FileTables(Times')
  BY <1>1, FileTablesGrow
<1>3. TargetTable(Times) \subseteq TargetTable(Times')
  BY <1>1 DEF TargetTable
<1> QED
  BY <1>1, <1>2, <1>3 DEF FileTables, TargetTable, Bindings

\* What a process starts with.
LEMMA BlankTyped == Blank /\ clock \in Nat /\ idle \in [Paths -> Nat] => TypedTargets /\ TypedCache
<1> SUFFICES ASSUME Blank, clock \in Nat, idle \in [Paths -> Nat]
             PROVE  TypedTargets /\ TypedCache
  OBVIOUS
<1>1. 0 \in Times
  BY DEF Times
<1>2. Unbound \in TargetTable(Times) /\ NothingKnown \in FileTables(Times)
  BY <1>1, UnboundType, NothingKnownType
<1>3. TypedTargets
  BY <1>2 DEF Blank, TypedTargets
<1>4. TypedCache
  BY DEF Blank, TypedCache
<1> QED
  BY <1>3, <1>4

LEMMA InitTyped == Init => Typed
<1> SUFFICES ASSUME Init PROVE Typed
  OBVIOUS
<1>1. clock \in Nat /\ clock = Cardinality(Paths)
  BY HeaderCacheAssumption, FS_CardinalityType DEF Init
<1>2. TypedDisk
  BY <1>1, HeaderCacheAssumption DEF Init, TypedDisk, Times
<1>3. Blank /\ idle \in [Paths -> Nat]
  BY DEF Init
<1> QED
  BY <1>1, <1>2, <1>3, BlankTyped, TypedParts

LEMMA ExitBlanks == Exit => Blank'
BY DEF Exit, Blank

LEMMA ExitTyped ==
  ASSUME Typed, Exit,
         cacheFile' \in [records : Seq(Records), end : {"whole", "cut", "atScan"}]
  PROVE  Typed'
<1>1. TypedDisk
  BY TypedParts
<1>2. TypedDisk'
  BY <1>1 DEF Exit, TypedDisk, Times, diskVars
<1>3. Blank' /\ (clock \in Nat)' /\ (idle \in [Paths -> Nat])'
  BY <1>1, ExitBlanks, TypedParts DEF Exit, TypedDisk, TypedCache, diskVars
<1>4. (Blank /\ clock \in Nat /\ idle \in [Paths -> Nat] => TypedTargets /\ TypedCache)'
  BY BlankTyped, PTL
<1> QED
  BY <1>2, <1>3, <1>4, TypedPrime

\* bind_explicitly_located_targets()
LEMMA BindLocatedIs ==
  ASSUME Typed, BindLocated
  PROVE  /\ files' \in FileTables(Times)
         /\ Extends(files, files', DiskTimes)
         /\ \A p \in Paths : IF files.located[p] = NoTarget /\ PlacedAt(p) # {}
                             THEN files'.located[p] \in PlacedAt(p)
                             ELSE files'.located[p] = files.located[p]
         /\ target' \in [Targets -> TargetTable(Times)]
         /\ \A t \in Targets :
              /\ target'[t].binding = target[t].binding /\ target'[t].includes = target[t].includes
              /\ Locate[t] = {} => target'[t] = target[t]
              /\ Locate[t] # {} => /\ target'[t].path = PlaceOf(t)
                                   /\ target'[t].time = TimeOf(files', PlaceOf(t))
<1> DEFINE placed == {t \in Targets : Locate[t] # {}}
           P == {PlaceOf(t) : t \in placed}
           timed == Timestamp(files, DiskTimes, P)
           loc == [p \in Paths |->
                     IF timed.located[p] = NoTarget /\ \E t \in placed : PlaceOf(t) = p
                     THEN CHOOSE t \in placed : PlaceOf(t) = p ELSE timed.located[p]]
<1>1. /\ files \in FileTables(Times) /\ 0 \in Times /\ DiskTimes \in [Paths -> Times]
      /\ target \in [Targets -> TargetTable(Times)]
  BY TypedParts, TimesType DEF TypedTargets
<1>2. P \in SUBSET Paths
  BY PlaceType
<1>3. files' = [timed EXCEPT !.located = loc]
  BY DEF BindLocated, PlaceOf
<1>4. target' = [t \in Targets |->
                   IF t \in placed THEN [target[t] EXCEPT !.path = PlaceOf(t), !.time = TimeOf(timed, PlaceOf(t))]
                   ELSE target[t]]
  BY DEF BindLocated, PlaceOf
<1> HIDE DEF P
<1>5. /\ timed \in FileTables(Times) /\ timed.located = files.located
      /\ Extends(files, timed, DiskTimes)
  BY <1>1, <1>2, TimestampFields, TimestampExtends
<1> HIDE DEF timed
<1>6. \A p \in Paths : IF files.located[p] = NoTarget /\ PlacedAt(p) # {}
                       THEN loc[p] \in PlacedAt(p)
                       ELSE loc[p] = files.located[p]
  <2> TAKE p \in Paths
  <2>1. PlacedAt(p) = {t \in placed : PlaceOf(t) = p}
    BY PlacedAtIs
  <2> QED
    BY <1>5, <2>1
<1>7. loc \in [Paths -> Targets \cup {NoTarget}]
  <2>1. \A p \in Paths : PlacedAt(p) \subseteq Targets /\ files.located[p] \in Targets \cup {NoTarget}
    BY <1>1 DEF PlacedAt, FileTables
  <2>2. \A p \in Paths : loc[p] \in Targets \cup {NoTarget}
    BY <1>6, <2>1
  <2>3. loc = [p \in Paths |-> loc[p]]
    OBVIOUS
  <2> HIDE DEF loc
  <2> QED
    BY <2>2, <2>3
<1> HIDE DEF loc
<1>8. /\ files' \in FileTables(Times)
      /\ files'.located = loc
      /\ files'.time = timed.time /\ files'.listed = timed.listed /\ files'.listing = timed.listing
      /\ files'.scanned = timed.scanned /\ files'.bind = timed.bind
  BY <1>3, <1>5, <1>7 DEF FileTables
<1>9. Extends(files, files', DiskTimes)
  BY <1>5, <1>8, LocatedExtends, ExtendsTrans
<1>10. \A p : TimeOf(files', p) = TimeOf(timed, p)
  BY <1>8 DEF TimeOf
<1>11. ASSUME NEW t \in Targets
       PROVE  /\ target'[t] \in TargetTable(Times)
              /\ target'[t].binding = target[t].binding /\ target'[t].includes = target[t].includes
              /\ Locate[t] = {} => target'[t] = target[t]
              /\ Locate[t] # {} => /\ target'[t].path = PlaceOf(t)
                                   /\ target'[t].time = TimeOf(files', PlaceOf(t))
  <2>1. CASE Locate[t] = {}
    BY <1>1, <1>4, <2>1
  <2>2. CASE Locate[t] # {}
    <3>1. PlaceOf(t) \in Paths
      BY <2>2, PlaceType
    <3>2. TimeOf(timed, PlaceOf(t)) \in Times
      BY <1>1, <1>5, <3>1, TimeOfType
    <3>3. target'[t] = [target[t] EXCEPT !.path = PlaceOf(t), !.time = TimeOf(timed, PlaceOf(t))]
      BY <1>4, <2>2
    <3>4. target[t] \in TargetTable(Times)
      BY <1>1
    <3> QED
      BY <1>10, <2>2, <3>1, <3>2, <3>3, <3>4 DEF TargetTable
  <2> QED
    BY <2>1, <2>2
<1>12. target' \in [Targets -> TargetTable(Times)]
  <2>1. target' = [t \in Targets |-> target'[t]]
    BY <1>4
  <2> QED
    BY <1>11, <2>1
<1> QED
  BY <1>6, <1>8, <1>9, <1>11, <1>12

\* What make0() binds t to, if it is not bound yet.
SearchOf(t) == Search(files, DiskTimes, t)
BoundAs(t)  == IF target[t].binding # "UNBOUND" THEN target[t]
               ELSE [path |-> SearchOf(t).path, time |-> SearchOf(t).time,
                     binding |-> IF SearchOf(t).time # 0 THEN "EXISTS" ELSE "MISSING",
                     includes |-> IF SearchOf(t).another = NoTarget THEN {} ELSE {SearchOf(t).another}]

LEMMA SearchTyped ==
  ASSUME Typed, NEW t \in Targets
  PROVE  LET s == SearchOf(t)
         IN  /\ s.files \in FileTables(Times) /\ s.path \in Paths /\ s.time \in Times
             /\ s.another \in Targets \cup {NoTarget}
             /\ s.time = TimeOf(s.files, s.path)
             /\ Extends(files, s.files, DiskTimes)
<1>1. files \in FileTables(Times) /\ 0 \in Times /\ DiskTimes \in [Paths -> Times]
  BY TypedParts, TimesType DEF TypedTargets
<1>2. \A p \in Paths : files.located[p] \in Targets \cup {NoTarget}
  BY <1>1 DEF FileTables
<1> DEFINE s == SearchOf(t)
<1>3. CASE Locate[t] # {}
  <2>1. /\ s.files \in FileTables(Times) /\ s.path = PlaceOf(t) /\ s.another = NoTarget
        /\ s.time = TimeOf(s.files, s.path)
        /\ Extends(files, s.files, DiskTimes)
    BY <1>1, <1>3, SearchLocated DEF SearchOf
  <2>2. s.path \in Paths
    BY <1>3, <2>1, PlaceType
  <2> HIDE DEF s
  <2>3. s.time \in Times
    BY <1>1, <2>1, <2>2, TimeOfType
  <2> QED
    BY <2>1, <2>2, <2>3 DEF s
<1>4. CASE Locate[t] = {}
  <2>1. /\ s.files \in FileTables(Times) /\ s.path \in Paths
        /\ s.time = TimeOf(s.files, s.path)
        /\ Extends(files, s.files, DiskTimes)
        /\ s.another = NoTarget \/ s.another = files.located[s.path]
    BY <1>1, <1>4, SearchAlong DEF SearchOf
  <2> HIDE DEF s
  <2>2. s.time \in Times
    BY <1>1, <2>1, TimeOfType
  <2> QED
    BY <1>2, <2>1, <2>2 DEF s
<1> QED
  BY <1>3, <1>4

LEMMA BoundAsType ==
  ASSUME Typed, NEW t \in Targets
  PROVE  BoundAs(t) \in TargetTable(Times)
<1>1. target[t] \in TargetTable(Times)
  BY TypedParts DEF TypedTargets
<1>2. /\ SearchOf(t).path \in Paths /\ SearchOf(t).time \in Times
      /\ SearchOf(t).another \in Targets \cup {NoTarget}
  BY SearchTyped
<1> QED
  BY <1>1, <1>2 DEF BoundAs, TargetTable

\* make0() of t.
LEMMA VisitIs ==
  ASSUME NEW t \in Targets, Visit(t)
  PROVE  /\ t \in todo
         /\ files' = IF target[t].binding = "UNBOUND" THEN SearchOf(t).files ELSE files
         /\ \/ BoundAs(t).binding = "EXISTS" /\ Headers(t, BoundAs(t), BoundAs(t).includes)
            \/ /\ BoundAs(t).binding # "EXISTS"
               /\ target' = [target EXCEPT ![t] = BoundAs(t)] /\ UNCHANGED cacheVars
         /\ fate' = [fate EXCEPT ![t] = "MAKING"]
         /\ todo' = (todo \ {t}) \cup {d \in Sources[t] \cup target'[t].includes : fate'[d] = "INIT"}
         /\ UNCHANGED <<diskVars, cacheFile, phase, hdrscan, done, rescanned, toSave, written, countVars>>
BY DEF Visit, BoundAs, SearchOf

\* headers() of t.
Found(t, b) == IF Scans(t) THEN {HeaderOf[n] : n \in Cached(b.path, b.time)} ELSE {}

LEMMA HeadersIs ==
  ASSUME Typed, NEW t \in Targets, NEW b \in TargetTable(Times), NEW before \in SUBSET Targets,
         Headers(t, b, before)
  PROVE  /\ target' \in [Targets -> TargetTable(Times)]
         /\ \A u \in Targets \ {t} : target'[u] = target[u]
         /\ target'[t].path = b.path /\ target'[t].time = b.time /\ target'[t].binding = b.binding
         /\ target'[t].includes = before \cup Found(t, b)
         /\ Ask(b.path, b.time) \/ UNCHANGED cacheVars
<1>1. target \in [Targets -> TargetTable(Times)]
  BY TypedParts DEF TypedTargets
<1>2. b.path \in Paths /\ b.time \in Times
  BY DEF TargetTable
<1>3. Cached(b.path, b.time) \in SUBSET Names
  BY <1>2, CachedType
<1>4. \A n \in Names : HeaderOf[n] \in Targets
  BY HeaderCacheAssumption
<1>5. Found(t, b) \subseteq Targets
  BY <1>3, <1>4 DEF Found
<1>6. target' = [target EXCEPT ![t] = [b EXCEPT !.includes = before \cup Found(t, b)]]
  BY DEF Headers, Found
<1>7. Ask(b.path, b.time) \/ UNCHANGED cacheVars
  BY DEF Headers
<1> DEFINE c == [b EXCEPT !.includes = before \cup Found(t, b)]
<1>8. /\ c \in TargetTable(Times)
      /\ c.path = b.path /\ c.time = b.time /\ c.binding = b.binding
      /\ c.includes = before \cup Found(t, b)
  BY <1>5 DEF TargetTable
<1> HIDE DEF c
<1> QED
  BY <1>1, <1>6, <1>7, <1>8 DEF c

LEMMA UserTyped ==
  ASSUME Typed, (\E p \in Edited : Edit(p)) \/ Start \/ (\E d \in Globbed : Glob(d))
  PROVE  Typed'
<1>1. TypedDisk /\ TypedTargets /\ TypedCache
  BY TypedParts
<1>2. ASSUME NEW p \in Edited, Edit(p) PROVE Typed'
  <2>1. p \in Paths /\ Contents[p] \subseteq SUBSET Names
    BY HeaderCacheAssumption
  <2>2. clock' = clock + 1
    BY <1>2 DEF Edit
  <2>3. /\ clock' \in Nat /\ Times \subseteq Times' /\ clock' \in Times' /\ 0 \in Times'
        /\ FileTables(Times) \subseteq FileTables(Times)' /\ TargetTable(Times) \subseteq TargetTable(Times)'
    BY <1>1, <2>2, TimesGrow DEF TypedDisk, Times
  <2>4. \E r \in [time : Times', includes : SUBSET Names] : disk' = [disk EXCEPT ![p] = r]
    BY <1>1, <1>2, <2>1, <2>2, <2>3 DEF Edit, Missing, TypedDisk
  <2>5. disk' \in [Paths -> [time : Times', includes : SUBSET Names]]
    BY <1>1, <2>1, <2>3, <2>4 DEF TypedDisk
  <2>6. TypedDisk'
    BY <1>1, <1>2, <2>3, <2>5 DEF TypedDisk, Edit
  <2>7. TypedTargets'
    BY <1>1, <1>2, <2>3 DEF TypedTargets, Edit, targetVars
  <2>8. TypedCache'
    BY <1>1, <1>2 DEF TypedCache, Edit, cacheVars
  <2> QED
    BY <2>6, <2>7, <2>8, TypedPrime
<1>3. ASSUME Start PROVE Typed'
  <2>1. TypedDisk'
    BY <1>1, <1>3 DEF TypedDisk, Start, diskVars, Times
  <2>2. TypedTargets' /\ TypedCache'
    BY <1>1, <1>3 DEF TypedTargets, TypedCache, Start, diskVars, targetVars, cacheVars, Times
  <2> QED
    BY <2>1, <2>2, TypedPrime
<1>4. ASSUME NEW d \in Globbed, Glob(d) PROVE Typed'
  <2>1. {d} \in SUBSET Dirs
    BY HeaderCacheAssumption
  <2>2. files' \in FileTables(Times)
    BY <1>1, <1>4, <2>1, DirScanFields, TimesType DEF Glob, TypedTargets
  <2>3. Times' = Times /\ UNCHANGED <<diskVars, cacheFile, phase, hdrscan, targetVars, cacheVars, toSave, written, countVars>>
    BY <1>4 DEF Glob, diskVars, Times
  <2>4. TypedDisk' /\ TypedCache'
    BY <1>1, <2>3 DEF TypedDisk, TypedCache, diskVars, cacheVars, countVars
  <2>5. TypedTargets'
    BY <1>1, <2>2, <2>3 DEF TypedTargets, targetVars
  <2> QED
    BY <2>4, <2>5, TypedPrime
<1> QED
  BY <1>2, <1>3, <1>4

LEMMA EndTyped ==
  ASSUME Typed, MakeDies \/ EndRun \/ Crash
  PROVE  Typed'
<1>1. cacheFile \in [records : Seq(Records), end : {"whole", "cut", "atScan"}]
  BY TypedParts DEF TypedDisk
<1>2. Exit
  BY DEF MakeDies, EndRun, Crash
<1>3. cacheFile' = cacheFile \/ cacheFile' = [cacheFile EXCEPT !.end = "atScan"]
  BY DEF MakeDies, EndRun, Crash
<1>4. cacheFile' \in [records : Seq(Records), end : {"whole", "cut", "atScan"}]
  BY <1>1, <1>3
<1> QED
  BY <1>2, <1>4, ExitTyped

LEMMA MakeTyped == ASSUME Typed, Make PROVE Typed'
<1>1. TypedDisk /\ TypedTargets /\ TypedCache
  BY TypedParts
<1>2. ReadCache /\ BindLocated
  BY DEF Make
<1>3. entries' \in Seq(Records) /\ hash' \in [Paths -> 0..Len(entries')]
  BY <1>2, ReadCacheIs
<1>4. files' \in FileTables(Times) /\ target' \in [Targets -> TargetTable(Times)]
  BY <1>2, BindLocatedIs
<1>5. /\ Times' = Times /\ phase' = "make0" /\ makes' = makes + 1 /\ todo' \subseteq Targets
      /\ UNCHANGED <<diskVars, cacheFile, hdrscan, fate, done, rescanned, idle, toSave, written, runs, edits>>
  BY HeaderCacheAssumption DEF Make, diskVars, Times
<1>6. TypedDisk'
  BY <1>1, <1>5 DEF TypedDisk, diskVars
<1>7. TypedTargets'
  BY <1>1, <1>4, <1>5 DEF TypedTargets
<1>8. TypedCache'
  BY <1>1, <1>3, <1>5 DEF TypedCache
<1> QED
  BY <1>6, <1>7, <1>8, TypedPrime

\* hcache() or nothing.
LEMMA AskTyped ==
  ASSUME Typed, NEW p \in Paths, NEW time \in Times, Ask(p, time) \/ UNCHANGED cacheVars
  PROVE  entries' \in Seq(Records) /\ hash' \in [Paths -> 0..Len(entries')] /\ idle' \in [Paths -> Nat]
<1>1. time \in Nat
  BY TimesType
<1>2. CASE Ask(p, time)
  BY <1>1, <1>2, AskIs
<1>3. CASE UNCHANGED cacheVars
  BY <1>3, TypedParts DEF TypedCache, cacheVars
<1> QED
  BY <1>2, <1>3

LEMMA VisitTyped == ASSUME Typed, NEW t \in Targets, Visit(t) PROVE Typed'
<1>1. TypedDisk /\ TypedTargets /\ TypedCache
  BY TypedParts
<1> DEFINE b == BoundAs(t)
<1>2. b \in TargetTable(Times)
  BY BoundAsType
<1>3. b.includes \in SUBSET Targets /\ b.path \in Paths /\ b.time \in Times
  BY <1>2 DEF TargetTable
<1>4. files' \in FileTables(Times)
  BY <1>1, VisitIs, SearchTyped DEF TypedTargets
<1> HIDE DEF b
<1>5. \/ Headers(t, b, b.includes)
      \/ target' = [target EXCEPT ![t] = b] /\ UNCHANGED cacheVars
  BY VisitIs DEF b
<1>6. target' \in [Targets -> TargetTable(Times)]
  <2>1. CASE Headers(t, b, b.includes)
    BY <1>2, <1>3, <2>1, HeadersIs
  <2>2. CASE target' = [target EXCEPT ![t] = b]
    BY <1>1, <1>2, <2>2 DEF TypedTargets
  <2> QED
    BY <1>5, <2>1, <2>2
<1>7. Ask(b.path, b.time) \/ UNCHANGED cacheVars
  BY <1>2, <1>3, <1>5, HeadersIs
<1>8. entries' \in Seq(Records) /\ hash' \in [Paths -> 0..Len(entries')] /\ idle' \in [Paths -> Nat]
  BY <1>3, <1>7, AskTyped
<1>9. /\ Times' = Times /\ fate' = [fate EXCEPT ![t] = "MAKING"]
      /\ UNCHANGED <<diskVars, cacheFile, phase, hdrscan, done, rescanned, toSave, written, countVars>>
  BY VisitIs DEF Times, diskVars
<1>10. todo' \subseteq Targets
  <2>1. Sources[t] \subseteq Targets /\ target'[t].includes \subseteq Targets
    BY <1>6, HeaderCacheAssumption DEF TargetTable
  <2> QED
    BY <1>1, <2>1, VisitIs DEF TypedTargets
<1>11. TypedDisk' /\ TypedCache'
  BY <1>1, <1>8, <1>9 DEF TypedDisk, TypedCache, diskVars, countVars
<1>12. TypedTargets'
  BY <1>1, <1>4, <1>6, <1>9, <1>10 DEF TypedTargets
<1> QED
  BY <1>11, <1>12, TypedPrime

LEMMA RescanIs ==
  ASSUME NEW t \in Targets, RescanFile(t) \/ RescanNode(t)
  PROVE  /\ phase = "make1" /\ Decided /\ Headers(t, target[t], {})
         /\ todo' = {d \in target'[t].includes : fate[d] = "INIT"}
         /\ UNCHANGED <<diskVars, cacheFile, phase, hdrscan, files, fate, done, toSave, written, countVars>>
         /\ rescanned' = rescanned \cup {<<t, "file">>, <<t, "node">>} \/ rescanned' = rescanned \cup {<<t, "node">>}
BY DEF RescanFile, RescanNode, Rescan

LEMMA RescanTyped == ASSUME Typed, NEW t \in Targets, RescanFile(t) \/ RescanNode(t) PROVE Typed'
<1>1. TypedDisk /\ TypedTargets /\ TypedCache
  BY TypedParts
<1>2. target[t] \in TargetTable(Times) /\ target[t].path \in Paths /\ target[t].time \in Times
  BY <1>1 DEF TypedTargets, TargetTable
<1>3. Headers(t, target[t], {})
  BY RescanIs
<1>4. target' \in [Targets -> TargetTable(Times)] /\ (Ask(target[t].path, target[t].time) \/ UNCHANGED cacheVars)
  BY <1>2, <1>3, HeadersIs
<1>5. entries' \in Seq(Records) /\ hash' \in [Paths -> 0..Len(entries')] /\ idle' \in [Paths -> Nat]
  BY <1>2, <1>4, AskTyped
<1>6. /\ Times' = Times /\ todo' \subseteq target'[t].includes
      /\ rescanned' \subseteq rescanned \cup {<<t, "file">>, <<t, "node">>}
      /\ UNCHANGED <<diskVars, cacheFile, phase, hdrscan, files, fate, done, toSave, written, countVars>>
  BY RescanIs DEF Times, diskVars
<1>7. todo' \subseteq Targets /\ rescanned' \subseteq Targets \X {"file", "node"}
  BY <1>1, <1>4, <1>6 DEF TypedTargets, TargetTable
<1>8. TypedDisk' /\ TypedCache'
  BY <1>1, <1>5, <1>6 DEF TypedDisk, TypedCache, diskVars, countVars
<1>9. TypedTargets'
  BY <1>1, <1>4, <1>6, <1>7 DEF TypedTargets
<1> QED
  BY <1>8, <1>9, TypedPrime

LEMMA BuildTyped == ASSUME Typed, NEW t \in Targets, Build(t) PROVE Typed'
<1>1. TypedDisk /\ TypedTargets /\ TypedCache
  BY TypedParts
<1> DEFINE p == target[t].path
<1>2. p \in Paths
  BY <1>1 DEF TypedTargets, TargetTable
<1>3. Contents[p] \subseteq SUBSET Names
  BY <1>2, HeaderCacheAssumption
<1>4. clock' = clock + 1
  BY DEF Build
<1>5. /\ clock' \in Nat /\ Times \subseteq Times' /\ clock' \in Times'
      /\ FileTables(Times) \subseteq FileTables(Times)' /\ TargetTable(Times) \subseteq TargetTable(Times)'
  BY <1>1, <1>4, TimesGrow DEF TypedDisk
<1>6. \E c \in Contents[p] : disk' = [disk EXCEPT ![p] = [time |-> clock + 1, includes |-> c]]
  BY DEF Build
<1>7. done' = done \cup {t} /\ written' = written \cup {p}
  BY DEF Build
<1>8. UNCHANGED <<cacheFile, phase, hdrscan, files, target, fate, todo, rescanned, cacheVars, toSave, countVars>>
  BY DEF Build
<1> HIDE DEF p
<1>9. disk' \in [Paths -> [time : Times', includes : SUBSET Names]]
  BY <1>1, <1>2, <1>3, <1>4, <1>5, <1>6 DEF TypedDisk
<1>10. TypedDisk'
  BY <1>1, <1>5, <1>8, <1>9 DEF TypedDisk
<1>11. TypedTargets'
  BY <1>1, <1>2, <1>5, <1>7, <1>8 DEF TypedTargets
<1>12. TypedCache'
  BY <1>1, <1>8 DEF TypedCache, cacheVars, countVars
<1> QED
  BY <1>10, <1>11, <1>12, TypedPrime

LEMMA DecideIs ==
  ASSUME Typed, Decide
  PROVE  /\ phase \in {"make0", "make1"} /\ todo = {}
         /\ target' \in [Targets -> TargetTable(Times)]
         /\ \A t \in Targets : /\ target'[t].path = target[t].path /\ target'[t].binding = target[t].binding
                               /\ target'[t].includes = target[t].includes
                               /\ target'[t].time >= target[t].time
         /\ fate' \in [Targets -> {"INIT", "MAKING", "STABLE", "BUILD"}]
         /\ \A t \in Targets : fate'[t] = "INIT" <=> fate[t] = "INIT"
         /\ UNCHANGED <<diskVars, cacheFile, phase, hdrscan, files, todo, done, rescanned, cacheVars,
                        toSave, written, countVars>>
<1>1. TypedTargets /\ Times \subseteq Nat
  BY TypedParts, TimesType
<1>2. ASSUME NEW t \in Targets
      PROVE  /\ Latest({t} \cup Behind(t)) \in Times
             /\ Latest({t} \cup Behind(t)) >= target[t].time
  <2>1. {t} \cup Behind(t) \in SUBSET Targets /\ {t} \cup Behind(t) # {} /\ t \in {t} \cup Behind(t)
    BY BehindType
  <2> QED
    BY <2>1, LatestType
<1>3. target' = [t \in Targets |->
        IF fate[t] = "MAKING" THEN [target[t] EXCEPT !.time = Latest({t} \cup Behind(t))] ELSE target[t]]
  BY DEF Decide
<1>4. ASSUME NEW t \in Targets
      PROVE  /\ target'[t] \in TargetTable(Times)
             /\ target'[t].path = target[t].path /\ target'[t].binding = target[t].binding
             /\ target'[t].includes = target[t].includes
             /\ target'[t].time >= target[t].time
  <2> DEFINE m == Latest({t} \cup Behind(t))
  <2>1. m \in Times /\ m >= target[t].time
    BY <1>2
  <2>2. target'[t] = [target[t] EXCEPT !.time = m] \/ target'[t] = target[t]
    BY <1>3
  <2>3. target[t] \in TargetTable(Times) /\ target[t].time \in Nat
    BY <1>1 DEF TypedTargets, TargetTable
  <2> HIDE DEF m
  <2> QED
    BY <2>1, <2>2, <2>3 DEF TargetTable
<1>5. target' \in [Targets -> TargetTable(Times)]
  <2>1. target' = [t \in Targets |-> target'[t]]
    BY <1>3
  <2> QED
    BY <1>4, <2>1
<1>6. fate' = [t \in Targets |->
         IF fate[t] # "MAKING" THEN fate[t]
         ELSE IF t \in Generated /\ \E d \in {t} \cup Behind(t) : Outdated(d) \/ fate[d] = "BUILD"
         THEN "BUILD" ELSE "STABLE"]
  BY DEF Decide
<1>7. /\ fate' \in [Targets -> {"INIT", "MAKING", "STABLE", "BUILD"}]
      /\ \A t \in Targets : fate'[t] = "INIT" <=> fate[t] = "INIT"
  BY <1>1, <1>6 DEF TypedTargets
<1>8. /\ phase \in {"make0", "make1"} /\ todo = {}
      /\ UNCHANGED <<diskVars, cacheFile, phase, hdrscan, files, todo, done, rescanned, cacheVars,
                     toSave, written, countVars>>
  BY DEF Decide
<1> QED
  BY <1>4, <1>5, <1>7, <1>8

LEMMA DecideTyped == ASSUME Typed, Decide PROVE Typed'
<1>1. TypedDisk /\ TypedTargets /\ TypedCache
  BY TypedParts
<1>2. /\ target' \in [Targets -> TargetTable(Times)]
      /\ fate' \in [Targets -> {"INIT", "MAKING", "STABLE", "BUILD"}]
      /\ UNCHANGED <<diskVars, cacheFile, phase, hdrscan, files, todo, done, rescanned, cacheVars,
                     toSave, written, countVars>>
  BY DecideIs
<1>3. Times' = Times
  BY <1>2 DEF Times, diskVars
<1>4. TypedDisk' /\ TypedCache'
  BY <1>1, <1>2, <1>3 DEF TypedDisk, TypedCache, diskVars, cacheVars, countVars
<1>5. TypedTargets'
  BY <1>1, <1>2, <1>3 DEF TypedTargets
<1> QED
  BY <1>4, <1>5, TypedPrime

\* An entry as hcache_done() leaves it.
Left(e) == IF MaxAge = 0 THEN [e EXCEPT !.age = 0] ELSE e

LEMMA SaveStartIs ==
  ASSUME Typed, SaveStart
  PROVE  /\ entries' \in Seq(Records) /\ Len(entries') = Len(entries)
         /\ \A i \in DOMAIN entries : entries'[i] = Left(entries[i])
         /\ toSave' \in Seq(Records)
         /\ \A i \in DOMAIN toSave' : \E j \in DOMAIN entries : toSave'[i] = Left(entries[j])
<1>1. entries \in Seq(Records) /\ Len(entries) \in Nat /\ DOMAIN entries = 1..Len(entries)
  BY TypedParts DEF TypedCache
<1>2. entries' = Renewed(entries) /\ toSave' = Reverse(entries')
  BY DEF SaveStart
<1>3. /\ entries' \in Seq(Records) /\ Len(entries') = Len(entries)
      /\ \A i \in 1..Len(entries) : entries'[i] = Left(entries[i])
  BY <1>1, <1>2, RenewedIs DEF Left
<1>4. DOMAIN entries' = DOMAIN entries
  BY <1>1, <1>3
<1>5. /\ toSave' \in Seq(Records)
      /\ \A i \in DOMAIN toSave' : \E j \in DOMAIN entries' : toSave'[i] = entries'[j]
  BY <1>2, <1>3, ReverseIs
<1> QED
  BY <1>1, <1>3, <1>4, <1>5

LEMMA SaveRecordIs ==
  ASSUME Typed, SaveRecord
  PROVE  /\ Head(toSave) = toSave[1] /\ 1 \in DOMAIN toSave
         /\ toSave' \in Seq(Records)
         /\ \A i \in DOMAIN toSave' : \E j \in DOMAIN toSave : toSave'[i] = toSave[j]
         /\ cacheFile' \in [records : Seq(Records), end : {"whole", "cut", "atScan"}]
         /\ cacheFile'.end = cacheFile.end
         /\ \A i \in DOMAIN cacheFile'.records :
              \/ i \in DOMAIN cacheFile.records /\ cacheFile'.records[i] = cacheFile.records[i]
              \/ cacheFile'.records[i] = toSave[1] /\ ~TooOld(toSave[1])
<1>1. /\ toSave \in Seq(Records) /\ toSave # <<>> /\ Len(toSave) \in Nat /\ Len(toSave) # 0
      /\ cacheFile \in [records : Seq(Records), end : {"whole", "cut", "atScan"}]
  BY TypedParts DEF TypedCache, TypedDisk, SaveRecord
<1>2. Head(toSave) = toSave[1] /\ 1 \in DOMAIN toSave /\ toSave[1] \in Records
  BY <1>1
<1>3. toSave' = Tail(toSave)
  BY DEF SaveRecord
<1>4. /\ toSave' \in Seq(Records)
      /\ \A i \in DOMAIN toSave' : i + 1 \in DOMAIN toSave /\ toSave'[i] = toSave[i + 1]
  BY <1>1, <1>3
<1>5. CASE TooOld(toSave[1])
  BY <1>1, <1>2, <1>4, <1>5 DEF SaveRecord
<1>6. CASE ~TooOld(toSave[1])
  <2> DEFINE all == Append(cacheFile.records, toSave[1])
             n == Len(cacheFile.records)
  <2>1. cacheFile' = [cacheFile EXCEPT !.records = all]
    BY <1>2, <1>6 DEF SaveRecord
  <2>2. cacheFile.records \in Seq(Records) /\ n \in Nat /\ DOMAIN cacheFile.records = 1..n
    BY <1>1
  <2>3. /\ all \in Seq(Records) /\ Len(all) = n + 1
        /\ \A i \in 1..n : all[i] = cacheFile.records[i]
        /\ all[n + 1] = toSave[1]
    BY <1>2, <2>2, AppendProperties
  <2> HIDE DEF all, n
  <2>4. cacheFile'.records = all /\ cacheFile'.end = cacheFile.end
        /\ cacheFile' \in [records : Seq(Records), end : {"whole", "cut", "atScan"}]
    BY <1>1, <2>1, <2>3
  <2>5. DOMAIN all = 1..(n + 1)
    BY <2>3
  <2>6. ASSUME NEW i \in DOMAIN all
        PROVE  \/ i \in DOMAIN cacheFile.records /\ all[i] = cacheFile.records[i]
               \/ all[i] = toSave[1]
    BY <2>2, <2>3, <2>5
  <2> QED
    BY <1>2, <1>4, <1>6, <2>4, <2>6
<1> QED
  BY <1>5, <1>6

LEMMA SaveTyped == ASSUME Typed, SaveStart \/ SaveRecord \/ SaveEnd PROVE Typed'
<1>1. TypedDisk /\ TypedTargets /\ TypedCache
  BY TypedParts
<1>2. Times' = Times /\ UNCHANGED <<diskVars, hdrscan, files, targetVars, written, countVars, hash>>
  BY DEF SaveStart, SaveRecord, SaveEnd, Times, diskVars, cacheVars
<1>3. TypedTargets'
  BY <1>1, <1>2 DEF TypedTargets, targetVars
<1>4. ASSUME SaveStart PROVE Typed'
  <2>1. cacheFile' = [records |-> <<>>, end |-> "cut"] /\ phase' = "saving" /\ idle' = idle
    BY <1>4 DEF SaveStart
  <2>2. <<>> \in Seq(Records)
    OBVIOUS
  <2>3. cacheFile' \in [records : Seq(Records), end : {"whole", "cut", "atScan"}]
    BY <2>1, <2>2
  <2>4. TypedDisk'
    BY <1>1, <1>2, <2>1, <2>3 DEF TypedDisk, diskVars
  <2>5. TypedCache'
    BY <1>1, <1>2, <1>4, <2>1, SaveStartIs DEF TypedCache, countVars
  <2> QED
    BY <1>3, <2>4, <2>5, TypedPrime
<1>5. ASSUME SaveRecord PROVE Typed'
  <2>1. phase' = phase /\ idle' = idle /\ entries' = entries
    BY <1>5 DEF SaveRecord, cacheVars
  <2>2. cacheFile' \in [records : Seq(Records), end : {"whole", "cut", "atScan"}] /\ toSave' \in Seq(Records)
    BY <1>5, SaveRecordIs
  <2>3. TypedDisk'
    BY <1>1, <1>2, <2>1, <2>2 DEF TypedDisk, diskVars
  <2>4. TypedCache'
    BY <1>1, <1>2, <2>1, <2>2 DEF TypedCache, countVars
  <2> QED
    BY <1>3, <2>3, <2>4, TypedPrime
<1>6. ASSUME SaveEnd PROVE Typed'
  <2>1. /\ cacheFile' = [cacheFile EXCEPT !.end = "whole"] /\ phase' = "make1"
        /\ entries' = entries /\ toSave' = toSave
    BY <1>6 DEF SaveEnd
  <2>2. TypedDisk'
    BY <1>1, <1>2, <2>1 DEF TypedDisk, diskVars
  <2>3. idle' \in [Paths -> Nat]
    BY <1>1, <1>6 DEF SaveEnd, TypedCache
  <2>4. TypedCache'
    BY <1>1, <1>2, <2>1, <2>3 DEF TypedCache, countVars
  <2> QED
    BY <1>3, <2>2, <2>4, TypedPrime
<1> QED
  BY <1>4, <1>5, <1>6

LEMMA MakeEndTyped == ASSUME Typed, MakeEnd PROVE Typed'
<1>1. TypedDisk /\ TypedTargets /\ TypedCache
  BY TypedParts
<1>2. /\ Times' = Times /\ phase' = "parse"
      /\ UNCHANGED <<diskVars, cacheFile, hdrscan, files, target, fate, todo, cacheVars, toSave,
                     written, countVars>>
  BY DEF MakeEnd, Times, diskVars
<1>3. done' \subseteq Targets /\ rescanned' \subseteq Targets \X {"file", "node"}
  BY <1>1 DEF MakeEnd, TypedTargets
<1>4. TypedDisk' /\ TypedCache'
  BY <1>1, <1>2 DEF TypedDisk, TypedCache, diskVars, cacheVars, countVars
<1>5. TypedTargets'
  BY <1>1, <1>2, <1>3 DEF TypedTargets
<1> QED
  BY <1>4, <1>5, TypedPrime

LEMMA TypedStep == Typed /\ [Next]_vars => Typed'
<1> SUFFICES ASSUME Typed, [Next]_vars PROVE Typed'
  OBVIOUS
<1>1. CASE UNCHANGED vars
  <2>1. TypedDisk /\ TypedTargets /\ TypedCache
    BY TypedParts
  <2>2. /\ Times' = Times
        /\ UNCHANGED <<disk, clock, cacheFile, phase, hdrscan, files, target, fate, todo, done, rescanned,
                       entries, hash, idle, toSave, written, runs, makes, edits>>
    BY <1>1 DEF vars, diskVars, targetVars, cacheVars, countVars, Times
  <2>3. TypedDisk' /\ TypedTargets' /\ TypedCache'
    BY <2>1, <2>2 DEF TypedDisk, TypedTargets, TypedCache
  <2> QED
    BY <2>3, TypedPrime
<1>2. CASE Next
  BY <1>2, UserTyped, EndTyped, MakeTyped, VisitTyped, BuildTyped, RescanTyped, DecideTyped,
     SaveTyped, MakeEndTyped DEF Next
<1> QED
  BY <1>1, <1>2

(***************************************************************************)
(* TypeCorrect: in every reachable state the cache, the bindings and the   *)
(* files are well typed; the hash table points into the list of entries,   *)
(* and no target is newer than the clock.                                  *)
(***************************************************************************)
THEOREM TypeCorrect == Spec => []TypeOK
<1>1. Spec => []Typed
  BY InitTyped, TypedStep, PTL DEF Spec
<1>2. Typed => TypeOK
  BY DEF Typed
<1> QED
  BY <1>1, <1>2, PTL

-----------------------------------------------------------------------------
(***************************************************************************)
(* The other parts of the invariant, one by one.                           *)
(***************************************************************************)

LEMMA RestingStep == ASSUME IInv, [Next]_vars PROVE Resting'
<1>1. Resting /\ makes \in Nat /\ TypedTargets
  BY TypedParts DEF IInv, Typed
<1>2. CASE UNCHANGED vars
  BY <1>1, <1>2 DEF vars, diskVars, targetVars, cacheVars, countVars, Resting, Blank
<1>3. CASE Exit
  BY <1>3, ExitBlanks DEF Exit, Blank, Resting
<1>4. ASSUME NEW p \in Edited, Edit(p) PROVE Resting'
  BY <1>1, <1>4 DEF Edit, Resting, Blank, targetVars, cacheVars
<1>5. CASE Start
  BY <1>1, <1>5 DEF Start, Resting, Blank, targetVars, cacheVars
<1>6. ASSUME NEW d \in Globbed, Glob(d) PROVE Resting'
  BY <1>1, <1>6 DEF Glob, Resting, targetVars, cacheVars, countVars
<1>7. CASE Make
  <2>1. phase = "parse" /\ phase' = "make0" /\ makes' = makes + 1 /\ toSave' = toSave
    BY <1>7 DEF Make
  <2> QED
    BY <1>1, <2>1 DEF Resting
<1>8. ASSUME NEW t \in Targets, Visit(t) PROVE Resting'
  <2>1. t \in todo /\ UNCHANGED <<phase, toSave, countVars>>
    BY <1>8, VisitIs
  <2> QED
    BY <1>1, <2>1 DEF Resting, countVars
<1>9. ASSUME NEW t \in Targets, Build(t) PROVE Resting'
  BY <1>1, <1>9 DEF Build, Resting, countVars
<1>10. ASSUME NEW t \in Targets, RescanFile(t) \/ RescanNode(t) PROVE Resting'
  <2>1. phase = "make1" /\ UNCHANGED <<phase, toSave, countVars>>
    BY <1>10, RescanIs
  <2> QED
    BY <1>1, <2>1 DEF Resting, countVars
<1>11. CASE Decide
  <2>1. phase \in {"make0", "make1"} /\ UNCHANGED <<phase, todo, toSave, countVars>>
    BY <1>11 DEF Decide
  <2> QED
    BY <1>1, <2>1 DEF Resting, countVars
<1>12. CASE SaveStart
  BY <1>1, <1>12 DEF SaveStart, Resting, Decided, targetVars, countVars
<1>13. CASE SaveRecord
  BY <1>1, <1>13 DEF SaveRecord, Resting, targetVars, countVars
<1>14. CASE SaveEnd
  BY <1>1, <1>14 DEF SaveEnd, Resting, targetVars, countVars
<1>15. CASE MakeEnd
  BY <1>1, <1>15 DEF MakeEnd, Resting, Decided, countVars
<1> QED
  BY <1>2, <1>3, <1>4, <1>5, <1>6, <1>7, <1>8, <1>9, <1>10, <1>11, <1>12, <1>13, <1>14, <1>15
     DEF Next, MakeDies, EndRun, Crash

\* A step forgets all that is known of the files, outside a run, or adds to
\* it, and changes on the disk only what it counts as written.
LEMMA FilesStep ==
  ASSUME IInv, [Next]_vars
  PROVE  \/ files' = NothingKnown /\ phase' = "off"
         \/ /\ Extends(files, files', DiskTimes)
            /\ written \subseteq written'
            /\ \A p \in Paths \ written' : disk'[p] = disk[p]
<1>1. Resting /\ Typed /\ TypedTargets
  BY TypedParts DEF IInv
<1>2. Extends(files, files, DiskTimes)
  BY DEF Extends
<1>3. files \in FileTables(Times) /\ DiskTimes \in [Paths -> Times] /\ 0 \in Times
  BY <1>1, TimesType DEF TypedTargets
<1>4. CASE Exit
  BY <1>4 DEF Exit
<1>5. ASSUME NEW p \in Edited, Edit(p) PROVE files' = NothingKnown /\ phase' = "off"
  BY <1>1, <1>5 DEF Edit, Resting, Blank
<1>6. CASE UNCHANGED <<files, disk, written>>
  BY <1>2, <1>6
<1>7. ASSUME NEW d \in Globbed, Glob(d)
      PROVE  Extends(files, files', DiskTimes) /\ UNCHANGED <<disk, written>>
  <2>1. {d} \in SUBSET Dirs
    BY HeaderCacheAssumption
  <2> QED
    BY <1>3, <1>7, <2>1, DirScanExtends DEF Glob, diskVars
<1>8. CASE Make
  BY <1>1, <1>8, BindLocatedIs DEF Make, diskVars
<1>9. ASSUME NEW t \in Targets, Visit(t)
      PROVE  Extends(files, files', DiskTimes) /\ UNCHANGED <<disk, written>>
  BY <1>1, <1>2, <1>9, VisitIs, SearchTyped DEF diskVars
<1>10. ASSUME NEW t \in Targets, Build(t)
       PROVE  /\ files' = files /\ written \subseteq written'
              /\ \A p \in Paths \ written' : disk'[p] = disk[p]
  <2>1. disk \in [Paths -> [time : Times, includes : SUBSET Names]]
    BY <1>1, TypedParts DEF TypedDisk
  <2> QED
    BY <1>10, <2>1 DEF Build
<1>11. ASSUME NEW t \in Targets, RescanFile(t) \/ RescanNode(t) PROVE UNCHANGED <<files, disk, written>>
  BY <1>11, RescanIs DEF diskVars
<1> QED
  BY <1>2, <1>4, <1>5, <1>6, <1>7, <1>8, <1>9, <1>10, <1>11
     DEF Next, MakeDies, EndRun, Crash, Start, Decide, SaveStart, SaveRecord, SaveEnd, MakeEnd,
         vars, diskVars

LEMMA FilesTrueStep == ASSUME IInv, [Next]_vars PROVE FilesTrue'
<1>1. CASE files' = NothingKnown
  BY <1>1 DEF FilesTrue, NothingKnown, Agree, Shows, Paths
<1>2. CASE /\ Extends(files, files', DiskTimes)
           /\ written \subseteq written'
           /\ \A p \in Paths \ written' : disk'[p] = disk[p]
  <2>1. Agree(files) /\ \A p \in Paths \ written' : Shows(files, DiskTimes, p)
    BY <1>2 DEF IInv, FilesTrue
  <2>2. Agree(files') /\ \A p \in Paths \ written' : Shows(files', DiskTimes, p)
    BY <1>2, <2>1 DEF Extends
  <2>3. \A p \in Paths \ written' : DiskTimes'[p] = DiskTimes[p]
    BY <1>2 DEF DiskTimes
  <2>4. \A p \in Paths \ written' : Shows(files', DiskTimes', p)
    BY <2>2, <2>3 DEF Shows
  <2> QED
    BY <2>2, <2>4 DEF FilesTrue, Agree, Shows
<1> QED
  BY <1>1, <1>2, FilesStep

LEMMA LocatedStep == ASSUME IInv, [Next]_vars PROVE LocatedRight'
<1>1. LocatedRight /\ Resting /\ Typed /\ TypedTargets /\ makes \in Nat
  BY TypedParts DEF IInv, Typed
<1>2. NoTarget \notin Targets /\ \A p : PlacedAt(p) \subseteq Targets
  BY FilesAssumption DEF PlacedAt
<1>3. \A p : PlacedAt(p)' = PlacedAt(p)
  BY DEF PlacedAt
<1>4. CASE files'.located = files.located /\ (makes' = makes \/ makes' = 0)
  <2> SUFFICES ASSUME NEW p \in Paths
               PROVE  /\ files'.located[p] # NoTarget => files'.located[p] \in PlacedAt(p)
                      /\ makes' > 0 /\ PlacedAt(p) # {} => files'.located[p] # NoTarget
    BY <1>3 DEF LocatedRight
  <2> QED
    BY <1>1, <1>4 DEF LocatedRight
<1>5. CASE Exit
  <2>1. makes' = 0 /\ \A p \in Paths : files'.located[p] = NoTarget
    BY <1>5 DEF Exit, NothingKnown
  <2> QED
    BY <2>1 DEF LocatedRight
<1>6. CASE Make
  <2>1. BindLocated
    BY <1>6 DEF Make
  <2>2. \A p \in Paths : IF files.located[p] = NoTarget /\ PlacedAt(p) # {}
                         THEN files'.located[p] \in PlacedAt(p)
                         ELSE files'.located[p] = files.located[p]
    BY <1>1, <2>1, BindLocatedIs
  <2>3. ASSUME NEW p \in Paths
        PROVE  /\ files'.located[p] # NoTarget => files'.located[p] \in PlacedAt(p)
               /\ PlacedAt(p) # {} => files'.located[p] # NoTarget
    BY <1>1, <1>2, <2>2 DEF LocatedRight
  <2> QED
    BY <1>3, <2>3 DEF LocatedRight
<1>7. ASSUME NEW t \in Targets, Visit(t) PROVE LocatedRight'
  <2>1. makes' = makes /\ makes > 0
    BY <1>1, <1>7, VisitIs DEF Resting, countVars
  <2>2. files \in FileTables(Times) /\ DiskTimes \in [Paths -> Times] /\ 0 \in Times
    BY <1>1, TimesType DEF TypedTargets
  <2>3. files' = SearchOf(t).files \/ files' = files
    BY <1>7, VisitIs
  <2>4. CASE Locate[t] # {}
    <3>1. t \in PlacedAt(PlaceOf(t))
      BY <2>4, PlacedAtIs
    <3>2. \A q \in Paths : SearchOf(t).files.located[q] =
            IF q = PlaceOf(t) /\ files.located[q] = NoTarget THEN t ELSE files.located[q]
      BY <2>2, <2>4, SearchLocated DEF SearchOf
    <3>3. ASSUME NEW p \in Paths
          PROVE  /\ files'.located[p] # NoTarget => files'.located[p] \in PlacedAt(p)
                 /\ PlacedAt(p) # {} => files'.located[p] # NoTarget
      <4>1. files'.located[p] = files.located[p] \/ (p = PlaceOf(t) /\ files'.located[p] = t)
        BY <2>3, <3>2
      <4> QED
        BY <1>1, <1>2, <2>1, <3>1, <4>1 DEF LocatedRight
    <3> QED
      BY <1>3, <3>3 DEF LocatedRight
  <2>5. CASE Locate[t] = {}
    <3>1. SearchOf(t).files.located = files.located
      BY <2>2, <2>5, SearchAlong DEF SearchOf
    <3> QED
      BY <1>4, <2>1, <2>3, <3>1
  <2> QED
    BY <2>4, <2>5
<1>8. ASSUME NEW d \in Globbed, Glob(d) PROVE files'.located = files.located /\ makes' = makes
  <2>1. {d} \in SUBSET Dirs
    BY HeaderCacheAssumption
  <2> QED
    BY <1>1, <1>8, <2>1, DirScanFields, TimesType DEF Glob, TypedTargets, countVars
<1>9. ASSUME NEW t \in Targets, RescanFile(t) \/ RescanNode(t) PROVE UNCHANGED <<files, makes>>
  BY <1>9, RescanIs DEF countVars
<1> QED
  BY <1>4, <1>5, <1>6, <1>7, <1>8, <1>9
     DEF Next, MakeDies, EndRun, Crash, Edit, Start, Build, Decide, SaveStart, SaveRecord, SaveEnd, MakeEnd,
         vars, countVars

\* timestamp()'s answer for a file this run has not written is right.
LEMMA AnswerTrue ==
  ASSUME NEW f, NEW dt, NEW p \in Paths, Agree(f), Shows(f, dt, p), f.bind[p].progress # "INIT"
  PROVE  TimeOf(f, p) = dt[p]
<1>1. p[1] \in f.scanned
  BY DEF Agree
<1>2. CASE f.bind[p].progress = "FOUND"
  BY <1>2 DEF Agree, Shows, TimeOf
<1>3. CASE f.bind[p].progress # "FOUND"
  BY <1>1, <1>3 DEF Shows, TimeOf
<1> QED
  BY <1>2, <1>3

\* How a target is bound.
BoundRight(t) ==
  /\ target[t].binding = "UNBOUND" <=> fate[t] = "INIT"
  /\ target[t].binding = "EXISTS" =>
       LET p == target[t].path
       IN  /\ files.bind[p].progress = "FOUND"
           /\ p \notin written => disk[p].time # 0 /\ target[t].time >= disk[p].time
  /\ target[t].binding # "UNBOUND" /\ Locate[t] # {} => target[t].path = PlaceOf(t)

LEMMA BoundIs == Bound <=> \A t \in Targets : BoundRight(t)
<1>1. ASSUME NEW t \in Targets, Locate[t] # {}
      PROVE  \A p : p \in {At(d, t) : d \in Locate[t]} <=> p = PlaceOf(t)
  BY <1>1, PlaceType
<1> QED
  BY <1>1 DEF Bound, BoundRight

FilesKept == /\ Extends(files, files', DiskTimes) /\ written \subseteq written'
             /\ \A p \in Paths \ written' : disk'[p] = disk[p]

\* A target stays bound, as long as it is not bound anew and gets no older.
LEMMA BoundStays ==
  ASSUME IInv, FilesKept, NEW t \in Targets,
         target'[t].path = target[t].path, target'[t].binding = target[t].binding,
         \/ target'[t].time = target[t].time
         \/ target'[t].time \in Nat /\ target'[t].time >= target[t].time,
         fate'[t] = "INIT" <=> fate[t] = "INIT"
  PROVE  BoundRight(t)'
<1>1. BoundRight(t) /\ Agree(files) /\ TypedTargets /\ Typed
  BY BoundIs, TypedParts DEF IInv, FilesTrue
<1>2. target[t] \in TargetTable(Times) /\ \A p \in Paths : disk[p].time \in Nat
  BY <1>1, TypedParts, TimesType DEF TypedTargets, TypedDisk
<1>3. CASE target[t].binding = "UNBOUND"
  BY <1>1, <1>3 DEF BoundRight
<1>4. CASE target[t].binding # "UNBOUND"
  <2>1. target[t].path \in Paths /\ target[t].time \in Nat
    BY <1>1, <1>2, TimesType DEF TargetTable
  <2>2. ASSUME target[t].binding = "EXISTS"
        PROVE  /\ files'.bind[target[t].path].progress = "FOUND"
               /\ target[t].path \notin written' =>
                    /\ disk'[target[t].path].time # 0 /\ target'[t].time >= disk'[target[t].path].time
    <3> DEFINE p == target[t].path
    <3>1. /\ files.bind[p].progress = "FOUND"
          /\ p \notin written => disk[p].time # 0 /\ target[t].time >= disk[p].time
      BY <1>1, <2>2 DEF BoundRight
    <3>2. files'.bind[p] = files.bind[p]
      BY <1>1, <2>1, <3>1 DEF FilesKept, Extends
    <3>3. ASSUME p \notin written' PROVE disk'[p].time # 0 /\ target'[t].time >= disk'[p].time
      <4>1. p \notin written /\ disk'[p] = disk[p]
        BY <2>1, <3>3 DEF FilesKept
      <4>2. disk[p].time \in Nat
        BY <1>2, <2>1
      <4> HIDE DEF p
      <4> QED
        BY <2>1, <3>1, <4>1, <4>2
    <3> QED
      BY <3>1, <3>2, <3>3
  <2> QED
    BY <1>1, <2>1, <2>2 DEF BoundRight
<1> QED
  BY <1>3, <1>4

LEMMA BoundStep == ASSUME IInv, [Next]_vars PROVE Bound'
<1>1. Bound /\ Resting /\ FilesTrue /\ Typed /\ TypedDisk /\ TypedTargets /\ makes \in Nat
  BY TypedParts DEF IInv, Typed
<1>2. (Bound <=> \A t \in Targets : BoundRight(t))'
  BY BoundIs, PTL
<1>3. CASE Blank'
  <2>1. \A t \in Targets : target'[t] = Unbound' /\ fate'[t] = "INIT"
    BY <1>3 DEF Blank
  <2>2. Unbound.binding = "UNBOUND" /\ Unbound' = Unbound
    BY DEF Unbound
  <2> QED
    BY <1>2, <2>1, <2>2 DEF BoundRight
<1>4. ASSUME NEW p \in Edited, Edit(p) PROVE Bound'
  BY <1>1, <1>3, <1>4 DEF Edit, Resting, Blank, targetVars, cacheVars, Unbound
<1>5. FilesKept \/ (files' = NothingKnown /\ phase' = "off")
  BY FilesStep DEF FilesKept
<1>13. CASE phase' = "off"
  <2>1. Exit \/ (\E p \in Edited : Edit(p)) \/ UNCHANGED vars
    <3>1. ASSUME NEW t \in Targets, Visit(t) PROVE phase # "off" /\ phase' = phase
      BY <1>1, <3>1, VisitIs DEF Resting, Blank
    <3>2. ASSUME NEW t \in Targets, RescanFile(t) \/ RescanNode(t) PROVE phase # "off" /\ phase' = phase
      BY <3>2, RescanIs
    <3> QED
      BY <1>13, <3>1, <3>2
         DEF Next, MakeDies, EndRun, Crash, Start, Glob, Make, Build, Decide, SaveStart, SaveRecord, SaveEnd, MakeEnd
  <2>2. CASE UNCHANGED vars
    BY <1>1, <2>2 DEF vars, diskVars, targetVars, Bound
  <2> QED
    BY <1>3, <1>4, <2>1, <2>2, ExitBlanks
<1>14. SUFFICES ASSUME FilesKept PROVE Bound'
  BY <1>5, <1>13
<1>15. Extends(files, files', DiskTimes)
  BY <1>14 DEF FilesKept
<1>6. \A t \in Targets : /\ target[t] \in TargetTable(Times) /\ target[t].time \in Nat
  BY <1>1, TimesType DEF TypedTargets, TargetTable
<1>7. ASSUME NEW t \in Targets, target'[t] = target[t], fate'[t] = "INIT" <=> fate[t] = "INIT"
      PROVE  BoundRight(t)'
  BY <1>7, <1>14, BoundStays
<1>8. CASE UNCHANGED <<target, fate>>
  BY <1>2, <1>7, <1>8
<1>9. CASE Make
  <2>1. BindLocated /\ fate' = fate /\ UNCHANGED <<disk, written>>
    BY <1>9 DEF Make, diskVars
  <2>2. ASSUME NEW t \in Targets, Locate[t] # {}, target[t].binding = "EXISTS"
        PROVE  BoundRight(t)'
    <3> DEFINE p == PlaceOf(t)
    <3>1. p \in Paths
      BY <2>2, PlaceType
    <3>2. BoundRight(t)
      BY <1>1, BoundIs
    <3>3. /\ target[t].path = p
          /\ files.bind[p].progress = "FOUND"
          /\ p \notin written => disk[p].time # 0
          /\ fate[t] # "INIT"
      BY <2>2, <3>2 DEF BoundRight
    <3>4. /\ target'[t].binding = "EXISTS"
          /\ target'[t].path = p /\ target'[t].time = TimeOf(files', p)
      BY <1>1, <2>1, <2>2, BindLocatedIs
    <3> HIDE DEF p
    <3>5. files'.bind[p].progress = "FOUND"
      BY <1>1, <1>15, <3>1, <3>3 DEF Extends, FilesTrue
    <3>6. ASSUME p \notin written PROVE TimeOf(files', p) = disk[p].time
      <4>1. Agree(files') /\ Shows(files', DiskTimes, p) /\ DiskTimes[p] = disk[p].time
        BY <1>1, <1>15, <3>1, <3>6, TimesType DEF Extends, FilesTrue
      <4> QED
        BY <3>1, <3>5, <4>1, AnswerTrue
    <3>7. disk[p].time \in Nat
      BY <1>1, <3>1, TimesType DEF TypedDisk
    <3>8. p \notin written' => disk'[p].time # 0 /\ target'[t].time >= disk'[p].time
      BY <2>1, <3>3, <3>4, <3>6, <3>7
    <3> QED
      BY <2>1, <3>3, <3>4, <3>5, <3>8 DEF BoundRight, p
  <2>3. ASSUME NEW t \in Targets, Locate[t] # {}, target[t].binding # "EXISTS"
        PROVE  BoundRight(t)'
    <3>1. BoundRight(t)
      BY <1>1, BoundIs
    <3>2. target'[t].binding = target[t].binding /\ target'[t].path = PlaceOf(t)
      BY <1>1, <2>1, <2>3, BindLocatedIs
    <3> QED
      BY <2>1, <2>3, <3>1, <3>2 DEF BoundRight
  <2>4. ASSUME NEW t \in Targets, Locate[t] = {} PROVE BoundRight(t)'
    <3>1. target'[t] = target[t]
      BY <1>1, <2>1, <2>4, BindLocatedIs
    <3> QED
      BY <1>7, <2>1, <3>1
  <2> QED
    BY <1>2, <2>2, <2>3, <2>4
<1>10. CASE Decide
  <2>1. \A t \in Targets : /\ target'[t].path = target[t].path /\ target'[t].binding = target[t].binding
                           /\ target'[t].time >= target[t].time /\ target'[t].time \in Nat
                           /\ fate'[t] = "INIT" <=> fate[t] = "INIT"
    BY <1>1, <1>10, DecideIs, TimesType DEF TargetTable
  <2> QED
    BY <1>2, <1>14, <2>1, BoundStays
<1>11. ASSUME NEW t \in Targets, RescanFile(t) \/ RescanNode(t) PROVE Bound'
  <2>1. Headers(t, target[t], {}) /\ fate' = fate
    BY <1>11, RescanIs
  <2>2. /\ \A u \in Targets \ {t} : target'[u] = target[u]
        /\ target'[t].path = target[t].path /\ target'[t].time = target[t].time
        /\ target'[t].binding = target[t].binding
    BY <1>1, <1>6, <2>1, HeadersIs
  <2>3. BoundRight(t)'
    BY <1>14, <2>1, <2>2, BoundStays
  <2>4. \A u \in Targets \ {t} : BoundRight(u)'
    BY <1>7, <2>1, <2>2
  <2> QED
    BY <1>2, <2>3, <2>4
<1>12. ASSUME NEW t \in Targets, Visit(t) PROVE Bound'
  <2> DEFINE b == BoundAs(t)
  <2>1. b \in TargetTable(Times) /\ b.includes \in SUBSET Targets
    BY <1>1, BoundAsType DEF TargetTable
  <2>2. /\ \A u \in Targets \ {t} : target'[u] = target[u]
        /\ target'[t].path = b.path /\ target'[t].time = b.time /\ target'[t].binding = b.binding
    <3>1. \/ Headers(t, b, b.includes)
          \/ target' = [target EXCEPT ![t] = b]
      BY <1>12, VisitIs
    <3> HIDE DEF b
    <3>2. CASE Headers(t, b, b.includes)
      BY <1>1, <2>1, <3>2, HeadersIs
    <3>3. CASE target' = [target EXCEPT ![t] = b]
      BY <1>1, <3>3 DEF TypedTargets
    <3> QED
      BY <3>1, <3>2, <3>3
  <2>3. /\ fate' = [fate EXCEPT ![t] = "MAKING"] /\ UNCHANGED <<disk, written>>
        /\ files' = IF target[t].binding = "UNBOUND" THEN SearchOf(t).files ELSE files
    BY <1>12, VisitIs DEF diskVars
  <2>4. fate'[t] = "MAKING" /\ \A u \in Targets \ {t} : fate'[u] = fate[u]
    BY <1>1, <2>3 DEF TypedTargets
  <2>5. \A u \in Targets \ {t} : BoundRight(u)'
    BY <1>7, <2>2, <2>4
  <2>6. CASE target[t].binding # "UNBOUND"
    <3>1. b = target[t] /\ fate[t] # "INIT"
      BY <1>1, <2>6, BoundIs DEF BoundAs, BoundRight
    <3>2. BoundRight(t)'
      BY <1>14, <2>2, <2>4, <3>1, BoundStays
    <3> QED
      BY <1>2, <2>5, <3>2
  <2>7. CASE target[t].binding = "UNBOUND"
    <3> DEFINE p == SearchOf(t).path
    <3>1. /\ b.path = p /\ b.time = SearchOf(t).time
          /\ b.binding = IF SearchOf(t).time # 0 THEN "EXISTS" ELSE "MISSING"
      BY <2>7 DEF BoundAs
    <3>2. p \in Paths /\ SearchOf(t).time = TimeOf(files', p)
      BY <1>1, <2>3, <2>7, SearchTyped
    <3>3. Locate[t] # {} => p = PlaceOf(t)
      BY <1>1, SearchLocated, TimesType DEF SearchOf, TypedTargets
    <3> HIDE DEF p, b
    <3>4. ASSUME b.time # 0
          PROVE  /\ files'.bind[p].progress = "FOUND"
                 /\ p \notin written => b.time = disk[p].time
      <4>1. files'.bind[p].progress = "FOUND"
        BY <3>1, <3>2, <3>4 DEF TimeOf
      <4>2. ASSUME p \notin written PROVE TimeOf(files', p) = disk[p].time
        <5>1. Agree(files') /\ Shows(files', DiskTimes, p) /\ DiskTimes[p] = disk[p].time
          BY <1>1, <1>15, <3>2, <4>2, TimesType DEF Extends, FilesTrue
        <5> QED
          BY <3>2, <4>1, <5>1, AnswerTrue
      <4> QED
        BY <3>1, <3>2, <4>1, <4>2
    <3>5. disk[p].time \in Nat
      BY <1>1, <3>2, TimesType DEF TypedDisk
    <3>6. target'[t].binding = "EXISTS" =>
            /\ files'.bind[p].progress = "FOUND"
            /\ p \notin written' => disk'[p].time # 0 /\ target'[t].time >= disk'[p].time
      BY <2>2, <2>3, <3>1, <3>4, <3>5
    <3>7. BoundRight(t)'
      BY <2>2, <2>4, <3>1, <3>3, <3>6 DEF BoundRight
    <3> QED
      BY <1>2, <2>5, <3>7
  <2> QED
    BY <2>6, <2>7
<1> QED
  BY <1>3, <1>4, <1>8, <1>9, <1>10, <1>11, <1>12, ExitBlanks
     DEF Next, MakeDies, EndRun, Crash, Start, Glob, Build, SaveStart, SaveRecord, SaveEnd, MakeEnd,
         vars, targetVars

\* Whether an entry is good has nothing to do with its age.
LEMMA GoodAge == ASSUME NEW e \in Records, NEW a PROVE Good([e EXCEPT !.age = a]) <=> Good(e)
BY DEF Good, GoodFor, Records

\* It stays good when a file is written or removed.
LEMMA GoodStays ==
  ASSUME IInv, NEW e \in Records, Good(e),
         clock' = clock + 1,
         NEW p \in Paths, disk'[p].time = 0 \/ disk'[p].time = clock + 1,
         \A q \in Paths \ {p} : disk'[q] = disk[q]
  PROVE  GoodFor(e, disk', clock')
<1>1. e.time \in Nat /\ e.path \in Paths /\ e.time <= clock /\ clock \in Nat
  BY TypedParts DEF Records, Good, GoodFor, IInv, TypedDisk
<1>2. CASE e.path = p
  <2>1. ~(disk'[e.path].time # 0 /\ e.time >= disk'[e.path].time)
    BY <1>1, <1>2
  <2> QED
    BY <1>1, <2>1 DEF Good, GoodFor
<1>3. CASE e.path # p
  <2>1. disk'[e.path] = disk[e.path]
    BY <1>1, <1>3
  <2> QED
    BY <1>1, <2>1 DEF Good, GoodFor
<1> QED
  BY <1>2, <1>3

\* What hcache() answers is good.
LEMMA AnswerGood ==
  ASSUME IInv, NEW p \in Paths, NEW time \in Times
  PROVE  Good(NewEntry(p, time))
<1> DEFINE e == NewEntry(p, time)
<1>1. /\ Typed /\ TypedDisk /\ TypedCache /\ EntriesGood
      /\ hdrscan \in HdrScans /\ Rest = RestOf(hdrscan) /\ InFile(p) = Finds(hdrscan, disk[p].includes)
  BY TypedParts DEF IInv, TypedDisk, Rest, RestOf, InFile, Finds
<1>2. e.path = p /\ e.time = time /\ e.scan = Rest /\ e.includes = Cached(p, time)
  BY DEF NewEntry
<1>3. time <= clock
  BY <1>1 DEF Times, TypedDisk
<1> HIDE DEF e
<1>4. CASE Hit(p, time)
  <2> DEFINE o == entries[hash[p]]
  <2>1. /\ hash[p] \in DOMAIN entries /\ o.path = p /\ o.time = time /\ o.scan = Rest
        /\ Cached(p, time) = o.includes
    <3>1. entries \in Seq(Records) /\ hash[p] \in 0..Len(entries) /\ hash[p] # 0
      BY <1>1, <1>4 DEF TypedCache, Hit
    <3> QED
      BY <1>1, <1>4, <3>1 DEF Hit, Cached, EntriesGood
  <2>2. Good(o)
    BY <1>1, <2>1 DEF EntriesGood
  <2> HIDE DEF o
  <2> QED
    BY <1>2, <2>1, <2>2 DEF Good, GoodFor, e
<1>5. CASE ~Hit(p, time)
  <2>1. Cached(p, time) = Finds(hdrscan, disk[p].includes)
    BY <1>1, <1>5 DEF Cached
  <2> QED
    BY <1>1, <1>2, <1>3, <2>1 DEF Good, GoodFor, e
<1> QED
  BY <1>4, <1>5

LEMMA AskGood ==
  ASSUME IInv, NEW p \in Paths, NEW time \in Times, Ask(p, time) \/ UNCHANGED cacheVars
  PROVE  /\ \A i \in DOMAIN entries' : Good(entries'[i])
         /\ \A q \in Paths : hash'[q] # 0 => entries'[hash'[q]].path = q
<1>1. Typed /\ TypedCache /\ EntriesGood /\ time \in Nat
  BY TypedParts, TimesType DEF IInv
<1>2. CASE Ask(p, time)
  <2>1. \A i \in DOMAIN entries' : \/ entries'[i] = NewEntry(p, time)
                                   \/ i \in DOMAIN entries /\ entries'[i] = entries[i]
    BY <1>1, <1>2, AskIs
  <2>2. \A q \in Paths : hash'[q] # 0 => entries'[hash'[q]].path = q
    BY <1>1, <1>2, AskIs DEF EntriesGood
  <2>3. Good(NewEntry(p, time))
    BY AnswerGood
  <2>4. ASSUME NEW i \in DOMAIN entries' PROVE Good(entries'[i])
    <3>1. CASE entries'[i] = NewEntry(p, time)
      BY <2>3, <3>1
    <3>2. CASE i \in DOMAIN entries /\ entries'[i] = entries[i]
      BY <1>1, <3>2 DEF EntriesGood
    <3> QED
      BY <2>1, <3>1, <3>2
  <2> QED
    BY <2>2, <2>4
<1>3. CASE UNCHANGED cacheVars
  BY <1>1, <1>3 DEF EntriesGood, cacheVars
<1> QED
  BY <1>2, <1>3

LEMMA EntriesStep == ASSUME IInv, [Next]_vars PROVE EntriesGood'
<1>1. EntriesGood /\ Resting /\ Typed /\ TypedDisk /\ TypedTargets /\ TypedCache
  BY TypedParts DEF IInv
<1>2. /\ \A i \in DOMAIN entries : entries[i] \in Records
      /\ \A i \in DOMAIN toSave : toSave[i] \in Records
      /\ \A i \in DOMAIN cacheFile.records : cacheFile.records[i] \in Records
  BY <1>1 DEF TypedCache, TypedDisk
<1>3. ASSUME UNCHANGED diskVars,
             \A i \in DOMAIN entries' : Good(entries'[i]),
             \A i \in DOMAIN toSave' : Good(toSave'[i]),
             \A i \in DOMAIN cacheFile'.records : Good(cacheFile'.records[i]),
             \A p \in Paths : hash'[p] # 0 => entries'[hash'[p]].path = p
      PROVE  EntriesGood'
  BY <1>3 DEF EntriesGood, Good, diskVars
<1>4. CASE UNCHANGED <<diskVars, entries, hash, toSave, cacheFile>>
  BY <1>1, <1>3, <1>4 DEF EntriesGood
<1>5. ASSUME clock' = clock + 1,
             \A e \in Records : Good(e) => GoodFor(e, disk', clock'),
             UNCHANGED <<entries, hash, toSave, cacheFile>>
      PROVE  EntriesGood'
  BY <1>1, <1>2, <1>5 DEF EntriesGood, Good
<1>6. ASSUME NEW p \in Edited, Edit(p) PROVE EntriesGood'
  <2>1. p \in Paths
    BY HeaderCacheAssumption
  <2>2. /\ clock' = clock + 1
        /\ disk'[p].time = 0 \/ disk'[p].time = clock + 1
        /\ \A q \in Paths \ {p} : disk'[q] = disk[q]
    BY <1>1, <1>6, <2>1 DEF Edit, Missing, TypedDisk
  <2>3. \A e \in Records : Good(e) => GoodFor(e, disk', clock')
    BY <2>1, <2>2, GoodStays
  <2> QED
    BY <1>5, <1>6, <2>2, <2>3 DEF Edit, cacheVars
<1>7. ASSUME NEW t \in Targets, Build(t) PROVE EntriesGood'
  <2> DEFINE p == target[t].path
  <2>1. p \in Paths
    BY <1>1 DEF TypedTargets, TargetTable
  <2>2. /\ clock' = clock + 1
        /\ \E c \in Contents[p] : disk' = [disk EXCEPT ![p] = [time |-> clock + 1, includes |-> c]]
        /\ UNCHANGED <<entries, hash, toSave, cacheFile>>
    BY <1>7 DEF Build, cacheVars
  <2> HIDE DEF p
  <2>3. disk'[p].time = clock + 1 /\ \A q \in Paths \ {p} : disk'[q] = disk[q]
    BY <1>1, <2>1, <2>2 DEF TypedDisk
  <2>4. \A e \in Records : Good(e) => GoodFor(e, disk', clock')
    BY <2>1, <2>2, <2>3, GoodStays
  <2> QED
    BY <1>5, <2>2, <2>4
<1>8. CASE Exit /\ \/ cacheFile' = cacheFile
                   \/ cacheFile' = [cacheFile EXCEPT !.end = "atScan"]
  <2>1. cacheFile'.records = cacheFile.records
    BY <1>1, <1>8 DEF TypedDisk
  <2>2. entries' = <<>> /\ toSave' = <<>> /\ UNCHANGED diskVars /\ \A p \in Paths : hash'[p] = 0
    BY <1>8 DEF Exit
  <2> QED
    BY <1>1, <1>3, <2>1, <2>2 DEF EntriesGood
<1>9. CASE Make
  <2>1. ReadCache /\ UNCHANGED <<diskVars, cacheFile, toSave>>
    BY <1>9 DEF Make
  <2>2. /\ \A i \in DOMAIN entries' :
             \/ i \in DOMAIN entries /\ entries'[i] = entries[i]
             \/ \E j \in DOMAIN cacheFile.records : entries'[i] = Older(cacheFile.records[j])
        /\ \A p \in Paths : hash'[p] # 0 => entries'[hash'[p]].path = p
    BY <1>1, <2>1, ReadCacheIs
  <2>3. \A j \in DOMAIN cacheFile.records : Good(Older(cacheFile.records[j]))
    BY <1>1, <1>2, GoodAge DEF Older, EntriesGood
  <2>4. \A i \in DOMAIN entries' : Good(entries'[i])
    BY <1>1, <2>2, <2>3 DEF EntriesGood
  <2> QED
    BY <1>1, <1>3, <2>1, <2>2, <2>4 DEF EntriesGood
<1>10. ASSUME NEW p \in Paths, NEW time \in Times, Ask(p, time) \/ UNCHANGED cacheVars,
              UNCHANGED <<diskVars, cacheFile, toSave>>
       PROVE  EntriesGood'
  BY <1>1, <1>3, <1>10, AskGood DEF EntriesGood
<1>11. ASSUME NEW t \in Targets, Visit(t) PROVE EntriesGood'
  <2> DEFINE b == BoundAs(t)
  <2>1. b \in TargetTable(Times) /\ b.includes \in SUBSET Targets /\ b.path \in Paths /\ b.time \in Times
    BY <1>1, BoundAsType DEF TargetTable
  <2>2. Headers(t, b, b.includes) \/ UNCHANGED cacheVars
    BY <1>11, VisitIs
  <2> HIDE DEF b
  <2>3. Ask(b.path, b.time) \/ UNCHANGED cacheVars
    BY <1>1, <2>1, <2>2, HeadersIs
  <2>4. UNCHANGED <<diskVars, cacheFile, toSave>>
    BY <1>11, VisitIs
  <2> QED
    BY <1>10, <2>1, <2>3, <2>4
<1>12. ASSUME NEW t \in Targets, RescanFile(t) \/ RescanNode(t) PROVE EntriesGood'
  <2> DEFINE b == target[t]
  <2>1. b \in TargetTable(Times) /\ b.path \in Paths /\ b.time \in Times
    BY <1>1 DEF TypedTargets, TargetTable
  <2>2. Headers(t, b, {}) /\ UNCHANGED <<diskVars, cacheFile, toSave>>
    BY <1>12, RescanIs
  <2> HIDE DEF b
  <2>3. Ask(b.path, b.time) \/ UNCHANGED cacheVars
    BY <1>1, <2>1, <2>2, HeadersIs
  <2> QED
    BY <1>10, <2>1, <2>2, <2>3
<1>13. CASE SaveStart
  <2>1. /\ DOMAIN entries' = DOMAIN entries
        /\ \A i \in DOMAIN entries : entries'[i] = Left(entries[i])
        /\ \A i \in DOMAIN toSave' : \E j \in DOMAIN entries : toSave'[i] = Left(entries[j])
    <3>1. entries \in Seq(Records)
      BY <1>1 DEF TypedCache
    <3> QED
      BY <1>1, <1>13, <3>1, SaveStartIs
  <2>2. \A i \in DOMAIN entries : Good(Left(entries[i])) /\ Left(entries[i]).path = entries[i].path
    <3>1. \A i \in DOMAIN entries : Good([entries[i] EXCEPT !.age = 0])
      BY <1>1, <1>2, GoodAge DEF EntriesGood
    <3>2. \A e \in Records : Left(e).path = e.path
      BY DEF Left, Records
    <3> QED
      BY <1>1, <1>2, <3>1, <3>2 DEF Left, EntriesGood
  <2>3. cacheFile'.records = <<>> /\ hash' = hash /\ UNCHANGED diskVars
    BY <1>13 DEF SaveStart
  <2>4. \A p \in Paths : hash'[p] # 0 => entries'[hash'[p]].path = p
    <3>1. \A p \in Paths : hash[p] # 0 => hash[p] \in DOMAIN entries
      BY <1>1 DEF TypedCache
    <3> QED
      BY <1>1, <2>1, <2>2, <2>3, <3>1 DEF EntriesGood
  <2>5. (\A i \in DOMAIN entries' : Good(entries'[i])) /\ \A i \in DOMAIN toSave' : Good(toSave'[i])
    BY <2>1, <2>2
  <2> QED
    BY <1>3, <2>3, <2>4, <2>5
<1>14. CASE SaveRecord
  <2>1. /\ 1 \in DOMAIN toSave
        /\ \A i \in DOMAIN toSave' : \E j \in DOMAIN toSave : toSave'[i] = toSave[j]
        /\ \A i \in DOMAIN cacheFile'.records :
             \/ i \in DOMAIN cacheFile.records /\ cacheFile'.records[i] = cacheFile.records[i]
             \/ cacheFile'.records[i] = toSave[1]
    BY <1>1, <1>14, SaveRecordIs
  <2>2. UNCHANGED <<diskVars, cacheVars>>
    BY <1>14 DEF SaveRecord
  <2>3. \A i \in DOMAIN cacheFile'.records : Good(cacheFile'.records[i])
    BY <1>1, <2>1 DEF EntriesGood
  <2>4. \A i \in DOMAIN toSave' : Good(toSave'[i])
    BY <1>1, <2>1 DEF EntriesGood
  <2> QED
    BY <1>1, <1>3, <2>2, <2>3, <2>4 DEF EntriesGood, cacheVars
<1>15. CASE SaveEnd
  <2>1. cacheFile' = [cacheFile EXCEPT !.end = "whole"] /\ UNCHANGED <<diskVars, entries, hash, toSave>>
    BY <1>15 DEF SaveEnd
  <2>2. cacheFile'.records = cacheFile.records
    BY <1>1, <2>1 DEF TypedDisk
  <2> QED
    BY <1>1, <1>3, <2>1, <2>2 DEF EntriesGood
<1>16. CASE MakeEnd \/ Decide \/ Start \/ (\E d \in Globbed : Glob(d)) \/ UNCHANGED vars
  BY <1>4, <1>16 DEF MakeEnd, Decide, Start, Glob, vars, cacheVars
<1> QED
  BY <1>6, <1>7, <1>8, <1>9, <1>11, <1>12, <1>13, <1>14, <1>15, <1>16
     DEF Next, MakeDies, EndRun, Crash

LEMMA AgesStep == ASSUME IInv, [Next]_vars PROVE Ages'
<1>1. Ages /\ Resting /\ Typed /\ TypedDisk /\ TypedTargets /\ TypedCache
  BY TypedParts DEF IInv
<1>2. /\ \A i \in DOMAIN entries : entries[i] \in Records
      /\ \A i \in DOMAIN toSave : toSave[i] \in Records
      /\ \A i \in DOMAIN cacheFile.records : cacheFile.records[i] \in Records
      /\ \A p \in Paths : idle[p] \in Nat
      /\ makes \in Nat /\ MaxAge \in Nat
  BY <1>1, HeaderCacheAssumption DEF TypedCache, TypedDisk
<1>3. /\ MaxAge # 0 => \A i \in DOMAIN cacheFile.records : AgedFor(cacheFile.records[i], idle, 1)
      /\ MaxAge # 0 => \A i \in DOMAIN entries : AgedFor(entries[i], idle, Slack)
      /\ MaxAge # 0 => \A i \in DOMAIN toSave : AgedFor(toSave[i], idle, Slack)
      /\ MaxAge # 0 /\ phase = "saving" =>
           \A i \in DOMAIN cacheFile.records :
             AgedFor(cacheFile.records[i], idle, Slack) /\ cacheFile.records[i].age <= MaxAge
  BY <1>1 DEF Ages, Aged
<1>4. ASSUME MaxAge # 0 =>
               /\ \A i \in DOMAIN entries' : AgedFor(entries'[i], idle', Slack')
               /\ \A i \in DOMAIN toSave' : AgedFor(toSave'[i], idle', Slack')
               /\ \A i \in DOMAIN cacheFile'.records : AgedFor(cacheFile'.records[i], idle', 1)
               /\ phase' = "saving" =>
                    \A i \in DOMAIN cacheFile'.records :
                      AgedFor(cacheFile'.records[i], idle', Slack') /\ cacheFile'.records[i].age <= MaxAge
      PROVE  Ages'
  BY <1>4 DEF Ages, Aged
<1>5. ASSUME UNCHANGED <<entries, toSave, cacheFile, idle, makes>>,
             phase' = phase \/ {phase, phase'} \cap {"make0", "saving"} = {}
      PROVE  Ages'
  <2>1. Slack' = Slack /\ (phase' = "saving" => phase = "saving")
    BY <1>5 DEF Slack
  <2> QED
    BY <1>3, <1>4, <1>5, <2>1
<1>6. ASSUME NEW e \in Records PROVE AgedFor(e, idle, Slack) => AgedFor(e, idle, 1)
  BY <1>2 DEF AgedFor, Records, Slack
<1>7. CASE Exit /\ \/ cacheFile' = cacheFile
                   \/ cacheFile' = [cacheFile EXCEPT !.end = "atScan"]
  <2>1. cacheFile'.records = cacheFile.records
    BY <1>1, <1>7 DEF TypedDisk
  <2>2. entries' = <<>> /\ toSave' = <<>> /\ idle' = idle /\ phase' = "off"
    BY <1>7 DEF Exit
  <2> QED
    BY <1>3, <1>4, <2>1, <2>2
<1>8. CASE Make
  <2>1. /\ ReadCache /\ UNCHANGED <<cacheFile, toSave, idle>>
        /\ phase = "parse" /\ phase' = "make0" /\ makes' = makes + 1
    BY <1>8 DEF Make
  <2>2. Slack = 1 /\ Slack' = (IF makes # 0 THEN 1 ELSE 0) /\ toSave = <<>>
    BY <1>1, <1>2, <2>1 DEF Slack, Resting
  <2>3. \A i \in DOMAIN entries' :
          \/ i \in DOMAIN entries /\ entries'[i] = entries[i]
          \/ \E j \in DOMAIN cacheFile.records : entries'[i] = Older(cacheFile.records[j])
    BY <1>1, <2>1, ReadCacheIs
  <2>4. makes = 0 => entries = <<>>
    BY <1>1 DEF Resting
  <2>5. ASSUME MaxAge # 0, NEW j \in DOMAIN cacheFile.records
        PROVE  AgedFor(Older(cacheFile.records[j]), idle, Slack')
    <3> DEFINE e == cacheFile.records[j]
    <3>1. e \in Records /\ AgedFor(e, idle, 1)
      BY <1>2, <1>3, <2>5
    <3> HIDE DEF e
    <3>2. Older(e).path = e.path /\ Older(e).age = e.age + 1
      BY <3>1 DEF Older, Records
    <3> QED
      BY <1>2, <2>2, <3>1, <3>2 DEF AgedFor, Records, e
  <2>6. ASSUME MaxAge # 0, NEW i \in DOMAIN entries' PROVE AgedFor(entries'[i], idle, Slack')
    <3>1. CASE i \in DOMAIN entries /\ entries'[i] = entries[i]
      <4>1. makes # 0
        BY <2>4, <3>1
      <4> QED
        BY <1>3, <2>2, <2>6, <3>1, <4>1
    <3> QED
      BY <2>3, <2>5, <2>6, <3>1
  <2> QED
    BY <1>3, <1>4, <2>1, <2>2, <2>6
<1>9. ASSUME NEW p \in Paths, NEW time \in Times, Ask(p, time) \/ UNCHANGED cacheVars,
             UNCHANGED <<phase, makes, cacheFile, toSave>>
      PROVE  Ages'
  <2>1. CASE UNCHANGED cacheVars
    BY <1>5, <1>9, <2>1 DEF cacheVars
  <2>2. CASE Ask(p, time)
    <3>1. /\ \A i \in DOMAIN entries' : \/ entries'[i] = NewEntry(p, time)
                                        \/ i \in DOMAIN entries /\ entries'[i] = entries[i]
          /\ idle' = [idle EXCEPT ![p] = 0]
      BY <1>1, <2>2, TimesType, AskIs
    <3>2. /\ \A q \in Paths : idle'[q] = 0 \/ idle'[q] = idle[q]
          /\ idle'[p] = 0
      BY <1>1, <3>1 DEF TypedCache
    <3>3. Slack' = Slack
      BY <1>9 DEF Slack
    <3>4. ASSUME NEW e \in Records, NEW n \in Nat, AgedFor(e, idle, n)
          PROVE  AgedFor(e, idle', n)
      BY <1>2, <3>2, <3>4 DEF AgedFor, Records
    <3>5. Slack \in Nat
      BY DEF Slack
    <3>6. AgedFor(NewEntry(p, time), idle', Slack')
      BY <3>2, <3>3, <3>5 DEF AgedFor, NewEntry
    <3>7. ASSUME MaxAge # 0, NEW i \in DOMAIN entries' PROVE AgedFor(entries'[i], idle', Slack')
      <4>1. CASE i \in DOMAIN entries /\ entries'[i] = entries[i]
        BY <1>2, <1>3, <3>3, <3>4, <3>5, <3>7, <4>1
      <4> QED
        BY <3>1, <3>6, <4>1
    <3> QED
      BY <1>2, <1>3, <1>4, <1>9, <3>3, <3>4, <3>5, <3>7
  <2> QED
    BY <1>9, <2>1, <2>2
<1>10. ASSUME NEW t \in Targets, Visit(t) PROVE Ages'
  <2> DEFINE b == BoundAs(t)
  <2>1. b \in TargetTable(Times) /\ b.includes \in SUBSET Targets /\ b.path \in Paths /\ b.time \in Times
    BY <1>1, BoundAsType DEF TargetTable
  <2>2. Headers(t, b, b.includes) \/ UNCHANGED cacheVars
    BY <1>10, VisitIs
  <2> HIDE DEF b
  <2>3. Ask(b.path, b.time) \/ UNCHANGED cacheVars
    BY <1>1, <2>1, <2>2, HeadersIs
  <2>4. UNCHANGED <<phase, makes, cacheFile, toSave>>
    BY <1>10, VisitIs DEF countVars
  <2> QED
    BY <1>9, <2>1, <2>3, <2>4
<1>11. ASSUME NEW t \in Targets, RescanFile(t) \/ RescanNode(t) PROVE Ages'
  <2> DEFINE b == target[t]
  <2>1. b \in TargetTable(Times) /\ b.path \in Paths /\ b.time \in Times
    BY <1>1 DEF TypedTargets, TargetTable
  <2>2. Headers(t, b, {}) /\ UNCHANGED <<phase, makes, cacheFile, toSave>>
    BY <1>11, RescanIs DEF countVars
  <2> HIDE DEF b
  <2>3. Ask(b.path, b.time) \/ UNCHANGED cacheVars
    BY <1>1, <2>1, <2>2, HeadersIs
  <2> QED
    BY <1>9, <2>1, <2>2, <2>3
<1>12. CASE SaveStart
  <2>1. /\ phase = "make0" /\ phase' = "saving" /\ cacheFile'.records = <<>>
        /\ UNCHANGED <<idle, makes>>
    BY <1>12 DEF SaveStart, countVars
  <2>2. Slack' = Slack
    BY <2>1 DEF Slack
  <2>3. /\ DOMAIN entries' = DOMAIN entries
        /\ \A i \in DOMAIN entries : entries'[i] = Left(entries[i])
        /\ \A i \in DOMAIN toSave' : \E j \in DOMAIN entries : toSave'[i] = Left(entries[j])
    <3>1. entries \in Seq(Records)
      BY <1>1 DEF TypedCache
    <3> QED
      BY <1>1, <1>12, <3>1, SaveStartIs
  <2>4. MaxAge # 0 => \A i \in DOMAIN entries : Left(entries[i]) = entries[i]
    BY DEF Left
  <2> QED
    BY <1>3, <1>4, <2>1, <2>2, <2>3, <2>4
<1>13. CASE SaveRecord
  <2>1. /\ 1 \in DOMAIN toSave
        /\ \A i \in DOMAIN toSave' : \E j \in DOMAIN toSave : toSave'[i] = toSave[j]
        /\ \A i \in DOMAIN cacheFile'.records :
             \/ i \in DOMAIN cacheFile.records /\ cacheFile'.records[i] = cacheFile.records[i]
             \/ cacheFile'.records[i] = toSave[1] /\ ~TooOld(toSave[1])
    BY <1>1, <1>13, SaveRecordIs
  <2>2. UNCHANGED <<phase, makes, idle, entries>> /\ phase = "saving"
    BY <1>13 DEF SaveRecord, cacheVars, countVars
  <2>3. Slack' = Slack
    BY <2>2 DEF Slack
  <2>4. MaxAge # 0 => /\ AgedFor(toSave[1], idle, Slack) /\ AgedFor(toSave[1], idle, 1)
                      /\ ~TooOld(toSave[1]) => toSave[1].age <= MaxAge
    BY <1>2, <1>3, <1>6, <2>1 DEF TooOld, Records
  <2>5. ASSUME MaxAge # 0, NEW i \in DOMAIN cacheFile'.records
        PROVE  /\ AgedFor(cacheFile'.records[i], idle, 1) /\ AgedFor(cacheFile'.records[i], idle, Slack)
               /\ cacheFile'.records[i].age <= MaxAge
    BY <1>3, <2>1, <2>2, <2>4, <2>5
  <2>6. ASSUME MaxAge # 0, NEW i \in DOMAIN toSave' PROVE AgedFor(toSave'[i], idle, Slack)
    BY <1>3, <2>1, <2>6
  <2> QED
    BY <1>3, <1>4, <2>2, <2>3, <2>5, <2>6
<1>14. CASE SaveEnd
  <2>1. /\ phase = "saving" /\ phase' = "make1" /\ makes' = makes /\ UNCHANGED <<entries, toSave>>
        /\ cacheFile' = [cacheFile EXCEPT !.end = "whole"]
        /\ idle' = IF makes = 1 THEN [p \in Paths |-> idle[p] + 1] ELSE idle
    BY <1>14 DEF SaveEnd, countVars
  <2>2. cacheFile'.records = cacheFile.records
    BY <1>1, <2>1 DEF TypedDisk
  <2>3. Slack' = 1 /\ (makes = 1 => Slack = 0)
    BY <2>1 DEF Slack
  <2>4. ASSUME NEW e \in Records, AgedFor(e, idle, Slack) PROVE AgedFor(e, idle', 1)
    <3>1. e.path \in Paths /\ e.age \in Nat /\ idle[e.path] \in Nat
      BY <1>2 DEF Records
    <3>2. CASE makes = 1
      <4>1. idle'[e.path] = idle[e.path] + 1 /\ idle[e.path] <= e.age
        BY <2>1, <2>3, <2>4, <3>1, <3>2 DEF AgedFor
      <4> QED
        BY <3>1, <4>1 DEF AgedFor
    <3>3. CASE makes # 1
      BY <1>6, <2>1, <2>4, <3>3
    <3> QED
      BY <3>2, <3>3
  <2>5. ASSUME MaxAge # 0, NEW i \in DOMAIN entries PROVE AgedFor(entries[i], idle', 1)
    BY <1>2, <1>3, <2>4, <2>5
  <2>6. ASSUME MaxAge # 0, NEW i \in DOMAIN toSave PROVE AgedFor(toSave[i], idle', 1)
    BY <1>2, <1>3, <2>4, <2>6
  <2>7. ASSUME MaxAge # 0, NEW i \in DOMAIN cacheFile.records PROVE AgedFor(cacheFile.records[i], idle', 1)
    BY <1>2, <1>3, <2>1, <2>4, <2>7
  <2> QED
    BY <1>4, <2>1, <2>2, <2>3, <2>5, <2>6, <2>7
<1>15. CASE MakeEnd \/ Decide \/ Start \/ (\E d \in Globbed : Glob(d)) \/ UNCHANGED vars
             \/ (\E t \in Targets : Build(t)) \/ (\E p \in Edited : Edit(p))
  BY <1>5, <1>15 DEF MakeEnd, Decide, Start, Glob, Build, Edit, vars, cacheVars, countVars
<1> QED
  BY <1>7, <1>8, <1>10, <1>11, <1>12, <1>13, <1>14, <1>15 DEF Next, MakeDies, EndRun, Crash

LEMMA InitInv == Init => IInv
<1> SUFFICES ASSUME Init PROVE IInv
  OBVIOUS
<1>1. Typed
  BY InitTyped
<1>2. /\ Blank /\ phase = "off" /\ cacheFile.records = <<>> /\ entries = <<>> /\ toSave = <<>>
      /\ files = NothingKnown /\ makes = 0
      /\ \A p \in Paths : hash[p] = 0
  BY DEF Init, Blank
<1>3. Resting
  BY <1>2 DEF Resting, Blank
<1>4. FilesTrue
  BY <1>2 DEF FilesTrue, NothingKnown, Agree, Shows, Paths
<1>5. LocatedRight
  BY <1>2 DEF LocatedRight, NothingKnown
<1>6. Bound
  <2>1. \A t \in Targets : target[t].binding = "UNBOUND" /\ fate[t] = "INIT"
    BY <1>2 DEF Blank, Unbound
  <2> QED
    BY <2>1 DEF Bound
<1>7. EntriesGood /\ Ages
  BY <1>2 DEF EntriesGood, Ages
<1> QED
  BY <1>1, <1>3, <1>4, <1>5, <1>6, <1>7 DEF IInv

LEMMA InvStep == IInv /\ [Next]_vars => IInv'
<1> SUFFICES ASSUME IInv, [Next]_vars PROVE IInv'
  OBVIOUS
<1>1. Typed'
  BY TypedStep DEF IInv
<1> QED
  BY <1>1, RestingStep, FilesTrueStep, LocatedStep, BoundStep, EntriesStep, AgesStep DEF IInv

LEMMA Invariance == Spec => []IInv
BY InitInv, InvStep, PTL DEF Spec

-----------------------------------------------------------------------------
(***************************************************************************)
(* What follows from the invariant.                                        *)
(***************************************************************************)

(***************************************************************************)
(* OneAnswerKept: whatever is globbed, bound, written and rescanned, a run *)
(* that timestamp() has told the time of a file is told that time again.   *)
(***************************************************************************)
THEOREM OneAnswerKept == Spec => OneAnswer
<1>1. ASSUME IInv, [Next]_vars, phase' # "off",
             NEW p \in Paths, files.bind[p].progress # "INIT"
      PROVE  TimeOf(files', p) = TimeOf(files, p)
  <2>1. Extends(files, files', DiskTimes) /\ Agree(files)
    BY <1>1, FilesStep DEF IInv, FilesTrue
  <2>2. files'.bind[p] = files.bind[p]
    BY <1>1, <2>1 DEF Extends
  <2> QED
    BY <2>2 DEF TimeOf
<1>2. IInv /\ [Next]_vars =>
        (phase' # "off" =>
           \A p \in Paths : files.bind[p].progress # "INIT" => TimeOf(files', p) = TimeOf(files, p))
  BY <1>1
<1>3. Spec => [][Next]_vars
  BY PTL DEF Spec
<1> QED
  BY <1>2, <1>3, Invariance, PTL DEF OneAnswer

(***************************************************************************)
(* OldEntriesPurged: with HCACHEMAXAGE set, no saved cache has an entry    *)
(* that was not asked for in more runs than that, however often a run      *)
(* saves the cache and however many runs die before they do.               *)
(***************************************************************************)
THEOREM OldEntriesPurged == ASSUME MaxAge # 0 PROVE Spec => Purged
<1>1. ASSUME IInv, [Next]_vars, cacheFile.end = "cut", cacheFile'.end = "whole"
      PROVE  SaveEnd
  <2>1. cacheFile \in [records : Seq(Records), end : {"whole", "cut", "atScan"}]
    BY <1>1, TypedParts DEF IInv, TypedDisk
  <2>2. cacheFile'.end # cacheFile.end /\ cacheFile'.end # "atScan" /\ cacheFile'.end # "cut"
    BY <1>1
  <2>3. ASSUME SaveRecord PROVE FALSE
    BY <1>1, <2>2, <2>3, SaveRecordIs DEF IInv
  <2>4. ASSUME NEW t \in Targets, Visit(t) PROVE FALSE
    BY <2>2, <2>4, VisitIs
  <2>5. ASSUME NEW t \in Targets, RescanFile(t) \/ RescanNode(t) PROVE FALSE
    BY <2>2, <2>5, RescanIs
  <2>6. ASSUME SaveStart \/ Crash PROVE FALSE
    BY <2>1, <2>2, <2>6 DEF SaveStart, Crash
  <2>7. cacheFile' # cacheFile
    BY <2>2
  <2> QED
    BY <1>1, <2>3, <2>4, <2>5, <2>6, <2>7
       DEF Next, MakeDies, EndRun, Edit, Start, Glob, Make, Build, Decide, MakeEnd, vars
<1>2. ASSUME IInv, SaveEnd, NEW e \in ToSet(cacheFile'.records)
      PROVE  idle[e.path] <= IF makes = 1 THEN MaxAge ELSE MaxAge + 1
  <2>1. /\ cacheFile \in [records : Seq(Records), end : {"whole", "cut", "atScan"}]
        /\ idle \in [Paths -> Nat] /\ MaxAge \in Nat /\ makes \in Nat
    BY <1>2, TypedParts, HeaderCacheAssumption DEF IInv, TypedDisk, TypedCache
  <2>2. phase = "saving" /\ cacheFile'.records = cacheFile.records
    BY <1>2, <2>1 DEF SaveEnd
  <2>3. PICK i \in DOMAIN cacheFile.records : e = cacheFile.records[i]
    BY <1>2, <2>2 DEF ToSet
  <2>4. Aged(e) /\ e.age <= MaxAge
    BY <1>2, <2>2, <2>3 DEF IInv, Ages
  <2>5. makes # 0
    BY <1>2, <2>2 DEF IInv, Resting
  <2>6. Slack = IF makes = 1 THEN 0 ELSE 1
    BY <2>1, <2>2, <2>5 DEF Slack
  <2>7. e.path \in Paths /\ e.age \in Nat
    <3>1. e \in Records
      BY <2>1, <2>3
    <3> QED
      BY <3>1 DEF Records
  <2>8. idle[e.path] \in Nat /\ idle[e.path] <= e.age + Slack
    BY <2>1, <2>4, <2>7 DEF Aged, AgedFor
  <2>9. CASE makes = 1
    BY <2>1, <2>4, <2>6, <2>7, <2>8, <2>9
  <2>10. CASE makes # 1
    BY <2>1, <2>4, <2>6, <2>7, <2>8, <2>10
  <2> QED
    BY <2>9, <2>10
<1>3. IInv /\ [Next]_vars =>
        (cacheFile.end = "cut" /\ cacheFile'.end = "whole" =>
           \A e \in ToSet(cacheFile'.records) : idle[e.path] <= IF makes = 1 THEN MaxAge ELSE MaxAge + 1)
  BY <1>1, <1>2
<1>4. Spec => [][Next]_vars
  BY PTL DEF Spec
<1> QED
  BY <1>3, <1>4, Invariance, PTL DEF Purged

\* HDRSCANs that headers() leaves the same of find the same in a file.
RestTells ==
  \A h, k \in HdrScans :
    RestOf(h) = RestOf(k) => \A c \in SUBSET Names : Finds(h, c) = Finds(k, c)

(***************************************************************************)
(* CacheIsTrue: as far as what headers() leaves of HDRSCAN, which is all   *)
(* that an entry keeps of it, tells what the patterns find (that it may    *)
(* not is a finding), an entry whose time is its file's has what the file  *)
(* includes; after any number of runs, writes and crashes.                 *)
(***************************************************************************)
THEOREM CacheIsTrue == ASSUME RestTells PROVE Spec => []CacheTrue
<1>1. ASSUME IInv PROVE CacheTrue
  <2>1. /\ EntriesGood /\ hdrscan \in HdrScans
        /\ \A p \in Paths : disk[p].includes \subseteq Names /\ disk[p].time \in Nat
    BY <1>1, TypedParts, TimesType DEF IInv, TypedDisk
  <2>2. /\ Rest = RestOf(hdrscan)
        /\ \A p \in Paths : InFile(p) = Finds(hdrscan, disk[p].includes)
    BY DEF Rest, RestOf, InFile, Finds
  <2>3. ASSUME NEW e \in Records, Good(e),
               e.time # 0, e.time = disk[e.path].time, e.scan = Rest
        PROVE  e.includes = InFile(e.path)
    <3> DEFINE f == disk[e.path]
    <3>1. e.path \in Paths /\ f.includes \in SUBSET Names /\ e.time >= f.time /\ f.time # 0
      BY <2>1, <2>3 DEF Records
    <3>2. PICK h \in HdrScans : /\ e.scan = RestOf(h)
                                /\ f.time # 0 /\ e.time >= f.time => e.includes = Finds(h, f.includes)
      BY <2>3 DEF Good, GoodFor
    <3>3. InFile(e.path) = Finds(hdrscan, f.includes) /\ RestOf(h) = RestOf(hdrscan)
      BY <2>2, <2>3, <3>1, <3>2
    <3> HIDE DEF f
    <3>4. Finds(h, f.includes) = Finds(hdrscan, f.includes)
      BY <2>1, <3>1, <3>3 DEF RestTells
    <3> QED
      BY <3>1, <3>2, <3>3, <3>4
  <2>4. \A e \in ToSet(entries) \cup ToSet(toSave) \cup ToSet(cacheFile.records) : e \in Records /\ Good(e)
    BY <1>1, <2>1, TypedParts DEF IInv, TypedCache, TypedDisk, EntriesGood, ToSet
  <2> QED
    BY <2>3, <2>4 DEF CacheTrue
<1> QED
  BY <1>1, Invariance, PTL

\* What search() goes by before commands have run is what there is.
LEMMA StopsAreBids ==
  ASSUME IInv, makes > 0, written = {}, NEW t \in Targets
  PROVE  Stops(files, DiskTimes, t) = Bids(t)
<1>1. /\ LocatedRight /\ FilesTrue /\ Typed /\ files \in FileTables(Times) /\ DiskTimes \in [Paths -> Times]
      /\ \A p \in Paths : DiskTimes[p] = disk[p].time
  BY TypedParts, TimesType DEF IInv, TypedTargets
<1>2. NoTarget \notin Targets /\ SearchPath[t] \in Seq(Dirs)
  BY FilesAssumption
<1>3. ASSUME NEW i \in DOMAIN SearchPath[t]
      PROVE  LET p == At(SearchPath[t][i], t)
             IN  (files.located[p] # NoTarget \/ Query(files, DiskTimes, {p}).time[p] # 0)
                   <=> (disk[p].time # 0 \/ PlacedAt(p) # {})
  <2> DEFINE p == At(SearchPath[t][i], t)
  <2>1. SearchPath[t][i] \in Dirs
    BY <1>2
  <2>2. p \in Paths
    BY <2>1, AtType
  <2> HIDE DEF p
  <2>3. files.located[p] # NoTarget <=> PlacedAt(p) # {}
    BY <1>1, <2>2 DEF LocatedRight
  <2>4. Query(files, DiskTimes, {p}).time[p] = IF files.time[p] = 0 THEN DiskTimes[p] ELSE files.time[p]
    <3>1. \A q \in Paths : Query(files, DiskTimes, {p}).time[q] =
                             IF q \in {p} /\ files.time[q] = 0 THEN DiskTimes[q] ELSE files.time[q]
      BY <1>1, QueryFields
    <3> QED
      BY <2>2, <3>1
  <2>5. files.time[p] # 0 => files.time[p] = DiskTimes[p]
    BY <1>1, <2>2 DEF FilesTrue, Shows
  <2> QED
    BY <1>1, <2>2, <2>3, <2>4, <2>5 DEF p
<1> QED
  BY <1>3 DEF Stops, Bids

(***************************************************************************)
(* SearchAsDocumented: before commands have run, whatever was globbed and  *)
(* looked for before, search() stops at the first directory where there is *)
(* a file already or another target was LOCATEd, and the time it reports   *)
(* is that of the file.                                                    *)
(***************************************************************************)
THEOREM SearchAsDocumented == Spec => BoundAsDocumented
<1> DEFINE Place(t) == At(IF Bids(t) = {} THEN Cwd
                          ELSE SearchPath[t][CHOOSE i \in Bids(t) : \A j \in Bids(t) : i <= j], t)
<1>1. ASSUME IInv, [Next]_vars, NEW t \in Targets,
             target[t].binding = "UNBOUND", target'[t].binding # "UNBOUND"
      PROVE  Visit(t)
  <2>1. Typed /\ target \in [Targets -> TargetTable(Times)]
    BY <1>1, TypedParts DEF IInv, TypedTargets
  <2>2. ASSUME NEW u \in Targets, Visit(u), u # t PROVE FALSE
    <3> DEFINE b == BoundAs(u)
    <3>1. b \in TargetTable(Times) /\ b.includes \in SUBSET Targets
      BY <2>1, BoundAsType DEF TargetTable
    <3>2. Headers(u, b, b.includes) \/ target' = [target EXCEPT ![u] = b]
      BY <2>2, VisitIs
    <3> HIDE DEF b
    <3>3. target'[t] = target[t]
      BY <2>1, <2>2, <3>1, <3>2, HeadersIs
    <3> QED
      BY <1>1, <3>3
  <2>3. ASSUME NEW u \in Targets, RescanFile(u) \/ RescanNode(u) PROVE FALSE
    <3>1. Headers(u, target[u], {}) /\ target[u] \in TargetTable(Times)
      BY <2>1, <2>3, RescanIs
    <3>2. target'[t].binding = target[t].binding
      BY <2>1, <3>1, HeadersIs
    <3> QED
      BY <1>1, <3>2
  <2>4. ASSUME Exit PROVE FALSE
    BY <1>1, <2>4 DEF Exit, Unbound
  <2>5. ASSUME Make PROVE FALSE
    BY <1>1, <2>1, <2>5, BindLocatedIs DEF Make
  <2>6. ASSUME Decide PROVE FALSE
    BY <1>1, <2>1, <2>6, DecideIs
  <2>7. target' # target
    BY <1>1
  <2> QED
    BY <1>1, <2>2, <2>3, <2>4, <2>5, <2>6, <2>7
       DEF Next, MakeDies, EndRun, Crash, Edit, Start, Glob, Build, SaveStart, SaveRecord, SaveEnd, MakeEnd,
           vars, targetVars
<1>2. ASSUME IInv, NEW t \in Targets, Visit(t),
             target[t].binding = "UNBOUND", written = {}, Locate[t] = {}
      PROVE  target'[t].path = Place(t) /\ target'[t].time = disk[target'[t].path].time
  <2> DEFINE s == SearchOf(t)
             b == BoundAs(t)
             stops == Stops(files, DiskTimes, t)
  <2>1. /\ Typed /\ FilesTrue /\ files \in FileTables(Times) /\ DiskTimes \in [Paths -> Times] /\ 0 \in Times
        /\ target \in [Targets -> TargetTable(Times)]
    BY <1>2, TypedParts, TimesType DEF IInv, TypedTargets
  <2>2. makes > 0
    <3>1. makes \in Nat /\ makes # 0
      BY <1>2, VisitIs DEF IInv, Resting, Typed
    <3> QED
      BY <3>1
  <2>3. stops = Bids(t)
    BY <1>2, <2>2, StopsAreBids
  <2>4. /\ s.path \in Paths /\ s.time = TimeOf(s.files, s.path)
        /\ Extends(files, s.files, DiskTimes)
        /\ s.files.bind[s.path].progress # "INIT"
        /\ stops = {} => s.path = At(Cwd, t)
        /\ stops # {} => s.path = At(SearchPath[t][FirstOf(stops)], t)
    BY <1>2, <2>1, SearchAlong DEF SearchOf
  <2>5. b.path = s.path /\ b.time = s.time
    BY <1>2 DEF BoundAs
  <2>6. b \in TargetTable(Times) /\ b.includes \in SUBSET Targets
    BY <2>1, BoundAsType DEF TargetTable
  <2>7. Headers(t, b, b.includes) \/ target' = [target EXCEPT ![t] = b]
    BY <1>2, VisitIs
  <2> HIDE DEF b, s, stops
  <2>8. target'[t].path = b.path /\ target'[t].time = b.time
    BY <2>1, <2>6, <2>7, HeadersIs
  <2>9. s.path = Place(t)
    BY <2>3, <2>4 DEF FirstOf
  <2>10. TimeOf(s.files, s.path) = disk[s.path].time
    <3>1. Agree(s.files) /\ Shows(s.files, DiskTimes, s.path)
      BY <1>2, <2>1, <2>4 DEF FilesTrue, Extends
    <3>2. DiskTimes[s.path] = disk[s.path].time
      BY <2>1, <2>4, TimesType
    <3> QED
      BY <2>4, <3>1, <3>2, AnswerTrue
  <2> QED
    BY <2>4, <2>5, <2>8, <2>9, <2>10
<1>3. IInv /\ [Next]_vars =>
        \A t \in Targets :
          /\ target[t].binding = "UNBOUND" /\ target'[t].binding # "UNBOUND"
          /\ written = {} /\ Locate[t] = {}
          => /\ target'[t].path = Place(t)
             /\ target'[t].time = disk[target'[t].path].time
  BY <1>1, <1>2
<1>4. Spec => [][Next]_vars
  BY PTL DEF Spec
<1> QED
  BY <1>3, <1>4, Invariance, PTL DEF BoundAsDocumented

\* What is included through where a target is found does not depend on the state.
LEMMA PlacedConstant == \A p : PlacedAt(p)' = PlacedAt(p)
BY DEF PlacedAt

\* A target that search() found where another is LOCATEd, before it was rescanned.
Surrogate(t) ==
  /\ fate[t] # "INIT" /\ Locate[t] = {} /\ <<t, "node">> \notin rescanned
  /\ target[t].path[1] \in ToSet(SearchPath[t])
  /\ PlacedAt(target[t].path) # {}

\* search() names the target that is LOCATEd where it stops.
LEMMA AnotherKnown ==
  ASSUME IInv, makes > 0, NEW t \in Targets, Locate[t] = {},
         SearchOf(t).path[1] \in ToSet(SearchPath[t]), PlacedAt(SearchOf(t).path) # {}
  PROVE  SearchOf(t).another \in PlacedAt(SearchOf(t).path)
<1> DEFINE s == SearchOf(t)
           stops == Stops(files, DiskTimes, t)
<1>1. /\ LocatedRight /\ files \in FileTables(Times) /\ DiskTimes \in [Paths -> Times] /\ 0 \in Times
  BY TypedParts, TimesType DEF IInv, TypedTargets
<1>2. /\ s.path \in Paths
      /\ stops = {} => s.path = At(Cwd, t)
      /\ stops # {} => /\ s.path = At(SearchPath[t][FirstOf(stops)], t)
                       /\ s.another = files.located[s.path]
  BY <1>1, SearchAlong DEF SearchOf
<1> HIDE DEF s
<1>3. files.located[s.path] \in PlacedAt(s.path)
  BY <1>1, <1>2 DEF LocatedRight, s
<1>4. ASSUME stops = {} PROVE FALSE
  <2>1. PICK i \in DOMAIN SearchPath[t] : SearchPath[t][i] = s.path[1]
    BY DEF ToSet, s
  <2>2. s.path = At(SearchPath[t][i], t)
    BY <1>2, <1>4, <2>1 DEF At
  <2>3. NoTarget \notin PlacedAt(s.path)
    BY FilesAssumption DEF PlacedAt
  <2>4. i \in stops
    BY <1>3, <2>2, <2>3 DEF Stops
  <2> QED
    BY <1>4, <2>4
<1> QED
  BY <1>2, <1>3, <1>4 DEF s

LEMMA GeneratedStep == ASSUME IInv, GeneratedKnown, [Next]_vars PROVE GeneratedKnown'
<1>1. /\ Resting /\ Bound /\ Typed /\ TypedTargets /\ makes \in Nat
      /\ \A t \in Targets : Surrogate(t) => PlacedAt(target[t].path) \cap target[t].includes # {}
  BY TypedParts DEF IInv, Typed, GeneratedKnown, Surrogate
<1>2. SUFFICES ASSUME NEW t \in Targets,
                      fate'[t] # "INIT", Locate[t] = {}, <<t, "node">> \notin rescanned',
                      target'[t].path[1] \in ToSet(SearchPath[t]), PlacedAt(target'[t].path) # {}
               PROVE  PlacedAt(target'[t].path) \cap target'[t].includes # {}
  BY PlacedConstant DEF GeneratedKnown, PlacedAt
<1>3. ASSUME target'[t].path = target[t].path, target[t].includes \subseteq target'[t].includes,
             fate[t] # "INIT", rescanned \subseteq rescanned'
      PROVE  PlacedAt(target'[t].path) \cap target'[t].includes # {}
  <2>1. Surrogate(t)
    BY <1>2, <1>3 DEF Surrogate
  <2> QED
    BY <1>1, <1>3, <2>1
<1>4. CASE Exit
  BY <1>2, <1>4 DEF Exit
<1>5. CASE Make
  <2>1. target'[t] = target[t] /\ fate' = fate /\ rescanned' = rescanned
    BY <1>1, <1>2, <1>5, BindLocatedIs DEF Make
  <2> QED
    BY <1>2, <1>3, <2>1
<1>6. ASSUME NEW u \in Targets, Visit(u) PROVE PlacedAt(target'[t].path) \cap target'[t].includes # {}
  <2> DEFINE b == BoundAs(u)
  <2>1. b \in TargetTable(Times) /\ b.includes \in SUBSET Targets
    BY <1>1, BoundAsType DEF TargetTable
  <2>2. /\ \A v \in Targets \ {u} : target'[v] = target[v]
        /\ target'[u].path = b.path /\ b.includes \subseteq target'[u].includes
    <3>1. \/ Headers(u, b, b.includes)
          \/ target' = [target EXCEPT ![u] = b]
      BY <1>6, VisitIs
    <3> HIDE DEF b
    <3>2. CASE Headers(u, b, b.includes)
      BY <1>1, <2>1, <3>2, HeadersIs
    <3>3. CASE target' = [target EXCEPT ![u] = b]
      BY <1>1, <3>3 DEF TypedTargets
    <3> QED
      BY <3>1, <3>2, <3>3
  <2>3. /\ fate' = [fate EXCEPT ![u] = "MAKING"] /\ rescanned' = rescanned
        /\ makes > 0
    BY <1>1, <1>6, VisitIs DEF Resting
  <2>4. CASE u # t
    <3>1. fate'[t] = fate[t]
      BY <1>1, <2>3, <2>4 DEF TypedTargets
    <3> QED
      BY <1>2, <1>3, <2>2, <2>3, <2>4, <3>1
  <2>5. CASE u = t /\ target[t].binding # "UNBOUND"
    <3>1. b = target[t] /\ fate[t] # "INIT"
      BY <1>1, <2>5, BoundIs DEF BoundAs, BoundRight
    <3> QED
      BY <1>3, <2>2, <2>3, <2>5, <3>1
  <2>6. CASE u = t /\ target[t].binding = "UNBOUND"
    <3>1. /\ b.path = SearchOf(t).path
          /\ SearchOf(t).another # NoTarget => SearchOf(t).another \in b.includes
      BY <2>6 DEF BoundAs
    <3>2. target'[t].path = SearchOf(t).path
      BY <2>2, <2>6, <3>1
    <3>3. SearchOf(t).another \in PlacedAt(SearchOf(t).path)
      BY <1>2, <2>3, <3>2, AnotherKnown
    <3>4. SearchOf(t).another # NoTarget
      BY <3>3, FilesAssumption DEF PlacedAt
    <3> QED
      BY <2>2, <2>6, <3>1, <3>2, <3>3, <3>4
  <2> QED
    BY <2>4, <2>5, <2>6
<1>7. ASSUME NEW u \in Targets, RescanFile(u) \/ RescanNode(u)
      PROVE  PlacedAt(target'[t].path) \cap target'[t].includes # {}
  <2>1. /\ Headers(u, target[u], {}) /\ fate' = fate
        /\ rescanned \subseteq rescanned' /\ <<u, "node">> \in rescanned'
    BY <1>7, RescanIs
  <2>2. target[u] \in TargetTable(Times)
    BY <1>1 DEF TypedTargets
  <2>3. u # t /\ target'[t] = target[t]
    BY <1>1, <1>2, <2>1, <2>2, HeadersIs
  <2> QED
    BY <1>2, <1>3, <2>1, <2>3
<1>8. CASE Decide
  <2>1. /\ target'[t].path = target[t].path /\ target'[t].includes = target[t].includes
        /\ fate'[t] = "INIT" <=> fate[t] = "INIT"
        /\ rescanned' = rescanned
    BY <1>1, <1>8, DecideIs
  <2> QED
    BY <1>2, <1>3, <2>1
<1>9. CASE UNCHANGED <<target, fate>> /\ rescanned \subseteq rescanned'
  BY <1>2, <1>3, <1>9
<1> QED
  BY <1>4, <1>5, <1>6, <1>7, <1>8, <1>9
     DEF Next, MakeDies, EndRun, Crash, Edit, Start, Glob, Build, SaveStart, SaveRecord, SaveEnd, MakeEnd,
         vars, targetVars

(***************************************************************************)
(* GeneratedIsKnown: a target that search() finds where another is LOCATEd *)
(* includes it from the moment it is bound until it is rescanned, in       *)
(* whatever order the targets are visited and whatever was bound by an     *)
(* earlier make of the same run.                                           *)
(***************************************************************************)
THEOREM GeneratedIsKnown == Spec => []GeneratedKnown
<1>1. Init => GeneratedKnown
  BY DEF Init, Blank, GeneratedKnown
<1>2. IInv /\ GeneratedKnown /\ [Next]_vars => GeneratedKnown'
  BY GeneratedStep
<1> QED
  BY <1>1, <1>2, Invariance, PTL DEF Spec

\* What hcache() answers for a file that is not newer than asked is right.
LEMMA CachedTrue ==
  ASSUME RestTells, IInv, NEW p \in Paths, NEW time \in Times,
         disk[p].time # 0, time >= disk[p].time
  PROVE  Cached(p, time) = InFile(p)
<1>1. /\ TypedDisk /\ hdrscan \in HdrScans /\ Rest = RestOf(hdrscan)
      /\ InFile(p) = Finds(hdrscan, disk[p].includes) /\ disk[p].includes \in SUBSET Names
  BY TypedParts DEF IInv, TypedDisk, Rest, RestOf, InFile, Finds
<1> DEFINE e == NewEntry(p, time)
<1>2. Good(e)
  BY AnswerGood
<1>3. e.path = p /\ e.time = time /\ e.scan = Rest /\ e.includes = Cached(p, time)
  BY DEF NewEntry
<1> HIDE DEF e
<1>4. PICK h \in HdrScans : e.scan = RestOf(h) /\ e.includes = Finds(h, disk[p].includes)
  BY <1>2, <1>3 DEF Good, GoodFor
<1>5. Finds(h, disk[p].includes) = Finds(hdrscan, disk[p].includes)
  <2>1. RestOf(h) = RestOf(hdrscan)
    BY <1>1, <1>3, <1>4
  <2> QED
    BY <1>1, <2>1 DEF RestTells
<1> QED
  BY <1>1, <1>3, <1>4, <1>5

\* The names ns are those in a file at p, but for the targets LOCATEd there.
Describes(includes, ns, p) == includes \ PlacedAt(p) = {HeaderOf[n] : n \in ns} \ PlacedAt(p)

\* The includes of t are those of its file, if it was scanned and not written since.
Known(t) == /\ fate[t] # "INIT" /\ target[t].binding = "EXISTS"
            /\ t \in Scanned /\ hdrscan # <<>>
            /\ target[t].path \notin written /\ <<t, "node">> \notin rescanned
KnownRight(t) ==
  Known(t) => Describes(target[t].includes, Finds(hdrscan, disk[target[t].path].includes), target[t].path)

LEMMA HeadersTrueIs == HeadersTrue <=> \A t \in Targets : KnownRight(t)
BY DEF HeadersTrue, KnownRight, Known, Describes, Scans, InFile, Finds

LEMMA HeadersTrueStep ==
  ASSUME RestTells, IInv, HeadersTrue, [Next]_vars
  PROVE  HeadersTrue'
<1>1. /\ Resting /\ Bound /\ LocatedRight /\ Typed /\ TypedDisk /\ TypedTargets
      /\ \A t \in Targets : KnownRight(t)
  BY TypedParts, HeadersTrueIs DEF IInv
<1>2. (HeadersTrue <=> \A t \in Targets : KnownRight(t))'
  BY HeadersTrueIs, PTL
<1>3. SUFFICES ASSUME NEW t \in Targets, Known(t)'
               PROVE  Describes(target'[t].includes, Finds(hdrscan', disk'[target'[t].path].includes), target'[t].path)
  BY <1>2 DEF KnownRight
<1>4. /\ fate'[t] # "INIT" /\ target'[t].binding = "EXISTS" /\ t \in Scanned /\ hdrscan' # <<>>
      /\ target'[t].path \notin written' /\ <<t, "node">> \notin rescanned'
  BY <1>3 DEF Known
<1>5. phase' # "off"
  BY <1>4, RestingStep DEF Resting, Blank
<1>6. FilesKept
  BY <1>5, FilesStep DEF FilesKept
<1> DEFINE Goal == Describes(target'[t].includes, Finds(hdrscan', disk'[target'[t].path].includes), target'[t].path)
<1>7. ASSUME target'[t].path = target[t].path, target'[t].binding = target[t].binding,
             target'[t].includes = target[t].includes,
             fate[t] # "INIT", rescanned \subseteq rescanned', hdrscan' = hdrscan
      PROVE  Goal
  <2>1. target[t].path \in Paths
    BY <1>1 DEF TypedTargets, TargetTable
  <2>2. disk'[target[t].path] = disk[target[t].path] /\ target[t].path \notin written
    BY <1>4, <1>6, <1>7, <2>1 DEF FilesKept
  <2>3. Known(t)
    BY <1>4, <1>7, <2>2 DEF Known
  <2>4. KnownRight(t)
    BY <1>1
  <2> QED
    BY <1>7, <2>2, <2>3, <2>4 DEF KnownRight
<1>8. CASE Make
  <2>1. fate' = fate /\ rescanned' = rescanned /\ hdrscan' = hdrscan /\ BindLocated
    BY <1>8 DEF Make
  <2>2. /\ target'[t].binding = target[t].binding /\ target'[t].includes = target[t].includes
        /\ target'[t].path = target[t].path \/ (Locate[t] # {} /\ target'[t].path = PlaceOf(t))
    BY <1>1, <2>1, BindLocatedIs
  <2>3. target'[t].path = target[t].path
    BY <1>1, <1>4, <2>2, BoundIs DEF BoundRight
  <2> QED
    BY <1>4, <1>7, <2>1, <2>2, <2>3
<1>9. CASE Decide
  <2>1. /\ target'[t].path = target[t].path /\ target'[t].binding = target[t].binding
        /\ target'[t].includes = target[t].includes
        /\ fate'[t] = "INIT" <=> fate[t] = "INIT"
        /\ rescanned' = rescanned /\ hdrscan' = hdrscan
    BY <1>1, <1>9, DecideIs
  <2> QED
    BY <1>4, <1>7, <2>1
<1>10. ASSUME NEW u \in Targets, RescanFile(u) \/ RescanNode(u) PROVE Goal
  <2>1. /\ Headers(u, target[u], {}) /\ fate' = fate /\ hdrscan' = hdrscan
        /\ rescanned \subseteq rescanned' /\ <<u, "node">> \in rescanned'
    BY <1>10, RescanIs
  <2>2. target[u] \in TargetTable(Times)
    BY <1>1 DEF TypedTargets
  <2>3. target'[t] = target[t]
    BY <1>1, <1>4, <2>1, <2>2, HeadersIs
  <2> QED
    BY <1>4, <1>7, <2>1, <2>3
<1>11. ASSUME NEW u \in Targets, Visit(u) PROVE Goal
  <2> DEFINE b == BoundAs(u)
  <2>1. b \in TargetTable(Times) /\ b.includes \in SUBSET Targets /\ b.path \in Paths /\ b.time \in Times
    BY <1>1, BoundAsType DEF TargetTable
  <2>2. /\ \/ b.binding = "EXISTS" /\ Headers(u, b, b.includes)
           \/ b.binding # "EXISTS" /\ target' = [target EXCEPT ![u] = b]
        /\ fate' = [fate EXCEPT ![u] = "MAKING"]
        /\ UNCHANGED <<disk, rescanned, hdrscan, written, makes, phase>>
    BY <1>11, VisitIs DEF diskVars, countVars
  <2>3. CASE u # t
    <3> HIDE DEF b
    <3>1. target'[t] = target[t]
      BY <1>1, <2>1, <2>2, <2>3, HeadersIs DEF TypedTargets
    <3>2. fate'[t] = fate[t]
      BY <1>1, <2>2, <2>3 DEF TypedTargets
    <3> QED
      BY <1>4, <1>7, <2>2, <3>1, <3>2
  <2>4. CASE u = t
    <3> HIDE DEF b
    <3>1. b.binding = "EXISTS" /\ Headers(t, b, b.includes)
      BY <1>1, <1>4, <2>2, <2>4 DEF TypedTargets
    <3>2. /\ target'[t].path = b.path /\ target'[t].time = b.time
          /\ target'[t].includes = b.includes \cup Found(t, b)
      BY <1>1, <2>1, <3>1, HeadersIs
    <3>3. Bound'
      BY BoundStep
    <3>4. disk[b.path].time # 0 /\ b.time >= disk[b.path].time
      BY <1>4, <2>2, <3>2, <3>3 DEF Bound
    <3>5. Cached(b.path, b.time) = InFile(b.path)
      BY <2>1, <3>4, CachedTrue
    <3>6. Found(t, b) = {HeaderOf[n] : n \in Finds(hdrscan, disk[b.path].includes)}
      BY <1>4, <2>2, <3>5 DEF Found, Scans, InFile, Finds
    <3>7. Describes(Found(t, b), Finds(hdrscan, disk[b.path].includes), b.path)
      BY <3>6 DEF Describes
    <3>8. \/ b.includes \subseteq PlacedAt(b.path)
          \/ Describes(b.includes, Finds(hdrscan, disk[b.path].includes), b.path)
      <4>1. CASE target[t].binding = "UNBOUND"
        <5>1. /\ b.path = SearchOf(t).path
              /\ b.includes = IF SearchOf(t).another = NoTarget THEN {} ELSE {SearchOf(t).another}
          BY <2>4, <4>1 DEF BoundAs, b
        <5>2. SearchOf(t).another # NoTarget => SearchOf(t).another \in PlacedAt(SearchOf(t).path)
          <6>1. files \in FileTables(Times) /\ DiskTimes \in [Paths -> Times] /\ 0 \in Times
            BY <1>1, TimesType DEF TypedTargets
          <6>2. \/ SearchOf(t).another = NoTarget
                \/ SearchOf(t).another = files.located[SearchOf(t).path]
            BY <6>1, SearchLocated, SearchAlong DEF SearchOf
          <6>3. SearchOf(t).path \in Paths
            BY <1>1, SearchTyped
          <6> QED
            BY <1>1, <6>2, <6>3 DEF LocatedRight
        <5> QED
          BY <5>1, <5>2
      <4>2. CASE target[t].binding # "UNBOUND"
        <5>1. b = target[t] /\ fate[t] # "INIT"
          BY <1>1, <2>4, <4>2, BoundIs DEF BoundAs, BoundRight, b
        <5>2. Known(t)
          BY <1>4, <2>2, <3>1, <3>2, <5>1 DEF Known
        <5>3. KnownRight(t)
          BY <1>1
        <5> QED
          BY <5>1, <5>2, <5>3 DEF KnownRight
      <4> QED
        BY <4>1, <4>2
    <3>9. Describes(b.includes \cup Found(t, b), Finds(hdrscan, disk[b.path].includes), b.path)
      BY <3>7, <3>8 DEF Describes
    <3> QED
      BY <2>2, <3>2, <3>9
  <2> QED
    BY <2>3, <2>4
<1>12. CASE Start
  BY <1>1, <1>4, <1>12 DEF Start, Resting, Blank, targetVars
<1>13. CASE UNCHANGED <<target, fate, hdrscan>> /\ rescanned \subseteq rescanned'
  BY <1>4, <1>7, <1>13
<1>14. CASE Exit \/ (\E p \in Edited : Edit(p))
  BY <1>5, <1>14 DEF Exit, Edit
<1> QED
  BY <1>8, <1>9, <1>10, <1>11, <1>12, <1>13, <1>14
     DEF Next, MakeDies, EndRun, Crash, Glob, Build, SaveStart, SaveRecord, SaveEnd, MakeEnd,
         vars, targetVars

(***************************************************************************)
(* HeadersAreTrue: under the same condition on HDRSCAN, what make0() takes *)
(* a file to include is what it does include, unless this run has written  *)
(* the file or rescanned the target, whether headers() read the file, or   *)
(* hcache() an entry that any earlier run left.                            *)
(***************************************************************************)
THEOREM HeadersAreTrue == ASSUME RestTells PROVE Spec => []HeadersTrue
<1>1. Init => HeadersTrue
  BY DEF Init, Blank, HeadersTrue
<1>2. IInv /\ HeadersTrue /\ [Next]_vars => HeadersTrue'
  BY HeadersTrueStep
<1> QED
  BY <1>1, <1>2, Invariance, PTL DEF Spec
=============================================================================
