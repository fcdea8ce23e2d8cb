---------------------------- MODULE HeaderCache ----------------------------
(***************************************************************************)
(* Header scanning and its cache over several runs of the engine.  A run   *)
(* parses the Jamfiles (and may glob), then makes targets, perhaps several *)
(* times (UPDATE_NOW): hcache_init() reads the cache file, make0() binds   *)
(* the targets it visits and scans them for headers, hcache_done() writes  *)
(* the file back, and only then make1() runs the commands, after which the *)
(* targets they update are scanned again.  Between two runs the user edits *)
(* files; a run can die at any moment.                                     *)
(*                                                                         *)
(* A file's contents are the set of names it includes; every write gives   *)
(* it a time of its own.  Which targets are visited, and which are built,  *)
(* is as make0() has it; the order is left open.                           *)
(***************************************************************************)
EXTENDS Files, FiniteSets

CONSTANTS
  Roots,       \* what a make may be asked for
  Sources,     \* DEPENDS: the targets a target is made from
  Generated,   \* targets with actions
  HeaderOf,    \* HDRRULE: the target a name in an include is
  Scanned,     \* targets with HDRSCAN and HDRRULE set
  HdrScans,    \* values of HDRSCAN, lists of patterns
  Matched,     \* the names the lines that match a pattern may include
  MAXINC,      \* how many patterns headers() can use
  MaxAge,      \* HCACHEMAXAGE
  StartDisk,   \* the files before the first run
  Contents,    \* what may be written to a path: sets of names
  Edited,      \* the paths a user writes or removes
  Globbed,     \* the directories the Jamfiles glob
  MaxRuns, MaxMakes, MaxEdits  \* bounds

ASSUME HeaderCacheAssumption ==
  /\ Targets # {} /\ IsFiniteSet(Targets) /\ IsFiniteSet(Paths)
  /\ Roots \subseteq Targets /\ Sources \in [Targets -> SUBSET Targets]
  /\ Generated \subseteq Targets /\ Scanned \subseteq Targets
  /\ HeaderOf \in [Names -> Targets]
  /\ HdrScans \subseteq Seq(DOMAIN Matched) /\ \A s \in DOMAIN Matched : Matched[s] \subseteq Names
  /\ MAXINC \in Nat /\ MaxAge \in Nat
  /\ StartDisk \in [Paths -> [time : 0..Cardinality(Paths), includes : SUBSET Names]]
  /\ Contents \in [Paths -> SUBSET SUBSET Names]
  /\ Edited \subseteq Paths /\ Globbed \subseteq Dirs

VARIABLES
  disk,      \* the time and the contents of each file, time 0: missing
  clock,
  cacheFile, \* its records, and whether it ends as it should
  phase,     \* "off", "parse", "make0", "saving", "make1"
  hdrscan,   \* the HDRSCAN of this run's Jamfiles
  files,     \* what Files keeps
  target,    \* boundname, time, binding and includes of each target
  fate,      \* "INIT", "MAKING" (visited), "STABLE", "BUILD"
  todo,      \* targets make0() is about to visit
  done,      \* targets that are through make1c()
  rescanned, \* <<t, "file">>, <<t, "node">>: t, its includes node rescanned
  entries,   \* hcachelist, the oldest first
  hash,      \* hcachehash: of each path the place of its entry, 0: none
  toSave,    \* records hcache_done() has still to write
  written,   \* paths this run's commands have written
  idle,      \* history: runs that saved the cache since a path was last asked for
  runs, makes, edits

diskVars   == <<disk, clock>>
targetVars == <<target, fate, todo, done, rescanned>>
cacheVars  == <<entries, hash, idle>>
countVars  == <<runs, makes, edits>>
vars == <<diskVars, cacheFile, phase, hdrscan, files, targetVars, cacheVars,
          toSave, written, countVars>>

Unbound == [path |-> At(Cwd, CHOOSE t \in Targets : TRUE), time |-> 0, binding |-> "UNBOUND", includes |-> {}]
Missing == [time |-> 0, includes |-> {}]
DiskTimes == [p \in Paths |-> disk[p].time]

Records == [path : Paths, time : Nat, age : Nat, includes : SUBSET Names,
            scan : Seq(DOMAIN Matched)]

TypeOK ==
  /\ clock \in Nat
  /\ disk \in [Paths -> [time : 0..clock, includes : SUBSET Names]]
  /\ cacheFile \in [records : Seq(Records), end : {"whole", "cut", "atScan"}]
  /\ phase \in {"off", "parse", "make0", "saving", "make1"}
  /\ hdrscan \in HdrScans
  /\ target \in [Targets -> [path : Paths, time : 0..clock, includes : SUBSET Targets,
                             binding : {"UNBOUND", "MISSING", "EXISTS"}]]
  /\ fate \in [Targets -> {"INIT", "MAKING", "STABLE", "BUILD"}]
  /\ todo \subseteq Targets /\ done \subseteq Targets
  /\ rescanned \subseteq Targets \X {"file", "node"}
  /\ entries \in Seq(Records) /\ toSave \in Seq(Records)
  /\ hash \in [Paths -> 0..Len(entries)]
  /\ written \subseteq Paths
  /\ idle \in [Paths -> Nat]

\* What a process starts with.
Blank ==
  /\ files = NothingKnown
  /\ target = [t \in Targets |-> Unbound] /\ fate = [t \in Targets |-> "INIT"]
  /\ todo = {} /\ done = {} /\ rescanned = {}
  /\ entries = <<>> /\ hash = [p \in Paths |-> 0] /\ toSave = <<>>
  /\ written = {} /\ makes = 0

Init ==
  /\ disk = StartDisk /\ clock = Cardinality(Paths)
  /\ cacheFile = [records |-> <<>>, end |-> "cut"]
  /\ phase = "off" /\ hdrscan \in HdrScans
  /\ Blank
  /\ idle = [p \in Paths |-> 0] /\ runs = 0 /\ edits = 0

-----------------------------------------------------------------------------
(***************************************************************************)
(* The user, and the beginning and end of a run.                           *)
(***************************************************************************)

Edit(p) ==
  /\ phase = "off" /\ edits < MaxEdits
  /\ \/ \E c \in Contents[p] : disk' = [disk EXCEPT ![p] = [time |-> clock + 1, includes |-> c]]
     \/ disk' = [disk EXCEPT ![p] = Missing]
  /\ clock' = clock + 1
  /\ edits' = edits + 1
  /\ UNCHANGED <<cacheFile, phase, hdrscan, files, targetVars, cacheVars, toSave, written,
                 runs, makes>>

Start ==
  /\ phase = "off" /\ runs < MaxRuns
  /\ phase' = "parse"
  /\ hdrscan' \in HdrScans
  /\ runs' = runs + 1
  /\ UNCHANGED <<diskVars, cacheFile, files, targetVars, cacheVars, toSave, written,
                 makes, edits>>

\* GLOB of a directory.
Glob(d) ==
  /\ phase = "parse"
  /\ files' = DirScan(files, DiskTimes, {d})
  /\ UNCHANGED <<diskVars, cacheFile, phase, hdrscan, targetVars, cacheVars, toSave, written,
                 countVars>>

\* Whatever the process knew is gone.
Exit ==
  /\ phase' = "off"
  /\ files' = NothingKnown
  /\ target' = [t \in Targets |-> Unbound] /\ fate' = [t \in Targets |-> "INIT"]
  /\ todo' = {} /\ done' = {} /\ rescanned' = {}
  /\ entries' = <<>> /\ hash' = [p \in Paths |-> 0] /\ toSave' = <<>>
  /\ written' = {} /\ makes' = 0
  /\ UNCHANGED <<diskVars, hdrscan, idle, runs, edits>>

\* Mutant: entries are never too old.
KeptForever(e) == FALSE

\* It was not asked for in too many runs.
TooOld(e) == MaxAge # 0 /\ e.age > MaxAge

EndRun == phase = "parse" /\ makes > 0 /\ Exit /\ UNCHANGED cacheFile

\* A crash; what hcache_done() has written by then stays, and perhaps a part
\* of a record that ends just before its count of patterns.
Crash ==
  /\ phase # "off" /\ Exit
  /\ \/ UNCHANGED cacheFile
     \/ /\ phase = "saving" /\ toSave # <<>> /\ ~TooOld(Head(toSave))
        /\ cacheFile' = [cacheFile EXCEPT !.end = "atScan"]

-----------------------------------------------------------------------------
(***************************************************************************)
(* hcache_init() and what else make() does before make0().                 *)
(***************************************************************************)

\* It stops at a second record of a path, which hashenter() refuses.
Repeated(recs) == {j \in DOMAIN recs : \E i \in 1..(j - 1) : recs[i].path = recs[j].path}
Readable(recs) ==
  IF Repeated(recs) = {} THEN recs ELSE SubSeq(recs, 1, FirstOf(Repeated(recs)) - 1)

\* The count of patterns is read, but another pointer checked before atoi().
ReadingDies == cacheFile.end = "atScan" /\ Repeated(cacheFile.records) = {}

ReadCache ==
  LET recs == Readable(cacheFile.records)
  IN  /\ entries' = entries \o [i \in DOMAIN recs |-> [recs[i] EXCEPT !.age = @ + 1]]
      /\ hash' = [p \in Paths |->
           IF \E i \in DOMAIN recs : recs[i].path = p
           THEN Len(entries) + CHOOSE i \in DOMAIN recs : recs[i].path = p ELSE 0]

\* Mutant: targets are bound only when make0() reaches them.
BindNone == UNCHANGED <<files, target>>

\* bind_explicitly_located_targets()
BindLocated ==
  LET placed == {t \in Targets : Locate[t] # {}}
      place(t) == At(CHOOSE d \in Locate[t] : TRUE, t)
      timed  == Timestamp(files, DiskTimes, {place(t) : t \in placed})
  IN  /\ files' = [timed EXCEPT !.located = [p \in Paths |->
                     IF timed.located[p] = NoTarget /\ \E t \in placed : place(t) = p
                     THEN CHOOSE t \in placed : place(t) = p ELSE timed.located[p]]]
      /\ target' = [t \in Targets |->
                     IF t \in placed
                     THEN [target[t] EXCEPT !.path = place(t), !.time = TimeOf(timed, place(t))]
                     ELSE target[t]]

Make ==
  /\ phase = "parse" /\ makes < MaxMakes /\ ~ReadingDies
  /\ phase' = "make0"
  /\ ReadCache
  /\ BindLocated
  /\ \E asked \in SUBSET Roots : asked # {} /\ todo' = asked
  /\ makes' = makes + 1
  /\ UNCHANGED <<diskVars, cacheFile, hdrscan, fate, done, rescanned, idle, toSave, written,
                 runs, edits>>

MakeDies == phase = "parse" /\ makes < MaxMakes /\ ReadingDies /\ Exit /\ UNCHANGED cacheFile

-----------------------------------------------------------------------------
(***************************************************************************)
(* headers() and hcache().                                                 *)
(***************************************************************************)

\* headers1(): the names on lines that one of the first patterns matches.
InFile(p) ==
  {n \in disk[p].includes : \E i \in 1..MAXINC : i <= Len(hdrscan) /\ n \in Matched[hdrscan[i]]}

\* What headers() hands to hcache() as HDRSCAN is what is left of the list.
Rest == SubSeq(hdrscan, MAXINC + 1, Len(hdrscan))

\* Mutant: the time of the file is not compared.
HitWhatever(p, time) == hash[p] # 0 /\ entries[hash[p]].scan = Rest

Hit(p, time) ==
  /\ hash[p] # 0
  /\ entries[hash[p]].time = time /\ entries[hash[p]].scan = Rest

Cached(p, time) == IF Hit(p, time) THEN entries[hash[p]].includes ELSE InFile(p)

\* Mutant: an entry found is entered again.
AskAnew(p, time) ==
  /\ entries' = IF hash[p] = 0
                THEN Append(entries, [path |-> p, time |-> time, age |-> 0,
                                      includes |-> Cached(p, time), scan |-> Rest])
                ELSE entries
  /\ hash' = [hash EXCEPT ![p] = Len(entries) + 1]
  /\ idle' = [idle EXCEPT ![p] = 0]

\* The entry of p after it was asked for, new or not.
Ask(p, time) ==
  LET e == [path |-> p, time |-> time, age |-> 0, includes |-> Cached(p, time), scan |-> Rest]
  IN  /\ entries' = IF hash[p] = 0 THEN Append(entries, e) ELSE [entries EXCEPT ![hash[p]] = e]
      /\ hash' = IF hash[p] = 0 THEN [hash EXCEPT ![p] = Len(entries) + 1] ELSE hash
      /\ idle' = [idle EXCEPT ![p] = 0]

Scans(t) == t \in Scanned /\ hdrscan # <<>>

\* headers() of t, bound as b: the targets it includes from now on.
Headers(t, b, before) ==
  IF Scans(t)
  THEN /\ target' = [target EXCEPT ![t] = [b EXCEPT !.includes =
                       before \cup {HeaderOf[n] : n \in Cached(b.path, b.time)}]]
       /\ Ask(b.path, b.time)
  ELSE /\ target' = [target EXCEPT ![t] = [b EXCEPT !.includes = before]]
       /\ UNCHANGED cacheVars

-----------------------------------------------------------------------------
(***************************************************************************)
(* make0(): a target is bound, once, and scanned if it exists; then what   *)
(* it is made from and what it includes is visited.                        *)
(***************************************************************************)

Visit(t) ==
  LET s     == Search(files, DiskTimes, t)
      new   == target[t].binding = "UNBOUND"
      bound == IF ~new THEN target[t]
               ELSE [path |-> s.path, time |-> s.time,
                     binding |-> IF s.time # 0 THEN "EXISTS" ELSE "MISSING",
                     includes |-> IF s.another = NoTarget THEN {} ELSE {s.another}]
  IN  /\ t \in todo
      /\ files' = IF new THEN s.files ELSE files
      /\ IF bound.binding = "EXISTS" THEN Headers(t, bound, bound.includes)
         ELSE target' = [target EXCEPT ![t] = bound] /\ UNCHANGED cacheVars
      /\ fate' = [fate EXCEPT ![t] = "MAKING"]
      /\ todo' = (todo \ {t}) \cup {d \in Sources[t] \cup target'[t].includes : fate'[d] = "INIT"}
      /\ UNCHANGED <<diskVars, cacheFile, phase, hdrscan, done, rescanned, toSave, written,
                     countVars>>

\* All that is reached from S through dependencies and includes.
Reached(S) ==
  LET r[k \in 0..Cardinality(Targets)] ==
        IF k = 0 THEN S
        ELSE r[k - 1] \cup UNION {Sources[d] \cup target[d].includes : d \in r[k - 1]}
  IN  r[Cardinality(Targets)]
Behind(t) == Reached(Sources[t])
Inside(t) == Reached(target[t].includes)

Latest(S) == LET times == {target[d].time : d \in S}
             IN  CHOOSE m \in times : \A n \in times : m >= n

\* Step 4: a target is as new as what it depends on, and built if it is
\* missing, or older than that, or if something it depends on is built.
Outdated(t) == t \in Generated /\ \/ target[t].binding = "MISSING"
                                  \/ Latest({t} \cup Behind(t)) > target[t].time
Decide ==
  /\ phase \in {"make0", "make1"} /\ todo = {}
  /\ \E t \in Targets : fate[t] = "MAKING"
  /\ target' = [t \in Targets |->
       IF fate[t] = "MAKING" THEN [target[t] EXCEPT !.time = Latest({t} \cup Behind(t))] ELSE target[t]]
  /\ fate' = [t \in Targets |->
       IF fate[t] # "MAKING" THEN fate[t]
       ELSE IF t \in Generated /\ \E d \in {t} \cup Behind(t) : Outdated(d) \/ fate[d] = "BUILD"
       THEN "BUILD" ELSE "STABLE"]
  /\ UNCHANGED <<diskVars, cacheFile, phase, hdrscan, files, todo, done, rescanned, cacheVars,
                 toSave, written, countVars>>

Decided == todo = {} /\ \A t \in Targets : fate[t] # "MAKING"

-----------------------------------------------------------------------------
(***************************************************************************)
(* hcache_done(), between make0() and make1(): the newest entry is written *)
(* first, over the old file.                                               *)
(***************************************************************************)

\* With no HCACHEMAXAGE, entries do not age.
Renewed(es) == IF MaxAge = 0 THEN [i \in DOMAIN es |-> [es[i] EXCEPT !.age = 0]] ELSE es

SaveStart ==
  /\ phase = "make0" /\ Decided
  /\ phase' = "saving"
  /\ cacheFile' = [records |-> <<>>, end |-> "cut"]
  /\ toSave' = Reverse(Renewed(entries))
  /\ entries' = Renewed(entries)
  /\ UNCHANGED <<diskVars, hdrscan, files, targetVars, hash, idle, written, countVars>>

SaveRecord ==
  /\ phase = "saving" /\ toSave # <<>>
  /\ cacheFile' = IF TooOld(Head(toSave)) THEN cacheFile
                  ELSE [cacheFile EXCEPT !.records = Append(@, Head(toSave))]
  /\ toSave' = Tail(toSave)
  /\ UNCHANGED <<diskVars, phase, hdrscan, files, targetVars, cacheVars, written, countVars>>

SaveEnd ==
  /\ phase = "saving" /\ toSave = <<>>
  /\ cacheFile' = [cacheFile EXCEPT !.end = "whole"]
  /\ phase' = "make1"
  /\ idle' = IF makes = 1 THEN [p \in Paths |-> idle[p] + 1] ELSE idle
  /\ UNCHANGED <<diskVars, hdrscan, files, targetVars, entries, hash, toSave, written, countVars>>

-----------------------------------------------------------------------------
(***************************************************************************)
(* make1(): the commands of targets to be built, and the rescans.          *)
(***************************************************************************)

\* Whether t's includes node is updated because something in it is.
Stirred(t) == /\ <<t, "node">> \notin rescanned
              /\ \E d \in Inside(t) : fate[d] = "BUILD"

Settled(S) == \A d \in S : (fate[d] = "BUILD" => <<d, "file">> \in rescanned) /\ ~Stirred(d)

\* The commands of t succeed; what they write is up to them.
Build(t) ==
  /\ phase = "make1" /\ Decided
  /\ fate[t] = "BUILD" /\ t \notin done /\ Settled(Behind(t))
  /\ \E c \in Contents[target[t].path] :
       disk' = [disk EXCEPT ![target[t].path] = [time |-> clock + 1, includes |-> c]]
  /\ clock' = clock + 1
  /\ done' = done \cup {t}
  /\ written' = written \cup {target[t].path}
  /\ UNCHANGED <<cacheFile, phase, hdrscan, files, target, fate, todo, rescanned, cacheVars,
                 toSave, countVars>>

\* "Target has been updated so rescan it for dependencies.": t's includes are
\* looked for again, and make0() visits those it has not seen.
Rescan(t) ==
  /\ Headers(t, target[t], {})
  /\ todo' = {d \in target'[t].includes : fate[d] = "INIT"}
  /\ UNCHANGED <<diskVars, cacheFile, phase, hdrscan, files, fate, done, toSave, written, countVars>>

RescanFile(t) ==
  /\ phase = "make1" /\ Decided
  /\ t \in done /\ <<t, "file">> \notin rescanned
  /\ Rescan(t)
  /\ rescanned' = rescanned \cup {<<t, "file">>, <<t, "node">>}

\* The includes node of t is done: its original target is scanned again.
RescanNode(t) ==
  /\ phase = "make1" /\ Decided
  /\ Stirred(t) /\ Settled(Inside(t) \ {t})
  /\ Rescan(t)
  /\ rescanned' = rescanned \cup {<<t, "node">>}

\* All is made, or what is left is not going to be: a command failed.
MakeEnd ==
  /\ phase = "make1" /\ Decided
  /\ phase' = "parse"
  /\ LET over == {t \in Targets : fate[t] # "INIT"}
     IN  done' = done \cup over /\ rescanned' = rescanned \cup over \X {"file", "node"}
  /\ UNCHANGED <<diskVars, cacheFile, hdrscan, files, target, fate, todo, cacheVars, toSave,
                 written, countVars>>

-----------------------------------------------------------------------------
Next ==
  \/ \E p \in Edited : Edit(p)
  \/ Start \/ (\E d \in Globbed : Glob(d)) \/ Make \/ MakeDies \/ EndRun \/ Crash
  \/ \E t \in Targets : Visit(t) \/ Build(t) \/ RescanFile(t) \/ RescanNode(t)
  \/ Decide \/ SaveStart \/ SaveRecord \/ SaveEnd \/ MakeEnd

Spec == Init /\ [][Next]_vars

-----------------------------------------------------------------------------
(***************************************************************************)
(* Properties.                                                             *)
(***************************************************************************)

(***************************************************************************)
(* "If the cache is present and valid, use its contents": as long as an    *)
(* entry, in memory, on its way to the cache file or in it, has the time   *)
(* of its file and what is left of HDRSCAN, it has what the file includes, *)
(* whatever was built, edited or lost in a crash since.                    *)
(***************************************************************************)
CacheTrue ==
  \A e \in ToSet(entries) \cup ToSet(toSave) \cup ToSet(cacheFile.records) :
    e.time # 0 /\ e.time = disk[e.path].time /\ e.scan = Rest => e.includes = InFile(e.path)

(***************************************************************************)
(* What make0() takes a file to include, on which it decides what is out   *)
(* of date, is what the file does include, but for a file that this run    *)
(* has written since.                                                      *)
(***************************************************************************)
PlacedAt(p) == {u \in Targets : \E d \in Locate[u] : At(d, u) = p}
HeadersTrue ==
  \A t \in Targets :
    LET p == target[t].path IN
      /\ fate[t] # "INIT" /\ target[t].binding = "EXISTS" /\ Scans(t)
      /\ p \notin written /\ <<t, "node">> \notin rescanned
      => target[t].includes \ PlacedAt(p) = {HeaderOf[n] : n \in InFile(p)} \ PlacedAt(p)

(***************************************************************************)
(* "This is needed to correctly handle dependencies to generated headers": *)
(* a target that search() finds where another one is LOCATEd includes that *)
(* one, so that whoever uses it waits until it is generated, whether an    *)
(* old file is there or not, and in whatever order they are bound.         *)
(***************************************************************************)
GeneratedKnown ==
  \A t \in Targets :
    /\ fate[t] # "INIT" /\ Locate[t] = {} /\ <<t, "node">> \notin rescanned
    /\ target[t].path[1] \in ToSet(SearchPath[t])
    /\ PlacedAt(target[t].path) # {}
    => PlacedAt(target[t].path) \cap target[t].includes # {}

(***************************************************************************)
(* search(): "examine all directories in SEARCH.  If there's file already  *)
(* or there's another target with the same name which was placed to this   *)
(* location via LOCATE setting, stop": before commands have run, whatever  *)
(* was globbed or looked for before, a target is bound to the first such   *)
(* place, with the time its file has.                                      *)
(***************************************************************************)
Bids(t) == {i \in DOMAIN SearchPath[t] :
              LET p == At(SearchPath[t][i], t) IN disk[p].time # 0 \/ PlacedAt(p) # {}}
BoundAsDocumented ==
  [][\A t \in Targets :
       /\ target[t].binding = "UNBOUND" /\ target'[t].binding # "UNBOUND"
       /\ written = {} /\ Locate[t] = {}
       => /\ target'[t].path = At(IF Bids(t) = {} THEN Cwd
                                  ELSE SearchPath[t][CHOOSE i \in Bids(t) : \A j \in Bids(t) : i <= j], t)
          /\ target'[t].time = disk[target'[t].path].time]_vars

(***************************************************************************)
(* A run takes a file to be of one age: what timestamp() has answered it   *)
(* answers again, although commands write files and directories come to    *)
(* be in between.                                                          *)
(***************************************************************************)
OneAnswer ==
  [][phase' # "off" =>
       \A p \in Paths : files.bind[p].progress # "INIT" => TimeOf(files', p) = TimeOf(files, p)]_vars

(***************************************************************************)
(* "Maximum age a cache entry can have before it is purged": once the      *)
(* cache is saved there is nothing in it that the last HCACHEMAXAGE runs   *)
(* that saved it have not asked for.  (By the second time a run saves it,  *)
(* this run counts as one of them.)                                        *)
(***************************************************************************)
Purged ==
  [][cacheFile.end = "cut" /\ cacheFile'.end = "whole" =>
       \A e \in ToSet(cacheFile'.records) : idle[e.path] <= IF makes = 1 THEN MaxAge ELSE MaxAge + 1]_vars

(***************************************************************************)
(* "Target has been updated so rescan it for dependencies": a rescan finds *)
(* what the updated file includes.                                         *)
(***************************************************************************)
RescansTrue ==
  [][\A t \in Targets :
       phase' = "make1" /\ {<<t, "file">>, <<t, "node">>} \cap (rescanned' \ rescanned) # {} /\ Scans(t)
       => target'[t].includes = {HeaderOf[n] : n \in InFile(target[t].path)}]_vars
=============================================================================
