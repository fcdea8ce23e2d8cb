--------------------------- MODULE MCHeaderCache ---------------------------
(***************************************************************************)
(* A source main.cpp that includes config.h, which a generator writes into *)
(* `out' from config.in, and which may include opt.h.  The header target   *)
(* found through #include and the generated one are different targets, as  *)
(* in Boost.Build, and only the first is scanned.                          *)
(***************************************************************************)
EXTENDS HeaderCache

MCTargets  == {"cpp", "hdr", "gen", "in", "opt"}
MCNames    == {"main.cpp", "config.h", "config.in", "opt.h"}
MCDirs     == {"src", "out", "cwd"}
MCFileName == [t \in MCTargets |-> CASE t = "cpp" -> "main.cpp" [] t \in {"hdr", "gen"} -> "config.h"
                                     [] t = "in" -> "config.in" [] t = "opt" -> "opt.h"]
MCLocate   == [t \in MCTargets |-> IF t = "gen" THEN {"out"} ELSE {}]
MCSearch   == [t \in MCTargets |-> CASE t \in {"cpp", "in"} -> <<"src">> [] t = "gen" -> <<>>
                                     [] t \in {"hdr", "opt"} -> <<"src", "out">>]
MCRoots     == {"cpp", "gen"}
MCSources   == [t \in MCTargets |-> IF t = "gen" THEN {"in"} ELSE {}]
MCHeaderOf  == [n \in MCNames |-> CASE n = "config.h" -> "hdr" [] n = "opt.h" -> "opt"
                                    [] n = "main.cpp" -> "cpp" [] n = "config.in" -> "in"]
MCMatched   == [p \in {"quoted", "angle"} |-> IF p = "quoted" THEN {"config.h", "opt.h"} ELSE {"opt.h"}]
Quoted      == {<<"quoted">>}
Either      == {<<"quoted">>, <<"angle">>}
MCStartDisk == [p \in MCDirs \X MCNames |->
                  CASE p = <<"src", "main.cpp">>  -> [time |-> 1, includes |-> {"config.h"}]
                    [] p = <<"src", "config.in">> -> [time |-> 2, includes |-> {}]
                    [] OTHER -> [time |-> 0, includes |-> {}]]
MCContents == [p \in MCDirs \X MCNames |->
                 CASE p[2] = "config.h" -> {{}, {"opt.h"}}
                   [] p[2] = "main.cpp" -> {{}, {"config.h"}}
                   [] OTHER -> {{}}]
Sources1   == {<<"src", "main.cpp">>, <<"src", "config.in">>, <<"out", "config.h">>, <<"src", "config.h">>}
=============================================================================
