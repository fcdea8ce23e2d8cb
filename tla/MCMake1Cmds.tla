---------------------------- MODULE MCMake1Cmds ----------------------------
(***************************************************************************)
(* make1cmds() on the actions of an archive, of an object file and of a    *)
(* copied file, for every set of actions already executing and every set   *)
(* of updated sources.                                                     *)
(***************************************************************************)
EXTENDS Make1CmdsCalls

MCTargets == {"lib", "exe", "dir", "o1", "o2", "o3", "big"}
MCActions == {"ar1", "ar2", "cc", "ld", "cp", "all"}
MCRules   == {"Archive", "Cc", "Link", "Copy", "List"}
\* `actions updated together piecemeal Archive', as Jambase has it.
MCRuleOf  == [a \in MCActions |-> CASE a \in {"ar1", "ar2"} -> "Archive" [] a = "cc" -> "Cc"
                                    [] a = "ld" -> "Link" [] a = "cp" -> "Copy" [] a = "all" -> "List"]
MCActionsOf == [t \in MCTargets |-> CASE t = "lib" -> <<"ar1", "cc", "ar2">>
                                      [] t = "exe" -> <<"ld", "cp">>
                                      [] t = "dir" -> <<"all", "ar2">>
                                      [] OTHER -> <<>>]
MCTargetsOf == [a \in MCActions |-> CASE a \in {"ar1", "cc"} -> <<"lib">> [] a = "ar2" -> <<"lib", "dir">>
                                      [] a \in {"ld", "cp"} -> <<"exe">> [] a = "all" -> <<"dir">>]
MCSourcesOf == [a \in MCActions |-> CASE a = "ar1" -> <<"o1", "o2", "o3">> [] a = "ar2" -> <<"o2", "o1", "big">>
                                      [] a = "cc" -> <<>> [] a = "ld" -> <<"o1", "o2", "o1">>
                                      [] a = "cp" -> <<"o3", "big", "o2">> [] a = "all" -> <<"o1", "o2", "o3", "o2", "big">>]
MCBoundName == [t \in MCTargets |-> t]
MCWidth     == [t \in MCTargets |-> CASE t = "big" -> 4 [] t = "o3" -> 2 [] OTHER -> 1]
=============================================================================
