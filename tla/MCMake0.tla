------------------------------ MODULE MCMake0 ------------------------------
(***************************************************************************)
(* make0() on every graph a few rule calls can build, over every age of    *)
(* the files involved: a program linked from an object file and a library  *)
(* of it, the object's source, and two headers that one generator writes   *)
(* and nobody need have.                                                   *)
(***************************************************************************)
EXTENDS Make0Calls, TLC

MCFiles == {"exe", "lib", "obj", "src", "h1", "h2"}
MCIncludeNode == [f \in MCFiles |-> CASE f = "exe" -> "exe+" [] f = "lib" -> "lib+"
                    [] f = "obj" -> "obj+" [] f = "src" -> "src+" [] f = "h1" -> "h1+" [] f = "h2" -> "h2+"]
NoOther   == [f \in MCFiles |-> NoTarget]
MCHeaders == [f \in MCFiles |-> IF f = "src" THEN <<"h1">> ELSE <<>>]
MCActionTargets == [a \in {"link", "ar", "cc", "gen"} |->
                      CASE a = "link" -> <<"exe">> [] a = "ar" -> <<"lib">>
                        [] a = "cc" -> <<"obj">> [] a = "gen" -> <<"h1", "h2">>]

\* A program linked from an object file, compiled from a source, and from a
\* library of that object: two targets depend on the object.
MCBase  == <<DependsOn("exe", "obj"), DependsOn("exe", "lib"), DependsOn("lib", "obj"),
             DependsOn("obj", "src"), Action("link"), Action("ar"), Action("cc"),
             Flagged("NOCARE", "h1"), Flagged("NOCARE", "h2")>>
\* The object may have to be rebuilt when the second header is, by when the
\* library that depends on it may have been found to be stable.
MCCalls == {IncludesFile("h1", "h2"), DependsOn("exe", "src"), DependsOn("exe", "h2"),
            DependsOn("src", "h2"), Action("gen"), RebuildsToo("h2", "obj"),
            Flagged("TEMP", "obj"), Flagged("NOUPDATE", "obj"), Flagged("LEAVES", "exe"),
            Flagged("TOUCHED", "src"), Flagged("NOTFILE", "exe")}
\* A Jamfile in which a generated header has the object rebuilt, and is a
\* dependency of the program mentioned before the object.
RebuildsFirst == <<DependsOn("exe", "h1"), DependsOn("exe", "obj"), DependsOn("obj", "src"),
                   Action("link"), Action("cc"), Action("gen"), RebuildsToo("h1", "obj")>>
NoCalls == {}
MCAsked == <<"exe">>
MCDisks == {[f \in MCFiles |-> CASE f = "exe" -> d[1] [] f = "lib" -> 2 [] f = "obj" -> d[2] [] f = "src" -> d[3]
                                 [] f = "h1" -> d[4] [] f = "h2" -> d[5]] :
              d \in {0, 2, 4} \X {0, 1, 3} \X {0, 2} \X {0, 1, 5} \X {0, 3}}
=============================================================================
