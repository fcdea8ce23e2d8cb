----------------------------- MODULE Execution -----------------------------
(***************************************************************************)
(* What make1() relies on of exec_cmd() and exec_wait(), whatever the      *)
(* operating system: at most -j commands run; every command started is     *)
(* reported at most once, with its own outcome, and only while make1()     *)
(* waits; and a wait ends only after a report, below the limit.            *)
(***************************************************************************)
EXTENDS Naturals, FiniteSets

CONSTANT Commands

VARIABLES
  jobs,     \* -j, the same for the whole run
  started,  \* commands given to exec_cmd()
  outcome,  \* how each command ended: "none" while it has not
  told,     \* what make1() has been told of each command, "none" at first
  waiting,  \* exec_cmd() or exec_wait() waits for commands
  heard     \* this wait has reported a command

vars == <<jobs, started, outcome, told, waiting, heard>>

Outcomes == {"none", "ok", "fail"}
Running  == {c \in started : told[c] = "none"}

Init ==
  /\ jobs \in Nat \ {0}
  /\ started = {}
  /\ outcome = [c \in Commands |-> "none"]
  /\ told = [c \in Commands |-> "none"]
  /\ ~waiting /\ ~heard

-----------------------------------------------------------------------------

\* exec_cmd() waits at once when the limit is reached.
Start(c) ==
  /\ ~waiting
  /\ c \notin started
  /\ Cardinality(Running) < jobs
  /\ started' = started \cup {c}
  /\ waiting' = (Cardinality(Running) + 1 = jobs)
  /\ UNCHANGED <<jobs, outcome, told, heard>>

\* Commands end, each once; the time limit may end several together.
End ==
  /\ outcome' \in [Commands -> Outcomes]
  /\ \A c \in Commands : outcome'[c] # outcome[c] => c \in started /\ outcome[c] = "none"
  /\ UNCHANGED <<jobs, started, told, waiting, heard>>

Wait ==
  /\ ~waiting
  /\ Running # {}
  /\ waiting' = TRUE
  /\ UNCHANGED <<jobs, started, outcome, told, heard>>

Report(c) ==
  /\ waiting
  /\ c \in Running
  /\ outcome[c] # "none"
  /\ told' = [told EXCEPT ![c] = outcome[c]]
  /\ heard' = TRUE
  /\ UNCHANGED <<jobs, started, outcome, waiting>>

Return ==
  /\ waiting /\ heard
  /\ Cardinality(Running) < jobs
  /\ ~waiting' /\ ~heard'
  /\ UNCHANGED <<jobs, started, outcome, told>>

Next == End \/ Wait \/ Return \/ \E c \in Commands : Start(c) \/ Report(c)

Spec == Init /\ [][Next]_vars
=============================================================================
