------------------------------- MODULE Build -------------------------------
(***************************************************************************)
(* What bjam promises of a parallel build, whatever its scheduler does: a  *)
(* target waits, is worked on, is done; it is worked on only when all it   *)
(* depends on is done and good, by nobody while a target with the same     *)
(* semaphore is; and the verdict is success exactly if nothing was found   *)
(* missing, and all that was asked for is done, with everything it depends *)
(* on, and good.                                                           *)
(***************************************************************************)
EXTENDS Sequences, SequencesExt

CONSTANTS
  Targets,
  Asked,    \* the targets the build was asked for
  NoCare,   \* targets whose failure their dependants do not mind
  NoSem     \* the semaphore of a target that has none

VARIABLES
  phase,    \* of each target: "waiting", "working" or "done"
  good,     \* the targets that are done and all right
  deps,     \* what each target depends on, as far as is known
  sem,      \* the semaphore of each target
  missing,  \* something was found that can neither be found nor made
  stopped,  \* an interrupt, or a failure that ends the build, was seen
  verdict   \* "none" until the build is over

found == <<sem, missing>>
vars  == <<phase, good, deps, found, stopped, verdict>>

DoneSet == {t \in Targets : phase[t] = "done"}

Init ==
  /\ phase = [t \in Targets |-> "waiting"]
  /\ good = {}
  /\ deps \in [Targets -> Seq(Targets)]
  /\ DOMAIN sem = Targets
  /\ missing \in BOOLEAN
  /\ ~stopped
  /\ verdict = "none"

-----------------------------------------------------------------------------

\* New dependencies become known, of targets that are waiting and nobody else.
Learn ==
  \A t \in Targets : IF phase[t] = "waiting" /\ phase'[t] = "waiting"
                     THEN IsPrefix(deps[t], deps'[t])
                     ELSE deps'[t] = deps[t]

Ready(t)    == \A d \in ToSet(deps[t]) : phase[d] = "done"
AllGood(t)  == ToSet(deps[t]) \subseteq good \cup NoCare
Excluded(t) == sem[t] # NoSem /\ \E u \in Targets : phase[u] = "working" /\ sem[u] = sem[t]

Begin(t) ==
  /\ phase[t] = "waiting" /\ Ready(t) /\ AllGood(t) /\ ~Excluded(t)
  /\ phase' = [phase EXCEPT ![t] = "working"]
  /\ UNCHANGED <<good, deps, found, stopped, verdict>>

\* t's commands are through, with or without success; building it may have
\* shown what it includes.
Finish(t) ==
  /\ phase[t] = "working"
  /\ phase' = [phase EXCEPT ![t] = "done"]
  /\ good' \in {good, good \cup {t}}
  /\ Learn
  /\ UNCHANGED <<found, stopped, verdict>>

\* There is nothing to do for t, or nothing can be done.
Pass(t) ==
  /\ phase[t] = "waiting" /\ Ready(t)
  /\ phase' = [phase EXCEPT ![t] = "done"]
  /\ good' \in {good} \cup (IF AllGood(t) THEN {good \cup {t}} ELSE {})
  /\ Learn
  /\ UNCHANGED <<found, stopped, verdict>>

Discover ==
  /\ phase' = phase
  /\ Learn
  /\ UNCHANGED <<good, found, stopped, verdict>>

\* A command was interrupted, or failed and one failure is enough (-q).
Stop ==
  /\ \E t \in Targets : phase[t] = "working"
  /\ stopped' = TRUE
  /\ UNCHANGED <<phase, good, deps, found, verdict>>

\* What was asked for is done, or the build was stopped.
End ==
  /\ stopped \/ Asked \subseteq DoneSet
  /\ stopped \/ \A t \in Targets : phase[t] # "working"
  /\ verdict' = IF /\ ~missing
                   /\ Asked \subseteq DoneSet /\ DoneSet = good
                   /\ \A t \in Targets : phase[t] # "working"
                THEN "success" ELSE "failure"
  /\ UNCHANGED <<phase, good, deps, found, stopped>>

\* The build is abandoned, without a verdict on it.
GiveUp ==
  /\ verdict' = "gave up"
  /\ UNCHANGED <<phase, good, deps, found, stopped>>

Next == /\ verdict = "none"
        /\ \/ \E t \in Targets : Begin(t) \/ Finish(t) \/ Pass(t)
           \/ Discover \/ Stop \/ End \/ GiveUp

Spec == Init /\ [][Next]_vars
=============================================================================
