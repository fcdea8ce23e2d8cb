----------------------------- MODULE MCExecUnix -----------------------------
(***************************************************************************)
(* A table of two slots, both in use, where a third command uses one of    *)
(* them again; and one command at a time, where one slot must stay unused  *)
(* and every command finds what the one before left in the other.          *)
(***************************************************************************)
EXTENDS ExecUnix

Line(jobs, limit, pipes, commands) ==
  [jobs |-> jobs, limit |-> limit, pipes |-> pipes, commands |-> commands]

MCOptions == {Line(2, FALSE, FALSE, 3), Line(2, TRUE, FALSE, 2),
              Line(1, TRUE, FALSE, 3),  Line(1, TRUE, TRUE, 2)}
=============================================================================
