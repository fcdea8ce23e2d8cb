------------------------------ MODULE MCExecNT ------------------------------
(***************************************************************************)
(* Three commands in a table of two slots, all without a limit or one at a *)
(* time with one, and two of them together, each of which may have run for *)
(* too long.  A FILETIME has four bits; one limit is below Half, and the   *)
(* other is Half itself, so that commands also run for longer than that.   *)
(***************************************************************************)
EXTENDS ExecNT

Line(jobs, timeout, commands) == [jobs |-> jobs, timeout |-> timeout, commands |-> commands]

MCOptions == {Line(2, 0, 3), Line(2, 1, 2), Line(1, 2, 2)}
=============================================================================
