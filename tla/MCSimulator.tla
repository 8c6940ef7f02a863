---------------------------- MODULE MCSimulator ----------------------------
(***************************************************************************)
(* Simulator for TLC: the sessions to check.                               *)
(***************************************************************************)
EXTENDS Simulator

\* Sessions in which the simulator keeps what it promises.
SoundUsages == {{"power", "edit", "test"},
                {"power", "pause", "guardedEdit", "test"},
                {"power", "debug", "edit", "guardedEdit", "test"},
                {"power", "debug", "dbgPause", "edit"},
                {"power", "debug", "dbgPause", "pause"}}

\* A session in which properties are edited.
Editing == {{"power", "edit"}}

============================================================================
