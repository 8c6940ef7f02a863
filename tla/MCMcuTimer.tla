----------------------------- MODULE MCMcuTimer -----------------------------
(***************************************************************************)
(* McuTimer for TLC.                                                       *)
(***************************************************************************)
EXTENDS McuTimer

\* What firmware does with a timer, but for the combinations that go wrong.
SoundFirmwares == {
    {"prescaled", "write", "stop"},
    {"prescaled", "write", "sleep"},
    {"compare", "write", "stop"},
    {"compare", "write", "external", "sleep"}}

\* The compare register is written while a tick is not over.
CompareInTick == {{"prescaled", "compare"}}

=============================================================================
