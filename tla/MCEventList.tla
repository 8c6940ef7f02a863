---------------------------- MODULE MCEventList ----------------------------
(***************************************************************************)
(* EventList for TLC: the elements of no microcontroller are               *)
(* interchangeable.                                                        *)
(***************************************************************************)
EXTENDS EventList, TLC

Symmetry == Permutations(Elements \ Sleepers)

============================================================================
