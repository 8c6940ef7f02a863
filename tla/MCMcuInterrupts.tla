-------------------------- MODULE MCMcuInterrupts --------------------------
(***************************************************************************)
(* McuInterrupts for TLC: programs by their habits, and what may wake the  *)
(* core of one that sleeps.                                                *)
(***************************************************************************)
EXTENDS McuInterrupts, TLC

Symmetry == Permutations(Ints)

\* Programs for which the controller keeps what it promises.
SoundFirmwares == {{"nest"}, {"level"}, {"touch", "sleep"},
                   {"nest", "reprioritise"}, {"touch", "reprioritise"}}

\* AVR: idle, ADC noise reduction, power down.
AvrModes == {0, 1, 2}

\* An interrupt that wakes from modes 0 and 1, and one that wakes from 1 only.
AvrMasks == {{0, 1}, {1}}

============================================================================
