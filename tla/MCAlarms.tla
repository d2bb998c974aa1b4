------------------------------- MODULE MCAlarms -------------------------------
(* AlarmHistory with the constants of MCFleet, for TLC.                     *)
EXTENDS AlarmHistory, MCFleet

SessionSymmetry == Permutations({first, second, third})
=============================================================================
