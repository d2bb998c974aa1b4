------------------------------- MODULE MCControl -------------------------------
(* ControlHistory with small sets, for TLC.                                 *)
EXTENDS ControlHistory, TLC

CONSTANTS first, second, policy, hook, kimi

MCHandlers == {first, second}
HandlerSymmetry == Permutations(MCHandlers)

(* A file written by hand: learning off, and no revision.                   *)
MCEdits == {[Defaults EXCEPT !.learning = FALSE]}
NoEdits == {}
=============================================================================
