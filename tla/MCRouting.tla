------------------------------ MODULE MCRouting ------------------------------
(* RoutingHistory with the constants of MCFleet, for TLC.                   *)
EXTENDS RoutingHistory, MCFleet
=============================================================================
