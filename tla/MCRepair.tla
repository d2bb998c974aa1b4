------------------------------- MODULE MCRepair -------------------------------
(* ToolRepair with small sets, for TLC.  101 is an id of the client; 1 is   *)
(* "call_repair_1", which a client may echo.                                *)
EXTENDS ToolRepair

MCClientIds == {1, 101}
=============================================================================
