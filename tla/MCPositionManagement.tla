------------------------ MODULE MCPositionManagement ------------------------
(***************************************************************************)
(* PositionManagement for TLC: a stop three below the entry, prices at the *)
(* stop, the entry, 1R, beyond 1.5R and 3R.                                *)
(***************************************************************************)
EXTENDS PositionManagement

MCPrices == {1, 4, 7, 13}
MCNoStop == -9
=============================================================================
