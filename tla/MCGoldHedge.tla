---------------------------- MODULE MCGoldHedge ----------------------------
(* Two entries of the lot progression and three levels, so that the third  *)
(* level lies beyond the progression; half again as much as its odd last   *)
(* entry is not a whole number of hundredths.                              *)
EXTENDS GoldHedge

MCProgression == <<1, 3>>
============================================================================
