---------------------------- MODULE MCGatherLoot ----------------------------
(* Two dogs on a road of four points, the office at the second: a move can  *)
(* pass it, end at it, or reach loot beyond it only.                        *)
EXTENDS GatherLoot
=============================================================================
