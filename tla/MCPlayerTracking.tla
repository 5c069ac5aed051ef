---------------------------- MODULE MCPlayerTracking ----------------------------
(***************************************************************************)
(* PlayerTracking for TLC: teams of two, the agent with number 1 and a     *)
(* goalie as its mate, and three player objects at a time, so that a       *)
(* number can be doubled and a player crowded out.                         *)
(***************************************************************************)
EXTENDS PlayerTracking, TLC

Symmetry == Permutations(Objects)
=============================================================================
