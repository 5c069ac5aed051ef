----------------------------- MODULE MCCoachAgent -----------------------------
(***************************************************************************)
(* CoachAgent for TLC: a game of two cycles that is extended, windows of   *)
(* two cycles, so that a game sees both begin anew.                        *)
(***************************************************************************)
EXTENDS CoachAgent
=============================================================================
