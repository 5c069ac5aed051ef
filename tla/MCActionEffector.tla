--------------------------- MODULE MCActionEffector ---------------------------
(***************************************************************************)
(* Values for TLC: two kinds of body command, one of them the kind of the  *)
(* dummy command.                                                          *)
(***************************************************************************)
EXTENDS ActionEffector

KickAndTurn == {"kick", "turn"}
CatchAndTurn == {"catch", "turn"}
=============================================================================
