----------------------------- MODULE MCPlayerAgent -----------------------------
(***************************************************************************)
(* PlayerAgent for TLC.  A decision may find any of the three opinions     *)
(* SeeState can have: no synchronization, a see expected in this cycle, or *)
(* none expected.                                                          *)
(***************************************************************************)
EXTENDS PlayerAgent

Synched(till) == [NewSeeState EXCEPT !.timing = "TIME_0_00", !.till = till]

MCSeeVerdicts == {NewSeeState, Synched(0), Synched(1)}
=============================================================================
