------------------------------- MODULE MCReferee -------------------------------
(***************************************************************************)
(* Referee for TLC: two players, who kick in the order of their numbers    *)
(* reversed, so that the order wraps with the third kick.                  *)
(***************************************************************************)
EXTENDS Referee

MCOrder == <<2, 1>>
MCWishes == {MCOrder, <<1, 1>>, <<1>>}
=============================================================================
