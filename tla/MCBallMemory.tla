------------------------------ MODULE MCBallMemory ------------------------------
(***************************************************************************)
(* BallMemory for TLC in five circumstances.  A difference over three      *)
(* steps needs four cycles; all other histories fit in three.              *)
(***************************************************************************)
EXTENDS BallMemory

Calm ==
  [modes |-> {"play_on"}, hits |-> {"none"}, commands |-> {"kick", "other"},
   sayings |-> {}, fullCycles |-> {}, maxCycle |-> 4, maxLost |-> 0]

Losses == [Calm EXCEPT !.sayings = {{}}, !.maxCycle = 3, !.maxLost = 1]

Collisions ==
  [Calm EXCEPT !.hits = {"none", "ball", "player"}, !.commands = {"other"}, !.maxCycle = 3]

Talk ==
  [Calm EXCEPT !.sayings = {{"position", "velocity", "pass"}}, !.maxCycle = 3]

Referee ==
  [Calm EXCEPT !.modes = {"play_on", "goal_kick", "goalie_catch", "kick_off", "set_play"},
               !.commands = {"other"}, !.fullCycles = {2}, !.maxCycle = 3]

MCConfs == {Calm, Losses, Collisions, Talk, Referee}
=============================================================================
