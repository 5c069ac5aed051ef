------------------------------- MODULE GameTime -------------------------------
(***************************************************************************)
(* rcsc/game_time.h: a game time is the server's cycle number and, while   *)
(* the server clock is stopped, the number of cycles it has been stopped.  *)
(***************************************************************************)
EXTENDS Integers

GameTimes == [cycle : Int, stopped : Nat]

Time(c, s) == [cycle |-> c, stopped |-> s]

\* The value most time members are constructed with: before every real time.
NoTime == Time(-1, 0)

\* operator< : the lexicographic order.
Earlier(t, u) ==
  \/ t.cycle < u.cycle
  \/ t.cycle = u.cycle /\ t.stopped < u.stopped

\* u is the cycle right after t, on either clock.
IsNext(t, u) ==
  \/ t.cycle + 1 = u.cycle
  \/ t.cycle = u.cycle /\ t.stopped + 1 = u.stopped
=============================================================================
