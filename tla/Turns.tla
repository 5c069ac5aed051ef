--------------------------------- MODULE Turns ---------------------------------
(***************************************************************************)
(* What the message loop of an agent promises to the parts that send       *)
(* commands: the cycle number only grows, a cycle is decided once, and     *)
(* nothing is decided after the end.  The promise has two exceptions.  In  *)
(* a cycle in which the server's clock stood still there is a decision for *)
(* every step of it, and in synch mode the server asks for each decision.  *)
(*                                                                         *)
(* PlayerAgent implements this specification.                              *)
(***************************************************************************)
EXTENDS Integers

CONSTANT OnRequest   \* TRUE: the server asks for decisions

VARIABLES
  cycle,       \* the agent's cycle number
  decided,     \* the cycle of its last decision
  repeatable,  \* the cycles in which the clock stood still
  over,        \* the loop has ended
  turn         \* flipped by every decision

vars == <<cycle, decided, repeatable, over, turn>>

Init ==
  /\ cycle = 0
  /\ decided \in {-1, 0}
  /\ repeatable \subseteq {0}
  /\ over = FALSE
  /\ turn = 0

\* The time advances, or the clock is found to stand still, or both.
Pass ==
  /\ ~over
  /\ cycle' \in Nat /\ cycle <= cycle'
  /\ repeatable' \in {repeatable, repeatable \cup {cycle'}}
  /\ UNCHANGED <<decided, over, turn>>

Decide ==
  /\ ~over
  /\ OnRequest \/ cycle \in repeatable \/ decided < cycle
  /\ decided' = cycle
  /\ turn' = 1 - turn
  /\ UNCHANGED <<cycle, repeatable, over>>

Leave ==
  /\ ~over
  /\ over' = TRUE
  /\ UNCHANGED <<cycle, decided, repeatable, turn>>

Next == Pass \/ Decide \/ Leave

Spec == Init /\ [][Next]_vars
=============================================================================
