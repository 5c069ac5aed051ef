------------------------------- MODULE MCSeeSync -------------------------------
(***************************************************************************)
(* SeeSync for TLC.  The cfg files choose the waiting thresholds and the   *)
(* circumstances; the clock wraps after six cycles, twice the period in    *)
(* which sense_body and see line up again.                                 *)
(***************************************************************************)
EXTENDS SeeSync

Circumstance(synch, view, stopped, playOnAllowed, reorder, maxLost) ==
  [synch |-> synch, view |-> view, stopped |-> stopped, playOnAllowed |-> playOnAllowed,
   reorder |-> reorder, maxLost |-> maxLost]

\* Calm on a running clock, with stoppages and a loss, calm on a stopped clock, with a loss
\* there, and with sees that overtake their sense_body there.
MCConfs ==
  {Circumstance(synch, view, FALSE, FALSE, TRUE, 0) :
     synch \in BOOLEAN, view \in {"any", "View_Synch"}}
  \cup {Circumstance(FALSE, "View_Synch", FALSE, TRUE, TRUE, 1)}
  \cup {Circumstance(synch, view, TRUE, FALSE, FALSE, 0) :
          synch \in BOOLEAN, view \in {"any", "View_Synch"}}
  \cup {Circumstance(FALSE, "View_Synch", TRUE, FALSE, FALSE, 1)}
  \cup {Circumstance(synch, view, TRUE, FALSE, TRUE, 0) :
          synch \in BOOLEAN, view \in {"any", "View_Synch"}}

MCStoppages == {Circumstance(TRUE, "View_Synch", FALSE, TRUE, TRUE, 0)}
===============================================================================
