------------------------------- MODULE SeeState -------------------------------
(***************************************************************************)
(* rcsc/player/see_state.{h,cpp}: what a player believes about when the    *)
(* next (see ...) message arrives.  A SeeState is a record s:              *)
(*   now       M_current_time         lastSee   M_last_see_time            *)
(*   synchType M_synch_type           timing    M_last_timing              *)
(*   count     M_current_see_count    history   M_see_count_history[0..2]  *)
(*   till      M_cycles_till_next_see                                      *)
(*   width, quality                   M_view_width, M_view_quality         *)
(*   synchSee  S_synch_see_mode                                            *)
(* Each mutator of the class is an operator from record to record.         *)
(***************************************************************************)
EXTENDS GameTime, Sequences

Widths    == {"NARROW", "NORMAL", "WIDE"}
Qualities == {"LOW", "HIGH"}
View(w, q) == [width |-> w, quality |-> q]
Views == [width : Widths, quality : Qualities]

\* The timings the class assigns; the six other enumerators are never used.
Timings == {"TIME_0_00", "TIME_50_0", "TIME_22_5", "TIME_SYNC", "TIME_NOSYNCH"}
SynchTimings == {"TIME_0_00", "TIME_50_0", "TIME_22_5"}
SynchTypes ==
  {"SYNCH_NO", "SYNCH_EVERY", "SYNCH_NARROW", "SYNCH_NORMAL", "SYNCH_WIDE", "SYNCH_SYNC"}

InitialTill == 100

SeeStates ==
  [now : GameTimes, lastSee : GameTimes, synchType : SynchTypes, timing : Timings,
   count : Nat, history : [1..3 -> Nat], till : 0..InitialTill,
   width : Widths, quality : Qualities, synchSee : BOOLEAN]

NewSeeState ==
  [now |-> NoTime, lastSee |-> NoTime, synchType |-> "SYNCH_NO", timing |-> "TIME_NOSYNCH",
   count |-> 0, history |-> <<0, 0, 0>>, till |-> InitialTill,
   width |-> "NORMAL", quality |-> "HIGH", synchSee |-> FALSE]

IsSynch(s) ==
  \/ s.synchSee
  \/ s.synchType = "SYNCH_SYNC"
  \/ s.timing \in SynchTimings

\* Mutant: the estimate is counted below zero.
MutSetNewCycle(s, t) ==
  IF t = s.now THEN s
  ELSE [s EXCEPT !.now = t, !.till = @ - 1, !.history = <<s.count, @[1], @[2]>>, !.count = 0]

\* A new time rotates the history of see counts and counts the estimate down.
SetNewCycle(s, t) ==
  IF t = s.now THEN s
  ELSE [s EXCEPT !.now = t,
                 !.till = IF @ = 0 THEN 0 ELSE @ - 1,
                 !.history = <<s.count, @[1], @[2]>>,
                 !.count = 0]

SetLastSeeTiming(s, timing) == [s EXCEPT !.timing = timing]

-----------------------------------------------------------------------------
(* The tables of getNextTiming and setViewMode.                            *)

\* Where in the cycle the next see arrives, from where the last one did.
NextTiming(timing, w) ==
  CASE timing = "TIME_0_00" /\ w = "NORMAL" -> "TIME_50_0"
    [] timing = "TIME_50_0" /\ w = "NORMAL" -> "TIME_0_00"
    [] timing = "TIME_50_0" /\ w = "NARROW" -> "TIME_22_5"
    [] timing = "TIME_22_5" /\ w = "NARROW" -> "TIME_0_00"
    [] timing \in SynchTimings /\ w = "WIDE" -> timing
    [] OTHER -> "TIME_NOSYNCH"

GetNextTiming(s, v) ==
  IF s.synchSee THEN "TIME_SYNC"
  ELSE IF v.quality = "LOW" THEN "TIME_NOSYNCH"
  ELSE NextTiming(s.timing, v.width)

\* Cycles and type of a width that is held: wide 3, normal 2, narrow 1.
HeldCycles == [NARROW |-> 1, NORMAL |-> 2, WIDE |-> 3]
HeldType   == [NARROW |-> "SYNCH_NARROW", NORMAL |-> "SYNCH_NORMAL", WIDE |-> "SYNCH_WIDE"]

\* Widths that break a synchronization: the timing then has no table entry.
IllegalWidth(timing, w) ==
  \/ timing = "TIME_0_00" /\ w = "NARROW"
  \/ timing = "TIME_22_5" /\ w = "NORMAL"

\* Mutant: the rotation is taken for a held width until its narrow half.
MutEveryCycle(timing, w) == timing \in {"TIME_50_0", "TIME_22_5"} /\ w = "NARROW"

\* Cases of the Normal - Narrow - Narrow rotation: a see in every cycle.
EveryCycle(timing, w) ==
  \/ timing = "TIME_0_00" /\ w = "NORMAL"
  \/ timing \in {"TIME_50_0", "TIME_22_5"} /\ w = "NARROW"

\* The estimate and the type that setViewMode gives for width w.
ViewPlan(s, w) ==
  CASE s.synchSee                       -> <<HeldCycles[w], HeldType[w]>>
    [] ~s.synchSee /\ s.timing \notin SynchTimings -> <<HeldCycles[w], "SYNCH_NO">>
    [] ~s.synchSee /\ IllegalWidth(s.timing, w)    -> <<s.till, "SYNCH_NO">>
    [] ~s.synchSee /\ EveryCycle(s.timing, w)      -> <<1, "SYNCH_EVERY">>
    [] OTHER                            -> <<HeldCycles[w], HeldType[w]>>

SetViewMode(s, v) ==
  [s EXCEPT !.width = v.width, !.quality = v.quality,
            !.till = ViewPlan(s, v.width)[1], !.synchType = ViewPlan(s, v.width)[2]]

-----------------------------------------------------------------------------
(* Message handlers.                                                       *)

UpdateBySenseBody(s, t, v) ==
  [SetNewCycle(s, t) EXCEPT !.width = v.width, !.quality = v.quality]

\* A second see in one cycle refutes the estimated synchronization.
CountSee(s, t) ==
  IF t = s.lastSee
  THEN [s EXCEPT !.count = @ + 1,
                 !.timing = IF IsSynch(s) THEN "TIME_NOSYNCH" ELSE @]
  ELSE [SetNewCycle(s, t) EXCEPT !.lastSee = t, !.count = 1]

\* setViewMode runs first, on the timing of the previous see.
Advance(s, v) ==
  SetLastSeeTiming(SetViewMode(s, v), GetNextTiming(s, v))

UpdateBySee(s, t, v) ==
  LET c == CountSee(s, t)
  IN IF v.quality = "LOW" THEN SetLastSeeTiming(c, "TIME_NOSYNCH")
     ELSE IF IsSynch(c) THEN Advance(c, v)
     ELSE c

-----------------------------------------------------------------------------
(* Queries of the decision making.                                         *)

\* Mutant: the pattern is looked for one cycle too early.
MutSeeCountSynchMode(s) == s.count = 2 /\ s.history[1] = 2 /\ s.history[2] = 3

\* Mutant: the pattern need not be complete.
MutSeeCountNormalMode(s) == s.count = 2 /\ s.history[1] = 3

IsSynchedSeeCountNormalMode(s) == s.history[1] = 2 /\ s.history[2] = 3

IsSynchedSeeCountSynchMode(s) == s.count = 2 /\ s.history = <<3, 2, 3>>

\* seeAfterThink: synch_see_offset > synch_offset.
CanSendChangeView(s, w, t, seeAfterThink) ==
  IF s.synchSee
  THEN t = s.lastSee \/ (seeAfterThink /\ IsNext(s.lastSee, t))
  ELSE /\ t = s.lastSee
       /\ w = "NARROW" => s.timing # "TIME_0_00"
       /\ w = "NORMAL" => s.timing \in {"TIME_0_00", "TIME_50_0"}

SetSynchSeeMode(s) == [s EXCEPT !.synchSee = TRUE]
=============================================================================
