---------------------------- MODULE SeeSyncProofs ----------------------------
(***************************************************************************)
(* Theorems about SeeSync, for every number of cycles that are told apart: *)
(* type correctness; that a client that believes it knows the phase of the *)
(* server's see clock is right; and that with the view action View_Synch   *)
(* and patience it has a see in each cycle and never loses the             *)
(* synchronization.  Only the last needs something of the thresholds of    *)
(* the decision timing (Patient).  The clock of the game runs or stands    *)
(* still; a see that overtakes its sense_body while it stands still is     *)
(* outside of these theorems (Calm, InOrder), as there the phase may be    *)
(* one unit wrong (SeeSync: PhaseIsClose).                                 *)
(*                                                                         *)
(* InPhase, the first invariant, says where the server's two clocks are in *)
(* their common round, what the client may have counted, and what a count  *)
(* proves (Hunting) or a timing promises (Tracked).  An operator of the    *)
(* client that keeps this has a lemma named ...Follows, an action of the   *)
(* system one named Phase....  InStep, the second, adds the estimate of    *)
(* the next see, the last decision and the width the server has; its       *)
(* lemmas are named ...Turns and Step....                                  *)
(***************************************************************************)
EXTENDS SeeSync, SequenceTheorems, TLAPS

\* An agent in the middle of a handler: commands may be waiting to be sent.
Drafts ==
  [now : GameTimes, lastDecision : GameTimes, seeTime : GameTimes, senseTime : GameTimes,
   bodyAge : -1..MaxAge, seeLag : -1..MaxAge, view : Views, see : SeeStates,
   out : Seq(Views)]

Sees == [type : {"see"}, cycle : Nat]
Senses == [type : {"sense_body"}, cycle : Nat, view : Views]

\* A see, or a sense_body with the view v, that sets the time to t.
SeeAt(a, t) ==
  LET b == [a EXCEPT !.now = t, !.seeTime = t, !.seeLag = a.bodyAge,
                     !.see = UpdateBySee(@, t, a.view)]
  IN IF conf.synch \/ IsSynch(b.see) THEN b ELSE AdjustSeeSynchNormalMode(b)

SenseAt(a, t, v) ==
  [a EXCEPT !.now = t, !.senseTime = t, !.bodyAge = 0, !.view = v,
            !.see = UpdateBySenseBody(@, t, v)]

-----------------------------------------------------------------------------
(* The operators of SeeState.                                              *)

LEMMA Triple == ASSUME NEW i \in Nat, NEW j \in Nat, NEW k \in Nat
                PROVE  <<i, j, k>> \in [1..3 -> Nat]
OBVIOUS

LEMMA NewCycleType ==
  ASSUME NEW s \in SeeStates, NEW t \in GameTimes
  PROVE  SetNewCycle(s, t) \in SeeStates
<1>1. s.count \in Nat /\ s.history[1] \in Nat /\ s.history[2] \in Nat /\ s.till \in 0..InitialTill
  BY DEF SeeStates
<1> DEFINE h == <<s.count, s.history[1], s.history[2]>>
           l == IF s.till = 0 THEN 0 ELSE s.till - 1
<1>2. h \in [1..3 -> Nat]
  BY <1>1, Triple
<1>3. l \in 0..InitialTill
  BY <1>1 DEF InitialTill
<1>4. SetNewCycle(s, t) =
        IF t = s.now THEN s
        ELSE [s EXCEPT !.now = t, !.till = l, !.history = h, !.count = 0]
  BY DEF SetNewCycle
<1> HIDE DEF h, l
<1>5. [s EXCEPT !.now = t, !.till = l, !.history = h, !.count = 0] \in SeeStates
  BY <1>2, <1>3 DEF SeeStates
<1> QED
  BY <1>4, <1>5

LEMMA TimingType ==
  ASSUME NEW s \in SeeStates, NEW timing \in Timings
  PROVE  SetLastSeeTiming(s, timing) \in SeeStates
BY DEF SetLastSeeTiming, SeeStates

LEMMA NextTimingType ==
  ASSUME NEW s \in SeeStates, NEW v \in Views
  PROVE  GetNextTiming(s, v) \in Timings
BY DEF GetNextTiming, NextTiming, SynchTimings, Timings, SeeStates

LEMMA ViewPlanType ==
  ASSUME NEW s \in SeeStates, NEW w \in Widths
  PROVE  ViewPlan(s, w)[1] \in 0..InitialTill /\ ViewPlan(s, w)[2] \in SynchTypes
<1>1. HeldCycles[w] \in 0..InitialTill /\ HeldType[w] \in SynchTypes /\ s.till \in 0..InitialTill
  BY DEF HeldCycles, HeldType, Widths, SynchTypes, InitialTill, SeeStates
<1> QED
  BY <1>1 DEF ViewPlan, SynchTypes, InitialTill

LEMMA ViewModeType ==
  ASSUME NEW s \in SeeStates, NEW v \in Views
  PROVE  SetViewMode(s, v) \in SeeStates
<1>1. v.width \in Widths /\ v.quality \in Qualities
  BY DEF Views
<1> DEFINE p == ViewPlan(s, v.width)[1]
           q == ViewPlan(s, v.width)[2]
<1>2. p \in 0..InitialTill /\ q \in SynchTypes
  BY <1>1, ViewPlanType
<1>3. SetViewMode(s, v) = [s EXCEPT !.width = v.width, !.quality = v.quality,
                                    !.till = p, !.synchType = q]
  BY DEF SetViewMode
<1> HIDE DEF p, q
<1> QED
  BY <1>1, <1>2, <1>3 DEF SeeStates

LEMMA BySenseBodyType ==
  ASSUME NEW s \in SeeStates, NEW t \in GameTimes, NEW v \in Views
  PROVE  UpdateBySenseBody(s, t, v) \in SeeStates
<1>1. v.width \in Widths /\ v.quality \in Qualities
  BY DEF Views
<1>2. SetNewCycle(s, t) \in SeeStates
  BY NewCycleType
<1> QED
  BY <1>1, <1>2 DEF UpdateBySenseBody, SeeStates

LEMMA CountSeeType ==
  ASSUME NEW s \in SeeStates, NEW t \in GameTimes
  PROVE  CountSee(s, t) \in SeeStates
<1>1. SetNewCycle(s, t) \in SeeStates
  BY NewCycleType
<1>2. CASE t = s.lastSee
  <2> DEFINE g == IF IsSynch(s) THEN "TIME_NOSYNCH" ELSE s.timing
  <2>1. g \in Timings /\ s.count + 1 \in Nat
    BY DEF SeeStates, Timings
  <2>2. CountSee(s, t) = [s EXCEPT !.count = s.count + 1, !.timing = g]
    BY <1>2 DEF CountSee, SeeStates
  <2> HIDE DEF g
  <2> QED
    BY <2>1, <2>2 DEF SeeStates
<1>3. CASE t # s.lastSee
  BY <1>1, <1>3 DEF CountSee, SeeStates
<1> QED
  BY <1>2, <1>3

LEMMA BySeeType ==
  ASSUME NEW s \in SeeStates, NEW t \in GameTimes, NEW v \in Views
  PROVE  UpdateBySee(s, t, v) \in SeeStates
<1> DEFINE c == CountSee(s, t)
<1>1. c \in SeeStates
  BY CountSeeType
<1> HIDE DEF c
<1>2. SetLastSeeTiming(c, "TIME_NOSYNCH") \in SeeStates
  BY <1>1, TimingType DEF Timings
<1>3. Advance(c, v) \in SeeStates
  BY <1>1, ViewModeType, NextTimingType, TimingType DEF Advance
<1> QED
  BY <1>1, <1>2, <1>3 DEF UpdateBySee, c

-----------------------------------------------------------------------------
(* The operators of the agent.                                             *)

LEMMA AgentsAreDrafts ==
  ASSUME NEW a \in Agents
  PROVE  a \in Drafts /\ a.out = <<>>
<1>1. a.out \in {<<>>} /\ <<>> \in Seq(Views)
  BY DEF Agents
<1> QED
  BY <1>1 DEF Agents, Drafts

LEMMA ViewType == ASSUME NEW w \in Widths, NEW q \in Qualities PROVE View(w, q) \in Views
BY DEF View, Views

LEMMA FirstViews ==
  View("NORMAL", "HIGH") \in Views /\ View("NARROW", "HIGH") \in Views
  /\ View("NARROW", "LOW") \in Views
BY DEF View, Views, Widths, Qualities

LEMMA SendChangeViewType ==
  ASSUME NEW a \in Drafts, NEW v \in Views
  PROVE  SendChangeView(a, v) \in Drafts
<1>1. SetViewMode(a.see, v) \in SeeStates
  BY ViewModeType DEF Drafts
<1>2. Append(a.out, v) \in Seq(Views)
  BY DEF Drafts
<1> DEFINE s == SetViewMode(a.see, v)
           o == Append(a.out, v)
<1>3. SendChangeView(a, v) = [a EXCEPT !.out = o, !.view = v, !.see = s]
  BY DEF SendChangeView
<1> HIDE DEF s, o
<1> QED
  BY <1>1, <1>2, <1>3 DEF Drafts, s, o

LEMMA SeeFieldType ==
  ASSUME NEW a \in Drafts, NEW s \in SeeStates
  PROVE  [a EXCEPT !.see = s] \in Drafts
BY DEF Drafts

LEMMA TimingFieldType ==
  ASSUME NEW a \in Drafts, NEW timing \in Timings
  PROVE  [a EXCEPT !.see = SetLastSeeTiming(@, timing)] \in Drafts
<1>1. SetLastSeeTiming(a.see, timing) \in SeeStates
  BY TimingType DEF Drafts
<1> QED
  BY <1>1, SeeFieldType DEF Drafts

LEMMA SynchronizedType ==
  ASSUME NEW a \in Drafts, NEW timing \in Timings, NEW v \in Views
  PROVE  Synchronized(a, timing, v) \in Drafts
BY TimingFieldType, SendChangeViewType DEF Synchronized

LEMMA AdjustType ==
  ASSUME NEW a \in Drafts
  PROVE  /\ AdjustSeeSynchNormalMode(a) \in Drafts
         /\ AdjustSeeSynchSynchMode(a) \in Drafts
<1>1. StopTrial(a) \in Drafts
  BY FirstViews, SendChangeViewType DEF StopTrial
<1>2. SendChangeView(a, View("NARROW", "LOW")) \in Drafts
  BY FirstViews, SendChangeViewType
<1>3. /\ Synchronized(a, "TIME_0_00", View("NORMAL", "HIGH")) \in Drafts
      /\ Synchronized(a, "TIME_50_0", View("NARROW", "HIGH")) \in Drafts
  BY FirstViews, SynchronizedType DEF Timings
<1> QED
  BY <1>1, <1>2, <1>3 DEF AdjustSeeSynchNormalMode, AdjustSeeSynchSynchMode

LEMMA AnalyzeAt ==
  ASSUME NEW a, NEW m
  PROVE  /\ AnalyzeSee(a, m) = SeeAt(a, UpdateCurrentTime(a, m.cycle, FALSE))
         /\ AnalyzeSenseBody(a, m) = SenseAt(a, UpdateCurrentTime(a, m.cycle, TRUE), m.view)
BY DEF AnalyzeSee, AnalyzeSenseBody, SeeAt, SenseAt

LEMMA CurrentTimeType ==
  ASSUME NEW a \in Drafts, NEW c \in Nat, NEW bySenseBody
  PROVE  UpdateCurrentTime(a, c, bySenseBody) \in GameTimes
<1>1. a.now \in GameTimes /\ Cycles \in Nat /\ Cycles > 3
  BY SeeSyncAssumption DEF Drafts
<1>2. a.now.stopped \in Int
  BY <1>1 DEF GameTimes
<1>3. (a.now.stopped + 1) % Cycles \in Nat
  BY <1>1, <1>2
<1> QED
  BY <1>1, <1>3 DEF UpdateCurrentTime, Time, GameTimes

LEMMA SenseType ==
  ASSUME NEW a \in Drafts, NEW t \in GameTimes, NEW v \in Views
  PROVE  SenseAt(a, t, v) \in Drafts
<1> DEFINE s == UpdateBySenseBody(a.see, t, v)
<1>2. s \in SeeStates
  BY BySenseBodyType DEF Drafts
<1>3. SenseAt(a, t, v) =
        [a EXCEPT !.now = t, !.senseTime = t, !.bodyAge = 0, !.view = v, !.see = s]
  BY DEF SenseAt
<1>4. 0 \in -1..MaxAge
  BY DEF MaxAge, UnitsPerCycle
<1> HIDE DEF s
<1> QED
  BY <1>2, <1>3, <1>4 DEF Drafts

LEMMA SeeType ==
  ASSUME NEW a \in Drafts, NEW t \in GameTimes
  PROVE  SeeAt(a, t) \in Drafts
<1> DEFINE s == UpdateBySee(a.see, t, a.view)
           b == [a EXCEPT !.now = t, !.seeTime = t, !.seeLag = a.bodyAge, !.see = s]
<1>2. s \in SeeStates
  BY BySeeType DEF Drafts
<1>3. SeeAt(a, t) = IF conf.synch \/ IsSynch(b.see) THEN b ELSE AdjustSeeSynchNormalMode(b)
  BY DEF SeeAt
<1> HIDE DEF s
<1>4. b \in Drafts
  BY <1>2 DEF Drafts
<1> HIDE DEF b
<1> QED
  BY <1>3, <1>4, AdjustType

LEMMA AnalyzeType ==
  ASSUME NEW a \in Drafts, NEW m \in Sees \cup Senses
  PROVE  Analyze(a, m) \in Drafts
<1>1. CASE m.type = "see"
  <2>1. m.cycle \in Nat
    BY <1>1 DEF Sees, Senses
  <2> QED
    BY <1>1, <2>1, AnalyzeAt, CurrentTimeType, SeeType DEF Analyze
<1>2. CASE m.type # "see"
  <2>1. m.cycle \in Nat /\ m.view \in Views
    BY <1>2 DEF Sees, Senses
  <2> QED
    BY <1>2, <2>1, AnalyzeAt, CurrentTimeType, SenseType DEF Analyze
<1> QED
  BY <1>1, <1>2

LEMMA BeforeActionsType ==
  ASSUME NEW a \in Drafts
  PROVE  BeforeActions(a) \in Drafts
<1> DEFINE b == IF MissedSee(a, a.see) THEN [a EXCEPT !.see = SetLastSeeTiming(@, "TIME_NOSYNCH")] ELSE a
<1>1. b \in Drafts
  BY TimingFieldType DEF Timings
<1>2. BeforeActions(a) = IF conf.synch THEN AdjustSeeSynchSynchMode(b) ELSE b
  BY DEF BeforeActions
<1> HIDE DEF b
<1> QED
  BY <1>1, <1>2, AdjustType

LEMMA ExecuteViewType ==
  ASSUME NEW a \in Drafts, NEW w
  PROVE  ExecuteView(a, w) \in Drafts
<1>1. CASE MayChangeView(a, w)
  <2>1. View(w, "HIGH") \in Views
    BY <1>1, ViewType DEF MayChangeView, Qualities
  <2> QED
    BY <1>1, <2>1, SendChangeViewType DEF ExecuteView
<1> QED
  BY <1>1 DEF ExecuteView

LEMMA DecidedType ==
  ASSUME NEW a \in Drafts, NEW b \in Decided(a)
  PROVE  b \in Drafts
<1> DEFINE c == BeforeActions(a)
<1>1. PICK w \in ViewWishes(c) : b = [ExecuteView(c, w) EXCEPT !.lastDecision = a.now]
  BY DEF Decided
<1> HIDE DEF c
<1>2. c \in Drafts
  BY BeforeActionsType DEF c
<1>3. ExecuteView(c, w) \in Drafts /\ a.now \in GameTimes
  BY <1>2, ExecuteViewType DEF Drafts
<1> QED
  BY <1>1, <1>3 DEF Drafts

LEMMA NotLone ==
  ASSUME NEW S
  PROVE  \A o \in Seq(S) : Len(o) # 1 /\ o # <<>> => Len(o) - 1 \in 1..Len(o)
<1>1. \A o \in Seq(S) : o # <<>> => Len(o) \in Nat \ {0}
  BY EmptySeq, Zenon
<1>2. \A n \in Nat \ {0} : n # 1 => n - 1 \in 1..n
  OBVIOUS
<1> QED
  BY <1>1, <1>2

\* What the server does with the commands of a step.
LEMMA DeliverType ==
  ASSUME NEW a \in Drafts, Deliver(a), srv.view \in Views,
         conf.maxLost \in Nat, lost \in 0..conf.maxLost
  PROVE  /\ ag' \in Agents
         /\ \E v \in Views : srv' = [srv EXCEPT !.view = v]
         /\ lost' \in 0..conf.maxLost
<1>1. ag' = [a EXCEPT !.out = <<>>]
  BY DEF Deliver
<1>2. ag' \in Agents
  BY <1>1 DEF Agents, Drafts
<1>3. a.out \in Seq(Views)
  BY DEF Drafts
<1>4. a.out # <<>> => a.out[Len(a.out)] \in Views
  BY <1>3
<1>5. Len(a.out) # 1 /\ a.out # <<>> => a.out[Len(a.out) - 1] \in Views
  <2>1. \A o \in Seq(Views) : Len(o) # 1 /\ o # <<>> => Len(o) - 1 \in 1..Len(o)
    BY NotLone
  <2>2. \A o \in Seq(Views) : \A i \in 1..Len(o) : o[i] \in Views
    OBVIOUS
  <2> QED
    BY <1>3, <2>1, <2>2
<1>6. \E v \in Views : srv' = [srv EXCEPT !.view = v]
  <2>1. PICK v : v \in Views /\ srv' = [srv EXCEPT !.view = v]
    <3>1. CASE srv' = [srv EXCEPT !.view = IF a.out = <<>> THEN @ ELSE a.out[Len(a.out)]]
      <4> DEFINE v == IF a.out = <<>> THEN srv.view ELSE a.out[Len(a.out)]
      <4>1. v \in Views /\ srv' = [srv EXCEPT !.view = v]
        BY <1>4, <3>1
      <4> QED
        BY <4>1
    <3>2. CASE a.out # <<>> /\
               srv' = [srv EXCEPT !.view = IF Len(a.out) = 1 THEN @ ELSE a.out[Len(a.out) - 1]]
      <4> DEFINE v == IF Len(a.out) = 1 THEN srv.view ELSE a.out[Len(a.out) - 1]
      <4>1. v \in Views /\ srv' = [srv EXCEPT !.view = v]
        BY <1>5, <3>2
      <4> QED
        BY <4>1
    <3> QED
      BY <3>1, <3>2 DEF Deliver
  <2> QED
    BY <2>1
<1>7. lost' \in 0..conf.maxLost
  BY DEF Deliver
<1> QED
  BY <1>2, <1>6, <1>7

-----------------------------------------------------------------------------
(* Type correctness.                                                       *)

LEMMA TwoLong == ASSUME NEW S, NEW s \in Seq(S), Len(s) = 2 PROVE s = <<s[1], s[2]>>
OBVIOUS

LEMMA OneLong == ASSUME NEW S, NEW s \in Seq(S), Len(s) = 1 PROVE s = <<s[1]>>
OBVIOUS

LEMMA Joined ==
  ASSUME NEW p, NEW q
  PROVE  <<p>> \o <<q>> = <<p, q>>
<1> DEFINE S == {p, q}
<1>1. \A s, t \in Seq(S) :
        Len(s) = 1 /\ Len(t) = 1 => s \o t = <<s[1], t[1]>>
  <2> SUFFICES ASSUME NEW s \in Seq(S), NEW t \in Seq(S), Len(s) = 1, Len(t) = 1
               PROVE  s \o t = <<s[1], t[1]>>
    OBVIOUS
  <2>1. s \o t \in Seq(S) /\ Len(s \o t) = Len(s) + Len(t)
    BY ConcatProperties, Zenon
  <2>2. \A i \in 1..Len(s) + Len(t) : (s \o t)[i] = IF i <= Len(s) THEN s[i] ELSE t[i - Len(s)]
    BY ConcatProperties, Zenon
  <2>6. Len(s) + Len(t) = 2 /\ 1 \in 1..2 /\ 2 \in 1..2
    OBVIOUS
  <2>7. \A i \in 1..2 : (s \o t)[i] = IF i <= Len(s) THEN s[i] ELSE t[i - Len(s)]
    BY <2>2, <2>6, Zenon
  <2>3. (s \o t)[1] = IF 1 <= Len(s) THEN s[1] ELSE t[1 - Len(s)]
    BY <2>6, <2>7, Zenon
  <2>4. (s \o t)[2] = IF 2 <= Len(s) THEN s[2] ELSE t[2 - Len(s)]
    BY <2>6, <2>7, Zenon
  <2>5. Len(s \o t) = 2 /\ (s \o t)[1] = s[1] /\ (s \o t)[2] = t[1]
    BY <2>1, <2>3, <2>4
  <2> QED
    BY <2>1, <2>5, TwoLong
<1>2. <<p>> \in Seq(S) /\ <<q>> \in Seq(S) /\ Len(<<p>>) = 1 /\ Len(<<q>>) = 1
      /\ <<p>>[1] = p /\ <<q>>[1] = q
  OBVIOUS
<1> QED
  BY <1>1, <1>2, Zenon

LEMMA Second ==
  ASSUME NEW p, NEW q
  PROVE  SubSeq(<<p, q>>, 2, 2) = <<q>> /\ SubSeq(<<p, q>>, 3, 2) = <<>>
<1> DEFINE s == <<p, q>>
           S == {p, q}
<1>1. s \in Seq(S) /\ Len(s) = 2 /\ s[2] = q
  OBVIOUS
<1> HIDE DEF s
<1>2. SubSeq(s, 2, 2) \in Seq(S) /\ Len(SubSeq(s, 2, 2)) = 1 /\ SubSeq(s, 2, 2)[1] = q
  BY <1>1
<1>3. SubSeq(s, 2, 2) = <<q>>
  BY <1>2, OneLong
<1>4. SubSeq(s, 3, 2) = <<>>
  BY <1>1
<1> QED
  BY <1>3, <1>4, Zenon DEF s

Waiting == {<<>>} \cup [{1} -> Sees \cup Senses] \cup [1..2 -> Sees \cup Senses]

LEMMA OneWaits == ASSUME NEW m \in Sees \cup Senses PROVE <<m>> \in Waiting
<1>1. <<m>> \in [{1} -> Sees \cup Senses]
  OBVIOUS
<1> QED
  BY <1>1 DEF Waiting

LEMMA TwoWait == ASSUME NEW m \in Sees \cup Senses, NEW n \in Sees \cup Senses
                 PROVE <<m, n>> \in Waiting
<1>1. <<m, n>> \in [1..2 -> Sees \cup Senses]
  OBVIOUS
<1> QED
  BY <1>1 DEF Waiting

LEMMA WhatWaits ==
  ASSUME net \in Waiting, net # <<>>
  PROVE  \/ \E m \in Sees \cup Senses : net = <<m>>
         \/ \E m, n \in Sees \cup Senses : net = <<m, n>>
<1>1. CASE net \in [{1} -> Sees \cup Senses]
  <2>1. net[1] \in Sees \cup Senses /\ net = <<net[1]>>
    BY <1>1
  <2> QED
    BY <2>1
<1>2. CASE net \in [1..2 -> Sees \cup Senses]
  <2>1. net[1] \in Sees \cup Senses /\ net[2] \in Sees \cup Senses /\ net = <<net[1], net[2]>>
    BY <1>2
  <2> QED
    BY <2>1
<1> QED
  BY <1>1, <1>2 DEF Waiting

LEMMA TypeInit == Init => TypeOK
<1> SUFFICES ASSUME Init PROVE TypeOK
  OBVIOUS
<1>1. conf \in Circumstances /\ conf.maxLost \in Nat /\ conf \in Confs
  BY SeeSyncAssumption DEF Init, Circumstances
<1>2. ag \in Agents
  <2>1. NewSeeState \in SeeStates
    <3>1. <<0, 0, 0>> \in [1..3 -> Nat]
      BY Triple
    <3> QED
      BY <3>1 DEF NewSeeState, SeeStates, GameTimes, NoTime, Time, SynchTypes, Timings,
           InitialTill, Widths, Qualities
  <2>4. CycleOf(clock) \in Nat
    BY SeeSyncAssumption DEF Init, CycleOf, UnitsPerCycle
  <2>2. /\ Time(0, IF conf.stopped THEN CycleOf(clock) ELSE 0) \in GameTimes
        /\ NoTime \in GameTimes /\ -1 \in -1..MaxAge
    BY <2>4 DEF Time, NoTime, GameTimes, MaxAge, UnitsPerCycle
  <2>3. ag = NewAgent
    BY DEF Init
  <2> QED
    BY <2>1, <2>2, <2>3, FirstViews DEF NewAgent, Agents
<1>3. srv \in [view : Views, looks : 0..7, lastSee : 0..(UnitsPerCycle - 1)]
  BY FirstViews DEF Init, NewServer, UnitsPerCycle
<1>7. lost = 0 /\ thought = FALSE /\ playOn = FALSE
  BY DEF Init
<1>4. lost \in 0..conf.maxLost /\ thought \in BOOLEAN /\ playOn \in BOOLEAN
  <2>1. 0 \in 0..conf.maxLost
    BY <1>1
  <2> QED
    BY <1>7, <2>1, Zenon
<1>6. net \in Waiting
  BY DEF Init, Waiting
<1>5. clock \in 0..(UnitsPerCycle * Cycles - 1)
  BY DEF Init
<1> QED
  BY <1>1, <1>2, <1>3, <1>4, <1>5, <1>6, Zenon DEF TypeOK, Waiting, Sees, Senses

LEMMA ClockType ==
  ASSUME NEW c \in 0..(UnitsPerCycle * Cycles - 1)
  PROVE  /\ (c + 1) % (UnitsPerCycle * Cycles) \in 0..(UnitsPerCycle * Cycles - 1)
         /\ OffsetOf(c) \in 0..(UnitsPerCycle - 1)
         /\ TimeOf(c) \in GameTimes /\ SentCycle(c) \in Nat
BY SeeSyncAssumption DEF UnitsPerCycle, OffsetOf, CycleOf, SentCycle, TimeOf, Time, GameTimes

LEMMA LooksAreFew ==
  ASSUME NEW v \in Views
  PROVE  LooksPerSee(v) \in {1, 2, 4, 8}
BY DEF LooksPerSee, Views, Widths, Qualities

LEMMA AgedType ==
  ASSUME NEW a \in Agents
  PROVE  Aged(a) \in Agents
<1> DEFINE g == IF a.bodyAge = -1 \/ a.bodyAge = MaxAge THEN a.bodyAge ELSE a.bodyAge + 1
<1>1. a.bodyAge \in -1..MaxAge
  BY DEF Agents
<1>2. g \in -1..MaxAge
  BY <1>1 DEF MaxAge, UnitsPerCycle
<1>3. Aged(a) = [a EXCEPT !.bodyAge = g]
  BY DEF Aged
<1> HIDE DEF g
<1> QED
  BY <1>2, <1>3 DEF Agents

LEMMA TickType == ASSUME TypeOK, Tick PROVE TypeOK'
<1> USE DEF TypeOK
<1> DEFINE u == (clock + 1) % (UnitsPerCycle * Cycles)
           look == u % UnitsPerLook = 0
           due == look /\ srv.looks + 1 >= LooksPerSee(srv.view)
           sense == IF OffsetOf(u) = 0 THEN <<SenseMsg(u, srv.view)>> ELSE <<>>
           see == IF due THEN <<SeeMsg(u)>> ELSE <<>>
<1>1. /\ clock' = u /\ thought' = FALSE /\ ag' = Aged(ag)
      /\ UNCHANGED <<conf, lost, playOn>>
      /\ srv' = [srv EXCEPT !.looks = IF due THEN 0 ELSE IF look THEN @ + 1 ELSE @,
                            !.lastSee = IF due THEN OffsetOf(u) ELSE @]
      /\ net' = sense \o see \/ net' = see \o sense
  BY DEF Tick
<1>2. /\ u \in 0..(UnitsPerCycle * Cycles - 1) /\ OffsetOf(u) \in 0..(UnitsPerCycle - 1)
      /\ SentCycle(u) \in Nat
  BY ClockType
<1>3. ag' \in Agents
  BY <1>1, AgedType
<1>4. srv.view \in Views /\ srv.looks \in 0..7 /\ srv.lastSee \in 0..(UnitsPerCycle - 1)
  OBVIOUS
<1>5. srv' \in [view : Views, looks : 0..7, lastSee : 0..(UnitsPerCycle - 1)]
  <2> DEFINE l == IF due THEN 0 ELSE IF look THEN srv.looks + 1 ELSE srv.looks
             o == IF due THEN OffsetOf(u) ELSE srv.lastSee
  <2>1. l \in 0..7
    BY <1>4, LooksAreFew
  <2>2. o \in 0..(UnitsPerCycle - 1)
    BY <1>2, <1>4
  <2>3. srv' = [srv EXCEPT !.looks = l, !.lastSee = o]
    BY <1>1
  <2> HIDE DEF l, o
  <2> QED
    BY <1>4, <2>1, <2>2, <2>3
<1>6. net' \in Waiting
  <2>1. SeeMsg(u) \in Sees \cup Senses /\ SenseMsg(u, srv.view) \in Sees \cup Senses
    BY <1>2, <1>4 DEF SeeMsg, SenseMsg, Sees, Senses
  <2> DEFINE p == SeeMsg(u)
             q == SenseMsg(u, srv.view)
  <2> HIDE DEF p, q
  <2>2. sense \in {<<>>, <<q>>} /\ see \in {<<>>, <<p>>}
    BY DEF p, q
  <2>3. <<>> \o <<>> = <<>> /\ <<>> \o <<p>> = <<p>> /\ <<q>> \o <<>> = <<q>>
        /\ <<p>> \o <<>> = <<p>> /\ <<>> \o <<q>> = <<q>>
    OBVIOUS
  <2>6. <<q>> \o <<p>> = <<q, p>> /\ <<p>> \o <<q>> = <<p, q>>
    BY Joined
  <2> HIDE DEF sense, see
  <2>4. net' \in {<<>>, <<p>>, <<q>>, <<q, p>>, <<p, q>>}
    BY <1>1, <2>2, <2>3, <2>6
  <2>5. <<p>> \in Waiting /\ <<q>> \in Waiting /\ <<q, p>> \in Waiting /\ <<p, q>> \in Waiting
    BY <2>1, OneWaits, TwoWait DEF p, q
  <2> QED
    BY <2>4, <2>5 DEF Waiting
<1> HIDE DEF u, look, due, sense, see
<1> QED
  BY <1>1, <1>2, <1>3, <1>5, <1>6 DEF Waiting, Sees, Senses

\* Handling and deciding keep the agent a draft, and its commands go to the server.
LEMMA DeliverKeeps ==
  ASSUME TypeOK, NEW a \in Drafts, Deliver(a), net' \in Waiting,
         UNCHANGED <<conf, clock, playOn>>, thought' \in BOOLEAN
  PROVE  TypeOK'
<1> USE DEF TypeOK
<1>1. conf.maxLost \in Nat
  BY SeeSyncAssumption DEF Circumstances
<1>2. ag' \in Agents /\ lost' \in 0..conf.maxLost
  BY <1>1, DeliverType
<1>3. PICK v \in Views : srv' = [srv EXCEPT !.view = v]
  BY <1>1, DeliverType
<1>4. srv' \in [view : Views, looks : 0..7, lastSee : 0..(UnitsPerCycle - 1)]
  BY <1>3
<1> QED
  BY <1>2, <1>4 DEF Waiting, Sees, Senses

LEMMA TypeNext == ASSUME TypeOK, [Next]_vars PROVE TypeOK'
<1> USE DEF TypeOK
<1>0. net \in Waiting
  BY DEF Waiting, Sees, Senses
<1>1. CASE Tick
  BY <1>1, TickType
<1>2. CASE Lose
  <2>1. Tail(net) \in Waiting
    <3>1. CASE \E m \in Sees \cup Senses : net = <<m>>
      BY <3>1 DEF Waiting
    <3>2. ASSUME NEW m \in Sees \cup Senses, NEW n \in Sees \cup Senses, net = <<m, n>>
          PROVE  Tail(net) \in Waiting
      <4>1. Tail(net) = <<n>>
        BY <3>2
      <4> QED
        BY <4>1, OneWaits
    <3> QED
      BY <1>0, <1>2, <3>1, <3>2, WhatWaits DEF Lose
  <2>2. conf.maxLost \in Nat
    BY SeeSyncAssumption DEF Circumstances
  <2>3. lost' \in 0..conf.maxLost
    BY <1>2, <2>2 DEF Lose
  <2> QED
    BY <1>2, <2>1, <2>3 DEF Lose, Waiting, Sees, Senses
<1>3. CASE Referee
  BY <1>3 DEF Referee
<1>4. CASE HandleMessage
  <2>1. PICK n \in 1..Len(net) : \E a \in Drained(n) :
          /\ \E b \in IF DecidesOnMessage(a) THEN Decided(a) ELSE {a} : Deliver(b)
          /\ net' = SubSeq(net, n + 1, Len(net))
    BY <1>4 DEF HandleMessage
  <2>6. PICK a \in Drained(n) :
          /\ \E b \in IF DecidesOnMessage(a) THEN Decided(a) ELSE {a} : Deliver(b)
          /\ net' = SubSeq(net, n + 1, Len(net))
    BY <2>1
  <2>7. a = IF n = 1 THEN Analyze(ag, net[1]) ELSE Analyze(Analyze(ag, net[1]), net[2])
    BY <2>6 DEF Drained
  <2>2. PICK b \in IF DecidesOnMessage(a) THEN Decided(a) ELSE {a} : Deliver(b)
    BY <2>6
  <2>3. ag \in Drafts
    BY AgentsAreDrafts
  <2>4. a \in Drafts /\ net' \in Waiting
    <3>1. ASSUME NEW m \in Sees \cup Senses, net = <<m>>
          PROVE  a \in Drafts /\ net' \in Waiting
      <4>1. n = 1 /\ net[1] = m /\ net' = <<>>
        BY <2>6, <3>1
      <4>2. a = Analyze(ag, m)
        BY <2>7, <4>1
      <4> QED
        BY <2>3, <4>1, <4>2, AnalyzeType DEF Waiting
    <3>2. ASSUME NEW m \in Sees \cup Senses, NEW k \in Sees \cup Senses, net = <<m, k>>
          PROVE  a \in Drafts /\ net' \in Waiting
      <4>1. net[1] = m /\ net[2] = k /\ n \in {1, 2} /\ Len(net) = 2
        BY <2>1, <3>2
      <4>2. Analyze(ag, m) \in Drafts
        BY <2>3, AnalyzeType
      <4>3. CASE n = 1
        <5>1. net' = SubSeq(<<m, k>>, 2, 2)
          BY <2>6, <3>2, <4>1, <4>3
        <5>2. net' = <<k>>
          BY <5>1, Second, Zenon
        <5> QED
          BY <2>7, <4>1, <4>2, <4>3, <5>2, OneWaits
      <4>4. CASE n = 2
        <5>1. net' = SubSeq(<<m, k>>, 3, 2) /\ a = Analyze(Analyze(ag, m), k)
          BY <2>6, <2>7, <3>2, <4>1, <4>4
        <5>2. net' = <<>>
          BY <5>1, Second, Zenon
        <5> QED
          BY <4>2, <5>1, <5>2, AnalyzeType DEF Waiting
      <4> QED
        BY <4>1, <4>3, <4>4
    <3> QED
      BY <1>0, <1>4, <3>1, <3>2, WhatWaits DEF HandleMessage
  <2>5. b \in Drafts
    BY <2>2, <2>4, DecidedType
  <2> QED
    BY <1>4, <2>2, <2>4, <2>5, DeliverKeeps DEF HandleMessage
<1>5. CASE HandleTimeout \/ Think
  <2>1. PICK b \in Decided(ag) : Deliver(b)
    BY <1>5 DEF HandleTimeout, Think
  <2>2. b \in Drafts
    BY AgentsAreDrafts, DecidedType
  <2>3. net' \in Waiting /\ UNCHANGED <<conf, clock, playOn>> /\ thought' \in BOOLEAN
    BY <1>0, <1>5 DEF HandleTimeout, Think
  <2> QED
    BY <2>1, <2>2, <2>3, DeliverKeeps
<1>6. CASE UNCHANGED vars
  BY <1>6 DEF vars
<1> QED
  BY <1>1, <1>2, <1>3, <1>4, <1>5, <1>6 DEF Next

\* The agent's SeeState, the server and the network keep their types: counts stay
\* natural numbers, the estimate stays within 0..100, commands are sent at once.
THEOREM TypeCorrect == Spec => []TypeOK
<1> QED
  BY TypeInit, TypeNext, PTL DEF Spec
-----------------------------------------------------------------------------
(* The phase of the see clock.  The server's two clocks together repeat     *)
(* after three cycles, a round of 24 units with eight looks; the place of a *)
(* clock is its unit in the round.                                          *)

Round == 24
Place(c) == c % Round
Successor(c) == (c + 1) % (UnitsPerCycle * Cycles)
Stamp(n) == IF conf.stopped THEN Time(0, n) ELSE Time(n, 0)

\* The looks in the cycle of place p up to p, and those of the k-th cycle before: each
\* third cycle has two.
Looked(p) == p \div 3 + 1 - 3 * (p \div 8)
LooksBefore(p, k) == IF (p \div 8 + 3 - k) % 3 = 2 THEN 2 ELSE 3

\* The cycle of the last see, l looks ago.  The bound Cycles is over three, so that no
\* see of the last eight looks has the time stamp of a new cycle.
CyclesAgo(p, l) == p \div 8 - (p - (p % 3) - 3 * l) \div 8
Seen(c, l) ==
  LET k == CyclesAgo(Place(c), l)
  IN Stamp(IF CycleOf(c) >= k THEN CycleOf(c) - k ELSE CycleOf(c) + Cycles - k)

\* Where in the round a see of each timing falls, and the looks since then.
Start == [TIME_0_00 |-> 0, TIME_50_0 |-> 12, TIME_22_5 |-> 18]
Since(timing, p) == (IF p >= Start[timing] THEN p - Start[timing] ELSE p + Round - Start[timing]) \div 3

Trial == View("NARROW", "LOW")

\* Only synch_see_mode, which a player with SeeState of its own never enters, and the type
\* SYNCH_SYNC, which nothing assigns, make IsSynch true beside the timing.
Plain(s) ==
  ~s.synchSee /\ s.synchType # "SYNCH_SYNC" /\ s.timing \in SynchTimings \cup {"TIME_NOSYNCH"}

\* Before the first message.
Fresh(s) ==
  /\ s.now = NoTime /\ s.lastSee = NoTime /\ s.timing = "TIME_NOSYNCH"
  /\ s.count = 0 /\ s.history[1] = 0 /\ s.history[2] = 0 /\ s.history[3] = 0

\* No more sees are counted than there were looks.
Counted(s, p, n) ==
  /\ s.count <= n
  /\ s.history[1] <= LooksBefore(p, 1)
  /\ s.history[2] <= LooksBefore(p, 2)
  /\ s.history[3] <= LooksBefore(p, 3)

\* Without synchronization: a count that all looks gave rise to is proof of where the
\* last see fell, and one of two or three of a view that takes one look.
Hunting(s, v, l, o, p) ==
  /\ s.count = Looked(p) /\ s.count >= 1 => l = 0 /\ o = (p - (p % 3)) % 8
  /\ s.count = Looked(p) /\ s.count >= 2 => v = Trial
  /\ s.history[1] = 3 => v = Trial /\ s.count = Looked(p) /\ l = 0
  /\ ~conf.synch => ~(s.history[1] = 2 /\ s.history[2] = 3)

\* Synchronized: the timing is where the last see fell, the next one is due before the
\* pattern of counts can mislead, and the view of a see is the server's.
Tracked(s, av, v, l, o, p) ==
  /\ o = TimingOffset[s.timing] /\ l = Since(s.timing, p)
  /\ v.quality = "HIGH" /\ l < LooksPerSee(v)
  /\ s.timing = "TIME_22_5" => v.width # "NORMAL"
  /\ s.timing # "TIME_0_00" \/ p >= 8 => av = v
  /\ s.lastSee # NoTime
  /\ s.count <= 1 \/ (conf.synch /\ s.count = 2 /\ s.timing = "TIME_50_0" /\ p \in 12..15)
  /\ s.history[1] = 3 => conf.synch /\ s.timing = "TIME_50_0" /\ p \in 12..15
  /\ ~conf.synch /\ s.history[1] = 2 =>
       s.timing = "TIME_0_00" /\ p \in 0..7 /\ v.width # "NARROW"

\* The times and counts of an agent that has handled what arrived until clock c, with
\* the last see l looks ago.
Stamped(a, l, c) ==
  LET s == a.see
  IN /\ Plain(s) /\ a.seeTime = s.lastSee
     /\ Fresh(s) \/ (s.now = TimeOf(c) /\ a.now = TimeOf(c))
     /\ conf.stopped => a.now = TimeOf(c)
     /\ s.lastSee = NoTime \/ s.lastSee = Seen(c, l)
     /\ s.count >= 1 => s.lastSee = TimeOf(c)
     /\ Counted(s, Place(c), Looked(Place(c)))

\* Such an agent with what it knows of the server: v is the view the server will have,
\* o the unit of the last see.
Follows(a, v, l, o, c) ==
  /\ Stamped(a, l, c)
  /\ a.see.timing = "TIME_NOSYNCH" => Hunting(a.see, v, l, o, Place(c))
  /\ a.see.timing \in SynchTimings => Tracked(a.see, a.view, v, l, o, Place(c))

\* The sees that a synchronized agent can meet: the timing of the last one, the width
\* and the place at which the next one comes.
Arrivals ==
  {<<"TIME_0_00", "NORMAL", 12>>, <<"TIME_0_00", "WIDE", 0>>, <<"TIME_0_00", "NARROW", 6>>,
   <<"TIME_50_0", "NARROW", 18>>, <<"TIME_50_0", "NORMAL", 0>>, <<"TIME_50_0", "WIDE", 12>>,
   <<"TIME_22_5", "NARROW", 0>>, <<"TIME_22_5", "WIDE", 18>>}

\* What holds of SeeState, once it has the time of clock c, just before a see of c.
Expects(s, av, v, c) ==
  LET p == Place(c)
  IN /\ Plain(s)
     /\ p % 3 = 0
     /\ s.now = TimeOf(c)
     /\ s.count >= 1 => s.lastSee = TimeOf(c)
     /\ Counted(s, p, Looked(p) - 1)
     /\ s.timing = "TIME_NOSYNCH" =>
          /\ s.count = Looked(p) - 1 /\ s.count >= 1 => v = Trial
          /\ s.history[1] = 3 => v = Trial /\ s.count = Looked(p) - 1
          /\ ~conf.synch /\ s.history[1] = 2 /\ s.history[2] = 3 => p = 0
     /\ s.timing \in SynchTimings =>
          /\ <<s.timing, v.width, p>> \in Arrivals /\ v.quality = "HIGH"
          /\ p # 6 => av = v /\ s.count = 0 /\ s.lastSee # TimeOf(c)
          /\ p = 6 => s.lastSee = TimeOf(c) /\ s.count <= 1
          /\ s.history[1] # 3
          /\ ~conf.synch => s.history[1] # 2

\* The messages of a unit wait, and the server has looked.
Unhandled ==
  \E c \in 0..(UnitsPerCycle * Cycles - 1), l \in 0..7, o \in 0..7 :
    LET look == clock % UnitsPerLook = 0
        due == look /\ l + 1 >= LooksPerSee(srv.view)
        sense == SenseMsg(clock, srv.view)
        see == SeeMsg(clock)
    IN /\ Follows(ag, srv.view, l, o, c)
       /\ clock = Successor(c)
       /\ srv.looks = IF due THEN 0 ELSE IF look THEN l + 1 ELSE l
       /\ srv.lastSee = IF due THEN OffsetOf(clock) ELSE o
       /\ \/ OffsetOf(clock) = 0 /\ ~due /\ net = <<sense>>
          \/ OffsetOf(clock) # 0 /\ due /\ net = <<see>>
          \/ OffsetOf(clock) = 0 /\ due /\ net = <<sense, see>>
          \/ OffsetOf(clock) = 0 /\ due /\ ~conf.stopped /\ net = <<see, sense>>

\* Of two messages at the start of a round one is handled.
SeeWaits ==
  /\ net = <<SeeMsg(clock)>> /\ Place(clock) = 0 /\ srv.looks = 0 /\ srv.lastSee = 0
  /\ ag.seeTime = ag.see.lastSee /\ ag.see.lastSee # TimeOf(clock)
  /\ conf.stopped => ag.now = TimeOf(clock)
  /\ Expects(ag.see, ag.view, srv.view, clock)

SenseWaits ==
  /\ ~conf.stopped
  /\ \E v \in Views : net = <<SenseMsg(clock, v)>>
  /\ Place(clock) = 0
  /\ ag.see.timing \in {"TIME_0_00", "TIME_NOSYNCH"}
  /\ Follows(ag, srv.view, srv.looks, srv.lastSee, clock)

\* The inductive invariant behind TimingTracksServer.
InPhase ==
  Calm =>
    /\ ~playOn /\ lost = 0
    /\ \/ net = <<>> /\ Follows(ag, srv.view, srv.looks, srv.lastSee, clock)
       \/ Unhandled \/ SeeWaits \/ SenseWaits

-----------------------------------------------------------------------------
(* Arithmetic of the two clocks.                                           *)

LEMMA ClockSteps ==
  ASSUME NEW c \in 0..(UnitsPerCycle * Cycles - 1)
  PROVE  /\ Successor(c) \in 0..(UnitsPerCycle * Cycles - 1)
         /\ Place(c) \in 0..23
         /\ Place(Successor(c)) = IF Place(c) = 23 THEN 0 ELSE Place(c) + 1
         /\ OffsetOf(c) = Place(c) % 8
         /\ c % UnitsPerLook = Place(c) % 3
         /\ CycleOf(c) \in 0..(Cycles - 1)
<1>1. c % 24 \in 0..23 /\ c % 8 = (c % 24) % 8 /\ c % 3 = (c % 24) % 3 /\ c \div 8 \in 0..(Cycles - 1)
  BY SeeSyncAssumption DEF UnitsPerCycle
<1>2. CASE c + 1 = 8 * Cycles
  <2>1. (c + 1) % (8 * Cycles) = 0 /\ c % 24 = 23
    BY <1>2, SeeSyncAssumption
  <2> QED
    BY <1>1, <2>1, SeeSyncAssumption
    DEF Successor, Place, Round, OffsetOf, CycleOf, UnitsPerCycle, UnitsPerLook
<1>3. CASE c + 1 # 8 * Cycles
  <2>1. (c + 1) % (8 * Cycles) = c + 1
    BY <1>3, SeeSyncAssumption DEF UnitsPerCycle
  <2>2. (c + 1) % 24 = IF c % 24 = 23 THEN 0 ELSE (c % 24) + 1
    OBVIOUS
  <2>3. c + 1 \in 0..(8 * Cycles - 1)
    BY <1>3, SeeSyncAssumption DEF UnitsPerCycle
  <2> QED
    BY <1>1, <2>1, <2>2, <2>3 DEF Successor, Place, Round, OffsetOf, CycleOf, UnitsPerCycle, UnitsPerLook
<1> QED
  BY <1>2, <1>3

LEMMA CycleSteps ==
  ASSUME NEW c \in 0..(UnitsPerCycle * Cycles - 1)
  PROVE  /\ Place(Successor(c)) % 8 # 0 => CycleOf(Successor(c)) = CycleOf(c)
         /\ Place(Successor(c)) % 8 = 0 =>
              CycleOf(Successor(c)) = IF CycleOf(c) = Cycles - 1 THEN 0 ELSE CycleOf(c) + 1
<1>1. Place(Successor(c)) % 8 = Successor(c) % 8
  BY ClockSteps DEF OffsetOf, UnitsPerCycle
<1>2. CASE c + 1 = 8 * Cycles
  <2>1. Successor(c) = 0
    BY <1>2, SeeSyncAssumption DEF Successor, UnitsPerCycle
  <2>2. c \div 8 = Cycles - 1
    BY <1>2, SeeSyncAssumption
  <2> QED
    BY <1>1, <2>1, <2>2 DEF CycleOf, UnitsPerCycle
<1>3. CASE c + 1 # 8 * Cycles
  <2>1. Successor(c) = c + 1
    BY <1>3, SeeSyncAssumption DEF Successor, UnitsPerCycle
  <2>2. (c + 1) % 8 # 0 => (c + 1) \div 8 = c \div 8
    OBVIOUS
  <2>3. (c + 1) % 8 = 0 => (c + 1) \div 8 = (c \div 8) + 1
    OBVIOUS
  <2>4. c + 1 < 8 * Cycles
    BY <1>3, SeeSyncAssumption DEF UnitsPerCycle
  <2>5. (c + 1) % 8 = 0 => c \div 8 # Cycles - 1
    BY <2>4, SeeSyncAssumption
  <2> QED
    BY <1>1, <2>1, <2>2, <2>3, <2>5 DEF CycleOf, UnitsPerCycle
<1> QED
  BY <1>2, <1>3

LEMMA Tables ==
  /\ \A v \in Views : v.quality = "HIGH" =>
       LooksPerSee(v) = IF v.width = "NARROW" THEN 2 ELSE IF v.width = "NORMAL" THEN 4 ELSE 8
  /\ \A v \in Views : LooksPerSee(v) = 1 <=> v = Trial
  /\ Start["TIME_0_00"] = 0 /\ Start["TIME_50_0"] = 12 /\ Start["TIME_22_5"] = 18
  /\ TimingOffset["TIME_0_00"] = 0 /\ TimingOffset["TIME_50_0"] = 4 /\ TimingOffset["TIME_22_5"] = 2
<1>1. \A v \in Views : v.quality = "HIGH" =>
        LooksPerSee(v) = IF v.width = "NARROW" THEN 2 ELSE IF v.width = "NORMAL" THEN 4 ELSE 8
  BY DEF LooksPerSee, Views, Widths, Qualities
<1>2. \A v \in Views : LooksPerSee(v) = 1 <=> v = Trial
  <2> SUFFICES ASSUME NEW v \in Views PROVE LooksPerSee(v) = 1 <=> v = Trial
    OBVIOUS
  <2>1. v.width \in Widths /\ v.quality \in Qualities /\ v = [width |-> v.width, quality |-> v.quality]
    BY DEF Views
  <2>2. LooksPerSee(v) = 1 <=> v.width = "NARROW" /\ v.quality = "LOW"
    BY <2>1 DEF LooksPerSee, Widths, Qualities
  <2>3. v = Trial <=> v.width = "NARROW" /\ v.quality = "LOW"
    BY <2>1 DEF Trial, View
  <2> QED
    BY <2>2, <2>3
<1>3. Start["TIME_0_00"] = 0 /\ Start["TIME_50_0"] = 12 /\ Start["TIME_22_5"] = 18
  BY DEF Start
<1>4. TimingOffset["TIME_0_00"] = 0 /\ TimingOffset["TIME_50_0"] = 4 /\ TimingOffset["TIME_22_5"] = 2
  BY DEF TimingOffset
<1> QED
  BY <1>1, <1>2, <1>3, <1>4

LEMMA CyclesAgoSmall ==
  ASSUME NEW p \in 0..23, NEW l \in 0..7
  PROVE  CyclesAgo(p, l) \in 0..3 /\ (p % 3 = 0 => CyclesAgo(p, 0) = 0)
<1> DEFINE m == p - (p % 3)
           e == m - 3 * l
<1>1. m \in Int /\ p - 2 <= m /\ m <= p
  OBVIOUS
<1>2. e \in Int /\ p - 23 <= e /\ e <= p
  BY <1>1
<1> HIDE DEF e
<1>3. p \div 8 - e \div 8 \in 0..3
  BY <1>2
<1>4. p % 3 = 0 => (p - (p % 3)) \div 8 = p \div 8
  OBVIOUS
<1>5. CyclesAgo(p, l) = p \div 8 - e \div 8 /\ CyclesAgo(p, 0) = p \div 8 - (p - (p % 3)) \div 8
  BY DEF CyclesAgo, e
<1> QED
  BY <1>3, <1>4, <1>5

LEMMA StampIsCycle ==
  ASSUME NEW c \in Int, NEW d \in Int
  PROVE  /\ Stamp(c) = Stamp(d) <=> c = d
         /\ c >= 0 => Stamp(c) # NoTime /\ Stamp(c) \in GameTimes
<1>1. CASE conf.stopped
  BY <1>1 DEF Stamp, Time, NoTime, GameTimes
<1>2. CASE ~conf.stopped
  BY <1>2 DEF Stamp, Time, NoTime, GameTimes
<1> QED
  BY <1>1, <1>2

LEMMA TimeIsStamp == ASSUME NEW c PROVE TimeOf(c) = Stamp(CycleOf(c))
BY DEF TimeOf, Stamp

LEMMA TimeSeen ==
  ASSUME NEW c \in 0..(UnitsPerCycle * Cycles - 1), NEW l \in 0..7
  PROVE  /\ TimeOf(c) \in GameTimes /\ TimeOf(c) # NoTime
         /\ Seen(c, l) # NoTime /\ Seen(c, l) \in GameTimes
         /\ Place(c) % 3 = 0 => Seen(c, 0) = TimeOf(c)
         /\ Seen(c, l) = TimeOf(c) <=> CyclesAgo(Place(c), l) = 0
<1> DEFINE k == CyclesAgo(Place(c), l)
           n == CycleOf(c)
           m == IF n >= k THEN n - k ELSE n + Cycles - k
<1>1. n \in 0..(Cycles - 1) /\ k \in 0..3
  BY ClockSteps, CyclesAgoSmall
<1>2. Cycles \in Nat /\ Cycles > 3
  BY SeeSyncAssumption
<1>3. Place(c) % 3 = 0 => CyclesAgo(Place(c), 0) = 0
  BY ClockSteps, CyclesAgoSmall
<1>4. Seen(c, l) = Stamp(m) /\ TimeOf(c) = Stamp(n)
  BY TimeIsStamp DEF Seen
<1>5. Place(c) % 3 = 0 => Seen(c, 0) = TimeOf(c)
  BY <1>1, <1>3, TimeIsStamp DEF Seen
<1> HIDE DEF k, n
<1>6. m \in Nat /\ (m = n <=> k = 0) /\ n \in Nat
  BY <1>1, <1>2
<1> HIDE DEF m
<1>7. Stamp(m) # NoTime /\ Stamp(n) # NoTime /\ (Stamp(m) = Stamp(n) <=> m = n)
  BY <1>6, StampIsCycle
<1>8. Stamp(m) \in GameTimes /\ Stamp(n) \in GameTimes
  BY <1>6, StampIsCycle
<1> QED
  BY <1>4, <1>5, <1>6, <1>7, <1>8 DEF k

\* The stamp of the last see stays what it is while the server looks on.
LEMMA SeenStays ==
  ASSUME NEW c \in 0..(UnitsPerCycle * Cycles - 1), NEW l \in 0..7, NEW m \in 0..7,
         m = IF Successor(c) % UnitsPerLook = 0 THEN l + 1 ELSE l
  PROVE  Seen(Successor(c), m) = Seen(c, l)
<1> DEFINE p == Place(c)
           q == Place(Successor(c))
           n == CycleOf(c)
           r == CycleOf(Successor(c))
<1>1. p \in 0..23 /\ q = (IF p = 23 THEN 0 ELSE p + 1) /\ n \in 0..(Cycles - 1)
      /\ Successor(c) % UnitsPerLook = q % 3
  BY ClockSteps
<1>2. Cycles \in Nat /\ Cycles > 3
  BY SeeSyncAssumption
<1>3. /\ q % 8 # 0 => r = n
      /\ q % 8 = 0 => r = IF n = Cycles - 1 THEN 0 ELSE n + 1
  BY CycleSteps
<1>4. CyclesAgo(p, l) \in 0..3
  BY <1>1, CyclesAgoSmall
<1> DEFINE j == CyclesAgo(p, l)
           k == CyclesAgo(q, m)
<1>5. k = IF q % 8 = 0 THEN j + 1 ELSE j
  BY <1>1 DEF CyclesAgo
<1>6. k \in 0..3
  <2>1. q \in 0..23
    BY <1>1
  <2> QED
    BY <2>1, CyclesAgoSmall
<1>7. Seen(Successor(c), m) = Stamp(IF r >= k THEN r - k ELSE r + Cycles - k)
      /\ Seen(c, l) = Stamp(IF n >= j THEN n - j ELSE n + Cycles - j)
  BY DEF Seen
<1> HIDE DEF j, k, p, q, n, r
<1>8. (IF r >= k THEN r - k ELSE r + Cycles - k) = (IF n >= j THEN n - j ELSE n + Cycles - j)
  BY <1>1, <1>2, <1>3, <1>4, <1>5, <1>6 DEF j
<1> QED
  BY <1>7, <1>8

LEMMA SeenIsOld ==
  ASSUME NEW c \in 0..(UnitsPerCycle * Cycles - 1), NEW l \in 0..7,
         Place(Successor(c)) % 8 = 0
  PROVE  Seen(c, l) # TimeOf(Successor(c)) /\ TimeOf(c) # TimeOf(Successor(c))
<1> DEFINE p == Place(c)
           n == CycleOf(c)
           r == CycleOf(Successor(c))
           j == CyclesAgo(p, l)
           i == IF n >= j THEN n - j ELSE n + Cycles - j
<1>1. p \in {7, 15, 23} /\ n \in 0..(Cycles - 1)
  BY ClockSteps
<1>2. Cycles \in Nat /\ Cycles > 3
  BY SeeSyncAssumption
<1>3. r = IF n = Cycles - 1 THEN 0 ELSE n + 1
  BY CycleSteps
<1>4. j \in 0..2
  BY <1>1 DEF CyclesAgo
<1>5. Seen(c, l) = Stamp(i) /\ TimeOf(c) = Stamp(n) /\ TimeOf(Successor(c)) = Stamp(r)
  BY TimeIsStamp DEF Seen
<1> HIDE DEF j, n, r, p
<1>6. i # r /\ n # r /\ i \in Nat /\ n \in Nat /\ r \in Nat
  BY <1>1, <1>2, <1>3, <1>4
<1> QED
  BY <1>5, <1>6, StampIsCycle

-----------------------------------------------------------------------------
(* What the operators do to the fields.                                    *)

LEMMA NewCycleFields ==
  ASSUME NEW s \in SeeStates, NEW t \in GameTimes, t # s.now,
         NEW r, r = SetNewCycle(s, t)
  PROVE  /\ r.now = t /\ r.count = 0 /\ r.lastSee = s.lastSee /\ r.timing = s.timing
         /\ r.synchType = s.synchType /\ r.synchSee = s.synchSee
         /\ r.history[1] = s.count /\ r.history[2] = s.history[1] /\ r.history[3] = s.history[2]
<1> DEFINE h == <<s.count, s.history[1], s.history[2]>>
           l == IF s.till = 0 THEN 0 ELSE s.till - 1
<1>1. h[1] = s.count /\ h[2] = s.history[1] /\ h[3] = s.history[2]
  OBVIOUS
<1> HIDE DEF h
<1>2. r = [s EXCEPT !.now = t, !.till = l, !.history = h, !.count = 0]
  BY DEF SetNewCycle, h
<1> HIDE DEF l
<1> QED
  BY <1>1, <1>2 DEF SeeStates

LEMMA ViewModeFields ==
  ASSUME NEW s \in SeeStates, NEW v \in Views, NEW r, r = SetViewMode(s, v), Plain(s)
  PROVE  /\ r.now = s.now /\ r.lastSee = s.lastSee /\ r.timing = s.timing
         /\ r.count = s.count /\ r.history = s.history
         /\ Plain(r)
<1> DEFINE p == ViewPlan(s, v.width)[1]
           q == ViewPlan(s, v.width)[2]
<1>1. v.width \in Widths
  BY DEF Views
<1>2. q # "SYNCH_SYNC"
  <2>1. HeldType[v.width] # "SYNCH_SYNC"
    BY <1>1 DEF HeldType, Widths
  <2> QED
    BY <2>1 DEF ViewPlan
<1>3. r = [s EXCEPT !.width = v.width, !.quality = v.quality, !.till = p, !.synchType = q]
  BY DEF SetViewMode
<1> HIDE DEF p, q
<1> QED
  BY <1>2, <1>3 DEF SeeStates, Plain

LEMMA TimingFields ==
  ASSUME NEW s \in SeeStates, NEW timing, NEW r, r = SetLastSeeTiming(s, timing), Plain(s),
         timing \in SynchTimings \cup {"TIME_NOSYNCH"}
  PROVE  /\ r.now = s.now /\ r.lastSee = s.lastSee /\ r.timing = timing
         /\ r.count = s.count /\ r.history = s.history
         /\ Plain(r)
BY DEF SetLastSeeTiming, SeeStates, Plain

LEMMA SendFields ==
  ASSUME NEW a \in Drafts, NEW w \in Views, NEW b, b = SendChangeView(a, w)
  PROVE  /\ b.now = a.now /\ b.seeTime = a.seeTime /\ b.view = w
         /\ b.see = SetViewMode(a.see, w) /\ b.out = Append(a.out, w)
         /\ b.lastDecision = a.lastDecision
BY DEF SendChangeView, Drafts

LEMMA PlainSynch ==
  ASSUME NEW s, Plain(s)
  PROVE  /\ IsSynch(s) <=> s.timing \in SynchTimings
         /\ ~IsSynch(s) <=> s.timing = "TIME_NOSYNCH"
         /\ ~s.synchSee
BY DEF Plain, IsSynch, SynchTimings

-----------------------------------------------------------------------------
(* Commands and decisions keep the agent in phase.                         *)

\* The view that the server has when the commands of a step have arrived.
Sent(a, v) == IF a.out = <<>> THEN v ELSE a.out[Len(a.out)]

LEMMA SentView ==
  ASSUME NEW a \in Drafts, NEW w \in Views, NEW v
  PROVE  Sent(SendChangeView(a, w), v) = w
<1>1. a.out \in Seq(Views)
  BY DEF Drafts
<1>2. \A s \in Seq(Views) : Append(s, w) # <<>> /\ Append(s, w)[Len(Append(s, w))] = w
  OBVIOUS
<1> DEFINE b == SendChangeView(a, w)
<1>3. b.out = Append(a.out, w)
  BY SendFields
<1> HIDE DEF b
<1> QED
  BY <1>1, <1>2, <1>3 DEF Sent, b

\* Follows depends on these fields only.
LEMMA FollowsSame ==
  ASSUME NEW a, NEW b, NEW v, NEW l, NEW o, NEW c, Follows(a, v, l, o, c),
         b.now = a.now, b.seeTime = a.seeTime, b.see = a.see, b.view = a.view
  PROVE  Follows(b, v, l, o, c)
BY DEF Follows, Stamped

LEMMA StampedSame ==
  ASSUME NEW a, NEW b, NEW l, NEW c, Stamped(a, l, c),
         b.now = a.now, b.seeTime = a.seeTime, Plain(b.see),
         b.see.now = a.see.now, b.see.lastSee = a.see.lastSee, b.see.count = a.see.count,
         b.see.history = a.see.history,
         b.see.timing = a.see.timing \/ ~Fresh(a.see)
  PROVE  Stamped(b, l, c)
BY DEF Stamped, Fresh, Counted

\* Without synchronization the width may change to that of the trial at any time.
LEMMA TrialFollows ==
  ASSUME NEW a \in Drafts, NEW v, NEW l, NEW o, NEW c, Follows(a, v, l, o, c),
         a.see.timing = "TIME_NOSYNCH"
  PROVE  Follows(SendChangeView(a, Trial), Trial, l, o, c)
<1> DEFINE b == SendChangeView(a, Trial)
           s == a.see
           r == b.see
<1>1. Trial \in Views
  BY FirstViews DEF Trial
<1>2. s \in SeeStates /\ Plain(s)
  BY DEF Drafts, Follows, Stamped
<1>3. b.now = a.now /\ b.seeTime = a.seeTime /\ b.see = SetViewMode(a.see, Trial)
  BY <1>1, SendFields
<1>4. /\ r.now = s.now /\ r.lastSee = s.lastSee /\ r.timing = s.timing
      /\ r.count = s.count /\ r.history = s.history
      /\ Plain(r)
  BY <1>1, <1>2, <1>3, ViewModeFields
<1> HIDE DEF b
<1>5. r.timing \notin SynchTimings
  BY <1>4 DEF SynchTimings
<1>6. Stamped(b, l, c)
  BY <1>3, <1>4, StampedSame DEF Follows
<1>8. Hunting(r, Trial, l, o, Place(c))
  BY <1>4 DEF Hunting, Follows
<1> QED
  BY <1>5, <1>6, <1>8 DEF Follows, b

\* Where a synchronization may begin.
LEMMA SynchronizedFollows ==
  ASSUME NEW a \in Drafts, NEW l, NEW o, NEW c, Stamped(a, l, c), ~Fresh(a.see),
         NEW timing \in SynchTimings, NEW w \in Views, w.quality = "HIGH",
         o = TimingOffset[timing], l = Since(timing, Place(c)), l < LooksPerSee(w),
         timing = "TIME_22_5" => w.width # "NORMAL",
         a.see.lastSee # NoTime,
         a.see.count <= 1 \/ (conf.synch /\ a.see.count = 2 /\ timing = "TIME_50_0" /\ Place(c) \in 12..15),
         a.see.history[1] = 3 => conf.synch /\ timing = "TIME_50_0" /\ Place(c) \in 12..15,
         ~conf.synch /\ a.see.history[1] = 2 =>
           timing = "TIME_0_00" /\ Place(c) \in 0..7 /\ w.width # "NARROW"
  PROVE  Follows(Synchronized(a, timing, w), w, l, o, c)
<1> DEFINE d == [a EXCEPT !.see = SetLastSeeTiming(@, timing)]
           b == Synchronized(a, timing, w)
           s == a.see
           r == b.see
<1>1. timing \in Timings
  BY DEF SynchTimings, Timings
<1>2. d \in Drafts
  BY <1>1, TimingFieldType
<1>3. s \in SeeStates /\ Plain(s)
  BY DEF Drafts, Stamped
<1>4. d.see = SetLastSeeTiming(s, timing) /\ d.now = a.now /\ d.seeTime = a.seeTime
  BY DEF Drafts
<1>5. b = SendChangeView(d, w)
  BY DEF Synchronized
<1> HIDE DEF d, b
<1>6. /\ d.see.now = s.now /\ d.see.lastSee = s.lastSee /\ d.see.timing = timing
      /\ d.see.count = s.count /\ d.see.history = s.history
      /\ Plain(d.see)
  BY <1>3, <1>4, TimingFields
<1>7. d.see \in SeeStates
  BY <1>2 DEF Drafts
<1>8. b.now = d.now /\ b.seeTime = d.seeTime /\ r = SetViewMode(d.see, w) /\ b.view = w
  BY <1>2, <1>5, SendFields
<1>9. /\ r.now = s.now /\ r.lastSee = s.lastSee /\ r.timing = timing
      /\ r.count = s.count /\ r.history = s.history
      /\ Plain(r)
  BY <1>6, <1>7, <1>8, ViewModeFields
<1>10. Stamped(b, l, c)
  BY <1>4, <1>8, <1>9, StampedSame
<1>11. timing # "TIME_NOSYNCH"
  BY DEF SynchTimings
<1>12. Tracked(r, b.view, w, l, o, Place(c))
  BY <1>8, <1>9 DEF Tracked
<1> QED
  BY <1>9, <1>10, <1>11, <1>12 DEF Follows, b

\* A synchronized agent has a see of the current cycle from the start of its timing to
\* the end of that cycle.
LEMMA SeenInCycle ==
  ASSUME NEW p \in 0..23
  PROVE  /\ Since("TIME_0_00", p) \in 0..7 /\ Since("TIME_50_0", p) \in 0..7 /\ Since("TIME_22_5", p) \in 0..7
         /\ CyclesAgo(p, Since("TIME_0_00", p)) = 0 <=> p \in 0..7
         /\ CyclesAgo(p, Since("TIME_50_0", p)) = 0 <=> p \in 12..15
         /\ CyclesAgo(p, Since("TIME_22_5", p)) = 0 <=> p \in 18..23
<1>1. /\ Since("TIME_0_00", p) = p \div 3
      /\ Since("TIME_50_0", p) = (IF p >= 12 THEN p - 12 ELSE p + 12) \div 3
      /\ Since("TIME_22_5", p) = (IF p >= 18 THEN p - 18 ELSE p + 6) \div 3
  BY Tables DEF Since, Round
<1>2. CyclesAgo(p, Since("TIME_0_00", p)) = 0 <=> p \in 0..7
  BY <1>1 DEF CyclesAgo
<1>3. CyclesAgo(p, Since("TIME_50_0", p)) = 0 <=> p \in 12..15
  BY <1>1 DEF CyclesAgo
<1>4. CyclesAgo(p, Since("TIME_22_5", p)) = 0 <=> p \in 18..23
  BY <1>1 DEF CyclesAgo
<1> QED
  BY <1>1, <1>2, <1>3, <1>4

LEMMA CurrentSeePlace ==
  ASSUME NEW a, NEW v, NEW l \in 0..7, NEW o, NEW c \in 0..(UnitsPerCycle * Cycles - 1),
         Follows(a, v, l, o, c), a.see.timing \in SynchTimings
  PROVE  /\ a.see.timing = "TIME_0_00" => (a.see.lastSee = TimeOf(c) <=> Place(c) \in 0..7)
         /\ a.see.timing = "TIME_50_0" => (a.see.lastSee = TimeOf(c) <=> Place(c) \in 12..15)
         /\ a.see.timing = "TIME_22_5" => (a.see.lastSee = TimeOf(c) <=> Place(c) \in 18..23)
<1>1. Place(c) \in 0..23
  BY ClockSteps
<1>2. l = Since(a.see.timing, Place(c)) /\ a.see.lastSee # NoTime
  BY DEF Follows, Tracked
<1>3. a.see.lastSee = Seen(c, l)
  BY <1>2 DEF Follows, Stamped
<1>4. a.see.lastSee = TimeOf(c) <=> CyclesAgo(Place(c), l) = 0
  BY <1>3, TimeSeen
<1> QED
  BY <1>1, <1>2, <1>4, SeenInCycle

LEMMA MissedFollows ==
  ASSUME NEW a \in Drafts, NEW v \in Views, NEW l \in 0..7, NEW o,
         NEW c \in 0..(UnitsPerCycle * Cycles - 1),
         Follows(a, v, l, o, c), MissedSee(a, a.see)
  PROVE  Follows([a EXCEPT !.see = SetLastSeeTiming(@, "TIME_NOSYNCH")], v, l, o, c)
<1> DEFINE b == [a EXCEPT !.see = SetLastSeeTiming(@, "TIME_NOSYNCH")]
           s == a.see
           r == b.see
           p == Place(c)
<1>1. s \in SeeStates /\ Plain(s) /\ s.timing \in SynchTimings /\ s.timing # "TIME_NOSYNCH"
  <2>1. s \in SeeStates /\ Plain(s)
    BY DEF Drafts, Follows, Stamped
  <2>2. IsSynch(s)
    BY DEF MissedSee
  <2> QED
    BY <2>1, <2>2, PlainSynch DEF SynchTimings
<1>2. ~Fresh(s) /\ s.now = TimeOf(c) /\ a.now = TimeOf(c) /\ a.seeTime = s.lastSee
  BY <1>1 DEF Follows, Stamped, Fresh
<1>3. s.lastSee # TimeOf(c)
  BY <1>2 DEF MissedSee, HasCurrentSee
<1>4. s.count = 0
  <2>1. s.count >= 1 => s.lastSee = TimeOf(c)
    BY DEF Follows, Stamped
  <2> QED
    BY <1>1, <1>3, <2>1 DEF SeeStates
<1>5. b.now = a.now /\ b.seeTime = a.seeTime /\ r = SetLastSeeTiming(s, "TIME_NOSYNCH")
  BY DEF Drafts
<1> HIDE DEF b
<1>6. /\ r.now = s.now /\ r.lastSee = s.lastSee /\ r.timing = "TIME_NOSYNCH"
      /\ r.count = s.count /\ r.history = s.history /\ Plain(r)
  BY <1>1, <1>5, TimingFields
<1>7. Stamped(b, l, c)
  BY <1>2, <1>5, <1>6, StampedSame DEF Follows
<1>8. Tracked(s, a.view, v, l, o, p)
  BY <1>1 DEF Follows
<1>9. s.history[1] # 3 /\ (~conf.synch => s.history[1] # 2)
  <2>1. s.timing = "TIME_50_0" => p \notin 12..15
    BY <1>1, <1>3, CurrentSeePlace
  <2>2. s.timing = "TIME_0_00" => p \notin 0..7
    BY <1>1, <1>3, CurrentSeePlace
  <2> QED
    BY <1>8, <2>1, <2>2 DEF Tracked
<1>10. Hunting(r, v, l, o, p)
  BY <1>4, <1>6, <1>9 DEF Hunting
<1>11. "TIME_NOSYNCH" \notin SynchTimings
  BY DEF SynchTimings
<1> QED
  BY <1>6, <1>7, <1>10, <1>11 DEF Follows, b

\* The pattern of synch mode: three, two and three sees of complete cycles and two of
\* this one leave one place for the last see.
LEMMA PatternPlace ==
  ASSUME NEW p \in 0..23, Looked(p) = 2, LooksBefore(p, 1) >= 3, LooksBefore(p, 3) >= 3
  PROVE  p \in 12..14 /\ (p - (p % 3)) % 8 = 4 /\ Since("TIME_50_0", p) = 0
<1>1. p \in 12..14
  BY DEF Looked, LooksBefore
<1> QED
  BY <1>1, Tables DEF Since

LEMMA AdjustSynchFollows ==
  ASSUME NEW a \in Drafts, NEW v, NEW l \in 0..7, NEW o,
         NEW c \in 0..(UnitsPerCycle * Cycles - 1),
         Follows(a, Sent(a, v), l, o, c), conf.synch, ~playOn,
         NEW b, b = AdjustSeeSynchSynchMode(a)
  PROVE  Follows(b, Sent(b, v), l, o, c)
<1> DEFINE s == a.see
           p == Place(c)
<1>1. s \in SeeStates /\ Plain(s) /\ p \in 0..23
  BY ClockSteps DEF Drafts, Follows, Stamped
<1>2. CASE IsSynch(s)
  <2>1. b = a
    BY <1>2 DEF AdjustSeeSynchSynchMode
  <2> QED
    BY <2>1
<1>3. CASE ~IsSynch(s) /\ IsSynchedSeeCountSynchMode(s)
  <2> DEFINE w == View("NARROW", "HIGH")
  <2>1. b = Synchronized(a, "TIME_50_0", w)
    BY <1>3 DEF AdjustSeeSynchSynchMode
  <2>2. s.timing = "TIME_NOSYNCH"
    BY <1>1, <1>3, PlainSynch
  <2>3. Stamped(a, l, c) /\ Hunting(s, Sent(a, v), l, o, p)
    BY <2>2 DEF Follows
  <2>4. s.count = 2 /\ s.history[1] = 3 /\ s.history[3] = 3
    BY <1>3 DEF IsSynchedSeeCountSynchMode
  <2>5. s.count = Looked(p) /\ l = 0 /\ o = (p - (p % 3)) % 8
    BY <2>3, <2>4 DEF Hunting
  <2>6. LooksBefore(p, 1) >= 3 /\ LooksBefore(p, 3) >= 3
    BY <2>3, <2>4 DEF Stamped, Counted
  <2>7. p \in 12..14 /\ o = 4 /\ Since("TIME_50_0", p) = 0
    BY <1>1, <2>4, <2>5, <2>6, PatternPlace
  <2>8. s.lastSee = TimeOf(c) /\ TimeOf(c) # NoTime /\ ~Fresh(s)
    BY <2>3, <2>4, TimeSeen DEF Stamped, Fresh
  <2>9. w \in Views /\ w.quality = "HIGH" /\ w.width = "NARROW"
    BY FirstViews DEF View
  <2> HIDE DEF w
  <2>10. LooksPerSee(w) = 2
    BY <2>9, Tables
  <2>11. "TIME_50_0" \in SynchTimings
    BY DEF SynchTimings
  <2>12. Follows(Synchronized(a, "TIME_50_0", w), w, l, o, c)
    <3>1. o = TimingOffset["TIME_50_0"] /\ l = Since("TIME_50_0", p) /\ l < LooksPerSee(w)
      BY <2>5, <2>7, <2>10, Tables
    <3>2. p \in 12..15
      BY <2>7
    <3> QED
      BY <2>3, <2>4, <2>8, <2>9, <2>11, <3>1, <3>2, SynchronizedFollows
  <2>13. Sent(b, v) = w
    <3> DEFINE d == [a EXCEPT !.see = SetLastSeeTiming(@, "TIME_50_0")]
    <3>1. d \in Drafts
      BY TimingFieldType DEF Timings
    <3>2. b = SendChangeView(d, w)
      BY <2>1 DEF Synchronized, w
    <3> HIDE DEF d
    <3> QED
      BY <2>9, <3>1, <3>2, SentView
  <2> QED
    BY <2>1, <2>12, <2>13 DEF w
<1>4. CASE ~IsSynch(s) /\ ~IsSynchedSeeCountSynchMode(s)
  <2>1. b = a \/ b = SendChangeView(a, Trial)
    BY <1>4 DEF AdjustSeeSynchSynchMode, Trial
  <2>2. CASE b = SendChangeView(a, Trial)
    <3>1. Follows(SendChangeView(a, Trial), Trial, l, o, c)
      BY <1>1, <1>4, PlainSynch, TrialFollows
    <3>2. Sent(SendChangeView(a, Trial), v) = Trial
      BY SentView, FirstViews DEF Trial
    <3> QED
      BY <2>2, <3>1, <3>2
  <2> QED
    BY <2>1, <2>2
<1> QED
  BY <1>2, <1>3, <1>4

\* The widths canSendChangeView lets a view action choose bring the next see where the
\* timings have a place for it, or where a second see of the cycle betrays them.
LEMMA ViewFollows ==
  ASSUME NEW a \in Drafts, NEW v, NEW l \in 0..7, NEW o,
         NEW c \in 0..(UnitsPerCycle * Cycles - 1),
         Follows(a, v, l, o, c), ~playOn, NEW w, MayChangeView(a, w)
  PROVE  Follows(SendChangeView(a, View(w, "HIGH")), View(w, "HIGH"), l, o, c)
<1> DEFINE s == a.see
           p == Place(c)
           u == View(w, "HIGH")
           b == SendChangeView(a, u)
           r == b.see
<1>1. s \in SeeStates /\ Plain(s) /\ p \in 0..23
  BY ClockSteps DEF Drafts, Follows, Stamped
<1>2. w \in Widths /\ IsSynch(s) /\ CanSendChangeView(s, w, a.now, SeeAfterThink)
  BY DEF MayChangeView
<1>3. u \in Views /\ u.width = w /\ u.quality = "HIGH"
  BY <1>2, ViewType DEF View, Qualities
<1>4. s.timing \in SynchTimings /\ ~s.synchSee /\ s.timing # "TIME_NOSYNCH"
  BY <1>1, <1>2, PlainSynch DEF SynchTimings
<1>5. a.now = s.lastSee /\ (w = "NARROW" => s.timing # "TIME_0_00")
      /\ (w = "NORMAL" => s.timing \in {"TIME_0_00", "TIME_50_0"})
  BY <1>2, <1>4 DEF CanSendChangeView
<1>6. s.lastSee = TimeOf(c)
  BY <1>4, <1>5 DEF Follows, Stamped, Fresh
<1>7. Tracked(s, a.view, v, l, o, p)
  BY <1>4 DEF Follows
<1> HIDE DEF u
<1>8. b.now = a.now /\ b.seeTime = a.seeTime /\ b.view = u /\ r = SetViewMode(s, u)
  BY <1>3, SendFields
<1> HIDE DEF b
<1>9. /\ r.now = s.now /\ r.lastSee = s.lastSee /\ r.timing = s.timing
      /\ r.count = s.count /\ r.history = s.history
      /\ Plain(r)
  BY <1>1, <1>3, <1>8, ViewModeFields
<1>10. Stamped(b, l, c)
  BY <1>8, <1>9, StampedSame DEF Follows
<1>11. l < LooksPerSee(u)
  <2>1. LooksPerSee(u) = IF w = "NARROW" THEN 2 ELSE IF w = "NORMAL" THEN 4 ELSE 8
    BY <1>3, Tables
  <2>2. CASE s.timing = "TIME_0_00"
    <3>1. p \in 0..7 /\ l = Since("TIME_0_00", p)
      BY <1>4, <1>6, <1>7, <2>2, CurrentSeePlace DEF Tracked
    <3>2. l <= 2
      BY <3>1, Tables DEF Since
    <3> QED
      BY <1>5, <2>1, <2>2, <3>2
  <2>3. CASE s.timing = "TIME_50_0"
    <3>1. p \in 12..15 /\ l = Since("TIME_50_0", p)
      BY <1>4, <1>6, <1>7, <2>3, CurrentSeePlace DEF Tracked
    <3>2. l <= 1
      BY <3>1, Tables DEF Since
    <3> QED
      BY <2>1, <3>2
  <2>4. CASE s.timing = "TIME_22_5"
    <3>1. p \in 18..23 /\ l = Since("TIME_22_5", p)
      BY <1>4, <1>6, <1>7, <2>4, CurrentSeePlace DEF Tracked
    <3>2. l <= 1
      BY <3>1, Tables DEF Since
    <3> QED
      BY <2>1, <3>2
  <2> QED
    BY <1>4, <2>2, <2>3, <2>4 DEF SynchTimings
<1>12. Tracked(r, b.view, u, l, o, p)
  BY <1>3, <1>5, <1>7, <1>8, <1>9, <1>11 DEF Tracked
<1> QED
  BY <1>4, <1>9, <1>10, <1>12 DEF Follows, b, u

LEMMA DecidedFollows ==
  ASSUME NEW a \in Drafts, NEW v \in Views, NEW l \in 0..7, NEW o,
         NEW c \in 0..(UnitsPerCycle * Cycles - 1),
         Follows(a, Sent(a, v), l, o, c), Sent(a, v) \in Views, ~playOn, NEW b \in Decided(a)
  PROVE  Follows(b, Sent(b, v), l, o, c)
<1> DEFINE d == IF MissedSee(a, a.see) THEN [a EXCEPT !.see = SetLastSeeTiming(@, "TIME_NOSYNCH")] ELSE a
           e == BeforeActions(a)
<1>1. d \in Drafts /\ e \in Drafts
  BY TimingFieldType, BeforeActionsType DEF Timings
<1>2. Follows(d, Sent(d, v), l, o, c)
  <2>1. CASE MissedSee(a, a.see)
    <3> DEFINE f == [a EXCEPT !.see = SetLastSeeTiming(@, "TIME_NOSYNCH")]
    <3>1. Follows(f, Sent(a, v), l, o, c)
      BY <2>1, MissedFollows
    <3>2. f.out = a.out /\ d = f
      BY <2>1 DEF Drafts
    <3> HIDE DEF f, d
    <3>3. Sent(d, v) = Sent(a, v)
      BY <3>2 DEF Sent
    <3> QED
      BY <3>1, <3>2, <3>3
  <2>2. CASE ~MissedSee(a, a.see)
    BY <2>2
  <2> QED
    BY <2>1, <2>2
<1>3. e = IF conf.synch THEN AdjustSeeSynchSynchMode(d) ELSE d
  BY DEF BeforeActions
<1> HIDE DEF d, e
<1>4. Follows(e, Sent(e, v), l, o, c)
  BY <1>1, <1>2, <1>3, AdjustSynchFollows
<1>5. PICK w \in ViewWishes(e) : b = [ExecuteView(e, w) EXCEPT !.lastDecision = a.now]
  BY DEF Decided, e
<1> DEFINE f == ExecuteView(e, w)
<1>6. f \in Drafts
  BY <1>1, ExecuteViewType
<1>7. Follows(f, Sent(f, v), l, o, c)
  <2>1. CASE MayChangeView(e, w)
    <3>1. View(w, "HIGH") \in Views
      BY <2>1, ViewType DEF MayChangeView, Qualities
    <3>2. Follows(SendChangeView(e, View(w, "HIGH")), View(w, "HIGH"), l, o, c)
      BY <1>1, <1>4, <2>1, ViewFollows
    <3>3. Sent(SendChangeView(e, View(w, "HIGH")), v) = View(w, "HIGH")
      BY <1>1, <3>1, SentView
    <3> QED
      BY <2>1, <3>2, <3>3 DEF ExecuteView
  <2>2. CASE ~MayChangeView(e, w)
    BY <1>4, <2>2 DEF ExecuteView
  <2> QED
    BY <2>1, <2>2
<1> HIDE DEF f
<1>8. b.now = f.now /\ b.seeTime = f.seeTime /\ b.see = f.see /\ b.view = f.view /\ b.out = f.out
  BY <1>5, <1>6 DEF Drafts, f
<1>9. Sent(b, v) = Sent(f, v)
  BY <1>8 DEF Sent
<1> QED
  BY <1>7, <1>8, <1>9, FollowsSame

-----------------------------------------------------------------------------
(* Messages keep the agent in phase.                                       *)

LEMMA SynchronizedSent ==
  ASSUME NEW a \in Drafts, NEW timing \in Timings, NEW w \in Views, NEW v
  PROVE  Sent(Synchronized(a, timing, w), v) = w /\ Synchronized(a, timing, w).see.timing = timing
<1> DEFINE d == [a EXCEPT !.see = SetLastSeeTiming(@, timing)]
<1>1. d \in Drafts
  BY TimingFieldType
<1>2. Synchronized(a, timing, w) = SendChangeView(d, w)
  BY DEF Synchronized
<1>3. d.see.timing = timing /\ d.see \in SeeStates
  <2>1. d.see = SetLastSeeTiming(a.see, timing) /\ a.see \in SeeStates
    BY DEF Drafts
  <2> HIDE DEF d
  <2> QED
    BY <1>1, <2>1 DEF SetLastSeeTiming, SeeStates, Drafts
<1> HIDE DEF d
<1>4. SendChangeView(d, w).see.timing = timing
  <2>1. SendChangeView(d, w).see = SetViewMode(d.see, w)
    BY <1>1, SendFields
  <2>2. SetViewMode(d.see, w).timing = d.see.timing
    BY <1>3 DEF SetViewMode, SeeStates
  <2> QED
    BY <1>3, <2>1, <2>2
<1> QED
  BY <1>1, <1>2, <1>4, SentView

\* A see first begins the cycle, if it is of a new one.
LEMMA CountsInItsCycle ==
  ASSUME NEW s \in SeeStates, NEW t \in GameTimes, t = s.lastSee => t = s.now
  PROVE  CountSee(s, t) = CountSee(SetNewCycle(s, t), t)
<1>1. CASE t = s.now
  BY <1>1 DEF SetNewCycle
<1>2. CASE t # s.now
  <2> DEFINE r == SetNewCycle(s, t)
  <2>1. r.now = t /\ r.lastSee = s.lastSee
    BY <1>2, NewCycleFields
  <2>2. SetNewCycle(r, t) = r
    BY <2>1 DEF SetNewCycle
  <2>3. CountSee(s, t) = [r EXCEPT !.lastSee = t, !.count = 1]
    BY <1>2 DEF CountSee
  <2> HIDE DEF r
  <2>4. CountSee(r, t) = [r EXCEPT !.lastSee = t, !.count = 1]
    BY <1>2, <2>1, <2>2 DEF CountSee
  <2> QED
    BY <2>3, <2>4 DEF r
<1> QED
  BY <1>1, <1>2

LEMMA CountSeeFields ==
  ASSUME NEW s \in SeeStates, NEW t \in GameTimes, s.now = t, Plain(s),
         s.count >= 1 => s.lastSee = t, NEW k, k = CountSee(s, t)
  PROVE  /\ k \in SeeStates /\ Plain(k)
         /\ k.now = t /\ k.lastSee = t /\ k.count = s.count + 1 /\ k.history = s.history
         /\ k.timing = IF t = s.lastSee THEN "TIME_NOSYNCH" ELSE s.timing
<1>1. k \in SeeStates
  BY CountSeeType
<1>2. s.count \in Nat
  BY DEF SeeStates
<1>3. CASE t = s.lastSee
  <2> DEFINE g == IF IsSynch(s) THEN "TIME_NOSYNCH" ELSE s.timing
  <2>1. g = "TIME_NOSYNCH"
    BY PlainSynch
  <2>2. k = [s EXCEPT !.count = s.count + 1, !.timing = g]
    BY <1>3 DEF CountSee, SeeStates
  <2> HIDE DEF g
  <2> QED
    BY <1>1, <1>3, <2>1, <2>2 DEF SeeStates, Plain
<1>4. CASE t # s.lastSee
  <2>1. s.count = 0
    BY <1>2, <1>4
  <2>2. k = [s EXCEPT !.lastSee = t, !.count = 1]
    BY <1>4 DEF CountSee, SetNewCycle
  <2> QED
    BY <1>1, <1>4, <2>1, <2>2 DEF SeeStates, Plain
<1> QED
  BY <1>3, <1>4

LEMMA AdvanceFields ==
  ASSUME NEW s \in SeeStates, NEW v \in Views, Plain(s), v.quality = "HIGH",
         NEW timing \in SynchTimings, NextTiming(s.timing, v.width) = timing,
         NEW r, r = Advance(s, v)
  PROVE  /\ Plain(r) /\ r.timing = timing
         /\ r.now = s.now /\ r.lastSee = s.lastSee /\ r.count = s.count /\ r.history = s.history
<1> DEFINE d == SetViewMode(s, v)
<1>1. d \in SeeStates
  BY ViewModeType
<1>2. /\ d.now = s.now /\ d.lastSee = s.lastSee /\ d.timing = s.timing
      /\ d.count = s.count /\ d.history = s.history
      /\ Plain(d)
  BY ViewModeFields
<1>3. r = SetLastSeeTiming(d, GetNextTiming(d, v))
  <2>1. GetNextTiming(s, v) = GetNextTiming(d, v)
    BY <1>2 DEF GetNextTiming, Plain
  <2> QED
    BY <2>1 DEF Advance
<1> HIDE DEF d
<1>4. GetNextTiming(d, v) = timing
  BY <1>2 DEF GetNextTiming, Plain
<1> QED
  BY <1>1, <1>2, <1>3, <1>4, TimingFields

\* The rows of getNextTiming: a see that arrives where it may takes the timing of its place.
LEMMA ArrivalPlace ==
  ASSUME NEW timing, NEW w, NEW p, <<timing, w, p>> \in Arrivals, p # 6
  PROVE  LET next == NextTiming(timing, w)
         IN /\ next \in SynchTimings /\ p \in 0..23
            /\ TimingOffset[next] = p % 8 /\ Since(next, p) = 0
            /\ next = "TIME_22_5" => w # "NORMAL"
            /\ p = 0 => next = "TIME_0_00"
<1>1. p \in {0, 12, 18}
  BY DEF Arrivals
<1>2. /\ p = 0 => NextTiming(timing, w) = "TIME_0_00"
      /\ p = 12 => NextTiming(timing, w) = "TIME_50_0"
      /\ p = 18 => NextTiming(timing, w) = "TIME_22_5" /\ w # "NORMAL"
  BY DEF Arrivals, NextTiming, SynchTimings
<1>3. /\ Since("TIME_0_00", 0) = 0 /\ Since("TIME_50_0", 12) = 0 /\ Since("TIME_22_5", 18) = 0
      /\ 0 % 8 = 0 /\ 12 % 8 = 4 /\ 18 % 8 = 2
  BY Tables DEF Since
<1> QED
  BY <1>1, <1>2, <1>3, Tables DEF SynchTimings

\* SeeState after a see: what it counted, and the belief that is left or begins anew.
LEMMA BySeeFields ==
  ASSUME NEW s \in SeeStates, NEW r \in SeeStates, NEW c \in 0..(UnitsPerCycle * Cycles - 1),
         CountSee(s, TimeOf(c)) = CountSee(r, TimeOf(c)),
         NEW av \in Views, NEW v \in Views, Expects(r, av, v, c),
         NEW p, p = Place(c),
         NEW e, e = UpdateBySee(s, TimeOf(c), av)
  PROVE  /\ e \in SeeStates /\ Plain(e)
         /\ e.now = TimeOf(c) /\ e.lastSee = TimeOf(c) /\ e.count = r.count + 1 /\ e.history = r.history
         /\ e.timing \in SynchTimings =>
              Tracked(e, av, v, 0, OffsetOf(c), p) /\ (p = 0 => e.timing = "TIME_0_00")
         /\ e.timing = "TIME_NOSYNCH" =>
              /\ e.count = Looked(p) /\ e.count >= 2 => v = Trial
              /\ e.history[1] = 3 => v = Trial /\ e.count = Looked(p)
              /\ ~conf.synch /\ e.history[1] = 2 /\ e.history[2] = 3 => p = 0
<1> DEFINE t == TimeOf(c)
           k == CountSee(r, t)
<1>1. t \in GameTimes /\ t # NoTime /\ OffsetOf(c) = p % 8
  BY TimeSeen, ClockSteps
<1>2. Plain(r) /\ r.now = t /\ (r.count >= 1 => r.lastSee = t)
  BY DEF Expects
<1> HIDE DEF t
<1>3. /\ k \in SeeStates /\ Plain(k)
      /\ k.now = t /\ k.lastSee = t /\ k.count = r.count + 1 /\ k.history = r.history
      /\ k.timing = IF t = r.lastSee THEN "TIME_NOSYNCH" ELSE r.timing
  BY <1>1, <1>2, CountSeeFields
<1>4. e = IF av.quality = "LOW" THEN SetLastSeeTiming(k, "TIME_NOSYNCH")
          ELSE IF IsSynch(k) THEN Advance(k, av) ELSE k
  BY DEF UpdateBySee, t
<1>5. e \in SeeStates
  BY <1>1, BySeeType DEF t
<1> HIDE DEF k
<1>6. av.quality \in {"LOW", "HIGH"} /\ r.count \in Nat
  BY DEF Views, Qualities, SeeStates
<1>7. CASE k.timing = "TIME_NOSYNCH"
  <2>1. e = k \/ e = SetLastSeeTiming(k, "TIME_NOSYNCH")
    BY <1>3, <1>4, <1>7, PlainSynch
  <2>2. /\ e.now = t /\ e.lastSee = t /\ e.count = r.count + 1 /\ e.history = r.history
        /\ e.timing = "TIME_NOSYNCH" /\ Plain(e)
    BY <1>3, <1>7, <2>1, TimingFields
  <2>3. CASE r.timing = "TIME_NOSYNCH"
    <3>1. /\ r.count = Looked(p) - 1 /\ r.count >= 1 => v = Trial
          /\ r.history[1] = 3 => v = Trial /\ r.count = Looked(p) - 1
          /\ ~conf.synch /\ r.history[1] = 2 /\ r.history[2] = 3 => p = 0
      BY <2>3 DEF Expects
    <3>2. /\ e.count = Looked(p) /\ e.count >= 2 => v = Trial
          /\ e.history[1] = 3 => v = Trial /\ e.count = Looked(p)
          /\ ~conf.synch /\ e.history[1] = 2 /\ e.history[2] = 3 => p = 0
      <4>1. p \in 0..23
        BY ClockSteps
      <4>2. Looked(p) \in Int
        BY <4>1 DEF Looked
      <4> QED
        BY <1>6, <2>2, <3>1, <4>2
    <3> QED
      BY <1>5, <2>2, <3>2 DEF SynchTimings, t
  <2>4. CASE r.timing # "TIME_NOSYNCH"
    <3>1. r.timing \in SynchTimings
      BY <1>2, <2>4 DEF Plain
    <3>2. r.lastSee = t
      BY <1>3, <1>7, <2>4
    <3>3. p = 6 /\ r.count <= 1 /\ r.history[1] # 3 /\ (~conf.synch => r.history[1] # 2)
      BY <3>1, <3>2 DEF Expects, t
    <3>4. Looked(p) = 3
      BY <3>3 DEF Looked
    <3> QED
      BY <1>5, <1>6, <2>2, <3>3, <3>4 DEF SynchTimings, t
  <2> QED
    BY <2>3, <2>4
<1>8. CASE k.timing # "TIME_NOSYNCH"
  <2>1. r.timing \in SynchTimings /\ r.lastSee # t /\ k.timing = r.timing
    BY <1>2, <1>3, <1>8 DEF Plain
  <2>2. /\ <<r.timing, v.width, p>> \in Arrivals /\ v.quality = "HIGH" /\ p # 6
        /\ av = v /\ r.count = 0 /\ r.history[1] # 3 /\ (~conf.synch => r.history[1] # 2)
    BY <2>1 DEF Expects, t
  <2> DEFINE next == NextTiming(r.timing, v.width)
  <2>3. /\ next \in SynchTimings /\ p \in 0..23
        /\ TimingOffset[next] = p % 8 /\ Since(next, p) = 0
        /\ next = "TIME_22_5" => v.width # "NORMAL"
        /\ p = 0 => next = "TIME_0_00"
    BY <2>2, ArrivalPlace
  <2>4. e = Advance(k, v)
    <3>1. IsSynch(k)
      BY <1>3, <2>1, PlainSynch
    <3> QED
      BY <1>4, <2>2, <3>1
  <2>5. NextTiming(k.timing, v.width) = next
    BY <2>1
  <2> HIDE DEF next
  <2>6. /\ Plain(e) /\ e.timing = next
        /\ e.now = t /\ e.lastSee = t /\ e.count = r.count + 1 /\ e.history = r.history
    BY <1>3, <2>2, <2>3, <2>4, <2>5, AdvanceFields
  <2>7. 0 < LooksPerSee(v)
    BY <2>2, Tables
  <2>8. Tracked(e, av, v, 0, OffsetOf(c), p)
    BY <1>1, <2>2, <2>3, <2>6, <2>7 DEF Tracked
  <2>9. e.timing # "TIME_NOSYNCH"
    BY <2>3, <2>6 DEF SynchTimings
  <2> QED
    BY <1>5, <2>3, <2>6, <2>8, <2>9 DEF t
<1> QED
  BY <1>7, <1>8

LEMMA SeeFollows ==
  ASSUME NEW a \in Drafts, NEW r \in SeeStates, NEW c \in 0..(UnitsPerCycle * Cycles - 1),
         CountSee(a.see, TimeOf(c)) = CountSee(r, TimeOf(c)),
         NEW v, Sent(a, v) \in Views, Expects(r, a.view, Sent(a, v), c), ~playOn,
         NEW b, b = SeeAt(a, TimeOf(c))
  PROVE  /\ Follows(b, Sent(b, v), 0, OffsetOf(c), c)
         /\ Sent(b, v) \in Views
         /\ Place(c) = 0 => b.see.timing \in {"TIME_0_00", "TIME_NOSYNCH"}
<1> DEFINE t == TimeOf(c)
           p == Place(c)
           u == Sent(a, v)
           e == UpdateBySee(a.see, t, a.view)
           d == [a EXCEPT !.now = t, !.seeTime = t, !.seeLag = a.bodyAge, !.see = e]
<1>1. a.see \in SeeStates /\ a.view \in Views
  BY DEF Drafts
<1>2. /\ e \in SeeStates /\ Plain(e)
      /\ e.now = t /\ e.lastSee = t /\ e.count = r.count + 1 /\ e.history = r.history
      /\ e.timing \in SynchTimings =>
           Tracked(e, a.view, u, 0, OffsetOf(c), p) /\ (p = 0 => e.timing = "TIME_0_00")
      /\ e.timing = "TIME_NOSYNCH" =>
           /\ e.count = Looked(p) /\ e.count >= 2 => u = Trial
           /\ e.history[1] = 3 => u = Trial /\ e.count = Looked(p)
           /\ ~conf.synch /\ e.history[1] = 2 /\ e.history[2] = 3 => p = 0
  BY <1>1, BySeeFields
<1>3. t \in GameTimes /\ t # NoTime /\ OffsetOf(c) = p % 8 /\ p \in 0..23
  BY TimeSeen, ClockSteps
<1>4. p % 3 = 0 /\ Counted(r, p, Looked(p) - 1)
  BY DEF Expects
<1>6. b = IF conf.synch \/ IsSynch(d.see) THEN d ELSE AdjustSeeSynchNormalMode(d)
  BY DEF SeeAt
<1> HIDE DEF t, e
<1>7. d \in Drafts
  <2>1. a.bodyAge \in -1..MaxAge
    BY DEF Drafts
  <2> QED
    BY <1>2, <1>3, <2>1 DEF Drafts
<1>8. d.now = t /\ d.seeTime = t /\ d.see = e /\ d.view = a.view /\ d.out = a.out
  BY DEF Drafts
<1> HIDE DEF d
<1>9. Sent(d, v) = u
  BY <1>8 DEF Sent
<1> HIDE DEF u
<1>10. r.count \in Nat /\ Looked(p) \in Int
  BY <1>3 DEF SeeStates, Looked
<1>11. Stamped(d, 0, c)
  <2>1. Seen(c, 0) = t
    BY <1>4, TimeSeen DEF t
  <2>2. Counted(e, p, Looked(p))
    BY <1>2, <1>4, <1>10 DEF Counted
  <2> QED
    BY <1>2, <1>8, <2>1, <2>2 DEF Stamped, t
<1>12. ~Fresh(d.see) /\ d.see.lastSee # NoTime
  BY <1>2, <1>3, <1>8 DEF Fresh
<1>13. CASE e.timing \in SynchTimings
  <2>1. b = d
    BY <1>2, <1>6, <1>8, <1>13, PlainSynch
  <2>2. e.timing # "TIME_NOSYNCH"
    BY <1>13 DEF SynchTimings
  <2>3. Follows(d, u, 0, OffsetOf(c), c)
    BY <1>2, <1>8, <1>11, <1>13, <2>2 DEF Follows
  <2> QED
    BY <1>2, <1>8, <1>9, <1>13, <2>1, <2>3 DEF u
<1>14. CASE e.timing = "TIME_NOSYNCH" /\ (conf.synch \/ ~IsSynchedSeeCountNormalMode(e))
  <2>1. Hunting(e, u, 0, OffsetOf(c), p)
    BY <1>2, <1>3, <1>4, <1>14 DEF Hunting, IsSynchedSeeCountNormalMode
  <2>2. Follows(d, u, 0, OffsetOf(c), c)
    BY <1>8, <1>11, <1>14, <2>1 DEF Follows, SynchTimings
  <2>3. ~IsSynch(e)
    BY <1>2, <1>14, PlainSynch
  <2>4. b = d \/ b = SendChangeView(d, Trial)
    BY <1>6, <1>8, <1>14, <2>3 DEF AdjustSeeSynchNormalMode, Trial
  <2>5. CASE b = d
    BY <1>8, <1>9, <1>14, <2>2, <2>5 DEF u
  <2>6. CASE b = SendChangeView(d, Trial)
    <3>1. Follows(SendChangeView(d, Trial), Trial, 0, OffsetOf(c), c)
      BY <1>7, <1>8, <1>14, <2>2, TrialFollows
    <3>2. Sent(b, v) = Trial /\ Trial \in Views
      BY <1>7, <2>6, SentView, FirstViews DEF Trial
    <3>3. b.see.timing = "TIME_NOSYNCH"
      <4>1. b.see = SetViewMode(d.see, Trial)
        BY <1>7, <2>6, <3>2, SendFields
      <4> QED
        BY <1>2, <1>8, <1>14, <3>2, <4>1, ViewModeFields
    <3> QED
      BY <2>6, <3>1, <3>2, <3>3
  <2> QED
    BY <2>4, <2>5, <2>6
<1>15. CASE e.timing = "TIME_NOSYNCH" /\ ~conf.synch /\ IsSynchedSeeCountNormalMode(e)
  <2> DEFINE w == View("NORMAL", "HIGH")
  <2>1. ~IsSynch(e)
    BY <1>2, <1>15, PlainSynch
  <2>2. b = Synchronized(d, "TIME_0_00", w)
    BY <1>6, <1>8, <1>15, <2>1 DEF AdjustSeeSynchNormalMode
  <2>3. e.history[1] = 2 /\ e.history[2] = 3 /\ p = 0
    BY <1>2, <1>15 DEF IsSynchedSeeCountNormalMode
  <2>4. e.count = 1
    <3>1. Looked(p) - 1 = 0
      BY <2>3 DEF Looked
    <3> QED
      BY <1>2, <1>4, <1>10, <3>1 DEF Counted
  <2>5. w \in Views /\ w.quality = "HIGH" /\ w.width = "NORMAL"
    BY FirstViews DEF View
  <2> HIDE DEF w
  <2>6. LooksPerSee(w) = 4 /\ TimingOffset["TIME_0_00"] = 0
    BY <2>5, Tables
  <2>7. "TIME_0_00" \in SynchTimings /\ "TIME_0_00" \in Timings
    BY DEF SynchTimings, Timings
  <2>8. Since("TIME_0_00", p) = 0
    BY <2>3, Tables DEF Since
  <2>9. OffsetOf(c) = 0
    BY <1>3, <2>3
  <2>10. Follows(Synchronized(d, "TIME_0_00", w), w, 0, OffsetOf(c), c)
    <3>1. Place(c) \in 0..7
      BY <2>3
    <3>2. 0 < LooksPerSee(w)
      BY <2>6
    <3>3. OffsetOf(c) = TimingOffset["TIME_0_00"] /\ 0 = Since("TIME_0_00", Place(c))
      BY <2>6, <2>8, <2>9
    <3>4. d.see.count = 1 /\ d.see.history[1] = 2
      BY <1>8, <2>3, <2>4
    <3> QED
      BY <1>7, <1>11, <1>12, <2>5, <2>7, <3>1, <3>2, <3>3, <3>4, SynchronizedFollows
  <2>11. Sent(b, v) = w /\ b.see.timing = "TIME_0_00"
    BY <1>7, <2>2, <2>5, <2>7, SynchronizedSent
  <2> QED
    BY <2>2, <2>5, <2>10, <2>11
<1> QED
  BY <1>2, <1>13, <1>14, <1>15 DEF Plain

-----------------------------------------------------------------------------
(* A unit passes.                                                          *)

LEMMA LooksOfCycle ==
  ASSUME NEW p \in 0..23, NEW q, q = (IF p = 23 THEN 0 ELSE p + 1)
  PROVE  /\ Looked(p) \in 0..3 /\ q \in 0..23
         /\ q % 8 # 0 =>
              /\ q = p + 1 /\ q \div 8 = p \div 8
              /\ Looked(q) = IF q % 3 = 0 THEN Looked(p) + 1 ELSE Looked(p)
              /\ LooksBefore(q, 1) = LooksBefore(p, 1)
              /\ LooksBefore(q, 2) = LooksBefore(p, 2)
              /\ LooksBefore(q, 3) = LooksBefore(p, 3)
              /\ q % 3 # 0 => p - (p % 3) = q - (q % 3)
         /\ q % 8 = 0 =>
              /\ p \in {7, 15, 23} /\ Looked(q) = (IF q % 3 = 0 THEN 1 ELSE 0)
              /\ LooksBefore(q, 1) = Looked(p)
              /\ LooksBefore(q, 2) = LooksBefore(p, 1)
              /\ LooksBefore(q, 3) = LooksBefore(p, 2)
              /\ q % 3 = 0 <=> p = 23
              /\ Looked(p) = IF p = 23 THEN 2 ELSE 3
<1>1. Looked(p) \in 0..3 /\ q \in 0..23
  BY DEF Looked
<1>2. q % 8 # 0 =>
              /\ q = p + 1 /\ q \div 8 = p \div 8
              /\ Looked(q) = IF q % 3 = 0 THEN Looked(p) + 1 ELSE Looked(p)
              /\ LooksBefore(q, 1) = LooksBefore(p, 1)
              /\ LooksBefore(q, 2) = LooksBefore(p, 2)
              /\ LooksBefore(q, 3) = LooksBefore(p, 3)
              /\ q % 3 # 0 => p - (p % 3) = q - (q % 3)
  BY DEF Looked, LooksBefore
<1>3. q % 8 = 0 => p \in {7, 15, 23}
  OBVIOUS
<1>4. ASSUME p \in {7, 15, 23}
      PROVE  /\ Looked(q) = (IF q % 3 = 0 THEN 1 ELSE 0)
             /\ LooksBefore(q, 1) = Looked(p)
             /\ LooksBefore(q, 2) = LooksBefore(p, 1)
             /\ LooksBefore(q, 3) = LooksBefore(p, 2)
             /\ q % 3 = 0 <=> p = 23
             /\ Looked(p) = IF p = 23 THEN 2 ELSE 3
  BY <1>4 DEF Looked, LooksBefore
<1> QED
  BY <1>1, <1>2, <1>3, <1>4

LEMMA SinceSteps ==
  ASSUME NEW p \in 0..23, NEW q, q = (IF p = 23 THEN 0 ELSE p + 1),
         NEW timing \in SynchTimings
  PROVE  /\ Since(timing, p) \in 0..7
         /\ q % 3 # 0 => Since(timing, q) = Since(timing, p)
         /\ q % 3 = 0 =>
              Since(timing, q) = IF Since(timing, p) = 7 THEN 0 ELSE Since(timing, p) + 1
<1>1. CASE timing = "TIME_0_00"
  <2>1. Since(timing, p) = p \div 3 /\ Since(timing, q) = q \div 3
    BY <1>1, Tables DEF Since, Round
  <2> QED
    BY <2>1
<1>2. CASE timing = "TIME_50_0"
  <2>1. Since(timing, p) = (IF p >= 12 THEN p - 12 ELSE p + 12) \div 3
        /\ Since(timing, q) = (IF q >= 12 THEN q - 12 ELSE q + 12) \div 3
    BY <1>2, Tables DEF Since, Round
  <2> QED
    BY <2>1
<1>3. CASE timing = "TIME_22_5"
  <2>1. Since(timing, p) = (IF p >= 18 THEN p - 18 ELSE p + 6) \div 3
        /\ Since(timing, q) = (IF q >= 18 THEN q - 18 ELSE q + 6) \div 3
    BY <1>3, Tables DEF Since, Round
  <2> QED
    BY <2>1
<1> QED
  BY <1>1, <1>2, <1>3 DEF SynchTimings

\* Where the next see of a synchronized agent is due.
LEMMA DuePlace ==
  ASSUME NEW p \in 0..23, NEW q, q = (IF p = 23 THEN 0 ELSE p + 1), q % 3 = 0,
         NEW timing \in SynchTimings, NEW w \in Widths,
         timing = "TIME_22_5" => w # "NORMAL",
         Since(timing, p) + 1 = IF w = "NARROW" THEN 2 ELSE IF w = "NORMAL" THEN 4 ELSE 8
  PROVE  /\ <<timing, w, q>> \in Arrivals
         /\ q = 6 => timing = "TIME_0_00" /\ w = "NARROW"
         /\ timing = "TIME_0_00" /\ w # "NARROW" => q \in {0, 12}
<1>1. CASE timing = "TIME_0_00"
  <2>1. Since(timing, p) = p \div 3
    BY <1>1, Tables DEF Since, Round
  <2>2. (w = "NARROW" => q = 6) /\ (w = "NORMAL" => q = 12) /\ (w = "WIDE" => q = 0)
    BY <2>1
  <2>3. w \in {"NARROW", "NORMAL", "WIDE"}
    BY DEF Widths
  <2> QED
    BY <1>1, <2>2, <2>3 DEF Arrivals
<1>2. CASE timing = "TIME_50_0"
  <2>1. Since(timing, p) = (IF p >= 12 THEN p - 12 ELSE p + 12) \div 3
    BY <1>2, Tables DEF Since, Round
  <2>2. (w = "NARROW" => q = 18) /\ (w = "NORMAL" => q = 0) /\ (w = "WIDE" => q = 12)
    BY <2>1
  <2>3. w \in {"NARROW", "NORMAL", "WIDE"}
    BY DEF Widths
  <2> QED
    BY <1>2, <2>2, <2>3 DEF Arrivals
<1>3. CASE timing = "TIME_22_5"
  <2>1. Since(timing, p) = (IF p >= 18 THEN p - 18 ELSE p + 6) \div 3
    BY <1>3, Tables DEF Since, Round
  <2>2. (w = "NARROW" => q = 0) /\ (w = "WIDE" => q = 18)
    BY <2>1
  <2>3. w \in {"NARROW", "WIDE"}
    BY <1>3 DEF Widths
  <2> QED
    BY <1>3, <2>2, <2>3 DEF Arrivals
<1> QED
  BY <1>1, <1>2, <1>3 DEF SynchTimings

\* A unit without message.
LEMMA QuietFollows ==
  ASSUME NEW a, NEW v \in Views, NEW l \in 0..7, NEW o,
         NEW c \in 0..(UnitsPerCycle * Cycles - 1),
         Follows(a, v, l, o, c), a.see \in SeeStates,
         NEW u, u = Successor(c), OffsetOf(u) # 0,
         NEW m, m = IF u % UnitsPerLook = 0 THEN l + 1 ELSE l,
         ~(u % UnitsPerLook = 0 /\ l + 1 >= LooksPerSee(v))
  PROVE  m \in 0..7 /\ Follows(a, v, m, o, u)
<1> DEFINE p == Place(c)
           q == Place(u)
           s == a.see
<1>1. /\ u \in 0..(UnitsPerCycle * Cycles - 1) /\ p \in 0..23 /\ q = (IF p = 23 THEN 0 ELSE p + 1)
      /\ u % UnitsPerLook = q % 3 /\ OffsetOf(u) = q % 8
  BY ClockSteps
<1>2. TimeOf(u) = TimeOf(c)
  BY <1>1, CycleSteps DEF TimeOf
<1>3. m \in 0..7
  BY LooksAreFew
<1>4. Seen(u, m) = Seen(c, l)
  BY <1>3, SeenStays
<1> HIDE DEF p, q
<1>5. /\ q = p + 1 /\ q \div 8 = p \div 8 /\ Looked(p) \in 0..3
      /\ Looked(q) = IF q % 3 = 0 THEN Looked(p) + 1 ELSE Looked(p)
      /\ LooksBefore(q, 1) = LooksBefore(p, 1)
      /\ LooksBefore(q, 2) = LooksBefore(p, 2)
      /\ LooksBefore(q, 3) = LooksBefore(p, 3)
      /\ q % 3 # 0 => p - (p % 3) = q - (q % 3)
  BY <1>1, LooksOfCycle
<1>6. s.count \in Nat
  BY DEF SeeStates
<1>7. Stamped(a, m, u)
  <2>1. Counted(s, q, Looked(q))
    BY <1>5, <1>6 DEF Follows, Stamped, Counted, p
  <2> QED
    BY <1>2, <1>4, <2>1 DEF Follows, Stamped, q
<1>8. ASSUME s.timing = "TIME_NOSYNCH" PROVE Hunting(s, v, m, o, q)
  <2>1. Hunting(s, v, l, o, p) /\ s.count <= Looked(p)
    BY <1>8 DEF Follows, Stamped, Counted, p
  <2>2. CASE q % 3 = 0
    <3>1. v # Trial
      BY <1>1, <2>2, Tables
    <3>2. s.count # Looked(q)
      BY <1>5, <1>6, <2>1, <2>2
    <3> QED
      BY <2>1, <3>1, <3>2 DEF Hunting
  <2>3. CASE q % 3 # 0
    BY <1>1, <1>5, <2>1, <2>3 DEF Hunting
  <2> QED
    BY <2>2, <2>3
<1>9. ASSUME s.timing \in SynchTimings PROVE Tracked(s, a.view, v, m, o, q)
  <2>1. Tracked(s, a.view, v, l, o, p) /\ l = Since(s.timing, p)
    BY <1>9 DEF Follows, Tracked, p
  <2>2. m = Since(s.timing, q)
    <3>1. CASE q % 3 = 0
      <4>1. l # 7
        BY <1>1, <3>1, LooksAreFew
      <4> QED
        BY <1>1, <1>9, <2>1, <3>1, <4>1, SinceSteps
    <3>2. CASE q % 3 # 0
      BY <1>1, <1>9, <2>1, <3>2, SinceSteps
    <3> QED
      BY <3>1, <3>2
  <2>3. m < LooksPerSee(v)
    BY <2>1, LooksAreFew DEF Tracked
  <2>4. (q >= 8 <=> p >= 8) /\ (p \in 12..15 => q \in 12..15) /\ (p \in 0..7 => q \in 0..7)
    BY <1>1, <1>5
  <2> QED
    BY <2>1, <2>2, <2>3, <2>4 DEF Tracked
<1> QED
  BY <1>3, <1>7, <1>8, <1>9 DEF Follows, q

\* The start of a cycle is a new time.
LEMMA NewTime ==
  ASSUME NEW a, NEW v, NEW l \in 0..7, NEW o, NEW c \in 0..(UnitsPerCycle * Cycles - 1),
         Follows(a, v, l, o, c), NEW u, u = Successor(c), OffsetOf(u) = 0
  PROVE  a.see.now # TimeOf(u) /\ a.see.lastSee # TimeOf(u)
<1>1. u \in 0..(UnitsPerCycle * Cycles - 1) /\ Place(u) % 8 = 0
  BY ClockSteps
<1>2. Seen(c, l) # TimeOf(u) /\ TimeOf(c) # TimeOf(u) /\ TimeOf(u) # NoTime
  BY <1>1, SeenIsOld, TimeSeen
<1> QED
  BY <1>2 DEF Follows, Stamped, Fresh

LEMMA SenseFields ==
  ASSUME NEW a \in Drafts, NEW v \in Views, NEW c \in 0..(UnitsPerCycle * Cycles - 1),
         NEW b, b = SenseAt(a, TimeOf(c), v),
         NEW r, r = SetNewCycle(a.see, TimeOf(c))
  PROVE  /\ b.now = TimeOf(c) /\ b.seeTime = a.seeTime /\ b.view = v /\ b.out = a.out
         /\ b.see.now = r.now /\ b.see.lastSee = r.lastSee /\ b.see.timing = r.timing
         /\ b.see.count = r.count /\ b.see.history = r.history
         /\ b.see.synchSee = r.synchSee /\ b.see.synchType = r.synchType
<1> DEFINE t == TimeOf(c)
           e == UpdateBySenseBody(a.see, t, v)
<1>2. b = [a EXCEPT !.now = t, !.senseTime = t, !.bodyAge = 0, !.view = v, !.see = e]
  BY DEF SenseAt
<1>3. r \in SeeStates /\ t \in GameTimes
  BY TimeSeen, NewCycleType DEF Drafts
<1>4. e = [r EXCEPT !.width = v.width, !.quality = v.quality]
  BY DEF UpdateBySenseBody
<1> HIDE DEF t, e
<1>5. b.now = t /\ b.seeTime = a.seeTime /\ b.view = v /\ b.out = a.out /\ b.see = e
  BY <1>2 DEF Drafts
<1> QED
  BY <1>3, <1>4, <1>5 DEF SeeStates, t

\* A sense_body without a see.
LEMMA SenseFollows ==
  ASSUME NEW a \in Drafts, NEW v \in Views, NEW l \in 0..7, NEW o,
         NEW c \in 0..(UnitsPerCycle * Cycles - 1),
         Follows(a, v, l, o, c),
         NEW u, u = Successor(c), OffsetOf(u) = 0,
         NEW m, m = IF u % UnitsPerLook = 0 THEN l + 1 ELSE l,
         ~(u % UnitsPerLook = 0 /\ l + 1 >= LooksPerSee(v)),
         NEW b, b = SenseAt(a, TimeOf(u), v)
  PROVE  m \in 0..7 /\ Follows(b, v, m, o, u)
<1> DEFINE p == Place(c)
           q == Place(u)
           s == a.see
           r == SetNewCycle(s, TimeOf(u))
           e == b.see
<1>1. /\ u \in 0..(UnitsPerCycle * Cycles - 1) /\ p \in 0..23 /\ q = (IF p = 23 THEN 0 ELSE p + 1)
      /\ u % UnitsPerLook = q % 3 /\ q % 8 = 0
  BY ClockSteps
<1>2. s \in SeeStates /\ s.count \in Nat /\ TimeOf(u) \in GameTimes
  BY <1>1, TimeSeen DEF Drafts, SeeStates
<1>3. m \in 0..7
  BY LooksAreFew
<1>4. Seen(u, m) = Seen(c, l)
  BY <1>3, SeenStays
<1>5. /\ r.now = TimeOf(u) /\ r.count = 0 /\ r.lastSee = s.lastSee /\ r.timing = s.timing
      /\ r.synchType = s.synchType /\ r.synchSee = s.synchSee
      /\ r.history[1] = s.count /\ r.history[2] = s.history[1] /\ r.history[3] = s.history[2]
  <2>1. s.now # TimeOf(u)
    BY NewTime
  <2> QED
    BY <1>2, <2>1, NewCycleFields
<1>6. /\ b.now = TimeOf(u) /\ b.seeTime = a.seeTime /\ b.view = v
      /\ e.now = TimeOf(u) /\ e.lastSee = s.lastSee /\ e.timing = s.timing /\ e.count = 0
      /\ e.synchSee = s.synchSee /\ e.synchType = s.synchType
      /\ e.history[1] = s.count /\ e.history[2] = s.history[1] /\ e.history[3] = s.history[2]
  <2>1. /\ b.now = TimeOf(u) /\ b.seeTime = a.seeTime /\ b.view = v
        /\ e.now = r.now /\ e.lastSee = r.lastSee /\ e.timing = r.timing
        /\ e.count = r.count /\ e.history = r.history
        /\ e.synchSee = r.synchSee /\ e.synchType = r.synchType
    BY <1>1, SenseFields
  <2> HIDE DEF r, e, s
  <2> QED
    BY <1>5, <2>1
<1>7. /\ p \in {7, 15, 23} /\ Looked(q) = (IF q % 3 = 0 THEN 1 ELSE 0)
      /\ LooksBefore(q, 1) = Looked(p)
      /\ LooksBefore(q, 2) = LooksBefore(p, 1)
      /\ LooksBefore(q, 3) = LooksBefore(p, 2)
      /\ q % 3 = 0 <=> p = 23
      /\ Looked(p) = IF p = 23 THEN 2 ELSE 3
  BY <1>1, LooksOfCycle, Zenon
<1> HIDE DEF p, q, r, e
<1>8. Stamped(b, m, u)
  <2>1. Counted(e, q, Looked(q))
    BY <1>6, <1>7 DEF Follows, Stamped, Counted, p
  <2> QED
    BY <1>4, <1>6, <2>1 DEF Follows, Stamped, Plain, q, e
<1>9. ASSUME s.timing = "TIME_NOSYNCH" PROVE Hunting(e, v, m, o, q)
  <2>1. Hunting(s, v, l, o, p) /\ s.count <= Looked(p)
    BY <1>9 DEF Follows, Stamped, Counted, p
  <2>2. q % 3 = 0 => v # Trial
    BY <1>1, Tables
  <2>3. s.count = 3 => v = Trial /\ q % 3 # 0 /\ l = 0
    BY <1>7, <2>1 DEF Hunting
  <2>4. ~(s.count = 2 /\ s.history[1] = 3)
    BY <1>7, <2>1, <2>2 DEF Hunting
  <2>5. m = IF q % 3 = 0 THEN l + 1 ELSE l
    BY <1>1
  <2> QED
    BY <1>6, <1>7, <2>3, <2>4, <2>5 DEF Hunting
<1>10. ASSUME s.timing \in SynchTimings PROVE Tracked(e, v, v, m, o, q)
  <2>1. Tracked(s, a.view, v, l, o, p) /\ l = Since(s.timing, p)
    BY <1>10 DEF Follows, Tracked, p
  <2>2. m = Since(s.timing, q)
    <3>1. CASE q % 3 = 0
      <4>1. l # 7
        BY <1>1, <3>1, LooksAreFew
      <4> QED
        BY <1>1, <1>10, <2>1, <3>1, <4>1, SinceSteps
    <3>2. CASE q % 3 # 0
      BY <1>1, <1>10, <2>1, <3>2, SinceSteps
    <3> QED
      BY <3>1, <3>2
  <2>3. m < LooksPerSee(v)
    BY <2>1, LooksAreFew DEF Tracked
  <2>4. s.count # 3 /\ (~conf.synch => s.count # 2)
    BY <2>1 DEF Tracked
  <2> QED
    BY <1>6, <2>1, <2>2, <2>3, <2>4 DEF Tracked
<1> QED
  BY <1>3, <1>6, <1>8, <1>9, <1>10 DEF Follows, q, e

\* A see is due, and SeeState has or will get the time of its cycle.
LEMMA DueExpects ==
  ASSUME NEW a, a.see \in SeeStates, NEW v \in Views, NEW l \in 0..7, NEW o,
         NEW c \in 0..(UnitsPerCycle * Cycles - 1),
         Follows(a, v, l, o, c),
         NEW u, u = Successor(c), u % UnitsPerLook = 0, l + 1 >= LooksPerSee(v),
         NEW av \in {v, a.view},
         NEW r, r = SetNewCycle(a.see, TimeOf(u))
  PROVE  /\ Expects(r, av, v, u)
         /\ CountSee(a.see, TimeOf(u)) = CountSee(r, TimeOf(u))
         /\ OffsetOf(u) = 0 => Place(u) = 0 /\ r.lastSee # TimeOf(u)
<1> DEFINE p == Place(c)
           q == Place(u)
           s == a.see
           t == TimeOf(u)
<1>1. /\ u \in 0..(UnitsPerCycle * Cycles - 1) /\ p \in 0..23 /\ q = (IF p = 23 THEN 0 ELSE p + 1)
      /\ q % 3 = 0 /\ OffsetOf(u) = q % 8
  BY ClockSteps
<1>2. t \in GameTimes /\ t # NoTime /\ s.count \in Nat
  BY <1>1, TimeSeen DEF SeeStates
<1>3. Plain(s) /\ (s.count >= 1 => s.lastSee = TimeOf(c)) /\ Counted(s, p, Looked(p))
  BY DEF Follows, Stamped
<1>4. s.timing \in SynchTimings =>
        /\ <<s.timing, v.width, q>> \in Arrivals /\ v.quality = "HIGH"
        /\ q = 6 => s.timing = "TIME_0_00" /\ v.width = "NARROW"
        /\ s.timing = "TIME_0_00" /\ v.width # "NARROW" => q \in {0, 12}
        /\ q # 6 => av = v
  <2> SUFFICES ASSUME s.timing \in SynchTimings
               PROVE  /\ <<s.timing, v.width, q>> \in Arrivals /\ v.quality = "HIGH"
                      /\ q = 6 => s.timing = "TIME_0_00" /\ v.width = "NARROW"
                      /\ s.timing = "TIME_0_00" /\ v.width # "NARROW" => q \in {0, 12}
                      /\ q # 6 => av = v
    OBVIOUS
  <2>1. Tracked(s, a.view, v, l, o, p)
    BY DEF Follows
  <2>2. v.quality = "HIGH" /\ l + 1 = LooksPerSee(v) /\ l = Since(s.timing, p) /\ v.width \in Widths
    BY <2>1, LooksAreFew DEF Tracked, Views
  <2>3. Since(s.timing, p) + 1 = IF v.width = "NARROW" THEN 2 ELSE IF v.width = "NORMAL" THEN 4 ELSE 8
    BY <2>2, Tables
  <2>4. s.timing = "TIME_22_5" => v.width # "NORMAL"
    BY <2>1 DEF Tracked
  <2>5. /\ <<s.timing, v.width, q>> \in Arrivals
        /\ q = 6 => s.timing = "TIME_0_00" /\ v.width = "NARROW"
        /\ s.timing = "TIME_0_00" /\ v.width # "NARROW" => q \in {0, 12}
    BY <1>1, <2>2, <2>3, <2>4, DuePlace
  <2>6. q # 6 => s.timing # "TIME_0_00" \/ p >= 8
    BY <1>1, <2>5 DEF Arrivals
  <2> QED
    BY <2>1, <2>2, <2>5, <2>6 DEF Tracked
<1>5. CASE OffsetOf(u) = 0
  <2>1. s.now # t /\ s.lastSee # t
    BY <1>5, NewTime
  <2>2. /\ r.now = t /\ r.count = 0 /\ r.lastSee = s.lastSee /\ r.timing = s.timing
        /\ r.synchType = s.synchType /\ r.synchSee = s.synchSee
        /\ r.history[1] = s.count /\ r.history[2] = s.history[1] /\ r.history[3] = s.history[2]
    BY <1>2, <2>1, NewCycleFields
  <2>3. CountSee(s, t) = CountSee(r, t)
    BY <1>2, <2>1, CountsInItsCycle
  <2>4. p = 23 /\ q = 0 /\ Looked(p) = 2 /\ Looked(q) = 1
        /\ LooksBefore(q, 1) = Looked(p)
        /\ LooksBefore(q, 2) = LooksBefore(p, 1)
        /\ LooksBefore(q, 3) = LooksBefore(p, 2)
    BY <1>1, <1>5, LooksOfCycle
  <2> HIDE DEF q, p
  <2>5. Counted(r, q, Looked(q) - 1)
    BY <1>3, <2>2, <2>4 DEF Counted
  <2>6. s.count <= 2
    BY <1>3, <2>4 DEF Counted
  <2>7. s.timing \in SynchTimings => s.count # 3 /\ (~conf.synch => s.count # 2)
    BY <2>4 DEF Follows, Tracked, p
  <2>8. Plain(r)
    BY <1>3, <2>2 DEF Plain
  <2>9. r.timing = "TIME_NOSYNCH" =>
          /\ r.count = Looked(q) - 1 /\ r.count >= 1 => v = Trial
          /\ r.history[1] = 3 => v = Trial /\ r.count = Looked(q) - 1
          /\ ~conf.synch /\ r.history[1] = 2 /\ r.history[2] = 3 => q = 0
    BY <1>2, <2>2, <2>4, <2>6
  <2>10. r.timing \in SynchTimings =>
          /\ <<r.timing, v.width, q>> \in Arrivals /\ v.quality = "HIGH"
          /\ q # 6 => av = v /\ r.count = 0 /\ r.lastSee # t
          /\ q = 6 => r.lastSee = t /\ r.count <= 1
          /\ r.history[1] # 3
          /\ ~conf.synch => r.history[1] # 2
    BY <1>4, <2>1, <2>2, <2>4, <2>7
  <2>11. r.count >= 1 => r.lastSee = t
    BY <2>2
  <2>12. q % 3 = 0
    BY <1>1
  <2> HIDE DEF t
  <2>13. Expects(r, av, v, u)
    BY <2>2, <2>5, <2>8, <2>9, <2>10, <2>11, <2>12 DEF Expects, q, t
  <2> QED
    BY <2>1, <2>2, <2>3, <2>4, <2>13 DEF q, t
<1>6. CASE OffsetOf(u) # 0
  <2>1. t = TimeOf(c)
    BY <1>1, <1>6, CycleSteps DEF TimeOf
  <2>2. Fresh(s) \/ s.now = t
    BY <2>1 DEF Follows, Stamped
  <2>3. s.lastSee = t => t = s.now
    BY <1>2, <2>2 DEF Fresh
  <2>4. CountSee(s, t) = CountSee(r, t)
    BY <1>2, <2>3, CountsInItsCycle
  <2>5. /\ r.now = t /\ r.count = s.count /\ r.lastSee = s.lastSee /\ r.timing = s.timing
        /\ r.synchType = s.synchType /\ r.synchSee = s.synchSee
        /\ r.history[1] = s.history[1] /\ r.history[2] = s.history[2] /\ r.history[3] = s.history[3]
    <3>1. CASE s.now = t
      BY <3>1 DEF SetNewCycle
    <3>2. CASE s.now # t
      <4>1. /\ r.now = t /\ r.count = 0 /\ r.lastSee = s.lastSee /\ r.timing = s.timing
            /\ r.synchType = s.synchType /\ r.synchSee = s.synchSee
            /\ r.history[1] = s.count /\ r.history[2] = s.history[1] /\ r.history[3] = s.history[2]
        BY <1>2, <3>2, NewCycleFields
      <4> QED
        BY <2>2, <3>2, <4>1 DEF Fresh
    <3> QED
      BY <3>1, <3>2
  <2>6. /\ q = p + 1 /\ Looked(p) \in 0..3 /\ Looked(q) = Looked(p) + 1
        /\ LooksBefore(q, 1) = LooksBefore(p, 1)
        /\ LooksBefore(q, 2) = LooksBefore(p, 2)
        /\ LooksBefore(q, 3) = LooksBefore(p, 3)
    BY <1>1, <1>6, LooksOfCycle
  <2>7. Counted(r, q, Looked(q) - 1)
    BY <1>3, <2>5, <2>6 DEF Counted
  <2>8. Plain(r)
    BY <1>3, <2>5 DEF Plain
  <2>9. r.timing = "TIME_NOSYNCH" =>
          /\ r.count = Looked(q) - 1 /\ r.count >= 1 => v = Trial
          /\ r.history[1] = 3 => v = Trial /\ r.count = Looked(q) - 1
          /\ ~conf.synch /\ r.history[1] = 2 /\ r.history[2] = 3 => q = 0
    <3> SUFFICES ASSUME s.timing = "TIME_NOSYNCH"
                 PROVE  /\ s.count = Looked(p) /\ s.count >= 1 => v = Trial
                        /\ s.history[1] = 3 => v = Trial /\ s.count = Looked(p)
                        /\ ~conf.synch => ~(s.history[1] = 2 /\ s.history[2] = 3)
      BY <2>5, <2>6
    <3>1. Hunting(s, v, l, o, p)
      BY DEF Follows
    <3>2. l = 0 => v = Trial
      BY LooksAreFew, Tables
    <3> QED
      BY <3>1, <3>2 DEF Hunting
  <2>10. s.timing \in SynchTimings =>
           /\ q # 6 => s.count = 0 /\ s.lastSee # t
           /\ q = 6 => s.lastSee = t /\ s.count <= 1
           /\ s.history[1] # 3
           /\ ~conf.synch => s.history[1] # 2
    <3> SUFFICES ASSUME s.timing \in SynchTimings
                 PROVE  /\ q # 6 => s.lastSee # t
                        /\ q = 6 => s.lastSee = t /\ s.count <= 1
                        /\ s.history[1] # 3
                        /\ ~conf.synch => s.history[1] # 2
      BY <1>2, <1>3, <2>1
    <3>1. Tracked(s, a.view, v, l, o, p)
      BY DEF Follows
    <3>2. /\ s.timing = "TIME_0_00" => (s.lastSee = t <=> p \in 0..7)
          /\ s.timing = "TIME_50_0" => (s.lastSee = t <=> p \in 12..15)
          /\ s.timing = "TIME_22_5" => (s.lastSee = t <=> p \in 18..23)
      BY <2>1, CurrentSeePlace
    <3>3. <<s.timing, v.width, q>> \in Arrivals
      BY <1>4
    <3>4. q \in {0, 6, 12, 18} /\ q # 0
      BY <1>1, <1>6, <3>3 DEF Arrivals
    <3>5. p \in {5, 11, 17} /\ (q = 6 => p = 5)
      BY <1>1, <2>6, <3>4
    <3>6. (q = 18 => s.timing # "TIME_0_00") /\ (q = 12 => s.timing # "TIME_22_5")
      BY <3>3 DEF Arrivals
    <3> HIDE DEF q, p, t
    <3>7. q = 6 => s.timing = "TIME_0_00" /\ v.width = "NARROW"
      BY <1>4
    <3>8. q # 6 => p \in {11, 17}
      BY <2>6, <3>5
    <3>9. p \notin 12..15
      BY <3>5
    <3>10. q # 6 => s.lastSee # t
      BY <3>2, <3>8, <3>9 DEF SynchTimings
    <3>11. q = 6 => s.lastSee = t /\ s.count <= 1
      BY <3>1, <3>2, <3>5, <3>7 DEF Tracked
    <3>12. s.history[1] # 3
      BY <3>1, <3>9 DEF Tracked
    <3>13. ~conf.synch => s.history[1] # 2
      <4> SUFFICES ASSUME ~conf.synch, s.history[1] = 2 PROVE FALSE
        OBVIOUS
      <4>1. s.timing = "TIME_0_00" /\ p \in 0..7 /\ v.width # "NARROW"
        BY <3>1 DEF Tracked
      <4>2. q \in {0, 12}
        BY <1>4, <4>1
      <4> QED
        BY <2>6, <4>1, <4>2, <3>4
    <3> QED
      BY <3>10, <3>11, <3>12, <3>13
  <2>11. r.count >= 1 => r.lastSee = t
    BY <1>3, <2>1, <2>5
  <2> HIDE DEF t, q
  <2>12. r.timing \in SynchTimings =>
          /\ <<r.timing, v.width, q>> \in Arrivals /\ v.quality = "HIGH"
          /\ q # 6 => av = v /\ r.count = 0 /\ r.lastSee # t
          /\ q = 6 => r.lastSee = t /\ r.count <= 1
          /\ r.history[1] # 3
          /\ ~conf.synch => r.history[1] # 2
    BY <1>4, <2>5, <2>10
  <2>13. Expects(r, av, v, u)
    BY <1>1, <2>5, <2>7, <2>8, <2>9, <2>11, <2>12 DEF Expects, q, t
  <2> QED
    BY <1>6, <2>4, <2>13 DEF t
<1> QED
  BY <1>5, <1>6

\* A sense_body that the see of its cycle has overtaken at the start of a round.
LEMMA StaleSense ==
  ASSUME NEW a \in Drafts, NEW w \in Views, NEW v, NEW l, NEW o,
         NEW c \in 0..(UnitsPerCycle * Cycles - 1),
         Follows(a, v, l, o, c), Place(c) = 0,
         a.see.timing \in {"TIME_0_00", "TIME_NOSYNCH"},
         NEW b, b = SenseAt(a, TimeOf(c), w)
  PROVE  Follows(b, v, l, o, c)
<1> DEFINE s == a.see
           r == SetNewCycle(s, TimeOf(c))
           e == b.see
<1>1. s \in SeeStates /\ TimeOf(c) \in GameTimes
  BY TimeSeen DEF Drafts
<1>2. /\ r.now = TimeOf(c) /\ r.count = s.count /\ r.lastSee = s.lastSee /\ r.timing = s.timing
      /\ r.synchType = s.synchType /\ r.synchSee = s.synchSee
      /\ r.history[1] = s.history[1] /\ r.history[2] = s.history[2] /\ r.history[3] = s.history[3]
  <2>1. CASE s.now = TimeOf(c)
    BY <2>1 DEF SetNewCycle
  <2>2. CASE s.now # TimeOf(c)
    <3>1. Fresh(s)
      BY <2>2 DEF Follows, Stamped
    <3>2. /\ r.now = TimeOf(c) /\ r.count = 0 /\ r.lastSee = s.lastSee /\ r.timing = s.timing
          /\ r.synchType = s.synchType /\ r.synchSee = s.synchSee
          /\ r.history[1] = s.count /\ r.history[2] = s.history[1] /\ r.history[3] = s.history[2]
      BY <1>1, <2>2, NewCycleFields
    <3> QED
      BY <3>1, <3>2 DEF Fresh
  <2> QED
    BY <2>1, <2>2
<1>3. /\ b.now = TimeOf(c) /\ b.seeTime = a.seeTime
      /\ e.now = r.now /\ e.lastSee = r.lastSee /\ e.timing = r.timing
      /\ e.count = r.count /\ e.history = r.history
      /\ e.synchSee = r.synchSee /\ e.synchType = r.synchType
  BY SenseFields
<1> HIDE DEF r, e
<1>4. /\ e.now = TimeOf(c) /\ e.lastSee = s.lastSee /\ e.timing = s.timing /\ e.count = s.count
      /\ e.history[1] = s.history[1] /\ e.history[2] = s.history[2] /\ e.history[3] = s.history[3]
      /\ e.synchSee = s.synchSee /\ e.synchType = s.synchType
  BY <1>2, <1>3
<1>5. Stamped(b, l, c)
  BY <1>3, <1>4 DEF Follows, Stamped, Plain, Counted, e
<1>6. s.timing = "TIME_NOSYNCH" => Hunting(e, v, l, o, Place(c))
  BY <1>4 DEF Follows, Hunting
<1>7. s.timing \in SynchTimings => Tracked(e, b.view, v, l, o, Place(c))
  <2> SUFFICES ASSUME s.timing \in SynchTimings
               PROVE  Tracked(e, b.view, v, l, o, Place(c))
    OBVIOUS
  <2>1. s.timing = "TIME_0_00"
    BY DEF SynchTimings
  <2> QED
    BY <1>4, <2>1 DEF Follows, Tracked
<1> QED
  BY <1>4, <1>5, <1>6, <1>7 DEF Follows, e

\* Expects depends on these fields only.
LEMMA ExpectsSame ==
  ASSUME NEW r, NEW e, NEW av, NEW v, NEW c, Expects(r, av, v, c),
         e.now = r.now, e.lastSee = r.lastSee, e.timing = r.timing,
         e.count = r.count, e.history = r.history,
         e.synchSee = r.synchSee, e.synchType = r.synchType
  PROVE  Expects(e, av, v, c)
BY DEF Expects, Plain, Counted

\* A decision on a message comes with the see of its cycle and keeps the timing.
LEMMA DecidedTiming ==
  ASSUME NEW a \in Drafts, Plain(a.see), DecidesOnMessage(a), NEW b \in Decided(a)
  PROVE  b.see.timing = a.see.timing
<1>1. ~conf.synch /\ ~MissedSee(a, a.see)
  BY DEF DecidesOnMessage, MissedSee
<1>2. BeforeActions(a) = a
  BY <1>1 DEF BeforeActions
<1>3. PICK w \in ViewWishes(a) : b = [ExecuteView(a, w) EXCEPT !.lastDecision = a.now]
  BY <1>2 DEF Decided
<1> DEFINE f == ExecuteView(a, w)
<1>4. f.see.timing = a.see.timing
  <2>1. CASE MayChangeView(a, w)
    <3>1. View(w, "HIGH") \in Views
      BY <2>1, ViewType DEF MayChangeView, Qualities
    <3>2. f.see = SetViewMode(a.see, View(w, "HIGH")) /\ a.see \in SeeStates
      BY <2>1, <3>1, SendFields DEF ExecuteView, Drafts
    <3> HIDE DEF f
    <3> QED
      BY <3>1, <3>2, ViewModeFields
  <2>2. CASE ~MayChangeView(a, w)
    BY <2>2 DEF ExecuteView
  <2> QED
    BY <2>1, <2>2
<1>5. f \in Drafts
  BY ExecuteViewType
<1> HIDE DEF f
<1>6. b.see = f.see
  BY <1>3, <1>5 DEF Drafts, f
<1> QED
  BY <1>4, <1>6

-----------------------------------------------------------------------------
(* The steps of the system.                                                *)

\* What is said of one agent in one state is said of the state to come.
LEMMA FollowsNext ==
  ASSUME NEW a, NEW v, NEW l, NEW o, NEW c, Follows(a, v, l, o, c), UNCHANGED conf,
         ag'.now = a.now, ag'.seeTime = a.seeTime, ag'.see = a.see, ag'.view = a.view,
         srv'.view = v, srv'.looks = l, srv'.lastSee = o, clock' = c
  PROVE  Follows(ag, srv.view, srv.looks, srv.lastSee, clock)'
BY DEF Follows, Stamped, Hunting, Tracked, Counted, Fresh, Plain, TimeOf, Seen, Stamp

LEMMA FollowedNext ==
  ASSUME NEW a, NEW v, NEW l, NEW o, NEW c, Follows(a, v, l, o, c), UNCHANGED conf,
         ag'.now = a.now, ag'.seeTime = a.seeTime, ag'.see = a.see, ag'.view = a.view,
         srv'.view = v
  PROVE  Follows(ag, srv.view, l, o, c)'
BY DEF Follows, Stamped, Hunting, Tracked, Counted, Fresh, Plain, TimeOf, Seen, Stamp

LEMMA ExpectsNext ==
  ASSUME NEW s, NEW av, NEW v, NEW c, Expects(s, av, v, c), UNCHANGED conf,
         ag'.see = s, ag'.view = av, srv'.view = v, clock' = c
  PROVE  Expects(ag.see, ag.view, srv.view, clock)'
BY DEF Expects, Plain, Counted, TimeOf

\* No command is lost: the server gets the last one.
LEMMA DeliverCalm ==
  ASSUME TypeOK, conf.maxLost = 0, lost = 0, NEW a \in Drafts, Deliver(a)
  PROVE  /\ ag' = [a EXCEPT !.out = <<>>]
         /\ ag'.now = a.now /\ ag'.seeTime = a.seeTime /\ ag'.see = a.see /\ ag'.view = a.view
         /\ srv'.view = Sent(a, srv.view)
         /\ srv'.looks = srv.looks /\ srv'.lastSee = srv.lastSee
         /\ lost' = 0
<1>1. /\ ag' = [a EXCEPT !.out = <<>>]
      /\ srv' = [srv EXCEPT !.view = IF a.out = <<>> THEN @ ELSE a.out[Len(a.out)]]
      /\ lost' = 0
  BY DEF Deliver
<1>2. srv' = [srv EXCEPT !.view = Sent(a, srv.view)]
  BY <1>1 DEF Sent
<1>3. srv'.view = Sent(a, srv.view) /\ srv'.looks = srv.looks /\ srv'.lastSee = srv.lastSee
  BY <1>2 DEF TypeOK
<1>4. ag'.now = a.now /\ ag'.seeTime = a.seeTime /\ ag'.see = a.see /\ ag'.view = a.view
  BY <1>1 DEF Drafts
<1> QED
  BY <1>1, <1>3, <1>4

\* What a handler leaves is decided upon, if the code would, and the commands are sent.
Outcome(a) == \E b \in IF DecidesOnMessage(a) THEN Decided(a) ELSE {a} : Deliver(b)

LEMMA OutcomeFollows ==
  ASSUME TypeOK, conf.maxLost = 0, lost = 0, ~playOn, UNCHANGED <<conf, clock>>,
         NEW a \in Drafts, Outcome(a), Sent(a, srv.view) \in Views,
         Follows(a, Sent(a, srv.view), srv.looks, srv.lastSee, clock)
  PROVE  /\ Follows(ag, srv.view, srv.looks, srv.lastSee, clock)'
         /\ lost' = 0
         /\ DecidesOnMessage(a) \/ ag'.see.timing = a.see.timing
         /\ ag'.see.timing = a.see.timing
<1>1. PICK b \in IF DecidesOnMessage(a) THEN Decided(a) ELSE {a} : Deliver(b)
  BY DEF Outcome
<1>2. b \in Drafts
  BY <1>1, DecidedType
<1>3. srv.view \in Views /\ srv.looks \in 0..7 /\ clock \in 0..(UnitsPerCycle * Cycles - 1)
  BY DEF TypeOK
<1>4. Follows(b, Sent(b, srv.view), srv.looks, srv.lastSee, clock) /\ b.see.timing = a.see.timing
  <2>1. CASE DecidesOnMessage(a)
    <3>1. Follows(b, Sent(b, srv.view), srv.looks, srv.lastSee, clock)
      BY <1>1, <1>3, <2>1, DecidedFollows
    <3>2. Plain(a.see)
      BY DEF Follows, Stamped
    <3> QED
      BY <1>1, <2>1, <3>1, <3>2, DecidedTiming
  <2>2. CASE ~DecidesOnMessage(a)
    BY <1>1, <2>2
  <2> QED
    BY <2>1, <2>2
<1>5. /\ ag'.now = b.now /\ ag'.seeTime = b.seeTime /\ ag'.see = b.see /\ ag'.view = b.view
      /\ srv'.view = Sent(b, srv.view)
      /\ srv'.looks = srv.looks /\ srv'.lastSee = srv.lastSee
      /\ lost' = 0
  BY <1>1, <1>2, DeliverCalm
<1> QED
  BY <1>4, <1>5, FollowsNext

LEMMA HandleOne ==
  ASSUME HandleMessage, NEW m, net = <<m>>
  PROVE  Outcome(Analyze(ag, m)) /\ net' = <<>> /\ UNCHANGED <<conf, clock, playOn>>
<1>1. PICK n \in 1..Len(net) : \E a \in Drained(n) :
        /\ \E b \in IF DecidesOnMessage(a) THEN Decided(a) ELSE {a} : Deliver(b)
        /\ net' = SubSeq(net, n + 1, Len(net))
  BY DEF HandleMessage
<1>2. n = 1 /\ net[1] = m /\ net' = <<>>
  BY <1>1
<1>3. Drained(n) = {Analyze(ag, m)}
  BY <1>2 DEF Drained
<1> QED
  BY <1>1, <1>2, <1>3 DEF HandleMessage, Outcome

LEMMA HandleTwo ==
  ASSUME HandleMessage, NEW m, NEW k, net = <<m, k>>
  PROVE  /\ \/ Outcome(Analyze(ag, m)) /\ net' = <<k>>
            \/ Outcome(Analyze(Analyze(ag, m), k)) /\ net' = <<>>
         /\ UNCHANGED <<conf, clock, playOn>>
<1>1. PICK n \in 1..Len(net) : \E a \in Drained(n) :
        /\ \E b \in IF DecidesOnMessage(a) THEN Decided(a) ELSE {a} : Deliver(b)
        /\ net' = SubSeq(net, n + 1, Len(net))
  BY DEF HandleMessage
<1>2. n \in {1, 2} /\ net[1] = m /\ net[2] = k /\ Len(net) = 2
  BY <1>1
<1>3. \E a \in Drained(n) : Outcome(a)
  BY <1>1 DEF Outcome
<1>4. CASE n = 1
  <2>1. net' = SubSeq(<<m, k>>, 2, 2) /\ Drained(n) = {Analyze(ag, m)}
    BY <1>1, <1>2, <1>4 DEF Drained
  <2>2. net' = <<k>>
    BY <2>1, Second, Zenon
  <2> QED
    BY <1>3, <2>1, <2>2 DEF HandleMessage
<1>5. CASE n = 2
  <2>1. net' = SubSeq(<<m, k>>, 3, 2) /\ Drained(n) = {Analyze(Analyze(ag, m), k)}
    BY <1>1, <1>2, <1>5 DEF Drained
  <2>2. net' = <<>>
    BY <2>1, Second, Zenon
  <2> QED
    BY <1>3, <2>1, <2>2 DEF HandleMessage
<1> QED
  BY <1>2, <1>4, <1>5

LEMMA Messages ==
  ASSUME NEW c \in 0..(UnitsPerCycle * Cycles - 1), NEW v \in Views, NEW a
  PROVE  /\ SeeMsg(c) \in Sees /\ SenseMsg(c, v) \in Senses
         /\ Analyze(a, SeeMsg(c)) = SeeAt(a, UpdateCurrentTime(a, SentCycle(c), FALSE))
         /\ Analyze(a, SenseMsg(c, v)) = SenseAt(a, UpdateCurrentTime(a, SentCycle(c), TRUE), v)
<1>1. SentCycle(c) \in Nat
  BY ClockType
<1>2. SeeMsg(c) \in Sees /\ SeeMsg(c).type = "see" /\ SeeMsg(c).cycle = SentCycle(c)
  BY <1>1 DEF SeeMsg, Sees
<1>3. /\ SenseMsg(c, v) \in Senses /\ SenseMsg(c, v).type # "see"
      /\ SenseMsg(c, v).cycle = SentCycle(c) /\ SenseMsg(c, v).view = v
  BY <1>1 DEF SenseMsg, Senses
<1>4. Analyze(a, SeeMsg(c)) = AnalyzeSee(a, SeeMsg(c))
  BY <1>2 DEF Analyze
<1>5. Analyze(a, SenseMsg(c, v)) = AnalyzeSenseBody(a, SenseMsg(c, v))
  BY <1>3 DEF Analyze
<1> QED
  BY <1>2, <1>3, <1>4, <1>5, AnalyzeAt

\* On a running clock a message tells the time.
LEMMA RunningTime ==
  ASSUME ~conf.stopped, NEW a, NEW c, NEW bySenseBody
  PROVE  UpdateCurrentTime(a, SentCycle(c), bySenseBody) = TimeOf(c)
BY DEF UpdateCurrentTime, SentCycle, TimeOf

\* On any clock a see of the current time leaves it.
LEMMA SameTime ==
  ASSUME NEW a, NEW c, conf.stopped => a.now = TimeOf(c)
  PROVE  UpdateCurrentTime(a, SentCycle(c), FALSE) = TimeOf(c)
<1>1. CASE conf.stopped
  <2>1. a.now = Time(0, CycleOf(c)) /\ a.now.cycle = 0
    BY <1>1 DEF TimeOf, Time
  <2> QED
    BY <1>1, <2>1 DEF UpdateCurrentTime, SentCycle, TimeOf
<1>2. CASE ~conf.stopped
  BY <1>2, RunningTime
<1> QED
  BY <1>1, <1>2

\* And the sense_body of the next cycle brings the next time.
LEMMA NextTime ==
  ASSUME NEW a, NEW c \in 0..(UnitsPerCycle * Cycles - 1), conf.stopped => a.now = TimeOf(c),
         NEW u, u = Successor(c)
  PROVE  /\ OffsetOf(u) = 0 => UpdateCurrentTime(a, SentCycle(u), TRUE) = TimeOf(u)
         /\ OffsetOf(u) # 0 => UpdateCurrentTime(a, SentCycle(u), FALSE) = TimeOf(u)
<1>1. u \in 0..(UnitsPerCycle * Cycles - 1) /\ OffsetOf(u) = Place(u) % 8
  BY ClockSteps
<1>2. /\ OffsetOf(u) # 0 => CycleOf(u) = CycleOf(c)
      /\ OffsetOf(u) = 0 => CycleOf(u) = IF CycleOf(c) = Cycles - 1 THEN 0 ELSE CycleOf(c) + 1
  BY <1>1, CycleSteps
<1>3. CycleOf(c) \in 0..(Cycles - 1) /\ Cycles \in Nat /\ Cycles > 3
  BY ClockSteps, SeeSyncAssumption
<1>4. CASE conf.stopped
  <2>1. a.now.cycle = 0 /\ a.now.stopped = CycleOf(c) /\ a.now = Time(0, CycleOf(c))
    BY <1>4 DEF TimeOf, Time
  <2>2. OffsetOf(u) = 0 => (CycleOf(c) + 1) % Cycles = CycleOf(u)
    BY <1>2, <1>3
  <2> QED
    BY <1>2, <1>4, <2>1, <2>2 DEF UpdateCurrentTime, SentCycle, TimeOf
<1>5. CASE ~conf.stopped
  BY <1>5, RunningTime
<1> QED
  BY <1>4, <1>5

LEMMA PhaseInit == Init => InPhase
<1> SUFFICES ASSUME Init PROVE InPhase
  OBVIOUS
<1>1. clock \in 0..(UnitsPerCycle * Cycles - 1)
  BY DEF Init
<1>2. Place(clock) \in 0..23 /\ Looked(Place(clock)) \in 0..3
  BY <1>1, ClockSteps, LooksOfCycle
<1> DEFINE s == NewSeeState
<1>3. /\ s.now = NoTime /\ s.lastSee = NoTime /\ s.timing = "TIME_NOSYNCH" /\ s.count = 0
      /\ s.history[1] = 0 /\ s.history[2] = 0 /\ s.history[3] = 0
      /\ ~s.synchSee /\ s.synchType = "SYNCH_NO"
  BY DEF NewSeeState
<1>4. ag.see = s /\ ag.seeTime = NoTime /\ srv.looks = 0 /\ srv.lastSee = 0
  BY DEF Init, NewAgent, NewServer
<1> HIDE DEF s
<1>5. Counted(s, Place(clock), Looked(Place(clock)))
  BY <1>2, <1>3 DEF Counted, LooksBefore
<1>9. conf.stopped => ag.now = TimeOf(clock)
  BY DEF Init, NewAgent, TimeOf
<1>6. Stamped(ag, 0, clock)
  BY <1>3, <1>4, <1>5, <1>9 DEF Stamped, Plain, Fresh
<1>7. Hunting(s, srv.view, 0, 0, Place(clock))
  BY <1>3 DEF Hunting
<1>8. Follows(ag, srv.view, srv.looks, srv.lastSee, clock)
  BY <1>3, <1>4, <1>6, <1>7 DEF Follows, SynchTimings
<1> QED
  BY <1>8 DEF InPhase, Init


\* What the server's clock sends when it reaches u.
LEMMA TickSends ==
  ASSUME TypeOK, Tick, NEW u, u = Successor(clock),
         NEW look, look = (u % UnitsPerLook = 0),
         NEW due, due = (look /\ srv.looks + 1 >= LooksPerSee(srv.view))
  PROVE  /\ clock' = u /\ net = <<>> /\ UNCHANGED <<conf, lost, playOn>>
         /\ ag'.now = ag.now /\ ag'.seeTime = ag.seeTime /\ ag'.see = ag.see
         /\ ag'.view = ag.view
         /\ srv'.view = srv.view
         /\ srv'.looks = IF due THEN 0 ELSE IF look THEN srv.looks + 1 ELSE srv.looks
         /\ srv'.lastSee = IF due THEN OffsetOf(u) ELSE srv.lastSee
         /\ OffsetOf(u) # 0 /\ ~due => net' = <<>>
         /\ OffsetOf(u) = 0 /\ ~due => net' = <<SenseMsg(u, srv.view)>>
         /\ OffsetOf(u) # 0 /\ due => net' = <<SeeMsg(u)>>
         /\ OffsetOf(u) = 0 /\ due =>
              \/ net' = <<SenseMsg(u, srv.view), SeeMsg(u)>>
              \/ conf.reorder /\ net' = <<SeeMsg(u), SenseMsg(u, srv.view)>>
<1> DEFINE p == SeeMsg(u)
           q == SenseMsg(u, srv.view)
           sense == IF OffsetOf(u) = 0 THEN <<q>> ELSE <<>>
           see == IF due THEN <<p>> ELSE <<>>
<1>1. /\ clock' = u /\ net = <<>> /\ ag' = Aged(ag)
      /\ UNCHANGED <<conf, lost, playOn>>
      /\ srv' = [srv EXCEPT !.looks = IF due THEN 0 ELSE IF look THEN @ + 1 ELSE @,
                            !.lastSee = IF due THEN OffsetOf(u) ELSE @]
      /\ net' = sense \o see \/ (conf.reorder /\ net' = see \o sense)
  BY DEF Tick, Successor
<1>2. ag'.now = ag.now /\ ag'.seeTime = ag.seeTime /\ ag'.see = ag.see /\ ag'.view = ag.view
  BY <1>1 DEF TypeOK, Agents, Aged
<1>3. /\ srv'.view = srv.view
      /\ srv'.looks = IF due THEN 0 ELSE IF look THEN srv.looks + 1 ELSE srv.looks
      /\ srv'.lastSee = IF due THEN OffsetOf(u) ELSE srv.lastSee
  <2> DEFINE l == IF due THEN 0 ELSE IF look THEN srv.looks + 1 ELSE srv.looks
             o == IF due THEN OffsetOf(u) ELSE srv.lastSee
  <2>1. srv' = [srv EXCEPT !.looks = l, !.lastSee = o]
    BY <1>1
  <2> HIDE DEF l, o
  <2>2. srv'.view = srv.view /\ srv'.looks = l /\ srv'.lastSee = o
    BY <2>1 DEF TypeOK
  <2> QED
    BY <2>2 DEF l, o
<1> HIDE DEF p, q
<1>4. /\ <<>> \o <<>> = <<>> /\ <<>> \o <<p>> = <<p>> /\ <<q>> \o <<>> = <<q>>
      /\ <<p>> \o <<>> = <<p>> /\ <<>> \o <<q>> = <<q>>
  OBVIOUS
<1>5. <<q>> \o <<p>> = <<q, p>> /\ <<p>> \o <<q>> = <<p, q>>
  BY Joined
<1>6. OffsetOf(u) # 0 /\ ~due => net' = <<>>
  <2>1. ASSUME OffsetOf(u) # 0, ~due PROVE sense = <<>> /\ see = <<>>
    BY <2>1
  <2> QED
    BY <1>1, <1>4, <2>1
<1>7. OffsetOf(u) = 0 /\ ~due => net' = <<q>>
  <2>1. ASSUME OffsetOf(u) = 0, ~due PROVE sense = <<q>> /\ see = <<>>
    BY <2>1
  <2> HIDE DEF sense, see
  <2> QED
    BY <1>1, <1>4, <2>1
<1>8. OffsetOf(u) # 0 /\ due => net' = <<p>>
  <2>1. ASSUME OffsetOf(u) # 0, due PROVE sense = <<>> /\ see = <<p>>
    BY <2>1
  <2> HIDE DEF sense, see
  <2> QED
    BY <1>1, <1>4, <2>1
<1>9. OffsetOf(u) = 0 /\ due => net' = <<q, p>> \/ (conf.reorder /\ net' = <<p, q>>)
  <2>1. ASSUME OffsetOf(u) = 0, due PROVE sense = <<q>> /\ see = <<p>>
    BY <2>1
  <2> HIDE DEF sense, see
  <2> QED
    BY <1>1, <1>5, <2>1
<1> HIDE DEF sense, see
<1> QED
  BY <1>1, <1>2, <1>3, <1>6, <1>7, <1>8, <1>9 DEF p, q

\* A step of the server's clock.
LEMMA PhaseTick ==
  ASSUME TypeOK, Tick, conf.stopped => ~conf.reorder,
         Follows(ag, srv.view, srv.looks, srv.lastSee, clock)
  PROVE  \/ net' = <<>> /\ Follows(ag, srv.view, srv.looks, srv.lastSee, clock)'
         \/ Unhandled'
<1>1. PICK c \in 0..(UnitsPerCycle * Cycles - 1), l \in 0..7, o \in 0..7, v \in Views :
        clock = c /\ srv.looks = l /\ srv.lastSee = o /\ srv.view = v
  BY DEF TypeOK, UnitsPerCycle
<1>2. PICK u : u = Successor(c)
  OBVIOUS
<1>3. PICK look : look = (u % UnitsPerLook = 0)
  OBVIOUS
<1>4. PICK due : due = (look /\ l + 1 >= LooksPerSee(v))
  OBVIOUS
<1>5. /\ clock' = u /\ UNCHANGED conf
      /\ ag'.now = ag.now /\ ag'.seeTime = ag.seeTime /\ ag'.see = ag.see
      /\ ag'.view = ag.view
      /\ srv'.view = v
      /\ srv'.looks = IF due THEN 0 ELSE IF look THEN l + 1 ELSE l
      /\ srv'.lastSee = IF due THEN OffsetOf(u) ELSE o
      /\ OffsetOf(u) # 0 /\ ~due => net' = <<>>
      /\ OffsetOf(u) = 0 /\ ~due => net' = <<SenseMsg(u, v)>>
      /\ OffsetOf(u) # 0 /\ due => net' = <<SeeMsg(u)>>
      /\ OffsetOf(u) = 0 /\ due =>
           \/ net' = <<SenseMsg(u, v), SeeMsg(u)>>
           \/ conf.reorder /\ net' = <<SeeMsg(u), SenseMsg(u, v)>>
  BY <1>1, <1>2, <1>3, <1>4, TickSends
<1>6. Follows(ag, v, l, o, c)
  BY <1>1
<1>7. CASE OffsetOf(u) # 0 /\ ~due
  <2> DEFINE m == IF u % UnitsPerLook = 0 THEN l + 1 ELSE l
  <2>1. srv'.looks = m /\ srv'.lastSee = o
    BY <1>3, <1>5, <1>7
  <2>2. ~(u % UnitsPerLook = 0 /\ l + 1 >= LooksPerSee(v)) /\ ag.see \in SeeStates
    BY <1>3, <1>4, <1>7 DEF TypeOK, Agents
  <2>3. Follows(ag, v, m, o, u)
    BY <1>2, <1>6, <1>7, <2>2, QuietFollows
  <2> HIDE DEF m
  <2>4. Follows(ag, srv.view, srv.looks, srv.lastSee, clock)'
    BY <1>5, <2>1, <2>3, FollowsNext
  <2> QED
    BY <1>5, <1>7, <2>4
<1>8. CASE OffsetOf(u) = 0 \/ due
  <2>1. Follows(ag, srv.view, l, o, c)'
    BY <1>5, <1>6, FollowedNext
  <2>2. \/ OffsetOf(u) = 0 /\ ~due /\ net' = <<SenseMsg(u, v)>>
        \/ OffsetOf(u) # 0 /\ due /\ net' = <<SeeMsg(u)>>
        \/ OffsetOf(u) = 0 /\ due /\ net' = <<SenseMsg(u, v), SeeMsg(u)>>
        \/ OffsetOf(u) = 0 /\ due /\ ~conf.stopped /\ net' = <<SeeMsg(u), SenseMsg(u, v)>>
    BY <1>5, <1>8
  <2>3. SenseMsg(clock, srv.view)' = SenseMsg(u, v) /\ SeeMsg(clock)' = SeeMsg(u)
    BY <1>5 DEF SenseMsg, SeeMsg, SentCycle
  <2> QED
    BY <1>2, <1>3, <1>4, <1>5, <2>1, <2>2, <2>3 DEF Unhandled
<1> QED
  BY <1>5, <1>7, <1>8


\* A see alone.
LEMMA PhaseSee ==
  ASSUME TypeOK, HandleMessage, conf.maxLost = 0, lost = 0, ~playOn,
         Analyze(ag, SeeMsg(clock)) = SeeAt(ag, TimeOf(clock)),
         net = <<SeeMsg(clock)>>, srv.looks = 0, srv.lastSee = OffsetOf(clock),
         NEW r \in SeeStates, CountSee(ag.see, TimeOf(clock)) = CountSee(r, TimeOf(clock)),
         Expects(r, ag.view, srv.view, clock)
  PROVE  /\ net' = <<>> /\ ~playOn' /\ lost' = 0
         /\ Follows(ag, srv.view, srv.looks, srv.lastSee, clock)'
<1>1. ag \in Drafts /\ Sent(ag, srv.view) = srv.view
  BY AgentsAreDrafts DEF TypeOK, Agents, Sent
<1>2. srv.view \in Views /\ clock \in 0..(UnitsPerCycle * Cycles - 1)
  BY DEF TypeOK
<1>3. PICK b : b = SeeAt(ag, TimeOf(clock))
  OBVIOUS
<1>4. Follows(b, Sent(b, srv.view), srv.looks, srv.lastSee, clock) /\ Sent(b, srv.view) \in Views
  BY <1>1, <1>2, <1>3, SeeFollows
<1>5. SeeMsg(clock) \in Sees /\ Analyze(ag, SeeMsg(clock)) = b
  BY <1>2, <1>3, Messages
<1>6. b \in Drafts
  BY <1>1, <1>5, AnalyzeType
<1>7. Outcome(b) /\ net' = <<>> /\ UNCHANGED <<conf, clock, playOn>>
  BY <1>5, HandleOne
<1> QED
  BY <1>4, <1>6, <1>7, OutcomeFollows


\* The messages of a unit: a sense_body, a see, or both in either order.
LEMMA PhaseUnhandled ==
  ASSUME TypeOK, HandleMessage, conf.maxLost = 0, lost = 0, ~playOn, Unhandled
  PROVE  /\ ~playOn' /\ lost' = 0
         /\ \/ net' = <<>> /\ Follows(ag, srv.view, srv.looks, srv.lastSee, clock)'
            \/ SeeWaits' \/ SenseWaits'
<1>18. PICK c \in 0..(UnitsPerCycle * Cycles - 1), l \in 0..7, o \in 0..7 :
         LET look == clock % UnitsPerLook = 0
             due == look /\ l + 1 >= LooksPerSee(srv.view)
             sense == SenseMsg(clock, srv.view)
             see == SeeMsg(clock)
         IN /\ Follows(ag, srv.view, l, o, c)
            /\ clock = Successor(c)
            /\ srv.looks = IF due THEN 0 ELSE IF look THEN l + 1 ELSE l
            /\ srv.lastSee = IF due THEN OffsetOf(clock) ELSE o
            /\ \/ OffsetOf(clock) = 0 /\ ~due /\ net = <<sense>>
               \/ OffsetOf(clock) # 0 /\ due /\ net = <<see>>
               \/ OffsetOf(clock) = 0 /\ due /\ net = <<sense, see>>
               \/ OffsetOf(clock) = 0 /\ due /\ ~conf.stopped /\ net = <<see, sense>>
  BY DEF Unhandled
<1>19. PICK v \in Views, u \in 0..(UnitsPerCycle * Cycles - 1) : v = srv.view /\ u = clock
  BY DEF TypeOK
<1>1. /\ v = srv.view /\ u = clock
      /\ Follows(ag, v, l, o, c)
      /\ u = Successor(c)
      /\ LET look == u % UnitsPerLook = 0
             due == look /\ l + 1 >= LooksPerSee(v)
         IN /\ srv.looks = IF due THEN 0 ELSE IF look THEN l + 1 ELSE l
            /\ srv.lastSee = IF due THEN OffsetOf(u) ELSE o
            /\ \/ OffsetOf(u) = 0 /\ ~due /\ net = <<SenseMsg(u, v)>>
               \/ OffsetOf(u) # 0 /\ due /\ net = <<SeeMsg(u)>>
               \/ OffsetOf(u) = 0 /\ due /\ net = <<SenseMsg(u, v), SeeMsg(u)>>
               \/ /\ OffsetOf(u) = 0 /\ due /\ ~conf.stopped
                  /\ net = <<SeeMsg(u), SenseMsg(u, v)>>
  BY <1>18, <1>19
<1> DEFINE look == u % UnitsPerLook = 0
           due == look /\ l + 1 >= LooksPerSee(v)
<1>2. PICK r : r = SetNewCycle(ag.see, TimeOf(u))
  OBVIOUS
<1>3. /\ ag \in Drafts /\ Sent(ag, v) = v /\ ag.see \in SeeStates
      /\ u \in 0..(UnitsPerCycle * Cycles - 1) /\ ag.out = <<>>
  <2>1. ag \in Drafts
    BY AgentsAreDrafts DEF TypeOK
  <2> QED
    BY <1>1, <2>1 DEF TypeOK, Agents, Sent
<1>4. r \in SeeStates /\ r.lastSee = ag.see.lastSee
  <2>1. TimeOf(u) \in GameTimes
    BY <1>3, TimeSeen
  <2>2. CASE TimeOf(u) = ag.see.now
    BY <1>2, <1>3, <2>2 DEF SetNewCycle
  <2>3. CASE TimeOf(u) # ag.see.now
    BY <1>2, <1>3, <2>1, <2>3, NewCycleType, NewCycleFields
  <2> QED
    BY <2>2, <2>3
<1>5. PICK b : b = SenseAt(ag, TimeOf(u), v)
  OBVIOUS
<1>6. PICK d : d = SeeAt(ag, TimeOf(u))
  OBVIOUS
<1>17. conf.stopped => ag.now = TimeOf(c)
  BY <1>1 DEF Follows, Stamped
<1>8. b \in Drafts /\ d \in Drafts /\ TimeOf(u) \in GameTimes
  <2>1. TimeOf(u) \in GameTimes
    BY <1>3, TimeSeen
  <2> QED
    BY <1>3, <1>5, <1>6, <2>1, SenseType, SeeType
<1>9. /\ b.now = TimeOf(u) /\ b.seeTime = ag.seeTime /\ b.view = v /\ b.out = <<>>
      /\ b.see.now = r.now /\ b.see.lastSee = r.lastSee /\ b.see.timing = r.timing
      /\ b.see.count = r.count /\ b.see.history = r.history
      /\ b.see.synchSee = r.synchSee /\ b.see.synchType = r.synchType
  BY <1>2, <1>3, <1>5, SenseFields
<1>7. /\ SeeMsg(u) \in Sees /\ SenseMsg(u, v) \in Senses
      /\ OffsetOf(u) = 0 => Analyze(ag, SenseMsg(u, v)) = b
      /\ OffsetOf(u) # 0 \/ ~conf.stopped => Analyze(ag, SeeMsg(u)) = d
      /\ Analyze(b, SeeMsg(u)) = SeeAt(b, TimeOf(u))
      /\ ~conf.stopped => Analyze(d, SenseMsg(u, v)) = SenseAt(d, TimeOf(u), v)
  <2>1. /\ SeeMsg(u) \in Sees /\ SenseMsg(u, v) \in Senses
        /\ Analyze(ag, SenseMsg(u, v)) = SenseAt(ag, UpdateCurrentTime(ag, SentCycle(u), TRUE), v)
        /\ Analyze(ag, SeeMsg(u)) = SeeAt(ag, UpdateCurrentTime(ag, SentCycle(u), FALSE))
        /\ Analyze(b, SeeMsg(u)) = SeeAt(b, UpdateCurrentTime(b, SentCycle(u), FALSE))
        /\ Analyze(d, SenseMsg(u, v)) = SenseAt(d, UpdateCurrentTime(d, SentCycle(u), TRUE), v)
    BY <1>3, Messages
  <2>2. /\ OffsetOf(u) = 0 => UpdateCurrentTime(ag, SentCycle(u), TRUE) = TimeOf(u)
        /\ OffsetOf(u) # 0 => UpdateCurrentTime(ag, SentCycle(u), FALSE) = TimeOf(u)
    BY <1>1, <1>17, NextTime
  <2>3. UpdateCurrentTime(b, SentCycle(u), FALSE) = TimeOf(u)
    BY <1>9, SameTime
  <2>4. ~conf.stopped =>
          /\ UpdateCurrentTime(ag, SentCycle(u), FALSE) = TimeOf(u)
          /\ UpdateCurrentTime(d, SentCycle(u), TRUE) = TimeOf(u)
    BY RunningTime
  <2> QED
    BY <1>5, <1>6, <2>1, <2>2, <2>3, <2>4
<1>10. Sent(b, v) = v
  BY <1>9 DEF Sent
<1>11. ASSUME due
       PROVE  /\ Expects(r, ag.view, v, u) /\ Expects(r, v, v, u)
              /\ CountSee(ag.see, TimeOf(u)) = CountSee(r, TimeOf(u))
              /\ OffsetOf(u) = 0 => Place(u) = 0 /\ r.lastSee # TimeOf(u)
  <2>1. u % UnitsPerLook = 0 /\ l + 1 >= LooksPerSee(v)
    BY <1>11
  <2>2. Follows(ag, v, l, o, c) /\ u = Successor(c) /\ ag.see \in SeeStates
    BY <1>1, <1>3
  <2>3. ag.view \in {v, ag.view} /\ v \in {v, ag.view}
    OBVIOUS
  <2>4. Expects(r, ag.view, v, u)
    BY <1>2, <2>1, <2>2, <2>3, DueExpects
  <2>6. CountSee(ag.see, TimeOf(u)) = CountSee(r, TimeOf(u))
    BY <1>2, <2>1, <2>2, <2>3, DueExpects
  <2>7. OffsetOf(u) = 0 => Place(u) = 0 /\ r.lastSee # TimeOf(u)
    BY <1>2, <2>1, <2>2, <2>3, DueExpects
  <2>5. Expects(r, v, v, u)
    BY <1>2, <2>1, <2>2, <2>3, DueExpects
  <2> QED
    BY <2>3, <2>4, <2>5, <2>6, <2>7
<1>12. ASSUME due
       PROVE  /\ Follows(d, Sent(d, v), 0, OffsetOf(u), u) /\ Sent(d, v) \in Views
              /\ Place(u) = 0 => d.see.timing \in {"TIME_0_00", "TIME_NOSYNCH"}
  BY <1>1, <1>3, <1>4, <1>6, <1>11, <1>12, SeeFollows
<1>13. CASE OffsetOf(u) = 0 /\ ~due /\ net = <<SenseMsg(u, v)>>
  <2> DEFINE m == IF u % UnitsPerLook = 0 THEN l + 1 ELSE l
  <2>1. srv.looks = m /\ srv.lastSee = o
    BY <1>1, <1>13
  <2>2. ~(u % UnitsPerLook = 0 /\ l + 1 >= LooksPerSee(v)) /\ OffsetOf(u) = 0
    BY <1>13
  <2>3. Follows(b, v, m, o, u)
    BY <1>1, <1>3, <1>5, <2>2, SenseFollows
  <2> HIDE DEF m
  <2>4. Outcome(b) /\ net' = <<>> /\ UNCHANGED <<conf, clock, playOn>>
    BY <1>7, <1>13, HandleOne
  <2>5. Follows(b, Sent(b, srv.view), srv.looks, srv.lastSee, clock) /\ Sent(b, srv.view) \in Views
    BY <1>1, <1>10, <2>1, <2>3
  <2> QED
    BY <1>8, <2>4, <2>5, OutcomeFollows
<1>14. CASE OffsetOf(u) # 0 /\ due /\ net = <<SeeMsg(u)>>
  <2>1. srv.looks = 0 /\ srv.lastSee = OffsetOf(u)
    BY <1>1, <1>14
  <2> QED
    BY <1>1, <1>4, <1>6, <1>7, <1>11, <1>14, <2>1, PhaseSee
<1>15. CASE OffsetOf(u) = 0 /\ due /\ net = <<SenseMsg(u, v), SeeMsg(u)>>
  <2>1. srv.looks = 0 /\ srv.lastSee = 0 /\ OffsetOf(u) = 0
    BY <1>1, <1>15
  <2>2. Expects(b.see, v, v, u) /\ Place(u) = 0 /\ b.see.lastSee # TimeOf(u)
    BY <1>9, <1>11, <1>15, ExpectsSame
  <2>3. ag.seeTime = ag.see.lastSee
    BY <1>1 DEF Follows, Stamped
  <2>4. UNCHANGED <<conf, clock, playOn>>
        /\ \/ Outcome(b) /\ net' = <<SeeMsg(u)>>
           \/ Outcome(SeeAt(b, TimeOf(u))) /\ net' = <<>>
    BY <1>7, <1>15, HandleTwo
  <2>5. CASE Outcome(b) /\ net' = <<SeeMsg(u)>>
    <3>1. ~DecidesOnMessage(b)
      BY <1>4, <1>9, <2>2, <2>3 DEF DecidesOnMessage, HasCurrentSee
    <3>2. Deliver(b)
      BY <2>5, <3>1 DEF Outcome
    <3>3. /\ ag'.now = b.now /\ ag'.seeTime = b.seeTime /\ ag'.see = b.see /\ ag'.view = b.view
          /\ srv'.view = Sent(b, srv.view)
          /\ srv'.looks = srv.looks /\ srv'.lastSee = srv.lastSee
          /\ lost' = 0
      BY <1>8, <3>2, DeliverCalm
    <3>4. ag'.view = v /\ srv'.view = v /\ clock' = u /\ UNCHANGED conf
      BY <1>1, <1>9, <1>10, <2>4, <3>3
    <3>5. Expects(ag.see, ag.view, srv.view, clock)'
      BY <2>2, <3>3, <3>4, ExpectsNext
    <3>7. TimeOf(clock)' = TimeOf(u) /\ SeeMsg(clock)' = SeeMsg(u)
      BY <3>4 DEF TimeOf, SeeMsg, SentCycle
    <3>6. SeeWaits'
      BY <3>7, <1>4, <1>9, <2>1, <2>2, <2>3, <2>5, <3>3, <3>4, <3>5 DEF SeeWaits
    <3> QED
      BY <2>4, <3>3, <3>6
  <2>6. CASE Outcome(SeeAt(b, TimeOf(u))) /\ net' = <<>>
    <3>1. PICK e : e = SeeAt(b, TimeOf(u))
      OBVIOUS
    <3>2. b.see \in SeeStates /\ e \in Drafts
      BY <1>8, <3>1, SeeType DEF Drafts
    <3>3. Follows(e, Sent(e, v), 0, OffsetOf(u), u) /\ Sent(e, v) \in Views
      <4>1. Expects(b.see, b.view, Sent(b, v), u) /\ Sent(b, v) \in Views
        BY <1>9, <1>10, <2>2
      <4> QED
        BY <1>3, <1>8, <3>1, <3>2, <4>1, SeeFollows
    <3>4. Follows(e, Sent(e, srv.view), srv.looks, srv.lastSee, clock) /\ Sent(e, srv.view) \in Views
      BY <1>1, <2>1, <3>3
    <3> QED
      BY <2>4, <2>6, <3>1, <3>2, <3>4, OutcomeFollows
  <2> QED
    BY <2>4, <2>5, <2>6
<1>16. CASE OffsetOf(u) = 0 /\ due /\ ~conf.stopped /\ net = <<SeeMsg(u), SenseMsg(u, v)>>
  <2>1. srv.looks = 0 /\ srv.lastSee = OffsetOf(u) /\ Place(u) = 0
    BY <1>1, <1>11, <1>16
  <2>2. /\ Follows(d, Sent(d, srv.view), srv.looks, srv.lastSee, clock) /\ Sent(d, srv.view) \in Views
        /\ d.see.timing \in {"TIME_0_00", "TIME_NOSYNCH"}
    BY <1>1, <1>12, <1>16, <2>1
  <2>4. UNCHANGED <<conf, clock, playOn>>
        /\ \/ Outcome(d) /\ net' = <<SenseMsg(u, v)>>
           \/ Outcome(SenseAt(d, TimeOf(u), v)) /\ net' = <<>>
    BY <1>7, <1>16, HandleTwo
  <2>5. CASE Outcome(d) /\ net' = <<SenseMsg(u, v)>>
    <3>1. /\ Follows(ag, srv.view, srv.looks, srv.lastSee, clock)'
          /\ lost' = 0 /\ ag'.see.timing = d.see.timing
      BY <1>8, <2>2, <2>4, <2>5, OutcomeFollows
    <3>2. clock' = u /\ \A w : SenseMsg(clock, w)' = SenseMsg(u, w)
      BY <1>1, <2>4 DEF SenseMsg, SentCycle
    <3>3. SenseWaits'
      BY <1>1, <1>16, <2>1, <2>2, <2>4, <2>5, <3>1, <3>2 DEF SenseWaits, TypeOK
    <3> QED
      BY <2>4, <3>1, <3>3
  <2>6. CASE Outcome(SenseAt(d, TimeOf(u), v)) /\ net' = <<>>
    <3>1. PICK e : e = SenseAt(d, TimeOf(u), v)
      OBVIOUS
    <3>2. e \in Drafts /\ e.out = d.out
      BY <1>1, <1>3, <1>8, <3>1, SenseType, SenseFields DEF TypeOK
    <3>3. Sent(e, srv.view) = Sent(d, srv.view)
      BY <3>2 DEF Sent
    <3>4. Follows(e, Sent(e, srv.view), srv.looks, srv.lastSee, clock)
      BY <1>1, <1>3, <1>8, <2>1, <2>2, <3>1, <3>3, StaleSense
    <3> QED
      BY <2>2, <2>4, <2>6, <3>1, <3>2, <3>3, <3>4, OutcomeFollows
  <2> QED
    BY <2>4, <2>5, <2>6
<1> HIDE DEF look, due
<1> QED
  BY <1>1, <1>13, <1>14, <1>15, <1>16 DEF look, due


\* The see that came with a handled sense_body.
LEMMA PhaseSeeWaits ==
  ASSUME TypeOK, HandleMessage, conf.maxLost = 0, lost = 0, ~playOn, SeeWaits
  PROVE  /\ net' = <<>> /\ ~playOn' /\ lost' = 0
         /\ Follows(ag, srv.view, srv.looks, srv.lastSee, clock)'
<1>1. clock \in 0..(UnitsPerCycle * Cycles - 1) /\ ag.see \in SeeStates
  BY DEF TypeOK, Agents
<1>2. OffsetOf(clock) = 0
  <2>1. OffsetOf(clock) = Place(clock) % 8 /\ Place(clock) = 0
    BY <1>1, ClockSteps DEF SeeWaits
  <2> QED
    BY <2>1
<1>3. /\ net = <<SeeMsg(clock)>> /\ srv.looks = 0 /\ srv.lastSee = OffsetOf(clock)
      /\ Expects(ag.see, ag.view, srv.view, clock)
  BY <1>2 DEF SeeWaits
<1>4. Analyze(ag, SeeMsg(clock)) = SeeAt(ag, TimeOf(clock))
  <2>1. UpdateCurrentTime(ag, SentCycle(clock), FALSE) = TimeOf(clock)
    BY SameTime DEF SeeWaits
  <2> QED
    BY <1>1, <2>1, FirstViews, Messages
<1> QED
  BY <1>1, <1>3, <1>4, PhaseSee

\* The sense_body that came with a handled see.
LEMMA PhaseSenseWaits ==
  ASSUME TypeOK, HandleMessage, conf.maxLost = 0, lost = 0, ~playOn, SenseWaits
  PROVE  /\ net' = <<>> /\ ~playOn' /\ lost' = 0
         /\ Follows(ag, srv.view, srv.looks, srv.lastSee, clock)'
<1>1. PICK w \in Views : net = <<SenseMsg(clock, w)>>
  BY DEF SenseWaits
<1>2. PICK b : b = SenseAt(ag, TimeOf(clock), w)
  OBVIOUS
<1>3. /\ ag \in Drafts /\ clock \in 0..(UnitsPerCycle * Cycles - 1) /\ srv.view \in Views
      /\ ag.out = <<>>
  <2>1. ag \in Drafts
    BY AgentsAreDrafts DEF TypeOK
  <2> QED
    BY <2>1 DEF TypeOK, Agents
<1>4. Analyze(ag, SenseMsg(clock, w)) = b
  <2>1. UpdateCurrentTime(ag, SentCycle(clock), TRUE) = TimeOf(clock)
    BY RunningTime DEF SenseWaits
  <2>2. Analyze(ag, SenseMsg(clock, w)) = SenseAt(ag, UpdateCurrentTime(ag, SentCycle(clock), TRUE), w)
    BY <1>3, Messages
  <2> QED
    BY <1>2, <2>1, <2>2
<1>5. b \in Drafts
  <2>1. TimeOf(clock) \in GameTimes
    BY <1>3, TimeSeen
  <2> QED
    BY <1>2, <1>3, <2>1, SenseType
<1>6. Sent(b, srv.view) = srv.view
  <2>1. b.out = ag.out
    BY <1>2, <1>3, SenseFields
  <2> QED
    BY <1>3, <2>1 DEF Sent
<1>7. Follows(b, srv.view, srv.looks, srv.lastSee, clock)
  BY <1>2, <1>3, StaleSense DEF SenseWaits
<1>8. Outcome(b) /\ net' = <<>> /\ UNCHANGED <<conf, clock, playOn>>
  BY <1>1, <1>4, HandleOne
<1>9. Follows(b, Sent(b, srv.view), srv.looks, srv.lastSee, clock) /\ Sent(b, srv.view) \in Views
  BY <1>3, <1>6, <1>7
<1> QED
  BY <1>5, <1>8, <1>9, OutcomeFollows

\* A decision without a message.
LEMMA PhaseDecide ==
  ASSUME TypeOK, conf.maxLost = 0, lost = 0, ~playOn, HandleTimeout \/ Think,
         Follows(ag, srv.view, srv.looks, srv.lastSee, clock)
  PROVE  /\ net' = <<>> /\ ~playOn' /\ lost' = 0
         /\ Follows(ag, srv.view, srv.looks, srv.lastSee, clock)'
<1>1. PICK b \in Decided(ag) : Deliver(b)
  BY DEF HandleTimeout, Think
<1>2. net' = <<>> /\ ~playOn' /\ UNCHANGED <<conf, clock>>
  BY DEF HandleTimeout, Think
<1>3. ag \in Drafts /\ b \in Drafts
  BY <1>1, AgentsAreDrafts, DecidedType DEF TypeOK
<1>4. Sent(ag, srv.view) = srv.view
  BY DEF TypeOK, Agents, Sent
<1>5. /\ srv.view \in Views /\ srv.looks \in 0..7
      /\ clock \in 0..(UnitsPerCycle * Cycles - 1)
  BY DEF TypeOK
<1>6. Follows(b, Sent(b, srv.view), srv.looks, srv.lastSee, clock)
  BY <1>1, <1>3, <1>4, <1>5, DecidedFollows
<1>7. /\ ag'.now = b.now /\ ag'.seeTime = b.seeTime /\ ag'.see = b.see /\ ag'.view = b.view
      /\ srv'.view = Sent(b, srv.view)
      /\ srv'.looks = srv.looks /\ srv'.lastSee = srv.lastSee
      /\ lost' = 0
  BY <1>1, <1>3, DeliverCalm
<1> QED
  BY <1>2, <1>6, <1>7, FollowsNext

LEMMA PhaseNext == ASSUME TypeOK, InPhase, [Next]_vars PROVE InPhase'
<1>1. CASE UNCHANGED vars
  <2> USE <1>1 DEF vars
  <2>1. Unhandled' = Unhandled
    BY DEF Unhandled, Follows, Stamped, Hunting, Tracked, Counted, Fresh, Plain,
           TimeOf, Seen, Stamp, SeeMsg, SenseMsg, SentCycle
  <2>2. SeeWaits' = SeeWaits
    BY DEF SeeWaits, Expects, Plain, Counted, TimeOf, SeeMsg, SentCycle
  <2>3. /\ SenseWaits' = SenseWaits
        /\ Follows(ag, srv.view, srv.looks, srv.lastSee, clock)'
             = Follows(ag, srv.view, srv.looks, srv.lastSee, clock)
    BY DEF SenseWaits, Follows, Stamped, Hunting, Tracked, Counted, Fresh, Plain,
           TimeOf, Seen, Stamp, SenseMsg, SentCycle
  <2> QED
    BY <2>1, <2>2, <2>3 DEF InPhase, Calm, Quiet
<1>2. ASSUME Next, Calm'
      PROVE  /\ ~playOn' /\ lost' = 0
             /\ \/ net' = <<>> /\ Follows(ag, srv.view, srv.looks, srv.lastSee, clock)'
                \/ Unhandled' \/ SeeWaits' \/ SenseWaits'
  <2>1. conf' = conf
    BY <1>2 DEF Next, Tick, Lose, Referee, HandleMessage, HandleTimeout, Think
  <2>2. /\ Calm /\ ~conf.playOnAllowed /\ conf.maxLost = 0
        /\ conf.stopped => ~conf.reorder
    BY <1>2, <2>1 DEF Calm, Quiet
  <2>3. /\ ~playOn /\ lost = 0
        /\ \/ net = <<>> /\ Follows(ag, srv.view, srv.looks, srv.lastSee, clock)
           \/ Unhandled \/ SeeWaits \/ SenseWaits
    BY <2>2 DEF InPhase
  <2>4. Unhandled \/ SeeWaits \/ SenseWaits => net # <<>>
    <3>1. \A m, k : <<m>> # <<>> /\ <<m, k>> # <<>>
      OBVIOUS
    <3>2. Unhandled => \E m, k : net = <<m>> \/ net = <<m, k>>
      BY DEF Unhandled
    <3>3. SeeWaits => \E m : net = <<m>>
      BY DEF SeeWaits
    <3>4. SenseWaits => \E m : net = <<m>>
      BY DEF SenseWaits
    <3> QED
      BY <3>1, <3>2, <3>3, <3>4
  <2>5. CASE Tick
    <3>1. net = <<>> /\ UNCHANGED <<lost, playOn>>
      BY <2>5 DEF Tick
    <3>2. Follows(ag, srv.view, srv.looks, srv.lastSee, clock)
      BY <2>3, <2>4, <3>1
    <3> QED
      BY <2>2, <2>3, <2>5, <3>1, <3>2, PhaseTick
  <2>6. CASE Lose
    BY <2>2, <2>3, <2>6 DEF Lose
  <2>7. CASE Referee
    BY <2>2, <2>7 DEF Referee
  <2>8. CASE HandleMessage
    <3>1. net # <<>>
      BY <2>8 DEF HandleMessage
    <3>2. CASE Unhandled
      BY <2>2, <2>3, <2>8, <3>2, PhaseUnhandled
    <3>3. CASE SeeWaits
      BY <2>2, <2>3, <2>8, <3>3, PhaseSeeWaits
    <3>4. CASE SenseWaits
      BY <2>2, <2>3, <2>8, <3>4, PhaseSenseWaits
    <3> QED
      BY <2>3, <3>1, <3>2, <3>3, <3>4
  <2>9. CASE HandleTimeout \/ Think
    <3>1. net = <<>>
      BY <2>9 DEF HandleTimeout, Think
    <3>2. Follows(ag, srv.view, srv.looks, srv.lastSee, clock)
      BY <2>3, <2>4, <3>1
    <3> QED
      BY <2>2, <2>3, <2>9, <3>2, PhaseDecide
  <2> QED
    BY <1>2, <2>5, <2>6, <2>7, <2>8, <2>9 DEF Next
<1> QED
  BY <1>1, <1>2 DEF InPhase

\* Whatever widths the view action wishes, whatever the thresholds of the decision
\* timing and however many cycles are told apart: while no message is lost and the game
\* stays out of play_on, a client that believes it knows where in the cycle the last see
\* came is right, on a running clock with the messages of a unit in any order, on a
\* stopped clock (updateCurrentTime) as long as no see overtakes its sense_body.
THEOREM TimingIsTracked == Spec => []TimingTracksServer
<1>1. TypeOK /\ InPhase => TimingTracksServer
  <2> SUFFICES ASSUME InPhase, Calm, net = <<>>, ag.see.timing \in SynchTimings
               PROVE  srv.lastSee = TimingOffset[ag.see.timing]
    BY DEF TimingTracksServer
  <2>1. Follows(ag, srv.view, srv.looks, srv.lastSee, clock)
    BY DEF InPhase, Unhandled, SeeWaits, SenseWaits
  <2> QED
    BY <2>1 DEF Follows, Tracked
<1> QED
  BY <1>1, TypeInit, TypeNext, PhaseInit, PhaseNext, PTL DEF Spec
-----------------------------------------------------------------------------
(* In step with View_Synch: a client that waits for a due see long enough   *)
(* keeps the rotation of one see in each cycle.                             *)

\* A synchronized client waits for its see until 50 ms after the sense_body, the last
\* moment at which a see of the rotation comes.  The 79 beside the default in
\* player_config.cpp is patient, the default of 30 is not, and neither is 49: TLC then
\* finds SynchIsKept violated.
Patient == WaitThrSynchView \in Nat /\ WaitThrSynchView >= 50

Holds(n, type) == \E i \in 1..Len(n) : n[i].type = type

\* The width of the see that brings a timing, and the one that brings the next.
WidthBefore(timing) == IF timing = "TIME_50_0" THEN "NORMAL" ELSE "NARROW"
WidthAfter(timing) == IF timing = "TIME_0_00" THEN "NORMAL" ELSE "NARROW"

\* The rotation: one see in each cycle, expected from the start of a cycle on.
InRotation(timing, till, p) ==
  \/ timing = "TIME_0_00" /\ p \in 0..11 /\ till = IF p \in 0..7 THEN 1 ELSE 0
  \/ timing = "TIME_50_0" /\ p \in 12..17 /\ till = IF p \in 12..15 THEN 1 ELSE 0
  \/ timing = "TIME_22_5" /\ p \in 18..23 /\ till = 1

\* In synch mode the width changes at the (think) after the see.
BeforeThink(timing, p) ==
  \/ timing = "TIME_0_00" /\ p \in 0..4
  \/ timing = "TIME_50_0" /\ p = 12

\* The three sees of the rotation, each expected in its cycle.
AtTurn(s, w, p) ==
  /\ s.till = 0 /\ w = WidthAfter(s.timing)
  /\ <<s.timing, p>> \in {<<"TIME_0_00", 12>>, <<"TIME_50_0", 18>>, <<"TIME_22_5", 0>>}

BetweenTurns(s, w, p) ==
  /\ InRotation(s.timing, s.till, p)
  /\ \/ w = WidthAfter(s.timing)
     \/ conf.synch /\ ~thought /\ w = WidthBefore(s.timing) /\ BeforeThink(s.timing, p)

\* Synch mode without loss: client and server know the same view at any time.
ViewsAgree ==
  Calm /\ conf.synch =>
    /\ ag.view = srv.view
    /\ \A i \in 1..Len(net) : net[i].type = "sense_body" => net[i].view = srv.view

\* The client measures the time of the cycle from its sense_body.
BodyAgeTracksServer ==
  /\ thought => net = <<>>
  /\ Holds(net, "sense_body") => OffsetOf(clock) = 0
  /\ Calm => Holds(net, "sense_body") \/ ag.bodyAge \in {-1, OffsetOf(clock)}

\* A synchronized client follows the rotation: it has decided on its last see, and
\* it expects the next one in the cycle and with the width in which it comes.
InStep ==
  CalmViewSynch /\ ag.see.timing \in SynchTimings =>
    /\ ~conf.synch => ag.lastDecision = ag.see.lastSee
    /\ LET s == SetNewCycle(ag.see, TimeOf(clock))
           p == Place(clock)
       IN IF Holds(net, "see") THEN AtTurn(s, srv.view.width, p)
          ELSE BetweenTurns(s, srv.view.width, p)

LEMMA NoneHolds == ASSUME NEW type PROVE ~Holds(<<>>, type)
BY DEF Holds

LEMMA OneHolds == ASSUME NEW m, NEW type PROVE Holds(<<m>>, type) <=> m.type = type
BY DEF Holds

LEMMA TwoHold ==
  ASSUME NEW m, NEW k, NEW type
  PROVE  Holds(<<m, k>>, type) <=> m.type = type \/ k.type = type
<1>1. Len(<<m, k>>) = 2 /\ <<m, k>>[1] = m /\ <<m, k>>[2] = k
  OBVIOUS
<1> QED
  BY <1>1 DEF Holds

-----------------------------------------------------------------------------
(* Commands tell the server what the client believes its view to be.        *)

LEMMA SendKeeps ==
  ASSUME NEW a \in Drafts, NEW w \in Views, NEW b, b = SendChangeView(a, w), NEW v
  PROVE  /\ b.view = Sent(b, v)
         /\ b.bodyAge = a.bodyAge
<1>1. Sent(b, v) = w
  BY SentView
<1> QED
  BY <1>1 DEF SendChangeView, Drafts

\* What a decision leaves alone, and that its commands agree with its view.
LEMMA AdjustKeeps ==
  ASSUME NEW a \in Drafts, NEW v,
         NEW b \in {AdjustSeeSynchNormalMode(a), AdjustSeeSynchSynchMode(a)}
  PROVE  /\ b.bodyAge = a.bodyAge
         /\ a.view = Sent(a, v) => b.view = Sent(b, v)
<1>1. ASSUME NEW d \in Drafts, d.bodyAge = a.bodyAge, NEW w \in Views, b = SendChangeView(d, w)
      PROVE  b.bodyAge = a.bodyAge /\ b.view = Sent(b, v)
  BY <1>1, SendKeeps
<1>2. ASSUME NEW timing \in Timings, NEW w \in Views, b = Synchronized(a, timing, w)
      PROVE  b.bodyAge = a.bodyAge /\ b.view = Sent(b, v)
  <2> DEFINE d == [a EXCEPT !.see = SetLastSeeTiming(@, timing)]
  <2>1. d \in Drafts /\ d.bodyAge = a.bodyAge
    BY <1>2, TimingFieldType DEF Drafts
  <2>2. b = SendChangeView(d, w)
    BY <1>2 DEF Synchronized
  <2> HIDE DEF d
  <2> QED
    BY <1>1, <1>2, <2>1, <2>2
<1>3. \/ b = a
      \/ \E w \in Views : b = SendChangeView(a, w)
      \/ \E timing \in Timings, w \in Views : b = Synchronized(a, timing, w)
  BY FirstViews DEF AdjustSeeSynchNormalMode, AdjustSeeSynchSynchMode, StopTrial, Timings
<1> QED
  BY <1>1, <1>2, <1>3

LEMMA ExecuteKeeps ==
  ASSUME NEW a \in Drafts, NEW v, NEW w, NEW b, b = ExecuteView(a, w)
  PROVE  /\ b.bodyAge = a.bodyAge
         /\ a.view = Sent(a, v) => b.view = Sent(b, v)
<1>1. CASE MayChangeView(a, w)
  <2>1. View(w, "HIGH") \in Views
    BY <1>1, ViewType DEF MayChangeView, Qualities
  <2> QED
    BY <1>1, <2>1, SendKeeps DEF ExecuteView
<1>2. CASE ~MayChangeView(a, w)
  BY <1>2 DEF ExecuteView
<1> QED
  BY <1>1, <1>2

LEMMA DecidedKeeps ==
  ASSUME NEW a \in Drafts, NEW v, NEW b \in Decided(a)
  PROVE  /\ b.bodyAge = a.bodyAge /\ b.lastDecision = a.now
         /\ a.view = Sent(a, v) => b.view = Sent(b, v)
<1> DEFINE d == IF MissedSee(a, a.see) THEN [a EXCEPT !.see = SetLastSeeTiming(@, "TIME_NOSYNCH")] ELSE a
           e == BeforeActions(a)
<1>1. d \in Drafts /\ e \in Drafts
  BY TimingFieldType, BeforeActionsType DEF Timings
<1>2. d.bodyAge = a.bodyAge /\ d.view = a.view /\ d.out = a.out
  BY DEF Drafts
<1>3. e = IF conf.synch THEN AdjustSeeSynchSynchMode(d) ELSE d
  BY DEF BeforeActions
<1> HIDE DEF d, e
<1>4. d.view = Sent(d, v) <=> a.view = Sent(a, v)
  BY <1>2 DEF Sent
<1>5. e.bodyAge = a.bodyAge /\ (a.view = Sent(a, v) => e.view = Sent(e, v))
  BY <1>1, <1>2, <1>3, <1>4, AdjustKeeps
<1>6. PICK w \in ViewWishes(e) : b = [ExecuteView(e, w) EXCEPT !.lastDecision = a.now]
  BY DEF Decided, e
<1> DEFINE f == ExecuteView(e, w)
<1>7. f.bodyAge = a.bodyAge /\ (a.view = Sent(a, v) => f.view = Sent(f, v)) /\ f \in Drafts
  BY <1>1, <1>5, ExecuteKeeps, ExecuteViewType
<1> HIDE DEF f
<1>8. b.bodyAge = f.bodyAge /\ b.lastDecision = a.now /\ b.view = f.view /\ b.out = f.out
  BY <1>6, <1>7 DEF Drafts, f
<1>9. Sent(b, v) = Sent(f, v)
  BY <1>8 DEF Sent
<1> QED
  BY <1>7, <1>8, <1>9

\* The handlers of messages.
LEMMA SeeKeeps ==
  ASSUME NEW a \in Drafts, NEW t \in GameTimes, NEW b, b = SeeAt(a, t)
  PROVE  /\ b.bodyAge = a.bodyAge
         /\ conf.synch => b.view = a.view /\ b.out = a.out
<1> DEFINE s == UpdateBySee(a.see, t, a.view)
           d == [a EXCEPT !.now = t, !.seeTime = t, !.seeLag = a.bodyAge, !.see = s]
<1>2. s \in SeeStates
  BY BySeeType DEF Drafts
<1>3. b = IF conf.synch \/ IsSynch(d.see) THEN d ELSE AdjustSeeSynchNormalMode(d)
  BY DEF SeeAt
<1> HIDE DEF s
<1>4. d \in Drafts
  BY <1>2 DEF Drafts
<1>5. d.bodyAge = a.bodyAge /\ d.view = a.view /\ d.out = a.out
  BY DEF Drafts
<1> HIDE DEF d
<1> QED
  BY <1>3, <1>4, <1>5, AdjustKeeps

LEMMA SenseKeeps ==
  ASSUME NEW a \in Drafts, NEW t, NEW v, NEW b, b = SenseAt(a, t, v)
  PROVE  b.bodyAge = 0 /\ b.view = v /\ b.out = a.out
<1> DEFINE s == UpdateBySenseBody(a.see, t, v)
<1>1. b = [a EXCEPT !.now = t, !.senseTime = t, !.bodyAge = 0, !.view = v, !.see = s]
  BY DEF SenseAt
<1> HIDE DEF s
<1> QED
  BY <1>1 DEF Drafts

\* A handler gives the agent some time.
LEMMA SomeTime ==
  ASSUME NEW a \in Drafts, NEW m \in Sees \cup Senses
  PROVE  /\ m.type = "see" => \E t \in GameTimes : Analyze(a, m) = SeeAt(a, t)
         /\ m.type # "see" =>
              m.type = "sense_body" /\ \E t \in GameTimes : Analyze(a, m) = SenseAt(a, t, m.view)
<1>1. m.cycle \in Nat
  BY DEF Sees, Senses
<1>2. /\ UpdateCurrentTime(a, m.cycle, TRUE) \in GameTimes
      /\ UpdateCurrentTime(a, m.cycle, FALSE) \in GameTimes
  BY <1>1, CurrentTimeType
<1>3. CASE m.type = "see"
  BY <1>2, <1>3, AnalyzeAt DEF Analyze
<1>4. CASE m.type # "see"
  <2>1. m.type = "sense_body"
    BY <1>4 DEF Sees, Senses
  <2> QED
    BY <1>2, <1>4, <2>1, AnalyzeAt DEF Analyze
<1> QED
  BY <1>3, <1>4

LEMMA OutcomeKeeps ==
  ASSUME TypeOK, NEW a \in Drafts, Outcome(a)
  PROVE  /\ ag'.bodyAge = a.bodyAge
         /\ conf.synch => ag'.view = a.view
         /\ conf.synch /\ a.out = <<>> => srv'.view = srv.view
<1>1. PICK b \in IF DecidesOnMessage(a) THEN Decided(a) ELSE {a} : Deliver(b)
  BY DEF Outcome
<1>2. b \in Drafts /\ b.bodyAge = a.bodyAge
  BY <1>1, DecidedType, DecidedKeeps
<1>3. ag'.bodyAge = b.bodyAge /\ ag'.view = b.view
  BY <1>1, <1>2 DEF Deliver, Drafts
<1>4. conf.synch => b = a
  BY <1>1 DEF DecidesOnMessage
<1>5. b.out = <<>> => srv'.view = srv.view
  BY <1>1 DEF Deliver, TypeOK
<1> QED
  BY <1>2, <1>3, <1>4, <1>5

LEMMA AgreeNext ==
  ASSUME TypeOK, TypeOK', ViewsAgree, [Next]_vars
  PROVE  ViewsAgree'
<1> SUFFICES ASSUME Calm', conf'.synch
             PROVE  /\ ag'.view = srv'.view
                    /\ \A i \in 1..Len(net') :
                         net'[i].type = "sense_body" => net'[i].view = srv'.view
  BY DEF ViewsAgree
<1>1. conf' = conf
  BY DEF Next, vars, Tick, Lose, Referee, HandleMessage, HandleTimeout, Think
<1>2. Calm /\ conf.synch /\ conf.maxLost = 0 /\ ~conf.playOnAllowed /\ lost = 0
  <2>1. Calm /\ conf.synch
    BY <1>1 DEF Calm, Quiet
  <2>2. lost \in 0..conf.maxLost
    BY DEF TypeOK
  <2> QED
    BY <2>1, <2>2 DEF Calm, Quiet
<1>3. /\ ag.view = srv.view
      /\ \A i \in 1..Len(net) : net[i].type = "sense_body" => net[i].view = srv.view
  BY <1>2 DEF ViewsAgree
<1>4. ag \in Drafts /\ ag.out = <<>> /\ srv.view \in Views /\ clock \in 0..(UnitsPerCycle * Cycles - 1)
  BY AgentsAreDrafts DEF TypeOK
<1>5. net \in Waiting
  BY DEF TypeOK, Waiting, Sees, Senses
<1>6. CASE UNCHANGED vars
  BY <1>3, <1>6 DEF vars
<1>7. CASE Tick
  <2>1. PICK u : u = Successor(clock)
    OBVIOUS
  <2>2. PICK look : look = (u % UnitsPerLook = 0)
    OBVIOUS
  <2>3. PICK due : due = (look /\ srv.looks + 1 >= LooksPerSee(srv.view))
    OBVIOUS
  <2> DEFINE p == SeeMsg(u)
             q == SenseMsg(u, srv.view)
  <2>4. ag'.view = ag.view /\ srv'.view = srv.view
        /\ net' \in {<<>>, <<q>>, <<p>>, <<q, p>>, <<p, q>>}
    BY <1>7, <2>1, <2>2, <2>3, TickSends
  <2>5. p.type # "sense_body" /\ q.view = srv.view
    BY DEF SeeMsg, SenseMsg
  <2> HIDE DEF p, q
  <2>6. \A n \in {<<>>, <<q>>, <<p>>, <<q, p>>, <<p, q>>} : \A i \in 1..Len(n) : n[i] \in {p, q}
    OBVIOUS
  <2> QED
    BY <1>3, <2>4, <2>5, <2>6
<1>8. CASE Lose
  BY <1>2, <1>8 DEF Lose
<1>9. CASE Referee
  BY <1>3, <1>9 DEF Referee
<1>10. ASSUME NEW m \in Sees \cup Senses, NEW a \in Drafts, a.view = srv.view, a.out = <<>>,
              m.type = "sense_body" => m.view = srv.view
       PROVE  /\ Analyze(a, m) \in Drafts
              /\ Analyze(a, m).view = srv.view /\ Analyze(a, m).out = <<>>
  <2>1. CASE m.type = "see"
    <3>1. PICK t \in GameTimes : Analyze(a, m) = SeeAt(a, t)
      BY <1>10, <2>1, SomeTime
    <3> QED
      BY <1>2, <1>10, <2>1, <3>1, SeeKeeps, AnalyzeType
  <2>2. CASE m.type # "see"
    <3>1. m.type = "sense_body" /\ \E t \in GameTimes : Analyze(a, m) = SenseAt(a, t, m.view)
      BY <1>10, <2>2, SomeTime
    <3>2. PICK t \in GameTimes : Analyze(a, m) = SenseAt(a, t, m.view)
      BY <3>1
    <3> QED
      BY <1>10, <3>1, <3>2, SenseKeeps, AnalyzeType
  <2> QED
    BY <2>1, <2>2
<1>11. ASSUME NEW a \in Drafts, a.view = srv.view, a.out = <<>>, Outcome(a)
       PROVE  ag'.view = srv.view /\ srv'.view = srv.view
  BY <1>2, <1>11, OutcomeKeeps
<1>12. CASE HandleMessage
  <2>1. net # <<>>
    BY <1>12 DEF HandleMessage
  <2>2. CASE \E m \in Sees \cup Senses : net = <<m>>
    <3>1. PICK m \in Sees \cup Senses : net = <<m>>
      BY <2>2
    <3>2. m.type = "sense_body" => m.view = srv.view
      BY <1>3, <3>1
    <3>3. Outcome(Analyze(ag, m)) /\ net' = <<>>
      BY <1>12, <3>1, HandleOne
    <3> QED
      BY <1>3, <1>4, <1>10, <1>11, <3>2, <3>3
  <2>3. CASE \E m, k \in Sees \cup Senses : net = <<m, k>>
    <3>1. PICK m, k \in Sees \cup Senses : net = <<m, k>>
      BY <2>3
    <3>2. Len(net) = 2 /\ net[1] = m /\ net[2] = k
      BY <3>1
    <3>3. /\ m.type = "sense_body" => m.view = srv.view
          /\ k.type = "sense_body" => k.view = srv.view
      BY <1>3, <3>2
    <3>4. \/ Outcome(Analyze(ag, m)) /\ net' = <<k>>
          \/ Outcome(Analyze(Analyze(ag, m), k)) /\ net' = <<>>
      BY <1>12, <3>1, HandleTwo
    <3> DEFINE a == Analyze(ag, m)
    <3>5. a \in Drafts /\ a.view = srv.view /\ a.out = <<>>
      BY <1>3, <1>4, <1>10, <3>3
    <3> HIDE DEF a
    <3>6. Analyze(a, k) \in Drafts /\ Analyze(a, k).view = srv.view /\ Analyze(a, k).out = <<>>
      BY <1>10, <3>3, <3>5
    <3>7. ag'.view = srv.view /\ srv'.view = srv.view
      BY <1>11, <3>4, <3>5, <3>6 DEF a
    <3>8. \A i \in 1..Len(<<k>>) : <<k>>[i] = k
      OBVIOUS
    <3> QED
      BY <3>3, <3>4, <3>7, <3>8
  <2> QED
    BY <1>5, <2>1, <2>2, <2>3, WhatWaits
<1>13. CASE HandleTimeout \/ Think
  <2>1. PICK b \in Decided(ag) : Deliver(b)
    BY <1>13 DEF HandleTimeout, Think
  <2>2. net = <<>> /\ net' = <<>>
    BY <1>13 DEF HandleTimeout, Think
  <2>3. ag.view = Sent(ag, srv.view)
    BY <1>3, <1>4 DEF Sent
  <2>4. b \in Drafts /\ b.view = Sent(b, srv.view)
    BY <1>4, <2>1, <2>3, DecidedType, DecidedKeeps
  <2>5. ag'.view = b.view /\ srv'.view = Sent(b, srv.view)
    BY <1>2, <2>1, <2>4, DeliverCalm
  <2> QED
    BY <2>2, <2>4, <2>5
<1> QED
  BY <1>6, <1>7, <1>8, <1>9, <1>12, <1>13 DEF Next

LEMMA BodyAgeNext ==
  ASSUME TypeOK, TypeOK', BodyAgeTracksServer, [Next]_vars
  PROVE  BodyAgeTracksServer'
<1>1. /\ thought => net = <<>>
      /\ Holds(net, "sense_body") => OffsetOf(clock) = 0
      /\ Calm => Holds(net, "sense_body") \/ ag.bodyAge \in {-1, OffsetOf(clock)}
  BY DEF BodyAgeTracksServer
<1>2. conf' = conf
  BY DEF Next, vars, Tick, Lose, Referee, HandleMessage, HandleTimeout, Think
<1>3. Calm' <=> Calm
  BY <1>2 DEF Calm, Quiet
<1>4. ag \in Drafts /\ clock \in 0..(UnitsPerCycle * Cycles - 1) /\ net \in Waiting
  BY AgentsAreDrafts DEF TypeOK, Waiting, Sees, Senses
<1>5. CASE UNCHANGED vars
  BY <1>1, <1>3, <1>5 DEF vars, BodyAgeTracksServer
<1>6. CASE Tick
  <2>1. PICK u : u = Successor(clock)
    OBVIOUS
  <2>2. PICK look : look = (u % UnitsPerLook = 0)
    OBVIOUS
  <2>3. PICK due : due = (look /\ srv.looks + 1 >= LooksPerSee(srv.view))
    OBVIOUS
  <2> DEFINE p == SeeMsg(u)
             q == SenseMsg(u, srv.view)
  <2>4. /\ clock' = u /\ net = <<>>
        /\ OffsetOf(u) # 0 => net' \in {<<>>, <<p>>}
        /\ OffsetOf(u) = 0 => net' \in {<<q>>, <<q, p>>, <<p, q>>}
    BY <1>6, <2>1, <2>2, <2>3, TickSends
  <2>5. p.type # "sense_body" /\ q.type = "sense_body"
    BY DEF SeeMsg, SenseMsg
  <2> HIDE DEF p, q
  <2>6. Holds(net', "sense_body") <=> OffsetOf(u) = 0
    BY <2>4, <2>5, NoneHolds, OneHolds, TwoHold
  <2>7. ASSUME Calm, OffsetOf(u) # 0 PROVE ag'.bodyAge \in {-1, OffsetOf(u)}
    <3>1. ag.bodyAge \in {-1, OffsetOf(clock)}
      BY <1>1, <2>4, <2>7, NoneHolds
    <3>2. /\ Place(u) = (IF Place(clock) = 23 THEN 0 ELSE Place(clock) + 1) /\ Place(clock) \in 0..23
          /\ OffsetOf(clock) = Place(clock) % 8 /\ OffsetOf(u) = Place(u) % 8
      BY <1>4, <2>1, ClockSteps
    <3>3. OffsetOf(u) = OffsetOf(clock) + 1 /\ OffsetOf(clock) \in 0..6
      BY <2>7, <3>2
    <3>4. ag'.bodyAge = IF ag.bodyAge = -1 \/ ag.bodyAge = MaxAge THEN ag.bodyAge ELSE ag.bodyAge + 1
      BY <1>6 DEF Tick, Aged, TypeOK, Agents
    <3> QED
      BY <3>1, <3>3, <3>4 DEF MaxAge, UnitsPerCycle
  <2>8. thought' = FALSE
    BY <1>6 DEF Tick
  <2> QED
    BY <1>3, <2>4, <2>6, <2>7, <2>8 DEF BodyAgeTracksServer
<1>7. CASE Lose
  <2>1. ~Calm
    <3>1. lost \in 0..conf.maxLost
      BY DEF TypeOK
    <3> QED
      BY <1>7, <3>1 DEF Lose, Calm, Quiet
  <2>2. net # <<>> /\ net' = Tail(net) /\ UNCHANGED <<clock, thought>>
    BY <1>7 DEF Lose
  <2>3. Holds(net', "sense_body") => Holds(net, "sense_body")
    <3>1. CASE \E m \in Sees \cup Senses : net = <<m>>
      <4>1. net' = <<>>
        BY <2>2, <3>1
      <4> QED
        BY <4>1, NoneHolds
    <3>2. CASE \E m, k \in Sees \cup Senses : net = <<m, k>>
      <4>1. PICK m, k : net = <<m, k>>
        BY <3>2
      <4>2. net' = <<k>>
        <5>1. Tail(<<m, k>>) = SubSeq(<<m, k>>, 2, 2)
          OBVIOUS
        <5> QED
          BY <2>2, <4>1, <5>1, Second, Zenon
      <4> QED
        BY <4>1, <4>2, OneHolds, TwoHold
    <3> QED
      BY <1>4, <2>2, <3>1, <3>2, WhatWaits
  <2>4. ~thought
    BY <1>1, <2>2
  <2> QED
    BY <1>1, <1>3, <2>1, <2>2, <2>3, <2>4 DEF BodyAgeTracksServer
<1>8. CASE Referee
  BY <1>1, <1>3, <1>8 DEF BodyAgeTracksServer, Referee
<1>9. ASSUME NEW m \in Sees \cup Senses, NEW a \in Drafts
      PROVE  /\ Analyze(a, m) \in Drafts
             /\ Analyze(a, m).bodyAge = IF m.type = "sense_body" THEN 0 ELSE a.bodyAge
  <2>1. CASE m.type = "see"
    <3>1. PICK t \in GameTimes : Analyze(a, m) = SeeAt(a, t)
      BY <1>9, <2>1, SomeTime
    <3> QED
      BY <1>9, <2>1, <3>1, SeeKeeps, AnalyzeType
  <2>2. CASE m.type # "see"
    <3>1. m.type = "sense_body" /\ \E t \in GameTimes : Analyze(a, m) = SenseAt(a, t, m.view)
      BY <1>9, <2>2, SomeTime
    <3>2. PICK t \in GameTimes : Analyze(a, m) = SenseAt(a, t, m.view)
      BY <3>1
    <3> QED
      BY <1>9, <3>1, <3>2, SenseKeeps, AnalyzeType
  <2> QED
    BY <2>1, <2>2
<1>10. CASE HandleMessage
  <2>1. net # <<>> /\ UNCHANGED <<clock, thought>>
    BY <1>10 DEF HandleMessage
  <2>2. ~thought'
    BY <1>1, <2>1
  <2>3. CASE \E m \in Sees \cup Senses : net = <<m>>
    <3>1. PICK m \in Sees \cup Senses : net = <<m>>
      BY <2>3
    <3>2. Outcome(Analyze(ag, m)) /\ net' = <<>>
      BY <1>10, <3>1, HandleOne
    <3>3. ag'.bodyAge = IF m.type = "sense_body" THEN 0 ELSE ag.bodyAge
      BY <1>4, <1>9, <3>2, OutcomeKeeps
    <3>4. Holds(net, "sense_body") <=> m.type = "sense_body"
      BY <3>1, OneHolds
    <3> QED
      BY <1>1, <1>3, <2>1, <2>2, <3>2, <3>3, <3>4, NoneHolds DEF BodyAgeTracksServer
  <2>4. CASE \E m, k \in Sees \cup Senses : net = <<m, k>>
    <3>1. PICK m, k \in Sees \cup Senses : net = <<m, k>>
      BY <2>4
    <3>2. \/ Outcome(Analyze(ag, m)) /\ net' = <<k>>
          \/ Outcome(Analyze(Analyze(ag, m), k)) /\ net' = <<>>
      BY <1>10, <3>1, HandleTwo
    <3> DEFINE a == Analyze(ag, m)
    <3>3. a \in Drafts /\ a.bodyAge = IF m.type = "sense_body" THEN 0 ELSE ag.bodyAge
      BY <1>4, <1>9
    <3> HIDE DEF a
    <3>4. Analyze(a, k) \in Drafts
          /\ Analyze(a, k).bodyAge = IF k.type = "sense_body" THEN 0 ELSE a.bodyAge
      BY <1>9, <3>3
    <3>5. Holds(net, "sense_body") <=> m.type = "sense_body" \/ k.type = "sense_body"
      BY <3>1, TwoHold
    <3>6. CASE Outcome(a) /\ net' = <<k>>
      <4>1. ag'.bodyAge = a.bodyAge
        BY <3>3, <3>6, OutcomeKeeps
      <4>2. Holds(net', "sense_body") <=> k.type = "sense_body"
        BY <3>6, OneHolds
      <4> QED
        BY <1>1, <1>3, <2>1, <2>2, <3>3, <3>5, <4>1, <4>2 DEF BodyAgeTracksServer
    <3>7. CASE Outcome(Analyze(a, k)) /\ net' = <<>>
      <4>1. ag'.bodyAge = Analyze(a, k).bodyAge
        BY <3>4, <3>7, OutcomeKeeps
      <4> QED
        BY <1>1, <1>3, <2>1, <2>2, <3>3, <3>4, <3>5, <3>7, <4>1, NoneHolds DEF BodyAgeTracksServer
    <3> QED
      BY <3>2, <3>6, <3>7 DEF a
  <2> QED
    BY <1>4, <2>1, <2>3, <2>4, WhatWaits
<1>11. CASE HandleTimeout \/ Think
  <2>1. PICK b \in Decided(ag) : Deliver(b)
    BY <1>11 DEF HandleTimeout, Think
  <2>2. net = <<>> /\ net' = <<>> /\ clock' = clock
    BY <1>11 DEF HandleTimeout, Think
  <2>3. b \in Drafts /\ b.bodyAge = ag.bodyAge
    BY <1>4, <2>1, DecidedType, DecidedKeeps
  <2>4. ag'.bodyAge = ag.bodyAge
    BY <2>1, <2>3 DEF Deliver, Drafts
  <2> QED
    BY <1>1, <1>3, <2>2, <2>4, NoneHolds DEF BodyAgeTracksServer
<1> QED
  BY <1>5, <1>6, <1>7, <1>8, <1>10, <1>11 DEF Next

-----------------------------------------------------------------------------
(* The rotation.                                                            *)

LEMMA RotationTables ==
  ASSUME NEW timing \in SynchTimings
  PROVE  /\ WidthAfter(timing) \in Widths
         /\ EveryCycle(timing, WidthAfter(timing))
         /\ timing \in {"TIME_0_00", "TIME_50_0", "TIME_22_5"} /\ timing # "TIME_NOSYNCH"
BY DEF SynchTimings, WidthAfter, Widths, EveryCycle

\* Each see of the rotation takes the client to the next.
LEMMA TurnTables ==
  ASSUME NEW s, NEW w, NEW p, AtTurn(s, w, p), NEW next, next = NextTiming(s.timing, w)
  PROVE  /\ next \in SynchTimings /\ w = WidthBefore(next) /\ EveryCycle(s.timing, w)
         /\ InRotation(next, 1, p)
         /\ w = WidthAfter(next) \/ BeforeThink(next, p)
         /\ p # 6
<1>1. <<s.timing, p>> \in {<<"TIME_0_00", 12>>, <<"TIME_50_0", 18>>, <<"TIME_22_5", 0>>}
      /\ w = WidthAfter(s.timing)
  BY DEF AtTurn
<1>2. CASE s.timing = "TIME_0_00" /\ p = 12
  BY <1>1, <1>2 DEF WidthAfter, WidthBefore, NextTiming, SynchTimings, EveryCycle, InRotation, BeforeThink
<1>3. CASE s.timing = "TIME_50_0" /\ p = 18
  BY <1>1, <1>3 DEF WidthAfter, WidthBefore, NextTiming, SynchTimings, EveryCycle, InRotation, BeforeThink
<1>4. CASE s.timing = "TIME_22_5" /\ p = 0
  BY <1>1, <1>4 DEF WidthAfter, WidthBefore, NextTiming, SynchTimings, EveryCycle, InRotation, BeforeThink
<1> QED
  BY <1>1, <1>2, <1>3, <1>4

\* Until the next see is due a unit keeps the client in the rotation, and where it is
\* due there is a turn.
LEMMA RotationSteps ==
  ASSUME NEW p \in 0..23, NEW q, q = (IF p = 23 THEN 0 ELSE p + 1),
         NEW timing \in SynchTimings, NEW w \in Widths, NEW till \in Nat, InRotation(timing, till, p),
         w = WidthAfter(timing) \/ (w = WidthBefore(timing) /\ BeforeThink(timing, p) /\ p % 8 # 4),
         NEW d, d = IF q % 8 = 0 /\ till # 0 THEN till - 1 ELSE till,
         NEW k, k = (IF w = "NARROW" THEN 2 ELSE IF w = "NORMAL" THEN 4 ELSE 8),
         Since(timing, p) < k
  PROVE  /\ q % 3 = 0 /\ Since(timing, p) + 1 >= k =>
              /\ d = 0 /\ w = WidthAfter(timing)
              /\ <<timing, q>> \in {<<"TIME_0_00", 12>>, <<"TIME_50_0", 18>>, <<"TIME_22_5", 0>>}
         /\ ~(q % 3 = 0 /\ Since(timing, p) + 1 >= k) =>
              /\ InRotation(timing, d, q)
              /\ w = WidthAfter(timing) \/ (w = WidthBefore(timing) /\ BeforeThink(timing, q))
<1>1. CASE timing = "TIME_0_00"
  <2>1. Since(timing, p) = p \div 3 /\ p \in 0..11 /\ till = IF p \in 0..7 THEN 1 ELSE 0
    BY <1>1, Tables DEF Since, Round, InRotation
  <2>2. w = "NORMAL" \/ (w = "NARROW" /\ p \in 0..3)
    BY <1>1 DEF WidthAfter, WidthBefore, BeforeThink
  <2>3. q = p + 1 /\ d = IF q \in 0..7 THEN 1 ELSE 0
    BY <2>1
  <2>4. q % 3 = 0 /\ Since(timing, p) + 1 >= k => q = 12 /\ w = "NORMAL" /\ d = 0
    BY <2>1, <2>2, <2>3
  <2>5. ~(q % 3 = 0 /\ Since(timing, p) + 1 >= k) => q \in 0..11 /\ (w = "NORMAL" \/ q \in 0..4)
    BY <2>1, <2>2, <2>3
  <2> QED
    BY <1>1, <2>2, <2>3, <2>4, <2>5 DEF WidthAfter, WidthBefore, BeforeThink, InRotation
<1>2. CASE timing = "TIME_50_0"
  <2>1. Since(timing, p) = (p - 12) \div 3 /\ p \in 12..17 /\ till = IF p \in 12..15 THEN 1 ELSE 0
    BY <1>2, Tables DEF Since, Round, InRotation
  <2>2. w = "NARROW"
    BY <1>2 DEF WidthAfter, WidthBefore, BeforeThink
  <2>3. q = p + 1 /\ d = IF q \in 12..15 THEN 1 ELSE 0
    BY <2>1
  <2>4. q % 3 = 0 /\ Since(timing, p) + 1 >= k => q = 18 /\ d = 0
    BY <2>1, <2>2, <2>3
  <2>5. ~(q % 3 = 0 /\ Since(timing, p) + 1 >= k) => q \in 12..17
    BY <2>1, <2>2, <2>3
  <2> QED
    BY <1>2, <2>2, <2>3, <2>4, <2>5 DEF WidthAfter, InRotation
<1>3. CASE timing = "TIME_22_5"
  <2>1. Since(timing, p) = (p - 18) \div 3 /\ p \in 18..23 /\ till = 1
    BY <1>3, Tables DEF Since, Round, InRotation
  <2>2. w = "NARROW"
    BY <1>3 DEF WidthAfter, WidthBefore, BeforeThink
  <2>3. q % 3 = 0 /\ Since(timing, p) + 1 >= k => q = 0 /\ d = 0
    BY <2>1, <2>2
  <2>4. ~(q % 3 = 0 /\ Since(timing, p) + 1 >= k) => q \in 18..23 /\ d = 1
    BY <2>1, <2>2
  <2> QED
    BY <1>3, <2>2, <2>3, <2>4 DEF WidthAfter, InRotation
<1> QED
  BY <1>1, <1>2, <1>3, RotationTables

-----------------------------------------------------------------------------
(* The estimate of the next see.                                            *)

LEMMA NewCycleTill ==
  ASSUME NEW s \in SeeStates, NEW t, NEW r, r = SetNewCycle(s, t)
  PROVE  r.till = IF t # s.now /\ s.till # 0 THEN s.till - 1 ELSE s.till
<1> DEFINE h == <<s.count, s.history[1], s.history[2]>>
           l == IF s.till = 0 THEN 0 ELSE s.till - 1
<1>1. r = IF t = s.now THEN s ELSE [s EXCEPT !.now = t, !.till = l, !.history = h, !.count = 0]
  BY DEF SetNewCycle
<1> HIDE DEF h, l
<1>2. r.till = IF t = s.now THEN s.till ELSE l
  BY <1>1 DEF SeeStates
<1> QED
  BY <1>2 DEF l

LEMMA EveryCycleTill ==
  ASSUME NEW s \in SeeStates, NEW v \in Views, Plain(s), s.timing \in SynchTimings,
         EveryCycle(s.timing, v.width), NEW r, r = SetViewMode(s, v)
  PROVE  r.till = 1
<1>1. ViewPlan(s, v.width)[1] = 1
  <2>1. ~IllegalWidth(s.timing, v.width) /\ ~s.synchSee
    BY DEF IllegalWidth, EveryCycle, Plain
  <2>2. ViewPlan(s, v.width) = <<1, "SYNCH_EVERY">>
    BY <2>1 DEF ViewPlan
  <2> QED
    BY <2>2
<1> DEFINE p == ViewPlan(s, v.width)[1]
           q == ViewPlan(s, v.width)[2]
<1>2. r = [s EXCEPT !.width = v.width, !.quality = v.quality, !.till = p, !.synchType = q]
  BY DEF SetViewMode
<1>3. p = 1
  BY <1>1
<1> HIDE DEF p, q
<1> QED
  BY <1>2, <1>3 DEF SeeStates

\* A synchronized client in the cycle of its last see chooses the width of the next.
LEMMA ExecuteTurns ==
  ASSUME NEW a \in Drafts, Plain(a.see), a.see.timing \in SynchTimings,
         a.now = a.see.lastSee, a.see.till = 1, NEW v, NEW w, w = WidthAfter(a.see.timing),
         a.view.width = w => Sent(a, v).width = w,
         NEW b, b = ExecuteView(a, w)
  PROVE  /\ b.see.timing = a.see.timing /\ b.see.till = 1
         /\ b.see.now = a.see.now /\ b.see.lastSee = a.see.lastSee
         /\ Sent(b, v).width = w
<1>1. /\ w \in Widths /\ EveryCycle(a.see.timing, w)
      /\ a.see.timing \in {"TIME_0_00", "TIME_50_0", "TIME_22_5"}
      /\ IsSynch(a.see) /\ ~a.see.synchSee /\ a.see \in SeeStates
  BY RotationTables, PlainSynch DEF Drafts
<1>2. CASE a.view.width = w
  <2>1. b = a
    BY <1>2 DEF ExecuteView, MayChangeView
  <2> QED
    BY <1>2, <2>1
<1>3. CASE a.view.width # w
  <2> DEFINE u == View(w, "HIGH")
  <2>1. CanSendChangeView(a.see, w, a.now, SeeAfterThink)
    BY <1>1 DEF CanSendChangeView, WidthAfter
  <2>2. b = SendChangeView(a, u)
    BY <1>1, <1>3, <2>1 DEF ExecuteView, MayChangeView
  <2>3. u \in Views /\ u.width = w
    BY <1>1, ViewType DEF View, Qualities
  <2> HIDE DEF u
  <2>4. b.see = SetViewMode(a.see, u) /\ Sent(b, v) = u
    BY <2>2, <2>3, SendFields, SentView
  <2>5. b.see.till = 1
    BY <1>1, <2>3, <2>4, EveryCycleTill
  <2> QED
    BY <1>1, <2>3, <2>4, <2>5, ViewModeFields
<1> QED
  BY <1>2, <1>3

LEMMA DecidedTurns ==
  ASSUME NEW a \in Drafts, conf.view = "View_Synch", Plain(a.see), a.see.timing \in SynchTimings,
         a.now = a.see.lastSee, a.see.till = 1, NEW v,
         a.view.width = WidthAfter(a.see.timing) => Sent(a, v).width = WidthAfter(a.see.timing),
         NEW b \in Decided(a)
  PROVE  /\ b.see.timing = a.see.timing /\ b.see.till = 1
         /\ b.see.now = a.see.now /\ b.see.lastSee = a.see.lastSee
         /\ Sent(b, v).width = WidthAfter(a.see.timing)
<1>1. BeforeActions(a) = a
  <2>1. ~MissedSee(a, a.see) /\ IsSynch(a.see)
    BY PlainSynch DEF MissedSee
  <2> QED
    BY <2>1 DEF BeforeActions, AdjustSeeSynchSynchMode
<1>2. ViewWishes(a) = {WidthAfter(a.see.timing)}
  <2>1. IsSynch(a.see) /\ ~a.see.synchSee
    BY PlainSynch
  <2> QED
    BY <2>1 DEF ViewWishes, ViewSynchWidth, WidthAfter
<1> DEFINE f == ExecuteView(a, WidthAfter(a.see.timing))
<1>3. b = [f EXCEPT !.lastDecision = a.now]
  BY <1>1, <1>2 DEF Decided
<1>4. f \in Drafts
  BY ExecuteViewType
<1>5. /\ f.see.timing = a.see.timing /\ f.see.till = 1
      /\ f.see.now = a.see.now /\ f.see.lastSee = a.see.lastSee
      /\ Sent(f, v).width = WidthAfter(a.see.timing)
  BY ExecuteTurns
<1> HIDE DEF f
<1>6. b.see = f.see /\ b.out = f.out
  BY <1>3, <1>4 DEF Drafts
<1>7. Sent(b, v) = Sent(f, v)
  BY <1>6 DEF Sent
<1> QED
  BY <1>5, <1>6, <1>7

\* SeeState after a see of the rotation, and after one without synchronization.
LEMMA BySeeTurns ==
  ASSUME NEW s \in SeeStates, NEW r \in SeeStates, NEW c \in 0..(UnitsPerCycle * Cycles - 1),
         CountSee(s, TimeOf(c)) = CountSee(r, TimeOf(c)),
         NEW av \in Views, NEW v \in Views, Expects(r, av, v, c),
         r.timing \in SynchTimings => AtTurn(r, v.width, Place(c)),
         NEW e, e = UpdateBySee(s, TimeOf(c), av)
  PROVE  /\ e.now = TimeOf(c) /\ e.lastSee = TimeOf(c) /\ e \in SeeStates /\ Plain(e)
         /\ r.timing = "TIME_NOSYNCH" => e.timing = "TIME_NOSYNCH"
         /\ r.timing \in SynchTimings =>
              /\ av = v /\ r.lastSee # TimeOf(c)
              /\ e.timing = NextTiming(r.timing, v.width) /\ e.till = 1
<1> DEFINE t == TimeOf(c)
           k == CountSee(r, t)
<1>1. t \in GameTimes
  BY TimeSeen
<1>2. Plain(r) /\ r.now = t /\ (r.count >= 1 => r.lastSee = t)
  BY DEF Expects
<1>3. e.now = t /\ e.lastSee = t /\ e \in SeeStates /\ Plain(e)
  BY BySeeFields
<1> HIDE DEF t
<1>4. /\ k \in SeeStates /\ Plain(k)
      /\ k.timing = IF t = r.lastSee THEN "TIME_NOSYNCH" ELSE r.timing
  BY <1>1, <1>2, CountSeeFields
<1>5. e = IF av.quality = "LOW" THEN SetLastSeeTiming(k, "TIME_NOSYNCH")
          ELSE IF IsSynch(k) THEN Advance(k, av) ELSE k
  BY DEF UpdateBySee, t
<1> HIDE DEF k
<1>6. CASE r.timing = "TIME_NOSYNCH"
  <2>1. k.timing = "TIME_NOSYNCH" /\ ~IsSynch(k)
    BY <1>4, <1>6, PlainSynch
  <2>2. e = k \/ e = SetLastSeeTiming(k, "TIME_NOSYNCH")
    BY <1>5, <2>1
  <2>3. e.timing = "TIME_NOSYNCH"
    BY <1>4, <2>1, <2>2, TimingFields
  <2> QED
    BY <1>3, <1>6, <2>3 DEF t, SynchTimings
<1>7. CASE r.timing \in SynchTimings
  <2>1. Place(c) # 6 /\ EveryCycle(r.timing, v.width) /\ NextTiming(r.timing, v.width) \in SynchTimings
    BY <1>7, TurnTables
  <2>2. av = v /\ v.quality = "HIGH" /\ r.lastSee # t
    BY <1>7, <2>1 DEF Expects, t
  <2>3. k.timing = r.timing /\ IsSynch(k)
    BY <1>4, <1>7, <2>2, PlainSynch
  <2>4. e = Advance(k, v)
    BY <1>5, <2>2, <2>3
  <2> DEFINE d == SetViewMode(k, v)
             next == NextTiming(r.timing, v.width)
  <2>5. d.till = 1 /\ d \in SeeStates
    BY <1>4, <1>7, <2>1, <2>3, EveryCycleTill, ViewModeType
  <2>6. GetNextTiming(k, v) = next
    BY <1>4, <2>2, <2>3 DEF GetNextTiming, Plain
  <2>7. e = SetLastSeeTiming(d, next)
    BY <2>4, <2>6 DEF Advance
  <2> HIDE DEF d, next
  <2>8. e.timing = next /\ e.till = 1
    BY <2>5, <2>7 DEF SetLastSeeTiming, SeeStates
  <2>9. r.timing # "TIME_NOSYNCH"
    BY <1>7 DEF SynchTimings
  <2> QED
    BY <1>3, <2>2, <2>8, <2>9 DEF t, next
<1> QED
  BY <1>2, <1>6, <1>7 DEF Plain

LEMMA SynchronizedTurns ==
  ASSUME NEW a \in Drafts, Plain(a.see), NEW timing \in SynchTimings,
         NEW w \in Views, w.width = WidthAfter(timing), NEW v,
         NEW b, b = Synchronized(a, timing, w)
  PROVE  /\ b.see.timing = timing /\ b.see.till = 1 /\ Plain(b.see)
         /\ b.see.now = a.see.now /\ b.see.lastSee = a.see.lastSee
         /\ b.view = w /\ Sent(b, v) = w
         /\ b.now = a.now /\ b.seeTime = a.seeTime /\ b.lastDecision = a.lastDecision
<1> DEFINE d == [a EXCEPT !.see = SetLastSeeTiming(@, timing)]
<1>1. timing \in Timings /\ a.see \in SeeStates
  BY DEF SynchTimings, Timings, Drafts
<1>2. d \in Drafts /\ d.see \in SeeStates
  BY <1>1, TimingFieldType DEF Drafts
<1>3. /\ d.see = SetLastSeeTiming(a.see, timing) /\ d.now = a.now /\ d.seeTime = a.seeTime
      /\ d.lastDecision = a.lastDecision
  BY DEF Drafts
<1>4. b = SendChangeView(d, w)
  BY DEF Synchronized
<1> HIDE DEF d
<1>5. /\ d.see.timing = timing /\ Plain(d.see)
      /\ d.see.now = a.see.now /\ d.see.lastSee = a.see.lastSee
  BY <1>1, <1>3, TimingFields
<1>6. /\ b.see = SetViewMode(d.see, w) /\ b.view = w /\ b.now = d.now /\ b.seeTime = d.seeTime
      /\ b.lastDecision = d.lastDecision /\ Sent(b, v) = w
  BY <1>2, <1>4, SendFields, SentView
<1>7. /\ b.see.timing = timing /\ Plain(b.see)
      /\ b.see.now = a.see.now /\ b.see.lastSee = a.see.lastSee
  BY <1>2, <1>5, <1>6, ViewModeFields
<1>8. b.see.till = 1
  <2>1. EveryCycle(timing, w.width)
    BY RotationTables
  <2> QED
    BY <1>2, <1>5, <1>6, <2>1, EveryCycleTill
<1> QED
  BY <1>3, <1>6, <1>7, <1>8

LEMMA SeeTurns ==
  ASSUME NEW a \in Drafts, NEW r \in SeeStates, NEW c \in 0..(UnitsPerCycle * Cycles - 1),
         CountSee(a.see, TimeOf(c)) = CountSee(r, TimeOf(c)),
         NEW v, NEW u \in Views, u = Sent(a, v), Expects(r, a.view, u, c), ~playOn,
         r.timing \in SynchTimings => AtTurn(r, u.width, Place(c)),
         NEW d, d = SeeAt(a, TimeOf(c))
  PROVE  /\ d.now = TimeOf(c) /\ d.seeTime = TimeOf(c) /\ d.lastDecision = a.lastDecision
         /\ d.see.now = TimeOf(c) /\ d.see.lastSee = TimeOf(c) /\ Plain(d.see)
         /\ r.timing \in SynchTimings =>
              /\ r.lastSee # TimeOf(c)
              /\ d.see.timing = NextTiming(r.timing, u.width) /\ d.see.till = 1
              /\ d.view = u /\ d.out = a.out
         /\ r.timing \notin SynchTimings /\ d.see.timing \in SynchTimings =>
              /\ ~conf.synch /\ Place(c) = 0
              /\ d.see.timing = "TIME_0_00" /\ d.see.till = 1
              /\ d.view.width = "NORMAL" /\ Sent(d, v).width = "NORMAL"
<1> DEFINE t == TimeOf(c)
           e == UpdateBySee(a.see, t, a.view)
           b == [a EXCEPT !.now = t, !.seeTime = t, !.seeLag = a.bodyAge, !.see = e]
<1>1. a.see \in SeeStates /\ a.view \in Views /\ t \in GameTimes
  BY TimeSeen DEF Drafts
<1>2. /\ e.now = t /\ e.lastSee = t /\ e \in SeeStates /\ Plain(e)
      /\ r.timing = "TIME_NOSYNCH" => e.timing = "TIME_NOSYNCH"
      /\ r.timing \in SynchTimings =>
           /\ a.view = u /\ r.lastSee # t
           /\ e.timing = NextTiming(r.timing, u.width) /\ e.till = 1
  BY <1>1, BySeeTurns
<1>3. e.timing = "TIME_NOSYNCH" /\ ~conf.synch /\ e.history[1] = 2 /\ e.history[2] = 3 => Place(c) = 0
  BY <1>1, BySeeFields
<1>5. d = IF conf.synch \/ IsSynch(b.see) THEN b ELSE AdjustSeeSynchNormalMode(b)
  BY DEF SeeAt
<1> HIDE DEF t, e
<1>6. b \in Drafts
  <2>1. a.bodyAge \in -1..MaxAge
    BY DEF Drafts
  <2> QED
    BY <1>1, <1>2, <2>1 DEF Drafts
<1>7. /\ b.now = t /\ b.seeTime = t /\ b.see = e /\ b.view = a.view /\ b.out = a.out
      /\ b.lastDecision = a.lastDecision
  BY DEF Drafts
<1> HIDE DEF b
<1>8. CASE e.timing \in SynchTimings
  <2>1. r.timing \in SynchTimings
    BY <1>2, <1>8 DEF Expects, Plain, SynchTimings
  <2>2. d = b
    BY <1>2, <1>5, <1>7, <1>8, PlainSynch
  <2> QED
    BY <1>2, <1>7, <2>1, <2>2 DEF t
<1>9. CASE e.timing = "TIME_NOSYNCH"
  <2>1. r.timing \notin SynchTimings
    <3>1. ASSUME r.timing \in SynchTimings PROVE NextTiming(r.timing, u.width) \in SynchTimings
      BY <3>1, TurnTables
    <3> QED
      BY <1>2, <1>9, <3>1 DEF SynchTimings
  <2>2. ~IsSynch(e)
    BY <1>2, <1>9, PlainSynch
  <2>3. CASE conf.synch
    BY <1>2, <1>5, <1>7, <1>9, <2>1, <2>3 DEF t, SynchTimings
  <2>4. CASE ~conf.synch /\ IsSynchedSeeCountNormalMode(e)
    <3> DEFINE w == View("NORMAL", "HIGH")
    <3>1. d = Synchronized(b, "TIME_0_00", w)
      BY <1>5, <1>7, <2>2, <2>4 DEF AdjustSeeSynchNormalMode
    <3>2. w \in Views /\ w.width = "NORMAL" /\ "TIME_0_00" \in SynchTimings
          /\ WidthAfter("TIME_0_00") = "NORMAL"
      BY FirstViews DEF View, SynchTimings, WidthAfter
    <3>3. Place(c) = 0
      BY <1>3, <1>9, <2>4 DEF IsSynchedSeeCountNormalMode
    <3> HIDE DEF w
    <3>4. /\ d.see.timing = "TIME_0_00" /\ d.see.till = 1 /\ Plain(d.see)
          /\ d.see.now = b.see.now /\ d.see.lastSee = b.see.lastSee
          /\ d.view = w /\ Sent(d, v) = w
          /\ d.now = b.now /\ d.seeTime = b.seeTime /\ d.lastDecision = b.lastDecision
      <4>1. Plain(b.see) /\ w.width = WidthAfter("TIME_0_00")
        BY <1>2, <1>7, <3>2
      <4> QED
        BY <1>6, <3>1, <3>2, <4>1, SynchronizedTurns
    <3> QED
      BY <1>2, <1>7, <2>1, <2>4, <3>2, <3>3, <3>4 DEF t
  <2>5. CASE ~conf.synch /\ ~IsSynchedSeeCountNormalMode(e)
    <3>1. d = b \/ d = SendChangeView(b, Trial)
      BY <1>5, <1>7, <2>2, <2>5 DEF AdjustSeeSynchNormalMode, Trial
    <3>2. CASE d = b
      BY <1>2, <1>7, <1>9, <2>1, <3>2 DEF t, SynchTimings
    <3>3. CASE d = SendChangeView(b, Trial)
      <4>1. Trial \in Views
        BY FirstViews DEF Trial
      <4>2. /\ d.see = SetViewMode(b.see, Trial) /\ d.now = b.now /\ d.seeTime = b.seeTime
            /\ d.lastDecision = b.lastDecision
        BY <1>6, <3>3, <4>1, SendFields
      <4>3. /\ d.see.timing = "TIME_NOSYNCH" /\ Plain(d.see)
            /\ d.see.now = t /\ d.see.lastSee = t
        BY <1>2, <1>7, <1>9, <4>1, <4>2, ViewModeFields
      <4> QED
        BY <1>7, <2>1, <4>2, <4>3 DEF t, SynchTimings
    <3> QED
      BY <3>1, <3>2, <3>3
  <2> QED
    BY <2>3, <2>4, <2>5
<1> QED
  BY <1>2, <1>8, <1>9 DEF Plain

LEMMA SenseTurns ==
  ASSUME NEW a \in Drafts, NEW v \in Views, NEW c \in 0..(UnitsPerCycle * Cycles - 1),
         NEW b, b = SenseAt(a, TimeOf(c), v),
         NEW r, r = SetNewCycle(a.see, TimeOf(c))
  PROVE  /\ b.lastDecision = a.lastDecision /\ b.see.till = r.till
<1> DEFINE t == TimeOf(c)
           e == UpdateBySenseBody(a.see, t, v)
<1>2. b = [a EXCEPT !.now = t, !.senseTime = t, !.bodyAge = 0, !.view = v, !.see = e]
  BY DEF SenseAt
<1>3. r \in SeeStates /\ t \in GameTimes
  BY TimeSeen, NewCycleType DEF Drafts
<1>4. e = [r EXCEPT !.width = v.width, !.quality = v.quality]
  BY DEF UpdateBySenseBody
<1> HIDE DEF t, e
<1>5. b.lastDecision = a.lastDecision /\ b.see = e
  BY <1>2 DEF Drafts
<1> QED
  BY <1>3, <1>4, <1>5 DEF SeeStates

-----------------------------------------------------------------------------
(* Messages keep the client in step.                                        *)

\* With a see of its cycle at hand a synchronized client has decided, or does so now.
LEMMA OutcomeTurns ==
  ASSUME TypeOK, conf.maxLost = 0, lost = 0, conf.view = "View_Synch",
         NEW a \in Drafts, Outcome(a), Plain(a.see), a.see.timing \in SynchTimings,
         a.see.till = 1, a.now = a.see.lastSee, a.seeTime = a.now,
         NEW w, w = WidthAfter(a.see.timing),
         a.view.width = w => Sent(a, srv.view).width = w,
         ~conf.synch /\ a.lastDecision = a.now => Sent(a, srv.view).width = w
  PROVE  /\ ag'.see.timing = a.see.timing /\ ag'.see.till = 1
         /\ ag'.see.now = a.see.now /\ ag'.see.lastSee = a.see.lastSee
         /\ ~conf.synch => srv'.view.width = w /\ ag'.lastDecision = a.now
         /\ conf.synch => srv'.view = Sent(a, srv.view)
<1>1. PICK b \in IF DecidesOnMessage(a) THEN Decided(a) ELSE {a} : Deliver(b)
  BY DEF Outcome
<1>2. b \in Drafts
  BY <1>1, DecidedType
<1>3. ag'.see = b.see /\ srv'.view = Sent(b, srv.view)
  BY <1>1, <1>2, DeliverCalm
<1>4. ag'.lastDecision = b.lastDecision
  BY <1>1, <1>2 DEF Deliver, Drafts
<1>5. CASE DecidesOnMessage(a)
  <2>1. ~conf.synch
    BY <1>5 DEF DecidesOnMessage
  <2>2. /\ b.see.timing = a.see.timing /\ b.see.till = 1
        /\ b.see.now = a.see.now /\ b.see.lastSee = a.see.lastSee
        /\ Sent(b, srv.view).width = w
    BY <1>1, <1>5, DecidedTurns
  <2>3. b.lastDecision = a.now
    BY <1>1, <1>5, DecidedKeeps
  <2> QED
    BY <1>3, <1>4, <2>1, <2>2, <2>3
<1>6. CASE ~DecidesOnMessage(a)
  <2>1. b = a
    BY <1>1, <1>6
  <2>2. conf.synch \/ a.lastDecision = a.now
    BY <1>6 DEF DecidesOnMessage, HasCurrentSee
  <2> QED
    BY <1>3, <1>4, <2>1, <2>2
<1> QED
  BY <1>5, <1>6

\* A see: alone, before or after the sense_body of its unit.
LEMMA SeeHandled ==
  ASSUME TypeOK, conf.maxLost = 0, lost = 0, ~playOn, conf.view = "View_Synch", ~thought,
         NEW a \in Drafts, a.out = <<>>,
         NEW r \in SeeStates, CountSee(a.see, TimeOf(clock)) = CountSee(r, TimeOf(clock)),
         Expects(r, a.view, srv.view, clock),
         r.timing \in SynchTimings =>
           /\ AtTurn(r, srv.view.width, Place(clock))
           /\ ~conf.synch => a.lastDecision = r.lastSee,
         NEW d, d = SeeAt(a, TimeOf(clock)),
         NEW f \in {d, SenseAt(d, TimeOf(clock), srv.view)}, Outcome(f)
  PROVE  /\ r.timing \in SynchTimings => ag'.see.timing \in SynchTimings
         /\ ag'.see.timing \in SynchTimings =>
              /\ ag'.see.now = TimeOf(clock)
              /\ BetweenTurns(ag'.see, srv'.view.width, Place(clock))
              /\ ~conf.synch => ag'.lastDecision = ag'.see.lastSee
<1> DEFINE t == TimeOf(clock)
           p == Place(clock)
           u == srv.view
<1>1. clock \in 0..(UnitsPerCycle * Cycles - 1) /\ srv.view \in Views /\ Sent(a, srv.view) = srv.view
  BY DEF TypeOK, Sent
<1>2. /\ d.now = t /\ d.seeTime = t /\ d.lastDecision = a.lastDecision
      /\ d.see.now = t /\ d.see.lastSee = t /\ Plain(d.see)
      /\ r.timing \in SynchTimings =>
           /\ r.lastSee # t
           /\ d.see.timing = NextTiming(r.timing, u.width) /\ d.see.till = 1
           /\ d.view = u /\ d.out = a.out
      /\ r.timing \notin SynchTimings /\ d.see.timing \in SynchTimings =>
           /\ ~conf.synch /\ p = 0
           /\ d.see.timing = "TIME_0_00" /\ d.see.till = 1
           /\ d.view.width = "NORMAL" /\ Sent(d, u).width = "NORMAL"
  BY <1>1, SeeTurns
<1>3. TimeOf(clock) \in GameTimes /\ srv.view \in Views
  BY <1>1, TimeSeen
<1>4. d \in Drafts /\ f \in Drafts /\ d.see \in SeeStates
  <2>1. d \in Drafts
    BY <1>3, SeeType
  <2>2. SenseAt(d, TimeOf(clock), srv.view) \in Drafts
    BY <1>3, <2>1, SenseType
  <2> QED
    BY <2>1, <2>2 DEF Drafts
<1>5. /\ f.now = t /\ f.seeTime = t /\ f.lastDecision = a.lastDecision
      /\ f.see.now = t /\ f.see.lastSee = t /\ Plain(f.see)
      /\ f.see.timing = d.see.timing /\ f.see.till = d.see.till
      /\ f.view \in {d.view, u} /\ f.out = d.out
  <2>1. CASE f = d
    BY <1>2, <2>1
  <2>2. CASE f = SenseAt(d, TimeOf(clock), srv.view)
    <3>1. SetNewCycle(d.see, t) = d.see
      BY <1>2 DEF SetNewCycle
    <3>2. /\ f.now = t /\ f.seeTime = d.seeTime /\ f.view = u /\ f.out = d.out
          /\ f.see.now = d.see.now /\ f.see.lastSee = d.see.lastSee /\ f.see.timing = d.see.timing
          /\ f.see.synchSee = d.see.synchSee /\ f.see.synchType = d.see.synchType
      BY <1>1, <1>4, <2>2, <3>1, SenseFields
    <3>3. f.lastDecision = d.lastDecision /\ f.see.till = d.see.till
      BY <1>1, <1>4, <2>2, <3>1, SenseTurns
    <3> QED
      BY <1>2, <3>2, <3>3 DEF Plain
  <2> QED
    BY <2>1, <2>2
<1>6. Sent(f, u) = Sent(d, u)
  BY <1>5 DEF Sent
<1>7. CASE f.see.timing \notin SynchTimings
  <2>1. ag'.see.timing = f.see.timing
    <3>1. PICK b \in IF DecidesOnMessage(f) THEN Decided(f) ELSE {f} : Deliver(b)
      BY DEF Outcome
    <3>2. b \in Drafts
      BY <1>4, <3>1, DecidedType
    <3>3. ag'.see = b.see
      BY <3>1, <3>2, DeliverCalm
    <3>4. b.see.timing = f.see.timing
      BY <1>4, <1>5, <3>1, DecidedTiming
    <3> QED
      BY <3>3, <3>4
  <2>2. r.timing \notin SynchTimings
    <3>1. ASSUME r.timing \in SynchTimings PROVE NextTiming(r.timing, u.width) \in SynchTimings
      BY <3>1, TurnTables
    <3> QED
      BY <1>2, <1>5, <1>7, <3>1
  <2> QED
    BY <1>7, <2>1, <2>2
<1>8. CASE f.see.timing \in SynchTimings
  <2> DEFINE w == WidthAfter(f.see.timing)
             next == f.see.timing
  <2>1. CASE r.timing \in SynchTimings
    <3>1. next = NextTiming(r.timing, u.width) /\ f.see.till = 1 /\ f.view = u /\ f.out = <<>>
      BY <1>2, <1>5, <2>1
    <3>2. Sent(f, u) = u
      BY <3>1 DEF Sent
    <3>3. ~conf.synch => f.lastDecision # f.now
      BY <1>2, <1>5, <2>1
    <3>4. /\ InRotation(next, 1, p) /\ u.width = WidthBefore(next)
          /\ u.width = w \/ BeforeThink(next, p)
      BY <2>1, <3>1, TurnTables
    <3>5. /\ ag'.see.timing = next /\ ag'.see.till = 1
          /\ ag'.see.now = t /\ ag'.see.lastSee = t
          /\ ~conf.synch => srv'.view.width = w /\ ag'.lastDecision = t
          /\ conf.synch => srv'.view = u
      <4>1. /\ f.now = f.see.lastSee /\ f.seeTime = f.now
            /\ f.view.width = w => Sent(f, srv.view).width = w
            /\ ~conf.synch /\ f.lastDecision = f.now => Sent(f, srv.view).width = w
        BY <1>5, <3>1, <3>2, <3>3
      <4> QED
        BY <1>4, <1>5, <1>8, <3>1, <3>2, <4>1, OutcomeTurns
    <3>6. BetweenTurns(ag'.see, srv'.view.width, p)
      BY <3>4, <3>5 DEF BetweenTurns
    <3> QED
      BY <1>8, <3>5, <3>6
  <2>2. CASE r.timing \notin SynchTimings
    <3>1. /\ ~conf.synch /\ p = 0 /\ next = "TIME_0_00" /\ f.see.till = 1 /\ Sent(f, u).width = "NORMAL"
      BY <1>2, <1>5, <1>6, <1>8, <2>2
    <3>2. w = "NORMAL" /\ InRotation(next, 1, p)
      BY <3>1 DEF WidthAfter, InRotation
    <3>3. /\ ag'.see.timing = next /\ ag'.see.till = 1
          /\ ag'.see.now = t /\ ag'.see.lastSee = t
          /\ srv'.view.width = w /\ ag'.lastDecision = t
      <4>1. /\ f.now = f.see.lastSee /\ f.seeTime = f.now
            /\ Sent(f, srv.view).width = w
        BY <1>5, <3>1, <3>2
      <4> QED
        BY <1>4, <1>5, <1>8, <3>1, <4>1, OutcomeTurns
    <3>4. BetweenTurns(ag'.see, srv'.view.width, p)
      BY <3>2, <3>3 DEF BetweenTurns
    <3> QED
      BY <1>8, <2>2, <3>3, <3>4
  <2> QED
    BY <2>1, <2>2
<1> QED
  BY <1>7, <1>8

\* A sense_body on which the client does not decide.
LEMMA SenseHandled ==
  ASSUME TypeOK, conf.maxLost = 0, lost = 0, NEW v \in Views,
         NEW b, b = SenseAt(ag, TimeOf(clock), v), Outcome(b), ~DecidesOnMessage(b),
         NEW r, r = SetNewCycle(ag.see, TimeOf(clock))
  PROVE  /\ ag'.see.now = TimeOf(clock) /\ ag'.see.timing = ag.see.timing
         /\ ag'.see.till = r.till /\ ag'.see.lastSee = ag.see.lastSee
         /\ ag'.lastDecision = ag.lastDecision
         /\ srv'.view = srv.view
<1>1. clock \in 0..(UnitsPerCycle * Cycles - 1) /\ ag \in Drafts /\ ag.out = <<>> /\ ag.see \in SeeStates
  BY AgentsAreDrafts DEF TypeOK, Agents
<1>2. r.timing = ag.see.timing /\ r.lastSee = ag.see.lastSee /\ r.now = TimeOf(clock)
  <2>1. CASE TimeOf(clock) = ag.see.now
    BY <2>1 DEF SetNewCycle
  <2>2. CASE TimeOf(clock) # ag.see.now
    <3>1. TimeOf(clock) \in GameTimes
      BY <1>1, TimeSeen
    <3> QED
      BY <1>1, <2>2, <3>1, NewCycleFields
  <2> QED
    BY <2>1, <2>2
<1>3. /\ b.out = <<>> /\ b.see.now = r.now /\ b.see.lastSee = r.lastSee /\ b.see.timing = r.timing
      /\ b.lastDecision = ag.lastDecision /\ b.see.till = r.till
  BY <1>1, SenseFields, SenseTurns
<1>4. b \in Drafts /\ Deliver(b)
  <2>1. TimeOf(clock) \in GameTimes
    BY <1>1, TimeSeen
  <2> QED
    BY <1>1, <2>1, SenseType DEF Outcome
<1>5. ag'.see = b.see /\ srv'.view = srv.view
  BY <1>3, <1>4, DeliverCalm DEF Sent
<1>6. ag'.lastDecision = b.lastDecision
  BY <1>4 DEF Deliver, Drafts
<1> QED
  BY <1>2, <1>3, <1>5, <1>6

\* The messages that wait and what is known of them.
LEMMA WhatArrives ==
  ASSUME TypeOK, InPhase, Calm, net # <<>>, NEW r, r = SetNewCycle(ag.see, TimeOf(clock))
  PROVE  /\ r \in SeeStates
         /\ \/ SenseWaits
            \/ /\ net = <<SenseMsg(clock, srv.view)>>
               /\ ag.seeTime # TimeOf(clock)
               /\ UpdateCurrentTime(ag, SentCycle(clock), TRUE) = TimeOf(clock)
            \/ /\ net = <<SeeMsg(clock)>>
               /\ UpdateCurrentTime(ag, SentCycle(clock), FALSE) = TimeOf(clock)
               /\ CountSee(ag.see, TimeOf(clock)) = CountSee(r, TimeOf(clock))
               /\ Expects(r, ag.view, srv.view, clock)
            \/ /\ \/ /\ net = <<SenseMsg(clock, srv.view), SeeMsg(clock)>>
                     /\ UpdateCurrentTime(ag, SentCycle(clock), TRUE) = TimeOf(clock)
                  \/ /\ net = <<SeeMsg(clock), SenseMsg(clock, srv.view)>>
                     /\ ~conf.stopped
               /\ ag.seeTime # TimeOf(clock)
               /\ CountSee(ag.see, TimeOf(clock)) = CountSee(r, TimeOf(clock))
               /\ Expects(r, ag.view, srv.view, clock)
               /\ Expects(r, srv.view, srv.view, clock)
<1>1. clock \in 0..(UnitsPerCycle * Cycles - 1) /\ ag.see \in SeeStates /\ srv.view \in Views
  BY DEF TypeOK, Agents
<1>2. r \in SeeStates
  BY <1>1, TimeSeen, NewCycleType
<1>3. CASE SeeWaits
  <2>1. r = ag.see
    BY <1>3 DEF SeeWaits, Expects, SetNewCycle
  <2>2. conf.stopped => ag.now = TimeOf(clock)
    BY <1>3 DEF SeeWaits
  <2>3. UpdateCurrentTime(ag, SentCycle(clock), FALSE) = TimeOf(clock)
    BY <2>2, SameTime
  <2> QED
    BY <1>2, <1>3, <2>1, <2>3 DEF SeeWaits
<1>4. CASE Unhandled
  <2>5. PICK c \in 0..(UnitsPerCycle * Cycles - 1), l \in 0..7, o \in 0..7 :
         LET look == clock % UnitsPerLook = 0
             due == look /\ l + 1 >= LooksPerSee(srv.view)
             sense == SenseMsg(clock, srv.view)
             see == SeeMsg(clock)
         IN /\ Follows(ag, srv.view, l, o, c)
            /\ clock = Successor(c)
            /\ srv.looks = IF due THEN 0 ELSE IF look THEN l + 1 ELSE l
            /\ srv.lastSee = IF due THEN OffsetOf(clock) ELSE o
            /\ \/ OffsetOf(clock) = 0 /\ ~due /\ net = <<sense>>
               \/ OffsetOf(clock) # 0 /\ due /\ net = <<see>>
               \/ OffsetOf(clock) = 0 /\ due /\ net = <<sense, see>>
               \/ OffsetOf(clock) = 0 /\ due /\ ~conf.stopped /\ net = <<see, sense>>
    BY <1>4 DEF Unhandled
  <2>6. PICK v \in Views, u \in 0..(UnitsPerCycle * Cycles - 1) : v = srv.view /\ u = clock
    BY <1>1
  <2>1. /\ v = srv.view /\ u = clock
        /\ Follows(ag, v, l, o, c)
        /\ u = Successor(c)
        /\ LET look == u % UnitsPerLook = 0
               due == look /\ l + 1 >= LooksPerSee(v)
           IN \/ OffsetOf(u) = 0 /\ ~due /\ net = <<SenseMsg(u, v)>>
              \/ OffsetOf(u) # 0 /\ due /\ net = <<SeeMsg(u)>>
              \/ OffsetOf(u) = 0 /\ due /\ net = <<SenseMsg(u, v), SeeMsg(u)>>
              \/ /\ OffsetOf(u) = 0 /\ due /\ ~conf.stopped
                 /\ net = <<SeeMsg(u), SenseMsg(u, v)>>
    BY <2>5, <2>6
  <2> DEFINE due == u % UnitsPerLook = 0 /\ l + 1 >= LooksPerSee(v)
  <2>2. OffsetOf(u) = 0 => ag.seeTime # TimeOf(u)
    <3>1. OffsetOf(u) = 0 => ag.see.lastSee # TimeOf(u)
      BY <2>1, NewTime
    <3>2. ag.seeTime = ag.see.lastSee
      BY <2>1 DEF Follows, Stamped
    <3> QED
      BY <3>1, <3>2
  <2>3. ASSUME due
        PROVE  /\ Expects(r, ag.view, v, u) /\ Expects(r, v, v, u)
               /\ CountSee(ag.see, TimeOf(u)) = CountSee(r, TimeOf(u))
    <3>1. u % UnitsPerLook = 0 /\ l + 1 >= LooksPerSee(v)
      BY <2>3
    <3>2. Follows(ag, v, l, o, c) /\ u = Successor(c) /\ r = SetNewCycle(ag.see, TimeOf(u))
      BY <2>1
    <3>3. ag.view \in {v, ag.view} /\ v \in {v, ag.view}
      OBVIOUS
    <3>4. Expects(r, ag.view, v, u)
      BY <1>1, <3>1, <3>2, <3>3, DueExpects
    <3>5. Expects(r, v, v, u)
      BY <1>1, <3>1, <3>2, <3>3, DueExpects
    <3>6. CountSee(ag.see, TimeOf(u)) = CountSee(r, TimeOf(u))
      BY <1>1, <3>1, <3>2, <3>3, DueExpects
    <3> QED
      BY <3>4, <3>5, <3>6
  <2>4. \/ OffsetOf(u) = 0 /\ net = <<SenseMsg(u, v)>>
        \/ OffsetOf(u) # 0 /\ due /\ net = <<SeeMsg(u)>>
        \/ OffsetOf(u) = 0 /\ due /\ net = <<SenseMsg(u, v), SeeMsg(u)>>
        \/ /\ OffsetOf(u) = 0 /\ due /\ ~conf.stopped
           /\ net = <<SeeMsg(u), SenseMsg(u, v)>>
    BY <2>1
  <2>7. conf.stopped => ag.now = TimeOf(c)
    BY <2>1 DEF Follows, Stamped
  <2>8. /\ OffsetOf(u) = 0 => UpdateCurrentTime(ag, SentCycle(u), TRUE) = TimeOf(u)
        /\ OffsetOf(u) # 0 => UpdateCurrentTime(ag, SentCycle(u), FALSE) = TimeOf(u)
    BY <2>1, <2>7, NextTime
  <2> HIDE DEF due
  <2>9. v = srv.view /\ u = clock
    BY <2>1
  <2> QED
    BY <1>2, <2>9, <2>2, <2>3, <2>4, <2>8
<1> QED
  BY <1>2, <1>3, <1>4 DEF InPhase

LEMMA InStepNext ==
  ASSUME UNCHANGED conf, NEW c, clock' = c, NEW w, w = srv'.view.width,
         NEW s, s = SetNewCycle(ag'.see, TimeOf(c)),
         CalmViewSynch /\ ag'.see.timing \in SynchTimings =>
           /\ ~conf.synch => ag'.lastDecision = ag'.see.lastSee
           /\ Holds(net', "see") => AtTurn(s, w, Place(c))
           /\ ~Holds(net', "see") =>
                /\ InRotation(s.timing, s.till, Place(c))
                /\ \/ w = WidthAfter(s.timing)
                   \/ conf.synch /\ ~thought' /\ w = WidthBefore(s.timing) /\ BeforeThink(s.timing, Place(c))
  PROVE  InStep'
<1>1. CalmViewSynch' = CalmViewSynch /\ conf' = conf
  BY DEF CalmViewSynch, Calm, Quiet
<1>2. SetNewCycle(ag.see, TimeOf(clock))' = s /\ (srv.view.width)' = w /\ Place(clock)' = Place(c)
  BY DEF SetNewCycle, TimeOf, Place, CycleOf
<1>3. Holds(net, "see")' = Holds(net', "see")
  BY DEF Holds
<1>4. AtTurn(SetNewCycle(ag.see, TimeOf(clock)), srv.view.width, Place(clock))'
        = AtTurn(s, w, Place(c))
  BY <1>2 DEF AtTurn
<1>5. BetweenTurns(SetNewCycle(ag.see, TimeOf(clock)), srv.view.width, Place(clock))'
        <=> /\ InRotation(s.timing, s.till, Place(c))
            /\ \/ w = WidthAfter(s.timing)
               \/ conf.synch /\ ~thought' /\ w = WidthBefore(s.timing) /\ BeforeThink(s.timing, Place(c))
  BY <1>1, <1>2 DEF BetweenTurns
<1>6. (ag.see.timing \in SynchTimings)' = (ag'.see.timing \in SynchTimings)
  OBVIOUS
<1>7. (~conf.synch => ag.lastDecision = ag.see.lastSee)' <=> (~conf.synch => ag'.lastDecision = ag'.see.lastSee)
  BY <1>1
<1> QED
  BY <1>1, <1>3, <1>4, <1>5, <1>6, <1>7 DEF InStep

\* The same where the clock stands still and SeeState has its time.
LEMMA InStepStays ==
  ASSUME UNCHANGED <<conf, clock, thought>>,
         CalmViewSynch /\ ag'.see.timing \in SynchTimings =>
           /\ ~conf.synch => ag'.lastDecision = ag'.see.lastSee
           /\ ag'.see.now = TimeOf(clock)
           /\ Holds(net', "see") => AtTurn(ag'.see, srv'.view.width, Place(clock))
           /\ ~Holds(net', "see") => BetweenTurns(ag'.see, srv'.view.width, Place(clock))
  PROVE  InStep'
<1>1. PICK s : s = SetNewCycle(ag'.see, TimeOf(clock))
  OBVIOUS
<1>2. PICK w : w = srv'.view.width
  OBVIOUS
<1>3. CalmViewSynch /\ ag'.see.timing \in SynchTimings =>
           /\ ~conf.synch => ag'.lastDecision = ag'.see.lastSee
           /\ Holds(net', "see") => AtTurn(s, w, Place(clock))
           /\ ~Holds(net', "see") =>
                /\ InRotation(s.timing, s.till, Place(clock))
                /\ \/ w = WidthAfter(s.timing)
                   \/ conf.synch /\ ~thought' /\ w = WidthBefore(s.timing) /\ BeforeThink(s.timing, Place(clock))
  <2> SUFFICES ASSUME CalmViewSynch, ag'.see.timing \in SynchTimings
               PROVE  /\ ~conf.synch => ag'.lastDecision = ag'.see.lastSee
                      /\ Holds(net', "see") => AtTurn(s, w, Place(clock))
                      /\ ~Holds(net', "see") =>
                           /\ InRotation(s.timing, s.till, Place(clock))
                           /\ \/ w = WidthAfter(s.timing)
                              \/ conf.synch /\ ~thought' /\ w = WidthBefore(s.timing) /\ BeforeThink(s.timing, Place(clock))
    OBVIOUS
  <2>1. s = ag'.see
    BY <1>1 DEF SetNewCycle
  <2> QED
    BY <1>2, <2>1 DEF BetweenTurns
<1>4. UNCHANGED conf /\ clock' = clock
  OBVIOUS
<1> QED
  BY <1>1, <1>2, <1>3, <1>4, InStepNext

\* A step that handles a sense_body only.
LEMMA SenseStep ==
  ASSUME TypeOK, conf.maxLost = 0, lost = 0, UNCHANGED <<conf, clock, thought>>, NEW v \in Views,
         NEW b, b = SenseAt(ag, TimeOf(clock), v), Outcome(b), ~DecidesOnMessage(b),
         NEW r, r = SetNewCycle(ag.see, TimeOf(clock)),
         ag.see.timing \in SynchTimings =>
           /\ ~conf.synch => ag.lastDecision = ag.see.lastSee
           /\ Holds(net', "see") => AtTurn(r, srv.view.width, Place(clock))
           /\ ~Holds(net', "see") => BetweenTurns(r, srv.view.width, Place(clock)),
         r.timing = ag.see.timing
  PROVE  InStep' /\ ag'.see.timing = ag.see.timing
<1>1. /\ ag'.see.now = TimeOf(clock) /\ ag'.see.timing = ag.see.timing
      /\ ag'.see.till = r.till /\ ag'.see.lastSee = ag.see.lastSee
      /\ ag'.lastDecision = ag.lastDecision
      /\ srv'.view = srv.view
  BY SenseHandled
<1>2. /\ AtTurn(r, srv.view.width, Place(clock)) => AtTurn(ag'.see, srv'.view.width, Place(clock))
      /\ BetweenTurns(r, srv.view.width, Place(clock)) => BetweenTurns(ag'.see, srv'.view.width, Place(clock))
  BY <1>1 DEF AtTurn, BetweenTurns
<1>3. CalmViewSynch /\ ag'.see.timing \in SynchTimings =>
           /\ ~conf.synch => ag'.lastDecision = ag'.see.lastSee
           /\ ag'.see.now = TimeOf(clock)
           /\ Holds(net', "see") => AtTurn(ag'.see, srv'.view.width, Place(clock))
           /\ ~Holds(net', "see") => BetweenTurns(ag'.see, srv'.view.width, Place(clock))
  BY <1>1, <1>2
<1> QED
  BY <1>1, <1>3, InStepStays

\* A step that handles the see.
LEMMA SeeStep ==
  ASSUME TypeOK, conf.maxLost = 0, lost = 0, ~playOn, conf.view = "View_Synch", ~thought,
         UNCHANGED <<conf, clock, thought>>, ~Holds(net', "see"),
         NEW a \in Drafts, a.out = <<>>,
         NEW r \in SeeStates, CountSee(a.see, TimeOf(clock)) = CountSee(r, TimeOf(clock)),
         Expects(r, a.view, srv.view, clock),
         r.timing \in SynchTimings =>
           /\ AtTurn(r, srv.view.width, Place(clock))
           /\ ~conf.synch => a.lastDecision = r.lastSee,
         NEW d, d = SeeAt(a, TimeOf(clock)),
         NEW f \in {d, SenseAt(d, TimeOf(clock), srv.view)}, Outcome(f)
  PROVE  InStep' /\ (r.timing \in SynchTimings => ag'.see.timing \in SynchTimings)
<1>1. /\ r.timing \in SynchTimings => ag'.see.timing \in SynchTimings
      /\ ag'.see.timing \in SynchTimings =>
           /\ ag'.see.now = TimeOf(clock)
           /\ BetweenTurns(ag'.see, srv'.view.width, Place(clock))
           /\ ~conf.synch => ag'.lastDecision = ag'.see.lastSee
  BY SeeHandled
<1>2. CalmViewSynch /\ ag'.see.timing \in SynchTimings =>
           /\ ~conf.synch => ag'.lastDecision = ag'.see.lastSee
           /\ ag'.see.now = TimeOf(clock)
           /\ Holds(net', "see") => AtTurn(ag'.see, srv'.view.width, Place(clock))
           /\ ~Holds(net', "see") => BetweenTurns(ag'.see, srv'.view.width, Place(clock))
  BY <1>1
<1> QED
  BY <1>1, <1>2, InStepStays

LEMMA OutcomeTiming ==
  ASSUME TypeOK, conf.maxLost = 0, lost = 0, NEW a \in Drafts, Outcome(a), Plain(a.see)
  PROVE  ag'.see.timing = a.see.timing
<1>1. PICK b \in IF DecidesOnMessage(a) THEN Decided(a) ELSE {a} : Deliver(b)
  BY DEF Outcome
<1>2. b \in Drafts
  BY <1>1, DecidedType
<1>3. ag'.see = b.see
  BY <1>1, <1>2, DeliverCalm
<1>4. b.see.timing = a.see.timing
  BY <1>1, DecidedTiming
<1> QED
  BY <1>3, <1>4

\* The sense_body after the see of its unit.
LEMMA StepSenseWaits ==
  ASSUME TypeOK, InPhase, InStep, HandleMessage, CalmViewSynch, SenseWaits
  PROVE  InStep' /\ ag'.see.timing = ag.see.timing
<1>1. PICK v \in Views : net = <<SenseMsg(clock, v)>>
  BY DEF SenseWaits
<1>2. PICK b : b = SenseAt(ag, TimeOf(clock), v)
  OBVIOUS
<1>3. PICK r : r = SetNewCycle(ag.see, TimeOf(clock))
  OBVIOUS
<1>4. /\ ag \in Drafts /\ clock \in 0..(UnitsPerCycle * Cycles - 1)
      /\ srv.looks \in 0..7 /\ ag.see \in SeeStates
  BY AgentsAreDrafts DEF TypeOK, Agents
<1>5. SenseMsg(clock, v) \in Senses /\ Analyze(ag, SenseMsg(clock, v)) = b
  <2>1. UpdateCurrentTime(ag, SentCycle(clock), TRUE) = TimeOf(clock)
    BY RunningTime DEF SenseWaits
  <2>2. /\ SenseMsg(clock, v) \in Senses
        /\ Analyze(ag, SenseMsg(clock, v)) = SenseAt(ag, UpdateCurrentTime(ag, SentCycle(clock), TRUE), v)
    BY <1>4, Messages
  <2> QED
    BY <1>2, <2>1, <2>2
<1>6. b \in Drafts /\ Outcome(b) /\ net' = <<>> /\ UNCHANGED <<conf, clock, thought>>
  <2>1. b \in Drafts
    BY <1>4, <1>5, AnalyzeType
  <2>2. Outcome(b) /\ net' = <<>> /\ UNCHANGED <<conf, clock>>
    BY <1>1, <1>5, HandleOne
  <2>3. UNCHANGED thought
    BY DEF HandleMessage
  <2> QED
    BY <2>1, <2>2, <2>3
<1>7. conf.maxLost = 0 /\ lost = 0 /\ conf.view = "View_Synch"
  BY DEF InPhase, CalmViewSynch, Calm, Quiet
<1>8. Follows(ag, srv.view, srv.looks, srv.lastSee, clock) /\ Place(clock) = 0
  BY DEF SenseWaits
<1>9. /\ b.now = TimeOf(clock) /\ b.see.timing = r.timing
      /\ b.see.synchSee = r.synchSee /\ b.see.synchType = r.synchType
      /\ b.lastDecision = ag.lastDecision
  BY <1>2, <1>3, <1>4, SenseFields, SenseTurns
<1>10. /\ r.timing = ag.see.timing /\ r.synchType = ag.see.synchType
       /\ r.synchSee = ag.see.synchSee
  <2>1. TimeOf(clock) \in GameTimes
    BY <1>4, TimeSeen
  <2>2. CASE TimeOf(clock) = ag.see.now
    BY <1>3, <2>2 DEF SetNewCycle
  <2>3. CASE TimeOf(clock) # ag.see.now
    BY <1>3, <1>4, <2>1, <2>3, NewCycleFields
  <2> QED
    BY <2>2, <2>3
<1>11. Plain(ag.see) /\ Plain(b.see)
  <2>1. Plain(ag.see)
    BY <1>8 DEF Follows, Stamped
  <2> QED
    BY <1>9, <1>10, <2>1 DEF Plain
<1>12. ag'.see.timing = ag.see.timing
  BY <1>6, <1>7, <1>9, <1>10, <1>11, OutcomeTiming
<1>13. CASE ag.see.timing \notin SynchTimings
  BY <1>6, <1>12, <1>13, InStepStays
<1>14. CASE ag.see.timing \in SynchTimings
  <2>1. ag.see.timing = "TIME_0_00"
    BY <1>14 DEF SenseWaits, SynchTimings
  <2>2. ag.see.lastSee = TimeOf(clock)
    <3>1. ag.see.timing = "TIME_0_00" => (ag.see.lastSee = TimeOf(clock) <=> Place(clock) \in 0..7)
      BY <1>4, <1>8, <1>14, CurrentSeePlace
    <3> QED
      BY <1>8, <2>1, <3>1
  <2>3. (SenseMsg(clock, v)).type = "sense_body"
    BY DEF SenseMsg
  <2>4. ~Holds(net, "see") /\ ~Holds(net', "see")
    BY <1>1, <1>6, <2>3, OneHolds, NoneHolds
  <2>5. /\ ~conf.synch => ag.lastDecision = ag.see.lastSee
        /\ BetweenTurns(r, srv.view.width, Place(clock))
    BY <1>3, <1>14, <2>4 DEF InStep
  <2>6. ~DecidesOnMessage(b)
    BY <1>9, <2>2, <2>5 DEF DecidesOnMessage
  <2> QED
    BY <1>2, <1>3, <1>6, <1>7, <1>10, <2>4, <2>5, <2>6, SenseStep
<1> QED
  BY <1>13, <1>14

\* Any handled message keeps the client in step, and synchronized if it was.
LEMMA StepMessage ==
  ASSUME TypeOK, InPhase, InStep, BodyAgeTracksServer, HandleMessage, CalmViewSynch
  PROVE  InStep' /\ (ag.see.timing \in SynchTimings => ag'.see.timing \in SynchTimings)
<1> DEFINE u == srv.view
<1>1. PICK r : r = SetNewCycle(ag.see, TimeOf(clock))
  OBVIOUS
<1>2. PICK b : b = SenseAt(ag, TimeOf(clock), u)
  OBVIOUS
<1>3. PICK d : d = SeeAt(ag, TimeOf(clock))
  OBVIOUS
<1>4. /\ Calm /\ conf.maxLost = 0 /\ lost = 0 /\ ~playOn /\ conf.view = "View_Synch"
      /\ net # <<>> /\ ~thought /\ UNCHANGED <<conf, clock, thought>>
  BY DEF InPhase, CalmViewSynch, Calm, Quiet, BodyAgeTracksServer, HandleMessage
<1>5. /\ ag \in Drafts /\ clock \in 0..(UnitsPerCycle * Cycles - 1) /\ u \in Views
      /\ ag.see \in SeeStates /\ ag.out = <<>>
  BY AgentsAreDrafts DEF TypeOK, Agents
<1>6. /\ SeeMsg(clock) \in Sees /\ SenseMsg(clock, u) \in Senses
      /\ Analyze(ag, SenseMsg(clock, u)) = SenseAt(ag, UpdateCurrentTime(ag, SentCycle(clock), TRUE), u)
      /\ Analyze(ag, SeeMsg(clock)) = SeeAt(ag, UpdateCurrentTime(ag, SentCycle(clock), FALSE))
      /\ Analyze(b, SeeMsg(clock)) = SeeAt(b, UpdateCurrentTime(b, SentCycle(clock), FALSE))
      /\ Analyze(d, SenseMsg(clock, u)) = SenseAt(d, UpdateCurrentTime(d, SentCycle(clock), TRUE), u)
  BY <1>5, Messages
<1>7. b \in Drafts /\ d \in Drafts
  <2>1. TimeOf(clock) \in GameTimes
    BY <1>5, TimeSeen
  <2> QED
    BY <1>2, <1>3, <1>5, <2>1, SenseType, SeeType
<1>8. r.timing = ag.see.timing /\ r.lastSee = ag.see.lastSee
  <2>1. TimeOf(clock) \in GameTimes
    BY <1>5, TimeSeen
  <2>2. CASE TimeOf(clock) = ag.see.now
    BY <1>1, <2>2 DEF SetNewCycle
  <2>3. CASE TimeOf(clock) # ag.see.now
    BY <1>1, <1>5, <2>1, <2>3, NewCycleFields
  <2> QED
    BY <2>2, <2>3
<1>9. /\ b.now = TimeOf(clock) /\ b.seeTime = ag.seeTime /\ b.view = u /\ b.out = <<>>
      /\ b.see.now = r.now /\ b.see.lastSee = r.lastSee /\ b.see.timing = r.timing
      /\ b.see.count = r.count /\ b.see.history = r.history
      /\ b.see.synchSee = r.synchSee /\ b.see.synchType = r.synchType
      /\ b.lastDecision = ag.lastDecision /\ b.see.till = r.till
  BY <1>1, <1>2, <1>5, SenseFields, SenseTurns
<1>10. /\ SeeMsg(clock).type = "see" /\ SenseMsg(clock, u).type = "sense_body"
       /\ \A type : ~Holds(<<>>, type)
  BY NoneHolds DEF SeeMsg, SenseMsg
<1>11. /\ Holds(<<SeeMsg(clock)>>, "see") /\ ~Holds(<<SenseMsg(clock, u)>>, "see")
       /\ Holds(<<SenseMsg(clock, u), SeeMsg(clock)>>, "see")
       /\ Holds(<<SeeMsg(clock), SenseMsg(clock, u)>>, "see")
  BY <1>10, OneHolds, TwoHold
<1>12. ag.see.timing \in SynchTimings =>
         /\ ~conf.synch => ag.lastDecision = ag.see.lastSee
         /\ Holds(net, "see") => AtTurn(r, u.width, Place(clock))
         /\ ~Holds(net, "see") => BetweenTurns(r, u.width, Place(clock))
  BY <1>1 DEF InStep
<1>13. /\ r \in SeeStates
       /\ \/ SenseWaits
          \/ /\ net = <<SenseMsg(clock, u)>> /\ ag.seeTime # TimeOf(clock)
             /\ UpdateCurrentTime(ag, SentCycle(clock), TRUE) = TimeOf(clock)
          \/ /\ net = <<SeeMsg(clock)>>
             /\ UpdateCurrentTime(ag, SentCycle(clock), FALSE) = TimeOf(clock)
             /\ CountSee(ag.see, TimeOf(clock)) = CountSee(r, TimeOf(clock))
             /\ Expects(r, ag.view, u, clock)
          \/ /\ \/ /\ net = <<SenseMsg(clock, u), SeeMsg(clock)>>
                   /\ UpdateCurrentTime(ag, SentCycle(clock), TRUE) = TimeOf(clock)
                \/ /\ net = <<SeeMsg(clock), SenseMsg(clock, u)>>
                   /\ ~conf.stopped
             /\ ag.seeTime # TimeOf(clock)
             /\ CountSee(ag.see, TimeOf(clock)) = CountSee(r, TimeOf(clock))
             /\ Expects(r, ag.view, u, clock)
             /\ Expects(r, u, u, clock)
  BY <1>1, <1>4, WhatArrives
<1>14. CASE SenseWaits
  BY <1>14, StepSenseWaits
<1>15. ASSUME Outcome(b), ag.seeTime # TimeOf(clock),
              ~Holds(net', "see") <=> ~Holds(net, "see")
       PROVE  InStep' /\ ag'.see.timing = ag.see.timing
  <2>1. ~DecidesOnMessage(b)
    BY <1>9, <1>15 DEF DecidesOnMessage, HasCurrentSee
  <2>2. ag.see.timing \in SynchTimings =>
           /\ ~conf.synch => ag.lastDecision = ag.see.lastSee
           /\ Holds(net', "see") => AtTurn(r, srv.view.width, Place(clock))
           /\ ~Holds(net', "see") => BetweenTurns(r, srv.view.width, Place(clock))
    BY <1>12, <1>15
  <2> QED
    BY <1>1, <1>2, <1>4, <1>5, <1>8, <1>15, <2>1, <2>2, SenseStep
<1>16. ASSUME CountSee(ag.see, TimeOf(clock)) = CountSee(r, TimeOf(clock)),
              Expects(r, ag.view, u, clock), Holds(net, "see"), ~Holds(net', "see"),
              NEW f \in {d, SenseAt(d, TimeOf(clock), u)}, Outcome(f)
       PROVE  InStep' /\ (r.timing \in SynchTimings => ag'.see.timing \in SynchTimings)
  <2>1. r.timing \in SynchTimings =>
          /\ AtTurn(r, srv.view.width, Place(clock))
          /\ ~conf.synch => ag.lastDecision = r.lastSee
    BY <1>8, <1>12, <1>16
  <2> QED
    BY <1>3, <1>4, <1>5, <1>13, <1>16, <2>1, SeeStep
<1>17. ASSUME Expects(r, u, u, clock), Holds(net, "see"), ~Holds(net', "see"),
              NEW f, f = SeeAt(b, TimeOf(clock)), Outcome(f)
       PROVE  InStep' /\ (r.timing \in SynchTimings => ag'.see.timing \in SynchTimings)
  <2>1. Expects(b.see, b.view, srv.view, clock)
    BY <1>9, <1>17, ExpectsSame
  <2>2. b.see \in SeeStates
    BY <1>7 DEF Drafts
  <2>3. b.see.timing \in SynchTimings =>
          /\ AtTurn(b.see, srv.view.width, Place(clock))
          /\ ~conf.synch => b.lastDecision = b.see.lastSee
    BY <1>8, <1>9, <1>12, <1>17 DEF AtTurn
  <2>4. f \in {f, SenseAt(f, TimeOf(clock), srv.view)}
    OBVIOUS
  <2>5. InStep' /\ (b.see.timing \in SynchTimings => ag'.see.timing \in SynchTimings)
    BY <1>4, <1>7, <1>9, <1>17, <2>1, <2>2, <2>3, <2>4, SeeStep
  <2> QED
    BY <1>9, <2>5
<1>18. CASE /\ net = <<SenseMsg(clock, u)>> /\ ag.seeTime # TimeOf(clock)
            /\ UpdateCurrentTime(ag, SentCycle(clock), TRUE) = TimeOf(clock)
  <2>1. Outcome(b) /\ net' = <<>>
    BY <1>2, <1>6, <1>18, HandleOne
  <2>2. ~Holds(net', "see") /\ ~Holds(net, "see")
    BY <1>10, <1>11, <1>18, <2>1
  <2> QED
    BY <1>15, <1>18, <2>1, <2>2
<1>19. CASE /\ net = <<SeeMsg(clock)>>
            /\ UpdateCurrentTime(ag, SentCycle(clock), FALSE) = TimeOf(clock)
            /\ CountSee(ag.see, TimeOf(clock)) = CountSee(r, TimeOf(clock))
            /\ Expects(r, ag.view, u, clock)
  <2>1. Outcome(d) /\ net' = <<>>
    BY <1>3, <1>6, <1>19, HandleOne
  <2>2. Holds(net, "see") /\ ~Holds(net', "see")
    BY <1>10, <1>11, <1>19, <2>1
  <2>3. d \in {d, SenseAt(d, TimeOf(clock), u)}
    OBVIOUS
  <2> QED
    BY <1>8, <1>16, <1>19, <2>1, <2>2, <2>3
<1>20. CASE /\ net = <<SenseMsg(clock, u), SeeMsg(clock)>>
            /\ UpdateCurrentTime(ag, SentCycle(clock), TRUE) = TimeOf(clock)
            /\ ag.seeTime # TimeOf(clock) /\ Expects(r, u, u, clock)
  <2>5. Analyze(ag, SenseMsg(clock, u)) = b
    BY <1>2, <1>6, <1>20
  <2>6. UpdateCurrentTime(b, SentCycle(clock), FALSE) = TimeOf(clock)
    BY <1>9, SameTime
  <2>1. \/ Outcome(b) /\ net' = <<SeeMsg(clock)>>
        \/ Outcome(SeeAt(b, TimeOf(clock))) /\ net' = <<>>
    BY <1>6, <1>20, <2>5, <2>6, HandleTwo
  <2>2. Holds(net, "see")
    BY <1>11, <1>20
  <2>3. CASE Outcome(b) /\ net' = <<SeeMsg(clock)>>
    <3>1. Holds(net', "see")
      BY <1>11, <2>3
    <3> QED
      BY <1>15, <1>20, <2>2, <2>3, <3>1
  <2>4. CASE Outcome(SeeAt(b, TimeOf(clock))) /\ net' = <<>>
    <3>1. ~Holds(net', "see")
      BY <1>10, <2>4
    <3> QED
      BY <1>8, <1>17, <1>20, <2>2, <2>4, <3>1
  <2> QED
    BY <2>1, <2>3, <2>4
<1>21. CASE /\ net = <<SeeMsg(clock), SenseMsg(clock, u)>> /\ ~conf.stopped
            /\ CountSee(ag.see, TimeOf(clock)) = CountSee(r, TimeOf(clock))
            /\ Expects(r, ag.view, u, clock)
  <2>5. /\ UpdateCurrentTime(ag, SentCycle(clock), FALSE) = TimeOf(clock)
        /\ UpdateCurrentTime(d, SentCycle(clock), TRUE) = TimeOf(clock)
    BY <1>21, RunningTime
  <2>6. /\ Analyze(ag, SeeMsg(clock)) = d
        /\ Analyze(d, SenseMsg(clock, u)) = SenseAt(d, TimeOf(clock), u)
    BY <1>3, <1>6, <2>5
  <2>1. \/ Outcome(d) /\ net' = <<SenseMsg(clock, u)>>
        \/ Outcome(SenseAt(d, TimeOf(clock), u)) /\ net' = <<>>
    BY <1>21, <2>6, HandleTwo
  <2>2. Holds(net, "see")
    BY <1>11, <1>21
  <2>3. PICK f \in {d, SenseAt(d, TimeOf(clock), u)} : Outcome(f)
    BY <2>1
  <2>4. ~Holds(net', "see")
    BY <1>10, <1>11, <2>1
  <2> QED
    BY <1>8, <1>16, <1>21, <2>2, <2>3, <2>4
<1> QED
  BY <1>13, <1>14, <1>18, <1>19, <1>20, <1>21

\* Between the units nothing waits and the client follows the server.
LEMMA NothingWaits ==
  ASSUME InPhase, Calm, net = <<>>
  PROVE  Follows(ag, srv.view, srv.looks, srv.lastSee, clock)
<1>1. \A m, k : <<m>> # <<>> /\ <<m, k>> # <<>>
  OBVIOUS
<1>2. Unhandled => \E m, k : net = <<m>> \/ net = <<m, k>>
  BY DEF Unhandled
<1>3. SeeWaits => \E m : net = <<m>>
  BY DEF SeeWaits
<1>4. SenseWaits => \E m : net = <<m>>
  BY DEF SenseWaits
<1> QED
  BY <1>1, <1>2, <1>3, <1>4 DEF InPhase

\* The server's clock.
LEMMA StepTick ==
  ASSUME TypeOK, InPhase, InStep, Tick, CalmViewSynch
  PROVE  InStep' /\ ag'.see = ag.see
<1> DEFINE v == srv.view
           l == srv.looks
           p == Place(clock)
           timing == ag.see.timing
<1>1. PICK u : u = Successor(clock)
  OBVIOUS
<1>2. PICK due \in BOOLEAN : due = (u % UnitsPerLook = 0 /\ l + 1 >= LooksPerSee(v))
  OBVIOUS
<1>3. PICK s : s = SetNewCycle(ag.see, TimeOf(u))
  OBVIOUS
<1>4. /\ clock \in 0..(UnitsPerCycle * Cycles - 1) /\ ag.see \in SeeStates
      /\ v \in Views /\ l \in 0..7
  BY DEF TypeOK, Agents
<1>5. /\ net = <<>> /\ clock' = u /\ UNCHANGED conf /\ ag'.see = ag.see /\ srv'.view = v
      /\ OffsetOf(u) # 0 /\ ~due => net' = <<>>
      /\ OffsetOf(u) = 0 /\ ~due => net' = <<SenseMsg(u, v)>>
      /\ OffsetOf(u) # 0 /\ due => net' = <<SeeMsg(u)>>
      /\ OffsetOf(u) = 0 /\ due =>
           \/ net' = <<SenseMsg(u, v), SeeMsg(u)>>
           \/ net' = <<SeeMsg(u), SenseMsg(u, v)>>
  <2>1. PICK look \in BOOLEAN : look = (u % UnitsPerLook = 0)
    OBVIOUS
  <2>2. due = (look /\ l + 1 >= LooksPerSee(v))
    BY <1>2, <2>1
  <2> QED
    BY <1>1, <2>1, <2>2, TickSends
<1>6. ag'.lastDecision = ag.lastDecision /\ ~thought' /\ (conf.synch /\ OffsetOf(clock) = 4 => thought)
  <2>1. ag' = Aged(ag) /\ thought' = FALSE /\ (conf.synch /\ OffsetOf(clock) = 4 => thought)
    BY DEF Tick
  <2>2. (Aged(ag)).lastDecision = ag.lastDecision
    BY DEF Aged, TypeOK, Agents
  <2> QED
    BY <2>1, <2>2
<1>7. Follows(ag, v, l, srv.lastSee, clock)
  BY <1>5, NothingWaits DEF CalmViewSynch
<1>8. Holds(net', "see") <=> due
  <2>1. /\ SeeMsg(u).type = "see" /\ SenseMsg(u, v).type = "sense_body"
        /\ ~Holds(<<>>, "see")
    BY NoneHolds DEF SeeMsg, SenseMsg
  <2>2. /\ Holds(<<SeeMsg(u)>>, "see") /\ ~Holds(<<SenseMsg(u, v)>>, "see")
        /\ Holds(<<SenseMsg(u, v), SeeMsg(u)>>, "see")
        /\ Holds(<<SeeMsg(u), SenseMsg(u, v)>>, "see")
    BY <2>1, OneHolds, TwoHold
  <2>3. CASE due
    BY <1>5, <2>2, <2>3
  <2>4. CASE ~due
    BY <1>5, <2>1, <2>2, <2>4
  <2> QED
    BY <2>3, <2>4
<1>9. CASE timing \notin SynchTimings
  <2>1. ag'.see.timing \notin SynchTimings
    BY <1>5, <1>9
  <2> QED
    BY <1>5, <2>1 DEF InStep, CalmViewSynch
<1>10. CASE timing \in SynchTimings
  <2>1. ag.see.now = TimeOf(clock)
    BY <1>7, <1>10 DEF Follows, Stamped, Fresh, SynchTimings
  <2>2. /\ l = Since(timing, p) /\ v.quality = "HIGH" /\ l < LooksPerSee(v)
    BY <1>7, <1>10 DEF Follows, Tracked
  <2>3. SetNewCycle(ag.see, TimeOf(clock)) = ag.see
    BY <2>1 DEF SetNewCycle
  <2>4. ~Holds(net, "see")
    BY <1>5, NoneHolds
  <2>5. /\ ~conf.synch => ag.lastDecision = ag.see.lastSee
        /\ BetweenTurns(ag.see, v.width, p)
    BY <1>10, <2>3, <2>4 DEF InStep
  <2>6. PICK q : q = Place(u)
    OBVIOUS
  <2>7. /\ p \in 0..23 /\ u \in 0..(UnitsPerCycle * Cycles - 1)
        /\ q = (IF p = 23 THEN 0 ELSE p + 1)
        /\ u % UnitsPerLook = q % 3 /\ OffsetOf(clock) = p % 8 /\ OffsetOf(u) = q % 8
    BY <1>1, <1>4, <2>6, ClockSteps
  <2>8. TimeOf(u) # ag.see.now <=> q % 8 = 0
    <3>1. CASE q % 8 = 0
      <4>1. ag.see.now # TimeOf(u)
        <5>1. OffsetOf(u) = 0
          BY <2>7, <3>1
        <5> QED
          BY <1>1, <1>4, <1>7, <5>1, NewTime
      <4> QED
        BY <3>1, <4>1
    <3>2. CASE q % 8 # 0
      <4>1. CycleOf(u) = CycleOf(clock)
        BY <1>1, <1>4, <2>6, <3>2, CycleSteps
      <4> QED
        BY <2>1, <3>2, <4>1 DEF TimeOf
    <3> QED
      BY <3>1, <3>2
  <2>9. s.timing = timing /\ s.lastSee = ag.see.lastSee
    <3>1. TimeOf(u) \in GameTimes
      BY <2>7, TimeSeen
    <3>2. CASE TimeOf(u) = ag.see.now
      BY <1>3, <3>2 DEF SetNewCycle
    <3>3. CASE TimeOf(u) # ag.see.now
      BY <1>3, <1>4, <3>1, <3>3, NewCycleFields
    <3> QED
      BY <3>2, <3>3
  <2>10. s.till = IF q % 8 = 0 /\ ag.see.till # 0 THEN ag.see.till - 1 ELSE ag.see.till
    <3>1. s.till = IF TimeOf(u) # ag.see.now /\ ag.see.till # 0 THEN ag.see.till - 1 ELSE ag.see.till
      BY <1>3, <1>4, NewCycleTill
    <3> QED
      BY <2>8, <3>1
  <2>11. /\ InRotation(timing, ag.see.till, p)
         /\ \/ v.width = WidthAfter(timing)
            \/ v.width = WidthBefore(timing) /\ BeforeThink(timing, p) /\ p % 8 # 4 /\ conf.synch
    BY <1>6, <2>5, <2>7 DEF BetweenTurns
  <2>12. PICK w \in Widths : w = v.width
    BY <1>4 DEF Views
  <2>13. PICK k : k = (IF w = "NARROW" THEN 2 ELSE IF w = "NORMAL" THEN 4 ELSE 8)
    OBVIOUS
  <2>14. LooksPerSee(v) = k
    BY <1>4, <2>2, <2>12, <2>13, Tables
  <2>15. due <=> q % 3 = 0 /\ Since(timing, p) + 1 >= k
    BY <1>2, <2>2, <2>7, <2>14
  <2>16. /\ q % 3 = 0 /\ Since(timing, p) + 1 >= k =>
              /\ s.till = 0 /\ w = WidthAfter(timing)
              /\ <<timing, q>> \in {<<"TIME_0_00", 12>>, <<"TIME_50_0", 18>>, <<"TIME_22_5", 0>>}
         /\ ~(q % 3 = 0 /\ Since(timing, p) + 1 >= k) =>
              /\ InRotation(timing, s.till, q)
              /\ w = WidthAfter(timing) \/ (w = WidthBefore(timing) /\ BeforeThink(timing, q))
    <3>1. Since(timing, p) < k
      BY <2>2, <2>14
    <3>2. w = WidthAfter(timing) \/ (w = WidthBefore(timing) /\ BeforeThink(timing, p) /\ p % 8 # 4)
      BY <2>11, <2>12
    <3>3. PICK tm, till, d, x : tm = timing /\ till = ag.see.till /\ d = s.till /\ x = p
      OBVIOUS
    <3>4. /\ InRotation(tm, till, x) /\ Since(tm, x) < k
          /\ w = WidthAfter(tm) \/ (w = WidthBefore(tm) /\ BeforeThink(tm, x) /\ x % 8 # 4)
      BY <2>11, <3>1, <3>2, <3>3
    <3>5. d = IF q % 8 = 0 /\ till # 0 THEN till - 1 ELSE till
      BY <2>10, <3>3
    <3>6. tm \in SynchTimings /\ x \in 0..23 /\ till \in Nat /\ w \in Widths /\ q = (IF x = 23 THEN 0 ELSE x + 1)
      BY <1>4, <1>10, <2>7, <2>12, <3>3 DEF SeeStates, InitialTill
    <3>7. /\ q % 3 = 0 /\ Since(tm, x) + 1 >= k =>
               /\ d = 0 /\ w = WidthAfter(tm)
               /\ <<tm, q>> \in {<<"TIME_0_00", 12>>, <<"TIME_50_0", 18>>, <<"TIME_22_5", 0>>}
          /\ ~(q % 3 = 0 /\ Since(tm, x) + 1 >= k) =>
               /\ InRotation(tm, d, q)
               /\ w = WidthAfter(tm) \/ (w = WidthBefore(tm) /\ BeforeThink(tm, q))
      BY <2>13, <3>4, <3>5, <3>6, RotationSteps
    <3> QED
      BY <3>3, <3>7
  <2>17. due => AtTurn(s, w, q)
    BY <2>9, <2>15, <2>16 DEF AtTurn
  <2>18. ~due => InRotation(s.timing, s.till, q)
    BY <2>9, <2>15, <2>16
  <2>19. ~due => \/ w = WidthAfter(s.timing)
                 \/ conf.synch /\ w = WidthBefore(s.timing) /\ BeforeThink(s.timing, q)
    <3>1. CASE conf.synch
      BY <2>9, <2>15, <2>16, <3>1
    <3>2. CASE ~conf.synch
      BY <2>9, <2>11, <2>12, <3>2
    <3> QED
      BY <3>1, <3>2
  <2>20. CalmViewSynch /\ ag'.see.timing \in SynchTimings =>
           /\ ~conf.synch => ag'.lastDecision = ag'.see.lastSee
           /\ Holds(net', "see") => AtTurn(s, w, Place(u))
           /\ ~Holds(net', "see") =>
                /\ InRotation(s.timing, s.till, Place(u))
                /\ \/ w = WidthAfter(s.timing)
                   \/ conf.synch /\ ~thought' /\ w = WidthBefore(s.timing) /\ BeforeThink(s.timing, Place(u))
    BY <1>5, <1>6, <1>8, <2>5, <2>6, <2>17, <2>18, <2>19
  <2>21. w = srv'.view.width /\ s = SetNewCycle(ag'.see, TimeOf(u))
    BY <1>3, <1>5, <2>12
  <2> HIDE DEF v, l, p, timing
  <2>22. InStep'
    BY <1>5, <2>20, <2>21, InStepNext
  <2> QED
    BY <1>5, <2>22
<1> QED
  BY <1>9, <1>10

-----------------------------------------------------------------------------
(* Decisions without a message keep the client in step.                     *)

\* A decision without synchronization: in synch mode it may be the one that finds it.
LEMMA HuntingDecides ==
  ASSUME NEW a \in Drafts, Plain(a.see), a.see.timing \notin SynchTimings, ~playOn,
         conf.view = "View_Synch", NEW v, NEW b \in Decided(a)
  PROVE  \/ b.see.timing = "TIME_NOSYNCH"
         \/ /\ conf.synch /\ IsSynchedSeeCountSynchMode(a.see)
            /\ b.see.timing = "TIME_50_0" /\ b.see.till = 1
            /\ b.see.now = a.see.now /\ b.see.lastSee = a.see.lastSee
            /\ Sent(b, v).width = "NARROW"
<1>1. ~MissedSee(a, a.see) /\ ~IsSynch(a.see) /\ a.see.timing = "TIME_NOSYNCH" /\ a.see \in SeeStates
  BY PlainSynch DEF MissedSee, Plain, Drafts
<1>2. PICK e : e = BeforeActions(a)
  OBVIOUS
<1>3. e = IF conf.synch THEN AdjustSeeSynchSynchMode(a) ELSE a
  BY <1>1, <1>2 DEF BeforeActions
<1>4. PICK w \in ViewWishes(e) : b = [ExecuteView(e, w) EXCEPT !.lastDecision = a.now]
  BY <1>2 DEF Decided
<1>5. PICK f : f = ExecuteView(e, w)
  OBVIOUS
<1>6. e \in Drafts /\ f \in Drafts
  BY <1>2, <1>5, BeforeActionsType, ExecuteViewType
<1>7. b.see = f.see /\ b.out = f.out
  BY <1>4, <1>5, <1>6 DEF Drafts
<1>8. CASE conf.synch /\ IsSynchedSeeCountSynchMode(a.see)
  <2>1. PICK u : u = View("NARROW", "HIGH")
    OBVIOUS
  <2>2. u \in Views /\ u.width = "NARROW"
    BY <2>1, FirstViews DEF View
  <2>3. e = Synchronized(a, "TIME_50_0", u)
    BY <1>1, <1>3, <1>8, <2>1 DEF AdjustSeeSynchSynchMode
  <2>4. "TIME_50_0" \in SynchTimings /\ WidthAfter("TIME_50_0") = "NARROW"
    BY DEF SynchTimings, WidthAfter
  <2>5. /\ e.see.timing = "TIME_50_0" /\ e.see.till = 1 /\ Plain(e.see)
        /\ e.see.now = a.see.now /\ e.see.lastSee = a.see.lastSee
        /\ e.view = u /\ Sent(e, v) = u
    BY <2>2, <2>3, <2>4, SynchronizedTurns
  <2>6. ViewSynchWidth(e) = "NARROW"
    BY <2>4, <2>5, PlainSynch DEF ViewSynchWidth
  <2>7. w = "NARROW"
    BY <1>4, <2>6 DEF ViewWishes
  <2>8. f = e
    BY <1>5, <2>2, <2>5, <2>7 DEF ExecuteView, MayChangeView
  <2>9. Sent(b, v) = u
    BY <1>7, <2>5, <2>8 DEF Sent
  <2> QED
    BY <1>7, <1>8, <2>2, <2>5, <2>8, <2>9
<1>9. CASE ~(conf.synch /\ IsSynchedSeeCountSynchMode(a.see))
  <2>1. e = a \/ e = SendChangeView(a, View("NARROW", "LOW"))
    BY <1>1, <1>3, <1>9 DEF AdjustSeeSynchSynchMode
  <2>2. Plain(e.see) /\ e.see.timing = "TIME_NOSYNCH"
    <3>1. CASE e = a
      BY <1>1, <3>1
    <3>2. CASE e = SendChangeView(a, View("NARROW", "LOW"))
      <4>1. View("NARROW", "LOW") \in Views
        BY FirstViews
      <4>2. e.see = SetViewMode(a.see, View("NARROW", "LOW"))
        BY <3>2, <4>1, SendFields
      <4> QED
        BY <1>1, <4>1, <4>2, ViewModeFields
    <3> QED
      BY <2>1, <3>1, <3>2
  <2>3. ~IsSynch(e.see)
    BY <2>2, PlainSynch
  <2>4. f = e
    BY <1>5, <2>3 DEF ExecuteView, MayChangeView
  <2> QED
    BY <1>7, <2>2, <2>4
<1> QED
  BY <1>8, <1>9

\* (think).
LEMMA StepThink ==
  ASSUME TypeOK, InPhase, InStep, ViewsAgree, Think, CalmViewSynch
  PROVE  InStep' /\ (ag.see.timing \in SynchTimings => ag'.see.timing \in SynchTimings)
<1>1. /\ conf.synch /\ ~thought /\ OffsetOf(clock) = 4 /\ net = <<>>
      /\ thought' /\ UNCHANGED <<conf, clock, net>>
  BY DEF Think
<1>2. PICK b \in Decided(ag) : Deliver(b)
  BY DEF Think
<1>3. /\ ag \in Drafts /\ clock \in 0..(UnitsPerCycle * Cycles - 1) /\ srv.view \in Views
      /\ ag.see \in SeeStates /\ ag.out = <<>> /\ srv.looks \in 0..7
  BY AgentsAreDrafts DEF TypeOK, Agents
<1>4. /\ Calm /\ conf.maxLost = 0 /\ lost = 0 /\ ~playOn /\ conf.view = "View_Synch"
  BY DEF InPhase, CalmViewSynch, Calm, Quiet
<1>5. Follows(ag, srv.view, srv.looks, srv.lastSee, clock)
  BY <1>1, <1>4, NothingWaits
<1>6. /\ ag'.see = b.see /\ srv'.view = Sent(b, srv.view)
  <2>1. b \in Drafts
    BY <1>2, <1>3, DecidedType
  <2> QED
    BY <1>2, <1>4, <2>1, DeliverCalm
<1>7. Plain(ag.see) /\ Stamped(ag, srv.looks, clock)
  BY <1>5 DEF Follows, Stamped
<1>8. Place(clock) \in 0..23 /\ Place(clock) % 8 = 4
  BY <1>1, <1>3, ClockSteps
<1>9. Place(clock) \in {4, 12, 20}
  BY <1>8
<1>10. ~Holds(net, "see") /\ ~Holds(net', "see")
  BY <1>1, NoneHolds
<1>11. ASSUME ag'.see.timing \in SynchTimings,
              ag'.see.now = TimeOf(clock), InRotation(ag'.see.timing, ag'.see.till, Place(clock)),
              srv'.view.width = WidthAfter(ag'.see.timing)
       PROVE  InStep'
  <2>1. PICK s : s = SetNewCycle(ag'.see, TimeOf(clock))
    OBVIOUS
  <2>2. s = ag'.see
    BY <1>11, <2>1 DEF SetNewCycle
  <2>3. PICK w : w = srv'.view.width
    OBVIOUS
  <2>4. CalmViewSynch /\ ag'.see.timing \in SynchTimings =>
           /\ ~conf.synch => ag'.lastDecision = ag'.see.lastSee
           /\ Holds(net', "see") => AtTurn(s, w, Place(clock))
           /\ ~Holds(net', "see") =>
                /\ InRotation(s.timing, s.till, Place(clock))
                /\ \/ w = WidthAfter(s.timing)
                   \/ conf.synch /\ ~thought' /\ w = WidthBefore(s.timing) /\ BeforeThink(s.timing, Place(clock))
    BY <1>1, <1>10, <1>11, <2>2, <2>3
  <2> QED
    BY <1>1, <2>1, <2>3, <2>4, InStepNext
<1>12. CASE ag.see.timing \in SynchTimings
  <2>1. ag.see.now = TimeOf(clock) /\ ag.now = TimeOf(clock)
    BY <1>7, <1>12 DEF Stamped, Fresh, SynchTimings
  <2>2. SetNewCycle(ag.see, TimeOf(clock)) = ag.see
    BY <2>1 DEF SetNewCycle
  <2>3. InRotation(ag.see.timing, ag.see.till, Place(clock))
    BY <1>4, <1>10, <1>12, <2>2 DEF InStep, CalmViewSynch, BetweenTurns
  <2>4. /\ ag.see.till = 1 /\ InRotation(ag.see.timing, 1, Place(clock))
        /\ \/ ag.see.timing = "TIME_0_00" /\ Place(clock) \in 0..7
           \/ ag.see.timing = "TIME_50_0" /\ Place(clock) \in 12..15
           \/ ag.see.timing = "TIME_22_5" /\ Place(clock) \in 18..23
    BY <1>9, <2>3 DEF InRotation
  <2>5. ag.see.lastSee = TimeOf(clock)
    <3>1. /\ ag.see.timing = "TIME_0_00" => (ag.see.lastSee = TimeOf(clock) <=> Place(clock) \in 0..7)
          /\ ag.see.timing = "TIME_50_0" => (ag.see.lastSee = TimeOf(clock) <=> Place(clock) \in 12..15)
          /\ ag.see.timing = "TIME_22_5" => (ag.see.lastSee = TimeOf(clock) <=> Place(clock) \in 18..23)
      BY <1>3, <1>5, <1>12, CurrentSeePlace
    <3> QED
      BY <2>4, <3>1
  <2>6. ag.view = srv.view /\ Sent(ag, srv.view) = srv.view
    BY <1>1, <1>3, <1>4 DEF ViewsAgree, Sent
  <2>7. /\ b.see.timing = ag.see.timing /\ b.see.till = 1
        /\ b.see.now = ag.see.now /\ b.see.lastSee = ag.see.lastSee
        /\ Sent(b, srv.view).width = WidthAfter(ag.see.timing)
    <3>1. /\ ag.now = ag.see.lastSee /\ ag.see.till = 1
          /\ ag.view.width = WidthAfter(ag.see.timing) => Sent(ag, srv.view).width = WidthAfter(ag.see.timing)
      BY <2>1, <2>4, <2>5, <2>6
    <3> QED
      BY <1>2, <1>3, <1>4, <1>7, <1>12, <3>1, DecidedTurns
  <2>8. /\ ag'.see.timing = ag.see.timing /\ ag'.see.till = 1 /\ ag'.see.now = TimeOf(clock)
        /\ srv'.view.width = WidthAfter(ag.see.timing)
    BY <1>6, <2>1, <2>7
  <2> QED
    BY <1>11, <1>12, <2>4, <2>8
<1>13. CASE ag.see.timing \notin SynchTimings
  <2>1. \/ b.see.timing = "TIME_NOSYNCH"
        \/ /\ IsSynchedSeeCountSynchMode(ag.see)
           /\ b.see.timing = "TIME_50_0" /\ b.see.till = 1
           /\ b.see.now = ag.see.now
           /\ Sent(b, srv.view).width = "NARROW"
    BY <1>2, <1>3, <1>4, <1>7, <1>13, HuntingDecides
  <2>2. CASE b.see.timing = "TIME_NOSYNCH"
    <3>1. ag'.see.timing \notin SynchTimings
      BY <1>6, <2>2 DEF SynchTimings
    <3>2. InStep'
      BY <3>1 DEF InStep
    <3> QED
      BY <1>13, <3>2
  <2>3. CASE /\ IsSynchedSeeCountSynchMode(ag.see)
             /\ b.see.timing = "TIME_50_0" /\ b.see.till = 1
             /\ b.see.now = ag.see.now
             /\ Sent(b, srv.view).width = "NARROW"
    <3>1. ag.see.timing = "TIME_NOSYNCH"
      BY <1>7, <1>13 DEF Plain
    <3>2. Hunting(ag.see, srv.view, srv.looks, srv.lastSee, Place(clock))
      BY <1>5, <3>1 DEF Follows
    <3>3. ag.see.count = 2 /\ ag.see.history[1] = 3 /\ ag.see.history[3] = 3
      BY <2>3 DEF IsSynchedSeeCountSynchMode
    <3>4. Looked(Place(clock)) = 2
      BY <3>2, <3>3 DEF Hunting
    <3>5. LooksBefore(Place(clock), 1) >= 3 /\ LooksBefore(Place(clock), 3) >= 3
      BY <1>7, <3>3 DEF Stamped, Counted
    <3>6. Place(clock) \in 12..14
      BY <1>8, <3>4, <3>5, PatternPlace
    <3>7. ag.see.now = TimeOf(clock)
      BY <1>7, <3>3 DEF Stamped, Fresh
    <3>8. "TIME_50_0" \in SynchTimings /\ WidthAfter("TIME_50_0") = "NARROW"
      BY DEF SynchTimings, WidthAfter
    <3>9. InRotation("TIME_50_0", 1, Place(clock))
      BY <3>6 DEF InRotation
    <3>10. /\ ag'.see.timing = "TIME_50_0" /\ ag'.see.till = 1 /\ ag'.see.now = TimeOf(clock)
           /\ srv'.view.width = "NARROW"
      BY <1>6, <2>3, <3>7
    <3> QED
      BY <1>11, <1>13, <3>8, <3>9, <3>10
  <2> QED
    BY <2>1, <2>2, <2>3
<1> QED
  BY <1>12, <1>13

\* A timeout: a patient client that is synchronized has decided on its see, or still
\* waits for it.
LEMMA StepTimeout ==
  ASSUME TypeOK, InPhase, InStep, BodyAgeTracksServer, Patient, HandleTimeout, CalmViewSynch
  PROVE  InStep' /\ (ag.see.timing \in SynchTimings => ag'.see.timing \in SynchTimings)
<1>1. net = <<>> /\ ag.bodyAge >= 0
  BY DEF HandleTimeout
<1>2. PICK b \in Decided(ag) : Deliver(b)
  BY DEF HandleTimeout
<1>3. PICK msec \in {(25 * ag.bodyAge) \div 2, (25 * ag.bodyAge + 24) \div 2}, n \in {1, 3} :
        IsDecisionTiming(ag, ag.see, msec, n)
  BY DEF HandleTimeout
<1>4. /\ ag \in Drafts /\ clock \in 0..(UnitsPerCycle * Cycles - 1) /\ ag.bodyAge \in -1..MaxAge
      /\ srv.looks \in 0..7
  BY AgentsAreDrafts DEF TypeOK, Agents
<1>5. /\ Calm /\ conf.maxLost = 0 /\ lost = 0 /\ ~playOn /\ conf.view = "View_Synch"
  BY DEF InPhase, CalmViewSynch, Calm, Quiet
<1>6. Follows(ag, srv.view, srv.looks, srv.lastSee, clock)
  BY <1>1, <1>5, NothingWaits
<1>7. Plain(ag.see) /\ Stamped(ag, srv.looks, clock)
  BY <1>6 DEF Follows, Stamped
<1>8. /\ ~conf.synch /\ ag.lastDecision # ag.now
      /\ HasCurrentSee(ag) \/ SeeNotAwaited(ag.see, msec)
  BY <1>3 DEF IsDecisionTiming
<1>9. CASE ag.see.timing \in SynchTimings
  <2>1. ag.see.now = TimeOf(clock) /\ ag.now = TimeOf(clock) /\ ag.seeTime = ag.see.lastSee
    BY <1>7, <1>9 DEF Stamped, Fresh, SynchTimings
  <2>2. ~Holds(net, "see") /\ ~Holds(net, "sense_body")
    BY <1>1, NoneHolds
  <2>3. SetNewCycle(ag.see, TimeOf(clock)) = ag.see
    BY <2>1 DEF SetNewCycle
  <2>4. /\ ag.lastDecision = ag.see.lastSee
        /\ InRotation(ag.see.timing, ag.see.till, Place(clock))
    BY <1>8, <1>9, <2>2, <2>3 DEF InStep, CalmViewSynch, BetweenTurns
  <2>5. ag.see.lastSee # TimeOf(clock)
    BY <1>8, <2>1, <2>4
  <2>6. /\ ag.see.timing = "TIME_0_00" => (ag.see.lastSee = TimeOf(clock) <=> Place(clock) \in 0..7)
        /\ ag.see.timing = "TIME_50_0" => (ag.see.lastSee = TimeOf(clock) <=> Place(clock) \in 12..15)
        /\ ag.see.timing = "TIME_22_5" => (ag.see.lastSee = TimeOf(clock) <=> Place(clock) \in 18..23)
    BY <1>4, <1>6, <1>9, CurrentSeePlace
  <2>7. /\ ag.see.till = 0
        /\ Place(clock) \in 8..11 \/ Place(clock) \in 16..17
    BY <2>4, <2>5, <2>6 DEF InRotation
  <2>8. OffsetOf(clock) \in 0..3
    <3>1. OffsetOf(clock) = Place(clock) % 8
      BY <1>4, ClockSteps
    <3> QED
      BY <2>7, <3>1
  <2>9. ag.bodyAge \in 0..3
    BY <1>1, <1>5, <2>2, <2>8 DEF BodyAgeTracksServer
  <2>10. msec \in Int /\ msec < 50
    BY <1>3, <2>9
  <2>11. IsSynch(ag.see) /\ ~ag.see.synchSee
    BY <1>7, <1>9, PlainSynch
  <2>12. WaitThr(ag.see) \in Nat /\ WaitThr(ag.see) >= 50
    BY <2>11 DEF WaitThr, Patient
  <2>13. ~SeeNotAwaited(ag.see, msec)
    BY <2>7, <2>10, <2>11, <2>12 DEF SeeNotAwaited
  <2>14. ~HasCurrentSee(ag)
    BY <2>1, <2>5 DEF HasCurrentSee
  <2> QED
    BY <1>8, <2>13, <2>14
<1>10. CASE ag.see.timing \notin SynchTimings
  <2>1. b.see.timing = "TIME_NOSYNCH"
    BY <1>2, <1>4, <1>5, <1>7, <1>8, <1>10, HuntingDecides
  <2>2. ag'.see = b.see
    <3>1. b \in Drafts
      BY <1>2, <1>4, DecidedType
    <3> QED
      BY <1>2, <1>5, <3>1, DeliverCalm
  <2>3. ag'.see.timing \notin SynchTimings
    BY <2>1, <2>2 DEF SynchTimings
  <2>4. InStep'
    BY <2>3 DEF InStep
  <2> QED
    BY <1>10, <2>4
<1> QED
  BY <1>9, <1>10

LEMMA StepNext ==
  ASSUME TypeOK, InPhase, InStep, ViewsAgree, BodyAgeTracksServer, Patient, [Next]_vars
  PROVE  /\ InStep'
         /\ CalmViewSynch /\ ag.see.timing \in SynchTimings => ag'.see.timing \in SynchTimings
<1>1. conf' = conf
  BY DEF Next, Tick, Lose, Referee, HandleMessage, HandleTimeout, Think, vars
<1>2. CalmViewSynch' = CalmViewSynch
  BY <1>1 DEF CalmViewSynch, Calm, Quiet
<1>3. CASE ~CalmViewSynch
  BY <1>2, <1>3 DEF InStep
<1>4. CASE CalmViewSynch
  <2>1. conf.maxLost = 0 /\ lost = 0 /\ ~conf.playOnAllowed
    BY <1>4 DEF InPhase, CalmViewSynch, Calm, Quiet
  <2>2. CASE UNCHANGED vars
    <3>1. InStep' = InStep
      BY <2>2 DEF vars, InStep, CalmViewSynch, Calm, Quiet, AtTurn, BetweenTurns, Holds, TimeOf, CycleOf, SetNewCycle, Place
    <3> QED
      BY <2>2, <3>1 DEF vars
  <2>3. CASE Tick
    BY <1>4, <2>3, StepTick
  <2>4. CASE Lose
    BY <2>1, <2>4 DEF Lose
  <2>5. CASE Referee
    BY <2>1, <2>5 DEF Referee
  <2>6. CASE HandleMessage
    BY <1>4, <2>6, StepMessage
  <2>7. CASE HandleTimeout
    BY <1>4, <2>7, StepTimeout
  <2>8. CASE Think
    BY <1>4, <2>8, StepThink
  <2> QED
    BY <2>2, <2>3, <2>4, <2>5, <2>6, <2>7, <2>8 DEF Next
<1> QED
  BY <1>3, <1>4

\* What a client in step knows of a see that waits, and what it has at the end of a
\* cycle.
LEMMA StepShows ==
  ASSUME TypeOK, InPhase, InStep
  PROVE  EstimateComesTrue /\ (Calm => SeeInEveryCycle)
<1> SUFFICES ASSUME CalmViewSynch, IsSynch(ag.see)
             PROVE  /\ \A i \in 1..Len(net) :
                         net[i].type = "see" => SetNewCycle(ag.see, TimeOf(clock)).till = 0
                    /\ net = <<>> /\ OffsetOf(clock) = UnitsPerCycle - 1 =>
                         ag.see.till > 0 /\ ag.seeTime = TimeOf(clock)
  BY DEF EstimateComesTrue, SeeInEveryCycle, CalmViewSynch
<1>1. /\ Calm /\ clock \in 0..(UnitsPerCycle * Cycles - 1) /\ srv.looks \in 0..7 /\ srv.view \in Views
  BY DEF TypeOK, CalmViewSynch
<1>2. CASE net = <<>>
  <2>1. Follows(ag, srv.view, srv.looks, srv.lastSee, clock)
    BY <1>1, <1>2, NothingWaits
  <2>2. Plain(ag.see) /\ ag.seeTime = ag.see.lastSee
    BY <2>1 DEF Follows, Stamped
  <2>3. ag.see.timing \in SynchTimings
    BY <2>2, PlainSynch
  <2>4. ag.see.now = TimeOf(clock)
    BY <2>1, <2>3 DEF Follows, Stamped, Fresh, SynchTimings
  <2>5. SetNewCycle(ag.see, TimeOf(clock)) = ag.see /\ ~Holds(net, "see")
    BY <1>2, <2>4, NoneHolds DEF SetNewCycle
  <2>6. InRotation(ag.see.timing, ag.see.till, Place(clock))
    BY <2>3, <2>5 DEF InStep, BetweenTurns
  <2>7. ASSUME OffsetOf(clock) = UnitsPerCycle - 1
        PROVE  ag.see.till > 0 /\ ag.seeTime = TimeOf(clock)
    <3>1. Place(clock) \in 0..23 /\ Place(clock) % 8 = 7
      BY <1>1, <2>7, ClockSteps DEF UnitsPerCycle
    <3>2. Place(clock) \in {7, 15, 23}
      BY <3>1
    <3>3. /\ ag.see.till = 1
          /\ \/ ag.see.timing = "TIME_0_00" /\ Place(clock) \in 0..7
             \/ ag.see.timing = "TIME_50_0" /\ Place(clock) \in 12..15
             \/ ag.see.timing = "TIME_22_5" /\ Place(clock) \in 18..23
      BY <2>6, <3>2 DEF InRotation
    <3>4. /\ ag.see.timing = "TIME_0_00" => (ag.see.lastSee = TimeOf(clock) <=> Place(clock) \in 0..7)
          /\ ag.see.timing = "TIME_50_0" => (ag.see.lastSee = TimeOf(clock) <=> Place(clock) \in 12..15)
          /\ ag.see.timing = "TIME_22_5" => (ag.see.lastSee = TimeOf(clock) <=> Place(clock) \in 18..23)
      BY <1>1, <2>1, <2>3, CurrentSeePlace
    <3>5. ag.see.lastSee = TimeOf(clock)
      BY <3>3, <3>4
    <3> QED
      BY <2>2, <3>3, <3>5
  <2>8. Len(net) = 0
    BY <1>2
  <2> QED
    BY <2>7, <2>8
<1>3. CASE net # <<>>
  <2>1. PICK r : r = SetNewCycle(ag.see, TimeOf(clock))
    OBVIOUS
  <2>2. PICK e : e = SeeMsg(clock)
    OBVIOUS
  <2>3. e.type = "see"
    BY <2>2 DEF SeeMsg
  <2>4. \A v : SenseMsg(clock, v).type = "sense_body"
    BY DEF SenseMsg
  <2>5. \/ \E v : net = <<SenseMsg(clock, v)>>
        \/ /\ \/ net = <<e>>
              \/ \E v : net = <<SenseMsg(clock, v), e>>
              \/ \E v : net = <<e, SenseMsg(clock, v)>>
           /\ Plain(r)
    <3>1. SenseWaits => \E v : net = <<SenseMsg(clock, v)>>
      BY DEF SenseWaits
    <3>2. \/ SenseWaits
          \/ net = <<SenseMsg(clock, srv.view)>>
          \/ /\ net = <<SeeMsg(clock)>>
             /\ Expects(r, ag.view, srv.view, clock)
          \/ /\ \/ net = <<SenseMsg(clock, srv.view), SeeMsg(clock)>>
                \/ net = <<SeeMsg(clock), SenseMsg(clock, srv.view)>>
             /\ Expects(r, ag.view, srv.view, clock)
      BY <1>1, <1>3, <2>1, WhatArrives
    <3>3. Expects(r, ag.view, srv.view, clock) => Plain(r)
      BY DEF Expects
    <3> QED
      BY <2>2, <3>1, <3>2, <3>3
  <2>6. ASSUME NEW i \in 1..Len(net), net[i].type = "see"
        PROVE  SetNewCycle(ag.see, TimeOf(clock)).till = 0
    <3>1. Plain(r) /\ Holds(net, "see")
      <4>1. CASE \E v : net = <<SenseMsg(clock, v)>>
        BY <2>4, <2>6, <4>1
      <4>2. CASE net = <<e>> /\ Plain(r)
        BY <2>6, <4>2 DEF Holds
      <4>3. CASE \E v : net = <<SenseMsg(clock, v), e>> /\ Plain(r)
        BY <2>4, <2>6, <4>3 DEF Holds
      <4>4. CASE \E v : net = <<e, SenseMsg(clock, v)>> /\ Plain(r)
        BY <2>4, <2>6, <4>4 DEF Holds
      <4> QED
        BY <2>5, <4>1, <4>2, <4>3, <4>4
    <3>2. /\ r.timing = ag.see.timing /\ r.synchType = ag.see.synchType
          /\ r.synchSee = ag.see.synchSee
      <4>1. TimeOf(clock) \in GameTimes /\ ag.see \in SeeStates
        BY <1>1, TimeSeen DEF TypeOK, Agents
      <4>2. CASE TimeOf(clock) = ag.see.now
        BY <2>1, <4>2 DEF SetNewCycle
      <4>3. CASE TimeOf(clock) # ag.see.now
        BY <2>1, <4>1, <4>3, NewCycleFields
      <4> QED
        BY <4>2, <4>3
    <3>3. ag.see.timing \in SynchTimings
      <4>1. Plain(ag.see)
        BY <3>1, <3>2 DEF Plain
      <4> QED
        BY <4>1, PlainSynch
    <3>4. r.till = 0
      BY <2>1, <3>1, <3>3 DEF InStep, AtTurn
    <3> QED
      BY <2>1, <3>4
  <2> QED
    BY <1>3, <2>6
<1> QED
  BY <1>2, <1>3

LEMMA StepInit == Init => ViewsAgree /\ BodyAgeTracksServer /\ InStep
<1> SUFFICES ASSUME Init PROVE ViewsAgree /\ BodyAgeTracksServer /\ InStep
  OBVIOUS
<1>1. /\ net = <<>> /\ Len(net) = 0 /\ ~thought /\ ag.bodyAge = -1 /\ ag.view = srv.view
      /\ ag.see.timing \notin SynchTimings
  BY DEF Init, NewAgent, NewServer, NewSeeState, SynchTimings
<1>2. \A type : ~Holds(net, type)
  BY <1>1, NoneHolds
<1>3. \A i \in 1..Len(net) : FALSE
  BY <1>1
<1> QED
  BY <1>1, <1>2, <1>3 DEF ViewsAgree, BodyAgeTracksServer, InStep

LEMMA PhasePlain ==
  ASSUME TypeOK, InPhase, Calm
  PROVE  /\ Plain(ag.see)
         /\ IsSynch(ag.see) <=> ag.see.timing \in SynchTimings
<1>1. Plain(ag.see)
  BY DEF InPhase, Unhandled, SeeWaits, SenseWaits, Follows, Stamped, Expects
<1> QED
  BY <1>1, PlainSynch

LEMMA SynchNext ==
  ASSUME TypeOK, TypeOK', InPhase, InPhase', InStep, ViewsAgree, BodyAgeTracksServer, Patient, [Next]_vars
  PROVE  CalmViewSynch /\ IsSynch(ag.see) => IsSynch(ag'.see)
<1> SUFFICES ASSUME CalmViewSynch, IsSynch(ag.see)
             PROVE  IsSynch(ag'.see)
  OBVIOUS
<1>1. ag.see.timing \in SynchTimings
  BY PhasePlain DEF CalmViewSynch
<1>2. ag'.see.timing \in SynchTimings
  BY <1>1, StepNext
<1> QED
  BY <1>2 DEF IsSynch

\* The invariants of the rotation hold together.
LEMMA KeepsStep ==
  ASSUME Patient
  PROVE  Spec => [](TypeOK /\ InPhase /\ ViewsAgree /\ BodyAgeTracksServer /\ InStep)
<1> DEFINE IInv == TypeOK /\ InPhase /\ ViewsAgree /\ BodyAgeTracksServer /\ InStep
<1>1. Init => IInv
  BY TypeInit, PhaseInit, StepInit
<1>2. IInv /\ [Next]_vars => IInv'
  <2> SUFFICES ASSUME TypeOK, InPhase, ViewsAgree, BodyAgeTracksServer, InStep, [Next]_vars
               PROVE  TypeOK' /\ InPhase' /\ ViewsAgree' /\ BodyAgeTracksServer' /\ InStep'
    OBVIOUS
  <2>1. TypeOK'
    BY TypeNext
  <2>2. InPhase'
    BY PhaseNext
  <2>3. ViewsAgree'
    BY <2>1, AgreeNext
  <2>4. BodyAgeTracksServer'
    BY <2>1, BodyAgeNext
  <2>5. InStep'
    BY StepNext
  <2> QED
    BY <2>1, <2>2, <2>3, <2>4, <2>5
<1> QED
  BY <1>1, <1>2, PTL DEF Spec

\* A see arrives in the cycle in which cyclesTillNextSee() announces it (SeeState), and no
\* cycle ends that was to have one, if a synchronized client is Patient: with a running
\* clock in any order of a unit's messages, with a stopped one if no see overtakes its
\* sense_body.
THEOREM EstimateIsTrue ==
  ASSUME Patient
  PROVE  Spec => []EstimateComesTrue
<1>1. TypeOK /\ InPhase /\ ViewsAgree /\ BodyAgeTracksServer /\ InStep => EstimateComesTrue
  BY StepShows
<1> QED
  BY <1>1, KeepsStep, PTL

\* No see overtakes its sense_body while the clock is stopped.
InOrder == \A c \in Confs : ~(c.stopped /\ c.reorder)

LEMMA OrderCalm == ASSUME TypeOK, InOrder, Quiet PROVE Calm
BY DEF TypeOK, InOrder, Calm

\* With the view action View_Synch a synchronized client that is Patient has a see of each
\* cycle before the cycle ends, on a running clock in any order of a unit's messages.
THEOREM SeesInEveryCycle ==
  ASSUME Patient, InOrder
  PROVE  Spec => []SeeInEveryCycle
<1>1. TypeOK /\ InPhase /\ ViewsAgree /\ BodyAgeTracksServer /\ InStep => SeeInEveryCycle
  BY StepShows, OrderCalm DEF SeeInEveryCycle
<1> QED
  BY <1>1, KeepsStep, PTL

\* The view action View_Synch never makes a Patient client lose its synchronization: the
\* widths it asks for have a timing in the tables of SeeState, and action() never finds an
\* announced see missing.  On a stopped clock this is so only InOrder: the see that is
\* Overtaken ends it.
THEOREM SynchronizationIsKept ==
  ASSUME Patient, InOrder
  PROVE  Spec => SynchIsKept
<1>1. /\ TypeOK /\ InPhase /\ ViewsAgree /\ BodyAgeTracksServer /\ InStep
      /\ TypeOK' /\ InPhase' /\ [Next]_vars
      => [Quiet /\ conf.view = "View_Synch" /\ IsSynch(ag.see) /\ ~Overtaken => IsSynch(ag'.see)]_vars
  BY SynchNext, OrderCalm DEF CalmViewSynch
<1> QED
  BY <1>1, KeepsStep, PTL DEF Spec, SynchIsKept
=============================================================================
