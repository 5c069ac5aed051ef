-------------------------------- MODULE SeeSync --------------------------------
(***************************************************************************)
(* The see synchronization of a player.  The server sends a sense_body at  *)
(* the start of every 100 ms cycle and looks every 37.5 ms whether a see   *)
(* is due; how many looks a see takes depends on the view mode, so a       *)
(* player that picks its view widths well gets one see in each cycle.  The *)
(* client infers the phase of that second clock from the number of sees    *)
(* per cycle (adjustSeeSynchNormalMode, adjustSeeSynchSynchMode) and then  *)
(* predicts it (SeeState).  Time is counted in units of 12.5 ms, which     *)
(* divides both clocks: a cycle is 8 units, a look comes every third.      *)
(*                                                                         *)
(* A message sent in a unit is handled or lost within that unit.           *)
(***************************************************************************)
EXTENDS SeeState

CONSTANTS
  WaitThrSynchView,   \* PlayerConfig::waitTimeThrSynchView(), in msec
  WaitThrNoSynchView, \* PlayerConfig::waitTimeThrNoSynchView(), in msec
  SynchSeeOffset,     \* ServerParam::synchSeeOffset(), in msec
  SynchOffset,        \* ServerParam::synchOffset(), in msec
  Cycles,             \* bound: cycle numbers are counted modulo Cycles
  NormalViewTimeThr,  \* PlayerConfig::normalViewTimeThr(), in msec
  Confs               \* the circumstances to check; a behaviour has one of them

\* synch: ServerParam::synchMode(), the server sends (think);
\* view: "View_Synch", or "any": the view action wishes any width;
\* stopped: server_cycle_stopped_, the cycle number stands still while the server goes on
\* sending, as in before_kick_off; otherwise it runs, in free kicks and the like as in play_on;
\* playOnAllowed: FALSE: the game stays out of play_on; reorder: messages of one
\* unit may overtake each other; maxLost: how many messages the network may lose.
Circumstances ==
  [synch : BOOLEAN, view : {"View_Synch", "any"}, stopped : BOOLEAN, playOnAllowed : BOOLEAN,
   reorder : BOOLEAN, maxLost : Nat]

ASSUME SeeSyncAssumption ==
  /\ Cycles \in Nat /\ Cycles > 3 /\ Cycles % 3 = 0
  /\ NormalViewTimeThr \in Nat
  /\ Confs \subseteq Circumstances
  /\ \A c \in Confs : c.stopped => ~c.playOnAllowed

VARIABLES
  conf,     \* the circumstances of this behaviour, chosen at the start
  clock,    \* server: units since start, modulo Cycles cycles
  srv,      \* server: the player's view mode, looks since and unit of its last see
  thought,  \* server, synch mode: (think) was sent in this cycle
  net,      \* messages to the client that are not handled yet
  lost,     \* how many messages the network has lost
  playOn,   \* the game mode is play_on
  ag        \* the player agent

vars == <<conf, clock, srv, thought, net, lost, playOn, ag>>

INSTANCE DecisionTiming WITH SynchMode <- conf.synch

UnitsPerCycle == 8
UnitsPerLook == 3
MaxAge == 2 * UnitsPerCycle   \* bound: older sense_body time stamps look alike

CycleOf(u) == u \div UnitsPerCycle
OffsetOf(u) == u % UnitsPerCycle

\* Looks a see takes: narrow 2, normal 4, wide 8, half of it in low quality.
LooksPerSee(v) ==
  LET high == [NARROW |-> 2, NORMAL |-> 4, WIDE |-> 8][v.width]
  IN IF v.quality = "LOW" THEN high \div 2 ELSE high

\* The cycle number the server writes into its messages.
SentCycle(u) == IF conf.stopped THEN 0 ELSE CycleOf(u)

SenseMsg(u, v) == [type |-> "sense_body", cycle |-> SentCycle(u), view |-> v]
SeeMsg(u) == [type |-> "see", cycle |-> SentCycle(u)]

\* The game time of a unit.  The stopped cycles are counted modulo Cycles too, from
\* wherever the clock stood when the agent connected.
TimeOf(u) == IF conf.stopped THEN Time(0, CycleOf(u)) ELSE Time(CycleOf(u), 0)

-----------------------------------------------------------------------------
(* The agent: PlayerAgent::Impl and what it reads of the world model.      *)

NewAgent ==
  [now |-> Time(0, IF conf.stopped THEN CycleOf(clock) ELSE 0), lastDecision |-> NoTime,
   seeTime |-> NoTime, senseTime |-> NoTime,
   bodyAge |-> -1, seeLag |-> -1, view |-> View("NORMAL", "HIGH"), see |-> NewSeeState,
   out |-> <<>>]

\* The game time once a message with cycle number c is read: on a stopped clock only a
\* sense_body proves that time has passed.
UpdateCurrentTime(a, c, bySenseBody) ==
  IF ~conf.stopped \/ c # a.now.cycle THEN Time(c, 0)
  ELSE IF bySenseBody THEN Time(c, (a.now.stopped + 1) % Cycles)
  ELSE a.now

\* Send (change_view ...), and take it as executed at once.
SendChangeView(a, v) ==
  [a EXCEPT !.out = Append(@, v), !.view = v, !.see = SetViewMode(@, v)]

Synchronized(a, timing, v) ==
  SendChangeView([a EXCEPT !.see = SetLastSeeTiming(@, timing)], v)

\* play_on stops the trial: low quality is of no use to a playing agent.
StopTrial(a) ==
  IF a.view.quality = "LOW" THEN SendChangeView(a, View("NARROW", "HIGH")) ELSE a

\* Mutant: the trial starts only from a view that is wide and of high quality.
MutAdjustNormalMode(a) ==
  CASE IsSynch(a.see) -> a
    [] ~IsSynch(a.see) /\ IsSynchedSeeCountNormalMode(a.see)
         -> Synchronized(a, "TIME_0_00", View("NORMAL", "HIGH"))
    [] OTHER -> IF playOn THEN StopTrial(a)
                ELSE IF a.view.width # "NARROW" /\ a.view.quality # "LOW"
                THEN SendChangeView(a, View("NARROW", "LOW")) ELSE a

AdjustSeeSynchNormalMode(a) ==
  CASE IsSynch(a.see) -> a
    [] ~IsSynch(a.see) /\ IsSynchedSeeCountNormalMode(a.see)
         -> Synchronized(a, "TIME_0_00", View("NORMAL", "HIGH"))
    [] OTHER -> IF playOn THEN StopTrial(a)
                ELSE IF a.view.width # "NARROW" \/ a.view.quality # "LOW"
                THEN SendChangeView(a, View("NARROW", "LOW")) ELSE a

AdjustSeeSynchSynchMode(a) ==
  CASE IsSynch(a.see) -> a
    [] ~IsSynch(a.see) /\ IsSynchedSeeCountSynchMode(a.see)
         -> Synchronized(a, "TIME_50_0", View("NARROW", "HIGH"))
    [] OTHER -> IF playOn THEN StopTrial(a)
                ELSE IF a.view.width # "NARROW" /\ a.view.quality # "LOW"
                THEN SendChangeView(a, View("NARROW", "LOW")) ELSE a

AnalyzeSenseBody(a, m) ==
  LET t == UpdateCurrentTime(a, m.cycle, TRUE)
  IN [a EXCEPT !.now = t, !.senseTime = t, !.bodyAge = 0, !.view = m.view,
               !.see = UpdateBySenseBody(@, t, m.view)]

AnalyzeSee(a, m) ==
  LET t == UpdateCurrentTime(a, m.cycle, FALSE)
      b == [a EXCEPT !.now = t, !.seeTime = t, !.seeLag = a.bodyAge,
                     !.see = UpdateBySee(@, t, a.view)]
  IN IF conf.synch \/ IsSynch(b.see) THEN b ELSE AdjustSeeSynchNormalMode(b)

Analyze(a, m) == IF m.type = "see" THEN AnalyzeSee(a, m) ELSE AnalyzeSenseBody(a, m)

-----------------------------------------------------------------------------
(* Decision.                                                               *)

\* View_Synch::doTimerSynchView: the width without synchronization in play_on.
TimerSynchWidth(a) ==
  IF /\ ~conf.synch /\ a.bodyAge >= 0 /\ HasCurrentSee(a)
     /\ a.view.width = "NARROW"
     /\ 25 * a.seeLag < 2 * NormalViewTimeThr
  THEN "NORMAL" ELSE "NARROW"

\* Mutant: normal width also 50 ms after the sense_body.
MutViewSynchWidth(a) ==
  CASE a.see.synchSee -> "NARROW"
    [] ~a.see.synchSee /\ ~IsSynch(a.see) -> TimerSynchWidth(a)
    [] OTHER -> IF a.see.timing \in {"TIME_0_00", "TIME_50_0"} THEN "NORMAL" ELSE "NARROW"

\* View_Synch::execute.
ViewSynchWidth(a) ==
  CASE a.see.synchSee -> "NARROW"
    [] ~a.see.synchSee /\ ~IsSynch(a.see) -> TimerSynchWidth(a)
    [] OTHER -> IF a.see.timing = "TIME_0_00" THEN "NORMAL" ELSE "NARROW"

\* The widths a view action may ask for; "none": no view action is set.
ViewWishes(a) ==
  IF conf.view = "View_Synch" THEN {ViewSynchWidth(a)} ELSE Widths \cup {"none"}

\* doViewAction and doChangeView.
MayChangeView(a, w) ==
  /\ w \in Widths \ {a.view.width}
  /\ IF IsSynch(a.see) THEN CanSendChangeView(a.see, w, a.now, SeeAfterThink) ELSE playOn

ExecuteView(a, w) ==
  IF MayChangeView(a, w) THEN SendChangeView(a, View(w, "HIGH")) ELSE a

\* action() up to the view action.
BeforeActions(a) ==
  LET b == IF MissedSee(a, a.see) THEN [a EXCEPT !.see = SetLastSeeTiming(@, "TIME_NOSYNCH")] ELSE a
  IN IF conf.synch THEN AdjustSeeSynchSynchMode(b) ELSE b

\* The agents action() may leave, one for each wish of the view action.
Decided(a) ==
  LET b == BeforeActions(a)
  IN {[ExecuteView(b, w) EXCEPT !.lastDecision = a.now] : w \in ViewWishes(b)}

-----------------------------------------------------------------------------
(* The server and the network.                                             *)

NewServer == [view |-> View("NORMAL", "HIGH"), looks |-> 0, lastSee |-> 0]

Init ==
  /\ conf \in Confs
  /\ clock \in 0..(UnitsPerCycle * Cycles - 1)
  /\ srv = NewServer
  /\ thought = FALSE
  /\ net = <<>>
  /\ lost = 0
  /\ playOn = FALSE
  /\ ag = NewAgent

\* The change_views of one step reach the server; it keeps the last that does.
Deliver(a) ==
  /\ ag' = [a EXCEPT !.out = <<>>]
  /\ \/ /\ srv' = [srv EXCEPT !.view = IF a.out = <<>> THEN @ ELSE a.out[Len(a.out)]]
        /\ UNCHANGED lost
     \/ /\ a.out # <<>> /\ lost < conf.maxLost
        /\ lost' = lost + 1
        /\ srv' = [srv EXCEPT !.view = IF Len(a.out) = 1 THEN @ ELSE a.out[Len(a.out) - 1]]

Aged(a) == [a EXCEPT !.bodyAge = IF @ = -1 \/ @ = MaxAge THEN @ ELSE @ + 1]

\* The server's clock advances once every message of the unit is handled.
Tick ==
  LET u == (clock + 1) % (UnitsPerCycle * Cycles)
      look == u % UnitsPerLook = 0
      due == look /\ srv.looks + 1 >= LooksPerSee(srv.view)
      sense == IF OffsetOf(u) = 0 THEN <<SenseMsg(u, srv.view)>> ELSE <<>>
      see == IF due THEN <<SeeMsg(u)>> ELSE <<>>
  IN /\ net = <<>>
     /\ conf.synch /\ OffsetOf(clock) = 4 => thought
     /\ clock' = u
     /\ thought' = FALSE
     /\ srv' = [srv EXCEPT !.looks = IF due THEN 0 ELSE IF look THEN @ + 1 ELSE @,
                           !.lastSee = IF due THEN OffsetOf(u) ELSE @]
     /\ \/ net' = sense \o see
        \/ conf.reorder /\ net' = see \o sense
     /\ ag' = Aged(ag)
     /\ UNCHANGED <<conf, lost, playOn>>

Lose ==
  /\ net # <<>> /\ lost < conf.maxLost
  /\ net' = Tail(net)
  /\ lost' = lost + 1
  /\ UNCHANGED <<conf, clock, srv, thought, playOn, ag>>

Referee ==
  /\ conf.playOnAllowed
  /\ playOn' = ~playOn
  /\ UNCHANGED <<conf, clock, srv, thought, net, lost, ag>>

-----------------------------------------------------------------------------
(* The client loop.                                                        *)

\* The agent once n of the waiting messages are read.
Drained(n) ==
  LET first == {Analyze(ag, net[1])}
  IN IF n = 1 THEN first ELSE {Analyze(a, net[2]) : a \in first}

\* handleMessage drains one or both waiting messages, then may decide.
HandleMessage ==
  /\ net # <<>>
  /\ \E n \in 1..Len(net) : \E a \in Drained(n) :
       /\ \E b \in IF DecidesOnMessage(a) THEN Decided(a) ELSE {a} : Deliver(b)
       /\ net' = SubSeq(net, n + 1, Len(net))
  /\ UNCHANGED <<conf, clock, thought, playOn>>

\* A timeout of select() falls anywhere in the unit.
HandleTimeout ==
  /\ net = <<>> /\ ag.bodyAge >= 0
  /\ \E msec \in {(25 * ag.bodyAge) \div 2, (25 * ag.bodyAge + 24) \div 2}, n \in {1, 3} :
       IsDecisionTiming(ag, ag.see, msec, n)
  /\ \E b \in Decided(ag) : Deliver(b)
  /\ UNCHANGED <<conf, clock, thought, net, playOn>>

\* Synch mode: 60 ms after the sense_body, and the server waits for the answer.
Think ==
  /\ conf.synch /\ ~thought /\ OffsetOf(clock) = 4 /\ net = <<>>
  /\ thought' = TRUE
  /\ \E b \in Decided(ag) : Deliver(b)
  /\ UNCHANGED <<conf, clock, net, playOn>>

Next == Tick \/ Lose \/ Referee \/ HandleMessage \/ HandleTimeout \/ Think

Spec == Init /\ [][Next]_vars

\* The server's clock runs, the client handles what arrives, the server thinks.
Fairness == WF_vars(Tick) /\ WF_vars(HandleMessage) /\ WF_vars(Think)

FairSpec == Spec /\ Fairness

-----------------------------------------------------------------------------
(* Properties.                                                             *)

Agents ==
  [now : GameTimes, lastDecision : GameTimes, seeTime : GameTimes, senseTime : GameTimes,
   bodyAge : -1..MaxAge, seeLag : -1..MaxAge, view : Views, see : SeeStates, out : {<<>>}]

\* Type invariant.
TypeOK ==
  /\ conf \in Confs
  /\ clock \in 0..(UnitsPerCycle * Cycles - 1)
  /\ srv \in [view : Views, looks : 0..7, lastSee : 0..(UnitsPerCycle - 1)]
  /\ thought \in BOOLEAN /\ playOn \in BOOLEAN
  /\ net \in {<<>>} \cup [{1} -> [type : {"see"}, cycle : Nat]
                               \cup [type : {"sense_body"}, cycle : Nat, view : Views]]
                   \cup [1..2 -> [type : {"see"}, cycle : Nat]
                               \cup [type : {"sense_body"}, cycle : Nat, view : Views]]
  /\ lost \in 0..conf.maxLost
  /\ ag \in Agents

\* Units after the sense_body at which a see of each timing arrives: 0, 50 and
\* "about 30 ms" (two units, 25 ms).
TimingOffset == [TIME_0_00 |-> 0, TIME_50_0 |-> 4, TIME_22_5 |-> 2]

\* Quiet: no play_on, no loss.  Calm: and a see overtakes its sense_body only while
\* the cycle number tells to which cycle it belongs, so that the belief can be exact.
Quiet == ~conf.playOnAllowed /\ conf.maxLost = 0
Calm == Quiet /\ ~(conf.stopped /\ conf.reorder)
CalmViewSynch == Calm /\ conf.view = "View_Synch"

\* The phase of the server's see clock that SeeState believes in is the real
\* one: while synchronized, the last see came when M_last_timing says, whatever
\* widths the view action wishes.  The client sees only counts per cycle and its
\* own commands.
TimingTracksServer ==
  Calm /\ net = <<>> /\ ag.see.timing \in SynchTimings =>
    srv.lastSee = TimingOffset[ag.see.timing]

\* A see that overtakes its sense_body on a stopped clock counts for the cycle before, and
\* the pattern of counts may then appear one look late.  The phase is never wrong by
\* more than that, one unit, and the longer pattern of synch mode is not misled at all.
PhaseIsClose ==
  Quiet /\ net = <<>> /\ ag.see.timing \in SynchTimings =>
    srv.lastSee - TimingOffset[ag.see.timing] \in IF conf.synch THEN {0} ELSE {0, 1}

\* cyclesTillNextSee() is an estimate that comes true: while synchronized, no
\* see arrives in a cycle that was to have none, and no cycle that was to
\* have one ends without it.
EstimateComesTrue ==
  CalmViewSynch /\ IsSynch(ag.see) =>
    /\ \A i \in 1..Len(net) : net[i].type = "see" => SetNewCycle(ag.see, TimeOf(clock)).till = 0
    /\ net = <<>> /\ OffsetOf(clock) = UnitsPerCycle - 1 => ag.see.till > 0

\* A see waits before its sense_body, and its cycle number says nothing.
Overtaken == conf.stopped /\ Len(net) = 2 /\ net[1].type = "see"

\* The view action View_Synch never loses the synchronization it lives on; only a see that
\* overtakes its sense_body on a stopped clock, the second one of the old time, may end it.
SynchIsKept ==
  [][Quiet /\ conf.view = "View_Synch" /\ IsSynch(ag.see) /\ ~Overtaken => IsSynch(ag'.see)]_vars

\* While synchronized by View_Synch, every cycle brings a see: the agent never
\* ends a cycle without visual information, not even in a phase that is not quite right.
SeeInEveryCycle ==
  /\ Quiet /\ conf.view = "View_Synch" /\ IsSynch(ag.see)
  /\ net = <<>> /\ OffsetOf(clock) = UnitsPerCycle - 1
  => ag.seeTime = TimeOf(clock)

\* Stoppages are for adjusting: if the game stays out of play_on, an agent with the
\* view action View_Synch finds the phase of the see clock, again and again if
\* messages are lost.
SynchIsFound ==
  conf.view = "View_Synch" /\ ~(conf.stopped /\ conf.reorder) /\ <>[]~playOn => <>[]IsSynch(ag.see)
===============================================================================
