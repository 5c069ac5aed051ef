------------------------------ MODULE PlayerAgent ------------------------------
(***************************************************************************)
(* The message loop of a player and its clock: OnlineClient::run,          *)
(* PlayerAgent::handleMessage and handleTimeout, the message handlers of   *)
(* PlayerAgent::Impl as far as they move the game time, and action() as    *)
(* far as it decides that the time is used up (player_agent.cpp).          *)
(*                                                                         *)
(* The server and the socket are external.  The server has two clocks, a   *)
(* cycle number that advances in running modes and a step that always      *)
(* does; messages carry the cycle only, and the client reconstructs its    *)
(* game time from them.  What SeeState believes is arbitrary here          *)
(* (SeeVerdicts); module SeeSync is about it.                              *)
(***************************************************************************)
EXTENDS DecisionTiming

CONSTANTS
  IntervalMSec,  \* PlayerConfig::intervalMSec(): timeout of select()
  ServerWait,    \* PlayerConfig::serverWaitSeconds(), in timeouts
  SeeVerdicts,   \* the SeeState records a decision may find
  MaxCycle,      \* bound: last cycle of the game
  MaxStep,       \* bound: last step of the server
  MaxNet,        \* bound: datagrams in the socket
  MaxExtra,      \* bound: messages of a step besides sense_body and think
  MaxFaults      \* bound: datagrams lost or duplicated

ASSUME PlayerAgentAssumption ==
  /\ IntervalMSec \in Nat \ {0} /\ ServerWait \in Nat
  /\ SeeVerdicts \subseteq SeeStates
  /\ MaxCycle \in Nat /\ MaxStep \in Nat /\ MaxNet \in Nat /\ MaxExtra \in Nat
  /\ MaxFaults \in Nat

VARIABLES
  srv,     \* server: cycle, step, mode, extra messages sent in this step, and in
           \* synch mode where the step stands
  net,     \* the datagrams waiting in the client's socket, in order
  faults,  \* how many datagrams the network lost or duplicated
  pc,      \* client loop: "select", "drain" (inside handleMessage), "exit"
  ag,      \* the agent
  hist     \* history, read by properties only: stops, the cycles in which the client
           \* took the clock for stopped; actStep, the server's step of the last
           \* action(); turn, flipped by every action(); announced, whether the
           \* referee has spoken in this step

vars == <<srv, net, faults, pc, ag, hist>>

\* One mode for each class of GameMode the agent's clock tells apart.
GameModes == {"before_kick_off", "play_on", "time_over"}
IsServerCycleStoppedMode(m) == m = "before_kick_off"
IsGameEndMode(m) == m = "time_over"

Kinds == {"init", "sense_body", "see", "hear", "referee", "think"}
Messages == [kind : Kinds, cycle : Nat, mode : GameModes]

\* Timeouts after which more of them change nothing.
MaxTimeouts == ServerWait + 3

Message(kind) == [kind |-> kind, cycle |-> srv.cycle, mode |-> srv.mode]

\* A datagram is put into the socket once; a fault loses or doubles it.
Send(m) ==
  /\ Len(net) < MaxNet
  /\ \/ net' = Append(net, m) /\ UNCHANGED faults
     \/ /\ faults < MaxFaults
        /\ faults' = faults + 1
        /\ net' \in {net, Append(Append(net, m), m)}

-----------------------------------------------------------------------------
(* The agent's handlers.                                                   *)

NewAgent ==
  [now |-> Time(0, 0), lastDecision |-> NoTime, seeTime |-> NoTime, senseTime |-> NoTime,
   stopped |-> TRUE, think |-> FALSE, unumKnown |-> FALSE, alive |-> TRUE,
   age |-> -1, timeouts |-> 0]

\* Mutants: the message's cycle is taken for the one that ended; every message of
\* a stopped clock advances the time.
MutUpdateCurrentTime(a, c, bySenseBody) ==
  [a EXCEPT !.now = IF ~a.stopped \/ c # @.cycle THEN Time(c - 1, 0)
                    ELSE IF bySenseBody THEN Time(c, @.stopped + 1)
                    ELSE @]
MutUpdateByAnyMessage(a, c, bySenseBody) ==
  [a EXCEPT !.now = IF ~a.stopped \/ c # @.cycle THEN Time(c, 0)
                    ELSE Time(c, @.stopped + 1)]

\* On a stopped clock only a sense_body proves that time has passed.
UpdateCurrentTime(a, c, bySenseBody) ==
  [a EXCEPT !.now = IF ~a.stopped \/ c # @.cycle THEN Time(c, 0)
                    ELSE IF bySenseBody THEN Time(c, @.stopped + 1)
                    ELSE @]

UpdateServerStatus(a, mode) == [a EXCEPT !.stopped = IsServerCycleStoppedMode(mode)]

AnalyzeInit(a, m) == [UpdateServerStatus(a, m.mode) EXCEPT !.unumKnown = TRUE]

AnalyzeSenseBody(a, m) ==
  LET b == UpdateCurrentTime(a, m.cycle, TRUE)
  IN [b EXCEPT !.senseTime = b.now, !.age = 0]

AnalyzeSee(a, m) ==
  LET b == UpdateCurrentTime(a, m.cycle, FALSE)
  IN [b EXCEPT !.seeTime = b.now]

\* The message of a player or a coach, or a fullstate.
AnalyzeHear(a, m) == UpdateCurrentTime(a, m.cycle, FALSE)

\* The end of the game is answered with (bye), which closes the loop.
AnalyzeHearReferee(a, m) ==
  LET b == UpdateServerStatus(UpdateCurrentTime(a, m.cycle, FALSE), m.mode)
  IN [b EXCEPT !.alive = @ /\ ~IsGameEndMode(m.mode)]

Parse(a, m) ==
  CASE m.kind = "init"       -> AnalyzeInit(a, m)
    [] m.kind = "sense_body" -> AnalyzeSenseBody(a, m)
    [] m.kind = "see"        -> AnalyzeSee(a, m)
    [] m.kind = "hear"       -> AnalyzeHear(a, m)
    [] m.kind = "referee"    -> AnalyzeHearReferee(a, m)
    [] m.kind = "think"      -> [a EXCEPT !.think = TRUE]

-----------------------------------------------------------------------------
(* The server.                                                             *)

Init ==
  /\ srv = [cycle |-> 0, step |-> 0, mode |-> "before_kick_off", extra |-> 0,
            phase |-> "done"]
  /\ \/ net = <<Message("init")>> /\ faults = 0
     \/ net = <<>> /\ faults = 1 /\ MaxFaults > 0
  /\ pc = "select"
  /\ ag = NewAgent
  /\ hist = [stops |-> {0}, actStep |-> 0, turn |-> 0, announced |-> FALSE]

\* A new step; the cycle number advances unless the mode stops the clock.
NewStep ==
  LET c == IF IsServerCycleStoppedMode(srv.mode) THEN srv.cycle ELSE srv.cycle + 1
  IN /\ ~IsGameEndMode(srv.mode)
     /\ SynchMode => srv.phase = "done"
     /\ srv.step < MaxStep /\ c <= MaxCycle
     /\ srv' = [srv EXCEPT !.cycle = c, !.step = @ + 1, !.extra = 0, !.phase = "sensed"]
     /\ Send([kind |-> "sense_body", cycle |-> c, mode |-> srv.mode])
     /\ hist' = [hist EXCEPT !.announced = FALSE]
     /\ UNCHANGED <<pc, ag>>

\* A see, or the message of a player or a coach.
SendSensory ==
  /\ srv.step > 0 /\ srv.extra < MaxExtra
  /\ srv' = [srv EXCEPT !.extra = @ + 1]
  /\ \E kind \in {"see", "hear"} : Send(Message(kind))
  /\ UNCHANGED <<pc, ag, hist>>

\* The referee changes the play mode at any moment of a step.
Announce ==
  /\ ~IsGameEndMode(srv.mode) /\ srv.extra < MaxExtra
  /\ \E m \in GameModes \ {srv.mode} :
       /\ srv' = [srv EXCEPT !.mode = m, !.extra = @ + 1]
       /\ Send([kind |-> "referee", cycle |-> srv.cycle, mode |-> m])
  /\ hist' = [hist EXCEPT !.announced = TRUE]
  /\ UNCHANGED <<pc, ag>>

\* Synch mode: one (think) in a step, then the server waits for the commands.
SendThink ==
  /\ SynchMode /\ srv.phase = "sensed"
  /\ srv' = [srv EXCEPT !.phase = "thinking"]
  /\ Send(Message("think"))
  /\ UNCHANGED <<pc, ag, hist>>

\* Mutant: the (think) that was answered is kept.
MutAct(a) ==
  /\ ag' = [a EXCEPT !.lastDecision = a.now]
  /\ srv' = [srv EXCEPT !.phase = IF @ = "thinking" THEN "done" ELSE @]
  /\ hist' = [hist EXCEPT !.actStep = srv.step, !.turn = 1 - @]

\* action() sends the commands of the current time to the server.
Act(a) ==
  /\ ag' = [a EXCEPT !.lastDecision = a.now, !.think = FALSE]
  /\ srv' = [srv EXCEPT !.phase = IF @ = "thinking" THEN "done" ELSE @]
  /\ hist' = [hist EXCEPT !.actStep = srv.step, !.turn = 1 - @]

-----------------------------------------------------------------------------
(* The client loop.                                                        *)

NoteStop ==
  hist' = [hist EXCEPT !.stops = IF ag'.stopped THEN @ \cup {ag'.now.cycle} ELSE @]

\* handleMessage receives and parses until the socket is empty.
ReceiveMessage ==
  /\ pc \in {"select", "drain"} /\ net # <<>>
  /\ pc = "select" => ag.alive
  /\ pc' = "drain"
  /\ net' = Tail(net)
  /\ \E aging \in {0, 1} :
       ag' = [Parse(ag, Head(net)) EXCEPT
                !.timeouts = 0,
                !.age = IF @ = -1 \/ @ + aging > MaxTimeouts THEN @ ELSE @ + aging]
  /\ NoteStop
  /\ UNCHANGED <<srv, faults>>

\* Mutant: (think) is not acted upon.
MutMustAct(a) == DecidesOnMessage(a)

MustAct(a) == a.think \/ DecidesOnMessage(a)

\* The end of handleMessage.
EndOfMessages ==
  /\ pc = "drain" /\ net = <<>>
  /\ pc' = "select"
  /\ IF MustAct(ag) THEN Act(ag) ELSE UNCHANGED <<ag, srv, hist>>
  /\ UNCHANGED <<net, faults>>

\* Mutant: seconds are compared with milliseconds.
MutServerDown(a) == IntervalMSec * a.timeouts > 1000 * ServerWait * IntervalMSec

\* The waiting time has passed the limit.
ServerDown(a) == a.timeouts > ServerWait

\* A timeout of select(): the server is down, it is time to decide, or neither.
HandleTimeout ==
  /\ pc = "select" /\ net = <<>> /\ ag.alive
  /\ LET a == [ag EXCEPT !.timeouts = IF @ = MaxTimeouts THEN @ ELSE @ + 1,
                         !.age = IF @ = -1 \/ @ = MaxTimeouts THEN @ ELSE @ + 1]
     IN IF ServerDown(a)
        THEN ag' = [a EXCEPT !.alive = FALSE] /\ UNCHANGED <<srv, hist>>
        ELSE \E s \in SeeVerdicts :
               IF a.unumKnown /\ IsDecisionTiming(a, s, IntervalMSec * a.age, a.timeouts)
               THEN Act(a) ELSE ag' = a /\ UNCHANGED <<srv, hist>>
  /\ UNCHANGED <<net, faults, pc>>

\* The loop ends when the server is not alive; handleExit has nothing to send.
Exit ==
  /\ pc = "select" /\ ~ag.alive
  /\ pc' = "exit"
  /\ UNCHANGED <<srv, net, faults, ag, hist>>

Client == ReceiveMessage \/ EndOfMessages \/ HandleTimeout \/ Exit
Server == NewStep \/ SendSensory \/ Announce \/ SendThink

Next == Client \/ Server

Spec == Init /\ [][Next]_vars

\* The client process runs; nothing is assumed of the server.
FairSpec == Spec /\ WF_vars(Client)

-----------------------------------------------------------------------------
(* Properties.                                                             *)

Agents ==
  [now : [cycle : Nat, stopped : Nat], lastDecision : GameTimes, seeTime : GameTimes,
   senseTime : GameTimes, stopped : BOOLEAN, think : BOOLEAN, unumKnown : BOOLEAN,
   alive : BOOLEAN, age : -1..MaxTimeouts, timeouts : 0..MaxTimeouts]

Servers ==
  [cycle : Nat, step : Nat, mode : GameModes, extra : Nat,
   phase : {"sensed", "thinking", "done"}]

Histories == [stops : SUBSET Nat, actStep : Nat, turn : {0, 1}, announced : BOOLEAN]

\* Type invariant.
TypeOK ==
  /\ srv \in Servers
  /\ net \in Seq(Messages)
  /\ faults \in Nat
  /\ pc \in {"select", "drain", "exit"}
  /\ ag \in Agents
  /\ hist \in Histories

\* A step in which action() runs.
Decides == hist'.turn # hist.turn

\* The client's cycle number never goes back, whatever is lost, doubled or late.
CycleNeverGoesBack == [][ag.now.cycle <= ag'.now.cycle]_vars

\* Without (think), isDecisionTiming and handleMessage keep the agent from deciding
\* twice in one cycle of a running clock: a decision in a cycle in which the clock never was
\* stopped is the first one of that cycle.
OneDecisionPerRunningCycle ==
  [][Decides /\ ~SynchMode /\ ag'.now.cycle \notin hist.stops =>
       ag.lastDecision.cycle < ag'.lastDecision.cycle]_vars

\* While the network delivers every datagram once, a step gets a second decision
\* only if the referee spoke in that step.
SecondDecisionNeedsReferee ==
  [][Decides /\ faults = 0 /\ srv.step = hist.actStep => hist.announced]_vars

\* A cycle whose sense_body has arrived is decided once both waiting thresholds
\* have passed without a message, whatever SeeState believes.
DeadlineIsMet ==
  /\ pc = "select" /\ ~SynchMode /\ ag.unumKnown /\ ag.alive
  /\ ag.timeouts > 2 /\ ag.age >= 0
  /\ IntervalMSec * ag.age >= WaitThrSynchView
  /\ IntervalMSec * ag.age >= WaitThrNoSynchView
  => ag.lastDecision = ag.now

\* Synch mode: a (think) sent to a living agent is answered with commands, unless
\* the game ends: the server does not wait for it until the timeout of the client.
ThinkIsAnswered ==
  srv.phase = "thinking" /\ ag.alive ~> srv.phase = "done" \/ IsGameEndMode(srv.mode)

\* The server falls silent after MaxStep steps at the latest; the client then
\* notices and ends.
ServerDownIsNoticed == <>(pc = "exit")

\* The loop keeps the promise that the senders of commands rely on (Turns), whatever
\* the server and the network do: time grows, one decision in a cycle unless the clock
\* stood still or the server asked, none after the end.
Turn == INSTANCE Turns WITH
  OnRequest <- SynchMode, cycle <- ag.now.cycle, decided <- ag.lastDecision.cycle,
  repeatable <- hist.stops, over <- (pc = "exit"), turn <- hist.turn

TakesTurns == Turn!Spec
=============================================================================
