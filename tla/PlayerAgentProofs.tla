--------------------------- MODULE PlayerAgentProofs ---------------------------
(***************************************************************************)
(* Theorems about PlayerAgent, for every value of its constants: type      *)
(* correctness, the cycle number that never goes back, at most one         *)
(* decision in a cycle of a running clock, a decision past the waiting     *)
(* thresholds, the turns that the loop promises to the effector, and at    *)
(* most one decision in a step of the server, stopped or not, unless the   *)
(* referee speaks in it.                                                   *)
(***************************************************************************)
EXTENDS PlayerAgent, TLAPS

ClientTimes == [cycle : Nat, stopped : Nat]

\* The socket holds the server's cycle numbers in order, none of them older
\* than the client's: what the client's clock relies on.
Fifo ==
  /\ ag.now.cycle <= srv.cycle
  /\ \A i \in 1..Len(net) : ag.now.cycle <= net[i].cycle /\ net[i].cycle <= srv.cycle
  /\ \A i, j \in 1..Len(net) : i < j => net[i].cycle <= net[j].cycle

\* In a cycle without a stop the game time is the cycle number, so that
\* last_decision_time_ # current_time_ means that the cycle is undecided.
RunningClock ==
  /\ ag.lastDecision.cycle <= ag.now.cycle
  /\ ag.now.cycle \notin hist.stops =>
       /\ ~ag.stopped /\ ag.now.stopped = 0
       /\ ag.lastDecision.cycle = ag.now.cycle => ag.lastDecision = ag.now

\* Outside synch mode nobody sends (think).
NoThink ==
  ~SynchMode => ~ag.think /\ \A i \in 1..Len(net) : net[i].kind # "think"

\* While a batch of messages is read the count of timeouts is zero.
NoTimeoutInBatch == pc = "drain" => ag.timeouts = 0

\* The inductive invariant.
IInv == TypeOK /\ Fifo /\ RunningClock /\ NoThink /\ NoTimeoutInBatch

-----------------------------------------------------------------------------

LEMMA ClientTimesAreGameTimes == ClientTimes \subseteq GameTimes
BY DEF ClientTimes, GameTimes

LEMMA UpdateType ==
  ASSUME NEW a \in Agents, NEW c \in Nat, NEW s \in BOOLEAN
  PROVE  /\ UpdateCurrentTime(a, c, s) \in Agents
         /\ UpdateCurrentTime(a, c, s) =
              [a EXCEPT !.now = UpdateCurrentTime(a, c, s).now]
         /\ UpdateCurrentTime(a, c, s).now \in ClientTimes
BY DEF UpdateCurrentTime, Agents, Time, ClientTimes

LEMMA ParseType ==
  ASSUME NEW a \in Agents, NEW m \in Messages
  PROVE  Parse(a, m) \in Agents
<1>1. m.cycle \in Nat /\ m.kind \in Kinds /\ m.mode \in GameModes
  BY DEF Messages
<1>2. CASE m.kind = "init"
  BY <1>1, <1>2 DEF Parse, AnalyzeInit, UpdateServerStatus, IsServerCycleStoppedMode, Agents
<1>3. CASE m.kind = "sense_body"
  <2>1. UpdateCurrentTime(a, m.cycle, TRUE) \in Agents
    BY <1>1, UpdateType
  <2>2. UpdateCurrentTime(a, m.cycle, TRUE).now \in GameTimes
    BY <1>1, UpdateType, ClientTimesAreGameTimes, Zenon
  <2> HIDE DEF UpdateCurrentTime
  <2>3. 0 \in -1..MaxTimeouts
    BY PlayerAgentAssumption DEF MaxTimeouts
  <2> QED
    BY <1>3, <2>1, <2>2, <2>3 DEF Parse, AnalyzeSenseBody, Agents
<1>4. CASE m.kind = "see"
  <2>1. UpdateCurrentTime(a, m.cycle, FALSE) \in Agents
    BY <1>1, UpdateType
  <2>2. UpdateCurrentTime(a, m.cycle, FALSE).now \in GameTimes
    BY <1>1, UpdateType, ClientTimesAreGameTimes, Zenon
  <2> QED
    BY <1>4, <2>1, <2>2 DEF Parse, AnalyzeSee, Agents
<1>5. CASE m.kind = "hear"
  BY <1>1, <1>5, UpdateType DEF Parse, AnalyzeHear
<1>6. CASE m.kind = "referee"
  <2>1. UpdateCurrentTime(a, m.cycle, FALSE) \in Agents
    BY <1>1, UpdateType
  <2> QED
    BY <1>6, <2>1 DEF Parse, AnalyzeHearReferee, UpdateServerStatus,
         IsServerCycleStoppedMode, IsGameEndMode, Agents
<1>7. CASE m.kind = "think"
  BY <1>7 DEF Parse, Agents
<1> QED
  BY <1>1, <1>2, <1>3, <1>4, <1>5, <1>6, <1>7 DEF Kinds

\* What a message does to the clock: with cycle numbers in order, the client's
\* follows; on a running clock the time is the cycle number.
ClockStep(a, b, c) ==
  /\ b.now \in ClientTimes
  /\ b.lastDecision = a.lastDecision
  /\ a.now.cycle <= b.now.cycle /\ b.now.cycle <= c
  /\ b.now.cycle # a.now.cycle => b.now.stopped = 0
  /\ ~a.stopped /\ a.now.stopped = 0 => b.now.stopped = 0
  /\ b.now.stopped = 0 => b.now = Time(b.now.cycle, 0)

LEMMA UpdateClock ==
  ASSUME NEW a \in Agents, NEW c \in Nat, NEW s \in BOOLEAN, a.now.cycle <= c
  PROVE  ClockStep(a, UpdateCurrentTime(a, c, s), c)
BY DEF ClockStep, UpdateCurrentTime, Agents, Time, ClientTimes

LEMMA ParseClock ==
  ASSUME NEW a \in Agents, NEW m \in Messages, a.now.cycle <= m.cycle
  PROVE  ClockStep(a, Parse(a, m), m.cycle)
<1>1. m.cycle \in Nat /\ m.kind \in Kinds
  BY DEF Messages
<1> DEFINE upT == UpdateCurrentTime(a, m.cycle, TRUE)
           upF == UpdateCurrentTime(a, m.cycle, FALSE)
<1>2. upT \in Agents /\ ClockStep(a, upT, m.cycle)
  BY <1>1, UpdateType, UpdateClock
<1>3. upF \in Agents /\ ClockStep(a, upF, m.cycle)
  BY <1>1, UpdateType, UpdateClock
<1>4. CASE m.kind \in {"init", "think"}
  BY <1>1, <1>4 DEF Parse, AnalyzeInit, UpdateServerStatus, ClockStep, Agents, Time, ClientTimes
<1>5. CASE m.kind = "sense_body"
  <2>1. Parse(a, m) = [upT EXCEPT !.senseTime = upT.now, !.age = 0]
    BY <1>5 DEF Parse, AnalyzeSenseBody
  <2> QED
    BY <1>2, <2>1 DEF ClockStep, Agents
<1>6. CASE m.kind = "see"
  <2>1. Parse(a, m) = [upF EXCEPT !.seeTime = upF.now]
    BY <1>6 DEF Parse, AnalyzeSee
  <2> QED
    BY <1>3, <2>1 DEF ClockStep, Agents
<1>7. CASE m.kind = "hear"
  BY <1>3, <1>7 DEF Parse, AnalyzeHear
<1>8. CASE m.kind = "referee"
  <2>1. Parse(a, m) = [UpdateServerStatus(upF, m.mode) EXCEPT
                         !.alive = @ /\ ~IsGameEndMode(m.mode)]
    BY <1>8 DEF Parse, AnalyzeHearReferee
  <2> QED
    BY <1>3, <2>1 DEF ClockStep, UpdateServerStatus, Agents
<1> QED
  BY <1>1, <1>4, <1>5, <1>6, <1>7, <1>8 DEF Kinds

-----------------------------------------------------------------------------
(* Type correctness.                                                       *)

LEMMA SendType ==
  ASSUME NEW m \in Messages, net \in Seq(Messages), faults \in Nat, Send(m)
  PROVE  net' \in Seq(Messages) /\ faults' \in Nat
BY DEF Send

LEMMA OneMessage == ASSUME NEW m \in Messages PROVE <<m>> \in Seq(Messages)
OBVIOUS

LEMMA TypeInit == Init => TypeOK
<1> SUFFICES ASSUME Init PROVE TypeOK
  OBVIOUS
<1>1. srv \in Servers
  BY DEF Init, GameModes, Servers
<1>2. net \in Seq(Messages) /\ faults \in Nat
  <2>1. Message("init") \in Messages
    BY <1>1 DEF Message, Messages, Kinds, GameModes, Servers
  <2>2. <<Message("init")>> \in Seq(Messages)
    BY <2>1, OneMessage
  <2>3. <<>> \in Seq(Messages)
    OBVIOUS
  <2>4. net = <<Message("init")>> \/ net = <<>>
    BY DEF Init
  <2>5. net \in Seq(Messages)
    BY <2>2, <2>3, <2>4, Zenon
  <2> QED
    BY <2>5 DEF Init
<1>3. ag \in Agents
  BY PlayerAgentAssumption DEF Init, NewAgent, Agents, GameTimes, NoTime, Time, MaxTimeouts
<1>4. hist \in Histories
  BY DEF Init, Histories
<1> QED
  BY <1>1, <1>2, <1>3, <1>4 DEF Init, TypeOK

LEMMA ActType ==
  ASSUME srv \in Servers, hist \in Histories, NEW a \in Agents, Act(a)
  PROVE  ag' \in Agents /\ srv' \in Servers /\ hist' \in Histories
<1>1. a.now \in GameTimes
  BY DEF Agents, GameTimes
<1>2. ag' \in Agents
  BY <1>1 DEF Act, Agents
<1>3. srv' \in Servers
  BY DEF Act, Servers
<1>4. hist' \in Histories
  <2>1. hist.turn \in {0, 1} /\ srv.step \in Nat
    BY DEF Histories, Servers
  <2>2. 1 - hist.turn \in {0, 1}
    BY <2>1
  <2>3. hist' = [hist EXCEPT !.actStep = srv.step, !.turn = 1 - hist.turn]
    BY DEF Act, Histories
  <2> QED
    BY <2>1, <2>2, <2>3 DEF Histories
<1> QED
  BY <1>2, <1>3, <1>4

LEMMA TimersType ==
  ASSUME NEW a \in Agents, NEW t \in 0..MaxTimeouts, NEW g \in -1..MaxTimeouts
  PROVE  [a EXCEPT !.timeouts = t, !.age = g] \in Agents
BY DEF Agents

LEMMA TimeoutType ==
  ASSUME NEW a \in Agents
  PROVE  [a EXCEPT !.timeouts = IF @ = MaxTimeouts THEN @ ELSE @ + 1,
                   !.age = IF @ = -1 \/ @ = MaxTimeouts THEN @ ELSE @ + 1] \in Agents
<1> DEFINE t == IF a.timeouts = MaxTimeouts THEN a.timeouts ELSE a.timeouts + 1
           g == IF a.age = -1 \/ a.age = MaxTimeouts THEN a.age ELSE a.age + 1
<1>1. MaxTimeouts \in Nat
  BY PlayerAgentAssumption DEF MaxTimeouts
<1>2. a.timeouts \in 0..MaxTimeouts /\ a.age \in -1..MaxTimeouts
  BY DEF Agents
<1>3. t \in 0..MaxTimeouts /\ g \in -1..MaxTimeouts
  BY <1>1, <1>2
<1>4. [a EXCEPT !.timeouts = t, !.age = g] \in Agents
  BY <1>3, TimersType
<1>5. QED
  BY <1>4 DEF Agents

LEMMA AgingType ==
  ASSUME NEW a \in Agents, NEW aging \in {0, 1}
  PROVE  [a EXCEPT !.timeouts = 0,
                   !.age = IF @ = -1 \/ @ + aging > MaxTimeouts THEN @ ELSE @ + aging] \in Agents
<1> DEFINE g == IF a.age = -1 \/ a.age + aging > MaxTimeouts THEN a.age ELSE a.age + aging
<1>1. MaxTimeouts \in Nat
  BY PlayerAgentAssumption DEF MaxTimeouts
<1>2. a.age \in -1..MaxTimeouts
  BY DEF Agents
<1>3. 0 \in 0..MaxTimeouts /\ g \in -1..MaxTimeouts
  BY <1>1, <1>2
<1>4. [a EXCEPT !.timeouts = 0, !.age = g] \in Agents
  BY <1>3, TimersType
<1>5. QED
  BY <1>4 DEF Agents

LEMMA TypeNext == TypeOK /\ [Next]_vars => TypeOK'
<1> SUFFICES ASSUME TypeOK, [Next]_vars PROVE TypeOK'
  OBVIOUS
<1> USE DEF TypeOK
<1>1. ASSUME ReceiveMessage PROVE TypeOK'
  <2>1. net \in Seq(Messages) /\ net # <<>>
    BY <1>1 DEF ReceiveMessage
  <2>2. Head(net) \in Messages /\ Tail(net) \in Seq(Messages)
    BY <2>1
  <2>3. Parse(ag, Head(net)) \in Agents
    BY <2>2, ParseType
  <2>4. ag' \in Agents
    BY <1>1, <2>3, AgingType DEF ReceiveMessage
  <2>5. hist' \in Histories
    BY <1>1, <2>4 DEF ReceiveMessage, NoteStop, Histories, Agents
  <2> QED
    BY <1>1, <2>2, <2>4, <2>5 DEF ReceiveMessage
<1>2. ASSUME EndOfMessages PROVE TypeOK'
  BY <1>2, ActType DEF EndOfMessages
<1>3. ASSUME HandleTimeout PROVE TypeOK'
  <2> DEFINE a == [ag EXCEPT !.timeouts = IF @ = MaxTimeouts THEN @ ELSE @ + 1,
                             !.age = IF @ = -1 \/ @ = MaxTimeouts THEN @ ELSE @ + 1]
  <2>1. a \in Agents
    BY TimeoutType
  <2>2. UNCHANGED <<net, faults, pc>>
    BY <1>3 DEF HandleTimeout
  <2>3. \/ ag' = [a EXCEPT !.alive = FALSE] /\ UNCHANGED <<srv, hist>>
        \/ Act(a)
        \/ ag' = a /\ UNCHANGED <<srv, hist>>
    BY <1>3 DEF HandleTimeout
  <2> HIDE DEF a
  <2>4. CASE ag' = [a EXCEPT !.alive = FALSE] /\ UNCHANGED <<srv, hist>>
    <3>1. ag' \in Agents
      BY <2>1, <2>4 DEF Agents
    <3> QED
      BY <2>2, <2>4, <3>1
  <2>5. CASE Act(a)
    BY <2>1, <2>2, <2>5, ActType
  <2>6. CASE ag' = a /\ UNCHANGED <<srv, hist>>
    BY <2>1, <2>2, <2>6
  <2> QED
    BY <2>3, <2>4, <2>5, <2>6
<1>4. ASSUME Exit PROVE TypeOK'
  BY <1>4 DEF Exit
<1>5. ASSUME NewStep PROVE TypeOK'
  <2> DEFINE c == IF IsServerCycleStoppedMode(srv.mode) THEN srv.cycle ELSE srv.cycle + 1
             m == [kind |-> "sense_body", cycle |-> c, mode |-> srv.mode]
  <2>1. c \in Nat /\ m \in Messages
    BY DEF Servers, Messages, Kinds
  <2>2. Send(m)
    BY <1>5 DEF NewStep
  <2>3. srv' \in Servers
    <3>1. srv' = [srv EXCEPT !.cycle = c, !.step = srv.step + 1, !.extra = 0,
                             !.phase = "sensed"]
      BY <1>5 DEF NewStep, Servers
    <3>2. srv.step + 1 \in Nat
      BY DEF Servers
    <3> HIDE DEF c
    <3> QED
      BY <2>1, <3>1, <3>2 DEF Servers
  <2>4. net' \in Seq(Messages) /\ faults' \in Nat
    BY <2>1, <2>2, SendType
  <2>5. hist' \in Histories
    BY <1>5 DEF NewStep, Histories
  <2> QED
    BY <1>5, <2>3, <2>4, <2>5 DEF NewStep
<1>6. ASSUME SendSensory PROVE TypeOK'
  <2>1. PICK kind \in {"see", "hear"} : Send(Message(kind))
    BY <1>6 DEF SendSensory
  <2>2. Message(kind) \in Messages
    BY DEF Message, Messages, Kinds, Servers
  <2>3. net' \in Seq(Messages) /\ faults' \in Nat
    BY <2>1, <2>2, SendType
  <2>4. srv' \in Servers
    BY <1>6 DEF SendSensory, Servers
  <2> QED
    BY <1>6, <2>3, <2>4 DEF SendSensory
<1>7. ASSUME Announce PROVE TypeOK'
  <2>1. PICK m \in GameModes :
          /\ srv' = [srv EXCEPT !.mode = m, !.extra = @ + 1]
          /\ Send([kind |-> "referee", cycle |-> srv.cycle, mode |-> m])
    BY <1>7 DEF Announce
  <2>2. [kind |-> "referee", cycle |-> srv.cycle, mode |-> m] \in Messages
    BY DEF Messages, Kinds, Servers
  <2>3. net' \in Seq(Messages) /\ faults' \in Nat
    BY <2>1, <2>2, SendType
  <2>4. srv' \in Servers
    <3>1. srv.extra + 1 \in Nat
      BY DEF Servers
    <3>2. srv' = [srv EXCEPT !.mode = m, !.extra = srv.extra + 1]
      BY <2>1 DEF Servers
    <3> QED
      BY <3>1, <3>2 DEF Servers
  <2>5. hist' \in Histories
    BY <1>7 DEF Announce, Histories
  <2> QED
    BY <1>7, <2>3, <2>4, <2>5 DEF Announce
<1>8. ASSUME SendThink PROVE TypeOK'
  <2>1. Message("think") \in Messages
    BY DEF Message, Messages, Kinds, Servers
  <2>2. net' \in Seq(Messages) /\ faults' \in Nat
    BY <1>8, <2>1, SendType DEF SendThink
  <2>3. srv' \in Servers
    BY <1>8 DEF SendThink, Servers
  <2> QED
    BY <1>8, <2>2, <2>3 DEF SendThink
<1>9. CASE UNCHANGED vars
  BY <1>9 DEF vars
<1> QED
  BY <1>1, <1>2, <1>3, <1>4, <1>5, <1>6, <1>7, <1>8, <1>9 DEF Next, Client, Server

\* The types of the server, the socket, the loop and the agent are kept by
\* every step: the handlers of player_agent.cpp leave well-formed times.
THEOREM TypeCorrect == Spec => []TypeOK
<1> QED
  BY TypeInit, TypeNext, PTL DEF Spec

-----------------------------------------------------------------------------
(* The order of the messages and the clock.                                *)

LEMMA ParseKeeps ==
  ASSUME NEW a \in Agents, NEW m \in Messages
  PROVE  m.kind # "think" /\ ~a.think => ~Parse(a, m).think
<1>1. m.kind \in Kinds
  BY DEF Messages
<1> QED
  BY <1>1 DEF Kinds, Parse, AnalyzeInit, AnalyzeSenseBody, AnalyzeSee, AnalyzeHear,
       AnalyzeHearReferee, UpdateServerStatus, UpdateCurrentTime, Agents

LEMMA NetCycles ==
  ASSUME TypeOK
  PROVE  \A i \in 1..Len(net) : net[i] \in Messages /\ net[i].cycle \in Nat
<1>1. \A i \in 1..Len(net) : net[i] \in Messages
  BY DEF TypeOK
<1> QED
  BY <1>1 DEF Messages

\* A datagram that carries the server's newest cycle keeps the socket in order.
LEMMA SendOrder ==
  ASSUME TypeOK, Fifo, NoThink, NEW m \in Messages, Send(m), ag' = ag,
         srv'.cycle \in Nat, srv.cycle <= srv'.cycle, m.cycle = srv'.cycle,
         SynchMode \/ m.kind # "think"
  PROVE  Fifo' /\ NoThink'
<1>1. /\ ag.now.cycle \in Nat /\ srv.cycle \in Nat /\ m.cycle \in Nat
      /\ Len(net) \in Nat
  BY DEF TypeOK, Agents, Servers, Messages
\* Every datagram that was waiting is in the agent's past of the new one.
<1>2. /\ ag.now.cycle <= m.cycle
      /\ \A i \in 1..Len(net) :
           ag.now.cycle <= net[i].cycle /\ net[i].cycle <= m.cycle
  <2>1. \A i \in 1..Len(net) : net[i].cycle \in Nat
    BY NetCycles
  <2> QED
    BY <1>1, <2>1 DEF Fifo
\* The waiting ones keep their places; m comes after them.
<1>3. /\ Len(net') \in Nat
      /\ \A i \in 1..Len(net') :
           \/ i \in 1..Len(net) /\ net'[i] = net[i]
           \/ i > Len(net) /\ net'[i] = m
  <2>1. net \in Seq(Messages)
    BY DEF TypeOK
  <2>2. net' = net \/ net' = Append(net, m) \/ net' = Append(Append(net, m), m)
    BY DEF Send
  <2>3. CASE net' = net
    BY <2>1, <2>3
  <2>4. CASE net' = Append(net, m)
    BY <2>1, <2>4
  <2>5. CASE net' = Append(Append(net, m), m)
    <3> DEFINE n == Append(net, m)
    <3>1. n \in Seq(Messages) /\ Len(n) = Len(net) + 1
      BY <2>1
    <3>2. \A i \in 1..Len(n) : n[i] = IF i <= Len(net) THEN net[i] ELSE m
      BY <2>1
    <3> HIDE DEF n
    <3>3. /\ Len(Append(n, m)) = Len(n) + 1
          /\ \A i \in 1..Len(n) + 1 : Append(n, m)[i] = IF i <= Len(n) THEN n[i] ELSE m
      BY <3>1
    <3>4. net' = Append(n, m)
      BY <2>5 DEF n
    <3> QED
      BY <1>1, <3>1, <3>2, <3>3, <3>4
  <2> QED
    BY <2>2, <2>3, <2>4, <2>5
<1>4. ag'.now.cycle <= srv'.cycle
  BY <1>2
<1>5. \A i \in 1..Len(net') : ag'.now.cycle <= net'[i].cycle /\ net'[i].cycle <= srv'.cycle
  BY <1>1, <1>2, <1>3
<1>6. \A i, j \in 1..Len(net') : i < j => net'[i].cycle <= net'[j].cycle
  <2> SUFFICES ASSUME NEW i \in 1..Len(net'), NEW j \in 1..Len(net'), i < j
               PROVE  net'[i].cycle <= net'[j].cycle
    OBVIOUS
  <2>1. CASE i \in 1..Len(net) /\ j \in 1..Len(net)
    <3>1. net'[i] = net[i] /\ net'[j] = net[j]
      BY <1>1, <1>3, <2>1
    <3>2. net[i].cycle <= net[j].cycle
      BY <2>1 DEF Fifo
    <3> QED
      BY <3>1, <3>2
  <2>2. CASE j > Len(net)
    BY <1>1, <1>2, <1>3, <2>2
  <2> QED
    BY <1>1, <2>1, <2>2
<1>7. NoThink'
  BY <1>3 DEF NoThink
<1> QED
  BY <1>4, <1>5, <1>6, <1>7 DEF Fifo

\* A decision uses up the time and changes nothing else the clock depends on.
LEMMA ActKeeps ==
  ASSUME IInv, NEW a \in Agents, a.now = ag.now, a.stopped = ag.stopped,
         a.think => ag.think, a.timeouts = 0 \/ pc' # "drain",
         Act(a), UNCHANGED net
  PROVE  /\ Fifo' /\ RunningClock' /\ NoThink' /\ NoTimeoutInBatch'
         /\ ag'.now = ag.now /\ ag'.lastDecision = ag.now
<1> USE DEF IInv, TypeOK
<1>1. /\ ag' = [a EXCEPT !.lastDecision = a.now, !.think = FALSE]
      /\ srv'.cycle = srv.cycle /\ hist'.stops = hist.stops
  BY DEF Act, Servers, Histories
<1>2. /\ ag'.now = ag.now /\ ag'.lastDecision = ag.now /\ ag'.stopped = ag.stopped
      /\ ag'.think = FALSE /\ ag'.timeouts = a.timeouts
  BY <1>1 DEF Agents
<1>3. ag.now.cycle \in Nat
  BY DEF Agents
<1>4. Fifo'
  BY <1>1, <1>2 DEF Fifo
<1>5. RunningClock'
  BY <1>1, <1>2, <1>3 DEF RunningClock
<1> QED
  BY <1>2, <1>4, <1>5 DEF NoThink, NoTimeoutInBatch

\* What one received message does.
LEMMA ReceiveKeeps ==
  ASSUME IInv, ReceiveMessage
  PROVE  /\ Fifo' /\ RunningClock' /\ NoThink' /\ NoTimeoutInBatch'
         /\ ag.now.cycle <= ag'.now.cycle
         /\ hist'.turn = hist.turn
<1> USE DEF IInv, TypeOK
<1> DEFINE m == Head(net)
           b == Parse(ag, m)
<1>1. net \in Seq(Messages) /\ net # <<>> /\ net' = Tail(net)
  BY DEF ReceiveMessage
<1>2. m = net[1] /\ m \in Messages /\ 1 \in 1..Len(net)
  BY <1>1
<1>3. /\ Len(net') = Len(net) - 1
      /\ \A i \in 1..Len(net') : net'[i] = net[i + 1] /\ i + 1 \in 1..Len(net) /\ 1 < i + 1
  BY <1>1
<1>4. ag.now.cycle <= m.cycle /\ m.cycle <= srv.cycle
  BY <1>2 DEF Fifo
<1>5. b \in Agents /\ ClockStep(ag, b, m.cycle)
  BY <1>2, <1>4, ParseType, ParseClock
<1>6. PICK aging \in {0, 1} :
        ag' = [b EXCEPT !.timeouts = 0,
                        !.age = IF @ = -1 \/ @ + aging > MaxTimeouts THEN @ ELSE @ + aging]
  BY DEF ReceiveMessage
<1>7. /\ ag'.now = b.now /\ ag'.lastDecision = b.lastDecision /\ ag'.stopped = b.stopped
      /\ ag'.think = b.think /\ ag'.timeouts = 0
  BY <1>5, <1>6 DEF Agents
<1>8. m.cycle \in Nat /\ ag.now.cycle \in Nat /\ b.now.cycle \in Nat /\ srv.cycle \in Nat
  BY <1>2, <1>5 DEF Messages, Agents, Servers
<1>9. SynchMode \/ m.kind # "think"
  BY <1>2 DEF NoThink
<1>10. SynchMode \/ ~b.think
  BY <1>2, <1>9, ParseKeeps DEF NoThink
<1>11. srv' = srv
  BY DEF ReceiveMessage
<1> HIDE DEF m, b
<1>12. ag.now.cycle <= b.now.cycle /\ b.now.cycle <= m.cycle
  BY <1>5 DEF ClockStep
<1>13. Fifo'
  <2>1. \A i \in 1..Len(net) : net[i].cycle \in Nat
    BY NetCycles
  <2>2. \A i \in 1..Len(net') : m.cycle <= net'[i].cycle /\ net'[i].cycle <= srv.cycle
    BY <1>2, <1>3 DEF Fifo
  <2>3. \A i, j \in 1..Len(net') : i < j => net'[i].cycle <= net'[j].cycle
    BY <1>3 DEF Fifo
  <2>4. \A i \in 1..Len(net') : net'[i].cycle \in Nat
    BY <1>3, <2>1
  <2>5. ag'.now.cycle <= srv'.cycle
    BY <1>4, <1>7, <1>8, <1>11, <1>12
  <2>6. \A i \in 1..Len(net') : ag'.now.cycle <= net'[i].cycle /\ net'[i].cycle <= srv'.cycle
    BY <1>7, <1>8, <1>11, <1>12, <2>2, <2>4
  <2> QED
    BY <2>3, <2>5, <2>6 DEF Fifo
<1>14. RunningClock'
  <2>1. ag.lastDecision.cycle \in Int /\ ag.lastDecision.cycle <= ag.now.cycle
    BY DEF Agents, GameTimes, RunningClock
  <2>2. hist'.stops = IF b.stopped THEN hist.stops \cup {b.now.cycle} ELSE hist.stops
    BY <1>7 DEF ReceiveMessage, NoteStop, Histories
  <2>3. ag'.lastDecision = ag.lastDecision
    BY <1>5, <1>7 DEF ClockStep
  <2>4. ag'.lastDecision.cycle <= ag'.now.cycle
    BY <1>7, <1>8, <1>12, <2>1, <2>3
  <2>5. ASSUME b.now.cycle \notin hist'.stops
        PROVE  /\ ~b.stopped /\ b.now.stopped = 0
               /\ ag.lastDecision.cycle = b.now.cycle => ag.lastDecision = b.now
    <3>1. ~b.stopped /\ b.now.cycle \notin hist.stops
      BY <2>2, <2>5
    <3>2. CASE b.now.cycle = ag.now.cycle
      <4>1. ~ag.stopped /\ ag.now.stopped = 0
        BY <3>1, <3>2 DEF RunningClock
      <4>2. b.now.stopped = 0 /\ b.now = Time(b.now.cycle, 0)
        BY <1>5, <4>1 DEF ClockStep
      <4>3. ag.now = Time(ag.now.cycle, 0)
        BY <4>1 DEF Agents, Time
      <4>4. b.now = ag.now
        BY <3>2, <4>2, <4>3
      <4> QED
        BY <3>1, <3>2, <4>2, <4>4 DEF RunningClock
    <3>3. CASE b.now.cycle # ag.now.cycle
      <4>1. b.now.stopped = 0
        BY <1>5, <3>3 DEF ClockStep
      <4>2. ag.lastDecision.cycle # b.now.cycle
        BY <1>8, <1>12, <2>1, <3>3
      <4> QED
        BY <3>1, <4>1, <4>2
    <3> QED
      BY <3>2, <3>3
  <2> QED
    BY <1>7, <2>3, <2>4, <2>5 DEF RunningClock
<1>15. NoThink'
  BY <1>3, <1>7, <1>10 DEF NoThink
<1>16. hist'.turn = hist.turn
  BY DEF ReceiveMessage, NoteStop, Histories
<1> QED
  BY <1>7, <1>12, <1>13, <1>14, <1>15, <1>16 DEF NoTimeoutInBatch

LEMMA InvInit == Init => IInv
<1> SUFFICES ASSUME Init PROVE IInv
  OBVIOUS
<1>1. TypeOK
  BY TypeInit
<1>2. /\ srv.cycle = 0 /\ ag.now = Time(0, 0) /\ ag.lastDecision = NoTime
      /\ ag.think = FALSE /\ ag.timeouts = 0 /\ hist.stops = {0}
  BY DEF Init, NewAgent
<1>3. /\ \A i \in 1..Len(net) : net[i].cycle = 0 /\ net[i].kind = "init"
      /\ Len(net) \in Nat
  BY <1>2 DEF Init, Message
<1> QED
  BY <1>1, <1>2, <1>3 DEF IInv, Fifo, RunningClock, NoThink, NoTimeoutInBatch, Time, NoTime

LEMMA TimeoutKeeps ==
  ASSUME IInv, HandleTimeout
  PROVE  /\ Fifo' /\ RunningClock' /\ NoThink' /\ NoTimeoutInBatch'
         /\ ag'.now = ag.now
<1> USE DEF IInv, TypeOK
<1> DEFINE a == [ag EXCEPT !.timeouts = IF @ = MaxTimeouts THEN @ ELSE @ + 1,
                           !.age = IF @ = -1 \/ @ = MaxTimeouts THEN @ ELSE @ + 1]
<1>1. a \in Agents
  BY TimeoutType
<1>2. /\ a.now = ag.now /\ a.stopped = ag.stopped /\ a.think = ag.think
      /\ a.lastDecision = ag.lastDecision
  BY DEF Agents
<1>3. UNCHANGED <<net, pc>> /\ pc # "drain"
  BY DEF HandleTimeout
<1>4. \/ ag' = [a EXCEPT !.alive = FALSE] /\ UNCHANGED <<srv, hist>>
      \/ Act(a)
      \/ ag' = a /\ UNCHANGED <<srv, hist>>
  BY DEF HandleTimeout
<1> HIDE DEF a
<1>5. CASE Act(a)
  BY <1>1, <1>2, <1>3, <1>5, ActKeeps
<1>6. ASSUME ag' = [a EXCEPT !.alive = FALSE] \/ ag' = a, UNCHANGED <<srv, hist>>
      PROVE  /\ Fifo' /\ RunningClock' /\ NoThink' /\ NoTimeoutInBatch'
             /\ ag'.now = ag.now
  <2>1. /\ ag'.now = ag.now /\ ag'.stopped = ag.stopped /\ ag'.think = ag.think
        /\ ag'.lastDecision = ag.lastDecision
    BY <1>1, <1>2, <1>6 DEF Agents
  <2> QED
    BY <1>3, <1>6, <2>1 DEF Fifo, RunningClock, NoThink, NoTimeoutInBatch
<1> QED
  BY <1>4, <1>5, <1>6

LEMMA InvNext == IInv /\ [Next]_vars => IInv'
<1> SUFFICES ASSUME IInv, [Next]_vars PROVE IInv'
  OBVIOUS
<1> USE DEF IInv
<1>1. TypeOK'
  BY TypeNext
<1>2. ASSUME ReceiveMessage PROVE IInv'
  BY <1>1, <1>2, ReceiveKeeps
<1>3. ASSUME EndOfMessages PROVE IInv'
  <2>1. CASE Act(ag)
    <3>1. UNCHANGED net /\ pc' # "drain" /\ ag \in Agents
      BY <1>3 DEF EndOfMessages, TypeOK
    <3> QED
      BY <1>1, <2>1, <3>1, ActKeeps
  <2>2. CASE UNCHANGED <<ag, srv, hist>>
    BY <1>1, <1>3, <2>2 DEF EndOfMessages, Fifo, RunningClock, NoThink, NoTimeoutInBatch
  <2> QED
    BY <1>3, <2>1, <2>2 DEF EndOfMessages
<1>4. ASSUME HandleTimeout PROVE IInv'
  BY <1>1, <1>4, TimeoutKeeps
<1>5. ASSUME Exit PROVE IInv'
  BY <1>1, <1>5 DEF Exit, Fifo, RunningClock, NoThink, NoTimeoutInBatch
<1>6. ASSUME NewStep PROVE IInv'
  <2> DEFINE c == IF IsServerCycleStoppedMode(srv.mode) THEN srv.cycle ELSE srv.cycle + 1
             m == [kind |-> "sense_body", cycle |-> c, mode |-> srv.mode]
  <2>1. c \in Nat /\ srv.cycle <= c /\ m \in Messages /\ m.cycle = c /\ m.kind # "think"
    BY DEF TypeOK, Servers, Messages, Kinds
  <2>2. Send(m) /\ ag' = ag /\ pc' = pc
    BY <1>6 DEF NewStep
  <2>3. srv'.cycle = c
    BY <1>6 DEF NewStep, TypeOK, Servers
  <2>4. hist'.stops = hist.stops
    BY <1>6 DEF NewStep, TypeOK, Histories
  <2> HIDE DEF c, m
  <2>5. Fifo' /\ NoThink'
    BY <2>1, <2>2, <2>3, SendOrder
  <2> QED
    BY <1>1, <2>2, <2>4, <2>5 DEF RunningClock, NoTimeoutInBatch
<1>7. ASSUME SendSensory PROVE IInv'
  <2>1. PICK kind \in {"see", "hear"} : Send(Message(kind))
    BY <1>7 DEF SendSensory
  <2>2. /\ Message(kind) \in Messages /\ Message(kind).cycle = srv.cycle
        /\ Message(kind).kind # "think" /\ srv.cycle \in Nat
    BY DEF Message, Messages, Kinds, TypeOK, Servers
  <2>3. srv'.cycle = srv.cycle /\ UNCHANGED <<ag, hist, pc>>
    BY <1>7 DEF SendSensory, TypeOK, Servers
  <2>4. Fifo' /\ NoThink'
    BY <2>1, <2>2, <2>3, SendOrder
  <2> QED
    BY <1>1, <2>3, <2>4 DEF RunningClock, NoTimeoutInBatch
<1>8. ASSUME Announce PROVE IInv'
  <2>1. PICK mode \in GameModes :
          /\ srv' = [srv EXCEPT !.mode = mode, !.extra = @ + 1]
          /\ Send([kind |-> "referee", cycle |-> srv.cycle, mode |-> mode])
    BY <1>8 DEF Announce
  <2> DEFINE m == [kind |-> "referee", cycle |-> srv.cycle, mode |-> mode]
  <2>2. m \in Messages /\ m.cycle = srv.cycle /\ m.kind # "think" /\ srv.cycle \in Nat
    BY DEF Messages, Kinds, TypeOK, Servers
  <2>3. srv'.cycle = srv.cycle /\ UNCHANGED <<ag, pc>>
    BY <1>8, <2>1 DEF Announce, TypeOK, Servers
  <2>4. hist'.stops = hist.stops
    BY <1>8 DEF Announce, TypeOK, Histories
  <2>5. Send(m)
    BY <2>1
  <2> HIDE DEF m
  <2>6. Fifo' /\ NoThink'
    BY <2>2, <2>3, <2>5, SendOrder
  <2> QED
    BY <1>1, <2>3, <2>4, <2>6 DEF RunningClock, NoTimeoutInBatch
<1>9. ASSUME SendThink PROVE IInv'
  <2>1. /\ Message("think") \in Messages /\ Message("think").cycle = srv.cycle
        /\ srv.cycle \in Nat
    BY DEF Message, Messages, Kinds, TypeOK, Servers
  <2>2. SynchMode /\ Send(Message("think")) /\ UNCHANGED <<ag, hist, pc>>
    BY <1>9 DEF SendThink
  <2>3. srv'.cycle = srv.cycle
    BY <1>9 DEF SendThink, TypeOK, Servers
  <2>4. Fifo' /\ NoThink'
    BY <2>1, <2>2, <2>3, SendOrder
  <2> QED
    BY <1>1, <2>2, <2>4 DEF RunningClock, NoTimeoutInBatch
<1>10. CASE UNCHANGED vars
  BY <1>1, <1>10 DEF vars, Fifo, RunningClock, NoThink, NoTimeoutInBatch
<1> QED
  BY <1>2, <1>3, <1>4, <1>5, <1>6, <1>7, <1>8, <1>9, <1>10 DEF Next, Client, Server

\* The order of the socket, the running clock and the types together.
THEOREM Invariance == Spec => []IInv
<1> QED
  BY InvInit, InvNext, PTL DEF Spec

-----------------------------------------------------------------------------
(* The properties of the clock and of the decisions.                       *)

\* A late, doubled or missing datagram never moves the agent's cycle number back.
THEOREM CycleMonotone == Spec => CycleNeverGoesBack
<1>1. IInv /\ [Next]_vars => [ag.now.cycle <= ag'.now.cycle]_vars
  <2> SUFFICES ASSUME IInv, Next PROVE ag.now.cycle <= ag'.now.cycle
    BY DEF vars
  <2>1. ag.now.cycle \in Nat
    BY DEF IInv, TypeOK, Agents
  <2>2. CASE ReceiveMessage
    BY <2>2, ReceiveKeeps
  <2>3. CASE EndOfMessages
    <3>1. ag'.now = ag.now
      BY <2>3 DEF EndOfMessages, Act, IInv, TypeOK, Agents
    <3> QED
      BY <2>1, <3>1
  <2>4. CASE HandleTimeout
    BY <2>1, <2>4, TimeoutKeeps
  <2>5. CASE Exit \/ Server
    <3>1. ag' = ag
      BY <2>5 DEF Exit, Server, NewStep, SendSensory, Announce, SendThink
    <3> QED
      BY <2>1, <3>1
  <2> QED
    BY <2>2, <2>3, <2>4, <2>5 DEF Next, Client
<1> QED
  BY <1>1, Invariance, PTL DEF CycleNeverGoesBack, Spec

\* Only the end of a batch and a timeout decide, and never twice at one time.
LEMMA DecidesAtANewTime ==
  ASSUME IInv, Next, Decides, ~SynchMode
  PROVE  ag'.now = ag.now /\ ag'.lastDecision = ag.now /\ ag.lastDecision # ag.now
         /\ hist'.stops = hist.stops
<1> USE DEF IInv, TypeOK
<1>1. CASE EndOfMessages
  <2>1. Act(ag) /\ MustAct(ag)
    BY <1>1 DEF EndOfMessages, Decides
  <2>2. ag'.now = ag.now /\ ag'.lastDecision = ag.now /\ hist'.stops = hist.stops
    BY <2>1 DEF Act, Agents, Histories
  <2>3. ag.lastDecision # ag.now
    BY <2>1 DEF MustAct, DecidesOnMessage, NoThink
  <2> QED
    BY <2>2, <2>3
<1>2. CASE HandleTimeout
  <2> DEFINE a == [ag EXCEPT !.timeouts = IF @ = MaxTimeouts THEN @ ELSE @ + 1,
                             !.age = IF @ = -1 \/ @ = MaxTimeouts THEN @ ELSE @ + 1]
  <2>1. a.now = ag.now /\ a.lastDecision = ag.lastDecision /\ a \in Agents
    BY TimeoutType DEF Agents
  <2>2. PICK s \in SeeVerdicts :
          IsDecisionTiming(a, s, IntervalMSec * a.age, a.timeouts) /\ Act(a)
    BY <1>2 DEF HandleTimeout, Decides
  <2> HIDE DEF a
  <2>3. ag'.now = a.now /\ ag'.lastDecision = a.now /\ hist'.stops = hist.stops
    BY <2>1, <2>2 DEF Act, Agents, Histories
  <2>4. a.lastDecision # a.now
    BY <2>2 DEF IsDecisionTiming
  <2> QED
    BY <2>1, <2>3, <2>4
<1>3. CASE ReceiveMessage
  BY <1>3, ReceiveKeeps DEF Decides
<1>4. CASE Exit \/ Server
  <2>1. hist'.turn = hist.turn
    BY <1>4 DEF Exit, Server, NewStep, SendSensory, Announce, SendThink, Histories
  <2> QED
    BY <2>1 DEF Decides
<1> QED
  BY <1>1, <1>2, <1>3, <1>4 DEF Next, Client

\* Outside synch mode a cycle of a running clock gets one decision, whatever the
\* network does and whatever SeeState believes.
THEOREM OneDecision == Spec => OneDecisionPerRunningCycle
<1>1. IInv /\ [Next]_vars =>
        [Decides /\ ~SynchMode /\ ag'.now.cycle \notin hist.stops =>
           ag.lastDecision.cycle < ag'.lastDecision.cycle]_vars
  <2> SUFFICES ASSUME IInv, Next, Decides, ~SynchMode, ag'.now.cycle \notin hist.stops
               PROVE  ag.lastDecision.cycle < ag'.lastDecision.cycle
    BY DEF vars
  <2>1. ag'.now = ag.now /\ ag'.lastDecision = ag.now /\ ag.lastDecision # ag.now
    BY DecidesAtANewTime
  <2>2. ag.lastDecision.cycle # ag.now.cycle /\ ag.lastDecision.cycle <= ag.now.cycle
    BY <2>1 DEF IInv, RunningClock
  <2>3. ag.lastDecision.cycle \in Int /\ ag.now.cycle \in Int
    BY DEF IInv, TypeOK, Agents, GameTimes
  <2> QED
    BY <2>1, <2>2, <2>3
<1> QED
  BY <1>1, Invariance, PTL DEF OneDecisionPerRunningCycle, Spec

\* Waiting for a see ends: past both thresholds the time is decided.
THEOREM DeadlineMet == Spec => []DeadlineIsMet
<1>1. Init => DeadlineIsMet
  BY DEF Init, NewAgent, DeadlineIsMet
<1>2. IInv /\ DeadlineIsMet /\ [Next]_vars => DeadlineIsMet'
  <2> SUFFICES ASSUME IInv, DeadlineIsMet, [Next]_vars PROVE DeadlineIsMet'
    OBVIOUS
  <2> USE DEF IInv, TypeOK
  <2>1. CASE ReceiveMessage
    BY <2>1 DEF ReceiveMessage, DeadlineIsMet
  <2>2. CASE EndOfMessages
    <3>1. ag'.timeouts = 0
      BY <2>2 DEF EndOfMessages, NoTimeoutInBatch, Act, Agents
    <3> QED
      BY <3>1 DEF DeadlineIsMet
  <2>3. CASE HandleTimeout
    <3> DEFINE a == [ag EXCEPT !.timeouts = IF @ = MaxTimeouts THEN @ ELSE @ + 1,
                               !.age = IF @ = -1 \/ @ = MaxTimeouts THEN @ ELSE @ + 1]
    <3>1. a \in Agents
      BY TimeoutType
    <3>2. \/ ag'.alive = FALSE
          \/ Act(a)
          \/ /\ ag' = a
             /\ \E s \in SeeVerdicts :
                  ~(a.unumKnown /\ IsDecisionTiming(a, s, IntervalMSec * a.age, a.timeouts))
      BY <2>3 DEF HandleTimeout, Agents
    <3> HIDE DEF a
    <3>3. CASE ag'.alive = FALSE
      BY <3>3 DEF DeadlineIsMet
    <3>4. CASE Act(a)
      <4>1. ag'.lastDecision = ag'.now
        BY <3>1, <3>4 DEF Act, Agents
      <4> QED
        BY <4>1 DEF DeadlineIsMet
    <3>5. ASSUME ag' = a,
                 NEW s \in SeeVerdicts,
                 ~(a.unumKnown /\ IsDecisionTiming(a, s, IntervalMSec * a.age, a.timeouts))
          PROVE  DeadlineIsMet'
      <4> DEFINE msec == IntervalMSec * a.age
      <4>1. msec \in Int /\ a.timeouts \in Int
        BY <3>1, PlayerAgentAssumption DEF Agents, MaxTimeouts
      <4>2. WaitThrSynchView \in Nat /\ WaitThrNoSynchView \in Nat
        BY TimingAssumption
      <4> HIDE DEF msec
      <4>3. ASSUME ~SynchMode, a.unumKnown, a.timeouts > 2,
                   msec >= WaitThrSynchView, msec >= WaitThrNoSynchView,
                   a.lastDecision # a.now
            PROVE  IsDecisionTiming(a, s, msec, a.timeouts)
        BY <4>1, <4>2, <4>3 DEF IsDecisionTiming, SeeNotAwaited, WaitThr
      <4>4. ~(a.unumKnown /\ IsDecisionTiming(a, s, msec, a.timeouts))
        BY <3>5 DEF msec
      <4> QED
        BY <3>5, <4>3, <4>4 DEF DeadlineIsMet, msec
    <3> QED
      BY <3>2, <3>3, <3>4, <3>5
  <2>4. CASE Exit \/ Server \/ UNCHANGED vars
    <3>1. ag' = ag /\ (pc' = "select" => pc = "select")
      BY <2>4 DEF Exit, Server, NewStep, SendSensory, Announce, SendThink, vars
    <3> QED
      BY <3>1 DEF DeadlineIsMet
  <2> QED
    BY <2>1, <2>2, <2>3, <2>4 DEF Next, Client
<1> QED
  BY <1>1, <1>2, Invariance, PTL DEF Spec

-----------------------------------------------------------------------------
(* The message loop implements Turns.                                      *)

LEMMA ReceivePasses ==
  ASSUME IInv, ReceiveMessage
  PROVE  Turn!Pass
<1> USE DEF IInv, TypeOK
<1>1. pc # "exit" /\ pc' # "exit"
  BY DEF ReceiveMessage
<1>2. ag.now.cycle <= ag'.now.cycle /\ hist'.turn = hist.turn
  BY ReceiveKeeps
<1>3. ag'.now.cycle \in Nat
  BY TypeNext DEF Next, Client, Agents
<1>4. hist'.stops \in {hist.stops, hist.stops \cup {ag'.now.cycle}}
  BY DEF ReceiveMessage, NoteStop, Histories
<1>5. ag'.lastDecision = ag.lastDecision
  <2> DEFINE m == Head(net)
  <2>1. m \in Messages
    BY DEF ReceiveMessage
  <2>2. m.kind \in Kinds /\ m.cycle \in Nat /\ m.mode \in GameModes
    BY <2>1 DEF Messages
  <2>3. Parse(ag, m).lastDecision = ag.lastDecision /\ Parse(ag, m) \in Agents
    <3>1. Parse(ag, m) \in Agents
      BY <2>1, ParseType
    <3> HIDE DEF m
    <3> QED
      BY <2>2, <3>1 DEF Kinds, Parse, AnalyzeInit, AnalyzeSenseBody, AnalyzeSee, AnalyzeHear,
         AnalyzeHearReferee, UpdateServerStatus, UpdateCurrentTime, Agents
  <2> QED
    BY <2>3 DEF ReceiveMessage, Agents
<1> QED
  BY <1>1, <1>2, <1>3, <1>4, <1>5 DEF Turn!Pass

LEMMA DecisionDecides ==
  ASSUME IInv, Next, Decides, EndOfMessages \/ HandleTimeout
  PROVE  Turn!Decide
<1> USE DEF IInv, TypeOK
<1>1. ag'.now = ag.now /\ ag'.lastDecision = ag.now /\ hist'.stops = hist.stops
      /\ hist'.turn = 1 - hist.turn
  <2> DEFINE a == [ag EXCEPT !.timeouts = IF @ = MaxTimeouts THEN @ ELSE @ + 1,
                             !.age = IF @ = -1 \/ @ = MaxTimeouts THEN @ ELSE @ + 1]
  <2>1. a.now = ag.now /\ a \in Agents
    BY TimeoutType DEF Agents
  <2>2. Act(ag) \/ Act(a)
    BY DEF EndOfMessages, HandleTimeout, Decides
  <2> HIDE DEF a
  <2> QED
    BY <2>1, <2>2 DEF Act, Agents, Histories
<1>2. pc # "exit" /\ pc' # "exit"
  BY DEF EndOfMessages, HandleTimeout
<1>3. SynchMode \/ ag.now.cycle \in hist.stops \/ ag.lastDecision.cycle < ag.now.cycle
  <2> SUFFICES ASSUME ~SynchMode, ag.now.cycle \notin hist.stops
               PROVE  ag.lastDecision.cycle < ag.now.cycle
    OBVIOUS
  <2>1. ag.lastDecision # ag.now
    BY DecidesAtANewTime
  <2>2. ag.lastDecision.cycle # ag.now.cycle /\ ag.lastDecision.cycle <= ag.now.cycle
    BY <2>1 DEF RunningClock
  <2>3. ag.lastDecision.cycle \in Int /\ ag.now.cycle \in Int
    BY DEF Agents, GameTimes
  <2> QED
    BY <2>2, <2>3
<1> QED
  BY <1>1, <1>2, <1>3 DEF Turn!Decide

\* Without a decision the end of a batch and a timeout leave the agent's turn alone.
LEMMA NoDecisionStutters ==
  ASSUME IInv, ~Decides, EndOfMessages \/ HandleTimeout
  PROVE  UNCHANGED Turn!vars
<1> USE DEF IInv, TypeOK
<1> DEFINE a == [ag EXCEPT !.timeouts = IF @ = MaxTimeouts THEN @ ELSE @ + 1,
                           !.age = IF @ = -1 \/ @ = MaxTimeouts THEN @ ELSE @ + 1]
<1>1. a.now = ag.now /\ a.lastDecision = ag.lastDecision /\ a \in Agents
  BY TimeoutType DEF Agents
<1>2. hist' = hist /\ (ag' = ag \/ ag' = a \/ ag' = [a EXCEPT !.alive = FALSE])
  <2>1. hist \in Histories /\ hist.turn \in {0, 1}
    BY DEF Histories
  <2> DEFINE h == [hist EXCEPT !.actStep = srv.step, !.turn = 1 - @]
  <2>2. h.turn # hist.turn
    BY <2>1 DEF Histories
  <2> HIDE DEF a, h
  <2>3. \A b : Act(b) => hist' = h
    BY DEF Act, h
  <2>4. ~Act(ag) /\ ~Act(a)
    BY <2>2, <2>3 DEF Decides
  <2> QED
    BY <2>4 DEF EndOfMessages, HandleTimeout, a
<1> HIDE DEF a
<1>3. ag'.now = ag.now /\ ag'.lastDecision = ag.lastDecision
  BY <1>1, <1>2 DEF Agents
<1>4. (pc = "exit") = FALSE /\ (pc' = "exit") = FALSE
  BY DEF EndOfMessages, HandleTimeout
<1> QED
  BY <1>2, <1>3, <1>4 DEF Turn!vars

\* The message loop implements the abstract specification Turns.
THEOREM LoopTakesTurns == Spec => TakesTurns
<1>1. Init => Turn!Init
  BY DEF Init, NewAgent, Time, NoTime, Turn!Init
<1>2. IInv /\ [Next]_vars => [Turn!Next]_Turn!vars
  <2> SUFFICES ASSUME IInv, [Next]_vars PROVE [Turn!Next]_Turn!vars
    OBVIOUS
  <2>1. CASE ReceiveMessage
    BY <2>1, ReceivePasses DEF Turn!Next
  <2>2. CASE EndOfMessages \/ HandleTimeout
    <3>1. CASE Decides
      BY <2>2, <3>1, DecisionDecides DEF Turn!Next, Next, Client
    <3>2. CASE ~Decides
      BY <2>2, <3>2, NoDecisionStutters
    <3> QED
      BY <3>1, <3>2
  <2>3. CASE Exit
    BY <2>3 DEF Exit, Turn!Next, Turn!Leave
  <2>4. CASE Server
    <3>1. pc' = pc /\ ag' = ag /\ hist'.stops = hist.stops /\ hist'.turn = hist.turn
      BY <2>4 DEF Server, NewStep, SendSensory, Announce, SendThink, IInv, TypeOK, Histories
    <3> QED
      BY <3>1 DEF Turn!vars
  <2>5. CASE UNCHANGED vars
    BY <2>5 DEF vars, Turn!vars
  <2> QED
    BY <2>1, <2>2, <2>3, <2>4, <2>5 DEF Next, Client
<1> QED
  BY <1>1, <1>2, Invariance, PTL DEF Spec, TakesTurns, Turn!Spec

-----------------------------------------------------------------------------
(* A network that delivers every datagram once: one decision in a step.    *)

\* The time is the beginning of a cycle, or the agent knows that the clock stands:
\* a see or a hear of this cycle does not move it.
StraightOf(a) == a.stopped \/ a.now.stopped = 0

\* The newest cycle number is on its way or has arrived; the init message, which
\* does not move the clock, belongs to the beginning.
Latest ==
  /\ IF net = <<>> THEN ag.now.cycle = srv.cycle ELSE net[Len(net)].cycle = srv.cycle
  /\ \A i \in 1..Len(net) :
       net[i].kind = "init" => net[i].cycle = 0 /\ net[i].mode = "before_kick_off"

\* Before the first step there is nothing to decide on.
NothingSensed ==
  srv.step = 0 =>
    /\ ag.age = -1 /\ ag.seeTime = NoTime
    /\ \A i \in 1..Len(net) : net[i].kind \in {"init", "referee"}

\* While the referee is silent, the sense_body of the step straightens the time.
Steady ==
  ~hist.announced =>
    \/ StraightOf(ag) /\ \A i \in 1..Len(net) : net[i].kind # "referee"
    \/ \E j \in 1..Len(net) :
         /\ net[j].kind = "sense_body"
         /\ \A i \in j..Len(net) : net[i].kind # "referee"

\* Once decided, a step of a silent referee brings nothing that moves the time.
Settled ==
  srv.step > 0 /\ hist.actStep = srv.step /\ ~hist.announced =>
    /\ ag.lastDecision = ag.now /\ ag.now.cycle = srv.cycle /\ StraightOf(ag)
    /\ \A i \in 1..Len(net) : net[i].kind \in {"see", "hear"}

Clocked == ~SynchMode /\ faults = 0 => Latest /\ NothingSensed /\ Steady /\ Settled

\* Synch mode: a (think) is waiting only while the server waits for its answer.
ThinkPending ==
  /\ srv.phase # "done" => hist.actStep < srv.step
  /\ ag.think => srv.phase = "thinking" /\ \A i \in 1..Len(net) : net[i].kind # "think"
  /\ \A i \in 1..Len(net) : net[i].kind = "think" =>
       /\ srv.phase = "thinking"
       /\ \A j \in 1..Len(net) : net[j].kind = "think" => j = i

Asked == SynchMode /\ faults = 0 => ThinkPending

\* The inductive invariant of the steps.
StepInv == hist.actStep <= srv.step /\ Clocked /\ Asked

LEMMA ParseTime ==
  ASSUME NEW a \in Agents, NEW m \in Messages
  PROVE  /\ m.kind \notin {"init", "think"} => Parse(a, m).now.cycle = m.cycle
         /\ m.kind \in {"sense_body", "see", "hear"} => StraightOf(Parse(a, m))
         /\ m.kind \in {"see", "hear"} /\ StraightOf(a) /\ m.cycle = a.now.cycle =>
              Parse(a, m).now = a.now
         /\ m.kind = "init" =>
              /\ Parse(a, m).now = a.now
              /\ m.mode = "before_kick_off" => StraightOf(Parse(a, m))
         /\ m.kind \in {"init", "referee"} =>
              Parse(a, m).age = a.age /\ Parse(a, m).seeTime = a.seeTime
         /\ m.kind # "think" => Parse(a, m).think = a.think
         /\ m.kind = "think" => Parse(a, m).think
         /\ Parse(a, m).lastDecision = a.lastDecision
<1>1. m.cycle \in Nat /\ m.kind \in Kinds /\ m.mode \in GameModes
  BY DEF Messages
<1> DEFINE upT == UpdateCurrentTime(a, m.cycle, TRUE)
           upF == UpdateCurrentTime(a, m.cycle, FALSE)
<1>2. /\ upT \in Agents /\ upT.now.cycle = m.cycle /\ StraightOf(upT)
      /\ upT.lastDecision = a.lastDecision /\ upT.think = a.think /\ upT.stopped = a.stopped
  BY <1>1 DEF UpdateCurrentTime, Agents, Time, StraightOf
<1>3. /\ upF \in Agents /\ upF.now.cycle = m.cycle /\ StraightOf(upF)
      /\ upF.lastDecision = a.lastDecision /\ upF.think = a.think /\ upF.stopped = a.stopped
      /\ upF.age = a.age /\ upF.seeTime = a.seeTime
      /\ StraightOf(a) /\ m.cycle = a.now.cycle => upF.now = a.now
  BY <1>1 DEF UpdateCurrentTime, Agents, Time, StraightOf
<1>4. CASE m.kind = "init"
  BY <1>1, <1>4 DEF Parse, AnalyzeInit, UpdateServerStatus, IsServerCycleStoppedMode,
       StraightOf, Agents
<1>5. CASE m.kind = "sense_body"
  <2>1. Parse(a, m) = [upT EXCEPT !.senseTime = upT.now, !.age = 0]
    BY <1>5 DEF Parse, AnalyzeSenseBody
  <2> HIDE DEF upT, upF
  <2> QED
    BY <1>2, <1>5, <2>1 DEF StraightOf, Agents
<1>6. CASE m.kind = "see"
  <2>1. Parse(a, m) = [upF EXCEPT !.seeTime = upF.now]
    BY <1>6 DEF Parse, AnalyzeSee
  <2> HIDE DEF upT, upF
  <2> QED
    BY <1>3, <1>6, <2>1 DEF StraightOf, Agents
<1>7. CASE m.kind = "hear"
  <2>1. Parse(a, m) = upF
    BY <1>7 DEF Parse, AnalyzeHear
  <2> HIDE DEF upT, upF
  <2> QED
    BY <1>3, <1>7, <2>1
<1>8. CASE m.kind = "referee"
  <2>1. Parse(a, m) = [UpdateServerStatus(upF, m.mode) EXCEPT
                         !.alive = @ /\ ~IsGameEndMode(m.mode)]
    BY <1>8 DEF Parse, AnalyzeHearReferee
  <2> HIDE DEF upT, upF
  <2> QED
    BY <1>3, <1>8, <2>1 DEF UpdateServerStatus, Agents
<1>9. CASE m.kind = "think"
  BY <1>9 DEF Parse, Agents
<1> HIDE DEF upT, upF
<1> QED
  BY <1>1, <1>4, <1>5, <1>6, <1>7, <1>8, <1>9 DEF Kinds

\* Without a fault the datagram is put at the end of the socket.
LEMMA SendOnce ==
  ASSUME TypeOK, NEW m \in Messages, Send(m), faults' = 0
  PROVE  /\ faults = 0 /\ net' # <<>> /\ Len(net') = Len(net) + 1 /\ Len(net) \in Nat
         /\ net'[Len(net')] = m
         /\ \A i \in 1..Len(net) : net'[i] = net[i]
<1>1. faults = 0 /\ net' = Append(net, m)
  BY DEF Send, TypeOK
<1> QED
  BY <1>1 DEF TypeOK

LEMMA StepInit == Init => StepInv
<1> SUFFICES ASSUME Init PROVE StepInv
  OBVIOUS
<1>1. /\ srv.cycle = 0 /\ srv.step = 0 /\ srv.phase = "done" /\ ag.now = Time(0, 0)
      /\ ag.age = -1 /\ ag.seeTime = NoTime /\ ag.stopped /\ ~ag.think
      /\ hist.actStep = 0 /\ ~hist.announced
  BY DEF Init, NewAgent
<1>2. \A i \in 1..Len(net) :
        net[i].kind = "init" /\ net[i].cycle = 0 /\ net[i].mode = "before_kick_off"
  BY DEF Init, Message
<1>3. net = <<>> \/ Len(net) = 1
  BY DEF Init
<1> QED
  BY <1>1, <1>2, <1>3 DEF StepInv, Clocked, Asked, ThinkPending, Latest, NothingSensed,
       Steady, Settled, StraightOf, Time

\* What a received message leaves of the invariant.
LEMMA ReceiveStep ==
  ASSUME IInv, StepInv, ReceiveMessage
  PROVE  StepInv'
<1> USE DEF IInv, TypeOK
<1> DEFINE m == Head(net)
           b == Parse(ag, m)
<1>1. net \in Seq(Messages) /\ net # <<>> /\ net' = Tail(net)
  BY DEF ReceiveMessage
<1>2. m = net[1] /\ m \in Messages /\ 1 \in 1..Len(net) /\ Len(net) \in Nat
  BY <1>1
<1>3. /\ Len(net') = Len(net) - 1
      /\ \A i \in 1..Len(net') : net'[i] = net[i + 1] /\ i + 1 \in 1..Len(net) /\ 1 < i + 1
  BY <1>1
<1>4. /\ b \in Agents
      /\ m.kind \in {"see", "hear"} /\ StraightOf(ag) /\ m.cycle = ag.now.cycle =>
           b.now = ag.now
      /\ m.kind \notin {"init", "think"} => b.now.cycle = m.cycle
      /\ m.kind \in {"sense_body", "see", "hear"} => StraightOf(b)
      /\ m.kind = "init" => b.now = ag.now /\ (m.mode = "before_kick_off" => StraightOf(b))
      /\ m.kind \in {"init", "referee"} => b.age = ag.age /\ b.seeTime = ag.seeTime
      /\ m.kind # "think" => b.think = ag.think
      /\ m.kind = "think" => b.think
      /\ b.lastDecision = ag.lastDecision
  BY <1>2, ParseType, ParseTime, Zenon
<1>5. PICK aging \in {0, 1} :
        ag' = [b EXCEPT !.timeouts = 0,
                        !.age = IF @ = -1 \/ @ + aging > MaxTimeouts THEN @ ELSE @ + aging]
  BY DEF ReceiveMessage
<1>6. /\ ag'.now = b.now /\ ag'.lastDecision = b.lastDecision /\ ag'.stopped = b.stopped
      /\ ag'.think = b.think /\ ag'.seeTime = b.seeTime
      /\ b.age = -1 => ag'.age = -1
  BY <1>4, <1>5 DEF Agents
<1>7. StraightOf(ag') <=> StraightOf(b)
  BY <1>6 DEF StraightOf
<1>8. /\ srv' = srv /\ faults' = faults
      /\ hist'.actStep = hist.actStep /\ hist'.announced = hist.announced
  BY DEF ReceiveMessage, NoteStop, Histories
<1>9. m.kind \in Kinds /\ m.cycle \in Nat /\ ag.now.cycle \in Nat /\ srv.cycle \in Nat
  BY <1>2 DEF Messages, Agents, Servers
<1>10. ag.now.cycle <= m.cycle /\ m.cycle <= srv.cycle
  BY <1>2 DEF Fifo
<1> HIDE DEF m, b, IInv, TypeOK
<1>11. ASSUME ~SynchMode, faults = 0, Latest, NothingSensed, Steady, Settled
       PROVE  Latest' /\ NothingSensed' /\ Steady' /\ Settled'
  <2>1. m.kind # "think"
    BY <1>2, <1>11 DEF IInv, NoThink
  <2>2. m.kind = "init" => m.cycle = 0 /\ m.mode = "before_kick_off"
    BY <1>2, <1>11 DEF Latest
  <2>3. b.now.cycle = m.cycle
    BY <1>4, <1>9, <1>10, <2>1, <2>2
  <2>4. Latest'
    <3>1. CASE net' = <<>>
      <4>1. Len(net) = 1
        BY <1>2, <1>3, <3>1
      <4>2. m.cycle = srv.cycle
        BY <1>1, <1>2, <1>11, <4>1 DEF Latest
      <4>3. Len(net') = 0
        BY <1>2, <1>3, <4>1
      <4> QED
        BY <1>6, <1>8, <2>3, <3>1, <4>2, <4>3 DEF Latest
    <3>2. CASE net' # <<>>
      <4>1. Len(net') \in 1..Len(net')
        BY <1>1, <1>2, <1>3, <3>2
      <4>2. net'[Len(net')] = net[Len(net)]
        BY <1>2, <1>3, <4>1
      <4> QED
        BY <1>1, <1>3, <1>8, <1>11, <3>2, <4>2 DEF Latest
    <3> QED
      BY <3>1, <3>2
  <2>5. NothingSensed'
    BY <1>2, <1>3, <1>4, <1>6, <1>8, <1>11 DEF NothingSensed
  <2>6. Steady'
    <3> SUFFICES ASSUME ~hist.announced PROVE Steady'
      BY <1>8 DEF Steady
    <3>1. CASE StraightOf(ag) /\ \A i \in 1..Len(net) : net[i].kind # "referee"
      <4>1. m.kind # "referee"
        BY <1>2, <3>1
      <4>2. StraightOf(b)
        BY <1>4, <1>9, <2>1, <2>2, <4>1 DEF Kinds
      <4>3. \A i \in 1..Len(net') : net'[i].kind # "referee"
        BY <1>3, <3>1
      <4> QED
        BY <1>7, <4>2, <4>3 DEF Steady
    <3>2. ASSUME NEW j \in 1..Len(net), net[j].kind = "sense_body",
                 \A i \in j..Len(net) : net[i].kind # "referee"
          PROVE  Steady'
      <4>1. CASE j = 1
        <5>1. StraightOf(b)
          BY <1>2, <1>4, <3>2, <4>1
        <5>2. \A i \in 1..Len(net') : net'[i].kind # "referee"
          BY <1>3, <3>2, <4>1
        <5> QED
          BY <1>7, <5>1, <5>2 DEF Steady
      <4>2. CASE j # 1
        <5> DEFINE k == j - 1
        <5>1. k \in 1..Len(net') /\ k + 1 = j
          BY <1>2, <1>3, <4>2
        <5>2. net'[k].kind = "sense_body"
          BY <1>3, <3>2, <5>1
        <5>3. ASSUME NEW i \in k..Len(net') PROVE net'[i].kind # "referee"
          <6>1. i \in 1..Len(net') /\ i + 1 \in j..Len(net)
            BY <1>2, <1>3, <5>1
          <6> QED
            BY <1>3, <3>2, <6>1
        <5> HIDE DEF k
        <5> QED
          BY <5>1, <5>2, <5>3 DEF Steady
      <4> QED
        BY <4>1, <4>2
    <3> QED
      BY <1>11, <3>1, <3>2 DEF Steady
  <2>7. Settled'
    <3> SUFFICES ASSUME srv.step > 0, hist.actStep = srv.step, ~hist.announced
                 PROVE  Settled'
      BY <1>8 DEF Settled
    <3>1. /\ ag.lastDecision = ag.now /\ ag.now.cycle = srv.cycle /\ StraightOf(ag)
          /\ \A i \in 1..Len(net) : net[i].kind \in {"see", "hear"}
      BY <1>11 DEF Settled
    <3>2. m.kind \in {"see", "hear"} /\ m.cycle = ag.now.cycle
      BY <1>2, <1>9, <1>10, <3>1
    <3>3. b.now = ag.now /\ StraightOf(b)
      BY <1>4, <3>1, <3>2
    <3>4. \A i \in 1..Len(net') : net'[i].kind \in {"see", "hear"}
      BY <1>3, <3>1
    <3> QED
      BY <1>4, <1>6, <1>7, <1>8, <3>1, <3>3, <3>4 DEF Settled
  <2> QED
    BY <2>4, <2>5, <2>6, <2>7
<1>12. ASSUME ThinkPending PROVE ThinkPending'
  <2>1. /\ ag.think => srv.phase = "thinking" /\ \A i \in 1..Len(net) : net[i].kind # "think"
        /\ \A i \in 1..Len(net) : net[i].kind = "think" =>
             /\ srv.phase = "thinking"
             /\ \A j \in 1..Len(net) : net[j].kind = "think" => j = i
    BY <1>12 DEF ThinkPending
  <2>2. CASE m.kind = "think"
    <3>1. \A i \in 1..Len(net') : net'[i].kind # "think"
      BY <1>2, <1>3, <2>1, <2>2
    <3>2. srv.phase = "thinking"
      BY <1>2, <2>1, <2>2
    <3> QED
      BY <1>8, <1>12, <3>1, <3>2 DEF ThinkPending
  <2>3. CASE m.kind # "think"
    <3>1. ag'.think = ag.think
      BY <1>4, <1>6, <2>3
    <3>2. \A i \in 1..Len(net') : net'[i].kind = "think" =>
             /\ srv.phase = "thinking"
             /\ \A j \in 1..Len(net') : net'[j].kind = "think" => j = i
      <4> SUFFICES ASSUME NEW i \in 1..Len(net'), net'[i].kind = "think"
                   PROVE  /\ srv.phase = "thinking"
                          /\ \A j \in 1..Len(net') : net'[j].kind = "think" => j = i
        OBVIOUS
      <4>1. srv.phase = "thinking"
        BY <1>3, <2>1
      <4>2. ASSUME NEW j \in 1..Len(net'), net'[j].kind = "think" PROVE j = i
        <5>1. j + 1 = i + 1
          BY <1>3, <2>1, <4>2
        <5> QED
          BY <5>1
      <4> QED
        BY <4>1, <4>2
    <3>3. ag.think => \A i \in 1..Len(net') : net'[i].kind # "think"
      BY <1>3, <2>1
    <3> QED
      BY <1>8, <1>12, <2>1, <3>1, <3>2, <3>3 DEF ThinkPending
  <2> QED
    BY <2>2, <2>3
<1> QED
  BY <1>8, <1>11, <1>12 DEF StepInv, Clocked, Asked

\* An agent that decides in a step uses it up; otherwise its timers alone change.
LEMMA DecisionStep ==
  ASSUME IInv, StepInv, net = <<>>, UNCHANGED <<net, faults>>, NEW a \in Agents,
         a.now = ag.now, a.stopped = ag.stopped, a.seeTime = ag.seeTime,
         ag.age = -1 => a.age = -1, SynchMode => ag.think,
         Act(a)
  PROVE  StepInv'
<1> USE DEF IInv, TypeOK
<1>1. /\ ag' = [a EXCEPT !.lastDecision = a.now, !.think = FALSE]
      /\ srv'.cycle = srv.cycle /\ srv'.step = srv.step
      /\ srv'.phase = IF srv.phase = "thinking" THEN "done" ELSE srv.phase
      /\ hist'.actStep = srv.step /\ hist'.announced = hist.announced
      /\ srv.step \in Nat
  BY DEF Act, Servers, Histories
<1>2. /\ ag'.now = ag.now /\ ag'.lastDecision = ag.now /\ ag'.stopped = ag.stopped
      /\ ag'.think = FALSE /\ ag'.seeTime = ag.seeTime /\ ag'.age = a.age
  BY <1>1 DEF Agents
<1>3. Len(net) = 0 /\ Len(net') = 0
  OBVIOUS
<1> HIDE DEF IInv, TypeOK
<1>4. ASSUME ~SynchMode, faults = 0, Latest, NothingSensed, Steady, Settled
      PROVE  Latest' /\ NothingSensed' /\ Steady' /\ Settled'
  <2>1. Latest' /\ NothingSensed'
    BY <1>1, <1>2, <1>3, <1>4 DEF Latest, NothingSensed
  <2>2. ~hist.announced => StraightOf(ag)
    BY <1>3, <1>4 DEF Steady
  <2>3. ~hist.announced => StraightOf(ag')
    BY <1>2, <2>2 DEF StraightOf
  <2>4. Steady'
    BY <1>1, <1>3, <2>3 DEF Steady
  <2>5. Settled'
    BY <1>1, <1>2, <1>3, <1>4, <2>3 DEF Settled, Latest
  <2> QED
    BY <2>1, <2>4, <2>5
<1>5. ASSUME SynchMode, ThinkPending PROVE ThinkPending'
  BY <1>1, <1>2, <1>3, <1>5 DEF ThinkPending
<1> QED
  BY <1>1, <1>4, <1>5 DEF StepInv, Clocked, Asked

\* A new step starts undecided, and its sense_body is the newest message.
LEMMA NewStepStep ==
  ASSUME IInv, StepInv, NewStep, faults' = 0
  PROVE  StepInv'
<1> USE DEF IInv, TypeOK
<1> DEFINE c == IF IsServerCycleStoppedMode(srv.mode) THEN srv.cycle ELSE srv.cycle + 1
           m == [kind |-> "sense_body", cycle |-> c, mode |-> srv.mode]
<1>1. m \in Messages /\ m.cycle = c /\ m.kind = "sense_body"
  BY DEF Servers, Messages, Kinds
<1>2. Send(m) /\ ag' = ag /\ (SynchMode => srv.phase = "done")
  BY DEF NewStep
<1>3. /\ srv'.cycle = c /\ srv'.step = srv.step + 1 /\ srv'.phase = "sensed"
      /\ hist'.actStep = hist.actStep /\ ~hist'.announced
      /\ srv.step \in Nat /\ hist.actStep \in Nat
  BY DEF NewStep, Servers, Histories
<1>4. /\ faults = 0 /\ net' # <<>> /\ Len(net') = Len(net) + 1 /\ Len(net) \in Nat
      /\ net'[Len(net')] = m
      /\ \A i \in 1..Len(net) : net'[i] = net[i]
  BY <1>1, <1>2, SendOnce
<1> HIDE DEF c, m, IInv, TypeOK
<1>5. \A i \in 1..Len(net') : (i \in 1..Len(net) /\ net'[i] = net[i]) \/ net'[i] = m
  BY <1>4
<1>6. ASSUME Latest PROVE Latest' /\ NothingSensed' /\ Steady' /\ Settled'
  <2>1. Latest'
    BY <1>1, <1>3, <1>4, <1>5, <1>6 DEF Latest
  <2>2. NothingSensed' /\ Settled'
    BY <1>3, StepInv DEF NothingSensed, Settled, StepInv
  <2>3. Steady'
    <3>1. Len(net') \in 1..Len(net') /\ net'[Len(net')].kind = "sense_body"
      BY <1>1, <1>4
    <3>2. \A i \in Len(net')..Len(net') : net'[i].kind # "referee"
      BY <1>1, <1>4
    <3> QED
      BY <3>1, <3>2 DEF Steady
  <2> QED
    BY <2>1, <2>2, <2>3
<1>7. ASSUME SynchMode, ThinkPending PROVE ThinkPending'
  <2>1. ~ag.think /\ \A i \in 1..Len(net) : net[i].kind # "think"
    BY <1>2, <1>7 DEF ThinkPending
  <2>2. \A i \in 1..Len(net') : net'[i].kind # "think"
    BY <1>1, <1>5, <2>1
  <2>3. hist'.actStep < srv'.step
    BY <1>3 DEF StepInv
  <2> QED
    BY <1>2, <2>1, <2>2, <2>3 DEF ThinkPending
<1> QED
  BY <1>3, <1>4, <1>6, <1>7 DEF StepInv, Clocked, Asked

\* A see or a hear of the running step.
LEMMA SensoryStep ==
  ASSUME IInv, StepInv, SendSensory, faults' = 0
  PROVE  StepInv'
<1> USE DEF IInv, TypeOK
<1>1. PICK kind \in {"see", "hear"} : Send(Message(kind))
  BY DEF SendSensory
<1> DEFINE m == Message(kind)
<1>2. m \in Messages /\ m.cycle = srv.cycle /\ m.kind = kind
  BY DEF Message, Messages, Kinds, Servers
<1>3. /\ srv'.cycle = srv.cycle /\ srv'.step = srv.step /\ srv'.phase = srv.phase
      /\ srv.step > 0 /\ UNCHANGED <<ag, hist>>
  BY DEF SendSensory, Servers
<1>4. /\ faults = 0 /\ net' # <<>> /\ Len(net') = Len(net) + 1 /\ Len(net) \in Nat
      /\ net'[Len(net')] = m
      /\ \A i \in 1..Len(net) : net'[i] = net[i]
  BY <1>1, <1>2, SendOnce
<1> HIDE DEF m, IInv, TypeOK
<1>5. \A i \in 1..Len(net') : (i \in 1..Len(net) /\ net'[i] = net[i]) \/ net'[i] = m
  BY <1>4
<1>6. ASSUME Latest, Steady, Settled PROVE Latest' /\ NothingSensed' /\ Steady' /\ Settled'
  <2>1. Latest'
    BY <1>2, <1>3, <1>4, <1>5, <1>6 DEF Latest
  <2>2. NothingSensed'
    BY <1>3 DEF NothingSensed
  <2>3. Steady'
    <3> SUFFICES ASSUME ~hist.announced PROVE Steady'
      BY <1>3 DEF Steady
    <3>1. CASE StraightOf(ag) /\ \A i \in 1..Len(net) : net[i].kind # "referee"
      BY <1>2, <1>3, <1>5, <3>1 DEF Steady
    <3>2. ASSUME NEW j \in 1..Len(net), net[j].kind = "sense_body",
                 \A i \in j..Len(net) : net[i].kind # "referee"
          PROVE  Steady'
      <4>1. j \in 1..Len(net') /\ net'[j].kind = "sense_body"
        BY <1>4, <3>2
      <4>2. \A i \in j..Len(net') : net'[i].kind # "referee"
        BY <1>2, <1>4, <3>2
      <4> QED
        BY <4>1, <4>2 DEF Steady
    <3> QED
      BY <1>6, <3>1, <3>2 DEF Steady
  <2>4. Settled'
    BY <1>2, <1>3, <1>5, <1>6 DEF Settled
  <2> QED
    BY <2>1, <2>2, <2>3, <2>4
<1>7. ASSUME ThinkPending PROVE ThinkPending'
  <2>1. \A i \in 1..Len(net') : net'[i].kind = "think" => i \in 1..Len(net) /\ net'[i] = net[i]
    BY <1>2, <1>5
  <2> QED
    BY <1>3, <1>7, <2>1 DEF ThinkPending
<1> QED
  BY <1>3, <1>4, <1>6, <1>7 DEF StepInv, Clocked, Asked

\* The referee speaks: the step may be decided again.
LEMMA AnnounceStep ==
  ASSUME IInv, StepInv, Announce, faults' = 0
  PROVE  StepInv'
<1> USE DEF IInv, TypeOK
<1>1. PICK mode \in GameModes :
        /\ srv' = [srv EXCEPT !.mode = mode, !.extra = @ + 1]
        /\ Send([kind |-> "referee", cycle |-> srv.cycle, mode |-> mode])
  BY DEF Announce
<1> DEFINE m == [kind |-> "referee", cycle |-> srv.cycle, mode |-> mode]
<1>2. m \in Messages /\ m.cycle = srv.cycle /\ m.kind = "referee"
  BY DEF Messages, Kinds, Servers
<1>3. /\ srv'.cycle = srv.cycle /\ srv'.step = srv.step /\ srv'.phase = srv.phase
      /\ ag' = ag /\ hist'.actStep = hist.actStep /\ hist'.announced
  BY <1>1 DEF Announce, Servers, Histories
<1>4. /\ faults = 0 /\ net' # <<>> /\ Len(net') = Len(net) + 1 /\ Len(net) \in Nat
      /\ net'[Len(net')] = m
      /\ \A i \in 1..Len(net) : net'[i] = net[i]
  BY <1>1, <1>2, SendOnce
<1> HIDE DEF m, IInv, TypeOK
<1>5. \A i \in 1..Len(net') : (i \in 1..Len(net) /\ net'[i] = net[i]) \/ net'[i] = m
  BY <1>4
<1>6. ASSUME Latest, NothingSensed PROVE Latest' /\ NothingSensed' /\ Steady' /\ Settled'
  <2>1. Latest'
    BY <1>2, <1>3, <1>4, <1>5, <1>6 DEF Latest
  <2>2. NothingSensed'
    BY <1>2, <1>3, <1>5, <1>6 DEF NothingSensed
  <2> QED
    BY <1>3, <2>1, <2>2 DEF Steady, Settled
<1>7. ASSUME ThinkPending PROVE ThinkPending'
  <2>1. \A i \in 1..Len(net') : net'[i].kind = "think" => i \in 1..Len(net) /\ net'[i] = net[i]
    BY <1>2, <1>5
  <2> QED
    BY <1>3, <1>7, <2>1 DEF ThinkPending
<1> QED
  BY <1>3, <1>4, <1>6, <1>7 DEF StepInv, Clocked, Asked

\* The one (think) of a step is sent before its decision.
LEMMA ThinkStep ==
  ASSUME IInv, StepInv, SendThink, faults' = 0
  PROVE  StepInv'
<1> USE DEF IInv, TypeOK
<1> DEFINE m == Message("think")
<1>1. m \in Messages /\ m.kind = "think"
  BY DEF Message, Messages, Kinds, Servers
<1>2. /\ SynchMode /\ Send(m) /\ srv.phase = "sensed" /\ srv'.phase = "thinking"
      /\ srv'.step = srv.step /\ UNCHANGED <<ag, hist>>
  BY DEF SendThink, Servers
<1>3. /\ faults = 0 /\ net' # <<>> /\ Len(net') = Len(net) + 1 /\ Len(net) \in Nat
      /\ net'[Len(net')] = m
      /\ \A i \in 1..Len(net) : net'[i] = net[i]
  BY <1>1, <1>2, SendOnce
<1> HIDE DEF m, IInv, TypeOK
<1>4. ASSUME ThinkPending PROVE ThinkPending'
  <2>1. ~ag.think /\ \A i \in 1..Len(net) : net[i].kind # "think"
    BY <1>2, <1>4 DEF ThinkPending
  <2>2. \A i \in 1..Len(net') : net'[i].kind = "think" => i = Len(net')
    BY <1>3, <2>1
  <2>3. hist.actStep < srv.step
    BY <1>2, <1>4 DEF ThinkPending
  <2> QED
    BY <1>2, <2>1, <2>2, <2>3 DEF ThinkPending
<1> QED
  BY <1>2, <1>3, <1>4 DEF StepInv, Clocked, Asked

LEMMA StepNext ==
  ASSUME IInv, StepInv, [Next]_vars
  PROVE  StepInv'
<1> USE DEF IInv, TypeOK
<1>1. CASE ReceiveMessage
  BY <1>1, ReceiveStep
<1>2. CASE EndOfMessages
  <2>1. net = <<>> /\ UNCHANGED <<net, faults>> /\ ag \in Agents
    BY <1>2 DEF EndOfMessages
  <2>2. CASE Act(ag) /\ MustAct(ag)
    <3>1. SynchMode => ag.think
      BY <2>2 DEF MustAct, DecidesOnMessage
    <3> QED
      BY <2>1, <2>2, <3>1, DecisionStep
  <2>3. CASE UNCHANGED <<ag, srv, hist>>
    BY <2>1, <2>3 DEF StepInv, Clocked, Asked, ThinkPending, Latest, NothingSensed, Steady,
         Settled
  <2> QED
    BY <1>2, <2>2, <2>3 DEF EndOfMessages
<1>3. CASE HandleTimeout
  <2> DEFINE a == [ag EXCEPT !.timeouts = IF @ = MaxTimeouts THEN @ ELSE @ + 1,
                             !.age = IF @ = -1 \/ @ = MaxTimeouts THEN @ ELSE @ + 1]
  <2>1. a \in Agents
    BY TimeoutType
  <2>2. /\ a.now = ag.now /\ a.stopped = ag.stopped /\ a.seeTime = ag.seeTime
        /\ a.lastDecision = ag.lastDecision /\ a.think = ag.think
        /\ ag.age = -1 => a.age = -1
    BY DEF Agents
  <2>3. net = <<>> /\ UNCHANGED <<net, faults>>
    BY <1>3 DEF HandleTimeout
  <2>4. \/ ag' = [a EXCEPT !.alive = FALSE] /\ UNCHANGED <<srv, hist>>
        \/ Act(a) /\ ~SynchMode
        \/ ag' = a /\ UNCHANGED <<srv, hist>>
    BY <1>3 DEF HandleTimeout, IsDecisionTiming
  <2> HIDE DEF a
  <2>5. CASE Act(a) /\ ~SynchMode
    BY <2>1, <2>2, <2>3, <2>5, DecisionStep
  <2>6. ASSUME ag' = [a EXCEPT !.alive = FALSE] \/ ag' = a, UNCHANGED <<srv, hist>>
        PROVE  StepInv'
    <3>1. /\ ag'.now = ag.now /\ ag'.stopped = ag.stopped /\ ag'.seeTime = ag.seeTime
          /\ ag'.lastDecision = ag.lastDecision /\ ag'.think = ag.think
          /\ ag.age = -1 => ag'.age = -1
      BY <2>1, <2>2, <2>6 DEF Agents
    <3>2. Len(net) = 0
      BY <2>3
    <3> QED
      BY <2>3, <2>6, <3>1, <3>2 DEF StepInv, Clocked, Asked, ThinkPending, Latest,
           NothingSensed, Steady, Settled, StraightOf
  <2> QED
    BY <2>4, <2>5, <2>6
<1>4. CASE Exit \/ UNCHANGED vars
  BY <1>4 DEF Exit, vars, StepInv, Clocked, Asked, ThinkPending, Latest, NothingSensed,
       Steady, Settled
<1>5. CASE Server
  <2>1. CASE faults' = 0
    BY <1>5, <2>1, NewStepStep, SensoryStep, AnnounceStep, ThinkStep DEF Server
  <2>2. CASE faults' # 0
    <3>1. hist'.actStep <= srv'.step
      <4>1. /\ hist'.actStep = hist.actStep /\ srv.step \in Nat /\ hist.actStep \in Nat
            /\ srv'.step \in {srv.step, srv.step + 1}
        BY <1>5 DEF Server, NewStep, SendSensory, Announce, SendThink, Servers, Histories
      <4> QED
        BY <4>1 DEF StepInv
    <3> QED
      BY <2>2, <3>1 DEF StepInv, Clocked, Asked
  <2> QED
    BY <2>1, <2>2
<1> QED
  BY <1>1, <1>2, <1>3, <1>4, <1>5 DEF Next, Client

\* While every datagram arrives once, a step gets a second decision only when the
\* referee has spoken in it.
THEOREM OneDecisionPerStep == Spec => SecondDecisionNeedsReferee
<1>1. IInv /\ StepInv /\ [Next]_vars =>
        [Decides /\ faults = 0 /\ srv.step = hist.actStep => hist.announced]_vars
  <2> SUFFICES ASSUME IInv, StepInv, Next, Decides, faults = 0,
                      srv.step = hist.actStep, ~hist.announced
               PROVE  FALSE
    BY DEF vars
  <2> USE DEF IInv, TypeOK
  <2> DEFINE a == [ag EXCEPT !.timeouts = IF @ = MaxTimeouts THEN @ ELSE @ + 1,
                             !.age = IF @ = -1 \/ @ = MaxTimeouts THEN @ ELSE @ + 1]
  <2>1. \/ MustAct(ag)
        \/ ~SynchMode /\ \E s \in SeeVerdicts :
             IsDecisionTiming(a, s, IntervalMSec * a.age, a.timeouts)
    <3>1. CASE ReceiveMessage
      BY <3>1, ReceiveKeeps DEF Decides
    <3>2. CASE Exit \/ Server
      BY <3>2 DEF Exit, Server, NewStep, SendSensory, Announce, SendThink, Histories, Decides
    <3>3. CASE EndOfMessages
      BY <3>3 DEF EndOfMessages, Decides
    <3>4. CASE HandleTimeout
      BY <3>4 DEF HandleTimeout, Decides, IsDecisionTiming
    <3> QED
      BY <3>1, <3>2, <3>3, <3>4 DEF Next, Client
  <2>2. CASE SynchMode
    <3>1. ag.think
      BY <2>1, <2>2 DEF MustAct, DecidesOnMessage
    <3>2. ThinkPending
      BY <2>2 DEF StepInv, Asked
    <3>3. hist.actStep < srv.step
      BY <3>1, <3>2 DEF ThinkPending
    <3> QED
      BY <3>3 DEF Servers
  <2>3. CASE ~SynchMode
    <3>1. Settled /\ NothingSensed
      BY <2>3 DEF StepInv, Clocked
    <3>2. ag.lastDecision # ag.now
      BY <2>3, DecidesAtANewTime
    <3>3. srv.step = 0
      BY <3>1, <3>2 DEF Settled, Servers
    <3>4. ag.age = -1 /\ ag.seeTime # ag.now
      BY <3>1, <3>3 DEF NothingSensed, NoTime, Time, Agents
    <3>5. a.age = -1
      BY <3>4 DEF Agents
    <3> HIDE DEF a
    <3>6. IntervalMSec * a.age \in Int /\ IntervalMSec * a.age < 0
      BY <3>5, PlayerAgentAssumption
    <3>7. ~MustAct(ag)
      BY <2>3, <3>4 DEF MustAct, DecidesOnMessage, HasCurrentSee, NoThink
    <3>8. \E s \in SeeVerdicts : IsDecisionTiming(a, s, IntervalMSec * a.age, a.timeouts)
      BY <2>1, <3>7
    <3>9. IntervalMSec * a.age >= 0
      BY <3>8 DEF IsDecisionTiming
    <3> QED
      BY <3>6, <3>9
  <2> QED
    BY <2>2, <2>3
<1> QED
  BY <1>1, StepInit, StepNext, Invariance, PTL DEF SecondDecisionNeedsReferee, Spec
=============================================================================
