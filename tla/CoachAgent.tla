------------------------------- MODULE CoachAgent -------------------------------
(***************************************************************************)
(* The online coach: its message loop and clock (coach_agent.cpp) and the  *)
(* part of its world model that rations what it may do: the messages in    *)
(* the coach language, the freeform messages and the substitutions         *)
(* (coach_world_model.cpp).                                                *)
(*                                                                         *)
(* The server enforces rations of its own; the coach never hears how much  *)
(* is left and keeps its books by the cycles it decides in.  Server and    *)
(* socket are external; datagrams to the coach arrive once and in order.   *)
(***************************************************************************)
EXTENDS GameTime, Sequences

CONSTANTS
  IntervalMSec,        \* CoachConfig::intervalMSec(): timeout of select()
  ServerWait,          \* CoachConfig::serverWaitSeconds(), in timeouts
  CLangWinSize,        \* clang_win_size: cycles of a window of the coach language
  CLangWin,            \* clang_*_win: messages of one type in a window
  GameLength,          \* actualHalfTime() * nrNormalHalfs()
  CoachSayCountMax,    \* say_coach_cnt_max: freeform messages of a game
  FreeformWaitPeriod,  \* freeform_wait_period, freeform_send_period: when they
  FreeformSendPeriod,  \* may be sent after a play_on
  SubsMax,             \* subs_max: substitutions after the kick-off
  MaxCycle,            \* bound: last cycle of the game
  MaxStep,             \* bound: last step of the server
  MaxNet,              \* bound: datagrams in the socket
  MaxExtra             \* bound: messages besides see_global and think

ASSUME CoachAgentAssumption ==
  /\ IntervalMSec \in Nat \ {0} /\ ServerWait \in Nat \ {0}
  /\ CLangWinSize \in Nat \ {0} /\ CLangWin \in Nat
  /\ GameLength \in Nat \ {0} /\ CoachSayCountMax \in Nat
  /\ FreeformWaitPeriod \in Nat \ {0} /\ FreeformSendPeriod \in Nat
  /\ SubsMax \in Nat
  /\ MaxCycle \in Nat /\ MaxStep \in Nat /\ MaxNet \in Nat /\ MaxExtra \in Nat

VARIABLES
  conf,  \* synch mode of the server; eye, whether the coach asked for see_global
  srv,   \* server: cycle, step, mode, phase of the step, messages sent besides
         \* those of the step, the requests of the coach it has not answered, the
         \* substitutions it has counted
  net,   \* the datagrams waiting in the coach's socket, in order
  pc,    \* client loop: "select", "drain" (inside handleMessage), "exit"
  ag,    \* CoachAgent::Impl
  wm,    \* CoachWorldModel
  hist   \* history, read by properties only: count, restricted messages sent in the
         \* window; missed, whether a cycle went undecided; restarts, the cycles within
         \* which a stopped clock was restarted

vars == <<conf, srv, net, pc, ag, wm, hist>>

\* One mode for each class of GameMode the coach tells apart.
GameModes == {"before_kick_off", "free_kick", "play_on", "time_over"}
IsServerCycleStoppedMode(m) == m = "before_kick_off"
IsGameEndMode(m) == m = "time_over"

Kinds == {"see_global", "hear", "referee", "think", "change_player_type", "ok"}
Requests == {"change_player_type", "check_ball"}

Message(kind) == [kind |-> kind, cycle |-> srv.cycle, mode |-> srv.mode]

Send(m) == Len(net) < MaxNet /\ net' = Append(net, m)

-----------------------------------------------------------------------------
(* The books of the world model.                                           *)

NewWorldModel ==
  [time |-> NoTime, mode |-> "before_kick_off", playonStart |-> 0, capacityTime |-> -1,
   capacity |-> 0, allowed |-> CoachSayCountMax, sent |-> 0, subs |-> 0]

\* Mutant: the time stays that of the last decision or referee message.
MutUpdateAfterSeeGlobal(w, now) == w
UpdateAfterSeeGlobal(w, now) == [w EXCEPT !.time = now]

UpdateGameMode(w, mode, now) ==
  [w EXCEPT !.time = now, !.mode = mode,
            !.playonStart = IF w.mode # "play_on" /\ mode = "play_on" THEN now.cycle ELSE @]

\* Only the substitutions after the kick-off count.
ChangePlayerType(w) == [w EXCEPT !.subs = IF w.time.cycle > 0 THEN @ + 1 ELSE @]

\* A decision that finds the window over begins the next one.
RefillIsDue(w) == w.capacityTime < 0 \/ w.time.cycle - w.capacityTime >= CLangWinSize

\* Mutant: the first window begins with the first decision, even before the kick-off.
MutWindowStart(w) == w.time.cycle
WindowStart(w) == IF w.time.cycle <= 1 THEN 1 ELSE w.time.cycle

\* Mutant: every decision of a stopped clock counts.
MutNewAllowance(w) == w.time.cycle > 0 /\ w.time.cycle % GameLength = 0

\* A new game length, as in an extended game, brings new freeform messages.
NewAllowance(w) ==
  w.time.cycle > 0 /\ w.time.stopped = 0 /\ w.time.cycle % GameLength = 0

UpdateCLangCapacity(w) ==
  [w EXCEPT !.capacity = IF RefillIsDue(w) THEN CLangWin ELSE @,
            !.capacityTime = IF RefillIsDue(w) THEN WindowStart(w) ELSE @,
            !.allowed = IF NewAllowance(w) THEN @ + CoachSayCountMax ELSE @]

UpdateJustBeforeDecision(w, now) == UpdateCLangCapacity([w EXCEPT !.time = now])

\* Outside play_on the coach language is free.
CanSendCLang(w) == w.mode # "play_on" \/ w.capacity > 0
DecCLangCapacity(w) ==
  [w EXCEPT !.capacity = IF w.mode # "play_on" \/ @ = 0 THEN @ ELSE @ - 1]

\* In play_on a short period for freeform messages follows each wait.
CanSendFreeform(w) ==
  LET period == w.time.cycle - w.playonStart
  IN /\ w.sent < w.allowed
     /\ w.mode = "play_on" => /\ period > FreeformWaitPeriod
                              /\ period % FreeformWaitPeriod < FreeformSendPeriod

-----------------------------------------------------------------------------
(* The agent's handlers.                                                   *)

NewAgent ==
  [now |-> Time(0, 0), lastDecision |-> NoTime, seeTime |-> NoTime, stopped |-> TRUE,
   think |-> FALSE, alive |-> TRUE, timeouts |-> 0]

\* Mutant: the message's cycle is taken for the one that ended.
MutUpdateCurrentTime(a, c, bySeeGlobal) ==
  [a EXCEPT !.now = IF ~a.stopped \/ c # @.cycle THEN Time(c - 1, 0)
                    ELSE IF bySeeGlobal THEN Time(c, @.stopped + 1)
                    ELSE @]

\* On a stopped clock only a see_global proves that time has passed.
UpdateCurrentTime(a, c, bySeeGlobal) ==
  [a EXCEPT !.now = IF ~a.stopped \/ c # @.cycle THEN Time(c, 0)
                    ELSE IF bySeeGlobal THEN Time(c, @.stopped + 1)
                    ELSE @]

AnalyzeSeeGlobal(a, m) ==
  LET b == UpdateCurrentTime(a, m.cycle, TRUE)
  IN ag' = [b EXCEPT !.seeTime = b.now] /\ wm' = UpdateAfterSeeGlobal(wm, b.now)

\* The message of a player.
AnalyzeHear(a, m) == ag' = UpdateCurrentTime(a, m.cycle, FALSE) /\ UNCHANGED wm

\* The end of the game is answered with (bye) and never reaches the world model.
AnalyzeHearReferee(a, m) ==
  LET b == UpdateCurrentTime(a, m.cycle, FALSE)
  IN /\ ag' = [b EXCEPT !.stopped = IsServerCycleStoppedMode(m.mode),
                        !.alive = @ /\ ~IsGameEndMode(m.mode)]
     /\ wm' = IF IsGameEndMode(m.mode) THEN wm ELSE UpdateGameMode(wm, m.mode, b.now)

Parse(a, m) ==
  \/ m.kind = "see_global" /\ AnalyzeSeeGlobal(a, m)
  \/ m.kind = "hear" /\ AnalyzeHear(a, m)
  \/ m.kind = "referee" /\ AnalyzeHearReferee(a, m)
  \/ m.kind = "think" /\ ag' = [a EXCEPT !.think = TRUE] /\ UNCHANGED wm
  \/ m.kind = "change_player_type" /\ ag' = a /\ wm' = ChangePlayerType(wm)
  \/ m.kind = "ok" /\ ag' = a /\ UNCHANGED wm

\* The window of the server that a cycle belongs to.
Window(c) == IF c = 0 THEN 0 ELSE (c - 1) \div CLangWinSize

NoteDecision(a, restricted) ==
  LET last == IF a.lastDecision.cycle < 0 THEN 0 ELSE a.lastDecision.cycle
      count == IF Window(a.now.cycle) = hist.window THEN hist.count ELSE 0
  IN hist' = [hist EXCEPT !.window = Window(a.now.cycle),
                          !.count = IF restricted THEN count + 1 ELSE count,
                          !.missed = @ \/ last + 1 < a.now.cycle]

\* The decision: actionImpl() may ask for a substitution, which is sent whether or not
\* canSubstitute() advises it, and may leave a message in the coach language and a
\* freeform one, which are sent if the books allow.
Decide(a, asked) ==
  LET w == UpdateJustBeforeDecision(wm, a.now)
  IN \E clang, freeform, change \in BOOLEAN :
       /\ clang => CanSendCLang(w)
       /\ freeform => CanSendFreeform(w)
       /\ LET v == IF clang THEN DecCLangCapacity(w) ELSE w
          IN wm' = IF freeform THEN [v EXCEPT !.sent = @ + 1] ELSE v
       /\ srv' = [srv EXCEPT
                    !.asked = IF change THEN asked \cup {"change_player_type"} ELSE asked,
                    !.phase = IF a.think THEN "done" ELSE @]
       /\ NoteDecision(a, clang /\ w.mode = "play_on")

\* Mutant: a (think) for a time that is already decided is not answered.
MutAct(a, asked) ==
  /\ ag' = [a EXCEPT !.lastDecision = a.now, !.think = FALSE]
  /\ IF a.lastDecision # a.now THEN Decide(a, asked) ELSE UNCHANGED <<srv, wm, hist>>

\* action() after the requests asked: the decision, once for a game time, and (done) for every (think).
Act(a, asked) ==
  /\ ag' = [a EXCEPT !.lastDecision = a.now, !.think = FALSE]
  /\ IF a.lastDecision # a.now
     THEN Decide(a, asked)
     ELSE /\ srv' = [srv EXCEPT !.asked = asked, !.phase = IF a.think THEN "done" ELSE @]
          /\ UNCHANGED <<wm, hist>>

-----------------------------------------------------------------------------
(* The server.                                                             *)

Init ==
  /\ conf \in [synch : BOOLEAN, eye : BOOLEAN]
  /\ srv = [cycle |-> 0, step |-> 0, mode |-> "before_kick_off", phase |-> "done",
            extra |-> 0, asked |-> {}, subs |-> 0]
  /\ net = <<>>
  /\ pc = "select"
  /\ ag = NewAgent
  /\ wm = NewWorldModel
  /\ hist = [window |-> 0, count |-> 0, missed |-> FALSE, restarts |-> {}]

\* A new step; a coach with eyes gets a see_global.
NewStep ==
  LET c == IF IsServerCycleStoppedMode(srv.mode) THEN srv.cycle ELSE srv.cycle + 1
  IN /\ ~IsGameEndMode(srv.mode)
     /\ conf.synch => srv.phase = "done"
     /\ srv.step < MaxStep /\ c <= MaxCycle
     /\ srv' = [srv EXCEPT !.cycle = c, !.step = @ + 1, !.phase = "new"]
     /\ IF conf.eye
        THEN Send([kind |-> "see_global", cycle |-> c, mode |-> srv.mode])
        ELSE UNCHANGED net
     /\ UNCHANGED <<conf, pc, ag, wm, hist>>

\* A message of a player.
SendHear ==
  /\ ~IsGameEndMode(srv.mode) /\ srv.extra < MaxExtra
  /\ srv' = [srv EXCEPT !.extra = @ + 1]
  /\ Send(Message("hear"))
  /\ UNCHANGED <<conf, pc, ag, wm, hist>>

\* The referee changes the play mode.
Announce ==
  /\ ~IsGameEndMode(srv.mode) /\ srv.extra < MaxExtra
  /\ \E m \in GameModes \ {srv.mode} :
       /\ srv' = [srv EXCEPT !.mode = m, !.extra = @ + 1]
       /\ Send([kind |-> "referee", cycle |-> srv.cycle, mode |-> m])
  /\ UNCHANGED <<conf, pc, ag, wm, hist>>

\* The server takes a substitution outside play_on, up to SubsMax of them after the
\* kick-off; it refuses another.
TakesSubstitution ==
  srv.mode # "play_on" /\ (srv.cycle > 0 => srv.subs < SubsMax)

\* Any other answer is an ok or an error, of which the coach keeps nothing.
AnswerRequest ==
  /\ ~IsGameEndMode(srv.mode) /\ srv.extra < MaxExtra
  /\ \E r \in srv.asked :
       LET taken == r = "change_player_type" /\ TakesSubstitution
       IN /\ srv' = [srv EXCEPT !.asked = @ \ {r}, !.extra = @ + 1,
                                !.subs = IF taken /\ srv.cycle > 0 THEN @ + 1 ELSE @]
          /\ Send(Message(IF taken THEN r ELSE "ok"))
  /\ UNCHANGED <<conf, pc, ag, wm, hist>>

\* Synch mode: one (think) in a step, then the server waits for (done).
SendThink ==
  /\ conf.synch /\ srv.phase = "new"
  /\ srv' = [srv EXCEPT !.phase = "thinking"]
  /\ Send(Message("think"))
  /\ UNCHANGED <<conf, pc, ag, wm, hist>>

-----------------------------------------------------------------------------
(* The client loop.                                                        *)

\* handleMessage receives and parses until the socket is empty.
ReceiveMessage ==
  /\ pc \in {"select", "drain"} /\ net # <<>>
  /\ pc = "select" => ag.alive
  /\ pc' = "drain"
  /\ net' = Tail(net)
  /\ Parse([ag EXCEPT !.timeouts = 0], Head(net))
  /\ hist' = [hist EXCEPT !.restarts =
                IF ag'.now.cycle = ag.now.cycle /\ ag'.now.stopped < ag.now.stopped
                THEN @ \cup {ag.now.cycle} ELSE @]
  /\ UNCHANGED <<conf, srv>>

\* The end of handleMessage: a (think), and nothing else, is acted upon.
EndOfMessages ==
  /\ pc = "drain" /\ net = <<>>
  /\ pc' = "select"
  /\ IF ag.think THEN Act(ag, srv.asked) ELSE UNCHANGED <<srv, ag, wm, hist>>
  /\ UNCHANGED <<conf, net>>

\* Mutant: a coach without eyes waits no longer than another.
MutServerDown(a) == a.timeouts > ServerWait

\* A coach without eyes waits twice as long.
ServerDown(a) == a.timeouts > (IF conf.eye THEN ServerWait ELSE 2 * ServerWait)

\* A decision waits for see_global or for 20 ms without any message.
DecidesOnTimeout(a) ==
  a.lastDecision # a.now /\ (a.seeTime = a.now \/ IntervalMSec * a.timeouts >= 20)

\* A timeout of select(): the server is down, or it is asked for a sign of life, and
\* it may be time to decide.
HandleTimeout ==
  /\ pc = "select" /\ net = <<>> /\ ag.alive
  /\ LET a == [ag EXCEPT !.timeouts = @ + 1]
         asked == IF a.timeouts > ServerWait THEN srv.asked \cup {"check_ball"} ELSE srv.asked
     IN IF ServerDown(a)
        THEN ag' = [a EXCEPT !.alive = FALSE] /\ UNCHANGED <<srv, wm, hist>>
        ELSE IF DecidesOnTimeout(a)
        THEN Act(a, asked)
        ELSE ag' = a /\ srv' = [srv EXCEPT !.asked = asked] /\ UNCHANGED <<wm, hist>>
  /\ UNCHANGED <<conf, net, pc>>

\* The loop ends when the server is not alive; handleExit has nothing to send.
Exit ==
  /\ pc = "select" /\ ~ag.alive
  /\ pc' = "exit"
  /\ UNCHANGED <<conf, srv, net, ag, wm, hist>>

Client == ReceiveMessage \/ EndOfMessages \/ HandleTimeout \/ Exit
Server == NewStep \/ SendHear \/ Announce \/ AnswerRequest \/ SendThink

Next == Client \/ Server

Spec == Init /\ [][Next]_vars

-----------------------------------------------------------------------------
(* Properties.                                                             *)

\* Type invariant.
TypeOK ==
  /\ conf \in [synch : BOOLEAN, eye : BOOLEAN]
  /\ srv \in [cycle : Nat, step : Nat, mode : GameModes, phase : {"new", "thinking", "done"},
              extra : Nat, asked : SUBSET Requests, subs : Nat]
  /\ net \in Seq([kind : Kinds, cycle : Nat, mode : GameModes])
  /\ pc \in {"select", "drain", "exit"}
  /\ ag \in [now : [cycle : Nat, stopped : Nat], lastDecision : GameTimes,
             seeTime : GameTimes, stopped : BOOLEAN, think : BOOLEAN, alive : BOOLEAN,
             timeouts : Nat]
  /\ wm \in [time : GameTimes, mode : GameModes, playonStart : Nat, capacityTime : Int,
             capacity : Nat, allowed : Nat, sent : Nat, subs : Nat]
  /\ hist \in [window : Nat, count : Nat, missed : BOOLEAN, restarts : SUBSET Nat]

\* A coach that decides in every cycle keeps its windows in step with those of the
\* server, the first of which ends CLangWinSize cycles after the kick-off: in none of
\* them does it send more than CLangWin messages of a type during play_on.
CLangWithinWindow == ~hist.missed => hist.count <= CLangWin

\* The coach never sends more freeform messages than the lengths of the game that
\* have begun allow, except when a stopped clock is restarted within the cycle in
\* which a new length begins: that cycle is then decided twice at (t, 0).
FreeformWithinAllowance ==
  (\A c \in hist.restarts : c = 0 \/ c % GameLength # 0)
    => wm.sent <= CoachSayCountMax * (1 + ag.now.cycle \div GameLength)

\* A coach that gets see_global and has read all its messages counts the same
\* substitutions as the server, whose answers tell no cycle.
SubstitutesCounted == conf.eye /\ net = <<>> => wm.subs = srv.subs

\* Synch mode: a living coach that has read all its messages leaves no (think)
\* unanswered, whether or not its time was decided before: otherwise server and coach
\* would wait for each other.
NoThinkIsLeft == pc = "select" /\ net = <<>> /\ ag.alive => srv.phase # "thinking"

\* A coach without see_global, which may hear nothing for long, gives the server up
\* only while a check_ball it sent is unanswered.
GivesUpUnanswered ==
  [][pc = "select" /\ ag.alive /\ ~ag'.alive /\ net = <<>> /\ ~conf.eye
       => "check_ball" \in srv.asked]_vars
=============================================================================
