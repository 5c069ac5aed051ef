# librcsc: a verification development

librcsc is the base library of the RoboCup soccer simulation clients: the player
agent that talks to the soccer server over UDP, its world model, and the agents of
the coach and the trainer. The code is C++; each agent is one thread that reacts to
datagrams and timeouts. What is hard in it is not concurrency within the program
but the asynchrony with the server: the agent reconstructs the server's clocks,
phases and verdicts from messages that may be lost, doubled, late or in another
order, and must send the commands of each cycle once, in time.

## 1. The system

| component | state | operations | talks to |
|---|---|---|---|
| client loop (`common/online_client.cpp`, `abstract_client.cpp`, `gz/`) | socket, alive flag, timeout count, compressors | `run`: select, `handleMessage`, `handleTimeout`, `handleExit` | the agent (callbacks), the server (UDP) |
| player agent (`player/player_agent.cpp`) | `current_time_`, `last_decision_time_`, `server_cycle_stopped_`, `think_received_`, game mode, sensors, intention | one handler per message, `handleTimeout`, `action`, adjustments of the view | everything below |
| see synchronization (`player/see_state.cpp`, `action/view_synch.cpp`) | counts of sees per cycle, believed timing, cycles till the next see | `updateBySee`, `updateBySenseBody`, `setNewCycle`, `setViewMode`; the adjustments | agent, effector (change_view) |
| action effector (`player/action_effector.cpp`) | registered commands, counters per kind, effects of the last commands, time of the last catch | `setKick` ..., `makeCommand`, `checkCommandCount`, `reset` | agent, world model |
| world model (`player/world_model.cpp`, `self_object`, `ball_object`, `player_object`) | objects with positions, velocities, confidence counters; time; game mode | `update`, `updateAfterSenseBody`, `updateAfterSee`, `updateJustBeforeDecision`, `updateJustAfterDecision` | effector (read), sensors |
| penalty kick state (`player/penalty_kick_state.cpp`) | whose kick, takers, scores, order of takers | `update` by referee messages, `setKickTakerOrder` | world model |
| sensors (`visual_sensor`, `body_sensor`, `audio_sensor`, `fullstate_sensor`) | last parsed message | `parse` | agent |
| say messages (`say_message_builder`, `audio_codec`, `audio_memory`) | codec tables, messages heard per time | build, parse, set | effector, world model |
| intentions (`soccer_intention.h`) | one intention | `finished`, `execute`, reset by the referee | agent |
| coach agent, coach world model (`coach/`) | time, visual states, message capacities, substitutions | as the player's, with global vision | client loop |
| trainer agent (`trainer/`) | time, visual states | as the coach's | client loop |
| stamina model, game mode (`common/stamina_model.cpp`, `util/game_mode.cpp`) | numbers, mode | simulate, parse | world models |
| interception, localization, formations, geometry, neural networks, actions | none between cycles | floating-point functions | world model |
| coach language, parameters, net, time, rcg, monitor, command-line tools | none between messages | parsers, serializers, wrappers | - |

`PROJECT.json` has a row for each of them, with the reason where it is not modelled,
and a list of hazards with their lines.

**What makes them correct.** The clock never goes back and a cycle is decided once
and before it ends; the phase of the see clock the agent believes in is the server's;
a synchronized agent stays synchronized; what the world model integrates is what the
server executed; a count says how many cycles ago something was seen; no player is remembered twice and a number that was seen stands; the players of a
team, who never talk about it, agree whose penalty kick it is; a (think) is always answered; a dead server is
noticed.

**What is hard.** Two clocks of the server (see every 150, 75 or 37.5 ms and cycles of
100 ms) that the agent sees only as counts; a cycle number that stands still while
steps go on; a command whose only acknowledgement is a counter one cycle later; sights of players without
number or team; announcements that each player counts for itself; faults of UDP at each of these places.

## 2. The modules

| module | models | role |
|---|---|---|
| `GameTime` | `game_time.h` | times (cycle, stopped) and their order |
| `SeeState` | `see_state.cpp`, `see_state.h` | the mutators and tests of SeeState as operators on a record |
| `DecisionTiming` | `isDecisionTiming`, the end of `handleMessage` | the two rules that decide when to act; shared by the next two |
| `SeeSync` | `see_state.cpp` in its use by `player_agent.cpp`, `view_synch.cpp`; the server's clocks | state machine of the synchronization |
| `PlayerAgent` | `OnlineClient::run`, `handleMessage`, `handleTimeout`, the message handlers | state machine of the clock and the decisions |
| `ActionEffector` | `action_effector.cpp`, the internal update of the world model | state machine of commands, counts and believed effects |
| `CoachAgent` | `coach_agent.cpp`, the rations in `coach_world_model.cpp` | state machine of the coach's clock, decisions and books |
| `Turns` | - | what the message loop promises to the parts that send commands: the abstract specification `PlayerAgent` implements |
| `PlayerTracking` | the lists of players in `world_model.cpp`, `player_object.cpp` | state machine of the remembered players |
| `BallMemory` | `ball_object.cpp`, `self_object.cpp`, the ball in `world_model.cpp` | state machine of the counters of ball and self, and of the velocities taken from sights |
| `Referee` | `analyzeHearReferee`, `game_mode.cpp`, `penalty_kick_state.cpp`, the intention | state machine of what a team hears of the referee |
| `PlayerAgentProofs`, `ActionEffectorProofs`, `CoachAgentProofs`, `RefereeProofs`, `BallMemoryProofs`, `PlayerTrackingProofs`, `SeeSyncProofs` | - | theorems |
| `Counting` | - | lemmas about counting in sequences, for `RefereeProofs` |
| `MCSeeSync`, `MCPlayerAgent`, `MCActionEffector`, `MCCoachAgent`, `MCPlayerTracking`, `MCBallMemory`, `MCReferee` | - | constants for TLC |

`SeeSync` and `PlayerAgent` cut the agent along one interface: what SeeState believes.
`PlayerAgent` lets it be anything (`SeeVerdicts`), so what it shows of the clock holds
whatever the synchronization does; `SeeSync` fixes whether the clock of the game runs or stands still for a whole
behaviour and shows what the synchronization does. The change from one to the other is `PlayerAgent`'s. Both use the same `DecisionTiming`.

`PlayerAgent` and `ActionEffector` cut it along another: when there is a decision. `Turns` states it.
A decision is for the current cycle; the cycle only grows; a cycle is decided once, unless the clock stood
still in it or, in synch mode, the server asked; nothing is decided after the end. `PlayerAgent` implements
`Turns`: `TakesTurns` is a PROPERTY of its run and a theorem. `ActionEffector` lets the agent decide at any moment of a cycle, but once: that
guard, `MayDecide`, is an assumption there, of what `Turns` says of a running clock, and no property of `ActionEffector` restates it.
`Turns` has one variable, `turn`, that flips with each decision, so that two decisions at one time are two steps and not one and a stutter.

### SeeSync

Time is counted in units of 12.5 ms, eight to a cycle, the resolution at which the
server's see clock and cycle clock differ. `srv` is the server: its view mode, the
looks since the last see, and where in the cycle that see fell. `clock` runs over
six cycles, which is long enough for every pattern of see counts to return (the
periods of see are 12, 6 and 3 units against 8), and starts anywhere, so the two
clocks have any phase. `Tick` advances the clock and sends a `sense_body` at unit 0 and
a `see` when it is due, in either order when both fall together.
`HandleMessage` drains one or two messages, as `handleMessage` does, and decides when the
code would; `HandleTimeout` decides by `isDecisionTiming` at either end of the unit;
`Think` is synch mode. A decision (`Decided`) is the adjustment of the mode, the view
action, and `setViewMode` for the change_view that is sent. The variable `conf`, chosen once, has the
circumstances: `synch` (the server's synch mode), `view` (`"any"` stands for behaviours that ask for an
arbitrary width, `"View_Synch"` for that view action), `stopped`, `playOnAllowed`, `reorder` and `maxLost`. `MCSeeSync` lists fourteen of them; one run
explores all, and each property names the circumstances it is about.

`stopped` says what the cycle number does. On a running clock each message tells its cycle. On a stopped one (before the kick-off, after a goal)
all messages carry the same number, and only a sense_body proves that a step has passed (`UpdateCurrentTime`, after `player_agent.cpp:428-486`):
the stopped part of the time is incremented by it, while a see that overtakes it counts for the step before, and if that step
had its see already, `updateBySee` takes it for a duplicate and drops the synchronization (`see_state.cpp:188-198`).

### PlayerAgent

`srv` has the cycle number, the step that always advances, the play mode and how far
a synch-mode step is; `net` is the socket. `NewStep`, `SendSensory`, `Announce`,
`SendThink` are the server; each datagram may be lost or doubled while `MaxFaults`
allows. `ReceiveMessage` is one turn of the loop in `handleMessage`, `EndOfMessages` what
follows it, `HandleTimeout` the handler of that name and `Exit` the end of
`OnlineClient::run`. `ag` has the agent's variables under short names: `now`
(`current_time_`), `lastDecision`, `stopped` (`server_cycle_stopped_`), `think`, `alive`,
`age` (timeouts since the sense_body, that is `msec_from_sense`), `timeouts`. `hist` is
written for the properties and read by nothing else.

### ActionEffector

The clock runs, a time is a cycle number. `eff` is the effector: the counters, the types of
the last two body commands, whether turn_neck was done, the stored effect of each kind
of body command (the cycle that registered it; 0 is "cleared"), the time of a catch.
`srv.ran` remembers for every cycle what the server executed. `Action` is `action()` from the
internal update and `reset()` to the datagram that leaves: any set of body commands may
be registered in a cycle (each setter writes its effects), the last one is sent, a
dummy turn if there is none. `AdjustSee` is the change_view the agent sends outside of
`action()`. `HandleSenseBody` checks the counters, then updates the world.
Powers, angles and positions are abstracted to "the effect registered in cycle c".

### CoachAgent

The online coach runs in the same client loop but decides by other rules: a (think) is
acted upon at the end of `handleMessage`, everything else waits for a timeout
(`DecidesOnTimeout`), and only a see_global proves that a stopped clock has moved. `conf`
chooses synch mode and whether the coach asked for see_global; without it the coach asks
for the ball after `ServerWait` and gives up after twice that time. `ag` is
`CoachAgent::Impl`; `wm` has what `CoachWorldModel` keeps of the rations: `capacity` and
`capacityTime` (`M_clang_capacity`, of one type of message, since the types do not
interact, and its update time), `allowed` and `sent` (freeform messages), `subs` (our substitutions),
and the `time`, `mode` and `playonStart` by which it reckons. `Decide` is `updateJustBeforeDecision`, any choice of
`actionImpl`, `sendCLang` and `sendFreeformMessage`. The contents of the messages, the types of the
players, cards and the recorded states are left out; a message whose sending fails is one that was not wished for.
The protocol is 7.0 or later and say_coach_cnt_max is not negative (a negative one lifts the limit).
Datagrams to the coach arrive once and in order here. The server takes a
substitution outside play_on and counts those after the kick-off, the rule `canSubstitute` anticipates. That test is advice:
`doChangePlayerType` does not consult it, so the coach of the model may ask at any decision.

### PlayerTracking

`obj` gives each player object its list (teammates, opponents, unknown, none), number, goalie mark,
`posCount`, `ghost`, and whether the number was seen in this cycle (`sure`). Positions are left out, so that any sight may match
any object that `checkTeamPlayer` and `checkUnknownPlayer` let it match, or none: every outcome of the geometry is
among the choices, and the inferences that depend on it (the rearmost player, who is near the ball) are choices
as well. `Update` is `update()` with the pointers it reads and clears, `See` is `updateAfterSee` from `localizePlayers` through the check of numbers
of players to `checkGhost`, `Fullstate` is `updateAfterFullstate`, and `BeginDecision` to `UpdatePlayerStateCache` are
`updateJustBeforeDecision`: what was heard, the last number left, the goalies, the kickable players.
`SetCard` is `WorldModel::setCard`, called by `analyzeHearReferee`: every player with the number on the card is forgotten (`Forget`: its
count becomes `Forgotten`, 1000) but stays in its list until the next update drops it. `Carded` bounds the teams that are shown cards.
A see is one map from objects to sights: with the nearest object chosen freely the order of the five passes of `localizePlayers` makes no
difference. `guess` is history: it marks who was taken for a goalie without being seen as one, which is where the properties make their exception.
`WorldModel::updatePlayer` and the setters of the goalies' numbers are for strategies; nothing in the library calls them and they are left out.

### BallMemory

`wm` is the world model of one agent: the counters of `BallObject` (`ball`, and `prev` for `M_prev_ball`) and of `SelfObject` (`self`), the
time, the game mode and what was heard. `moves` are the last moves of the player; a velocity is represented by the difference it was taken from:
over how many steps, since which sight, with which moves. Every comparison of distances or speeds may come out either way, so each
branch of `localizeBall`, `estimateBallVelByPosDiff`, `updateByHear` and `updateBallCollision` whose test of the counters
lets it be taken is taken. `SenseBody`, `See`, `Fullstate`, `HearReferee` and `Decide` are the handlers down to what they do with ball and self,
in any order within a cycle; each begins with the update of a new cycle. `eff` is the part of the effector that they read. `hist` is history: the last
cycle without an update, the last collision that aged the sight, the cycles whose sense_body was read (`told`), those of them in which the face angle
was not valid then (`blind`), how often the ball was missed since it
was last seen, heard of or put on the spot. `conf` holds the circumstances of a run, so that one run looks at several.
Left out are tackles, the lost count, which only strategies read, and collisions that are estimated from the speed, for servers that do not tell of them.

### Referee

`ref` is the referee, `net` the announcements on their way to each player, `pl` what each player of the team makes of them:
`gm` (`game_mode_`, of agent and world model), `pk` (`PenaltyKickState`) and whether there is an intention.
Announcements come late and one may come twice to the players in `Echoes`; the order is kept. `HearReferee` is `analyzeHearReferee` with
everything it calls. `SetOrder` is the strategy's `setPenaltyKickTakerOrder`, legal or not.
The announcement of a goalie's catch and the free kick after it are one action, as the server sends both at once.
In the shootout the time stands still. Left out are cards, training episodes, strings that are no
play mode, the count of set plays and the stamina of a new half. The reset of the intention is part of `HearReferee`, but no property is
about it: it could only repeat which modes the test names.

## 3. The runs

| run | question | bounds |
|---|---|---|
| `see` | is the believed phase the real one, or how far is it off, does the estimate of the next see come true, does every cycle bring a see, is the synchronization found and kept? | the fourteen circumstances of `MCSeeSync`: clock running or stopped, synch mode or not, any view action or View_Synch, sees that overtake their sense_body; complete state space for each, threshold 79; play_on, and a loss on either clock, out of synch mode |
| `see_synch_play` | (violation) is it found in synch mode after a play_on? | no loss |
| `agent` | clock and decisions | 3 steps, 2 cycles, 2 extra messages per step, socket of 2, 1 fault |
| `agent_synch` | (think) and the end of the server | as above, no fault |
| `coach` | does the coach keep the same books as the server, answer every (think), and give up only on a server that does not answer? | 4 steps, 4 cycles, 4 messages besides see_global and think, socket of 2; windows and game of 2 cycles |
| `effector` | does the world model integrate what was executed, are alarms losses? | 3 cycles, 1 loss, commands kick, turn, turn_neck, change_view |
| `effector_missed` | (violation) the same when a cycle may pass without a decision | no loss |
| `effector_catch` | (violation) does the goalie remember its catch while the ban lasts? | no loss |
| `players` | is a player remembered twice, does a seen number stand, do the pointers point to somebody? | teams of two, three objects, the agent is the goalie, positions last two cycles, one thing heard per decision, cards for teammates |
| `players_stale` | (violation) does the opponent at the ball exist? | as above, unnumbered players forgotten after the second miss |
| `ball` | does a velocity taken from two sights span the cycles it is taken over, and nothing happen between them that the agent was told of; is a ball that was missed twice forgotten? | the five circumstances of `MCBallMemory`: four cycles of a calm game, three with a loss, collisions, talk of the ball, stops of the game and a fullstate |
| `referee` | do the players know whose kick it is, the score, and that the goalie has caught the ball? | two players, three kicks a side, socket of 2, three announcements before the shootout, one of which may come twice to one player |

**Why the bounds are enough.** In SeeSync only losses are bounded: the clock is
cyclic (also the count of stopped steps), ages saturate (`MaxAge`) after the last threshold, so the state space of each run
is complete. In PlayerAgent three steps give a decided step, the one after and a mode
change between them; a step has the sense_body and two more messages, so a referee
message and a see can come in each order with it; thresholds of 10 and 20 ms with an
interval of 10 keep their order and their distance to `timeout_count <= 2`. Timeouts
saturate at `MaxTimeouts`, after which the code makes no difference between counts. In
ActionEffector three cycles are the command, its acknowledgement and the command after a
lost one; the theorems have no bound on cycles or losses. In CoachAgent
the game and the window of the coach language have two cycles, so that both begin anew within the four
cycles of a run, and stopped steps fit in between; each ration is 1, and four messages suffice for a start, a
stop, a restart and what follows it. In PlayerTracking two opponents are the least in which a number
can be doubled, three objects the least in which a team of two overflows (its own limit is one mate), and the threshold of ghosts is 0 in
`players` so that a player of a team is erased within the two cycles it is remembered; play_on begins only after the first decision, since before it the
lists are empty. Cards go to teammates; with cards for the opponents as well it holds too, but takes four minutes. In BallMemory a difference over three steps needs four
cycles, all others three; the thresholds are 2 and 3, so that each count passes its own within a run. In Referee the order of two takers wraps with the third kick; two messages on the way are the most one announcement
makes (catch and free kick, foul and miss), and the theorems have no bound at all. Deadlock is not checked
where the bounds on cycles or steps end the behaviour; it is in the runs of SeeSync,
whose system never stops.

**Fairness.** `PlayerAgent!FairSpec` has weak fairness of the client only: the loop runs
as long as it can take a step (select has a timeout, so it always returns). Nothing is
assumed of server or network: a server that stops sending is a behaviour, and
`ServerDownIsNoticed` is about it. `SeeSync!FairSpec` adds that the server's clock runs, and
in synch mode that it thinks: its timers do. No fairness is given to losses, to play_on
or to timeouts. CoachAgent has safety properties only: its loop is that of PlayerAgent.

### What the violation runs show

* `effector_missed`. `reset()` is called by `action()` only. After a cycle without a decision the
  world model integrates the effects of the last command again.
* `effector_catch`. `reset()` also clears the time of the last catch; two cycles later the
  goalie takes its catch probability for real again.
* `see_synch_play`. The adjustment of synch mode does nothing for a view that is narrow and
  high, the view that play_on sets.
* `players_stale`. A see that arrives after the decision of its cycle erases the unknown player that
  `M_kickable_opponent` points to; the next `update()` asks it for its number before the pointer is cleared.

### What changing a .cfg shows

These are observations outside the listed runs.

* `view = "any"` with `EstimateComesTrue`: violated, since `updateBySee` computes the
  cycles till the next see before it knows the timing of the see at hand. With View_Synch the
  estimate comes true.
* `stopped` with `reorder` is the case that `Calm` excludes. There `TimingTracksServer` is violated: a see that overtakes its sense_body counts for
  the cycle before, the pattern "three, then two" appears one look late, and the agent takes 12.5 ms after the sense_body for 0, against the comment in
  `isSynchedSeeCountNormalMode` that the last see timing is then TIME_0_00. `PhaseIsClose`, checked in the run `see`, bounds the
  error: one unit, and none in synch mode. `SynchIsKept` without `~Overtaken` is violated by the second see of a time
  (`see_state.cpp:188-198`), so a synchronized agent loses what it knows, and with the view action of
  any width `SeeInEveryCycle` fails as well; `SynchIsFound` fails in synch mode.
* One lost message on a stopped clock can give a wrong phase; `SynchIsFound` holds nonetheless. In synch mode one loss, on either
  clock, is enough for `SynchIsFound` to fail even without a play_on, by the state that `see_synch_play` shows.
* `playOnAllowed` with `TimingTracksServer`: violated. A play_on during the
  adjustment changes the view while the counts of the former view still stand, and a pattern of
  counts is taken for another phase. It is repaired in the next stoppages (`SynchIsFound`).
* `PlayerAgent` with "a step is decided once": violated. On a stopped clock the agent decides at (t, n). If the referee restarts
  the clock in the same step and another message of cycle t follows (`player_agent.cpp:490`, `570`),
  the time becomes (t, 0), "not yet decided", and a second set of commands goes
  to the same step. `SecondDecisionNeedsReferee` shows that without a fault on the network
  this is the only way.
* `CoachAgent` without the condition of `CLangWithinWindow`: violated. A coach that misses the cycle in which a
  window ends starts its next one late, and all later ones with it; it can then send twice in one
  window of the server.
* Without that of `FreeformWithinAllowance`: violated, by a stop and a restart of the clock in the cycle in
  which an extended game begins. Without that of `SubstitutesCounted`: a coach without see_global reads the answer to a substitution
  of cycle 1 while its world model is at cycle 0, and does not count it.
* `WaitThrSynchView = 30`, the default of `player_config.cpp`, with `SynchIsKept`: violated. The
  decision falls before the see at 50 ms and the change_view on the wrong side of it. With 79, the
  value in the comment beside it, it holds, and from 50 on it is proved (section 4).

* `PlayerTracking` with a goalie among the mates, or without the exception for guesses: `NumbersAreUnique`, `OneGoalie` and
  `SeenNumberStands` are violated. A rearmost player taken for the goalie gets the goalie's number even if another has it,
  `estimateOurGoalie` and `estimateTheirGoalie` override a number that was seen, and can make a
  teammate of the player of unknown team that is the kickable opponent. What is heard of the opponent goalie leaves a goalie of `M_unknown_players` there.
  `PlayerPtrAccuracySorter` is no strict weak order when two goalies are in a list.
* `BallMemory` without the exceptions of `DifferenceSpansItsSteps`: violated. A cycle without any message ages nothing, and a count of 1 then means two
  cycles. A collision assumed in a decision ages the last sight (`world_model.cpp:993`), and the next difference spans a cycle less than it is taken over.
* Without those of `DifferenceIsUndisturbed`: violated. A sense_body tells of a collision with the ball while the face angle is not valid (`hist.blind`):
  the flags are set before `if ( faceValid() )` (`self_object.cpp:589`), the expected move stays the last one, the see of the cycle gives face
  and place but corrects no move, and `estimateBallVelByPosDiff` takes a difference over two steps with it. After a sense_body that was read after the decision of its cycle, or not at all, `checkCommandCount` takes the
  kick just sent for lost, and the difference over two steps overlooks it; a see after the decision is judged by
  the command just sent. The same property over all steps, `\A c \in by.from + 1..srv.cycle - 1 : c \notin srv.kicks`, is violated as well:
  `lastBodyCommandType(1)` in `world_model.cpp:2628` is always ILLEGAL, since `reset()` clears both entries before `makeCommand()` moves one to the other.
* Read in `BallMemory`: `updateByCollision` takes `M_rpos_count` beyond its limit of 1000; a kick-off moves `M_seen_pos` to the spot and leaves its count.
* In the lists a player of unknown number seen now is forgotten before a numbered one of long ago; and
  `M_their_players`, documented as including unknown players (`world_model.h:138`), gets only `M_opponents`.
* `Referee` without the exception for `doubled`: `KickTakerIsInTurn` is violated. A setup heard twice (or lost) shifts the order of takers for the rest of the
  shootout, for that player only. `CatchIsKnown` holds all the same.
* Read while modelling, without a run: `M_kick_taker_order` and `M_current_taker_side` are read uninitialised if nobody set them; the side of the kick stays
  NEUTRAL while the opponents take the first kick; a play-mode string the table does not know makes `game_mode_` play_on and does not tell the world model.

## 4. The proofs

All theorems hold for every value of the constants that satisfies the named assumption of the
module (`PlayerAgentAssumption`, `EffectorAssumption`, `TimingAssumption`, `RefereeAssumption`, `CoachAgentAssumption`, `SeeSyncAssumption`, `PlayerTrackingAssumption`, `BallMemoryAssumption`).
Three theorems of `SeeSyncProofs` have the hypothesis `Patient` besides, a threshold of at least 50 ms, and two of these `InOrder`: no circumstance has
both `stopped` and `reorder`.

`PlayerAgentProofs`

* `TypeCorrect`: `Spec => []TypeOK`.
* `Invariance`: the inductive invariant `IInv` adds to it that messages of the socket come in
  the order of their cycles and none is ahead of the server (`Fifo`); that
  a running clock has stopped = 0 (`RunningClock`); that (think) is never set outside
  synch mode (`NoThink`); that a batch has reset the timeout count (`NoTimeoutInBatch`).
* `CycleMonotone`: `CycleNeverGoesBack`. It needs `Fifo`: the cycle of a message is never below the
  agent's since duplication and loss keep the order of the socket.
* `OneDecision`: `OneDecisionPerRunningCycle`. Needs `RunningClock` and `NoThink`: in a cycle never stopped,
  equality of cycles is equality of times, on which the guards of both decision rules rest.
* `LoopTakesTurns`: `Spec => TakesTurns`, the refinement of `Turns`. Needs `Fifo` for the order, `RunningClock` for "once", and
  that a decision outside (think) comes after the test of the last decision.
* `DeadlineMet`: `DeadlineIsMet`. Needs `NoTimeoutInBatch`: `timeouts > 2` can only be reached by
  `HandleTimeout`, which decides unless it was decided.
* `OneDecisionPerStep`: `SecondDecisionNeedsReferee`, on a clock that may stop at any time, for a network without faults. The invariant `StepInv` follows
  the step of the server through the socket. `Latest`: the newest cycle number has arrived or is in the last message. `Steady`: while
  the referee is silent, the sense_body of the step is still to come or has brought agent and clock together (`StraightOf`), so that a
  see or a hear of the cycle does not move the time. `Settled`: once decided, nothing on its way moves it, and the tests against the last decision bind.
  In synch mode `ThinkPending` says instead that a (think) is waiting only while the server waits for its answer, and only one.

`ActionEffectorProofs`

* `EffectorTypeCorrect`: `Spec => []TypeOK`.
* `EffectReal`: `Reliable => (Spec => []EffectIsReal)`, where `Reliable` says that no sense_body is
  lost and no cycle passes without a decision; commands may get lost or be refused without limit. The
  inductive invariant relates the counters on both sides with what is on the way. Between the sense_body and the
  decision they agree (`Undecided`); while the commands of a decision are on the way each kind in them is one ahead
  (`Pending`); afterwards a difference says exactly which of them was not executed, and what the server ran is what the
  effector stores for the others (`Settled`). `Stored` says that the stored effect is that of the last decision,
  `Clock` and `Link` where agent, messages and commands stand, `Idle`, `Begun` and `Future` that a cycle starts with nothing executed.
  `EffectIsReal` alone is not inductive: nothing in it says that matching counts mean an executed command. `effector` checks the
  case of a lost sense_body, which the theorem leaves out.

* `AlarmsReal`: `~MayMiss => (Spec => []AlarmsAreLosses)`, sense_body messages lost included. Its invariant `AlarmInv` says that
  the effector's counters are ahead of the server's by what is under way (`Agreed`), and that every further difference, not yet reported
  or reported, was paid for by a loss (`Paid`); `Timely`, that a sense_body is read before anything is sent in its cycle,
  so it never disagrees for being late; `OnTheWay`, that the server has room for all that is under way. Without the
  assumption a sense_body read after the decision alarms for nothing.

`RefereeProofs` (with `Counting`)

* `RefereeTypes`: `Spec => []TypeOK`.
* `TurnIsKnown`, `ScoreIsRight`: `KickTakerIsInTurn` and `ScoreIsKept`. Both follow from one inductive invariant, `Tracks`: what a player has counted and what is
  still on its way to it together are what the referee announced, for each kind of message and side. `UpToDate` empties the second part.
  `Counting` proves how the count of a sequence changes with `Append`, `Tail` and concatenation, by the cardinality of its set of
  positions, since the provers have no induction for a recursive count. `KickIsCounted` says who kicks in the modes of a kick.
* `CatchesAreKnown`: `CatchIsKnown`. Needs `CatchFollows`: what a player has heard and what is on its way lead it, one `UpdateMode` after the
  other (`Leads`, by the trace of modes), to what the referee announced last. An announcement heard twice leads to the same mode as heard once.

`CoachAgentProofs`

* `CoachTypes`: `Spec => []TypeOK`; `ThinkIsAnswered`: `NoThinkIsLeft`, by `ThinkIsPending`: a (think) read and not acted upon is in the batch at hand;
  `GivesUpOnlyUnanswered`: `GivesUpUnanswered`, by `SignIsAsked`: what ages is the last sign of the server, and every sign is asked for.
* `SubstitutesAreCounted`: `SubstitutesCounted`. `SubstitutionsBalance` says that the substitutions the coach counted and the answers on their
  way are those the server counted, and that the coach knows of the kick-off before it reads such an answer.
* `FreeformIsAllowed`: `FreeformWithinAllowance`, by `AllowanceIsDue`: the allowance is the number of game lengths begun.
* `CLangIsWithinWindow`: `CLangWithinWindow`, by `WindowsInStep`: the coach's window began with the server's, and the messages sent in it and the
  capacity left are at most `CLangWin`.
* `ClocksInOrder` is behind the last three: the cycles of world model, agent, messages and server, in this order.

`BallMemoryProofs`

* `BallMemoryInvariant`: the inductive invariant `IInv`. `Ages` says what a counter counts: a `rpos` or `seen` up to 6 is the
  distance to the cycle of the sight, if no cycle was skipped (and, for `rpos`, no collision aged it) since; `Moves` that a move that is wrong
  is of a cycle whose collision was not told, or told while the face angle was not valid; `Kicks` that an executed kick of the last decision is known to the effector, and counted
  as the server counts, if the decision was made with the sense_body of its cycle; `Clock` in which order the times of the
  agent stand; `Ghosts` that a ball missed twice is lost. The circumstances enter by their shape only, so the theorems
  hold for games of any length and any number of lost messages.
* `BallTypes`, `DifferencesSpan`, `DifferencesUndisturbed`, `MissedForgotten`: its four invariants. The second needs `Ages`; the third `Moves`,
  `Ages` and `Kicks`: equal counts mean that `checkCommandCount` leaves the kick, and then `estimateBallVelByPosDiff` and
  `localizeBall` find it by `lastBodyCommandType` or by the kick flag of the player; the last needs `Ghosts`, and that
  `updateByCollision` is not called for a ball beyond the threshold.

`PlayerTrackingProofs`

* `Inductive`: the inductive invariant. `Memory` is about the objects: each is `Sound` (it is in a list and young enough or forgotten by a card, or forgotten entirely; a
  goalie mark is right or a guess; without a team there is no number but a guessed one), and `Unique` says of any two that they do not share team and number
  unless one was guessed. `World` is about the rest: what a decision found is forgotten with the new cycle, and a number
  counts as seen only after a message that shows it. `KickablesExist` needs both, and is part of the invariant.
* Each operator that makes a new memory from one has a lemma that it keeps `Memory`: forgetting (`RemainderIsMemory`), the one-to-one sights of a
  see, hearing, the last number left, the goalies. The sizes of team, list and thresholds do not occur in them.
* `TypeCorrect`, `NumbersStayUnique`, `GoalieStaysUnique`, `UnknownStayNameless`, `KickablesStayAlive`: the five invariants of the run `players`.
* `SeenNumberStays`: the action property `SeenNumberStands`, step by step: no sight, saying or inference between two updates takes team or number from a
  player whose number was seen.

`SeeSyncProofs`

* `TypeCorrect`: `Spec => []TypeOK`.
* `TimingIsTracked`: `Spec => []TimingTracksServer`, with any view action, any thresholds, synch mode or not, on a clock that runs or stands still. On a running clock the
  messages of a unit come in any order; on a stopped one the see follows its sense_body (`Calm`), without which the property is false and only
  `PhaseIsClose` holds, which TLC checks. Nothing in the property says what a count of messages proves; the inductive
  invariant `InPhase` does. The server's two clocks have a common round of three cycles, 24 units with eight looks, and `Place` is the unit in it.
  `Stamped` says how the times and counts of the client lie to those of the server: no cycle has more sees than looks (`Counted`).
  `Hunting`, for a client without synchronization: a count as high as the looks so far proves that the last see came with the last look, and
  that the view takes one look per see; so the pattern "three, then two", which the client waits for, occurs only where the third cycle of the round ends.
  `Tracked`, for a synchronized one: the place follows from timing and looks (`Since`), and the next see is due before the pattern can mislead or the table of timings has no entry.
  `Expects` is what holds between the look and the handling of its see, with eight possible `Arrivals`; `Unhandled`, `SeeWaits` and `SenseWaits` are the
  moments at which one or two messages wait. Both adjustments, the view action and the missed see each have a lemma that they keep `Follows`.
  That `Cycles` is a multiple of three, over three, is an assumption on a bound of the model and not on the code: a round must not be cut, and a see of a few cycles ago must not look like one of now.

* `EstimateIsTrue`, `SeesInEveryCycle`, `SynchronizationIsKept`: `EstimateComesTrue`, `SeeInEveryCycle` and `SynchIsKept`, the promises of View_Synch, under one assumption on the thresholds: `Patient`,
  `WaitThrSynchView >= 50`. `EstimateComesTrue` names `Calm` itself; the run checks the other two on a stopped clock with sees that overtake
  as well (`SynchIsKept` with the exception `~Overtaken`), the theorems leave that out (`InOrder`). The last see of the rotation comes 50 ms after its sense_body, and a client that no longer waits then decides
  without it. The bound is exact: at 49 TLC finds `SynchIsKept` violated. The 79 in the comment of `player_config.cpp:84` is patient, the default of 30 beside it is not.
  `InStep`, the invariant, adds to `InPhase` what a synchronized client does: where in the round it may be with which timing and estimate (`InRotation`), which see comes to it
  there (`AtTurn`, three of the eight `Arrivals`), that the server has the width for the next one, in synch mode since the (think) after the see (`BeforeThink`), and that
  out of synch mode it has decided on its last see, so that a sense_body or a timeout makes it decide only after the next.
  It needs two smaller invariants: `ViewsAgree`, in synch mode client and server have the same view, and `BodyAgeTracksServer`, the client's stopwatch shows the unit of the cycle,
  which turns 50 ms into a place in the round. `RotationSteps` is the arithmetic of a unit, `SeeHandled` the see with or without a sense_body around it.

**Model-checked only.** All liveness: the `ThinkIsAnswered` of `PlayerAgent`,
`ServerDownIsNoticed`, `SynchIsFound`; liveness under fairness is outside what the prover does. The violations are runs by their nature.

## 5. What is not modelled

Floating-point estimation (localization, speeds, interception, formations, actions) has no
finite instance that says anything about it. Parsers and serializers are represented by what
they deliver. The start-up of a player before the reply to (init), the offline client, the types and states
the coach records, the trainer, messages and audio memory and stamina are left out; section 6 says which of them are worth it.
The server and the network are external and modelled from what the code relies on: one body command and
one turn_neck in a step, counters in sense_body, order of sends kept except where a
circumstance says otherwise (`reorder`).

## 6. What is left

1. `ActionEffector` with doubled and reordered sense_body (the alarms of `player_agent.cpp:1658`).
2. `SeeSync` with play_on: all its safety properties are stated for a game that stays out of it (`Quiet`, `Calm`); with a clock that stops and
   starts again within a behaviour; the theorems for a stopped clock with sees that overtake their sense_body.
3. Lost announcements in `Referee`.
4. `CoachAgent` with types of players, recorded states and lost datagrams; `TrainerAgent`.
5. `AudioMemory` and the length budget of say messages; compression and the offline client; stamina on integers against a
   reference definition.
