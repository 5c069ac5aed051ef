----------------------------- MODULE ActionEffector -----------------------------
(***************************************************************************)
(* What a player believes of its own commands: ActionEffector              *)
(* (action_effector.cpp), the order in which PlayerAgent uses it           *)
(* (player_agent.cpp), and the internal update of the world model that     *)
(* integrates the effects of the last commands before anything is seen of  *)
(* them (world_model.cpp, self_object.cpp, ball_object.cpp).               *)
(*                                                                         *)
(* The only acknowledgement of a command is the number of commands of its  *)
(* kind in the next sense_body.  The server and the network are external.  *)
(* The clock runs, so a game time is a cycle number; the effect a command  *)
(* is expected to have is the cycle in which it was registered, 0 for none.*)
(***************************************************************************)
EXTENDS Integers, FiniteSets

CONSTANTS
  BodyKinds,     \* of {"move", "dash", "turn", "kick", "catch", "tackle"}
  OtherSupport,  \* of {"change_focus", "say", "pointto", "attentionto"}
  CatchBanCycle, \* ServerParam::catchBanCycle()
  MayLose,       \* the kinds of datagram that may be lost, see LossKinds
  MayMiss,       \* whether a cycle may pass without a decision
  MaxCycle,      \* bound: last cycle
  MaxLoss        \* bound: commands and messages lost

LossKinds == {"command", "body_command", "sense_body"}

ASSUME EffectorAssumption ==
  /\ BodyKinds \subseteq {"move", "dash", "turn", "kick", "catch", "tackle"}
  /\ "turn" \in BodyKinds
  /\ OtherSupport \subseteq {"change_focus", "say", "pointto", "attentionto"}
  /\ CatchBanCycle \in Nat
  /\ MayLose \subseteq LossKinds /\ MayMiss \in BOOLEAN
  /\ MaxCycle \in Nat /\ MaxLoss \in Nat

SupportKinds == {"turn_neck", "change_view"} \cup OtherSupport
Kinds == BodyKinds \cup SupportKinds

\* PlayerCommand::ILLEGAL where a body command is expected.
Illegal == "illegal"

\* What a body command and a turn_neck do in a cycle.
Effects == [body : BodyKinds \cup {Illegal}, stamp : Nat, neck : BOOLEAN]
NoEffect == [body |-> Illegal, stamp |-> 0, neck |-> FALSE]

VARIABLES
  srv,    \* server: cycle; count, of the executed commands; done, the kinds executed in
          \* this cycle; ran, for each cycle the effect of what was executed in it
  up,     \* the commands on their way to the server
  down,   \* the messages on their way to the client
  eff,    \* ActionEffector: count, last, last1, neckDone, effect, catchTime
  ag,     \* agent and world: now, lastDecision, adjusted, worldTime, the
          \* effect the internal update has integrated, lastCatch
  hist    \* history, read by properties only: lost, how much was lost; alarms, how many
          \* sense_body messages did not match; caught, when a catch was last sent

vars == <<srv, up, down, eff, ag, hist>>

NewEffector ==
  [count |-> [k \in Kinds |-> 0], last |-> Illegal, last1 |-> Illegal,
   neckDone |-> FALSE, effect |-> [k \in BodyKinds |-> 0], catchTime |-> 0]

NewAgent ==
  [now |-> 0, lastDecision |-> 0, adjusted |-> 0, worldTime |-> 0,
   used |-> NoEffect, lastCatch |-> 0]

-----------------------------------------------------------------------------
(* The effector.                                                           *)

\* reset: after the world update, before the actions of the cycle are chosen.
Reset(e) ==
  [e EXCEPT !.last = Illegal, !.last1 = Illegal, !.neckDone = FALSE,
            !.effect = [k \in BodyKinds |-> 0], !.catchTime = 0]

IncCommandCount(e, ks) ==
  [e EXCEPT !.count = [k \in Kinds |-> IF k \in ks THEN @[k] + 1 ELSE @[k]]]

Mismatches(e, sensed) == {k \in Kinds : e.count[k] # sensed[k]}

\* Mutants of checkCommandCount: the counters take the difference; a lost body
\* command is only counted.
MutCheckDifference(e, sensed) ==
  LET lost == Mismatches(e, sensed)
  IN [e EXCEPT !.count = [k \in Kinds |-> IF k \in lost THEN sensed[k] - @[k] ELSE @[k]],
               !.last = IF lost \cap BodyKinds # {} THEN Illegal ELSE @]
MutCheckKeepsLast(e, sensed) ==
  LET lost == Mismatches(e, sensed)
  IN [e EXCEPT !.count = sensed,
               !.neckDone = @ /\ "turn_neck" \notin lost,
               !.effect = [k \in BodyKinds |->
                             IF k \in lost /\ k # "catch" THEN 0 ELSE @[k]]]

\* A body command that was not counted by the server had no effect; the time of a
\* catch is kept.
CheckCommandCount(e, sensed) ==
  LET lost == Mismatches(e, sensed)
  IN [e EXCEPT !.count = sensed,
               !.last = IF lost \cap BodyKinds # {} THEN Illegal ELSE @,
               !.neckDone = @ /\ "turn_neck" \notin lost,
               !.effect = [k \in BodyKinds |->
                             IF k \in lost /\ k # "catch" THEN 0 ELSE @[k]]]

\* The body commands registered by the actions of one cycle (called) have all
\* written their effects; the last one (queued) is sent.
Register(e, called, now) ==
  [e EXCEPT !.effect = [k \in BodyKinds |->
                          IF k \in called \ {"catch"} THEN now ELSE @[k]]]

\* Without a body command a dummy (turn 0) is sent, unless the player is frozen.
SentBody(queued, frozen) ==
  IF queued # Illegal THEN {queued} ELSE IF frozen THEN {} ELSE {"turn"}

\* Mutant: the dummy turn is not counted.
MutMakeCommand(e, queued, support, frozen, now) ==
  LET counted == IncCommandCount(e, (IF queued # Illegal THEN {queued} ELSE {}) \cup support)
  IN [counted EXCEPT
        !.last1 = e.last,
        !.last = IF queued # Illegal THEN queued ELSE @,
        !.catchTime = IF queued = "catch" THEN now ELSE @,
        !.neckDone = @ \/ "turn_neck" \in support]

MakeCommand(e, queued, support, frozen, now) ==
  LET counted == IncCommandCount(e, SentBody(queued, frozen) \cup support)
  IN [counted EXCEPT
        !.last1 = e.last,
        !.last = IF queued # Illegal THEN queued ELSE @,
        !.catchTime = IF queued = "catch" THEN now ELSE @,
        !.neckDone = @ \/ "turn_neck" \in support]

\* What the internal update reads: lastBodyCommandType with the stored effect of
\* that command, and doneTurnNeck.
Believed(e) ==
  [body |-> e.last,
   stamp |-> IF e.last \in BodyKinds \ {"catch"} THEN e.effect[e.last] ELSE 0,
   neck |-> e.neckDone]

\* WorldModel::update, once in each cycle; self and ball are updated with it.
WorldUpdate(a, e, now) ==
  IF a.worldTime = now THEN a
  ELSE [a EXCEPT !.worldTime = now, !.used = Believed(e), !.lastCatch = e.catchTime]

-----------------------------------------------------------------------------
(* The server and the network.                                             *)

Init ==
  /\ srv = [cycle |-> 0, count |-> [k \in Kinds |-> 0], done |-> {},
            ran |-> [c \in 0..MaxCycle |-> NoEffect]]
  /\ up = {} /\ down = {}
  /\ eff = NewEffector
  /\ ag = NewAgent
  /\ hist = [lost |-> 0, alarms |-> 0, caught |-> 0]

SenseBody(c, counts) == [kind |-> "sense_body", cycle |-> c, count |-> counts]
See(c) == [kind |-> "see", cycle |-> c, count |-> [k \in Kinds |-> 0]]

\* A cycle ends after its commands have arrived or got lost.
Tick ==
  /\ srv.cycle < MaxCycle
  /\ up = {}
  /\ ~MayMiss => down = {} /\ ag.lastDecision = srv.cycle
  /\ srv' = [srv EXCEPT !.cycle = @ + 1, !.done = {}]
  /\ down' = down \cup {SenseBody(srv.cycle + 1, srv.count), See(srv.cycle + 1)}
  /\ UNCHANGED <<up, eff, ag, hist>>

Counted(counts, ks) == [k \in Kinds |-> IF k \in ks THEN counts[k] + 1 ELSE counts[k]]

\* A cycle has room for one body command and one turn_neck.
Accepted(d) ==
  (IF srv.done \cap BodyKinds = {} THEN d.body ELSE {})
    \cup {k \in d.support : k = "turn_neck" => k \notin srv.done}

\* The server after it has executed the commands ks of the datagram d.
Executed(d, ks) ==
  [srv EXCEPT
     !.count = Counted(@, ks),
     !.done = @ \cup ks,
     !.ran[srv.cycle] =
       [body |-> IF ks \cap BodyKinds = {} THEN @.body ELSE d.effect,
        stamp |-> IF ks \cap BodyKinds = {} THEN @.stamp
                  ELSE IF d.effect \in {Illegal, "catch"} THEN 0 ELSE d.stamp,
        neck |-> @.neck \/ "turn_neck" \in ks]]

Execute ==
  \E d \in up :
    /\ up' = up \ {d}
    /\ srv' = Executed(d, Accepted(d))
    /\ UNCHANGED <<down, eff, ag, hist>>

\* A player charged with a foul: the server drops the body command only.
RefuseBody ==
  /\ "body_command" \in MayLose /\ hist.lost < MaxLoss
  /\ \E d \in up :
       /\ d.body # {}
       /\ up' = up \ {d}
       /\ srv' = Executed(d, Accepted(d) \ BodyKinds)
  /\ hist' = [hist EXCEPT !.lost = @ + 1]
  /\ UNCHANGED <<down, eff, ag>>

\* The network loses the commands of a cycle or a sense_body.
Lose ==
  /\ hist.lost < MaxLoss
  /\ \/ /\ "command" \in MayLose
        /\ \E d \in up : up' = up \ {d}
        /\ UNCHANGED down
     \/ /\ "sense_body" \in MayLose
        /\ \E m \in down : m.kind = "sense_body" /\ down' = down \ {m}
        /\ UNCHANGED up
  /\ hist' = [hist EXCEPT !.lost = @ + 1]
  /\ UNCHANGED <<srv, eff, ag>>

-----------------------------------------------------------------------------
(* The agent's handlers.                                                   *)

\* analyzeSenseBody: the counters are checked before the world is updated.
HandleSenseBody ==
  \E m \in down :
    /\ m.kind = "sense_body" /\ \A n \in down : m.cycle <= n.cycle
    /\ down' = down \ {m}
    /\ eff' = CheckCommandCount(eff, m.count)
    /\ ag' = WorldUpdate([ag EXCEPT !.now = m.cycle], eff', m.cycle)
    /\ hist' = [hist EXCEPT
                  !.alarms = IF Mismatches(eff, m.count) = {} THEN @ ELSE @ + 1]
    /\ UNCHANGED <<srv, up>>

\* analyzeSee: the first message of a cycle updates the world.
HandleSee ==
  \E m \in down :
    /\ m.kind = "see"
    /\ \A n \in down : m.cycle <= n.cycle /\ (n.kind = "sense_body" => n.cycle # m.cycle)
    /\ down' = down \ {m}
    /\ ag' = WorldUpdate([ag EXCEPT !.now = m.cycle], eff, m.cycle)
    /\ UNCHANGED <<srv, up, eff, hist>>

\* adjustSeeSynchNormalMode after a see: a change_view of its own.
AdjustSee ==
  /\ ag.now > 0 /\ ag.adjusted # ag.now /\ ag.lastDecision # ag.now
  /\ ag' = [ag EXCEPT !.adjusted = ag.now]
  /\ eff' = IncCommandCount(eff, {"change_view"})
  /\ up' = up \cup {[body |-> {}, support |-> {"change_view"}, effect |-> Illegal,
                     stamp |-> ag.now, alone |-> TRUE]}
  /\ UNCHANGED <<srv, down, hist>>

\* "already done in current cycle" is the first test of the decision timing.  That a
\* running clock lets nothing else through is the subject of PlayerAgent (Turns).
MayDecide == ag.now > 0 /\ ag.lastDecision # ag.now

\* action(): update, reset, the actions of the cycle, then the commands are sent.
Action ==
  /\ MayDecide
  /\ \E called \in SUBSET BodyKinds, support \in SUBSET SupportKinds, frozen \in BOOLEAN :
     \E queued \in IF called = {} THEN {Illegal} ELSE called :
       LET registered == Register(Reset(eff), called, ag.now)
       IN /\ eff' = MakeCommand(registered, queued, support, frozen, ag.now)
          /\ up' = up \cup {[body |-> SentBody(queued, frozen), support |-> support,
                             effect |-> queued, stamp |-> ag.now, alone |-> FALSE]}
          /\ hist' = [hist EXCEPT !.caught = IF queued = "catch" THEN ag.now ELSE @]
  /\ ag' = [WorldUpdate(ag, eff, ag.now) EXCEPT !.lastDecision = ag.now]
  /\ UNCHANGED <<srv, down>>

Agent == HandleSenseBody \/ HandleSee \/ AdjustSee \/ Action
Environment == Tick \/ Execute \/ RefuseBody \/ Lose

Next == Agent \/ Environment

Spec == Init /\ [][Next]_vars

-----------------------------------------------------------------------------
(* Properties.                                                             *)

Datagrams ==
  [body : SUBSET BodyKinds, support : SUBSET SupportKinds,
   effect : BodyKinds \cup {Illegal}, stamp : Nat, alone : BOOLEAN]

SensoryMessages ==
  [kind : {"sense_body", "see"}, cycle : 0..MaxCycle, count : [Kinds -> Nat]]

Servers ==
  [cycle : 0..MaxCycle, count : [Kinds -> Nat], done : SUBSET Kinds,
   ran : [0..MaxCycle -> Effects]]

Effectors ==
  [count : [Kinds -> Nat], last : BodyKinds \cup {Illegal},
   last1 : BodyKinds \cup {Illegal}, neckDone : BOOLEAN,
   effect : [BodyKinds -> Nat], catchTime : Nat]

Agents ==
  [now : 0..MaxCycle, lastDecision : Nat, adjusted : Nat, worldTime : 0..MaxCycle,
   used : Effects, lastCatch : Nat]

\* Type invariant.
TypeOK ==
  /\ srv \in Servers
  /\ up \subseteq Datagrams
  /\ down \subseteq SensoryMessages
  /\ eff \in Effectors
  /\ ag \in Agents
  /\ hist \in [lost : Nat, alarms : Nat, caught : Nat]

\* The effect the world model integrates for a cycle is the effect of the commands
\* the server executed in the cycle before, no more and no less.
EffectIsReal == ag.worldTime > 0 => ag.used = srv.ran[ag.worldTime - 1]

\* "lost kick?" and its like: a sense_body does not match the counters more often
\* than something was lost.
AlarmsAreLosses == hist.alarms <= hist.lost

\* "Do *NOT* reset the time": while the ban lasts, the goalie knows when it caught.
CatchIsRemembered ==
  /\ hist.caught > 0 /\ ag.worldTime > hist.caught
  /\ ag.worldTime < hist.caught + CatchBanCycle
  => ag.lastCatch = hist.caught
=============================================================================
