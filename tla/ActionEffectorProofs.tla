-------------------------- MODULE ActionEffectorProofs --------------------------
(***************************************************************************)
(* Theorems about ActionEffector.  The type invariant holds for all values *)
(* of the constants.  EffectIsReal holds, however many commands are lost   *)
(* or refused, as long as every sense_body arrives and no cycle passes     *)
(* without a decision.  It is not inductive: the counters that the next    *)
(* sense_body is compared with must agree with the server's up to the one  *)
(* command of the cycle, and the stored effect must be that command's.     *)
(***************************************************************************)
EXTENDS ActionEffector, TLAPS

\* The kinds of which a cycle has room for one, and whose effect is estimated.
Tracked == BodyKinds \cup {"turn_neck"}

Commands == {d \in up : ~d.alone}

Sensed == \A m \in down : m.kind # "sense_body"
Decided == ag.lastDecision = ag.now

\* The agent is at the server's cycle, or one behind with the sense_body in
\* flight; then it has decided and its commands are gone.
Clock ==
  /\ ag.worldTime = ag.now
  /\ ag.lastDecision <= ag.now
  /\ Sensed => ag.now = srv.cycle
  /\ ~Sensed => ag.now + 1 = srv.cycle /\ Decided /\ up = {}
  /\ \A m \in down : m.cycle = srv.cycle
                     /\ (m.kind = "sense_body" => m.count = srv.count)

\* What is under way to the server belongs to this cycle.
Link ==
  /\ \A d \in up : d.stamp = srv.cycle
  /\ \A d \in up : d.alone => d.body = {} /\ d.support = {"change_view"}
  /\ \A d, e \in Commands : d = e
  /\ ~Decided => Commands = {}

\* Nothing has been executed yet in this cycle.
Idle == srv.ran[srv.cycle] = NoEffect /\ srv.done \cap Tracked = {}

\* The cycles still to come: their record in the history is empty.
Future == \A c \in 0..MaxCycle : c > srv.cycle => srv.ran[c] = NoEffect

\* Between the sense_body and the decision the counters agree.
Undecided ==
  ~Decided => Idle /\ \A k \in Tracked : eff.count[k] = srv.count[k]

\* The stored effect is the effect of the last decision.
Stored ==
  Decided /\ eff.last \in BodyKinds \ {"catch"} => eff.effect[eff.last] = ag.now

\* The commands of the last decision are under way.
Pending ==
  \A d \in Commands :
    /\ Idle
    /\ d.effect = eff.last
    /\ eff.last # Illegal => d.body = {eff.last}
    /\ eff.last = Illegal => d.body \subseteq {"turn"}
    /\ eff.neckDone <=> "turn_neck" \in d.support
    /\ \A k \in Tracked :
         eff.count[k] = IF k \in d.body \cup d.support THEN srv.count[k] + 1 ELSE srv.count[k]

\* The commands of the last decision have been executed, or not counted.
Settled ==
  Decided /\ Commands = {} =>
    /\ eff.last # Illegal =>
         \A k \in BodyKinds \ {eff.last} : eff.count[k] = srv.count[k]
    /\ ~eff.neckDone => eff.count["turn_neck"] = srv.count["turn_neck"]
    /\ srv.ran[ag.now] =
         [body |-> IF eff.last # Illegal /\ eff.count[eff.last] = srv.count[eff.last]
                   THEN eff.last ELSE Illegal,
          stamp |-> IF eff.last \in BodyKinds \ {"catch"}
                       /\ eff.count[eff.last] = srv.count[eff.last]
                    THEN ag.now ELSE 0,
          neck |-> eff.neckDone /\ eff.count["turn_neck"] = srv.count["turn_neck"]]

\* A new cycle has begun and nothing can have reached it.
Begun == ~Sensed => Idle

IInv ==
  /\ TypeOK /\ Clock /\ Link /\ Future /\ Undecided /\ Stored /\ Pending /\ Settled
  /\ Begun /\ EffectIsReal
-----------------------------------------------------------------------------
(* Types.                                                                  *)

\* The kinds are told apart: no body command is a support command.
LEMMA KindsApart ==
  /\ Illegal \notin Kinds
  /\ BodyKinds \cap SupportKinds = {}
  /\ "turn" \in BodyKinds /\ "turn_neck" \in SupportKinds
  /\ "change_view" \in SupportKinds /\ "change_view" \notin Tracked
  /\ BodyKinds \subseteq Kinds /\ SupportKinds \subseteq Kinds /\ Tracked \subseteq Kinds
  /\ "turn_neck" \notin BodyKinds
PROOF
  <1>1. Illegal \notin BodyKinds /\ "turn_neck" \notin BodyKinds
        /\ "change_view" \notin BodyKinds
    BY EffectorAssumption DEF Illegal
  <1>2. Illegal \notin OtherSupport /\ BodyKinds \cap OtherSupport = {}
    BY EffectorAssumption DEF Illegal
  <1>3. Illegal # "turn_neck" /\ Illegal # "change_view"
    BY DEF Illegal
  <1> QED
    BY <1>1, <1>2, <1>3, EffectorAssumption DEF Kinds, SupportKinds, Tracked

\* The effector's operations keep its type.
LEMMA EffectorTypes ==
  ASSUME NEW e \in Effectors
  PROVE  /\ Reset(e) \in Effectors
         /\ \A ks \in SUBSET Kinds : IncCommandCount(e, ks) \in Effectors
         /\ \A counts \in [Kinds -> Nat] : CheckCommandCount(e, counts) \in Effectors
         /\ \A called \in SUBSET BodyKinds, now \in Nat :
              Register(e, called, now) \in Effectors
         /\ Believed(e) \in Effects
PROOF
  <1>1. Reset(e) \in Effectors
    BY DEF Reset, Effectors
  <1>2. \A ks \in SUBSET Kinds : IncCommandCount(e, ks) \in Effectors
    BY DEF IncCommandCount, Effectors
  <1>3. \A counts \in [Kinds -> Nat] : CheckCommandCount(e, counts) \in Effectors
    BY DEF CheckCommandCount, Effectors
  <1>4. \A called \in SUBSET BodyKinds, now \in Nat : Register(e, called, now) \in Effectors
    BY DEF Register, Effectors
  <1>5. Believed(e) \in Effects
    BY DEF Believed, Effectors, Effects
  <1> QED
    BY <1>1, <1>2, <1>3, <1>4, <1>5

\* So does the composition of a cycle's commands.
LEMMA MakeCommandType ==
  ASSUME NEW e \in Effectors, NEW queued \in BodyKinds \cup {Illegal},
         NEW support \in SUBSET SupportKinds, NEW frozen \in BOOLEAN, NEW now \in Nat
  PROVE  /\ SentBody(queued, frozen) \in SUBSET BodyKinds
         /\ MakeCommand(e, queued, support, frozen, now) \in Effectors
PROOF
  <1>1. SentBody(queued, frozen) \in SUBSET BodyKinds
    BY KindsApart DEF SentBody
  <1>2. SentBody(queued, frozen) \cup support \in SUBSET Kinds
    BY <1>1, KindsApart
  <1>3. IncCommandCount(e, SentBody(queued, frozen) \cup support) \in Effectors
    BY <1>2, EffectorTypes
  <1>4. MakeCommand(e, queued, support, frozen, now) \in Effectors
    BY <1>3 DEF MakeCommand, Effectors
  <1> QED
    BY <1>1, <1>4

\* The world update keeps the agent's type.
LEMMA WorldUpdateType ==
  ASSUME NEW a \in Agents, NEW e \in Effectors, NEW now \in 0..MaxCycle
  PROVE  WorldUpdate(a, e, now) \in Agents
PROOF
  <1>1. Believed(e) \in Effects
    BY EffectorTypes
  <1>2. e.catchTime \in Nat
    BY DEF Effectors
  <1> QED
    BY <1>1, <1>2 DEF WorldUpdate, Agents

\* The server keeps its type whichever part of a datagram it executes.
LEMMA ExecutedType ==
  ASSUME srv \in Servers, NEW d \in Datagrams, NEW ks \in SUBSET Kinds
  PROVE  Executed(d, ks) \in Servers
PROOF
  <1>1. Counted(srv.count, ks) \in [Kinds -> Nat]
    BY DEF Counted, Servers
  <1>2. srv.ran[srv.cycle] \in Effects
    BY DEF Servers
  <1> DEFINE r == [body |-> IF ks \cap BodyKinds = {} THEN srv.ran[srv.cycle].body
                            ELSE d.effect,
                   stamp |-> IF ks \cap BodyKinds = {} THEN srv.ran[srv.cycle].stamp
                             ELSE IF d.effect \in {Illegal, "catch"} THEN 0 ELSE d.stamp,
                   neck |-> srv.ran[srv.cycle].neck \/ "turn_neck" \in ks]
  <1>3. r.body \in BodyKinds \cup {Illegal} /\ r.stamp \in Nat
    BY <1>2 DEF Effects, Datagrams
  <1>4. r.neck \in BOOLEAN
    BY <1>2 DEF Effects
  <1>5. r \in Effects
    BY <1>3, <1>4 DEF Effects
  <1>6. Executed(d, ks) = [srv EXCEPT !.count = Counted(srv.count, ks),
                                      !.done = srv.done \cup ks,
                                      !.ran = [srv.ran EXCEPT ![srv.cycle] = r]]
    BY DEF Executed, Servers
  <1> HIDE DEF r
  <1>7. [srv.ran EXCEPT ![srv.cycle] = r] \in [0..MaxCycle -> Effects]
    BY <1>5 DEF Servers
  <1> QED
    BY <1>1, <1>6, <1>7 DEF Servers

\* What is accepted of a datagram are kinds of it.
LEMMA AcceptedKinds ==
  ASSUME NEW d \in Datagrams
  PROVE  Accepted(d) \in SUBSET (d.body \cup d.support) /\ Accepted(d) \in SUBSET Kinds
PROOF
  <1>1. d.body \subseteq Kinds /\ d.support \subseteq Kinds
    BY KindsApart DEF Datagrams
  <1> QED
    BY <1>1 DEF Accepted

LEMMA TypeInit == Init => TypeOK
PROOF
  <1> SUFFICES ASSUME Init PROVE TypeOK
    OBVIOUS
  <1>1. NoEffect \in Effects
    BY DEF NoEffect, Effects
  <1>2. srv \in Servers
    BY <1>1, EffectorAssumption DEF Init, Servers
  <1>3. eff \in Effectors
    BY DEF Init, NewEffector, Effectors
  <1>4. ag \in Agents
    BY <1>1, EffectorAssumption DEF Init, NewAgent, Agents
  <1> QED
    BY <1>2, <1>3, <1>4 DEF Init, TypeOK

LEMMA TypeStep == TypeOK /\ [Next]_vars => TypeOK'
PROOF
  <1> SUFFICES ASSUME TypeOK, [Next]_vars PROVE TypeOK'
    OBVIOUS
  <1> USE DEF TypeOK
  <1>1. CASE HandleSenseBody
    <2>1. PICK m \in down :
            /\ down' = down \ {m}
            /\ eff' = CheckCommandCount(eff, m.count)
            /\ ag' = WorldUpdate([ag EXCEPT !.now = m.cycle], eff', m.cycle)
      BY <1>1 DEF HandleSenseBody
    <2>2. m.count \in [Kinds -> Nat] /\ m.cycle \in 0..MaxCycle
      BY DEF SensoryMessages
    <2>3. eff' \in Effectors
      BY <2>1, <2>2, EffectorTypes
    <2>4. [ag EXCEPT !.now = m.cycle] \in Agents
      BY <2>2 DEF Agents
    <2>5. ag' \in Agents
      BY <2>1, <2>2, <2>3, <2>4, WorldUpdateType
    <2>6. hist' \in [lost : Nat, alarms : Nat, caught : Nat]
      BY <1>1 DEF HandleSenseBody
    <2> QED
      BY <1>1, <2>1, <2>3, <2>5, <2>6 DEF HandleSenseBody
  <1>2. CASE HandleSee
    <2>1. PICK m \in down :
            /\ down' = down \ {m}
            /\ ag' = WorldUpdate([ag EXCEPT !.now = m.cycle], eff, m.cycle)
      BY <1>2 DEF HandleSee
    <2>2. m.cycle \in 0..MaxCycle
      BY DEF SensoryMessages
    <2>3. [ag EXCEPT !.now = m.cycle] \in Agents
      BY <2>2 DEF Agents
    <2>4. ag' \in Agents
      BY <2>1, <2>2, <2>3, WorldUpdateType
    <2> QED
      BY <1>2, <2>1, <2>4 DEF HandleSee
  <1>3. CASE AdjustSee
    <2> DEFINE d == [body |-> {}, support |-> {"change_view"}, effect |-> Illegal,
                     stamp |-> ag.now, alone |-> TRUE]
    <2>1. d \in Datagrams
      BY KindsApart DEF Datagrams, Agents
    <2>2. up' = up \cup {d}
      BY <1>3 DEF AdjustSee
    <2>3. eff' \in Effectors
      <3>1. {"change_view"} \in SUBSET Kinds
        BY KindsApart
      <3> QED
        BY <1>3, <3>1, EffectorTypes DEF AdjustSee
    <2>4. ag' \in Agents
      BY <1>3 DEF AdjustSee, Agents
    <2> HIDE DEF d
    <2> QED
      BY <1>3, <2>1, <2>2, <2>3, <2>4 DEF AdjustSee
  <1>4. CASE Action
    <2>1. PICK called \in SUBSET BodyKinds, support \in SUBSET SupportKinds,
               frozen \in BOOLEAN, queued \in BodyKinds \cup {Illegal} :
            /\ eff' = MakeCommand(Register(Reset(eff), called, ag.now),
                                  queued, support, frozen, ag.now)
            /\ up' = up \cup {[body |-> SentBody(queued, frozen), support |-> support,
                               effect |-> queued, stamp |-> ag.now, alone |-> FALSE]}
            /\ hist' = [hist EXCEPT !.caught = IF queued = "catch" THEN ag.now ELSE @]
      BY <1>4 DEF Action
    <2>2. ag.now \in Nat /\ ag.now \in 0..MaxCycle
      BY EffectorAssumption DEF Agents
    <2>3. Register(Reset(eff), called, ag.now) \in Effectors
      BY <2>2, EffectorTypes
    <2>4. eff' \in Effectors /\ SentBody(queued, frozen) \in SUBSET BodyKinds
      BY <2>1, <2>2, <2>3, MakeCommandType
    <2> DEFINE d == [body |-> SentBody(queued, frozen), support |-> support,
                     effect |-> queued, stamp |-> ag.now, alone |-> FALSE]
    <2>9. d \in Datagrams
      BY <2>2, <2>4 DEF Datagrams
    <2>10. up' = up \cup {d}
      BY <2>1
    <2> HIDE DEF d
    <2>5. up' \subseteq Datagrams
      BY <2>9, <2>10
    <2>6. WorldUpdate(ag, eff, ag.now) \in Agents
      BY <2>2, WorldUpdateType
    <2>7. ag' \in Agents
      BY <1>4, <2>2, <2>6 DEF Action, Agents
    <2>8. hist' \in [lost : Nat, alarms : Nat, caught : Nat]
      <3>1. (IF queued = "catch" THEN ag.now ELSE hist.caught) \in Nat
        BY <2>2
      <3> QED
        BY <2>1, <3>1
    <2> QED
      BY <1>4, <2>4, <2>5, <2>7, <2>8 DEF Action
  <1>5. CASE Tick
    <2>2. srv.cycle + 1 \in 0..MaxCycle /\ srv.count \in [Kinds -> Nat]
      BY <1>5, EffectorAssumption DEF Tick, Servers
    <2>1. srv' \in Servers
      <3>1. srv' = [srv EXCEPT !.cycle = srv.cycle + 1, !.done = {}]
        BY <1>5 DEF Tick
      <3> QED
        BY <3>1, <2>2 DEF Servers
    <2>3. SenseBody(srv.cycle + 1, srv.count) \in SensoryMessages
          /\ See(srv.cycle + 1) \in SensoryMessages
      BY <2>2 DEF SenseBody, See, SensoryMessages
    <2> QED
      BY <1>5, <2>1, <2>3 DEF Tick
  <1>6. CASE Execute
    <2>1. PICK d \in up : up' = up \ {d} /\ srv' = Executed(d, Accepted(d))
      BY <1>6 DEF Execute
    <2>2. srv' \in Servers
      BY <2>1, ExecutedType, AcceptedKinds
    <2> QED
      BY <1>6, <2>1, <2>2 DEF Execute
  <1>7. CASE RefuseBody
    <2>1. PICK d \in up : up' = up \ {d} /\ srv' = Executed(d, Accepted(d) \ BodyKinds)
      BY <1>7 DEF RefuseBody
    <2>2. Accepted(d) \ BodyKinds \in SUBSET Kinds
      BY <2>1, AcceptedKinds
    <2>3. srv' \in Servers
      BY <2>1, <2>2, ExecutedType
    <2> QED
      BY <1>7, <2>1, <2>3 DEF RefuseBody
  <1>8. CASE Lose
    <2>1. up' \subseteq up /\ down' \subseteq down
      BY <1>8 DEF Lose
    <2> QED
      BY <1>8, <2>1 DEF Lose
  <1>9. CASE UNCHANGED vars
    BY <1>9 DEF vars
  <1> QED
    BY <1>1, <1>2, <1>3, <1>4, <1>5, <1>6, <1>7, <1>8, <1>9
    DEF Next, Agent, Environment

\* Effector, server, links and agent are well-formed in every reachable state,
\* for all kinds of command, losses and bounds.
THEOREM EffectorTypeCorrect == Spec => []TypeOK
PROOF
  <1> QED
    BY TypeInit, TypeStep, PTL DEF Spec

-----------------------------------------------------------------------------
(* The effect is real.                                                     *)

\* Every sense_body arrives and every cycle is decided.
Reliable == "sense_body" \notin MayLose /\ ~MayMiss

LEMMA IInvInit == Init => IInv
PROOF
  <1> SUFFICES ASSUME Init PROVE IInv
    OBVIOUS
  <1>1. TypeOK
    BY TypeInit
  <1>2. Clock /\ Link /\ Pending
    BY DEF Init, NewAgent, Clock, Link, Pending, Sensed, Decided, Commands
  <1>3. 0 \in 0..MaxCycle
    BY EffectorAssumption
  <1>4. Future /\ Undecided /\ Begun /\ EffectIsReal
    BY <1>3 DEF Init, NewAgent, Future, Undecided, Decided, Begun, Sensed, EffectIsReal
  <1>5. Stored /\ Settled
    <2>1. eff.last = Illegal /\ ~eff.neckDone
      BY DEF Init, NewEffector
    <2>2. eff.count["turn_neck"] = srv.count["turn_neck"]
      BY KindsApart DEF Init, NewEffector
    <2>3. srv.ran[ag.now] = NoEffect
      BY <1>3 DEF Init, NewAgent
    <2> QED
      BY <2>1, <2>2, <2>3, KindsApart DEF Stored, Settled, NoEffect
  <1> QED
    BY <1>1, <1>2, <1>4, <1>5 DEF IInv

\* A check against the counts the server has had since the last command keeps of
\* the stored effect exactly what was counted.
LEMMA CheckVerifies ==
  ASSUME NEW e \in Effectors, NEW counts \in [Kinds -> Nat],
         e.last # Illegal => \A k \in BodyKinds \ {e.last} : e.count[k] = counts[k],
         ~e.neckDone => e.count["turn_neck"] = counts["turn_neck"]
  PROVE  LET f == CheckCommandCount(e, counts)
             kept == e.last # Illegal /\ e.count[e.last] = counts[e.last]
         IN /\ f.count = counts
            /\ Believed(f) =
                 [body |-> IF kept THEN e.last ELSE Illegal,
                  stamp |-> IF kept /\ e.last # "catch" THEN e.effect[e.last] ELSE 0,
                  neck |-> e.neckDone /\ e.count["turn_neck"] = counts["turn_neck"]]
PROOF
  <1> DEFINE f == CheckCommandCount(e, counts)
             lost == Mismatches(e, counts)
             kept == e.last # Illegal /\ e.count[e.last] = counts[e.last]
  <1>1. /\ f.count = counts
        /\ f.last = IF lost \cap BodyKinds # {} THEN Illegal ELSE e.last
        /\ f.neckDone = (e.neckDone /\ "turn_neck" \notin lost)
        /\ f.effect = [k \in BodyKinds |->
                         IF k \in lost /\ k # "catch" THEN 0 ELSE e.effect[k]]
    BY DEF CheckCommandCount, Effectors
  <1>2. f.neckDone = (e.neckDone /\ e.count["turn_neck"] = counts["turn_neck"])
    BY <1>1, KindsApart DEF Mismatches
  <1>3. e.last \in BodyKinds \cup {Illegal}
    BY DEF Effectors
  <1>4. f.last = IF kept THEN e.last ELSE Illegal
    <2>1. CASE e.last = Illegal
      BY <1>1, <2>1
    <2>2. CASE e.last # Illegal
      <3>1. lost \cap BodyKinds # {} <=> e.last \in lost
        BY <2>2, <1>3 DEF Mismatches
      <3>2. e.last \in lost <=> e.count[e.last] # counts[e.last]
        BY <2>2, <1>3, KindsApart DEF Mismatches
      <3> QED
        BY <1>1, <2>2, <3>1, <3>2
    <2> QED
      BY <2>1, <2>2
  <1>5. kept /\ e.last # "catch" => f.effect[e.last] = e.effect[e.last]
    BY <1>1, <1>3 DEF Mismatches
  <1>6. Believed(f) = [body |-> f.last,
                       stamp |-> IF f.last \in BodyKinds \ {"catch"}
                                 THEN f.effect[f.last] ELSE 0,
                       neck |-> f.neckDone]
    BY DEF Believed
  <1>7. (IF f.last \in BodyKinds \ {"catch"} THEN f.effect[f.last] ELSE 0)
          = IF kept /\ e.last # "catch" THEN e.effect[e.last] ELSE 0
    BY <1>3, <1>4, <1>5, KindsApart
  <1> HIDE DEF f, kept, lost
  <1>8. Believed(f) = [body |-> IF kept THEN e.last ELSE Illegal,
                  stamp |-> IF kept /\ e.last # "catch" THEN e.effect[e.last] ELSE 0,
                  neck |-> e.neckDone /\ e.count["turn_neck"] = counts["turn_neck"]]
    BY <1>2, <1>4, <1>6, <1>7
  <1> QED
    BY <1>1, <1>8 DEF f, kept

\* A sense_body settles the last cycle and opens the new one.
LEMMA StepSenseBody == ASSUME IInv, HandleSenseBody, TypeOK' PROVE IInv'
PROOF
  <1> USE DEF IInv
  <1>1. PICK m \in down :
          /\ m.kind = "sense_body"
          /\ down' = down \ {m}
          /\ eff' = CheckCommandCount(eff, m.count)
          /\ ag' = WorldUpdate([ag EXCEPT !.now = m.cycle], eff', m.cycle)
    BY DEF HandleSenseBody
  <1>2. UNCHANGED <<srv, up>>
    BY DEF HandleSenseBody
  <1>3. /\ ag.now + 1 = srv.cycle /\ Decided /\ up = {} /\ ag.worldTime = ag.now
        /\ m.cycle = srv.cycle /\ m.count = srv.count
    BY <1>1 DEF Clock, Sensed
  <1>4. Sensed'
    <2> SUFFICES ASSUME NEW n \in down, n.kind = "sense_body" PROVE n = m
      BY <1>1 DEF Sensed
    <2>1. n.cycle = srv.cycle /\ n.count = srv.count
      BY DEF Clock
    <2>2. n \in SensoryMessages /\ m \in SensoryMessages
      BY DEF TypeOK
    <2> QED
      BY <2>1, <2>2, <1>1, <1>3 DEF SensoryMessages
  <1>5. ag.now \in Nat /\ srv.cycle \in Nat /\ srv.cycle # ag.now /\ ag \in Agents
        /\ eff \in Effectors /\ srv.count \in [Kinds -> Nat] /\ eff' \in Effectors
    <2>1. srv \in Servers /\ ag \in Agents /\ eff \in Effectors /\ eff' \in Effectors
      BY DEF TypeOK
    <2>2. ag.now \in 0..MaxCycle /\ srv.cycle \in 0..MaxCycle /\ srv.count \in [Kinds -> Nat]
      BY <2>1 DEF Agents, Servers
    <2> QED
      BY <1>3, <2>1, <2>2, EffectorAssumption
  <1>6. /\ ag'.now = srv.cycle /\ ag'.worldTime = srv.cycle
        /\ ag'.lastDecision = ag.lastDecision /\ ag'.used = Believed(eff')
    BY <1>1, <1>3, <1>5 DEF WorldUpdate, Agents
  <1>7. ag.lastDecision = ag.now /\ ag'.lastDecision # ag'.now
    BY <1>3, <1>5, <1>6 DEF Decided
  <1>8. Commands = {} /\ Commands' = {}
    BY <1>2, <1>3 DEF Commands
  <1>9. /\ eff.last # Illegal =>
             \A k \in BodyKinds \ {eff.last} : eff.count[k] = srv.count[k]
        /\ ~eff.neckDone => eff.count["turn_neck"] = srv.count["turn_neck"]
    BY <1>3, <1>8 DEF Settled
  <1>10. /\ eff'.count = srv.count
         /\ Believed(eff') =
              [body |-> IF eff.last # Illegal /\ eff.count[eff.last] = srv.count[eff.last]
                        THEN eff.last ELSE Illegal,
               stamp |-> IF (eff.last # Illegal /\ eff.count[eff.last] = srv.count[eff.last])
                            /\ eff.last # "catch"
                         THEN eff.effect[eff.last] ELSE 0,
               neck |-> eff.neckDone /\ eff.count["turn_neck"] = srv.count["turn_neck"]]
    BY <1>1, <1>3, <1>5, <1>9, CheckVerifies
  <1>11. (IF (eff.last # Illegal /\ eff.count[eff.last] = srv.count[eff.last])
              /\ eff.last # "catch" THEN eff.effect[eff.last] ELSE 0)
         = IF eff.last \in BodyKinds \ {"catch"} /\ eff.count[eff.last] = srv.count[eff.last]
           THEN ag.now ELSE 0
    <2>1. eff.last \in BodyKinds \cup {Illegal}
      BY <1>5 DEF Effectors
    <2> QED
      BY <1>3, <2>1, KindsApart DEF Stored
  <1>12. Believed(eff') = srv.ran[ag.now]
    BY <1>3, <1>8, <1>10, <1>11 DEF Settled
  <1>13. EffectIsReal'
    <2>1. ag'.worldTime - 1 = ag.now
      BY <1>3, <1>5, <1>6
    <2> QED
      BY <1>2, <1>6, <1>12, <2>1 DEF EffectIsReal
  <1>14. Clock'
    BY <1>1, <1>2, <1>3, <1>4, <1>5, <1>6, <1>7 DEF Clock
  <1>15. Link' /\ Pending' /\ Future'
    BY <1>2, <1>3, <1>8 DEF Link, Pending, Future
  <1>16. Undecided' /\ Stored' /\ Settled' /\ Begun'
    <2>1. Idle /\ Idle'
      BY <1>1, <1>2 DEF Begun, Sensed, Idle
    <2> QED
      BY <1>2, <1>4, <1>7, <1>10, <2>1 DEF Undecided, Decided, Stored, Settled, Begun
  <1> QED
    BY <1>13, <1>14, <1>15, <1>16

\* A see finds the world updated.
LEMMA StepSee == ASSUME IInv, HandleSee, TypeOK' PROVE IInv'
PROOF
  <1> USE DEF IInv
  <1>1. PICK m \in down :
          /\ \A n \in down : n.kind = "sense_body" => n.cycle # m.cycle
          /\ down' = down \ {m}
          /\ ag' = WorldUpdate([ag EXCEPT !.now = m.cycle], eff, m.cycle)
    BY DEF HandleSee
  <1>2. UNCHANGED <<srv, up, eff>>
    BY DEF HandleSee
  <1>3. Sensed /\ ag.now = srv.cycle /\ ag.worldTime = srv.cycle /\ m.cycle = srv.cycle
    BY <1>1 DEF Clock, Sensed
  <1>4. ag' = ag
    BY <1>1, <1>3 DEF WorldUpdate, TypeOK, Agents
  <1>5. Sensed'
    BY <1>1, <1>3 DEF Sensed
  <1>6. Clock'
    BY <1>1, <1>2, <1>3, <1>4, <1>5 DEF Clock, Decided
  <1>7. Link' /\ Future' /\ Undecided' /\ Stored' /\ Pending' /\ Settled' /\ Begun'
        /\ EffectIsReal'
    BY <1>2, <1>4, <1>5 DEF Link, Future, Undecided, Stored, Pending, Settled, Begun,
       EffectIsReal, Commands, Decided, Idle
  <1> QED
    BY <1>6, <1>7

\* A change_view of the adjustment touches no tracked counter.
LEMMA StepAdjust == ASSUME IInv, AdjustSee, TypeOK' PROVE IInv'
PROOF
  <1> USE DEF IInv
  <1> DEFINE d == [body |-> {}, support |-> {"change_view"}, effect |-> Illegal,
                   stamp |-> ag.now, alone |-> TRUE]
  <1>1. /\ ag.lastDecision # ag.now
        /\ ag' = [ag EXCEPT !.adjusted = ag.now]
        /\ eff' = IncCommandCount(eff, {"change_view"})
        /\ up' = up \cup {d}
        /\ UNCHANGED <<srv, down>>
    BY DEF AdjustSee
  <1>2. d.body = {} /\ d.support = {"change_view"} /\ d.stamp = ag.now /\ d.alone
    OBVIOUS
  <1> HIDE DEF d
  <1>3. ~Decided /\ Sensed /\ Sensed' /\ ag.now = srv.cycle
    BY <1>1 DEF Decided, Clock, Sensed
  <1>4. /\ ag'.now = ag.now /\ ag'.lastDecision = ag.lastDecision
        /\ ag'.worldTime = ag.worldTime /\ ag'.used = ag.used
    BY <1>1 DEF TypeOK, Agents
  <1>5. Commands = {} /\ Commands' = {}
    BY <1>1, <1>2, <1>3 DEF Commands, Link
  <1>6. \A k \in Tracked : eff'.count[k] = eff.count[k]
    BY <1>1, KindsApart DEF IncCommandCount, TypeOK, Effectors
  <1>7. Clock'
    BY <1>1, <1>3, <1>4 DEF Clock
  <1>8. Link'
    BY <1>1, <1>2, <1>3, <1>5 DEF Link
  <1>9. Undecided'
    BY <1>1, <1>3, <1>6 DEF Undecided, Idle
  <1>10. Future' /\ Stored' /\ Pending' /\ Settled' /\ Begun' /\ EffectIsReal'
    BY <1>1, <1>3, <1>4, <1>5 DEF Future, Stored, Pending, Settled, Begun, EffectIsReal, Decided
  <1> QED
    BY <1>7, <1>8, <1>9, <1>10

\* action() starts from agreeing counters and an idle server.
LEMMA StepAction == ASSUME IInv, Action, TypeOK' PROVE IInv'
PROOF
  <1> USE DEF IInv
  <1>1. PICK called \in SUBSET BodyKinds, support \in SUBSET SupportKinds,
             frozen \in BOOLEAN, queued \in BodyKinds \cup {Illegal} :
          /\ queued \in IF called = {} THEN {Illegal} ELSE called
          /\ eff' = MakeCommand(Register(Reset(eff), called, ag.now),
                                queued, support, frozen, ag.now)
          /\ up' = up \cup {[body |-> SentBody(queued, frozen), support |-> support,
                             effect |-> queued, stamp |-> ag.now, alone |-> FALSE]}
    BY DEF Action
  <1> DEFINE body == SentBody(queued, frozen)
             d == [body |-> body, support |-> support, effect |-> queued,
                   stamp |-> ag.now, alone |-> FALSE]
             e == Register(Reset(eff), called, ag.now)
  <1>2. /\ ag.lastDecision # ag.now
        /\ ag' = [WorldUpdate(ag, eff, ag.now) EXCEPT !.lastDecision = ag.now]
        /\ UNCHANGED <<srv, down>>
    BY DEF Action, MayDecide
  <1>3. ~Decided /\ Sensed /\ Sensed' /\ ag.now = srv.cycle /\ ag.worldTime = ag.now
    BY <1>2 DEF Decided, Clock, Sensed
  <1>4. /\ ag'.now = ag.now /\ ag'.lastDecision = ag.now
        /\ ag'.worldTime = ag.worldTime /\ ag'.used = ag.used
    BY <1>2, <1>3 DEF TypeOK, Agents, WorldUpdate
  <1>5. Decided' /\ Commands = {} /\ Idle
        /\ \A k \in Tracked : eff.count[k] = srv.count[k]
    BY <1>3, <1>4 DEF Decided, Link, Undecided
  <1>6. up' = up \cup {d} /\ ~d.alone
    BY <1>1
  <1>7. /\ d.stamp = srv.cycle /\ d.effect = queued
        /\ d.body = body /\ d.support = support
    BY <1>3
  <1>8. queued \in BodyKinds \cup {Illegal} /\ (queued # Illegal => queued \in called)
    BY <1>1, KindsApart
  <1>9. body \subseteq BodyKinds
        /\ (queued # Illegal => body = {queued}) /\ (queued = Illegal => body \subseteq {"turn"})
    BY <1>8, KindsApart DEF SentBody
  <1>10. /\ e.last = Illegal /\ ~e.neckDone /\ e.count = eff.count
         /\ \A k \in called \ {"catch"} : e.effect[k] = ag.now
    BY DEF Register, Reset, TypeOK, Effectors
  <1>11. e \in Effectors
    <2>1. ag.now \in Nat
      BY EffectorAssumption DEF TypeOK, Agents
    <2> QED
      BY <2>1, EffectorTypes DEF TypeOK
  <1>12. eff' = MakeCommand(e, queued, support, frozen, ag.now)
    BY <1>1
  <1> HIDE DEF d, e
  <1>13. /\ eff'.last = queued
         /\ eff'.neckDone = ("turn_neck" \in support)
         /\ eff'.effect = e.effect
         /\ eff'.count = [k \in Kinds |-> IF k \in body \cup support
                                         THEN e.count[k] + 1 ELSE e.count[k]]
    BY <1>10, <1>11, <1>12 DEF MakeCommand, IncCommandCount, Effectors
  <1> HIDE DEF body
  <1>14. Commands' = {d}
    BY <1>5, <1>6 DEF Commands
  <1>15. \A k \in Tracked :
           eff'.count[k] = IF k \in d.body \cup d.support
                           THEN srv.count[k] + 1 ELSE srv.count[k]
    BY <1>5, <1>7, <1>10, <1>13, KindsApart
  <1>16. Pending'
    BY <1>2, <1>5, <1>7, <1>9, <1>13, <1>14, <1>15 DEF Pending, Idle
  <1>17. Stored'
    BY <1>4, <1>8, <1>10, <1>13, KindsApart DEF Stored
  <1>18. Clock'
    <2>1. ag.now \in Int
      BY EffectorAssumption DEF TypeOK, Agents
    <2> QED
      BY <1>2, <1>3, <1>4, <2>1 DEF Clock
  <1>19. Link'
    BY <1>2, <1>5, <1>6, <1>7, <1>14 DEF Link
  <1>20. Future' /\ Undecided' /\ Settled' /\ Begun' /\ EffectIsReal'
    BY <1>2, <1>3, <1>4, <1>5, <1>14 DEF Future, Undecided, Settled, Begun, EffectIsReal
  <1> QED
    BY <1>16, <1>17, <1>18, <1>19, <1>20

\* The cycle ends when it is settled.
LEMMA StepTick == ASSUME Reliable, IInv, Tick, TypeOK' PROVE IInv'
PROOF
  <1> USE DEF IInv
  <1>1. /\ up = {} /\ down = {} /\ ag.lastDecision = srv.cycle
        /\ srv' = [srv EXCEPT !.cycle = srv.cycle + 1, !.done = {}]
        /\ down' = {SenseBody(srv.cycle + 1, srv.count), See(srv.cycle + 1)}
        /\ UNCHANGED <<up, eff, ag, hist>>
    BY DEF Tick, Reliable
  <1>2. Sensed /\ ag.now = srv.cycle /\ Decided /\ ag.worldTime = ag.now
    BY <1>1 DEF Sensed, Clock, Decided
  <1>3. /\ srv'.cycle = srv.cycle + 1 /\ srv'.done = {}
        /\ srv'.ran = srv.ran /\ srv'.count = srv.count
    BY <1>1 DEF TypeOK, Servers
  <1>4. srv.cycle \in Int /\ srv'.cycle \in 0..MaxCycle
    BY EffectorAssumption DEF TypeOK, Servers
  <1>5. ~Sensed'
    BY <1>1 DEF Sensed, SenseBody
  <1>6. \A m \in down' : m.cycle = srv'.cycle
                        /\ (m.kind = "sense_body" => m.count = srv'.count)
    BY <1>1, <1>3 DEF SenseBody, See
  <1>7. Clock'
    BY <1>1, <1>2, <1>3, <1>4, <1>5, <1>6 DEF Clock, Decided
  <1>8. Idle'
    BY <1>3, <1>4 DEF Idle, Future
  <1>9. Commands = {} /\ Commands' = {}
    BY <1>1 DEF Commands
  <1>10. Link' /\ Pending'
    BY <1>1, <1>9 DEF Link, Pending
  <1>11. Future'
    BY <1>3, <1>4 DEF Future
  <1>12. Undecided' /\ Stored' /\ Settled' /\ Begun' /\ EffectIsReal'
    BY <1>1, <1>2, <1>3, <1>8, <1>9
    DEF Undecided, Stored, Settled, Begun, EffectIsReal, Decided
  <1> QED
    BY <1>7, <1>10, <1>11, <1>12

\* What the server makes of the kinds ks of a datagram.
LEMMA ExecutedFields ==
  ASSUME srv \in Servers, NEW d \in Datagrams, NEW ks \in SUBSET Kinds,
         srv' = Executed(d, ks)
  PROVE  /\ srv'.cycle = srv.cycle
         /\ \A k \in Tracked :
              srv'.count[k] = IF k \in ks THEN srv.count[k] + 1 ELSE srv.count[k]
         /\ srv'.done = srv.done \cup ks
         /\ \A c \in 0..MaxCycle : c # srv.cycle => srv'.ran[c] = srv.ran[c]
         /\ srv'.ran[srv.cycle] =
              [body |-> IF ks \cap BodyKinds = {} THEN srv.ran[srv.cycle].body ELSE d.effect,
               stamp |-> IF ks \cap BodyKinds = {} THEN srv.ran[srv.cycle].stamp
                         ELSE IF d.effect \in {Illegal, "catch"} THEN 0 ELSE d.stamp,
               neck |-> srv.ran[srv.cycle].neck \/ "turn_neck" \in ks]
PROOF
  <1>1. srv'.cycle = srv.cycle /\ srv'.done = srv.done \cup ks
        /\ srv'.count = Counted(srv.count, ks)
    BY DEF Executed, Servers
  <1>2. \A k \in Tracked :
          srv'.count[k] = IF k \in ks THEN srv.count[k] + 1 ELSE srv.count[k]
    BY <1>1, KindsApart DEF Counted
  <1>3. /\ \A c \in 0..MaxCycle : c # srv.cycle => srv'.ran[c] = srv.ran[c]
        /\ srv'.ran[srv.cycle] =
              [body |-> IF ks \cap BodyKinds = {} THEN srv.ran[srv.cycle].body ELSE d.effect,
               stamp |-> IF ks \cap BodyKinds = {} THEN srv.ran[srv.cycle].stamp
                         ELSE IF d.effect \in {Illegal, "catch"} THEN 0 ELSE d.stamp,
               neck |-> srv.ran[srv.cycle].neck \/ "turn_neck" \in ks]
    BY DEF Executed, Servers
  <1> QED
    BY <1>1, <1>2, <1>3

\* An effect is the record of its fields.
LEMMA EffectFields ==
  ASSUME NEW r \in Effects
  PROVE  r = [body |-> r.body, stamp |-> r.stamp, neck |-> r.neck]
PROOF
  <1>1. r \in [body : BodyKinds \cup {Illegal}, stamp : Nat, neck : BOOLEAN]
    BY DEF Effects
  <1> QED
    BY <1>1, Zenon

\* While something is under way the agent is at the server's cycle.
LEMMA UnderWay ==
  ASSUME IInv, NEW d \in up
  PROVE  /\ Sensed /\ ag.now = srv.cycle /\ d.stamp = srv.cycle /\ d \in Datagrams
         /\ d.alone => d.body = {} /\ d.support = {"change_view"}
         /\ ~d.alone => Decided /\ Commands = {d} /\ Idle
PROOF
  <1>1. Sensed /\ ag.now = srv.cycle /\ d.stamp = srv.cycle /\ d \in Datagrams
    BY DEF IInv, Clock, Link, TypeOK
  <1>2. ~d.alone => Decided /\ Commands = {d} /\ Idle
    BY DEF IInv, Link, Pending, Commands
  <1> QED
    BY <1>1, <1>2 DEF IInv, Link

\* The adjustment's change_view comes and goes without a trace.
LEMMA AloneLeaves ==
  ASSUME IInv, NEW d \in up, d.alone, up' = up \ {d}, UNCHANGED <<down, eff, ag>>, TypeOK',
         srv'.cycle = srv.cycle,
         \A k \in Tracked : srv'.count[k] = srv.count[k],
         srv'.done \cap Tracked = srv.done \cap Tracked,
         \A c \in 0..MaxCycle : srv'.ran[c] = srv.ran[c]
  PROVE  IInv'
PROOF
  <1> USE DEF IInv
  <1>1. Sensed /\ Sensed' /\ Commands' = Commands
    BY UnderWay DEF Sensed, Commands
  <1>9. ag.now = srv.cycle /\ ag.worldTime = srv.cycle /\ srv.cycle \in 0..MaxCycle
        /\ (srv.cycle > 0 => srv.cycle - 1 \in 0..MaxCycle)
    <2>1. srv.cycle \in 0..MaxCycle
      BY DEF TypeOK, Servers
    <2> QED
      BY <2>1, <1>1, EffectorAssumption DEF Clock
  <1>10. srv'.ran[srv.cycle] = srv.ran[srv.cycle]
    BY <1>9
  <1>2. Clock'
    BY <1>1, <1>9 DEF Clock, Decided, Sensed
  <1>3. Link'
    BY <1>1 DEF Link, Decided
  <1>4. Idle' <=> Idle
    BY <1>10 DEF Idle
  <1>5. Future' /\ Stored' /\ Begun'
    BY <1>1 DEF Future, Stored, Begun, Decided
  <1>11. EffectIsReal'
    BY <1>9 DEF EffectIsReal
  <1>6. Undecided'
    BY <1>4 DEF Undecided, Decided
  <1>7. Pending'
    BY <1>1, <1>4 DEF Pending
  <1>8. Settled'
    <2>1. \A k \in BodyKinds \cup {"turn_neck"} : srv'.count[k] = srv.count[k]
      BY DEF Tracked
    <2>2. eff.last \in BodyKinds \cup {Illegal}
      BY DEF TypeOK, Effectors
    <2> QED
      BY <1>1, <1>9, <1>10, <2>1, <2>2 DEF Settled, Decided
  <1> QED
    BY <1>2, <1>3, <1>5, <1>6, <1>7, <1>8, <1>11

\* The commands of a cycle settle it, whichever kinds ks of them are executed:
\* a body command, the turn_neck, both or none.
LEMMA CommandsLeave ==
  ASSUME IInv, NEW d \in up, ~d.alone, up' = up \ {d}, UNCHANGED <<down, eff, ag>>, TypeOK',
         NEW ks \in SUBSET (d.body \cup d.support),
         ks \cap BodyKinds \in {{}, d.body},
         srv'.cycle = srv.cycle,
         \A k \in Tracked :
           srv'.count[k] = IF k \in ks THEN srv.count[k] + 1 ELSE srv.count[k],
         \A c \in 0..MaxCycle : c # srv.cycle => srv'.ran[c] = srv.ran[c],
         srv'.ran[srv.cycle] =
           [body |-> IF ks \cap BodyKinds = {} THEN srv.ran[srv.cycle].body ELSE d.effect,
            stamp |-> IF ks \cap BodyKinds = {} THEN srv.ran[srv.cycle].stamp
                      ELSE IF d.effect \in {Illegal, "catch"} THEN 0 ELSE d.stamp,
            neck |-> srv.ran[srv.cycle].neck \/ "turn_neck" \in ks],
         ~("turn_neck" \in d.support \ ks /\ srv.ran[srv.cycle].neck)
  PROVE  IInv'
PROOF
  <1> USE DEF IInv
  <1>1. /\ Sensed /\ Sensed' /\ ag.now = srv.cycle /\ d.stamp = srv.cycle
        /\ Decided /\ Decided' /\ Commands = {d} /\ Commands' = {} /\ Idle
        /\ d \in Datagrams
    <2>1. Commands' = Commands \ {d}
      BY DEF Commands
    <2> QED
      BY <2>1, UnderWay DEF Sensed, Decided
  <1>2. /\ d.effect = eff.last
        /\ eff.last # Illegal => d.body = {eff.last}
        /\ eff.last = Illegal => d.body \subseteq {"turn"}
        /\ eff.neckDone <=> "turn_neck" \in d.support
        /\ \A k \in Tracked :
             eff.count[k] = IF k \in d.body \cup d.support
                            THEN srv.count[k] + 1 ELSE srv.count[k]
    BY <1>1 DEF Pending
  <1>3. /\ eff.last \in BodyKinds \cup {Illegal} /\ eff.neckDone \in BOOLEAN
        /\ \A k \in Tracked : srv.count[k] \in Nat
        /\ d.body \subseteq BodyKinds /\ d.support \subseteq SupportKinds
        /\ srv.cycle \in 0..MaxCycle
    BY <1>1, KindsApart DEF TypeOK, Effectors, Servers, Datagrams
  <1>4. \A k \in Tracked :
          eff.count[k] = srv'.count[k] <=> k \notin (d.body \cup d.support) \ ks
    BY <1>2, <1>3
  <1>5. \A k \in BodyKinds : eff.count[k] = srv'.count[k] <=> k \notin d.body \ ks
    BY <1>3, <1>4, KindsApart DEF Tracked
  <1>6. eff.count["turn_neck"] = srv'.count["turn_neck"]
          <=> "turn_neck" \notin d.support \ ks
    BY <1>3, <1>4, KindsApart DEF Tracked
  <1>7. srv.ran[srv.cycle] = NoEffect
    BY <1>1 DEF Idle
  <1> DEFINE r == srv'.ran[srv.cycle]
  <1>8. "turn_neck" \in ks => "turn_neck" \in d.support
    BY <1>3, KindsApart
  <1>9. r = [body |-> IF ks \cap BodyKinds = {} THEN Illegal ELSE eff.last,
             stamp |-> IF ks \cap BodyKinds = {} \/ eff.last \in {Illegal, "catch"}
                       THEN 0 ELSE srv.cycle,
             neck |-> "turn_neck" \in ks]
    BY <1>1, <1>2, <1>7 DEF NoEffect
  <1>10. eff.last # Illegal =>
           (ks \cap BodyKinds # {} <=> eff.count[eff.last] = srv'.count[eff.last])
    BY <1>2, <1>3, <1>5
  <1>11. "turn_neck" \in ks
           <=> eff.neckDone /\ eff.count["turn_neck"] = srv'.count["turn_neck"]
    BY <1>2, <1>6, <1>8
  <1>12. (IF ks \cap BodyKinds = {} THEN Illegal ELSE eff.last)
          = IF eff.last # Illegal /\ eff.count[eff.last] = srv'.count[eff.last]
            THEN eff.last ELSE Illegal
    BY <1>10
  <1>13. (IF ks \cap BodyKinds = {} \/ eff.last \in {Illegal, "catch"} THEN 0 ELSE srv.cycle)
          = IF eff.last \in BodyKinds \ {"catch"}
               /\ eff.count[eff.last] = srv'.count[eff.last] THEN ag.now ELSE 0
    BY <1>1, <1>3, <1>10, KindsApart
  <1>14. ("turn_neck" \in ks)
          = (eff.neckDone /\ eff.count["turn_neck"] = srv'.count["turn_neck"])
    BY <1>3, <1>11
  <1>15. r = [body |-> IF eff.last # Illegal /\ eff.count[eff.last] = srv'.count[eff.last]
                       THEN eff.last ELSE Illegal,
              stamp |-> IF eff.last \in BodyKinds \ {"catch"}
                           /\ eff.count[eff.last] = srv'.count[eff.last]
                        THEN ag.now ELSE 0,
              neck |-> eff.neckDone /\ eff.count["turn_neck"] = srv'.count["turn_neck"]]
    BY <1>9, <1>12, <1>13, <1>14
  <1>16. eff.last # Illegal =>
           \A k \in BodyKinds \ {eff.last} : eff.count[k] = srv'.count[k]
    BY <1>2, <1>5
  <1>17. ~eff.neckDone => eff.count["turn_neck"] = srv'.count["turn_neck"]
    BY <1>2, <1>6
  <1>18. Settled'
    BY <1>1, <1>15, <1>16, <1>17 DEF Settled
  <1>19. Clock'
    BY <1>1 DEF Clock, Sensed
  <1>20. Link'
    BY <1>1 DEF Link
  <1>21. Future'
    BY <1>3 DEF Future
  <1>22. EffectIsReal'
    <2>1. ag.worldTime = srv.cycle
      BY <1>1 DEF Clock
    <2>2. srv.cycle > 0 => srv.cycle - 1 \in 0..MaxCycle /\ srv.cycle - 1 # srv.cycle
      BY <1>3, EffectorAssumption
    <2> QED
      BY <2>1, <2>2 DEF EffectIsReal
  <1>23. Undecided' /\ Stored' /\ Pending' /\ Begun'
    BY <1>1 DEF Undecided, Stored, Pending, Begun, Decided
  <1> QED
    BY <1>18, <1>19, <1>20, <1>21, <1>22, <1>23

LEMMA StepExecute == ASSUME IInv, Execute, TypeOK' PROVE IInv'
PROOF
  <1>1. PICK d \in up : up' = up \ {d} /\ srv' = Executed(d, Accepted(d))
    BY DEF Execute
  <1>2. UNCHANGED <<down, eff, ag>>
    BY DEF Execute
  <1> DEFINE ks == Accepted(d)
  <1>3. srv \in Servers /\ d \in Datagrams
    BY DEF IInv, TypeOK
  <1>4. ks \in SUBSET (d.body \cup d.support) /\ ks \in SUBSET Kinds
    BY <1>3, AcceptedKinds
  <1> HIDE DEF ks
  <1>5. srv' = Executed(d, ks)
    BY <1>1 DEF ks
  <1>6. CASE d.alone
    <2>1. ks \cap Tracked = {} /\ "turn_neck" \notin ks /\ ks \cap BodyKinds = {}
      BY <1>4, <1>6, UnderWay, KindsApart DEF Tracked
    <2>2. srv.ran[srv.cycle] \in Effects /\ srv'.ran \in [0..MaxCycle -> Effects]
          /\ srv.ran \in [0..MaxCycle -> Effects] /\ srv.cycle \in 0..MaxCycle
      BY DEF IInv, TypeOK, Servers
    <2>3. srv'.ran[srv.cycle] = [body |-> srv.ran[srv.cycle].body,
                                 stamp |-> srv.ran[srv.cycle].stamp,
                                 neck |-> srv.ran[srv.cycle].neck \/ "turn_neck" \in ks]
      BY <1>3, <1>4, <1>5, <2>1, ExecutedFields
    <2> DEFINE r == srv.ran[srv.cycle]
    <2>8. r.neck \in BOOLEAN
      BY <2>2 DEF Effects
    <2>9. r.neck \/ "turn_neck" \in ks <=> r.neck
      BY <2>1
    <2>10. (r.neck \/ "turn_neck" \in ks) = r.neck
      BY <2>8, <2>9, Zenon
    <2>12. r \in Effects
      BY <2>2
    <2>13. srv'.ran[srv.cycle] = [body |-> r.body, stamp |-> r.stamp,
                                  neck |-> r.neck \/ "turn_neck" \in ks]
      BY <2>3
    <2> HIDE DEF r
    <2>11. r = [body |-> r.body, stamp |-> r.stamp, neck |-> r.neck]
      BY <2>12, EffectFields
    <2>14. srv'.ran[srv.cycle] = r
      BY <2>10, <2>11, <2>13, Zenon
    <2>4. srv'.ran[srv.cycle] = srv.ran[srv.cycle]
      BY <2>14 DEF r
    <2>5. \A c \in 0..MaxCycle : c # srv.cycle => srv'.ran[c] = srv.ran[c]
      BY <1>3, <1>4, <1>5, ExecutedFields
    <2>15. \A c \in 0..MaxCycle : srv'.ran[c] = srv.ran[c]
      BY <2>4, <2>5
    <2>7. srv'.cycle = srv.cycle /\ srv'.done = srv.done \cup ks
          /\ \A k \in Tracked :
               srv'.count[k] = IF k \in ks THEN srv.count[k] + 1 ELSE srv.count[k]
      BY <1>3, <1>4, <1>5, ExecutedFields
    <2>16. srv'.done \cap Tracked = srv.done \cap Tracked
           /\ \A k \in Tracked : srv'.count[k] = srv.count[k]
      BY <2>1, <2>7
    <2> QED
      BY <1>1, <1>2, <1>6, <2>7, <2>15, <2>16, AloneLeaves
  <1>7. CASE ~d.alone
    <2>1. Idle
      BY <1>7, UnderWay
    <2>2. ks = d.body \cup d.support
      <3>1. srv.done \cap BodyKinds = {} /\ "turn_neck" \notin srv.done
        BY <2>1 DEF Idle, Tracked
      <3> QED
        BY <3>1 DEF ks, Accepted
    <2>3. ks \cap BodyKinds = d.body
      BY <1>3, <2>2, KindsApart DEF Datagrams
    <2>4. ~("turn_neck" \in d.support \ ks /\ srv.ran[srv.cycle].neck)
      BY <2>2
    <2>5. srv'.cycle = srv.cycle
          /\ (\A k \in Tracked :
                srv'.count[k] = IF k \in ks THEN srv.count[k] + 1 ELSE srv.count[k])
          /\ \A c \in 0..MaxCycle : c # srv.cycle => srv'.ran[c] = srv.ran[c]
      BY <1>3, <1>4, <1>5, ExecutedFields
    <2>6. srv'.ran[srv.cycle] =
           [body |-> IF ks \cap BodyKinds = {} THEN srv.ran[srv.cycle].body ELSE d.effect,
            stamp |-> IF ks \cap BodyKinds = {} THEN srv.ran[srv.cycle].stamp
                      ELSE IF d.effect \in {Illegal, "catch"} THEN 0 ELSE d.stamp,
            neck |-> srv.ran[srv.cycle].neck \/ "turn_neck" \in ks]
      BY <1>3, <1>4, <1>5, ExecutedFields
    <2> QED
      BY <1>1, <1>2, <1>4, <1>7, <2>3, <2>4, <2>5, <2>6, CommandsLeave
  <1> QED
    BY <1>6, <1>7

LEMMA StepRefuse == ASSUME IInv, RefuseBody, TypeOK' PROVE IInv'
PROOF
  <1>1. PICK d \in up : /\ d.body # {}
                       /\ up' = up \ {d} /\ srv' = Executed(d, Accepted(d) \ BodyKinds)
    BY DEF RefuseBody
  <1>2. UNCHANGED <<down, eff, ag>>
    BY DEF RefuseBody
  <1> DEFINE ks == Accepted(d) \ BodyKinds
  <1>3. srv \in Servers /\ d \in Datagrams
    BY DEF IInv, TypeOK
  <1>4. ks \in SUBSET (d.body \cup d.support) /\ ks \in SUBSET Kinds
        /\ ks \cap BodyKinds = {}
    BY <1>3, AcceptedKinds
  <1>5. ~d.alone /\ Idle
    BY <1>1, UnderWay
  <1>6. d.support \ ks = {}
    <2>1. "turn_neck" \notin srv.done
      BY <1>5 DEF Idle, Tracked
    <2>2. d.support \cap BodyKinds = {}
      BY <1>3, KindsApart DEF Datagrams
    <2> QED
      BY <2>1, <2>2 DEF Accepted
  <1> HIDE DEF ks
  <1>7. srv' = Executed(d, ks)
    BY <1>1 DEF ks
  <1>8. srv'.cycle = srv.cycle
        /\ (\A k \in Tracked :
              srv'.count[k] = IF k \in ks THEN srv.count[k] + 1 ELSE srv.count[k])
        /\ \A c \in 0..MaxCycle : c # srv.cycle => srv'.ran[c] = srv.ran[c]
    BY <1>3, <1>4, <1>7, ExecutedFields
  <1>9. srv'.ran[srv.cycle] =
         [body |-> IF ks \cap BodyKinds = {} THEN srv.ran[srv.cycle].body ELSE d.effect,
          stamp |-> IF ks \cap BodyKinds = {} THEN srv.ran[srv.cycle].stamp
                    ELSE IF d.effect \in {Illegal, "catch"} THEN 0 ELSE d.stamp,
          neck |-> srv.ran[srv.cycle].neck \/ "turn_neck" \in ks]
    BY <1>3, <1>4, <1>7, ExecutedFields
  <1> QED
    BY <1>1, <1>2, <1>4, <1>5, <1>6, <1>8, <1>9, CommandsLeave

LEMMA StepLose == ASSUME Reliable, IInv, Lose, TypeOK' PROVE IInv'
PROOF
  <1>1. PICK d \in up : up' = up \ {d}
    BY DEF Lose, Reliable
  <1>2. UNCHANGED <<srv, down, eff, ag>>
    BY DEF Lose, Reliable
  <1>3. CASE d.alone
    BY <1>1, <1>2, <1>3, AloneLeaves
  <1>4. CASE ~d.alone
    <2>1. Idle
      BY <1>4, UnderWay
    <2>2. srv.ran[srv.cycle] = NoEffect
      BY <2>1 DEF Idle
    <2>3. ~srv.ran[srv.cycle].neck
      BY <2>2 DEF NoEffect
    <2> DEFINE ks == {}
    <2>7. (srv.ran[srv.cycle].neck \/ "turn_neck" \in ks) = FALSE
      BY <2>3
    <2>8. ks \cap BodyKinds = {} /\ srv.ran[srv.cycle].body = Illegal
          /\ srv.ran[srv.cycle].stamp = 0
      BY <2>2 DEF NoEffect
    <2>9. srv'.ran[srv.cycle] = [body |-> Illegal, stamp |-> 0, neck |-> FALSE]
      BY <1>2, <2>2 DEF NoEffect
    <2>4. srv'.ran[srv.cycle] =
           [body |-> IF ks \cap BodyKinds = {} THEN srv.ran[srv.cycle].body ELSE d.effect,
            stamp |-> IF ks \cap BodyKinds = {} THEN srv.ran[srv.cycle].stamp
                      ELSE IF d.effect \in {Illegal, "catch"} THEN 0 ELSE d.stamp,
            neck |-> srv.ran[srv.cycle].neck \/ "turn_neck" \in ks]
      BY <2>7, <2>8, <2>9, Zenon
    <2>5. ks \in SUBSET (d.body \cup d.support) /\ ks \cap BodyKinds \in {{}, d.body}
          /\ \A k \in Tracked :
               srv'.count[k] = IF k \in ks THEN srv.count[k] + 1 ELSE srv.count[k]
      BY <1>2
    <2>6. srv'.cycle = srv.cycle
          /\ \A c \in 0..MaxCycle : c # srv.cycle => srv'.ran[c] = srv.ran[c]
      BY <1>2
    <2> HIDE DEF ks
    <2> QED
      BY <1>1, <1>2, <1>4, <2>3, <2>4, <2>5, <2>6, CommandsLeave
  <1> QED
    BY <1>3, <1>4

LEMMA IInvStep == ASSUME Reliable, IInv, [Next]_vars PROVE IInv'
PROOF
  <1>1. TypeOK'
    BY TypeStep DEF IInv
  <1>2. CASE HandleSenseBody
    BY <1>1, <1>2, StepSenseBody
  <1>3. CASE HandleSee
    BY <1>1, <1>3, StepSee
  <1>4. CASE AdjustSee
    BY <1>1, <1>4, StepAdjust
  <1>5. CASE Action
    BY <1>1, <1>5, StepAction
  <1>6. CASE Tick
    BY <1>1, <1>6, StepTick
  <1>7. CASE Execute
    BY <1>1, <1>7, StepExecute
  <1>8. CASE RefuseBody
    BY <1>1, <1>8, StepRefuse
  <1>9. CASE Lose
    BY <1>1, <1>9, StepLose
  <1>10. CASE UNCHANGED vars
    BY <1>1, <1>10 DEF vars, IInv, Clock, Link, Future, Undecided, Stored, Pending, Settled,
       Begun, EffectIsReal, Sensed, Decided, Commands, Idle
  <1> QED
    BY <1>2, <1>3, <1>4, <1>5, <1>6, <1>7, <1>8, <1>9, <1>10 DEF Next, Agent, Environment

\* The world model integrates exactly what the server executed, whatever commands
\* are lost on their way or refused, as long as every sense_body arrives and every
\* cycle is decided.
THEOREM EffectReal == ASSUME Reliable PROVE Spec => []EffectIsReal
PROOF
  <1>1. Init => IInv
    BY IInvInit
  <1>2. IInv /\ [Next]_vars => IInv'
    BY IInvStep
  <1>3. IInv => EffectIsReal
    BY DEF IInv
  <1> QED
    BY <1>1, <1>2, <1>3, PTL DEF Spec

-----------------------------------------------------------------------------
(* The messages of the server arrive in the order of their cycles.         *)

\* The waiting messages are not older than the agent's time.
InOrder ==
  /\ ag.lastDecision <= ag.now /\ ag.now <= srv.cycle
  /\ \A m \in down : ag.now <= m.cycle /\ m.cycle <= srv.cycle

LEMMA OrderStep == ASSUME TypeOK, InOrder, [Next]_vars PROVE InOrder'
PROOF
  <1> USE DEF TypeOK, InOrder, Agents, Servers, SensoryMessages
  <1>1. CASE HandleSenseBody \/ HandleSee
    <2>1. PICK m \in down : /\ \A n \in down' : m.cycle <= n.cycle
                            /\ down' \subseteq down
                            /\ ag'.now = m.cycle /\ ag'.lastDecision = ag.lastDecision
                            /\ srv' = srv
      BY <1>1 DEF HandleSenseBody, HandleSee, WorldUpdate
    <2> QED
      BY <2>1
  <1>2. CASE Action \/ AdjustSee
    <2>1. ag'.now = ag.now /\ ag'.lastDecision \in {ag.now, ag.lastDecision}
          /\ srv' = srv /\ down' = down
      BY <1>2 DEF Action, AdjustSee, WorldUpdate
    <2> QED
      BY <2>1
  <1>3. CASE Tick
    <2>1. srv'.cycle = srv.cycle + 1 /\ ag' = ag
          /\ \A m \in down' : m \in down \/ m.cycle = srv.cycle + 1
      BY <1>3 DEF Tick, SenseBody, See
    <2> QED
      BY <2>1
  <1>4. CASE Execute \/ RefuseBody \/ Lose \/ UNCHANGED vars
    <2>1. srv'.cycle = srv.cycle /\ ag' = ag /\ down' \subseteq down
      BY <1>4 DEF Execute, RefuseBody, Lose, Executed, vars
    <2> QED
      BY <2>1
  <1> QED
    BY <1>1, <1>2, <1>3, <1>4 DEF Next, Agent, Environment

-----------------------------------------------------------------------------
(* An alarm is a loss, as long as every cycle is decided; a sense_body may *)
(* be lost.  The counters of the two sides differ by the commands under    *)
(* way, and a further difference has been paid for by a loss.              *)

\* What is under way belongs to this cycle, and the server has room for it.
OnTheWay ==
  /\ ag.now # srv.cycle => up = {} /\ Decided /\ srv.done = {}
  /\ \A d \in up : d.alone => d.body = {} /\ d.support = {"change_view"}
                              /\ ag.adjusted = ag.now
  /\ \A d, e \in up : d.alone = e.alone => d = e
  /\ ~Decided => Commands = {}
  /\ ~Decided \/ Commands # {} => srv.done \cap Tracked = {}

\* A sense_body is read before anything is sent in its cycle.
Timely ==
  \A m \in down :
    /\ m.cycle = srv.cycle
    /\ m.kind = "sense_body" => ag.now # srv.cycle /\ m.count = srv.count

\* How many commands of the kind k are under way.
Coming(k) ==
  (IF \E d \in Commands : k \in d.body \cup d.support THEN 1 ELSE 0)
    + IF k = "change_view" /\ up # Commands THEN 1 ELSE 0

Agreed == \A k \in Kinds : eff.count[k] = srv.count[k] + Coming(k)

Paid == hist.alarms + (IF Agreed THEN 0 ELSE 1) <= hist.lost

AlarmInv == TypeOK /\ InOrder /\ OnTheWay /\ Timely /\ Paid

LEMMA AlarmInit == Init => OnTheWay /\ Timely /\ Paid
PROOF
  <1> SUFFICES ASSUME Init PROVE OnTheWay /\ Timely /\ Paid
    OBVIOUS
  <1>1. up = {} /\ Commands = {} /\ down = {} /\ srv.done = {}
        /\ ag.now = 0 /\ srv.cycle = 0
    BY DEF Init, NewAgent, Commands
  <1>2. \A k \in Kinds : eff.count[k] = 0 /\ srv.count[k] = 0 /\ Coming(k) = 0
    BY <1>1 DEF Init, NewEffector, Coming
  <1>3. Agreed
    BY <1>2 DEF Agreed
  <1> QED
    BY <1>1, <1>3 DEF OnTheWay, Timely, Paid, Init

\* With nothing under way the counters agree exactly when no alarm is raised.
LEMMA NothingComing ==
  ASSUME TypeOK, up = {}
  PROVE  Agreed <=> \A k \in Kinds : eff.count[k] = srv.count[k]
PROOF
  <1>1. \A k \in Kinds : Coming(k) = 0
    BY DEF Coming, Commands
  <1> QED
    BY <1>1 DEF Agreed, TypeOK, Servers

\* A check takes over the counts of the server.
LEMMA CheckCounts ==
  ASSUME NEW e \in Effectors, NEW counts
  PROVE  CheckCommandCount(e, counts).count = counts
PROOF
  <1> QED
    BY DEF CheckCommandCount, Effectors

LEMMA AlarmSense ==
  ASSUME AlarmInv, HandleSenseBody, TypeOK'
  PROVE  OnTheWay' /\ Timely' /\ Paid'
PROOF
  <1> USE DEF AlarmInv
  <1>1. PICK m \in down :
          /\ m.kind = "sense_body"
          /\ down' = down \ {m}
          /\ eff' = CheckCommandCount(eff, m.count)
          /\ ag' = WorldUpdate([ag EXCEPT !.now = m.cycle], eff', m.cycle)
          /\ hist' = [hist EXCEPT
                  !.alarms = IF Mismatches(eff, m.count) = {} THEN @ ELSE @ + 1]
    BY DEF HandleSenseBody
  <1>2. UNCHANGED <<srv, up>>
    BY DEF HandleSenseBody
  <1>3. /\ m.cycle = srv.cycle /\ m.count = srv.count
        /\ up = {} /\ Commands = {} /\ srv.done = {}
    BY <1>1 DEF Timely, OnTheWay, Commands
  <1>4. ag'.now = srv.cycle
    BY <1>1, <1>3 DEF WorldUpdate, TypeOK, Agents
  <1>5. OnTheWay'
    BY <1>2, <1>3, <1>4 DEF OnTheWay, Commands
  <1>6. Timely'
    <2> SUFFICES ASSUME NEW n \in down', n.kind = "sense_body" PROVE FALSE
      BY <1>1, <1>2 DEF Timely
    <2>1. n \in down /\ n # m
      BY <1>1
    <2>2. n.cycle = srv.cycle /\ n.count = srv.count
      BY <2>1 DEF Timely
    <2>3. n \in SensoryMessages /\ m \in SensoryMessages
      BY <2>1 DEF TypeOK
    <2> QED
      BY <1>1, <1>3, <2>1, <2>2, <2>3 DEF SensoryMessages
  <1>7. eff'.count = srv.count
    <2>1. eff \in Effectors
      BY DEF TypeOK
    <2> QED
      BY <1>1, <1>3, <2>1, CheckCounts
  <1>8. Agreed'
    <2>1. \A k \in Kinds : Coming(k)' = 0
      BY <1>2, <1>3 DEF Coming, Commands
    <2> QED
      BY <1>2, <1>7, <2>1 DEF Agreed, TypeOK, Servers
  <1>9. Agreed <=> Mismatches(eff, srv.count) = {}
    BY <1>3, NothingComing DEF Mismatches
  <1>10. hist.alarms \in Nat /\ hist.lost \in Nat
    BY DEF TypeOK
  <1>11. /\ hist'.lost = hist.lost
         /\ hist'.alarms = IF Mismatches(eff, srv.count) = {} THEN hist.alarms
                           ELSE hist.alarms + 1
    BY <1>1, <1>3 DEF TypeOK
  <1>12. Paid'
    BY <1>8, <1>9, <1>10, <1>11 DEF Paid
  <1> QED
    BY <1>5, <1>6, <1>12

LEMMA AlarmSee ==
  ASSUME AlarmInv, HandleSee, TypeOK'
  PROVE  OnTheWay' /\ Timely' /\ Paid'
PROOF
  <1> USE DEF AlarmInv
  <1>1. PICK m \in down :
          /\ \A n \in down : n.kind = "sense_body" => n.cycle # m.cycle
          /\ down' = down \ {m}
          /\ ag' = WorldUpdate([ag EXCEPT !.now = m.cycle], eff, m.cycle)
    BY DEF HandleSee
  <1>2. UNCHANGED <<srv, up, eff, hist>>
    BY DEF HandleSee
  <1>3. /\ ag'.now = srv.cycle /\ ag'.lastDecision = ag.lastDecision
        /\ ag'.adjusted = ag.adjusted
    BY <1>1 DEF Timely, WorldUpdate, TypeOK, Agents
  <1>4. OnTheWay'
    <2>1. CASE ag.now = srv.cycle
      BY <1>2, <1>3, <2>1 DEF OnTheWay, Commands, Decided
    <2>2. CASE ag.now # srv.cycle
      BY <1>2, <1>3, <2>2 DEF OnTheWay, Commands
    <2> QED
      BY <2>1, <2>2
  <1>5. Timely'
    BY <1>1, <1>2 DEF Timely
  <1>6. Paid'
    BY <1>2 DEF Paid, Agreed, Coming, Commands
  <1> QED
    BY <1>4, <1>5, <1>6

\* A datagram joins those under way, and its commands are counted by the effector.
LEMMA SendingAgrees ==
  ASSUME TypeOK, Agreed, NEW d, up' = up \cup {d}, d.alone \in BOOLEAN,
         \A e \in up : e.alone # d.alone,
         d.alone => d.body \cup d.support = {"change_view"},
         srv' = srv,
         \A k \in Kinds : eff'.count[k] = IF k \in d.body \cup d.support
                                         THEN eff.count[k] + 1 ELSE eff.count[k]
  PROVE  Agreed'
PROOF
  <1>1. \A e \in up : e.alone \in BOOLEAN
    BY DEF TypeOK, Datagrams
  <1>2. \A k \in Kinds : srv.count[k] \in Nat
    BY DEF TypeOK, Servers
  <1> SUFFICES ASSUME NEW k \in Kinds
               PROVE  eff'.count[k] = srv.count[k] + Coming(k)'
    BY DEF Agreed
  <1>3. eff.count[k] = srv.count[k] + Coming(k)
    BY DEF Agreed
  <1>4. CASE d.alone
    <2>1. Commands' = Commands /\ up = Commands /\ up' # Commands'
      BY <1>1, <1>4 DEF Commands
    <2>2. Coming(k)' = Coming(k) + IF k = "change_view" THEN 1 ELSE 0
      BY <2>1 DEF Coming
    <2> QED
      BY <1>2, <1>3, <1>4, <2>2 DEF Coming
  <1>5. CASE ~d.alone
    <2>1. Commands' = {d} /\ Commands = {}
      BY <1>1, <1>5 DEF Commands
    <2>2. up # Commands <=> up' # Commands'
      BY <2>1, <1>5
    <2>3. Coming(k)' = Coming(k) + IF k \in d.body \cup d.support THEN 1 ELSE 0
      BY <2>1, <2>2 DEF Coming
    <2> QED
      BY <1>2, <1>3, <2>3 DEF Coming
  <1> QED
    BY <1>4, <1>5

LEMMA AlarmAdjust ==
  ASSUME AlarmInv, AdjustSee, TypeOK'
  PROVE  OnTheWay' /\ Timely' /\ Paid'
PROOF
  <1> USE DEF AlarmInv
  <1> DEFINE d == [body |-> {}, support |-> {"change_view"}, effect |-> Illegal,
                   stamp |-> ag.now, alone |-> TRUE]
  <1>1. /\ ag.lastDecision # ag.now /\ ag.adjusted # ag.now
        /\ ag' = [ag EXCEPT !.adjusted = ag.now]
        /\ eff' = IncCommandCount(eff, {"change_view"})
        /\ up' = up \cup {d}
        /\ UNCHANGED <<srv, down, hist>>
    BY DEF AdjustSee
  <1>2. d.body = {} /\ d.support = {"change_view"} /\ d.alone = TRUE
    OBVIOUS
  <1> HIDE DEF d
  <1>3. /\ ag'.now = ag.now /\ ag'.lastDecision = ag.lastDecision
        /\ ag'.adjusted = ag.now
    BY <1>1 DEF TypeOK, Agents
  <1>4. ~Decided /\ ag.now = srv.cycle /\ Commands = {}
    BY <1>1 DEF Decided, OnTheWay
  <1>5. up = {}
    BY <1>1, <1>4 DEF OnTheWay, Commands
  <1>6. Commands' = {}
    BY <1>1, <1>2, <1>5 DEF Commands
  <1>7. OnTheWay'
    BY <1>1, <1>2, <1>3, <1>4, <1>5, <1>6 DEF OnTheWay
  <1>8. Timely'
    BY <1>1, <1>3 DEF Timely
  <1>9. Agreed => Agreed'
    <2>1. \A k \in Kinds : eff'.count[k] = IF k \in d.body \cup d.support
                                          THEN eff.count[k] + 1 ELSE eff.count[k]
      BY <1>1, <1>2 DEF IncCommandCount, TypeOK, Effectors
    <2> QED
      BY <1>1, <1>2, <1>5, <2>1, SendingAgrees
  <1> QED
    BY <1>1, <1>7, <1>8, <1>9 DEF Paid, TypeOK

LEMMA AlarmAction ==
  ASSUME AlarmInv, Action, TypeOK'
  PROVE  OnTheWay' /\ Timely' /\ Paid'
PROOF
  <1> USE DEF AlarmInv
  <1>1. PICK called \in SUBSET BodyKinds, support \in SUBSET SupportKinds,
             frozen \in BOOLEAN, queued \in BodyKinds \cup {Illegal} :
          /\ eff' = MakeCommand(Register(Reset(eff), called, ag.now),
                                queued, support, frozen, ag.now)
          /\ up' = up \cup {[body |-> SentBody(queued, frozen), support |-> support,
                             effect |-> queued, stamp |-> ag.now, alone |-> FALSE]}
          /\ hist' = [hist EXCEPT !.caught = IF queued = "catch" THEN ag.now ELSE @]
    BY DEF Action
  <1> DEFINE d == [body |-> SentBody(queued, frozen), support |-> support,
                   effect |-> queued, stamp |-> ag.now, alone |-> FALSE]
             e == Register(Reset(eff), called, ag.now)
  <1>2. /\ ag.lastDecision # ag.now
        /\ ag' = [WorldUpdate(ag, eff, ag.now) EXCEPT !.lastDecision = ag.now]
        /\ UNCHANGED <<srv, down>>
    BY DEF Action, MayDecide
  <1>3. /\ d.body = SentBody(queued, frozen) /\ d.support = support
        /\ d.alone = FALSE /\ up' = up \cup {d}
    BY <1>1
  <1>4. /\ ag'.now = ag.now /\ ag'.lastDecision = ag.now
        /\ ag'.adjusted = ag.adjusted
    BY <1>2 DEF TypeOK, Agents, WorldUpdate
  <1>5. ~Decided /\ Decided' /\ Commands = {} /\ ag.now = srv.cycle
        /\ srv.done \cap Tracked = {}
    BY <1>2, <1>4 DEF Decided, OnTheWay
  <1>6. e.count = eff.count
    BY DEF Register, Reset, TypeOK, Effectors
  <1>7. e \in Effectors
    <2>1. ag.now \in Nat
      BY EffectorAssumption DEF TypeOK, Agents
    <2> QED
      BY <2>1, EffectorTypes DEF TypeOK
  <1>8. eff' = MakeCommand(e, queued, support, frozen, ag.now)
    BY <1>1
  <1> HIDE DEF d, e
  <1>9. \A k \in Kinds : eff'.count[k] = IF k \in d.body \cup d.support
                                        THEN eff.count[k] + 1 ELSE eff.count[k]
    BY <1>3, <1>6, <1>7, <1>8 DEF MakeCommand, IncCommandCount, Effectors
  <1>10. \A f \in up : f.alone # d.alone
    BY <1>3, <1>5 DEF Commands, TypeOK, Datagrams
  <1>11. Commands' = {d}
    BY <1>3, <1>5 DEF Commands
  <1>12. OnTheWay'
    BY <1>2, <1>3, <1>4, <1>5, <1>10 DEF OnTheWay
  <1>13. Timely'
    BY <1>2, <1>4 DEF Timely
  <1>14. Agreed => Agreed'
    BY <1>2, <1>3, <1>9, <1>10, SendingAgrees
  <1>15. hist'.lost = hist.lost /\ hist'.alarms = hist.alarms
    BY <1>1 DEF TypeOK
  <1> QED
    BY <1>12, <1>13, <1>14, <1>15 DEF Paid, TypeOK

LEMMA AlarmTick ==
  ASSUME ~MayMiss, AlarmInv, Tick, TypeOK'
  PROVE  OnTheWay' /\ Timely' /\ Paid'
PROOF
  <1> USE DEF AlarmInv
  <1>1. /\ up = {} /\ down = {} /\ ag.lastDecision = srv.cycle
        /\ srv' = [srv EXCEPT !.cycle = srv.cycle + 1, !.done = {}]
        /\ down' = {SenseBody(srv.cycle + 1, srv.count), See(srv.cycle + 1)}
        /\ UNCHANGED <<up, eff, ag, hist>>
    BY DEF Tick
  <1>2. /\ srv'.cycle = srv.cycle + 1 /\ srv'.done = {} /\ srv'.count = srv.count
    BY <1>1 DEF TypeOK, Servers
  <1>3. srv.cycle \in Int /\ ag.now \in Int
    BY EffectorAssumption DEF TypeOK, Servers, Agents
  <1>4. ag.now = srv.cycle /\ Decided
    BY <1>1, <1>3 DEF InOrder, Decided
  <1>5. Decided' /\ ag'.now # srv'.cycle
    BY <1>1, <1>2, <1>3, <1>4 DEF Decided
  <1>6. OnTheWay'
    BY <1>1, <1>2, <1>5 DEF OnTheWay, Commands
  <1>7. Timely'
    BY <1>1, <1>2, <1>5 DEF Timely, SenseBody, See
  <1>8. Agreed => Agreed'
    BY <1>1, <1>2 DEF Agreed, Coming, Commands
  <1> QED
    BY <1>1, <1>6, <1>7, <1>8 DEF Paid, TypeOK

\* A datagram leaves the link; what becomes of the server's counters is left open.
LEMMA LeavingTheWay ==
  ASSUME AlarmInv, NEW d \in up, up' = up \ {d}, UNCHANGED <<down, eff, ag>>,
         srv'.cycle = srv.cycle, srv.cycle = ag.now,
         d.alone => srv'.done \cap Tracked = srv.done \cap Tracked,
         \A m \in down : m.kind # "sense_body"
  PROVE  OnTheWay' /\ Timely'
PROOF
  <1> USE DEF AlarmInv
  <1>1. d.alone \in BOOLEAN
    BY DEF TypeOK, Datagrams
  <1>2. Commands' = Commands \ {d} /\ (Decided' <=> Decided)
    BY DEF Commands, Decided
  <1>3. ~d.alone => Commands' = {} /\ Decided
    <2> SUFFICES ASSUME ~d.alone PROVE Commands' = {} /\ Decided
      OBVIOUS
    <2>1. d \in Commands
      BY DEF Commands
    <2>2. Decided
      BY <2>1 DEF OnTheWay
    <2>3. \A e \in Commands : e = d
      <3> SUFFICES ASSUME NEW e \in Commands PROVE e = d
        OBVIOUS
      <3>1. e \in up /\ e.alone \in BOOLEAN /\ ~e.alone
        BY DEF Commands, TypeOK, Datagrams
      <3>2. e.alone = d.alone
        BY <1>1, <3>1
      <3> QED
        BY <3>1, <3>2 DEF OnTheWay
    <2> HIDE DEF AlarmInv
    <2> QED
      BY <1>2, <2>2, <2>3, Zenon
  <1>4. OnTheWay'
    BY <1>1, <1>2, <1>3 DEF OnTheWay
  <1>5. Timely'
    BY DEF Timely
  <1> QED
    BY <1>4, <1>5

\* While something is under way the cycle's sense_body has been read, or lost.
LEMMA WayOpen ==
  ASSUME AlarmInv, up # {}
  PROVE  srv.cycle = ag.now /\ \A m \in down : m.kind # "sense_body"
PROOF
  <1> QED
    BY DEF AlarmInv, OnTheWay, Timely

\* A loss pays for a difference.
LEMMA LossPays ==
  ASSUME TypeOK, Paid, hist' = [hist EXCEPT !.lost = @ + 1]
  PROVE  Paid'
PROOF
  <1>1. hist.alarms \in Nat /\ hist.lost \in Nat
        /\ hist'.alarms = hist.alarms /\ hist'.lost = hist.lost + 1
    BY DEF TypeOK
  <1> QED
    BY <1>1 DEF Paid

\* The part of a datagram that concerns the server's room for commands.
LEMMA ExecutedCounts ==
  ASSUME srv \in Servers, NEW d, NEW ks \in SUBSET Kinds, srv' = Executed(d, ks)
  PROVE  /\ srv'.cycle = srv.cycle /\ srv'.done = srv.done \cup ks
         /\ \A k \in Kinds :
              srv'.count[k] = IF k \in ks THEN srv.count[k] + 1 ELSE srv.count[k]
PROOF
  <1>1. srv'.cycle = srv.cycle /\ srv'.done = srv.done \cup ks
        /\ srv'.count = Counted(srv.count, ks)
    BY DEF Executed, Servers
  <1> QED
    BY <1>1 DEF Counted

LEMMA AlarmExecute ==
  ASSUME AlarmInv, Execute, TypeOK'
  PROVE  OnTheWay' /\ Timely' /\ Paid'
PROOF
  <1> USE DEF AlarmInv
  <1>1. PICK d \in up : up' = up \ {d} /\ srv' = Executed(d, Accepted(d))
    BY DEF Execute
  <1>2. UNCHANGED <<down, eff, ag, hist>>
    BY DEF Execute
  <1>3. srv \in Servers /\ d \in Datagrams
    BY DEF TypeOK
  <1> DEFINE ks == Accepted(d)
  <1>4. ks \in SUBSET Kinds
    BY <1>3, AcceptedKinds
  <1>5. ks = d.body \cup d.support
    <2>1. CASE d.alone
      <3>1. d.body = {} /\ d.support = {"change_view"}
        BY <2>1 DEF OnTheWay
      <3> QED
        BY <3>1 DEF Accepted
    <2>2. CASE ~d.alone
      <3>1. srv.done \cap BodyKinds = {} /\ "turn_neck" \notin srv.done
        BY <2>2 DEF OnTheWay, Commands, Tracked
      <3> QED
        BY <3>1 DEF Accepted
    <2> QED
      BY <2>1, <2>2
  <1> HIDE DEF ks
  <1>6. /\ srv'.cycle = srv.cycle /\ srv'.done = srv.done \cup ks
        /\ \A k \in Kinds :
             srv'.count[k] = IF k \in ks THEN srv.count[k] + 1 ELSE srv.count[k]
    BY <1>1, <1>3, <1>4, ExecutedCounts DEF ks
  <1>7. d.alone => ks = {"change_view"} /\ srv'.done \cap Tracked = srv.done \cap Tracked
    BY <1>5, <1>6, KindsApart DEF OnTheWay
  <1>8. OnTheWay' /\ Timely'
    BY <1>1, <1>2, <1>6, <1>7, WayOpen, LeavingTheWay
  <1>9. Agreed => Agreed'
    <2> SUFFICES ASSUME Agreed, NEW k \in Kinds
                 PROVE  eff'.count[k] = srv'.count[k] + Coming(k)'
      BY DEF Agreed
    <2>1. eff'.count[k] = srv.count[k] + Coming(k) /\ srv.count[k] \in Nat
      BY <1>2, <1>3 DEF Agreed, Servers
    <2>2. Coming(k) = Coming(k)' + IF k \in ks THEN 1 ELSE 0
      <3>1. d.alone \in BOOLEAN /\ \A e \in up : e.alone \in BOOLEAN
        BY DEF TypeOK, Datagrams
      <3>2. CASE d.alone
        <4>1. Commands' = Commands /\ up # Commands
          BY <1>1, <3>2 DEF Commands
        <4>2. up' = Commands'
          BY <1>1, <3>1, <3>2 DEF Commands, OnTheWay
        <4>3. ks = {"change_view"}
          BY <1>7, <3>2
        <4> QED
          BY <4>1, <4>2, <4>3 DEF Coming
      <3>3. CASE ~d.alone
        <4>1. Commands = {d} /\ Commands' = {}
          BY <1>1, <3>1, <3>3 DEF Commands, OnTheWay
        <4>2. up # Commands <=> up' # Commands'
          BY <1>1, <4>1
        <4> QED
          BY <1>5, <4>1, <4>2 DEF Coming
      <3> QED
        BY <3>2, <3>3
    <2>3. srv'.count[k] = srv.count[k] + IF k \in ks THEN 1 ELSE 0
      BY <1>6, <2>1
    <2>4. Coming(k)' \in Nat
      BY DEF Coming
    <2> QED
      BY <2>1, <2>2, <2>3, <2>4
  <1> QED
    BY <1>2, <1>8, <1>9 DEF Paid, TypeOK

LEMMA AlarmRefuse ==
  ASSUME AlarmInv, RefuseBody, TypeOK'
  PROVE  OnTheWay' /\ Timely' /\ Paid'
PROOF
  <1> USE DEF AlarmInv
  <1>1. PICK d \in up : /\ d.body # {} /\ up' = up \ {d}
                       /\ srv' = Executed(d, Accepted(d) \ BodyKinds)
    BY DEF RefuseBody
  <1>2. UNCHANGED <<down, eff, ag>> /\ hist' = [hist EXCEPT !.lost = @ + 1]
    BY DEF RefuseBody
  <1>3. srv \in Servers /\ d \in Datagrams
    BY DEF TypeOK
  <1> DEFINE ks == Accepted(d) \ BodyKinds
  <1>4. ks \in SUBSET Kinds
    BY <1>3, AcceptedKinds
  <1>5. ~d.alone
    BY <1>1 DEF OnTheWay
  <1>6. srv'.cycle = srv.cycle
    BY <1>1, <1>3, <1>4, ExecutedCounts
  <1> HIDE DEF ks
  <1>7. OnTheWay' /\ Timely'
    BY <1>1, <1>2, <1>5, <1>6, WayOpen, LeavingTheWay
  <1> QED
    BY <1>2, <1>7, LossPays

LEMMA AlarmLose ==
  ASSUME AlarmInv, Lose, TypeOK'
  PROVE  OnTheWay' /\ Timely' /\ Paid'
PROOF
  <1> USE DEF AlarmInv
  <1>1. UNCHANGED <<srv, eff, ag>> /\ hist' = [hist EXCEPT !.lost = @ + 1]
    BY DEF Lose
  <1>2. CASE \E d \in up : up' = up \ {d} /\ down' = down
    <2>1. PICK d \in up : up' = up \ {d} /\ down' = down
      BY <1>2
    <2> QED
      BY <1>1, <2>1, WayOpen, LeavingTheWay, LossPays
  <1>3. CASE up' = up /\ \E m \in down : down' = down \ {m}
    <2>1. OnTheWay'
      BY <1>1, <1>3 DEF OnTheWay, Decided, Commands
    <2>2. Timely'
      BY <1>1, <1>3 DEF Timely
    <2> QED
      BY <1>1, <2>1, <2>2, LossPays
  <1> QED
    BY <1>2, <1>3 DEF Lose

LEMMA AlarmStep == ASSUME ~MayMiss, AlarmInv, [Next]_vars PROVE AlarmInv'
PROOF
  <1>1. TypeOK' /\ InOrder'
    BY TypeStep, OrderStep DEF AlarmInv
  <1>2. CASE HandleSenseBody
    BY <1>1, <1>2, AlarmSense DEF AlarmInv
  <1>3. CASE HandleSee
    BY <1>1, <1>3, AlarmSee DEF AlarmInv
  <1>4. CASE AdjustSee
    BY <1>1, <1>4, AlarmAdjust DEF AlarmInv
  <1>5. CASE Action
    BY <1>1, <1>5, AlarmAction DEF AlarmInv
  <1>6. CASE Tick
    BY <1>1, <1>6, AlarmTick DEF AlarmInv
  <1>7. CASE Execute
    BY <1>1, <1>7, AlarmExecute DEF AlarmInv
  <1>8. CASE RefuseBody
    BY <1>1, <1>8, AlarmRefuse DEF AlarmInv
  <1>9. CASE Lose
    BY <1>1, <1>9, AlarmLose DEF AlarmInv
  <1>10. CASE UNCHANGED vars
    BY <1>1, <1>10 DEF vars, AlarmInv, OnTheWay, Timely, Paid, Agreed, Coming, Commands,
       Decided
  <1> QED
    BY <1>2, <1>3, <1>4, <1>5, <1>6, <1>7, <1>8, <1>9, <1>10 DEF Next, Agent, Environment

\* A sense_body disagrees with the counters no more often than something was lost,
\* whatever is lost or refused, as long as every cycle is decided.
THEOREM AlarmsReal == ASSUME ~MayMiss PROVE Spec => []AlarmsAreLosses
PROOF
  <1>1. Init => AlarmInv
    <2>1. Init => InOrder
      BY DEF Init, NewAgent, InOrder
    <2> QED
      BY <2>1, TypeInit, AlarmInit DEF AlarmInv
  <1>2. AlarmInv /\ [Next]_vars => AlarmInv'
    BY AlarmStep
  <1>3. AlarmInv => AlarmsAreLosses
    BY DEF AlarmInv, TypeOK, Paid, AlarmsAreLosses
  <1> QED
    BY <1>1, <1>2, <1>3, PTL DEF Spec
=============================================================================
