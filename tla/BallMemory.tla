------------------------------- MODULE BallMemory -------------------------------
(***************************************************************************)
(* How old is what a player knows of the ball: the counters of BallObject  *)
(* and SelfObject, and the order in which WorldModel drives them with the  *)
(* sense_body, the see, a fullstate, what is heard and the decision of a   *)
(* cycle.  All reasoning over several cycles rests on these counters; most *)
(* of all the velocity of the ball, which is taken from two positions, the *)
(* own moves between them and the belief that nobody kicked.               *)
(*                                                                         *)
(* Positions are left out: a test that compares distances or speeds may    *)
(* have either result.  A velocity is the difference it was taken from.    *)
(* The clock runs, so a time is a cycle number.                            *)
(***************************************************************************)
EXTENDS Naturals, FiniteSets

CONSTANTS
  SelfPosThr,  \* PlayerConfig::selfPosCountThr()
  FaceThr,     \* selfFaceCountThr()
  BallPosThr,  \* ballPosCountThr()
  BallVelThr,  \* ballVelCountThr()
  Confs        \* bound: the circumstances, see below

Unknown == 1000  \* the largest count

\* What may happen in a run: the game modes, of "play_on" (or penalty_taken), "goal_kick",
\* "goalie_catch", "kick_off" (or before_kick_off) and "set_play" (all others); the
\* collisions of the player, of "none", "ball", "player" (or post); its body commands,
\* "kick" or "other" (but no tackle); what a message that is heard may tell of the ball, sets of
\* "position", "velocity" and "pass"; the cycles in which a fullstate may come; the last
\* cycle; how many messages and kicks may be lost.
IsConf(c) ==
  /\ c.modes \subseteq {"play_on", "goal_kick", "goalie_catch", "kick_off", "set_play"}
  /\ c.hits \subseteq {"none", "ball", "player"} /\ "none" \in c.hits
  /\ c.commands \subseteq {"kick", "other"}
  /\ c.sayings \subseteq {{}, {"position"}, {"position", "velocity"},
                       {"position", "velocity", "pass"}}
  /\ c.fullCycles \subseteq Nat /\ c.maxCycle \in Nat /\ c.maxLost \in Nat

ASSUME BallMemoryAssumption ==
  /\ {SelfPosThr, FaceThr, BallPosThr, BallVelThr} \subseteq 1..Unknown
  /\ \A c \in Confs : IsConf(c)

VARIABLES
  conf,  \* the circumstances
  srv,   \* the server: cycle, the collision in the step before it, the cycles in which
         \* it executed a kick
  due,   \* the messages of this cycle that were not read yet
  eff,   \* ActionEffector: the last two body commands and M_command_counter of the kick
  wm,    \* the agent's time and the world model
  hist   \* history, read by properties only: the latest cycle without an update (skipped)
         \* and the latest collision that aged the sight (bumped); the cycles whose sense_body
         \* told of collisions (told), and those of them in which the face angle was not
         \* valid then (blind); misses, losses; the difference taken by the last step

vars == <<conf, srv, due, eff, wm, hist>>

\* rposAt, seenAt: the cycles in which M_seen_rpos and M_seen_pos were seen, 0 for never
\* (a kick-off moves M_seen_pos to the spot, and leaves its count).
NewBall ==
  [pos |-> Unknown, rpos |-> Unknown, seen |-> Unknown, vel |-> Unknown,
   seenVel |-> Unknown, heardVel |-> Unknown, ghost |-> 0, rposAt |-> 0, seenAt |-> 0]

\* M_prev_ball, of which the sights are used.
Previous(b) == [rpos |-> b.rpos, seen |-> b.seen, rposAt |-> b.rposAt, seenAt |-> b.seenAt]

\* moves[i] is lastMove(i - 1): an invalid vector ("none"), the move there was, or one that
\* a collision has made wrong.  hit is what the sense_body told of this cycle, if any.
NewSelf ==
  [pos |-> Unknown, face |-> Unknown, moves |-> [i \in 1..3 |-> "right"],
   sensed |-> FALSE, hit |-> "none", kicking |-> FALSE]

\* A velocity and the difference it was taken from: over how many steps, since the sight
\* of which cycle, and the cycles whose move was wrong.
NoDifference == [steps |-> 0, from |-> 0, wrong |-> {}]
NoVelocity == [known |-> FALSE, count |-> Unknown, by |-> NoDifference]
SeenVelocity == [known |-> TRUE, count |-> 0, by |-> NoDifference]

Init ==
  /\ conf \in Confs
  /\ srv = [cycle |-> 0, hit |-> "none", kicks |-> {}]
  /\ due = {}
  /\ eff = [last |-> "illegal", last1 |-> "illegal", count |-> 0]
  /\ wm = [current |-> 0, time |-> 0, decided |-> 0, full |-> 0, mode |-> "play_on",
           heard |-> [at |-> 0, what |-> {}], self |-> NewSelf, ball |-> NewBall,
           prev |-> Previous(NewBall)]
  /\ hist = [skipped |-> 0, bumped |-> 0, told |-> {}, blind |-> {}, missed |-> 0,
             unsensed |-> FALSE, by |-> NoDifference, lost |-> 0]

-----------------------------------------------------------------------------
(* A new cycle: update().                                                  *)

\* Mutant: a count grows without end.
MutInc(n) == n + 1

Inc(n) == IF n < Unknown THEN n + 1 ELSE n

\* SelfObject::update: the move is the effect of the last command, and no collision
\* is known.
UpdateSelf(s, e) ==
  [pos |-> s.pos + 1, face |-> s.face + 1,
   moves |-> [i \in 1..3 |-> IF i > 1 THEN s.moves[i - 1]
                             ELSE IF srv.hit = "none" THEN "right" ELSE "wrong"],
   sensed |-> FALSE, hit |-> "none", kicking |-> e.last = "kick"]

Moving == {"play_on", "goal_kick", "goalie_catch"}

\* In a set play the ball does not move, but one that should be visible has to be
\* looked for.
PosCounts(b, mode) ==
  IF mode \in Moving THEN {Inc(b.pos)}
  ELSE IF b.pos >= 5 THEN {Unknown}
  ELSE IF b.rpos >= 2 THEN {1, Unknown} ELSE {1}

VelCount(n, mode) == IF mode \in Moving THEN Inc(n) ELSE 1

\* Mutant: a ball that was missed is a ghost for one cycle.
MutUpdateBall(b, mode) ==
  {[b EXCEPT !.pos = n, !.rpos = Inc(@), !.seen = Inc(@), !.vel = VelCount(@, mode),
             !.seenVel = VelCount(@, mode), !.heardVel = Inc(@), !.ghost = 0] :
     n \in PosCounts(b, mode)}

UpdateBall(b, mode) ==
  {[b EXCEPT !.pos = n, !.rpos = Inc(@), !.seen = Inc(@), !.vel = VelCount(@, mode),
             !.seenVel = VelCount(@, mode), !.heardVel = Inc(@)] : n \in PosCounts(b, mode)}

\* Mutant: each handler updates the world.
MutUpdate(e) ==
  {[wm EXCEPT !.current = srv.cycle, !.time = srv.cycle, !.prev = Previous(wm.ball),
              !.self = UpdateSelf(@, e), !.ball = b] : b \in UpdateBall(wm.ball, wm.mode)}

\* Each handler updates the world if it is the first of its cycle.
Update(e) ==
  LET w == [wm EXCEPT !.current = srv.cycle]
  IN IF wm.time = srv.cycle THEN {w}
     ELSE {[w EXCEPT !.time = srv.cycle, !.prev = Previous(wm.ball), !.self = UpdateSelf(@, e),
                     !.ball = b] : b \in UpdateBall(wm.ball, wm.mode)}

\* The latest cycle that passed without an update.
Skipped == IF wm.time + 1 < srv.cycle THEN srv.cycle - 1 ELSE hist.skipped

-----------------------------------------------------------------------------
(* A sense_body.                                                           *)

\* The message counts the kicks of the cycles before it.
KickCount == Cardinality(srv.kicks \ {srv.cycle})

CheckCommandCount(e) ==
  IF KickCount # e.count THEN [e EXCEPT !.last = "illegal", !.count = KickCount] ELSE e

\* SelfObject::updateAfterSenseBody: after a collision the speed is not the move; without
\* a valid face angle the collision is noted, and the expected move stays.
SenseSelf(s, e) ==
  [s EXCEPT !.kicking = e.last = "kick", !.sensed = TRUE, !.hit = srv.hit,
            !.moves[1] = IF s.face >= FaceThr THEN @
                         ELSE IF srv.hit = "none" THEN "right" ELSE "none"]

SenseBody ==
  /\ "sense_body" \in due
  /\ due' = due \ {"sense_body"}
  /\ eff' = CheckCommandCount(eff)
  /\ \E w \in Update(eff') :
       /\ wm' = [w EXCEPT !.self = SenseSelf(@, eff')]
       /\ hist' = [hist EXCEPT !.skipped = Skipped, !.by = NoDifference,
                               !.told = @ \cup {srv.cycle},
                               !.blind = IF w.self.face >= FaceThr THEN @ \cup {srv.cycle} ELSE @]
  /\ UNCHANGED <<conf, srv>>

-----------------------------------------------------------------------------
(* A see.                                                                  *)

\* Mutant of updateVelDirAfterSee: the speed is taken for the move after a collision.
MutSeeFace(s) ==
  [s EXCEPT !.face = 0,
            !.moves[1] = IF ~s.sensed THEN @ ELSE IF s.hit = "none" THEN "right" ELSE "wrong"]

\* updateAngleBySee and, with the sense_body of this cycle, updateVelDirAfterSee.
SeeFace(s) ==
  [s EXCEPT !.face = 0, !.moves[1] = IF s.sensed /\ s.hit = "none" THEN "right" ELSE @]

\* updatePosBySee: two sights in a row show the move whatever happened.
SeePosition(s) ==
  [s EXCEPT !.pos = 0,
            !.moves[1] = IF s.pos = 1 /\ (s.hit # "none" \/ @ = "none") THEN "right" ELSE @]

\* localizeSelf: nothing, the face or face and position are found.
LocalizeSelf(s) == {s, SeeFace(s), SeePosition(SeeFace(s))}

\* A velocity from the sight of cycle from, the move of which is known.
Difference(w, count, steps, from, used) ==
  [known |-> TRUE, count |-> count,
   by |-> [steps |-> steps, from |-> from,
           wrong |-> {srv.cycle + 1 - i : i \in {j \in used : w.self.moves[j] = "wrong"}}]]

MovesKnown(w, used) == \A i \in used : w.self.moves[i] # "none"

\* estimateBallVelByPosDiff, over one, two or three steps; the comparisons of distances
\* and speeds may always turn it down.
PosDiff(w, vel) ==
  LET b == w.ball
      Over(n) == IF b.rposAt > 0 /\ MovesKnown(w, 1..n)
                 THEN {Difference(w, n, n, b.rposAt, 1..n)} ELSE {}
  IN {vel} \cup
     (IF w.self.hit = "player" THEN {}
      ELSE IF b.rpos = 1 THEN (IF vel.known /\ w.self.hit = "ball" THEN {} ELSE Over(1))
      ELSE IF vel.known THEN {}
      ELSE IF b.rpos = 2 /\ eff.last # "kick" THEN Over(2)
      ELSE IF b.rpos = 3 /\ eff.last # "kick" /\ eff.last1 # "kick" THEN Over(3)
      ELSE {})

\* localizeBall when the relative positions told nothing: the positions on the field.
SeenPosDiff(w) ==
  LET b == w.ball
  IN {NoVelocity}
     \cup (IF w.prev.seen = 0 /\ w.prev.rpos = 0
           THEN {Difference(w, 2, 1, w.prev.seenAt, {})} ELSE {})
     \cup (IF /\ ~w.self.kicking /\ b.seen \in 2..6 /\ b.heardVel > b.seen
              /\ MovesKnown(w, {1, 2})
           THEN {Difference(w, b.seen, b.seen, b.seenAt, {})} ELSE {})

Velocities(w, seen) ==
  UNION {IF v.known THEN {v} ELSE SeenPosDiff(w) : v \in PosDiff(w, seen)}

UpdateOnlyRelativePos(b) == [b EXCEPT !.rpos = 0, !.rposAt = srv.cycle]

UpdateOnlyVel(b, vel) ==
  IF vel.known THEN [b EXCEPT !.vel = vel.count, !.seenVel = vel.count] ELSE b

UpdatePos(b, count) ==
  [UpdateOnlyRelativePos(b) EXCEPT
     !.pos = count, !.seen = 0, !.seenAt = srv.cycle, !.ghost = 0]

\* localizeBall with the player's position unknown.
RelativeVelocities(w) ==
  {NoVelocity} \cup
  (IF w.prev.rpos = 0 /\ MovesKnown(w, {1}) THEN {Difference(w, 1, 1, w.prev.rposAt, {1})}
   ELSE {})

\* The ball as it is seen, and the velocity.
LocalizeBall(w) ==
  IF w.self.face >= FaceThr THEN {}
  ELSE IF w.self.pos >= SelfPosThr
  THEN {[ball |-> UpdateOnlyRelativePos(UpdateOnlyVel(w.ball, v)), vel |-> v, placed |-> FALSE] :
          v \in RelativeVelocities(w)}
  ELSE {[ball |-> UpdateOnlyVel(UpdatePos(w.ball, w.self.pos), v), vel |-> v, placed |-> TRUE] :
          v \in Velocities(w, NoVelocity) \cup Velocities(w, SeenVelocity)}

NotSeen(w) == [ball |-> w.ball, vel |-> NoVelocity, placed |-> FALSE]

\* setGhost: the second miss makes the position unknown.
SetGhost(b) ==
  IF b.ghost > 0 THEN [b EXCEPT !.pos = Unknown, !.rpos = Unknown, !.ghost = @ + 1]
  ELSE [b EXCEPT !.ghost = 1]

\* checkGhost: the ball was not seen where it should be.
MayMiss(w, b) == w.self.pos <= 10 /\ b.rpos > 0 /\ b.pos < BallPosThr

SeeBall(w) ==
  \E s \in LocalizeSelf(w.self) :
    LET v == [w EXCEPT !.self = s]
    IN \E r \in LocalizeBall(v) \cup {NotSeen(v)} : \E missed \in BOOLEAN :
         /\ missed => MayMiss(v, r.ball)
         /\ wm' = [v EXCEPT !.ball = IF missed THEN SetGhost(r.ball) ELSE r.ball]
         /\ hist' = [hist EXCEPT !.skipped = Skipped, !.by = r.vel.by,
                                 !.missed = IF missed THEN @ + 1
                                            ELSE IF r.placed THEN 0 ELSE @]

\* "already updated by fullstate".
See ==
  /\ "see" \in due
  /\ due' = due \ {"see"}
  /\ \E w \in Update(eff) :
       IF w.full = srv.cycle
       THEN wm' = w /\ UNCHANGED hist
       ELSE SeeBall(w)
  /\ UNCHANGED <<conf, srv, eff>>

-----------------------------------------------------------------------------
(* A fullstate and what is heard.                                          *)

FullBall(b) ==
  [b EXCEPT !.pos = 0, !.rpos = 0, !.seen = 0, !.vel = 0, !.seenVel = 0, !.ghost = 0,
            !.rposAt = srv.cycle, !.seenAt = srv.cycle]

Fullstate ==
  /\ srv.cycle \in conf.fullCycles /\ wm.full # srv.cycle
  /\ \E w \in Update(eff) :
       wm' = [w EXCEPT !.full = srv.cycle, !.ball = FullBall(@),
                       !.self = [@ EXCEPT !.pos = 0, !.face = 0]]
  /\ hist' = [hist EXCEPT !.skipped = Skipped, !.missed = 0, !.by = NoDifference]
  /\ UNCHANGED <<conf, srv, due, eff>>

\* A message of another player, which may tell of the ball; it moves the agent's time
\* and is remembered until the decision.
Hear ==
  /\ srv.cycle > 0 /\ wm.heard.at # srv.cycle
  /\ \E what \in conf.sayings :
       wm' = [wm EXCEPT !.current = srv.cycle, !.heard = [at |-> srv.cycle, what |-> what]]
  /\ hist' = [hist EXCEPT !.by = NoDifference]
  /\ UNCHANGED <<conf, srv, due, eff>>

\* The referee: updateGameMode.  The ball lies still for a goal kick.
HearReferee ==
  /\ srv.cycle > 0
  /\ \E m \in conf.modes \ {wm.mode} :
       wm' = [wm EXCEPT !.current = srv.cycle, !.mode = m,
                        !.ball = IF m = "goal_kick" THEN UpdateOnlyVel(@, SeenVelocity) ELSE @]
  /\ hist' = [hist EXCEPT !.by = NoDifference]
  /\ UNCHANGED <<conf, srv, due, eff>>

-----------------------------------------------------------------------------
(* The decision.                                                           *)

HeardBall(b, what) ==
  [b EXCEPT !.pos = 1, !.vel = IF "velocity" \in what THEN 1 ELSE @]

\* updateByHear: what is heard is from the cycle before, and is not taken for better than
\* what is known.
UpdateByHear(b, what) ==
  LET h == [b EXCEPT !.heardVel = 0]
      pass == HeardBall([h EXCEPT !.vel = 1], what)
  IN IF eff.last = "kick" THEN {h}
     ELSE IF "pass" \in what /\ b.seenVel > 0
     THEN {IF b.seen > 0 THEN pass ELSE [pass EXCEPT !.pos = b.pos]}
     ELSE IF b.ghost > 1 \/ b.pos >= 5 THEN {HeardBall(h, what)}
     ELSE IF b.pos > 0 THEN {h, HeardBall(h, what)}
     ELSE {h}

\* updateBallByHear.
HearBall(w) ==
  IF w.heard.at # srv.cycle \/ w.heard.what = {} \/ w.full = srv.cycle THEN {w.ball}
  ELSE UpdateByHear(w.ball, w.heard.what)

\* updateByCollision with what updateBallCollision passes.
Collide(b, sensed) ==
  IF b.pos > 0 THEN [b EXCEPT !.pos = @ + 1, !.rpos = @ + 1, !.vel = @ + 1]
  ELSE IF sensed THEN b ELSE [b EXCEPT !.vel = @ + 1]

\* Without a sense_body the collision is guessed from the distance.
UpdateBallCollision(b, s) ==
  {b} \cup
  (IF /\ b.pos < BallPosThr /\ b.vel < BallVelThr /\ s.pos < SelfPosThr /\ b.vel # 0
      /\ s.sensed => s.hit = "ball"
   THEN {Collide(b, s.sensed)} ELSE {})

\* updateByGameMode.
UpdateByGameMode(b, mode) ==
  LET still == [b EXCEPT !.vel = 0, !.seenVel = 0]
  IN IF mode \in {"play_on", "goal_kick"} THEN b
     ELSE IF mode = "kick_off" THEN [still EXCEPT !.pos = 0]
     ELSE still

\* updateJustBeforeDecision, reset, the body command and its way to the server.
Decide ==
  /\ wm.current = srv.cycle /\ wm.decided # srv.cycle
  /\ \E w \in Update(eff), command \in conf.commands, lost \in BOOLEAN :
       /\ lost => command = "kick" /\ hist.lost < conf.maxLost
       /\ \E heard \in HearBall(w) : \E b \in UpdateBallCollision(heard, w.self) :
            /\ wm' = [w EXCEPT !.decided = srv.cycle, !.ball = UpdateByGameMode(b, w.mode)]
            /\ hist' = [hist EXCEPT
                 !.by = NoDifference, !.skipped = Skipped, !.unsensed = ~w.self.sensed,
                 !.lost = IF lost THEN @ + 1 ELSE @,
                 !.bumped = IF b.rpos # heard.rpos THEN srv.cycle ELSE @,
                 !.missed = IF heard.pos < w.ball.pos \/ w.mode = "kick_off" THEN 0 ELSE @]
       /\ eff' = [last |-> command, last1 |-> "illegal",
                   count |-> IF command = "kick" THEN eff.count + 1 ELSE eff.count]
       /\ srv' = [srv EXCEPT !.kicks = IF command = "kick" /\ ~lost THEN @ \cup {srv.cycle} ELSE @]
  /\ UNCHANGED <<conf, due>>

-----------------------------------------------------------------------------
(* The server and the network.                                             *)

Tick ==
  /\ srv.cycle > 0 => due = {}
  /\ srv.cycle < conf.maxCycle
  /\ \E hit \in conf.hits : srv' = [srv EXCEPT !.cycle = @ + 1, !.hit = hit]
  /\ due' \in {{"sense_body"}, {"sense_body", "see"}}
  /\ hist' = [hist EXCEPT !.by = NoDifference]
  /\ UNCHANGED <<conf, eff, wm>>

Lose ==
  /\ hist.lost < conf.maxLost
  /\ \E m \in due : due' = due \ {m}
  /\ hist' = [hist EXCEPT !.lost = @ + 1, !.by = NoDifference]
  /\ UNCHANGED <<conf, srv, eff, wm>>

Next ==
  \/ Tick \/ Lose \/ SenseBody \/ See \/ Fullstate \/ Hear \/ HearReferee \/ Decide

Spec == Init /\ [][Next]_vars

-----------------------------------------------------------------------------
(* Properties.                                                             *)

Cycles == 0..conf.maxCycle
Counts == 0..Unknown

\* A collision may take rpos beyond Unknown.
Balls ==
  [pos : Counts, rpos : Nat, seen : Counts, vel : Counts, seenVel : Counts,
   heardVel : Counts, ghost : Nat, rposAt : Cycles, seenAt : Cycles]

Sights == [rpos : Nat, seen : Counts, rposAt : Cycles, seenAt : Cycles]

Selves ==
  [pos : Nat, face : Nat, moves : [1..3 -> {"none", "right", "wrong"}],
   sensed : BOOLEAN, hit : {"none", "ball", "player"}, kicking : BOOLEAN]

Worlds ==
  [current : Cycles, time : Cycles, decided : Cycles, full : Cycles,
   mode : conf.modes \cup {"play_on"},
   heard : [at : Cycles, what : conf.sayings \cup {{}}],
   self : Selves, ball : Balls, prev : Sights]

Commands == {"illegal", "kick", "other"}
Effectors == [last : Commands, last1 : Commands, count : Nat]

Differences == [steps : 0..6, from : Cycles, wrong : SUBSET Cycles]

\* Type invariant.
TypeOK ==
  /\ conf \in Confs
  /\ srv \in [cycle : Cycles, hit : conf.hits, kicks : SUBSET Cycles]
  /\ due \subseteq {"sense_body", "see"}
  /\ eff \in Effectors
  /\ wm \in Worlds
  /\ hist \in [skipped : Cycles, bumped : Cycles, told : SUBSET Cycles,
               blind : SUBSET Cycles, missed : Nat, unsensed : BOOLEAN, by : Differences,
               lost : Nat]

\* Since the sight that a velocity was taken from, no cycle passed without any message and
\* no collision has aged the sight.
Continuous == hist.skipped <= hist.by.from /\ hist.bumped < hist.by.from

\* "player saw the ball at prev cycle, too": a velocity over some steps is taken from two
\* sights that are as many cycles apart.
DifferenceSpansItsSteps ==
  hist.by.steps > 0 /\ Continuous => srv.cycle = hist.by.from + hist.by.steps

\* Nothing happened between the sights that the velocity does not know of.  No move is used
\* that a collision made wrong of which a sense_body has told, but where the face angle was
\* not valid when it told: then the expected move stays the last one, and is used.  A
\* velocity over several steps is not taken if the player kicked in the last one, unless it
\* decided without the sense_body of that cycle (whose count is then taken for a lost kick)
\* or before this see.
DifferenceIsUndisturbed ==
  /\ hist.by.steps > 0 /\ Continuous => hist.by.wrong \cap hist.told \subseteq hist.blind
  /\ hist.by.steps > 1 /\ ~hist.unsensed /\ wm.decided # srv.cycle
     => srv.cycle - 1 \notin srv.kicks

\* A ball that was not where it should be twice is not believed in, unless it was seen,
\* heard of or put on the kick-off spot in between.
MissedBallIsForgotten == hist.missed > 1 => wm.ball.pos >= BallPosThr
=============================================================================
