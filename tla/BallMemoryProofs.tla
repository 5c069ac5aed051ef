---------------------------- MODULE BallMemoryProofs ----------------------------
(***************************************************************************)
(* Theorems about BallMemory: its types, and its three properties, from    *)
(* one inductive invariant that says what each counter counts.             *)
(***************************************************************************)
EXTENDS BallMemory, FiniteSetTheorems, TLAPS

\* A count that is not large is the distance to the cycle it counts from, as long as no
\* cycle was skipped (and, for rpos, no collision has aged it) since.
AgesOf(w, skipped, bumped) ==
  /\ w.ball.rposAt <= w.time /\ w.ball.seenAt <= w.time
  /\ w.prev.rposAt <= w.time /\ w.prev.seenAt <= w.time
  /\ w.ball.rpos <= 6 /\ skipped <= w.ball.rposAt /\ bumped < w.ball.rposAt
     => w.time = w.ball.rposAt + w.ball.rpos
  /\ w.ball.seen <= 6 /\ skipped <= w.ball.seenAt => w.time = w.ball.seenAt + w.ball.seen
  /\ w.prev.rpos = 0 /\ skipped <= w.prev.rposAt /\ bumped < w.prev.rposAt
     => w.time = w.prev.rposAt + 1
  /\ w.prev.seen = 0 /\ skipped <= w.prev.seenAt => w.time = w.prev.seenAt + 1

\* A move that a collision has made wrong is of a cycle whose collision was not told
\* with a valid face angle, unless a cycle was skipped since.
MovesOf(w, skipped, known) ==
  \A i \in 1..3 : w.self.moves[i] = "wrong" =>
     i <= w.time /\ (skipped + i <= w.time => (w.time + 1) - i \notin known)

Clock ==
  /\ wm.time <= srv.cycle /\ wm.decided <= wm.time /\ wm.full <= wm.time
  /\ hist.skipped <= wm.time /\ hist.bumped <= wm.time /\ hist.told \subseteq 0..wm.time
  /\ srv.cycle = 0 => due = {}

Ages == AgesOf(wm, hist.skipped, hist.bumped)

Moves == MovesOf(wm, hist.skipped, hist.told \ hist.blind)

\* What is missed stays a ghost, and lost from the second miss on.
Ghosts ==
  /\ hist.missed >= 1 => wm.ball.ghost >= 1
  /\ hist.missed > 1 => wm.ball.pos = Unknown

\* An executed kick of the last decision is known, and counted, if the decision was made
\* with the sense_body of its cycle.
Kicks ==
  /\ srv.kicks \subseteq 1..wm.decided
  /\ wm.decided \in srv.kicks /\ ~hist.unsensed
     => eff.last = "kick" /\ eff.count = Cardinality(srv.kicks)
  /\ wm.time = srv.cycle /\ wm.self.sensed => "sense_body" \notin due
  /\ wm.decided = srv.cycle /\ ~hist.unsensed => "sense_body" \notin due
  /\ wm.decided # srv.cycle /\ wm.time = srv.cycle =>
       /\ wm.self.sensed => eff.count = Cardinality(srv.kicks)
       /\ wm.self.kicking <=> eff.last = "kick"

IInv ==
  /\ TypeOK /\ Clock /\ Ages /\ Moves /\ Ghosts /\ Kicks
  /\ DifferenceSpansItsSteps /\ DifferenceIsUndisturbed

-----------------------------------------------------------------------------
(* A new cycle.                                                            *)

\* The circumstances are as BallMemoryAssumption says.
LEMMA ConfFacts == ASSUME TypeOK PROVE IsConf(conf)
BY BallMemoryAssumption DEF TypeOK

\* A ball whose count has reached its limit is below no threshold.
LEMMA ThresholdFacts ==
  /\ SelfPosThr \in Nat /\ SelfPosThr <= Unknown
  /\ FaceThr \in Nat
  /\ BallPosThr \in Nat /\ BallPosThr <= Unknown
  /\ BallVelThr \in Nat /\ BallVelThr <= Unknown
  /\ Unknown \in Nat /\ Counts = 0..Unknown
<1>1. {SelfPosThr, FaceThr, BallPosThr, BallVelThr} \subseteq 1..Unknown
  BY BallMemoryAssumption
<1>2. \A n \in 1..Unknown : n \in Nat /\ n <= Unknown
  BY DEF Unknown
<1>3. Unknown \in Nat /\ Counts = 0..Unknown
  BY DEF Counts, Unknown
<1> QED BY <1>1, <1>2, <1>3

\* A count stops at its limit, and counts exactly below it.
LEMMA IncFacts ==
  \A n \in Nat : /\ Inc(n) \in Nat
                 /\ n \in Counts => Inc(n) \in Counts
                 /\ Inc(n) <= 6 => Inc(n) = n + 1
                 /\ Inc(Unknown) = Unknown
BY DEF Inc, Counts, Unknown

\* The types of a ball, field by field.
LEMMA BallFields ==
  ASSUME NEW b \in Balls
  PROVE  /\ b.pos \in Counts /\ b.seen \in Counts /\ b.vel \in Counts
         /\ b.seenVel \in Counts /\ b.heardVel \in Counts
         /\ b.rposAt \in Cycles /\ b.seenAt \in Cycles
         /\ b.pos \in Nat /\ b.rpos \in Nat /\ b.seen \in Nat /\ b.vel \in Nat
         /\ b.ghost \in Nat
<1>1. /\ b.pos \in Counts /\ b.seen \in Counts /\ b.vel \in Counts
      /\ b.seenVel \in Counts /\ b.heardVel \in Counts
      /\ b.rposAt \in Cycles /\ b.seenAt \in Cycles /\ b.rpos \in Nat /\ b.ghost \in Nat
  BY DEF Balls
<1>2. \A n \in Counts : n \in Nat
  BY DEF Counts, Unknown
<1> QED BY <1>1, <1>2

\* A new cycle ages every count and keeps every sight.
LEMMA UpdateBallFacts ==
  ASSUME NEW b \in Balls, NEW mode, NEW c \in UpdateBall(b, mode)
  PROVE  /\ c \in Balls
         /\ c.rposAt = b.rposAt /\ c.seenAt = b.seenAt /\ c.ghost = b.ghost
         /\ c.rpos = Inc(b.rpos) /\ c.seen = Inc(b.seen)
         /\ b.pos = Unknown => c.pos = Unknown
<1>1. PICK n \in PosCounts(b, mode) :
        c = [b EXCEPT !.pos = n, !.rpos = Inc(@), !.seen = Inc(@), !.vel = VelCount(@, mode),
                      !.seenVel = VelCount(@, mode), !.heardVel = Inc(@)]
  BY DEF UpdateBall
<1>2. n \in Counts /\ (b.pos = Unknown => n = Unknown)
  <2>1. b.pos \in Counts
    BY DEF Balls
  <2>2. b.pos \in Nat
    BY <2>1 DEF Counts, Unknown
  <2>3. 1 \in Counts /\ Unknown \in Counts /\ Unknown >= 5
    BY DEF Counts, Unknown
  <2>4. CASE mode \in Moving
    <3>1. n = Inc(b.pos)
      BY <1>1, <2>4 DEF PosCounts
    <3> QED BY <3>1, <2>1, <2>2, IncFacts
  <2>5. CASE mode \notin Moving /\ b.pos >= 5
    BY <1>1, <2>3, <2>5 DEF PosCounts
  <2>6. CASE mode \notin Moving /\ ~(b.pos >= 5)
    <3>1. n \in {1, Unknown}
      BY <1>1, <2>6 DEF PosCounts
    <3> QED BY <3>1, <2>3, <2>6
  <2> QED BY <2>4, <2>5, <2>6
<1>3. /\ Inc(b.rpos) \in Nat /\ Inc(b.seen) \in Counts /\ Inc(b.heardVel) \in Counts
      /\ VelCount(b.vel, mode) \in Counts /\ VelCount(b.seenVel, mode) \in Counts
  <2>1. /\ b.rpos \in Nat /\ b.seen \in Counts /\ b.heardVel \in Counts
        /\ b.vel \in Counts /\ b.seenVel \in Counts
    BY DEF Balls
  <2>2. 1 \in Counts /\ \A n1 \in Counts : n1 \in Nat
    BY DEF Counts, Unknown
  <2> QED BY <2>1, <2>2, IncFacts DEF VelCount
<1>4. c.pos = n /\ c.rpos = Inc(b.rpos) /\ c.seen = Inc(b.seen) /\ c.ghost = b.ghost
      /\ c.rposAt = b.rposAt /\ c.seenAt = b.seenAt
  BY <1>1 DEF Balls
<1>5. c \in Balls
  BY <1>1, <1>2, <1>3 DEF Balls
<1> QED BY <1>2, <1>4, <1>5

\* A new cycle shifts the moves and forgets the sense_body.
LEMMA UpdateSelfFacts ==
  ASSUME NEW s \in Selves, NEW e \in Effectors
  PROVE  /\ UpdateSelf(s, e) \in Selves
         /\ ~UpdateSelf(s, e).sensed
         /\ UpdateSelf(s, e).kicking <=> e.last = "kick"
         /\ \A i \in 2..3 : UpdateSelf(s, e).moves[i] = s.moves[i - 1]
<1> DEFINE m == [i \in 1..3 |-> IF i > 1 THEN s.moves[i - 1]
                                ELSE IF srv.hit = "none" THEN "right" ELSE "wrong"]
<1>1. m \in [1..3 -> {"none", "right", "wrong"}]
  BY DEF Selves
<1>2. s.pos + 1 \in Nat /\ s.face + 1 \in Nat /\ (e.last = "kick") \in BOOLEAN
  BY DEF Selves
<1>3. UpdateSelf(s, e) = [pos |-> s.pos + 1, face |-> s.face + 1, moves |-> m,
                          sensed |-> FALSE, hit |-> "none", kicking |-> e.last = "kick"]
  BY DEF UpdateSelf
<1> HIDE DEF m
<1>4. UpdateSelf(s, e) \in Selves
  BY <1>1, <1>2, <1>3 DEF Selves
<1>5. UpdateSelf(s, e).moves = m /\ UpdateSelf(s, e).kicking = (e.last = "kick")
      /\ UpdateSelf(s, e).sensed = FALSE
  BY <1>3
<1>6. \A i \in 2..3 : m[i] = s.moves[i - 1]
  BY DEF m
<1> QED BY <1>4, <1>5, <1>6

\* What is known of the cycles after every update, from what was known before it.
UpdatedFrom(w, e) ==
  /\ w \in Worlds
  /\ w.time = srv.cycle /\ w.decided = wm.decided /\ w.full = wm.full
  /\ Skipped \in Cycles /\ Skipped <= srv.cycle /\ hist.skipped <= Skipped
  /\ AgesOf(w, Skipped, hist.bumped) /\ MovesOf(w, Skipped, hist.told \ hist.blind)
  /\ w.ball.ghost = wm.ball.ghost /\ (wm.ball.pos = Unknown => w.ball.pos = Unknown)
  /\ wm.time = srv.cycle => w.self = wm.self /\ Skipped = hist.skipped
  /\ wm.time # srv.cycle => ~w.self.sensed /\ (w.self.kicking <=> e.last = "kick")

\* A handler that is not the first of its cycle changes nothing.
LEMMA UpdateKeepsTime ==
  ASSUME TypeOK, Clock, Ages, Moves, wm.time = srv.cycle,
         NEW e \in Effectors, NEW w \in Update(e)
  PROVE  UpdatedFrom(w, e)
<1>1. wm \in Worlds /\ srv.cycle \in Cycles /\ srv.cycle \in Nat /\ hist.skipped \in Cycles
  BY ConfFacts DEF TypeOK, Cycles, IsConf
<1>2. w = [wm EXCEPT !.current = srv.cycle]
  BY DEF Update
<1>3. /\ w \in Worlds
      /\ w.time = wm.time /\ w.decided = wm.decided /\ w.full = wm.full
      /\ w.ball = wm.ball /\ w.prev = wm.prev /\ w.self = wm.self
  BY <1>1, <1>2 DEF Worlds
<1>4. Skipped = hist.skipped
  BY <1>1 DEF Skipped
<1>5. AgesOf(w, Skipped, hist.bumped) /\ MovesOf(w, Skipped, hist.told \ hist.blind)
  BY <1>3, <1>4 DEF Ages, Moves, AgesOf, MovesOf
<1>6. Skipped \in Cycles /\ Skipped <= srv.cycle /\ hist.skipped <= Skipped
  <2>1. \A n \in Cycles : n \in Nat
    BY ConfFacts DEF Cycles, IsConf
  <2> QED BY <1>1, <1>4, <2>1 DEF Clock
<1> QED BY <1>3, <1>4, <1>5, <1>6 DEF UpdatedFrom

\* The first handler of a cycle: every count grows with the distance to its cycle, but
\* where a cycle was skipped.
LEMMA UpdateAges ==
  ASSUME TypeOK, Clock, Ages, Moves, wm.time # srv.cycle,
         NEW e \in Effectors, NEW w \in Update(e)
  PROVE  UpdatedFrom(w, e)
<1>1. /\ wm \in Worlds /\ srv.cycle \in Cycles /\ hist.skipped \in Cycles
      /\ hist.bumped \in Cycles
      /\ \A n \in Cycles : n \in Nat
  BY ConfFacts DEF TypeOK, Cycles, IsConf
<1>2. /\ wm.ball \in Balls /\ wm.self \in Selves /\ wm.time \in Nat /\ wm.prev \in Sights
      /\ wm.time \in Cycles
  BY <1>1 DEF Worlds
<1>3. PICK b \in UpdateBall(wm.ball, wm.mode) :
        w = [[wm EXCEPT !.current = srv.cycle]
              EXCEPT !.time = srv.cycle, !.prev = Previous(wm.ball),
                     !.self = UpdateSelf(@, e), !.ball = b]
  BY DEF Update
<1>4. /\ w.time = srv.cycle /\ w.decided = wm.decided /\ w.full = wm.full
      /\ w.ball = b /\ w.prev = Previous(wm.ball) /\ w.self = UpdateSelf(wm.self, e)
  BY <1>1, <1>3 DEF Worlds
<1>5. /\ b \in Balls
      /\ b.rposAt = wm.ball.rposAt /\ b.seenAt = wm.ball.seenAt /\ b.ghost = wm.ball.ghost
      /\ b.rpos = Inc(wm.ball.rpos) /\ b.seen = Inc(wm.ball.seen)
      /\ wm.ball.pos = Unknown => b.pos = Unknown
  BY <1>2, UpdateBallFacts
<1>6. Previous(wm.ball) \in Sights
  BY <1>2 DEF Balls, Sights, Previous
<1>7. w \in Worlds
  BY <1>1, <1>2, <1>3, <1>5, <1>6, UpdateSelfFacts DEF Worlds
<1>8. /\ wm.time < srv.cycle /\ Skipped \in Cycles /\ Skipped <= srv.cycle
      /\ hist.skipped <= Skipped
  <2>1. srv.cycle - 1 \in Cycles
    BY <1>1, <1>2, ConfFacts DEF Clock, Cycles, IsConf
  <2> QED BY <1>1, <1>2, <2>1 DEF Clock, Skipped
<1>9. AgesOf(w, Skipped, hist.bumped)
  <2>1. /\ wm.ball.rpos \in Nat /\ wm.ball.seen \in Nat
        /\ wm.ball.rposAt \in Nat /\ wm.ball.seenAt \in Nat
    BY <1>1, <1>2, BallFields
  <2>2. /\ w.prev.rpos = wm.ball.rpos /\ w.prev.seen = wm.ball.seen
        /\ w.prev.rposAt = wm.ball.rposAt /\ w.prev.seenAt = wm.ball.seenAt
    BY <1>4 DEF Previous
  <2>3. /\ wm.ball.rposAt <= wm.time /\ wm.ball.seenAt <= wm.time
        /\ wm.ball.rpos <= 6 /\ hist.skipped <= wm.ball.rposAt /\ hist.bumped < wm.ball.rposAt
           => wm.time = wm.ball.rposAt + wm.ball.rpos
        /\ wm.ball.seen <= 6 /\ hist.skipped <= wm.ball.seenAt
           => wm.time = wm.ball.seenAt + wm.ball.seen
    BY DEF Ages, AgesOf
  <2>4. /\ Inc(wm.ball.rpos) <= 6 => Inc(wm.ball.rpos) = wm.ball.rpos + 1
        /\ Inc(wm.ball.seen) <= 6 => Inc(wm.ball.seen) = wm.ball.seen + 1
    BY <2>1, IncFacts
  <2>5. CASE wm.time + 1 < srv.cycle
    <3>1. Skipped = srv.cycle - 1
      BY <2>5 DEF Skipped
    <3> QED BY <1>1, <1>2, <1>4, <1>5, <1>8, <2>1, <2>2, <2>3, <2>5, <3>1 DEF AgesOf
  <2>6. CASE wm.time + 1 = srv.cycle
    <3>1. Skipped = hist.skipped
      BY <1>1, <1>2, <2>6 DEF Skipped
    <3> QED BY <1>1, <1>2, <1>4, <1>5, <1>8, <2>1, <2>2, <2>3, <2>4, <2>6, <3>1 DEF AgesOf
  <2> QED BY <1>1, <1>2, <1>8, <2>5, <2>6
<1>10. MovesOf(w, Skipped, hist.told \ hist.blind)
  <2> SUFFICES ASSUME NEW i \in 1..3, w.self.moves[i] = "wrong"
               PROVE  /\ i <= srv.cycle
                      /\ Skipped + i <= srv.cycle
                         => (srv.cycle + 1) - i \notin hist.told \ hist.blind
    BY <1>4 DEF MovesOf
  <2>1. CASE i = 1
    <3>1. srv.cycle \notin hist.told \ hist.blind
      BY <1>1, <1>2, <1>8 DEF Clock
    <3> QED BY <1>1, <1>2, <1>8, <2>1, <3>1
  <2>2. CASE i \in 2..3
    <3>1. wm.self.moves[i - 1] = "wrong" /\ i - 1 \in 1..3
      BY <1>2, <1>4, <2>2, UpdateSelfFacts
    <3>2. /\ i - 1 <= wm.time
          /\ hist.skipped + (i - 1) <= wm.time
             => (wm.time + 1) - (i - 1) \notin hist.told \ hist.blind
      BY <3>1 DEF Moves, MovesOf
    <3>3. CASE wm.time + 1 < srv.cycle
      BY <1>1, <1>2, <1>8, <2>2, <3>2, <3>3 DEF Skipped
    <3>4. CASE wm.time + 1 = srv.cycle
      <4>1. Skipped = hist.skipped
        BY <1>1, <1>2, <3>4 DEF Skipped
      <4>2. (wm.time + 1) - (i - 1) = (srv.cycle + 1) - i
        BY <1>1, <1>2, <3>4
      <4> QED BY <1>1, <1>2, <2>2, <3>2, <3>4, <4>1, <4>2
    <3> QED BY <1>1, <1>2, <1>8, <3>3, <3>4
  <2> QED BY <2>1, <2>2
<1> QED BY <1>4, <1>5, <1>7, <1>8, <1>9, <1>10, <1>2, UpdateSelfFacts DEF UpdatedFrom

\* Both together.
LEMMA UpdateFacts ==
  ASSUME TypeOK, Clock, Ages, Moves, NEW e \in Effectors, NEW w \in Update(e)
  PROVE  UpdatedFrom(w, e)
BY UpdateKeepsTime, UpdateAges

-----------------------------------------------------------------------------
(* A see.                                                                  *)

\* What is seen never makes a move wrong.
SelfFrom(t, s) ==
  /\ t \in Selves
  /\ t.sensed = s.sensed /\ t.kicking = s.kicking /\ t.hit = s.hit
  /\ \A i \in 1..3 : t.moves[i] = "wrong" => s.moves[i] = "wrong"

\* updateAngleBySee and updateVelDirAfterSee.
LEMMA SeeFaceFacts == ASSUME NEW s \in Selves PROVE SelfFrom(SeeFace(s), s)
<1> DEFINE m == IF s.sensed /\ s.hit = "none" THEN "right" ELSE s.moves[1]
<1>1. s.moves \in [1..3 -> {"none", "right", "wrong"}] /\ 1 \in 1..3
  BY DEF Selves
<1>2. m \in {"none", "right", "wrong"} /\ (m = "wrong" => s.moves[1] = "wrong")
  BY <1>1
<1> DEFINE n == [s.moves EXCEPT ![1] = m]
<1>3. SeeFace(s) = [s EXCEPT !.face = 0, !.moves = n]
  BY DEF SeeFace, Selves
<1> HIDE DEF m
<1>4. /\ n \in [1..3 -> {"none", "right", "wrong"}]
      /\ \A i \in 1..3 : n[i] = "wrong" => s.moves[i] = "wrong"
  BY <1>1, <1>2
<1> HIDE DEF n
<1>5. /\ SeeFace(s).moves = n /\ SeeFace(s).sensed = s.sensed
      /\ SeeFace(s).kicking = s.kicking /\ SeeFace(s).hit = s.hit
  BY <1>3 DEF Selves
<1>6. SeeFace(s) \in Selves
  <2>1. /\ 0 \in Nat /\ s.pos \in Nat /\ s.face \in Nat /\ s.sensed \in BOOLEAN
        /\ s.kicking \in BOOLEAN /\ s.hit \in {"none", "ball", "player"}
    BY DEF Selves
  <2> QED BY <1>3, <1>4, <2>1 DEF Selves
<1> QED BY <1>4, <1>5, <1>6 DEF SelfFrom

\* updatePosBySee.
LEMMA SeePositionFacts == ASSUME NEW s \in Selves PROVE SelfFrom(SeePosition(s), s)
<1> DEFINE m == IF s.pos = 1 /\ (s.hit # "none" \/ s.moves[1] = "none")
                THEN "right" ELSE s.moves[1]
<1>1. s.moves \in [1..3 -> {"none", "right", "wrong"}] /\ 1 \in 1..3
  BY DEF Selves
<1>2. m \in {"none", "right", "wrong"} /\ (m = "wrong" => s.moves[1] = "wrong")
  BY <1>1
<1> DEFINE n == [s.moves EXCEPT ![1] = m]
<1>3. SeePosition(s) = [s EXCEPT !.pos = 0, !.moves = n]
  BY DEF SeePosition, Selves
<1> HIDE DEF m
<1>4. /\ n \in [1..3 -> {"none", "right", "wrong"}]
      /\ \A i \in 1..3 : n[i] = "wrong" => s.moves[i] = "wrong"
  BY <1>1, <1>2
<1> HIDE DEF n
<1>5. /\ SeePosition(s).moves = n /\ SeePosition(s).sensed = s.sensed
      /\ SeePosition(s).kicking = s.kicking /\ SeePosition(s).hit = s.hit
  BY <1>3 DEF Selves
<1>6. SeePosition(s) \in Selves
  <2>1. /\ 0 \in Nat /\ s.pos \in Nat /\ s.face \in Nat /\ s.sensed \in BOOLEAN
        /\ s.kicking \in BOOLEAN /\ s.hit \in {"none", "ball", "player"}
    BY DEF Selves
  <2> QED BY <1>3, <1>4, <2>1 DEF Selves
<1> QED BY <1>4, <1>5, <1>6 DEF SelfFrom

\* localizeSelf, whatever it finds.
LEMMA LocalizeSelfFacts ==
  ASSUME NEW s \in Selves, NEW t \in LocalizeSelf(s)
  PROVE  SelfFrom(t, s)
<1>1. CASE t = s
  BY <1>1 DEF SelfFrom
<1>2. CASE t = SeeFace(s)
  BY <1>2, SeeFaceFacts
<1>3. CASE t = SeePosition(SeeFace(s))
  <2>1. SelfFrom(SeeFace(s), s)
    BY SeeFaceFacts
  <2>2. SelfFrom(t, SeeFace(s))
    BY <1>3, <2>1, SeePositionFacts DEF SelfFrom
  <2> QED BY <2>1, <2>2 DEF SelfFrom
<1> QED BY <1>1, <1>2, <1>3 DEF LocalizeSelf

\* A velocity that is not disturbed, as DifferenceSpansItsSteps and DifferenceIsUndisturbed
\* say of one that was taken in this step.
GoodVelocity(w, v) ==
  /\ v.known \in BOOLEAN /\ v.count \in Counts /\ v.by \in Differences
  /\ v.by.steps > 0 /\ Skipped <= v.by.from /\ hist.bumped < v.by.from
     => srv.cycle = v.by.from + v.by.steps /\ v.by.wrong \cap hist.told \subseteq hist.blind
  /\ v.by.steps > 1 => eff.last # "kick" \/ ~w.self.kicking

\* What a difference over some steps needs.
LEMMA DifferenceFacts ==
  ASSUME TypeOK, Skipped \in Cycles, NEW w \in Worlds, w.time = srv.cycle,
         MovesOf(w, Skipped, hist.told \ hist.blind),
         NEW count \in Counts, NEW steps \in 1..6, NEW from \in Cycles,
         NEW used \in SUBSET (1..3), \A i \in used : i <= steps,
         Skipped <= from /\ hist.bumped < from => srv.cycle = from + steps,
         steps > 1 => eff.last # "kick" \/ ~w.self.kicking
  PROVE  GoodVelocity(w, Difference(w, count, steps, from, used))
<1> DEFINE d == Difference(w, count, steps, from, used)
           wrong == {srv.cycle + 1 - i : i \in {j \in used : w.self.moves[j] = "wrong"}}
<1>1. /\ srv.cycle \in Cycles /\ hist.told \subseteq Cycles /\ Cycles = 0..conf.maxCycle
      /\ conf.maxCycle \in Nat /\ \A n \in Cycles : n \in Nat
  BY ConfFacts DEF TypeOK, Cycles, IsConf
<1>2. /\ d.known = TRUE /\ d.count = count /\ d.by.steps = steps /\ d.by.from = from
      /\ d.by.wrong = wrong /\ d.by = [steps |-> steps, from |-> from, wrong |-> wrong]
  BY DEF Difference
<1>3. wrong \subseteq Cycles
  <2> SUFFICES ASSUME NEW i \in used, w.self.moves[i] = "wrong"
               PROVE  srv.cycle + 1 - i \in Cycles
    OBVIOUS
  <2>1. i \in 1..3 /\ i <= srv.cycle
    BY DEF MovesOf
  <2> QED BY <1>1, <2>1
<1>4. Skipped <= from /\ hist.bumped < from => wrong \cap hist.told \subseteq hist.blind
  <2> SUFFICES ASSUME Skipped <= from, hist.bumped < from,
                      NEW i \in used, w.self.moves[i] = "wrong"
               PROVE  srv.cycle + 1 - i \notin hist.told \ hist.blind
    OBVIOUS
  <2>1. i \in 1..3 /\ i <= steps /\ srv.cycle = from + steps
    OBVIOUS
  <2>2. Skipped + i <= srv.cycle
    BY <1>1, <2>1
  <2>3. Skipped + i <= w.time
    BY <2>2
  <2>4. (w.time + 1) - i \notin hist.told \ hist.blind
    BY <2>1, <2>3 DEF MovesOf
  <2>5. (w.time + 1) - i = srv.cycle + 1 - i
    BY <1>1, <2>1
  <2> QED BY <2>4, <2>5
<1> HIDE DEF d, wrong
<1>5. d.by \in Differences
  <2>1. steps \in 0..6
    OBVIOUS
  <2>2. wrong \in SUBSET Cycles
    BY <1>3
  <2> QED BY <1>2, <2>1, <2>2 DEF Differences
<1>6. GoodVelocity(w, d)
  BY <1>1, <1>2, <1>4, <1>5 DEF GoodVelocity
<1> QED BY <1>6 DEF d

\* A world after its update, whatever of it was changed since.
Aged(w) ==
  /\ Skipped \in Cycles /\ w \in Worlds /\ w.time = srv.cycle
  /\ AgesOf(w, Skipped, hist.bumped) /\ MovesOf(w, Skipped, hist.told \ hist.blind)

\* The types of an aged world.
LEMMA AgedFields ==
  ASSUME TypeOK, NEW w, Aged(w)
  PROVE  /\ w.ball \in Balls /\ w.self \in Selves /\ w.prev \in Sights
         /\ w.prev.rpos \in Nat /\ w.prev.seen \in Counts
         /\ w.prev.rposAt \in Cycles /\ w.prev.seenAt \in Cycles
         /\ \A n \in Cycles : n \in Nat
         /\ srv.cycle \in Cycles /\ hist.bumped \in Cycles
<1>1. \A n \in Cycles : n \in Nat
  BY ConfFacts DEF Cycles, IsConf
<1>2. w.ball \in Balls /\ w.self \in Selves /\ w.prev \in Sights
  BY DEF Aged, Worlds
<1> QED BY <1>1, <1>2 DEF Sights, TypeOK

\* What was not taken from a difference is taken from none.
LEMMA NoDifferenceFacts ==
  ASSUME TypeOK, NEW w
  PROVE  GoodVelocity(w, NoVelocity) /\ GoodVelocity(w, SeenVelocity)
<1>1. 0 \in Cycles /\ 0 \in 0..6 /\ 0 \in Counts /\ Unknown \in Counts
  BY ConfFacts DEF Cycles, IsConf, Counts, Unknown
<1>2. NoDifference \in Differences
  BY <1>1 DEF NoDifference, Differences
<1>3. NoDifference.steps = 0
  BY DEF NoDifference
<1> QED BY <1>1, <1>2, <1>3 DEF GoodVelocity, NoVelocity, SeenVelocity

\* Over one, two or three steps between the relative positions.
LEMMA PosDiffFacts ==
  ASSUME TypeOK, NEW w, Aged(w), NEW vel, GoodVelocity(w, vel), NEW v \in PosDiff(w, vel)
  PROVE  GoodVelocity(w, v)
<1> DEFINE over(n) == Difference(w, n, n, w.ball.rposAt, 1..n)
<1>1. CASE v = vel
  BY <1>1
<1>2. ASSUME NEW n \in 1..3, n = w.ball.rpos, n > 1 => eff.last # "kick", v = over(n)
      PROVE  GoodVelocity(w, v)
  <2>1. n \in Counts /\ n \in 1..6 /\ 1..n \in SUBSET (1..3) /\ \A i \in 1..n : i <= n
    BY DEF Counts, Unknown
  <2>2. w.ball.rposAt \in Cycles
    BY AgedFields, BallFields
  <2>3. Skipped <= w.ball.rposAt /\ hist.bumped < w.ball.rposAt
        => srv.cycle = w.ball.rposAt + n
    BY <1>2 DEF Aged, AgesOf
  <2>4. /\ Skipped \in Cycles /\ w \in Worlds /\ w.time = srv.cycle
        /\ MovesOf(w, Skipped, hist.told \ hist.blind)
    BY DEF Aged
  <2> HIDE DEF over
  <2>5. GoodVelocity(w, over(n))
    BY <1>2, <2>1, <2>2, <2>3, <2>4, DifferenceFacts DEF over
  <2> QED BY <1>2, <2>5
<1>3. \/ v = vel
      \/ w.ball.rpos = 1 /\ v = over(1)
      \/ w.ball.rpos = 2 /\ eff.last # "kick" /\ v = over(2)
      \/ w.ball.rpos = 3 /\ eff.last # "kick" /\ v = over(3)
  BY DEF PosDiff
<1> HIDE DEF over
<1> QED BY <1>1, <1>2, <1>3

\* Between the positions on the field.
LEMMA SeenPosDiffFacts ==
  ASSUME TypeOK, NEW w, Aged(w), NEW v \in SeenPosDiff(w)
  PROVE  GoodVelocity(w, v)
<1>1. /\ Skipped \in Cycles /\ w \in Worlds /\ w.time = srv.cycle
      /\ MovesOf(w, Skipped, hist.told \ hist.blind)
  BY DEF Aged
<1>2. w.prev.seenAt \in Cycles /\ w.ball.seenAt \in Cycles /\ w.ball.seen \in Counts
  BY AgedFields, BallFields
<1>3. {} \in SUBSET (1..3) /\ \A i \in {} : i <= 1 /\ i <= w.ball.seen
  OBVIOUS
<1>4. CASE v = NoVelocity
  BY <1>4, NoDifferenceFacts
<1>5. CASE w.prev.seen = 0 /\ v = Difference(w, 2, 1, w.prev.seenAt, {})
  <2>1. 2 \in Counts /\ 1 \in 1..6 /\ ~(1 > 1)
    BY DEF Counts, Unknown
  <2>2. Skipped <= w.prev.seenAt => srv.cycle = w.prev.seenAt + 1
    BY <1>5 DEF Aged, AgesOf
  <2> QED BY <1>1, <1>2, <1>3, <1>5, <2>1, <2>2, DifferenceFacts
<1>6. CASE /\ ~w.self.kicking /\ w.ball.seen \in 2..6
           /\ v = Difference(w, w.ball.seen, w.ball.seen, w.ball.seenAt, {})
  <2>1. w.ball.seen \in 1..6 /\ w.ball.seen <= 6
    BY <1>6
  <2>2. Skipped <= w.ball.seenAt => srv.cycle = w.ball.seenAt + w.ball.seen
    BY <2>1 DEF Aged, AgesOf
  <2> QED BY <1>1, <1>2, <1>3, <1>6, <2>1, <2>2, DifferenceFacts
<1>7. \/ v = NoVelocity
      \/ w.prev.seen = 0 /\ v = Difference(w, 2, 1, w.prev.seenAt, {})
      \/ /\ ~w.self.kicking /\ w.ball.seen \in 2..6
         /\ v = Difference(w, w.ball.seen, w.ball.seen, w.ball.seenAt, {})
  BY DEF SeenPosDiff
<1> QED BY <1>4, <1>5, <1>6, <1>7

\* Between two relative positions, with the player's position unknown.
LEMMA RelativeVelocityFacts ==
  ASSUME TypeOK, NEW w, Aged(w), NEW v \in RelativeVelocities(w)
  PROVE  GoodVelocity(w, v)
<1>1. CASE v = NoVelocity
  BY <1>1, NoDifferenceFacts
<1>2. CASE w.prev.rpos = 0 /\ v = Difference(w, 1, 1, w.prev.rposAt, {1})
  <2>1. 1 \in Counts /\ 1 \in 1..6 /\ {1} \in SUBSET (1..3) /\ \A i \in {1} : i <= 1
    BY DEF Counts, Unknown
  <2>2. Skipped <= w.prev.rposAt /\ hist.bumped < w.prev.rposAt
        => srv.cycle = w.prev.rposAt + 1
    BY <1>2 DEF Aged, AgesOf
  <2>3. /\ Skipped \in Cycles /\ w \in Worlds /\ w.time = srv.cycle
        /\ MovesOf(w, Skipped, hist.told \ hist.blind) /\ w.prev.rposAt \in Cycles
    BY AgedFields DEF Aged
  <2> QED BY <1>2, <2>1, <2>2, <2>3, DifferenceFacts
<1> QED BY <1>1, <1>2 DEF RelativeVelocities

\* All that localizeBall may come to.
LEMMA VelocityFacts ==
  ASSUME TypeOK, NEW w, Aged(w),
         NEW v \in Velocities(w, NoVelocity) \cup Velocities(w, SeenVelocity)
  PROVE  GoodVelocity(w, v)
<1>1. PICK seen \in {NoVelocity, SeenVelocity} : v \in Velocities(w, seen)
  OBVIOUS
<1>2. GoodVelocity(w, seen)
  BY NoDifferenceFacts
<1>3. PICK u \in PosDiff(w, seen) : v \in (IF u.known THEN {u} ELSE SeenPosDiff(w))
  BY <1>1 DEF Velocities
<1>4. CASE v = u
  BY <1>2, <1>4, PosDiffFacts
<1>5. CASE v \in SeenPosDiff(w)
  BY <1>5, SeenPosDiffFacts
<1> QED BY <1>3, <1>4, <1>5

\* A ball is either as old as it was, or of this cycle, or lost.
BallFrom(c, b) ==
  /\ c \in Balls
  /\ \/ c.rposAt = b.rposAt /\ (c.rpos = b.rpos \/ c.rpos = Unknown)
     \/ c.rposAt = srv.cycle /\ c.rpos = 0
  /\ \/ c.seenAt = b.seenAt /\ c.seen = b.seen
     \/ c.seenAt = srv.cycle /\ c.seen = 0

\* The ages stay right with a ball like this.
LEMMA AgesFacts ==
  ASSUME TypeOK, NEW w, Aged(w), NEW u, u.time = w.time, u.prev = w.prev,
         BallFrom(u.ball, w.ball)
  PROVE  AgesOf(u, Skipped, hist.bumped)
<1>1. /\ w.ball.rposAt \in Nat /\ w.ball.seenAt \in Nat /\ w.time = srv.cycle
      /\ srv.cycle \in Nat
  BY AgedFields, BallFields DEF Aged
<1>2. /\ u.ball.rposAt <= u.time /\ u.ball.seenAt <= u.time
      /\ u.ball.rpos <= 6 /\ Skipped <= u.ball.rposAt /\ hist.bumped < u.ball.rposAt
         => u.time = u.ball.rposAt + u.ball.rpos
  BY <1>1 DEF Aged, AgesOf, BallFrom, Unknown
<1>3. u.ball.seen <= 6 /\ Skipped <= u.ball.seenAt => u.time = u.ball.seenAt + u.ball.seen
  BY <1>1 DEF Aged, AgesOf, BallFrom
<1> QED BY <1>2, <1>3 DEF Aged, AgesOf

\* updateOnlyVel changes no sight.
LEMMA UpdateOnlyVelFacts ==
  ASSUME NEW b \in Balls, NEW v, v.count \in Counts
  PROVE  /\ UpdateOnlyVel(b, v) \in Balls
         /\ UpdateOnlyVel(b, v).pos = b.pos /\ UpdateOnlyVel(b, v).ghost = b.ghost
         /\ UpdateOnlyVel(b, v).rpos = b.rpos /\ UpdateOnlyVel(b, v).seen = b.seen
         /\ UpdateOnlyVel(b, v).rposAt = b.rposAt /\ UpdateOnlyVel(b, v).seenAt = b.seenAt
<1>1. CASE v.known
  <2>1. UpdateOnlyVel(b, v) = [b EXCEPT !.vel = v.count, !.seenVel = v.count]
    BY <1>1 DEF UpdateOnlyVel
  <2> QED BY <2>1 DEF Balls
<1>2. CASE ~v.known
  BY <1>2 DEF UpdateOnlyVel
<1> QED BY <1>1, <1>2

\* updateOnlyRelativePos changes one.
LEMMA UpdateOnlyRelativePosFacts ==
  ASSUME NEW b \in Balls, srv.cycle \in Cycles
  PROVE  /\ UpdateOnlyRelativePos(b) \in Balls
         /\ UpdateOnlyRelativePos(b).pos = b.pos /\ UpdateOnlyRelativePos(b).ghost = b.ghost
         /\ UpdateOnlyRelativePos(b).rpos = 0 /\ UpdateOnlyRelativePos(b).rposAt = srv.cycle
         /\ UpdateOnlyRelativePos(b).seen = b.seen
         /\ UpdateOnlyRelativePos(b).seenAt = b.seenAt
<1>1. 0 \in Nat
  OBVIOUS
<1> QED BY <1>1 DEF UpdateOnlyRelativePos, Balls

\* updatePos changes both, and ends a ghost.
LEMMA UpdatePosFacts ==
  ASSUME NEW b \in Balls, srv.cycle \in Cycles, NEW count \in Counts
  PROVE  /\ UpdatePos(b, count) \in Balls
         /\ UpdatePos(b, count).rpos = 0 /\ UpdatePos(b, count).rposAt = srv.cycle
         /\ UpdatePos(b, count).seen = 0 /\ UpdatePos(b, count).seenAt = srv.cycle
         /\ UpdatePos(b, count).ghost = 0
<1>1. 0 \in Nat /\ 0 \in Counts
  BY DEF Counts, Unknown
<1> DEFINE c == UpdateOnlyRelativePos(b)
<1>2. c \in Balls /\ c.rpos = 0 /\ c.rposAt = srv.cycle
  BY UpdateOnlyRelativePosFacts
<1>3. UpdatePos(b, count)
        = [c EXCEPT !.pos = count, !.seen = 0, !.seenAt = srv.cycle, !.ghost = 0]
  BY DEF UpdatePos
<1> HIDE DEF c
<1> QED BY <1>1, <1>2, <1>3 DEF Balls

\* What a see tells of the ball: it is believed in only where it is seen.
LEMMA LocalizeBallFacts ==
  ASSUME TypeOK, NEW w, Aged(w), NEW r \in LocalizeBall(w) \cup {NotSeen(w)}
  PROVE  /\ BallFrom(r.ball, w.ball) /\ GoodVelocity(w, r.vel)
         /\ r.placed => r.ball.ghost = 0 /\ r.ball.rpos = 0
         /\ ~r.placed => r.ball.ghost = w.ball.ghost /\ r.ball.pos = w.ball.pos
<1>1. w.ball \in Balls /\ w.self \in Selves /\ srv.cycle \in Cycles
  BY AgedFields
<1>2. CASE r = NotSeen(w)
  <2>1. r.ball = w.ball /\ r.vel = NoVelocity /\ r.placed = FALSE
    BY <1>2 DEF NotSeen
  <2> QED BY <1>1, <2>1, NoDifferenceFacts DEF BallFrom
<1>3. ASSUME NEW v \in RelativeVelocities(w),
             r = [ball |-> UpdateOnlyRelativePos(UpdateOnlyVel(w.ball, v)), vel |-> v,
                  placed |-> FALSE]
      PROVE  /\ BallFrom(r.ball, w.ball) /\ GoodVelocity(w, r.vel) /\ r.placed = FALSE
             /\ r.ball.ghost = w.ball.ghost /\ r.ball.pos = w.ball.pos
  <2>1. GoodVelocity(w, v) /\ v.count \in Counts
    BY RelativeVelocityFacts DEF GoodVelocity
  <2>2. /\ r.ball = UpdateOnlyRelativePos(UpdateOnlyVel(w.ball, v))
        /\ r.vel = v /\ r.placed = FALSE
    BY <1>3
  <2> QED BY <1>1, <2>1, <2>2, UpdateOnlyVelFacts, UpdateOnlyRelativePosFacts DEF BallFrom
<1>4. ASSUME NEW v \in Velocities(w, NoVelocity) \cup Velocities(w, SeenVelocity),
             w.self.pos < SelfPosThr,
             r = [ball |-> UpdateOnlyVel(UpdatePos(w.ball, w.self.pos), v), vel |-> v,
                  placed |-> TRUE]
      PROVE  /\ BallFrom(r.ball, w.ball) /\ GoodVelocity(w, r.vel) /\ r.placed = TRUE
             /\ r.ball.ghost = 0 /\ r.ball.rpos = 0
  <2>1. GoodVelocity(w, v) /\ v.count \in Counts
    BY VelocityFacts DEF GoodVelocity
  <2>2. /\ r.ball = UpdateOnlyVel(UpdatePos(w.ball, w.self.pos), v)
        /\ r.vel = v /\ r.placed = TRUE
    BY <1>4
  <2>3. w.self.pos \in Nat
    BY <1>1 DEF Selves
  <2>4. w.self.pos < SelfPosThr
    BY <1>4
  <2>5. w.self.pos \in Counts
    BY <2>3, <2>4, ThresholdFacts
  <2> DEFINE c == UpdatePos(w.ball, w.self.pos)
  <2>6. /\ c \in Balls /\ c.rpos = 0 /\ c.rposAt = srv.cycle
        /\ c.seen = 0 /\ c.seenAt = srv.cycle /\ c.ghost = 0
    BY <1>1, <2>5, UpdatePosFacts
  <2>7. r.ball = UpdateOnlyVel(c, v)
    BY <2>2
  <2> HIDE DEF c
  <2> QED BY <2>1, <2>2, <2>6, <2>7, UpdateOnlyVelFacts DEF BallFrom
<1>5. CASE r \in LocalizeBall(w)
  <2>1. w.self.pos \in Nat /\ SelfPosThr \in Nat
    BY <1>1, ThresholdFacts DEF Selves
  <2>2. CASE w.self.pos >= SelfPosThr
    BY <1>3, <1>5, <2>2 DEF LocalizeBall
  <2>3. CASE ~(w.self.pos >= SelfPosThr)
    <3>1. w.self.pos < SelfPosThr
      BY <2>1, <2>3
    <3> QED BY <1>4, <1>5, <2>3, <3>1 DEF LocalizeBall
  <2> QED BY <2>2, <2>3
<1> QED BY <1>2, <1>5

\* Nothing changes the circumstances, and with them the types.
LEMMA SameConf ==
  ASSUME conf' = conf
  PROVE  /\ Cycles' = Cycles /\ Balls' = Balls /\ Worlds' = Worlds
         /\ Differences' = Differences /\ Effectors' = Effectors
BY DEF Cycles, Balls, Counts, Unknown, Selves, Sights, Worlds, Differences, Effectors, Commands

\* The two properties of a step that takes no velocity.
LEMMA NoVelocityTaken ==
  ASSUME hist'.by = NoDifference
  PROVE  DifferenceSpansItsSteps' /\ DifferenceIsUndisturbed'
<1>1. hist'.by.steps = 0
  BY DEF NoDifference
<1> QED BY <1>1 DEF DifferenceSpansItsSteps, DifferenceIsUndisturbed

\* A handler that neither reads the sense_body nor decides.
LEMMA KicksKept ==
  ASSUME TypeOK, Clock, Kicks, srv' = srv, eff' = eff, due' \subseteq due,
         wm'.time = srv.cycle, wm'.decided = wm.decided, hist'.unsensed = hist.unsensed,
         wm.time = srv.cycle =>
           wm'.self.sensed = wm.self.sensed /\ wm'.self.kicking = wm.self.kicking,
         wm.time # srv.cycle =>
           ~wm'.self.sensed /\ (wm'.self.kicking <=> eff.last = "kick")
  PROVE  Kicks'
<1>1. (srv.kicks \subseteq 1..wm.decided)' /\ Cardinality(srv.kicks)' = Cardinality(srv.kicks)
  BY DEF Kicks
<1>2. (wm.decided \in srv.kicks /\ ~hist.unsensed
       => eff.last = "kick" /\ eff.count = Cardinality(srv.kicks))'
  BY DEF Kicks
<1>3. (wm.time = srv.cycle /\ wm.self.sensed => "sense_body" \notin due)'
  BY DEF Kicks
<1>4. (wm.decided = srv.cycle /\ ~hist.unsensed => "sense_body" \notin due)'
  BY DEF Kicks
<1>5. (wm.decided # srv.cycle /\ wm.time = srv.cycle =>
         /\ wm.self.sensed => eff.count = Cardinality(srv.kicks)
         /\ wm.self.kicking <=> eff.last = "kick")'
  <2>1. CASE wm.time = srv.cycle
    BY <2>1 DEF Kicks
  <2>2. CASE wm.time # srv.cycle
    BY <2>2
  <2> QED BY <2>1, <2>2
<1> QED BY <1>1, <1>2, <1>3, <1>4, <1>5 DEF Kicks

\* A miss makes a ghost, a second one loses the ball.
LEMMA SetGhostFacts ==
  ASSUME NEW b \in Balls, NEW b0, BallFrom(b, b0), b.rpos > 0
  PROVE  /\ BallFrom(SetGhost(b), b0) /\ SetGhost(b).ghost >= 1
         /\ b.ghost > 0 => SetGhost(b).pos = Unknown
<1>1. b.ghost \in Nat /\ b.ghost + 1 \in Nat /\ 1 \in Nat /\ Unknown \in Nat
      /\ Unknown \in Counts
  BY BallFields, ThresholdFacts
<1>2. b.rposAt = b0.rposAt
  BY DEF BallFrom
<1>3. CASE b.ghost > 0
  <2>1. SetGhost(b) = [b EXCEPT !.pos = Unknown, !.rpos = Unknown, !.ghost = b.ghost + 1]
    BY <1>3 DEF SetGhost
  <2>2. SetGhost(b) \in Balls
    BY <1>1, <2>1 DEF Balls
  <2>3. /\ SetGhost(b).pos = Unknown /\ SetGhost(b).rpos = Unknown
        /\ SetGhost(b).ghost = b.ghost + 1 /\ SetGhost(b).rposAt = b.rposAt
        /\ SetGhost(b).seen = b.seen /\ SetGhost(b).seenAt = b.seenAt
    BY <2>1 DEF Balls
  <2>4. SetGhost(b).ghost >= 1
    BY <1>1, <2>3
  <2> QED BY <1>2, <2>2, <2>3, <2>4 DEF BallFrom
<1>4. CASE ~(b.ghost > 0)
  <2>1. SetGhost(b) = [b EXCEPT !.ghost = 1]
    BY <1>4 DEF SetGhost
  <2>2. SetGhost(b) \in Balls
    BY <1>1, <2>1 DEF Balls
  <2>3. /\ SetGhost(b).rpos = b.rpos
        /\ SetGhost(b).ghost = 1 /\ SetGhost(b).rposAt = b.rposAt
        /\ SetGhost(b).seen = b.seen /\ SetGhost(b).seenAt = b.seenAt
    BY <2>1 DEF Balls
  <2>4. SetGhost(b).ghost >= 1
    BY <2>3
  <2> QED BY <1>2, <1>4, <2>2, <2>3, <2>4 DEF BallFrom
<1> QED BY <1>3, <1>4

\* Without the sense_body of its cycle, the last decision may be unknown to a see; with it,
\* and before the decision of this cycle, a kick is known.
LEMMA KickIsKnown ==
  ASSUME TypeOK, Clock, Kicks, NEW w, UpdatedFrom(w, eff),
         ~hist.unsensed, wm.decided # srv.cycle, srv.cycle - 1 \in srv.kicks
  PROVE  eff.last = "kick" /\ w.self.kicking
<1>1. /\ srv.cycle \in Nat /\ wm.decided \in Nat /\ wm.time \in Nat
  BY ConfFacts DEF TypeOK, Worlds, Cycles, IsConf
<1>2. wm.decided = srv.cycle - 1
  BY <1>1 DEF Clock, Kicks
<1>3. eff.last = "kick"
  BY <1>2 DEF Kicks
<1>4. CASE wm.time = srv.cycle
  BY <1>3, <1>4 DEF Kicks, UpdatedFrom
<1>5. CASE wm.time # srv.cycle
  BY <1>3, <1>5 DEF UpdatedFrom
<1> QED BY <1>3, <1>4, <1>5

\* The types of the history after a step.
LEMMA HistoryFacts ==
  ASSUME TypeOK, Clock
  PROVE  /\ hist.skipped \in Cycles /\ hist.bumped \in Cycles /\ hist.told \in SUBSET Cycles
         /\ hist.blind \in SUBSET Cycles
         /\ hist.missed \in Nat /\ hist.unsensed \in BOOLEAN /\ hist.by \in Differences
         /\ hist.lost \in Nat /\ hist.missed + 1 \in Nat /\ hist.lost + 1 \in Nat
         /\ NoDifference \in Differences
         /\ srv.cycle \in Cycles /\ 0 \in Cycles /\ 0 \in Nat /\ \A n \in Cycles : n \in Nat
<1>1. /\ hist.skipped \in Cycles /\ hist.bumped \in Cycles /\ hist.told \in SUBSET Cycles
      /\ hist.blind \in SUBSET Cycles /\ hist.missed \in Nat
      /\ hist.unsensed \in BOOLEAN /\ hist.by \in Differences /\ hist.lost \in Nat /\ srv.cycle \in Cycles
  BY DEF TypeOK
<1>2. 0 \in Cycles /\ 0 \in 0..6 /\ \A n \in Cycles : n \in Nat
  BY ConfFacts DEF Cycles, IsConf
<1>3. NoDifference \in Differences
  BY <1>2 DEF NoDifference, Differences
<1>4. hist.missed + 1 \in Nat /\ hist.lost + 1 \in Nat /\ 0 \in Nat
  BY <1>1
<1> QED BY <1>1, <1>2, <1>3, <1>4

\* A see of the ball: the world and the history after it.
LEMMA SeeBallInv ==
  ASSUME IInv, NEW w, UpdatedFrom(w, eff), SeeBall(w),
         conf' = conf, srv' = srv, eff' = eff, due' \subseteq due
  PROVE  IInv'
<1> USE DEF IInv
<1>1. Aged(w) /\ w \in Worlds
  BY DEF UpdatedFrom, Aged
<1>2. w.self \in Selves /\ w.ball \in Balls /\ \A n \in Cycles : n \in Nat
  BY <1>1, AgedFields
<1>3. PICK s \in LocalizeSelf(w.self) :
        LET v == [w EXCEPT !.self = s]
        IN \E r \in LocalizeBall(v) \cup {NotSeen(v)} : \E missed \in BOOLEAN :
             /\ missed => MayMiss(v, r.ball)
             /\ wm' = [v EXCEPT !.ball = IF missed THEN SetGhost(r.ball) ELSE r.ball]
             /\ hist' = [hist EXCEPT !.skipped = Skipped, !.by = r.vel.by,
                                     !.missed = IF missed THEN @ + 1
                                                ELSE IF r.placed THEN 0 ELSE @]
  BY DEF SeeBall
<1> DEFINE v == [w EXCEPT !.self = s]
<1>4. PICK r \in LocalizeBall(v) \cup {NotSeen(v)}, missed \in BOOLEAN :
        /\ missed => MayMiss(v, r.ball)
        /\ wm' = [v EXCEPT !.ball = IF missed THEN SetGhost(r.ball) ELSE r.ball]
        /\ hist' = [hist EXCEPT !.skipped = Skipped, !.by = r.vel.by,
                                !.missed = IF missed THEN hist.missed + 1
                                           ELSE IF r.placed THEN 0 ELSE hist.missed]
  BY <1>3
<1>5. SelfFrom(s, w.self)
  BY <1>2, LocalizeSelfFacts
<1>6. /\ v \in Worlds /\ v.self = s /\ v.ball = w.ball /\ v.prev = w.prev
      /\ v.time = w.time /\ v.decided = w.decided /\ v.full = w.full
  BY <1>1, <1>5 DEF Worlds, SelfFrom
<1> HIDE DEF v
<1>7. Aged(v)
  <2>1. AgesOf(v, Skipped, hist.bumped)
    BY <1>1, <1>6 DEF Aged, AgesOf
  <2>2. MovesOf(v, Skipped, hist.told \ hist.blind)
    BY <1>1, <1>5, <1>6 DEF Aged, MovesOf, SelfFrom
  <2> QED BY <1>1, <1>6, <2>1, <2>2 DEF Aged
<1>8. /\ BallFrom(r.ball, w.ball) /\ GoodVelocity(v, r.vel)
      /\ r.placed => r.ball.ghost = 0 /\ r.ball.rpos = 0
      /\ ~r.placed => r.ball.ghost = w.ball.ghost /\ r.ball.pos = w.ball.pos
  BY <1>6, <1>7, LocalizeBallFacts
<1> DEFINE b == IF missed THEN SetGhost(r.ball) ELSE r.ball
<1>9. r.ball \in Balls /\ r.ball.rpos \in Nat /\ r.ball.ghost \in Nat
  BY <1>8, BallFields DEF BallFrom
<1>10. missed => r.ball.rpos > 0 /\ ~r.placed
  BY <1>4, <1>8, <1>9 DEF MayMiss
<1>11. BallFrom(b, w.ball)
  BY <1>8, <1>9, <1>10, SetGhostFacts
<1>12. /\ wm' \in Worlds /\ wm'.self = s /\ wm'.ball = b /\ wm'.prev = w.prev
       /\ wm'.time = w.time /\ wm'.decided = w.decided /\ wm'.full = w.full
  <2>1. wm' = [v EXCEPT !.ball = b]
    BY <1>4
  <2>2. b \in Balls
    BY <1>11 DEF BallFrom
  <2> HIDE DEF b
  <2> QED BY <1>6, <2>1, <2>2 DEF Worlds
<1>13. /\ hist'.skipped = Skipped /\ hist'.by = r.vel.by /\ hist'.bumped = hist.bumped
       /\ hist'.told = hist.told /\ hist'.blind = hist.blind /\ hist'.unsensed = hist.unsensed
       /\ hist'.missed = IF missed THEN hist.missed + 1
                         ELSE IF r.placed THEN 0 ELSE hist.missed
  BY <1>4 DEF TypeOK
<1>14. TypeOK'
  <2>1. Skipped \in Cycles /\ r.vel.by \in Differences
    BY <1>1, <1>8 DEF Aged, GoodVelocity
  <2>2. hist' \in [skipped : Cycles, bumped : Cycles, told : SUBSET Cycles,
                   blind : SUBSET Cycles, missed : Nat,
                   unsensed : BOOLEAN, by : Differences, lost : Nat]
    BY <1>4, <2>1, HistoryFacts DEF TypeOK
  <2> QED BY <1>12, <2>2, SameConf DEF TypeOK
<1>15. Clock'
  <2>1. /\ wm'.time = srv.cycle /\ Skipped <= srv.cycle /\ wm.time <= srv.cycle
        /\ wm'.decided = wm.decided /\ wm'.full = wm.full
    BY <1>12 DEF UpdatedFrom, Clock
  <2>2. wm.time \in Nat /\ wm.decided \in Nat /\ wm.full \in Nat /\ srv.cycle \in Nat
        /\ hist.bumped \in Nat
    BY <1>2, HistoryFacts DEF TypeOK, Worlds
  <2>3. hist.told \subseteq 0..srv.cycle
    BY <2>1, <2>2 DEF Clock
  <2> QED BY <1>13, <2>1, <2>2, <2>3 DEF Clock
<1>16. Ages'
  <2>1. AgesOf(wm', Skipped, hist.bumped)
    BY <1>1, <1>11, <1>12, AgesFacts
  <2> QED BY <1>13, <2>1 DEF Ages, AgesOf
<1>17. Moves'
  <2>1. MovesOf(wm', Skipped, hist.told \ hist.blind)
    BY <1>5, <1>6, <1>7, <1>12 DEF Aged, MovesOf
  <2> QED BY <1>13, <2>1 DEF Moves, MovesOf
<1>18. Ghosts'
  <2>1. w.ball.ghost = wm.ball.ghost /\ (wm.ball.pos = Unknown => w.ball.pos = Unknown)
        /\ hist.missed \in Nat
    BY HistoryFacts DEF UpdatedFrom
  <2>2. CASE missed
    <3>1. /\ b.ghost >= 1 /\ (r.ball.ghost > 0 => b.pos = Unknown)
          /\ hist'.missed = hist.missed + 1
      BY <1>8, <1>9, <1>10, <1>13, <2>2, SetGhostFacts
    <3>2. r.ball.ghost = w.ball.ghost
      BY <1>8, <1>10, <2>2
    <3>3. hist'.missed > 1 => r.ball.ghost > 0
      BY <1>9, <2>1, <3>1, <3>2 DEF Ghosts
    <3> QED BY <1>12, <3>1, <3>3 DEF Ghosts
  <2>3. CASE ~missed /\ r.placed
    <3>1. hist'.missed = 0
      BY <1>13, <2>3
    <3> QED BY <3>1 DEF Ghosts
  <2>4. CASE ~missed /\ ~r.placed
    <3>1. hist'.missed = hist.missed /\ b = r.ball
      BY <1>13, <2>4
    <3> QED BY <1>8, <1>12, <2>1, <2>4, <3>1 DEF Ghosts
  <2> QED BY <2>2, <2>3, <2>4
<1>19. Kicks'
  <2>1. wm'.time = srv.cycle /\ wm'.decided = wm.decided
    BY <1>12 DEF UpdatedFrom
  <2>2. s.sensed = w.self.sensed /\ s.kicking = w.self.kicking
    BY <1>5 DEF SelfFrom
  <2> QED BY <1>12, <1>13, <2>1, <2>2, KicksKept DEF UpdatedFrom
<1>20. DifferenceSpansItsSteps'
  BY <1>8, <1>13 DEF GoodVelocity, DifferenceSpansItsSteps, Continuous
<1>21. DifferenceIsUndisturbed'
  <2>1. (hist.by.steps > 0 /\ Continuous => hist.by.wrong \cap hist.told \subseteq hist.blind)'
    BY <1>8, <1>13 DEF GoodVelocity, Continuous
  <2>2. (hist.by.steps > 1 /\ ~hist.unsensed /\ wm.decided # srv.cycle
         => srv.cycle - 1 \notin srv.kicks)'
    <3>1. r.vel.by.steps > 1 => eff.last # "kick" \/ ~w.self.kicking
      BY <1>5, <1>6, <1>8 DEF GoodVelocity, SelfFrom
    <3>2. wm'.decided = wm.decided
      BY <1>12 DEF UpdatedFrom
    <3> QED BY <1>13, <3>1, <3>2, KickIsKnown
  <2> QED BY <2>1, <2>2 DEF DifferenceIsUndisturbed
<1> QED BY <1>14, <1>15, <1>16, <1>17, <1>18, <1>19, <1>20, <1>21

\* A see.
LEMMA SeeInv == ASSUME IInv, See PROVE IInv'
<1> USE DEF IInv
<1>1. /\ due' \subseteq due /\ conf' = conf /\ srv' = srv /\ eff' = eff
  BY DEF See
<1>2. PICK w \in Update(eff) :
        IF w.full = srv.cycle THEN wm' = w /\ UNCHANGED hist ELSE SeeBall(w)
  BY DEF See
<1>3. UpdatedFrom(w, eff)
  BY UpdateFacts DEF TypeOK
<1>4. CASE w.full # srv.cycle
  BY <1>1, <1>2, <1>3, <1>4, SeeBallInv
<1>5. CASE w.full = srv.cycle
  <2>1. wm' = w /\ hist' = hist
    BY <1>2, <1>5
  <2>2. wm.full = srv.cycle /\ wm.time = srv.cycle
    <3>1. wm.full = srv.cycle
      BY <1>3, <1>5 DEF UpdatedFrom
    <3>2. wm.time \in Nat /\ srv.cycle \in Nat
      BY HistoryFacts DEF TypeOK, Worlds
    <3> QED BY <3>1, <3>2 DEF Clock
  <2>3. w = [wm EXCEPT !.current = srv.cycle]
    BY <2>2 DEF Update
  <2>4. /\ w.time = wm.time /\ w.decided = wm.decided /\ w.full = wm.full
        /\ w.self = wm.self /\ w.ball = wm.ball /\ w.prev = wm.prev
    BY <2>3 DEF TypeOK, Worlds
  <2>5. TypeOK'
    BY <1>1, <1>3, <2>1, SameConf DEF TypeOK, UpdatedFrom
  <2>6. Clock'
    BY <1>1, <2>1, <2>4 DEF Clock
  <2>7. Ages' /\ Moves' /\ Ghosts'
    BY <2>1, <2>4 DEF Ages, AgesOf, Moves, MovesOf, Ghosts
  <2>8. Kicks'
    BY <1>1, <2>1, <2>2, <2>4, KicksKept
  <2>9. DifferenceSpansItsSteps' /\ DifferenceIsUndisturbed'
    BY <1>1, <2>1, <2>4 DEF DifferenceSpansItsSteps, DifferenceIsUndisturbed, Continuous
  <2> QED BY <2>5, <2>6, <2>7, <2>8, <2>9
<1> QED BY <1>4, <1>5

-----------------------------------------------------------------------------
(* A fullstate and what is heard.                                          *)

\* A fullstate is a sight.
LEMMA FullBallFacts ==
  ASSUME NEW b \in Balls, srv.cycle \in Cycles
  PROVE  BallFrom(FullBall(b), b) /\ FullBall(b) \in Balls
<1>1. 0 \in Nat /\ 0 \in Counts
  BY ThresholdFacts
<1>2. FullBall(b) \in Balls
  BY <1>1 DEF FullBall, Balls
<1>3. /\ FullBall(b).rpos = 0 /\ FullBall(b).rposAt = srv.cycle
      /\ FullBall(b).seen = 0 /\ FullBall(b).seenAt = srv.cycle
  BY DEF FullBall, Balls
<1> QED BY <1>2, <1>3 DEF BallFrom

\* A fullstate.
LEMMA FullstateInv == ASSUME IInv, Fullstate PROVE IInv'
<1> USE DEF IInv
<1>1. PICK w \in Update(eff) :
        wm' = [w EXCEPT !.full = srv.cycle, !.ball = FullBall(@),
                        !.self = [@ EXCEPT !.pos = 0, !.face = 0]]
  BY DEF Fullstate
<1>2. /\ hist' = [hist EXCEPT !.skipped = Skipped, !.missed = 0, !.by = NoDifference]
      /\ due' = due /\ conf' = conf /\ srv' = srv /\ eff' = eff
  BY DEF Fullstate
<1>3. UpdatedFrom(w, eff)
  BY UpdateFacts DEF TypeOK
<1>4. Aged(w) /\ w \in Worlds
  BY <1>3 DEF UpdatedFrom, Aged
<1>5. w.self \in Selves /\ w.ball \in Balls
  BY <1>4, AgedFields
<1> DEFINE s == [w.self EXCEPT !.pos = 0, !.face = 0]
<1>6. s \in Selves /\ s.moves = w.self.moves /\ s.sensed = w.self.sensed
      /\ s.kicking = w.self.kicking
  <2>1. 0 \in Nat
    OBVIOUS
  <2> QED BY <1>5, <2>1 DEF Selves
<1>7. FullBall(w.ball) \in Balls /\ BallFrom(FullBall(w.ball), w.ball)
  BY <1>5, FullBallFacts, HistoryFacts
<1>8. wm' = [w EXCEPT !.full = srv.cycle, !.ball = FullBall(w.ball), !.self = s]
  BY <1>1
<1> HIDE DEF s
<1>9. /\ wm' \in Worlds /\ wm'.self = s /\ wm'.ball = FullBall(w.ball) /\ wm'.prev = w.prev
      /\ wm'.time = w.time /\ wm'.decided = w.decided /\ wm'.full = srv.cycle
  BY <1>4, <1>6, <1>7, <1>8, HistoryFacts DEF Worlds
<1>10. /\ hist'.skipped = Skipped /\ hist'.by = NoDifference /\ hist'.bumped = hist.bumped
       /\ hist'.told = hist.told /\ hist'.blind = hist.blind
       /\ hist'.unsensed = hist.unsensed /\ hist'.missed = 0
  BY <1>2 DEF TypeOK
<1>11. TypeOK'
  <2>1. Skipped \in Cycles
    BY <1>4 DEF Aged
  <2>2. hist' \in [skipped : Cycles, bumped : Cycles, told : SUBSET Cycles,
                   blind : SUBSET Cycles, missed : Nat,
                   unsensed : BOOLEAN, by : Differences, lost : Nat]
    BY <1>2, <2>1, HistoryFacts DEF TypeOK
  <2> QED BY <1>2, <1>9, <2>2, SameConf DEF TypeOK
<1>12. Clock'
  <2>1. /\ wm'.time = srv.cycle /\ Skipped <= srv.cycle /\ wm.time <= srv.cycle
        /\ wm'.decided = wm.decided /\ wm'.full = srv.cycle
    BY <1>3, <1>9 DEF UpdatedFrom, Clock
  <2>2. wm.time \in Nat /\ wm.decided \in Nat /\ srv.cycle \in Nat /\ hist.bumped \in Nat
    BY HistoryFacts DEF TypeOK, Worlds
  <2>3. hist.told \subseteq 0..srv.cycle
    BY <2>1, <2>2 DEF Clock
  <2> QED BY <1>2, <1>10, <2>1, <2>2, <2>3 DEF Clock
<1>13. Ages'
  <2>1. AgesOf(wm', Skipped, hist.bumped)
    BY <1>4, <1>7, <1>9, AgesFacts
  <2> QED BY <1>10, <2>1 DEF Ages, AgesOf
<1>14. Moves'
  <2>1. MovesOf(wm', Skipped, hist.told \ hist.blind)
    BY <1>4, <1>6, <1>9 DEF Aged, MovesOf
  <2> QED BY <1>10, <2>1 DEF Moves, MovesOf
<1>15. Ghosts'
  BY <1>10 DEF Ghosts
<1>16. Kicks'
  <2>1. wm'.time = srv.cycle /\ wm'.decided = wm.decided
    BY <1>3, <1>9 DEF UpdatedFrom
  <2> QED BY <1>2, <1>3, <1>6, <1>9, <1>10, <2>1, KicksKept DEF UpdatedFrom
<1> QED BY <1>10, <1>11, <1>12, <1>13, <1>14, <1>15, <1>16, NoVelocityTaken

\* What changes neither counters nor the clock.
LEMMA OnlyWordsHeard ==
  ASSUME IInv, conf' = conf, due' = due, srv' = srv, eff' = eff,
         hist' = [hist EXCEPT !.by = NoDifference], wm' \in Worlds,
         wm'.time = wm.time, wm'.decided = wm.decided, wm'.full = wm.full,
         wm'.self = wm.self, wm'.prev = wm.prev,
         wm'.ball.pos = wm.ball.pos, wm'.ball.ghost = wm.ball.ghost,
         wm'.ball.rpos = wm.ball.rpos, wm'.ball.rposAt = wm.ball.rposAt,
         wm'.ball.seen = wm.ball.seen, wm'.ball.seenAt = wm.ball.seenAt
  PROVE  IInv'
<1> USE DEF IInv
<1>1. /\ hist'.skipped = hist.skipped /\ hist'.by = NoDifference
      /\ hist'.bumped = hist.bumped /\ hist'.told = hist.told /\ hist'.blind = hist.blind
      /\ hist'.unsensed = hist.unsensed /\ hist'.missed = hist.missed
  BY DEF TypeOK
<1>2. TypeOK'
  <2>1. hist' \in [skipped : Cycles, bumped : Cycles, told : SUBSET Cycles,
                   blind : SUBSET Cycles, missed : Nat,
                   unsensed : BOOLEAN, by : Differences, lost : Nat]
    BY HistoryFacts DEF TypeOK
  <2> QED BY <2>1, SameConf DEF TypeOK
<1>3. Clock'
  BY <1>1 DEF Clock
<1>4. Ages' /\ Moves' /\ Ghosts'
  BY <1>1 DEF Ages, AgesOf, Moves, MovesOf, Ghosts
<1>5. Kicks'
  BY <1>1 DEF Kicks
<1> QED BY <1>1, <1>2, <1>3, <1>4, <1>5, NoVelocityTaken

\* A message of another player.
LEMMA HearInv == ASSUME IInv, Hear PROVE IInv'
<1>1. /\ conf' = conf /\ due' = due /\ srv' = srv /\ eff' = eff
      /\ hist' = [hist EXCEPT !.by = NoDifference]
  BY DEF Hear
<1>2. PICK what \in conf.sayings :
        wm' = [wm EXCEPT !.current = srv.cycle, !.heard = [at |-> srv.cycle, what |-> what]]
  BY DEF Hear
<1>3. wm \in Worlds /\ srv.cycle \in Cycles
  BY DEF IInv, TypeOK
<1>4. /\ wm' \in Worlds /\ wm'.time = wm.time /\ wm'.decided = wm.decided
      /\ wm'.full = wm.full /\ wm'.self = wm.self /\ wm'.prev = wm.prev /\ wm'.ball = wm.ball
  BY <1>2, <1>3 DEF Worlds
<1> QED BY <1>1, <1>4, OnlyWordsHeard

\* A message of the referee.
LEMMA HearRefereeInv == ASSUME IInv, HearReferee PROVE IInv'
<1>1. /\ conf' = conf /\ due' = due /\ srv' = srv /\ eff' = eff
      /\ hist' = [hist EXCEPT !.by = NoDifference]
  BY DEF HearReferee
<1>2. PICK m \in conf.modes \ {wm.mode} :
        wm' = [wm EXCEPT !.current = srv.cycle, !.mode = m,
                         !.ball = IF m = "goal_kick" THEN UpdateOnlyVel(@, SeenVelocity) ELSE @]
  BY DEF HearReferee
<1>3. wm \in Worlds /\ srv.cycle \in Cycles
  BY DEF IInv, TypeOK
<1>4. wm.ball \in Balls /\ SeenVelocity.count \in Counts
  BY <1>3, ThresholdFacts DEF Worlds, SeenVelocity
<1> DEFINE b == IF m = "goal_kick" THEN UpdateOnlyVel(wm.ball, SeenVelocity) ELSE wm.ball
<1>5. /\ b \in Balls /\ b.pos = wm.ball.pos /\ b.ghost = wm.ball.ghost
      /\ b.rpos = wm.ball.rpos /\ b.rposAt = wm.ball.rposAt
      /\ b.seen = wm.ball.seen /\ b.seenAt = wm.ball.seenAt
  BY <1>4, UpdateOnlyVelFacts
<1>6. wm' = [wm EXCEPT !.current = srv.cycle, !.mode = m, !.ball = b]
  BY <1>2
<1> HIDE DEF b
<1>7. /\ wm' \in Worlds /\ wm'.time = wm.time /\ wm'.decided = wm.decided
      /\ wm'.full = wm.full /\ wm'.self = wm.self /\ wm'.prev = wm.prev /\ wm'.ball = b
  BY <1>3, <1>5, <1>6 DEF Worlds
<1> QED BY <1>1, <1>5, <1>7, OnlyWordsHeard

-----------------------------------------------------------------------------
(* The server and the network.                                             *)

\* A new cycle of the server: nobody has decided in it, and no sense_body was read.
LEMMA TickInv == ASSUME IInv, Tick PROVE IInv'
<1> USE DEF IInv
<1>1. PICK hit \in conf.hits : srv' = [srv EXCEPT !.cycle = @ + 1, !.hit = hit]
  BY DEF Tick
<1>2. /\ srv.cycle < conf.maxCycle /\ due' \subseteq {"sense_body", "see"}
      /\ conf' = conf /\ eff' = eff /\ wm' = wm
      /\ hist' = [hist EXCEPT !.by = NoDifference]
  BY DEF Tick
<1>3. /\ srv.cycle \in Nat /\ srv.cycle + 1 \in Cycles /\ srv.cycle + 1 # 0
      /\ wm.time \in Nat /\ wm.time < srv.cycle + 1
      /\ wm.decided \in Nat /\ wm.decided < srv.cycle + 1
  <2>1. wm.time \in Nat /\ wm.decided \in Nat /\ srv.cycle \in Nat
    BY HistoryFacts DEF TypeOK, Worlds
  <2>2. srv.cycle + 1 \in Cycles
    BY <1>2, <2>1, ConfFacts DEF Cycles, IsConf
  <2> QED BY <2>1, <2>2 DEF Clock
<1>4. /\ srv'.cycle = srv.cycle + 1 /\ srv'.kicks = srv.kicks
      /\ srv' \in [cycle : Cycles, hit : conf.hits, kicks : SUBSET Cycles]
  BY <1>1, <1>3 DEF TypeOK
<1>5. /\ hist'.skipped = hist.skipped /\ hist'.by = NoDifference
      /\ hist'.bumped = hist.bumped /\ hist'.told = hist.told /\ hist'.blind = hist.blind
      /\ hist'.unsensed = hist.unsensed /\ hist'.missed = hist.missed
  BY <1>2 DEF TypeOK
<1>6. TypeOK'
  <2>1. hist' \in [skipped : Cycles, bumped : Cycles, told : SUBSET Cycles,
                   blind : SUBSET Cycles, missed : Nat,
                   unsensed : BOOLEAN, by : Differences, lost : Nat]
    BY <1>2, HistoryFacts DEF TypeOK
  <2> QED BY <1>2, <1>4, <2>1, SameConf DEF TypeOK
<1>7. Clock'
  BY <1>2, <1>3, <1>4, <1>5 DEF Clock
<1>8. Ages' /\ Moves' /\ Ghosts'
  BY <1>2, <1>5 DEF Ages, AgesOf, Moves, MovesOf, Ghosts
<1>9. Kicks'
  <2>1. wm'.time # srv'.cycle /\ wm'.decided # srv'.cycle
    BY <1>2, <1>3, <1>4
  <2> QED BY <1>2, <1>4, <1>5, <2>1 DEF Kicks
<1> QED BY <1>5, <1>6, <1>7, <1>8, <1>9, NoVelocityTaken

\* A lost message.
LEMMA LoseInv == ASSUME IInv, Lose PROVE IInv'
<1> USE DEF IInv
<1>1. /\ due' \subseteq due /\ conf' = conf /\ srv' = srv /\ eff' = eff /\ wm' = wm
      /\ hist' = [hist EXCEPT !.lost = @ + 1, !.by = NoDifference]
  BY DEF Lose
<1>2. /\ hist'.skipped = hist.skipped /\ hist'.by = NoDifference
      /\ hist'.bumped = hist.bumped /\ hist'.told = hist.told /\ hist'.blind = hist.blind
      /\ hist'.unsensed = hist.unsensed /\ hist'.missed = hist.missed
  BY <1>1 DEF TypeOK
<1>3. TypeOK'
  <2>1. hist' \in [skipped : Cycles, bumped : Cycles, told : SUBSET Cycles,
                   blind : SUBSET Cycles, missed : Nat,
                   unsensed : BOOLEAN, by : Differences, lost : Nat]
    BY <1>1, HistoryFacts DEF TypeOK
  <2> QED BY <1>1, <2>1, SameConf DEF TypeOK
<1>4. Clock'
  BY <1>1, <1>2 DEF Clock
<1>5. Ages' /\ Moves' /\ Ghosts'
  BY <1>1, <1>2 DEF Ages, AgesOf, Moves, MovesOf, Ghosts
<1>6. Kicks'
  BY <1>1, <1>2 DEF Kicks
<1> QED BY <1>2, <1>3, <1>4, <1>5, <1>6, NoVelocityTaken

-----------------------------------------------------------------------------
(* A sense_body.                                                           *)

\* The kicks can be counted.
LEMMA KicksFinite ==
  ASSUME TypeOK
  PROVE  /\ IsFiniteSet(srv.kicks) /\ Cardinality(srv.kicks) \in Nat
         /\ Cardinality(srv.kicks \ {srv.cycle}) \in Nat
<1>1. IsFiniteSet(Cycles)
  BY ConfFacts, FS_Interval DEF Cycles, IsConf
<1>2. srv.kicks \subseteq Cycles /\ srv.kicks \ {srv.cycle} \subseteq Cycles
  BY DEF TypeOK
<1>3. IsFiniteSet(srv.kicks) /\ IsFiniteSet(srv.kicks \ {srv.cycle})
  BY <1>1, <1>2, FS_Subset
<1> QED BY <1>3, FS_CardinalityType

\* A kick that was executed and counted is not forgotten; before the decision of this
\* cycle the count is that of the server.
LEMMA CheckCommandCountFacts ==
  ASSUME IInv
  PROVE  /\ CheckCommandCount(eff) \in Effectors
         /\ wm.decided # srv.cycle =>
              CheckCommandCount(eff).count = Cardinality(srv.kicks)
         /\ wm.decided # srv.cycle /\ wm.decided \in srv.kicks /\ ~hist.unsensed
              => CheckCommandCount(eff) = eff
<1> USE DEF IInv
<1>1. eff \in Effectors /\ KickCount \in Nat
  BY KicksFinite DEF TypeOK, KickCount
<1>2. CheckCommandCount(eff) \in Effectors /\ CheckCommandCount(eff).count = KickCount
  <2>1. "illegal" \in Commands
    BY DEF Commands
  <2>2. CASE KickCount # eff.count
    BY <1>1, <2>1, <2>2 DEF CheckCommandCount, Effectors
  <2>3. CASE KickCount = eff.count
    BY <1>1, <2>3 DEF CheckCommandCount
  <2> QED BY <2>2, <2>3
<1>3. wm.decided # srv.cycle => KickCount = Cardinality(srv.kicks)
  <2> SUFFICES ASSUME wm.decided # srv.cycle PROVE srv.kicks \ {srv.cycle} = srv.kicks
    BY DEF KickCount
  <2>1. wm.decided \in Nat /\ wm.time \in Nat /\ srv.cycle \in Nat
    BY HistoryFacts DEF TypeOK, Worlds
  <2>2. srv.cycle \notin 1..wm.decided
    BY <2>1 DEF Clock
  <2> QED BY <2>2 DEF Kicks
<1>4. wm.decided # srv.cycle /\ wm.decided \in srv.kicks /\ ~hist.unsensed
        => CheckCommandCount(eff) = eff
  BY <1>3 DEF Kicks, CheckCommandCount
<1> QED BY <1>2, <1>3, <1>4

\* What a sense_body tells of a collision unmakes the wrong move.
LEMMA SenseSelfFacts ==
  ASSUME TypeOK, NEW s \in Selves, NEW e \in Effectors
  PROVE  /\ SenseSelf(s, e) \in Selves
         /\ SenseSelf(s, e).sensed = TRUE /\ (SenseSelf(s, e).kicking <=> e.last = "kick")
         /\ \A i \in 2..3 : SenseSelf(s, e).moves[i] = s.moves[i]
         /\ SenseSelf(s, e).moves[1] = "wrong" => ~(s.face < FaceThr) /\ s.moves[1] = "wrong"
<1> DEFINE m == IF s.face >= FaceThr THEN s.moves[1]
                ELSE IF srv.hit = "none" THEN "right" ELSE "none"
           n == [s.moves EXCEPT ![1] = m]
<1>1. /\ s.moves \in [1..3 -> {"none", "right", "wrong"}] /\ 1 \in 1..3
      /\ s.face \in Nat /\ s.pos \in Nat
  BY DEF Selves
<1>2. m \in {"none", "right", "wrong"}
      /\ (m = "wrong" => s.face >= FaceThr /\ s.moves[1] = "wrong")
  BY <1>1
<1>3. m = "wrong" => ~(s.face < FaceThr) /\ s.moves[1] = "wrong"
  BY <1>1, <1>2, ThresholdFacts
<1>4. srv.hit \in {"none", "ball", "player"}
  BY ConfFacts DEF TypeOK, IsConf
<1>5. SenseSelf(s, e) = [s EXCEPT !.kicking = e.last = "kick", !.sensed = TRUE,
                                  !.hit = srv.hit, !.moves = n]
  BY DEF SenseSelf, Selves
<1> HIDE DEF m
<1>6. /\ n \in [1..3 -> {"none", "right", "wrong"}] /\ n[1] = m
      /\ \A i \in 2..3 : n[i] = s.moves[i]
  BY <1>1, <1>2
<1> HIDE DEF n
<1>7. /\ SenseSelf(s, e).sensed = TRUE /\ SenseSelf(s, e).moves = n
      /\ SenseSelf(s, e).kicking = (e.last = "kick")
  BY <1>5 DEF Selves
<1>8. SenseSelf(s, e) \in Selves
  <2>1. (e.last = "kick") \in BOOLEAN /\ TRUE \in BOOLEAN
    OBVIOUS
  <2> QED BY <1>4, <1>5, <1>6, <2>1 DEF Selves
<1> QED BY <1>3, <1>6, <1>7, <1>8

\* A sense_body.
LEMMA SenseBodyInv == ASSUME IInv, SenseBody PROVE IInv'
<1> USE DEF IInv
<1>1. /\ "sense_body" \in due /\ due' = due \ {"sense_body"}
      /\ eff' = CheckCommandCount(eff) /\ conf' = conf /\ srv' = srv
  BY DEF SenseBody
<1> DEFINE e == CheckCommandCount(eff)
<1>2. PICK w \in Update(e) :
        /\ wm' = [w EXCEPT !.self = SenseSelf(@, e)]
        /\ hist' = [hist EXCEPT !.skipped = Skipped, !.by = NoDifference,
                      !.told = @ \cup {srv.cycle},
                      !.blind = IF w.self.face >= FaceThr THEN @ \cup {srv.cycle} ELSE @]
  BY <1>1 DEF SenseBody
<1>3. /\ e \in Effectors /\ eff' = e
      /\ wm.decided # srv.cycle => e.count = Cardinality(srv.kicks)
      /\ wm.decided # srv.cycle /\ wm.decided \in srv.kicks /\ ~hist.unsensed => e = eff
  BY <1>1, CheckCommandCountFacts
<1> HIDE DEF e
<1>4. UpdatedFrom(w, e)
  BY <1>3, UpdateFacts
<1>5. Aged(w) /\ w \in Worlds
  BY <1>4 DEF UpdatedFrom, Aged
<1>6. w.self \in Selves /\ w.ball \in Balls /\ srv.cycle \in Nat
  BY <1>5, AgedFields
<1> DEFINE s == SenseSelf(w.self, e)
<1>7. /\ s \in Selves /\ s.sensed = TRUE /\ (s.kicking <=> e.last = "kick")
      /\ \A i \in 2..3 : s.moves[i] = w.self.moves[i]
      /\ s.moves[1] = "wrong" => ~(w.self.face < FaceThr) /\ w.self.moves[1] = "wrong"
  BY <1>3, <1>6, SenseSelfFacts
<1>8. wm' = [w EXCEPT !.self = s]
  BY <1>2
<1> HIDE DEF s
<1>9. /\ wm' \in Worlds /\ wm'.self = s /\ wm'.ball = w.ball /\ wm'.prev = w.prev
      /\ wm'.time = srv.cycle /\ wm'.decided = wm.decided /\ wm'.full = wm.full
  BY <1>4, <1>5, <1>7, <1>8 DEF Worlds, UpdatedFrom
<1>10. /\ hist'.skipped = Skipped /\ hist'.by = NoDifference /\ hist'.bumped = hist.bumped
       /\ hist'.unsensed = hist.unsensed /\ hist'.missed = hist.missed
       /\ hist'.told = hist.told \cup {srv.cycle}
       /\ hist'.blind = IF w.self.face >= FaceThr THEN hist.blind \cup {srv.cycle} ELSE hist.blind
  BY <1>2 DEF TypeOK
<1>11. TypeOK'
  <2>1. Skipped \in Cycles
    BY <1>5 DEF Aged
  <2>2. /\ hist.told \cup {srv.cycle} \in SUBSET Cycles
        /\ (IF w.self.face >= FaceThr THEN hist.blind \cup {srv.cycle} ELSE hist.blind)
             \in SUBSET Cycles
    BY HistoryFacts
  <2>3. hist' \in [skipped : Cycles, bumped : Cycles, told : SUBSET Cycles,
                   blind : SUBSET Cycles, missed : Nat,
                   unsensed : BOOLEAN, by : Differences, lost : Nat]
    BY <1>2, <2>1, <2>2, HistoryFacts DEF TypeOK
  <2> QED BY <1>1, <1>3, <1>9, <2>3, SameConf DEF TypeOK
<1>12. Clock'
  <2>1. wm.time \in Nat /\ wm.decided \in Nat /\ wm.full \in Nat /\ hist.bumped \in Nat
        /\ Skipped <= srv.cycle
    BY <1>4, HistoryFacts DEF TypeOK, Worlds, UpdatedFrom
  <2>2. hist'.told \subseteq 0..srv.cycle
    BY <1>6, <1>10, <2>1 DEF Clock
  <2>3. wm.decided <= srv.cycle /\ wm.full <= srv.cycle /\ hist.bumped <= srv.cycle
    BY <1>6, <2>1 DEF Clock
  <2>4. (srv.cycle = 0 => due = {})'
    BY <1>1 DEF Clock
  <2> QED BY <1>1, <1>6, <1>9, <1>10, <2>1, <2>2, <2>3, <2>4 DEF Clock
<1>13. Ages'
  <2>1. AgesOf(w, Skipped, hist.bumped) /\ w.time = srv.cycle
    BY <1>5 DEF Aged
  <2> QED BY <1>9, <1>10, <2>1 DEF Ages, AgesOf
<1>14. Moves'
  <2> SUFFICES ASSUME NEW i \in 1..3, s.moves[i] = "wrong"
               PROVE  /\ i <= srv.cycle
                      /\ Skipped + i <= srv.cycle
                         => (srv.cycle + 1) - i \notin hist'.told \ hist'.blind
    BY <1>9, <1>10 DEF Moves, MovesOf
  <2>1. w.self.moves[i] = "wrong"
    BY <1>7
  <2>2. /\ i <= srv.cycle
        /\ Skipped + i <= srv.cycle => (srv.cycle + 1) - i \notin hist.told \ hist.blind
    BY <1>5, <2>1 DEF Aged, MovesOf
  <2>3. CASE i = 1
    <3>1. w.self.face >= FaceThr
      BY <1>6, <1>7, <2>3, ThresholdFacts, BallMemoryAssumption DEF Selves
    <3>2. srv.cycle \in hist'.blind /\ (srv.cycle + 1) - i = srv.cycle
      BY <1>6, <1>10, <2>3, <3>1
    <3> QED BY <1>5, <2>1, <2>3, <3>2 DEF Aged, MovesOf
  <2>4. CASE i \in 2..3
    <3>1. (srv.cycle + 1) - i # srv.cycle
      BY <1>6, <2>4
    <3> QED BY <1>10, <2>2, <3>1
  <2> QED BY <2>3, <2>4
<1>15. Ghosts'
  BY <1>4, <1>9, <1>10 DEF Ghosts, UpdatedFrom
<1>16. Kicks'
  <2>1. wm.decided = srv.cycle => hist.unsensed
    BY <1>1 DEF Kicks
  <2>2. (srv.kicks \subseteq 1..wm.decided)' /\ Cardinality(srv.kicks)' = Cardinality(srv.kicks)
    BY <1>1, <1>9 DEF Kicks
  <2>3. (wm.decided \in srv.kicks /\ ~hist.unsensed
         => eff.last = "kick" /\ eff.count = Cardinality(srv.kicks))'
    BY <1>1, <1>3, <1>9, <1>10, <2>1 DEF Kicks
  <2>4. (wm.time = srv.cycle /\ wm.self.sensed => "sense_body" \notin due)'
        /\ (wm.decided = srv.cycle /\ ~hist.unsensed => "sense_body" \notin due)'
    BY <1>1
  <2>5. (wm.decided # srv.cycle /\ wm.time = srv.cycle =>
           /\ wm.self.sensed => eff.count = Cardinality(srv.kicks)
           /\ wm.self.kicking <=> eff.last = "kick")'
    BY <1>1, <1>3, <1>7, <1>9
  <2> QED BY <2>2, <2>3, <2>4, <2>5 DEF Kicks
<1> QED BY <1>10, <1>11, <1>12, <1>13, <1>14, <1>15, <1>16, NoVelocityTaken

-----------------------------------------------------------------------------
(* The decision.                                                           *)

\* What changes neither the sights nor the ghost.
SameSights(c, b) ==
  /\ c \in Balls /\ c.rposAt = b.rposAt /\ c.seenAt = b.seenAt
  /\ c.rpos = b.rpos /\ c.seen = b.seen /\ c.ghost = b.ghost

\* What is heard is no sight.
LEMMA HeardBallFacts ==
  ASSUME NEW b \in Balls, NEW what
  PROVE  SameSights(HeardBall(b, what), b)
<1>1. 1 \in Counts
  BY ThresholdFacts DEF Unknown
<1> QED BY <1>1, BallFields DEF HeardBall, Balls, SameSights

\* What is heard changes the position and the velocity only.
LEMMA HearBallFacts ==
  ASSUME NEW w, w.ball \in Balls, NEW c \in HearBall(w)
  PROVE  SameSights(c, w.ball)
<1> DEFINE b == w.ball
           h == [b EXCEPT !.heardVel = 0]
           p == [h EXCEPT !.vel = 1]
           what == w.heard.what
           pass == HeardBall(p, what)
           far == [pass EXCEPT !.pos = b.pos]
<1>1. 0 \in Counts /\ 1 \in Counts /\ b.pos \in Counts
  BY BallFields, ThresholdFacts DEF Unknown
<1>2. SameSights(h, b)
  BY <1>1 DEF Balls, SameSights
<1>3. SameSights(p, b)
  BY <1>1, <1>2 DEF Balls, SameSights
<1>4. SameSights(HeardBall(h, what), b)
  BY <1>2, HeardBallFacts DEF SameSights
<1>5. SameSights(pass, b)
  BY <1>3, HeardBallFacts DEF SameSights
<1>6. SameSights(far, b)
  BY <1>1, <1>5 DEF Balls, SameSights
<1>7. c \in {b, h, HeardBall(h, what), pass, far}
  BY DEF HearBall, UpdateByHear
<1>8. SameSights(b, b)
  BY DEF SameSights
<1> QED BY <1>2, <1>4, <1>5, <1>6, <1>7, <1>8

\* A collision ages the sight and the velocity of a ball that is not lost.
LEMMA CollisionFacts ==
  ASSUME NEW b \in Balls, NEW s, NEW c \in UpdateBallCollision(b, s)
  PROVE  /\ c \in Balls /\ c.rposAt = b.rposAt /\ c.seenAt = b.seenAt
         /\ c.seen = b.seen /\ c.ghost = b.ghost
         /\ b.pos = Unknown => c.pos = Unknown
<1>1. CASE c = b
  BY <1>1
<1>2. CASE c = Collide(b, s.sensed) /\ b.pos < BallPosThr /\ b.vel < BallVelThr
  <2>1. b.pos + 1 \in Counts /\ b.vel + 1 \in Counts /\ b.rpos + 1 \in Nat /\ b.pos # Unknown
    BY <1>2, BallFields, ThresholdFacts
  <2>2. \/ c = [b EXCEPT !.pos = b.pos + 1, !.rpos = b.rpos + 1, !.vel = b.vel + 1]
        \/ c = b \/ c = [b EXCEPT !.vel = b.vel + 1]
    BY <1>2 DEF Collide
  <2> QED BY <2>1, <2>2 DEF Balls
<1> QED BY <1>1, <1>2 DEF UpdateBallCollision

\* Only a kick-off moves the ball.
LEMMA GameModeFacts ==
  ASSUME NEW b \in Balls, NEW mode
  PROVE  /\ SameSights(UpdateByGameMode(b, mode), b)
         /\ mode # "kick_off" => UpdateByGameMode(b, mode).pos = b.pos
<1> DEFINE still == [b EXCEPT !.vel = 0, !.seenVel = 0]
<1>1. 0 \in Counts
  BY ThresholdFacts
<1>2. SameSights(still, b) /\ still.pos = b.pos
  BY <1>1 DEF Balls, SameSights
<1>3. SameSights([still EXCEPT !.pos = 0], b)
  BY <1>1, <1>2 DEF Balls, SameSights
<1>4. SameSights(b, b)
  BY DEF SameSights
<1>5. \/ UpdateByGameMode(b, mode) = b
      \/ UpdateByGameMode(b, mode) = still
      \/ mode = "kick_off" /\ UpdateByGameMode(b, mode) = [still EXCEPT !.pos = 0]
  BY DEF UpdateByGameMode
<1> HIDE DEF still
<1> QED BY <1>2, <1>3, <1>4, <1>5

\* The decision.
LEMMA DecideInv == ASSUME IInv, Decide PROVE IInv'
<1> USE DEF IInv
<1>1. wm.decided # srv.cycle /\ conf' = conf /\ due' = due
  BY DEF Decide
<1> DEFINE remembered(w, lost, heard, b) ==
             /\ wm' = [w EXCEPT !.decided = srv.cycle, !.ball = UpdateByGameMode(b, w.mode)]
             /\ hist' = [hist EXCEPT
                  !.by = NoDifference, !.skipped = Skipped, !.unsensed = ~w.self.sensed,
                  !.lost = IF lost THEN hist.lost + 1 ELSE hist.lost,
                  !.bumped = IF b.rpos # heard.rpos THEN srv.cycle ELSE hist.bumped,
                  !.missed = IF heard.pos < w.ball.pos \/ w.mode = "kick_off" THEN 0
                             ELSE hist.missed]
<1>2. PICK w \in Update(eff), command \in conf.commands, lost \in BOOLEAN :
        /\ lost => command = "kick" /\ hist.lost < conf.maxLost
        /\ \E heard \in HearBall(w) : \E b \in UpdateBallCollision(heard, w.self) :
             remembered(w, lost, heard, b)
        /\ eff' = [last |-> command, last1 |-> "illegal",
                   count |-> IF command = "kick" THEN eff.count + 1 ELSE eff.count]
        /\ srv' = [srv EXCEPT !.kicks = IF command = "kick" /\ ~lost
                                        THEN @ \cup {srv.cycle} ELSE @]
  BY DEF Decide
<1> HIDE DEF remembered
<1>3. PICK heard \in HearBall(w) :
        \E b \in UpdateBallCollision(heard, w.self) : remembered(w, lost, heard, b)
  BY <1>2
<1>4. PICK b \in UpdateBallCollision(heard, w.self) : remembered(w, lost, heard, b)
  BY <1>3
<1>5. /\ eff' = [last |-> command, last1 |-> "illegal",
                 count |-> IF command = "kick" THEN eff.count + 1 ELSE eff.count]
      /\ srv' = [srv EXCEPT !.kicks = IF command = "kick" /\ ~lost
                                      THEN srv.kicks \cup {srv.cycle} ELSE srv.kicks]
  BY <1>2
<1>6. UpdatedFrom(w, eff)
  BY UpdateFacts DEF TypeOK
<1>7. Aged(w) /\ w \in Worlds
  BY <1>6 DEF UpdatedFrom, Aged
<1>8. /\ w.self \in Selves /\ w.ball \in Balls /\ w.self.sensed \in BOOLEAN
      /\ srv.cycle \in Nat /\ wm.decided \in Nat /\ wm.time \in Nat /\ wm.full \in Nat
      /\ hist.bumped \in Nat /\ hist.skipped \in Nat /\ Skipped <= srv.cycle
  BY <1>6, <1>7, AgedFields, HistoryFacts DEF TypeOK, Worlds, Selves, UpdatedFrom
<1> DEFINE c == UpdateByGameMode(b, w.mode)
<1>9. SameSights(heard, w.ball)
  BY <1>8, HearBallFacts
<1>10. /\ b \in Balls /\ b.rposAt = heard.rposAt /\ b.seenAt = heard.seenAt
       /\ b.seen = heard.seen /\ b.ghost = heard.ghost
       /\ heard.pos = Unknown => b.pos = Unknown
  BY <1>9, CollisionFacts DEF SameSights
<1>11. SameSights(c, b) /\ (w.mode # "kick_off" => c.pos = b.pos)
  BY <1>10, GameModeFacts
<1> HIDE DEF c
<1>12. c \in Balls /\ wm' = [w EXCEPT !.decided = srv.cycle, !.ball = c]
  BY <1>4, <1>11 DEF SameSights, c, remembered
<1>13. /\ wm' \in Worlds /\ wm'.self = w.self /\ wm'.ball = c /\ wm'.prev = w.prev
       /\ wm'.time = srv.cycle /\ wm'.decided = srv.cycle /\ wm'.full = wm.full
  BY <1>6, <1>7, <1>12, HistoryFacts DEF Worlds, UpdatedFrom
<1>14. /\ hist'.skipped = Skipped /\ hist'.by = NoDifference
       /\ hist'.told = hist.told /\ hist'.blind = hist.blind
       /\ hist'.unsensed = ~w.self.sensed
       /\ hist'.bumped = IF b.rpos # heard.rpos THEN srv.cycle ELSE hist.bumped
       /\ hist'.missed = IF heard.pos < w.ball.pos \/ w.mode = "kick_off" THEN 0
                         ELSE hist.missed
  BY <1>4 DEF TypeOK, remembered
<1>15. /\ srv'.cycle = srv.cycle
       /\ srv'.kicks = IF command = "kick" /\ ~lost
                       THEN srv.kicks \cup {srv.cycle} ELSE srv.kicks
       /\ eff'.last = command
       /\ eff'.count = IF command = "kick" THEN eff.count + 1 ELSE eff.count
  BY <1>5 DEF TypeOK
<1>16. TypeOK'
  <2>1. /\ Skipped \in Cycles /\ (~w.self.sensed) \in BOOLEAN
        /\ (IF lost THEN hist.lost + 1 ELSE hist.lost) \in Nat
        /\ (IF b.rpos # heard.rpos THEN srv.cycle ELSE hist.bumped) \in Cycles
        /\ (IF heard.pos < w.ball.pos \/ w.mode = "kick_off" THEN 0 ELSE hist.missed) \in Nat
    BY <1>7, HistoryFacts DEF Aged
  <2>2. hist' \in [skipped : Cycles, bumped : Cycles, told : SUBSET Cycles,
                   blind : SUBSET Cycles, missed : Nat,
                   unsensed : BOOLEAN, by : Differences, lost : Nat]
    BY <1>4, <2>1, HistoryFacts DEF TypeOK, remembered
  <2>3. eff' \in Effectors
    <3>1. command \in Commands /\ "illegal" \in Commands
      BY ConfFacts DEF IsConf, Commands
    <3>2. eff.count \in Nat
      BY DEF TypeOK, Effectors
    <3>3. (IF command = "kick" THEN eff.count + 1 ELSE eff.count) \in Nat
      BY <3>2
    <3> QED BY <1>5, <3>1, <3>3 DEF Effectors
  <2>4. srv' \in [cycle : Cycles, hit : conf.hits, kicks : SUBSET Cycles]
    BY <1>5, HistoryFacts DEF TypeOK
  <2> QED BY <1>1, <1>13, <2>2, <2>3, <2>4, SameConf DEF TypeOK
<1>17. Clock'
  <2>1. hist.told \subseteq 0..srv.cycle /\ wm.full <= srv.cycle /\ hist.bumped <= srv.cycle
    BY <1>8 DEF Clock
  <2> QED BY <1>1, <1>8, <1>13, <1>14, <1>15, <2>1 DEF Clock
<1>18. Ages'
  <2>1. /\ c.rposAt = w.ball.rposAt /\ c.seenAt = w.ball.seenAt /\ c.seen = w.ball.seen
        /\ c.rpos = b.rpos
    BY <1>9, <1>10, <1>11 DEF SameSights
  <2>2. AgesOf(w, Skipped, hist.bumped) /\ w.time = srv.cycle
    BY <1>7 DEF Aged
  <2>3. CASE b.rpos = heard.rpos
    <3>1. c.rpos = w.ball.rpos
      BY <1>9, <2>1, <2>3 DEF SameSights
    <3> QED BY <1>13, <1>14, <2>1, <2>2, <2>3, <3>1 DEF Ages, AgesOf
  <2>4. CASE b.rpos # heard.rpos
    <3>1. /\ ~(srv.cycle < w.ball.rposAt) /\ ~(srv.cycle < w.prev.rposAt)
      <4>1. w.ball.rposAt \in Nat /\ w.prev.rposAt \in Nat
        BY <1>7, <1>8, AgedFields, BallFields
      <4> QED BY <1>8, <2>2, <4>1 DEF AgesOf
    <3> QED BY <1>13, <1>14, <2>1, <2>2, <2>4, <3>1 DEF Ages, AgesOf
  <2> QED BY <2>3, <2>4
<1>19. Moves'
  <2>1. MovesOf(w, Skipped, hist.told \ hist.blind) /\ w.time = srv.cycle
    BY <1>7 DEF Aged
  <2> QED BY <1>13, <1>14, <2>1 DEF Moves, MovesOf
<1>20. Ghosts'
  <2>1. c.ghost = wm.ball.ghost
    BY <1>6, <1>9, <1>10, <1>11 DEF SameSights, UpdatedFrom
  <2>2. hist'.missed > 1 => hist'.missed = hist.missed /\ c.pos = Unknown
    <3> SUFFICES ASSUME hist'.missed > 1 PROVE hist'.missed = hist.missed /\ c.pos = Unknown
      OBVIOUS
    <3>1. ~(heard.pos < w.ball.pos) /\ w.mode # "kick_off" /\ hist'.missed = hist.missed
      BY <1>14
    <3>2. w.ball.pos = Unknown
      BY <1>6, <3>1 DEF Ghosts, UpdatedFrom
    <3>3. heard.pos = Unknown
      BY <1>9, <3>1, <3>2, BallFields, ThresholdFacts DEF SameSights
    <3> QED BY <1>10, <1>11, <3>1, <3>3
  <2>3. hist'.missed >= 1 => hist'.missed = hist.missed
    BY <1>14
  <2> QED BY <1>13, <2>1, <2>2, <2>3 DEF Ghosts
<1>21. Kicks'
  <2>1. /\ srv.kicks \subseteq 1..wm.decided /\ wm.decided < srv.cycle
        /\ srv.cycle \notin srv.kicks
    BY <1>1, <1>8 DEF Clock, Kicks
  <2>2. w.self.sensed => /\ "sense_body" \notin due /\ eff.count = Cardinality(srv.kicks)
    BY <1>1, <1>6 DEF UpdatedFrom, Kicks
  <2>3. (srv.kicks \subseteq 1..wm.decided)'
    BY <1>8, <1>13, <1>15, <2>1
  <2>4. (wm.decided \in srv.kicks /\ ~hist.unsensed
         => eff.last = "kick" /\ eff.count = Cardinality(srv.kicks))'
    <3> SUFFICES ASSUME srv.cycle \in srv'.kicks, w.self.sensed
                 PROVE  command = "kick" /\ eff'.count = Cardinality(srv'.kicks)
      BY <1>13, <1>14, <1>15
    <3>1. command = "kick" /\ srv'.kicks = srv.kicks \cup {srv.cycle}
      BY <1>15, <2>1
    <3>2. Cardinality(srv.kicks \cup {srv.cycle}) = Cardinality(srv.kicks) + 1
      BY <2>1, KicksFinite, FS_AddElement
    <3> QED BY <1>15, <2>2, <3>1, <3>2
  <2>5. (wm.time = srv.cycle /\ wm.self.sensed => "sense_body" \notin due)'
        /\ (wm.decided = srv.cycle /\ ~hist.unsensed => "sense_body" \notin due)'
    BY <1>1, <1>13, <1>14, <2>2
  <2>6. (wm.decided = srv.cycle)'
    BY <1>13, <1>15
  <2> QED BY <2>3, <2>4, <2>5, <2>6 DEF Kicks
<1> QED BY <1>14, <1>16, <1>17, <1>18, <1>19, <1>20, <1>21, NoVelocityTaken

-----------------------------------------------------------------------------
(* The theorems.                                                           *)

\* At first nothing is known.
LEMMA InitInv == ASSUME Init PROVE IInv
<1>1. /\ IsConf(conf) /\ conf \in Confs
      /\ srv = [cycle |-> 0, hit |-> "none", kicks |-> {}] /\ due = {}
      /\ eff = [last |-> "illegal", last1 |-> "illegal", count |-> 0]
      /\ wm = [current |-> 0, time |-> 0, decided |-> 0, full |-> 0, mode |-> "play_on",
               heard |-> [at |-> 0, what |-> {}], self |-> NewSelf, ball |-> NewBall,
               prev |-> Previous(NewBall)]
      /\ hist = [skipped |-> 0, bumped |-> 0, told |-> {}, blind |-> {}, missed |-> 0,
                 unsensed |-> FALSE,
                 by |-> NoDifference, lost |-> 0]
  BY BallMemoryAssumption DEF Init
<1>2. /\ 0 \in Cycles /\ 0 \in 0..6 /\ "none" \in conf.hits /\ 0 \in Nat
      /\ Unknown \in Counts /\ Unknown \in Nat
  BY <1>1, ThresholdFacts DEF IsConf, Cycles
<1>3. NewBall \in Balls
  BY <1>2 DEF NewBall, Balls
<1>4. NewSelf \in Selves
  BY <1>2 DEF NewSelf, Selves
<1>5. /\ Previous(NewBall) \in Sights
      /\ Previous(NewBall).rpos = Unknown /\ Previous(NewBall).seen = Unknown
      /\ Previous(NewBall).rposAt = 0 /\ Previous(NewBall).seenAt = 0
  BY <1>2 DEF NewBall, Previous, Sights
<1>6. /\ NewBall.rpos = Unknown /\ NewBall.seen = Unknown
      /\ NewBall.rposAt = 0 /\ NewBall.seenAt = 0
  BY DEF NewBall
<1>7. /\ wm.time = 0 /\ wm.decided = 0 /\ wm.full = 0 /\ wm.self = NewSelf
      /\ wm.ball = NewBall /\ wm.prev = Previous(NewBall) /\ srv.cycle = 0 /\ srv.kicks = {}
      /\ hist.skipped = 0 /\ hist.bumped = 0 /\ hist.told = {} /\ hist.blind = {} /\ hist.missed = 0
      /\ hist.by = NoDifference
  BY <1>1
<1>8. NoDifference \in Differences /\ NoDifference.steps = 0
  BY <1>2 DEF NoDifference, Differences
<1>9. wm \in Worlds
  BY <1>1, <1>2, <1>3, <1>4, <1>5 DEF Worlds
<1>10. TypeOK
  <2>1. eff \in Effectors
    BY <1>1 DEF Effectors, Commands
  <2>2. srv \in [cycle : Cycles, hit : conf.hits, kicks : SUBSET Cycles]
    BY <1>1, <1>2
  <2>3. hist \in [skipped : Cycles, bumped : Cycles, told : SUBSET Cycles,
                   blind : SUBSET Cycles, missed : Nat,
                  unsensed : BOOLEAN, by : Differences, lost : Nat]
    BY <1>1, <1>2, <1>8
  <2> QED BY <1>1, <1>9, <2>1, <2>2, <2>3 DEF TypeOK
<1>11. Clock
  BY <1>1, <1>7 DEF Clock
<1>12. Ages
  BY <1>5, <1>6, <1>7 DEF Ages, AgesOf, Unknown
<1>13. Moves
  BY <1>7 DEF Moves, MovesOf, NewSelf
<1>14. Ghosts
  BY <1>7 DEF Ghosts
<1>15. Kicks
  BY <1>1, <1>7 DEF Kicks
<1>16. DifferenceSpansItsSteps /\ DifferenceIsUndisturbed
  BY <1>7, <1>8 DEF DifferenceSpansItsSteps, DifferenceIsUndisturbed
<1> QED BY <1>10, <1>11, <1>12, <1>13, <1>14, <1>15, <1>16 DEF IInv

\* Every step keeps the invariant.
LEMMA StepInv == ASSUME IInv, [Next]_vars PROVE IInv'
<1>1. CASE Next
  BY <1>1, TickInv, LoseInv, SenseBodyInv, SeeInv, FullstateInv, HearInv, HearRefereeInv,
     DecideInv DEF Next
<1>2. CASE UNCHANGED vars
  <2>1. conf' = conf /\ srv' = srv /\ due' = due /\ eff' = eff /\ wm' = wm /\ hist' = hist
    BY <1>2 DEF vars
  <2>2. TypeOK'
    BY <2>1, SameConf DEF IInv, TypeOK
  <2>3. Clock' /\ Ages' /\ Moves' /\ Ghosts' /\ Kicks'
    BY <2>1 DEF IInv, Clock, Ages, AgesOf, Moves, MovesOf, Ghosts, Kicks
  <2>4. DifferenceSpansItsSteps' /\ DifferenceIsUndisturbed'
    BY <2>1 DEF IInv, DifferenceSpansItsSteps, DifferenceIsUndisturbed, Continuous
  <2> QED BY <2>2, <2>3, <2>4 DEF IInv
<1> QED BY <1>1, <1>2

\* Everything that the eight handlers and the network may do keeps the invariant.
THEOREM BallMemoryInvariant == Spec => []IInv
<1>1. Init => IInv
  BY InitInv
<1>2. IInv /\ [Next]_vars => IInv'
  BY StepInv
<1> QED BY <1>1, <1>2, PTL DEF Spec

\* The counters of the ball stay in their range, but that of its relative position, whatever
\* is lost or comes in which order; and a velocity is taken over six steps at most.
THEOREM BallTypes == Spec => []TypeOK
<1>1. IInv => TypeOK
  BY DEF IInv
<1> QED BY <1>1, BallMemoryInvariant, PTL

\* A velocity over some steps is taken from two sights that are as many cycles apart
\* (estimateBallVelByPosDiff, localizeBall).
THEOREM DifferencesSpan == Spec => []DifferenceSpansItsSteps
<1>1. IInv => DifferenceSpansItsSteps
  BY DEF IInv
<1> QED BY <1>1, BallMemoryInvariant, PTL

\* No velocity uses a move that a collision, which was told with a valid face angle,
\* has made wrong; nor is one taken over a kick of the cycle before that the player could know of.
THEOREM DifferencesUndisturbed == Spec => []DifferenceIsUndisturbed
<1>1. IInv => DifferenceIsUndisturbed
  BY DEF IInv
<1> QED BY <1>1, BallMemoryInvariant, PTL

\* A ball that was missed twice is not believed in (setGhost, checkGhost).
THEOREM MissedForgotten == Spec => []MissedBallIsForgotten
<1>1. IInv => MissedBallIsForgotten
  BY ThresholdFacts DEF IInv, Ghosts, MissedBallIsForgotten
<1> QED BY <1>1, BallMemoryInvariant, PTL
=============================================================================
