----------------------------- MODULE RefereeProofs -----------------------------
(***************************************************************************)
(* Theorems about Referee, for every size of a team, order of kick takers  *)
(* and bound: type correctness, whose turn it is in a penalty shootout,    *)
(* the score that is counted, and the goalie's catch that every player     *)
(* learns of.                                                              *)
(***************************************************************************)
EXTENDS Referee, Counting, SequenceTheorems

\* How many messages of a sequence have a type and a side.
Is(m, type, side) == m.type = type /\ m.side = side
Count(s, type, side) == CountIn(s, {m \in Modes : Is(m, type, side)})

PlayModes == PlayTypes \cup {"BeforeKickOff"}
KickEnds == {"PenaltyMiss_", "PenaltyScore_"}
Theirs == Opposite(OurSide)

\* What a player q has counted and what is still on its way to it, the messages s, make
\* up what the referee r has announced; only an end of a kick is followed by the end of
\* the game.
Tracks(q, s, r) ==
  /\ q.pk.ours + Count(s, "PenaltySetup_", OurSide) = r.kicks[OurSide]
  /\ q.pk.ourScore + Count(s, "PenaltyScore_", OurSide) = r.goals[OurSide]
  /\ q.pk.theirScore + Count(s, "PenaltyScore_", Theirs) = r.goals[Theirs]
  /\ \A i \in 1..Len(s) : s[i].type = "PenaltyOnfield_" => s[i].side = r.onfield
  /\ q.pk.onfield = r.onfield \/ \E i \in 1..Len(s) : s[i].type = "PenaltyOnfield_"
  /\ \A i \in 1..Len(s) : s[i].type \in PenaltyTypes => s[i].side \in Sides
  /\ s # <<>> => s[Len(s)] = r.mode
  /\ r.mode.type \in PlayModes =>
       q.pk.kickSide = "NEUTRAL" /\ \A i \in 1..Len(s) : s[i].type \in PlayModes
  /\ \A i \in 1..Len(s) : s[i].type = "TimeOver" =>
       IF i = 1 THEN q.pk.kickSide = "NEUTRAL" ELSE s[i - 1].type \in KickEnds
  /\ s = <<>> =>
       q.pk.kickSide = IF q.pk.ours > 0 /\ r.mode.type \in KickTypes THEN r.mode.side
                       ELSE "NEUTRAL"

\* A side that kicks has been counted.
KickIsCounted ==
  ref.mode.type \in PenaltyTypes => ref.mode.side \in Sides /\ ref.kicks[ref.mode.side] > 0

\* The inductive invariant.
IInv ==
  /\ TypeOK
  /\ KickIsCounted
  /\ \A p \in Unums \ doubled : Tracks(pl[p], net[p], ref)

-----------------------------------------------------------------------------
(* Counting.                                                               *)

LEMMA CountIsNat ==
  ASSUME NEW s \in Seq(Modes), NEW type, NEW side
  PROVE  Count(s, type, side) \in Nat
BY CountInIsNat DEF Count

LEMMA CountEmpty ==
  ASSUME NEW type, NEW side
  PROVE  Count(<<>>, type, side) = 0
BY CountInEmpty DEF Count

LEMMA CountSent ==
  ASSUME NEW s \in Seq(Modes), NEW m \in Modes, NEW type, NEW side
  PROVE  Count(s \o <<m>>, type, side) = Count(s, type, side) + One(Is(m, type, side))
<1> DEFINE K == {x \in Modes : Is(x, type, side)}
<1>1. CountIn(s \o <<m>>, K) = CountIn(s, K) + One(m \in K)
  BY CountInSent
<1>2. One(m \in K) = One(Is(m, type, side))
  BY DEF One
<1> QED
  BY <1>1, <1>2 DEF Count

LEMMA CountHeard ==
  ASSUME NEW s \in Seq(Modes), s # <<>>, NEW type, NEW side
  PROVE  Count(s, type, side) = Count(Tail(s), type, side) + One(Is(Head(s), type, side))
<1> DEFINE K == {x \in Modes : Is(x, type, side)}
<1>1. CountIn(s, K) = CountIn(Tail(s), K) + One(Head(s) \in K)
  BY CountInHeard
<1>2. One(Head(s) \in K) = One(Is(Head(s), type, side))
  <2>1. Head(s) \in Modes
    OBVIOUS
  <2> QED
    BY <2>1 DEF One
<1> QED
  BY <1>1, <1>2 DEF Count

-----------------------------------------------------------------------------
(* The player.                                                             *)

PlayerStates == [gm : Modes, pk : PenaltyKickStates, intention : BOOLEAN, alive : BOOLEAN]

RefereeStates ==
  [mode : Modes, catch : BOOLEAN, time : 0..MaxCycle, announced : Nat,
   onfield : Sides \cup {"NEUTRAL"}, kicks : [Sides -> Nat], goals : [Sides -> Nat]]

LEMMA TheSides == OurSide \in Sides /\ Theirs \in Sides /\ \A s \in Sides : s # OurSide <=> s = Theirs
BY RefereeAssumption DEF Sides, Theirs, Opposite

\* The rule for catches concerns free kicks alone.
LEMMA UpdateModeKeeps ==
  ASSUME NEW last \in Modes, NEW m \in Modes
  PROVE  /\ UpdateMode(last, m) \in Modes
         /\ m.type \notin PlayTypes => UpdateMode(last, m) = m
         /\ m.type \in PlayTypes => UpdateMode(last, m).type \in PlayTypes
BY DEF UpdateMode, Modes, PlayTypes, Types

LEMMA UpdatePenaltyType ==
  ASSUME NEW k \in PenaltyKickStates, NEW m \in Modes
  PROVE  UpdatePenalty(k, m) \in PenaltyKickStates
<1>1. CountKick(k, m) \in PenaltyKickStates
  BY DEF CountKick, PenaltyKickStates
<1> DEFINE c == CountScore(CountKick(k, m), m)
<1>2. c \in PenaltyKickStates
  BY <1>1 DEF CountScore, PenaltyKickStates
<1>3. UpdatePenalty(k, m) =
        [c EXCEPT !.onfield = IF m.type = "PenaltyOnfield_" THEN m.side ELSE @,
                  !.kickSide = IF c.ours > 0 /\ m.type \in KickTypes THEN m.side
                               ELSE "NEUTRAL"]
  BY DEF UpdatePenalty
<1> HIDE DEF c
<1> QED
  BY <1>2, <1>3 DEF PenaltyKickStates, Modes

LEMMA HearType ==
  ASSUME NEW q \in PlayerStates, NEW m \in Modes
  PROVE  AnalyzeHearReferee(q, m) \in PlayerStates
<1>1. UpdateMode(q.gm, m) \in Modes
  BY UpdateModeKeeps DEF PlayerStates
<1> DEFINE g == UpdateMode(q.gm, m)
<1>2. UpdatePenalty(q.pk, g) \in PenaltyKickStates
  BY <1>1, UpdatePenaltyType DEF PlayerStates
<1>3. Resets(g) \in BOOLEAN
  BY DEF Resets
<1> HIDE DEF g
<1>4. AnalyzeHearReferee(q, m) =
        IF g.type = "TimeOver" THEN [q EXCEPT !.gm = g, !.alive = FALSE]
        ELSE [q EXCEPT !.gm = g,
                       !.pk = IF IsPenaltyKickMode(g) THEN UpdatePenalty(@, g) ELSE @,
                       !.intention = @ /\ ~Resets(g)]
  BY DEF AnalyzeHearReferee, g
<1>5. g \in Modes
  BY <1>1 DEF g
<1>6. (q.intention /\ ~Resets(g)) \in BOOLEAN
  OBVIOUS
<1> QED
  BY <1>2, <1>4, <1>5, <1>6 DEF PlayerStates

\* What a message of each class does to the counts.
LEMMA HearCounts ==
  ASSUME NEW q \in PlayerStates, NEW m \in Modes, m.type \in PenaltyTypes => m.side \in Sides
  PROVE  LET k == AnalyzeHearReferee(q, m).pk
         IN /\ m.type \notin PenaltyTypes => k = q.pk
            /\ k.ours = q.pk.ours + One(Is(m, "PenaltySetup_", OurSide))
            /\ k.ourScore = q.pk.ourScore + One(Is(m, "PenaltyScore_", OurSide))
            /\ k.theirScore = q.pk.theirScore + One(Is(m, "PenaltyScore_", Theirs))
            /\ k.onfield = IF m.type = "PenaltyOnfield_" THEN m.side ELSE q.pk.onfield
            /\ m.type \in PenaltyTypes =>
                 k.kickSide = IF k.ours > 0 /\ m.type \in KickTypes THEN m.side ELSE "NEUTRAL"
<1> DEFINE g == UpdateMode(q.gm, m)
<1>1. CASE m.type \in PenaltyTypes
  <2>1. g = m
    BY <1>1, UpdateModeKeeps DEF PlayerStates, PenaltyTypes, PlayTypes
  <2>2. AnalyzeHearReferee(q, m).pk = UpdatePenalty(q.pk, m)
    BY <1>1, <2>1 DEF AnalyzeHearReferee, PlayerStates, PenaltyTypes, IsPenaltyKickMode
  <2>3. m.side \in Sides /\ (m.side # OurSide <=> m.side = Theirs)
    BY <1>1, TheSides
  <2>4. q.pk \in PenaltyKickStates
    BY DEF PlayerStates
  <2> DEFINE c == CountScore(CountKick(q.pk, m), m)
  <2> DEFINE b == CountKick(q.pk, m)
  <2>7. /\ b \in PenaltyKickStates
        /\ b.ours = q.pk.ours + One(Is(m, "PenaltySetup_", OurSide))
        /\ b.ourScore = q.pk.ourScore /\ b.theirScore = q.pk.theirScore
        /\ b.onfield = q.pk.onfield
    BY <2>4 DEF CountKick, PenaltyKickStates, One, Is
  <2>8. c = CountScore(b, m)
    OBVIOUS
  <2> HIDE DEF b, c
  <2>5. /\ c \in PenaltyKickStates
        /\ c.ours = q.pk.ours + One(Is(m, "PenaltySetup_", OurSide))
        /\ c.ourScore = q.pk.ourScore + One(Is(m, "PenaltyScore_", OurSide))
        /\ c.theirScore = q.pk.theirScore + One(Is(m, "PenaltyScore_", Theirs))
        /\ c.onfield = q.pk.onfield
    BY <2>3, <2>7, <2>8 DEF CountScore, PenaltyKickStates, One, Is
  <2>6. UpdatePenalty(q.pk, m) =
          [c EXCEPT !.onfield = IF m.type = "PenaltyOnfield_" THEN m.side ELSE @,
                    !.kickSide = IF c.ours > 0 /\ m.type \in KickTypes THEN m.side
                                 ELSE "NEUTRAL"]
    BY DEF UpdatePenalty, c
  <2> QED
    BY <1>1, <2>2, <2>5, <2>6 DEF PenaltyKickStates
<1>2. CASE m.type \notin PenaltyTypes
  <2>1. ~IsPenaltyKickMode(g)
    BY <1>2, UpdateModeKeeps DEF PlayerStates, PenaltyTypes, PlayTypes, IsPenaltyKickMode
  <2>2. AnalyzeHearReferee(q, m).pk = q.pk
    BY <2>1 DEF AnalyzeHearReferee, PlayerStates
  <2>3. q.pk.ours \in Nat /\ q.pk.ourScore \in Nat /\ q.pk.theirScore \in Nat
    BY DEF PlayerStates, PenaltyKickStates
  <2> QED
    BY <1>2, <2>2, <2>3 DEF One, Is, PenaltyTypes
<1> QED
  BY <1>1, <1>2

\* Hearing the next message keeps the books in balance.
LEMMA HearTracks ==
  ASSUME NEW q \in PlayerStates, NEW s \in Seq(Modes), NEW r \in RefereeStates,
         s # <<>>, Tracks(q, s, r)
  PROVE  Tracks(AnalyzeHearReferee(q, Head(s)), Tail(s), r)
<1> DEFINE m == Head(s)
           t == Tail(s)
           k == AnalyzeHearReferee(q, m).pk
<1>1. /\ m \in Modes /\ t \in Seq(Modes) /\ m = s[1]
      /\ Len(s) \in Nat /\ Len(s) > 0 /\ Len(t) = Len(s) - 1
      /\ \A i \in 1..Len(t) : t[i] = s[i + 1] /\ i + 1 \in 1..Len(s)
      /\ t # <<>> => Len(t) > 0
      /\ t = <<>> => Len(s) = 1
  <2>1. /\ m \in Modes /\ t \in Seq(Modes) /\ m = s[1]
        /\ Len(s) \in Nat /\ Len(s) > 0 /\ Len(t) = Len(s) - 1
        /\ \A i \in 1..Len(t) : t[i] = s[i + 1]
    OBVIOUS
  <2> HIDE DEF t
  <2> QED
    BY <2>1
<1>2. m.type \in PenaltyTypes => m.side \in Sides
  BY <1>1 DEF Tracks
<1>3. /\ m.type \notin PenaltyTypes => k = q.pk
      /\ k.ours = q.pk.ours + One(Is(m, "PenaltySetup_", OurSide))
      /\ k.ourScore = q.pk.ourScore + One(Is(m, "PenaltyScore_", OurSide))
      /\ k.theirScore = q.pk.theirScore + One(Is(m, "PenaltyScore_", Theirs))
      /\ k.onfield = IF m.type = "PenaltyOnfield_" THEN m.side ELSE q.pk.onfield
      /\ m.type \in PenaltyTypes =>
           k.kickSide = IF k.ours > 0 /\ m.type \in KickTypes THEN m.side ELSE "NEUTRAL"
  BY <1>1, <1>2, HearCounts, Zenon
<1>4. \A type, side : /\ Count(s, type, side) = Count(t, type, side) + One(Is(m, type, side))
                      /\ Count(t, type, side) \in Nat
  BY <1>1, CountHeard, CountIsNat
<1>5. q.pk.ours \in Nat /\ q.pk.ourScore \in Nat /\ q.pk.theirScore \in Nat
  BY DEF PlayerStates, PenaltyKickStates
<1>6. \A type, side : One(Is(m, type, side)) \in Nat
  BY DEF One
<1> HIDE DEF m, t, k
<1>7. /\ k.ours + Count(t, "PenaltySetup_", OurSide) = r.kicks[OurSide]
      /\ k.ourScore + Count(t, "PenaltyScore_", OurSide) = r.goals[OurSide]
      /\ k.theirScore + Count(t, "PenaltyScore_", Theirs) = r.goals[Theirs]
  <2>2. /\ q.pk.ours + Count(s, "PenaltySetup_", OurSide) = r.kicks[OurSide]
        /\ q.pk.ourScore + Count(s, "PenaltyScore_", OurSide) = r.goals[OurSide]
        /\ q.pk.theirScore + Count(s, "PenaltyScore_", Theirs) = r.goals[Theirs]
    BY DEF Tracks
  <2> HIDE DEF Tracks
  <2>3. k.ours + Count(t, "PenaltySetup_", OurSide) = r.kicks[OurSide]
    <3> DEFINE o == One(Is(m, "PenaltySetup_", OurSide))
               n == Count(t, "PenaltySetup_", OurSide)
    <3>1. /\ o \in Nat /\ n \in Nat /\ k.ours = q.pk.ours + o
          /\ Count(s, "PenaltySetup_", OurSide) = n + o
      BY <1>3, <1>4, <1>6
    <3> HIDE DEF o, n
    <3>2. k.ours + n = r.kicks[OurSide]
      BY <1>5, <2>2, <3>1
    <3> QED
      BY <3>2 DEF n
  <2>4. k.ourScore + Count(t, "PenaltyScore_", OurSide) = r.goals[OurSide]
    <3> DEFINE o == One(Is(m, "PenaltyScore_", OurSide))
               n == Count(t, "PenaltyScore_", OurSide)
    <3>1. /\ o \in Nat /\ n \in Nat /\ k.ourScore = q.pk.ourScore + o
          /\ Count(s, "PenaltyScore_", OurSide) = n + o
      BY <1>3, <1>4, <1>6
    <3> HIDE DEF o, n
    <3>2. k.ourScore + n = r.goals[OurSide]
      BY <1>5, <2>2, <3>1
    <3> QED
      BY <3>2 DEF n
  <2>5. k.theirScore + Count(t, "PenaltyScore_", Theirs) = r.goals[Theirs]
    <3> DEFINE o == One(Is(m, "PenaltyScore_", Theirs))
               n == Count(t, "PenaltyScore_", Theirs)
    <3>1. /\ o \in Nat /\ n \in Nat /\ k.theirScore = q.pk.theirScore + o
          /\ Count(s, "PenaltyScore_", Theirs) = n + o
      BY <1>3, <1>4, <1>6
    <3> HIDE DEF o, n
    <3>2. k.theirScore + n = r.goals[Theirs]
      BY <1>5, <2>2, <3>1
    <3> QED
      BY <3>2 DEF n
  <2> QED
    BY <2>3, <2>4, <2>5
<1>8. \A i \in 1..Len(t) : t[i].type = "PenaltyOnfield_" => t[i].side = r.onfield
  BY <1>1 DEF Tracks
<1>9. k.onfield = r.onfield \/ \E i \in 1..Len(t) : t[i].type = "PenaltyOnfield_"
  <2>1. CASE m.type = "PenaltyOnfield_"
    BY <1>1, <1>3, <2>1 DEF Tracks
  <2>2. CASE m.type # "PenaltyOnfield_" /\ q.pk.onfield = r.onfield
    BY <1>3, <2>2
  <2>3. CASE m.type # "PenaltyOnfield_" /\ \E i \in 1..Len(s) : s[i].type = "PenaltyOnfield_"
    <3>1. PICK i \in 1..Len(s) : s[i].type = "PenaltyOnfield_"
      BY <2>3
    <3>2. i - 1 \in 1..Len(t) /\ t[i - 1] = s[i]
      BY <1>1, <2>3, <3>1
    <3> QED
      BY <3>1, <3>2
  <2> QED
    BY <2>1, <2>2, <2>3 DEF Tracks
<1>10. \A i \in 1..Len(t) : t[i].type \in PenaltyTypes => t[i].side \in Sides
  BY <1>1 DEF Tracks
<1>11. t # <<>> => t[Len(t)] = r.mode
  BY <1>1 DEF Tracks
<1>12. r.mode.type \in PlayModes =>
         k.kickSide = "NEUTRAL" /\ \A i \in 1..Len(t) : t[i].type \in PlayModes
  <2> SUFFICES ASSUME r.mode.type \in PlayModes
               PROVE  k.kickSide = "NEUTRAL" /\ \A i \in 1..Len(t) : t[i].type \in PlayModes
    OBVIOUS
  <2>1. m.type \in PlayModes /\ q.pk.kickSide = "NEUTRAL"
    BY <1>1 DEF Tracks
  <2>2. k = q.pk
    BY <1>3, <2>1 DEF PlayModes, PlayTypes, PenaltyTypes
  <2> QED
    BY <1>1, <2>1, <2>2 DEF Tracks
<1>13. m.type \in KickEnds => k.kickSide = "NEUTRAL"
  BY <1>3 DEF KickEnds, KickTypes, PenaltyTypes
<1>14. \A i \in 1..Len(t) : t[i].type = "TimeOver" =>
         IF i = 1 THEN k.kickSide = "NEUTRAL" ELSE t[i - 1].type \in KickEnds
  <2> SUFFICES ASSUME NEW i \in 1..Len(t), t[i].type = "TimeOver"
               PROVE  IF i = 1 THEN k.kickSide = "NEUTRAL" ELSE t[i - 1].type \in KickEnds
    OBVIOUS
  <2>1. i + 1 \in 1..Len(s) /\ s[i + 1].type = "TimeOver" /\ i + 1 # 1 /\ (i + 1) - 1 = i
    BY <1>1
  <2>2. s[i].type \in KickEnds
    BY <2>1 DEF Tracks
  <2>3. CASE i = 1
    BY <1>1, <1>13, <2>2, <2>3
  <2>4. CASE i # 1
    <3>1. i - 1 \in 1..Len(t) /\ t[i - 1] = s[i]
      BY <1>1, <2>4
    <3> QED
      BY <2>2, <2>4, <3>1
  <2> QED
    BY <2>3, <2>4
<1>15. t = <<>> =>
         k.kickSide = IF k.ours > 0 /\ r.mode.type \in KickTypes THEN r.mode.side
                      ELSE "NEUTRAL"
  <2> SUFFICES ASSUME t = <<>>
               PROVE  k.kickSide = IF k.ours > 0 /\ r.mode.type \in KickTypes THEN r.mode.side
                                   ELSE "NEUTRAL"
    OBVIOUS
  <2>1. m = r.mode
    BY <1>1 DEF Tracks
  <2>2. CASE m.type \in PenaltyTypes
    BY <1>3, <2>1, <2>2
  <2>3. CASE m.type \in PlayModes
    <3>1. r.mode.type \notin KickTypes
      BY <2>1, <2>3 DEF PlayModes, PlayTypes, KickTypes
    <3> QED
      BY <1>12, <2>1, <2>3, <3>1
  <2>4. CASE m.type = "TimeOver"
    <3>2. 1 \in 1..Len(s) /\ s[1].type = "TimeOver"
      BY <1>1, <2>4
    <3>3. q.pk.kickSide = "NEUTRAL"
      BY <3>2 DEF Tracks
    <3>1. q.pk.kickSide = "NEUTRAL" /\ k = q.pk /\ r.mode.type \notin KickTypes
      BY <1>3, <2>1, <2>4, <3>3 DEF PenaltyTypes, KickTypes
    <3> QED
      BY <3>1
  <2> QED
    BY <1>1, <2>2, <2>3, <2>4 DEF Modes, Types, PlayModes
<1> QED
  BY <1>7, <1>8, <1>9, <1>10, <1>11, <1>12, <1>14, <1>15 DEF Tracks, k, m, t

-----------------------------------------------------------------------------
(* The referee.                                                            *)

\* What an announcement m does to the state of the referee, r before and z after.
Announces(r, m, z) ==
  /\ z.mode = m
  /\ z.kicks[OurSide] = r.kicks[OurSide] + One(Is(m, "PenaltySetup_", OurSide))
  /\ z.goals[OurSide] = r.goals[OurSide] + One(Is(m, "PenaltyScore_", OurSide))
  /\ z.goals[Theirs] = r.goals[Theirs] + One(Is(m, "PenaltyScore_", Theirs))
  /\ IF m.type = "PenaltyOnfield_" THEN z.onfield = m.side /\ r.mode.type \in PlayModes
     ELSE z.onfield = r.onfield
  /\ m.type \in PenaltyTypes => m.side \in Sides
  /\ m.type \in PlayModes => r.mode.type \in PlayModes
  /\ m.type = "TimeOver" => r.mode.type \in KickEnds

\* An announcement that is sent keeps the books in balance.
LEMMA SentTracks ==
  ASSUME NEW q \in PlayerStates, NEW s \in Seq(Modes), NEW m \in Modes,
         NEW r \in RefereeStates, NEW z \in RefereeStates,
         Tracks(q, s, r), Announces(r, m, z)
  PROVE  Tracks(q, s \o <<m>>, z)
<1> DEFINE t == s \o <<m>>
           n == Len(s)
<1>1. /\ t \in Seq(Modes) /\ n \in Nat /\ Len(t) = n + 1 /\ t # <<>>
      /\ t[n + 1] = m /\ \A i \in 1..n : t[i] = s[i]
  OBVIOUS
<1>2. \A i \in 1..Len(t) : (i \in 1..n /\ t[i] = s[i]) \/ (i = n + 1 /\ t[i] = m)
  <2> HIDE DEF t, n
  <2> QED
    BY <1>1
<1>3. \A type, side : /\ Count(t, type, side) = Count(s, type, side) + One(Is(m, type, side))
                      /\ Count(s, type, side) \in Nat
  BY CountSent, CountIsNat
<1>4. \A type, side : One(Is(m, type, side)) \in Nat
  BY DEF One
<1>5. q.pk.ours \in Nat /\ q.pk.ourScore \in Nat /\ q.pk.theirScore \in Nat
  BY DEF PlayerStates, PenaltyKickStates
<1> HIDE DEF t
<1>6. q.pk.ours + Count(t, "PenaltySetup_", OurSide) = z.kicks[OurSide]
  <2> DEFINE o == One(Is(m, "PenaltySetup_", OurSide))
             c == Count(s, "PenaltySetup_", OurSide)
  <2>1. o \in Nat /\ c \in Nat /\ Count(t, "PenaltySetup_", OurSide) = c + o
    BY <1>3, <1>4
  <2>2. q.pk.ours + c = r.kicks[OurSide] /\ z.kicks[OurSide] = r.kicks[OurSide] + o
    BY DEF Tracks, Announces
  <2> HIDE DEF o, c
  <2> QED
    BY <1>5, <2>1, <2>2
<1>7. q.pk.ourScore + Count(t, "PenaltyScore_", OurSide) = z.goals[OurSide]
  <2> DEFINE o == One(Is(m, "PenaltyScore_", OurSide))
             c == Count(s, "PenaltyScore_", OurSide)
  <2>1. o \in Nat /\ c \in Nat /\ Count(t, "PenaltyScore_", OurSide) = c + o
    BY <1>3, <1>4
  <2>2. q.pk.ourScore + c = r.goals[OurSide] /\ z.goals[OurSide] = r.goals[OurSide] + o
    BY DEF Tracks, Announces
  <2> HIDE DEF o, c
  <2> QED
    BY <1>5, <2>1, <2>2
<1>8. q.pk.theirScore + Count(t, "PenaltyScore_", Theirs) = z.goals[Theirs]
  <2> DEFINE o == One(Is(m, "PenaltyScore_", Theirs))
             c == Count(s, "PenaltyScore_", Theirs)
  <2>1. o \in Nat /\ c \in Nat /\ Count(t, "PenaltyScore_", Theirs) = c + o
    BY <1>3, <1>4
  <2>2. q.pk.theirScore + c = r.goals[Theirs] /\ z.goals[Theirs] = r.goals[Theirs] + o
    BY DEF Tracks, Announces
  <2> HIDE DEF o, c
  <2> QED
    BY <1>5, <2>1, <2>2
<1>9. \A i \in 1..Len(t) : t[i].type = "PenaltyOnfield_" => t[i].side = z.onfield
  <2>1. CASE m.type = "PenaltyOnfield_"
    <3>1. \A i \in 1..n : s[i].type \in PlayModes
      BY <2>1 DEF Tracks, Announces
    <3> QED
      BY <1>2, <2>1, <3>1 DEF Announces, PlayModes, PlayTypes
  <2>2. CASE m.type # "PenaltyOnfield_"
    BY <1>2, <2>2 DEF Tracks, Announces
  <2> QED
    BY <2>1, <2>2
<1>10. q.pk.onfield = z.onfield \/ \E i \in 1..Len(t) : t[i].type = "PenaltyOnfield_"
  <2>1. CASE m.type = "PenaltyOnfield_"
    BY <1>1, <2>1
  <2>2. CASE m.type # "PenaltyOnfield_"
    BY <1>1, <2>2 DEF Tracks, Announces
  <2> QED
    BY <2>1, <2>2
<1>11. \A i \in 1..Len(t) : t[i].type \in PenaltyTypes => t[i].side \in Sides
  BY <1>2 DEF Tracks, Announces
<1>12. t # <<>> => t[Len(t)] = z.mode
  BY <1>1 DEF Announces
<1>13. z.mode.type \in PlayModes =>
         q.pk.kickSide = "NEUTRAL" /\ \A i \in 1..Len(t) : t[i].type \in PlayModes
  BY <1>2 DEF Tracks, Announces
<1>14. \A i \in 1..Len(t) : t[i].type = "TimeOver" =>
         IF i = 1 THEN q.pk.kickSide = "NEUTRAL" ELSE t[i - 1].type \in KickEnds
  <2> SUFFICES ASSUME NEW i \in 1..Len(t), t[i].type = "TimeOver"
               PROVE  IF i = 1 THEN q.pk.kickSide = "NEUTRAL" ELSE t[i - 1].type \in KickEnds
    OBVIOUS
  <2>1. CASE i \in 1..n
    <3>1. s[i].type = "TimeOver"
      BY <1>1, <2>1
    <3>2. i # 1 => i - 1 \in 1..n /\ t[i - 1] = s[i - 1]
      BY <1>1, <2>1
    <3> QED
      BY <2>1, <3>1, <3>2 DEF Tracks
  <2>2. CASE i = n + 1
    <3>1. r.mode.type \in KickEnds
      BY <1>1, <2>2 DEF Announces
    <3>2. CASE n = 0
      <4>1. s = <<>>
        BY <3>2
      <4> QED
        BY <2>2, <3>1, <3>2, <4>1 DEF Tracks, KickEnds, KickTypes
    <3>3. CASE n # 0
      <4>1. n \in 1..n /\ t[n] = s[n] /\ s # <<>> /\ i - 1 = n /\ i # 1
        BY <1>1, <2>2, <3>3
      <4>2. s[n] = r.mode
        BY <4>1 DEF Tracks
      <4> QED
        BY <3>1, <4>1, <4>2
    <3> QED
      BY <3>2, <3>3
  <2> QED
    BY <1>2, <2>1, <2>2
<1> QED
  BY <1>1, <1>6, <1>7, <1>8, <1>9, <1>10, <1>11, <1>12, <1>13, <1>14 DEF Tracks, t

\* What is sent arrives, once or twice.
LEMMA SendKeeps ==
  ASSUME TypeOK, NEW ms \in Seq(Modes), Send(ms)
  PROVE  /\ net' \in [Unums -> Seq(Modes)]
         /\ doubled' \subseteq Unums
         /\ doubled \subseteq doubled'
         /\ \A p \in Unums \ doubled' : net'[p] = net[p] \o ms
         /\ pl' = pl
<1>1. net \in [Unums -> Seq(Modes)] /\ doubled \subseteq Unums
  BY DEF TypeOK
<1>2. pl' = pl
  BY DEF Send
<1>3. PICK f \in [Unums -> Seq(Modes)] :
        /\ net' = [p \in Unums |-> net[p] \o f[p]]
        /\ doubled' \subseteq Unums /\ doubled \subseteq doubled'
        /\ \A p \in Unums \ doubled' : f[p] = ms
        /\ \A p \in Unums : f[p] = ms \/ f[p] = ms \o ms
  <2>1. CASE net' = [p \in Unums |-> net[p] \o ms] /\ UNCHANGED doubled
    <3> DEFINE f == [p \in Unums |-> ms]
    <3>1. f \in [Unums -> Seq(Modes)] /\ \A p \in Unums : f[p] = ms
      OBVIOUS
    <3>2. net' = [p \in Unums |-> net[p] \o f[p]]
      BY <2>1
    <3> HIDE DEF f
    <3> QED
      BY <1>1, <2>1, <3>1, <3>2
  <2>2. CASE \E q \in Echoes \ doubled :
               /\ net' = [p \in Unums |-> net[p] \o (IF p = q THEN ms \o ms ELSE ms)]
               /\ doubled' = doubled \cup {q}
    <3>1. PICK q \in Echoes \ doubled :
            /\ net' = [p \in Unums |-> net[p] \o (IF p = q THEN ms \o ms ELSE ms)]
            /\ doubled' = doubled \cup {q}
      BY <2>2
    <3>2. q \in Unums
      BY RefereeAssumption
    <3>3. ms \o ms \in Seq(Modes)
      OBVIOUS
    <3> DEFINE f == [p \in Unums |-> IF p = q THEN ms \o ms ELSE ms]
    <3>4. f \in [Unums -> Seq(Modes)] /\ \A p \in Unums : f[p] = IF p = q THEN ms \o ms ELSE ms
      BY <3>3
    <3>5. net' = [p \in Unums |-> net[p] \o f[p]]
      BY <3>1
    <3> HIDE DEF f
    <3> QED
      BY <1>1, <3>1, <3>2, <3>4, <3>5
  <2> QED
    BY <2>1, <2>2 DEF Send
<1>4. /\ net' \in [Unums -> Seq(Modes)]
      /\ \A p \in Unums \ doubled' : net'[p] = net[p] \o ms
  <2>1. \A p \in Unums : net[p] \o f[p] \in Seq(Modes)
    BY <1>1
  <2> QED
    BY <1>3, <2>1
<1> QED
  BY <1>1, <1>2, <1>3, <1>4

\* Two messages that are sent at once arrive as if they were sent one after the other.
LEMMA TwoAtOnce ==
  ASSUME NEW s \in Seq(Modes), NEW l \in Modes, NEW m \in Modes
  PROVE  (s \o <<l>>) \o <<m>> = s \o <<l, m>>
<1> DEFINE u == (s \o <<l>>) \o <<m>>
           v == s \o <<l, m>>
           n == Len(s)
<1>1. /\ u \in Seq(Modes) /\ n \in Nat /\ Len(u) = n + 2
      /\ (\A i \in 1..n : u[i] = s[i]) /\ u[n + 1] = l /\ u[n + 2] = m
  <2> DEFINE t == s \o <<l>>
  <2>1. /\ t \in Seq(Modes) /\ n \in Nat /\ Len(t) = n + 1
        /\ (\A i \in 1..n : t[i] = s[i]) /\ t[n + 1] = l
    OBVIOUS
  <2> HIDE DEF t, n
  <2>2. /\ t \o <<m>> \in Seq(Modes) /\ Len(t \o <<m>>) = n + 2
        /\ (\A i \in 1..(n + 1) : (t \o <<m>>)[i] = t[i]) /\ (t \o <<m>>)[n + 2] = m
    BY <2>1
  <2> QED
    BY <2>1, <2>2 DEF t
<1>2. /\ v \in Seq(Modes) /\ Len(v) = n + 2
      /\ (\A i \in 1..n : v[i] = s[i]) /\ v[n + 1] = l /\ v[n + 2] = m
  OBVIOUS
<1> HIDE DEF u, v, n
<1>3. \A i \in 1..Len(u) : u[i] = v[i]
  BY <1>1, <1>2
<1>4. u = v
  BY <1>1, <1>2, <1>3, SeqEqual, Zenon
<1> QED
  BY <1>4 DEF u, v

\* One announcement, and two at once.
LEMMA SendOne ==
  ASSUME IInv, NEW m \in Modes, Send(<<m>>),
         ref' \in RefereeStates, Announces(ref, m, ref'), KickIsCounted'
  PROVE  IInv'
<1>1. /\ TypeOK /\ ref \in RefereeStates /\ pl \in [Unums -> PlayerStates]
      /\ net \in [Unums -> Seq(Modes)]
  BY DEF IInv, TypeOK, RefereeStates, PlayerStates
<1>2. <<m>> \in Seq(Modes)
  OBVIOUS
<1>3. /\ net' \in [Unums -> Seq(Modes)]
      /\ doubled' \subseteq Unums
      /\ doubled \subseteq doubled'
      /\ \A p \in Unums \ doubled' : net'[p] = net[p] \o <<m>>
      /\ pl' = pl
  BY <1>1, <1>2, SendKeeps
<1>4. TypeOK'
  BY <1>1, <1>3 DEF TypeOK, RefereeStates, PlayerStates
<1>5. ASSUME NEW p \in Unums \ doubled' PROVE Tracks(pl'[p], net'[p], ref')
  <2>1. Tracks(pl[p], net[p], ref) /\ pl[p] \in PlayerStates /\ net[p] \in Seq(Modes)
    BY <1>1, <1>3 DEF IInv
  <2>2. Tracks(pl[p], net[p] \o <<m>>, ref')
    BY <1>1, <2>1, SentTracks
  <2> QED
    BY <1>3, <2>2
<1> QED
  BY <1>3, <1>4, <1>5 DEF IInv

LEMMA SendTwo ==
  ASSUME IInv, NEW l \in Modes, NEW m \in Modes, Send(<<l, m>>), NEW r \in RefereeStates,
         ref' \in RefereeStates, Announces(ref, l, r), Announces(r, m, ref'), KickIsCounted'
  PROVE  IInv'
<1>1. /\ TypeOK /\ ref \in RefereeStates /\ pl \in [Unums -> PlayerStates]
      /\ net \in [Unums -> Seq(Modes)]
  BY DEF IInv, TypeOK, RefereeStates, PlayerStates
<1>2. <<l, m>> \in Seq(Modes)
  OBVIOUS
<1>3. /\ net' \in [Unums -> Seq(Modes)]
      /\ doubled' \subseteq Unums
      /\ doubled \subseteq doubled'
      /\ \A p \in Unums \ doubled' : net'[p] = net[p] \o <<l, m>>
      /\ pl' = pl
  BY <1>1, <1>2, SendKeeps
<1>4. TypeOK'
  BY <1>1, <1>3 DEF TypeOK, RefereeStates, PlayerStates
<1>5. ASSUME NEW p \in Unums \ doubled' PROVE Tracks(pl'[p], net'[p], ref')
  <2> DEFINE s == net[p]
  <2>1. Tracks(pl[p], s, ref) /\ pl[p] \in PlayerStates /\ s \in Seq(Modes)
    BY <1>1, <1>3 DEF IInv
  <2> HIDE DEF s
  <2>2. Tracks(pl[p], s \o <<l>>, r)
    BY <1>1, <2>1, SentTracks
  <2>3. s \o <<l>> \in Seq(Modes)
    BY <2>1
  <2>4. Tracks(pl[p], (s \o <<l>>) \o <<m>>, ref')
    BY <2>1, <2>2, <2>3, SentTracks
  <2>5. (s \o <<l>>) \o <<m>> = s \o <<l, m>>
    BY <2>1, TwoAtOnce
  <2> QED
    BY <1>3, <2>4, <2>5 DEF s
<1> QED
  BY <1>3, <1>4, <1>5 DEF IInv

-----------------------------------------------------------------------------
(* The invariant.                                                          *)

LEMMA InitHolds == Init => IInv
<1> SUFFICES ASSUME Init PROVE IInv
  OBVIOUS
<1>1. TypeOK
  <2>1. Mode("BeforeKickOff", "NEUTRAL", 0) \in Modes
    BY RefereeAssumption DEF Mode, Modes, Types
  <2>2. NewPenaltyKickState \in PenaltyKickStates
    BY DEF NewPenaltyKickState, PenaltyKickStates
  <2>3. NewPlayer \in [gm : Modes, pk : PenaltyKickStates, intention : BOOLEAN, alive : BOOLEAN]
    BY <2>1, <2>2 DEF NewPlayer
  <2>4. 0 \in 0..MaxCycle
    BY RefereeAssumption
  <2> QED
    BY <2>1, <2>3, <2>4 DEF Init, TypeOK
<1>2. KickIsCounted
  BY DEF Init, KickIsCounted, Mode, PenaltyTypes
<1>3. ASSUME NEW p \in Unums PROVE Tracks(pl[p], net[p], ref)
  <2>1. /\ net[p] = <<>> /\ pl[p].pk = NewPenaltyKickState
        /\ ref.onfield = "NEUTRAL" /\ ref.mode.type = "BeforeKickOff"
        /\ \A s \in Sides : ref.kicks[s] = 0 /\ ref.goals[s] = 0
    BY DEF Init, NewPlayer, Mode
  <2>2. \A type, side : Count(net[p], type, side) = 0
    BY <2>1, CountEmpty
  <2>3. Len(net[p]) = 0
    BY <2>1
  <2> QED
    BY <2>1, <2>2, <2>3, TheSides DEF Tracks, NewPenaltyKickState
<1> QED
  BY <1>1, <1>2, <1>3 DEF IInv

\* The modes that the referee announces are modes.
LEMMA ModesOfNow ==
  ASSUME ref \in RefereeStates, NEW type \in Types, NEW side \in Sides \cup {"NEUTRAL"}
  PROVE  Mode(type, side, ref.time) \in Modes
BY DEF Mode, Modes, RefereeStates

LEMMA AnnouncedType ==
  ASSUME ref \in RefereeStates, NEW m \in Modes
  PROVE  /\ Announced(m) \in RefereeStates
         /\ Announced(m).mode = m /\ Announced(m).time = ref.time
         /\ Announced(m).kicks = ref.kicks /\ Announced(m).goals = ref.goals
         /\ Announced(m).onfield = ref.onfield
BY DEF Announced, RefereeStates

\* In play nothing is counted.
LEMMA PlayAnnounces ==
  ASSUME NEW r \in RefereeStates, NEW z \in RefereeStates, NEW m \in Modes,
         r.mode.type \in PlayModes, m.type \in PlayTypes, z.mode = m,
         z.kicks = r.kicks, z.goals = r.goals, z.onfield = r.onfield
  PROVE  Announces(r, m, z)
<1>1. m.type \notin PenaltyTypes /\ m.type # "TimeOver"
  BY DEF PlayTypes, PenaltyTypes
<1>2. \A type \in PenaltyTypes : \A side : One(Is(m, type, side)) = 0
  BY <1>1 DEF One, Is
<1>3. \A s \in Sides : r.kicks[s] \in Nat /\ r.goals[s] \in Nat
  BY DEF RefereeStates
<1> QED
  BY <1>1, <1>2, <1>3, TheSides DEF Announces, PenaltyTypes

LEMMA RefereeKeeps ==
  ASSUME IInv, NextCycle \/ AnnouncePlay \/ AnnounceCatch
  PROVE  IInv'
<1>1. ref \in RefereeStates /\ TypeOK /\ KickIsCounted
  BY DEF IInv, TypeOK, RefereeStates
<1>2. CASE NextCycle
  <2>0. ref.time + 1 \in 0..MaxCycle
    BY <1>1, <1>2, RefereeAssumption DEF NextCycle, RefereeStates
  <2>4. ref' \in RefereeStates
    BY <1>1, <1>2, <2>0 DEF NextCycle, RefereeStates
  <2>1. TypeOK'
    BY <1>1, <1>2, <2>4 DEF NextCycle, TypeOK, RefereeStates
  <2>2. KickIsCounted'
    BY <1>1, <1>2 DEF NextCycle, KickIsCounted, RefereeStates
  <2>3. \A p \in Unums \ doubled : Tracks(pl[p], net[p], ref')
    BY <1>1, <1>2 DEF NextCycle, IInv, Tracks, RefereeStates
  <2> QED
    BY <1>2, <2>1, <2>2, <2>3 DEF NextCycle, IInv
<1>3. CASE AnnouncePlay
  <2>1. PICK m \in {Mode("PlayOn", "NEUTRAL", ref.time)}
                     \cup {Mode("FreeKick_", s, ref.time) : s \in Sides} :
          Send(<<m>>) /\ ref' = [Announced(m) EXCEPT !.announced = @ + 1]
    BY <1>3 DEF AnnouncePlay
  <2>2. m \in Modes /\ m.type \in PlayTypes
    BY <1>1, ModesOfNow DEF Mode, Types, PlayTypes
  <2>3. ref' \in RefereeStates /\ Announces(ref, m, ref')
    <3>0. Announced(m) \in RefereeStates
      BY <1>1, <2>2, AnnouncedType
    <3>1. /\ ref' \in RefereeStates /\ ref'.mode = m
          /\ ref'.kicks = ref.kicks /\ ref'.goals = ref.goals /\ ref'.onfield = ref.onfield
      BY <1>1, <2>1, <2>2, <3>0, AnnouncedType DEF RefereeStates
    <3>3. ref.mode.type \in PlayModes
      BY <1>3 DEF AnnouncePlay, InPlay, PlayModes
    <3> QED
      BY <1>1, <2>2, <3>1, <3>3, PlayAnnounces
  <2>4. KickIsCounted'
    BY <1>1, <2>1, <2>2 DEF KickIsCounted, Announced, RefereeStates, PlayTypes, PenaltyTypes
  <2> QED
    BY <2>1, <2>2, <2>3, <2>4, SendOne
<1>4. CASE AnnounceCatch
  <2>1. PICK s \in Sides :
          LET free == Mode("FreeKick_", s, ref.time)
          IN /\ Send(<<Mode("GoalieCatch_", s, ref.time), free>>)
             /\ ref' = [Announced(free) EXCEPT !.announced = @ + 1, !.catch = TRUE]
    BY <1>4 DEF AnnounceCatch
  <2> DEFINE l == Mode("GoalieCatch_", s, ref.time)
             m == Mode("FreeKick_", s, ref.time)
             r == [ref EXCEPT !.mode = l]
  <2>2. /\ l \in Modes /\ m \in Modes /\ l.type = "GoalieCatch_" /\ m.type = "FreeKick_"
    BY <1>1, ModesOfNow DEF Mode, Types, PlayTypes
  <2>3. /\ Send(<<l, m>>)
        /\ ref' = [Announced(m) EXCEPT !.announced = @ + 1, !.catch = TRUE]
    BY <2>1
  <2>6. ref.mode.type = "PlayOn"
    BY <1>4 DEF AnnounceCatch
  <2>7. r = [ref EXCEPT !.mode = l]
    OBVIOUS
  <2> DEFINE z == [Announced(m) EXCEPT !.announced = @ + 1]
  <2>8. ref' = [z EXCEPT !.catch = TRUE] /\ z = [Announced(m) EXCEPT !.announced = @ + 1]
    BY <2>3
  <2> HIDE DEF l, m, r, z
  <2>4. /\ r \in RefereeStates /\ ref' \in RefereeStates
        /\ Announces(ref, l, r) /\ Announces(r, m, ref')
    <3>1. /\ r \in RefereeStates /\ r.mode = l
          /\ r.kicks = ref.kicks /\ r.goals = ref.goals /\ r.onfield = ref.onfield
      BY <1>1, <2>2, <2>7 DEF RefereeStates
    <3>2. Announced(m) \in RefereeStates
      BY <1>1, <2>2, AnnouncedType
    <3>6. /\ z \in RefereeStates /\ z.mode = m
          /\ z.kicks = ref.kicks /\ z.goals = ref.goals /\ z.onfield = ref.onfield
      BY <1>1, <2>2, <2>8, <3>2, AnnouncedType DEF RefereeStates
    <3>3. /\ ref' \in RefereeStates /\ ref'.mode = m
          /\ ref'.kicks = ref.kicks /\ ref'.goals = ref.goals /\ ref'.onfield = ref.onfield
      BY <2>8, <3>6 DEF RefereeStates
    <3>4. l.type \in PlayTypes /\ m.type \in PlayTypes
      BY <2>2 DEF PlayTypes
    <3>5. ref.mode.type \in PlayModes /\ r.mode.type \in PlayModes
      BY <2>6, <3>1, <3>4 DEF PlayModes, PlayTypes
    <3> QED
      BY <1>1, <2>2, <3>1, <3>3, <3>4, <3>5, PlayAnnounces
  <2>5. KickIsCounted'
    BY <1>1, <2>2, <2>3 DEF KickIsCounted, Announced, RefereeStates, PenaltyTypes
  <2> QED
    BY <2>2, <2>3, <2>4, <2>5, SendTwo
<1> QED
  BY <1>2, <1>3, <1>4

\* In a shootout a setup counts a kick, a goal is counted, and nothing else is.
LEMMA SetupAnnounces ==
  ASSUME NEW r \in RefereeStates, NEW z \in RefereeStates, NEW m \in Modes,
         NEW s \in Sides, m.type = "PenaltySetup_", m.side = s, z.mode = m,
         z.kicks = [r.kicks EXCEPT ![s] = @ + 1], z.goals = r.goals,
         z.onfield = r.onfield
  PROVE  Announces(r, m, z)
<1>1. r.kicks \in [Sides -> Nat] /\ \A p \in Sides : r.goals[p] \in Nat
  BY DEF RefereeStates
<1>2. z.kicks[OurSide] = r.kicks[OurSide] + One(Is(m, "PenaltySetup_", OurSide))
  <2>1. CASE s = OurSide
    BY <1>1, <2>1, TheSides DEF One, Is
  <2>2. CASE s # OurSide
    BY <1>1, <2>2, TheSides DEF One, Is
  <2> QED
    BY <2>1, <2>2
<1>3. \A side : One(Is(m, "PenaltyScore_", side)) = 0
  BY DEF One, Is
<1> QED
  BY <1>1, <1>2, <1>3, TheSides DEF Announces, PlayModes, PlayTypes

LEMMA PhaseAnnounces ==
  ASSUME NEW r \in RefereeStates, NEW z \in RefereeStates, NEW m \in Modes,
         m.type \in {"PenaltyReady_", "PenaltyTaken_", "PenaltyFoul_", "PenaltyMiss_"},
         m.side \in Sides, z.mode = m,
         z.kicks = r.kicks, z.goals = r.goals, z.onfield = r.onfield
  PROVE  Announces(r, m, z)
<1>1. \A p \in Sides : r.kicks[p] \in Nat /\ r.goals[p] \in Nat
  BY DEF RefereeStates
<1>2. \A side : /\ One(Is(m, "PenaltySetup_", side)) = 0
                /\ One(Is(m, "PenaltyScore_", side)) = 0
  BY DEF One, Is
<1> QED
  BY <1>1, <1>2, TheSides DEF Announces, PlayModes, PlayTypes

LEMMA ScoreAnnounces ==
  ASSUME NEW r \in RefereeStates, NEW z \in RefereeStates, NEW m \in Modes,
         m.type = "PenaltyScore_", m.side \in Sides, z.mode = m,
         z.kicks = r.kicks, z.goals = [r.goals EXCEPT ![m.side] = @ + 1],
         z.onfield = r.onfield
  PROVE  Announces(r, m, z)
<1>1. r.goals \in [Sides -> Nat] /\ \A p \in Sides : r.kicks[p] \in Nat
  BY DEF RefereeStates
<1>2. /\ z.goals[OurSide] = r.goals[OurSide] + One(Is(m, "PenaltyScore_", OurSide))
      /\ z.goals[Theirs] = r.goals[Theirs] + One(Is(m, "PenaltyScore_", Theirs))
  <2>1. CASE m.side = OurSide
    BY <1>1, <2>1, TheSides DEF One, Is
  <2>2. CASE m.side # OurSide
    BY <1>1, <2>2, TheSides DEF One, Is
  <2> QED
    BY <2>1, <2>2
<1>3. One(Is(m, "PenaltySetup_", OurSide)) = 0
  BY DEF One, Is
<1> QED
  BY <1>1, <1>2, <1>3, TheSides DEF Announces, PlayModes, PlayTypes

LEMMA KickCounted ==
  ASSUME NEW y \in RefereeStates, NEW s \in Sides
  PROVE  LET z == [y EXCEPT !.kicks[s] = @ + 1]
         IN /\ z \in RefereeStates /\ z.kicks = [y.kicks EXCEPT ![s] = @ + 1]
            /\ z.mode = y.mode /\ z.onfield = y.onfield /\ z.goals = y.goals
<1> DEFINE k == [y.kicks EXCEPT ![s] = @ + 1]
<1>1. y.kicks \in [Sides -> Nat]
  BY DEF RefereeStates
<1>2. k \in [Sides -> Nat]
  BY <1>1
<1>3. [y EXCEPT !.kicks[s] = @ + 1] = [y EXCEPT !.kicks = k]
  OBVIOUS
<1> HIDE DEF k
<1>4. LET z == [y EXCEPT !.kicks = k]
      IN /\ z \in RefereeStates /\ z.kicks = k
         /\ z.mode = y.mode /\ z.onfield = y.onfield /\ z.goals = y.goals
  BY <1>2 DEF RefereeStates
<1> QED
  BY <1>3, <1>4 DEF k

LEMMA GoalCounted ==
  ASSUME NEW y \in RefereeStates, NEW s \in Sides
  PROVE  LET z == [y EXCEPT !.goals[s] = @ + 1]
         IN /\ z \in RefereeStates /\ z.goals = [y.goals EXCEPT ![s] = @ + 1]
            /\ z.mode = y.mode /\ z.onfield = y.onfield /\ z.kicks = y.kicks
<1> DEFINE k == [y.goals EXCEPT ![s] = @ + 1]
<1>1. y.goals \in [Sides -> Nat]
  BY DEF RefereeStates
<1>2. k \in [Sides -> Nat]
  BY <1>1
<1>3. [y EXCEPT !.goals[s] = @ + 1] = [y EXCEPT !.goals = k]
  OBVIOUS
<1> HIDE DEF k
<1>4. LET z == [y EXCEPT !.goals = k]
      IN /\ z \in RefereeStates /\ z.goals = k
         /\ z.mode = y.mode /\ z.onfield = y.onfield /\ z.kicks = y.kicks
  BY <1>2 DEF RefereeStates
<1> QED
  BY <1>3, <1>4 DEF k

LEMMA BeginShootoutKeeps ==
  ASSUME IInv, BeginShootout
  PROVE  IInv'
<1>1. ref \in RefereeStates
  BY DEF IInv, TypeOK, RefereeStates
<1>2. PICK goal \in Sides, s \in Sides :
        /\ Send(<<Mode("PenaltyOnfield_", goal, ref.time), Setup(s)>>)
        /\ ref' = [Announced(Setup(s)) EXCEPT !.onfield = goal, !.kicks[s] = @ + 1,
                                     !.announced = 0]
  BY DEF BeginShootout
<1> DEFINE l == Mode("PenaltyOnfield_", goal, ref.time)
           m == Setup(s)
           r == [ref EXCEPT !.mode = l, !.onfield = goal]
           y == [Announced(m) EXCEPT !.onfield = goal]
           z == [y EXCEPT !.kicks[s] = @ + 1]
<1>3. /\ l \in Modes /\ l.type = "PenaltyOnfield_" /\ l.side = goal
      /\ m \in Modes /\ m.type = "PenaltySetup_" /\ m.side = s
  BY <1>1, ModesOfNow DEF Mode, Setup, Types, PenaltyTypes
<1>4. Send(<<l, m>>) /\ ref' = [z EXCEPT !.announced = 0]
  BY <1>2
<1>5. /\ r = [ref EXCEPT !.mode = l, !.onfield = goal]
      /\ y = [Announced(m) EXCEPT !.onfield = goal] /\ z = [y EXCEPT !.kicks[s] = @ + 1]
  OBVIOUS
<1> HIDE DEF l, m, r, y, z
<1>6. /\ r \in RefereeStates /\ r.mode = l /\ r.onfield = goal
      /\ r.kicks = ref.kicks /\ r.goals = ref.goals
  BY <1>1, <1>3, <1>5 DEF RefereeStates
<1>7. Announces(ref, l, r)
  <2>1. ref.mode.type \in PlayModes
    BY DEF BeginShootout, PlayModes, PlayTypes
  <2>2. \A side : /\ One(Is(l, "PenaltySetup_", side)) = 0
                  /\ One(Is(l, "PenaltyScore_", side)) = 0
    BY <1>3 DEF One, Is
  <2>3. \A p \in Sides : ref.kicks[p] \in Nat /\ ref.goals[p] \in Nat
    BY <1>1 DEF RefereeStates
  <2> QED
    BY <1>3, <1>6, <2>1, <2>2, <2>3, TheSides DEF Announces
<1>8. /\ y \in RefereeStates /\ y.mode = m /\ y.onfield = goal
      /\ y.kicks = ref.kicks /\ y.goals = ref.goals
  BY <1>1, <1>3, <1>5, AnnouncedType DEF RefereeStates
<1>9. /\ z \in RefereeStates /\ z.mode = m /\ z.onfield = goal
      /\ z.kicks = [ref.kicks EXCEPT ![s] = @ + 1] /\ z.goals = ref.goals
  <2>1. /\ z \in RefereeStates /\ z.kicks = [y.kicks EXCEPT ![s] = @ + 1]
        /\ z.mode = y.mode /\ z.onfield = y.onfield /\ z.goals = y.goals
    BY <1>5, <1>8, KickCounted
  <2> QED
    BY <1>8, <2>1
<1>10. /\ ref' \in RefereeStates /\ ref'.mode = m /\ ref'.onfield = goal
       /\ ref'.kicks = [ref.kicks EXCEPT ![s] = @ + 1] /\ ref'.goals = ref.goals
  <2>1. /\ ref' \in RefereeStates /\ ref'.mode = z.mode /\ ref'.onfield = z.onfield
        /\ ref'.kicks = z.kicks /\ ref'.goals = z.goals
    BY <1>4, <1>9 DEF RefereeStates
  <2> QED
    BY <1>9, <2>1
<1>11. Announces(r, m, ref')
  BY <1>3, <1>6, <1>10, SetupAnnounces
<1>12. KickIsCounted'
  BY <1>1, <1>3, <1>10 DEF KickIsCounted, RefereeStates
<1> QED
  BY <1>3, <1>4, <1>6, <1>7, <1>10, <1>11, <1>12, SendTwo

LEMMA GoOnKeeps ==
  ASSUME IInv, GoOn
  PROVE  IInv'
<1>1. ref \in RefereeStates /\ KickIsCounted
  BY DEF IInv, TypeOK, RefereeStates
<1> DEFINE m == [ref.mode EXCEPT !.type = IF @ = "PenaltySetup_" THEN "PenaltyReady_"
                                          ELSE "PenaltyTaken_"]
<1>2. Send(<<m>>) /\ ref' = Announced(m)
  BY DEF GoOn
<1>3. /\ m \in Modes /\ m.type \in {"PenaltyReady_", "PenaltyTaken_"}
      /\ m.side = ref.mode.side /\ m.side \in Sides /\ ref.kicks[m.side] > 0
  <2>1. ref.mode \in Modes
    BY <1>1 DEF RefereeStates
  <2>2. ref.mode.type \in PenaltyTypes
    BY DEF GoOn, PenaltyTypes
  <2>3. ref.mode.side \in Sides /\ ref.kicks[ref.mode.side] > 0
    BY <1>1, <2>2 DEF KickIsCounted
  <2>4. m \in Modes /\ m.side = ref.mode.side /\ m.type \in {"PenaltyReady_", "PenaltyTaken_"}
    BY <2>1 DEF Modes, Types, PenaltyTypes
  <2> QED
    BY <2>3, <2>4
<1> HIDE DEF m
<1>4. /\ ref' \in RefereeStates /\ ref'.mode = m /\ ref'.onfield = ref.onfield
      /\ ref'.kicks = ref.kicks /\ ref'.goals = ref.goals
  BY <1>1, <1>2, <1>3, AnnouncedType
<1>5. Announces(ref, m, ref')
  BY <1>1, <1>3, <1>4, PhaseAnnounces
<1>6. KickIsCounted'
  BY <1>3, <1>4 DEF KickIsCounted
<1> QED
  BY <1>2, <1>3, <1>4, <1>5, <1>6, SendOne

LEMMA EndKickKeeps ==
  ASSUME IInv, EndKick
  PROVE  IInv'
<1>1. ref \in RefereeStates /\ KickIsCounted
  BY DEF IInv, TypeOK, RefereeStates
<1>2. PICK type \in {"PenaltyMiss_", "PenaltyScore_"}, foul \in BOOLEAN :
        LET m == [ref.mode EXCEPT !.type = type]
        IN /\ Send(IF foul THEN <<[m EXCEPT !.type = "PenaltyFoul_"], m>> ELSE <<m>>)
           /\ ref' = [Announced(m) EXCEPT
                        !.goals[m.side] = IF type = "PenaltyScore_" THEN @ + 1 ELSE @]
  BY DEF EndKick
<1> DEFINE m == [ref.mode EXCEPT !.type = type]
           l == [m EXCEPT !.type = "PenaltyFoul_"]
           r == [ref EXCEPT !.mode = l]
           y == Announced(m)
<1>3. /\ m \in Modes /\ m.type = type
      /\ m.side = ref.mode.side /\ m.side \in Sides /\ ref.kicks[m.side] > 0
  <2>1. ref.mode \in Modes
    BY <1>1 DEF RefereeStates
  <2>2. ref.mode.type \in PenaltyTypes
    BY DEF EndKick, PenaltyTypes
  <2>3. ref.mode.side \in Sides /\ ref.kicks[ref.mode.side] > 0
    BY <1>1, <2>2 DEF KickIsCounted
  <2>4. m \in Modes /\ m.side = ref.mode.side /\ m.type = type
    BY <2>1 DEF Modes, Types, PenaltyTypes
  <2> QED
    BY <2>3, <2>4
<1>4. l = [m EXCEPT !.type = "PenaltyFoul_"] /\ r = [ref EXCEPT !.mode = l]
  OBVIOUS
<1>5. /\ Send(IF foul THEN <<l, m>> ELSE <<m>>)
      /\ ref' = [y EXCEPT !.goals[m.side] = IF type = "PenaltyScore_" THEN @ + 1 ELSE @]
  BY <1>2
<1>6. /\ y \in RefereeStates /\ y.mode = m /\ y.onfield = ref.onfield
      /\ y.kicks = ref.kicks /\ y.goals = ref.goals
  BY <1>1, <1>3, AnnouncedType
<1> HIDE DEF m, l, r, y
<1>7. l \in Modes /\ l.type = "PenaltyFoul_" /\ l.side = m.side
  BY <1>3, <1>4 DEF Modes, Types, PenaltyTypes
<1>8. /\ r \in RefereeStates /\ r.mode = l /\ r.onfield = ref.onfield
      /\ r.kicks = ref.kicks /\ r.goals = ref.goals
  BY <1>1, <1>4, <1>7 DEF RefereeStates
<1>9. Announces(ref, l, r)
  BY <1>1, <1>3, <1>7, <1>8, PhaseAnnounces
<1>10. /\ ref' \in RefereeStates /\ ref'.mode = m /\ ref'.onfield = ref.onfield
       /\ ref'.kicks = ref.kicks /\ Announces(ref, m, ref') /\ Announces(r, m, ref')
  <2>1. CASE type = "PenaltyScore_"
    <3>1. ref' = [y EXCEPT !.goals[m.side] = @ + 1]
      BY <1>5, <2>1
    <3>2. /\ ref' \in RefereeStates /\ ref'.mode = m /\ ref'.onfield = ref.onfield
          /\ ref'.kicks = ref.kicks /\ ref'.goals = [ref.goals EXCEPT ![m.side] = @ + 1]
      BY <1>3, <1>6, <3>1, GoalCounted
    <3> QED
      BY <1>1, <1>3, <1>8, <2>1, <3>2, ScoreAnnounces
  <2>2. CASE type # "PenaltyScore_"
    <3>1. ref' = [y EXCEPT !.goals[m.side] = @]
      BY <1>5, <2>2
    <3>2. ref' = y
      BY <1>3, <1>6, <3>1 DEF RefereeStates
    <3> QED
      BY <1>1, <1>3, <1>6, <1>8, <2>2, <3>2, PhaseAnnounces
  <2> QED
    BY <2>1, <2>2
<1>11. KickIsCounted'
  BY <1>3, <1>10 DEF KickIsCounted
<1>12. CASE foul
  BY <1>3, <1>5, <1>7, <1>8, <1>9, <1>10, <1>11, <1>12, SendTwo
<1>13. CASE ~foul
  BY <1>3, <1>5, <1>10, <1>11, <1>13, SendOne
<1> QED
  BY <1>12, <1>13

LEMMA NextKickKeeps ==
  ASSUME IInv, NextKick
  PROVE  IInv'
<1>1. ref \in RefereeStates /\ KickIsCounted
  BY DEF IInv, TypeOK, RefereeStates
<1> DEFINE s == Opposite(ref.mode.side)
<1>2. s \in Sides
  BY DEF Opposite, Sides
<1>3. ASSUME Send(<<Setup(s)>>), ref' = [Announced(Setup(s)) EXCEPT !.kicks[s] = @ + 1]
      PROVE  IInv'
  <2> DEFINE m == Setup(s)
             y == Announced(m)
  <2>1. m \in Modes /\ m.type = "PenaltySetup_" /\ m.side = s
    BY <1>1, <1>2, ModesOfNow DEF Mode, Setup, Types, PenaltyTypes
  <2>2. /\ y \in RefereeStates /\ y.mode = m /\ y.onfield = ref.onfield
        /\ y.kicks = ref.kicks /\ y.goals = ref.goals
    BY <1>1, <2>1, AnnouncedType
  <2>3. Send(<<m>>) /\ ref' = [y EXCEPT !.kicks[s] = @ + 1]
    BY <1>3
  <2> HIDE DEF s, m, y
  <2>4. /\ ref' \in RefereeStates /\ ref'.mode = m /\ ref'.onfield = ref.onfield
        /\ ref'.kicks = [ref.kicks EXCEPT ![s] = @ + 1] /\ ref'.goals = ref.goals
    BY <1>2, <2>2, <2>3, KickCounted
  <2>5. Announces(ref, m, ref')
    BY <1>1, <1>2, <2>1, <2>4, SetupAnnounces
  <2>6. KickIsCounted'
    BY <1>1, <1>2, <2>1, <2>4 DEF KickIsCounted, RefereeStates
  <2> QED
    BY <2>1, <2>3, <2>4, <2>5, <2>6, SendOne
<1>4. ASSUME NEW over, over = Mode("TimeOver", "NEUTRAL", ref.time),
             Send(<<over>>), ref' = Announced(over)
      PROVE  IInv'
  <2>1. over \in Modes /\ over.type = "TimeOver"
    BY <1>1, <1>4, ModesOfNow DEF Mode, Types
  <2>2. /\ ref' \in RefereeStates /\ ref'.mode = over /\ ref'.onfield = ref.onfield
        /\ ref'.kicks = ref.kicks /\ ref'.goals = ref.goals
    BY <1>1, <1>4, <2>1, AnnouncedType
  <2>3. Announces(ref, over, ref')
    <3>1. ref.mode.type \in KickEnds
      BY DEF NextKick, KickEnds
    <3>2. \A side : /\ One(Is(over, "PenaltySetup_", side)) = 0
                    /\ One(Is(over, "PenaltyScore_", side)) = 0
      BY <2>1 DEF One, Is
    <3>3. \A p \in Sides : ref.kicks[p] \in Nat /\ ref.goals[p] \in Nat
      BY <1>1 DEF RefereeStates
    <3> QED
      BY <2>1, <2>2, <3>1, <3>2, <3>3, TheSides
      DEF Announces, PlayModes, PlayTypes, PenaltyTypes
  <2>4. KickIsCounted'
    BY <2>1, <2>2 DEF KickIsCounted, PenaltyTypes
  <2> QED
    BY <1>4, <2>1, <2>2, <2>3, <2>4, SendOne
<1> QED
  BY <1>3, <1>4 DEF NextKick

LEMMA HearRefereeKeeps ==
  ASSUME IInv, NEW p \in Unums, HearReferee(p)
  PROVE  IInv'
<1>1. /\ ref \in RefereeStates /\ pl \in [Unums -> PlayerStates]
      /\ net \in [Unums -> Seq(Modes)] /\ doubled \subseteq Unums
      /\ KickIsCounted
      /\ \A q \in Unums \ doubled : Tracks(pl[q], net[q], ref)
  BY DEF IInv, TypeOK, RefereeStates, PlayerStates
<1> DEFINE s == net[p]
           z == AnalyzeHearReferee(pl[p], Head(s))
<1>2. s \in Seq(Modes) /\ s # <<>> /\ Head(s) \in Modes /\ Tail(s) \in Seq(Modes)
  BY <1>1 DEF HearReferee
<1>3. /\ net' = [net EXCEPT ![p] = Tail(s)] /\ pl' = [pl EXCEPT ![p] = z]
      /\ ref' = ref /\ doubled' = doubled
  BY DEF HearReferee
<1>4. z \in PlayerStates
  BY <1>1, <1>2, HearType
<1>5. /\ pl'[p] = z /\ net'[p] = Tail(s)
      /\ \A q \in Unums \ {p} : pl'[q] = pl[q] /\ net'[q] = net[q]
  BY <1>1, <1>3
<1>6. TypeOK'
  <2>1. pl' \in [Unums -> PlayerStates] /\ net' \in [Unums -> Seq(Modes)]
    BY <1>1, <1>2, <1>3, <1>4
  <2> QED
    BY <1>1, <1>3, <2>1 DEF TypeOK, RefereeStates, PlayerStates
<1>7. KickIsCounted'
  BY <1>1, <1>3 DEF KickIsCounted
<1>8. ASSUME NEW q \in Unums \ doubled' PROVE Tracks(pl'[q], net'[q], ref')
  <2>1. CASE q = p
    <3>1. Tracks(pl[p], s, ref)
      BY <1>1, <1>3, <2>1
    <3>2. Tracks(z, Tail(s), ref)
      BY <1>1, <1>2, <3>1, HearTracks
    <3> QED
      BY <1>3, <1>5, <2>1, <3>2
  <2>2. CASE q # p
    BY <1>1, <1>3, <1>5, <2>2
  <2> QED
    BY <2>1, <2>2
<1> QED
  BY <1>3, <1>6, <1>7, <1>8 DEF IInv

\* What the strategy does changes the order of kick takers and the intention alone.
LEMMA StrategyKeeps ==
  ASSUME IInv, NEW p \in Unums, SetOrder(p) \/ SetIntention(p) \/ FinishIntention(p)
  PROVE  IInv'
<1>1. /\ ref \in RefereeStates /\ pl \in [Unums -> PlayerStates]
      /\ net \in [Unums -> Seq(Modes)] /\ doubled \subseteq Unums
      /\ KickIsCounted
      /\ \A q \in Unums \ doubled : Tracks(pl[q], net[q], ref)
  BY DEF IInv, TypeOK, RefereeStates, PlayerStates
<1>2. ref' = ref /\ net' = net /\ doubled' = doubled
  BY DEF SetOrder, SetIntention, FinishIntention
<1>3. PICK z \in PlayerStates :
        /\ pl' = [pl EXCEPT ![p] = z] /\ z.alive = pl[p].alive
        /\ z.pk.ours = pl[p].pk.ours /\ z.pk.ourScore = pl[p].pk.ourScore
        /\ z.pk.theirScore = pl[p].pk.theirScore /\ z.pk.onfield = pl[p].pk.onfield
        /\ z.pk.kickSide = pl[p].pk.kickSide
  <2> DEFINE q == pl[p]
  <2>0. q \in PlayerStates
    BY <1>1
  <2>1. CASE SetOrder(p)
    <3>1. PICK w \in Wishes : pl' = [pl EXCEPT ![p].pk = SetKickTakerOrder(@, w)]
      BY <2>1 DEF SetOrder
    <3> DEFINE k == SetKickTakerOrder(q.pk, w)
    <3>2. LegalOrder(w) => w = Order
      BY RefereeAssumption
    <3>3. q.pk \in PenaltyKickStates
      BY <2>0 DEF PlayerStates
    <3>4. /\ k \in PenaltyKickStates
          /\ k.ours = q.pk.ours /\ k.ourScore = q.pk.ourScore
          /\ k.theirScore = q.pk.theirScore /\ k.onfield = q.pk.onfield
          /\ k.kickSide = q.pk.kickSide
      BY <3>2, <3>3 DEF SetKickTakerOrder, PenaltyKickStates
    <3>5. pl' = [pl EXCEPT ![p] = [q EXCEPT !.pk = k]]
      BY <3>1
    <3> HIDE DEF k, q
    <3>6. /\ [q EXCEPT !.pk = k] \in PlayerStates
          /\ [q EXCEPT !.pk = k].pk = k /\ [q EXCEPT !.pk = k].alive = q.alive
      BY <2>0, <3>4 DEF PlayerStates
    <3> QED
      BY <3>4, <3>5, <3>6 DEF q
  <2>2. CASE SetIntention(p) \/ FinishIntention(p)
    <3>1. PICK b \in BOOLEAN : pl' = [pl EXCEPT ![p] = [q EXCEPT !.intention = b]]
      BY <2>2 DEF SetIntention, FinishIntention
    <3> HIDE DEF q
    <3>2. /\ [q EXCEPT !.intention = b] \in PlayerStates
          /\ [q EXCEPT !.intention = b].pk = q.pk /\ [q EXCEPT !.intention = b].alive = q.alive
      BY <2>0 DEF PlayerStates
    <3> QED
      BY <3>1, <3>2 DEF q
  <2> QED
    BY <2>1, <2>2
<1>4. pl'[p] = z /\ \A q \in Unums \ {p} : pl'[q] = pl[q]
  BY <1>1, <1>3
<1>5. TypeOK'
  <2>1. pl' \in [Unums -> PlayerStates]
    BY <1>1, <1>3
  <2> QED
    BY <1>1, <1>2, <2>1 DEF TypeOK, RefereeStates, PlayerStates
<1>6. KickIsCounted'
  BY <1>1, <1>2 DEF KickIsCounted
<1>7. ASSUME NEW q \in Unums \ doubled' PROVE Tracks(pl'[q], net'[q], ref')
  <2>1. Tracks(pl[q], net[q], ref)
    BY <1>1, <1>2
  <2>2. CASE q = p
    <3>1. Tracks(z, net[p], ref)
      BY <1>3, <2>1, <2>2 DEF Tracks
    <3> QED
      BY <1>2, <1>4, <2>2, <3>1
  <2>3. CASE q # p
    BY <1>2, <1>4, <2>1, <2>3
  <2> QED
    BY <2>2, <2>3
<1> QED
  BY <1>2, <1>5, <1>6, <1>7 DEF IInv

LEMMA NextKeeps == IInv /\ [Next]_vars => IInv'
<1> SUFFICES ASSUME IInv, [Next]_vars PROVE IInv'
  OBVIOUS
<1>1. CASE NextCycle \/ AnnouncePlay \/ AnnounceCatch
  BY <1>1, RefereeKeeps
<1>2. CASE BeginShootout
  BY <1>2, BeginShootoutKeeps
<1>3. CASE GoOn
  BY <1>3, GoOnKeeps
<1>4. CASE EndKick
  BY <1>4, EndKickKeeps
<1>5. CASE NextKick
  BY <1>5, NextKickKeeps
<1>6. ASSUME NEW p \in Unums, HearReferee(p) PROVE IInv'
  BY <1>6, HearRefereeKeeps
<1>7. ASSUME NEW p \in Unums, SetOrder(p) \/ SetIntention(p) \/ FinishIntention(p) PROVE IInv'
  BY <1>7, StrategyKeeps
<1>8. CASE UNCHANGED vars
  BY <1>8 DEF vars, IInv, TypeOK, KickIsCounted, Tracks
<1> QED
  BY <1>1, <1>2, <1>3, <1>4, <1>5, <1>6, <1>7, <1>8 DEF Next

LEMMA InvariantHolds == Spec => []IInv
BY InitHolds, NextKeeps, PTL DEF Spec

-----------------------------------------------------------------------------
(* Catches.                                                                *)

\* Hearing the messages s one after the other leads from the mode g to the mode k.
Leads(g, s, k) ==
  \E h \in [0..Len(s) -> Modes] :
    /\ h[0] = g /\ h[Len(s)] = k
    /\ \A i \in 1..Len(s) : h[i] = UpdateMode(h[i - 1], s[i])

\* The mode of a player that has heard all that the referee r announced.
Known(r) == IF r.catch THEN [r.mode EXCEPT !.type = "GoalieCatch_"] ELSE r.mode

\* Whatever is still on its way to a player leads it to that mode.
CatchFollows ==
  /\ ref.mode.type # "GoalieCatch_"
  /\ ref.catch => ref.mode.type = "FreeKick_"
  /\ \A p \in Unums : Leads(pl[p].gm, net[p], Known(ref))

LEMMA LeadsNowhere ==
  ASSUME NEW g \in Modes
  PROVE  Leads(g, <<>>, g)
<1> DEFINE h == [i \in 0..0 |-> g]
<1>1. h \in [0..Len(<<>>) -> Modes] /\ h[0] = g /\ h[Len(<<>>)] = g
  OBVIOUS
<1> HIDE DEF h
<1> QED
  BY <1>1 DEF Leads

LEMMA LeadsOne ==
  ASSUME NEW g \in Modes, NEW m \in Modes, NEW k, k = UpdateMode(g, m)
  PROVE  Leads(g, <<m>>, k)
<1> DEFINE h == [i \in 0..1 |-> IF i = 0 THEN g ELSE k]
           s == <<m>>
<1>1. k \in Modes
  BY UpdateModeKeeps
<1>2. Len(s) = 1 /\ s[1] = m
  OBVIOUS
<1>3. h \in [0..1 -> Modes] /\ h[0] = g /\ h[1] = k
  BY <1>1
<1> HIDE DEF h, s
<1>4. \A i \in 1..Len(s) : h[i] = UpdateMode(h[i - 1], s[i])
  BY <1>2, <1>3
<1>5. Leads(g, s, k)
  BY <1>2, <1>3, <1>4 DEF Leads
<1> QED
  BY <1>5 DEF s

\* Messages that are heard one after the other.
LEMMA LeadsOn ==
  ASSUME NEW g, NEW k, NEW z, NEW s \in Seq(Modes), NEW t \in Seq(Modes),
         Leads(g, s, k), Leads(k, t, z)
  PROVE  Leads(g, s \o t, z)
<1>1. PICK a \in [0..Len(s) -> Modes] :
        /\ a[0] = g /\ a[Len(s)] = k
        /\ \A i \in 1..Len(s) : a[i] = UpdateMode(a[i - 1], s[i])
  BY DEF Leads
<1>2. PICK b \in [0..Len(t) -> Modes] :
        /\ b[0] = k /\ b[Len(t)] = z
        /\ \A i \in 1..Len(t) : b[i] = UpdateMode(b[i - 1], t[i])
  BY DEF Leads
<1> DEFINE u == s \o t
           h == [i \in 0..Len(u) |-> IF i <= Len(s) THEN a[i] ELSE b[i - Len(s)]]
<1>3. /\ Len(s) \in Nat /\ Len(t) \in Nat /\ Len(u) = Len(s) + Len(t)
      /\ \A i \in 1..Len(s) : u[i] = s[i]
      /\ \A i \in 1..Len(t) : u[Len(s) + i] = t[i]
  BY AppendProperties
<1> HIDE DEF u
<1>4. \A i \in 0..Len(u) : h[i] \in Modes
  <2> SUFFICES ASSUME NEW i \in 0..Len(u) PROVE h[i] \in Modes
    OBVIOUS
  <2>1. CASE i <= Len(s)
    BY <1>3, <2>1
  <2>2. CASE ~(i <= Len(s))
    <3>1. i - Len(s) \in 0..Len(t)
      BY <1>3, <2>2
    <3> QED
      BY <2>2, <3>1
  <2> QED
    BY <2>1, <2>2
<1>5. h \in [0..Len(u) -> Modes]
  BY <1>4
<1>6. h[0] = g
  BY <1>1, <1>3
<1>7. h[Len(u)] = z
  <2>1. CASE Len(t) = 0
    <3>1. Len(u) = Len(s) /\ z = k
      BY <1>2, <1>3, <2>1
    <3> QED
      BY <1>1, <1>3, <3>1
  <2>2. CASE Len(t) # 0
    <3>1. ~(Len(u) <= Len(s)) /\ Len(u) - Len(s) = Len(t) /\ Len(u) \in 0..Len(u)
      BY <1>3, <2>2
    <3> QED
      BY <1>2, <3>1
  <2> QED
    BY <2>1, <2>2
<1>8. \A i \in 1..Len(u) : h[i] = UpdateMode(h[i - 1], u[i])
  <2> SUFFICES ASSUME NEW i \in 1..Len(u) PROVE h[i] = UpdateMode(h[i - 1], u[i])
    OBVIOUS
  <2>1. CASE i <= Len(s)
    <3>1. /\ i \in 1..Len(s) /\ i \in 0..Len(u) /\ i - 1 \in 0..Len(u) /\ i - 1 <= Len(s)
      BY <1>3, <2>1
    <3>2. h[i] = a[i] /\ h[i - 1] = a[i - 1] /\ u[i] = s[i]
      BY <1>3, <2>1, <3>1
    <3> QED
      BY <1>1, <3>1, <3>2
  <2>2. CASE ~(i <= Len(s))
    <3> DEFINE j == i - Len(s)
    <3>1. j \in 1..Len(t) /\ i = Len(s) + j /\ i \in 0..Len(u) /\ i - 1 \in 0..Len(u)
      BY <1>3, <2>2
    <3>2. h[i] = b[j] /\ u[i] = t[j]
      BY <1>3, <2>2, <3>1
    <3>3. h[i - 1] = b[j - 1]
      <4>1. CASE j = 1
        <5>1. i - 1 = Len(s) /\ j - 1 = 0
          BY <1>3, <3>1, <4>1
        <5> QED
          BY <1>1, <1>2, <1>3, <3>1, <5>1
      <4>2. CASE j # 1
        <5>1. ~(i - 1 <= Len(s)) /\ (i - 1) - Len(s) = j - 1
          BY <1>3, <3>1, <4>2
        <5> QED
          BY <3>1, <5>1
      <4> QED
        BY <4>1, <4>2
    <3> QED
      BY <1>2, <3>1, <3>2, <3>3
  <2> QED
    BY <2>1, <2>2
<1> HIDE DEF h
<1>9. Leads(g, u, z)
  BY <1>5, <1>6, <1>7, <1>8 DEF Leads
<1> QED
  BY <1>9 DEF u

LEMMA LeadsTwo ==
  ASSUME NEW g \in Modes, NEW l \in Modes, NEW m \in Modes,
         NEW j, j = UpdateMode(g, l), NEW k, k = UpdateMode(j, m)
  PROVE  Leads(g, <<l, m>>, k)
<1> DEFINE h == [i \in 0..2 |-> IF i = 0 THEN g ELSE IF i = 1 THEN j ELSE k]
           s == <<l, m>>
<1>1. j \in Modes /\ k \in Modes
  BY UpdateModeKeeps
<1>2. Len(s) = 2 /\ s[1] = l /\ s[2] = m
  OBVIOUS
<1>3. h \in [0..2 -> Modes] /\ h[0] = g /\ h[1] = j /\ h[2] = k
  BY <1>1
<1> HIDE DEF h, s
<1>4. \A i \in 1..Len(s) : h[i] = UpdateMode(h[i - 1], s[i])
  <2> SUFFICES ASSUME NEW i \in 1..2 PROVE h[i] = UpdateMode(h[i - 1], s[i])
    BY <1>2
  <2>1. CASE i = 1
    BY <1>2, <1>3, <2>1
  <2>2. CASE i = 2
    BY <1>2, <1>3, <2>2
  <2> QED
    BY <2>1, <2>2
<1>5. Leads(g, s, k)
  BY <1>2, <1>3, <1>4 DEF Leads
<1> QED
  BY <1>5 DEF s

\* Hearing the first message leaves the others.
LEMMA LeadsAfterHearing ==
  ASSUME NEW g, NEW s \in Seq(Modes), s # <<>>, NEW k, Leads(g, s, k)
  PROVE  Leads(UpdateMode(g, Head(s)), Tail(s), k)
<1>1. PICK a \in [0..Len(s) -> Modes] :
        /\ a[0] = g /\ a[Len(s)] = k
        /\ \A i \in 1..Len(s) : a[i] = UpdateMode(a[i - 1], s[i])
  BY DEF Leads
<1> DEFINE t == Tail(s)
           h == [i \in 0..Len(t) |-> a[i + 1]]
<1>2. /\ Len(s) \in Nat /\ Len(s) > 0 /\ Len(t) = Len(s) - 1 /\ Head(s) = s[1]
      /\ \A i \in 1..Len(t) : t[i] = s[i + 1]
  OBVIOUS
<1> HIDE DEF t
<1>3. h \in [0..Len(t) -> Modes]
  BY <1>2
<1>4. h[0] = UpdateMode(g, Head(s)) /\ h[Len(t)] = k
  <2>1. 0 \in 0..Len(t) /\ Len(t) \in 0..Len(t) /\ 1 \in 1..Len(s) /\ 0 + 1 = 1
        /\ Len(t) + 1 = Len(s) /\ 1 - 1 = 0
    BY <1>2
  <2>2. h[0] = a[1] /\ h[Len(t)] = a[Len(s)]
    BY <2>1
  <2> QED
    BY <1>1, <1>2, <2>1, <2>2
<1>5. \A i \in 1..Len(t) : h[i] = UpdateMode(h[i - 1], t[i])
  <2> SUFFICES ASSUME NEW i \in 1..Len(t) PROVE h[i] = UpdateMode(h[i - 1], t[i])
    OBVIOUS
  <2>1. /\ i \in 0..Len(t) /\ i - 1 \in 0..Len(t) /\ i + 1 \in 1..Len(s)
        /\ (i - 1) + 1 = i /\ (i + 1) - 1 = i
    BY <1>2
  <2>2. h[i] = a[i + 1] /\ h[i - 1] = a[i]
    BY <2>1
  <2> QED
    BY <1>1, <1>2, <2>1, <2>2
<1> HIDE DEF h
<1>6. Leads(UpdateMode(g, Head(s)), t, k)
  BY <1>3, <1>4, <1>5 DEF Leads
<1> QED
  BY <1>6 DEF t

\* An announcement that leads from what was known to what is to be known now, and leaves
\* it there if it is heard again.
LEMMA SendLeads ==
  ASSUME TypeOK, CatchFollows, NEW ms \in Seq(Modes), Send(ms),
         Leads(Known(ref), ms, Known(ref')), Leads(Known(ref'), ms, Known(ref')),
         ref'.mode.type # "GoalieCatch_", ref'.catch => ref'.mode.type = "FreeKick_"
  PROVE  CatchFollows'
<1>1. /\ pl' = pl
      /\ \A p \in Unums : net'[p] = net[p] \o ms \/ net'[p] = net[p] \o (ms \o ms)
  BY DEF Send
<1> SUFFICES ASSUME NEW p \in Unums PROVE Leads(pl[p].gm, net'[p], Known(ref'))
  BY <1>1 DEF CatchFollows, Known
<1>2. net[p] \in Seq(Modes) /\ ms \o ms \in Seq(Modes)
  BY DEF TypeOK
<1>3. Leads(pl[p].gm, net[p], Known(ref))
  BY DEF CatchFollows
<1>4. Leads(Known(ref), ms \o ms, Known(ref'))
  BY LeadsOn
<1>5. Leads(pl[p].gm, net[p] \o ms, Known(ref'))
  BY <1>2, <1>3, LeadsOn
<1>6. Leads(pl[p].gm, net[p] \o (ms \o ms), Known(ref'))
  BY <1>2, <1>3, <1>4, LeadsOn
<1> QED
  BY <1>1, <1>5, <1>6

LEMMA KnownType ==
  ASSUME NEW r \in RefereeStates
  PROVE  Known(r) \in Modes
BY DEF Known, RefereeStates, Modes, Types, PlayTypes

\* A mode that is no free kick replaces what was known.
LEMMA PlainAnnouncement ==
  ASSUME TypeOK, CatchFollows, NEW m \in Modes, NEW l \in Modes,
         Send(<<m>>) \/ Send(<<l, m>>), ref'.mode = m, ~ref'.catch,
         m.type \notin {"GoalieCatch_", "FreeKick_"}
  PROVE  CatchFollows'
<1>1. Known(ref') = m
  BY DEF Known
<1>2. Known(ref) \in Modes
  BY KnownType DEF TypeOK, RefereeStates
<1>3. \A g \in Modes : UpdateMode(g, m) = m
  BY DEF UpdateMode
<1>4. \A g \in Modes : Leads(g, <<m>>, m)
  BY <1>3, LeadsOne
<1>5. ASSUME NEW g \in Modes PROVE Leads(g, <<l, m>>, m)
  <2>1. UpdateMode(g, l) \in Modes
    BY UpdateModeKeeps
  <2> QED
    BY <1>3, <2>1, LeadsTwo
<1>6. <<m>> \in Seq(Modes) /\ <<l, m>> \in Seq(Modes)
  OBVIOUS
<1>7. CASE Send(<<m>>)
  BY <1>1, <1>2, <1>4, <1>6, <1>7, SendLeads
<1>8. CASE Send(<<l, m>>)
  BY <1>1, <1>2, <1>5, <1>6, <1>8, SendLeads
<1> QED
  BY <1>7, <1>8

\* A free kick that is not the one known already ends a catch.
LEMMA AnnouncePlayLeads ==
  ASSUME TypeOK, CatchFollows, AnnouncePlay
  PROVE  CatchFollows'
<1>0. ref \in RefereeStates
  BY DEF TypeOK, RefereeStates
<1>1. PICK m \in {Mode("PlayOn", "NEUTRAL", ref.time)}
                   \cup {Mode("FreeKick_", s, ref.time) : s \in Sides} :
        m # ref.mode /\ Send(<<m>>) /\ ref' = [Announced(m) EXCEPT !.announced = @ + 1]
  BY DEF AnnouncePlay
<1>2. m \in Modes /\ m.type \in {"PlayOn", "FreeKick_"}
  BY <1>0, <1>1, ModesOfNow DEF Mode, Types, PlayTypes
<1>3. ref'.mode = m /\ ~ref'.catch
  BY <1>0, <1>1 DEF Announced, RefereeStates
<1>4. Known(ref') = m /\ Known(ref) \in Modes /\ ref.mode \in Modes
  BY <1>0, <1>3, KnownType DEF Known, RefereeStates
<1>5. UpdateMode(Known(ref), m) = m
  <2> SUFFICES ASSUME Known(ref).type = "GoalieCatch_", m.type = "FreeKick_",
                      Known(ref).side = m.side, Known(ref).time = m.time
               PROVE  FALSE
    BY DEF UpdateMode
  <2>1. ref.catch
    BY DEF Known, CatchFollows
  <2>2. ref.mode.type = "FreeKick_"
    BY <2>1 DEF CatchFollows
  <2>3. Known(ref).side = ref.mode.side /\ Known(ref).time = ref.mode.time
    BY <1>4, <2>1 DEF Known, Modes
  <2>4. m.type = ref.mode.type /\ m.side = ref.mode.side /\ m.time = ref.mode.time
    BY <2>2, <2>3
  <2>5. m = ref.mode
    BY <1>2, <1>4, <2>4 DEF Modes
  <2> QED
    BY <1>1, <2>5
<1>6. UpdateMode(m, m) = m
  BY <1>2 DEF UpdateMode
<1>7. Leads(Known(ref), <<m>>, m) /\ Leads(m, <<m>>, m)
  BY <1>2, <1>4, <1>5, <1>6, LeadsOne
<1>8. <<m>> \in Seq(Modes)
  BY <1>2
<1> QED
  BY <1>1, <1>2, <1>3, <1>4, <1>7, <1>8, SendLeads

\* A catch is announced with the free kick that follows it.
LEMMA AnnounceCatchLeads ==
  ASSUME TypeOK, CatchFollows, AnnounceCatch
  PROVE  CatchFollows'
<1>0. ref \in RefereeStates
  BY DEF TypeOK, RefereeStates
<1>1. PICK s \in Sides :
        LET free == Mode("FreeKick_", s, ref.time)
        IN /\ Send(<<Mode("GoalieCatch_", s, ref.time), free>>)
           /\ ref' = [Announced(free) EXCEPT !.announced = @ + 1, !.catch = TRUE]
  BY DEF AnnounceCatch
<1> DEFINE l == Mode("GoalieCatch_", s, ref.time)
           m == Mode("FreeKick_", s, ref.time)
<1>2. /\ Send(<<l, m>>)
      /\ ref' = [Announced(m) EXCEPT !.announced = @ + 1, !.catch = TRUE]
  BY <1>1
<1>3. /\ l \in Modes /\ m \in Modes /\ l.type = "GoalieCatch_" /\ m.type = "FreeKick_"
      /\ l.side = m.side /\ l.time = m.time /\ l = [m EXCEPT !.type = "GoalieCatch_"]
  BY <1>0, ModesOfNow DEF Mode, Types, PlayTypes
<1> HIDE DEF l, m
<1>4. ref'.mode = m /\ ref'.catch
  BY <1>0, <1>2 DEF Announced, RefereeStates
<1>5. Known(ref') = l /\ Known(ref) \in Modes
  BY <1>0, <1>3, <1>4, KnownType DEF Known
<1>6. \A g \in Modes : UpdateMode(g, l) = l
  BY <1>3 DEF UpdateMode
<1>7. UpdateMode(l, m) = l
  BY <1>3 DEF UpdateMode, Modes
<1>8. \A g \in Modes : Leads(g, <<l, m>>, l)
  BY <1>3, <1>6, <1>7, LeadsTwo
<1>9. <<l, m>> \in Seq(Modes)
  BY <1>3
<1> QED
  BY <1>2, <1>3, <1>4, <1>5, <1>8, <1>9, SendLeads

\* The referee of the shootout.
LEMMA ShootoutLeads ==
  ASSUME TypeOK, CatchFollows, BeginShootout \/ GoOn \/ EndKick \/ NextKick
  PROVE  CatchFollows'
<1>0. ref \in RefereeStates /\ ref.mode \in Modes
  BY DEF TypeOK, RefereeStates
<1>1. CASE BeginShootout
  <2>1. PICK goal \in Sides, s \in Sides :
          /\ Send(<<Mode("PenaltyOnfield_", goal, ref.time), Setup(s)>>)
          /\ ref' = [Announced(Setup(s)) EXCEPT !.onfield = goal, !.kicks[s] = @ + 1,
                                       !.announced = 0]
    BY <1>1 DEF BeginShootout
  <2>2. /\ Mode("PenaltyOnfield_", goal, ref.time) \in Modes
        /\ Setup(s) \in Modes /\ Setup(s).type = "PenaltySetup_"
    BY <1>0, ModesOfNow DEF Mode, Setup, Types, PenaltyTypes
  <2>3. ref'.mode = Setup(s) /\ ~ref'.catch
    BY <1>0, <2>1, Zenon DEF Announced, RefereeStates
  <2> QED
    BY <2>1, <2>2, <2>3, PlainAnnouncement
<1>2. CASE GoOn
  <2>1. PICK m : /\ m = [ref.mode EXCEPT !.type = IF @ = "PenaltySetup_" THEN "PenaltyReady_"
                                                  ELSE "PenaltyTaken_"]
                 /\ Send(<<m>>) /\ ref' = Announced(m)
    BY <1>2 DEF GoOn
  <2>2. m \in Modes /\ m.type \in {"PenaltyReady_", "PenaltyTaken_"}
    BY <1>0, <2>1 DEF Modes, Types, PenaltyTypes
  <2>3. ref'.mode = m /\ ~ref'.catch
    BY <1>0, <2>1 DEF Announced, RefereeStates
  <2> QED
    BY <2>1, <2>2, <2>3, PlainAnnouncement
<1>3. CASE EndKick
  <2>1. PICK type \in {"PenaltyMiss_", "PenaltyScore_"}, foul \in BOOLEAN :
          LET m == [ref.mode EXCEPT !.type = type]
              ms == IF foul THEN <<[m EXCEPT !.type = "PenaltyFoul_"], m>> ELSE <<m>>
          IN /\ Send(ms)
             /\ ref' = [Announced(m) EXCEPT
                          !.goals[m.side] = IF type = "PenaltyScore_" THEN @ + 1 ELSE @]
    BY <1>3 DEF EndKick
  <2> DEFINE m == [ref.mode EXCEPT !.type = type]
             l == [m EXCEPT !.type = "PenaltyFoul_"]
  <2>2. /\ Send(<<m>>) \/ Send(<<l, m>>)
        /\ ref' = [Announced(m) EXCEPT
                     !.goals[m.side] = IF type = "PenaltyScore_" THEN @ + 1 ELSE @]
    BY <2>1
  <2>3. m \in Modes /\ m.type \in {"PenaltyMiss_", "PenaltyScore_"}
    BY <1>0 DEF Modes, Types, PenaltyTypes
  <2>4. l \in Modes
    BY <2>3 DEF Modes, Types, PenaltyTypes
  <2> HIDE DEF m, l
  <2>5. ref'.mode = m /\ ~ref'.catch
    BY <1>0, <2>2, Zenon DEF Announced, RefereeStates
  <2> QED
    BY <2>2, <2>3, <2>4, <2>5, PlainAnnouncement
<1>4. CASE NextKick
  <2>1. Opposite(ref.mode.side) \in Sides
    BY DEF Opposite, Sides
  <2>2. PICK s \in Sides :
          \/ Send(<<Setup(s)>>) /\ ref' = [Announced(Setup(s)) EXCEPT !.kicks[s] = @ + 1]
          \/ LET over == Mode("TimeOver", "NEUTRAL", ref.time)
             IN Send(<<over>>) /\ ref' = Announced(over)
    BY <1>4, <2>1 DEF NextKick
  <2>3. PICK m \in Modes : /\ m.type \in {"PenaltySetup_", "TimeOver"} /\ Send(<<m>>)
                           /\ \/ ref' = Announced(m)
                              \/ ref' = [Announced(m) EXCEPT !.kicks[s] = @ + 1]
    <3>1. Setup(s) \in Modes /\ Setup(s).type = "PenaltySetup_"
      BY <1>0, ModesOfNow DEF Mode, Setup, Types, PenaltyTypes
    <3>2. /\ Mode("TimeOver", "NEUTRAL", ref.time) \in Modes
          /\ Mode("TimeOver", "NEUTRAL", ref.time).type = "TimeOver"
      BY <1>0, ModesOfNow DEF Mode, Types
    <3> QED
      BY <2>2, <3>1, <3>2
  <2>4. ref'.mode = m /\ ~ref'.catch
    BY <1>0, <2>3, Zenon DEF Announced, RefereeStates
  <2> QED
    BY <2>3, <2>4, PlainAnnouncement
<1> QED
  BY <1>1, <1>2, <1>3, <1>4

\* The mode that a player makes of a message is the one UpdateMode makes of it.
LEMMA HearRefereeLeads ==
  ASSUME TypeOK, CatchFollows, NEW p \in Unums, HearReferee(p)
  PROVE  CatchFollows'
<1> DEFINE s == net[p]
           z == AnalyzeHearReferee(pl[p], Head(s))
<1>1. pl[p] \in PlayerStates /\ s \in Seq(Modes) /\ s # <<>>
  BY DEF TypeOK, PlayerStates, HearReferee
<1>2. /\ net' = [net EXCEPT ![p] = Tail(s)] /\ pl' = [pl EXCEPT ![p] = z] /\ ref' = ref
  BY DEF HearReferee
<1>3. z.gm = UpdateMode(pl[p].gm, Head(s))
  BY <1>1 DEF AnalyzeHearReferee, PlayerStates
<1>4. Leads(z.gm, Tail(s), Known(ref))
  BY <1>1, <1>3, LeadsAfterHearing DEF CatchFollows
<1> HIDE DEF z, s
<1>5. /\ pl'[p] = z /\ net'[p] = Tail(s)
      /\ \A q \in Unums \ {p} : pl'[q] = pl[q] /\ net'[q] = net[q]
  BY <1>2 DEF TypeOK
<1>6. \A q \in Unums : Leads(pl'[q].gm, net'[q], Known(ref))
  BY <1>4, <1>5 DEF CatchFollows
<1> QED
  BY <1>2, <1>6 DEF CatchFollows

\* Neither the strategy nor the time changes a mode.
LEMMA OthersLead ==
  ASSUME TypeOK, CatchFollows,
         \/ UNCHANGED vars
         \/ NextCycle
         \/ \E p \in Unums : SetOrder(p) \/ SetIntention(p) \/ FinishIntention(p)
  PROVE  CatchFollows'
<1>1. net' = net /\ ref'.mode = ref.mode /\ ref'.catch = ref.catch
  BY DEF vars, NextCycle, SetOrder, SetIntention, FinishIntention, TypeOK
<1>2. \A q \in Unums : pl'[q].gm = pl[q].gm
  <2>1. CASE UNCHANGED vars \/ NextCycle
    BY <2>1 DEF vars, NextCycle
  <2>2. ASSUME NEW p \in Unums, SetOrder(p) \/ SetIntention(p) \/ FinishIntention(p)
        PROVE  \A q \in Unums : pl'[q].gm = pl[q].gm
    <3>1. pl \in [Unums -> PlayerStates]
      BY DEF TypeOK, PlayerStates
    <3>2. PICK z : pl' = [pl EXCEPT ![p] = z] /\ z.gm = pl[p].gm
      <4>1. CASE SetOrder(p)
        <5>1. PICK w \in Wishes : pl' = [pl EXCEPT ![p].pk = SetKickTakerOrder(@, w)]
          BY <4>1 DEF SetOrder
        <5> DEFINE k == SetKickTakerOrder(pl[p].pk, w)
                   q == pl[p]
        <5>2. pl' = [pl EXCEPT ![p] = [q EXCEPT !.pk = k]]
          BY <5>1
        <5>3. q \in PlayerStates
          BY <3>1
        <5> HIDE DEF k, q
        <5>4. [q EXCEPT !.pk = k].gm = q.gm
          BY <5>3 DEF PlayerStates
        <5> QED
          BY <5>2, <5>4 DEF q
      <4>2. CASE SetIntention(p) \/ FinishIntention(p)
        <5> DEFINE q == pl[p]
        <5>1. PICK b \in BOOLEAN : pl' = [pl EXCEPT ![p] = [q EXCEPT !.intention = b]]
          BY <4>2 DEF SetIntention, FinishIntention
        <5>3. q \in PlayerStates
          BY <3>1
        <5> HIDE DEF q
        <5>4. [q EXCEPT !.intention = b].gm = q.gm
          BY <5>3 DEF PlayerStates
        <5> QED
          BY <5>1, <5>4 DEF q
      <4> QED
        BY <2>2, <4>1, <4>2
    <3> QED
      BY <3>1, <3>2
  <2> QED
    BY <2>1, <2>2
<1>3. Known(ref') = Known(ref)
  BY <1>1 DEF Known
<1> QED
  BY <1>1, <1>2, <1>3 DEF CatchFollows

LEMMA NextLeads == IInv /\ CatchFollows /\ [Next]_vars => CatchFollows'
<1> SUFFICES ASSUME TypeOK, CatchFollows, [Next]_vars PROVE CatchFollows'
  BY DEF IInv
<1> QED
  BY AnnouncePlayLeads, AnnounceCatchLeads, ShootoutLeads, HearRefereeLeads, OthersLead
  DEF Next

-----------------------------------------------------------------------------
(* The theorems.                                                           *)

\* The variables of the model keep their types; in particular a player never takes an
\* order of kick takers that is not the one agreed upon (setKickTakerOrder).
THEOREM RefereeTypes == Spec => []TypeOK
<1>1. IInv => TypeOK
  BY DEF IInv
<1> QED
  BY <1>1, InvariantHolds, PTL

\* Whatever the size of the team, the order and the number of kicks: a player that heard
\* every announcement once finds by PenaltyKickState::isKickTaker that it is the kick
\* taker if and only if the referee waits for it.
THEOREM TurnIsKnown == Spec => []KickTakerIsInTurn
<1>1. IInv => KickTakerIsInTurn
  <2> SUFFICES ASSUME IInv, NEW p \in Unums \ doubled, net[p] = <<>>, pl[p].pk.order # <<>>
               PROVE  IsKickTaker(pl[p].pk, p) <=>
                        /\ ref.mode.type \in KickTypes /\ ref.mode.side = OurSide
                        /\ Order[((ref.kicks[OurSide] - 1) % TeamSize) + 1] = p
    BY DEF KickTakerIsInTurn, UpToDate
  <2> DEFINE k == pl[p].pk
  <2>1. k \in PenaltyKickStates /\ k.order = Order
    BY DEF IInv, TypeOK, PenaltyKickStates
  <2>2. Tracks(pl[p], <<>>, ref)
    BY DEF IInv
  <2>3. Count(<<>>, "PenaltySetup_", OurSide) = 0
    BY CountEmpty
  <2>4. /\ k.ours + 0 = ref.kicks[OurSide] /\ k.ours \in Nat
        /\ k.kickSide = IF k.ours > 0 /\ ref.mode.type \in KickTypes THEN ref.mode.side
                        ELSE "NEUTRAL"
    BY <2>1, <2>2, <2>3 DEF Tracks, PenaltyKickStates
  <2>5. ref.mode.type \in KickTypes /\ ref.mode.side = OurSide => k.ours > 0
    BY <2>4 DEF IInv, KickIsCounted, KickTypes, PenaltyTypes
  <2>6. OurSide # "NEUTRAL"
    BY RefereeAssumption
  <2> QED
    BY <2>1, <2>4, <2>5, <2>6 DEF IsKickTaker
<1> QED
  BY <1>1, InvariantHolds, PTL

\* The score of the shootout and the goal in use, as PenaltyKickState::update keeps them.
THEOREM ScoreIsRight == Spec => []ScoreIsKept
<1>1. IInv => ScoreIsKept
  <2> SUFFICES ASSUME IInv, NEW p \in Unums \ doubled, net[p] = <<>>
               PROVE  /\ pl[p].pk.ourScore = ref.goals[OurSide]
                      /\ pl[p].pk.theirScore = ref.goals[Opposite(OurSide)]
                      /\ pl[p].pk.onfield = ref.onfield
    BY DEF ScoreIsKept, UpToDate
  <2>1. pl[p].pk.ourScore \in Nat /\ pl[p].pk.theirScore \in Nat
    BY DEF IInv, TypeOK, PenaltyKickStates
  <2>2. Tracks(pl[p], <<>>, ref)
    BY DEF IInv
  <2>3. /\ Count(<<>>, "PenaltyScore_", OurSide) = 0
        /\ Count(<<>>, "PenaltyScore_", Theirs) = 0 /\ Len(<<>>) = 0
    BY CountEmpty
  <2> QED
    BY <2>1, <2>2, <2>3 DEF Tracks, Theirs
<1> QED
  BY <1>1, InvariantHolds, PTL

\* A player that has heard all announcements knows that the free kick is a goalie's if
\* and only if the last one was a catch: GameMode::update drops the free kick that comes
\* with the catch, no other, also when both are heard twice.
THEOREM CatchesAreKnown == Spec => []CatchIsKnown
<1>1. Init => CatchFollows
  <2> SUFFICES ASSUME Init PROVE CatchFollows
    OBVIOUS
  <2>1. Mode("BeforeKickOff", "NEUTRAL", 0) \in Modes
    BY RefereeAssumption DEF Mode, Modes, Types
  <2>2. /\ \A p \in Unums : net[p] = <<>> /\ pl[p].gm = Mode("BeforeKickOff", "NEUTRAL", 0)
        /\ ref.mode = Mode("BeforeKickOff", "NEUTRAL", 0) /\ ref.catch = FALSE
    BY DEF Init, NewPlayer
  <2> QED
    BY <2>1, <2>2, LeadsNowhere DEF CatchFollows, Known, Mode
<1>2. Spec => []CatchFollows
  BY <1>1, InvariantHolds, NextLeads, PTL DEF Spec
<1>3. IInv /\ CatchFollows => CatchIsKnown
  <2> SUFFICES ASSUME TypeOK, CatchFollows, NEW p \in Unums, net[p] = <<>>
               PROVE  ref.catch <=> pl[p].gm.type = "GoalieCatch_"
    BY DEF CatchIsKnown, UpToDate, IInv
  <2>1. Leads(pl[p].gm, <<>>, Known(ref))
    BY DEF CatchFollows
  <2>2. pl[p].gm = Known(ref)
    BY <2>1 DEF Leads
  <2>3. ref.mode \in Modes /\ ref.catch \in BOOLEAN
    BY DEF TypeOK
  <2> QED
    BY <2>2, <2>3 DEF Known, CatchFollows, Modes
<1> QED
  BY <1>2, <1>3, InvariantHolds, PTL
=============================================================================
