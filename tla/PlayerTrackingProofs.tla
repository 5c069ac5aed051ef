-------------------------- MODULE PlayerTrackingProofs --------------------------
(***************************************************************************)
(* Theorems about PlayerTracking, for teams of any size, any number of     *)
(* objects and any thresholds.  What may be remembered of one player is    *)
(* Sound, and what of all of them is Memory; each operator of the model    *)
(* that makes a new memory from one keeps it.                              *)
(***************************************************************************)
EXTENDS PlayerTracking, TLAPS

\* What may be remembered of a player.
Sound(p) ==
  /\ p \in Players
  /\ IF p.list = "none" THEN p = NoPlayer
     ELSE \/ p.posCount < PosCountThr
          \/ p.posCount = Forgotten /\ p.list \in Teams
  /\ p.goalie /\ ~p.guess => p.list \in Teams /\ p.unum # 0 /\ IsGoalie(p.list, p.unum)
  /\ p.list = "unknown" /\ p.unum # 0 => p.guess
  /\ p.sure => p.unum # 0 \/ p.guess

\* NumbersAreUnique, of any memory.
Unique(ob) ==
  \A o, q \in Objects :
    /\ o # q /\ ob[o].list \in Teams /\ ob[o].list = ob[q].list
    /\ ob[o].unum = ob[q].unum /\ ob[o].unum # 0
    => ob[o].guess \/ ob[q].guess

Memory(ob) ==
  /\ ob \in [Objects -> Players]
  /\ \A o \in Objects : Sound(ob[o])
  /\ Unique(ob)

\* The other components of the state.
Worlds ==
  [seen : BOOLEAN, full : BOOLEAN, decided : BOOLEAN, late : BOOLEAN,
   mode : {"before_kick_off"} \cup Modes, heard : SUBSET Sayings,
   ourGoalie : {0} \cup Unums, theirGoalie : {0} \cup Unums,
   kickMate : Pointers, kickOpp : Pointers]

\* How they hang together: what a decision found is forgotten with the new cycle,
\* and a number is seen by a message of it.
World ==
  /\ pc \in {"idle", "decide"}
  /\ wm \in Worlds
  /\ pc = "decide" => wm.decided
  /\ ~wm.decided => wm.kickMate = "none" /\ wm.kickOpp = "none"
  /\ ~wm.seen /\ ~wm.full => \A o \in Objects : ~obj[o].sure

IInv == Memory(obj) /\ World /\ KickablesExist

-----------------------------------------------------------------------------
(* The operators on one player.                                            *)

LEMMA Constants ==
  /\ SelfUnum \in Unums /\ OurGoalie \in Unums /\ TheirGoalie \in Unums
  /\ 0 \notin Unums /\ Unums \subseteq Nat
  /\ PosCountThr \in Nat /\ 0 < PosCountThr /\ 1 < PosCountThr
  /\ Forgotten \in 0..Forgotten /\ Forgotten \in Nat /\ PosCountThr <= Forgotten
  /\ 0 \in 0..Forgotten /\ 1 \in 0..Forgotten /\ 0 \in Nat
  /\ "none" \notin Objects /\ "dangling" \notin Objects
  /\ "none" \notin Lists /\ Teams \subseteq Lists /\ "unknown" \in Lists
  /\ "unknown" \notin Teams /\ "none" \notin Teams
PROOF
  <1>1. /\ SelfUnum \in Unums /\ OurGoalie \in Unums /\ TheirGoalie \in Unums
        /\ 0 \notin Unums /\ Unums \subseteq Nat
    BY PlayerTrackingAssumption DEF Unums
  <1>2. PosCountThr \in Nat /\ 0 < PosCountThr /\ 1 < PosCountThr
        /\ Forgotten \in 0..Forgotten /\ Forgotten \in Nat /\ PosCountThr <= Forgotten
        /\ 0 \in 0..Forgotten /\ 1 \in 0..Forgotten /\ 0 \in Nat
        /\ "none" \notin Objects /\ "dangling" \notin Objects
    BY PlayerTrackingAssumption
  <1> QED
    BY <1>1, <1>2 DEF Lists, Teams

LEMMA NoPlayerSound == Sound(NoPlayer)
PROOF
  <1> QED
    BY Constants DEF Sound, NoPlayer, Players

\* What a see leaves of the player it is matched with.
LEMMA SeenFields ==
  ASSUME NEW p \in Players, NEW l, NEW n
  PROVE  LET r == UpdateBySee(p, l, n)
         IN /\ r.list = l /\ r.posCount = 0 /\ r.ghost = 0 /\ r.guess = p.guess
            /\ r.unum = IF n = 0 THEN p.unum ELSE n
            /\ r.sure = (p.sure \/ n # 0)
            /\ r.goalie = IF n = 0 THEN p.goalie ELSE IsGoalie(l, n)
PROOF
  <1> QED
    BY DEF UpdateBySee, Players

LEMMA SeenType ==
  ASSUME NEW p \in Players, NEW l \in Lists, NEW n \in {0} \cup Unums
  PROVE  UpdateBySee(p, l, n) \in Players
PROOF
  <1>1. IsGoalie(l, n) \in BOOLEAN /\ (p.sure \/ n # 0) \in BOOLEAN
    BY DEF IsGoalie
  <1>2. (IF n = 0 THEN p.unum ELSE n) \in {0} \cup Unums
    BY DEF Players
  <1>3. (IF n = 0 THEN p.goalie ELSE IsGoalie(l, n)) \in BOOLEAN
    BY <1>1 DEF Players
  <1> QED
    BY <1>1, <1>2, <1>3, Constants DEF UpdateBySee, Players

\* What is heard leaves of a player, if it is not heard of as the goalie, or is.
LEMMA HeardPlayerFields ==
  ASSUME NEW p \in Players, NEW n
  PROVE  LET r == UpdateByHear(p, n, FALSE)
         IN /\ r.list = p.list /\ r.sure = p.sure
            /\ r.unum = IF n # 0 /\ ~p.sure THEN n ELSE p.unum
            /\ r.posCount = IF p.posCount = 0 THEN 0 ELSE 1
            /\ r.goalie = p.goalie /\ r.guess = p.guess
PROOF
  <1> DEFINE r == UpdateByHear(p, n, FALSE)
  <1>1. p.goalie \in BOOLEAN /\ p.guess \in BOOLEAN
    BY DEF Players
  <1>2. /\ r.list = p.list /\ r.sure = p.sure
        /\ r.unum = IF n # 0 /\ ~p.sure THEN n ELSE p.unum
        /\ r.posCount = IF p.posCount = 0 THEN 0 ELSE 1
    BY DEF UpdateByHear, Players
  <1>3. r.goalie = p.goalie
    BY <1>1 DEF UpdateByHear, Players
  <1>4. r.guess = p.guess
    BY <1>1 DEF UpdateByHear, Players
  <1> QED
    BY <1>2, <1>3, <1>4

LEMMA HeardGoalieFields ==
  ASSUME NEW p \in Players, NEW n
  PROVE  LET r == UpdateByHear(p, n, TRUE)
         IN /\ r.list = p.list /\ r.sure = p.sure
            /\ r.unum = IF n # 0 /\ ~p.sure THEN n ELSE p.unum
            /\ r.posCount = IF p.posCount = 0 THEN 0 ELSE 1
            /\ r.guess <=> p.guess \/ ~p.goalie \/ n \notin {0, p.unum}
PROOF
  <1> DEFINE r == UpdateByHear(p, n, TRUE)
  <1>1. /\ r.list = p.list /\ r.sure = p.sure
        /\ r.unum = IF n # 0 /\ ~p.sure THEN n ELSE p.unum
        /\ r.posCount = IF p.posCount = 0 THEN 0 ELSE 1
    BY DEF UpdateByHear, Players
  <1>2. r.guess <=> p.guess \/ ~p.goalie \/ n \notin {0, p.unum}
    BY DEF UpdateByHear, Players
  <1> QED
    BY <1>1, <1>2

LEMMA HeardType ==
  ASSUME NEW p \in Players, NEW n \in {0} \cup Unums, NEW goalie \in BOOLEAN
  PROVE  UpdateByHear(p, n, goalie) \in Players
PROOF
  <1>1. (IF n # 0 /\ ~p.sure THEN n ELSE p.unum) \in {0} \cup Unums
    BY DEF Players
  <1>2. (IF p.posCount = 0 THEN 0 ELSE 1) \in 0..Forgotten
    BY Constants
  <1> QED
    BY <1>1, <1>2, Constants DEF UpdateByHear, Players

\* What a player is that gets a team and a number.
LEMMA SetTeamFields ==
  ASSUME NEW p \in Players, NEW team \in Teams, NEW n \in {0} \cup Unums,
         NEW goalie \in BOOLEAN
  PROVE  LET r == SetTeam(p, team, n, goalie)
         IN /\ r \in Players
            /\ r.list = team /\ r.unum = n /\ r.goalie = goalie
            /\ r.sure = p.sure /\ r.posCount = p.posCount /\ r.ghost = p.ghost
            /\ r.guess = (p.guess \/ goalie)
PROOF
  <1> QED
    BY Constants DEF SetTeam, Players

\* A sight that may match a player leaves one that may be remembered.
LEMMA SeenSound ==
  ASSUME NEW p, Sound(p), NEW l \in Lists, NEW n \in {0} \cup Unums,
         n # 0 => l \in Teams,
         n = 0 => p.list \in {l, "unknown", "none"}
  PROVE  Sound(UpdateBySee(p, l, n))
PROOF
  <1> DEFINE r == UpdateBySee(p, l, n)
  <1>1. p \in Players
    BY DEF Sound
  <1>2. r \in Players
    BY <1>1, SeenType
  <1>3. /\ r.list = l /\ r.posCount = 0 /\ r.guess = p.guess
        /\ r.unum = IF n = 0 THEN p.unum ELSE n
        /\ r.sure = (p.sure \/ n # 0)
        /\ r.goalie = IF n = 0 THEN p.goalie ELSE IsGoalie(l, n)
    BY <1>1, SeenFields
  <1> HIDE DEF r
  <1>4. p.list = "none" => p.unum = 0 /\ ~p.goalie /\ ~p.sure
    BY DEF Sound, NoPlayer
  <1>5. CASE n = 0
    BY <1>2, <1>3, <1>4, <1>5, Constants DEF Sound, r
  <1>6. CASE n # 0
    BY <1>2, <1>3, <1>6, Constants DEF Sound, r
  <1> QED
    BY <1>5, <1>6

\* So does what is heard of the number and the place of a player.
HeardOf(p, team, n) == UpdateByHear([p EXCEPT !.list = team], n, FALSE)

LEMMA HeardSound ==
  ASSUME NEW p, Sound(p), NEW team \in Teams, NEW n \in Unums,
         \/ p.list \in {"unknown", "none"}
         \/ p.list = team /\ p.unum \in {0, n}
  PROVE  LET r == HeardOf(p, team, n)
         IN /\ Sound(r)
            /\ r.list = team /\ r.sure = p.sure /\ r.guess = p.guess
            /\ r.unum = IF p.sure THEN p.unum ELSE n
PROOF
  <1> DEFINE t == [p EXCEPT !.list = team]
             r == UpdateByHear(t, n, FALSE)
  <1>1. p \in Players
    BY DEF Sound
  <1>2. /\ t \in Players /\ t.list = team /\ t.unum = p.unum /\ t.sure = p.sure
        /\ t.goalie = p.goalie /\ t.posCount = p.posCount /\ t.guess = p.guess
    BY <1>1, Constants DEF Players
  <1>3. n # 0 /\ n \in {0} \cup Unums
    BY Constants
  <1> HIDE DEF t
  <1>4. r \in Players
    BY <1>2, <1>3, HeardType
  <1>5. /\ r.list = team /\ r.sure = p.sure
        /\ r.unum = IF p.sure THEN p.unum ELSE n
        /\ r.goalie = p.goalie /\ r.posCount = IF p.posCount = 0 THEN 0 ELSE 1
        /\ r.guess = p.guess
    <2>1. /\ r.list = t.list /\ r.sure = t.sure
          /\ r.unum = IF n # 0 /\ ~t.sure THEN n ELSE t.unum
          /\ r.posCount = IF t.posCount = 0 THEN 0 ELSE 1
          /\ r.goalie = t.goalie /\ r.guess = t.guess
      BY <1>2, HeardPlayerFields
    <2> QED
      BY <1>2, <1>3, <2>1
  <1> HIDE DEF r
  <1>6. p.list = "none" => p.unum = 0 /\ ~p.goalie /\ ~p.sure
    BY DEF Sound, NoPlayer
  <1>7. r.posCount < PosCountThr
    BY <1>5, Constants
  <1>8. r.goalie /\ ~r.guess => r.list \in Teams /\ r.unum # 0 /\ IsGoalie(r.list, r.unum)
    <2> SUFFICES ASSUME p.goalie, ~p.guess
                 PROVE  r.unum # 0 /\ IsGoalie(r.list, r.unum)
      BY <1>5
    <2>1. p.list \in Teams /\ p.unum # 0 /\ IsGoalie(p.list, p.unum)
      BY DEF Sound
    <2>2. p.list = team /\ p.unum = n
      BY <2>1, Constants
    <2> QED
      BY <1>5, <2>1, <2>2
  <1>9. r.sure => r.unum # 0 \/ r.guess
    BY <1>5 DEF Sound
  <1>10. Sound(r)
    BY <1>4, <1>5, <1>7, <1>8, <1>9, Constants DEF Sound
  <1>11. HeardOf(p, team, n) = r
    BY DEF HeardOf, r, t
  <1> QED
    BY <1>5, <1>10, <1>11

\* Whoever is taken for the goalie because it was heard of is marked as a guess,
\* unless it was known as goalie with the same number.
LEMMA HeardGoalieSound ==
  ASSUME NEW p \in Players, p.list # "none", NEW n \in {0} \cup Unums,
         p.goalie /\ ~p.guess => p.list \in Teams /\ p.unum # 0 /\ IsGoalie(p.list, p.unum),
         p.list = "unknown" /\ p.unum # 0 => p.guess,
         p.sure => p.unum # 0 \/ p.guess
  PROVE  /\ Sound(UpdateByHear(p, n, TRUE))
         /\ LET r == UpdateByHear(p, n, TRUE)
            IN r.list = p.list /\ r.sure = p.sure
               /\ (r.guess \/ (r.unum = p.unum /\ r.guess = p.guess))
               /\ (p.sure => r.unum = p.unum)
PROOF
  <1> DEFINE r == UpdateByHear(p, n, TRUE)
  <1>1. r \in Players
    BY HeardType
  <1>2. /\ r.list = p.list /\ r.sure = p.sure
        /\ r.unum = IF n # 0 /\ ~p.sure THEN n ELSE p.unum
        /\ r.posCount = IF p.posCount = 0 THEN 0 ELSE 1
        /\ (r.guess <=> p.guess \/ ~p.goalie \/ n \notin {0, p.unum})
    BY HeardGoalieFields
  <1> HIDE DEF r
  <1>3. r.posCount < PosCountThr
    BY <1>2, Constants
  <1>4. ~r.guess => ~p.guess /\ p.goalie /\ n \in {0, p.unum}
    BY <1>2
  <1>5. ~r.guess => r.unum = p.unum
    BY <1>2, <1>4
  <1>6. p.guess => r.guess
    BY <1>2
  <1>7. p.guess \in BOOLEAN /\ r.guess \in BOOLEAN
    BY <1>1 DEF Players
  <1>8. Sound(r)
    BY <1>1, <1>2, <1>3, <1>4, <1>5, Constants DEF Sound
  <1>9. r.guess \/ (r.unum = p.unum /\ r.guess = p.guess)
    BY <1>4, <1>5, <1>6, <1>7
  <1> QED
    BY <1>2, <1>8, <1>9 DEF r

\* A player that gets a team and a number of it, as a goalie only by a guess.
LEMMA SetTeamSound ==
  ASSUME NEW p, Sound(p), p.list # "none", NEW team \in Teams,
         NEW n \in {0} \cup Unums, NEW goalie \in BOOLEAN, n # 0 \/ goalie
  PROVE  Sound(SetTeam(p, team, n, goalie))
PROOF
  <1> DEFINE r == SetTeam(p, team, n, goalie)
  <1>1. /\ p \in Players
        /\ p.posCount < PosCountThr \/ p.posCount = Forgotten
    BY DEF Sound
  <1>2. /\ r \in Players
        /\ r.list = team /\ r.unum = n /\ r.goalie = goalie
        /\ r.sure = p.sure /\ r.posCount = p.posCount
        /\ r.guess = (p.guess \/ goalie)
    BY <1>1, SetTeamFields
  <1> HIDE DEF r
  <1>3. Sound(r)
    BY <1>1, <1>2, Constants DEF Sound
  <1> QED
    BY <1>3 DEF r

-----------------------------------------------------------------------------
(* The operators on all players.                                           *)

\* A player is forgotten, or it stays who it was.
Remains(p, r) ==
  r = NoPlayer \/ (r.list = p.list /\ r.unum = p.unum /\ r.guess = p.guess)

\* Whatever is forgotten, what remains is a memory.
LEMMA RemainderIsMemory ==
  ASSUME NEW ob, Memory(ob), NEW rest \in [Objects -> Players],
         \A o \in Objects : Sound(rest[o]) /\ Remains(ob[o], rest[o])
  PROVE  Memory(rest)
PROOF
  <1>1. Unique(rest)
    <2> SUFFICES ASSUME NEW o \in Objects, NEW q \in Objects, o # q,
                        rest[o].list \in Teams, rest[o].list = rest[q].list,
                        rest[o].unum = rest[q].unum, rest[o].unum # 0
                 PROVE  rest[o].guess \/ rest[q].guess
      BY DEF Unique
    <2>1. rest[o] # NoPlayer /\ rest[q] # NoPlayer
      BY Constants DEF NoPlayer
    <2>2. /\ rest[o].list = ob[o].list /\ rest[o].unum = ob[o].unum
          /\ rest[q].list = ob[q].list /\ rest[q].unum = ob[q].unum
          /\ rest[o].guess = ob[o].guess /\ rest[q].guess = ob[q].guess
      BY <2>1 DEF Remains
    <2> QED
      BY <2>2 DEF Memory, Unique
  <1> QED
    BY <1>1 DEF Memory

\* One player changes; if it is not marked as a guess, no other one has its number.
LEMMA OneChanges ==
  ASSUME NEW ob, Memory(ob), NEW o \in Objects, NEW r, Sound(r),
         r.guess \/ \A q \in Objects \ {o} :
           ob[q].list = r.list /\ r.list \in Teams /\ ob[q].unum = r.unum /\ r.unum # 0
             => ob[q].guess
  PROVE  Memory([ob EXCEPT ![o] = r])
PROOF
  <1> DEFINE new == [ob EXCEPT ![o] = r]
  <1>1. new[o] = r /\ \A q \in Objects \ {o} : new[q] = ob[q]
    BY DEF Memory
  <1>2. new \in [Objects -> Players] /\ \A q \in Objects : Sound(new[q])
    BY DEF Memory, Sound
  <1> HIDE DEF new
  <1>3. Unique(new)
    <2> SUFFICES ASSUME NEW q \in Objects, NEW s \in Objects, q # s,
                        new[q].list \in Teams, new[q].list = new[s].list,
                        new[q].unum = new[s].unum, new[q].unum # 0
                 PROVE  new[q].guess \/ new[s].guess
      BY DEF Unique
    <2>1. CASE q # o /\ s # o
      BY <1>1, <2>1 DEF Memory, Unique
    <2>2. CASE q = o
      BY <1>1, <2>2
    <2>3. CASE s = o
      BY <1>1, <2>3
    <2> QED
      BY <2>1, <2>2, <2>3
  <1> QED
    BY <1>2, <1>3 DEF Memory, new

\* A new cycle only forgets.
LEMMA AgedSound ==
  ASSUME NEW p, Sound(p), p.list # "none"
  PROVE  Sound(Aged(p)) /\ Remains(p, Aged(p)) /\ ~Aged(p).sure
PROOF
  <1>1. CASE p.posCount + 1 < PosCountThr
    <2> DEFINE r == [p EXCEPT !.posCount = @ + 1, !.sure = FALSE]
    <2>1. p \in Players /\ p.posCount \in 0..Forgotten
      BY DEF Sound, Players
    <2>2. p.posCount + 1 \in 0..Forgotten
      BY <1>1, <2>1, Constants
    <2>3. r \in Players
      BY <2>1, <2>2 DEF Players
    <2>4. /\ r.list = p.list /\ r.unum = p.unum /\ r.goalie = p.goalie
          /\ r.guess = p.guess /\ r.sure = FALSE /\ r.posCount = p.posCount + 1
      BY <2>1 DEF Players
    <2>5. Aged(p) = r
      BY <1>1 DEF Aged
    <2> HIDE DEF r
    <2>6. Sound(r) /\ Remains(p, r)
      BY <1>1, <2>3, <2>4 DEF Sound, Remains
    <2> QED
      BY <2>4, <2>5, <2>6
  <1>2. CASE ~(p.posCount + 1 < PosCountThr)
    <2>1. Aged(p) = NoPlayer
      BY <1>2 DEF Aged
    <2>2. ~NoPlayer.sure
      BY DEF NoPlayer
    <2> QED
      BY <2>1, <2>2, NoPlayerSound DEF Remains
  <1> QED
    BY <1>1, <1>2

\* A card leaves of the player all but its place.
LEMMA ForgetSound ==
  ASSUME NEW p, Sound(p), p.list \in Teams
  PROVE  Sound(Forget(p)) /\ Remains(p, Forget(p)) /\ Forget(p).sure = p.sure
PROOF
  <1> DEFINE r == Forget(p)
  <1>1. p \in Players
    BY DEF Sound
  <1>2. r \in Players
    BY <1>1, Constants DEF Forget, Players
  <1>3. /\ r.list = p.list /\ r.unum = p.unum /\ r.goalie = p.goalie
        /\ r.guess = p.guess /\ r.sure = p.sure /\ r.posCount = Forgotten
    BY <1>1 DEF Forget, Players
  <1> HIDE DEF r
  <1>4. Sound(r) /\ Remains(p, r) /\ r.sure = p.sure
    BY <1>2, <1>3, Constants DEF Sound, Remains
  <1> QED
    BY <1>4 DEF r

\* checkGhost only forgets.
LEMMA MissedSound ==
  ASSUME NEW p, Sound(p), p.list # "none", NEW near
  PROVE  Sound(Missed(p, near)) /\ Remains(p, Missed(p, near))
PROOF
  <1>1. CASE IsErased(p, near)
    BY <1>1, NoPlayerSound DEF Missed, Remains
  <1>2. CASE ~IsErased(p, near)
    <2> DEFINE r == [p EXCEPT !.ghost = @ + 1]
    <2>1. p \in Players /\ p.ghost + 1 \in Nat
      BY DEF Sound, Players
    <2>2. r \in Players
      BY <2>1 DEF Players
    <2>3. /\ r.list = p.list /\ r.unum = p.unum /\ r.goalie = p.goalie
          /\ r.guess = p.guess /\ r.sure = p.sure /\ r.posCount = p.posCount
      BY <2>1 DEF Players
    <2>4. Missed(p, near) = r
      BY <1>2 DEF Missed
    <2> HIDE DEF r
    <2> QED
      BY <2>2, <2>3, <2>4 DEF Sound, Remains
  <1> QED
    BY <1>1, <1>2

LEMMA GhostsKeepMemory ==
  ASSUME NEW ob, Memory(ob), NEW rest \in CheckGhost(ob)
  PROVE  Memory(rest)
PROOF
  <1>1. PICK view \in SUBSET (Objects \ Free(ob)), near \in SUBSET Objects :
          rest = [o \in Objects |-> IF o \in view THEN Missed(ob[o], o \in near) ELSE ob[o]]
    <2>1. PICK view \in SUBSET (Objects \ Free(ob)) :
            \E near \in SUBSET (view \cap In(ob, "unknown")) :
              rest = [o \in Objects |-> IF o \in view THEN Missed(ob[o], o \in near) ELSE ob[o]]
      BY DEF CheckGhost
    <2> QED
      BY <2>1
  <1>2. \A o \in Objects : Sound(rest[o]) /\ Remains(ob[o], rest[o])
    <2> SUFFICES ASSUME NEW o \in Objects PROVE Sound(rest[o]) /\ Remains(ob[o], rest[o])
      OBVIOUS
    <2>1. CASE o \in view
      <3>1. Sound(ob[o]) /\ ob[o].list # "none"
        BY <2>1 DEF Memory, Free, In
      <3>2. rest[o] = Missed(ob[o], o \in near)
        BY <1>1, <2>1
      <3> QED
        BY <3>1, <3>2, MissedSound
    <2>2. CASE o \notin view
      BY <1>1, <2>2 DEF Memory, Remains
    <2> QED
      BY <2>1, <2>2
  <1>3. rest \in [Objects -> Players]
    BY <1>1, <1>2 DEF Sound
  <1> QED
    BY <1>2, <1>3, RemainderIsMemory

\* So does the check of the numbers of players.
LEMMA FittingKeepsMemory ==
  ASSUME NEW ob, Memory(ob), NEW rest \in Fitting(ob)
  PROVE  Memory(rest)
PROOF
  <1>1. PICK out : rest = Without(ob, out)
    BY DEF Fitting
  <1>2. \A o \in Objects : Sound(rest[o]) /\ Remains(ob[o], rest[o])
    BY <1>1, NoPlayerSound DEF Without, Memory, Remains
  <1>3. rest \in [Objects -> Players]
    BY <1>1, <1>2 DEF Sound, Without
  <1> QED
    BY <1>2, <1>3, RemainderIsMemory

\* What the sights make of the players is a memory: a number goes to the player that
\* has it, and if nobody has it, only a guess of the unknown list can bring it too.
LEMMA SightsKeepMemory ==
  ASSUME Memory(obj), NEW f \in LocalizePlayers
  PROVE  Memory(Localized(f))
PROOF
  <1> DEFINE new == Localized(f)
  <1>1. /\ \A o \in Objects : f[o] \in Sights \cup {NotSeen}
        /\ \A o \in Objects : f[o] # NotSeen => Matches(o, f[o])
        /\ \A o, q \in Objects : o # q /\ f[o] = f[q] => f[o].unum = 0
    BY DEF LocalizePlayers
  <1>2. \A o \in Objects : f[o] = NotSeen => new[o] = obj[o]
    BY DEF Localized
  <1>3. ASSUME NEW o \in Objects, f[o] # NotSeen
        PROVE  LET l == NewList(obj[o], f[o])
                   n == f[o].unum
               IN /\ l \in Lists /\ n \in {0} \cup Unums
                  /\ n # 0 => l \in Teams /\ l = f[o].team
                  /\ n = 0 => obj[o].list \in {l, "unknown", "none"}
                  /\ new[o] = UpdateBySee(obj[o], l, n)
                  /\ l \in Teams => obj[o].list \in {l, "unknown", "none"}
                                      /\ f[o].team \in {l, "unknown"}
    <2> DEFINE l == NewList(obj[o], f[o])
               n == f[o].unum
    <2>1. f[o] \in Sights
      BY <1>1, <1>3
    <2>2. /\ f[o].team \in Lists /\ n \in {0} \cup Unums
          /\ n # 0 => f[o].team \in Teams
      BY <2>1 DEF Sights
    <2>3. obj[o].list \in Lists \cup {"none"}
      BY DEF Memory, Players
    <2>4. l \in Lists /\ (n # 0 => l \in Teams /\ l = f[o].team)
      BY <2>2, Constants DEF NewList
    <2>5. Matches(o, f[o])
      BY <1>1, <1>3
    <2>6. obj[o].list \in {l, "unknown", "none"}
      <3>1. CASE f[o].team = "unknown"
        BY <2>3, <3>1 DEF NewList, Lists
      <3>2. CASE f[o].team # "unknown"
        BY <2>5, <3>2 DEF NewList, Matches, Numbered, In
      <3> QED
        BY <3>1, <3>2
    <2>7. new[o] = UpdateBySee(obj[o], l, n)
      BY <1>3 DEF Localized
    <2>8. f[o].team \in {l, "unknown"}
      BY DEF NewList
    <2> QED
      BY <2>2, <2>4, <2>6, <2>7, <2>8
  <1>4. \A o \in Objects : Sound(new[o])
    <2> SUFFICES ASSUME NEW o \in Objects PROVE Sound(new[o])
      OBVIOUS
    <2>1. CASE f[o] = NotSeen
      BY <1>2, <2>1 DEF Memory
    <2>2. CASE f[o] # NotSeen
      <3>1. Sound(obj[o])
        BY DEF Memory
      <3> QED
        BY <1>3, <2>2, <3>1, SeenSound
    <2> QED
      BY <2>1, <2>2
  <1>5. new \in [Objects -> Players]
    <2>1. \A o \in Objects : new[o] \in Players
      BY <1>4 DEF Sound
    <2> QED
      BY <2>1 DEF Localized
  <1> HIDE DEF new
  \* A player of a team that did not get its number from this see had it before, in
  \* the same team or as a guess.
  <1>6. ASSUME NEW o \in Objects, new[o].list \in Teams, new[o].unum # 0, ~new[o].guess,
               f[o] = NotSeen \/ f[o].unum = 0
        PROVE  obj[o].list = new[o].list /\ obj[o].unum = new[o].unum /\ ~obj[o].guess
    <2>1. CASE f[o] = NotSeen
      BY <1>2, <1>6, <2>1
    <2>2. CASE f[o] # NotSeen
      <3>1. obj[o] \in Players /\ Sound(obj[o])
        BY DEF Memory
      <3>2. /\ new[o] = UpdateBySee(obj[o], NewList(obj[o], f[o]), 0) /\ f[o].unum = 0
            /\ obj[o].list \in {NewList(obj[o], f[o]), "unknown", "none"}
        BY <1>3, <1>6, <2>2
      <3>3. /\ new[o].list = NewList(obj[o], f[o])
            /\ new[o].unum = obj[o].unum /\ new[o].guess = obj[o].guess
        BY <3>1, <3>2, SeenFields
      <3>4. obj[o].list # "unknown" /\ obj[o].list # "none"
        BY <1>6, <3>1, <3>3 DEF Sound, NoPlayer
      <3> QED
        BY <1>6, <3>2, <3>3, <3>4
    <2> QED
      BY <2>1, <2>2
  \* A number that was seen was nobody else's without a guess.
  <1>7. ASSUME NEW o \in Objects, NEW q \in Objects, o # q,
               f[o] # NotSeen, f[o].unum # 0, new[o].list = new[q].list,
               new[o].unum = new[q].unum, ~new[o].guess, ~new[q].guess
        PROVE  FALSE
    <2>1. obj[o] \in Players /\ obj[q] \in Players
      BY DEF Memory
    <2>2. /\ new[o] = UpdateBySee(obj[o], f[o].team, f[o].unum) /\ f[o].team \in Teams
      BY <1>3, <1>7
    <2>3. /\ new[o].list = f[o].team /\ new[o].unum = f[o].unum
          /\ new[o].guess = obj[o].guess
      BY <1>7, <2>1, <2>2, SeenFields
    <2>4. CASE f[q] = NotSeen \/ f[q].unum = 0
      <3>1. obj[q].list = f[o].team /\ obj[q].unum = f[o].unum /\ ~obj[q].guess
        BY <1>6, <1>7, <2>2, <2>3, <2>4
      <3>2. q \in Numbered(obj, f[o].team, f[o].unum)
        BY <3>1 DEF Numbered, In
      <3>3. o \in Numbered(obj, f[o].team, f[o].unum)
        BY <1>1, <1>7, <3>2 DEF Matches
      <3> QED
        BY <1>7, <2>2, <2>3, <3>1, <3>3 DEF Memory, Unique, Numbered, In
    <2>5. CASE f[q] # NotSeen /\ f[q].unum # 0
      <3>1. new[q] = UpdateBySee(obj[q], f[q].team, f[q].unum)
        BY <1>3, <2>5
      <3>5. new[q].list = f[q].team /\ new[q].unum = f[q].unum
        BY <2>1, <2>5, <3>1, SeenFields
      <3>2. f[q].team = f[o].team /\ f[q].unum = f[o].unum
        BY <1>7, <2>3, <3>5
      <3>3. f[q] \in Sights /\ f[o] \in Sights
        BY <1>1, <1>7, <2>5
      <3>4. f[q] = f[o]
        BY <3>2, <3>3 DEF Sights
      <3> QED
        BY <1>1, <1>7, <3>4
    <2> QED
      BY <2>4, <2>5
  <1>8. Unique(new)
    <2> SUFFICES ASSUME NEW o \in Objects, NEW q \in Objects, o # q,
                        new[o].list \in Teams, new[o].list = new[q].list,
                        new[o].unum = new[q].unum, new[o].unum # 0,
                        ~new[o].guess, ~new[q].guess
                 PROVE  FALSE
      BY DEF Unique
    <2>1. CASE f[o] # NotSeen /\ f[o].unum # 0
      BY <1>7, <2>1
    <2>2. CASE f[q] # NotSeen /\ f[q].unum # 0
      BY <1>7, <2>2
    <2>3. CASE (f[o] = NotSeen \/ f[o].unum = 0) /\ (f[q] = NotSeen \/ f[q].unum = 0)
      <3>1. /\ obj[o].list = new[o].list /\ obj[o].unum = new[o].unum /\ ~obj[o].guess
            /\ obj[q].list = new[q].list /\ obj[q].unum = new[q].unum /\ ~obj[q].guess
        BY <1>6, <2>3
      <3> QED
        BY <3>1 DEF Memory, Unique
    <2> QED
      BY <2>1, <2>2, <2>3
  <1> QED
    BY <1>4, <1>5, <1>8 DEF Memory, new

\* A fullstate names everybody it tells of: a number goes to the player that has it.
LEMMA AssignmentFields ==
  ASSUME NEW ob, Memory(ob), NEW players \in SUBSET FieldPlayers,
         NEW f \in Assignments(ob, players)
  PROVE  /\ \A p \in players :
              f[p] \in Objects /\ p.team \in Teams /\ p.unum \in Unums /\ p.unum # 0
              /\ AfterFullstate(ob, f, players)[f[p]]
                   = UpdateBySee(ob[f[p]], p.team, p.unum)
              /\ IF Numbered(ob, p.team, p.unum) # {}
                 THEN f[p] \in Numbered(ob, p.team, p.unum) ELSE f[p] \in Free(ob)
         /\ \A o \in Objects : (\A p \in players : f[p] # o)
              => AfterFullstate(ob, f, players)[o] = ob[o]
PROOF
  <1> DEFINE new == AfterFullstate(ob, f, players)
  <1>1. /\ \A p \in players : f[p] \in LET same == Numbered(ob, p.team, p.unum)
                                       IN IF same # {} THEN same ELSE Free(ob)
        /\ \A p, q \in players : p # q => f[p] # f[q]
    BY DEF Assignments
  <1>2. \A p \in players : p.team \in Teams /\ p.unum \in Unums /\ p.unum # 0
    BY Constants DEF FieldPlayers
  <1>3. \A p \in players :
          IF Numbered(ob, p.team, p.unum) # {}
          THEN f[p] \in Numbered(ob, p.team, p.unum) ELSE f[p] \in Free(ob)
    BY <1>1
  <1>4. \A p \in players : f[p] \in Objects
    BY <1>3 DEF Numbered, In, Free
  <1>5. ASSUME NEW p \in players PROVE new[f[p]] = UpdateBySee(ob[f[p]], p.team, p.unum)
    <2> DEFINE c == CHOOSE q \in players : f[q] = f[p]
    <2>1. c \in players /\ f[c] = f[p]
      OBVIOUS
    <2>2. c = p
      BY <1>1, <2>1
    <2>3. new[f[p]] = UpdateBySee(ob[f[p]], c.team, c.unum)
      BY <1>4 DEF AfterFullstate
    <2> QED
      BY <2>2, <2>3
  <1>6. \A o \in Objects : (\A p \in players : f[p] # o) => new[o] = ob[o]
    BY DEF AfterFullstate
  <1> QED
    BY <1>2, <1>3, <1>4, <1>5, <1>6

LEMMA FullstateKeepsMemory ==
  ASSUME NEW ob, Memory(ob), NEW players \in SUBSET FieldPlayers,
         NEW f \in Assignments(ob, players)
  PROVE  Memory(AfterFullstate(ob, f, players))
PROOF
  <1> DEFINE new == AfterFullstate(ob, f, players)
             Told(o) == \E p \in players : f[p] = o
  <1>1. ASSUME NEW o \in Objects, ~Told(o) PROVE new[o] = ob[o]
    BY <1>1, AssignmentFields
  <1>2. ASSUME NEW o \in Objects, Told(o)
        PROVE  \E p \in players :
                 /\ f[p] = o /\ p.team \in Teams /\ p.unum \in Unums /\ p.unum # 0
                 /\ new[o] = UpdateBySee(ob[o], p.team, p.unum)
                 /\ new[o].list = p.team /\ new[o].unum = p.unum
                 /\ new[o].guess = ob[o].guess
                 /\ Numbered(ob, p.team, p.unum) # {} => o \in Numbered(ob, p.team, p.unum)
    <2>1. PICK p \in players : f[p] = o
      BY <1>2
    <2>2. /\ p.team \in Teams /\ p.unum \in Unums /\ p.unum # 0
          /\ new[o] = UpdateBySee(ob[o], p.team, p.unum)
          /\ Numbered(ob, p.team, p.unum) # {} => o \in Numbered(ob, p.team, p.unum)
      BY <2>1, AssignmentFields
    <2>3. ob[o] \in Players
      BY DEF Memory
    <2>4. /\ new[o].list = p.team /\ new[o].unum = p.unum /\ new[o].guess = ob[o].guess
      BY <2>2, <2>3, SeenFields
    <2> QED
      BY <2>1, <2>2, <2>4
  <1>3. \A o \in Objects : Sound(new[o])
    <2> SUFFICES ASSUME NEW o \in Objects PROVE Sound(new[o])
      OBVIOUS
    <2>1. CASE ~Told(o)
      BY <1>1, <2>1 DEF Memory
    <2>2. CASE Told(o)
      <3>1. PICK p \in players :
              /\ p.team \in Teams /\ p.unum \in Unums /\ p.unum # 0
              /\ new[o] = UpdateBySee(ob[o], p.team, p.unum)
        BY <1>2, <2>2
      <3>2. Sound(ob[o]) /\ p.team \in Lists /\ p.unum \in {0} \cup Unums
        BY <3>1, Constants DEF Memory
      <3> QED
        BY <3>1, <3>2, SeenSound
    <2> QED
      BY <2>1, <2>2
  <1>4. new \in [Objects -> Players]
    <2>1. \A o \in Objects : new[o] \in Players
      BY <1>3 DEF Sound
    <2> QED
      BY <2>1 DEF AfterFullstate
  <1>5. \A p, q \in players : f[p] = f[q] => p = q
    BY DEF Assignments
  <1> HIDE DEF new
  \* A player told of and any other one have different numbers, or one is a guess.
  <1>6. ASSUME NEW o \in Objects, NEW q \in Objects, o # q, Told(o),
               new[o].list = new[q].list, new[o].unum = new[q].unum,
               ~new[o].guess, ~new[q].guess
        PROVE  FALSE
    <2>1. PICK p \in players :
            /\ f[p] = o /\ new[o].list = p.team /\ new[o].unum = p.unum
            /\ p.team \in Teams /\ p.unum # 0 /\ new[o].guess = ob[o].guess
            /\ Numbered(ob, p.team, p.unum) # {} => o \in Numbered(ob, p.team, p.unum)
      BY <1>2, <1>6
    <2>2. CASE ~Told(q)
      <3>1. new[q] = ob[q]
        BY <1>1, <2>2
      <3>2. q \in Numbered(ob, p.team, p.unum)
        BY <1>6, <2>1, <3>1 DEF Numbered, In
      <3> QED
        BY <1>6, <2>1, <3>1, <3>2 DEF Memory, Unique, Numbered, In
    <2>3. CASE Told(q)
      <3>1. PICK r \in players : f[r] = q /\ new[q].list = r.team /\ new[q].unum = r.unum
        BY <1>2, <2>3
      <3>2. r.team = p.team /\ r.unum = p.unum
        BY <1>6, <2>1, <3>1
      <3>3. r \in FieldPlayers /\ p \in FieldPlayers
        OBVIOUS
      <3>4. r = p
        BY <3>2, <3>3 DEF FieldPlayers
      <3> QED
        BY <1>6, <2>1, <3>1, <3>4
    <2> QED
      BY <2>2, <2>3
  <1>7. Unique(new)
    <2> SUFFICES ASSUME NEW o \in Objects, NEW q \in Objects, o # q,
                        new[o].list \in Teams, new[o].list = new[q].list,
                        new[o].unum = new[q].unum, new[o].unum # 0,
                        ~new[o].guess, ~new[q].guess
                 PROVE  FALSE
      BY DEF Unique
    <2>1. CASE Told(o)
      BY <1>6, <2>1
    <2>2. CASE Told(q)
      BY <1>6, <2>2
    <2>3. CASE ~Told(o) /\ ~Told(q)
      <3>1. new[o] = ob[o] /\ new[q] = ob[q]
        BY <1>1, <2>3
      <3> QED
        BY <3>1 DEF Memory, Unique
    <2> QED
      BY <2>1, <2>2, <2>3
  <1> QED
    BY <1>3, <1>4, <1>7 DEF Memory, new

\* What happens to a player in a decision: what was seen of it and a guess stay, and
\* if its number was seen it keeps team and number or is marked as a guess.
Kept(p, r) ==
  /\ r.sure = p.sure
  /\ p.guess => r.guess
  /\ p.sure /\ ~r.guess => r.list = p.list /\ r.unum = p.unum

KeptAll(ob, new) == \A q \in Objects : Kept(ob[q], new[q])

LEMMA KeptTransitive ==
  ASSUME NEW ob, NEW ob1, NEW ob2, KeptAll(ob, ob1), KeptAll(ob1, ob2)
  PROVE  KeptAll(ob, ob2)
PROOF
  <1> SUFFICES ASSUME NEW q \in Objects PROVE Kept(ob[q], ob2[q])
    BY DEF KeptAll
  <1>1. Kept(ob[q], ob1[q]) /\ Kept(ob1[q], ob2[q])
    BY DEF KeptAll
  <1> QED
    BY <1>1 DEF Kept

LEMMA OneKept ==
  ASSUME NEW ob, Memory(ob), NEW o \in Objects, NEW r, Kept(ob[o], r)
  PROVE  KeptAll(ob, [ob EXCEPT ![o] = r])
PROOF
  <1> DEFINE new == [ob EXCEPT ![o] = r]
  <1>1. new[o] = r /\ \A q \in Objects \ {o} : new[q] = ob[q]
    BY DEF Memory
  <1> HIDE DEF new
  <1>2. KeptAll(ob, new)
    BY <1>1 DEF KeptAll, Kept
  <1> QED
    BY <1>2 DEF new

LEMMA AllKept ==
  ASSUME NEW ob
  PROVE  KeptAll(ob, ob)
PROOF
  <1> QED
    BY DEF KeptAll, Kept

\* A player without a number, or of neither team, gets a number that is missing.
LEMMA NamedIsMemory ==
  ASSUME NEW ob, Memory(ob), NEW team \in Teams, NEW n \in Missing(ob, team),
         NEW goalie, NEW o \in Objects, ob[o].list # "none",
         ob[o].unum = 0 \/ ob[o].list = "unknown"
  PROVE  /\ Memory(Named(ob, o, team, n, goalie))
         /\ KeptAll(ob, Named(ob, o, team, n, goalie))
PROOF
  <1> DEFINE r == SetTeam(ob[o], team, n, n = goalie)
  <1>1. n \in Unums /\ n # 0 /\ Numbered(ob, team, n) = {}
    BY Constants DEF Missing, Others
  <1>2. Sound(ob[o]) /\ ob[o] \in Players /\ (n = goalie) \in BOOLEAN
        /\ n \in {0} \cup Unums
    BY <1>1 DEF Memory
  <1>3. Sound(r)
    BY <1>1, <1>2, SetTeamSound
  <1>4. r.list = team /\ r.unum = n
    BY <1>2 DEF SetTeam, Players
  <1>5. Named(ob, o, team, n, goalie) = [ob EXCEPT ![o] = r]
    BY DEF Named, Memory
  <1>6. r.sure = ob[o].sure /\ (ob[o].guess => r.guess)
    BY <1>2 DEF SetTeam, Players
  <1> HIDE DEF r
  <1>7. \A q \in Objects : ~(ob[q].list = r.list /\ ob[q].unum = r.unum)
    BY <1>1, <1>4 DEF Numbered, In
  <1>8. Memory([ob EXCEPT ![o] = r])
    BY <1>3, <1>7, OneChanges
  <1>9. ob[o].sure => ob[o].guess
    BY <1>2 DEF Sound
  <1>10. KeptAll(ob, [ob EXCEPT ![o] = r])
    BY <1>6, <1>9, OneKept DEF Kept
  <1> QED
    BY <1>5, <1>8, <1>10

LEMMA EstimateKeepsMemory ==
  ASSUME NEW ob, Memory(ob)
  PROVE  /\ \A new \in EstimatedMate(ob) : Memory(new) /\ KeptAll(ob, new)
         /\ \A new \in EstimatedOpponent(ob) : Memory(new) /\ KeptAll(ob, new)
PROOF
  <1>1. ASSUME NEW new \in EstimatedMate(ob) PROVE Memory(new) /\ KeptAll(ob, new)
    <2>1. CASE new = ob
      BY <2>1, AllKept
    <2>2. CASE new # ob
      <3>1. PICK o \in Numbered(ob, "teammates", 0), n \in Missing(ob, "teammates") :
              new = Named(ob, o, "teammates", n, wm.ourGoalie)
        BY <1>1, <2>2 DEF EstimatedMate
      <3>2. /\ o \in Objects /\ ob[o].list # "none" /\ "teammates" \in Teams
            /\ ob[o].unum = 0
        BY <3>1 DEF Numbered, In, Teams
      <3> QED
        BY <3>1, <3>2, NamedIsMemory
    <2> QED
      BY <2>1, <2>2
  <1>2. ASSUME NEW new \in EstimatedOpponent(ob) PROVE Memory(new) /\ KeptAll(ob, new)
    <2>1. CASE new = ob
      BY <2>1, AllKept
    <2>2. CASE new # ob
      <3>1. PICK o \in Numbered(ob, "opponents", 0) \cup In(ob, "unknown"),
                 n \in Missing(ob, "opponents") :
              new = Named(ob, o, "opponents", n, wm.theirGoalie)
        BY <1>2, <2>2 DEF EstimatedOpponent
      <3>2. /\ o \in Objects /\ ob[o].list # "none" /\ "opponents" \in Teams
            /\ ob[o].unum = 0 \/ ob[o].list = "unknown"
        BY <3>1 DEF Numbered, In, Teams
      <3> QED
        BY <3>1, <3>2, NamedIsMemory
    <2> QED
      BY <2>1, <2>2
  <1> QED
    BY <1>1, <1>2

\* Whoever is taken for the goalie is marked as a guess.
LEMMA GuessKeepsMemory ==
  ASSUME NEW ob, Memory(ob), NEW team \in Teams, NEW n \in {0} \cup Unums,
         NEW enough, NEW known, NEW new \in GuessedGoalie(ob, team, n, enough, known)
  PROVE  Memory(new) /\ KeptAll(ob, new)
PROOF
  <1>1. CASE new = ob
    BY <1>1, AllKept
  <1>2. CASE new # ob
    <2>1. PICK o \in In(ob, team) \cup In(ob, "unknown") :
            new = [ob EXCEPT ![o] = SetTeam(@, team, n, TRUE)]
      BY <1>2 DEF GuessedGoalie
    <2> DEFINE r == SetTeam(ob[o], team, n, TRUE)
    <2>2. o \in Objects /\ ob[o].list # "none"
      BY <2>1, Constants DEF In
    <2>3. Sound(ob[o]) /\ ob[o] \in Players
      BY <2>2 DEF Memory
    <2>4. Sound(r)
      BY <2>2, <2>3, SetTeamSound
    <2>5. r.guess /\ r.sure = ob[o].sure
      BY <2>3 DEF SetTeam, Players
    <2>6. new = [ob EXCEPT ![o] = r]
      BY <2>1, <2>2 DEF Memory
    <2> HIDE DEF r
    <2>7. Memory([ob EXCEPT ![o] = r])
      BY <2>2, <2>4, <2>5, OneChanges
    <2>8. Kept(ob[o], r)
      BY <2>5 DEF Kept
    <2>9. KeptAll(ob, [ob EXCEPT ![o] = r])
      BY <2>2, <2>8, OneKept
    <2> QED
      BY <2>6, <2>7, <2>9
  <1> QED
    BY <1>1, <1>2

LEMMA GoaliesKeepMemory ==
  ASSUME NEW ob, Memory(ob), NEW n \in {0} \cup Unums
  PROVE  /\ \A new \in EstimatedOurGoalie(ob, n) : Memory(new) /\ KeptAll(ob, new)
         /\ \A opponents : \A new \in EstimatedTheirGoalie(ob, n, opponents) :
              Memory(new) /\ KeptAll(ob, new)
PROOF
  <1>1. "teammates" \in Teams /\ "opponents" \in Teams
    BY DEF Teams
  <1>2. \A new \in EstimatedOurGoalie(ob, n) : Memory(new) /\ KeptAll(ob, new)
    BY <1>1, AllKept, GuessKeepsMemory DEF EstimatedOurGoalie
  <1>3. \A opponents : \A new \in EstimatedTheirGoalie(ob, n, opponents) :
          Memory(new) /\ KeptAll(ob, new)
    BY <1>1, GuessKeepsMemory DEF EstimatedTheirGoalie
  <1> QED
    BY <1>2, <1>3

-----------------------------------------------------------------------------
(* The initial state and the steps.                                        *)

LEMMA InitOK ==
  ASSUME Init
  PROVE  IInv
PROOF
  <1>1. \A o \in Objects : obj[o] = NoPlayer
    BY DEF Init
  <1>2. Memory(obj)
    <2>1. NoPlayer \in Players /\ NoPlayer.list = "none"
      BY NoPlayerSound DEF Sound, NoPlayer
    <2>2. obj \in [Objects -> Players]
      BY <2>1 DEF Init
    <2>3. Unique(obj)
      BY <1>1, <2>1, Constants DEF Unique
    <2> QED
      BY <1>1, <2>2, <2>3, NoPlayerSound DEF Memory
  <1>3. /\ pc = "idle" /\ wm \in Worlds /\ wm.kickMate = "none" /\ wm.kickOpp = "none"
    BY Constants DEF Init, Worlds, Pointers
  <1>4. \A o \in Objects : ~obj[o].sure
    BY <1>1 DEF NoPlayer
  <1> QED
    BY <1>2, <1>3, <1>4 DEF IInv, World, KickablesExist

LEMMA RepointedFields ==
  ASSUME NEW w \in Worlds, NEW ob
  PROVE  LET r == Repointed(w, ob)
         IN /\ r \in Worlds
            /\ r.seen = w.seen /\ r.full = w.full /\ r.decided = w.decided
            /\ r.late = w.late
            /\ w.kickMate = "none" => r.kickMate = "none"
            /\ w.kickOpp = "none" => r.kickOpp = "none"
PROOF
  <1> DEFINE mate == Pointer(w.kickMate, ob)
             opp == Pointer(w.kickOpp, ob)
  <1>1. mate \in Pointers /\ opp \in Pointers
    BY DEF Pointer, Pointers, Worlds
  <1>2. /\ w.kickMate = "none" => mate = "none"
        /\ w.kickOpp = "none" => opp = "none"
    BY Constants DEF Pointer, Free, In
  <1>3. Repointed(w, ob) = [w EXCEPT !.kickMate = mate, !.kickOpp = opp]
    BY DEF Repointed, Worlds
  <1> HIDE DEF mate, opp
  <1> QED
    BY <1>1, <1>2, <1>3 DEF Worlds

\* A new cycle: nobody's number is seen yet and no pointer is left.
LEMMA UpdateOK ==
  ASSUME IInv, Update
  PROVE  IInv'
PROOF
  <1>1. PICK clear : obj' = [o \in Objects |-> IF clear \/ o \in Free(obj) THEN NoPlayer
                                               ELSE Aged(obj[o])]
    BY DEF Update
  <1>2. \A o \in Objects : Sound(obj'[o]) /\ Remains(obj[o], obj'[o]) /\ ~obj'[o].sure
    <2> SUFFICES ASSUME NEW o \in Objects
                 PROVE  Sound(obj'[o]) /\ Remains(obj[o], obj'[o]) /\ ~obj'[o].sure
      OBVIOUS
    <2>1. CASE clear \/ o \in Free(obj)
      <3>1. obj'[o] = NoPlayer
        BY <1>1, <2>1
      <3>2. ~NoPlayer.sure
        BY DEF NoPlayer
      <3> QED
        BY <3>1, <3>2, NoPlayerSound DEF Remains
    <2>2. CASE ~(clear \/ o \in Free(obj))
      <3>1. obj'[o] = Aged(obj[o])
        BY <1>1, <2>2
      <3>2. Sound(obj[o]) /\ obj[o].list # "none"
        BY <2>2 DEF IInv, Memory, Free, In
      <3> QED
        BY <3>1, <3>2, AgedSound
    <2> QED
      BY <2>1, <2>2
  <1>3. obj' \in [Objects -> Players]
    BY <1>1, <1>2 DEF Sound
  <1>4. Memory(obj')
    BY <1>2, <1>3, RemainderIsMemory DEF IInv
  <1>5. /\ wm' \in Worlds /\ wm'.kickMate = "none" /\ wm'.kickOpp = "none"
    BY DEF IInv, World, Worlds, Update, Pointers
  <1>6. pc' = "idle"
    BY DEF Update
  <1> QED
    BY <1>2, <1>4, <1>5, <1>6 DEF IInv, World, KickablesExist, Memory, Unique

\* A see: a pointer dangles only if the decision has been made.
LEMMA SeeOK ==
  ASSUME IInv, See
  PROVE  IInv'
PROOF
  <1>1. Memory(obj')
    <2>1. CASE obj' \in CheckGhost(obj)
      BY <2>1, GhostsKeepMemory DEF IInv
    <2>2. CASE obj' \notin CheckGhost(obj)
      <3>1. PICK f \in LocalizePlayers : \E ob \in Fitting(Localized(f)) : obj' \in CheckGhost(ob)
        BY <2>2 DEF See
      <3>2. PICK ob \in Fitting(Localized(f)) : obj' \in CheckGhost(ob)
        BY <3>1
      <3>3. Memory(Localized(f))
        BY SightsKeepMemory DEF IInv
      <3>4. Memory(ob)
        BY <3>3, FittingKeepsMemory
      <3> QED
        BY <3>2, <3>4, GhostsKeepMemory
    <2> QED
      BY <2>1, <2>2
  <1> DEFINE w == [wm EXCEPT !.seen = TRUE, !.late = wm.decided]
  <1>2. /\ w \in Worlds /\ w.seen /\ w.late = wm.decided /\ w.decided = wm.decided
        /\ w.kickMate = wm.kickMate /\ w.kickOpp = wm.kickOpp
    BY DEF IInv, World, Worlds
  <1>3. wm' = Repointed(w, obj') /\ pc' = "idle"
    BY DEF See
  <1> HIDE DEF w
  <1>4. /\ wm' \in Worlds /\ wm'.seen = w.seen /\ wm'.decided = w.decided /\ wm'.late = w.late
        /\ w.kickMate = "none" => wm'.kickMate = "none"
        /\ w.kickOpp = "none" => wm'.kickOpp = "none"
    BY <1>2, <1>3, RepointedFields
  <1>5. /\ ~wm'.decided => wm'.kickMate = "none" /\ wm'.kickOpp = "none"
        /\ wm'.late = wm'.decided /\ wm'.seen
    BY <1>2, <1>4 DEF IInv, World
  <1> QED
    BY <1>1, <1>3, <1>4, <1>5 DEF IInv, World, KickablesExist, Memory, Unique

LEMMA SeeAfterFullstateOK ==
  ASSUME IInv, SeeAfterFullstate
  PROVE  IInv'
PROOF
  <1>1. obj' = obj /\ pc' = pc /\ pc = "idle"
    BY DEF SeeAfterFullstate
  <1>2. /\ wm' \in Worlds /\ wm'.seen /\ wm'.late = wm.late /\ wm'.decided = wm.decided
        /\ wm'.kickMate = wm.kickMate /\ wm'.kickOpp = wm.kickOpp
    BY DEF IInv, World, Worlds, SeeAfterFullstate
  <1> QED
    BY <1>1, <1>2 DEF IInv, World, KickablesExist, Memory, Unique

\* A fullstate: the unknown players go, and every player told of gets its number.
LEMMA FullstateOK ==
  ASSUME IInv, Fullstate
  PROVE  IInv'
PROOF
  <1> DEFINE ob == [o \in Objects |-> IF obj[o].list = "unknown" THEN NoPlayer ELSE obj[o]]
             w == [wm EXCEPT !.full = TRUE, !.late = @ \/ wm.decided]
  <1>1. /\ \E players \in SUBSET FieldPlayers : \E f \in Assignments(ob, players) :
             obj' = AfterFullstate(ob, f, players)
        /\ wm' = Repointed(w, ob) /\ pc' = "idle"
    BY DEF Fullstate
  <1>2. Memory(ob)
    <2>1. \A o \in Objects : Sound(ob[o]) /\ Remains(obj[o], ob[o])
      BY NoPlayerSound DEF IInv, Memory, Remains
    <2>2. ob \in [Objects -> Players]
      <3>1. \A o \in Objects : ob[o] \in Players
        BY <2>1 DEF Sound
      <3> QED
        BY <3>1
    <2> HIDE DEF ob
    <2> QED
      BY <2>1, <2>2, RemainderIsMemory DEF IInv
  <1>3. /\ w \in Worlds /\ w.full /\ w.late = (wm.late \/ wm.decided) /\ w.decided = wm.decided
        /\ w.kickMate = wm.kickMate /\ w.kickOpp = wm.kickOpp
    BY DEF IInv, World, Worlds
  <1> HIDE DEF ob, w
  <1>4. Memory(obj')
    BY <1>1, <1>2, FullstateKeepsMemory
  <1>5. /\ wm' \in Worlds /\ wm'.full = w.full /\ wm'.decided = w.decided /\ wm'.late = w.late
        /\ w.kickMate = "none" => wm'.kickMate = "none"
        /\ w.kickOpp = "none" => wm'.kickOpp = "none"
    BY <1>1, <1>3, RepointedFields
  <1>6. /\ ~wm'.decided => wm'.kickMate = "none" /\ wm'.kickOpp = "none"
        /\ wm'.decided => wm'.late
        /\ wm'.full
    BY <1>3, <1>5 DEF IInv, World
  <1> QED
    BY <1>1, <1>4, <1>5, <1>6 DEF IInv, World, KickablesExist, Memory, Unique

\* A card changes the places of players only.
LEMMA SetCardFields ==
  ASSUME IInv, SetCard, NEW o \in Objects
  PROVE  /\ Sound(obj'[o]) /\ Remains(obj[o], obj'[o])
         /\ obj'[o].list = obj[o].list /\ obj'[o].unum = obj[o].unum
         /\ obj'[o].sure = obj[o].sure
PROOF
  <1>1. PICK team \in Carded, n \in Unums :
          obj' = [q \in Objects |->
                    IF q \in Numbered(obj, team, n) THEN Forget(obj[q]) ELSE obj[q]]
    BY DEF SetCard
  <1>2. Sound(obj[o]) /\ obj[o] \in Players
    BY DEF IInv, Memory
  <1>3. CASE o \in Numbered(obj, team, n)
    <2>1. obj'[o] = Forget(obj[o])
      BY <1>1, <1>3
    <2>2. obj[o].list \in Teams
      BY <1>3, PlayerTrackingAssumption DEF Numbered, In, Teams
    <2>3. obj'[o].list = obj[o].list /\ obj'[o].unum = obj[o].unum
      BY <1>2, <2>1 DEF Forget, Players
    <2> QED
      BY <1>2, <2>1, <2>2, <2>3, ForgetSound
  <1>4. CASE o \notin Numbered(obj, team, n)
    BY <1>1, <1>2, <1>4 DEF Remains
  <1> QED
    BY <1>3, <1>4

LEMMA SetCardOK ==
  ASSUME IInv, SetCard
  PROVE  IInv'
PROOF
  <1>1. \A o \in Objects : /\ Sound(obj'[o]) /\ Remains(obj[o], obj'[o])
                           /\ obj'[o].sure = obj[o].sure
    BY SetCardFields
  <1>2. obj' \in [Objects -> Players]
    <2>1. \A o \in Objects : obj'[o] \in Players
      BY <1>1 DEF Sound
    <2> QED
      BY <2>1 DEF SetCard
  <1>3. Memory(obj')
    BY <1>1, <1>2, RemainderIsMemory DEF IInv
  <1>4. pc' = pc /\ wm' = wm
    BY DEF SetCard
  <1> QED
    BY <1>1, <1>3, <1>4 DEF IInv, World, KickablesExist, Memory, Unique

LEMMA BeginDecisionOK ==
  ASSUME IInv, BeginDecision
  PROVE  IInv'
PROOF
  <1>1. obj' = obj /\ pc' = "decide" /\ ~wm.decided
    BY DEF BeginDecision
  <1>2. PICK m \in Modes, heard \in SUBSET Sayings :
          wm' = [wm EXCEPT !.decided = TRUE, !.mode = m, !.heard = heard]
    BY DEF BeginDecision
  <1>3. /\ wm' \in Worlds /\ wm'.seen = wm.seen /\ wm'.full = wm.full /\ wm'.decided
        /\ wm'.late = wm.late
        /\ wm'.kickMate = wm.kickMate /\ wm'.kickOpp = wm.kickOpp
    BY <1>2 DEF IInv, World, Worlds
  <1> QED
    BY <1>1, <1>3 DEF IInv, World, KickablesExist, Memory, Unique

\* What is heard only takes messages away.
LEMMA HeardWorld ==
  ASSUME IInv, pc = "decide", pc' = pc, NEW heard \in SUBSET wm.heard,
         wm' = [wm EXCEPT !.heard = heard], Memory(obj'), KeptAll(obj, obj')
  PROVE  IInv'
PROOF
  <1>1. /\ wm' \in Worlds /\ wm'.seen = wm.seen /\ wm'.full = wm.full
        /\ wm'.decided = wm.decided /\ wm'.late = wm.late
        /\ wm'.kickMate = wm.kickMate /\ wm'.kickOpp = wm.kickOpp
    BY DEF IInv, World, Worlds
  <1>2. \A o \in Objects : obj'[o].sure = obj[o].sure
    BY DEF KeptAll, Kept
  <1> QED
    BY <1>1, <1>2 DEF IInv, World, KickablesExist, Memory, Unique

\* What is heard of the opponent goalie is believed of one player at most, and what
\* was seen of its number stays.
LEMMA HeardGoalieStep ==
  ASSUME IInv, UpdateGoalieByHear
  PROVE  /\ Memory(obj') /\ KeptAll(obj, obj')
         /\ \A q \in Objects : obj[q].sure => obj'[q].list = obj[q].list
                                                /\ obj'[q].unum = obj[q].unum
PROOF
  <1>1. PICK o \in Objects :
          LET p == IF o \in Free(obj) THEN [obj[o] EXCEPT !.list = "opponents"] ELSE obj[o]
          IN \/ obj' = [obj EXCEPT ![o] = UpdateByHear(p, wm.theirGoalie, TRUE)]
             \/ obj' = obj
    BY DEF UpdateGoalieByHear, Goalies, In, Free
  <1> DEFINE p == IF o \in Free(obj) THEN [obj[o] EXCEPT !.list = "opponents"] ELSE obj[o]
             r == UpdateByHear(p, wm.theirGoalie, TRUE)
  <1>2. CASE obj' = obj
    BY <1>2, AllKept DEF IInv
  <1>3. CASE obj' = [obj EXCEPT ![o] = r]
    <2>1. Sound(obj[o]) /\ obj[o] \in Players
      BY DEF IInv, Memory
    <2>2. wm.theirGoalie \in {0} \cup Unums
      BY DEF IInv, World, Worlds
    <2>3. /\ p \in Players /\ p.list # "none" /\ p.unum = obj[o].unum
          /\ p.guess = obj[o].guess /\ p.sure = obj[o].sure /\ p.goalie = obj[o].goalie
          /\ o \in Free(obj) => ~p.goalie /\ p.unum = 0 /\ ~p.sure
          /\ o \notin Free(obj) => p = obj[o]
      <3>1. CASE o \in Free(obj)
        <4>1. obj[o] = NoPlayer
          BY <2>1, <3>1 DEF Free, In, Sound
        <4>2. p = [obj[o] EXCEPT !.list = "opponents"]
          BY <3>1
        <4>3. "opponents" \in Lists
          BY DEF Lists, Teams
        <4>4. p \in Players /\ p.list # "none"
          BY <2>1, <4>2, <4>3, Constants DEF Players
        <4>5. /\ p.unum = obj[o].unum
              /\ p.guess = obj[o].guess /\ p.sure = obj[o].sure /\ p.goalie = obj[o].goalie
          BY <2>1, <4>2 DEF Players
        <4> HIDE DEF p
        <4>6. ~NoPlayer.goalie /\ NoPlayer.unum = 0 /\ ~NoPlayer.sure
          BY DEF NoPlayer
        <4> QED
          BY <3>1, <4>1, <4>4, <4>5, <4>6
      <3>2. CASE o \notin Free(obj)
        BY <2>1, <3>2 DEF Free, In
      <3> QED
        BY <3>1, <3>2
    <2> HIDE DEF p
    <2>4. /\ p.goalie /\ ~p.guess => p.list \in Teams /\ p.unum # 0 /\ IsGoalie(p.list, p.unum)
          /\ p.list = "unknown" /\ p.unum # 0 => p.guess
          /\ p.sure => p.unum # 0 \/ p.guess
      BY <2>1, <2>3 DEF Sound
    <2>5. /\ Sound(r) /\ r.list = p.list /\ r.sure = p.sure
          /\ (r.guess \/ (r.unum = p.unum /\ r.guess = p.guess))
          /\ (p.sure => r.unum = p.unum)
      BY <2>2, <2>3, <2>4, HeardGoalieSound
    <2>6. p.guess => r.guess
      BY <2>5
    <2> HIDE DEF r
    <2>7. r.guess \/ \A q \in Objects \ {o} :
            obj[q].list = r.list /\ r.list \in Teams /\ obj[q].unum = r.unum /\ r.unum # 0
              => obj[q].guess
      <3> SUFFICES ASSUME ~r.guess, NEW q \in Objects \ {o}, obj[q].list = r.list,
                          r.list \in Teams, obj[q].unum = r.unum, r.unum # 0
                   PROVE  obj[q].guess
        OBVIOUS
      <3>1. o \notin Free(obj) /\ p = obj[o]
        BY <2>3, <2>5
      <3> QED
        BY <2>5, <3>1 DEF IInv, Memory, Unique
    <2>8. Memory(obj')
      BY <1>3, <2>5, <2>7, OneChanges DEF IInv
    <2>9. obj[o].sure => r.list = obj[o].list /\ r.unum = obj[o].unum
      BY <2>3, <2>5
    <2>10. KeptAll(obj, obj')
      <3>1. Kept(obj[o], r)
        BY <2>3, <2>5, <2>6, <2>9 DEF Kept
      <3> QED
        BY <1>3, <3>1, OneKept DEF IInv
    <2>11. obj'[o] = r /\ \A q \in Objects \ {o} : obj'[q] = obj[q]
      BY <1>3 DEF IInv, Memory
    <2> QED
      BY <2>8, <2>9, <2>10, <2>11
  <1> QED
    BY <1>1, <1>2, <1>3

LEMMA HeardPlayerStep ==
  ASSUME IInv, UpdatePlayerByHear
  PROVE  /\ Memory(obj') /\ KeptAll(obj, obj')
         /\ \A q \in Objects : obj'[q].guess = obj[q].guess
         /\ \E heard \in SUBSET wm.heard : wm' = [wm EXCEPT !.heard = heard]
PROOF
  <1>1. PICK h \in wm.heard :
          /\ \E o \in HeardPlayers(h) :
               obj' = [obj EXCEPT ![o] = UpdateByHear([@ EXCEPT !.list = h.team], h.unum, FALSE)]
          /\ wm' = [wm EXCEPT !.heard = @ \ {h}]
    BY DEF UpdatePlayerByHear
  <1>2. h \in FieldPlayers
    <2>1. h \in Sayings /\ h # HeardGoalie
      BY DEF IInv, World, Worlds, UpdatePlayerByHear
    <2> QED
      BY <2>1 DEF Sayings, HeardGoalie
  <1>3. h.team \in Teams /\ h.unum \in Unums /\ h.unum # 0
    BY <1>2, Constants DEF FieldPlayers
  <1>4. PICK o \in HeardPlayers(h) :
          obj' = [obj EXCEPT ![o] = UpdateByHear([@ EXCEPT !.list = h.team], h.unum, FALSE)]
    BY <1>1
  <1> DEFINE p == obj[o]
             r == HeardOf(p, h.team, h.unum)
  <1>5. o \in Objects
    BY DEF HeardPlayers, Numbered, In, Free
  <1>6. obj' = [obj EXCEPT ![o] = r]
    BY <1>4, <1>5 DEF IInv, Memory, HeardOf
  <1>7. Sound(p)
    BY <1>5 DEF IInv, Memory
  <1>8. /\ \/ p.list \in {"unknown", "none"}
           \/ p.list = h.team /\ p.unum \in {0, h.unum}
        /\ \/ Numbered(obj, h.team, h.unum) = {}
           \/ p.list = h.team /\ p.unum = h.unum
    BY DEF HeardPlayers, Numbered, In, Free
  <1> HIDE DEF p
  <1>9. /\ Sound(r) /\ r.list = h.team /\ r.sure = p.sure /\ r.guess = p.guess
        /\ r.unum = IF p.sure THEN p.unum ELSE h.unum
    BY <1>3, <1>7, <1>8, HeardSound
  <1> HIDE DEF r
  <1>10. p.list = "none" => ~p.sure
    BY <1>7 DEF Sound, NoPlayer
  <1>11. p.sure /\ ~p.guess => p.list = h.team /\ p.unum = h.unum
    <2>1. p.sure => p.unum # 0 \/ p.guess
      BY <1>7 DEF Sound
    <2>2. p.list = "unknown" /\ p.unum # 0 => p.guess
      BY <1>7 DEF Sound
    <2> QED
      BY <1>8, <1>10, <2>1, <2>2
  <1>12. r.guess \/ \A q \in Objects \ {o} :
           obj[q].list = r.list /\ r.list \in Teams /\ obj[q].unum = r.unum /\ r.unum # 0
             => obj[q].guess
    <2> SUFFICES ASSUME ~r.guess, NEW q \in Objects \ {o}, obj[q].list = r.list,
                        obj[q].unum = r.unum
                 PROVE  obj[q].guess
      OBVIOUS
    <2>1. r.unum = h.unum
      BY <1>9, <1>11
    <2>2. q \in Numbered(obj, h.team, h.unum)
      BY <1>9, <2>1 DEF Numbered, In
    <2>3. p.list = h.team /\ p.unum = h.unum /\ ~p.guess
      BY <1>8, <1>9, <2>2
    <2> QED
      BY <1>3, <1>5, <1>9, <2>1, <2>3 DEF IInv, Memory, Unique, p
  <1>13. Memory(obj')
    BY <1>5, <1>6, <1>9, <1>12, OneChanges DEF IInv
  <1>14. KeptAll(obj, obj')
    <2>1. Kept(p, r)
      BY <1>9, <1>11 DEF Kept
    <2> QED
      BY <1>5, <1>6, <2>1, OneKept DEF IInv, p
  <1>15. wm' = [wm EXCEPT !.heard = wm.heard \ {h}]
    BY <1>1
  <1>16. \A q \in Objects : obj'[q].guess = obj[q].guess
    BY <1>5, <1>6, <1>9 DEF IInv, Memory, p
  <1> QED
    BY <1>13, <1>14, <1>15, <1>16

LEMMA GoalieUnumsType ==
  ASSUME NEW ob, Memory(ob), wm \in Worlds
  PROVE  OurGoalieUnums(ob) \cup TheirGoalieUnums(ob) \subseteq {0} \cup Unums
PROOF
  <1>1. \A o \in Objects : ob[o].unum \in {0} \cup Unums
    BY DEF Memory, Players
  <1>2. wm.ourGoalie \in {0} \cup Unums /\ wm.theirGoalie \in {0} \cup Unums
    BY DEF Worlds
  <1>3. OurGoalieUnums(ob) \subseteq {0} \cup Unums
    BY <1>1, <1>2, Constants DEF OurGoalieUnums, Goalies
  <1>4. TheirGoalieUnums(ob) \subseteq {0} \cup Unums
    BY <1>1, <1>2 DEF TheirGoalieUnums, Goalies
  <1> QED
    BY <1>3, <1>4

\* The end of the decision: the estimates one after the other, and the pointers to the
\* players that can kick.
LEMMA PlayerStateCacheStep ==
  ASSUME IInv, UpdatePlayerStateCache
  PROVE  /\ Memory(obj') /\ KeptAll(obj, obj')
         /\ wm' \in Worlds /\ wm'.seen = wm.seen /\ wm'.full = wm.full
         /\ wm'.decided = wm.decided /\ wm'.late = wm.late
         /\ {wm'.kickMate, wm'.kickOpp} \subseteq {"none", wm.kickMate, wm.kickOpp} \cup Objects
PROOF
  <1>1. CASE obj' = obj /\ wm' = wm
    BY <1>1, AllKept DEF IInv, World
  <1>2. CASE ~(obj' = obj /\ wm' = wm)
    <2> DEFINE mates == In(obj, "teammates")
               opponents == In(obj, "opponents") \cup In(obj, "unknown")
    <2>1. PICK ob1 \in EstimatedMate(obj) : \E ob2 \in EstimatedOpponent(ob1) :
            \E our \in OurGoalieUnums(ob2), their \in TheirGoalieUnums(ob2) :
              \E ob3 \in EstimatedOurGoalie(ob2, our) :
                /\ obj' \in EstimatedTheirGoalie(ob3, their, opponents)
                /\ \E kickMate \in Kickable(obj', "teammates", mates),
                      kickOpp \in Kickable(obj', "opponents",
                                    {o \in opponents : obj[o].posCount < OldCount}) :
                     wm' = [wm EXCEPT !.ourGoalie = our, !.theirGoalie = their,
                                      !.kickMate = kickMate, !.kickOpp = kickOpp]
      BY <1>2 DEF UpdatePlayerStateCache
    <2>2. PICK ob2 \in EstimatedOpponent(ob1) :
            \E our \in OurGoalieUnums(ob2), their \in TheirGoalieUnums(ob2) :
              \E ob3 \in EstimatedOurGoalie(ob2, our) :
                /\ obj' \in EstimatedTheirGoalie(ob3, their, opponents)
                /\ \E kickMate \in Kickable(obj', "teammates", mates),
                      kickOpp \in Kickable(obj', "opponents",
                                    {o \in opponents : obj[o].posCount < OldCount}) :
                     wm' = [wm EXCEPT !.ourGoalie = our, !.theirGoalie = their,
                                      !.kickMate = kickMate, !.kickOpp = kickOpp]
      BY <2>1
    <2>3. PICK our \in OurGoalieUnums(ob2), their \in TheirGoalieUnums(ob2) :
            \E ob3 \in EstimatedOurGoalie(ob2, our) :
                /\ obj' \in EstimatedTheirGoalie(ob3, their, opponents)
                /\ \E kickMate \in Kickable(obj', "teammates", mates),
                      kickOpp \in Kickable(obj', "opponents",
                                    {o \in opponents : obj[o].posCount < OldCount}) :
                     wm' = [wm EXCEPT !.ourGoalie = our, !.theirGoalie = their,
                                      !.kickMate = kickMate, !.kickOpp = kickOpp]
      BY <2>2
    <2>4. PICK ob3 \in EstimatedOurGoalie(ob2, our) :
                /\ obj' \in EstimatedTheirGoalie(ob3, their, opponents)
                /\ \E kickMate \in Kickable(obj', "teammates", mates),
                      kickOpp \in Kickable(obj', "opponents",
                                    {o \in opponents : obj[o].posCount < OldCount}) :
                     wm' = [wm EXCEPT !.ourGoalie = our, !.theirGoalie = their,
                                      !.kickMate = kickMate, !.kickOpp = kickOpp]
      BY <2>3
    <2>5. PICK kickMate, kickOpp :
            /\ kickMate \in {"none"} \cup Objects /\ kickOpp \in {"none"} \cup Objects
            /\ wm' = [wm EXCEPT !.ourGoalie = our, !.theirGoalie = their,
                                !.kickMate = kickMate, !.kickOpp = kickOpp]
      BY <2>4 DEF Kickable, In
    <2> HIDE DEF mates, opponents
    <2>6. wm \in Worlds /\ Memory(obj)
      BY DEF IInv, World
    <2>7. Memory(ob1) /\ KeptAll(obj, ob1)
      BY <2>6, EstimateKeepsMemory
    <2>8. Memory(ob2) /\ KeptAll(ob1, ob2)
      BY <2>7, EstimateKeepsMemory
    <2>9. our \in {0} \cup Unums /\ their \in {0} \cup Unums
      BY <2>3, <2>6, <2>8, GoalieUnumsType
    <2>10. Memory(ob3) /\ KeptAll(ob2, ob3)
      BY <2>8, <2>9, GoaliesKeepMemory
    <2>11. Memory(obj') /\ KeptAll(ob3, obj')
      BY <2>4, <2>9, <2>10, GoaliesKeepMemory
    <2>12. KeptAll(obj, ob2)
      BY <2>7, <2>8, KeptTransitive
    <2>13. KeptAll(obj, ob3)
      BY <2>10, <2>12, KeptTransitive
    <2>14. KeptAll(obj, obj')
      BY <2>11, <2>13, KeptTransitive
    <2>15. /\ wm' \in Worlds /\ wm'.seen = wm.seen /\ wm'.full = wm.full
           /\ wm'.decided = wm.decided /\ wm'.late = wm.late
           /\ wm'.kickMate = kickMate /\ wm'.kickOpp = kickOpp
      BY <2>5, <2>6, <2>9 DEF Worlds, Pointers
    <2> QED
      BY <2>5, <2>11, <2>14, <2>15
  <1> QED
    BY <1>1, <1>2

LEMMA DecisionOK ==
  ASSUME IInv, UpdateGoalieByHear \/ UpdatePlayerByHear \/ UpdatePlayerStateCache
  PROVE  IInv'
PROOF
  <1>1. CASE UpdateGoalieByHear
    <2>1. /\ pc = "decide" /\ pc' = pc /\ wm.heard \ {HeardGoalie} \in SUBSET wm.heard
          /\ wm' = [wm EXCEPT !.heard = wm.heard \ {HeardGoalie}]
      BY <1>1 DEF UpdateGoalieByHear
    <2> QED
      BY <1>1, <2>1, HeardGoalieStep, HeardWorld
  <1>2. CASE UpdatePlayerByHear
    <2>1. pc = "decide" /\ pc' = pc
      BY <1>2 DEF UpdatePlayerByHear
    <2> QED
      BY <1>2, <2>1, HeardPlayerStep, HeardWorld
  <1>3. CASE UpdatePlayerStateCache
    <2>1. /\ Memory(obj') /\ KeptAll(obj, obj')
          /\ wm' \in Worlds /\ wm'.seen = wm.seen /\ wm'.full = wm.full
          /\ wm'.decided = wm.decided /\ wm'.late = wm.late
          /\ {wm'.kickMate, wm'.kickOpp} \subseteq {"none", wm.kickMate, wm.kickOpp} \cup Objects
      BY <1>3, PlayerStateCacheStep
    <2>2. pc = "decide" /\ pc' = "idle"
      BY <1>3 DEF UpdatePlayerStateCache
    <2>3. wm.decided
      BY <2>2 DEF IInv, World
    <2>4. \A o \in Objects : obj'[o].sure = obj[o].sure
      BY <2>1 DEF KeptAll, Kept
    <2>5. wm'.late \/ (wm'.kickMate # "dangling" /\ wm'.kickOpp # "dangling")
      BY <2>1, Constants DEF IInv, KickablesExist
    <2> QED
      BY <2>1, <2>2, <2>3, <2>4, <2>5 DEF IInv, World, KickablesExist, Memory, Unique
  <1> QED
    BY <1>1, <1>2, <1>3

LEMMA NextOK ==
  ASSUME IInv, [Next]_vars
  PROVE  IInv'
PROOF
  <1>1. CASE UNCHANGED vars
    BY <1>1 DEF vars, IInv, World, KickablesExist, Memory, Unique
  <1>2. CASE Next
    BY <1>2, UpdateOK, SeeOK, SeeAfterFullstateOK, FullstateOK, SetCardOK,
       BeginDecisionOK, DecisionOK
       DEF Next
  <1> QED
    BY <1>1, <1>2

-----------------------------------------------------------------------------
(* Theorems.                                                               *)

\* The inductive invariant holds in every state.
THEOREM Inductive == Spec => []IInv
PROOF
  <1>1. Init => IInv
    BY InitOK
  <1>2. IInv /\ [Next]_vars => IInv'
    BY NextOK
  <1> QED
    BY <1>1, <1>2, PTL DEF Spec

\* Every remembered player has a number of its team or none, a position that is not
\* too old unless its player was shown a card since the last update(), and an object that was erased holds nothing of whom it was.
THEOREM TypeCorrect == Spec => []TypeOK
PROOF
  <1>1. IInv => TypeOK
    <2> SUFFICES ASSUME IInv PROVE TypeOK
      OBVIOUS
    <2>1. \A o \in Objects : IF o \in Free(obj) THEN obj[o] = NoPlayer
                             ELSE \/ obj[o].posCount < PosCountThr
                                  \/ obj[o].posCount = Forgotten /\ obj[o].list \in Teams
      BY DEF IInv, Memory, Sound, Free, In
    <2> QED
      BY <2>1 DEF IInv, Memory, World, Worlds, TypeOK
  <1> QED
    BY <1>1, Inductive, PTL

\* No number is held twice in a team, unless one of the two was taken for the goalie:
\* whatever localizePlayers, a fullstate, what is heard and the estimates do.
THEOREM NumbersStayUnique == Spec => []NumbersAreUnique
PROOF
  <1>1. IInv => NumbersAreUnique
    BY DEF IInv, Memory, Unique, NumbersAreUnique, In
  <1> QED
    BY <1>1, Inductive, PTL

\* A team has one goalie that was seen as such: a goalie mark that is no guess comes
\* with the goalie's number, which nobody else of the team holds.
THEOREM GoalieStaysUnique == Spec => []OneGoalie
PROOF
  <1>1. IInv => OneGoalie
    <2> SUFFICES ASSUME IInv, NEW team \in Teams, NEW o \in Goalies(obj, {team}),
                        NEW q \in Goalies(obj, {team}), o # q, ~obj[o].guess, ~obj[q].guess
                 PROVE  FALSE
      BY DEF OneGoalie
    <2>1. /\ o \in Objects /\ q \in Objects /\ obj[o].list = team /\ obj[q].list = team
          /\ obj[o].goalie /\ obj[q].goalie
      BY DEF Goalies
    <2>2. /\ obj[o].unum # 0 /\ IsGoalie(team, obj[o].unum)
          /\ obj[q].unum # 0 /\ IsGoalie(team, obj[q].unum)
      BY <2>1 DEF IInv, Memory, Sound
    <2>3. obj[o].unum = obj[q].unum
      BY <2>2 DEF IsGoalie
    <2> QED
      BY <2>1, <2>2, <2>3 DEF IInv, Memory, Unique
  <1> QED
    BY <1>1, Inductive, PTL

\* The list of unknown players holds nobody whose number or goalie mark tells its
\* team, but for a goalie that was guessed there.
THEOREM UnknownStayNameless == Spec => []UnknownAreNameless
PROOF
  <1>1. IInv => UnknownAreNameless
    <2> SUFFICES ASSUME IInv, NEW o \in In(obj, "unknown"), obj[o].unum # 0 \/ obj[o].goalie
                 PROVE  obj[o].guess
      BY DEF UnknownAreNameless
    <2>1. o \in Objects /\ obj[o].list = "unknown" /\ Sound(obj[o])
      BY DEF IInv, Memory, In
    <2> QED
      BY <2>1, Constants DEF Sound
  <1> QED
    BY <1>1, Inductive, PTL

\* The pointers to the players at the ball point to players that are remembered, if
\* no see or fullstate came after the decision that set them.
THEOREM KickablesStayAlive == Spec => []KickablesExist
PROOF
  <1>1. IInv => KickablesExist
    BY DEF IInv
  <1> QED
    BY <1>1, Inductive, PTL

\* A step leaves a player whose number was seen in this cycle with its number.
LEMMA SeenNumberStep ==
  ASSUME IInv, [Next]_vars, NEW o \in Objects, obj[o].sure, ~Update,
         ~obj[o].guess
  PROVE  \/ obj'[o].list = obj[o].list /\ obj'[o].unum = obj[o].unum
         \/ pc = "decide" /\ pc' = "idle" /\ obj'[o].guess
PROOF
  <1>1. Sound(obj[o]) /\ obj[o] \in Players
    BY DEF IInv, Memory
  <1>2. wm.seen \/ wm.full
    BY DEF IInv, World
  <1>3. obj[o].unum # 0 /\ obj[o].list \in Teams
    <2>1. obj[o].list # "none"
      BY <1>1 DEF Sound, NoPlayer
    <2> QED
      BY <1>1, <2>1 DEF Sound, Players, Lists
  <1>4. CASE UNCHANGED vars
    BY <1>4 DEF vars
  <1>5. CASE See
    BY <1>2, <1>5 DEF See
  <1>6. CASE SeeAfterFullstate
    BY <1>6 DEF SeeAfterFullstate
  <1>7. CASE Fullstate
    <2> DEFINE ob == [q \in Objects |-> IF obj[q].list = "unknown" THEN NoPlayer ELSE obj[q]]
    <2>1. PICK players \in SUBSET FieldPlayers : \E f \in Assignments(ob, players) :
            obj' = AfterFullstate(ob, f, players)
      BY <1>7 DEF Fullstate
    <2>2. PICK f \in Assignments(ob, players) : obj' = AfterFullstate(ob, f, players)
      BY <2>1
    <2>3. Memory(ob)
      <3>1. \A q \in Objects : Sound(ob[q]) /\ Remains(obj[q], ob[q])
        BY NoPlayerSound DEF IInv, Memory, Remains
      <3>2. ob \in [Objects -> Players]
        <4>1. \A q \in Objects : ob[q] \in Players
          BY <3>1 DEF Sound
        <4> QED
          BY <4>1
      <3> HIDE DEF ob
      <3> QED
        BY <3>1, <3>2, RemainderIsMemory DEF IInv
    <2>4. ob[o] = obj[o]
      BY <1>3, Constants
    <2> HIDE DEF ob
    <2>5. CASE \A p \in players : f[p] # o
      BY <2>2, <2>3, <2>4, <2>5, AssignmentFields
    <2>6. CASE ~\A p \in players : f[p] # o
      <3>1. PICK p \in players : f[p] = o
        BY <2>6
      <3>2. /\ obj'[o] = UpdateBySee(ob[o], p.team, p.unum) /\ p.unum # 0
            /\ IF Numbered(ob, p.team, p.unum) # {}
               THEN o \in Numbered(ob, p.team, p.unum) ELSE o \in Free(ob)
        <4>1. /\ AfterFullstate(ob, f, players)[f[p]] = UpdateBySee(ob[f[p]], p.team, p.unum)
              /\ p.unum # 0
              /\ IF Numbered(ob, p.team, p.unum) # {}
                 THEN f[p] \in Numbered(ob, p.team, p.unum) ELSE f[p] \in Free(ob)
          BY <2>3, AssignmentFields
        <4> QED
          BY <2>2, <3>1, <4>1
      <3>3. o \notin Free(ob)
        BY <1>3, <2>4, Constants DEF Free, In
      <3>4. obj[o].list = p.team /\ obj[o].unum = p.unum
        BY <2>4, <3>2, <3>3 DEF Numbered, In
      <3>5. obj'[o].list = p.team /\ obj'[o].unum = p.unum
        BY <1>1, <2>4, <3>2, SeenFields
      <3> QED
        BY <3>4, <3>5
    <2> QED
      BY <2>5, <2>6
  <1>8. CASE BeginDecision
    BY <1>8 DEF BeginDecision
  <1>12. CASE SetCard
    BY <1>12, SetCardFields
  <1>9. CASE UpdateGoalieByHear
    BY <1>9, HeardGoalieStep
  <1>10. CASE UpdatePlayerByHear
    BY <1>10, HeardPlayerStep DEF Kept, KeptAll
  <1>11. CASE UpdatePlayerStateCache
    <2>1. KeptAll(obj, obj') /\ pc = "decide" /\ pc' = "idle"
      BY <1>11, PlayerStateCacheStep DEF UpdatePlayerStateCache
    <2> QED
      BY <2>1 DEF KeptAll, Kept
  <1> QED
    BY <1>4, <1>5, <1>6, <1>7, <1>8, <1>9, <1>10, <1>11, <1>12 DEF Next

\* A number that was seen stands for the cycle, however the other messages of the
\* cycle, what is heard and the estimates of the decision follow.
THEOREM SeenNumberStays == Spec => SeenNumberStands
PROOF
  <1> DEFINE Stands ==
        \A o \in Objects :
          obj[o].sure /\ ~obj[o].guess /\ ~Update
            => \/ obj'[o].list = obj[o].list /\ obj'[o].unum = obj[o].unum
               \/ pc = "decide" /\ pc' = "idle" /\ obj'[o].guess
  <1>1. IInv /\ [Next]_vars => Stands
    BY SeenNumberStep
  <1> QED
    BY <1>1, Inductive, PTL DEF Spec, SeenNumberStands
=============================================================================
