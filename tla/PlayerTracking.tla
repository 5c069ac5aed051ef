----------------------------- MODULE PlayerTracking -----------------------------
(***************************************************************************)
(* The players a player agent remembers: the lists M_teammates,            *)
(* M_opponents and M_unknown_players of WorldModel and what update(),      *)
(* updateAfterSee, updateAfterFullstate, updateJustBeforeDecision and      *)
(* setCard do to them.  Every message tells only part of who is where: a   *)
(* see may show a player without its number or its team, what others say   *)
(* may be a number or a place, and the rest is inferred.                   *)
(*                                                                         *)
(* Positions are left out: whichever remembered player the geometry lets a *)
(* sight match may be the nearest one, or none may be near enough.  A list *)
(* is a set, as its order only breaks ties.                                *)
(***************************************************************************)
EXTENDS Naturals, FiniteSets

CONSTANTS
  Objects,       \* bound: the player objects that can be alive at once
  TeamSize,      \* players of a team (11)
  SelfUnum,      \* the agent's own number
  OurGoalie,     \* the real goalies' numbers
  TheirGoalie,
  PosCountThr,   \* PlayerConfig::playerPosCountThr()
  Forgotten,     \* the count of a position that is not known (1000)
  OldCount,      \* the count from which a position is too old to act upon (10)
  GhostThr,      \* the misses after which an unnumbered player is erased (2)
  GhostWeight,   \* how many cycles a miss counts in the sort order (10)
  MaxTotal,      \* how many players are remembered at most (25)
  Modes,         \* bound: the game modes, of "play_on", "before_kick_off", "after_goal"
  Reaching,      \* bound: the teams whose players may come within reach of the ball
  Carded,        \* bound: the teams whose players may be shown a card
  MaxHeard       \* bound: what is heard of players before a decision

ASSUME PlayerTrackingAssumption ==
  /\ IsFiniteSet(Objects) /\ {"none", "dangling"} \cap Objects = {}
  /\ TeamSize \in Nat /\ TeamSize > 1
  /\ {SelfUnum, OurGoalie, TheirGoalie} \subseteq 1..TeamSize
  /\ PosCountThr \in Nat /\ PosCountThr > 1
  /\ Forgotten \in Nat /\ Forgotten >= PosCountThr
  /\ OldCount \in Nat /\ GhostThr \in Nat /\ GhostWeight \in Nat
  /\ MaxTotal \in Nat /\ MaxHeard \in Nat
  /\ Modes \subseteq {"play_on", "before_kick_off", "after_goal"}
  /\ Reaching \cup Carded \subseteq {"teammates", "opponents"}

VARIABLES
  obj,   \* the player objects; "none" is the list of those that do not exist
  pc,    \* "idle", or "decide" in updateJustBeforeDecision
  wm     \* the rest of the world model

vars == <<obj, pc, wm>>

Unums == 1..TeamSize
Teams == {"teammates", "opponents"}
Lists == Teams \cup {"unknown"}

\* unum 0 is Unum_Unknown; sure: the number was seen in this cycle (M_unum_count
\* is 0); guess (history): it was taken for the goalie without being seen as such.
NoPlayer ==
  [list |-> "none", unum |-> 0, sure |-> FALSE, goalie |-> FALSE,
   posCount |-> Forgotten, ghost |-> 0, guess |-> FALSE]

In(ob, l) == {o \in Objects : ob[o].list = l}
Numbered(ob, team, n) == {o \in In(ob, team) : ob[o].unum = n}
Goalies(ob, lists) == {o \in Objects : ob[o].list \in lists /\ ob[o].goalie}
Free(ob) == In(ob, "none")

IsGoalie(team, n) == n = (IF team = "teammates" THEN OurGoalie ELSE TheirGoalie)

\* The numbers of the other players of a team.
Others(team) == IF team = "teammates" THEN Unums \ {SelfUnum} ELSE Unums

Init ==
  /\ obj = [o \in Objects |-> NoPlayer]
  /\ pc = "idle"
  /\ wm = [seen |-> FALSE, full |-> FALSE, decided |-> FALSE, late |-> FALSE,
           mode |-> "before_kick_off", heard |-> {},
           ourGoalie |-> IF SelfUnum = OurGoalie THEN SelfUnum ELSE 0, theirGoalie |-> 0,
           kickMate |-> "none", kickOpp |-> "none"]

\* A pointer to an object that was erased dangles.
Pointer(p, ob) == IF p \in Free(ob) THEN "dangling" ELSE p

Repointed(w, ob) ==
  [w EXCEPT !.kickMate = Pointer(@, ob), !.kickOpp = Pointer(@, ob)]

-----------------------------------------------------------------------------
(* PlayerObject.                                                           *)

\* Number and goalie mark are seen together or not at all.
UpdateBySee(p, team, n) ==
  [p EXCEPT !.list = team, !.posCount = 0, !.ghost = 0,
            !.unum = IF n = 0 THEN @ ELSE n,
            !.sure = @ \/ n # 0,
            !.goalie = IF n = 0 THEN @ ELSE IsGoalie(team, n)]

\* Mutant: what is heard overrides a number that was seen.
MutUpdateByHear(p, n, goalie) ==
  [p EXCEPT !.unum = IF n # 0 THEN n ELSE @,
            !.goalie = @ \/ goalie, !.ghost = 0,
            !.posCount = IF @ = 0 THEN 0 ELSE 1,
            !.guess = @ \/ (goalie /\ (~p.goalie \/ n \notin {0, p.unum}))]

\* A position heard replaces every position that was not seen in this cycle
\* (one of the last cycle has count 1 already).
UpdateByHear(p, n, goalie) ==
  [p EXCEPT !.unum = IF n # 0 /\ ~p.sure THEN n ELSE @,
            !.goalie = @ \/ goalie, !.ghost = 0,
            !.posCount = IF @ = 0 THEN 0 ELSE 1,
            !.guess = @ \/ (goalie /\ (~p.goalie \/ n \notin {0, p.unum}))]

SetTeam(p, team, n, goalie) ==
  [p EXCEPT !.list = team, !.unum = n, !.goalie = goalie, !.guess = @ \/ goalie]

\* The order of PlayerPtrAccuracySorter and of PlayerCountSorter, best first.
Confidence(p) == p.posCount + GhostWeight * p.ghost
MoreAccurate(p, q) ==
  /\ ~q.goalie
  /\ \/ p.goalie
     \/ p.unum # 0 /\ q.unum = 0
     \/ (p.unum # 0 <=> q.unum # 0) /\ Confidence(p) < Confidence(q)

-----------------------------------------------------------------------------
(* A new cycle: update().                                                  *)

\* Mutants: nobody is removed; the pointers of the last decision are kept.
MutAged(p) == [p EXCEPT !.posCount = @ + 1, !.sure = FALSE]

Aged(p) ==
  IF p.posCount + 1 < PosCountThr THEN [p EXCEPT !.posCount = @ + 1, !.sure = FALSE]
  ELSE NoPlayer

\* The lists are cleared while a kick-off is awaited; after a goal for the
\* first 48 steps of the stop.
MayClear == wm.mode # "play_on"
MustClear == wm.mode = "before_kick_off"

MutUpdate ==
  /\ pc = "idle"
  /\ \E clear \in BOOLEAN :
       /\ clear => MayClear
       /\ MustClear => clear
       /\ obj' = [o \in Objects |-> IF clear \/ o \in Free(obj) THEN NoPlayer ELSE Aged(obj[o])]
  /\ wm' = Repointed([wm EXCEPT !.seen = FALSE, !.full = FALSE, !.decided = FALSE,
                               !.late = FALSE], obj')
  /\ UNCHANGED pc

Update ==
  /\ pc = "idle"
  /\ \E clear \in BOOLEAN :
       /\ clear => MayClear
       /\ MustClear => clear
       /\ obj' = [o \in Objects |-> IF clear \/ o \in Free(obj) THEN NoPlayer ELSE Aged(obj[o])]
  /\ wm' = [wm EXCEPT !.seen = FALSE, !.full = FALSE, !.decided = FALSE, !.late = FALSE,
                      !.kickMate = "none", !.kickOpp = "none"]
  /\ UNCHANGED pc

-----------------------------------------------------------------------------
(* A see: updateAfterSee.                                                  *)

\* localizePlayers matches sight after sight, first the numbered opponents, then
\* the other opponents, the numbered mates, the other mates and the players of
\* neither team, and takes a matched object out of its list.  A numbered sight
\* takes an object that has its number or one that has none, so that with free
\* choice of the nearest object the order does not matter: a see is a map from
\* objects to the sights they match.

NotSeen == [team |-> "none", unum |-> 0]
Sights == {s \in [team : Lists, unum : {0} \cup Unums] :
             s.unum # 0 => s.team \in Teams /\ s.unum \in Others(s.team)}

\* Mutant: the player that has the number already is not looked for.
MutMatches(o, s) ==
  \/ obj[o].list \in {"unknown", "none"}
  \/ s.team = "unknown"
  \/ obj[o].list = s.team /\ (s.unum = 0 \/ obj[o].unum = 0)

\* checkTeamPlayer and checkUnknownPlayer: the sight may update the object, or
\* the object is made for it.
Matches(o, s) ==
  IF s.unum # 0 /\ Numbered(obj, s.team, s.unum) # {}
  THEN o \in Numbered(obj, s.team, s.unum)
  ELSE \/ obj[o].list \in {"unknown", "none"}
       \/ s.team = "unknown"
       \/ obj[o].list = s.team /\ (s.unum = 0 \/ obj[o].unum = 0)

\* Mutant: whoever matches goes to the list of unknown players.
MutNewList(p, s) == s.team

\* The new_* list the object joins.
NewList(p, s) == IF s.team = "unknown" /\ p.list \in Teams THEN p.list ELSE s.team

\* No number is seen twice in a message.
LocalizePlayers ==
  {f \in [Objects -> Sights \cup {NotSeen}] :
     /\ \A o \in Objects : f[o] # NotSeen => Matches(o, f[o])
     /\ \A o, q \in Objects : o # q /\ f[o] = f[q] => f[o].unum = 0}

Localized(f) ==
  [o \in Objects |-> IF f[o] = NotSeen THEN obj[o]
                     ELSE UpdateBySee(obj[o], NewList(obj[o], f[o]), f[o].unum)]

\* What overflows of a team: the least accurate ones.
IsOverflow(ob, team, size, out) ==
  LET n == Cardinality(In(ob, team))
  IN /\ Cardinality(out) = (IF n > size THEN n - size ELSE 0)
     /\ \A o \in out, k \in In(ob, team) \ out : ~MoreAccurate(ob[o], ob[k])

\* "not remove !!!": what was seen now stays.
Removable(ob) == {o \in In(ob, "unknown") : ob[o].posCount > 0}

\* What overflows of the unknown players if there are too many players.
IsUnknownOverflow(ob, total, out) ==
  LET excess == IF total > MaxTotal THEN total - MaxTotal ELSE 0
      removable == Cardinality(Removable(ob))
  IN /\ out \subseteq Removable(ob)
     /\ Cardinality(out) = (IF excess > removable THEN removable ELSE excess)
     /\ \A o \in out, k \in In(ob, "unknown") \ out : Confidence(ob[k]) <= Confidence(ob[o])

Without(ob, out) == [o \in Objects |-> IF o \in out THEN NoPlayer ELSE ob[o]]

\* What remains after the check of the numbers of players.
Fitting(ob) ==
  {Without(ob, out) : out \in {x \in SUBSET (Objects \ Free(ob)) :
     LET mates == x \cap In(ob, "teammates")
         opponents == x \cap In(ob, "opponents")
         total == Cardinality(Objects \ (Free(ob) \cup mates \cup opponents))
     IN /\ IsOverflow(ob, "teammates", TeamSize - 1, mates)
        /\ IsOverflow(ob, "opponents", TeamSize, opponents)
        /\ IsUnknownOverflow(ob, total, x \cap In(ob, "unknown"))}}

\* checkGhost: a player that should have been in view and was not.
IsErased(p, near) ==
  IF p.list \in Teams THEN p.unum = 0 /\ p.posCount >= OldCount /\ p.ghost >= GhostThr
  ELSE near \/ p.ghost > 0

Missed(p, near) == IF IsErased(p, near) THEN NoPlayer ELSE [p EXCEPT !.ghost = @ + 1]

\* Any players that were not seen may have been in view, and any of them near.
CheckGhost(ob) ==
  LET missable == {o \in Objects \ Free(ob) : ob[o].posCount > 0}
  IN UNION {{[o \in Objects |-> IF o \in view THEN Missed(ob[o], o \in near) ELSE ob[o]] :
               near \in SUBSET (view \cap In(ob, "unknown"))} : view \in SUBSET missable}

See ==
  /\ pc = "idle" /\ ~wm.seen /\ ~wm.full
  /\ \/ \E placed \in {Localized(f) : f \in LocalizePlayers} :
          \E ob \in Fitting(placed) : obj' \in CheckGhost(ob)
     \/ obj' \in CheckGhost(obj)   \* the self position is not valid: nothing is placed
  /\ wm' = Repointed([wm EXCEPT !.seen = TRUE, !.late = wm.decided], obj')
  /\ UNCHANGED pc

\* After a fullstate a see tells nothing new.
SeeAfterFullstate ==
  /\ pc = "idle" /\ ~wm.seen /\ wm.full
  /\ wm' = [wm EXCEPT !.seen = TRUE]
  /\ UNCHANGED <<obj, pc>>

-----------------------------------------------------------------------------
(* A fullstate: updateAfterFullstate.                                      *)

\* What all players of the field are assigned to: by number, or a new object.
Assignments(ob, players) ==
  LET candidates == [p \in players |-> LET same == Numbered(ob, p.team, p.unum)
                                       IN IF same # {} THEN same ELSE Free(ob)]
  IN {f \in [players -> UNION {candidates[p] : p \in players}] :
        /\ \A p \in players : f[p] \in candidates[p]
        /\ \A p, q \in players : p # q => f[p] # f[q]}

FieldPlayers == {p \in [team : Teams, unum : Unums] : p.unum \in Others(p.team)}

AfterFullstate(ob, f, players) ==
  [o \in Objects |->
     IF \E p \in players : f[p] = o
     THEN LET p == CHOOSE q \in players : f[q] = o
          IN UpdateBySee(ob[o], p.team, p.unum)
     ELSE ob[o]]

Fullstate ==
  /\ pc = "idle" /\ ~wm.full
  /\ LET ob == [o \in Objects |-> IF obj[o].list = "unknown" THEN NoPlayer ELSE obj[o]]
     IN /\ \E players \in SUBSET FieldPlayers : \E f \in Assignments(ob, players) :
             obj' = AfterFullstate(ob, f, players)
        /\ wm' = Repointed([wm EXCEPT !.full = TRUE, !.late = @ \/ wm.decided], ob)
  /\ UNCHANGED pc

-----------------------------------------------------------------------------
(* The referee shows a card: setCard, from analyzeHearReferee.             *)

\* The place of the player is forgotten; it keeps its list and number until the
\* next update().
Forget(p) == [p EXCEPT !.posCount = Forgotten]

SetCard ==
  /\ pc = "idle"
  /\ \E team \in Carded, n \in Unums :
       obj' = [o \in Objects |-> IF o \in Numbered(obj, team, n) THEN Forget(obj[o]) ELSE obj[o]]
  /\ UNCHANGED <<pc, wm>>

-----------------------------------------------------------------------------
(* What is heard, and the decision: updateJustBeforeDecision.              *)

\* AudioMemory: the place of the opponent goalie, or number and place of a player.
Sayings == {[team |-> "opponents", unum |-> 0]} \cup FieldPlayers
HeardGoalie == [team |-> "opponents", unum |-> 0]

\* updateGameMode precedes the decision; after a fullstate nothing heard counts.
BeginDecision ==
  /\ pc = "idle" /\ ~wm.decided
  /\ \E m \in Modes, heard \in SUBSET Sayings :
       /\ Cardinality(heard) <= (IF wm.full THEN 0 ELSE MaxHeard)
       /\ wm' = [wm EXCEPT !.decided = TRUE, !.mode = m, !.heard = heard]
  /\ pc' = "decide"
  /\ UNCHANGED obj

\* A goalie that is known stays; otherwise any player in its penalty area whose
\* number is not known is taken for it, or a new one is made.
UpdateGoalieByHear ==
  /\ pc = "decide" /\ HeardGoalie \in wm.heard
  /\ LET known == Goalies(obj, {"opponents"})
         candidates == IF known # {} THEN known
                       ELSE {o \in In(obj, "opponents") : obj[o].unum = 0}
                              \cup In(obj, "unknown") \cup Free(obj)
     IN \E o \in candidates :
          LET p == IF o \in Free(obj) THEN [obj[o] EXCEPT !.list = "opponents"] ELSE obj[o]
          IN \/ obj' = [obj EXCEPT ![o] = UpdateByHear(p, wm.theirGoalie, TRUE)]
             \/ known # {} /\ obj[o].posCount = 0 /\ UNCHANGED obj
  /\ wm' = [wm EXCEPT !.heard = @ \ {HeardGoalie}]
  /\ UNCHANGED pc

\* Mutant: also a player of another number.
MutHeardPlayers(h) ==
  LET same == Numbered(obj, h.team, h.unum)
  IN IF same # {} THEN same ELSE In(obj, h.team) \cup In(obj, "unknown") \cup Free(obj)

\* The objects that may be the player heard of.
HeardPlayers(h) ==
  LET same == Numbered(obj, h.team, h.unum)
  IN IF same # {} THEN same
     ELSE {o \in In(obj, h.team) : obj[o].unum = 0} \cup In(obj, "unknown") \cup Free(obj)

UpdatePlayerByHear ==
  /\ pc = "decide" /\ HeardGoalie \notin wm.heard
  /\ \E h \in wm.heard :
       /\ \E o \in HeardPlayers(h) :
            obj' = [obj EXCEPT ![o] = UpdateByHear([@ EXCEPT !.list = h.team], h.unum, FALSE)]
       /\ wm' = [wm EXCEPT !.heard = @ \ {h}]
  /\ UNCHANGED pc

\* estimateUnknownPlayerUnum: one number left for one player without a number.
Missing(ob, team) == {n \in Others(team) : Numbered(ob, team, n) = {}}

Named(ob, o, team, n, goalie) == [ob EXCEPT ![o] = SetTeam(@, team, n, n = goalie)]

EstimatedMate(ob) ==
  LET nameless == Numbered(ob, "teammates", 0)
      missing == Missing(ob, "teammates")
  IN IF /\ Cardinality(In(ob, "teammates")) = TeamSize - 1
        /\ Cardinality(missing) = 1 /\ nameless # {}
     THEN {Named(ob, o, "teammates", n, wm.ourGoalie) : o \in nameless, n \in missing}
     ELSE {ob}

EstimatedOpponent(ob) ==
  LET nameless == Numbered(ob, "opponents", 0)
      missing == Missing(ob, "opponents")
  IN IF /\ Cardinality(In(ob, "teammates")) = TeamSize - 1
        /\ Cardinality(In(ob, "opponents")) >= TeamSize - 1
        /\ Cardinality(missing) = 1
        /\ nameless # {} \/ Cardinality(In(ob, "unknown")) = 1
     THEN {Named(ob, o, "opponents", n, wm.theirGoalie) :
             o \in IF nameless # {} THEN nameless ELSE In(ob, "unknown"), n \in missing}
     ELSE {ob}

\* estimateGoalie: the goalies' numbers follow the players marked as goalies.
OurGoalieUnums(ob) ==
  IF SelfUnum = OurGoalie THEN {SelfUnum}
  ELSE IF Goalies(ob, {"teammates"}) = {} THEN {wm.ourGoalie}
  ELSE {ob[o].unum : o \in Goalies(ob, {"teammates"})}

TheirGoalieUnums(ob) ==
  IF Goalies(ob, {"opponents", "unknown"}) = {} THEN {wm.theirGoalie}
  ELSE {ob[o].unum : o \in Goalies(ob, {"opponents", "unknown"})}

\* Outside kick-offs the rearmost player may be taken for the goalie.
GuessedGoalie(ob, team, n, enough, known) ==
  {ob} \cup
  (IF wm.mode = "play_on" /\ known = {} /\ enough
   THEN {[ob EXCEPT ![o] = SetTeam(@, team, n, TRUE)] : o \in In(ob, team) \cup In(ob, "unknown")}
   ELSE {})

EstimatedOurGoalie(ob, n) ==
  IF SelfUnum = OurGoalie THEN {ob}
  ELSE GuessedGoalie(ob, "teammates", n,
         Cardinality(In(ob, "teammates")) >= TeamSize - 2, Goalies(ob, {"teammates"}))

\* opponents is what M_opponents_from_self holds since before the estimates.
EstimatedTheirGoalie(ob, n, opponents) ==
  GuessedGoalie(ob, "opponents", n,
    /\ Cardinality(In(ob, "teammates")) >= TeamSize - 1
    /\ Cardinality(opponents) >= TeamSize,
    {o \in opponents : ob[o].goalie})

\* updateKickablePlayers, over the sets made before the estimates.
Kickable(ob, team, players) ==
  {"none"} \cup {o \in players : team \in Reaching /\ ob[o].ghost = 0}

UpdatePlayerStateCache ==
  /\ pc = "decide" /\ wm.heard = {}
  /\ \/ LET mates == In(obj, "teammates")
            opponents == In(obj, "opponents") \cup In(obj, "unknown")
        IN \E ob1 \in EstimatedMate(obj) : \E ob2 \in EstimatedOpponent(ob1) :
             \E our \in OurGoalieUnums(ob2), their \in TheirGoalieUnums(ob2) :
               \E ob3 \in EstimatedOurGoalie(ob2, our) :
                 /\ obj' \in EstimatedTheirGoalie(ob3, their, opponents)
                 /\ \E kickMate \in Kickable(obj', "teammates", mates),
                       kickOpp \in Kickable(obj', "opponents",
                                     {o \in opponents : obj[o].posCount < OldCount}) :
                      wm' = [wm EXCEPT !.ourGoalie = our, !.theirGoalie = their,
                                       !.kickMate = kickMate, !.kickOpp = kickOpp]
     \/ UNCHANGED <<obj, wm>>   \* the position of self or ball is not valid
  /\ pc' = "idle"

Next ==
  \/ Update \/ See \/ SeeAfterFullstate
  \/ Fullstate \/ SetCard \/ BeginDecision \/ UpdateGoalieByHear \/ UpdatePlayerByHear
  \/ UpdatePlayerStateCache

Spec == Init /\ [][Next]_vars

-----------------------------------------------------------------------------
(* Properties.                                                             *)

Players ==
  [list : Lists \cup {"none"}, unum : {0} \cup Unums, sure : BOOLEAN, goalie : BOOLEAN,
   posCount : 0..Forgotten, ghost : Nat, guess : BOOLEAN]

Pointers == {"none", "dangling"} \cup Objects

\* Type invariant; an object that exists has a position that is not too old, or
\* stands for a player of a team that was shown a card since the last update().
TypeOK ==
  /\ obj \in [Objects -> Players]
  /\ \A o \in Objects :
       IF o \in Free(obj) THEN obj[o] = NoPlayer
       ELSE \/ obj[o].posCount < PosCountThr
            \/ obj[o].posCount = Forgotten /\ obj[o].list \in Teams
  /\ pc \in {"idle", "decide"}
  /\ wm \in [seen : BOOLEAN, full : BOOLEAN, decided : BOOLEAN, late : BOOLEAN, mode : {"before_kick_off"} \cup Modes,
             heard : SUBSET Sayings, ourGoalie : {0} \cup Unums, theirGoalie : {0} \cup Unums,
             kickMate : Pointers, kickOpp : Pointers]

\* No player is remembered twice: in whatever order numbers are seen, heard and
\* inferred, two objects of a team have the same number only if one of them was
\* taken for the goalie without being seen as such.
NumbersAreUnique ==
  \A team \in Teams : \A o, q \in In(obj, team) :
    o # q /\ obj[o].unum = obj[q].unum /\ obj[o].unum # 0 => obj[o].guess \/ obj[q].guess

\* A team has one goalie, unless one of two was taken for it: PlayerPtrAccuracySorter,
\* which says of any two goalies that each comes first, is an order.
OneGoalie ==
  \A team \in Teams : \A o, q \in Goalies(obj, {team}) :
    o # q => obj[o].guess \/ obj[q].guess

\* The list of unknown players holds nobody whose team is known by its number or
\* goalie mark, but for a goalie that was guessed there.
UnknownAreNameless ==
  \A o \in In(obj, "unknown") : obj[o].unum # 0 \/ obj[o].goalie => obj[o].guess

\* A number that was seen stands for the cycle: whatever else is seen, heard or
\* inferred, the object keeps its team and number and is not crowded out, unless it
\* was taken for a goalie or the end of the decision takes it for one.
SeenNumberStands ==
  [][\A o \in Objects :
       obj[o].sure /\ ~obj[o].guess /\ ~Update
         => \/ obj'[o].list = obj[o].list /\ obj'[o].unum = obj[o].unum
            \/ pc = "decide" /\ pc' = "idle" /\ obj'[o].guess]_vars

\* The next update() asks the players that could kick for their numbers: they
\* still exist, unless a see or a fullstate came after the decision.
KickablesExist == wm.late \/ (wm.kickMate # "dangling" /\ wm.kickOpp # "dangling")

\* "get the estimated kickable opponent if exist": the pointer to the opponent at
\* the ball points to a player that is remembered, if no fullstate replaced all.
KickableOpponentExists == wm.kickOpp = "dangling" => wm.full
=============================================================================
