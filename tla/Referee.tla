-------------------------------- MODULE Referee --------------------------------
(***************************************************************************)
(* What the players of a team make of the referee's messages:              *)
(* PlayerAgent::Impl::analyzeHearReferee, GameMode::update, the intention  *)
(* it resets, WorldModel::updateGameMode and PenaltyKickState.  Nobody     *)
(* tells a player whose turn it is in a penalty shootout: each counts the  *)
(* announcements it has heard and looks its number up in an order that the *)
(* team has agreed upon.                                                   *)
(*                                                                         *)
(* The referee is external.  Messages about cards and training episodes    *)
(* and strings that are no play mode are left out, as are the start of a   *)
(* set play and the stamina of a new half.                                 *)
(***************************************************************************)
EXTENDS Integers, Sequences

CONSTANTS
  TeamSize,  \* players of a team (11)
  OurSide,   \* the side of the team, "LEFT" or "RIGHT"
  Order,     \* the order of kick takers that the team has agreed upon
  Wishes,    \* what the players may pass to setPenaltyKickTakerOrder
  MaxCycle,  \* bound: last cycle
  MaxPlay,   \* bound: announcements before the shootout
  MaxKicks,  \* bound: penalty kicks of a team
  MaxNet,    \* bound: messages on their way to a player
  Echoes     \* bound: the players that one announcement may reach twice

Unums == 1..TeamSize

\* setKickTakerOrder: every number once.
LegalOrder(w) == Len(w) = TeamSize /\ {w[i] : i \in 1..Len(w)} = Unums

ASSUME RefereeAssumption ==
  /\ TeamSize \in Nat \ {0} /\ OurSide \in {"LEFT", "RIGHT"}
  /\ LegalOrder(Order)
  /\ Wishes \subseteq Seq(Nat) /\ \A w \in Wishes : LegalOrder(w) => w = Order
  /\ {MaxCycle, MaxPlay, MaxKicks, MaxNet} \subseteq Nat /\ Echoes \subseteq Unums

VARIABLES
  ref,     \* the referee: mode, time, announcements of play, and of the shootout the
           \* goal that is used and each side's kicks and goals; catch (history), see
           \* CatchIsKnown
  net,     \* for each player the messages it has not heard, in order
  pl,      \* the players
  doubled  \* history: the players that an announcement has reached twice

vars == <<ref, net, pl, doubled>>

Sides == {"LEFT", "RIGHT"}
Opposite(s) == IF s = "LEFT" THEN "RIGHT" ELSE "LEFT"

PlayTypes == {"PlayOn", "GoalieCatch_", "FreeKick_"}
PenaltyTypes ==
  {"PenaltySetup_", "PenaltyReady_", "PenaltyTaken_", "PenaltyMiss_", "PenaltyScore_",
   "PenaltyOnfield_", "PenaltyFoul_"}
Types == PlayTypes \cup PenaltyTypes \cup {"BeforeKickOff", "TimeOver"}
KickTypes == {"PenaltySetup_", "PenaltyReady_", "PenaltyTaken_"}

IsPenaltyKickMode(m) == m.type \in PenaltyTypes

Mode(type, side, time) == [type |-> type, side |-> side, time |-> time]
Modes == [type : Types, side : Sides \cup {"NEUTRAL"}, time : 0..MaxCycle]

-----------------------------------------------------------------------------
(* The player.                                                             *)

NewPenaltyKickState ==
  [onfield |-> "NEUTRAL", ours |-> 0, theirs |-> 0, ourScore |-> 0, theirScore |-> 0,
   kickSide |-> "NEUTRAL", order |-> <<>>]

\* gm is game_mode_ and the mode of the world model; intention says that there is one.
NewPlayer ==
  [gm |-> Mode("BeforeKickOff", "NEUTRAL", 0), pk |-> NewPenaltyKickState,
   intention |-> FALSE, alive |-> TRUE]

\* Mutant: the free kick that follows the catch replaces it at once.
MutUpdateMode(last, m) == m

\* GameMode::update.  The free kick that is announced with a catch is not a mode of
\* its own.
UpdateMode(last, m) ==
  IF last.type = "GoalieCatch_" /\ m.type = "FreeKick_"
     /\ last.side = m.side /\ last.time = m.time
  THEN [last EXCEPT !.time = m.time]
  ELSE m

\* Mutants: a kick is counted when it is taken; a goal is counted for the side that
\* took the last kick known.
MutCountKick(k, m) ==
  IF m.type # "PenaltyTaken_" THEN k
  ELSE IF m.side = OurSide THEN [k EXCEPT !.ours = @ + 1] ELSE [k EXCEPT !.theirs = @ + 1]
MutCountScore(k, m) ==
  IF m.type # "PenaltyScore_" THEN k
  ELSE IF k.ours > k.theirs THEN [k EXCEPT !.ourScore = @ + 1]
  ELSE [k EXCEPT !.theirScore = @ + 1]

CountKick(k, m) ==
  IF m.type # "PenaltySetup_" THEN k
  ELSE IF m.side = OurSide THEN [k EXCEPT !.ours = @ + 1] ELSE [k EXCEPT !.theirs = @ + 1]

CountScore(k, m) ==
  IF m.type # "PenaltyScore_" THEN k
  ELSE IF m.side = OurSide THEN [k EXCEPT !.ourScore = @ + 1]
  ELSE [k EXCEPT !.theirScore = @ + 1]

\* PenaltyKickState::update; nobody takes a kick before the first one of ours.
UpdatePenalty(k, m) ==
  LET counted == CountScore(CountKick(k, m), m)
  IN [counted EXCEPT
        !.onfield = IF m.type = "PenaltyOnfield_" THEN m.side ELSE @,
        !.kickSide = IF counted.ours > 0 /\ m.type \in KickTypes THEN m.side ELSE "NEUTRAL"]

\* isKickTaker( ourSide(), unum ); without an order the code reads what it never wrote.
IsKickTaker(k, unum) ==
  /\ k.kickSide = OurSide
  /\ k.order # <<>> /\ k.order[((k.ours - 1) % TeamSize) + 1] = unum

\* Mutant: an order is taken if it has as many numbers as there are players.
MutSetKickTakerOrder(k, w) == IF Len(w) = TeamSize THEN [k EXCEPT !.order = w] ELSE k

SetKickTakerOrder(k, w) == IF LegalOrder(w) THEN [k EXCEPT !.order = w] ELSE k

\* The guard of setPenaltyKickTakerOrder.
MaySetOrder(p) ==
  ~(IsPenaltyKickMode(p.gm) /\ p.pk.ours > 0 /\ p.gm.type # "PenaltySetup_")

\* analyzeHearReferee resets the intention "if playmode change to NOT play_on mode".
Resets(m) == m.type # "PlayOn" /\ m.type # "PenaltyTaken_"

\* analyzeHearReferee: after (bye) neither the world model nor the intention follows.
AnalyzeHearReferee(p, m) ==
  LET gm == UpdateMode(p.gm, m)
  IN IF gm.type = "TimeOver" THEN [p EXCEPT !.gm = gm, !.alive = FALSE]
     ELSE [p EXCEPT !.gm = gm,
                    !.pk = IF IsPenaltyKickMode(gm) THEN UpdatePenalty(@, gm) ELSE @,
                    !.intention = @ /\ ~Resets(gm)]

-----------------------------------------------------------------------------
(* The referee.                                                            *)

Init ==
  /\ ref = [mode |-> Mode("BeforeKickOff", "NEUTRAL", 0), catch |-> FALSE, time |-> 0,
            announced |-> 0, onfield |-> "NEUTRAL", kicks |-> [s \in Sides |-> 0],
            goals |-> [s \in Sides |-> 0]]
  /\ net = [p \in Unums |-> <<>>]
  /\ pl = [p \in Unums |-> NewPlayer]
  /\ doubled = {}

\* The messages ms are sent to every player; they may reach one of them twice.
Send(ms) ==
  /\ \A p \in Unums : Len(net[p]) + Len(ms) <= MaxNet
  /\ \/ net' = [p \in Unums |-> net[p] \o ms] /\ UNCHANGED doubled
     \/ \E q \in Echoes \ doubled :
          /\ net' = [p \in Unums |-> net[p] \o (IF p = q THEN ms \o ms ELSE ms)]
          /\ doubled' = doubled \cup {q}
  /\ UNCHANGED pl

Announced(m) == [ref EXCEPT !.mode = m, !.catch = FALSE]

InPlay == ref.mode.type \in PlayTypes \cup {"BeforeKickOff"}

NextCycle ==
  /\ ref.time < MaxCycle /\ InPlay
  /\ ref' = [ref EXCEPT !.time = @ + 1]
  /\ UNCHANGED <<net, pl, doubled>>

\* A change of mode in play.
AnnouncePlay ==
  /\ InPlay /\ ref.announced < MaxPlay
  /\ \E m \in {Mode("PlayOn", "NEUTRAL", ref.time)}
               \cup {Mode("FreeKick_", s, ref.time) : s \in Sides} :
       /\ m # ref.mode
       /\ Send(<<m>>)
       /\ ref' = [Announced(m) EXCEPT !.announced = @ + 1]

\* "When goalie catch the ball, playmode is changed twice at the same game cycle".
AnnounceCatch ==
  /\ ref.mode.type = "PlayOn" /\ ref.announced < MaxPlay
  /\ \E s \in Sides :
       LET free == Mode("FreeKick_", s, ref.time)
           ms == <<Mode("GoalieCatch_", s, ref.time), free>>
       IN /\ Send(ms)
          /\ ref' = [Announced(free) EXCEPT !.announced = @ + 1, !.catch = TRUE]

Setup(s) == Mode("PenaltySetup_", s, ref.time)

\* When the time is over, the goal to be used is announced, and at once the first kick.
BeginShootout ==
  /\ ref.mode.type = "PlayOn" /\ ref.time = MaxCycle
  /\ \E goal, s \in Sides :
       LET ms == <<Mode("PenaltyOnfield_", goal, ref.time), Setup(s)>>
       IN /\ Send(ms)
          /\ ref' = [Announced(Setup(s)) EXCEPT !.onfield = goal, !.kicks[s] = @ + 1,
                                       !.announced = 0]

\* Ready, then taken, by the side whose kick it is.
GoOn ==
  /\ ref.mode.type \in {"PenaltySetup_", "PenaltyReady_"}
  /\ LET m == [ref.mode EXCEPT !.type = IF @ = "PenaltySetup_" THEN "PenaltyReady_"
                                        ELSE "PenaltyTaken_"]
     IN Send(<<m>>) /\ ref' = Announced(m)

\* A kick ends with a goal or without; a foul is announced before.
EndKick ==
  /\ ref.mode.type = "PenaltyTaken_"
  /\ \E type \in {"PenaltyMiss_", "PenaltyScore_"}, foul \in BOOLEAN :
       LET m == [ref.mode EXCEPT !.type = type]
           ms == IF foul THEN <<[m EXCEPT !.type = "PenaltyFoul_"], m>> ELSE <<m>>
       IN /\ Send(ms)
          /\ ref' = [Announced(m) EXCEPT
                       !.goals[m.side] = IF type = "PenaltyScore_" THEN @ + 1 ELSE @]

\* The other side kicks, or the shootout is over.
NextKick ==
  /\ ref.mode.type \in {"PenaltyMiss_", "PenaltyScore_"}
  /\ LET s == Opposite(ref.mode.side)
         over == Mode("TimeOver", "NEUTRAL", ref.time)
     IN \/ /\ ref.kicks[s] < MaxKicks
           /\ Send(<<Setup(s)>>)
           /\ ref' = [Announced(Setup(s)) EXCEPT !.kicks[s] = @ + 1]
        \/ Send(<<over>>) /\ ref' = Announced(over)

-----------------------------------------------------------------------------
(* The players' steps.                                                     *)

HearReferee(p) ==
  /\ pl[p].alive /\ net[p] # <<>>
  /\ net' = [net EXCEPT ![p] = Tail(@)]
  /\ pl' = [pl EXCEPT ![p] = AnalyzeHearReferee(@, Head(net[p]))]
  /\ UNCHANGED <<ref, doubled>>

\* A strategy sets the order of the kick takers, or tries an order that is illegal.
SetOrder(p) ==
  /\ pl[p].alive /\ pl[p].pk.order = <<>> /\ MaySetOrder(pl[p])
  /\ \E w \in Wishes : pl' = [pl EXCEPT ![p].pk = SetKickTakerOrder(@, w)]
  /\ UNCHANGED <<ref, net, doubled>>

\* A decision of the strategy: setIntention, or doIntention, which finds it finished.
SetIntention(p) ==
  /\ pl[p].alive
  /\ pl' = [pl EXCEPT ![p].intention = TRUE]
  /\ UNCHANGED <<ref, net, doubled>>

FinishIntention(p) ==
  /\ pl[p].alive /\ pl[p].intention
  /\ pl' = [pl EXCEPT ![p].intention = FALSE]
  /\ UNCHANGED <<ref, net, doubled>>

Next ==
  \/ NextCycle \/ AnnouncePlay \/ AnnounceCatch
  \/ BeginShootout \/ GoOn \/ EndKick \/ NextKick
  \/ \E p \in Unums : HearReferee(p) \/ SetOrder(p) \/ SetIntention(p) \/ FinishIntention(p)

Spec == Init /\ [][Next]_vars

-----------------------------------------------------------------------------
(* Properties.                                                             *)

PenaltyKickStates ==
  [onfield : Sides \cup {"NEUTRAL"}, ours : Nat, theirs : Nat, ourScore : Nat,
   theirScore : Nat, kickSide : Sides \cup {"NEUTRAL"}, order : {<<>>, Order}]

\* Type invariant; an order that is illegal is never taken.
TypeOK ==
  /\ ref \in [mode : Modes, catch : BOOLEAN, time : 0..MaxCycle, announced : Nat,
              onfield : Sides \cup {"NEUTRAL"}, kicks : [Sides -> Nat],
              goals : [Sides -> Nat]]
  /\ net \in [Unums -> Seq(Modes)]
  /\ pl \in [Unums -> [gm : Modes, pk : PenaltyKickStates, intention : BOOLEAN,
                       alive : BOOLEAN]]
  /\ doubled \subseteq Unums

\* p has heard every announcement.
UpToDate(p) == net[p] = <<>>

\* Whose turn it is: a player that heard every announcement once and knows the order
\* takes itself for the kick taker if it is the one in turn, and otherwise does not;
\* so the counts that the players keep apart never send two of them to the ball.
KickTakerIsInTurn ==
  \A p \in Unums \ doubled :
    UpToDate(p) /\ pl[p].pk.order # <<>> =>
      (IsKickTaker(pl[p].pk, p) <=>
         /\ ref.mode.type \in KickTypes /\ ref.mode.side = OurSide
         /\ Order[((ref.kicks[OurSide] - 1) % TeamSize) + 1] = p)

\* The score that a player counts by itself is the referee's, whatever the order of
\* kicks, fouls and goals, and it knows which goal is used.
ScoreIsKept ==
  \A p \in Unums \ doubled :
    UpToDate(p) =>
      /\ pl[p].pk.ourScore = ref.goals[OurSide]
      /\ pl[p].pk.theirScore = ref.goals[Opposite(OurSide)]
      /\ pl[p].pk.onfield = ref.onfield

\* "to know what this is goalie kick phase": from a catch to the next announcement the
\* players that heard all know that the free kick is a catch, and never else.
CatchIsKnown ==
  \A p \in Unums :
    UpToDate(p) => (ref.catch <=> pl[p].gm.type = "GoalieCatch_")
=============================================================================
