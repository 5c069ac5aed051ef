---------------------------- MODULE DecisionTiming ----------------------------
(***************************************************************************)
(* When a player may decide: PlayerAgent::Impl::isDecisionTiming, the test *)
(* made at every timeout of the client loop, and the test handleMessage    *)
(* makes after draining its socket (player_agent.cpp).                     *)
(***************************************************************************)
EXTENDS SeeState

CONSTANTS
  SynchMode,            \* ServerParam::synchMode(): the server sends (think)
  WaitThrSynchView,     \* PlayerConfig::waitTimeThrSynchView(), in msec
  WaitThrNoSynchView,   \* PlayerConfig::waitTimeThrNoSynchView(), in msec
  SynchSeeOffset,       \* ServerParam::synchSeeOffset(), in msec
  SynchOffset           \* ServerParam::synchOffset(), in msec

ASSUME TimingAssumption ==
  /\ SynchMode \in BOOLEAN
  /\ WaitThrSynchView \in Nat /\ WaitThrNoSynchView \in Nat
  /\ SynchSeeOffset \in Nat /\ SynchOffset \in Nat

\* synch_see messages arrive after (think).
SeeAfterThink == SynchSeeOffset > SynchOffset

WaitThr(s) == IF IsSynch(s) THEN WaitThrSynchView ELSE WaitThrNoSynchView

\* The agent record a has the times now, lastDecision, seeTime and senseTime.

HasCurrentSee(a) == a.seeTime = a.now

\* No see is expected in this cycle, or it has been waited for long enough.
SeeNotAwaited(s, msec) ==
  \/ s.synchSee /\ SynchSeeOffset > WaitThr(s)
  \/ IsSynch(s) /\ s.till > 0
  \/ msec >= WaitThr(s)

\* Mutant: an agent that has decided in the cycle of its last sense_body waits for
\* the next one.
MutIsDecisionTiming(a, s, msec, timeouts) ==
  /\ ~SynchMode
  /\ msec >= 0
  /\ a.lastDecision # a.now
  /\ HasCurrentSee(a) \/ (a.lastDecision # a.senseTime /\ SeeNotAwaited(s, msec))

\* s: the SeeState; msec: since the last sense_body, negative before the first;
\* timeouts: consecutive timeouts of the loop.
IsDecisionTiming(a, s, msec, timeouts) ==
  /\ ~SynchMode
  /\ msec >= 0
  /\ a.lastDecision # a.now
  /\ \/ HasCurrentSee(a)
     \/ /\ a.lastDecision = a.senseTime => timeouts > 2
        /\ SeeNotAwaited(s, msec)

\* Mutants: a decision on every see, or on every first message.
MutDecidesOnSee(a) == ~SynchMode /\ HasCurrentSee(a)
MutDecidesOnMessage(a) == ~SynchMode /\ a.lastDecision # a.now

\* handleMessage: a see of the current cycle has arrived and nothing is decided.
DecidesOnMessage(a) ==
  ~SynchMode /\ a.lastDecision # a.now /\ HasCurrentSee(a)

\* action() without the see it was waiting for.
MissedSee(a, s) ==
  /\ IsSynch(s) /\ s.till = 0
  /\ ~HasCurrentSee(a)
  /\ ~(s.synchSee /\ SeeAfterThink)
=============================================================================
