---------------------------- MODULE CoachAgentProofs ----------------------------
(***************************************************************************)
(* Theorems about CoachAgent, for every timing, ration and bound: type     *)
(* correctness, that no (think) is left and no server is given up without  *)
(* being asked, and that the coach's books keep within those of the server.*)
(***************************************************************************)
EXTENDS CoachAgent, Counting, SequenceTheorems

Messages == [kind : Kinds, cycle : Nat, mode : GameModes]

\* A (think) that waits for an answer is in the socket or has just been read.
ThinkIsPending ==
  srv.phase = "thinking" =>
    \/ ag.think /\ pc = "drain"
    \/ \E i \in 1..Len(net) : net[i].kind = "think"

\* A coach without eyes that has waited for long has asked for a sign of life.
SignIsAsked ==
  ~conf.eye /\ ag.alive /\ ag.timeouts > ServerWait =>
    net # <<>> \/ "check_ball" \in srv.asked

\* The clocks: the coach's runs behind the messages, and these behind the server's.
ClocksInOrder ==
  /\ ag.lastDecision.cycle >= -1
  /\ ag.lastDecision.cycle <= ag.now.cycle
  /\ wm.time.cycle <= ag.now.cycle /\ ag.now.cycle <= srv.cycle
  /\ \A i \in 1..Len(net) : ag.now.cycle <= net[i].cycle /\ net[i].cycle <= srv.cycle
  /\ \A i, j \in 1..Len(net) : i < j => net[i].cycle <= net[j].cycle

\* Whether the coach will know, once it has read the messages before the j-th, that
\* the game has begun.
Begun(j) ==
  wm.time.cycle > 0 \/ \E i \in 1..Len(net) : /\ i < j /\ net[i].kind = "see_global"
                                              /\ net[i].cycle > 0

\* The answers on their way that count as substitutions.
Counts(m) == m.kind = "change_player_type" /\ m.cycle > 0
Substituted(s) == CountIn(s, {m \in Messages : Counts(m)})

SubstitutionsBalance ==
  conf.eye =>
    /\ wm.subs + Substituted(net) = srv.subs
    /\ srv.cycle > 0 => Begun(Len(net) + 1)
    /\ \A j \in 1..Len(net) : Counts(net[j]) => Begun(j)

\* The freeform messages of the game lengths that had begun at the last decision.
Lengths(c) == IF c < 0 THEN 0 ELSE c \div GameLength

RestartsHarmless == \A c \in hist.restarts : c = 0 \/ c % GameLength # 0

AllowanceIsDue ==
  /\ wm.sent <= wm.allowed
  /\ RestartsHarmless =>
       wm.allowed <= CoachSayCountMax * (1 + Lengths(ag.lastDecision.cycle))
  /\ ag.lastDecision.cycle = ag.now.cycle /\ ag.now.cycle \notin hist.restarts =>
       ag.lastDecision.stopped <= ag.now.stopped

\* The coach's window began when the server's did, and what was sent in it is spent.
WindowsInStep ==
  ~hist.missed =>
    IF ag.lastDecision.cycle < 0
    THEN wm.capacityTime < 0 /\ hist.count = 0 /\ hist.window = 0
    ELSE /\ hist.window = Window(ag.lastDecision.cycle)
         /\ wm.capacityTime = 1 + CLangWinSize * hist.window
         /\ hist.count + wm.capacity <= CLangWin

\* The inductive invariant.
IInv ==
  /\ TypeOK
  /\ ThinkIsPending
  /\ SignIsAsked
  /\ ClocksInOrder
  /\ SubstitutionsBalance
  /\ AllowanceIsDue
  /\ WindowsInStep

-----------------------------------------------------------------------------
(* Division.                                                               *)

LEMMA DivBounds ==
  ASSUME NEW a \in Nat, NEW w \in Nat \ {0}
  PROVE  /\ a \div w \in Nat
         /\ w * (a \div w) <= a
         /\ a < w * (a \div w) + w
OBVIOUS

LEMMA TimesMonotone ==
  ASSUME NEW w \in Nat, NEW x \in Nat, NEW y \in Nat, x <= y
  PROVE  w * x <= w * y
<1> DEFINE d == y - x
<1>1. d \in Nat /\ y = x + d
  OBVIOUS
<1> HIDE DEF d
<1>2. w * y = w * x + w * d
  BY <1>1
<1>3. w * d \in Nat /\ w * x \in Nat
  BY <1>1
<1> QED
  BY <1>2, <1>3

LEMMA DivUnique ==
  ASSUME NEW a \in Nat, NEW w \in Nat \ {0}, NEW k \in Nat, w * k <= a, a < w * k + w
  PROVE  a \div w = k
<1> DEFINE q == a \div w
<1>1. q \in Nat /\ w * q <= a /\ a < w * q + w
  BY DivBounds
<1> HIDE DEF q
<1>2. ASSUME NEW x \in Nat, NEW y \in Nat, x < y PROVE w * x + w <= w * y
  <2>1. w * (x + 1) <= w * y
    BY <1>2, TimesMonotone
  <2> QED
    BY <2>1
<1>3. ~(q < k)
  BY <1>1, <1>2
<1>4. ~(k < q)
  BY <1>1, <1>2
<1> QED
  BY <1>1, <1>3, <1>4 DEF q

\* A multiple that is reached begins a new length.
LEMMA DivMonotone ==
  ASSUME NEW a \in Nat, NEW b \in Nat, NEW w \in Nat \ {0}, a <= b
  PROVE  /\ a \div w <= b \div w
         /\ a < b /\ b % w = 0 => a \div w + 1 <= b \div w
<1> DEFINE p == a \div w
           q == b \div w
<1>1. p \in Nat /\ w * p <= a /\ a < w * p + w
  BY DivBounds
<1>2. q \in Nat /\ w * q <= b /\ b < w * q + w
  BY DivBounds
<1>3. b % w = 0 => b = w * q
  OBVIOUS
<1> HIDE DEF p, q
<1>5. p <= q
  <2> SUFFICES ASSUME q + 1 <= p PROVE FALSE
    BY <1>1, <1>2
  <2>1. w * (q + 1) <= w * p
    BY <1>1, <1>2, TimesMonotone
  <2>2. w * (q + 1) = w * q + w
    BY <1>2
  <2> QED
    BY <1>1, <1>2, <2>1, <2>2
<1>6. a < b /\ b % w = 0 => p + 1 <= q
  <2> SUFFICES ASSUME a < b, b % w = 0, q <= p PROVE FALSE
    BY <1>1, <1>2
  <2>1. w * q <= w * p
    BY <1>1, <1>2, TimesMonotone
  <2> QED
    BY <1>1, <1>2, <1>3, <2>1
<1> QED
  BY <1>5, <1>6 DEF p, q

-----------------------------------------------------------------------------
(* Types.                                                                  *)

Servers ==
  [cycle : Nat, step : Nat, mode : GameModes, phase : {"new", "thinking", "done"},
   extra : Nat, asked : SUBSET Requests, subs : Nat]
Agents ==
  [now : [cycle : Nat, stopped : Nat], lastDecision : GameTimes, seeTime : GameTimes,
   stopped : BOOLEAN, think : BOOLEAN, alive : BOOLEAN, timeouts : Nat]
Books ==
  [time : GameTimes, mode : GameModes, playonStart : Nat, capacityTime : Int,
   capacity : Nat, allowed : Nat, sent : Nat, subs : Nat]
Hists == [window : Nat, count : Nat, missed : BOOLEAN, restarts : SUBSET Nat]

LEMMA Types ==
  TypeOK <=>
    /\ conf \in [synch : BOOLEAN, eye : BOOLEAN]
    /\ srv \in Servers /\ net \in Seq(Messages) /\ pc \in {"select", "drain", "exit"}
    /\ ag \in Agents /\ wm \in Books /\ hist \in Hists
BY DEF TypeOK, Servers, Messages, Agents, Books, Hists

\* The numbers of a state.
LEMMA Numbers ==
  ASSUME TypeOK
  PROVE  /\ net \in Seq(Messages) /\ srv.cycle \in Nat /\ srv.subs \in Nat
         /\ ag.now.cycle \in Nat /\ ag.now.stopped \in Nat
         /\ ag.lastDecision.cycle \in Int /\ ag.lastDecision.stopped \in Nat
         /\ wm.time.cycle \in Int /\ wm.subs \in Nat /\ wm.sent \in Nat /\ wm.allowed \in Nat
         /\ wm.capacity \in Nat /\ wm.capacityTime \in Int
         /\ hist.window \in Nat /\ hist.count \in Nat /\ hist.missed \in BOOLEAN
         /\ \A i \in 1..Len(net) : net[i] \in Messages /\ net[i].cycle \in Nat
<1>1. net \in Seq(Messages) /\ \A i \in 1..Len(net) : net[i] \in Messages
  BY Types
<1>2. \A m \in Messages : m.cycle \in Nat
  BY DEF Messages
<1>3. srv.cycle \in Nat /\ srv.subs \in Nat
  BY Types DEF Servers
<1>4. /\ ag.now.cycle \in Nat /\ ag.now.stopped \in Nat
      /\ ag.lastDecision.cycle \in Int /\ ag.lastDecision.stopped \in Nat
  BY Types DEF Agents, GameTimes
<1>5. /\ wm.time.cycle \in Int /\ wm.subs \in Nat /\ wm.sent \in Nat /\ wm.allowed \in Nat
      /\ wm.capacity \in Nat /\ wm.capacityTime \in Int
  BY Types DEF Books, GameTimes
<1>6. hist.window \in Nat /\ hist.count \in Nat /\ hist.missed \in BOOLEAN
  BY Types DEF Hists
<1> QED
  BY <1>1, <1>2, <1>3, <1>4, <1>5, <1>6

LEMMA TimesOfNow ==
  ASSUME NEW c \in Nat, NEW s \in Nat
  PROVE  Time(c, s) \in [cycle : Nat, stopped : Nat] /\ Time(c, s) \in GameTimes
BY DEF Time, GameTimes

\* The cycle of the message is the coach's cycle.
LEMMA UpdateCurrentTimeIs ==
  ASSUME NEW a \in Agents, NEW c \in Nat, NEW seen \in BOOLEAN
  PROVE  LET b == UpdateCurrentTime(a, c, seen)
         IN /\ b \in Agents /\ b.now.cycle = c
            /\ b.lastDecision = a.lastDecision /\ b.timeouts = a.timeouts
            /\ b.think = a.think /\ b.alive = a.alive
<1> DEFINE t == IF ~a.stopped \/ c # a.now.cycle THEN Time(c, 0)
                ELSE IF seen THEN Time(c, a.now.stopped + 1) ELSE a.now
<1>1. t \in [cycle : Nat, stopped : Nat] /\ t.cycle = c
  BY DEF Agents, Time
<1>2. UpdateCurrentTime(a, c, seen) = [a EXCEPT !.now = t]
  BY DEF UpdateCurrentTime
<1> HIDE DEF t
<1> QED
  BY <1>1, <1>2 DEF Agents

\* What a message does to the coach and its books.
LEMMA ParseIs ==
  ASSUME NEW a \in Agents, NEW m \in Messages, wm \in Books, Parse(a, m)
  PROVE  /\ ag' \in Agents /\ wm' \in Books
         /\ ag'.now.cycle \in {a.now.cycle, m.cycle}
         /\ m.kind \in {"see_global", "hear", "referee"} => ag'.now.cycle = m.cycle
         /\ m.kind \notin {"see_global", "hear", "referee"} => ag'.now = a.now
         /\ ag'.lastDecision = a.lastDecision /\ ag'.timeouts = a.timeouts
         /\ ag'.think = (a.think \/ m.kind = "think")
         /\ m.kind = "see_global" => wm'.time = ag'.now
         /\ wm'.time = wm.time \/ wm'.time = ag'.now
         /\ wm'.subs = IF m.kind = "change_player_type" /\ wm.time.cycle > 0
                       THEN wm.subs + 1 ELSE wm.subs
         /\ wm'.capacityTime = wm.capacityTime /\ wm'.capacity = wm.capacity
         /\ wm'.allowed = wm.allowed /\ wm'.sent = wm.sent
<1>1. m.cycle \in Nat /\ m.kind \in Kinds /\ m.mode \in GameModes
  BY DEF Messages
<1>2. a.think \in BOOLEAN /\ a.alive \in BOOLEAN
  BY DEF Agents
<1>3. CASE m.kind = "see_global"
  <2> DEFINE b == UpdateCurrentTime(a, m.cycle, TRUE)
  <2>1. /\ b \in Agents /\ b.now.cycle = m.cycle
        /\ b.lastDecision = a.lastDecision /\ b.timeouts = a.timeouts /\ b.think = a.think
    BY <1>1, UpdateCurrentTimeIs
  <2>2. ag' = [b EXCEPT !.seeTime = b.now] /\ wm' = [wm EXCEPT !.time = b.now]
    BY <1>3 DEF Parse, AnalyzeSeeGlobal, UpdateAfterSeeGlobal
  <2> HIDE DEF b
  <2>3. b.now \in GameTimes /\ b.now \in [cycle : Nat, stopped : Nat]
    BY <2>1 DEF Agents, GameTimes
  <2>4. /\ ag' \in Agents /\ ag'.now = b.now
        /\ ag'.lastDecision = b.lastDecision /\ ag'.timeouts = b.timeouts /\ ag'.think = b.think
    BY <2>1, <2>2, <2>3 DEF Agents
  <2>5. /\ wm' \in Books /\ wm'.time = b.now /\ wm'.subs = wm.subs
        /\ wm'.capacityTime = wm.capacityTime /\ wm'.capacity = wm.capacity
        /\ wm'.allowed = wm.allowed /\ wm'.sent = wm.sent
    BY <2>2, <2>3 DEF Books
  <2> QED
    BY <1>2, <1>3, <2>1, <2>4, <2>5
<1>4. CASE m.kind = "hear"
  <2> DEFINE b == UpdateCurrentTime(a, m.cycle, FALSE)
  <2>1. /\ b \in Agents /\ b.now.cycle = m.cycle
        /\ b.lastDecision = a.lastDecision /\ b.timeouts = a.timeouts /\ b.think = a.think
    BY <1>1, UpdateCurrentTimeIs
  <2>2. ag' = b /\ wm' = wm
    BY <1>4 DEF Parse, AnalyzeHear
  <2> HIDE DEF b
  <2> QED
    BY <1>2, <1>4, <2>1, <2>2
<1>5. CASE m.kind = "referee"
  <2> DEFINE b == UpdateCurrentTime(a, m.cycle, FALSE)
  <2>1. /\ b \in Agents /\ b.now.cycle = m.cycle
        /\ b.lastDecision = a.lastDecision /\ b.timeouts = a.timeouts /\ b.think = a.think
    BY <1>1, UpdateCurrentTimeIs
  <2>2. /\ ag' = [b EXCEPT !.stopped = IsServerCycleStoppedMode(m.mode),
                           !.alive = @ /\ ~IsGameEndMode(m.mode)]
        /\ wm' = IF IsGameEndMode(m.mode) THEN wm ELSE UpdateGameMode(wm, m.mode, b.now)
    BY <1>5 DEF Parse, AnalyzeHearReferee
  <2> HIDE DEF b
  <2>3. b.now \in GameTimes /\ b.now \in [cycle : Nat, stopped : Nat] /\ b.now.cycle \in Nat
    BY <2>1 DEF Agents, GameTimes
  <2>4. /\ ag' \in Agents /\ ag'.now = b.now
        /\ ag'.lastDecision = b.lastDecision /\ ag'.timeouts = b.timeouts /\ ag'.think = b.think
    <3>1. /\ IsServerCycleStoppedMode(m.mode) \in BOOLEAN
          /\ (b.alive /\ ~IsGameEndMode(m.mode)) \in BOOLEAN
      BY DEF IsServerCycleStoppedMode
    <3> QED
      BY <2>1, <2>2, <3>1 DEF Agents
  <2>5. /\ wm' \in Books /\ wm'.time \in {wm.time, b.now} /\ wm'.subs = wm.subs
        /\ wm'.capacityTime = wm.capacityTime /\ wm'.capacity = wm.capacity
        /\ wm'.allowed = wm.allowed /\ wm'.sent = wm.sent
    <3>1. CASE IsGameEndMode(m.mode)
      BY <2>2, <3>1
    <3>2. CASE ~IsGameEndMode(m.mode)
      <4> DEFINE s == IF wm.mode # "play_on" /\ m.mode = "play_on" THEN b.now.cycle
                      ELSE wm.playonStart
      <4>1. s \in Nat
        BY <2>3 DEF Books
      <4>2. wm' = [wm EXCEPT !.time = b.now, !.mode = m.mode, !.playonStart = s]
        BY <2>2, <3>2 DEF UpdateGameMode
      <4> HIDE DEF s
      <4> QED
        BY <1>1, <2>3, <4>1, <4>2 DEF Books
    <3> QED
      BY <3>1, <3>2
  <2> QED
    BY <1>2, <1>5, <2>1, <2>4, <2>5
<1>6. CASE m.kind = "think"
  <2>1. ag' = [a EXCEPT !.think = TRUE] /\ wm' = wm
    BY <1>6 DEF Parse
  <2> QED
    BY <1>6, <2>1 DEF Agents
<1>7. CASE m.kind = "change_player_type"
  <2>1. ag' = a /\ wm' = [wm EXCEPT !.subs = IF wm.time.cycle > 0 THEN @ + 1 ELSE @]
    BY <1>7 DEF Parse, ChangePlayerType
  <2> QED
    BY <1>2, <1>7, <2>1 DEF Books
<1>8. CASE m.kind = "ok"
  <2>1. ag' = a /\ wm' = wm
    BY <1>8 DEF Parse
  <2> QED
    BY <1>2, <1>8, <2>1
<1> QED
  BY <1>1, <1>3, <1>4, <1>5, <1>6, <1>7, <1>8 DEF Kinds

LEMMA WindowType ==
  ASSUME NEW c \in Nat
  PROVE  Window(c) \in Nat
<1>1. CASE c = 0
  BY <1>1 DEF Window
<1>2. CASE c # 0
  <2>1. c - 1 \in Nat
    BY <1>2
  <2>2. (c - 1) \div CLangWinSize \in Nat
    BY <2>1, DivBounds, CoachAgentAssumption
  <2> QED
    BY <1>2, <2>2 DEF Window
<1> QED
  BY <1>1, <1>2

\* The books at a decision, before anything is sent.
LEMMA BeforeDecision ==
  ASSUME NEW w \in Books, NEW t \in [cycle : Nat, stopped : Nat]
  PROVE  LET u == [w EXCEPT !.time = t]
             z == UpdateJustBeforeDecision(w, t)
         IN /\ u \in Books /\ u.time = t /\ u.capacityTime = w.capacityTime
            /\ z \in Books /\ z.time = t /\ z.mode = w.mode /\ z.subs = w.subs /\ z.sent = w.sent
            /\ z.capacity = IF RefillIsDue(u) THEN CLangWin ELSE w.capacity
            /\ z.capacityTime = IF RefillIsDue(u) THEN WindowStart(u) ELSE w.capacityTime
            /\ z.allowed = IF NewAllowance(u) THEN w.allowed + CoachSayCountMax ELSE w.allowed
<1> DEFINE u == [w EXCEPT !.time = t]
           z == UpdateJustBeforeDecision(w, t)
<1>1. /\ u \in Books /\ u.time = t /\ u.capacityTime = w.capacityTime
      /\ u.mode = w.mode /\ u.subs = w.subs /\ u.sent = w.sent /\ u.allowed = w.allowed
      /\ u.capacity = w.capacity
  BY DEF Books, GameTimes
<1>2. WindowStart(u) \in Int
  BY <1>1 DEF WindowStart, Books, GameTimes
<1>3. z = [u EXCEPT !.capacity = IF RefillIsDue(u) THEN CLangWin ELSE @,
                    !.capacityTime = IF RefillIsDue(u) THEN WindowStart(u) ELSE @,
                    !.allowed = IF NewAllowance(u) THEN @ + CoachSayCountMax ELSE @]
  BY DEF UpdateJustBeforeDecision, UpdateCLangCapacity
<1> HIDE DEF u
<1> DEFINE c == IF RefillIsDue(u) THEN CLangWin ELSE u.capacity
           s == IF RefillIsDue(u) THEN WindowStart(u) ELSE u.capacityTime
           n == IF NewAllowance(u) THEN u.allowed + CoachSayCountMax ELSE u.allowed
<1>5. c \in Nat /\ s \in Int /\ n \in Nat
  BY <1>1, <1>2, CoachAgentAssumption DEF Books
<1>6. z = [u EXCEPT !.capacity = c, !.capacityTime = s, !.allowed = n]
  BY <1>3
<1> HIDE DEF z, c, s, n
<1>7. /\ z \in Books /\ z.time = u.time /\ z.mode = u.mode /\ z.subs = u.subs /\ z.sent = u.sent
      /\ z.capacity = c /\ z.capacityTime = s /\ z.allowed = n
  BY <1>1, <1>5, <1>6 DEF Books
<1>4. /\ z \in Books /\ z.time = u.time /\ z.mode = u.mode /\ z.subs = u.subs /\ z.sent = u.sent
      /\ z.capacity = IF RefillIsDue(u) THEN CLangWin ELSE u.capacity
      /\ z.capacityTime = IF RefillIsDue(u) THEN WindowStart(u) ELSE u.capacityTime
      /\ z.allowed = IF NewAllowance(u) THEN u.allowed + CoachSayCountMax ELSE u.allowed
  BY <1>7 DEF c, s, n
<1> QED
  BY <1>1, <1>4 DEF u, z

LEMMA DecideIs ==
  ASSUME TypeOK, NEW a \in Agents, NEW asked \in SUBSET Requests, Decide(a, asked)
  PROVE  LET w == UpdateJustBeforeDecision(wm, a.now)
         IN /\ srv' \in Servers /\ srv'.cycle = srv.cycle /\ srv'.subs = srv.subs
            /\ asked \subseteq srv'.asked
            /\ srv'.phase = IF a.think THEN "done" ELSE srv.phase
            /\ wm' \in Books /\ wm'.time = a.now /\ wm'.subs = wm.subs
            /\ wm'.capacityTime = w.capacityTime /\ wm'.allowed = w.allowed
            /\ wm.sent <= w.allowed => wm'.sent <= wm'.allowed
            /\ \E restricted \in BOOLEAN :
                 /\ NoteDecision(a, restricted)
                 /\ restricted => w.capacity > 0
                 /\ wm'.capacity = IF restricted THEN w.capacity - 1 ELSE w.capacity
<1> DEFINE w == UpdateJustBeforeDecision(wm, a.now)
<1>0. srv \in Servers /\ wm \in Books
  BY Types
<1>1. w \in Books /\ w.time = a.now /\ w.subs = wm.subs /\ w.sent = wm.sent
  BY <1>0, BeforeDecision DEF Agents
<1>2. PICK clang \in BOOLEAN, freeform \in BOOLEAN, change \in BOOLEAN :
        /\ clang => CanSendCLang(w)
        /\ freeform => CanSendFreeform(w)
        /\ wm' = IF freeform
                 THEN [(IF clang THEN DecCLangCapacity(w) ELSE w) EXCEPT !.sent = @ + 1]
                 ELSE IF clang THEN DecCLangCapacity(w) ELSE w
        /\ srv' = [srv EXCEPT
                     !.asked = IF change THEN asked \cup {"change_player_type"} ELSE asked,
                     !.phase = IF a.think THEN "done" ELSE @]
        /\ NoteDecision(a, clang /\ w.mode = "play_on")
  BY DEF Decide
<1> HIDE DEF w
<1>3. /\ srv' \in Servers /\ srv'.cycle = srv.cycle /\ srv'.subs = srv.subs
      /\ asked \subseteq srv'.asked
      /\ srv'.phase = IF a.think THEN "done" ELSE srv.phase
  <2> DEFINE k == IF change THEN asked \cup {"change_player_type"} ELSE asked
             h == IF a.think THEN "done" ELSE srv.phase
  <2>1. k \in SUBSET Requests /\ asked \subseteq k /\ h \in {"new", "thinking", "done"}
    BY <1>0 DEF Requests, Servers
  <2>2. srv' = [srv EXCEPT !.asked = k, !.phase = h]
    BY <1>2
  <2> HIDE DEF k, h
  <2>3. /\ srv' \in Servers /\ srv'.cycle = srv.cycle /\ srv'.subs = srv.subs
        /\ srv'.asked = k /\ srv'.phase = h
    BY <1>0, <2>1, <2>2 DEF Servers
  <2> QED
    BY <2>1, <2>3 DEF h
<1> DEFINE v == IF clang THEN DecCLangCapacity(w) ELSE w
           restricted == clang /\ w.mode = "play_on"
<1>4. /\ v \in Books /\ v.time = w.time /\ v.subs = w.subs /\ v.sent = w.sent
      /\ v.capacityTime = w.capacityTime /\ v.allowed = w.allowed
      /\ restricted => w.capacity > 0
      /\ v.capacity = IF restricted THEN w.capacity - 1 ELSE w.capacity
  <2>1. restricted => w.capacity > 0
    BY <1>2 DEF CanSendCLang
  <2>2. CASE restricted
    <3>1. v = [w EXCEPT !.capacity = w.capacity - 1] /\ w.capacity - 1 \in Nat
      BY <1>1, <2>1, <2>2 DEF DecCLangCapacity, Books
    <3> HIDE DEF v
    <3> QED
      BY <1>1, <2>1, <2>2, <3>1 DEF Books
  <2>3. CASE ~restricted
    <3>1. v = [w EXCEPT !.capacity = w.capacity] \/ v = w
      BY <1>1, <2>3 DEF DecCLangCapacity, Books
    <3> HIDE DEF v
    <3> QED
      BY <1>1, <2>3, <3>1 DEF Books
  <2> QED
    BY <2>2, <2>3
<1>5. wm' = IF freeform THEN [v EXCEPT !.sent = @ + 1] ELSE v
  BY <1>2
<1>6. freeform => w.sent < w.allowed
  BY <1>2 DEF CanSendFreeform
<1>7. restricted \in BOOLEAN /\ NoteDecision(a, restricted)
  BY <1>2
<1> HIDE DEF v, restricted
<1>8. /\ wm' \in Books /\ wm'.time = v.time /\ wm'.subs = v.subs
      /\ wm'.capacityTime = v.capacityTime /\ wm'.allowed = v.allowed
      /\ wm'.capacity = v.capacity
      /\ wm'.sent = IF freeform THEN v.sent + 1 ELSE v.sent
  BY <1>4, <1>5 DEF Books
<1>9. wm.sent <= w.allowed => wm'.sent <= wm'.allowed
  BY <1>1, <1>4, <1>6, <1>8 DEF Books
<1> QED
  BY <1>1, <1>3, <1>4, <1>7, <1>8, <1>9 DEF w

LEMMA NoteIs ==
  ASSUME TypeOK, NEW a \in Agents, NEW restricted \in BOOLEAN, NoteDecision(a, restricted)
  PROVE  LET last == IF a.lastDecision.cycle < 0 THEN 0 ELSE a.lastDecision.cycle
             count == IF Window(a.now.cycle) = hist.window THEN hist.count ELSE 0
         IN /\ hist' \in Hists
            /\ hist'.window = Window(a.now.cycle) /\ hist'.restarts = hist.restarts
            /\ hist'.count = IF restricted THEN count + 1 ELSE count
            /\ hist'.missed = (hist.missed \/ last + 1 < a.now.cycle)
<1> DEFINE last == IF a.lastDecision.cycle < 0 THEN 0 ELSE a.lastDecision.cycle
           count == IF Window(a.now.cycle) = hist.window THEN hist.count ELSE 0
<1>1. hist \in Hists /\ count \in Nat
  BY Types DEF Hists
<1>2. Window(a.now.cycle) \in Nat
  BY WindowType DEF Agents
<1>3. hist' = [hist EXCEPT !.window = Window(a.now.cycle),
                           !.count = IF restricted THEN count + 1 ELSE count,
                           !.missed = @ \/ last + 1 < a.now.cycle]
  BY DEF NoteDecision
<1> HIDE DEF last, count
<1> DEFINE w == Window(a.now.cycle)
           n == IF restricted THEN count + 1 ELSE count
           missed == hist.missed \/ last + 1 < a.now.cycle
<1>4. missed \in BOOLEAN /\ n \in Nat /\ w \in Nat
  BY <1>1, <1>2 DEF Hists
<1>6. hist' = [hist EXCEPT !.window = w, !.count = n, !.missed = missed]
  BY <1>3
<1> HIDE DEF w, n, missed
<1>7. /\ hist' \in Hists /\ hist'.window = w /\ hist'.restarts = hist.restarts
      /\ hist'.count = n /\ hist'.missed = missed
  BY <1>1, <1>4, <1>6 DEF Hists
<1>5. /\ hist' \in Hists
      /\ hist'.window = Window(a.now.cycle) /\ hist'.restarts = hist.restarts
      /\ hist'.count = IF restricted THEN count + 1 ELSE count
      /\ hist'.missed = (hist.missed \/ last + 1 < a.now.cycle)
  BY <1>7 DEF w, n, missed
<1> QED
  BY <1>5 DEF last, count

LEMMA ActIs ==
  ASSUME TypeOK, NEW a \in Agents, NEW asked \in SUBSET Requests, Act(a, asked)
  PROVE  /\ ag' \in Agents /\ srv' \in Servers /\ wm' \in Books /\ hist' \in Hists
         /\ ag'.now = a.now /\ ag'.lastDecision = a.now /\ ag'.alive = a.alive
         /\ ag'.timeouts = a.timeouts /\ ag'.think = FALSE
         /\ srv'.cycle = srv.cycle /\ srv'.subs = srv.subs /\ asked \subseteq srv'.asked
         /\ srv'.phase = IF a.think THEN "done" ELSE srv.phase
         /\ wm'.subs = wm.subs
         /\ IF a.lastDecision # a.now THEN Decide(a, asked) /\ wm'.time = a.now
            ELSE wm' = wm /\ hist' = hist
<1>1. ag' = [a EXCEPT !.lastDecision = a.now, !.think = FALSE]
  BY DEF Act
<1>2. a.now \in GameTimes
  BY DEF Agents, GameTimes
<1>3. /\ ag' \in Agents /\ ag'.now = a.now /\ ag'.lastDecision = a.now /\ ag'.alive = a.alive
      /\ ag'.timeouts = a.timeouts /\ ag'.think = FALSE
  BY <1>1, <1>2 DEF Agents
<1>4. srv \in Servers /\ wm \in Books /\ hist \in Hists
  BY Types
<1>5. CASE a.lastDecision # a.now
  <2>1. Decide(a, asked)
    BY <1>5 DEF Act
  <2>2. /\ srv' \in Servers /\ srv'.cycle = srv.cycle /\ srv'.subs = srv.subs
        /\ asked \subseteq srv'.asked
        /\ srv'.phase = IF a.think THEN "done" ELSE srv.phase
        /\ wm' \in Books /\ wm'.time = a.now /\ wm'.subs = wm.subs
        /\ \E restricted \in BOOLEAN : NoteDecision(a, restricted)
    BY <2>1, DecideIs
  <2>3. hist' \in Hists
    BY <2>2, NoteIs
  <2> QED
    BY <1>3, <1>5, <2>1, <2>2, <2>3
<1>6. CASE a.lastDecision = a.now
  <2> DEFINE h == IF a.think THEN "done" ELSE srv.phase
  <2>1. srv' = [srv EXCEPT !.asked = asked, !.phase = h] /\ wm' = wm /\ hist' = hist
    BY <1>6 DEF Act
  <2>2. h \in {"new", "thinking", "done"}
    BY <1>4 DEF Servers
  <2> HIDE DEF h
  <2>3. /\ srv' \in Servers /\ srv'.cycle = srv.cycle /\ srv'.subs = srv.subs
        /\ srv'.asked = asked /\ srv'.phase = h
    BY <1>4, <2>1, <2>2 DEF Servers
  <2> QED
    BY <1>3, <1>4, <1>6, <2>1, <2>3 DEF h
<1> QED
  BY <1>5, <1>6

-----------------------------------------------------------------------------
(* The steps.                                                              *)

\* What the server does reaches the coach by its messages alone.
LEMMA ServerIs ==
  ASSUME TypeOK, Server
  PROVE  /\ UNCHANGED <<conf, pc, ag, wm, hist>>
         /\ srv' \in Servers /\ srv.cycle <= srv'.cycle
         /\ \/ /\ net' = net /\ ~conf.eye
               /\ srv'.phase # "thinking" /\ srv'.asked = srv.asked
            \/ \E m \in Messages :
                 /\ net' = Append(net, m) /\ m.cycle = srv'.cycle
                 /\ m.kind = "see_global" \/ srv'.cycle = srv.cycle
                 /\ srv'.subs = IF Counts(m) THEN srv.subs + 1 ELSE srv.subs
                 /\ srv'.phase = "thinking" => srv.phase = "thinking" \/ m.kind = "think"
<1>0. srv \in Servers /\ srv.cycle \in Nat /\ srv.mode \in GameModes /\ srv.subs \in Nat
      /\ conf.eye \in BOOLEAN
  BY Types DEF Servers
<1>1. CASE NewStep
  <2> DEFINE c == IF IsServerCycleStoppedMode(srv.mode) THEN srv.cycle ELSE srv.cycle + 1
  <2>1. /\ srv' = [srv EXCEPT !.cycle = c, !.step = @ + 1, !.phase = "new"]
        /\ IF conf.eye
           THEN net' = Append(net, [kind |-> "see_global", cycle |-> c, mode |-> srv.mode])
           ELSE net' = net
        /\ UNCHANGED <<conf, pc, ag, wm, hist>>
    BY <1>1 DEF NewStep, Send
  <2>2. c \in Nat /\ srv.cycle <= c
    BY <1>0
  <2> HIDE DEF c
  <2>3. /\ srv' \in Servers /\ srv'.cycle = c /\ srv'.subs = srv.subs /\ srv'.asked = srv.asked
        /\ srv'.phase = "new"
    <3> DEFINE e == srv.step + 1
    <3>1. e \in Nat /\ srv' = [srv EXCEPT !.cycle = c, !.step = e, !.phase = "new"]
      BY <1>0, <2>1 DEF Servers
    <3> HIDE DEF e
    <3> QED
      BY <1>0, <2>2, <3>1 DEF Servers
  <2>4. CASE conf.eye
    <3> DEFINE m == [kind |-> "see_global", cycle |-> c, mode |-> srv.mode]
    <3>1. m \in Messages /\ m.kind = "see_global" /\ m.cycle = c
      BY <1>0, <2>2 DEF Messages, Kinds
    <3>2. net' = Append(net, m)
      BY <2>1, <2>4
    <3> HIDE DEF m
    <3> QED
      BY <2>1, <2>2, <2>3, <3>1, <3>2 DEF Counts
  <2>5. CASE ~conf.eye
    BY <2>1, <2>2, <2>3, <2>5
  <2> QED
    BY <1>0, <2>4, <2>5
<1>2. CASE SendHear
  <2> DEFINE m == Message("hear")
  <2>1. m \in Messages /\ m.kind = "hear" /\ m.cycle = srv.cycle
    BY <1>0 DEF Message, Messages, Kinds
  <2>2. /\ srv' = [srv EXCEPT !.extra = @ + 1] /\ net' = Append(net, m)
        /\ UNCHANGED <<conf, pc, ag, wm, hist>>
    BY <1>2 DEF SendHear, Send
  <2> HIDE DEF m
  <2>3. /\ srv' \in Servers /\ srv'.cycle = srv.cycle /\ srv'.subs = srv.subs
        /\ srv'.phase = srv.phase
    BY <1>0, <2>2 DEF Servers
  <2> QED
    BY <1>0, <2>1, <2>2, <2>3 DEF Counts
<1>3. CASE Announce
  <2>1. PICK k \in GameModes \ {srv.mode} :
          /\ srv' = [srv EXCEPT !.mode = k, !.extra = @ + 1]
          /\ Send([kind |-> "referee", cycle |-> srv.cycle, mode |-> k])
    BY <1>3 DEF Announce
  <2> DEFINE m == [kind |-> "referee", cycle |-> srv.cycle, mode |-> k]
  <2>2. m \in Messages /\ m.kind = "referee" /\ m.cycle = srv.cycle
    BY <1>0 DEF Messages, Kinds
  <2>3. net' = Append(net, m) /\ UNCHANGED <<conf, pc, ag, wm, hist>>
    BY <1>3, <2>1 DEF Announce, Send
  <2> HIDE DEF m
  <2>4. /\ srv' \in Servers /\ srv'.cycle = srv.cycle /\ srv'.subs = srv.subs
        /\ srv'.phase = srv.phase
    <3> DEFINE e == srv.extra + 1
    <3>1. e \in Nat /\ srv' = [srv EXCEPT !.mode = k, !.extra = e]
      BY <1>0, <2>1 DEF Servers
    <3> HIDE DEF e
    <3> QED
      BY <1>0, <3>1 DEF Servers
  <2> QED
    BY <1>0, <2>2, <2>3, <2>4 DEF Counts
<1>4. CASE AnswerRequest
  <2>1. PICK r \in srv.asked :
          LET taken == r = "change_player_type" /\ TakesSubstitution
          IN /\ srv' = [srv EXCEPT !.asked = @ \ {r}, !.extra = @ + 1,
                                   !.subs = IF taken /\ srv.cycle > 0 THEN @ + 1 ELSE @]
             /\ Send(Message(IF taken THEN r ELSE "ok"))
    BY <1>4 DEF AnswerRequest
  <2> DEFINE taken == r = "change_player_type" /\ TakesSubstitution
             m == Message(IF taken THEN r ELSE "ok")
             n == IF taken /\ srv.cycle > 0 THEN srv.subs + 1 ELSE srv.subs
             k == srv.asked \ {r}
  <2>2. /\ m \in Messages /\ m.cycle = srv.cycle /\ m.kind # "see_global" /\ m.kind # "think"
        /\ m.kind = "change_player_type" <=> taken
    BY <1>0 DEF Message, Messages, Kinds
  <2>3. /\ srv' = [srv EXCEPT !.asked = k, !.extra = @ + 1, !.subs = n]
        /\ net' = Append(net, m) /\ UNCHANGED <<conf, pc, ag, wm, hist>>
    BY <1>4, <2>1 DEF AnswerRequest, Send
  <2>4. n \in Nat /\ k \in SUBSET Requests
    BY <1>0 DEF Servers
  <2>5. n = IF Counts(m) THEN srv.subs + 1 ELSE srv.subs
    BY <2>2 DEF Counts
  <2> HIDE DEF taken, m, n, k
  <2>6. /\ srv' \in Servers /\ srv'.cycle = srv.cycle /\ srv'.subs = n
        /\ srv'.phase = srv.phase
    <3> DEFINE e == srv.extra + 1
    <3>1. e \in Nat /\ srv' = [srv EXCEPT !.asked = k, !.extra = e, !.subs = n]
      BY <1>0, <2>3 DEF Servers
    <3> HIDE DEF e
    <3> QED
      BY <1>0, <2>4, <3>1 DEF Servers
  <2> QED
    BY <1>0, <2>2, <2>3, <2>5, <2>6
<1>5. CASE SendThink
  <2> DEFINE m == Message("think")
  <2>1. m \in Messages /\ m.kind = "think" /\ m.cycle = srv.cycle
    BY <1>0 DEF Message, Messages, Kinds
  <2>2. /\ srv' = [srv EXCEPT !.phase = "thinking"] /\ net' = Append(net, m)
        /\ UNCHANGED <<conf, pc, ag, wm, hist>>
    BY <1>5 DEF SendThink, Send
  <2> HIDE DEF m
  <2>3. /\ srv' \in Servers /\ srv'.cycle = srv.cycle /\ srv'.subs = srv.subs
    BY <1>0, <2>2 DEF Servers
  <2> QED
    BY <1>0, <2>1, <2>2, <2>3 DEF Counts
<1> QED
  BY <1>1, <1>2, <1>3, <1>4, <1>5 DEF Server

\* A message that is received, the first in the socket.
LEMMA ReceiveIs ==
  ASSUME TypeOK, ReceiveMessage
  PROVE  /\ UNCHANGED <<conf, srv>> /\ pc' = "drain" /\ net # <<>> /\ net' = Tail(net)
         /\ Head(net) \in Messages /\ net' \in Seq(Messages)
         /\ ag' \in Agents /\ wm' \in Books /\ hist' \in Hists
         /\ ag'.now.cycle \in {ag.now.cycle, Head(net).cycle}
         /\ Head(net).kind \in {"see_global", "hear", "referee"} =>
              ag'.now.cycle = Head(net).cycle
         /\ Head(net).kind \notin {"see_global", "hear", "referee"} => ag'.now = ag.now
         /\ ag'.lastDecision = ag.lastDecision /\ ag'.timeouts = 0
         /\ ag'.think = (ag.think \/ Head(net).kind = "think")
         /\ Head(net).kind = "see_global" => wm'.time = ag'.now
         /\ wm'.time = wm.time \/ wm'.time = ag'.now
         /\ wm'.subs = IF Head(net).kind = "change_player_type" /\ wm.time.cycle > 0
                       THEN wm.subs + 1 ELSE wm.subs
         /\ wm'.capacityTime = wm.capacityTime /\ wm'.capacity = wm.capacity
         /\ wm'.allowed = wm.allowed /\ wm'.sent = wm.sent
         /\ hist'.window = hist.window /\ hist'.count = hist.count
         /\ hist'.missed = hist.missed
         /\ hist'.restarts = IF ag'.now.cycle = ag.now.cycle /\ ag'.now.stopped < ag.now.stopped
                             THEN hist.restarts \cup {ag.now.cycle} ELSE hist.restarts
<1> DEFINE m == Head(net)
           a == [ag EXCEPT !.timeouts = 0]
<1>1. ag \in Agents /\ wm \in Books /\ hist \in Hists /\ net \in Seq(Messages)
  BY Types
<1>2. net # <<>> /\ m \in Messages /\ Tail(net) \in Seq(Messages)
  BY <1>1 DEF ReceiveMessage
<1>3. /\ a \in Agents /\ a.timeouts = 0 /\ a.now = ag.now /\ a.think = ag.think
      /\ a.lastDecision = ag.lastDecision
  BY <1>1 DEF Agents
<1>4. Parse(a, m)
  BY DEF ReceiveMessage
<1> HIDE DEF m, a
<1>5. /\ ag' \in Agents /\ wm' \in Books
      /\ ag'.now.cycle \in {a.now.cycle, m.cycle}
      /\ m.kind \in {"see_global", "hear", "referee"} => ag'.now.cycle = m.cycle
      /\ m.kind \notin {"see_global", "hear", "referee"} => ag'.now = a.now
      /\ ag'.lastDecision = a.lastDecision /\ ag'.timeouts = a.timeouts
      /\ ag'.think = (a.think \/ m.kind = "think")
      /\ m.kind = "see_global" => wm'.time = ag'.now
      /\ wm'.time = wm.time \/ wm'.time = ag'.now
      /\ wm'.subs = IF m.kind = "change_player_type" /\ wm.time.cycle > 0
                    THEN wm.subs + 1 ELSE wm.subs
      /\ wm'.capacityTime = wm.capacityTime /\ wm'.capacity = wm.capacity
      /\ wm'.allowed = wm.allowed /\ wm'.sent = wm.sent
  BY <1>1, <1>2, <1>3, <1>4, ParseIs
<1> DEFINE r == IF ag'.now.cycle = ag.now.cycle /\ ag'.now.stopped < ag.now.stopped
                THEN hist.restarts \cup {ag.now.cycle} ELSE hist.restarts
<1>6. hist' = [hist EXCEPT !.restarts = r]
  BY DEF ReceiveMessage
<1>7. r \in SUBSET Nat
  BY <1>1 DEF Agents, Hists
<1> HIDE DEF r
<1>8. /\ hist' \in Hists /\ hist'.restarts = r
      /\ hist'.window = hist.window /\ hist'.count = hist.count /\ hist'.missed = hist.missed
  BY <1>1, <1>6, <1>7 DEF Hists
<1>9. UNCHANGED <<conf, srv>> /\ pc' = "drain" /\ net' = Tail(net)
  BY DEF ReceiveMessage
<1> QED
  BY <1>2, <1>3, <1>5, <1>8, <1>9 DEF m, r

\* The end of a batch of messages, a timeout and the end: the coach acts or it waits.
LEMMA EndOrTimeoutIs ==
  ASSUME TypeOK, EndOfMessages \/ HandleTimeout \/ Exit
  PROVE  /\ UNCHANGED <<conf, net>> /\ pc' \in {"select", "exit"}
         /\ \/ \E a \in Agents, asked \in SUBSET Requests :
                 /\ a.now = ag.now /\ a.lastDecision = ag.lastDecision /\ a.think = ag.think
                 /\ a.alive = ag.alive /\ a.timeouts \in {ag.timeouts, ag.timeouts + 1}
                 /\ pc = "drain" => a = ag /\ ag.think
                 /\ pc # "drain" => a.timeouts = ag.timeouts + 1
                 /\ srv.asked \subseteq asked
                 /\ a.timeouts > ServerWait /\ pc # "drain" => "check_ball" \in asked
                 /\ Act(a, asked)
            \/ /\ UNCHANGED <<wm, hist>> /\ ag' \in Agents /\ srv' \in Servers
               /\ ag'.now = ag.now /\ ag'.lastDecision = ag.lastDecision
               /\ ag'.think = ag.think
               /\ srv'.cycle = srv.cycle /\ srv'.subs = srv.subs /\ srv'.phase = srv.phase
               /\ srv.asked \subseteq srv'.asked
               /\ pc = "drain" => ~ag.think
               /\ \/ ag' = ag
                  \/ /\ ag'.timeouts = ag.timeouts + 1
                     /\ ag'.alive /\ ag'.timeouts > ServerWait => "check_ball" \in srv'.asked
<1>0. ag \in Agents /\ srv \in Servers /\ srv.asked \in SUBSET Requests /\ ag.timeouts \in Nat
  BY Types DEF Agents, Servers
<1>1. CASE EndOfMessages
  <2>1. pc = "drain" /\ pc' = "select" /\ UNCHANGED <<conf, net>>
    BY <1>1 DEF EndOfMessages
  <2>2. CASE ag.think
    <3>1. Act(ag, srv.asked)
      BY <1>1, <2>2 DEF EndOfMessages
    <3> QED
      BY <1>0, <2>1, <2>2, <3>1
  <2>3. CASE ~ag.think
    <3>1. UNCHANGED <<srv, ag, wm, hist>>
      BY <1>1, <2>3 DEF EndOfMessages
    <3> QED
      BY <1>0, <2>1, <2>3, <3>1
  <2> QED
    BY <2>2, <2>3
<1>2. CASE HandleTimeout
  <2> DEFINE a == [ag EXCEPT !.timeouts = @ + 1]
             asked == IF a.timeouts > ServerWait THEN srv.asked \cup {"check_ball"} ELSE srv.asked
  <2>1. /\ pc = "select" /\ UNCHANGED <<conf, net, pc>>
        /\ IF ServerDown(a)
           THEN ag' = [a EXCEPT !.alive = FALSE] /\ UNCHANGED <<srv, wm, hist>>
           ELSE IF DecidesOnTimeout(a)
           THEN Act(a, asked)
           ELSE ag' = a /\ srv' = [srv EXCEPT !.asked = asked] /\ UNCHANGED <<wm, hist>>
    BY <1>2 DEF HandleTimeout
  <2>2. /\ a \in Agents /\ a.timeouts = ag.timeouts + 1 /\ a.now = ag.now /\ a.alive = ag.alive
        /\ a.lastDecision = ag.lastDecision /\ a.think = ag.think
    BY <1>0 DEF Agents
  <2>3. /\ asked \in SUBSET Requests /\ srv.asked \subseteq asked
        /\ a.timeouts > ServerWait => "check_ball" \in asked
    BY <1>0 DEF Requests
  <2> HIDE DEF a, asked
  <2>4. CASE ServerDown(a)
    <3>1. ag' = [a EXCEPT !.alive = FALSE] /\ UNCHANGED <<srv, wm, hist>>
      BY <2>1, <2>4
    <3>2. /\ ag' \in Agents /\ ag'.timeouts = a.timeouts /\ ag'.now = a.now /\ ~ag'.alive
          /\ ag'.lastDecision = a.lastDecision /\ ag'.think = a.think
      BY <2>2, <3>1 DEF Agents
    <3> QED
      BY <1>0, <2>1, <2>2, <3>1, <3>2
  <2>5. CASE ~ServerDown(a) /\ DecidesOnTimeout(a)
    BY <2>1, <2>2, <2>3, <2>5
  <2>6. CASE ~ServerDown(a) /\ ~DecidesOnTimeout(a)
    <3>1. ag' = a /\ srv' = [srv EXCEPT !.asked = asked] /\ UNCHANGED <<wm, hist>>
      BY <2>1, <2>6
    <3>2. /\ srv' \in Servers /\ srv'.asked = asked /\ srv'.cycle = srv.cycle
          /\ srv'.subs = srv.subs /\ srv'.phase = srv.phase
      BY <1>0, <2>3, <3>1 DEF Servers
    <3> QED
      BY <2>1, <2>2, <2>3, <3>1, <3>2
  <2> QED
    BY <2>4, <2>5, <2>6
<1>3. CASE Exit
  BY <1>0, <1>3 DEF Exit
<1> QED
  BY <1>1, <1>2, <1>3

\* A message that is sent, and one that is received.
LEMMA AppendIs ==
  ASSUME NEW s \in Seq(Messages), NEW m \in Messages
  PROVE  LET t == Append(s, m)
         IN /\ t \in Seq(Messages) /\ t # <<>>
            /\ Len(s) \in Nat /\ Len(t) = Len(s) + 1 /\ t[Len(s) + 1] = m
            /\ \A i \in 1..Len(s) : i \in 1..Len(t) /\ t[i] = s[i]
            /\ \A i \in 1..Len(t) : i \in 1..Len(s) \/ i = Len(s) + 1
            /\ Substituted(t) = IF Counts(m) THEN Substituted(s) + 1 ELSE Substituted(s)
            /\ Substituted(s) \in Nat
<1> DEFINE t == Append(s, m)
           K == {x \in Messages : Counts(x)}
<1>1. /\ t \in Seq(Messages) /\ t # <<>>
      /\ Len(s) \in Nat /\ Len(t) = Len(s) + 1 /\ t[Len(s) + 1] = m
      /\ \A i \in 1..Len(s) : t[i] = s[i]
  OBVIOUS
<1>2. CountIn(s \o <<m>>, K) = CountIn(s, K) + One(m \in K)
  BY CountInSent
<1>3. t = s \o <<m>>
  BY AppendIsConcat
<1>4. CountIn(s, K) \in Nat
  BY CountInIsNat
<1> HIDE DEF t
<1>5. /\ \A i \in 1..Len(s) : i \in 1..Len(t) /\ t[i] = s[i]
      /\ \A i \in 1..Len(t) : i \in 1..Len(s) \/ i = Len(s) + 1
  BY <1>1
<1>6. Substituted(t) = IF Counts(m) THEN Substituted(s) + 1 ELSE Substituted(s)
  <2>1. Substituted(t) = CountIn(t, K) /\ Substituted(s) = CountIn(s, K)
    BY DEF Substituted
  <2>2. m \in K <=> Counts(m)
    OBVIOUS
  <2> HIDE DEF K
  <2>3. CountIn(t, K) = CountIn(s, K) + One(m \in K)
    BY <1>2, <1>3
  <2>4. CASE Counts(m)
    BY <1>4, <2>1, <2>2, <2>3, <2>4 DEF One
  <2>5. CASE ~Counts(m)
    BY <1>4, <2>1, <2>2, <2>3, <2>5 DEF One
  <2> QED
    BY <2>4, <2>5
<1> QED
  BY <1>1, <1>4, <1>5, <1>6 DEF t, Substituted

LEMMA TailIs ==
  ASSUME NEW s \in Seq(Messages), s # <<>>
  PROVE  LET t == Tail(s)
         IN /\ t \in Seq(Messages) /\ Len(s) \in Nat /\ Len(s) > 0 /\ Len(t) = Len(s) - 1
            /\ Head(s) = s[1] /\ Head(s) \in Messages
            /\ \A i \in 1..Len(t) : i + 1 \in 1..Len(s) /\ t[i] = s[i + 1]
            /\ \A i \in 1..Len(s) : i = 1 \/ (i - 1 \in 1..Len(t) /\ t[i - 1] = s[i])
            /\ Substituted(s) = IF Counts(Head(s)) THEN Substituted(t) + 1 ELSE Substituted(t)
            /\ Substituted(t) \in Nat
<1> DEFINE t == Tail(s)
           K == {x \in Messages : Counts(x)}
<1>1. /\ t \in Seq(Messages) /\ Len(s) \in Nat /\ Len(s) > 0 /\ Len(t) = Len(s) - 1
      /\ Head(s) = s[1] /\ Head(s) \in Messages
      /\ \A i \in 1..Len(t) : t[i] = s[i + 1]
  OBVIOUS
<1>2. CountIn(s, K) = CountIn(t, K) + One(Head(s) \in K)
  BY CountInHeard
<1>3. CountIn(t, K) \in Nat
  BY <1>1, CountInIsNat
<1> HIDE DEF t
<1>4. \A i \in 1..Len(t) : i + 1 \in 1..Len(s) /\ t[i] = s[i + 1]
  BY <1>1
<1>5. \A i \in 1..Len(s) : i = 1 \/ (i - 1 \in 1..Len(t) /\ t[i - 1] = s[i])
  <2> SUFFICES ASSUME NEW i \in 1..Len(s), i # 1 PROVE i - 1 \in 1..Len(t) /\ t[i - 1] = s[i]
    OBVIOUS
  <2>1. i - 1 \in 1..Len(t) /\ (i - 1) + 1 = i
    BY <1>1
  <2> QED
    BY <1>1, <2>1
<1>6. Substituted(s) = IF Counts(Head(s)) THEN Substituted(t) + 1 ELSE Substituted(t)
  <2>1. Substituted(t) = CountIn(t, K) /\ Substituted(s) = CountIn(s, K)
    BY DEF Substituted
  <2>2. Head(s) \in K <=> Counts(Head(s))
    BY <1>1
  <2> HIDE DEF K
  <2>4. CASE Counts(Head(s))
    BY <1>2, <1>3, <2>1, <2>2, <2>4 DEF One
  <2>5. CASE ~Counts(Head(s))
    BY <1>2, <1>3, <2>1, <2>2, <2>5 DEF One
  <2> QED
    BY <2>4, <2>5
<1> QED
  BY <1>1, <1>3, <1>4, <1>5, <1>6 DEF t, Substituted

LEMMA NextIs ==
  ASSUME [Next]_vars
  PROVE  \/ Server \/ ReceiveMessage \/ EndOfMessages \/ HandleTimeout \/ Exit
         \/ UNCHANGED <<conf, srv, net, pc, ag, wm, hist>>
BY DEF Next, Client, vars

LEMMA TypeKeeps ==
  ASSUME TypeOK, [Next]_vars
  PROVE  TypeOK'
<1>1. /\ conf \in [synch : BOOLEAN, eye : BOOLEAN]
      /\ srv \in Servers /\ net \in Seq(Messages) /\ pc \in {"select", "drain", "exit"}
      /\ ag \in Agents /\ wm \in Books /\ hist \in Hists
  BY Types
<1>2. /\ conf' \in [synch : BOOLEAN, eye : BOOLEAN]
      /\ srv' \in Servers /\ net' \in Seq(Messages) /\ pc' \in {"select", "drain", "exit"}
      /\ ag' \in Agents /\ wm' \in Books /\ hist' \in Hists
  <2>1. CASE Server
    <3>1. /\ UNCHANGED <<conf, pc, ag, wm, hist>> /\ srv' \in Servers
          /\ net' = net \/ \E m \in Messages : net' = Append(net, m)
      BY <2>1, ServerIs
    <3>2. net' \in Seq(Messages)
      BY <1>1, <3>1
    <3> QED
      BY <1>1, <3>1, <3>2
  <2>2. CASE ReceiveMessage
    BY <1>1, <2>2, ReceiveIs
  <2>3. CASE EndOfMessages \/ HandleTimeout \/ Exit
    <3>1. /\ UNCHANGED <<conf, net>> /\ pc' \in {"select", "exit"}
          /\ \/ \E a \in Agents, asked \in SUBSET Requests : Act(a, asked)
             \/ UNCHANGED <<wm, hist>> /\ ag' \in Agents /\ srv' \in Servers
      BY <2>3, EndOrTimeoutIs
    <3>2. CASE UNCHANGED <<wm, hist>> /\ ag' \in Agents /\ srv' \in Servers
      BY <1>1, <3>1, <3>2
    <3>3. CASE \E a \in Agents, asked \in SUBSET Requests : Act(a, asked)
      <4>1. PICK a \in Agents, asked \in SUBSET Requests : Act(a, asked)
        BY <3>3
      <4>2. ag' \in Agents /\ srv' \in Servers /\ wm' \in Books /\ hist' \in Hists
        BY <4>1, ActIs
      <4> QED
        BY <1>1, <3>1, <4>2
    <3> QED
      BY <3>1, <3>2, <3>3
  <2>4. CASE UNCHANGED <<conf, srv, net, pc, ag, wm, hist>>
    BY <1>1, <2>4
  <2> QED
    BY <2>1, <2>2, <2>3, <2>4, NextIs
<1> QED
  BY <1>2 DEF TypeOK, Servers, Messages, Agents, Books, Hists

LEMMA ThinkKeeps ==
  ASSUME TypeOK, ThinkIsPending, [Next]_vars
  PROVE  ThinkIsPending'
<1>0. net \in Seq(Messages)
  BY Types
<1> SUFFICES ASSUME srv'.phase = "thinking"
             PROVE  \/ ag'.think /\ pc' = "drain"
                    \/ \E i \in 1..Len(net') : net'[i].kind = "think"
  BY DEF ThinkIsPending
<1>1. CASE Server
  <2>1. /\ UNCHANGED <<pc, ag>>
        /\ \E m \in Messages : net' = Append(net, m) /\ (srv.phase = "thinking" \/ m.kind = "think")
    BY <1>1, ServerIs
  <2>2. PICK m \in Messages : net' = Append(net, m) /\ (srv.phase = "thinking" \/ m.kind = "think")
    BY <2>1
  <2>3. /\ Len(net) \in Nat /\ Len(net') = Len(net) + 1 /\ net'[Len(net) + 1] = m
        /\ \A i \in 1..Len(net) : i \in 1..Len(net') /\ net'[i] = net[i]
    BY <1>0, <2>2, AppendIs
  <2>4. CASE m.kind = "think"
    <3>1. Len(net) + 1 \in 1..Len(net')
      BY <2>3
    <3> QED
      BY <2>3, <2>4, <3>1
  <2>5. CASE srv.phase = "thinking"
    BY <2>1, <2>3, <2>5 DEF ThinkIsPending
  <2> QED
    BY <2>2, <2>4, <2>5
<1>2. CASE ReceiveMessage
  <2>1. /\ srv' = srv /\ pc' = "drain" /\ net # <<>> /\ net' = Tail(net)
        /\ ag'.think = (ag.think \/ Head(net).kind = "think")
    BY <1>2, ReceiveIs
  <2>2. /\ Head(net) = net[1]
        /\ \A i \in 1..Len(net) : i = 1 \/ (i - 1 \in 1..Len(net') /\ net'[i - 1] = net[i])
    BY <1>0, <2>1, TailIs
  <2>3. CASE ag.think /\ pc = "drain"
    BY <2>1, <2>3
  <2>4. CASE \E i \in 1..Len(net) : net[i].kind = "think"
    BY <2>1, <2>2, <2>4
  <2> QED
    BY <2>1, <2>3, <2>4 DEF ThinkIsPending
<1>3. CASE EndOfMessages \/ HandleTimeout \/ Exit
  <2>1. /\ net' = net
        /\ \/ \E a \in Agents, asked \in SUBSET Requests :
                a.think = ag.think /\ (pc = "drain" => ag.think) /\ Act(a, asked)
           \/ ag'.think = ag.think /\ srv'.phase = srv.phase /\ (pc = "drain" => ~ag.think)
    BY <1>3, EndOrTimeoutIs
  <2>2. CASE \E a \in Agents, asked \in SUBSET Requests :
                a.think = ag.think /\ (pc = "drain" => ag.think) /\ Act(a, asked)
    <3>1. PICK a \in Agents, asked \in SUBSET Requests :
            a.think = ag.think /\ (pc = "drain" => ag.think) /\ Act(a, asked)
      BY <2>2
    <3>2. srv'.phase = IF a.think THEN "done" ELSE srv.phase
      BY <3>1, ActIs
    <3> QED
      BY <2>1, <3>1, <3>2 DEF ThinkIsPending
  <2>3. CASE ag'.think = ag.think /\ srv'.phase = srv.phase /\ (pc = "drain" => ~ag.think)
    BY <2>1, <2>3 DEF ThinkIsPending
  <2> QED
    BY <2>1, <2>2, <2>3
<1>4. CASE UNCHANGED <<conf, srv, net, pc, ag, wm, hist>>
  BY <1>4 DEF ThinkIsPending
<1> QED
  BY <1>1, <1>2, <1>3, <1>4, NextIs

LEMMA SignKeeps ==
  ASSUME TypeOK, SignIsAsked, [Next]_vars
  PROVE  SignIsAsked'
<1>0. net \in Seq(Messages) /\ ServerWait \in Nat \ {0}
  BY Types, CoachAgentAssumption
<1> SUFFICES ASSUME ~conf'.eye, ag'.alive, ag'.timeouts > ServerWait
             PROVE  net' # <<>> \/ "check_ball" \in srv'.asked
  BY DEF SignIsAsked
<1>1. CASE Server
  <2>1. /\ UNCHANGED <<conf, ag>>
        /\ \/ net' = net /\ srv'.asked = srv.asked
           \/ \E m \in Messages : net' = Append(net, m)
    BY <1>1, ServerIs
  <2>2. CASE net' = net /\ srv'.asked = srv.asked
    BY <2>1, <2>2 DEF SignIsAsked
  <2>3. CASE \E m \in Messages : net' = Append(net, m)
    BY <1>0, <2>3, AppendIs
  <2> QED
    BY <2>1, <2>2, <2>3
<1>2. CASE ReceiveMessage
  <2>1. ag'.timeouts = 0
    BY <1>2, ReceiveIs
  <2> QED
    BY <1>0, <2>1
<1>3. CASE EndOfMessages \/ HandleTimeout \/ Exit
  <2>1. UNCHANGED <<conf, net>>
    BY <1>3, EndOrTimeoutIs
  <2>2. CASE \E a \in Agents, asked \in SUBSET Requests :
               /\ a.alive = ag.alive /\ (pc = "drain" => a = ag) /\ srv.asked \subseteq asked
               /\ a.timeouts > ServerWait /\ pc # "drain" => "check_ball" \in asked
               /\ Act(a, asked)
    <3>1. PICK a \in Agents, asked \in SUBSET Requests :
            /\ a.alive = ag.alive /\ (pc = "drain" => a = ag) /\ srv.asked \subseteq asked
            /\ a.timeouts > ServerWait /\ pc # "drain" => "check_ball" \in asked
            /\ Act(a, asked)
      BY <2>2
    <3>2. ag'.alive = a.alive /\ ag'.timeouts = a.timeouts /\ asked \subseteq srv'.asked
      BY <3>1, ActIs
    <3> QED
      BY <2>1, <3>1, <3>2 DEF SignIsAsked
  <2>3. CASE /\ srv.asked \subseteq srv'.asked
             /\ ag' = ag \/ (ag'.alive /\ ag'.timeouts > ServerWait => "check_ball" \in srv'.asked)
    BY <2>1, <2>3 DEF SignIsAsked
  <2> QED
    BY <1>3, <2>2, <2>3, EndOrTimeoutIs
<1>4. CASE UNCHANGED <<conf, srv, net, pc, ag, wm, hist>>
  BY <1>4 DEF SignIsAsked
<1> QED
  BY <1>1, <1>2, <1>3, <1>4, NextIs

LEMMA ClocksKeep ==
  ASSUME TypeOK, ClocksInOrder, [Next]_vars
  PROVE  ClocksInOrder'
<1>0. /\ net \in Seq(Messages) /\ srv.cycle \in Nat /\ ag.now.cycle \in Nat
      /\ ag.lastDecision.cycle \in Int /\ wm.time.cycle \in Int /\ ag \in Agents
      /\ \A i \in 1..Len(net) : net[i].cycle \in Nat
  BY Types, Numbers
<1>1. CASE Server
  <2>1. /\ UNCHANGED <<ag, wm>> /\ srv.cycle <= srv'.cycle /\ srv'.cycle \in Nat
        /\ net' = net \/ \E m \in Messages : net' = Append(net, m) /\ m.cycle = srv'.cycle
    BY <1>1, ServerIs DEF Servers
  <2>2. CASE net' = net
    BY <1>0, <2>1, <2>2 DEF ClocksInOrder
  <2>3. CASE \E m \in Messages : net' = Append(net, m) /\ m.cycle = srv'.cycle
    <3>1. PICK m \in Messages : net' = Append(net, m) /\ m.cycle = srv'.cycle
      BY <2>3
    <3>2. /\ Len(net) \in Nat /\ Len(net') = Len(net) + 1 /\ net'[Len(net) + 1] = m
          /\ \A i \in 1..Len(net) : i \in 1..Len(net') /\ net'[i] = net[i]
          /\ \A i \in 1..Len(net') : i \in 1..Len(net) \/ i = Len(net) + 1
      BY <1>0, <3>1, AppendIs
    <3>3. \A i \in 1..Len(net') : ag.now.cycle <= net'[i].cycle /\ net'[i].cycle <= srv'.cycle
      BY <1>0, <2>1, <3>1, <3>2 DEF ClocksInOrder
    <3>4. ASSUME NEW i \in 1..Len(net'), NEW j \in 1..Len(net'), i < j
          PROVE  net'[i].cycle <= net'[j].cycle
      <4>1. i \in 1..Len(net) /\ net'[i] = net[i]
        BY <3>2, <3>4
      <4>2. CASE j \in 1..Len(net)
        BY <3>2, <3>4, <4>1, <4>2 DEF ClocksInOrder
      <4>3. CASE j = Len(net) + 1
        BY <1>0, <2>1, <3>1, <3>2, <4>1, <4>3 DEF ClocksInOrder
      <4> QED
        BY <3>2, <4>2, <4>3
    <3> QED
      BY <1>0, <2>1, <3>3, <3>4 DEF ClocksInOrder
  <2> QED
    BY <2>1, <2>2, <2>3
<1>2. CASE ReceiveMessage
  <2>1. /\ srv' = srv /\ net # <<>> /\ net' = Tail(net)
        /\ ag'.now.cycle \in {ag.now.cycle, Head(net).cycle}
        /\ ag'.lastDecision = ag.lastDecision
        /\ wm'.time = wm.time \/ wm'.time = ag'.now
    BY <1>2, ReceiveIs
  <2>2. /\ Len(net) \in Nat /\ Len(net) > 0 /\ Len(net') = Len(net) - 1 /\ Head(net) = net[1]
        /\ \A i \in 1..Len(net') : i + 1 \in 1..Len(net) /\ net'[i] = net[i + 1]
    BY <1>0, <2>1, TailIs
  <2>3. 1 \in 1..Len(net) /\ net[1].cycle \in Nat
    BY <1>0, <2>2
  <2>4. /\ ag'.now.cycle \in Nat /\ ag.now.cycle <= ag'.now.cycle
        /\ ag'.now.cycle <= net[1].cycle /\ net[1].cycle <= srv.cycle
    BY <1>0, <2>1, <2>2, <2>3 DEF ClocksInOrder
  <2>5. ASSUME NEW i \in 1..Len(net')
        PROVE  ag'.now.cycle <= net'[i].cycle /\ net'[i].cycle <= srv'.cycle
    <3>1. i + 1 \in 1..Len(net) /\ net'[i] = net[i + 1] /\ 1 < i + 1
      BY <2>2
    <3>2. net[1].cycle <= net[i + 1].cycle /\ net[i + 1].cycle <= srv.cycle
      BY <2>3, <3>1 DEF ClocksInOrder
    <3>3. net[i + 1].cycle \in Nat
      BY <1>0, <3>1
    <3> QED
      BY <2>1, <2>3, <2>4, <3>1, <3>2, <3>3
  <2>6. ASSUME NEW i \in 1..Len(net'), NEW j \in 1..Len(net'), i < j
        PROVE  net'[i].cycle <= net'[j].cycle
    <3>1. /\ i + 1 \in 1..Len(net) /\ net'[i] = net[i + 1]
          /\ j + 1 \in 1..Len(net) /\ net'[j] = net[j + 1] /\ i + 1 < j + 1
      BY <2>2, <2>6
    <3> QED
      BY <3>1 DEF ClocksInOrder
  <2>7. wm'.time.cycle <= ag'.now.cycle /\ ag'.lastDecision.cycle <= ag'.now.cycle
    BY <1>0, <2>1, <2>4 DEF ClocksInOrder
  <2> QED
    BY <1>0, <2>1, <2>3, <2>4, <2>5, <2>6, <2>7 DEF ClocksInOrder
<1>3. CASE EndOfMessages \/ HandleTimeout \/ Exit
  <2>1. net' = net
    BY <1>3, EndOrTimeoutIs
  <2>2. /\ srv'.cycle = srv.cycle /\ ag'.now = ag.now
        /\ ag'.lastDecision \in {ag.lastDecision, ag.now}
        /\ wm'.time \in {wm.time, ag.now}
    <3>1. CASE \E a \in Agents, asked \in SUBSET Requests :
                 a.now = ag.now /\ a.lastDecision = ag.lastDecision /\ Act(a, asked)
      <4>1. PICK a \in Agents, asked \in SUBSET Requests :
              a.now = ag.now /\ a.lastDecision = ag.lastDecision /\ Act(a, asked)
        BY <3>1
      <4>2. /\ ag'.now = a.now /\ ag'.lastDecision = a.now /\ srv'.cycle = srv.cycle
            /\ wm'.time = a.now \/ wm' = wm
        BY <4>1, ActIs
      <4> QED
        BY <4>1, <4>2
    <3>2. CASE /\ wm' = wm /\ ag'.now = ag.now /\ ag'.lastDecision = ag.lastDecision
               /\ srv'.cycle = srv.cycle
      BY <3>2
    <3> QED
      BY <1>3, <3>1, <3>2, EndOrTimeoutIs
  <2>3. /\ ag'.lastDecision.cycle >= -1 /\ ag'.lastDecision.cycle <= ag'.now.cycle
        /\ wm'.time.cycle <= ag'.now.cycle
    BY <1>0, <2>2 DEF ClocksInOrder
  <2> QED
    BY <2>1, <2>2, <2>3 DEF ClocksInOrder
<1>4. CASE UNCHANGED <<conf, srv, net, pc, ag, wm, hist>>
  BY <1>4 DEF ClocksInOrder
<1> QED
  BY <1>1, <1>2, <1>3, <1>4, NextIs

LEMMA SubstitutionsKeep ==
  ASSUME TypeOK, ClocksInOrder, SubstitutionsBalance, [Next]_vars
  PROVE  SubstitutionsBalance'
<1>0. /\ net \in Seq(Messages) /\ srv.cycle \in Nat /\ ag.now.cycle \in Nat
      /\ wm.time.cycle \in Int /\ wm.subs \in Nat /\ srv.subs \in Nat
      /\ \A i \in 1..Len(net) : net[i].cycle \in Nat
  BY Numbers
<1> SUFFICES ASSUME conf'.eye
             PROVE  /\ wm'.subs + Substituted(net') = srv'.subs
                    /\ srv'.cycle > 0 => Begun(Len(net) + 1)'
                    /\ \A j \in 1..Len(net') : Counts(net'[j]) => Begun(j)'
  BY DEF SubstitutionsBalance
<1>c. conf' = conf
  <2>1. CASE Server
    BY <2>1, ServerIs
  <2>2. CASE ReceiveMessage
    BY <2>2, ReceiveIs
  <2>3. CASE EndOfMessages \/ HandleTimeout \/ Exit
    BY <2>3, EndOrTimeoutIs
  <2> QED
    BY <2>1, <2>2, <2>3, NextIs
<1>5. /\ wm.subs + Substituted(net) = srv.subs
      /\ srv.cycle > 0 => Begun(Len(net) + 1)
      /\ \A j \in 1..Len(net) : Counts(net[j]) => Begun(j)
  BY <1>c DEF SubstitutionsBalance
<1>1. CASE Server
  <2>1. /\ UNCHANGED <<ag, wm>> /\ srv'.cycle \in Nat
        /\ \E m \in Messages :
             /\ net' = Append(net, m) /\ m.cycle = srv'.cycle
             /\ m.kind = "see_global" \/ srv'.cycle = srv.cycle
             /\ srv'.subs = IF Counts(m) THEN srv.subs + 1 ELSE srv.subs
    BY <1>1, <1>c, ServerIs DEF Servers
  <2>2. PICK m \in Messages :
             /\ net' = Append(net, m) /\ m.cycle = srv'.cycle
             /\ m.kind = "see_global" \/ srv'.cycle = srv.cycle
             /\ srv'.subs = IF Counts(m) THEN srv.subs + 1 ELSE srv.subs
    BY <2>1
  <2> DEFINE n == Len(net)
  <2>3. /\ n \in Nat /\ Len(net') = n + 1 /\ net'[n + 1] = m
        /\ \A i \in 1..n : i \in 1..Len(net') /\ net'[i] = net[i]
        /\ \A i \in 1..Len(net') : i \in 1..n \/ i = n + 1
        /\ Substituted(net') = IF Counts(m) THEN Substituted(net) + 1 ELSE Substituted(net)
        /\ Substituted(net) \in Nat
    BY <1>0, <2>2, AppendIs
  <2>4. \A j \in 1..(n + 1) : Begun(j) => Begun(j)'
    BY <2>1, <2>3 DEF Begun
  <2>5. srv'.cycle > 0 => Begun(Len(net) + 1)'
    <3> SUFFICES ASSUME srv'.cycle > 0
                 PROVE  wm'.time.cycle > 0 \/ \E i \in 1..Len(net') :
                          i < Len(net') + 1 /\ net'[i].kind = "see_global" /\ net'[i].cycle > 0
      BY DEF Begun
    <3>1. CASE m.kind = "see_global"
      <4>1. n + 1 \in 1..Len(net') /\ n + 1 < Len(net') + 1
        BY <2>3
      <4> QED
        BY <2>2, <2>3, <3>1, <4>1
    <3>2. CASE srv'.cycle = srv.cycle
      <4>1. wm.time.cycle > 0 \/ \E i \in 1..n :
              i < n + 1 /\ net[i].kind = "see_global" /\ net[i].cycle > 0
        BY <1>5, <3>2 DEF Begun
      <4> QED
        BY <2>1, <2>3, <4>1
    <3> QED
      BY <2>2, <3>1, <3>2
  <2>6. ASSUME NEW j \in 1..Len(net'), Counts(net'[j]) PROVE Begun(j)'
    <3>1. CASE j \in 1..n
      BY <1>5, <2>3, <2>4, <2>6, <3>1
    <3>2. CASE j = n + 1
      <4>1. m.kind = "change_player_type" /\ m.cycle > 0
        BY <2>3, <2>6, <3>2 DEF Counts
      <4>2. srv'.cycle = srv.cycle /\ srv.cycle > 0
        BY <2>2, <4>1
      <4> QED
        BY <1>5, <2>3, <2>4, <3>2, <4>2
    <3> QED
      BY <2>3, <3>1, <3>2
  <2>7. wm'.subs + Substituted(net') = srv'.subs
    BY <1>0, <1>5, <2>1, <2>2, <2>3
  <2> QED
    BY <2>5, <2>6, <2>7
<1>2. CASE ReceiveMessage
  <2> DEFINE m == Head(net)
             n == Len(net)
  <2>1. /\ srv' = srv /\ net # <<>> /\ net' = Tail(net)
        /\ m.kind = "see_global" => ag'.now.cycle = m.cycle /\ wm'.time = ag'.now
        /\ wm'.time = wm.time \/ wm'.time = ag'.now
        /\ ag'.now.cycle \in {ag.now.cycle, m.cycle}
        /\ wm'.subs = IF m.kind = "change_player_type" /\ wm.time.cycle > 0
                      THEN wm.subs + 1 ELSE wm.subs
    BY <1>2, ReceiveIs
  <2>2. /\ n \in Nat /\ n > 0 /\ Len(net') = n - 1 /\ m = net[1] /\ m \in Messages
        /\ \A i \in 1..Len(net') : i + 1 \in 1..n /\ net'[i] = net[i + 1]
        /\ \A i \in 1..n : i = 1 \/ (i - 1 \in 1..Len(net') /\ net'[i - 1] = net[i])
        /\ Substituted(net) = IF Counts(m) THEN Substituted(net') + 1 ELSE Substituted(net')
        /\ Substituted(net') \in Nat
    BY <1>0, <2>1, TailIs
  <2>3. 1 \in 1..n /\ m.cycle \in Nat /\ ag.now.cycle <= m.cycle
    BY <1>0, <2>2 DEF ClocksInOrder
  <2>4. wm.time.cycle <= ag.now.cycle
    BY DEF ClocksInOrder
  <2>5. wm.time.cycle > 0 => wm'.time.cycle > 0
    BY <1>0, <2>1, <2>3, <2>4
  <2>6. ASSUME NEW j \in 2..(n + 1), Begun(j)
        PROVE  wm'.time.cycle > 0 \/ \E i \in 1..Len(net') :
                 i < j - 1 /\ net'[i].kind = "see_global" /\ net'[i].cycle > 0
    <3>1. CASE wm.time.cycle > 0
      BY <2>5, <3>1
    <3>2. CASE \E i \in 1..n : i < j /\ net[i].kind = "see_global" /\ net[i].cycle > 0
      <4>1. PICK i \in 1..n : i < j /\ net[i].kind = "see_global" /\ net[i].cycle > 0
        BY <3>2
      <4>2. CASE i = 1
        BY <2>1, <2>2, <4>1, <4>2
      <4>3. CASE i # 1
        <5>1. i - 1 \in 1..Len(net') /\ net'[i - 1] = net[i] /\ i - 1 < j - 1
          BY <2>2, <4>1, <4>3
        <5> QED
          BY <4>1, <5>1
      <4> QED
        BY <4>2, <4>3
    <3> QED
      BY <2>6, <3>1, <3>2 DEF Begun
  <2>7. srv'.cycle > 0 => Begun(Len(net) + 1)'
    <3>1. n + 1 \in 2..(n + 1) /\ (n + 1) - 1 = Len(net') + 1
      BY <2>2
    <3> QED
      BY <1>5, <2>1, <2>6, <3>1 DEF Begun
  <2>8. ASSUME NEW j \in 1..Len(net'), Counts(net'[j]) PROVE Begun(j)'
    <3>1. j + 1 \in 1..n /\ net'[j] = net[j + 1] /\ j + 1 \in 2..(n + 1) /\ (j + 1) - 1 = j
      BY <2>2
    <3>2. Begun(j + 1)
      BY <1>5, <2>8, <3>1
    <3> QED
      BY <2>6, <3>1, <3>2 DEF Begun
  <2>9. m.kind = "change_player_type" => (m.cycle > 0 <=> wm.time.cycle > 0)
    <3> SUFFICES ASSUME m.kind = "change_player_type"
                 PROVE  m.cycle > 0 <=> wm.time.cycle > 0
      OBVIOUS
    <3>1. wm.time.cycle > 0 => m.cycle > 0
      BY <1>0, <2>3, <2>4
    <3>2. m.cycle > 0 => wm.time.cycle > 0
      <4> SUFFICES ASSUME m.cycle > 0 PROVE wm.time.cycle > 0
        OBVIOUS
      <4>1. Begun(1)
        BY <1>5, <2>2, <2>3 DEF Counts
      <4> QED
        BY <4>1 DEF Begun
    <3> QED
      BY <3>1, <3>2
  <2>10. wm'.subs + Substituted(net') = srv'.subs
    <3>1. wm'.subs = IF Counts(m) THEN wm.subs + 1 ELSE wm.subs
      BY <2>1, <2>9 DEF Counts
    <3>2. /\ Substituted(net) = IF Counts(m) THEN Substituted(net') + 1 ELSE Substituted(net')
          /\ Substituted(net') \in Nat /\ wm.subs \in Nat
          /\ wm.subs + Substituted(net) = srv.subs /\ srv'.subs = srv.subs
      BY <1>0, <1>5, <2>1, <2>2
    <3> HIDE DEF m
    <3>3. CASE Counts(m)
      BY <3>1, <3>2, <3>3
    <3>4. CASE ~Counts(m)
      BY <3>1, <3>2, <3>4
    <3> QED
      BY <3>3, <3>4
  <2> QED
    BY <2>7, <2>8, <2>10
<1>3. CASE EndOfMessages \/ HandleTimeout \/ Exit
  <2>1. net' = net
    BY <1>3, EndOrTimeoutIs
  <2>2. /\ srv'.cycle = srv.cycle /\ srv'.subs = srv.subs /\ wm'.subs = wm.subs
        /\ wm'.time \in {wm.time, ag.now}
    <3>1. CASE \E a \in Agents, asked \in SUBSET Requests : a.now = ag.now /\ Act(a, asked)
      <4>1. PICK a \in Agents, asked \in SUBSET Requests : a.now = ag.now /\ Act(a, asked)
        BY <3>1
      <4>2. /\ srv'.cycle = srv.cycle /\ srv'.subs = srv.subs /\ wm'.subs = wm.subs
            /\ wm'.time = a.now \/ wm' = wm
        BY <4>1, ActIs
      <4> QED
        BY <4>1, <4>2
    <3>2. CASE wm' = wm /\ srv'.cycle = srv.cycle /\ srv'.subs = srv.subs
      BY <3>2
    <3> QED
      BY <1>3, <3>1, <3>2, EndOrTimeoutIs
  <2>3. wm.time.cycle > 0 => wm'.time.cycle > 0
    BY <1>0, <2>2 DEF ClocksInOrder
  <2>4. \A j : Begun(j) => Begun(j)'
    BY <2>1, <2>3 DEF Begun
  <2> QED
    BY <1>5, <2>1, <2>2, <2>4 DEF Begun
<1>4. CASE UNCHANGED <<conf, srv, net, pc, ag, wm, hist>>
  BY <1>4, <1>5 DEF Begun
<1> QED
  BY <1>1, <1>2, <1>3, <1>4, NextIs

\* A step either leaves the books and the decision as they are, or it decides.
LEMMA DecidesOrNot ==
  ASSUME TypeOK, [Next]_vars
  PROVE  \/ /\ wm'.capacityTime = wm.capacityTime /\ wm'.capacity = wm.capacity
            /\ wm'.allowed = wm.allowed /\ wm'.sent = wm.sent
            /\ hist'.window = hist.window /\ hist'.count = hist.count
            /\ hist'.missed = hist.missed /\ ag'.lastDecision = ag.lastDecision
            /\ ReceiveMessage \/ (ag'.now = ag.now /\ hist'.restarts = hist.restarts)
         \/ /\ ag'.now = ag.now /\ ag'.lastDecision = ag.now /\ ag.lastDecision # ag.now
            /\ \E a \in Agents, asked \in SUBSET Requests :
                 a.now = ag.now /\ a.lastDecision = ag.lastDecision /\ Decide(a, asked)
<1>1. CASE Server
  BY <1>1, ServerIs
<1>2. CASE ReceiveMessage
  BY <1>2, ReceiveIs
<1>3. CASE EndOfMessages \/ HandleTimeout \/ Exit
  <2>1. CASE \E a \in Agents, asked \in SUBSET Requests :
               a.now = ag.now /\ a.lastDecision = ag.lastDecision /\ Act(a, asked)
    <3>1. PICK a \in Agents, asked \in SUBSET Requests :
            a.now = ag.now /\ a.lastDecision = ag.lastDecision /\ Act(a, asked)
      BY <2>1
    <3>2. /\ ag'.now = a.now /\ ag'.lastDecision = a.now
          /\ IF a.lastDecision # a.now THEN Decide(a, asked) ELSE wm' = wm /\ hist' = hist
      BY <3>1, ActIs
    <3> QED
      BY <3>1, <3>2
  <2>2. CASE UNCHANGED <<wm, hist>> /\ ag'.now = ag.now /\ ag'.lastDecision = ag.lastDecision
    BY <2>2
  <2> QED
    BY <1>3, <2>1, <2>2, EndOrTimeoutIs
<1>4. CASE UNCHANGED <<conf, srv, net, pc, ag, wm, hist>>
  BY <1>4
<1> QED
  BY <1>1, <1>2, <1>3, <1>4, NextIs

LEMMA LengthsGrow ==
  ASSUME NEW l \in Int, NEW t \in Nat, l <= t
  PROVE  /\ Lengths(l) \in Nat /\ Lengths(t) \in Nat /\ Lengths(t) = t \div GameLength
         /\ Lengths(l) <= Lengths(t)
         /\ l < t /\ t > 0 /\ t % GameLength = 0 => Lengths(l) + 1 <= Lengths(t)
<1>1. t \div GameLength \in Nat /\ Lengths(t) = t \div GameLength
  BY DivBounds, CoachAgentAssumption DEF Lengths
<1>2. CASE l < 0
  <2>1. 0 \div GameLength \in Nat
    BY DivBounds, CoachAgentAssumption
  <2>2. t > 0 /\ t % GameLength = 0 => 0 \div GameLength + 1 <= t \div GameLength
    BY DivMonotone, CoachAgentAssumption
  <2>3. Lengths(l) = 0
    BY <1>2 DEF Lengths
  <2> QED
    BY <1>1, <2>1, <2>2, <2>3
<1>3. CASE l >= 0
  <2>1. l \in Nat
    BY <1>3
  <2>2. l \div GameLength \in Nat /\ Lengths(l) = l \div GameLength
    BY <2>1, DivBounds, CoachAgentAssumption DEF Lengths
  <2>3. /\ l \div GameLength <= t \div GameLength
        /\ l < t /\ t % GameLength = 0 => l \div GameLength + 1 <= t \div GameLength
    BY <2>1, DivMonotone, CoachAgentAssumption
  <2> QED
    BY <1>1, <2>2, <2>3
<1> QED
  BY <1>2, <1>3

LEMMA AllowanceKeeps ==
  ASSUME TypeOK, ClocksInOrder, AllowanceIsDue, [Next]_vars
  PROVE  AllowanceIsDue'
<1> DEFINE L == ag.lastDecision
           t == ag.now.cycle
<1>0. /\ L \in GameTimes /\ ag.now \in GameTimes
      /\ L.cycle \in Int /\ L.stopped \in Nat /\ t \in Nat /\ ag.now.stopped \in Nat
      /\ wm.sent \in Nat /\ wm.allowed \in Nat /\ CoachSayCountMax \in Nat
  BY Types, Numbers, CoachAgentAssumption DEF Agents, GameTimes
<1>1. L.cycle <= t
  BY DEF ClocksInOrder
<1>2. CASE /\ wm'.allowed = wm.allowed /\ wm'.sent = wm.sent /\ ag'.lastDecision = L
           /\ ag'.now = ag.now /\ hist'.restarts = hist.restarts
  BY <1>2 DEF AllowanceIsDue, RestartsHarmless
<1>3. CASE /\ wm'.allowed = wm.allowed /\ wm'.sent = wm.sent /\ ag'.lastDecision = L
           /\ ReceiveMessage
  <2>1. /\ ag' \in Agents /\ Head(net) = net[1] /\ 1 \in 1..Len(net)
        /\ ag'.now.cycle \in {t, Head(net).cycle}
        /\ hist'.restarts = IF ag'.now.cycle = t /\ ag'.now.stopped < ag.now.stopped
                            THEN hist.restarts \cup {t} ELSE hist.restarts
    <3>1. net \in Seq(Messages) /\ net # <<>>
      BY <1>3, ReceiveIs, Numbers
    <3> QED
      BY <1>3, <3>1, ReceiveIs
  <2>2. ag'.now.cycle \in Nat /\ ag'.now.stopped \in Nat /\ t <= ag'.now.cycle
    <3>1. t <= Head(net).cycle
      BY <2>1 DEF ClocksInOrder
    <3> QED
      BY <1>0, <2>1, <3>1 DEF Agents
  <2>3. RestartsHarmless' => RestartsHarmless
    BY <2>1 DEF RestartsHarmless
  <2>4. L.cycle = ag'.now.cycle /\ ag'.now.cycle \notin hist'.restarts =>
          L.stopped <= ag'.now.stopped
    <3> SUFFICES ASSUME L.cycle = ag'.now.cycle, ag'.now.cycle \notin hist'.restarts
                 PROVE  L.stopped <= ag'.now.stopped
      OBVIOUS
    <3>1. ag'.now.cycle = t
      BY <1>0, <1>1, <2>2
    <3>2. ~(ag'.now.stopped < ag.now.stopped) /\ t \notin hist.restarts
      BY <2>1, <3>1
    <3>3. L.stopped <= ag.now.stopped
      BY <3>1, <3>2 DEF AllowanceIsDue
    <3> QED
      BY <1>0, <2>2, <3>2, <3>3
  <2> QED
    BY <1>3, <2>3, <2>4 DEF AllowanceIsDue
<1>4. CASE /\ ag'.now = ag.now /\ ag'.lastDecision = ag.now /\ L # ag.now
           /\ \E a \in Agents, asked \in SUBSET Requests : a.now = ag.now /\ Decide(a, asked)
  <2>1. PICK a \in Agents, asked \in SUBSET Requests : a.now = ag.now /\ Decide(a, asked)
    BY <1>4
  <2> DEFINE u == [wm EXCEPT !.time = ag.now]
             w == UpdateJustBeforeDecision(wm, ag.now)
             more == NewAllowance(u)
  <2>2. wm \in Books /\ ag.now \in [cycle : Nat, stopped : Nat]
    BY Types DEF Agents
  <2>3. /\ u.time = ag.now
        /\ w.allowed = IF more THEN wm.allowed + CoachSayCountMax ELSE wm.allowed
    BY <2>2, BeforeDecision
  <2>4. /\ wm'.allowed = w.allowed
        /\ wm.sent <= w.allowed => wm'.sent <= wm'.allowed
        /\ \E restricted \in BOOLEAN : NoteDecision(a, restricted)
    BY <2>1, DecideIs
  <2>5. hist'.restarts = hist.restarts
    BY <2>4, NoteIs
  <2>6. more => t > 0 /\ ag.now.stopped = 0 /\ t % GameLength = 0
    BY <2>3 DEF NewAllowance
  <2> HIDE DEF u, w, more
  <2>7. wm'.sent <= wm'.allowed
    BY <1>0, <2>3, <2>4 DEF AllowanceIsDue
  <2>8. RestartsHarmless' => wm'.allowed <= CoachSayCountMax * (1 + Lengths(t))
    <3> SUFFICES ASSUME RestartsHarmless
                 PROVE  w.allowed <= CoachSayCountMax * (1 + Lengths(t))
      BY <2>4, <2>5 DEF RestartsHarmless
    <3> DEFINE x == Lengths(L.cycle)
               y == Lengths(t)
    <3>1. wm.allowed <= CoachSayCountMax * (1 + x)
      BY DEF AllowanceIsDue
    <3>2. /\ x \in Nat /\ y \in Nat /\ x <= y
          /\ L.cycle < t /\ t > 0 /\ t % GameLength = 0 => x + 1 <= y
      BY <1>0, <1>1, LengthsGrow
    <3>3. more => x + 1 <= y
      <4> SUFFICES ASSUME more PROVE L.cycle < t
        BY <2>6, <3>2
      <4>1. t \notin hist.restarts
        BY <2>6 DEF RestartsHarmless
      <4>2. L.cycle = t => L.stopped = ag.now.stopped
        BY <1>0, <2>6, <4>1 DEF AllowanceIsDue
      <4>3. L.cycle # t
        <5> SUFFICES ASSUME L.cycle = t PROVE FALSE
          OBVIOUS
        <5>1. \A p, q \in GameTimes : p.cycle = q.cycle /\ p.stopped = q.stopped => p = q
          BY DEF GameTimes
        <5> QED
          BY <1>0, <1>4, <4>2, <5>1
      <4> QED
        BY <1>0, <1>1, <4>3
    <3> HIDE DEF x, y
    <3>4. CASE more
      <4>1. CoachSayCountMax * (1 + (x + 1)) <= CoachSayCountMax * (1 + y)
        BY <1>0, <3>2, <3>3, <3>4, TimesMonotone
      <4>2. CoachSayCountMax * (1 + (x + 1)) = CoachSayCountMax * (1 + x) + CoachSayCountMax
        BY <1>0, <3>2
      <4>3. CoachSayCountMax * (1 + x) \in Nat /\ CoachSayCountMax * (1 + y) \in Nat
        BY <1>0, <3>2
      <4> QED
        BY <1>0, <2>3, <3>1, <3>4, <4>1, <4>2, <4>3 DEF y
    <3>5. CASE ~more
      <4>1. CoachSayCountMax * (1 + x) <= CoachSayCountMax * (1 + y)
        BY <1>0, <3>2, TimesMonotone
      <4>3. CoachSayCountMax * (1 + x) \in Nat /\ CoachSayCountMax * (1 + y) \in Nat
        BY <1>0, <3>2
      <4> QED
        BY <1>0, <2>3, <3>1, <3>5, <4>1, <4>3 DEF y
    <3> QED
      BY <3>4, <3>5
  <2>9. ag'.lastDecision.cycle = t /\ ag'.lastDecision.stopped <= ag'.now.stopped
    BY <1>0, <1>4
  <2> QED
    BY <2>7, <2>8, <2>9 DEF AllowanceIsDue
<1> QED
  BY <1>2, <1>3, <1>4, DecidesOrNot

LEMMA WindowIs ==
  ASSUME NEW c \in Nat
  PROVE  /\ Window(c) \in Nat /\ CLangWinSize * Window(c) \in Nat
         /\ c <= 1 => Window(c) = 0
         /\ c > 0 => /\ CLangWinSize * Window(c) <= c - 1
                     /\ c - 1 < CLangWinSize * Window(c) + CLangWinSize
         /\ \A k \in Nat : /\ c > 0 /\ CLangWinSize * k <= c - 1
                           /\ c - 1 < CLangWinSize * k + CLangWinSize
                           => Window(c) = k
<1>0. CLangWinSize \in Nat \ {0}
  BY CoachAgentAssumption
<1>1. CASE c = 0
  BY <1>0, <1>1 DEF Window
<1>2. CASE c # 0
  <2> DEFINE b == c - 1
  <2>1. b \in Nat /\ Window(c) = b \div CLangWinSize
    BY <1>2 DEF Window
  <2> HIDE DEF b
  <2>2. /\ b \div CLangWinSize \in Nat
        /\ CLangWinSize * (b \div CLangWinSize) <= b
        /\ b < CLangWinSize * (b \div CLangWinSize) + CLangWinSize
    BY <1>0, <2>1, DivBounds
  <2>3. \A k \in Nat : CLangWinSize * k <= b /\ b < CLangWinSize * k + CLangWinSize
                         => b \div CLangWinSize = k
    BY <1>0, <2>1, DivUnique
  <2>4. b = 0 => b \div CLangWinSize = 0
    <3> SUFFICES ASSUME b = 0 PROVE b \div CLangWinSize = 0
      OBVIOUS
    <3>1. CLangWinSize * 0 <= b /\ b < CLangWinSize * 0 + CLangWinSize
      BY <1>0
    <3> QED
      BY <2>3, <3>1
  <2>5. CLangWinSize * (b \div CLangWinSize) \in Nat
    BY <1>0, <2>2
  <2> QED
    BY <1>2, <2>1, <2>2, <2>3, <2>4, <2>5 DEF b
<1> QED
  BY <1>1, <1>2

\* The window of the coach and that of the server end together.
LEMMA WindowsKeep ==
  ASSUME TypeOK, ClocksInOrder, WindowsInStep, [Next]_vars
  PROVE  WindowsInStep'
<1> DEFINE l == ag.lastDecision.cycle
           t == ag.now.cycle
<1>0. /\ l \in Int /\ t \in Nat /\ l <= t
      /\ wm.capacity \in Nat /\ wm.capacityTime \in Int
      /\ hist.window \in Nat /\ hist.count \in Nat /\ hist.missed \in BOOLEAN
      /\ CLangWinSize \in Nat \ {0} /\ CLangWin \in Nat
  BY Numbers, CoachAgentAssumption DEF ClocksInOrder
<1>1. CASE /\ wm'.capacityTime = wm.capacityTime /\ wm'.capacity = wm.capacity
           /\ hist'.window = hist.window /\ hist'.count = hist.count
           /\ hist'.missed = hist.missed /\ ag'.lastDecision = ag.lastDecision
  BY <1>1 DEF WindowsInStep
<1>2. CASE /\ ag'.lastDecision = ag.now
           /\ \E a \in Agents, asked \in SUBSET Requests :
                a.now = ag.now /\ a.lastDecision = ag.lastDecision /\ Decide(a, asked)
  <2>1. PICK a \in Agents, asked \in SUBSET Requests :
          a.now = ag.now /\ a.lastDecision = ag.lastDecision /\ Decide(a, asked)
    BY <1>2
  <2> DEFINE u == [wm EXCEPT !.time = ag.now]
             w == UpdateJustBeforeDecision(wm, ag.now)
             refill == RefillIsDue(u)
             last == IF l < 0 THEN 0 ELSE l
             count == IF Window(t) = hist.window THEN hist.count ELSE 0
  <2>2. wm \in Books /\ ag.now \in [cycle : Nat, stopped : Nat]
    BY Types DEF Agents
  <2>3. /\ u.time = ag.now /\ u.capacityTime = wm.capacityTime
        /\ w.capacity = IF refill THEN CLangWin ELSE wm.capacity
        /\ w.capacityTime = IF refill THEN WindowStart(u) ELSE wm.capacityTime
    BY <2>2, BeforeDecision
  <2>4. /\ refill <=> wm.capacityTime < 0 \/ t - wm.capacityTime >= CLangWinSize
        /\ WindowStart(u) = IF t <= 1 THEN 1 ELSE t
    BY <2>3 DEF RefillIsDue, WindowStart
  <2>5. PICK restricted \in BOOLEAN :
          /\ NoteDecision(a, restricted)
          /\ restricted => w.capacity > 0
          /\ wm'.capacity = IF restricted THEN w.capacity - 1 ELSE w.capacity
          /\ wm'.capacityTime = w.capacityTime
    BY <2>1, DecideIs
  <2>6. /\ hist'.window = Window(t)
        /\ hist'.count = IF restricted THEN count + 1 ELSE count
        /\ hist'.missed = (hist.missed \/ last + 1 < t)
    BY <2>1, <2>5, NoteIs
  <2> HIDE DEF u, w, refill, last
  <2> SUFFICES ASSUME ~hist.missed, ~(last + 1 < t)
               PROVE  /\ wm'.capacityTime = 1 + CLangWinSize * Window(t)
                      /\ hist'.count + wm'.capacity <= CLangWin
    <3>1. ag'.lastDecision.cycle = t /\ ~(t < 0)
      BY <1>0, <1>2
    <3>2. ~hist'.missed => ~hist.missed /\ ~(last + 1 < t)
      BY <2>6, Zenon
    <3> HIDE DEF t
    <3> QED
      BY <2>6, <3>1, <3>2 DEF WindowsInStep
  <2>7. count \in Nat /\ w.capacity \in Nat
    BY <1>0, <2>3
  <2>8. SUFFICES /\ w.capacityTime = 1 + CLangWinSize * Window(t)
                 /\ count + w.capacity <= CLangWin
    <3> HIDE DEF count
    <3>1. CASE restricted
      BY <2>5, <2>6, <2>7, <2>8, <3>1, <1>0
    <3>2. CASE ~restricted
      BY <2>5, <2>6, <2>7, <2>8, <3>2, <1>0
    <3> QED
      BY <3>1, <3>2
  <2>9. CASE l < 0
    <3>1. wm.capacityTime < 0 /\ hist.count = 0
      BY <2>9 DEF WindowsInStep
    <3>2. t <= 1
      BY <1>0, <2>9 DEF last
    <3>3. w.capacity = CLangWin /\ w.capacityTime = 1
      BY <2>3, <2>4, <3>1, <3>2
    <3>4. count = 0 /\ Window(t) = 0
      BY <1>0, <3>1, <3>2, WindowIs
    <3> QED
      BY <1>0, <3>3, <3>4
  <2>10. CASE l >= 0
    <3> DEFINE k == hist.window
               x == CLangWinSize * k
    <3>1. /\ l \in Nat /\ k = Window(l) /\ wm.capacityTime = 1 + x
          /\ hist.count + wm.capacity <= CLangWin
      BY <1>0, <2>10 DEF WindowsInStep
    <3>2. l <= t /\ t <= l + 1
      BY <1>0, <2>10 DEF last
    <3>3. /\ x \in Nat
          /\ l = 0 => x = 0 /\ k = 0
          /\ l > 0 => x <= l - 1 /\ l - 1 < x + CLangWinSize
      <4>1. /\ CLangWinSize * Window(l) \in Nat
            /\ l <= 1 => Window(l) = 0
            /\ l > 0 => /\ CLangWinSize * Window(l) <= l - 1
                        /\ l - 1 < CLangWinSize * Window(l) + CLangWinSize
        BY <3>1, WindowIs
      <4>2. CLangWinSize * 0 = 0
        BY <1>0
      <4> QED
        BY <3>1, <4>1, <4>2
    <3>4. \A j \in Nat : /\ t > 0 /\ CLangWinSize * j <= t - 1
                         /\ t - 1 < CLangWinSize * j + CLangWinSize
                         => Window(t) = j
      BY <1>0, WindowIs
    <3>5. CLangWinSize * (k + 1) = x + CLangWinSize
      BY <1>0
    <3>6. /\ Window(0) = 0
          /\ t > 0 /\ x <= t - 1 /\ t - 1 < x + CLangWinSize => Window(t) = k
          /\ t > 0 /\ t - 1 = x + CLangWinSize => Window(t) = k + 1
      <4>1. t > 0 /\ x <= t - 1 /\ t - 1 < x + CLangWinSize => Window(t) = k
        BY <1>0, <3>4
      <4>2. k + 1 \in Nat
        BY <1>0
      <4>3. t > 0 /\ t - 1 = x + CLangWinSize => Window(t) = k + 1
        <5> SUFFICES ASSUME t > 0, t - 1 = x + CLangWinSize PROVE Window(t) = k + 1
          OBVIOUS
        <5> HIDE DEF x
        <5>1. CLangWinSize * (k + 1) <= t - 1 /\ t - 1 < CLangWinSize * (k + 1) + CLangWinSize
          BY <1>0, <3>3, <3>5
        <5> QED
          BY <3>4, <4>2, <5>1
      <4> QED
        BY <4>1, <4>3, WindowIs
    <3> HIDE DEF x
    <3>7. refill <=> t - 1 - x >= CLangWinSize
      <4>1. ~(wm.capacityTime < 0)
        BY <3>1, <3>3
      <4>2. t - wm.capacityTime = t - 1 - x
        <5>1. t \in Int /\ x \in Int
          BY <1>0, <3>3
        <5> HIDE DEF t
        <5>2. t - (1 + x) = t - 1 - x
          BY <5>1
        <5> QED
          BY <3>1, <5>2
      <4> QED
        BY <2>4, <4>1, <4>2
    <3>8. t - 1 <= x + CLangWinSize /\ (t > 0 => x <= t - 1)
      <4> HIDE DEF l, t
      <4> QED
        BY <1>0, <2>10, <3>2, <3>3
    <3>9. CASE ~refill
      <4>1. Window(t) = k
        BY <1>0, <3>1, <3>2, <3>3, <3>6, <3>7, <3>8, <3>9
      <4> QED
        BY <1>0, <2>3, <3>1, <3>9, <4>1 DEF x
    <3>10. CASE refill
      <4>1. t - 1 = x + CLangWinSize /\ t > 1
        BY <1>0, <3>3, <3>7, <3>8, <3>10
      <4>2. Window(t) = k + 1
        BY <1>0, <3>6, <4>1
      <4>3. count = 0
        BY <1>0, <4>2
      <4>4. w.capacityTime = t /\ w.capacity = CLangWin
        BY <1>0, <2>3, <2>4, <3>10, <4>1
      <4>5. t = 1 + CLangWinSize * Window(t)
        BY <1>0, <3>3, <3>5, <4>1, <4>2
      <4> QED
        BY <1>0, <4>3, <4>4, <4>5
    <3> QED
      BY <3>9, <3>10
  <2> QED
    BY <1>0, <2>9, <2>10
<1> QED
  BY <1>1, <1>2, DecidesOrNot

LEMMA InitHolds == Init => IInv
<1> SUFFICES ASSUME Init PROVE IInv
  OBVIOUS
<1>1. /\ conf \in [synch : BOOLEAN, eye : BOOLEAN] /\ net = <<>> /\ pc = "select"
      /\ srv = [cycle |-> 0, step |-> 0, mode |-> "before_kick_off", phase |-> "done",
                extra |-> 0, asked |-> {}, subs |-> 0]
      /\ ag = NewAgent /\ wm = NewWorldModel
      /\ hist = [window |-> 0, count |-> 0, missed |-> FALSE, restarts |-> {}]
  BY DEF Init
<1>2. /\ ag.now = Time(0, 0) /\ ag.lastDecision = NoTime /\ ag.timeouts = 0
      /\ wm.time = NoTime /\ wm.capacityTime = -1 /\ wm.allowed = CoachSayCountMax
      /\ wm.sent = 0 /\ wm.subs = 0
  BY <1>1 DEF NewAgent, NewWorldModel
<1>3. CoachSayCountMax \in Nat /\ ServerWait \in Nat
  BY CoachAgentAssumption
<1>4. NoTime \in GameTimes /\ Time(0, 0) \in [cycle : Nat, stopped : Nat]
      /\ NoTime.cycle = -1 /\ Time(0, 0).cycle = 0
  BY DEF NoTime, Time, GameTimes
<1>5. Len(net) = 0 /\ net \in Seq(Messages)
  BY <1>1
<1>6. srv \in Servers /\ hist \in Hists
  BY <1>1 DEF Servers, Hists, GameModes, Requests
<1>7. ag \in Agents
  BY <1>1, <1>4 DEF Agents, NewAgent
<1>8. wm \in Books
  BY <1>1, <1>3, <1>4 DEF Books, NewWorldModel, GameModes
<1>9. TypeOK
  BY <1>1, <1>5, <1>6, <1>7, <1>8, Types
<1>10. ThinkIsPending /\ SignIsAsked
  BY <1>1, <1>2, <1>3 DEF ThinkIsPending, SignIsAsked
<1>11. ClocksInOrder
  BY <1>1, <1>2, <1>4, <1>5 DEF ClocksInOrder
<1>12. SubstitutionsBalance
  <2>1. Substituted(net) = 0
    BY <1>1, CountInEmpty DEF Substituted
  <2> QED
    BY <1>1, <1>2, <1>5, <2>1 DEF SubstitutionsBalance
<1>13. AllowanceIsDue
  <2>1. Lengths(ag.lastDecision.cycle) = 0
    BY <1>2, <1>4 DEF Lengths
  <2> QED
    BY <1>2, <1>3, <1>4, <2>1 DEF AllowanceIsDue
<1>14. WindowsInStep
  BY <1>1, <1>2, <1>4 DEF WindowsInStep
<1> QED
  BY <1>9, <1>10, <1>11, <1>12, <1>13, <1>14 DEF IInv

LEMMA NextKeeps == IInv /\ [Next]_vars => IInv'
<1> SUFFICES ASSUME IInv, [Next]_vars PROVE IInv'
  OBVIOUS
<1>1. /\ TypeOK /\ ThinkIsPending /\ SignIsAsked /\ ClocksInOrder
      /\ SubstitutionsBalance /\ AllowanceIsDue /\ WindowsInStep
  BY DEF IInv
<1>2. TypeOK'
  BY <1>1, TypeKeeps
<1>3. ThinkIsPending'
  BY <1>1, ThinkKeeps
<1>4. SignIsAsked'
  BY <1>1, SignKeeps
<1>5. ClocksInOrder'
  BY <1>1, ClocksKeep
<1>6. SubstitutionsBalance'
  BY <1>1, SubstitutionsKeep
<1>7. AllowanceIsDue'
  BY <1>1, AllowanceKeeps
<1>8. WindowsInStep'
  BY <1>1, WindowsKeep
<1> QED
  BY <1>2, <1>3, <1>4, <1>5, <1>6, <1>7, <1>8 DEF IInv

LEMMA InvariantHolds == Spec => []IInv
  BY InitHolds, NextKeeps, PTL DEF Spec

-----------------------------------------------------------------------------
(* Theorems.                                                               *)

\* Whatever the bounds and the rations, every variable keeps its type.
THEOREM CoachTypes == Spec => []TypeOK
<1>1. IInv => TypeOK
  BY DEF IInv
<1> QED
  BY <1>1, InvariantHolds, PTL

\* EndOfMessages acts upon a (think) even if its time was decided before, so that
\* server and coach never wait for each other.
THEOREM ThinkIsAnswered == Spec => []NoThinkIsLeft
<1>1. IInv => NoThinkIsLeft
  <2> SUFFICES ASSUME ThinkIsPending, pc = "select", net = <<>>
               PROVE  srv.phase # "thinking"
    BY DEF IInv, NoThinkIsLeft
  <2>1. Len(net) = 0
    OBVIOUS
  <2> QED
    BY <2>1 DEF ThinkIsPending
<1> QED
  BY <1>1, InvariantHolds, PTL

\* The cycle by which the coach judges an answer, that of its last see_global, lies
\* before the kick-off exactly when the server's did.
THEOREM SubstitutesAreCounted == Spec => []SubstitutesCounted
<1>1. IInv => SubstitutesCounted
  <2> SUFFICES ASSUME TypeOK, SubstitutionsBalance, conf.eye, net = <<>>
               PROVE  wm.subs = srv.subs
    BY DEF IInv, SubstitutesCounted
  <2>1. Substituted(net) = 0
    BY CountInEmpty DEF Substituted
  <2>2. wm.subs + Substituted(net) = srv.subs
    BY DEF SubstitutionsBalance
  <2>3. wm.subs \in Nat
    BY Numbers
  <2> QED
    BY <2>1, <2>2, <2>3
<1> QED
  BY <1>1, InvariantHolds, PTL

\* The allowance is raised once for a game length: by the first decision at the start
\* of the length, unless that cycle is restarted.
THEOREM FreeformIsAllowed == Spec => []FreeformWithinAllowance
<1>1. IInv => FreeformWithinAllowance
  <2> SUFFICES ASSUME TypeOK, ClocksInOrder, AllowanceIsDue, RestartsHarmless
               PROVE  wm.sent <= CoachSayCountMax * (1 + ag.now.cycle \div GameLength)
    BY DEF IInv, FreeformWithinAllowance, RestartsHarmless
  <2> DEFINE x == Lengths(ag.lastDecision.cycle)
             y == Lengths(ag.now.cycle)
  <2>1. /\ ag.now.cycle \in Nat /\ ag.lastDecision.cycle \in Int
        /\ ag.lastDecision.cycle <= ag.now.cycle
        /\ wm.sent \in Nat /\ wm.allowed \in Nat /\ CoachSayCountMax \in Nat
    BY Numbers, CoachAgentAssumption DEF ClocksInOrder
  <2>2. x \in Nat /\ y \in Nat /\ x <= y /\ y = ag.now.cycle \div GameLength
    BY <2>1, LengthsGrow
  <2>3. wm.sent <= wm.allowed /\ wm.allowed <= CoachSayCountMax * (1 + x)
    BY DEF AllowanceIsDue
  <2> HIDE DEF x, y
  <2>4. CoachSayCountMax * (1 + x) <= CoachSayCountMax * (1 + y)
    BY <2>1, <2>2, TimesMonotone
  <2>5. CoachSayCountMax * (1 + x) \in Nat /\ CoachSayCountMax * (1 + y) \in Nat
    BY <2>1, <2>2
  <2>6. wm.sent <= CoachSayCountMax * (1 + y)
    BY <2>1, <2>3, <2>4, <2>5
  <2> QED
    BY <2>2, <2>6
<1> QED
  BY <1>1, InvariantHolds, PTL

\* A window of the coach is refilled by the decision of the cycle in which the
\* server's begins, whatever the size of the windows.
THEOREM CLangIsWithinWindow == Spec => []CLangWithinWindow
<1>1. IInv => CLangWithinWindow
  <2> SUFFICES ASSUME TypeOK, WindowsInStep, ~hist.missed PROVE hist.count <= CLangWin
    BY DEF IInv, CLangWithinWindow
  <2>1. /\ hist.count \in Nat /\ wm.capacity \in Nat /\ CLangWin \in Nat
        /\ hist.count = 0 \/ hist.count + wm.capacity <= CLangWin
    BY Numbers, CoachAgentAssumption DEF WindowsInStep
  <2> QED
    BY <2>1
<1> QED
  BY <1>1, InvariantHolds, PTL

LEMMA TimeoutCounts ==
  ASSUME NEW b \in Agents
  PROVE  LET a == [b EXCEPT !.timeouts = @ + 1]
         IN a \in Agents /\ a.timeouts = b.timeouts + 1 /\ a.alive = b.alive
BY DEF Agents

\* HandleTimeout asks for a sign of life after ServerWait timeouts and gives up after
\* twice as many, and any answer resets the count.
THEOREM GivesUpOnlyUnanswered == Spec => GivesUpUnanswered
<1>1. IInv /\ [Next]_vars
        => (pc = "select" /\ ag.alive /\ ~ag'.alive /\ net = <<>> /\ ~conf.eye
              => "check_ball" \in srv.asked)
  <2> SUFFICES ASSUME TypeOK, SignIsAsked, [Next]_vars, pc = "select", ag.alive, ~ag'.alive,
                      net = <<>>, ~conf.eye
               PROVE  "check_ball" \in srv.asked
    BY Zenon DEF IInv
  <2>1. ag \in Agents /\ ag.timeouts \in Nat /\ ServerWait \in Nat \ {0}
    BY Types, CoachAgentAssumption DEF Agents
  <2>2. ag' # ag
    OBVIOUS
  <2>3. HandleTimeout
    <3>1. ~Server
      BY <2>2, ServerIs
    <3>2. ~ReceiveMessage /\ ~EndOfMessages /\ ~Exit
      BY DEF ReceiveMessage, EndOfMessages, Exit
    <3> QED
      BY <2>2, <3>1, <3>2 DEF Next, Client, vars
  <2> DEFINE a == [ag EXCEPT !.timeouts = @ + 1]
  <2>4. a \in Agents /\ a.timeouts = ag.timeouts + 1 /\ a.alive = ag.alive
    BY <2>1, TimeoutCounts
  <2>5. ServerDown(a)
    <3> SUFFICES ASSUME ~ServerDown(a) PROVE FALSE
      OBVIOUS
    <3>1. ag' = a \/ \E asked \in SUBSET Requests : Act(a, asked)
      <4>1. /\ srv.asked \in SUBSET Requests
            /\ srv.asked \cup {"check_ball"} \in SUBSET Requests
        BY Types DEF Servers, Requests
      <4> QED
        BY <2>3, <4>1 DEF HandleTimeout
    <3> HIDE DEF a
    <3>2. (\E asked \in SUBSET Requests : Act(a, asked)) => ag'.alive = a.alive
      BY <2>4, ActIs
    <3> QED
      BY <2>4, <3>1, <3>2
  <2>6. ag.timeouts > ServerWait
    <3>1. a.timeouts > 2 * ServerWait
      BY <2>5 DEF ServerDown
    <3> HIDE DEF a
    <3> QED
      BY <2>1, <2>4, <3>1
  <2> QED
    BY <2>6 DEF SignIsAsked
<1> QED
  BY <1>1, InvariantHolds, PTL DEF Spec, GivesUpUnanswered
=============================================================================
