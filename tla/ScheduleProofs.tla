---------------------------- MODULE ScheduleProofs ----------------------------
(***************************************************************************)
(* Theorems about Schedule, for every period, day, window, zone, set of    *)
(* alerts and list of selectors.                                           *)
(***************************************************************************)
EXTENDS Schedule, TLAPS, SequenceTheorems

-----------------------------------------------------------------------------
(* Ticks.                                                                  *)

Hand == IF sender \in {"first", "sending"} THEN 1 ELSE 0

\* What the goroutine and its ticker are about to do, and how long it has taken.
TicksInv ==
    /\ {now, timer, waited, passes} \subseteq Nat
    /\ buffer \in {0, 1}
    /\ sender \in {"asleep", "first", "ranging", "sending"}
    /\ sender \in {"asleep", "first"} => loop = "waiting" /\ buffer = 0 /\ passes = 0
    /\ passes + buffer + Hand <= 2
    /\ sender = "asleep" => now <= timer /\ 2 * (waited + timer - now) < 3 * Period
    /\ sender = "first" => 2 * waited < 3 * Period
    /\ sender \in {"ranging", "sending"} =>
          now <= timer /\ timer <= now + Period /\ waited <= Period
    /\ sender = "ranging" /\ buffer = 0 /\ loop = "waiting" => waited + timer <= now + Period

\* The invariant holds at the start.
LEMMA TicksInit == Init => TicksInv
  BY PeriodAssumption DEF Init, TicksInv, Hand, Delays

\* The invariant is inductive.
LEMMA TicksNext == TicksInv /\ [Next]_vars => TicksInv'
<1> SUFFICES ASSUME TicksInv, [Next]_vars PROVE TicksInv'
  OBVIOUS
<1> USE PeriodAssumption DEF TicksInv, Hand
<1>1. CASE Wakes
  BY <1>1 DEF Wakes, loopVars, worldVars, ghostVars
<1>2. CASE Fires
  BY <1>2 DEF Fires, Buffered, loopVars, worldVars
<1>3. CASE TakesTick
  BY <1>3 DEF TakesTick, loopVars, worldVars, ghostVars
<1>4. CASE Receive
  BY <1>4 DEF Receive, TickSent, PassEnds, worldVars
<1>5. CASE CheckSentinel
  BY <1>5 DEF CheckSentinel, PassEnds, worldVars, senderVars
<1>6. CASE AskBlocker
  BY <1>6 DEF AskBlocker, PassEnds, worldVars, senderVars
<1>7. CASE NotBlocked
  BY <1>7 DEF NotBlocked, worldVars, senderVars, ghostVars
<1>8. CASE AttemptEnds
  BY <1>8 DEF AttemptEnds, PassEnds, worldVars, senderVars
<1>9. CASE Restart
  BY <1>9 DEF Restart, PassEnds, worldVars, Delays
<1>10. CASE WorldChanges
  BY <1>10 DEF WorldChanges, senderVars, loopVars
<1>11. CASE TimePasses
  BY <1>11 DEF TimePasses, Urgent, senderVars, loopVars, worldVars
<1>12. CASE UNCHANGED vars
  BY <1>12 DEF vars, senderVars, loopVars, worldVars, ghostVars
<1> QED BY <1>1, <1>2, <1>3, <1>4, <1>5, <1>6, <1>7, <1>8, <1>9, <1>10, <1>11, <1>12
        DEF Next, TheEnd

\* The ticks are where the invariant says, at all times.
THEOREM TicksInvariant == Spec => []TicksInv
  BY TicksInit, TicksNext, PTL DEF Spec

\* The loop never waits longer than a period for a tick, or one and a half after a
\* start, whatever the period and the delay, and however long the passes take.
THEOREM KeepsRhythm == Spec => []Rhythm
<1>1. TicksInv => Rhythm
  BY PeriodAssumption DEF TicksInv, Rhythm
<1> QED BY <1>1, TicksInvariant, PTL

\* At most two passes follow one another without a pause.
THEOREM BurstsAreShort == Spec => []BurstBounded
<1>1. TicksInv => BurstBounded
  BY DEF TicksInv, BurstBounded, Hand
<1> QED BY <1>1, TicksInvariant, PTL

-----------------------------------------------------------------------------
(* The blockers.                                                           *)

\* What a query of the blockers can find out.
FoundBy(q) == IF q = "prometheus"
              THEN {o \in objections : o[1] = "alert" \/ o = <<"down", "prometheus">>}
              ELSE {o \in objections : o = <<"pods", q>> \/ o = <<"down", "api">>}

\* What has objected all along still does, and no query asked so far found it.
AskedInv ==
    /\ scenario \in Scenarios
    /\ query \in Nat \ {0}
    /\ loop \in {"waiting", "sentinel"} => query = 1
    /\ objections \subseteq Objecting
    /\ \A i \in 1..(query - 1) : i \in DOMAIN Queries(blockers) => FoundBy(Queries(blockers)[i]) = {}
    /\ loop = "attempt" => objections = {}

Names == STRING \union {"prometheus"}

\* The configuration is one.
LEMMA Configured ==
    ASSUME scenario \in Scenarios
    PROVE  /\ IsConfig(blockers) /\ IsZone(scenario.zone) /\ IsWindow(scenario.window)
           /\ blockers.selectors \in Seq(Names)
           /\ Queries(blockers) \in Seq(Names)
<1>1. IsConfig(blockers) /\ IsZone(scenario.zone) /\ IsWindow(scenario.window)
  BY ScenariosAssumption DEF blockers
<1>2. blockers.selectors \in Seq(STRING)
  BY <1>1 DEF IsConfig
<1>3. blockers.selectors \in Seq(Names)
  BY <1>2 DEF Names
<1>4. <<"prometheus">> \in Seq(Names) /\ <<>> \in Seq(Names)
  BY DEF Names
<1>5. (IF blockers.prometheus THEN <<"prometheus">> ELSE <<>>) \in Seq(Names)
  BY <1>4, Zenon
<1> QED BY <1>1, <1>3, <1>5, ConcatProperties DEF Queries

\* A query that does not block found nothing.
LEMMA NotFound ==
    ASSUME AskedInv, query \in DOMAIN Queries(blockers),
           ~IsBlocked(blockers, Queries(blockers)[query], samples, pods, down)
    PROVE  FoundBy(Queries(blockers)[query]) = {}
<1> DEFINE q == Queries(blockers)[query]
<1>1. IsConfig(blockers)
  BY Configured DEF AskedInv
<1>2. objections \subseteq Objecting
  BY DEF AskedInv
<1>3. CASE q = "prometheus"
  <2>1. "prometheus" \notin down /\ ActiveAlerts(blockers, samples) = {}
    BY <1>3 DEF IsBlocked, PrometheusBlocks
  <2>2. \A s \in samples : ~Objects(blockers, s)
    BY <2>1, <1>1 DEF ActiveAlerts, MatchesRegex, Objects, IsConfig
  <2>3. \A o \in Objecting : o[1] # "alert" /\ o # <<"down", "prometheus">>
    BY <2>1, <2>2 DEF Objecting, Objections
  <2> QED BY <1>3, <1>2, <2>3 DEF FoundBy
<1>4. CASE q # "prometheus"
  <2>1. "api" \notin down /\ q \notin pods
    BY <1>4 DEF IsBlocked, PodsBlock
  <2>2. \A o \in Objecting : o # <<"pods", q>> /\ o # <<"down", "api">>
    BY <2>1, <1>4 DEF Objecting, Objections
  <2> QED BY <1>4, <1>2, <2>2 DEF FoundBy
<1> QED BY <1>3, <1>4

\* When all queries were asked, nothing is left that could object.
LEMMA AllAsked ==
    ASSUME AskedInv, query > Len(Queries(blockers))
    PROVE  objections = {}
<1>1. IsConfig(blockers) /\ Queries(blockers) \in Seq(Names)
  BY Configured DEF AskedInv
<1>2. \A i \in DOMAIN Queries(blockers) : FoundBy(Queries(blockers)[i]) = {}
  BY <1>1 DEF AskedInv
<1>3. blockers.prometheus => \E i \in DOMAIN Queries(blockers) : Queries(blockers)[i] = "prometheus"
  BY <1>1 DEF Queries, IsConfig
<1>4. ASSUME NEW p \in Range(blockers.selectors)
      PROVE  p # "prometheus" /\ \E i \in DOMAIN Queries(blockers) : Queries(blockers)[i] = p
  <2>1. p # "prometheus"
    BY <1>1 DEF IsConfig
  <2>2. PICK j \in DOMAIN blockers.selectors : blockers.selectors[j] = p
    BY DEF Range
  <2>3. blockers.selectors \in Seq(STRING) /\ j \in 1..Len(blockers.selectors)
    BY <1>1, <2>2 DEF IsConfig
  <2>4. CASE blockers.prometheus
    <3>1. Queries(blockers) = <<"prometheus">> \o blockers.selectors
      BY <2>4 DEF Queries
    <3>2. j + 1 \in DOMAIN Queries(blockers) /\ Queries(blockers)[j + 1] = p
      BY <3>1, <2>2, <2>3
    <3> QED BY <2>1, <3>2
  <2>5. CASE ~blockers.prometheus
    <3>1. Queries(blockers) = <<>> \o blockers.selectors
      BY <2>5 DEF Queries
    <3>2. j \in DOMAIN Queries(blockers) /\ Queries(blockers)[j] = p
      BY <3>1, <2>2, <2>3
    <3> QED BY <2>1, <3>2
  <2> QED BY <2>4, <2>5
<1>5. blockers.selectors # <<>> => \E p : p \in Range(blockers.selectors)
  <2>1. blockers.selectors \in Seq(STRING)
    BY <1>1 DEF IsConfig
  <2>2. blockers.selectors # <<>> => 1 \in DOMAIN blockers.selectors
    BY <2>1
  <2> QED BY <2>2 DEF Range
<1>6. SUFFICES ASSUME NEW o \in objections PROVE FALSE
  OBVIOUS
<1>7. o \in Objecting
  BY DEF AskedInv
<1>8. \/ blockers.prometheus /\ (o[1] = "alert" \/ o = <<"down", "prometheus">>)
      \/ \E p \in Range(blockers.selectors) : o = <<"pods", p>>
      \/ blockers.selectors # <<>> /\ o = <<"down", "api">>
  BY <1>7 DEF Objecting, Objections
<1> QED BY <1>2, <1>3, <1>4, <1>5, <1>8 DEF FoundBy

\* The invariant holds at the start.
LEMMA AskedInit == Init => AskedInv
  BY DEF Init, AskedInv

\* The invariant is inductive.
LEMMA AskedNext == AskedInv /\ [Next]_vars => AskedInv'
<1> SUFFICES ASSUME AskedInv, [Next]_vars PROVE AskedInv'
  OBVIOUS
<1>0. UNCHANGED worldVars => UNCHANGED <<samples, pods, down>>
  BY DEF worldVars
<1>1. ASSUME UNCHANGED <<scenario, samples, pods, down>> PROVE UNCHANGED <<blockers, Queries(blockers), Objecting>>
  BY <1>1 DEF blockers, Queries, Objecting
<1>2. ASSUME UNCHANGED <<scenario, samples, pods, down>>, PassEnds PROVE AskedInv'
  BY <1>1, <1>2 DEF AskedInv, PassEnds
<1>3. ASSUME UNCHANGED <<scenario, samples, pods, down, query, loop, objections>> PROVE AskedInv'
  BY <1>1, <1>3 DEF AskedInv, FoundBy
<1>4. CASE Wakes \/ Fires \/ TakesTick \/ TimePasses \/ UNCHANGED vars
  BY <1>4, <1>3 DEF Wakes, Fires, TakesTick, TimePasses, vars, loopVars, worldVars, ghostVars
<1>5. CASE Receive
  BY <1>5, <1>0, <1>1, <1>2 DEF Receive, AskedInv
<1>6. CASE CheckSentinel
  BY <1>6, <1>0, <1>1, <1>2 DEF CheckSentinel, AskedInv, FoundBy
<1>7. CASE AskBlocker
  <2>1. CASE PassEnds
    BY <1>7, <2>1, <1>0, <1>2 DEF AskBlocker
  <2>2. CASE ~PassEnds
    <3>1. /\ ~IsBlocked(blockers, Queries(blockers)[query], samples, pods, down)
          /\ query' = query + 1 /\ query <= Len(Queries(blockers))
          /\ loop = "blockers" /\ UNCHANGED <<loop, objections, scenario, samples, pods, down>>
      BY <1>7, <2>2, <1>0 DEF AskBlocker
    <3>2. query \in DOMAIN Queries(blockers)
      BY <3>1, Configured DEF AskedInv
    <3>3. FoundBy(Queries(blockers)[query]) = {}
      BY <3>1, <3>2, NotFound
    <3> QED BY <3>1, <3>3, <1>1 DEF AskedInv, FoundBy
  <2> QED BY <2>1, <2>2
<1>8. CASE NotBlocked
  <2>1. objections = {}
    BY <1>8, AllAsked DEF NotBlocked
  <2> QED BY <1>8, <2>1, <1>0, <1>1 DEF NotBlocked, ghostVars, AskedInv, FoundBy
<1>9. CASE AttemptEnds \/ Restart
  BY <1>9, <1>0, <1>2 DEF AttemptEnds, Restart
<1>10. CASE WorldChanges
  <2>1. UNCHANGED <<scenario, query, loop>> /\ objections' = objections \intersect Objecting'
    BY <1>10 DEF WorldChanges, loopVars
  <2>2. UNCHANGED <<blockers, Queries(blockers)>>
    BY <2>1 DEF blockers, Queries
  <2>3. \A q : FoundBy(q) = {} => (FoundBy(q) = {})'
    BY <2>1 DEF FoundBy
  <2> QED BY <2>1, <2>2, <2>3 DEF AskedInv
<1> QED BY <1>4, <1>5, <1>6, <1>7, <1>8, <1>9, <1>10 DEF Next, TheEnd

\* No reboot is attempted in spite of an alert, a pod or an outage that has lasted
\* since the pass started, in whatever order and however long the queries take.
THEOREM BlockersAreRespected == Spec => []BlockersRespected
<1>1. AskedInv => BlockersRespected
  BY DEF AskedInv, BlockersRespected
<1> QED BY <1>1, AskedInit, AskedNext, PTL DEF Spec

\* The parts of the state that the two invariants do not give.
WorldTypeOK ==
    /\ scenario \in Scenarios
    /\ now <= scenario.last
    /\ loop \in {"waiting", "sentinel", "blockers", "attempt"}
    /\ query \in 1..(Len(Queries(blockers)) + 1)
    /\ samples \subseteq scenario.samples
    /\ pods \subseteq scenario.pods
    /\ down \subseteq {"prometheus", "api"}

\* Every list of queries can be counted.
LEMMA QueriesLength ==
    ASSUME scenario \in Scenarios
    PROVE  Len(Queries(blockers)) \in Nat /\ 1 \in 1..(Len(Queries(blockers)) + 1)
<1>1. Len(Queries(blockers)) \in Nat
  BY Configured, LenProperties
<1> QED BY <1>1, SMT

\* The parts hold at the start.
LEMMA WorldTypeInit == Init => WorldTypeOK
<1> SUFFICES ASSUME Init PROVE WorldTypeOK
  OBVIOUS
<1>1. scenario.last \in Nat
  BY ScenariosAssumption DEF Init
<1>2. query \in 1..(Len(Queries(blockers)) + 1)
  BY QueriesLength DEF Init
<1> QED BY <1>1, <1>2 DEF Init, WorldTypeOK

\* No step leaves them.
LEMMA WorldTypeNext == TicksInv /\ WorldTypeOK /\ [Next]_vars => WorldTypeOK'
<1> SUFFICES ASSUME TicksInv, WorldTypeOK, [Next]_vars PROVE WorldTypeOK'
  OBVIOUS
<1>1. scenario' = scenario /\ blockers' = blockers
  BY DEF Next, Wakes, Fires, TakesTick, Receive, CheckSentinel, AskBlocker, NotBlocked,
         AttemptEnds, Restart, WorldChanges, TimePasses, TheEnd, vars, blockers
<1>2. /\ now \in Nat /\ scenario.last \in Nat
      /\ Len(Queries(blockers)) \in Nat /\ 1 \in 1..(Len(Queries(blockers)) + 1)
  BY QueriesLength, ScenariosAssumption DEF TicksInv, WorldTypeOK
<1>3. now' <= scenario.last
  BY <1>2
  DEF WorldTypeOK, Next, Wakes, Fires, TakesTick, Receive, CheckSentinel, AskBlocker,
      NotBlocked, AttemptEnds, Restart, WorldChanges, TimePasses, TheEnd, vars
<1>4. loop' \in {"waiting", "sentinel", "blockers", "attempt"}
  BY DEF WorldTypeOK, Next, Wakes, Fires, TakesTick, Receive, CheckSentinel, AskBlocker,
         NotBlocked, AttemptEnds, Restart, WorldChanges, TimePasses, TheEnd, vars, PassEnds,
         loopVars
<1>5. query' \in 1..(Len(Queries(blockers)) + 1)
  <2>1. \/ query' = query \/ query' = 1
        \/ query <= Len(Queries(blockers)) /\ query' = query + 1
    BY DEF Next, Wakes, Fires, TakesTick, Receive, CheckSentinel, AskBlocker, NotBlocked,
           AttemptEnds, Restart, WorldChanges, TimePasses, TheEnd, vars, PassEnds, loopVars
  <2>2. query \in 1..(Len(Queries(blockers)) + 1)
    BY DEF WorldTypeOK
  <2> QED BY <1>2, <2>1, <2>2, SMT
<1>6. /\ samples' \subseteq scenario.samples /\ pods' \subseteq scenario.pods
      /\ down' \subseteq {"prometheus", "api"}
  <2>1. CASE WorldChanges
    BY <2>1 DEF WorldTypeOK, WorldChanges
  <2>2. CASE ~WorldChanges
    BY <2>2
    DEF WorldTypeOK, Next, Wakes, Fires, TakesTick, Receive, CheckSentinel, AskBlocker,
        NotBlocked, AttemptEnds, Restart, TimePasses, TheEnd, vars, worldVars
  <2> QED BY <2>1, <2>2
<1> QED BY <1>1, <1>3, <1>4, <1>5, <1>6 DEF WorldTypeOK

\* The state of the schedule is well formed, and the clock within its bound.
THEOREM Types == Spec => []TypeOK
<1>1. TicksInv /\ WorldTypeOK => TypeOK
  <2> SUFFICES ASSUME TicksInv, WorldTypeOK PROVE TypeOK
    OBVIOUS
  <2>1. now \in 0..scenario.last
    BY ScenariosAssumption DEF TicksInv, WorldTypeOK
  <2> QED BY <2>1 DEF TicksInv, WorldTypeOK, TypeOK
<1> QED BY <1>1, TicksInvariant, WorldTypeInit, WorldTypeNext, PTL DEF Spec

-----------------------------------------------------------------------------
(* The time window.                                                        *)

\* Division by the length of a day.
LEMMA Division ==
    ASSUME NEW u \in Nat
    PROVE  /\ u \div DayUnits \in Nat
           /\ (u \div DayUnits) * DayUnits <= u
           /\ u < (u \div DayUnits) * DayUnits + DayUnits
  BY DayUnitsAssumption

\* And multiplication by it.
LEMMA Multiples ==
    ASSUME NEW a \in Nat, NEW b \in Nat
    PROVE  /\ a < b => a * DayUnits + DayUnits <= b * DayUnits
           /\ a * DayUnits \in Nat
           /\ (a + 1) * DayUnits = a * DayUnits + DayUnits
  BY DayUnitsAssumption

\* Two instants to a unit.
LEMMA Halves ==
    ASSUME NEW t \in Nat
    PROVE  /\ Unit(t) \in Nat
           /\ t = 2 * Unit(t) + (t % 2)
           /\ t % 2 \in {0, 1}
  BY DEF Unit

\* The fields of a zone.
LEMMA ZoneFacts ==
    ASSUME NEW zone, IsZone(zone)
    PROVE  /\ zone.day \in Nat /\ zone.at \in Nat /\ zone.by \in Int
           /\ Change(zone) \in Nat /\ zone.by <= Change(zone) /\ 0 - zone.by <= Change(zone)
           /\ zone.at + Change(zone) < DayUnits
<1>1. zone.day \in Nat /\ zone.at \in Nat /\ zone.by \in Int
  BY DEF IsZone
<1> QED BY <1>1 DEF IsZone, Change

\* The day that DayOf chooses is there.
LEMMA DayExists ==
    ASSUME NEW zone, IsZone(zone), NEW t \in Nat
    PROVE  LET d == DayOf(zone, t)
           IN  /\ d \in Nat
               /\ DayStart(zone, d) <= Unit(t) /\ Unit(t) < DayStart(zone, d + 1)
<1> DEFINE u == Unit(t)  D == DayUnits  k == zone.day
<1>1. u \in Nat /\ D \in Nat \ {0} /\ k \in Nat /\ zone.at \in Nat /\ zone.by \in Int
      /\ zone.by < D /\ 0 - D < zone.by
  <2>1. u \in Nat
    BY Halves
  <2>2. /\ zone.day \in Nat /\ zone.at \in Nat /\ zone.by \in Int
        /\ Change(zone) \in Nat /\ zone.by <= Change(zone) /\ 0 - zone.by <= Change(zone)
        /\ zone.at + Change(zone) < DayUnits
    BY ZoneFacts
  <2> QED BY <2>1, <2>2, DayUnitsAssumption
<1> DEFINE q == u \div D
<1>2. q \in Nat /\ q * D <= u /\ u < q * D + D
  BY <1>1, Division
<1>3. \A d \in Nat : /\ DayStart(zone, d) = d * D + (IF d > k THEN zone.by ELSE 0)
                     /\ DayStart(zone, d + 1) = d * D + D + (IF d >= k THEN zone.by ELSE 0)
                     /\ d * D \in Nat
  BY <1>1 DEF DayStart
<1>4. \E d \in 0..(q + 1) : DayStart(zone, d) <= u /\ u < DayStart(zone, d + 1)
  <2>1. CASE u < k * D
    <3>1. q < k
      BY <2>1, <1>1, <1>2
    <3> QED BY <3>1, <1>1, <1>2, <1>3
  <2>2. CASE k * D <= u /\ u < k * D + D + zone.by
    <3>1. k <= q + 1
      BY <2>2, <1>1, <1>2
    <3> QED BY <2>2, <3>1, <1>1, <1>2, <1>3
  <2>3. CASE k * D + D + zone.by <= u
    <3> DEFINE w == u - zone.by
    <3>1. w \in Nat /\ w = u - zone.by
      <4>1. k * D \in Nat
        BY <1>1, Multiples
      <4> QED BY <4>1, <2>3, <1>1
    <3> DEFINE p == w \div D
    <3>2. p \in Nat /\ p * D <= w /\ w < p * D + D
      BY <3>1, Division
    <3> HIDE DEF p, w
    <3>3. k < p
      <4>1. p * D \in Nat /\ k * D \in Nat /\ (p < k => p * D + D <= k * D)
        BY <3>2, <1>1, Multiples
      <4>2. p = k => p * D = k * D
        OBVIOUS
      <4> HIDE DEF D, u, k
      <4> QED BY <4>1, <4>2, <3>1, <3>2, <2>3, <1>1
    <3>4. p <= q + 1
      <4>1. p * D \in Nat /\ q * D \in Nat /\ (q + 1 < p => (q + 1) * D + D <= p * D)
            /\ (q + 1) * D = q * D + D
        BY <3>2, <1>2, Multiples
      <4> HIDE DEF D, u, k
      <4> QED BY <4>1, <3>1, <3>2, <1>1, <1>2
    <3>5. DayStart(zone, p) <= u /\ u < DayStart(zone, p + 1)
      <4>1. p * D \in Nat /\ DayStart(zone, p) = p * D + zone.by
            /\ DayStart(zone, p + 1) = p * D + D + zone.by
        BY <3>2, <3>3, <1>1, <1>3
      <4> HIDE DEF D, u, k
      <4> QED BY <4>1, <3>1, <3>2, <1>1
    <3> QED BY <3>2, <3>4, <3>5
  <2> QED BY <2>1, <2>2, <2>3, <1>1, <1>3
<1> QED BY <1>1, <1>2, <1>4 DEF DayOf

\* What the clock shows is compared with the two ends of a window as the instants
\* are that time.Date makes of them.
LEMMA DateOrders ==
    ASSUME NEW zone, IsZone(zone), NEW t \in Nat, NEW w \in 0..(DayUnits - 1),
           ~Doubtful(zone, DayOf(zone, t), w)
    PROVE  /\ WallClock(zone, t) \in Int
           /\ \A x \in Date(zone, DayOf(zone, t), w, 0) :
                 x \in Int /\ (x <= t <=> w <= WallClock(zone, t))
           /\ \A x \in Date(zone, DayOf(zone, t), w, 1) :
                 /\ x \in Int /\ (t <= x <=> WallClock(zone, t) <= w)
                 /\ t = x <=> WallClock(zone, t) = w /\ t % 2 = 1
<1> DEFINE d == DayOf(zone, t)  i == Unit(t) - DayStart(zone, d)
<1>1. DayUnits \in Nat \ {0} /\ w \in Int /\ 0 <= w /\ w < DayUnits
  BY DayUnitsAssumption
<1>2. d \in Nat /\ DayStart(zone, d) \in Int /\ DayStart(zone, d) <= Unit(t)
  <2>1. d \in Nat /\ DayStart(zone, d) <= Unit(t)
    BY DayExists
  <2>2. d * DayUnits \in Nat
    BY <2>1, Multiples
  <2> QED BY <2>1, <2>2, ZoneFacts DEF DayStart
<1> DEFINE S == DayStart(zone, d)  u == Unit(t)  r == t % 2
<1>3. u \in Nat /\ r \in {0, 1} /\ t = 2 * u + r
      /\ i = u - S /\ i \in Nat /\ S \in Int
  <2>1. u \in Nat /\ r \in {0, 1} /\ t = 2 * u + r
    BY Halves
  <2>2. S \in Int /\ S <= u /\ i = u - S
    BY <1>2
  <2> HIDE DEF S, u, r, i
  <2> QED BY <2>1, <2>2
<1>4. CASE d # zone.day
  <2>1. WallClock(zone, t) = i
    BY <1>4 DEF WallClock
  <2>2. \A last : Date(zone, d, w, last) = {2 * (S + w) + last}
    BY <1>4 DEF Date
  <2> HIDE DEF d, S, u, r, i
  <2>3. /\ 2 * (S + w) + 0 <= t <=> w <= i
        /\ t <= 2 * (S + w) + 1 <=> i <= w
        /\ t = 2 * (S + w) + 1 <=> i = w /\ r = 1
    BY <1>1, <1>2, <1>3
  <2> QED BY <2>1, <2>2, <2>3, <1>1, <1>2, <1>3 DEF d, r
<1>5. CASE d = zone.day
  <2> DEFINE W == IF i >= ChangeUnit(zone) THEN i - zone.by ELSE i
  <2>1. WallClock(zone, t) = W
    BY <1>5 DEF WallClock
  <2>2. w < zone.at \/ w >= zone.at + Change(zone)
    BY <1>5, <1>1, ZoneFacts DEF Doubtful
  <2>3. \A last : Date(zone, d, w, last) =
            IF w < zone.at THEN {2 * (S + w) + last} ELSE {2 * (S + w) + last + 2 * zone.by}
    BY <1>5, <2>2, <1>1, ZoneFacts DEF Date
  <2>4. ChangeUnit(zone) = IF zone.by > 0 THEN zone.at + zone.by ELSE zone.at
    BY DEF ChangeUnit
  <2>5. /\ zone.at \in Nat /\ zone.by \in Int
        /\ zone.by >= 0 => Change(zone) = zone.by
        /\ zone.by < 0 => Change(zone) = 0 - zone.by
    BY ZoneFacts DEF Change
  <2> HIDE DEF d, S, u, r, i
  <2>6. CASE w < zone.at
    <3>1. /\ 2 * (S + w) + 0 <= t <=> w <= W
          /\ t <= 2 * (S + w) + 1 <=> W <= w
          /\ t = 2 * (S + w) + 1 <=> W = w /\ r = 1
          /\ W \in Int
      BY <2>4, <2>5, <2>6, <1>1, <1>2, <1>3
    <3> QED BY <2>1, <2>3, <2>6, <3>1, <1>1, <1>2, <1>3 DEF d, r
  <2>7. CASE w >= zone.at + Change(zone)
    <3>1. /\ 2 * (S + w) + 0 + 2 * zone.by <= t <=> w <= W
          /\ t <= 2 * (S + w) + 1 + 2 * zone.by <=> W <= w
          /\ t = 2 * (S + w) + 1 + 2 * zone.by <=> W = w /\ r = 1
          /\ W \in Int
      BY <2>4, <2>5, <2>7, <1>1, <1>2, <1>3
    <3>2. ~(w < zone.at)
      BY <2>5, <2>7, <1>1
    <3> QED BY <2>1, <2>3, <3>2, <3>1, <2>5, <1>1, <1>2, <1>3 DEF d, r
  <2> QED BY <2>2, <2>6, <2>7
<1> QED BY <1>4, <1>5

\* A time that Contains takes for one inside the window is in it by what the flags
\* say, unless an end of the window is a time that this day has twice or not at all.
LEMMA ContainedIsIn ==
    ASSUME NEW zone, IsZone(zone), NEW window, IsWindow(window), NEW t \in Nat,
           BothEndsClear(zone, window, t),
           NEW start \in Opens(zone, window, t), NEW end \in Closes(zone, window, t),
           Contains(zone, window, t, start, end)
    PROVE  InWindow(zone, window, t)
<1> DEFINE d == DayOf(zone, t)  W == WallClock(zone, t)
<1>1. window.start \in 0..(DayUnits - 1) /\ window.end \in 0..(DayUnits - 1)
  BY DEF IsWindow
<1>2. ~Doubtful(zone, d, window.start) /\ ~Doubtful(zone, d, window.end)
  BY DEF BothEndsClear
<1>3. start \in Date(zone, d, window.start, 0) /\ end \in Date(zone, d, window.end, 1)
  BY DEF Opens, Closes
<1>4. W \in Int /\ start \in Int /\ (start <= t <=> window.start <= W)
  BY <1>1, <1>2, <1>3, DateOrders
<1>5. end \in Int /\ (t <= end <=> W <= window.end)
  BY <1>1, <1>2, <1>3, DateOrders
<1>6. Weekday(d) \in window.days /\ Between(window, t, start, end)
  BY DEF Contains
<1>7. IF Wraps(window) THEN W >= window.start \/ W <= window.end
                      ELSE W >= window.start /\ W <= window.end
  <2> HIDE DEF W, d
  <2> QED BY <1>1, <1>4, <1>5, <1>6 DEF Between
<1> QED BY <1>6, <1>7 DEF InWindow

\* An instant is not far from the times of the clock on its day.
LEMMA SameDay ==
    ASSUME NEW zone, IsZone(zone), NEW t \in Nat, NEW w \in 0..(DayUnits - 1),
           ~Doubtful(zone, DayOf(zone, t), w), ~IsLongDay(zone, t)
    PROVE  /\ \A x \in Date(zone, DayOf(zone, t), w, 0) : x - Hours24 <= t
           /\ \A x \in Date(zone, DayOf(zone, t), w, 1) : t <= x + Hours24
<1> DEFINE d == DayOf(zone, t)  S == DayStart(zone, d)  u == Unit(t)  r == t % 2
<1>1. DayUnits \in Nat \ {0} /\ w \in Int /\ 0 <= w /\ w < DayUnits
  BY DayUnitsAssumption
<1>2. /\ zone.at \in Nat /\ zone.by \in Int /\ zone.day \in Nat
      /\ zone.by < 0 => Change(zone) = 0 - zone.by
      /\ zone.by = 0 => Change(zone) = 0
      /\ d = zone.day => zone.by <= 0
  BY ZoneFacts DEF Change, IsLongDay
<1>3. d \in Nat /\ S \in Int /\ S <= u /\ u < S + DayUnits + (IF d = zone.day THEN zone.by ELSE 0)
  <2>1. d \in Nat /\ S <= u /\ u < DayStart(zone, d + 1)
    BY DayExists
  <2>2. d * DayUnits \in Nat /\ (d + 1) * DayUnits = d * DayUnits + DayUnits
    BY <2>1, Multiples
  <2>3. S = d * DayUnits + (IF d > zone.day THEN zone.by ELSE 0)
    BY DEF DayStart
  <2>4. DayStart(zone, d + 1) = d * DayUnits + DayUnits + (IF d >= zone.day THEN zone.by ELSE 0)
    BY <2>1, <2>2, <1>2 DEF DayStart
  <2> HIDE DEF d, S, u
  <2> QED BY <2>1, <2>2, <2>3, <2>4, <1>1, <1>2
<1>4. u \in Nat /\ r \in {0, 1} /\ t = 2 * u + r
  BY Halves
<1>5. \A last : Date(zone, d, w, last) =
          IF d # zone.day \/ w < zone.at THEN {2 * (S + w) + last} ELSE {2 * (S + w) + last + 2 * zone.by}
  BY <1>1, <1>2 DEF Date, Doubtful
<1>6. d = zone.day /\ ~(w < zone.at) => zone.at <= w + zone.by
  BY <1>1, <1>2 DEF Doubtful
<1> HIDE DEF d, S, u, r
<1>7. CASE d # zone.day \/ w < zone.at
  <2>1. \A last : Date(zone, d, w, last) = {2 * (S + w) + last}
    BY <1>5, <1>7
  <2>2. 2 * (S + w) + 0 - 2 * DayUnits <= t
    BY <1>1, <1>2, <1>3, <1>4
  <2>3. t <= 2 * (S + w) + 1 + 2 * DayUnits
    BY <1>1, <1>2, <1>3, <1>4
  <2>4. /\ \A x \in Date(zone, d, w, 0) : x - 2 * DayUnits <= t
        /\ \A x \in Date(zone, d, w, 1) : t <= x + 2 * DayUnits
    BY <2>1, <2>2, <2>3, <1>1, <1>3
  <2> QED BY <2>4 DEF Hours24, d
<1>8. CASE ~(d # zone.day \/ w < zone.at)
  BY <1>1, <1>2, <1>3, <1>4, <1>5, <1>6, <1>8 DEF Hours24, d
<1> QED BY <1>7, <1>8

\* A time in the window is taken for one, with the exceptions named.
LEMMA InIsContained ==
    ASSUME NEW zone, IsZone(zone), NEW window, IsWindow(window), NEW t \in Nat,
           BothEndsClear(zone, window, t), ~IsLongDay(zone, t),
           ~IsLastInstant(zone, window, t), InWindow(zone, window, t),
           NEW start \in Opens(zone, window, t), NEW end \in Closes(zone, window, t)
    PROVE  Contains(zone, window, t, start, end)
<1> DEFINE d == DayOf(zone, t)  W == WallClock(zone, t)
<1>1. window.start \in 0..(DayUnits - 1) /\ window.end \in 0..(DayUnits - 1)
  BY DEF IsWindow
<1>2. ~Doubtful(zone, d, window.start) /\ ~Doubtful(zone, d, window.end)
  BY DEF BothEndsClear
<1>3. start \in Date(zone, d, window.start, 0) /\ end \in Date(zone, d, window.end, 1)
  BY DEF Opens, Closes
<1>4. /\ W \in Int /\ start \in Int /\ (start <= t <=> window.start <= W)
      /\ start - Hours24 <= t
  BY <1>1, <1>2, <1>3, DateOrders, SameDay
<1>5. /\ end \in Int /\ (t <= end <=> W <= window.end)
      /\ t = end <=> W = window.end /\ t % 2 = 1
      /\ t <= end + Hours24
  BY <1>1, <1>2, <1>3, DateOrders, SameDay
<1>6. /\ Weekday(d) \in window.days
      /\ IF Wraps(window) THEN W >= window.start \/ W <= window.end
                          ELSE W >= window.start /\ W <= window.end
  BY DEF InWindow
<1>7. Wraps(window) => t # end
  BY <1>5 DEF IsLastInstant
<1>8. Between(window, t, start, end)
  <2> HIDE DEF W, d
  <2> QED BY <1>1, <1>4, <1>5, <1>6, <1>7 DEF Between, Wraps
<1> QED BY <1>6, <1>8 DEF Contains

\* A pass that got past the window started in it.
OpenedInv == loop \in {"sentinel", "blockers", "attempt"} => opened

\* The invariant holds at the start.
LEMMA OpenedInit == Init => OpenedInv
  BY DEF Init, OpenedInv

\* The invariant is inductive.
LEMMA OpenedNext == TicksInv /\ AskedInv /\ OpenedInv /\ [Next]_vars => OpenedInv'
<1> SUFFICES ASSUME TicksInv, AskedInv, OpenedInv, [Next]_vars PROVE OpenedInv'
  OBVIOUS
<1>1. CASE Receive
  <2>1. PICK start \in Opens(scenario.zone, scenario.window, now),
             end \in Closes(scenario.zone, scenario.window, now) :
               IF Contains(scenario.zone, scenario.window, now, start, end)
               THEN opened' = Open ELSE PassEnds
    BY <1>1 DEF Receive
  <2>2. CASE PassEnds
    BY <2>2 DEF PassEnds, OpenedInv
  <2>3. CASE Contains(scenario.zone, scenario.window, now, start, end) /\ opened' = Open
    <3>1. IsZone(scenario.zone) /\ IsWindow(scenario.window) /\ now \in Nat
      BY Configured DEF AskedInv, TicksInv
    <3>2. Open
      BY <3>1, <2>3, ContainedIsIn DEF Open
    <3> QED BY <3>2, <2>3 DEF OpenedInv
  <2> QED BY <2>1, <2>2, <2>3
<1>2. CASE CheckSentinel \/ AskBlocker \/ AttemptEnds \/ Restart
  BY <1>2 DEF CheckSentinel, AskBlocker, AttemptEnds, Restart, PassEnds, OpenedInv
<1>3. CASE Wakes \/ Fires \/ TakesTick \/ NotBlocked \/ WorldChanges \/ TimePasses \/ UNCHANGED vars
  BY <1>3 DEF Wakes, Fires, TakesTick, NotBlocked, WorldChanges, TimePasses, vars,
              loopVars, ghostVars, OpenedInv
<1> QED BY <1>1, <1>2, <1>3 DEF Next, TheEnd

\* A reboot is attempted only in a pass that started inside the window, for every
\* window, every length of the day and every change of the clock within one day.
THEOREM AttemptsAreInWindow == Spec => []AttemptsInWindow
<1>1. OpenedInv => AttemptsInWindow
  BY DEF OpenedInv, AttemptsInWindow
<1> QED BY <1>1, TicksInvariant, AskedInit, AskedNext, OpenedInit, OpenedNext, PTL DEF Spec

\* No pass inside the window is turned away, with the exceptions that the property
\* names.
THEOREM WindowIsNotMissed == Spec => WindowNotMissed
<1>1. ASSUME TicksInv, AskedInv, [Next]_vars,
             passes' = passes + 1, loop' = "waiting",
             InWindow(scenario.zone, scenario.window, now),
             BothEndsClear(scenario.zone, scenario.window, now),
             ~IsLongDay(scenario.zone, now),
             ~IsLastInstant(scenario.zone, scenario.window, now)
      PROVE  FALSE
  <2>1. passes' # passes /\ passes' # 0 /\ passes \in Nat
    BY <1>1 DEF TicksInv
  <2>2. Receive
    BY <1>1, <2>1
    DEF Next, Wakes, Fires, TakesTick, CheckSentinel, AskBlocker, NotBlocked, AttemptEnds,
        Restart, WorldChanges, TimePasses, TheEnd, vars, ghostVars
  <2>3. PICK start \in Opens(scenario.zone, scenario.window, now),
             end \in Closes(scenario.zone, scenario.window, now) :
               ~Contains(scenario.zone, scenario.window, now, start, end)
    BY <1>1, <2>2 DEF Receive
  <2>4. IsZone(scenario.zone) /\ IsWindow(scenario.window) /\ now \in Nat
    BY <1>1, Configured DEF AskedInv, TicksInv
  <2> QED BY <1>1, <2>3, <2>4, InIsContained
<1>2. TicksInv /\ AskedInv /\ [Next]_vars =>
        [passes' = passes + 1 /\ loop' = "waiting"
          /\ InWindow(scenario.zone, scenario.window, now)
          => \/ ~BothEndsClear(scenario.zone, scenario.window, now)
             \/ IsLongDay(scenario.zone, now)
             \/ IsLastInstant(scenario.zone, scenario.window, now)]_vars
  BY <1>1
<1> QED BY <1>2, TicksInvariant, AskedInit, AskedNext, PTL DEF Spec, WindowNotMissed
=============================================================================
