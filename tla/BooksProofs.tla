---------------------------- MODULE BooksProofs ----------------------------
(***************************************************************************)
(* Proofs about what is counted by the New York day - the weekly report,   *)
(* the cap on a day's orders, the equity curve - and about the record of   *)
(* the verdicts.                                                           *)
(***************************************************************************)
EXTENDS WeeklyReport, DailyCap, EquityCurve, SumTheorems, SequenceTheorems

LEMMA Division ==
  ASSUME NEW a \in Int, NEW b \in Nat, b > 0
  PROVE  /\ a \div b \in Int
         /\ a % b \in 0..b-1
         /\ a = b * (a \div b) + (a % b)
  OBVIOUS

LEMMA OffsetRange ==
  ASSUME NEW t \in Int
  PROVE  OffsetAt(t) \in {1, 2}
  BY DEF OffsetAt, OffsetBefore, OffsetAfter, Summer, Winter

\* A date begins at its midnight, give or take the tick of a turn.
LEMMA DateBounds ==
  ASSUME NEW t \in Int
  PROVE  /\ DateOf(t) \in Int /\ DateOf(t) * DayTicks \in Int
         /\ t >= DateOf(t) * DayTicks + OffsetAt(t)
         /\ t < DateOf(t) * DayTicks + OffsetAt(t) + DayTicks
<1> DEFINE o == OffsetAt(t)
           a == t - o
<1>1. o \in {1, 2} /\ DayTicks \in Nat /\ DayTicks > 0
  BY OffsetRange, ClockAssumption
<1>2. a \in Int /\ DateOf(t) = a \div DayTicks /\ t = a + o
  BY <1>1 DEF DateOf
<1> HIDE DEF a, o
<1>3. /\ a \div DayTicks \in Int /\ a % DayTicks \in 0..DayTicks-1
      /\ a = DayTicks * (a \div DayTicks) + (a % DayTicks)
  BY <1>1, <1>2, Division
<1>4. DayTicks * (a \div DayTicks) = DateOf(t) * DayTicks
  BY <1>1, <1>2, <1>3
<1>5. DateOf(t) * DayTicks \in Int
  BY <1>1, <1>2, <1>3
<1> QED BY <1>1, <1>2, <1>3, <1>4, <1>5 DEF o

-----------------------------------------------------------------------------
(* The weekly report.                                                      *)

\* the moment a report of the Sunday with this date falls due
Due(date) == MidnightByProbe(date) + FireTicks

LEMMA DueRange ==
  ASSUME NEW date \in Int
  PROVE  Due(date) \in date * DayTicks + FireTicks + 1 .. date * DayTicks + FireTicks + 2
<1>1. /\ DayTicks \in Nat /\ FireTicks \in Nat /\ date * DayTicks \in Int
      /\ date * DayTicks + Winter \in Int
  BY ClockAssumption, ReportAssumption DEF Winter
<1>2. OffsetAt(date * DayTicks + Winter) \in {1, 2}
  BY <1>1, OffsetRange
<1> QED BY <1>1, <1>2 DEF Due, MidnightByProbe

LEMMA DueIsMoment == \A date \in Int : Due(date) \in Int
<1> TAKE date \in Int
<1>1. date * DayTicks \in Int /\ FireTicks \in Int
  BY ClockAssumption, ReportAssumption
<1> QED BY <1>1, DueRange

LEMMA SeveralDays ==
  ASSUME NEW w \in Int, w >= 1
  PROVE  w * DayTicks >= DayTicks /\ w * DayTicks \in Int
<1>1. DayTicks \in Nat
  BY ClockAssumption
<1>2. w * DayTicks = (w - 1) * DayTicks + DayTicks
  BY <1>1
<1>3. (w - 1) * DayTicks >= 0 /\ (w - 1) * DayTicks \in Int
  BY <1>1
<1> QED BY <1>1, <1>2, <1>3

\* A report that may go out now is one of the Sunday it is, and is due.
LEMMA FiresOnSunday ==
  ASSUME now \in Int, ShouldFire
  PROVE  /\ DateOf(now) \in Int /\ DateOf(now) % 7 = 0
         /\ FirePoint(now) = Due(DateOf(now)) /\ FirePoint(now) <= now
<1> DEFINE d == DateOf(now)
           w == d % 7
           days == d * DayTicks
           back == w * DayTicks
<1>1. /\ d \in Int /\ now >= days + 1 /\ now <= days + DayTicks + 1
  <2>1. /\ d \in Int /\ days \in Int /\ OffsetAt(now) \in {1, 2} /\ DayTicks \in Int
        /\ now >= days + OffsetAt(now) /\ now < days + OffsetAt(now) + DayTicks
    BY DateBounds, OffsetRange, ClockAssumption
  <2> HIDE DEF d, days
  <2> QED BY <2>1
<1>2. Due(d) \in days + FireTicks + 1 .. days + FireTicks + 2
  BY <1>1, DueRange
<1>3. /\ DayTicks \in Nat /\ FireTicks \in Nat /\ GraceTicks \in Nat
      /\ FireTicks + GraceTicks + 1 < DayTicks
  BY ClockAssumption, ReportAssumption
<1>4. w \in 0..6 /\ days \in Int
  BY <1>1, <1>3
<1>5. LastSunday(now) + FireTicks = Due(d) - back
  <2>1. MidnightByProbe(d) \in Int
    BY <1>1, <1>3, OffsetRange DEF MidnightByProbe, Winter
  <2>2. back \in Int
    BY <1>3, <1>4
  <2> QED BY <1>3, <2>1, <2>2 DEF LastSunday, NewYorkWeekday, Due
<1>6. now - FirePoint(now) <= GraceTicks
  BY DEF ShouldFire
<1>7. FirePoint(now) = IF now < Due(d) - back THEN Due(d) - back - 7 * DayTicks
                       ELSE Due(d) - back
  BY <1>5 DEF FirePoint
<1> HIDE DEF d, w, days, back
<1>8. w = 0 => back = 0
  BY <1>3 DEF back
<1>9. w # 0 => back >= DayTicks /\ back \in Int
  BY <1>4, SeveralDays DEF back
<1>10. w = 0
  BY <1>1, <1>2, <1>3, <1>4, <1>6, <1>7, <1>9
<1>11. ~(now < Due(d) - back)
  BY <1>1, <1>2, <1>3, <1>4, <1>6, <1>7, <1>8, <1>10
<1> QED BY <1>1, <1>2, <1>4, <1>7, <1>8, <1>10, <1>11 DEF d, w

\* The reports sent and the one being built are of Sundays, of one each, and
\* were due at or before the stored time.
ReportRecord == [week : [from : Int, to : Int], day : Int]
Built == inFlight \cup {sent[i] : i \in DOMAIN sent}
OfSunday(report) == report.day % 7 = 0 /\ Due(report.day) <= lastFire

ReportInv ==
  /\ now \in Nat /\ lastFire \in Int /\ lastFire <= now
  /\ inFlight \subseteq ReportRecord /\ sent \in Seq(ReportRecord)
  /\ \A r \in Built : OfSunday(r) /\ lastFire # NeverFired
  /\ \A r, q \in inFlight : r = q
  /\ \A r \in inFlight, i \in DOMAIN sent : sent[i].day # r.day
  /\ \A i, j \in DOMAIN sent : sent[i].day = sent[j].day => i = j

LEMMA ReportInvInit ==
  (\E start \in Nat : ClockInit(start)) /\ ReportInit => ReportInv
<1> SUFFICES ASSUME NEW start \in Nat, ClockInit(start), ReportInit PROVE ReportInv
  OBVIOUS
<1>1. now \in Nat
  BY DEF ClockInit
<1>2. Built = {} /\ sent = <<>> /\ inFlight = {} /\ lastFire = -1
  BY DEF Built, ReportInit, NeverFired
<1> QED BY <1>1, <1>2 DEF ReportInv

LEMMA ReportHasType ==
  ASSUME now \in Int
  PROVE  Report \in ReportRecord
<1>1. DateOf(now) \in Int /\ DayTicks \in Nat
  BY DateBounds, ClockAssumption
<1>2. MidnightByProbe(DateOf(now)) \in Int
  BY <1>1, OffsetRange DEF MidnightByProbe, Winter
<1>3. NewYorkWeekday(now) \in Int
  BY <1>1 DEF NewYorkWeekday
<1>4. NewYorkWeekday(now) * DayTicks \in Int /\ 7 * DayTicks \in Int
  BY <1>1, <1>3
<1>5. LastSunday(now) \in Int
  BY <1>2, <1>4 DEF LastSunday
<1> QED BY <1>1, <1>4, <1>5 DEF Report, ReportRecord, WeekBoundary

LEMMA ReportInvNext == ReportInv /\ [ReportNext]_reportVars => ReportInv'
<1> SUFFICES ASSUME ReportInv, [ReportNext]_reportVars PROVE ReportInv'
  OBVIOUS
<1>1. turn' = turn
  BY DEF ReportNext, Fire, Deliver, Interrupted, reportVars
<1>2. \A date : Due(date)' = Due(date)
  BY <1>1 DEF Due, MidnightByProbe, OffsetAt, OffsetBefore, OffsetAfter, TurnAt
<1>3. CASE UNCHANGED reportOnlyVars /\ now' \in Nat /\ now' >= now
  BY <1>2, <1>3 DEF reportOnlyVars, ReportInv, Built, OfSunday
<1>4. CASE Fire
  <2>1. /\ DateOf(now) \in Int /\ DateOf(now) % 7 = 0
        /\ FirePoint(now) = Due(DateOf(now)) /\ FirePoint(now) <= now
    BY <1>4, FiresOnSunday DEF Fire, ReportInv
  <2>2. /\ lastFire' = now /\ now' = now /\ sent' = sent
        /\ inFlight' = {Report} /\ inFlight = {}
    BY <1>4 DEF Fire, Mark
  <2>3. lastFire = NeverFired \/ lastFire < Due(DateOf(now))
    <3>1. lastFire \in Int /\ Due(DateOf(now)) \in Int
      BY <2>1, DueIsMoment DEF ReportInv
    <3> QED BY <1>4, <2>1, <3>1 DEF Fire, ShouldFire
  <2>4. Report.day = DateOf(now) /\ Report \in ReportRecord
    BY ReportHasType DEF Report, ReportInv
  <2>5. \A r \in Built : r.day % 7 = 0 /\ Due(r.day) <= now /\ r.day # DateOf(now)
    <3>1. SUFFICES ASSUME NEW r \in Built
                   PROVE  r.day % 7 = 0 /\ Due(r.day) <= now /\ r.day # DateOf(now)
      OBVIOUS
    <3>2. r.day \in Int
      <4>1. r \in ReportRecord
        <5>1. CASE r \in inFlight
          BY <5>1 DEF ReportInv
        <5>2. ASSUME NEW i \in DOMAIN sent, r = sent[i] PROVE r \in ReportRecord
          <6>1. sent \in Seq(ReportRecord)
            BY DEF ReportInv
          <6> QED BY <5>2, <6>1
        <5> QED BY <5>1, <5>2 DEF Built
      <4> QED BY <4>1 DEF ReportRecord
    <3>3. Due(r.day) \in Int /\ Due(DateOf(now)) \in Int
      BY <2>1, <3>2, DueIsMoment
    <3> QED BY <2>3, <3>3 DEF ReportInv, OfSunday
  <2>6. now # NeverFired /\ now \in Int /\ Due(DateOf(now)) <= now
    BY <2>1 DEF ReportInv, NeverFired
  <2>7. \A r \in Built' : OfSunday(r)' /\ lastFire' # NeverFired
    BY <1>2, <2>1, <2>2, <2>4, <2>5, <2>6 DEF Built, OfSunday
  <2>8. \A i \in DOMAIN sent : sent[i].day # DateOf(now)
    BY <2>5 DEF Built
  <2> QED BY <2>2, <2>4, <2>7, <2>8 DEF ReportInv
<1>5. ASSUME inFlight' = {}, lastFire' = lastFire, now' = now,
             sent' = sent \/ \E report \in inFlight : Sent(report)
      PROVE  ReportInv'
  <2>1. CASE sent' = sent
    BY <1>2, <1>5, <2>1 DEF ReportInv, Built, OfSunday
  <2>2. ASSUME NEW report \in inFlight, Sent(report) PROVE ReportInv'
    <3>1. /\ sent \in Seq(ReportRecord) /\ report \in ReportRecord
          /\ sent' = Append(sent, report)
      BY <2>2 DEF ReportInv, Sent
    <3>2. /\ sent' \in Seq(ReportRecord) /\ DOMAIN sent' = 1..Len(sent) + 1
          /\ DOMAIN sent = 1..Len(sent) /\ Len(sent) \in Nat
          /\ \A i \in DOMAIN sent : sent'[i] = sent[i]
          /\ sent'[Len(sent) + 1] = report
      BY <3>1
    <3>3. \A i \in DOMAIN sent' : i \in DOMAIN sent \/ i = Len(sent) + 1
      BY <3>2
    <3>4. Built' \subseteq Built
      BY <1>5, <3>2, <3>3 DEF Built
    <3>5. \A i, j \in DOMAIN sent' : sent'[i].day = sent'[j].day => i = j
      BY <3>2, <3>3 DEF ReportInv
    <3>6. \A r \in Built' : OfSunday(r)' /\ lastFire' # NeverFired
      BY <1>2, <1>5, <3>4 DEF ReportInv, OfSunday
    <3> QED BY <1>5, <3>2, <3>5, <3>6 DEF ReportInv
  <2> QED BY <1>5, <2>1, <2>2
<1>6. CASE Deliver
  BY <1>5, <1>6 DEF Deliver, Mark
<1>7. CASE Interrupted
  BY <1>5, <1>7 DEF Interrupted
<1>8. CASE TimePasses /\ UNCHANGED <<turn, reportOnlyVars>>
  BY <1>3, <1>8 DEF TimePasses, ReportInv, reportOnlyVars
<1>9. CASE UNCHANGED reportVars
  BY <1>3, <1>9 DEF reportVars, reportOnlyVars, ReportInv
<1> QED BY <1>4, <1>6, <1>7, <1>8, <1>9 DEF ReportNext

\* Whatever fails and however often the bot is restarted, the report of a
\* Sunday goes out at most once, and on no other day: for every length of the
\* day, every hour and grace that fit in a short day, and either turn of the
\* clocks.
THEOREM OneReport == ReportSpec => []ReportedOnce
<1>1. ReportInv => ReportedOnce
  BY DEF ReportInv, ReportedOnce, Built, OfSunday
<1> QED BY <1>1, ReportInvInit, ReportInvNext, PTL DEF ReportSpec

-----------------------------------------------------------------------------
(* The daily cap.                                                          *)

LEMMA DaysApart ==
  ASSUME NEW c \in Int, NEW d \in Int, c < d
  PROVE  c * DayTicks + DayTicks <= d * DayTicks
<1>1. (d - c) * DayTicks >= DayTicks
  BY SeveralDays
<1>2. (d - c) * DayTicks = d * DayTicks - c * DayTicks
  BY ClockAssumption
<1>3. DayTicks \in Int /\ d * DayTicks \in Int /\ c * DayTicks \in Int
  BY ClockAssumption
<1> QED BY <1>1, <1>2, <1>3

\* A row of the day counted by a later midnight was counted by an earlier one.
LEMMA CountedBefore ==
  ASSUME NEW t \in Int, NEW u \in Int, t <= u,
         NEW r \in Int, DateOf(r) = DateOf(u), r >= StartOfNyDay(u)
  PROVE  r >= StartOfNyDay(t)
<1> DEFINE c == DateOf(t)
           d == DateOf(u)
<1>1. /\ c \in Int /\ d \in Int /\ c * DayTicks \in Int /\ d * DayTicks \in Int
      /\ t >= c * DayTicks + OffsetAt(t) /\ t < c * DayTicks + OffsetAt(t) + DayTicks
      /\ u >= d * DayTicks + OffsetAt(u) /\ u < d * DayTicks + OffsetAt(u) + DayTicks
      /\ r >= d * DayTicks + OffsetAt(r)
  BY DateBounds
<1>2. /\ OffsetAt(t) \in {1, 2} /\ OffsetAt(u) \in {1, 2} /\ OffsetAt(r) \in {1, 2}
      /\ DayTicks \in Nat /\ DayTicks > 4
  BY OffsetRange, ClockAssumption
<1>3. StartOfNyDay(t) = c * DayTicks + OffsetAt(t) /\ StartOfNyDay(u) = d * DayTicks + OffsetAt(u)
  BY DEF StartOfNyDay
<1>4. CASE c < d
  <2>1. c * DayTicks + DayTicks <= d * DayTicks
    BY <1>1, <1>4, DaysApart
  <2> HIDE DEF c, d
  <2> QED BY <1>1, <1>2, <1>3, <2>1
<1>5. CASE c = d
  <2>1. CASE OffsetAt(t) <= OffsetAt(u)
    <3> HIDE DEF c, d
    <3> QED BY <1>1, <1>2, <1>3, <1>5, <2>1
  <2>2. CASE OffsetAt(r) = 2
    <3> HIDE DEF c, d
    <3> QED BY <1>1, <1>2, <1>3, <1>5, <2>2
  <2>3. CASE OffsetAt(t) = 2 /\ OffsetAt(u) = 1 /\ OffsetAt(r) = 1
    <3>1. TurnAt \in Int /\ r >= TurnAt /\ t < TurnAt
      <4>1. TurnDay * DayTicks \in Int
        BY ClockAssumption
      <4>2. TurnAt \in Int
        BY <4>1 DEF TurnAt, OffsetBefore, Summer, Winter
      <4>3. OffsetBefore \in {1, 2} /\ OffsetAfter \in {1, 2}
        BY DEF OffsetBefore, OffsetAfter, Summer, Winter
      <4>4. ~(u < TurnAt /\ t < TurnAt) /\ ~(t >= TurnAt /\ u >= TurnAt)
        BY <2>3, <4>2, <4>3 DEF OffsetAt
      <4>5. t < TurnAt /\ u >= TurnAt
        BY <4>2, <4>4
      <4>6. ~(r < TurnAt)
        BY <2>3, <4>5 DEF OffsetAt
      <4> QED BY <4>2, <4>5, <4>6
    <3> HIDE DEF c, d
    <3> QED BY <1>1, <1>2, <1>3, <1>5, <2>3, <3>1
  <2> QED BY <1>2, <2>1, <2>2, <2>3
<1>6. CASE c > d
  <2>1. d * DayTicks + DayTicks <= c * DayTicks
    BY <1>1, <1>6, DaysApart
  <2>2. OffsetAt(u) = 2 /\ OffsetAt(t) = 1
    <3> HIDE DEF c, d
    <3> QED BY <1>1, <1>2, <2>1
  <2> HIDE DEF c, d
  <2> QED BY <1>1, <1>2, <1>3, <2>1, <2>2
<1> QED BY <1>1, <1>4, <1>5, <1>6

\* A row is written once, by a signal that waits until then; a count that has
\* not expired holds every row made before it was taken.
RowsStamped ==
  /\ rowAt \in [Try -> Int] /\ madeAt \in [Try -> Int]
  /\ asks \in [Try -> Route \cup {""}] /\ askedAt \in [Try -> Int]
  /\ outcome \in [Try -> {"waiting", "capped", "declined", "ordered", "sold"}]
  /\ \A s \in Try : /\ madeAt[s] <= now
                    /\ asks[s] # "" => outcome[s] = "waiting" /\ askedAt[s] # NoMoment
                    /\ outcome[s] = "waiting" => s \notin Rows

\* the rows a count taken at the given moment cannot have missed
Countable(read) == {s \in Rows : madeAt[s] < read /\ rowAt[s] >= StartOfNyDay(read)}

CacheCounts ==
  dayCache.expires > now =>
    /\ dayCache.expires - Ttl <= now
    /\ Cardinality(Countable(dayCache.expires - Ttl)) <= dayCache.value

CapInv ==
  /\ now \in Nat
  /\ dayCache \in [value : Nat, expires : Int]
  /\ RowsStamped /\ CacheCounts

LEMMA CapInvInit == (\E start \in Nat : ClockInit(start)) /\ CapInit => CapInv
<1> SUFFICES ASSUME NEW start \in Nat, ClockInit(start), CapInit PROVE CapInv
  OBVIOUS
<1>1. now \in Nat
  BY DEF ClockInit
<1>2. dayCache \in [value : Nat, expires : Int] /\ dayCache.expires = -1
  <2>1. dayCache = [value |-> 0, expires |-> NoMoment]
    BY DEF CapInit, NoCache
  <2> QED BY <2>1 DEF NoMoment
<1>3. RowsStamped
  <2>1. /\ asks = [s \in Try |-> ""] /\ askedAt = [s \in Try |-> NoMoment]
        /\ outcome = [s \in Try |-> "waiting"]
        /\ rowAt = [s \in Try |-> NoMoment] /\ madeAt = [s \in Try |-> NoMoment]
    BY DEF CapInit
  <2>2. NoMoment \in Int /\ NoMoment <= now
    BY <1>1 DEF NoMoment
  <2>3. Rows = {}
    BY <2>1 DEF Rows
  <2> QED BY <2>1, <2>2, <2>3 DEF RowsStamped
<1>4. CacheCounts
  BY <1>1, <1>2 DEF CacheCounts
<1> QED BY <1>1, <1>2, <1>3, <1>4 DEF CapInv

\* What the gate reads, cached or fresh, holds every row made before it was
\* taken.
LEMMA CountIsRead ==
  ASSUME CapInv
  PROVE  /\ TradesToday \in [value : Nat, expires : Int]
         /\ TradesToday.expires - Ttl <= now
         /\ now < TradesToday.expires
         /\ Cardinality(Countable(TradesToday.expires - Ttl)) <= TradesToday.value
<1> DEFINE today == {s \in Rows : rowAt[s] >= StartOfNyDay(now)}
<1>1. /\ now \in Int /\ Ttl \in Int /\ Ttl > 0 /\ IsFiniteSet(Try)
      /\ dayCache \in [value : Nat, expires : Int]
  BY CapAssumption DEF CapInv
<1>2. CASE dayCache.expires > now
  <2>1. TradesToday = dayCache
    BY <1>2 DEF TradesToday, Counted
  <2> QED BY <1>1, <1>2, <2>1 DEF CapInv, CacheCounts
<1>3. CASE ~(dayCache.expires > now)
  <2>1. TradesToday = [value |-> Cardinality(today), expires |-> now + Ttl]
    BY <1>3 DEF TradesToday, Counted
  <2>2. today \subseteq Try
    BY DEF Rows
  <2>3. IsFiniteSet(today)
    BY <1>1, <2>2, FS_Subset
  <2>4. Cardinality(today) \in Nat
    BY <2>3, FS_CardinalityType
  <2>5. now + Ttl - Ttl = now
    BY <1>1
  <2>6. Countable(now) \subseteq today
    BY DEF Countable
  <2>7. Cardinality(Countable(now)) <= Cardinality(today)
    BY <2>3, <2>6, FS_Subset
  <2> QED BY <1>1, <2>1, <2>4, <2>5, <2>7
<1> QED BY <1>2, <1>3

LEMMA RowsStampedNext == CapInv /\ [CapNext]_capVars => RowsStamped'
<1> SUFFICES ASSUME CapInv, [CapNext]_capVars PROVE RowsStamped'
  OBVIOUS
<1>1. now \in Nat /\ RowsStamped
  BY DEF CapInv
<1>2. now \in Int /\ now # NoMoment
  BY <1>1 DEF NoMoment
<1>3. ASSUME NEW s \in Try, NEW route \in Route, Suppress(s, route), now' = now
      PROVE  RowsStamped'
  BY <1>1, <1>3 DEF Suppress, RowsStamped, Rows
<1>4. ASSUME NEW s \in Try, NEW route \in Route, Pass(s, route), now' = now
      PROVE  RowsStamped'
  <2>1. /\ outcome[s] = "waiting" /\ asks' = [asks EXCEPT ![s] = route]
        /\ askedAt' = [askedAt EXCEPT ![s] = now]
        /\ UNCHANGED <<outcome, rowAt, madeAt, now>>
    BY <1>4 DEF Pass
  <2> QED BY <1>1, <1>2, <2>1 DEF RowsStamped, Rows
<1>5. ASSUME NEW s \in Try, Decline(s), now' = now PROVE RowsStamped'
  <2>1. NoMoment \in Int
    BY DEF NoMoment
  <2> QED BY <1>1, <1>5, <2>1 DEF Decline, RowsStamped, Rows
<1>6. ASSUME NEW s \in Try, RecordTrade(s) \/ RecordSale(s), now' = now
      PROVE  RowsStamped'
  <2>1. PICK stamp \in Int : rowAt' = [rowAt EXCEPT ![s] = stamp]
    BY <1>1, <1>2, <1>6 DEF RecordTrade, RecordSale, RowsStamped
  <2>2. /\ madeAt' = [madeAt EXCEPT ![s] = now]
        /\ outcome'[s] \in {"ordered", "sold"}
        /\ outcome' = [outcome EXCEPT ![s] = outcome'[s]]
    BY <1>1, <1>6 DEF RecordTrade, RecordSale, RowsStamped
  <2>3. /\ asks' \in [Try -> Route \cup {""}] /\ askedAt' \in [Try -> Int]
        /\ \A r \in Try : asks'[r] # "" => asks[r] # "" /\ askedAt'[r] = askedAt[r]
    <3>1. asks \in [Try -> Route \cup {""}] /\ askedAt \in [Try -> Int]
      BY <1>1 DEF RowsStamped
    <3>4. NoMoment \in Int
      BY DEF NoMoment
    <3>2. CASE RecordTrade(s)
      BY <3>1, <3>2, <3>4 DEF RecordTrade
    <3>3. CASE RecordSale(s)
      BY <3>1, <3>3 DEF RecordSale
    <3> QED BY <1>6, <3>2, <3>3
  <2>4. ASSUME NEW r \in Try
        PROVE  /\ madeAt'[r] <= now
               /\ outcome'[r] = "waiting" => r \notin Rows'
               /\ asks'[r] # "" => outcome'[r] = "waiting" /\ askedAt'[r] # NoMoment
    <3>1. CASE r = s
      <4>1. asks'[s] = ""
        BY <1>1, <1>6 DEF RecordTrade, RecordSale, RowsStamped
      <4>2. madeAt'[s] = now
        BY <1>1, <2>2 DEF RowsStamped
      <4>3. outcome'[s] # "waiting"
        BY <2>2
      <4>4. madeAt'[r] <= now
        BY <1>2, <3>1, <4>2
      <4> QED BY <3>1, <4>1, <4>3, <4>4
    <3>2. CASE r # s
      <4>1. madeAt'[r] = madeAt[r] /\ rowAt'[r] = rowAt[r] /\ outcome'[r] = outcome[r]
        BY <1>1, <2>1, <2>2, <3>2 DEF RowsStamped
      <4>2. r \in Rows' <=> r \in Rows
        BY <4>1 DEF Rows
      <4> QED BY <1>1, <2>3, <4>1, <4>2 DEF RowsStamped
    <3> QED BY <3>1, <3>2
  <2>5. /\ rowAt' \in [Try -> Int] /\ madeAt' \in [Try -> Int]
        /\ outcome' \in [Try -> {"waiting", "capped", "declined", "ordered", "sold"}]
    BY <1>1, <1>2, <2>1, <2>2 DEF RowsStamped
  <2> QED BY <1>1, <1>6, <2>3, <2>4, <2>5 DEF RowsStamped
<1>8. CASE CapRestart /\ now' = now
  <2>1. NoMoment \in Int
    BY DEF NoMoment
  <2> QED BY <1>1, <1>8, <2>1 DEF CapRestart, RowsStamped, Rows
<1>9. CASE UNCHANGED capOnlyVars /\ now' \in Int /\ now' >= now
  <2>1. /\ UNCHANGED <<rowAt, madeAt, asks, askedAt, outcome>>
    BY <1>9 DEF capOnlyVars
  <2>2. \A s \in Try : madeAt[s] <= now'
    <3>1. \A s \in Try : madeAt[s] \in Int /\ madeAt[s] <= now
      BY <1>1 DEF RowsStamped
    <3> QED BY <1>2, <1>9, <3>1
  <2> QED BY <1>1, <2>1, <2>2 DEF RowsStamped, Rows
<1>10. CASE TimePasses /\ UNCHANGED <<turn, capOnlyVars>>
  BY <1>1, <1>9, <1>10 DEF TimePasses
<1>11. CASE UNCHANGED capVars
  BY <1>1, <1>9, <1>11 DEF capVars
<1> QED BY <1>3, <1>4, <1>5, <1>6, <1>8, <1>10, <1>11 DEF CapNext, CapStep

\* A step writes no row and leaves the cache, empties it or reads it; or it
\* writes one and leaves the cache.
LEMMA CapStepKinds ==
  ASSUME CapInv, [CapNext]_capVars
  PROVE  \/ /\ UNCHANGED <<rowAt, madeAt>> /\ now' = now
            /\ dayCache' \in {dayCache, NoCache, TradesToday}
         \/ UNCHANGED <<rowAt, madeAt, dayCache>> /\ now' = now + 1
         \/ /\ UNCHANGED <<dayCache, now>>
            /\ \E s \in Try : /\ s \notin Rows /\ madeAt'[s] = now
                              /\ \A r \in Try : r # s => rowAt'[r] = rowAt[r] /\ madeAt'[r] = madeAt[r]
<1>1. RowsStamped
  BY DEF CapInv
<1>2. ASSUME NEW s \in Try, RecordTrade(s) \/ RecordSale(s), now' = now
      PROVE  /\ UNCHANGED <<dayCache, now>> /\ s \notin Rows /\ madeAt'[s] = now
             /\ \A r \in Try : r # s => rowAt'[r] = rowAt[r] /\ madeAt'[r] = madeAt[r]
  BY <1>1, <1>2 DEF RecordTrade, RecordSale, RowsStamped
<1>3. ASSUME NEW s \in Try, NEW route \in Route, Suppress(s, route) \/ Pass(s, route)
      PROVE  UNCHANGED <<rowAt, madeAt>> /\ dayCache' \in {dayCache, NoCache, TradesToday}
  BY <1>3 DEF Suppress, Pass
<1>4. ASSUME NEW s \in Try, Decline(s) PROVE UNCHANGED <<rowAt, madeAt, dayCache>>
  BY <1>4 DEF Decline
<1>5. CapRestart => UNCHANGED <<rowAt, madeAt>> /\ dayCache' = NoCache
  BY DEF CapRestart
<1>6. UNCHANGED capOnlyVars => UNCHANGED <<rowAt, madeAt, dayCache>>
  BY DEF capOnlyVars
<1>7. CASE CapStep /\ UNCHANGED <<now, turn>>
  BY <1>2, <1>3, <1>4, <1>5, <1>7 DEF CapStep
<1>8. CASE TimePasses /\ UNCHANGED <<turn, capOnlyVars>>
  BY <1>6, <1>8 DEF TimePasses
<1>9. CASE UNCHANGED capVars
  BY <1>6, <1>9 DEF capVars
<1> QED BY <1>7, <1>8, <1>9 DEF CapNext

LEMMA CapInvNext == CapInv /\ [CapNext]_capVars => CapInv'
<1> SUFFICES ASSUME CapInv, [CapNext]_capVars PROVE CapInv'
  OBVIOUS
<1>1. turn' = turn
  BY DEF CapNext, TimePasses, capVars
<1>2. \A t : StartOfNyDay(t)' = StartOfNyDay(t)
  BY <1>1 DEF StartOfNyDay, DateOf, OffsetAt, OffsetBefore, OffsetAfter, TurnAt
<1>3. /\ now \in Nat /\ Ttl \in Int /\ Ttl > 0 /\ RowsStamped /\ CacheCounts
      /\ dayCache \in [value : Nat, expires : Int]
  BY CapAssumption DEF CapInv
<1>4. RowsStamped'
  BY RowsStampedNext
<1>5. /\ NoCache \in [value : Nat, expires : Int] /\ NoCache.expires = -1
      /\ TradesToday \in [value : Nat, expires : Int]
  BY CountIsRead DEF NoCache, NoMoment
<1>6. now' \in Nat /\ dayCache' \in [value : Nat, expires : Int]
  BY <1>3, <1>5, CapStepKinds
<1>7. ASSUME UNCHANGED <<rowAt, madeAt>>, now' = now,
             dayCache' \in {dayCache, NoCache, TradesToday}
      PROVE  CacheCounts'
  <2>1. \A t : Countable(t)' = Countable(t)
    BY <1>2, <1>7 DEF Rows, Countable
  <2>2. CASE dayCache' = dayCache
    BY <1>3, <1>7, <2>1, <2>2 DEF CacheCounts
  <2>3. CASE dayCache' = NoCache
    BY <1>3, <1>5, <1>7, <2>3 DEF CacheCounts
  <2>4. CASE dayCache' = TradesToday
    <3>1. /\ TradesToday.expires - Ttl <= now
          /\ Cardinality(Countable(TradesToday.expires - Ttl)) <= TradesToday.value
      BY CountIsRead
    <3> QED BY <1>7, <2>1, <2>4, <3>1 DEF CacheCounts
  <2> QED BY <1>7, <2>2, <2>3, <2>4
<1>8. ASSUME UNCHANGED <<rowAt, madeAt, dayCache>>, now' = now + 1 PROVE CacheCounts'
  <2>1. \A t : Countable(t)' = Countable(t)
    BY <1>2, <1>8 DEF Rows, Countable
  <2>2. dayCache.expires \in Int
    BY <1>3
  <2>3. dayCache.expires > now' => dayCache.expires > now
    BY <1>3, <1>8, <2>2
  <2>4. dayCache.expires - Ttl <= now => dayCache.expires - Ttl <= now'
    BY <1>3, <1>8, <2>2
  <2> QED BY <1>3, <1>8, <2>1, <2>3, <2>4 DEF CacheCounts
<1>9. ASSUME UNCHANGED <<dayCache, now>>,
             NEW s \in Try, s \notin Rows, madeAt'[s] = now,
             \A r \in Try : r # s => rowAt'[r] = rowAt[r] /\ madeAt'[r] = madeAt[r]
      PROVE  CacheCounts'
  <2>1. ASSUME NEW t \in Int, t <= now PROVE Countable(t)' = Countable(t)
    <3>1. ~(now < t)
      BY <1>3, <2>1
    <3>2. \A r \in Try : r \in Countable(t)' <=> r \in Countable(t)
      BY <1>2, <1>9, <3>1 DEF Countable, Rows
    <3>3. Countable(t)' \subseteq Try /\ Countable(t) \subseteq Try
      BY DEF Countable, Rows
    <3> QED BY <3>2, <3>3
  <2>2. dayCache.expires - Ttl \in Int
    BY <1>3
  <2> QED BY <1>3, <1>9, <2>1, <2>2 DEF CacheCounts
<1>10. CacheCounts'
  BY <1>7, <1>8, <1>9, CapStepKinds
<1> QED BY <1>4, <1>6, <1>10 DEF CapInv

LEMMA PassSeesOldRows ==
  ASSUME CapInv, NEW s \in Try, NEW route \in Route, Pass(s, route)
  PROVE  Cardinality(OldRows) < DayCap
<1> DEFINE read == TradesToday.expires - Ttl
<1>1. /\ TradesToday \in [value : Nat, expires : Int]
      /\ read <= now /\ now < TradesToday.expires
      /\ Cardinality(Countable(read)) <= TradesToday.value
  BY CountIsRead
<1>2. TradesToday.value < DayCap
  BY DEF Pass
<1>3. now \in Int /\ Ttl \in Int /\ IsFiniteSet(Try) /\ DayCap \in Int /\ RowsStamped
  BY CapAssumption DEF CapInv
<1>4. read \in Int
  BY <1>1, <1>3
<1>5. OldRows \subseteq Countable(read)
  <2>1. SUFFICES ASSUME NEW r \in Rows, DateOf(rowAt[r]) = DateOf(now),
                        rowAt[r] >= StartOfNyDay(now), madeAt[r] + Ttl <= now
                 PROVE  r \in Countable(read)
    BY DEF OldRows
  <2>2. r \in Try /\ rowAt[r] \in Int /\ madeAt[r] \in Int
    BY <1>3 DEF RowsStamped, Rows
  <2>3. rowAt[r] >= StartOfNyDay(read)
    BY <1>1, <1>3, <1>4, <2>1, <2>2, CountedBefore
  <2>4. madeAt[r] < read
    BY <1>1, <1>3, <2>1, <2>2
  <2> QED BY <2>1, <2>3, <2>4 DEF Countable
<1>6. Countable(read) \subseteq Try
  BY DEF Countable, Rows
<1> HIDE DEF read
<1>7. IsFiniteSet(Countable(read))
  BY <1>3, <1>6, FS_Subset
<1>8. /\ Cardinality(OldRows) <= Cardinality(Countable(read))
      /\ IsFiniteSet(OldRows)
  BY <1>5, <1>7, FS_Subset
<1>9. Cardinality(OldRows) \in Nat /\ Cardinality(Countable(read)) \in Nat
  BY <1>7, <1>8, FS_CardinalityType
<1> QED BY <1>1, <1>2, <1>3, <1>8, <1>9

\* However the sweep, the operator's approvals and the sales interleave, and
\* whenever the process restarts, no signal passes the gate of a day whose cap
\* is full of rows older than the time a count is kept: for every cap, time to
\* live and length of the day, at every midnight and either turn.
THEOREM CapIsKept == CapSpec => CapSeesOldRows
<1> DEFINE Seen == \A s \in Try : asks[s] = "" /\ asks'[s] # "" => Cardinality(OldRows) < DayCap
<1>1. CapInv /\ [CapNext]_capVars => [Seen]_capOnlyVars
  <2> SUFFICES ASSUME CapInv, CapNext, NEW s \in Try, asks[s] = "", asks'[s] # "",
                      ~UNCHANGED capOnlyVars
               PROVE  Cardinality(OldRows) < DayCap
    BY DEF capVars
  <2>1. asks \in [Try -> Route \cup {""}]
    BY DEF CapInv, RowsStamped
  <2>2. ASSUME NEW r \in Try, NEW route \in Route, Pass(r, route)
        PROVE  Cardinality(OldRows) < DayCap
    BY <2>2, PassSeesOldRows
  <2>3. ASSUME NEW r \in Try, NEW route \in Route, Suppress(r, route) PROVE asks' = asks
    BY <2>3 DEF Suppress
  <2>4. ASSUME NEW r \in Try, Decline(r) \/ RecordTrade(r) \/ RecordSale(r)
        PROVE  asks'[s] = ""
    BY <2>1, <2>4 DEF Decline, RecordTrade, RecordSale
  <2>5. CapRestart => asks'[s] = ""
    BY DEF CapRestart
  <2> QED BY <2>2, <2>3, <2>4, <2>5 DEF CapNext, CapStep
<1> QED BY <1>1, CapInvInit, CapInvNext, PTL DEF CapSpec, CapSeesOldRows
-----------------------------------------------------------------------------
(* The equity curve.                                                       *)

\* The dates a moment has reached are those whose first tick it has.
LEMMA DateReached ==
  ASSUME NEW t \in Int, NEW d \in Int
  PROVE  DateOf(t) >= d <=> t - OffsetAt(t) >= d * DayTicks
<1>1. OffsetAt(t) \in {1, 2} /\ DayTicks \in Nat /\ DayTicks > 4
  BY OffsetRange, ClockAssumption
<1>2. /\ DateOf(t) \in Int /\ DateOf(t) * DayTicks \in Int
      /\ t >= DateOf(t) * DayTicks + OffsetAt(t)
      /\ t < DateOf(t) * DayTicks + OffsetAt(t) + DayTicks
  BY DateBounds
<1>3. d * DayTicks \in Int
  BY <1>1
<1>4. ASSUME DateOf(t) >= d PROVE t - OffsetAt(t) >= d * DayTicks
  <2>1. DateOf(t) * DayTicks >= d * DayTicks
    <3>1. CASE DateOf(t) = d
      BY <3>1, <1>3
    <3>2. CASE DateOf(t) # d
      <4>1. d < DateOf(t)
        BY <3>2, <1>4, <1>2
      <4> QED BY <4>1, <1>1, <1>2, <1>3, DaysApart
    <3> QED BY <3>1, <3>2
  <2> QED BY <2>1, <1>1, <1>2, <1>3
<1>5. ASSUME t - OffsetAt(t) >= d * DayTicks PROVE DateOf(t) >= d
  <2>1. ASSUME DateOf(t) < d PROVE FALSE
    <3>1. d * DayTicks >= DateOf(t) * DayTicks + DayTicks
      BY <2>1, <1>2, DaysApart
    <3> QED BY <3>1, <1>1, <1>2, <1>3, <1>5
  <2> QED BY <2>1, <1>2
<1> QED BY <1>4, <1>5

\* nyMidnightMs finds the first moment of a date on every day, that of a turn
\* included: the moments from it on are those that have reached the date.
LEMMA MidnightOpensDate ==
  ASSUME NEW d \in Int
  PROVE  /\ MidnightByDate(d) \in Int
         /\ \A t \in Int : t >= MidnightByDate(d) <=> DateOf(t) >= d
<1> DEFINE base == d * DayTicks
           summer == base + Summer
           winter == base + Winter
<1>1. /\ DayTicks \in Nat /\ DayTicks > 4 /\ TurnDay \in Int /\ base \in Int
      /\ summer = base + 1 /\ winter = base + 2
  BY ClockAssumption DEF Summer, Winter
<1>2. MidnightByDate(d) = CASE DateOf(summer) = d -> summer
                            [] DateOf(summer) # d /\ DateOf(winter) = d -> winter
                            [] OTHER -> base
  BY DEF MidnightByDate
<1>3. \A t \in Int : DateOf(t) >= d <=> t - OffsetAt(t) >= base
  BY DateReached
<1>4. \A t \in Int : DateOf(t) >= d + 1 <=> t - OffsetAt(t) >= base + DayTicks
  <2>1. (d + 1) * DayTicks = base + DayTicks
    BY <1>1
  <2> QED BY <2>1, DateReached
<1>5. \A t \in Int : OffsetAt(t) \in {1, 2} /\ DateOf(t) \in Int
  BY OffsetRange, DateBounds
<1>6. ~ (OffsetAt(base + 1) = 2 /\ OffsetAt(base + 2) = 1)
  <2> SUFFICES ASSUME OffsetAt(base + 1) = 2, OffsetAt(base + 2) = 1 PROVE FALSE
    OBVIOUS
  <2>1. TurnDay * DayTicks \in Int
    BY <1>1
  <2>2. TurnAt \in Int /\ OffsetBefore \in {1, 2}
    BY <2>1 DEF TurnAt, OffsetBefore, Summer, Winter
  <2> HIDE DEF base
  <2>3. base + 2 = TurnAt /\ OffsetBefore = 2
    <3>1. base + 1 < TurnAt \/ ~(base + 2 < TurnAt)
      BY <1>1, <2>2
    <3>2. base + 2 < TurnAt => base + 1 < TurnAt
      BY <1>1, <2>2
    <3>3. base + 1 < TurnAt /\ ~(base + 2 < TurnAt) /\ OffsetBefore = 2
      BY <3>1, <3>2 DEF OffsetAt
    <3> QED BY <3>3, <1>1, <2>2
  <2>4. base = TurnDay * DayTicks + 2
    BY <2>1, <2>3, <1>1 DEF TurnAt
  <2>5. CASE d <= TurnDay
    <3>1. base <= TurnDay * DayTicks
      <4>1. CASE d = TurnDay
        BY <4>1, <2>1 DEF base
      <4>2. CASE d # TurnDay
        <5>1. d < TurnDay
          BY <4>2, <2>5, <1>1
        <5>2. TurnDay * DayTicks >= base + DayTicks
          BY <5>1, <1>1, DaysApart DEF base
        <5> QED BY <5>2, <1>1, <2>1
      <4> QED BY <4>1, <4>2
    <3> QED BY <3>1, <2>4, <2>1
  <2>6. CASE TurnDay < d
    <3>1. base >= TurnDay * DayTicks + DayTicks
      BY <2>6, <1>1, DaysApart DEF base
    <3> QED BY <3>1, <2>4, <2>1, <1>1
  <2> QED BY <2>5, <2>6, <1>1
<1> HIDE DEF base
<1>7. CASE OffsetAt(base + 1) = 1
  <2>1. DateOf(summer) = d
    <3>1. DateOf(summer) >= d /\ ~(DateOf(summer) >= d + 1)
      BY <1>1, <1>3, <1>4, <1>7
    <3> QED BY <3>1, <1>1, <1>5
  <2>2. MidnightByDate(d) = base + 1
    BY <2>1, <1>1, <1>2
  <2>3. ASSUME NEW t \in Int PROVE t >= base + 1 <=> t - OffsetAt(t) >= base
    <3>1. OffsetAt(t) \in {1, 2}
      BY <1>5
    <3>2. CASE t = base + 1
      BY <3>2, <1>7, <1>1
    <3>3. CASE t # base + 1
      BY <3>1, <3>3, <1>1
    <3> QED BY <3>2, <3>3
  <2> QED BY <2>2, <2>3, <1>1, <1>3
<1>8. CASE OffsetAt(base + 1) # 1
  <2>1. OffsetAt(base + 1) = 2 /\ OffsetAt(base + 2) = 2
    BY <1>1, <1>5, <1>6, <1>8
  <2>2. DateOf(summer) # d
    <3>1. ~(DateOf(summer) >= d)
      BY <1>1, <1>3, <2>1
    <3> QED BY <3>1, <1>1, <1>5
  <2>3. DateOf(winter) = d
    <3>1. DateOf(winter) >= d /\ ~(DateOf(winter) >= d + 1)
      BY <1>1, <1>3, <1>4, <2>1
    <3> QED BY <3>1, <1>1, <1>5
  <2>4. MidnightByDate(d) = base + 2
    BY <2>2, <2>3, <1>1, <1>2
  <2>5. ASSUME NEW t \in Int PROVE t >= base + 2 <=> t - OffsetAt(t) >= base
    <3>1. OffsetAt(t) \in {1, 2}
      BY <1>5
    <3>2. CASE t = base + 1
      BY <3>2, <2>1, <1>1
    <3>3. CASE t # base + 1
      BY <3>1, <3>3, <1>1
    <3> QED BY <3>2, <3>3
  <2> QED BY <2>4, <2>5, <1>1, <1>3
<1> QED BY <1>7, <1>8

LEMMA DayOfMoment ==
  ASSUME NEW t \in Int, NEW d \in Int
  PROVE  DateOf(t) = d <=> t >= MidnightByDate(d) /\ t < DayEnd(d)
<1>1. /\ MidnightByDate(d) \in Int /\ MidnightByDate(d + 1) \in Int
      /\ t >= MidnightByDate(d) <=> DateOf(t) >= d
      /\ t >= MidnightByDate(d + 1) <=> DateOf(t) >= d + 1
  BY MidnightOpensDate
<1>2. DateOf(t) \in Int
  BY DateBounds
<1> QED BY <1>1, <1>2 DEF DayEnd

LEMMA DatesGrow == ASSUME NEW t \in Int PROVE DateOf(t + 1) >= DateOf(t)
<1>1. DateOf(t) \in Int /\ DateOf(t) >= DateOf(t)
  BY DateBounds
<1>2. MidnightByDate(DateOf(t)) \in Int /\ t >= MidnightByDate(DateOf(t))
  BY <1>1, MidnightOpensDate
<1>3. t + 1 \in Int /\ t + 1 >= MidnightByDate(DateOf(t))
  BY <1>2
<1> QED BY <1>1, <1>3, MidnightOpensDate

LEMMA DatesOfClock ==
  ASSUME NEW t \in Winter..EndOfTime PROVE DateOf(t) \in Date
<1> DEFINE d == DateOf(t)
           last == EndOfTime \div DayTicks
<1>1. DayTicks \in Nat \ {0} /\ EndOfTime \in Nat /\ t \in Nat /\ t >= 2 /\ t <= EndOfTime
      /\ OffsetAt(t) \in {1, 2}
  BY ClockAssumption, OffsetRange DEF Winter
<1>2. d \in Int /\ d * DayTicks \in Int /\ t >= d * DayTicks + OffsetAt(t)
      /\ t < d * DayTicks + OffsetAt(t) + DayTicks
  BY DateBounds, <1>1
<1>3. d >= 0
  <2>1. 0 * DayTicks = 0 /\ t - OffsetAt(t) >= 0
    BY <1>1
  <2> QED BY <2>1, <1>1, DateReached
<1>4. last \in Int /\ EndOfTime % DayTicks \in 0..DayTicks-1
      /\ EndOfTime = DayTicks * last + (EndOfTime % DayTicks)
  BY <1>1, Division
<1> HIDE DEF d, last
<1>5. last * DayTicks = DayTicks * last /\ last * DayTicks \in Int
  BY <1>1, <1>4
<1>6. ASSUME last < d PROVE FALSE
  <2>1. d * DayTicks >= last * DayTicks + DayTicks
    BY <1>6, <1>2, <1>4, DaysApart
  <2> QED BY <2>1, <1>1, <1>2, <1>4, <1>5
<1>7. d <= last
  BY <1>2, <1>4, <1>6
<1> QED BY <1>2, <1>3, <1>4, <1>7 DEF Date, d, last

\* A finite set of integers has a greatest member.
LEMMA NewestIsThere ==
  ASSUME NEW D \in SUBSET Int, IsFiniteSet(D), D # {}
  PROVE  Newest(D) \in D /\ \A e \in D : e <= Newest(D)
<1> DEFINE Above(d) == {e \in D : e >= d}
           T == {Above(d) : d \in D}
<1>1. T \in SUBSET SUBSET D /\ T # {}
  OBVIOUS
<1>2. PICK A \in T : \A B \in SUBSET A : B # A => B \notin T
  <2> HIDE DEF T
  <2> QED BY <1>1, SmallestSubset
<1>3. PICK d \in D : A = Above(d)
  OBVIOUS
<1>4. ASSUME NEW e \in D, ~(e <= d) PROVE FALSE
  <2>1. d \in Int /\ e \in Int /\ d < e
    BY <1>3, <1>4
  <2>2. \A x \in D : x >= e => x >= d
    BY <2>1
  <2>3. Above(e) \in SUBSET A /\ d \in A /\ d \notin Above(e)
    <3>1. Above(e) \in SUBSET A
      BY <1>3, <2>2
    <3>2. d >= d /\ ~(d >= e)
      BY <2>1
    <3> QED BY <1>3, <3>1, <3>2
  <2> QED BY <2>3, <1>2, <1>4
<1>5. \A e \in D : e <= d
  BY <1>4
<1> QED BY <1>5 DEF Newest

LEMMA ProfitIsSum == ASSUME NEW S PROVE Profit(S) = SumOf(PnlOf, S)
BY DEF Profit, SumFunctionOnSet, FoldFunctionOnSet, SumOf, MapThenSumSet, MapThenFoldSet

LEMMA ProfitAdds ==
  /\ Profit({}) = 0
  /\ \A A \in SUBSET Lot : Profit(A) \in Int /\ IsFiniteSet(A)
  /\ \A A, B \in SUBSET Lot : A \cap B = {} => Profit(A \cup B) = Profit(A) + Profit(B)
<1>1. IsFiniteSet(Lot) /\ \A l \in Lot : PnlOf[l] \in Int
  BY CurveAssumption
<1>2. ASSUME NEW A \in SUBSET Lot PROVE Profit(A) \in Int /\ IsFiniteSet(A)
  <2>1. IsFiniteSet(A) /\ \A l \in A : PnlOf[l] \in Int
    BY <1>1, FS_Subset
  <2> QED BY <2>1, SumOfInt, ProfitIsSum
<1>3. ASSUME NEW A \in SUBSET Lot, NEW B \in SUBSET Lot, A \cap B = {}
      PROVE  Profit(A \cup B) = Profit(A) + Profit(B)
  BY <1>1, <1>3, SumOfDisjoint, ProfitIsSum
<1> QED BY <1>2, <1>3, ProfitIsSum, SumOfEmpty

\* the stored lots of a day
SoldOn(d) == {l \in stored : DateOf(exit[l]) = d}

LotsKept ==
  /\ now \in Winter..EndOfTime
  /\ exit \in [Lot -> Int]
  /\ stored \subseteq Lot /\ \A l \in stored : exit[l] # Open

\* No row is newer than the day under way, and the sweep is about no older
\* day than any row, so nothing is ever written below a row.
SweepSound ==
  /\ sweep \in [step : {"idle", "grade", "write"}, date : Int, lots : SUBSET Lot, seen : SUBSET Lot]
  /\ sweep.step = "write" => sweep.lots = sweep.seen /\ sweep.lots \subseteq SoldOn(sweep.date)
  /\ sweep.step # "idle" => /\ sweep.date \in Date /\ sweep.date <= DateOf(now)
                            /\ \A d \in Dates : d <= sweep.date

RowsSound ==
  /\ dayRow \in [Date -> [pnl : Int, trades : Int, cumulative : Int, nav : Int]]
  /\ counted \in [Date -> SUBSET Lot]
  /\ \A d \in Date : /\ counted[d] \subseteq SoldOn(d)
                     /\ d \notin Dates => counted[d] = {}
                     /\ d \in Dates => d <= DateOf(now)

CurveInv == LotsKept /\ SweepSound /\ RowsSound /\ CurveAddsUp

LEMMA CurveInvInit ==
  (\E start \in Winter..EndOfTime : ClockInit(start)) /\ CurveInit => CurveInv
<1> SUFFICES ASSUME NEW start \in Winter..EndOfTime, ClockInit(start), CurveInit PROVE CurveInv
  OBVIOUS
<1>1. LotsKept
  BY DEF ClockInit, CurveInit, LotsKept, Open
<1>2. Dates = {}
  BY DEF CurveInit, Dates
<1>3. SweepSound
  BY DEF CurveInit, SweepSound, Idle
<1>4. RowsSound
  BY <1>2 DEF CurveInit, RowsSound, NoRow
<1> QED BY <1>1, <1>2, <1>3, <1>4 DEF CurveInv, CurveAddsUp

\* What the rows say stays as it is while none is written.
LEMMA RowsStay ==
  ASSUME CurveInv, turn' = turn, UNCHANGED <<dayRow, counted>>,
         now' \in Winter..EndOfTime, now' \in {now, now + 1},
         exit' \in [Lot -> Int], stored \subseteq stored', stored' \subseteq Lot,
         \A l \in stored : exit'[l] = exit[l], \A l \in stored' : exit'[l] # Open
  PROVE  /\ LotsKept' /\ RowsSound' /\ CurveAddsUp'
         /\ Dates' = Dates /\ DateOf(now)' >= DateOf(now) /\ DateOf(now) \in Int
         /\ DateOf(now)' \in Int
         /\ \A d : SoldOn(d) \subseteq SoldOn(d)'
<1>1. \A t : DateOf(t)' = DateOf(t)
  BY DEF DateOf, OffsetAt, OffsetBefore, OffsetAfter, TurnAt
<1>2. LotsKept'
  BY DEF LotsKept
<1>3. DateOf(now)' = DateOf(now')
  BY DEF DateOf, OffsetAt, OffsetBefore, OffsetAfter, TurnAt
<1>4. now \in Int /\ DateOf(now) \in Int /\ DateOf(now') \in Int /\ DateOf(now') >= DateOf(now)
  <2>1. now \in Int
    BY DEF CurveInv, LotsKept, Winter
  <2>2. DateOf(now) \in Int /\ DateOf(now + 1) \in Int /\ DateOf(now + 1) >= DateOf(now)
    BY <2>1, DateBounds, DatesGrow
  <2> QED BY <2>1, <2>2
<1>5. Dates' = Dates
  BY DEF Dates
<1>6. ASSUME NEW d PROVE SoldOn(d) \subseteq SoldOn(d)'
  <2>1. ASSUME NEW l \in stored PROVE DateOf(exit[l])' = DateOf(exit[l])
    <3>1. exit'[l] = exit[l]
      OBVIOUS
    <3> QED BY <3>1 DEF DateOf, OffsetAt, OffsetBefore, OffsetAfter, TurnAt
  <2> QED BY <2>1 DEF SoldOn
<1>7. RowsSound'
  <2>1. \A d \in Date : d \in Dates => d <= DateOf(now)'
    <3>1. \A d \in Date : d \in Int
      BY DEF Date
    <3> QED BY <1>3, <1>4, <3>1 DEF CurveInv, RowsSound
  <2> QED BY <1>5, <1>6, <2>1 DEF CurveInv, RowsSound
<1>8. CurveAddsUp'
  BY <1>5 DEF CurveInv, CurveAddsUp, Profit
<1> QED BY <1>2, <1>3, <1>4, <1>5, <1>6, <1>7, <1>8

\* What a row is built on counts every lot of the days before it.
Below(d) == UNION {counted[e] : e \in {c \in Date : c < d}}

LEMMA BaseIsProfitBelow ==
  ASSUME CurveInv, NEW date \in Date
  PROVE  Base(date) = Profit(Below(date))
<1> DEFINE before == {d \in Dates : d < date}
<1>1. IsFiniteSet(before) /\ before \subseteq Int
  <2>1. EndOfTime \div DayTicks \in Int
    BY ClockAssumption, Division
  <2>2. IsFiniteSet(Date) /\ Date \subseteq Int
    BY <2>1, FS_Interval DEF Date
  <2>3. before \subseteq Date
    BY DEF Dates
  <2> QED BY <2>2, <2>3, FS_Subset
<1>2. \A c \in Date : c \notin Dates => counted[c] = {}
  BY DEF CurveInv, RowsSound
<1>3. CASE before = {}
  <2>1. \A c \in Date : c < date => counted[c] = {}
    BY <1>2, <1>3
  <2>2. Below(date) = {}
    BY <2>1 DEF Below
  <2> QED BY <1>3, <2>2, ProfitAdds DEF Base
<1>4. CASE before # {}
  <2> DEFINE m == Newest(before)
  <2>1. m \in before /\ \A e \in before : e <= m
    BY <1>1, <1>4, NewestIsThere
  <2>2. Base(date) = dayRow[m].cumulative
    BY <1>4 DEF Base
  <2> HIDE DEF m
  <2>3. dayRow[m].cumulative = Profit(UNION {counted[e] : e \in {c \in Date : c <= m}})
    BY <2>1 DEF CurveInv, CurveAddsUp
  <2>4. ASSUME NEW c \in Date, c < date, ~(c <= m) PROVE counted[c] = {}
    BY <1>2, <2>1, <2>4
  <2>5. ASSUME NEW c \in Date, c <= m PROVE c < date
    <3>1. c \in Int /\ m \in Int /\ date \in Int /\ m < date
      BY <2>1, <1>1 DEF Date
    <3> QED BY <3>1, <2>5
  <2>6. UNION {counted[e] : e \in {c \in Date : c <= m}} = Below(date)
    BY <2>4, <2>5 DEF Below
  <2> QED BY <2>2, <2>3, <2>6
<1> QED BY <1>3, <1>4

LEMMA WriteKeepsBooks ==
  ASSUME CurveInv, NEW answered \in BOOLEAN, WriteRow(answered)
  PROVE  CurveInv'
<1> DEFINE date == sweep.date
           lots == sweep.lots
           nav == IF answered /\ navDate = date THEN Account ELSE Carried(date)
           row == [pnl |-> Profit(lots), trades |-> Cardinality(lots),
                   cumulative |-> Base(date) + Profit(lots), nav |-> nav]
<1>1. /\ sweep.step = "write" /\ date \in Date /\ date <= DateOf(now)
      /\ lots \subseteq SoldOn(date) /\ lots = sweep.seen
      /\ \A d \in Dates : d <= date
  BY DEF WriteRow, CurveInv, SweepSound
<1>2. /\ dayRow' = [dayRow EXCEPT ![date] = row]
      /\ counted' = [counted EXCEPT ![date] = lots]
      /\ sweep' = Idle /\ UNCHANGED <<now, turn, exit, stored>>
  BY <1>1 DEF WriteRow
<1>3. lots \subseteq Lot /\ Below(date) \subseteq Lot /\ lots \cap Below(date) = {}
  <2>1. SoldOn(date) \subseteq Lot
    BY DEF SoldOn, CurveInv, LotsKept
  <2>2. ASSUME NEW c \in Date, c < date PROVE counted[c] \subseteq Lot /\ counted[c] \cap lots = {}
    <3>1. counted[c] \subseteq SoldOn(c) /\ counted[c] \subseteq Lot
      BY DEF CurveInv, RowsSound
    <3>2. c # date
      BY <2>2, <1>1 DEF Date
    <3>3. SoldOn(c) \cap SoldOn(date) = {}
      BY <3>2 DEF SoldOn
    <3> QED BY <1>1, <3>1, <3>3
  <2> QED BY <1>1, <2>1, <2>2 DEF Below
<1>4. /\ Profit(lots) \in Int /\ Profit(Below(date)) \in Int /\ Cardinality(lots) \in Nat
      /\ Profit(Below(date) \cup lots) = Profit(Below(date)) + Profit(lots)
  BY <1>3, ProfitAdds, FS_CardinalityType
<1>5. Base(date) = Profit(Below(date))
  BY <1>1, BaseIsProfitBelow
<1>6. nav \in Int
  BY CurveAssumption DEF Carried
<1> HIDE DEF nav
<1>7. row \in [pnl : Int, trades : Int, cumulative : Int, nav : Int]
  <2>1. Base(date) + Profit(lots) \in Int
    BY <1>4, <1>5
  <2> QED BY <1>4, <1>6, <2>1
<1>8. row.pnl = Profit(lots) /\ row.cumulative = Profit(Below(date) \cup lots) /\ row # NoRow
  <2>1. row.trades # NoRow.trades
    BY <1>4 DEF NoRow
  <2> QED BY <1>4, <1>5, <2>1
<1> HIDE DEF row, lots, date
<1>9. /\ dayRow'[date] = row /\ counted'[date] = lots
      /\ \A d \in Date : d # date => dayRow'[d] = dayRow[d] /\ counted'[d] = counted[d]
  BY <1>1, <1>2 DEF CurveInv, RowsSound
<1>10. Dates' = Dates \cup {date}
  BY <1>1, <1>8, <1>9 DEF Dates
<1>11. LotsKept' /\ SweepSound'
  BY <1>2 DEF CurveInv, LotsKept, SweepSound, Idle
<1>12. DateOf(now)' = DateOf(now) /\ \A d : SoldOn(d)' = SoldOn(d)
  <2>1. \A t : DateOf(t)' = DateOf(t)
    BY <1>2 DEF DateOf, OffsetAt, OffsetBefore, OffsetAfter, TurnAt
  <2>2. DateOf(now)' = DateOf(now)
    BY <1>2 DEF DateOf, OffsetAt, OffsetBefore, OffsetAfter, TurnAt
  <2>3. ASSUME NEW l PROVE DateOf(exit[l])' = DateOf(exit[l])
    BY <1>2 DEF DateOf, OffsetAt, OffsetBefore, OffsetAfter, TurnAt
  <2> QED BY <1>2, <2>2, <2>3 DEF SoldOn
<1>13. RowsSound'
  <2>1. dayRow' \in [Date -> [pnl : Int, trades : Int, cumulative : Int, nav : Int]]
        /\ counted' \in [Date -> SUBSET Lot]
    BY <1>1, <1>2, <1>3, <1>7 DEF CurveInv, RowsSound
  <2>2. ASSUME NEW d \in Date
        PROVE  /\ counted'[d] \subseteq SoldOn(d)
               /\ d \notin Dates' => counted'[d] = {}
               /\ d \in Dates' => d <= DateOf(now)
    <3>1. CASE d = date
      BY <3>1, <1>1, <1>9, <1>10
    <3>2. CASE d # date
      BY <3>2, <1>9, <1>10 DEF CurveInv, RowsSound
    <3> QED BY <3>1, <3>2
  <2> QED BY <2>1, <2>2, <1>12 DEF RowsSound
<1>14. CurveAddsUp'
  <2> DEFINE UpTo(d) == UNION {counted[e] : e \in {c \in Date : c <= d}}
             UpToNext(d) == UNION {counted'[e] : e \in {c \in Date : c <= d}}
  <2>1. UpToNext(date) = Below(date) \cup lots
    <3>1. ASSUME NEW c \in Date PROVE c <= date <=> c < date \/ c = date
      BY <1>1 DEF Date
    <3>2. \A c \in Date : c < date => c # date
      BY <1>1 DEF Date
    <3> QED BY <3>1, <3>2, <1>1, <1>9 DEF Below
  <2>2. ASSUME NEW d \in Dates, d # date PROVE UpToNext(d) = UpTo(d) /\ dayRow'[d] = dayRow[d]
    <3>1. d < date /\ d \in Date
      BY <1>1, <2>2 DEF Dates, Date
    <3>2. ASSUME NEW c \in Date, c <= d PROVE c # date
      BY <3>1, <3>2, <1>1 DEF Date
    <3>3. ASSUME NEW c \in Date, c <= d PROVE counted'[c] = counted[c]
      BY <3>2, <3>3, <1>9
    <3>4. UpToNext(d) = UpTo(d)
      BY <3>3
    <3> QED BY <3>1, <3>4, <2>2, <1>9
  <2>3. ASSUME NEW d \in Dates'
        PROVE  dayRow'[d].pnl = Profit(counted'[d]) /\ dayRow'[d].cumulative = Profit(UpToNext(d))
    <3>1. CASE d = date
      BY <3>1, <2>1, <1>8, <1>9
    <3>2. CASE d # date
      <4>1. d \in Dates /\ d \in Date
        BY <3>2, <1>10 DEF Dates
      <4>2. dayRow[d].pnl = Profit(counted[d]) /\ dayRow[d].cumulative = Profit(UpTo(d))
        BY <4>1 DEF CurveInv, CurveAddsUp
      <4> QED BY <3>2, <4>1, <4>2, <2>2, <1>9
    <3> QED BY <3>1, <3>2
  <2> QED BY <2>3 DEF CurveAddsUp, Profit
<1> QED BY <1>11, <1>13, <1>14 DEF CurveInv

LEMMA CurveInvNext == CurveInv /\ [CurveNext]_curveVars => CurveInv'
<1> SUFFICES ASSUME CurveInv, [CurveNext]_curveVars PROVE CurveInv'
  OBVIOUS
<1>1. LotsKept /\ SweepSound /\ RowsSound
  BY DEF CurveInv
<1>2. now \in Int /\ now \in Nat /\ exit \in [Lot -> Int] /\ now # Open
      /\ DateOf(now) \in Int /\ DateOf(now) \in Date
  <2>1. now \in Winter..EndOfTime /\ now \in Nat
    BY <1>1, ClockAssumption DEF LotsKept, Winter
  <2> QED BY <1>1, <2>1, DateBounds, DatesOfClock DEF LotsKept, Open
<1>3. ASSUME turn' = turn, UNCHANGED <<dayRow, counted, sweep>>,
             now' \in Winter..EndOfTime, now' \in {now, now + 1},
             exit' \in [Lot -> Int], stored \subseteq stored', stored' \subseteq Lot,
             \A l \in stored : exit'[l] = exit[l], \A l \in stored' : exit'[l] # Open
      PROVE  CurveInv'
  <2>1. /\ LotsKept' /\ RowsSound' /\ CurveAddsUp'
        /\ Dates' = Dates /\ DateOf(now)' >= DateOf(now)
        /\ DateOf(now)' \in Int /\ \A d : SoldOn(d) \subseteq SoldOn(d)'
    BY <1>3, RowsStay
  <2>2. sweep.date <= DateOf(now) => sweep.date <= DateOf(now)'
    BY <2>1, <1>1, <1>2 DEF SweepSound
  <2>3. SweepSound'
    BY <1>1, <1>3, <2>1, <2>2 DEF SweepSound
  <2> QED BY <2>1, <2>3 DEF CurveInv
<1>4. ASSUME UNCHANGED <<now, turn, exit, stored, dayRow, counted>>
      PROVE  LotsKept' /\ RowsSound' /\ CurveAddsUp' /\ Dates' = Dates
             /\ DateOf(now)' = DateOf(now) /\ \A d : SoldOn(d)' = SoldOn(d)
  <2>1. LotsKept' /\ RowsSound' /\ CurveAddsUp' /\ Dates' = Dates
    BY <1>1, <1>4, RowsStay DEF LotsKept
  <2>2. DateOf(now)' = DateOf(now)
    BY <1>4 DEF DateOf, OffsetAt, OffsetBefore, OffsetAfter, TurnAt
  <2>3. ASSUME NEW l PROVE DateOf(exit[l])' = DateOf(exit[l])
    BY <1>4 DEF DateOf, OffsetAt, OffsetBefore, OffsetAfter, TurnAt
  <2> QED BY <1>4, <2>1, <2>2, <2>3 DEF SoldOn
<1>5. ASSUME NEW l \in Lot, Sale(l) PROVE CurveInv'
  <2>1. exit' = [exit EXCEPT ![l] = now] /\ UNCHANGED <<now, turn, stored, sweep, dayRow, counted>>
        /\ l \notin stored
    BY <1>5, <1>1 DEF Sale, bookVars, LotsKept
  <2> QED BY <1>1, <1>2, <1>3, <2>1 DEF LotsKept
<1>6. ASSUME NEW l \in Lot, Store(l) PROVE CurveInv'
  <2>1. stored' = stored \cup {l} /\ UNCHANGED <<now, turn, exit, sweep, dayRow, counted>>
        /\ exit[l] # Open
    BY <1>6 DEF Store, bookVars
  <2> QED BY <1>1, <1>2, <1>3, <2>1 DEF LotsKept
<1>7. ASSUME EngineSnapshots \/ (\E d \in Decision : Grade(d)) \/ UNCHANGED curveVars PROVE CurveInv'
  <2>1. UNCHANGED <<now, turn, exit, stored, sweep, dayRow, counted>>
    BY <1>7 DEF EngineSnapshots, Grade, bookVars, curveVars, curveOnlyVars
  <2> QED BY <1>1, <1>3, <2>1 DEF LotsKept
<1>8. CASE TimePasses /\ UNCHANGED <<turn, curveOnlyVars>>
  <2>1. UNCHANGED <<turn, exit, stored, sweep, dayRow, counted>> /\ now < EndOfTime /\ now' = now + 1
    BY <1>8 DEF TimePasses, curveOnlyVars
  <2>2. now' \in Winter..EndOfTime
    BY <1>1, <2>1, ClockAssumption DEF LotsKept, Winter
  <2> QED BY <1>1, <1>3, <2>1, <2>2 DEF LotsKept
<1>9. CASE SweepStarts
  <2>1. /\ sweep' = [step |-> "grade", date |-> DateOf(now), lots |-> {}, seen |-> {}]
        /\ UNCHANGED <<now, turn, exit, stored, dayRow, counted>>
    BY <1>9 DEF SweepStarts, bookVars
  <2>2. \A d \in Dates : d <= DateOf(now)
    BY <1>1 DEF RowsSound, Dates
  <2>3. SweepSound'
    BY <1>2, <1>4, <2>1, <2>2 DEF SweepSound
  <2> QED BY <1>4, <2>1, <2>3 DEF CurveInv
<1>10. CASE SumDay
  <2> DEFINE seen == {l \in stored : DateOf(exit[l]) = sweep.date}
  <2>1. /\ sweep.step = "grade"
        /\ sweep' = [sweep EXCEPT !.step = "write", !.lots = ExitedOn(sweep.date), !.seen = seen]
        /\ UNCHANGED <<now, turn, exit, stored, dayRow, counted>>
    BY <1>10 DEF SumDay, bookVars
  <2>2. ExitedOn(sweep.date) = seen
    <3>1. ASSUME NEW l \in stored
          PROVE  DateOf(exit[l]) = sweep.date <=>
                   exit[l] >= MidnightByDate(sweep.date) /\ exit[l] < DayEnd(sweep.date)
      <4>1. exit[l] \in Int /\ sweep.date \in Int
        BY <1>1 DEF LotsKept, SweepSound
      <4> QED BY <4>1, DayOfMoment
    <3> QED BY <3>1 DEF ExitedOn
  <2>3. seen = SoldOn(sweep.date) /\ seen \subseteq Lot
    BY <1>1 DEF SoldOn, LotsKept
  <2> HIDE DEF seen
  <2>4. /\ sweep' \in [step : {"idle", "grade", "write"}, date : Int, lots : SUBSET Lot, seen : SUBSET Lot]
        /\ sweep'.step = "write" /\ sweep'.date = sweep.date
        /\ sweep'.lots = seen /\ sweep'.seen = seen
    BY <1>1, <2>1, <2>2, <2>3 DEF SweepSound
  <2>5. SweepSound'
    BY <1>1, <1>4, <2>1, <2>3, <2>4 DEF SweepSound
  <2> QED BY <1>4, <2>1, <2>5 DEF CurveInv
<1>11. CASE CutOff
  <2>1. sweep' = Idle /\ UNCHANGED <<now, turn, exit, stored, dayRow, counted>>
    BY <1>11 DEF CutOff, bookVars
  <2>2. SweepSound'
    BY <2>1 DEF SweepSound, Idle
  <2> QED BY <1>4, <2>1, <2>2 DEF CurveInv
<1> QED BY <1>5, <1>6, <1>7, <1>8, <1>9, <1>10, <1>11, WriteKeepsBooks DEF CurveNext

\* The equity curve adds up from whatever moment on, at every midnight and
\* either turn, for any lots, profits and faults (property CurveAddsUp).
THEOREM BooksAddUp == CurveSpec => []CurveAddsUp
<1>1. CurveInv => CurveAddsUp
  BY DEF CurveInv
<1> QED BY <1>1, CurveInvInit, CurveInvNext, PTL DEF CurveSpec

-----------------------------------------------------------------------------
(* The record of a strategy.                                               *)

RunRecord == [sum : Int, peak : Int, fall : Int]

\* Points and runs of the curve of some profits.
IsPoints(pnls, n, sum) ==
  sum = [i \in 0..n |-> IF i = 0 THEN 0 ELSE sum[i - 1] + pnls[i]]
IsRun(pnls, n, run) ==
  run = [i \in 0..n |-> IF i = 0 THEN [sum |-> 0, peak |-> 0, fall |-> 0]
                        ELSE RunOn(run[i - 1], pnls[i])]

\* What a verdict does to the running sum, peak and fall.
LEMMA RunOnIs ==
  ASSUME NEW c \in RunRecord, NEW p \in Int, NEW d, d = RunOn(c, p)
  PROVE  /\ d \in RunRecord
         /\ d.sum = c.sum + p
         /\ d.peak = IF c.peak > d.sum THEN c.peak ELSE d.sum
         /\ d.fall = IF c.fall > d.peak - d.sum THEN c.fall ELSE d.peak - d.sum
<1>1. PICK s \in Int, t \in Int, f \in Int : s = c.sum /\ t = c.peak /\ f = c.fall
  BY DEF RunRecord
<1>2. PICK h \in Int : h = (IF t > s + p THEN t ELSE s + p)
  OBVIOUS
<1>5. PICK k \in Int : k = h - s - p /\ k = h - (s + p)
  OBVIOUS
<1>3. PICK g \in Int : g = IF f > k THEN f ELSE k
  OBVIOUS
<1>4. d = [sum |-> s + p, peak |-> h, fall |-> g]
  BY <1>1, <1>2, <1>3, <1>5 DEF RunOn, Higher
<1> QED BY <1>1, <1>2, <1>3, <1>4, <1>5 DEF RunRecord

\* Both have a value: the points and the run of the record.
LEMMA CurveExists ==
  ASSUME NEW pnls \in Seq(Int), NEW n \in Nat, n = Len(pnls)
  PROVE  /\ Points(pnls) \in [0..n -> Int] /\ IsPoints(pnls, n, Points(pnls))
         /\ \E run \in [0..n -> RunRecord] : IsRun(pnls, n, run) /\ Curve(pnls) = run[n]
<1>1. \A i \in 1..n : pnls[i] \in Int
  OBVIOUS
<1>2. Points(pnls) \in [0..n -> Int] /\ IsPoints(pnls, n, Points(pnls))
  <2>1. PICK add : add = [p \in Int \X (1..n) |-> p[1] + pnls[p[2]]]
    OBVIOUS
  <2>a. add \in [Int \X (1..n) -> Int]
    <3>1. ASSUME NEW p \in Int \X (1..n) PROVE p[1] + pnls[p[2]] \in Int
      <4>1. PICK a \in Int, b \in Int : a = p[1] /\ b = pnls[p[2]]
        BY <1>1
      <4>2. a + b \in Int
        OBVIOUS
      <4> QED BY <4>1, <4>2
    <3> QED BY <2>1, <3>1
  <2>2. 0 \in Int
    OBVIOUS
  <2>3. PICK sum \in [0..n -> Int] : IterationOf(n, 0, add, sum)
    BY <2>2, <2>a, IterationHas
  <2>4. ASSUME NEW i \in 0..n PROVE sum[i] = IF i = 0 THEN 0 ELSE sum[i - 1] + pnls[i]
    <3>1. sum[i] = IF i = 0 THEN 0 ELSE add[<<sum[i - 1], i>>]
      BY <2>3 DEF IterationOf
    <3>2. CASE i # 0
      <4>1. i \in 1..n /\ i - 1 \in 0..n
        BY <3>2
      <4>2. sum[i - 1] \in Int
        BY <4>1
      <4>3. add[<<sum[i - 1], i>>] = sum[i - 1] + pnls[i]
        BY <2>1, <4>1, <4>2
      <4> QED BY <3>1, <3>2, <4>3
    <3> QED BY <3>1, <3>2
  <2>5. sum = [i \in 0..n |-> sum[i]]
    OBVIOUS
  <2>6. IsPoints(pnls, n, sum)
    BY <2>4, <2>5 DEF IsPoints
  <2>7. PICK P : P = CHOOSE s : IsPoints(pnls, n, s)
    OBVIOUS
  <2>8. IsPoints(pnls, n, P) /\ P = Points(pnls)
    BY <2>6, <2>7 DEF Points, IsPoints
  <2>9. P \in [0..n -> Int]
    <3> DEFINE T == {i \in 0..n : P[i] \notin Int}
    <3>1. ASSUME T # {} PROVE FALSE
      <4>1. PICK i \in T : \A j \in T : i <= j
        <5>1. T \in SUBSET Nat
          OBVIOUS
        <5> HIDE DEF T
        <5> QED BY <3>1, <5>1, SmallestNat
      <4>2. i \in 0..n /\ P[i] \notin Int
        OBVIOUS
      <4>3. i # 0
        BY <2>8, <4>2 DEF IsPoints
      <4>4. i - 1 \in 0..n /\ ~(i <= i - 1) /\ i \in 1..n
        BY <4>2, <4>3
      <4>5. i - 1 \notin T
        <5> HIDE DEF T
        <5> QED BY <4>1, <4>4
      <4>6. P[i] = P[i - 1] + pnls[i]
        BY <2>8, <4>2, <4>3 DEF IsPoints
      <4> QED BY <1>1, <4>2, <4>4, <4>5, <4>6
    <3>2. P = [i \in 0..n |-> P[i]]
      BY <2>8 DEF IsPoints
    <3> QED BY <3>1, <3>2
  <2> QED BY <2>8, <2>9
<1>3. \E run \in [0..n -> RunRecord] : IsRun(pnls, n, run) /\ Curve(pnls) = run[n]
  <2>1. PICK first \in RunRecord : first = [sum |-> 0, peak |-> 0, fall |-> 0]
    <3>1. 0 \in Int
      OBVIOUS
    <3> QED BY <3>1, Zenon DEF RunRecord
  <2>2. PICK next : next = [p \in RunRecord \X (1..n) |-> RunOn(p[1], pnls[p[2]])]
    OBVIOUS
  <2>3. next \in [RunRecord \X (1..n) -> RunRecord]
    <3>1. ASSUME NEW p \in RunRecord \X (1..n) PROVE RunOn(p[1], pnls[p[2]]) \in RunRecord
      BY <1>1, RunOnIs
    <3> QED BY <2>2, <3>1
  <2>4. PICK run \in [0..n -> RunRecord] : IterationOf(n, first, next, run)
    BY <2>3, IterationHas
  <2>5. ASSUME NEW i \in 0..n PROVE run[i] = IF i = 0 THEN first ELSE RunOn(run[i - 1], pnls[i])
    <3>1. run[i] = IF i = 0 THEN first ELSE next[<<run[i - 1], i>>]
      BY <2>4 DEF IterationOf
    <3>2. CASE i # 0
      <4>1. i \in 1..n /\ i - 1 \in 0..n
        BY <3>2
      <4>2. run[i - 1] \in RunRecord
        BY <4>1
      <4>3. next[<<run[i - 1], i>>] = RunOn(run[i - 1], pnls[i])
        BY <2>2, <4>1, <4>2
      <4> QED BY <3>1, <3>2, <4>3
    <3> QED BY <3>1, <3>2
  <2>6. run = [i \in 0..n |-> run[i]]
    OBVIOUS
  <2>7. IsRun(pnls, n, run)
    BY <2>1, <2>5, <2>6 DEF IsRun
  <2>8. PICK R : R = CHOOSE s : IsRun(pnls, n, s)
    OBVIOUS
  <2>9. IsRun(pnls, n, R) /\ Curve(pnls) = R[n]
    BY <2>7, <2>8 DEF Curve, IsRun
  <2>10. R \in [0..n -> RunRecord]
    <3> DEFINE T == {i \in 0..n : R[i] \notin RunRecord}
    <3>1. ASSUME T # {} PROVE FALSE
      <4>1. PICK i \in T : \A j \in T : i <= j
        <5>1. T \in SUBSET Nat
          OBVIOUS
        <5> HIDE DEF T
        <5> QED BY <3>1, <5>1, SmallestNat
      <4>2. i \in 0..n /\ R[i] \notin RunRecord
        OBVIOUS
      <4>3. i # 0
        BY <2>1, <2>9, <4>2 DEF IsRun
      <4>4. i - 1 \in 0..n /\ ~(i <= i - 1) /\ i \in 1..n
        BY <4>2, <4>3
      <4>5. i - 1 \notin T
        <5> HIDE DEF T
        <5> QED BY <4>1, <4>4
      <4>6. R[i] = RunOn(R[i - 1], pnls[i]) /\ R[i - 1] \in RunRecord
        BY <2>9, <4>2, <4>3, <4>4, <4>5 DEF IsRun
      <4>7. R[i] \in RunRecord
        BY <1>1, <4>4, <4>6, RunOnIs
      <4> QED BY <4>2, <4>7
    <3>2. R = [i \in 0..n |-> R[i]]
      BY <2>9 DEF IsRun
    <3> QED BY <3>1, <3>2
  <2> QED BY <2>9, <2>10
<1> QED BY <1>2, <1>3

\* After i verdicts: the peak is the highest point, the fall the deepest so far.
IsHighest(P, i, peak) == (\E j \in 0..i : peak = P[j]) /\ (\A j \in 0..i : P[j] <= peak)
IsDeepest(P, i, fall) ==
  /\ \E j \in 0..i, k \in 0..i : j <= k /\ fall = P[j] - P[k]
  /\ \A j \in 0..i, k \in 0..i : j <= k => P[j] - P[k] <= fall
Exact(P, i, c) == c.sum = P[i] /\ IsHighest(P, i, c.peak) /\ IsDeepest(P, i, c.fall)

\* A verdict more keeps it.
LEMMA OneVerdictMore ==
  ASSUME NEW n \in Nat, NEW P \in [0..n -> Int], NEW i \in 1..n,
         NEW c \in RunRecord, Exact(P, i - 1, c), NEW p \in Int, P[i] = P[i - 1] + p,
         NEW d, d = RunOn(c, p)
  PROVE  Exact(P, i, d)
<1>1. d \in RunRecord /\ d.sum = c.sum + p
      /\ d.peak = (IF c.peak > d.sum THEN c.peak ELSE d.sum)
      /\ d.fall = (IF c.fall > d.peak - d.sum THEN c.fall ELSE d.peak - d.sum)
  BY RunOnIs
<1>2. PICK s \in Int, t \in Int, f \in Int : s = d.sum /\ t = d.peak /\ f = d.fall
  BY <1>1 DEF RunRecord
<1>3. PICK u \in Int, g \in Int : u = c.peak /\ g = c.fall
  BY DEF RunRecord
<1>4. s = P[i] /\ u <= t /\ s <= t /\ (t = u \/ t = s)
      /\ g <= f /\ t - s <= f /\ (f = g \/ f = t - s)
  <2>1. s = P[i]
    <3>1. c.sum = P[i - 1]
      BY DEF Exact
    <3> QED BY <1>1, <1>2, <3>1
  <2>2. t = (IF u > s THEN u ELSE s) /\ f = (IF g > t - s THEN g ELSE t - s)
    BY <1>1, <1>2, <1>3
  <2>3. u <= t /\ s <= t /\ (t = u \/ t = s)
    BY <2>2
  <2>4. t - s \in Int
    OBVIOUS
  <2>5. g <= f /\ t - s <= f /\ (f = g \/ f = t - s)
    BY <2>2, <2>4
  <2> QED BY <2>1, <2>3, <2>5
<1>5. \A j \in 0..i : P[j] \in Int /\ (j = i \/ j \in 0..i - 1)
  OBVIOUS
<1>6. IsHighest(P, i, t)
  <2>1. \A j \in 0..i : P[j] <= t
    <3>1. \A j \in 0..i - 1 : P[j] <= u
      BY <1>3 DEF Exact, IsHighest
    <3> QED BY <3>1, <1>4, <1>5
  <2>2. CASE t = u
    <3>1. PICK j \in 0..i - 1 : u = P[j]
      BY <1>3 DEF Exact, IsHighest
    <3>2. j \in 0..i
      OBVIOUS
    <3> QED BY <2>1, <2>2, <3>1, <3>2 DEF IsHighest
  <2>3. CASE t = s
    <3>1. i \in 0..i
      OBVIOUS
    <3> QED BY <2>1, <2>3, <3>1, <1>4 DEF IsHighest
  <2> QED BY <1>4, <2>2, <2>3
<1>7. IsDeepest(P, i, f)
  <2>1. ASSUME NEW j \in 0..i, NEW k \in 0..i, j <= k PROVE P[j] - P[k] <= f
    <3>1. CASE k = i
      <4>1. P[j] \in Int /\ P[j] <= t
        BY <1>5, <1>6 DEF IsHighest
      <4> QED BY <1>4, <3>1, <4>1
    <3>2. CASE k # i
      <4>1. j \in 0..i - 1 /\ k \in 0..i - 1
        BY <2>1, <3>2
      <4>2. P[j] - P[k] <= g
        BY <1>3, <2>1, <4>1 DEF Exact, IsDeepest
      <4>3. PICK q \in Int : q = P[j] - P[k]
        <5>1. P[j] \in Int /\ P[k] \in Int
          BY <1>5
        <5> QED BY <5>1
      <4>4. q <= g /\ g <= f
        BY <1>4, <4>2, <4>3
      <4>5. q <= f
        BY <4>4
      <4> QED BY <4>3, <4>5
    <3> QED BY <3>1, <3>2
  <2>2. \E j \in 0..i, k \in 0..i : j <= k /\ f = P[j] - P[k]
    <3>1. CASE f = g
      <4>1. PICK j \in 0..i - 1, k \in 0..i - 1 : j <= k /\ g = P[j] - P[k]
        BY <1>3 DEF Exact, IsDeepest
      <4>2. j \in 0..i /\ k \in 0..i
        OBVIOUS
      <4> QED BY <3>1, <4>1, <4>2
    <3>2. CASE f = t - s
      <4>1. PICK j \in 0..i : t = P[j]
        BY <1>6 DEF IsHighest
      <4>2. i \in 0..i /\ j <= i
        OBVIOUS
      <4> QED BY <1>4, <3>2, <4>1, <4>2
    <3> QED BY <1>4, <3>1, <3>2
  <2> QED BY <2>1, <2>2 DEF IsDeepest
<1> QED BY <1>2, <1>4, <1>6, <1>7 DEF Exact

\* The record's sum and drawdown for any profits.
LEMMA CurveIsExact ==
  ASSUME NEW pnls \in Seq(Int), NEW n \in Nat, n = Len(pnls)
  PROVE  /\ Curve(pnls).sum = Points(pnls)[n]
         /\ Curve(pnls).fall = WorstFall(pnls)
<1>1. PICK P \in [0..n -> Int] : P = Points(pnls) /\ IsPoints(pnls, n, P)
  BY CurveExists
<1>2. PICK R \in [0..n -> RunRecord] : IsRun(pnls, n, R) /\ Curve(pnls) = R[n]
  BY CurveExists
<1>3. \A i \in 1..n : pnls[i] \in Int
  OBVIOUS
<1> DEFINE T == {i \in 0..n : ~Exact(P, i, R[i])}
<1>4. ASSUME T # {} PROVE FALSE
  <2>1. PICK i \in T : \A j \in T : i <= j
    <3>1. T \in SUBSET Nat
      OBVIOUS
    <3> HIDE DEF T
    <3> QED BY <1>4, <3>1, SmallestNat
  <2>2. i \in 0..n /\ ~Exact(P, i, R[i])
    OBVIOUS
  <2>3. i # 0
    <3>1. P[0] = 0 /\ R[0] = [sum |-> 0, peak |-> 0, fall |-> 0]
      BY <1>1, <1>2 DEF IsPoints, IsRun
    <3>2. 0 \in 0..0 /\ \A j \in 0..0 : j = 0
      OBVIOUS
    <3>3. IsHighest(P, 0, 0) /\ IsDeepest(P, 0, 0)
      BY <3>1, <3>2 DEF IsHighest, IsDeepest
    <3>4. Exact(P, 0, R[0])
      BY <3>1, <3>3 DEF Exact
    <3> QED BY <2>2, <3>4
  <2>4. i \in 1..n /\ i - 1 \in 0..n /\ ~(i <= i - 1)
    BY <2>2, <2>3
  <2>5. i - 1 \notin T
    <3> HIDE DEF T
    <3> QED BY <2>1, <2>4
  <2>6. PICK c \in RunRecord : c = R[i - 1] /\ Exact(P, i - 1, c)
    BY <2>4, <2>5
  <2>7. P[i] = P[i - 1] + pnls[i] /\ R[i] = RunOn(c, pnls[i])
    BY <1>1, <1>2, <2>2, <2>3, <2>6 DEF IsPoints, IsRun
  <2>8. Exact(P, i, R[i])
    BY <1>3, <2>4, <2>6, <2>7, OneVerdictMore
  <2> QED BY <2>2, <2>8
<1>5. Exact(P, n, R[n])
  <2>1. n \in 0..n
    OBVIOUS
  <2>2. n \notin T
    BY <1>4
  <2> QED BY <2>1, <2>2
<1> HIDE DEF T
<1>6. PICK f : f = Curve(pnls).fall /\ f = R[n].fall
  BY <1>2
<1>7. PICK falls : falls = {P[x[1]] - P[x[2]] : x \in {y \in (0..n) \X (0..n) : y[1] <= y[2]}}
  OBVIOUS
<1>8. WorstFall(pnls) = CHOOSE g \in falls : \A h \in falls : h <= g
  BY <1>1, <1>7 DEF WorstFall
<1>9. f \in falls
  <2>1. PICK j \in 0..n, k \in 0..n : j <= k /\ f = P[j] - P[k]
    BY <1>5, <1>6 DEF Exact, IsDeepest
  <2>2. PICK x \in (0..n) \X (0..n) : x[1] = j /\ x[2] = k
    <3>1. <<j, k>> \in (0..n) \X (0..n) /\ <<j, k>>[1] = j /\ <<j, k>>[2] = k
      BY Zenon
    <3> QED BY <3>1, Zenon
  <2>3. x \in {y \in (0..n) \X (0..n) : y[1] <= y[2]} /\ f = P[x[1]] - P[x[2]]
    BY <2>1, <2>2
  <2> QED BY <1>7, <2>3
<1>10. \A h \in falls : h \in Int /\ h <= f
  <2>1. ASSUME NEW h \in falls PROVE h \in Int /\ h <= f
    <3>1. PICK j \in 0..n, k \in 0..n : j <= k /\ h = P[j] - P[k]
      BY <1>7
    <3> QED BY <1>5, <1>6, <3>1 DEF Exact, IsDeepest
  <2> QED BY <2>1
<1>11. WorstFall(pnls) = f
  <2>1. PICK g : g = WorstFall(pnls)
    OBVIOUS
  <2>2. g \in falls /\ \A h \in falls : h <= g
    BY <1>8, <1>9, <1>10, <2>1
  <2>3. g \in Int /\ f \in Int /\ g <= f /\ f <= g
    BY <1>9, <1>10, <2>2
  <2> QED BY <2>1, <2>3
<1> QED BY <1>1, <1>2, <1>5, <1>6, <1>11 DEF Exact

\* A verdict more adds its profit to the total.
Total(pnls) == Points(pnls)[Len(pnls)]

LEMMA TotalAppend ==
  ASSUME NEW pnls \in Seq(Int), NEW e \in Int
  PROVE  Total(Append(pnls, e)) = Total(pnls) + e /\ Total(pnls) \in Int
<1>1. PICK n \in Nat : n = Len(pnls)
  BY LenProperties
<1>2. PICK more \in Seq(Int) : more = Append(pnls, e)
  BY AppendProperties
<1>3. Len(more) = n + 1 /\ more[n + 1] = e /\ \A i \in 1..n : more[i] = pnls[i]
  BY <1>1, <1>2, AppendProperties
<1>4. PICK P \in [0..n -> Int] : P = Points(pnls) /\ IsPoints(pnls, n, P)
  BY <1>1, CurveExists
<1>5. PICK m \in Nat : m = n + 1
  OBVIOUS
<1>6. PICK Q \in [0..m -> Int] : Q = Points(more) /\ IsPoints(more, m, Q)
  BY <1>3, <1>5, CurveExists
<1> DEFINE T == {i \in 0..n : P[i] # Q[i]}
<1>7. ASSUME T # {} PROVE FALSE
  <2>1. PICK i \in T : \A j \in T : i <= j
    <3>1. T \in SUBSET Nat
      OBVIOUS
    <3> HIDE DEF T
    <3> QED BY <1>7, <3>1, SmallestNat
  <2>2. i \in 0..n /\ P[i] # Q[i] /\ i \in 0..m
    BY <1>5
  <2>3. i # 0
    BY <1>4, <1>6, <2>2 DEF IsPoints
  <2>4. i \in 1..n /\ i - 1 \in 0..n /\ ~(i <= i - 1)
    BY <2>2, <2>3
  <2>5. i - 1 \notin T
    <3> HIDE DEF T
    <3> QED BY <2>1, <2>4
  <2>6. P[i] = P[i - 1] + pnls[i] /\ Q[i] = Q[i - 1] + more[i]
    BY <1>4, <1>6, <2>2, <2>3 DEF IsPoints
  <2> QED BY <1>3, <2>2, <2>4, <2>5, <2>6
<1>8. P[n] = Q[n]
  <2>1. n \in 0..n
    OBVIOUS
  <2>2. n \notin T
    BY <1>7
  <2> QED BY <2>1, <2>2
<1> HIDE DEF T
<1>9. Q[m] = Q[n] + e
  <2>1. m \in 0..m /\ m # 0 /\ m - 1 = n /\ more[m] = e
    BY <1>3, <1>5
  <2> QED BY <1>6, <2>1 DEF IsPoints
<1> QED BY <1>1, <1>2, <1>3, <1>4, <1>5, <1>6, <1>8, <1>9 DEF Total

\* Decisions with lots have a last one.
LEMMA LastClosedIsIn ==
  ASSUME exit \in [Lot -> Int], NEW D \in SUBSET Decision, IsFiniteSet(D), D # {},
         \A d \in D : LotsOf(d) # {}
  PROVE  LastClosed(D) \in D
<1>1. ASSUME NEW d \in D PROVE ClosedAt(d) \in Int
  <2>1. PICK lots : lots = LotsOf(d) /\ lots \in SUBSET Lot /\ lots # {}
    BY DEF LotsOf
  <2>2. IsFiniteSet(lots) /\ \A l \in lots : exit[l] \in Int
    BY <2>1, CurveAssumption, FS_Subset
  <2>3. PICK l \in lots : \A k \in lots : exit[k] <= exit[l]
    BY <2>1, <2>2, GreatestOf
  <2>4. PICK T : T = {exit[k] : k \in lots}
    OBVIOUS
  <2>5. exit[l] \in T /\ T \subseteq Int /\ ClosedAt(d) = CHOOSE t \in T : \A k \in lots : exit[k] <= t
    BY <2>1, <2>2, <2>4 DEF ClosedAt
  <2>6. ClosedAt(d) \in T
    BY <2>3, <2>5
  <2> QED BY <2>5, <2>6
<1>2. PICK at : at = [d \in D |-> ClosedAt(d)]
  OBVIOUS
<1>3. PICK d \in D : \A e \in D : at[e] <= at[d]
  <2>1. \A e \in D : at[e] \in Int
    BY <1>1, <1>2
  <2> QED BY <2>1, GreatestOf
<1>4. \A e \in D : ClosedAt(e) <= ClosedAt(d)
  BY <1>2, <1>3
<1> QED BY <1>4 DEF LastClosed

\* The profits of the sets of decisions in the order of their exits.
IsVerdicts(S, pnls) ==
  pnls = [D \in SUBSET S |->
            IF D = {} THEN <<>>
            ELSE Append(pnls[D \ {LastClosed(D)}], Profit(LotsOf(LastClosed(D))))]

LEMMA VerdictsExist ==
  ASSUME exit \in [Lot -> Int], NEW S \in SUBSET Decision, IsFiniteSet(S),
         \A d \in S : LotsOf(d) # {}
  PROVE  \E pnls \in [SUBSET S -> Seq(Int)] : IsVerdicts(S, pnls)
<1>1. PICK last : last = [D \in SUBSET S |-> LastClosed(D)]
  OBVIOUS
<1>2. ASSUME NEW D \in SUBSET S, D # {} PROVE LastClosed(D) \in D /\ last[D] = LastClosed(D)
  <2>1. D \in SUBSET Decision /\ IsFiniteSet(D) /\ \A d \in D : LotsOf(d) # {}
    BY FS_Subset
  <2> QED BY <1>1, <1>2, <2>1, LastClosedIsIn
<1>3. Picks(S, last)
  BY <1>2 DEF Picks
<1>4. PICK add : add = [p \in Seq(Int) \X S |-> Append(p[1], Profit(LotsOf(p[2])))]
  OBVIOUS
<1>5. add \in [Seq(Int) \X S -> Seq(Int)]
  <2>1. ASSUME NEW p \in Seq(Int) \X S PROVE Append(p[1], Profit(LotsOf(p[2]))) \in Seq(Int)
    <3>1. PICK s \in Seq(Int), d \in S : s = p[1] /\ d = p[2]
      OBVIOUS
    <3>2. LotsOf(d) \in SUBSET Lot
      BY DEF LotsOf
    <3>3. Profit(LotsOf(d)) \in Int
      BY <3>2, ProfitAdds
    <3> QED BY <3>1, <3>3, AppendProperties
  <2> QED BY <1>4, <2>1
<1>6. PICK none \in Seq(Int) : none = <<>>
  BY EmptySeq
<1>7. PICK pnls \in [SUBSET S -> Seq(Int)] : RecursionOn(S, none, last, add, pnls)
  BY <1>3, <1>5, RecursionHas
<1>8. ASSUME NEW D \in SUBSET S
      PROVE  pnls[D] = IF D = {} THEN <<>>
                       ELSE Append(pnls[D \ {LastClosed(D)}], Profit(LotsOf(LastClosed(D))))
  <2>1. pnls[D] = IF D = {} THEN none ELSE add[<<pnls[D \ {last[D]}], last[D]>>]
    BY <1>7 DEF RecursionOn
  <2>2. CASE D # {}
    <3>1. PICK d \in D : d = LastClosed(D) /\ d = last[D]
      BY <1>2, <2>2
    <3>2. pnls[D \ {d}] \in Seq(Int) /\ d \in S
      OBVIOUS
    <3>3. add[<<pnls[D \ {d}], d>>] = Append(pnls[D \ {d}], Profit(LotsOf(d)))
      BY <1>4, <3>2
    <3> QED BY <2>1, <2>2, <3>1, <3>3
  <2> QED BY <1>6, <2>1, <2>2
<1>9. pnls = [D \in SUBSET S |-> pnls[D]]
  OBVIOUS
<1> QED BY <1>8, <1>9 DEF IsVerdicts

\* The verdicts of some decisions have, together, the profit of their lots.
LEMMA VerdictsTotal ==
  ASSUME exit \in [Lot -> Int], NEW S \in SUBSET Decision, IsFiniteSet(S),
         \A d \in S : LotsOf(d) # {}
  PROVE  /\ Verdicts(S) \in Seq(Int)
         /\ Total(Verdicts(S)) = Profit(UNION {LotsOf(d) : d \in S})
<1>1. PICK v : v = CHOOSE pnls : IsVerdicts(S, pnls)
  OBVIOUS
<1>2. IsVerdicts(S, v) /\ Verdicts(S) = v[S]
  BY <1>1, VerdictsExist DEF Verdicts, IsVerdicts
<1> DEFINE Of(D) == UNION {LotsOf(d) : d \in D}
           Ok(D) == v[D] \in Seq(Int) /\ Total(v[D]) = Profit(Of(D))
           T == {D \in SUBSET S : ~Ok(D)}
<1>3. Ok({})
  <2>1. v[{}] = <<>> /\ Of({}) = {}
    BY <1>2 DEF IsVerdicts
  <2>2. PICK none \in Seq(Int) : none = <<>> /\ Len(none) = 0
    BY EmptySeq
  <2>3. Total(none) = 0
    <3>1. PICK n \in Nat : n = 0
      OBVIOUS
    <3>2. IsPoints(none, n, Points(none))
      BY <2>2, <3>1, CurveExists
    <3>3. n \in 0..n
      OBVIOUS
    <3> QED BY <2>2, <3>1, <3>2, <3>3 DEF Total, IsPoints
  <2> QED BY <2>1, <2>2, <2>3, ProfitAdds
<1>4. ASSUME T # {} PROVE FALSE
  <2>1. PICK D \in T : \A B \in SUBSET D : B # D => B \notin T
    <3>1. T \in SUBSET SUBSET S
      OBVIOUS
    <3> HIDE DEF T
    <3> QED BY <1>4, <3>1, SmallestSubset
  <2>2. D \in SUBSET S /\ ~Ok(D)
    OBVIOUS
  <2>3. D # {}
    BY <1>3, <2>2
  <2>4. PICK d \in D : d = LastClosed(D)
    <3>1. D \in SUBSET Decision /\ IsFiniteSet(D) /\ \A e \in D : LotsOf(e) # {}
      BY <2>2, FS_Subset
    <3> QED BY <2>3, <3>1, LastClosedIsIn
  <2>5. PICK B : B = D \ {d}
    OBVIOUS
  <2>6. B \in SUBSET D /\ B # D /\ B \in SUBSET S
    BY <2>2, <2>4, <2>5
  <2>7. Ok(B)
    <3>1. B \notin T
      <4> HIDE DEF T
      <4> QED BY <2>1, <2>6
    <3> HIDE DEF Ok
    <3> QED BY <2>6, <3>1
  <2>8. LotsOf(d) \in SUBSET Lot /\ Of(B) \in SUBSET Lot /\ Of(B) \cap LotsOf(d) = {}
    BY <2>5 DEF LotsOf
  <2>9. Of(D) = Of(B) \cup LotsOf(d)
    BY <2>4, <2>5
  <2>10. PICK s \in Seq(Int), e \in Int : s = v[B] /\ e = Profit(LotsOf(d))
    BY <2>7, <2>8, ProfitAdds
  <2>11. v[D] = Append(s, e)
    BY <1>2, <2>2, <2>3, <2>4, <2>5, <2>10 DEF IsVerdicts
  <2>12. v[D] \in Seq(Int) /\ Total(v[D]) = Total(s) + e
    BY <2>11, TotalAppend, AppendProperties
  <2>13. Profit(Of(D)) = Profit(Of(B)) + e
    <3> HIDE DEF Of
    <3> QED BY <2>8, <2>9, <2>10, ProfitAdds
  <2>14. Ok(D)
    BY <2>7, <2>10, <2>12, <2>13
  <2> QED BY <2>2, <2>14
<1>5. Ok(S)
  <2>1. S \in SUBSET S /\ S \notin T
    BY <1>4
  <2> QED BY <2>1
<1> QED BY <1>2, <1>5

\* A decision is graded when its lots are stored.
GradedSound ==
  /\ graded \in SUBSET Decision /\ IsFiniteSet(graded)
  /\ \A d \in graded : LotsOf(d) # {}

LEMMA GradedSoundInit == CurveInit => GradedSound
  BY FS_EmptySet DEF CurveInit, GradedSound

LEMMA GradedSoundNext == GradedSound /\ [CurveNext]_curveVars => GradedSound'
<1> SUFFICES ASSUME GradedSound, [CurveNext]_curveVars PROVE GradedSound'
  OBVIOUS
<1>1. \A d : LotsOf(d)' = LotsOf(d)
  BY DEF LotsOf
<1>2. CASE UNCHANGED graded
  BY <1>1, <1>2 DEF GradedSound
<1>3. ASSUME NEW d \in Decision, Grade(d) PROVE GradedSound'
  <2>1. graded' = graded \cup {d} /\ LotsOf(d) # {}
    BY <1>3 DEF Grade, Gradable
  <2>2. IsFiniteSet(graded \cup {d})
    BY FS_AddElement DEF GradedSound
  <2> QED BY <1>1, <2>1, <2>2 DEF GradedSound
<1>4. UNCHANGED graded \/ \E d \in Decision : Grade(d)
  BY DEF CurveNext, curveVars, curveOnlyVars, bookVars, Sale, Store, EngineSnapshots,
         SweepStarts, SumDay, CutOff, WriteRow
<1> QED BY <1>2, <1>3, <1>4

\* The record is about the verdicts there are.
LEMMA GradeIsExact ==
  ASSUME CurveInv, GradedSound, NEW d \in Decision, Grade(d), record' # record
  PROVE  /\ record'.net = Profit(UNION {LotsOf(e) : e \in graded'})
         /\ record'.drawdown = Lower(WorstFall(Verdicts(graded')), NavBase)
<1>1. PICK S \in SUBSET Decision :
        S = graded' /\ IsFiniteSet(S) /\ \A e \in S : LotsOf(e) # {}
  <2>1. graded' = graded \cup {d} /\ LotsOf(d) # {}
    BY DEF Grade, Gradable
  <2>2. IsFiniteSet(graded \cup {d})
    BY FS_AddElement DEF GradedSound
  <2> QED BY <2>1, <2>2 DEF GradedSound
<1>2. exit \in [Lot -> Int]
  BY DEF CurveInv, LotsKept
<1>3. PICK pnls \in Seq(Int) :
        pnls = Verdicts(S) /\ Total(pnls) = Profit(UNION {LotsOf(e) : e \in S})
  BY <1>1, <1>2, VerdictsTotal
<1>4. record' = TrackRecord(pnls)
  BY <1>1, <1>3 DEF Grade
<1>5. Curve(pnls).sum = Total(pnls) /\ Curve(pnls).fall = WorstFall(pnls)
  <2>1. PICK n \in Nat : n = Len(pnls)
    OBVIOUS
  <2> QED BY <2>1, CurveIsExact DEF Total
<1> QED BY <1>1, <1>3, <1>4, <1>5 DEF TrackRecord

\* Whatever the lots, their profits and the order in which they are sold and
\* graded, a written record is exact (property RecordIsExact).
THEOREM RecordExact == CurveSpec => RecordIsExact
<1>1. CurveInv /\ GradedSound /\ [CurveNext]_curveVars =>
        [record' # record =>
           /\ record'.net = Profit(UNION {LotsOf(d) : d \in graded'})
           /\ record'.drawdown = Lower(WorstFall(Verdicts(graded')), NavBase)]_curveOnlyVars
  <2> SUFFICES ASSUME CurveInv, GradedSound, [CurveNext]_curveVars, record' # record
               PROVE  /\ record'.net = Profit(UNION {LotsOf(d) : d \in graded'})
                      /\ record'.drawdown = Lower(WorstFall(Verdicts(graded')), NavBase)
    OBVIOUS
  <2>1. \E d \in Decision : Grade(d)
    BY DEF CurveNext, curveVars, curveOnlyVars, bookVars, Sale, Store, EngineSnapshots,
           SweepStarts, SumDay, CutOff, WriteRow
  <2> QED BY <2>1, GradeIsExact
<1> QED BY <1>1, CurveInvInit, CurveInvNext, GradedSoundInit, GradedSoundNext, PTL
        DEF CurveSpec, RecordIsExact
=============================================================================
