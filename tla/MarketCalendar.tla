--------------------------- MODULE MarketCalendar ---------------------------
(***************************************************************************)
(* The signal poller's calendar of the New York exchange: on which days an *)
(* equity signal may be stored.  The algorithms are those of the code; the *)
(* exchange's own rules stand beside them.  Time zones are left out: days  *)
(* are those of New York.                                                  *)
(***************************************************************************)
EXTENDS Integers

CONSTANTS FirstYear, LastYear
ASSUME CalendarAssumption == FirstYear \in 1900..2199 /\ LastYear \in FirstYear..2199

VARIABLE date      \* [year, month, day]

Leap(y) == (y % 4 = 0 /\ y % 100 # 0) \/ y % 400 = 0
DaysIn(y, m) ==
  CASE m \in {4, 6, 9, 11} -> 30
    [] m = 2 -> IF Leap(y) THEN 29 ELSE 28
    [] OTHER -> 31

\* new Date(y, m - 1, d) as a count of days; d may lie outside of the month.
DayNumber(y, m, d) ==
  LET yy == IF m <= 2 THEN y - 1 ELSE y
      mm == IF m <= 2 THEN m + 9 ELSE m - 3
  IN  365 * yy + yy \div 4 - yy \div 100 + yy \div 400 + (153 * mm + 2) \div 5 + d

\* getDay: 0 is a Sunday.
Weekday(y, m, d) == (DayNumber(y, m, d) + 2) % 7

CalendarInit == date = [year |-> FirstYear, month |-> 1, day |-> 1]

NextDay ==
  LET last == date.day = DaysIn(date.year, date.month)
  IN  /\ date.year <= LastYear
      /\ date' = IF ~last THEN [date EXCEPT !.day = @ + 1]
                 ELSE IF date.month < 12
                      THEN [year |-> date.year, month |-> date.month + 1, day |-> 1]
                      ELSE [year |-> date.year + 1, month |-> 1, day |-> 1]

CalendarSpec == CalendarInit /\ [][NextDay]_date

-----------------------------------------------------------------------------
(* The code. *)

EasterSunday(year) ==
  LET a == year % 19
      b == year \div 100
      c == year % 100
      d == b \div 4
      e == b % 4
      f == (b + 8) \div 25
      g == (b - f + 1) \div 3
      h == (19 * a + b - d - g + 15) % 30
      i == c \div 4
      k == c % 4
      l == (32 + 2 * e + 2 * i - h - k) % 7
      m == (a + 11 * h + 22 * l) \div 451
      n == h + l - 7 * m + 114
  IN  [month |-> n \div 31, day |-> (n % 31) + 1]

\* mutant: a holiday on a weekend is always moved to Monday
ObservedMonday(year, month, day) ==
  LET dow == Weekday(year, month, day)
  IN  [month |-> month, day |-> day + (IF dow = 6 THEN 2 ELSE IF dow = 0 THEN 1 ELSE 0)]

\* Saturday to Friday, Sunday to Monday.  The year is not returned: New Year's
\* Day may become the last of December.
Observed(year, month, day) ==
  LET dow == Weekday(year, month, day)
      moved == day + (IF dow = 6 THEN -1 ELSE IF dow = 0 THEN 1 ELSE 0)
  IN  IF moved = 0 THEN [month |-> 12, day |-> 31] ELSE [month |-> month, day |-> moved]

NthWeekday(n, weekday, month, year) ==
  1 + ((weekday - Weekday(year, month, 1) + 7) % 7) + (n - 1) * 7

LastWeekday(weekday, month, year) ==
  LET last == DaysIn(year, month)
  IN  last - ((Weekday(year, month, last) - weekday + 7) % 7)

IsNyseHoliday(year, month, day) ==
  LET on(holiday) == holiday = [month |-> month, day |-> day]
      easter == EasterSunday(year)
  IN  \/ on(Observed(year, 1, 1))
      \/ month = 1 /\ day = NthWeekday(3, 1, 1, year)
      \/ month = 2 /\ day = NthWeekday(3, 1, 2, year)
      \/ DayNumber(year, month, day) = DayNumber(year, easter.month, easter.day - 2)
      \/ month = 5 /\ day = LastWeekday(1, 5, year)
      \/ year >= 2022 /\ on(Observed(year, 6, 19))
      \/ on(Observed(year, 7, 4))
      \/ month = 9 /\ day = NthWeekday(1, 1, 9, year)
      \/ month = 11 /\ day = NthWeekday(4, 4, 11, year)
      \/ on(Observed(year, 12, 25))

\* Half past nine to four, in minutes.
IsEquityMarketHours(year, month, day, minute) ==
  /\ Weekday(year, month, day) \in 1..5
  /\ ~IsNyseHoliday(year, month, day)
  /\ minute \in 570..959

-----------------------------------------------------------------------------
(* The exchange's rules. *)

\* The ecclesiastical full moon by golden number, as days after March 20, for
\* the years 1900 to 2199; Easter is the Sunday after it.
FullMoon == <<25, 14, 3, 22, 11, 29, 19, 8, 27, 16, 5, 24, 13, 2, 21, 10, 28, 18, 7>>

GoodFriday(d) ==
  LET moon == DayNumber(d.year, 3, 20) + FullMoon[(d.year % 19) + 1]
      number == DayNumber(d.year, d.month, d.day)
  IN  Weekday(d.year, d.month, d.day) = 5 /\ number + 2 - moon \in 1..7

\* A fixed holiday is kept on its day, on the Monday after a Sunday, or on the
\* Friday before a Saturday; but not on the last trading day of a year.
Kept(d, month, day) ==
  LET apart == DayNumber(d.year, d.month, d.day) - DayNumber(d.year, month, day)
      dow == Weekday(d.year, d.month, d.day)
  IN  apart = 0 \/ (apart = 1 /\ dow = 1) \/ (apart = -1 /\ dow = 5)

Closed(d) ==
  LET dow == Weekday(d.year, d.month, d.day) IN
  \/ dow \in {0, 6}
  \/ Kept(d, 1, 1) \/ Kept(d, 7, 4) \/ Kept(d, 12, 25)
  \/ d.year >= 2022 /\ Kept(d, 6, 19)
  \/ dow = 1 /\ \/ d.month \in {1, 2} /\ d.day \in 15..21
                \/ d.month = 5 /\ d.day \in 25..31
                \/ d.month = 9 /\ d.day \in 1..7
  \/ dow = 4 /\ d.month = 11 /\ d.day \in 22..28
  \/ GoodFriday(d)

\* Equity signals pass on exactly the exchange's trading days, from the opening
\* minute to the one before the close: movable feasts, holidays on weekends and
\* around the turn of the year included.
OpenWithTheExchange ==
  \A minute \in {0, 569, 570, 959, 960, 1440} :
    IsEquityMarketHours(date.year, date.month, date.day, minute)
      <=> ~Closed(date) /\ minute \in {570, 959}

CalendarTypeOK == date.month \in 1..12 /\ date.day \in 1..DaysIn(date.year, date.month)
=============================================================================
