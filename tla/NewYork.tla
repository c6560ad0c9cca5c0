------------------------------ MODULE NewYork ------------------------------
(***************************************************************************)
(* Days of the New York clock on the UTC clock of the host, around one     *)
(* turn of the clocks.  A day has DayTicks ticks, the day of the turn one  *)
(* less or more; the clocks turn two ticks after midnight.                 *)
(***************************************************************************)
EXTENDS Integers

CONSTANTS
  DayTicks,    \* ticks of an ordinary day
  TurnDay,     \* the day, counted from 0, on which the clocks may turn
  EndOfTime    \* bound on the clock

ASSUME ClockAssumption ==
  DayTicks \in Nat /\ DayTicks > 4 /\ TurnDay \in Nat /\ EndOfTime \in Nat

VARIABLES
  now,         \* the host's clock, UTC
  turn         \* "spring", "autumn", or "none" when no turn comes up

Summer == 1    \* ticks by which New York is behind UTC
Winter == 2

OffsetBefore == IF turn = "autumn" THEN Summer ELSE Winter
OffsetAfter == IF turn = "spring" THEN Summer ELSE Winter
TurnAt == TurnDay * DayTicks + OffsetBefore + 2

OffsetAt(t) == IF t < TurnAt THEN OffsetBefore ELSE OffsetAfter

\* the date a moment has in New York: toLocaleDateString, nyParts
DateOf(t) == (t - OffsetAt(t)) \div DayTicks

\* close-out-watcher.ts, nyMidnightMs: the offset whose moment has the date
MidnightByDate(date) ==
  LET summer == date * DayTicks + Summer
      winter == date * DayTicks + Winter
  IN  CASE DateOf(summer) = date -> summer
        [] DateOf(summer) # date /\ DateOf(winter) = date -> winter
        [] OTHER -> date * DayTicks

\* weekly-report.ts, nyMidnightMs: the offset a little after midnight
MidnightByProbe(date) == date * DayTicks + OffsetAt(date * DayTicks + Winter)

ClockInit(start) ==
  /\ turn \in {"spring", "autumn", "none"}
  /\ now = start

TimePasses == now < EndOfTime /\ now' = now + 1
=============================================================================
