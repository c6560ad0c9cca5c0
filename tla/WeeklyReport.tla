---------------------------- MODULE WeeklyReport ----------------------------
(***************************************************************************)
(* When the weekly report goes out, and about which week.                  *)
(*                                                                         *)
(* Every tick asks whether the newest Sunday 09:00 has passed, not too     *)
(* long ago, and has not been answered yet.  The answer is stored before   *)
(* the report is built and sent: a lost report is taken for the price of   *)
(* never sending one twice.                                                *)
(***************************************************************************)
EXTENDS NewYork, Sequences

CONSTANTS
  FireTicks,     \* 09:00, in ticks after midnight
  GraceTicks,    \* WEEKLY_REPORT_GRACE_MS
  MaxReportFaults

\* 09:00 and twelve hours of grace end on the same day, a short one as well
ASSUME ReportAssumption ==
  /\ {FireTicks, GraceTicks, MaxReportFaults} \subseteq Nat
  /\ FireTicks + GraceTicks + 1 < DayTicks

NeverFired == -1

VARIABLES
  lastFire,      \* the time in kv_settings
  inFlight,      \* inFlightFire, with the report being built: at most one
  sent,          \* history: the reports delivered, in order of delivery
  reportFaults

reportOnlyVars == <<lastFire, inFlight, sent, reportFaults>>
reportVars == <<now, turn, reportOnlyVars>>

ReportInit ==
  /\ lastFire = NeverFired
  /\ inFlight = {} /\ sent = <<>>
  /\ reportFaults = 0

\* days are counted from a Sunday
NewYorkWeekday(t) == DateOf(t) % 7

\* mostRecentFirePoint
LastSunday(t) == MidnightByProbe(DateOf(t)) - NewYorkWeekday(t) * DayTicks
FirePoint(t) ==
  LET point == LastSunday(t) + FireTicks
  IN  IF t < point THEN point - 7 * DayTicks ELSE point

\* shouldFireWeeklyReport
ShouldFire ==
  /\ now - FirePoint(now) <= GraceTicks
  /\ ~(lastFire # NeverFired /\ lastFire >= FirePoint(now))

\* computeWeekBoundary
WeekBoundary(t) == [from |-> LastSunday(t) - 7 * DayTicks, to |-> LastSunday(t) - 1]

Report == [week |-> WeekBoundary(now), day |-> DateOf(now)]

\* mutant: the time is stored when the report has gone out
MarkAtEnd(stage) == IF stage = "end" THEN now ELSE lastFire

\* writeLastFireMs runs before the report is built
Mark(stage) == IF stage = "start" THEN now ELSE lastFire

Fire ==
  /\ ShouldFire /\ inFlight = {}
  /\ lastFire' = Mark("start")
  /\ inFlight' = {Report}
  /\ UNCHANGED <<now, turn, sent, reportFaults>>

Sent(report) == sent' = Append(sent, report)

Deliver ==
  /\ \E report \in inFlight : Sent(report)
  /\ inFlight' = {}
  /\ lastFire' = Mark("end")
  /\ UNCHANGED <<now, turn, reportFaults>>

Fails == reportFaults < MaxReportFaults /\ reportFaults' = reportFaults + 1

\* Building or sending it throws or the bot stops, before or after it is out.
Interrupted ==
  /\ Fails
  /\ \E report \in inFlight : Sent(report) \/ UNCHANGED sent
  /\ inFlight' = {}
  /\ UNCHANGED <<now, turn, lastFire>>

ReportNext ==
  \/ Fire \/ Deliver \/ Interrupted
  \/ TimePasses /\ UNCHANGED <<turn, reportOnlyVars>>

ReportSpec == (\E start \in Nat : ClockInit(start)) /\ ReportInit /\ [][ReportNext]_reportVars

-----------------------------------------------------------------------------
(* Properties *)

ReportTypeOK ==
  /\ lastFire \in Int
  /\ inFlight \subseteq [week : [from : Int, to : Int], day : Int]
  /\ sent \in Seq([week : [from : Int, to : Int], day : Int])
  /\ reportFaults \in 0..MaxReportFaults

\* Whatever fails while a report is built or sent, and whenever the bot is
\* restarted, maybeFireWeeklyReport sends no second report on a Sunday, and
\* none on another day, in the weeks around a turn of the clocks as well.
ReportedOnce ==
  \A i \in DOMAIN sent :
    /\ sent[i].day % 7 = 0
    /\ \A j \in DOMAIN sent : sent[i].day = sent[j].day => i = j

\* computeWeekBoundary "respects DST transitions": no moment is in the weeks
\* of two reports.  It takes seven times 24 hours off the Sunday, which after
\* the turn of spring reaches into the Saturday before the week.
MomentIsInOneWeek ==
  \A i, j \in DOMAIN sent : i < j => sent[i].week.to < sent[j].week.from
=============================================================================
