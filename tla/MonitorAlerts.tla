---------------------------- MODULE MonitorAlerts ----------------------------
(***************************************************************************)
(* runMonitorPhase: the alert checks at the end of a tick.                 *)
(*                                                                         *)
(* Every check has its own try block.  It decides from the database or     *)
(* from an engine reply, stores that it fired, and only then sends.  What  *)
(* it stores survives a restart: trader_alert_state holds the time of the  *)
(* last alert, the start of an outage, or the last Sharpe sign.  The drop  *)
(* of the net asset value also halts the engine, after the message.        *)
(*                                                                         *)
(* The checks share nothing but the engine's health, so a behaviour runs   *)
(* one of the suites in Suites.  Times are ages in units between ticks,    *)
(* capped at the longest span a check looks at.                            *)
(***************************************************************************)
EXTENDS Integers, Sequences, FiniteSets

CONSTANTS
  Suites,       \* sequences of checks
  Grace,        \* *_OUTAGE_THRESHOLD_MS
  Dedup,        \* *_DEDUP_MS
  MaxCrashes    \* bound on the restarts of the bot

Level == {"abstain", "rate", "drought", "nav"}   \* fire while a condition holds
Outage == {"coinbase", "alpaca", "engine"}       \* fire once it holds for Grace
Check == Level \cup Outage \cup {"sharpe"}

ASSUME AlertAssumption ==
  /\ Suites \subseteq Seq(Check)
  /\ Grace \in Nat
  /\ Dedup \in Nat \ {0}
  /\ Grace <= Dedup
  /\ MaxCrashes \in Nat

None == -1
Age == -1..Dedup

VARIABLES
  suite,       \* the checks this behaviour runs
  bad,         \* checks whose condition holds now
  at,          \* place in the suite; 0 between ticks
  stage,       \* check, send or halt
  firstDown,   \* trader_alert_state, *_first_down: its age
  alertedAt,   \* trader_alert_state, the last alert: its age
  sign,        \* trader_alert_state, sharpe_last_sign: 1, -1; 0 before the first
  engineHalt,  \* the engine is halted
  told,        \* age of the last message delivered since the check last cleared
  misled,      \* the operator read that the engine is halted, and nothing since
  crashes      \* restarts of the bot

alertRows == <<firstDown, alertedAt, sign>>
worldVars == <<suite, bad>>
alertVars == <<suite, bad, at, stage, alertRows, engineHalt, told, misled, crashes>>

AlertTypeOK ==
  /\ suite \in Suites
  /\ bad \subseteq Check
  /\ at \in 0..Len(suite)
  /\ stage \in {"check", "send", "halt", "notice"}
  /\ firstDown \in [Outage -> Age]
  /\ alertedAt \in [Check -> Age]
  /\ sign \in {-1, 0, 1}
  /\ engineHalt \in BOOLEAN
  /\ told \in [Check -> Age]
  /\ misled \in BOOLEAN
  /\ crashes \in 0..MaxCrashes

AlertInit ==
  /\ suite \in Suites
  /\ bad = {}
  /\ at = 0
  /\ stage = "check"
  /\ firstDown = [c \in Outage |-> None]
  /\ alertedAt = [c \in Check |-> None]
  /\ sign = 0
  /\ engineHalt = FALSE
  /\ told = [c \in Check |-> None]
  /\ misled = FALSE
  /\ crashes = 0

Watched == {suite[i] : i \in DOMAIN suite}
Checking(c) == at > 0 /\ suite[at] = c

-----------------------------------------------------------------------------
(* The world: conditions come and go, time passes between ticks, the       *)
(* operator resumes the engine, the bot restarts.                          *)

ConditionChanges(c) ==
  /\ c \in Watched
  /\ bad' = IF c \in bad THEN bad \ {c} ELSE bad \cup {c}
  /\ UNCHANGED <<suite, at, stage, alertRows, engineHalt, told, misled, crashes>>

Aged(f) == [c \in DOMAIN f |-> IF f[c] = None \/ f[c] = Dedup THEN f[c] ELSE f[c] + 1]

TimePasses ==
  /\ at = 0
  /\ firstDown' = Aged(firstDown)
  /\ alertedAt' = Aged(alertedAt)
  /\ told' = Aged(told)
  /\ UNCHANGED <<worldVars, at, stage, sign, engineHalt, misled, crashes>>

OperatorResumes ==
  /\ engineHalt
  /\ engineHalt' = FALSE
  /\ misled' = FALSE
  /\ UNCHANGED <<worldVars, at, stage, alertRows, told, crashes>>

BotRestarts ==
  /\ crashes < MaxCrashes
  /\ at > 0
  /\ crashes' = crashes + 1
  /\ at' = 0
  /\ stage' = "check"
  /\ UNCHANGED <<worldVars, alertRows, engineHalt, told, misled>>

-----------------------------------------------------------------------------
(* One tick: the checks in order.                                          *)

StartMonitor ==
  /\ at = 0
  /\ at' = 1
  /\ UNCHANGED <<worldVars, stage, alertRows, engineHalt, told, misled, crashes>>

NextCheck ==
  /\ at' = IF at = Len(suite) THEN 0 ELSE at + 1
  /\ stage' = "check"

\* mutant: a check does not look at its last alert
DedupedNever(c) == FALSE

Deduped(c) == alertedAt[c] # None /\ alertedAt[c] < Dedup

\* The row is written before the message: recordAlertFired, then send.
Fire(c) ==
  /\ alertedAt' = [alertedAt EXCEPT ![c] = 0]
  /\ stage' = "send"
  /\ UNCHANGED at

Quiet == NextCheck /\ UNCHANGED alertedAt

CheckLevel(c) ==
  /\ Checking(c) /\ stage = "check"
  /\ IF c \in bad /\ ~Deduped(c) THEN Fire(c) ELSE Quiet
  /\ UNCHANGED <<worldVars, firstDown, sign, engineHalt, told, misled, crashes>>

CheckAbstainDigest == CheckLevel("abstain")
CheckAbstainRate == CheckLevel("rate")
CheckSignalDrought == CheckLevel("drought")
CheckNavDrop == CheckLevel("nav")

\* Coinbase and Alpaca: an engine that does not answer counts as healthy.
BrokerDown(c) == c \in bad /\ "engine" \notin bad

\* mutant: the outage clock starts again at every tick
MarkDownAlways(c) == firstDown' = [firstDown EXCEPT ![c] = 0]

MarkDown(c) == firstDown' = [firstDown EXCEPT ![c] = IF @ = None THEN 0 ELSE @]

OutagePersists(c) == firstDown[c] # None /\ firstDown[c] >= Grace

CheckBroker(c) ==
  /\ Checking(c) /\ stage = "check"
  /\ \/ /\ BrokerDown(c)
        /\ MarkDown(c)
        /\ IF OutagePersists(c) /\ ~Deduped(c) THEN Fire(c) ELSE Quiet
        /\ UNCHANGED told
     \/ /\ ~BrokerDown(c)
        /\ firstDown' = [firstDown EXCEPT ![c] = None]
        /\ Quiet
        /\ UNCHANGED told
  /\ UNCHANGED <<worldVars, sign, engineHalt, misled, crashes>>

CheckCoinbase == CheckBroker("coinbase")
CheckAlpaca == CheckBroker("alpaca")

\* The recovery notice is sent once; whether it arrives is not followed.
CheckEngine ==
  LET c == "engine"
  IN  /\ Checking(c) /\ stage = "check"
      /\ \/ /\ c \in bad
            /\ MarkDown(c)
            /\ IF OutagePersists(c) /\ ~Deduped(c) THEN Fire(c) ELSE Quiet
            /\ UNCHANGED told
         \/ /\ c \notin bad
            /\ firstDown' = [firstDown EXCEPT ![c] = None]
            /\ alertedAt' = [alertedAt EXCEPT ![c] = None]
            /\ told' = [told EXCEPT ![c] = None]
            /\ NextCheck
      /\ UNCHANGED <<worldVars, sign, engineHalt, misled, crashes>>

\* The first sight seeds the sign; only a change from 1 to -1 fires.
CheckSharpeFlip ==
  LET c == "sharpe"
      now == IF c \in bad THEN -1 ELSE 1
  IN  /\ Checking(c) /\ stage = "check"
      /\ sign' = now
      /\ IF sign = 1 /\ now = -1
           THEN stage' = "send" /\ UNCHANGED at
           ELSE NextCheck
      /\ UNCHANGED <<worldVars, firstDown, alertedAt, engineHalt, told, misled, crashes>>

-----------------------------------------------------------------------------
(* The message of a check that fired.  A send that throws ends the check.  *)

Delivered ==
  LET c == suite[at]
  IN  /\ at > 0 /\ stage = "send"
      /\ told' = [told EXCEPT ![c] = 0]
      /\ IF c = "nav"
           THEN stage' = "halt" /\ misled' = ~engineHalt /\ UNCHANGED at
           ELSE NextCheck /\ UNCHANGED misled
      /\ UNCHANGED <<worldVars, alertRows, engineHalt, crashes>>

SendThrows ==
  /\ at > 0 /\ stage = "send"
  /\ NextCheck
  /\ UNCHANGED <<worldVars, alertRows, engineHalt, told, misled, crashes>>

HaltEngine ==
  /\ stage = "halt"
  /\ engineHalt' = TRUE
  /\ misled' = FALSE
  /\ NextCheck
  /\ UNCHANGED <<worldVars, alertRows, told, crashes>>

HaltFails ==
  /\ stage = "halt"
  /\ stage' = "notice"
  /\ UNCHANGED <<worldVars, at, alertRows, engineHalt, told, misled, crashes>>

\* "NAV drop detected but engine halt call failed."
HaltNotice ==
  /\ stage = "notice"
  /\ misled' = FALSE
  /\ NextCheck
  /\ UNCHANGED <<worldVars, alertRows, engineHalt, told, crashes>>

NoticeThrows ==
  /\ stage = "notice"
  /\ NextCheck
  /\ UNCHANGED <<worldVars, alertRows, engineHalt, told, misled, crashes>>

-----------------------------------------------------------------------------
MonitorStep ==
  \/ CheckAbstainDigest \/ CheckAbstainRate \/ CheckSharpeFlip \/ CheckSignalDrought
  \/ CheckCoinbase \/ CheckEngine \/ CheckNavDrop \/ CheckAlpaca
  \/ Delivered \/ SendThrows
  \/ HaltEngine \/ HaltFails \/ HaltNotice \/ NoticeThrows

AlertNext ==
  \/ \E c \in Check : ConditionChanges(c)
  \/ TimePasses \/ OperatorResumes \/ BotRestarts
  \/ StartMonitor \/ MonitorStep

AlertSpec == AlertInit /\ [][AlertNext]_alertVars

\* Time does not stop, the scheduler ticks for ever and a message gets
\* through now and then.
AlertFair ==
  /\ SF_alertVars(TimePasses)
  /\ WF_alertVars(StartMonitor)
  /\ WF_alertVars(MonitorStep)
  /\ SF_alertVars(Delivered)

-----------------------------------------------------------------------------
(* Properties *)

\* Over crashes and failed sends, the operator never gets the same alert
\* twice within its dedup window, unless the engine recovered in between:
\* the row of the alert is written before the message.
AlertsAreSpaced ==
  [][\A c \in Check \ {"sharpe"} :
       (told[c] # None /\ told'[c] = 0 /\ told[c] # 0) => told[c] >= Dedup]_alertVars

\* A condition that persists is told again and again: the outage clock and
\* the dedup window are durable, so neither restarts nor lost messages keep
\* a lasting outage silent.  A broker is only judged by an engine that answers.
LastingOutageIsTold ==
  \A c \in Check \ {"sharpe"} :
    <>[](c \in Watched /\ c \in bad /\ ("engine" \notin bad \/ c \notin {"coinbase", "alpaca"}))
      => []<>(told[c] = 0)

\* The operator reads that the engine is halted only if it is, or is told
\* that the halt failed once the check is over: the comment of runMonitorPhase.
OperatorNotMisled == at = 0 => ~misled
=============================================================================
