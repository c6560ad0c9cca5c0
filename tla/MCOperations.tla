---------------------------- MODULE MCOperations ----------------------------
(***************************************************************************)
(* Model checking of the fill ledger, the alerts, the scheduler tick and   *)
(* the notices.  They share no state: a behaviour picks one part at its    *)
(* start, and the other parts stay where they began.                       *)
(***************************************************************************)
EXTENDS FillLedger, MonitorAlerts, SchedulerTick, Notices

CONSTANTS a1, o1, o2, x1, b1, b2, leg, rec, gate, sweep
CONSTANT Part   \* the parts of this run

MCSuites ==
  {<<"abstain">>, <<"rate">>, <<"drought">>, <<"sharpe">>, <<"nav">>,
   <<"coinbase", "engine">>, <<"alpaca">>}

MCQuantity == [o \in Order |-> IF o = b1 THEN 2 ELSE 1]
MCParent == [o \in Order |-> IF o = leg THEN b1 ELSE o]

VARIABLE part
opsVars == <<part, ledgerVars, alertVars, schedVars, noticeVars>>

OpsInit ==
  /\ part \in Part
  /\ LedgerInit /\ AlertInit /\ TickInit /\ NoticeInit
  /\ part # "alerts" => suite = <<"nav">>
  /\ part # "tick" => large = {}

OpsNext ==
  /\ UNCHANGED part
  /\ \/ /\ part = "ledger" /\ LedgerNext
        /\ UNCHANGED <<alertVars, schedVars, noticeVars>>
     \/ /\ part = "alerts" /\ AlertNext
        /\ UNCHANGED <<ledgerVars, schedVars, noticeVars>>
     \/ /\ part = "tick" /\ TickNext
        /\ UNCHANGED <<ledgerVars, alertVars, noticeVars>>
     \/ /\ \/ part = "digest" /\ DigestNext
           \/ part = "short" /\ ShortNext
           \/ part \in {"digest", "short"} /\ ProcessStops
        /\ UNCHANGED <<ledgerVars, alertVars, schedVars>>

OpsSpec == OpsInit /\ [][OpsNext]_opsVars

\* Every part under its own fairness.
OpsFair ==
  \/ part = "ledger" /\ LedgerFair
  \/ part = "alerts" /\ AlertFair
  \/ part = "tick" /\ TickFair
  \/ part = "digest" /\ DigestFair
  \/ part = "short" /\ ShortFair

OpsFairSpec == OpsSpec /\ OpsFair
=============================================================================
