----------------------------- MODULE MCEvidence -----------------------------
(***************************************************************************)
(* Model checking of what the decisions rest on: the order-flow data, and  *)
(* the cohorts with the go-live gate over them.  Data and cohorts share no *)
(* state: a behaviour picks a part at its start, and the other stays where *)
(* it began.                                                               *)
(***************************************************************************)
EXTENDS OrderFlow, LiveGate

CONSTANTS t1, t2, c1, c2, s1, s2, e1, e2
CONSTANT Part   \* the parts of this run

MCSymmetry == Permutations({t1, t2}) \cup Permutations({e1, e2})

MCStrategyOf == [c \in Cohort |-> s1]
MCLimitOf == [c \in Cohort |-> IF c = c1 THEN 1 ELSE 2]

VARIABLE part
evidenceRunVars == <<part, flowVars, gateVars>>

EvidenceInit == part \in Part /\ FlowInit /\ GateInit

\* A socket carries a third message only while there is one trade.
FewMessages == nextSeq' < 3 \/ Cardinality({t \in Trade : src'[t] # NoTime}) < 2

\* The second cohort is created when the first one runs or has run.
InOrder == status'[c2] # "none" => status'[c1] \notin {"none", "draft"}

\* The gate is looked at with one cohort and without entries.
EvidenceNext ==
  /\ UNCHANGED part
  /\ \/ part = "flow" /\ FlowNext /\ FewMessages /\ UNCHANGED gateVars
     \/ part = "cohorts" /\ CohortNext /\ InOrder /\ UNCHANGED <<flowVars, gateOnlyVars>>
     \/ part = "gate" /\ GateNext /\ status'[c2] = "none" /\ UNCHANGED flowVars

EvidenceSpec == EvidenceInit /\ [][EvidenceNext]_evidenceRunVars
=============================================================================
