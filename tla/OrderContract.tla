--------------------------- MODULE OrderContract ---------------------------
(***************************************************************************)
(* What the entry path promises of every decision row and its order:       *)
(*   - an order is placed only while its row still intends to place it;    *)
(*   - a row is tracked only once its order exists, and held only once     *)
(*     that order filled;                                                  *)
(*   - a row is dropped only when it has no order or its order died        *)
(*     unfilled, and closed only when its lot was sold;                    *)
(*   - a row that is over stays over.                                      *)
(* Nothing is said of how the program finds these things out.              *)
(***************************************************************************)
CONSTANT Decision

VARIABLES phase,   \* what the row says: unused, intent, tracked, held, over
          broker   \* its order: none, working, filled, dead, sold

Init ==
  /\ phase = [d \in Decision |-> "unused"]
  /\ broker = [d \in Decision |-> "none"]

Move(d, from, to) ==
  /\ phase[d] \in from
  /\ phase' = [phase EXCEPT ![d] = to]
  /\ UNCHANGED broker

Open(d)    == Move(d, {"unused"}, "intent")
Track(d)   == broker[d] # "none" /\ Move(d, {"intent"}, "tracked")
Confirm(d) == broker[d] \in {"filled", "sold"} /\ Move(d, {"tracked"}, "held")
Drop(d)    == broker[d] \in {"none", "dead"} /\ Move(d, {"intent", "tracked"}, "over")
Close(d)   == broker[d] = "sold" /\ Move(d, {"held"}, "over")

Turn(d, from, to) ==
  /\ broker[d] = from
  /\ broker' = [broker EXCEPT ![d] = to]
  /\ UNCHANGED phase

Place(d)  == phase[d] = "intent" /\ Turn(d, "none", "working")
Fill(d)   == Turn(d, "working", "filled")
Cancel(d) == Turn(d, "working", "dead")

Sell(lots) ==
  /\ \A d \in lots : broker[d] = "filled"
  /\ broker' = [d \in Decision |-> IF d \in lots THEN "sold" ELSE broker[d]]
  /\ UNCHANGED phase

Next ==
  \/ \E d \in Decision :
       Open(d) \/ Track(d) \/ Confirm(d) \/ Drop(d) \/ Close(d)
         \/ Place(d) \/ Fill(d) \/ Cancel(d)
  \/ \E lots \in SUBSET Decision : Sell(lots)

Spec == Init /\ [][Next]_<<phase, broker>>
=============================================================================
