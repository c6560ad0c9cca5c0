------------------------------ MODULE EventFeed ------------------------------
(***************************************************************************)
(* What event sync promises of the operational log: the server's copy      *)
(* holds only events the bot recorded, never loses one, and everything the *)
(* bot counts as sent is in it.                                            *)
(***************************************************************************)
EXTENDS Naturals

VARIABLES recorded,   \* events of the bot are 1..recorded
          arrived,    \* events the server holds
          counted     \* events the bot will not send again are 1..counted

Init == recorded = 0 /\ arrived = {} /\ counted = 0

Record ==
  /\ recorded' = recorded + 1
  /\ UNCHANGED <<arrived, counted>>

Arrive(events) ==
  /\ events \subseteq 1..recorded
  /\ arrived' = arrived \cup events
  /\ UNCHANGED <<recorded, counted>>

\* The count may also fall back: events are then sent once more.
Count(n) ==
  /\ 1..n \subseteq arrived
  /\ counted' = n
  /\ UNCHANGED <<recorded, arrived>>

Next ==
  \/ Record
  \/ \E events \in SUBSET (1..recorded) : Arrive(events)
  \/ \E n \in 0..recorded : Count(n)

Spec == Init /\ [][Next]_<<recorded, arrived, counted>>
=============================================================================
