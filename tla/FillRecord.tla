----------------------------- MODULE FillRecord -----------------------------
(***************************************************************************)
(* What the fill ledger promises of one order after the other: the         *)
(* quantity it holds for an order is one the engine reported, and it only  *)
(* moves towards the engine's own quantity.                                *)
(***************************************************************************)
EXTENDS Naturals

CONSTANT Order

VARIABLES executed,   \* quantity the engine filled, by order
          recorded    \* quantity the ledger holds, by order

Init == executed = [o \in Order |-> 0] /\ recorded = [o \in Order |-> 0]

\* The engine fills some orders further.
Execute ==
  /\ executed' \in [Order -> Nat]
  /\ \A o \in Order : executed[o] <= executed'[o]
  /\ UNCHANGED recorded

\* The ledger takes over an engine quantity, never a smaller one than it has.
Observe ==
  /\ recorded' \in [Order -> Nat]
  /\ \A o \in Order : recorded[o] <= recorded'[o] /\ recorded'[o] <= executed[o]
  /\ UNCHANGED executed

Spec == Init /\ [][Execute \/ Observe]_<<executed, recorded>>
=============================================================================
