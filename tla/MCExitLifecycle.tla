-------------------------- MODULE MCExitLifecycle --------------------------
(* Instances of ExitLifecycle for TLC: two entries of one asset, one after  *)
(* the other, and up to three exit ids.                                     *)
EXTENDS ExitLifecycleInv, TLC

CONSTANTS a1, x1, x2, x3

MCOneEntry   == {1}
MCTwoEntries == {1, 2}
MCAssetOf    == [e \in Entry |-> a1]
MCSymmetry   == Permutations(Exit)
=============================================================================
