-------------------------- MODULE MCEntryLifecycle --------------------------
(* Small instances of EntryLifecycle for TLC. *)
EXTENDS EntryLifecycleInv, TLC

CONSTANTS s1, s2, a1, t1, t2, d1, d2

\* Two signals of two strategies compete for one asset.
MCAssetOf    == [s \in Signal |-> a1]
MCStrategyOf == [s \in Signal |-> IF s = s1 THEN t1 ELSE t2]

\* Swapping both signals together with their strategies changes nothing.
MCSwap == {s1 :> s1 @@ s2 :> s2 @@ t1 :> t1 @@ t2 :> t2,
           s1 :> s2 @@ s2 :> s1 @@ t1 :> t2 @@ t2 :> t1}
MCSymmetry == {p @@ q : p \in MCSwap, q \in Permutations(Decision)}
=============================================================================
