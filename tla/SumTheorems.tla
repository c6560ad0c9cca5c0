---------------------------- MODULE SumTheorems ----------------------------
(***************************************************************************)
(* What a sum over a finite set returns.  The models add up units with     *)
(* MapThenSumSet and FoldFunctionOnSet of the community modules; both are  *)
(* SumOf below, whose facts need no operator as a parameter.  Each is      *)
(* proved by looking at a smallest set that would refute it.  The same     *)
(* argument shows that a recursion over the subsets of a finite set has a  *)
(* value (last part).                                                      *)
(***************************************************************************)
EXTENDS Integers, FiniteSetsExt, FiniteSetTheorems, WellFoundedInduction, TLAPS

\* The sum of f over the set S.
SumOf(f, S) == MapThenSumSet(LAMBDA x : f[x], S)

\* Partial sums over the subsets of S, adding the chosen element of each set first.
ChosenOf(s) == CHOOSE x \in s : TRUE
PartialSums(f, S, sums) ==
  sums = [s \in SUBSET S |->
            IF s = {} THEN 0 ELSE f[ChosenOf(s)] + sums[s \ {ChosenOf(s)}]]

LEMMA ChosenIsIn == ASSUME NEW s, s # {} PROVE ChosenOf(s) \in s
  BY DEF ChosenOf

\* SumOf is the last of some partial sums, when there are any.
LEMMA SumOfIsPartialSum ==
  ASSUME NEW f, NEW S
  PROVE  SumOf(f, S) = (CHOOSE sums : PartialSums(f, S, sums))[S]
  BY DEF SumOf, MapThenSumSet, MapThenFoldSet, PartialSums, ChosenOf

\* A non-empty set of subsets of a finite set has a smallest member.
LEMMA SmallestSubset ==
  ASSUME NEW S, IsFiniteSet(S), NEW T \in SUBSET SUBSET S, T # {}
  PROVE  \E A \in T : \A B \in SUBSET A : B # A => B \notin T
<1>1. IsWellFoundedOn(StrictSubsetOrdering(S), FiniteSubsetsOf(S))
  BY FS_StrictSubsetOrderingWellFounded
<1>2. FiniteSubsetsOf(S) = SUBSET S
  BY FS_FiniteSubsetsOfFinite
<1>3. PICK A \in T : \A B \in T : ~ (<<B, A>> \in StrictSubsetOrdering(S))
  BY <1>1, <1>2, WFMin
<1>4. ASSUME NEW B \in SUBSET A, B # A, B \in T PROVE FALSE
  BY <1>3, <1>4 DEF StrictSubsetOrdering
<1> QED BY <1>3, <1>4

LEMMA PartialSumsUnique ==
  ASSUME NEW f, NEW S, IsFiniteSet(S), NEW g, NEW h,
         PartialSums(f, S, g), PartialSums(f, S, h)
  PROVE  g = h
<1> DEFINE T == {A \in SUBSET S : g[A] # h[A]}
<1>1. ASSUME T # {} PROVE FALSE
  <2>1. PICK A \in T : \A B \in SUBSET A : B # A => B \notin T
    <3>1. T \in SUBSET SUBSET S
      OBVIOUS
    <3> HIDE DEF T
    <3> QED BY <1>1, <3>1, SmallestSubset
  <2>2. A # {}
    BY <2>1 DEF PartialSums
  <2>3. ChosenOf(A) \in A
    BY <2>2, ChosenIsIn
  <2>4. A \ {ChosenOf(A)} \in SUBSET S /\ A \ {ChosenOf(A)} # A
    BY <2>1, <2>3
  <2>5. g[A \ {ChosenOf(A)}] = h[A \ {ChosenOf(A)}]
    BY <2>1, <2>4
  <2>6. g[A] = h[A]
    BY <2>1, <2>2, <2>5 DEF PartialSums
  <2> QED BY <2>1, <2>6
<1>2. \A A \in SUBSET S : g[A] = h[A]
  BY <1>1
<1> QED BY <1>2 DEF PartialSums

\* Partial sums of a set are those of its subsets, cut down.
LEMMA PartialSumsOfSubset ==
  ASSUME NEW f, NEW S, NEW B \in SUBSET S, NEW g, PartialSums(f, S, g)
  PROVE  PartialSums(f, B, [s \in SUBSET B |-> g[s]])
<1> DEFINE h == [s \in SUBSET B |-> g[s]]
<1>1. ASSUME NEW s \in SUBSET B
      PROVE  h[s] = IF s = {} THEN 0 ELSE f[ChosenOf(s)] + h[s \ {ChosenOf(s)}]
  <2>1. s \in SUBSET S /\ s \ {ChosenOf(s)} \in SUBSET B
    OBVIOUS
  <2>2. g[s] = IF s = {} THEN 0 ELSE f[ChosenOf(s)] + g[s \ {ChosenOf(s)}]
    BY <2>1 DEF PartialSums
  <2> QED BY <2>1, <2>2
<1>2. h = [s \in SUBSET B |-> IF s = {} THEN 0 ELSE f[ChosenOf(s)] + h[s \ {ChosenOf(s)}]]
  BY <1>1
<1> QED BY <1>2 DEF PartialSums

LEMMA SumOfAgrees ==
  ASSUME NEW f, NEW S, IsFiniteSet(S), NEW B \in SUBSET S, NEW g, PartialSums(f, S, g)
  PROVE  SumOf(f, B) = g[B]
<1> DEFINE h == [s \in SUBSET B |-> g[s]]
<1>1. PartialSums(f, B, h)
  BY PartialSumsOfSubset
<1>2. IsFiniteSet(B)
  BY FS_Subset
<1> HIDE DEF h
<1>3. PartialSums(f, B, CHOOSE sums : PartialSums(f, B, sums))
  BY <1>1
<1>4. (CHOOSE sums : PartialSums(f, B, sums)) = h
  BY <1>1, <1>2, <1>3, PartialSumsUnique
<1>5. SumOf(f, B) = h[B]
  BY <1>4, SumOfIsPartialSum
<1> QED BY <1>5 DEF h

LEMMA PartialSumsExist ==
  ASSUME NEW f, NEW S, IsFiniteSet(S)
  PROVE  \E sums : PartialSums(f, S, sums)
<1> DEFINE T == {A \in SUBSET S : ~ \E sums : PartialSums(f, A, sums)}
<1>1. ASSUME T # {} PROVE FALSE
  <2>1. PICK A \in T : \A B \in SUBSET A : B # A => B \notin T
    <3>1. T \in SUBSET SUBSET S
      OBVIOUS
    <3> HIDE DEF T
    <3> QED BY <1>1, <3>1, SmallestSubset
  <2> DEFINE rest == A \ {ChosenOf(A)}
             g == [s \in SUBSET A |-> IF s = {} THEN 0
                                      ELSE f[ChosenOf(s)] + SumOf(f, s \ {ChosenOf(s)})]
  <2>2. ASSUME NEW B \in SUBSET A, B # A PROVE \E sums : PartialSums(f, B, sums)
    BY <2>1, <2>2
  <2>3. ASSUME NEW B \in SUBSET A, B # A PROVE SumOf(f, B) = g[B]
    <3>1. PICK h : PartialSums(f, B, h)
      BY <2>2, <2>3
    <3>2. IsFiniteSet(B) /\ B \in SUBSET B /\ B \ {ChosenOf(B)} \in SUBSET B
      BY <2>1, FS_Subset
    <3>3. SumOf(f, B) = h[B] /\ SumOf(f, B \ {ChosenOf(B)}) = h[B \ {ChosenOf(B)}]
      BY <3>1, <3>2, SumOfAgrees
    <3>4. h[B] = IF B = {} THEN 0 ELSE f[ChosenOf(B)] + h[B \ {ChosenOf(B)}]
      BY <3>1, <3>2 DEF PartialSums
    <3> QED BY <3>3, <3>4
  <2>4. ASSUME NEW s \in SUBSET A
        PROVE  g[s] = IF s = {} THEN 0 ELSE f[ChosenOf(s)] + g[s \ {ChosenOf(s)}]
    <3>1. CASE s = {}
      BY <3>1
    <3>2. CASE s # {}
      <4>1. ChosenOf(s) \in s
        BY <3>2, ChosenIsIn
      <4>2. s \ {ChosenOf(s)} \in SUBSET A /\ s \ {ChosenOf(s)} # A
        BY <4>1
      <4>3. SumOf(f, s \ {ChosenOf(s)}) = g[s \ {ChosenOf(s)}]
        BY <4>2, <2>3
      <4> QED BY <3>2, <4>3
    <3> QED BY <3>1, <3>2
  <2> HIDE DEF g
  <2>5. g = [s \in SUBSET A |-> g[s]]
    BY DEF g
  <2>6. PartialSums(f, A, g)
    BY <2>4, <2>5 DEF PartialSums
  <2> QED BY <2>1, <2>6
<1> QED BY <1>1

\* The recursion equation of a sum.
LEMMA SumOfChosen ==
  ASSUME NEW f, NEW S, IsFiniteSet(S)
  PROVE  SumOf(f, S) = IF S = {} THEN 0 ELSE f[ChosenOf(S)] + SumOf(f, S \ {ChosenOf(S)})
<1>1. PICK g : PartialSums(f, S, g)
  BY PartialSumsExist
<1>2. SumOf(f, S) = g[S] /\ SumOf(f, S \ {ChosenOf(S)}) = g[S \ {ChosenOf(S)}]
  BY <1>1, SumOfAgrees
<1> QED BY <1>1, <1>2 DEF PartialSums

LEMMA SumOfEmpty == ASSUME NEW f PROVE SumOf(f, {}) = 0
  BY SumOfChosen, FS_EmptySet

LEMMA SumOfInt ==
  ASSUME NEW S, IsFiniteSet(S), NEW f, \A x \in S : f[x] \in Int
  PROVE  SumOf(f, S) \in Int
<1> DEFINE T == {A \in SUBSET S : SumOf(f, A) \notin Int}
<1>1. ASSUME T # {} PROVE FALSE
  <2>1. PICK A \in T : \A B \in SUBSET A : B # A => B \notin T
    <3>1. T \in SUBSET SUBSET S
      OBVIOUS
    <3> HIDE DEF T
    <3> QED BY <1>1, <3>1, SmallestSubset
  <2>2. IsFiniteSet(A)
    BY <2>1, FS_Subset
  <2>3. A # {}
    BY <2>1, <2>2, SumOfEmpty
  <2>4. ChosenOf(A) \in A
    BY <2>3, ChosenIsIn
  <2>5. SumOf(f, A) = f[ChosenOf(A)] + SumOf(f, A \ {ChosenOf(A)})
    BY <2>2, <2>3, SumOfChosen
  <2>6. SumOf(f, A \ {ChosenOf(A)}) \in Int
    BY <2>1, <2>4
  <2>7. SumOf(f, A) \in Int
    BY <2>1, <2>4, <2>5, <2>6
  <2> QED BY <2>1, <2>7
<1> QED BY <1>1

\* Any element may be taken first.
LEMMA SumOfWithout ==
  ASSUME NEW S, IsFiniteSet(S), NEW f, \A x \in S : f[x] \in Int, NEW e \in S
  PROVE  SumOf(f, S) = f[e] + SumOf(f, S \ {e})
<1> DEFINE T == {A \in SUBSET S : \E x \in A : SumOf(f, A) # f[x] + SumOf(f, A \ {x})}
<1>1. ASSUME T # {} PROVE FALSE
  <2>1. PICK A \in T : \A B \in SUBSET A : B # A => B \notin T
    <3>1. T \in SUBSET SUBSET S
      OBVIOUS
    <3> HIDE DEF T
    <3> QED BY <1>1, <3>1, SmallestSubset
  <2>2. PICK x \in A : SumOf(f, A) # f[x] + SumOf(f, A \ {x})
    BY <2>1
  <2> DEFINE c == ChosenOf(A)
  <2>3. IsFiniteSet(A) /\ c \in A /\ IsFiniteSet(A \ {x}) /\ IsFiniteSet(A \ {c})
    BY <2>1, <2>2, ChosenIsIn, FS_Subset
  <2>4. SumOf(f, A) = f[c] + SumOf(f, A \ {c})
    BY <2>2, <2>3, SumOfChosen
  <2>5. c # x
    BY <2>2, <2>4
  <2> HIDE DEF c
  <2>6. SumOf(f, A \ {c}) = f[x] + SumOf(f, (A \ {c}) \ {x})
    BY <2>1, <2>2, <2>3, <2>5
  <2>7. SumOf(f, A \ {x}) = f[c] + SumOf(f, (A \ {x}) \ {c})
    BY <2>1, <2>2, <2>3, <2>5
  <2>8. (A \ {c}) \ {x} = (A \ {x}) \ {c}
    OBVIOUS
  <2>9. f[x] \in Int /\ f[c] \in Int /\ SumOf(f, (A \ {x}) \ {c}) \in Int
    <3>1. IsFiniteSet((A \ {x}) \ {c}) /\ \A y \in (A \ {x}) \ {c} : f[y] \in Int
      BY <2>1, <2>3, FS_Subset
    <3> QED BY <2>1, <2>2, <2>3, <3>1, SumOfInt
  <2>10. f[c] + (f[x] + SumOf(f, (A \ {x}) \ {c})) = f[x] + (f[c] + SumOf(f, (A \ {x}) \ {c}))
    BY <2>9
  <2> QED BY <2>2, <2>4, <2>6, <2>7, <2>8, <2>10
<1> QED BY <1>1

\* The sum depends on the values of f in S only, and grows with them.
LEMMA SumOfMonotone ==
  ASSUME NEW S, IsFiniteSet(S), NEW f, \A x \in S : f[x] \in Int,
         NEW g, \A x \in S : g[x] \in Int, \A x \in S : f[x] <= g[x]
  PROVE  SumOf(f, S) <= SumOf(g, S)
<1> DEFINE T == {A \in SUBSET S : ~ (SumOf(f, A) <= SumOf(g, A))}
<1>1. ASSUME T # {} PROVE FALSE
  <2>1. PICK A \in T : \A B \in SUBSET A : B # A => B \notin T
    <3>1. T \in SUBSET SUBSET S
      OBVIOUS
    <3> HIDE DEF T
    <3> QED BY <1>1, <3>1, SmallestSubset
  <2> DEFINE c == ChosenOf(A)
  <2>2. IsFiniteSet(A) /\ A # {}
    <3>1. SumOf(f, {}) <= SumOf(g, {})
      BY SumOfEmpty
    <3>2. A # {}
      BY <2>1, <3>1
    <3> QED BY <2>1, <3>2, FS_Subset
  <2>3. c \in A /\ IsFiniteSet(A \ {c})
    BY <2>2, ChosenIsIn, FS_Subset
  <2>4. SumOf(f, A) = f[c] + SumOf(f, A \ {c}) /\ SumOf(g, A) = g[c] + SumOf(g, A \ {c})
    BY <2>2, SumOfChosen
  <2> HIDE DEF c
  <2>5. SumOf(f, A \ {c}) <= SumOf(g, A \ {c})
    BY <2>1, <2>3
  <2>6. SumOf(f, A \ {c}) \in Int /\ SumOf(g, A \ {c}) \in Int
    BY <2>1, <2>3, SumOfInt
  <2>7. f[c] \in Int /\ g[c] \in Int /\ f[c] <= g[c]
    BY <2>1, <2>3
  <2>8. SumOf(f, A) <= SumOf(g, A)
    BY <2>4, <2>5, <2>6, <2>7
  <2> QED BY <2>1, <2>8
<1> QED BY <1>1

LEMMA SumOfSame ==
  ASSUME NEW S, IsFiniteSet(S), NEW f, \A x \in S : f[x] \in Int,
         NEW g, \A x \in S : f[x] = g[x]
  PROVE  SumOf(f, S) = SumOf(g, S)
<1>1. SumOf(f, S) <= SumOf(g, S) /\ SumOf(g, S) <= SumOf(f, S)
  BY SumOfMonotone
<1>2. SumOf(f, S) \in Int /\ SumOf(g, S) \in Int
  BY SumOfInt
<1> QED BY <1>1, <1>2

\* Sums of numbers that are not negative, over a set and a part of it.
LEMMA SumOfNat ==
  ASSUME NEW S, IsFiniteSet(S), NEW f, \A x \in S : f[x] \in Nat
  PROVE  SumOf(f, S) \in Nat
<1>1. SumOf([x \in S |-> 0], S) = 0
  <2> DEFINE z == [x \in S |-> 0]
             T == {A \in SUBSET S : SumOf(z, A) # 0}
  <2>0. \A x \in S : z[x] = 0
    OBVIOUS
  <2> HIDE DEF z
  <2>1. ASSUME T # {} PROVE FALSE
    <3>1. PICK A \in T : \A B \in SUBSET A : B # A => B \notin T
      <4>1. T \in SUBSET SUBSET S
        OBVIOUS
      <4> HIDE DEF T
      <4> QED BY <2>1, <4>1, SmallestSubset
    <3>2. IsFiniteSet(A) /\ A # {}
      BY <3>1, FS_Subset, SumOfEmpty
    <3>3. ChosenOf(A) \in A
      BY <3>2, ChosenIsIn
    <3>4. SumOf(z, A) = z[ChosenOf(A)] + SumOf(z, A \ {ChosenOf(A)})
      BY <3>2, SumOfChosen
    <3>5. SumOf(z, A \ {ChosenOf(A)}) = 0 /\ z[ChosenOf(A)] = 0
      BY <2>0, <3>1, <3>3
    <3> QED BY <3>1, <3>4, <3>5
  <2> QED BY <2>1 DEF z
<1>2. SumOf([x \in S |-> 0], S) <= SumOf(f, S)
  BY SumOfMonotone
<1>3. SumOf(f, S) \in Int
  BY SumOfInt
<1> QED BY <1>1, <1>2, <1>3

LEMMA SumOfPart ==
  ASSUME NEW S, IsFiniteSet(S), NEW f, \A x \in S : f[x] \in Nat, NEW B \in SUBSET S
  PROVE  SumOf(f, B) <= SumOf(f, S)
<1> DEFINE T == {A \in SUBSET S : B \subseteq A /\ ~ (SumOf(f, B) <= SumOf(f, A))}
<1>1. ASSUME T # {} PROVE FALSE
  <2>1. PICK A \in T : \A C \in SUBSET A : C # A => C \notin T
    <3>1. T \in SUBSET SUBSET S
      OBVIOUS
    <3> HIDE DEF T
    <3> QED BY <1>1, <3>1, SmallestSubset
  <2>2. IsFiniteSet(A) /\ IsFiniteSet(B) /\ SumOf(f, B) \in Int
    BY <2>1, FS_Subset, SumOfInt
  <2>3. PICK x \in A : x \notin B
    <3>1. SumOf(f, A) # SumOf(f, B)
      BY <2>1, <2>2
    <3>2. A # B
      BY <3>1
    <3> QED BY <2>1, <3>2
  <2>4. IsFiniteSet(A \ {x}) /\ A \ {x} \in SUBSET A /\ A \ {x} # A /\ B \subseteq A \ {x}
    BY <2>1, <2>2, <2>3, FS_Subset
  <2>5. SumOf(f, B) <= SumOf(f, A \ {x})
    BY <2>1, <2>4
  <2>6. SumOf(f, A) = f[x] + SumOf(f, A \ {x})
    BY <2>1, <2>2, <2>3, SumOfWithout
  <2>7. SumOf(f, A \ {x}) \in Int /\ f[x] \in Nat
    BY <2>1, <2>3, <2>4, SumOfInt
  <2>8. SumOf(f, B) <= SumOf(f, A)
    BY <2>2, <2>5, <2>6, <2>7
  <2> QED BY <2>1, <2>8
<1> QED BY <1>1

\* Two sets without a common element.
LEMMA SumOfDisjoint ==
  ASSUME NEW S, IsFiniteSet(S), NEW f, \A x \in S : f[x] \in Int,
         NEW A \in SUBSET S, NEW B \in SUBSET S, A \cap B = {}
  PROVE  SumOf(f, A \cup B) = SumOf(f, A) + SumOf(f, B)
<1> DEFINE T == {C \in SUBSET B : SumOf(f, A \cup C) # SumOf(f, A) + SumOf(f, C)}
<1>0. IsFiniteSet(A) /\ IsFiniteSet(B) /\ \A C \in SUBSET B : IsFiniteSet(C) /\ IsFiniteSet(A \cup C)
  <2>1. \A C \in SUBSET B : C \in SUBSET S /\ A \cup C \in SUBSET S
    OBVIOUS
  <2> QED BY <2>1, FS_Subset
<1>1. ASSUME T # {} PROVE FALSE
  <2>1. PICK C \in T : \A D \in SUBSET C : D # C => D \notin T
    <3>1. T \in SUBSET SUBSET B
      OBVIOUS
    <3> HIDE DEF T
    <3> QED BY <1>0, <1>1, <3>1, SmallestSubset
  <2>2. IsFiniteSet(C) /\ IsFiniteSet(A \cup C) /\ C \in SUBSET B
    BY <1>0, <2>1
  <2>3. SumOf(f, A) \in Int
    BY <1>0, SumOfInt
  <2>4. C # {}
    <3>1. ASSUME C = {} PROVE SumOf(f, A \cup C) = SumOf(f, A) + SumOf(f, C)
      <4>1. A \cup C = A /\ SumOf(f, C) = 0
        BY <3>1, SumOfEmpty
      <4>2. SumOf(f, A \cup C) = SumOf(f, A)
        BY <4>1
      <4> HIDE DEF T
      <4> QED BY <4>1, <4>2, <2>3
    <3> QED BY <3>1, <2>1
  <2>5. PICK x \in C : TRUE
    BY <2>4
  <2>6. SumOf(f, A \cup C) = f[x] + SumOf(f, (A \cup C) \ {x})
        /\ SumOf(f, C) = f[x] + SumOf(f, C \ {x})
    BY <2>2, <2>5, SumOfWithout
  <2>7. (A \cup C) \ {x} = A \cup (C \ {x})
    BY <2>2, <2>5
  <2>8. SumOf(f, A \cup (C \ {x})) = SumOf(f, A) + SumOf(f, C \ {x})
    BY <2>1, <2>5
  <2>9. f[x] \in Int /\ SumOf(f, C \ {x}) \in Int
    <3>1. IsFiniteSet(C \ {x}) /\ \A y \in C \ {x} : f[y] \in Int
      BY <1>0, <2>2
    <3> QED BY <3>1, <2>2, <2>5, SumOfInt
  <2>10. SumOf(f, A \cup C) = f[x] + (SumOf(f, A) + SumOf(f, C \ {x}))
    BY <2>6, <2>7, <2>8
  <2>11. f[x] + (SumOf(f, A) + SumOf(f, C \ {x})) = SumOf(f, A) + (f[x] + SumOf(f, C \ {x}))
    BY <2>3, <2>9
  <2>12. SumOf(f, A \cup C) = SumOf(f, A) + SumOf(f, C)
    BY <2>6, <2>10, <2>11
  <2> QED BY <2>1, <2>12
<1> QED BY <1>1

LEMMA SumOfBounded ==
  ASSUME NEW S, IsFiniteSet(S), NEW k \in Nat, NEW f,
         \A x \in S : f[x] \in Nat /\ f[x] <= k
  PROVE  SumOf(f, S) <= k * Cardinality(S)
<1> DEFINE T == {A \in SUBSET S : ~ (SumOf(f, A) <= k * Cardinality(A))}
<1>1. ASSUME T # {} PROVE FALSE
  <2>1. PICK A \in T : \A B \in SUBSET A : B # A => B \notin T
    <3>1. T \in SUBSET SUBSET S
      OBVIOUS
    <3> HIDE DEF T
    <3> QED BY <1>1, <3>1, SmallestSubset
  <2>2. IsFiniteSet(A) /\ A # {}
    BY <2>1, FS_Subset, FS_EmptySet, SumOfEmpty
  <2>3. PICK x \in A : TRUE
    BY <2>2
  <2>4. IsFiniteSet(A \ {x}) /\ Cardinality(A) = Cardinality(A \ {x}) + 1
        /\ Cardinality(A \ {x}) \in Nat
    <3>1. IsFiniteSet(A \ {x}) /\ Cardinality(A \ {x}) = Cardinality(A) - 1
      BY <2>2, <2>3, FS_RemoveElement
    <3>2. Cardinality(A) \in Nat /\ Cardinality(A \ {x}) \in Nat
      BY <2>2, <3>1, FS_CardinalityType
    <3> QED BY <3>1, <3>2
  <2>5. SumOf(f, A \ {x}) <= k * Cardinality(A \ {x})
    BY <2>1, <2>3
  <2>6. SumOf(f, A) = f[x] + SumOf(f, A \ {x})
    BY <2>1, <2>2, <2>3, SumOfWithout
  <2>7. SumOf(f, A \ {x}) \in Int /\ f[x] \in Nat /\ f[x] <= k
    BY <2>1, <2>3, <2>4, SumOfInt
  <2>8. k * (Cardinality(A \ {x}) + 1) = k * Cardinality(A \ {x}) + k
    BY <2>4
  <2>9. k * Cardinality(A \ {x}) \in Int
    BY <2>4
  <2>10. SumOf(f, A) <= k * Cardinality(A)
    BY <2>4, <2>5, <2>6, <2>7, <2>8, <2>9
  <2> QED BY <2>1, <2>10
<1> QED BY <1>1

\* At most one value changes.
LEMMA SumOfUpdated ==
  ASSUME NEW S, IsFiniteSet(S), NEW f, \A x \in S : f[x] \in Int,
         NEW g, \A x \in S : g[x] \in Int, NEW e, \A x \in S : x # e => g[x] = f[x]
  PROVE  /\ e \in S => SumOf(g, S) = SumOf(f, S) + g[e] - f[e]
         /\ e \notin S => SumOf(g, S) = SumOf(f, S)
<1>1. ASSUME e \notin S PROVE SumOf(g, S) = SumOf(f, S)
  <2>1. \A x \in S : f[x] = g[x]
    BY <1>1
  <2> QED BY <2>1, SumOfSame
<1>2. ASSUME e \in S PROVE SumOf(g, S) = SumOf(f, S) + g[e] - f[e]
  <2>1. \A x \in S \ {e} : f[x] \in Int /\ f[x] = g[x]
    OBVIOUS
  <2>2. g[e] \in Int /\ f[e] \in Int
    BY <1>2
  <2>3. IsFiniteSet(S \ {e})
    BY FS_Subset
  <2>4. SumOf(f, S \ {e}) = SumOf(g, S \ {e}) /\ SumOf(f, S \ {e}) \in Int
    BY <2>1, <2>3, SumOfSame, SumOfInt
  <2>5. SumOf(f, S) = f[e] + SumOf(f, S \ {e}) /\ SumOf(g, S) = g[e] + SumOf(g, S \ {e})
    BY <1>2, SumOfWithout
  <2> QED BY <2>2, <2>4, <2>5
<1> QED BY <1>1, <1>2

\* An element that adds nothing.
LEMMA SumOfWithoutZero ==
  ASSUME NEW S, IsFiniteSet(S), NEW f, \A x \in S : f[x] \in Int, NEW e, f[e] = 0
  PROVE  SumOf(f, S) = SumOf(f, S \ {e})
<1>1. CASE e \notin S
  <2>1. S \ {e} = S
    BY <1>1
  <2> QED BY <2>1
<1>2. CASE e \in S
  <2>1. IsFiniteSet(S \ {e})
    BY FS_Subset
  <2>2. SumOf(f, S \ {e}) \in Int
    BY <2>1, SumOfInt
  <2>3. SumOf(f, S) = f[e] + SumOf(f, S \ {e})
    BY <1>2, SumOfWithout
  <2> QED BY <2>2, <2>3
<1> QED BY <1>1, <1>2

\* A non-empty set of numbers has a smallest one.
LEMMA SmallestNat ==
  ASSUME NEW T \in SUBSET Nat, T # {}
  PROVE  \E n \in T : \A m \in T : n <= m
<1>1. PICK n \in T : \A m \in T : ~ (<<m, n>> \in OpToRel(<, Nat))
  BY NatLessThanWellFounded, WFMin
<1>2. \A m \in T : <<m, n>> \in OpToRel(<, Nat) <=> m < n
  BY DEF OpToRel
<1>3. \A m \in T : ~(m < n)
  BY <1>1, <1>2
<1>4. \A m \in T : n <= m
  BY <1>3
<1> QED BY <1>4

-----------------------------------------------------------------------------
\* A recursion over the subsets of S that takes one element of each set away:
\* f[{}] is v, f[D] is a step from f[D without its pick] with that pick.
RecursionOn(S, v, pick, step, f) ==
  f = [D \in SUBSET S |-> IF D = {} THEN v ELSE step[<<f[D \ {pick[D]}], pick[D]>>]]

Picks(S, pick) == \A D \in SUBSET S : D # {} => pick[D] \in D

LEMMA RecursionUnique ==
  ASSUME NEW S, IsFiniteSet(S), NEW v, NEW pick, Picks(S, pick), NEW step,
         NEW f, RecursionOn(S, v, pick, step, f), NEW g, RecursionOn(S, v, pick, step, g)
  PROVE  f[S] = g[S]
<1> DEFINE T == {D \in SUBSET S : f[D] # g[D]}
<1>1. ASSUME T # {} PROVE FALSE
  <2>1. PICK D \in T : \A E \in SUBSET D : E # D => E \notin T
    <3>1. T \in SUBSET SUBSET S
      OBVIOUS
    <3> HIDE DEF T
    <3> QED BY <1>1, <3>1, SmallestSubset
  <2>2. D \in SUBSET S /\ D # {}
    BY <2>1 DEF RecursionOn
  <2>3. PICK x : x = pick[D] /\ x \in D
    BY <2>2 DEF Picks
  <2>4. f[D \ {x}] = g[D \ {x}]
    BY <2>1, <2>3
  <2>5. f[D] = step[<<f[D \ {x}], x>>] /\ g[D] = step[<<g[D \ {x}], x>>]
    BY <2>2, <2>3 DEF RecursionOn
  <2> QED BY <2>1, <2>4, <2>5
<1> QED BY <1>1

LEMMA RecursionOfSubset ==
  ASSUME NEW S, NEW v, NEW pick, NEW step, NEW f, RecursionOn(S, v, pick, step, f),
         NEW D \in SUBSET S, NEW g, g = [E \in SUBSET D |-> f[E]]
  PROVE  RecursionOn(D, v, pick, step, g)
<1>1. ASSUME NEW E \in SUBSET D
      PROVE  g[E] = IF E = {} THEN v ELSE step[<<g[E \ {pick[E]}], pick[E]>>]
  <2>1. E \in SUBSET S /\ E \ {pick[E]} \in SUBSET D
    OBVIOUS
  <2>2. f[E] = IF E = {} THEN v ELSE step[<<f[E \ {pick[E]}], pick[E]>>]
    BY <2>1 DEF RecursionOn
  <2> QED BY <2>1, <2>2
<1>2. g = [E \in SUBSET D |-> g[E]]
  OBVIOUS
<1> QED BY <1>1, <1>2 DEF RecursionOn

RecursionAt(D, v, pick, step) == (CHOOSE f : RecursionOn(D, v, pick, step, f))[D]

LEMMA RecursionExists ==
  ASSUME NEW S, IsFiniteSet(S), NEW v, NEW pick, Picks(S, pick), NEW step
  PROVE  \E f : RecursionOn(S, v, pick, step, f)
<1> DEFINE On(D, f) == RecursionOn(D, v, pick, step, f)
           At(D) == RecursionAt(D, v, pick, step)
           T == {D \in SUBSET S : ~ \E f : On(D, f)}
<1>1. On({}, [E \in SUBSET {} |-> v])
  BY DEF RecursionOn
<1>2. ASSUME T # {} PROVE FALSE
  <2>1. PICK D \in T : \A E \in SUBSET D : E # D => E \notin T
    <3>1. T \in SUBSET SUBSET S
      OBVIOUS
    <3> HIDE DEF T
    <3> QED BY <1>2, <3>1, SmallestSubset
  <2>2. D \in SUBSET S /\ ~ \E f : On(D, f)
    BY <2>1
  <2>3. ASSUME NEW E \in SUBSET D, E # D
        PROVE  \E f : On(E, f)
    BY <2>1, <2>3
  <2> HIDE DEF T
  <2> DEFINE d == [E \in SUBSET D |->
                     IF E = {} THEN v
                     ELSE IF E = D THEN step[<<At(D \ {pick[D]}), pick[D]>>] ELSE At(E)]
  <2>4. ASSUME NEW E \in SUBSET D, E # {}
        PROVE  pick[E] \in E
    BY <2>2, <2>4 DEF Picks
  <2>5. ASSUME NEW E \in SUBSET D, E # {}, E # D
        PROVE  At(E) = step[<<At(E \ {pick[E]}), pick[E]>>]
    <3>1. PICK f : f = CHOOSE k : On(E, k)
      OBVIOUS
    <3>2. On(E, f)
      BY <2>3, <2>5, <3>1
    <3>3. PICK F : F = E \ {pick[E]}
      OBVIOUS
    <3>4. F \in SUBSET E /\ F \in SUBSET D /\ F # D
      BY <2>4, <2>5, <3>3
    <3>5. PICK g : g = [G \in SUBSET F |-> f[G]]
      OBVIOUS
    <3>6. On(F, g) /\ g[F] = f[F]
      BY <3>2, <3>4, <3>5, RecursionOfSubset
    <3>7. PICK h : h = CHOOSE k : On(F, k)
      OBVIOUS
    <3>8. On(F, h)
      BY <2>3, <3>4, <3>7
    <3>9. IsFiniteSet(F) /\ Picks(F, pick)
      BY <2>2, <3>4, FS_Subset DEF Picks
    <3>10. h[F] = g[F]
      BY <3>6, <3>8, <3>9, RecursionUnique
    <3>11. At(F) = f[F]
      BY <3>7, <3>10, <3>6 DEF RecursionAt
    <3>12. f[E] = step[<<f[F], pick[E]>>]
      BY <2>5, <3>2, <3>3 DEF RecursionOn
    <3> QED BY <3>1, <3>3, <3>11, <3>12 DEF RecursionAt
  <2>6. At({}) = v
    <3>1. On({}, CHOOSE f : On({}, f))
      BY <1>1
    <3> QED BY <3>1 DEF RecursionAt, RecursionOn
  <2>7. D # {}
    BY <1>1, <2>2
  <2>8. ASSUME NEW E \in SUBSET D, E # D
        PROVE  d[E] = At(E)
    BY <2>6, <2>8
  <2>9. ASSUME NEW E \in SUBSET D
        PROVE  d[E] = IF E = {} THEN v ELSE step[<<d[E \ {pick[E]}], pick[E]>>]
    <3>1. CASE E = {}
      BY <3>1
    <3>2. CASE E # {}
      <4>1. PICK F : F = E \ {pick[E]}
        OBVIOUS
      <4>2. F \in SUBSET D /\ F # D
        BY <2>4, <3>2, <4>1
      <4>3. d[F] = At(F)
        BY <2>8, <4>2
      <4>4. d[E] = step[<<At(F), pick[E]>>]
        <5>1. CASE E = D
          BY <2>7, <4>1, <5>1
        <5>2. CASE E # D
          BY <2>5, <2>8, <3>2, <4>1, <5>2
        <5> QED BY <5>1, <5>2
      <4> QED BY <3>2, <4>1, <4>3, <4>4
    <3> QED BY <3>1, <3>2
  <2>10. d = [E \in SUBSET D |-> d[E]]
    OBVIOUS
  <2> HIDE DEF d, At
  <2>11. On(D, d)
    BY <2>9, <2>10 DEF RecursionOn
  <2> QED BY <2>2, <2>11
<1>3. S \in SUBSET S
  OBVIOUS
<1> QED BY <1>2, <1>3

\* With values in V, the recursion has a value for every subset.
LEMMA RecursionHas ==
  ASSUME NEW S, IsFiniteSet(S), NEW V, NEW v \in V, NEW pick, Picks(S, pick),
         NEW step \in [V \X S -> V]
  PROVE  \E f \in [SUBSET S -> V] : RecursionOn(S, v, pick, step, f)
<1>1. PICK f : RecursionOn(S, v, pick, step, f)
  BY RecursionExists
<1> DEFINE T == {D \in SUBSET S : f[D] \notin V}
<1>2. ASSUME T # {} PROVE FALSE
  <2>1. PICK D \in T : \A E \in SUBSET D : E # D => E \notin T
    <3>1. T \in SUBSET SUBSET S
      OBVIOUS
    <3> HIDE DEF T
    <3> QED BY <1>2, <3>1, SmallestSubset
  <2>2. D \in SUBSET S /\ D # {}
    BY <1>1, <2>1 DEF RecursionOn
  <2>3. PICK x : x = pick[D] /\ x \in D
    BY <2>2 DEF Picks
  <2>4. f[D \ {x}] \in V
    BY <2>1, <2>3
  <2>5. f[D] = step[<<f[D \ {x}], x>>]
    BY <1>1, <2>2, <2>3 DEF RecursionOn
  <2> QED BY <2>1, <2>2, <2>3, <2>4, <2>5
<1>3. f = [D \in SUBSET S |-> f[D]]
  BY <1>1 DEF RecursionOn
<1>4. f \in [SUBSET S -> V]
  BY <1>2, <1>3
<1> QED BY <1>1, <1>4

\* Where f is greatest on a finite set.
LEMMA GreatestOf ==
  ASSUME NEW S, IsFiniteSet(S), S # {}, NEW f, \A x \in S : f[x] \in Int
  PROVE  \E x \in S : \A y \in S : f[y] <= f[x]
<1> DEFINE Above(x) == {y \in S : f[y] >= f[x]}
           T == {Above(x) : x \in S}
<1>1. T \in SUBSET SUBSET S /\ T # {}
  OBVIOUS
<1>2. PICK A \in T : \A B \in SUBSET A : B # A => B \notin T
  <2> HIDE DEF T
  <2> QED BY <1>1, SmallestSubset
<1>3. PICK x \in S : A = Above(x)
  OBVIOUS
<1>4. ASSUME NEW y \in S, ~(f[y] <= f[x]) PROVE FALSE
  <2>1. f[x] \in Int /\ f[y] \in Int /\ f[x] < f[y] /\ \A z \in S : f[z] \in Int
    BY <1>4
  <2>2. \A z \in S : f[z] >= f[y] => f[z] >= f[x]
    BY <2>1
  <2>3. Above(y) \in SUBSET A
    BY <1>3, <2>2
  <2>4. f[x] >= f[x] /\ ~(f[x] >= f[y])
    BY <2>1
  <2>5. x \in A /\ x \notin Above(y)
    BY <1>3, <2>4
  <2> QED BY <2>3, <2>5, <1>2, <1>4
<1> QED BY <1>4

\* A value for every number of steps.
IterationOf(n, v, step, f) ==
  f = [i \in 0..n |-> IF i = 0 THEN v ELSE step[<<f[i - 1], i>>]]

LEMMA IterationHas ==
  ASSUME NEW n \in Nat, NEW V, NEW v \in V, NEW step \in [V \X (1..n) -> V]
  PROVE  \E f \in [0..n -> V] : IterationOf(n, v, step, f)
<1> DEFINE T == {k \in 0..n : ~ \E f \in [0..k -> V] : IterationOf(k, v, step, f)}
<1>1. ASSUME T # {} PROVE FALSE
  <2>1. PICK k \in T : \A m \in T : k <= m
    <3>1. T \in SUBSET Nat
      OBVIOUS
    <3> HIDE DEF T
    <3> QED BY <1>1, <3>1, SmallestNat
  <2>2. k \in 0..n /\ ~ \E f \in [0..k -> V] : IterationOf(k, v, step, f)
    OBVIOUS
  <2>3. k # 0
    <3>1. PICK f \in [0..0 -> V] : f = [i \in 0..0 |-> v]
      OBVIOUS
    <3>2. IterationOf(0, v, step, f)
      BY <3>1 DEF IterationOf
    <3> QED BY <2>2, <3>1, <3>2
  <2>4. PICK c \in [0..k - 1 -> V] : IterationOf(k - 1, v, step, c)
    <3>1. k - 1 \in 0..n /\ ~(k <= k - 1)
      BY <2>2, <2>3
    <3>2. k - 1 \notin T
      <4> HIDE DEF T
      <4> QED BY <2>1, <3>1
    <3> QED BY <3>1, <3>2
  <2>5. k \in 1..n /\ k - 1 \in 0..k - 1
    BY <2>2, <2>3
  <2> DEFINE d == [i \in 0..k |-> IF i = k THEN step[<<c[k - 1], k>>] ELSE c[i]]
  <2>6. ASSUME NEW i \in 0..k
        PROVE  d[i] \in V /\ d[i] = IF i = 0 THEN v ELSE step[<<d[i - 1], i>>]
    <3>1. CASE i = k
      <4>1. d[i - 1] = c[k - 1] /\ c[k - 1] \in V
        BY <2>3, <2>5, <3>1
      <4> QED BY <2>3, <2>5, <3>1, <4>1
    <3>2. CASE i # k
      <4>1. i \in 0..k - 1
        BY <2>2, <3>2
      <4>2. c[i] \in V /\ c[i] = IF i = 0 THEN v ELSE step[<<c[i - 1], i>>]
        BY <2>4, <4>1 DEF IterationOf
      <4>3. d[i] = c[i] /\ (i # 0 => d[i - 1] = c[i - 1])
        BY <2>2, <3>2
      <4> QED BY <4>2, <4>3
    <3> QED BY <3>1, <3>2
  <2>7. d = [i \in 0..k |-> d[i]]
    OBVIOUS
  <2> HIDE DEF d
  <2>8. d \in [0..k -> V] /\ IterationOf(k, v, step, d)
    BY <2>6, <2>7 DEF IterationOf
  <2> QED BY <2>2, <2>8
<1>2. n \in 0..n /\ n \notin T
  BY <1>1
<1> QED BY <1>2
=============================================================================
