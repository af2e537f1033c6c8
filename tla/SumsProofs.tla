----------------------------- MODULE SumsProofs -----------------------------
(***************************************************************************)
(* Sums over finite sets: what SumFunctionOnSet of the community modules   *)
(* computes, for every function and every finite set.                      *)
(*                                                                         *)
(* Induction over the subsets of a set takes the set of the good subsets   *)
(* in the place of a predicate, and follows from the well-foundedness of   *)
(* the strict subset ordering.  The fold that defines the sum is the last  *)
(* of a family of partial sums (Partial), any two of which agree.          *)
(***************************************************************************)
EXTENDS FiniteSetsExt, TLAPS, FiniteSetTheorems

\* Induction over the subsets of a finite set, with the set of the good ones in
\* the place of a predicate.
LEMMA SubsetInduction ==
    ASSUME NEW S, IsFiniteSet(S), NEW W,
           \A T \in SUBSET S : (\A U \in SUBSET T : U # T => U \in W) => T \in W
    PROVE  SUBSET S \subseteq W
<1>1. IsWellFoundedOn(StrictSubsetOrdering(S), SUBSET S)
  <2>1. IsWellFoundedOn(StrictSubsetOrdering(S), FiniteSubsetsOf(S))
    BY FS_StrictSubsetOrderingWellFounded, Zenon
  <2>2. FiniteSubsetsOf(S) = SUBSET S
    BY FS_FiniteSubsetsOfFinite, Zenon
  <2>. QED
    BY <2>1, <2>2, Zenon
<1>. DEFINE B == {T \in SUBSET S : T \notin W}
<1>. SUFFICES ASSUME B # {} PROVE FALSE
  OBVIOUS
<1>2. \E x \in B : \A y \in B : ~(<<y, x>> \in StrictSubsetOrdering(S))
  <2>1. B \subseteq SUBSET S
    OBVIOUS
  <2>. HIDE DEF B
  <2>. QED
    BY <1>1, <2>1, WFMin, SMT
<1>3. PICK T \in B : \A y \in B : ~(<<y, T>> \in StrictSubsetOrdering(S))
  BY <1>2
<1>4. \A U \in SUBSET T : U # T => U \in W
  BY <1>3 DEF StrictSubsetOrdering
<1>. QED
  BY <1>3, <1>4

\* g is the partial sums of f over the subsets of A, as the fold computes them.
Partial(g, f, A) ==
    g = [s \in SUBSET A |-> IF s = {} THEN 0
                            ELSE f[CHOOSE x \in s : TRUE] + g[s \ {CHOOSE x \in s : TRUE}]]

LEMMA SumIs ==
    ASSUME NEW f, NEW A
    PROVE  SumFunctionOnSet(f, A) = (CHOOSE g : Partial(g, f, A))[A]
BY DEF SumFunctionOnSet, FoldFunctionOnSet, MapThenFoldSet, Partial

\* Partial sums agree where their functions do.
LEMMA PartialAgree ==
    ASSUME NEW S, IsFiniteSet(S), NEW A, NEW B, S \subseteq A, S \subseteq B,
           NEW f, NEW h, \A x \in S : f[x] = h[x],
           NEW g1, Partial(g1, f, A), NEW g2, Partial(g2, h, B)
    PROVE  \A T \in SUBSET S : g1[T] = g2[T]
<1>. DEFINE W == {T \in SUBSET S : g1[T] = g2[T]}
<1>1. ASSUME NEW T \in SUBSET S, \A U \in SUBSET T : U # T => U \in W
      PROVE  T \in W
  <2>1. CASE T = {}
    BY <2>1 DEF Partial
  <2>2. CASE T # {}
    <3>1. PICK x : x = CHOOSE y \in T : TRUE
      OBVIOUS
    <3>2. x \in T
      BY <2>2, <3>1
    <3>3. g1[T \ {x}] = g2[T \ {x}]
      BY <1>1, <3>2
    <3>4. g1[T] = f[x] + g1[T \ {x}]
      BY <2>2, <3>1 DEF Partial
    <3>5. g2[T] = h[x] + g2[T \ {x}]
      BY <2>2, <3>1 DEF Partial
    <3>. QED
      BY <3>2, <3>3, <3>4, <3>5
  <2>. QED
    BY <2>1, <2>2
<1>2. SUBSET S \subseteq W
  <2>. HIDE DEF W
  <2>. QED
    BY <1>1, SubsetInduction
<1>. QED
  BY <1>2

LEMMA PartialExists ==
    ASSUME NEW A, IsFiniteSet(A), NEW f
    PROVE  \E g : Partial(g, f, A)
<1>. DEFINE W == {T \in SUBSET A : \E g : Partial(g, f, T)}
            V(U) == (CHOOSE g : Partial(g, f, U))[U]
<1>1. ASSUME NEW T \in SUBSET A, \A U \in SUBSET T : U # T => U \in W
      PROVE  T \in W
  <2>. DEFINE c(s) == CHOOSE x \in s : TRUE
              g0 == [s \in SUBSET T |-> IF s = {} THEN 0 ELSE f[c(s)] + V(s \ {c(s)})]
  <2>1. ASSUME NEW U \in SUBSET T, U # T PROVE g0[U] = V(U)
    <3>1. PICK gU : gU = CHOOSE g : Partial(g, f, U)
      OBVIOUS
    <3>2. Partial(gU, f, U) /\ V(U) = gU[U]
      BY <1>1, <2>1, <3>1
    <3>3. CASE U = {}
      BY <3>2, <3>3 DEF Partial
    <3>4. CASE U # {}
      <4>1. PICK x : x = c(U)
        OBVIOUS
      <4>2. x \in U /\ U \ {x} \in SUBSET T /\ U \ {x} # T
        BY <3>4, <4>1
      <4>3. PICK gX : gX = CHOOSE g : Partial(g, f, U \ {x})
        OBVIOUS
      <4>4. Partial(gX, f, U \ {x}) /\ V(U \ {x}) = gX[U \ {x}]
        BY <1>1, <4>2, <4>3
      <4>5. IsFiniteSet(U \ {x})
        BY FS_Subset, <4>2
      <4>6. gU[U \ {x}] = gX[U \ {x}]
        <5>1. \A Y \in SUBSET (U \ {x}) : gU[Y] = gX[Y]
          <6>1. U \ {x} \subseteq U /\ U \ {x} \subseteq U \ {x}
            OBVIOUS
          <6>. QED
            BY <3>2, <4>4, <4>5, <6>1, PartialAgree
        <5>. QED
          BY <5>1
      <4>7. gU[U] = f[x] + gU[U \ {x}]
        BY <3>2, <3>4, <4>1 DEF Partial
      <4>8. g0[U] = f[x] + V(U \ {x})
        <5>. HIDE DEF V
        <5>. QED
          BY <3>4, <4>1
      <4>. QED
        BY <3>2, <4>4, <4>6, <4>7, <4>8
    <3>. QED
      BY <3>3, <3>4
  <2>2. Partial(g0, f, T)
    <3>1. ASSUME NEW s \in SUBSET T, s # {}
          PROVE  g0[s \ {c(s)}] = V(s \ {c(s)})
      <4>1. c(s) \in s
        BY <3>1
      <4>. HIDE DEF V, c, g0
      <4>. QED
        BY <2>1, <3>1, <4>1
    <3>. HIDE DEF V
    <3>2. PICK k : k = g0
      OBVIOUS
    <3>3. k = [s \in SUBSET T |-> IF s = {} THEN 0 ELSE f[c(s)] + k[s \ {c(s)}]]
      <4>1. \A s \in SUBSET T : k[s] = IF s = {} THEN 0 ELSE f[c(s)] + V(s \ {c(s)})
        BY <3>2
      <4>2. k = [s \in SUBSET T |-> k[s]]
        BY <3>2
      <4>3. \A s \in SUBSET T : k[s] = IF s = {} THEN 0 ELSE f[c(s)] + k[s \ {c(s)}]
        <5>. HIDE DEF c, g0
        <5>. QED
          BY <3>1, <3>2, <4>1
      <4>. HIDE DEF c, g0
      <4>. QED
        BY <4>2, <4>3
    <3>. QED
      BY <3>2, <3>3 DEF Partial
  <2>. QED
    BY <2>2
<1>2. SUBSET A \subseteq W
  <2>. HIDE DEF W
  <2>. QED
    BY <1>1, SubsetInduction
<1>. QED
  BY <1>2

LEMMA SumOfEmpty == ASSUME NEW f PROVE SumFunctionOnSet(f, {}) = 0
<1>1. PICK g : g = CHOOSE p : Partial(p, f, {})
  OBVIOUS
<1>2. Partial(g, f, {})
  BY <1>1, PartialExists, FS_EmptySet
<1>. QED
  BY <1>1, <1>2, SumIs DEF Partial

\* The sum is the last of any partial sums.
LEMMA SumOfPartial ==
    ASSUME NEW A, IsFiniteSet(A), NEW B \in SUBSET A, NEW f, NEW g, Partial(g, f, A)
    PROVE  SumFunctionOnSet(f, B) = g[B]
<1>1. IsFiniteSet(B)
  BY FS_Subset
<1>2. PICK h : h = CHOOSE p : Partial(p, f, B)
  OBVIOUS
<1>3. Partial(h, f, B)
  BY <1>1, <1>2, PartialExists
<1>4. \A Y \in SUBSET B : h[Y] = g[Y]
  <2>1. B \subseteq B /\ B \subseteq A /\ \A x \in B : f[x] = f[x]
    OBVIOUS
  <2>. QED
    BY <1>1, <1>3, <2>1, PartialAgree
<1>. QED
  BY <1>2, <1>4, SumIs

\* Functions that agree have the same sum.
LEMMA SumCongruence ==
    ASSUME NEW A, IsFiniteSet(A), NEW f, NEW h, \A x \in A : f[x] = h[x]
    PROVE  SumFunctionOnSet(f, A) = SumFunctionOnSet(h, A)
<1>1. PICK g1 : Partial(g1, f, A)
  BY PartialExists
<1>2. PICK g2 : Partial(g2, h, A)
  BY PartialExists
<1>3. g1[A] = g2[A]
  BY <1>1, <1>2, PartialAgree
<1>. QED
  BY <1>1, <1>2, <1>3, SumOfPartial

LEMMA SumChosen ==
    ASSUME NEW A, IsFiniteSet(A), A # {}, NEW f
    PROVE  \E x \in A : SumFunctionOnSet(f, A) = f[x] + SumFunctionOnSet(f, A \ {x})
<1>1. PICK g : Partial(g, f, A)
  BY PartialExists
<1>2. PICK x : x = CHOOSE y \in A : TRUE
  OBVIOUS
<1>3. x \in A
  BY <1>2
<1>4. g[A] = f[x] + g[A \ {x}]
  BY <1>1, <1>2 DEF Partial
<1>5. SumFunctionOnSet(f, A) = g[A] /\ SumFunctionOnSet(f, A \ {x}) = g[A \ {x}]
  BY <1>1, SumOfPartial
<1>. QED
  BY <1>3, <1>4, <1>5

\* A sum of integers is an integer, of naturals a natural.
LEMMA SumType ==
    ASSUME NEW A, IsFiniteSet(A), NEW f, \A x \in A : f[x] \in Int
    PROVE  /\ SumFunctionOnSet(f, A) \in Int
           /\ (\A x \in A : f[x] >= 0) => SumFunctionOnSet(f, A) >= 0
<1>. DEFINE W == {T \in SUBSET A : /\ SumFunctionOnSet(f, T) \in Int
                                   /\ (\A x \in A : f[x] >= 0) => SumFunctionOnSet(f, T) >= 0}
<1>1. ASSUME NEW T \in SUBSET A, \A U \in SUBSET T : U # T => U \in W
      PROVE  T \in W
  <2>1. CASE T = {}
    BY <2>1, SumOfEmpty
  <2>2. CASE T # {}
    <3>1. PICK x \in T : SumFunctionOnSet(f, T) = f[x] + SumFunctionOnSet(f, T \ {x})
      BY <2>2, SumChosen, FS_Subset
    <3>2. T \ {x} \in W
      BY <1>1
    <3>. QED
      BY <3>1, <3>2
  <2>. QED
    BY <2>1, <2>2
<1>2. SUBSET A \subseteq W
  <2>. HIDE DEF W
  <2>. QED
    BY <1>1, SubsetInduction
<1>. QED
  BY <1>2

\* Any element can be taken out of the sum.
LEMMA SumRemove ==
    ASSUME NEW A, IsFiniteSet(A), NEW f, \A x \in A : f[x] \in Int
    PROVE  \A x \in A : SumFunctionOnSet(f, A) = f[x] + SumFunctionOnSet(f, A \ {x})
<1>. DEFINE W == {T \in SUBSET A :
                    \A x \in T : SumFunctionOnSet(f, T) = f[x] + SumFunctionOnSet(f, T \ {x})}
<1>1. ASSUME NEW T \in SUBSET A, \A U \in SUBSET T : U # T => U \in W
      PROVE  T \in W
  <2>. SUFFICES ASSUME NEW x \in T
                PROVE  SumFunctionOnSet(f, T) = f[x] + SumFunctionOnSet(f, T \ {x})
    OBVIOUS
  <2>1. PICK c \in T : SumFunctionOnSet(f, T) = f[c] + SumFunctionOnSet(f, T \ {c})
    BY SumChosen, FS_Subset
  <2>2. CASE c = x
    BY <2>1, <2>2
  <2>3. CASE c # x
    <3>1. T \ {c} \in W /\ T \ {x} \in W
      BY <1>1
    <3>2. SumFunctionOnSet(f, T \ {c}) = f[x] + SumFunctionOnSet(f, (T \ {c}) \ {x})
      BY <2>3, <3>1
    <3>3. SumFunctionOnSet(f, T \ {x}) = f[c] + SumFunctionOnSet(f, (T \ {x}) \ {c})
      BY <2>3, <3>1
    <3>4. (T \ {c}) \ {x} = (T \ {x}) \ {c}
      OBVIOUS
    <3>5. IsFiniteSet((T \ {x}) \ {c})
      BY FS_Subset
    <3>6. SumFunctionOnSet(f, (T \ {x}) \ {c}) \in Int
      BY <3>5, SumType
    <3>7. f[x] \in Int /\ f[c] \in Int
      OBVIOUS
    <3>8. PICK n \in Int : n = SumFunctionOnSet(f, (T \ {x}) \ {c})
      BY <3>6
    <3>9. SumFunctionOnSet(f, T) = f[c] + (f[x] + n)
      BY <2>1, <3>2, <3>4, <3>8
    <3>10. SumFunctionOnSet(f, T \ {x}) = f[c] + n
      BY <3>3, <3>8
    <3>. QED
      BY <3>7, <3>9, <3>10
  <2>. QED
    BY <2>2, <2>3
<1>2. SUBSET A \subseteq W
  <2>. HIDE DEF W
  <2>. QED
    BY <1>1, SubsetInduction
<1>. QED
  BY <1>2

\* A sum grows by what is added to its set.
LEMMA SumAdd ==
    ASSUME NEW A, IsFiniteSet(A), NEW x, x \notin A, NEW f, \A y \in A \cup {x} : f[y] \in Int
    PROVE  SumFunctionOnSet(f, A \cup {x}) = f[x] + SumFunctionOnSet(f, A)
<1>1. IsFiniteSet(A \cup {x})
  BY FS_AddElement
<1>2. (A \cup {x}) \ {x} = A
  OBVIOUS
<1>. QED
  BY <1>1, <1>2, SumRemove

\* A sum of more, and of larger, naturals is larger.
LEMMA SumMonotone ==
    ASSUME NEW B, IsFiniteSet(B), NEW A \in SUBSET B, NEW f, NEW h,
           \A x \in A : f[x] \in Int /\ f[x] <= h[x],
           \A x \in B : h[x] \in Int /\ h[x] >= 0
    PROVE  SumFunctionOnSet(f, A) <= SumFunctionOnSet(h, B)
<1>. DEFINE W == {T \in SUBSET B : SumFunctionOnSet(f, A \cap T) <= SumFunctionOnSet(h, T)}
<1>1. ASSUME NEW T \in SUBSET B, \A U \in SUBSET T : U # T => U \in W
      PROVE  T \in W
  <2>0. IsFiniteSet(T) /\ IsFiniteSet(A \cap T)
    BY FS_Subset
  <2>1. CASE T = {}
    <3>1. A \cap T = {}
      BY <2>1
    <3>. QED
      BY <2>1, <3>1, SumOfEmpty
  <2>2. CASE T # {}
    <3>1. PICK x : x \in T
      BY <2>2
    <3>2. T \ {x} \in W
      BY <1>1, <3>1
    <3>3. SumFunctionOnSet(h, T) = h[x] + SumFunctionOnSet(h, T \ {x})
      BY <2>0, <3>1, SumRemove
    <3>4. SumFunctionOnSet(h, T \ {x}) \in Int /\ SumFunctionOnSet(f, A \cap (T \ {x})) \in Int
      <4>1. IsFiniteSet(T \ {x}) /\ IsFiniteSet(A \cap (T \ {x}))
        BY <2>0, FS_Subset
      <4>. QED
        BY <4>1, SumType
    <3>5. CASE x \in A
      <4>1. (A \cap T) \ {x} = A \cap (T \ {x})
        OBVIOUS
      <4>2. SumFunctionOnSet(f, A \cap T) = f[x] + SumFunctionOnSet(f, (A \cap T) \ {x})
        BY <2>0, <3>1, <3>5, SumRemove
      <4>3. f[x] \in Int /\ h[x] \in Int /\ f[x] <= h[x]
        BY <3>1, <3>5
      <4>. QED
        BY <3>2, <3>3, <3>4, <4>1, <4>2, <4>3
    <3>6. CASE x \notin A
      <4>1. A \cap T = A \cap (T \ {x})
        BY <3>6
      <4>2. h[x] \in Int /\ h[x] >= 0
        BY <3>1
      <4>3. SumFunctionOnSet(f, A \cap T) <= SumFunctionOnSet(h, T \ {x})
        BY <3>2, <4>1
      <4>4. PICK a \in Int : a = SumFunctionOnSet(f, A \cap T)
        BY <3>4, <4>1
      <4>5. PICK b \in Int : b = SumFunctionOnSet(h, T \ {x})
        BY <3>4
      <4>. QED
        BY <3>3, <4>2, <4>3, <4>4, <4>5
    <3>. QED
      BY <3>5, <3>6
  <2>. QED
    BY <2>1, <2>2
<1>2. SUBSET B \subseteq W
  <2>. HIDE DEF W
  <2>. QED
    BY <1>1, SubsetInduction
<1>3. A \cap B = A
  OBVIOUS
<1>. QED
  BY <1>2, <1>3

\* A sum of zeros.
LEMMA SumZero ==
    ASSUME NEW A, IsFiniteSet(A), NEW f, \A x \in A : f[x] = 0
    PROVE  SumFunctionOnSet(f, A) = 0
<1>. DEFINE W == {T \in SUBSET A : SumFunctionOnSet(f, T) = 0}
<1>1. ASSUME NEW T \in SUBSET A, \A U \in SUBSET T : U # T => U \in W
      PROVE  T \in W
  <2>1. CASE T = {}
    BY <2>1, SumOfEmpty
  <2>2. CASE T # {}
    <3>1. PICK x \in T : SumFunctionOnSet(f, T) = f[x] + SumFunctionOnSet(f, T \ {x})
      BY <2>2, SumChosen, FS_Subset
    <3>2. T \ {x} \in W
      BY <1>1
    <3>. QED
      BY <3>1, <3>2
  <2>. QED
    BY <2>1, <2>2
<1>2. SUBSET A \subseteq W
  <2>. HIDE DEF W
  <2>. QED
    BY <1>1, SubsetInduction
<1>. QED
  BY <1>2

\* A sum is at most as many times a bound of its terms as it has terms.
LEMMA SumBound ==
    ASSUME NEW A, IsFiniteSet(A), NEW f, NEW m \in Nat, \A x \in A : f[x] \in Int /\ f[x] <= m
    PROVE  SumFunctionOnSet(f, A) <= Cardinality(A) * m
<1>. DEFINE W == {T \in SUBSET A : SumFunctionOnSet(f, T) <= Cardinality(T) * m}
<1>1. ASSUME NEW T \in SUBSET A, \A U \in SUBSET T : U # T => U \in W
      PROVE  T \in W
  <2>0. IsFiniteSet(T)
    BY FS_Subset
  <2>1. CASE T = {}
    BY <2>1, SumOfEmpty, FS_EmptySet
  <2>2. CASE T # {}
    <3>1. PICK x \in T : SumFunctionOnSet(f, T) = f[x] + SumFunctionOnSet(f, T \ {x})
      BY <2>0, <2>2, SumChosen
    <3>2. T \ {x} \in W
      BY <1>1
    <3>3. IsFiniteSet(T \ {x})
      BY <2>0, FS_RemoveElement
    <3>4. PICK k \in Nat : k = Cardinality(T \ {x})
      BY <3>3, FS_CardinalityType
    <3>5. Cardinality(T) = k + 1
      <4>1. Cardinality(T \ {x}) = Cardinality(T) - 1
        BY <2>0, FS_RemoveElement
      <4>2. Cardinality(T) \in Nat
        BY <2>0, FS_CardinalityType
      <4>. QED
        BY <3>4, <4>1, <4>2
    <3>6. PICK n \in Int : n = SumFunctionOnSet(f, T \ {x})
      BY <3>3, SumType
    <3>7. n <= k * m /\ f[x] \in Int /\ f[x] <= m
      BY <3>2, <3>4, <3>6
    <3>8. (k + 1) * m = k * m + m /\ k * m \in Int
      OBVIOUS
    <3>9. f[x] + n <= (k + 1) * m
      BY <3>7, <3>8
    <3>. QED
      BY <3>1, <3>5, <3>6, <3>9
  <2>. QED
    BY <2>1, <2>2
<1>2. SUBSET A \subseteq W
  <2>. HIDE DEF W
  <2>. QED
    BY <1>1, SubsetInduction
<1>. QED
  BY <1>2
=============================================================================
