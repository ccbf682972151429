-------------------------------- MODULE Sums --------------------------------
(***************************************************************************)
(* Sums over finite sets, for the proofs about balances and counters: the   *)
(* recursive equation of SumFunctionOnSet, and what follows when an element *)
(* is added, taken away or changed.                                         *)
(***************************************************************************)
EXTENDS Functions, FiniteSetTheorems, TLAPS

(* Induction without a predicate: a set of subsets has a smallest one, so the *)
(* set of those that a fact fails for is empty.                               *)
LEMMA SmallestSubset ==
  ASSUME NEW S, IsFiniteSet(S), NEW B, B \subseteq SUBSET S, B # {}
  PROVE  \E T \in B : \A U \in B : U \subseteq T => U = T
<1>1. B \subseteq FiniteSubsetsOf(S)
  BY FS_FiniteSubsetsOfFinite
<1>2. PICK T \in B : \A U \in B : <<U, T>> \notin StrictSubsetOrdering(S)
  BY <1>1, FS_StrictSubsetOrderingWellFounded, WFMin
<1>3. ASSUME NEW U \in B, U \subseteq T, U # T PROVE FALSE
  <2>1. <<U, T>> \in (SUBSET S) \X (SUBSET S)
    OBVIOUS
  <2>2. <<U, T>>[1] = U /\ <<U, T>>[2] = T
    OBVIOUS
  <2> QED BY <1>2, <1>3, <2>1, <2>2, Zenon DEF StrictSubsetOrdering
<1> QED BY <1>3

----------------------------------------------------------------------------
(* The equation *)

Pick(s) == CHOOSE x \in s : TRUE

(* g[s] is the sum of f over s, for the subsets s of S. *)
Folds(g, f, S) ==
  g = [s \in SUBSET S |-> IF s = {} THEN 0 ELSE f[Pick(s)] + g[s \ {Pick(s)}]]

LEMMA SumIsFold ==
  ASSUME NEW f, NEW S
  PROVE  SumFunctionOnSet(f, S) = (CHOOSE g : Folds(g, f, S))[S]
BY Zenon DEF SumFunctionOnSet, FoldFunctionOnSet, MapThenFoldSet, Folds, Pick

LEMMA PickFacts ==
  ASSUME NEW s, s # {}
  PROVE  Pick(s) \in s /\ s \ {Pick(s)} \subseteq s /\ s \ {Pick(s)} # s
<1>1. Pick(s) \in s
  BY DEF Pick
<1> QED BY <1>1

LEMMA FoldRestricts ==
  ASSUME NEW f, NEW S, NEW g, Folds(g, f, S), NEW T \in SUBSET S
  PROVE  Folds([s \in SUBSET T |-> g[s]], f, T)
<1> DEFINE h == [s \in SUBSET T |-> g[s]]
<1>1. ASSUME NEW s \in SUBSET T
      PROVE  g[s] = IF s = {} THEN 0 ELSE f[Pick(s)] + h[s \ {Pick(s)}]
  <2>1. s \in SUBSET S
    OBVIOUS
  <2>2. CASE s = {}
    BY <2>1, <2>2 DEF Folds
  <2>3. CASE s # {}
    <3>1. s \ {Pick(s)} \in SUBSET T
      OBVIOUS
    <3>2. h[s \ {Pick(s)}] = g[s \ {Pick(s)}]
      BY <3>1
    <3>3. g[s] = f[Pick(s)] + g[s \ {Pick(s)}]
      BY <2>1, <2>3 DEF Folds
    <3> QED BY <2>3, <3>2, <3>3
  <2> QED BY <2>2, <2>3
<1> QED BY <1>1, Zenon DEF Folds

LEMMA FoldUnique ==
  ASSUME NEW f, NEW S, IsFiniteSet(S), NEW g, Folds(g, f, S), NEW h, Folds(h, f, S)
  PROVE  g = h
<1> DEFINE B == {T \in SUBSET S : g[T] # h[T]}
<1>1. CASE B # {}
  <2>0. B \subseteq SUBSET S
    OBVIOUS
  <2> HIDE DEF B
  <2>1. PICK T \in B : \A U \in B : U \subseteq T => U = T
    BY <1>1, <2>0, SmallestSubset
  <2> USE DEF B
  <2>2. T # {}
    BY DEF Folds
  <2>3. T \ {Pick(T)} \in SUBSET S /\ T \ {Pick(T)} \notin B
    BY <2>1, <2>2, PickFacts
  <2>4. g[T \ {Pick(T)}] = h[T \ {Pick(T)}]
    BY <2>3
  <2>5. /\ g[T] = f[Pick(T)] + g[T \ {Pick(T)}]
        /\ h[T] = f[Pick(T)] + h[T \ {Pick(T)}]
    BY <2>2 DEF Folds
  <2> QED BY <2>4, <2>5
<1>2. CASE B = {}
  <2>1. \A T \in SUBSET S : g[T] = h[T]
    BY <1>2
  <2>2. /\ g = [s \in SUBSET S |-> g[s]]
        /\ h = [s \in SUBSET S |-> h[s]]
    BY DEF Folds
  <2> QED BY <2>1, <2>2
<1> QED BY <1>1, <1>2

LEMMA FoldExists ==
  ASSUME NEW f, NEW S, IsFiniteSet(S)
  PROVE  \E g : Folds(g, f, S)
<1> DEFINE B == {T \in SUBSET S : ~ \E g : Folds(g, f, T)}
<1>1. ASSUME NEW T \in B, \A U \in B : U \subseteq T => U = T
      PROVE  FALSE
  <2> DEFINE G(U) == CHOOSE g : Folds(g, f, U)
             h == [s \in SUBSET T |->
                     IF s = {} THEN 0 ELSE f[Pick(s)] + G(s \ {Pick(s)})[s \ {Pick(s)}]]
  <2>1. ASSUME NEW U \in SUBSET T, U # T
        PROVE  Folds(G(U), f, U) /\ IsFiniteSet(U)
    <3>1. U \in SUBSET S /\ U \notin B
      BY <1>1, <2>1
    <3>2. \E g : Folds(g, f, U)
      BY <3>1
    <3> QED BY <3>1, <3>2, FS_Subset, Zenon
  <2> HIDE DEF G
  <2>2. ASSUME NEW U \in SUBSET T, U # T, NEW V \in SUBSET U
        PROVE  G(U)[V] = G(V)[V]
    <3>1. V \in SUBSET T /\ V # T
      BY <2>2
    <3>2. Folds([s \in SUBSET V |-> G(U)[s]], f, V)
      BY <2>1, <2>2, FoldRestricts
    <3>3. G(V) = [s \in SUBSET V |-> G(U)[s]]
      BY <2>1, <3>1, <3>2, FoldUnique
    <3> QED BY <3>3
  <2>3. ASSUME NEW s \in SUBSET T, s # T
        PROVE  h[s] = G(s)[s]
    <3>1. Folds(G(s), f, s)
      BY <2>1, <2>3
    <3>2. CASE s = {}
      BY <3>1, <3>2 DEF Folds
    <3>3. CASE s # {}
      <4>1. G(s)[s] = f[Pick(s)] + G(s)[s \ {Pick(s)}]
        BY <3>1, <3>3 DEF Folds
      <4>2. G(s)[s \ {Pick(s)}] = G(s \ {Pick(s)})[s \ {Pick(s)}]
        BY <2>2, <2>3
      <4> QED BY <3>3, <4>1, <4>2
    <3> QED BY <3>2, <3>3
  <2>4. ASSUME NEW s \in SUBSET T
        PROVE  h[s] = IF s = {} THEN 0 ELSE f[Pick(s)] + h[s \ {Pick(s)}]
    <3>1. CASE s # {}
      <4>1. s \ {Pick(s)} \in SUBSET T /\ s \ {Pick(s)} # T
        BY <3>1, PickFacts
      <4>2. h[s \ {Pick(s)}] = G(s \ {Pick(s)})[s \ {Pick(s)}]
        BY <2>3, <4>1
      <4>3. h[s] = f[Pick(s)] + G(s \ {Pick(s)})[s \ {Pick(s)}]
        BY <3>1
      <4> QED BY <3>1, <4>2, <4>3
    <3> QED BY <3>1
  <2>5. h = [s \in SUBSET T |-> h[s]]
    OBVIOUS
  <2> HIDE DEF h
  <2>6. Folds(h, f, T)
    BY <2>4, <2>5, Zenon DEF Folds
  <2> QED BY <1>1, <2>6
<1>2. B \subseteq SUBSET S
  OBVIOUS
<1> HIDE DEF B
<1>3. B = {}
  BY <1>1, <1>2, SmallestSubset
<1> QED BY <1>3 DEF B

(* The sum of a set is that of the fold over any finite set around it. *)
LEMMA FoldIsSum ==
  ASSUME NEW f, NEW S, IsFiniteSet(S), NEW g, Folds(g, f, S), NEW T \in SUBSET S
  PROVE  g[T] = SumFunctionOnSet(f, T)
<1> DEFINE h == [s \in SUBSET T |-> g[s]]
           k == CHOOSE k : Folds(k, f, T)
<1>1. Folds(h, f, T)
  BY FoldRestricts
<1>0. IsFiniteSet(T)
  BY FS_Subset
<1>2. Folds(k, f, T)
  BY <1>1, Zenon
<1>3. h = k
  BY <1>0, <1>1, <1>2, FoldUnique
<1>4. SumFunctionOnSet(f, T) = k[T]
  BY SumIsFold
<1> QED BY <1>3, <1>4

LEMMA SumEquation ==
  ASSUME NEW f, NEW S, IsFiniteSet(S)
  PROVE  SumFunctionOnSet(f, S) =
           IF S = {} THEN 0
           ELSE f[Pick(S)] + SumFunctionOnSet(f, S \ {Pick(S)})
<1>1. PICK g : Folds(g, f, S)
  BY FoldExists
<1>2. g[S] = SumFunctionOnSet(f, S)
  BY <1>1, FoldIsSum
<1>3. g[S \ {Pick(S)}] = SumFunctionOnSet(f, S \ {Pick(S)})
  <2>1. S \ {Pick(S)} \in SUBSET S
    OBVIOUS
  <2> QED BY <1>1, <2>1, FoldIsSum
<1>4. g[S] = IF S = {} THEN 0 ELSE f[Pick(S)] + g[S \ {Pick(S)}]
  BY <1>1 DEF Folds
<1> QED BY <1>2, <1>3, <1>4

----------------------------------------------------------------------------
(* What the equation gives *)

LEMMA SumEmpty == ASSUME NEW f PROVE SumFunctionOnSet(f, {}) = 0
  BY SumEquation, FS_EmptySet

LEMMA SumInt ==
  ASSUME NEW f, NEW S, IsFiniteSet(S), \A x \in S : f[x] \in Int
  PROVE  SumFunctionOnSet(f, S) \in Int
<1> DEFINE B == {T \in SUBSET S : SumFunctionOnSet(f, T) \notin Int}
<1>1. ASSUME NEW T \in B, \A U \in B : U \subseteq T => U = T
      PROVE  FALSE
  <2>1. IsFiniteSet(T)
    BY FS_Subset
  <2>2. T # {}
    BY SumEmpty
  <2>3. /\ Pick(T) \in T
        /\ T \ {Pick(T)} \in SUBSET S
        /\ T \ {Pick(T)} \subseteq T
        /\ T \ {Pick(T)} # T
    BY <2>2, PickFacts
  <2>4. SumFunctionOnSet(f, T \ {Pick(T)}) \in Int
    BY <1>1, <2>3
  <2>5. f[Pick(T)] \in Int
    BY <2>3
  <2>6. SumFunctionOnSet(f, T) = f[Pick(T)] + SumFunctionOnSet(f, T \ {Pick(T)})
    BY <2>1, <2>2, SumEquation
  <2> QED BY <2>4, <2>5, <2>6
<1>2. B \subseteq SUBSET S
  OBVIOUS
<1> HIDE DEF B
<1>3. B = {}
  BY <1>1, <1>2, SmallestSubset
<1> QED BY <1>3 DEF B

LEMMA SumOfNats ==
  ASSUME NEW f, NEW S, IsFiniteSet(S), \A x \in S : f[x] \in Nat
  PROVE  SumFunctionOnSet(f, S) \in Nat
<1> DEFINE B == {T \in SUBSET S : SumFunctionOnSet(f, T) \notin Nat}
<1>1. ASSUME NEW T \in B, \A U \in B : U \subseteq T => U = T
      PROVE  FALSE
  <2>1. IsFiniteSet(T)
    BY FS_Subset
  <2>2. T # {}
    BY SumEmpty
  <2>3. /\ Pick(T) \in T
        /\ T \ {Pick(T)} \in SUBSET S
        /\ T \ {Pick(T)} \subseteq T
        /\ T \ {Pick(T)} # T
    BY <2>2, PickFacts
  <2>4. SumFunctionOnSet(f, T \ {Pick(T)}) \in Nat
    BY <1>1, <2>3
  <2>5. f[Pick(T)] \in Nat
    BY <2>3
  <2>6. SumFunctionOnSet(f, T) = f[Pick(T)] + SumFunctionOnSet(f, T \ {Pick(T)})
    BY <2>1, <2>2, SumEquation
  <2> QED BY <2>4, <2>5, <2>6
<1>2. B \subseteq SUBSET S
  OBVIOUS
<1> HIDE DEF B
<1>3. B = {}
  BY <1>1, <1>2, SmallestSubset
<1> QED BY <1>3 DEF B

LEMMA SumRemove ==
  ASSUME NEW f, NEW S, IsFiniteSet(S), \A x \in S : f[x] \in Int, NEW y \in S
  PROVE  SumFunctionOnSet(f, S) = f[y] + SumFunctionOnSet(f, S \ {y})
<1> DEFINE Fails(T) ==
             \E x \in T : SumFunctionOnSet(f, T) # f[x] + SumFunctionOnSet(f, T \ {x})
           B == {T \in SUBSET S : Fails(T)}
<1>1. ASSUME NEW T \in B, \A U \in B : U \subseteq T => U = T
      PROVE  FALSE
  <2>1. PICK x \in T : SumFunctionOnSet(f, T) # f[x] + SumFunctionOnSet(f, T \ {x})
    OBVIOUS
  <2> DEFINE p == Pick(T)
  <2>2. IsFiniteSet(T) /\ IsFiniteSet(T \ {x}) /\ IsFiniteSet(T \ {p}) /\ IsFiniteSet(T \ {x, p})
    <3>1. T \in SUBSET S /\ T \ {x} \in SUBSET S /\ T \ {p} \in SUBSET S /\ T \ {x, p} \in SUBSET S
      OBVIOUS
    <3> QED BY <3>1, FS_Subset
  <2>3. p \in T
    BY PickFacts
  <2>4. SumFunctionOnSet(f, T) = f[p] + SumFunctionOnSet(f, T \ {p})
    BY <2>2, SumEquation
  <2>5. x # p
    BY <2>1, <2>4
  <2>6. T \ {p} \in SUBSET S /\ T \ {p} # T /\ T \ {x} \in SUBSET S /\ T \ {x} # T
    BY <2>3
  <2>7. ~Fails(T \ {p}) /\ ~Fails(T \ {x})
    <3>1. T \ {p} \notin B /\ T \ {x} \notin B
      BY <1>1, <2>6
    <3> QED BY <2>6, <3>1
  <2>8. (T \ {p}) \ {x} = T \ {x, p} /\ (T \ {x}) \ {p} = T \ {x, p}
    OBVIOUS
  <2>9. SumFunctionOnSet(f, T \ {p}) = f[x] + SumFunctionOnSet(f, T \ {x, p})
    BY <2>5, <2>7, <2>8
  <2>10. SumFunctionOnSet(f, T \ {x}) = f[p] + SumFunctionOnSet(f, T \ {x, p})
    <3>1. p \in T \ {x}
      BY <2>3, <2>5
    <3> QED BY <2>7, <2>8, <3>1
  <2>11. SumFunctionOnSet(f, T \ {x, p}) \in Int
    BY <2>2, SumInt
  <2>12. f[x] \in Int /\ f[p] \in Int
    BY <2>3
  <2> HIDE DEF p
  <2> QED BY <2>1, <2>4, <2>9, <2>10, <2>11, <2>12
<1>2. B \subseteq SUBSET S
  OBVIOUS
<1> HIDE DEF B
<1>3. B = {}
  BY <1>1, <1>2, SmallestSubset
<1> QED BY <1>3 DEF B

LEMMA SumAdd ==
  ASSUME NEW f, NEW S, IsFiniteSet(S), NEW y, y \notin S, \A x \in S \cup {y} : f[x] \in Int
  PROVE  SumFunctionOnSet(f, S \cup {y}) = SumFunctionOnSet(f, S) + f[y]
<1>1. IsFiniteSet(S \cup {y})
  BY FS_AddElement
<1>2. (S \cup {y}) \ {y} = S
  OBVIOUS
<1>3. SumFunctionOnSet(f, S \cup {y}) = f[y] + SumFunctionOnSet(f, (S \cup {y}) \ {y})
  BY <1>1, SumRemove
<1>4. SumFunctionOnSet(f, S \cup {y}) = f[y] + SumFunctionOnSet(f, S)
  BY <1>2, <1>3, Zenon
<1>5. SumFunctionOnSet(f, S) \in Int /\ f[y] \in Int
  BY SumInt
<1> QED BY <1>4, <1>5

LEMMA SumCongruent ==
  ASSUME NEW f, NEW g, NEW S, IsFiniteSet(S), \A x \in S : f[x] = g[x]
  PROVE  SumFunctionOnSet(f, S) = SumFunctionOnSet(g, S)
<1> DEFINE B == {T \in SUBSET S : SumFunctionOnSet(f, T) # SumFunctionOnSet(g, T)}
<1>1. ASSUME NEW T \in B, \A U \in B : U \subseteq T => U = T
      PROVE  FALSE
  <2>1. IsFiniteSet(T)
    BY FS_Subset
  <2>2. T # {}
    BY SumEmpty
  <2>3. /\ Pick(T) \in T
        /\ T \ {Pick(T)} \in SUBSET S
        /\ T \ {Pick(T)} \subseteq T
        /\ T \ {Pick(T)} # T
    BY <2>2, PickFacts
  <2>4. SumFunctionOnSet(f, T \ {Pick(T)}) = SumFunctionOnSet(g, T \ {Pick(T)})
    BY <1>1, <2>3
  <2>5. f[Pick(T)] = g[Pick(T)]
    BY <2>3
  <2>6. /\ SumFunctionOnSet(f, T) = f[Pick(T)] + SumFunctionOnSet(f, T \ {Pick(T)})
        /\ SumFunctionOnSet(g, T) = g[Pick(T)] + SumFunctionOnSet(g, T \ {Pick(T)})
    BY <2>1, <2>2, SumEquation
  <2> QED BY <2>4, <2>5, <2>6
<1>2. B \subseteq SUBSET S
  OBVIOUS
<1> HIDE DEF B
<1>3. B = {}
  BY <1>1, <1>2, SmallestSubset
<1> QED BY <1>3 DEF B

LEMMA SumDisjoint ==
  ASSUME NEW f, NEW R, IsFiniteSet(R), NEW S, IsFiniteSet(S), R \cap S = {},
         \A x \in R \cup S : f[x] \in Int
  PROVE  SumFunctionOnSet(f, R \cup S) = SumFunctionOnSet(f, R) + SumFunctionOnSet(f, S)
<1> DEFINE B == {T \in SUBSET S :
             SumFunctionOnSet(f, R \cup T) # SumFunctionOnSet(f, R) + SumFunctionOnSet(f, T)}
<1>0. SumFunctionOnSet(f, R) \in Int
  BY SumInt
<1>1. ASSUME NEW T \in B, \A U \in B : U \subseteq T => U = T
      PROVE  FALSE
  <2> DEFINE p == Pick(T)
             Q == T \ {p}
  <2>1. T # {}
    <3>1. SumFunctionOnSet(f, R) = SumFunctionOnSet(f, R) + SumFunctionOnSet(f, {})
      BY <1>0, SumEmpty
    <3>2. R \cup {} = R
      OBVIOUS
    <3>3. SumFunctionOnSet(f, R \cup {}) = SumFunctionOnSet(f, R) + SumFunctionOnSet(f, {})
      BY <3>1, <3>2, Zenon
    <3>4. SumFunctionOnSet(f, R \cup T) # SumFunctionOnSet(f, R) + SumFunctionOnSet(f, T)
      OBVIOUS
    <3> QED BY <3>3, <3>4, Zenon
  <2>2. p \in T /\ Q \in SUBSET S /\ Q # T
    BY <2>1, PickFacts
  <2>3. SumFunctionOnSet(f, R \cup Q) = SumFunctionOnSet(f, R) + SumFunctionOnSet(f, Q)
    BY <1>1, <2>2
  <2>4. /\ p \notin Q /\ Q \cup {p} = T
        /\ p \notin R \cup Q /\ (R \cup Q) \cup {p} = R \cup T
    BY <2>2
  <2>5. IsFiniteSet(Q) /\ IsFiniteSet(R \cup Q)
    BY <2>2, FS_Subset, FS_Union
  <2> HIDE DEF p, Q
  <2>6. SumFunctionOnSet(f, Q \cup {p}) = SumFunctionOnSet(f, Q) + f[p]
    BY <2>2, <2>4, <2>5, SumAdd
  <2>7. SumFunctionOnSet(f, (R \cup Q) \cup {p}) = SumFunctionOnSet(f, R \cup Q) + f[p]
    BY <2>2, <2>4, <2>5, SumAdd
  <2>8. SumFunctionOnSet(f, Q) \in Int /\ f[p] \in Int
    BY <2>2, <2>5, SumInt
  <2>9. /\ SumFunctionOnSet(f, T) = SumFunctionOnSet(f, Q) + f[p]
        /\ SumFunctionOnSet(f, R \cup T) = SumFunctionOnSet(f, R \cup Q) + f[p]
    BY <2>4, <2>6, <2>7, Zenon
  <2>10. SumFunctionOnSet(f, R \cup T) # SumFunctionOnSet(f, R) + SumFunctionOnSet(f, T)
    OBVIOUS
  <2> HIDE DEF B
  <2> QED BY <1>0, <2>3, <2>8, <2>9, <2>10
<1>2. B \subseteq SUBSET S
  OBVIOUS
<1> HIDE DEF B
<1>3. B = {}
  BY <1>1, <1>2, SmallestSubset
<1> QED BY <1>3 DEF B

(* Two sums over sets that correspond one to one, with equal terms. *)
LEMMA SumAlong ==
  ASSUME NEW f, NEW g, NEW h, NEW S, IsFiniteSet(S),
         \A x \in S : f[x] \in Int /\ f[x] = g[h[x]],
         \A x, y \in S : h[x] = h[y] => x = y
  PROVE  /\ IsFiniteSet({h[x] : x \in S})
         /\ SumFunctionOnSet(f, S) = SumFunctionOnSet(g, {h[x] : x \in S})
<1> DEFINE image(T) == {h[x] : x \in T}
           B == {T \in SUBSET S : SumFunctionOnSet(f, T) # SumFunctionOnSet(g, image(T))}
<1>0. ASSUME NEW T \in SUBSET S PROVE IsFiniteSet(T) /\ IsFiniteSet(image(T))
  <2>1. IsFiniteSet(T)
    BY FS_Subset
  <2> DEFINE k == [x \in T |-> h[x]]
  <2>2. k \in Surjection(T, image(T))
    BY DEF Surjection
  <2> QED BY <2>1, <2>2, FS_Surjection
<1>1. ASSUME NEW T \in B, \A U \in B : U \subseteq T => U = T
      PROVE  FALSE
  <2> DEFINE p == Pick(T)
             Q == T \ {p}
  <2>1. T # {}
    <3>1. image({}) = {}
      OBVIOUS
    <3>2. SumFunctionOnSet(f, {}) = SumFunctionOnSet(g, image({}))
      BY <3>1, SumEmpty, Zenon
    <3>3. SumFunctionOnSet(f, T) # SumFunctionOnSet(g, image(T))
      OBVIOUS
    <3> QED BY <3>2, <3>3, Zenon
  <2>2. p \in T /\ Q \in SUBSET S /\ Q # T /\ Q \subseteq T
    BY <2>1, PickFacts
  <2>3. SumFunctionOnSet(f, Q) = SumFunctionOnSet(g, image(Q))
    BY <1>1, <2>2
  <2>4. /\ p \notin Q /\ Q \cup {p} = T
        /\ h[p] \notin image(Q) /\ image(Q) \cup {h[p]} = image(T)
    BY <2>2
  <2>5. IsFiniteSet(Q) /\ IsFiniteSet(image(Q))
    BY <1>0, <2>2
  <2>6. /\ \A x \in Q \cup {p} : f[x] \in Int
        /\ \A x \in image(Q) \cup {h[p]} : g[x] \in Int
        /\ f[p] = g[h[p]]
    BY <2>2
  <2>7. SumFunctionOnSet(f, T) # SumFunctionOnSet(g, image(T))
    OBVIOUS
  <2> HIDE DEF p, Q, image
  <2>8. SumFunctionOnSet(f, Q \cup {p}) = SumFunctionOnSet(f, Q) + f[p]
    BY <2>4, <2>5, <2>6, SumAdd
  <2>9. SumFunctionOnSet(g, image(Q) \cup {h[p]}) = SumFunctionOnSet(g, image(Q)) + g[h[p]]
    BY <2>4, <2>5, <2>6, SumAdd
  <2>10. /\ SumFunctionOnSet(f, T) = SumFunctionOnSet(f, Q) + f[p]
         /\ SumFunctionOnSet(g, image(T)) = SumFunctionOnSet(g, image(Q)) + g[h[p]]
    BY <2>4, <2>8, <2>9, Zenon
  <2> HIDE DEF B
  <2> QED BY <2>3, <2>6, <2>7, <2>10
<1>2. B \subseteq SUBSET S
  OBVIOUS
<1> HIDE DEF B
<1>3. B = {}
  BY <1>1, <1>2, SmallestSubset
<1>4. IsFiniteSet(image(S)) /\ SumFunctionOnSet(f, S) = SumFunctionOnSet(g, image(S))
  BY <1>0, <1>3 DEF B
<1> QED BY <1>4
=============================================================================
