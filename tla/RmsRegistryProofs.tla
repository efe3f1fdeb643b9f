------------------------- MODULE RmsRegistryProofs --------------------------
(***************************************************************************)
(* Proofs about the set of registered tasks, for any set of pids and any   *)
(* arguments of the R command.  What admission control sums up is a fold   *)
(* over the positions of the list, so the module begins with what folds    *)
(* over finite sets satisfy.                                               *)
(***************************************************************************)
EXTENDS RmsRegistry, ListLemmas, FiniteSetTheorems

\* Induction over a finite set, as the existence of a minimal counterexample.
LEMMA MinimalSubset ==
  ASSUME NEW S, IsFiniteSet(S), NEW Bad, Bad \subseteq SUBSET S, Bad # {}
  PROVE  \E T \in Bad : \A U \in Bad : U \subseteq T => U = T
<1>1. IsWellFoundedOn(StrictSubsetOrdering(S), SUBSET S)
  BY FS_StrictSubsetOrderingWellFounded, FS_FiniteSubsetsOfFinite
<1>2. \E T \in Bad : \A U \in Bad : ~(<<U, T>> \in StrictSubsetOrdering(S))
  BY <1>1, WFMin
<1> QED BY <1>2 DEF StrictSubsetOrdering

-----------------------------------------------------------------------------
(* Sums and products over a finite index set.  The two folds of the        *)
(* registry are handled together: kind is "sum" or "product".              *)

Unit(kind)       == IF kind = "sum" THEN 0 ELSE 1
Comb(kind, a, b) == IF kind = "sum" THEN a + b ELSE a * b
Pick(s)          == CHOOSE x \in s : TRUE

\* The function that the recursion in MapThenFoldSet() defines on the subsets.
IsFold(it, kind, f, S) ==
  it = [s \in SUBSET S |->
          IF s = {} THEN Unit(kind) ELSE Comb(kind, f[Pick(s)], it[s \ {Pick(s)}])]

Fold(kind, f, S) == (CHOOSE it : IsFold(it, kind, f, S))[S]

\* A non-empty set has the element that the recursion picks.
LEMMA PickIn == ASSUME NEW s, s # {} PROVE Pick(s) \in s
BY DEF Pick

\* The recursion equation, for a function known to satisfy it.
LEMMA FoldValue ==
  ASSUME NEW it, NEW kind, NEW f, NEW S, IsFold(it, kind, f, S), NEW s \in SUBSET S
  PROVE  it[s] = IF s = {} THEN Unit(kind) ELSE Comb(kind, f[Pick(s)], it[s \ {Pick(s)}])
BY DEF IsFold

\* Two solutions agree wherever both are defined.
LEMMA FoldUnique ==
  ASSUME NEW kind, NEW f, NEW A, NEW B, IsFiniteSet(A), NEW i, NEW j,
         IsFold(i, kind, f, A), IsFold(j, kind, f, B), NEW r, r \subseteq A, r \subseteq B
  PROVE  i[r] = j[r]
<1> DEFINE Bad == {s \in SUBSET A : s \subseteq B /\ i[s] # j[s]}
<1> SUFFICES ASSUME Bad # {} PROVE FALSE
  OBVIOUS
<1>1. PICK s \in Bad : \A t \in Bad : t \subseteq s => t = s
  <2>1. Bad \subseteq SUBSET A
    OBVIOUS
  <2> HIDE DEF Bad
  <2> QED BY <2>1, MinimalSubset
<1>2. s \subseteq A /\ s \subseteq B /\ i[s] # j[s]
  OBVIOUS
<1>3. CASE s = {}
  BY <1>2, <1>3, FoldValue
<1>4. CASE s # {}
  <2> DEFINE t == s \ {Pick(s)}
  <2>1. t \subseteq s /\ t # s /\ t \subseteq A /\ t \subseteq B
    BY <1>2, <1>4, PickIn
  <2>2. i[t] = j[t]
    BY <1>1, <2>1
  <2>3. s \in SUBSET A /\ s \in SUBSET B
    BY <1>2
  <2>4. i[s] = Comb(kind, f[Pick(s)], i[t])
    BY <1>4, <2>3, FoldValue
  <2>5. j[s] = Comb(kind, f[Pick(s)], j[t])
    <3>1. \A b \in SUBSET B : b # {} => j[b] = Comb(kind, f[Pick(b)], j[b \ {Pick(b)}])
      BY FoldValue
    <3> QED BY <1>4, <2>3, <3>1
  <2> QED BY <1>2, <2>2, <2>4, <2>5
<1> QED BY <1>3, <1>4

\* A solution exists on every finite set.
LEMMA FoldExists ==
  ASSUME NEW kind, NEW f, NEW S, IsFiniteSet(S)
  PROVE  \E it : IsFold(it, kind, f, S)
<1> DEFINE Bad == {s \in SUBSET S : ~\E it : IsFold(it, kind, f, s)}
<1> SUFFICES ASSUME Bad # {} PROVE FALSE
  OBVIOUS
<1>1. PICK T \in Bad : \A t \in Bad : t \subseteq T => t = T
  <2>1. Bad \subseteq SUBSET S
    OBVIOUS
  <2> HIDE DEF Bad
  <2> QED BY <2>1, MinimalSubset
<1>2. T \subseteq S /\ ~\E it : IsFold(it, kind, f, T)
  OBVIOUS
<1> DEFINE I(s) == CHOOSE it : IsFold(it, kind, f, s)
           less(s) == s \ {Pick(s)}
           g == [s \in SUBSET T |-> IF s = {} THEN Unit(kind)
                                    ELSE Comb(kind, f[Pick(s)], I(less(s))[less(s)])]
<1>3. ASSUME NEW s, s \subseteq T, s # T PROVE IsFold(I(s), kind, f, s)
  <2>1. s \in SUBSET S /\ s \notin Bad
    BY <1>1, <1>2, <1>3
  <2>2. \E it : IsFold(it, kind, f, s)
    BY <2>1
  <2> QED BY <2>2
<1> HIDE DEF Bad, I
<1>4. ASSUME NEW s, s \subseteq T, s # {} PROVE g[less(s)] = I(less(s))[less(s)]
  <2> DEFINE r == less(s)
  <2>1. r \subseteq T /\ r # T
    BY <1>4, PickIn
  <2>2. IsFold(I(r), kind, f, r)
    BY <1>3, <2>1
  <2>3. CASE r = {}
    BY <2>1, <2>2, <2>3, FoldValue
  <2>4. CASE r # {}
    <3> DEFINE q == less(r)
    <3>1. q \subseteq r /\ q \subseteq T /\ q # T
      BY <2>1
    <3>2. IsFold(I(q), kind, f, q)
      BY <1>3, <3>1
    <3>3. IsFiniteSet(r) /\ q \subseteq q /\ r \in SUBSET r
      BY <1>2, <2>1, FS_Subset
    <3> HIDE DEF q, r
    <3>4. I(r)[q] = I(q)[q]
      BY <2>2, <3>1, <3>2, <3>3, FoldUnique
    <3>5. I(r)[r] = Comb(kind, f[Pick(r)], I(r)[q])
      BY <2>2, <2>4, <3>3, FoldValue DEF q
    <3>6. g[r] = Comb(kind, f[Pick(r)], I(q)[q])
      BY <2>1, <2>4 DEF q
    <3> QED BY <3>4, <3>5, <3>6 DEF r
  <2> QED BY <2>3, <2>4
<1>5. IsFold(g, kind, f, T)
  <2> DEFINE h == [s \in SUBSET T |->
                     IF s = {} THEN Unit(kind) ELSE Comb(kind, f[Pick(s)], g[less(s)])]
  <2>1. ASSUME NEW s \in SUBSET T PROVE g[s] = h[s]
    BY <1>4
  <2>2. g = h
    BY <2>1
  <2> QED BY <2>2 DEF IsFold
<1> QED BY <1>2, <1>5

\* The recursion equation of the fold.
LEMMA FoldStep ==
  ASSUME NEW kind, NEW f, NEW S, IsFiniteSet(S)
  PROVE  Fold(kind, f, S) = IF S = {} THEN Unit(kind)
                            ELSE Comb(kind, f[Pick(S)], Fold(kind, f, S \ {Pick(S)}))
<1> DEFINE I(s) == CHOOSE it : IsFold(it, kind, f, s)
           R == S \ {Pick(S)}
<1>1. IsFold(I(S), kind, f, S)
  BY FoldExists
<1>2. IsFiniteSet(R)
  BY FS_Subset
<1>3. IsFold(I(R), kind, f, R)
  BY <1>2, FoldExists
<1>4. Fold(kind, f, S) = I(S)[S] /\ Fold(kind, f, R) = I(R)[R]
  BY DEF Fold
<1>5. R \subseteq S /\ R \subseteq R /\ S \in SUBSET S
  OBVIOUS
<1>6. I(S)[S] = IF S = {} THEN Unit(kind) ELSE Comb(kind, f[Pick(S)], I(S)[R])
  BY <1>1, <1>5, FoldValue
<1> HIDE DEF I, R
<1>7. I(S)[R] = I(R)[R]
  BY <1>1, <1>3, <1>5, FoldUnique
<1> QED BY <1>4, <1>6, <1>7 DEF R

\* Sum and product stay in the naturals ...
LEMMA CombNat ==
  ASSUME NEW kind, NEW a \in Nat, NEW b \in Nat
  PROVE  Comb(kind, a, b) \in Nat
<1>1. a * b \in Nat
  OBVIOUS
<1> QED BY <1>1 DEF Comb

\* ... and commute in the way that reordering a fold needs.
LEMMA CombSwap ==
  ASSUME NEW kind, NEW a \in Nat, NEW b \in Nat, NEW c \in Nat
  PROVE  Comb(kind, a, Comb(kind, b, c)) = Comb(kind, b, Comb(kind, a, c))
<1>1. a * (b * c) = b * (a * c)
  OBVIOUS
<1> QED BY <1>1 DEF Comb

\* A fold of naturals is a natural.
LEMMA FoldNat ==
  ASSUME NEW kind, NEW f, NEW S, IsFiniteSet(S), \A x \in S : f[x] \in Nat
  PROVE  Fold(kind, f, S) \in Nat
<1> DEFINE Bad == {s \in SUBSET S : Fold(kind, f, s) \notin Nat}
<1> SUFFICES ASSUME Bad # {} PROVE FALSE
  OBVIOUS
<1>1. PICK s \in Bad : \A t \in Bad : t \subseteq s => t = s
  <2>1. Bad \subseteq SUBSET S
    OBVIOUS
  <2> HIDE DEF Bad
  <2> QED BY <2>1, MinimalSubset
<1>2. s \subseteq S /\ Fold(kind, f, s) \notin Nat
  OBVIOUS
<1>3. IsFiniteSet(s)
  BY <1>2, FS_Subset
<1>4. CASE s = {}
  BY <1>2, <1>3, <1>4, FoldStep DEF Unit
<1>5. CASE s # {}
  <2> DEFINE t == s \ {Pick(s)}
  <2>1. Pick(s) \in s /\ t \in SUBSET S /\ t # s /\ t \subseteq s
    BY <1>2, <1>5, PickIn
  <2>2. Fold(kind, f, t) \in Nat
    BY <1>1, <2>1
  <2>3. f[Pick(s)] \in Nat
    BY <1>2, <2>1
  <2>4. Fold(kind, f, s) = Comb(kind, f[Pick(s)], Fold(kind, f, t))
    BY <1>3, <1>5, FoldStep
  <2> HIDE DEF t
  <2> QED BY <1>2, <2>2, <2>3, <2>4, CombNat
<1> QED BY <1>4, <1>5

\* The order does not matter: any element may be combined last.
LEMMA FoldTakeOut ==
  ASSUME NEW kind, NEW f, NEW S, IsFiniteSet(S), \A x \in S : f[x] \in Nat, NEW e \in S
  PROVE  Fold(kind, f, S) = Comb(kind, f[e], Fold(kind, f, S \ {e}))
<1> DEFINE Ok(s) == \A x \in s : Fold(kind, f, s) = Comb(kind, f[x], Fold(kind, f, s \ {x}))
           Bad == {s \in SUBSET S : ~Ok(s)}
<1> SUFFICES ASSUME Bad # {} PROVE FALSE
  OBVIOUS
<1>1. PICK s \in Bad : \A t \in Bad : t \subseteq s => t = s
  <2>1. Bad \subseteq SUBSET S
    OBVIOUS
  <2> HIDE DEF Bad
  <2> QED BY <2>1, MinimalSubset
<1>2. s \subseteq S /\ ~Ok(s)
  OBVIOUS
<1>3. \A t : t \subseteq s /\ t # s => Ok(t)
  BY <1>1, <1>2
<1> HIDE DEF Bad
<1>4. PICK x \in s : Fold(kind, f, s) # Comb(kind, f[x], Fold(kind, f, s \ {x}))
  BY <1>2
<1> DEFINE c == Pick(s)
           u == (s \ {c}) \ {x}
<1>5. c \in s /\ f[c] \in Nat /\ f[x] \in Nat
  BY <1>2, <1>4, PickIn
<1>6. Fold(kind, f, s) = Comb(kind, f[c], Fold(kind, f, s \ {c}))
  BY <1>2, <1>4, FS_Subset, FoldStep
<1> HIDE DEF c
<1>7. c # x
  BY <1>4, <1>6
<1>8. Fold(kind, f, s \ {c}) = Comb(kind, f[x], Fold(kind, f, u))
  <2>1. Ok(s \ {c})
    BY <1>3, <1>5
  <2> QED BY <2>1, <1>7
<1>9. Fold(kind, f, s \ {x}) = Comb(kind, f[c], Fold(kind, f, u))
  <2>1. Ok(s \ {x})
    BY <1>3
  <2>2. (s \ {x}) \ {c} = u
    OBVIOUS
  <2> QED BY <2>1, <2>2, <1>5, <1>7
<1>10. Fold(kind, f, u) \in Nat
  <2>1. u \subseteq S
    BY <1>2
  <2> QED BY <2>1, FS_Subset, FoldNat
<1> HIDE DEF u
<1> QED BY <1>4, <1>5, <1>6, <1>8, <1>9, <1>10, CombSwap

\* The fold over no index.
LEMMA FoldEmpty ==
  ASSUME NEW kind, NEW f
  PROVE  Fold(kind, f, {}) = Unit(kind)
BY FS_EmptySet, FoldStep

\* Renaming the indices does not change the fold.
LEMMA FoldReindex ==
  ASSUME NEW kind, NEW f, NEW g, NEW h, NEW S, NEW T, IsFiniteSet(S), IsFiniteSet(T),
         \A x \in S : h[x] \in T /\ f[x] = g[h[x]] /\ f[x] \in Nat,
         \A x, y \in S : h[x] = h[y] => x = y,
         \A y \in T : \E x \in S : h[x] = y
  PROVE  Fold(kind, f, S) = Fold(kind, g, T)
<1> DEFINE Image(s) == {h[x] : x \in s}
           Bad == {s \in SUBSET S : Fold(kind, f, s) # Fold(kind, g, Image(s))}
<1>1. Image(S) = T
  OBVIOUS
<1> SUFFICES ASSUME Bad # {} PROVE FALSE
  <2>1. S \notin Bad => Fold(kind, f, S) = Fold(kind, g, Image(S))
    OBVIOUS
  <2> QED BY <1>1, <2>1
<1>2. PICK s \in Bad : \A t \in Bad : t \subseteq s => t = s
  <2>1. Bad \subseteq SUBSET S
    OBVIOUS
  <2> HIDE DEF Bad
  <2> QED BY <2>1, MinimalSubset
<1>3. s \subseteq S /\ Fold(kind, f, s) # Fold(kind, g, Image(s))
  OBVIOUS
<1>4. \A t : t \subseteq s /\ t # s => Fold(kind, f, t) = Fold(kind, g, Image(t))
  BY <1>2, <1>3
<1> HIDE DEF Bad
<1>5. s # {}
  <2>1. Image({}) = {}
    OBVIOUS
  <2> QED BY <1>3, <2>1, FoldEmpty
<1>6. PICK e \in s : TRUE
  BY <1>5
<1>7. Image(s \ {e}) = Image(s) \ {h[e]} /\ h[e] \in Image(s) /\ Image(s) \subseteq T
  BY <1>3
<1>8. IsFiniteSet(s) /\ IsFiniteSet(Image(s)) /\ \A y \in Image(s) : g[y] \in Nat
  BY <1>3, <1>7, FS_Subset
<1>9. Fold(kind, f, s) = Comb(kind, f[e], Fold(kind, f, s \ {e}))
  BY <1>3, <1>8, FoldTakeOut
<1> HIDE DEF Image
<1>10. Fold(kind, g, Image(s)) = Comb(kind, g[h[e]], Fold(kind, g, Image(s) \ {h[e]}))
  BY <1>7, <1>8, FoldTakeOut
<1>11. Fold(kind, f, s \ {e}) = Fold(kind, g, Image(s \ {e}))
  BY <1>4
<1> QED BY <1>3, <1>7, <1>9, <1>10, <1>11

\* The fold depends only on the values at its indices.
LEMMA FoldSame ==
  ASSUME NEW kind, NEW f, NEW g, NEW S, IsFiniteSet(S),
         \A x \in S : f[x] = g[x] /\ f[x] \in Nat
  PROVE  Fold(kind, f, S) = Fold(kind, g, S)
<1> DEFINE h == [x \in S |-> x]
<1>1. /\ \A x \in S : h[x] \in S /\ f[x] = g[h[x]] /\ f[x] \in Nat
      /\ \A x, y \in S : h[x] = h[y] => x = y
      /\ \A y \in S : \E x \in S : h[x] = y
  OBVIOUS
<1> HIDE DEF h
<1> QED BY <1>1, FoldReindex

\* The library's folds are these.
LEMMA SumIsFold ==
  ASSUME NEW f, NEW S, IsFiniteSet(S)
  PROVE  SumFunctionOnSet(f, S) = Fold("sum", f, S)
<1> DEFINE IsSum(it) == it = [s \in SUBSET S |->
              IF s = {} THEN 0 ELSE f[CHOOSE x \in s : TRUE] + it[s \ {CHOOSE x \in s : TRUE}]]
<1>1. \A it : IsSum(it) <=> IsFold(it, "sum", f, S)
  BY DEF IsFold, Unit, Comb, Pick
<1>2. SumFunctionOnSet(f, S) = (CHOOSE it : IsSum(it))[S]
  BY DEF SumFunctionOnSet, FoldFunctionOnSet, MapThenFoldSet
<1> HIDE DEF IsSum
<1>3. IsFold(CHOOSE it : IsSum(it), "sum", f, S)
  <2>1. \E it : IsSum(it)
    BY <1>1, FoldExists
  <2>2. IsSum(CHOOSE it : IsSum(it))
    BY <2>1
  <2> QED BY <1>1, <2>2
<1>4. IsFold(CHOOSE it : IsFold(it, "sum", f, S), "sum", f, S)
  BY FoldExists
<1> QED BY <1>2, <1>3, <1>4, FoldUnique DEF Fold

Product(f) == FoldFunction(LAMBDA a, b : a * b, 1, f)

\* The product that PeriodProduct takes is this fold.
LEMMA ProductIsFold ==
  ASSUME NEW f, IsFiniteSet(DOMAIN f)
  PROVE  Product(f) = Fold("product", f, DOMAIN f)
<1> DEFINE S == DOMAIN f
           IsProd(it) == it = [s \in SUBSET S |->
              IF s = {} THEN 1 ELSE f[CHOOSE x \in s : TRUE] * it[s \ {CHOOSE x \in s : TRUE}]]
<1>1. \A it : IsProd(it) <=> IsFold(it, "product", f, S)
  BY DEF IsFold, Unit, Comb, Pick
<1>2. Product(f) = (CHOOSE it : IsProd(it))[S]
  BY DEF Product, FoldFunction, FoldFunctionOnSet, MapThenFoldSet
<1>0. IsFiniteSet(S) /\ S \subseteq S
  OBVIOUS
<1> HIDE DEF IsProd, S
<1>3. IsFold(CHOOSE it : IsProd(it), "product", f, S)
  <2>1. \E it : IsProd(it)
    BY <1>0, <1>1, FoldExists
  <2>2. IsProd(CHOOSE it : IsProd(it))
    BY <2>1
  <2> QED BY <1>1, <2>2
<1>4. IsFold(CHOOSE it : IsFold(it, "product", f, S), "product", f, S)
  BY <1>0, FoldExists
<1>5. Product(f) = Fold("product", f, S)
  BY <1>0, <1>2, <1>3, <1>4, FoldUnique DEF Fold
<1> QED BY <1>5 DEF S

\* A product of positive numbers is positive.
LEMMA ProductPositive ==
  ASSUME NEW f, NEW S, IsFiniteSet(S), \A x \in S : f[x] \in Nat \ {0}
  PROVE  Fold("product", f, S) \in Nat \ {0}
<1> DEFINE Bad == {s \in SUBSET S : Fold("product", f, s) \notin Nat \ {0}}
<1> SUFFICES ASSUME Bad # {} PROVE FALSE
  OBVIOUS
<1>1. PICK s \in Bad : \A t \in Bad : t \subseteq s => t = s
  <2>1. Bad \subseteq SUBSET S
    OBVIOUS
  <2> HIDE DEF Bad
  <2> QED BY <2>1, MinimalSubset
<1>2. s \subseteq S /\ Fold("product", f, s) \notin Nat \ {0}
  OBVIOUS
<1>3. IsFiniteSet(s)
  BY <1>2, FS_Subset
<1>4. PICK e \in s : TRUE
  BY <1>2, FoldEmpty DEF Unit
<1>5. Fold("product", f, s \ {e}) \in Nat \ {0}
  BY <1>1, <1>2, <1>4
<1>6. Fold("product", f, s) = f[e] * Fold("product", f, s \ {e})
  BY <1>2, <1>3, <1>4, FoldTakeOut DEF Comb
<1>7. f[e] \in Nat \ {0}
  BY <1>2, <1>4
<1>8. \A a, b \in Nat \ {0} : a * b \in Nat \ {0}
  OBVIOUS
<1> QED BY <1>2, <1>5, <1>6, <1>7, <1>8

\* Adding up inequalities: if each term, scaled, stays strictly below the
\* rounded-up multiple of P, so does the sum.
LEMMA SumBound ==
  ASSUME NEW f, NEW g, NEW S, IsFiniteSet(S), NEW K \in Nat, NEW P \in Nat,
         \A x \in S : f[x] \in Nat /\ g[x] \in Nat /\ K * f[x] + 1 <= (g[x] + 1) * P
  PROVE  K * Fold("sum", f, S) + Cardinality(S)
           <= (Fold("sum", g, S) + Cardinality(S)) * P
<1> DEFINE Ok(s) == K * Fold("sum", f, s) + Cardinality(s)
                      <= (Fold("sum", g, s) + Cardinality(s)) * P
           Bad == {s \in SUBSET S : ~Ok(s)}
<1> SUFFICES ASSUME Bad # {} PROVE FALSE
  OBVIOUS
<1>1. PICK s \in Bad : \A t \in Bad : t \subseteq s => t = s
  <2>1. Bad \subseteq SUBSET S
    OBVIOUS
  <2> HIDE DEF Bad
  <2> QED BY <2>1, MinimalSubset
<1>2. s \subseteq S /\ ~Ok(s)
  OBVIOUS
<1>3. \A t : t \subseteq s /\ t # s => Ok(t)
  BY <1>1, <1>2
<1> HIDE DEF Bad
<1>4. IsFiniteSet(s) /\ Cardinality(s) \in Nat
  BY <1>2, FS_Subset, FS_CardinalityType
<1>5. CASE s = {}
  <2>1. Fold("sum", f, s) = 0 /\ Fold("sum", g, s) = 0 /\ Cardinality(s) = 0
    BY <1>5, FoldEmpty, FS_EmptySet DEF Unit
  <2> QED BY <1>2, <2>1
<1>6. CASE s # {}
  <2>1. PICK e \in s : TRUE
    BY <1>6
  <2> DEFINE t == s \ {e}
  <2>2. /\ IsFiniteSet(t) /\ Cardinality(t) \in Nat
        /\ Cardinality(s) = Cardinality(t) + 1
    <3>1. IsFiniteSet(t) /\ Cardinality(t) = Cardinality(s) - 1
      BY <1>4, <2>1, FS_RemoveElement
    <3>2. Cardinality(t) \in Nat
      BY <3>1, FS_CardinalityType
    <3> QED BY <1>4, <3>1, <3>2
  <2>3. Ok(t)
    BY <1>3, <2>1
  <2>4. /\ Fold("sum", f, s) = f[e] + Fold("sum", f, t)
        /\ Fold("sum", g, s) = g[e] + Fold("sum", g, t)
    BY <1>2, <1>4, <2>1, FoldTakeOut DEF Comb
  <2>5. Fold("sum", f, t) \in Nat /\ Fold("sum", g, t) \in Nat
    BY <1>2, <2>2, FoldNat
  <2>6. f[e] \in Nat /\ g[e] \in Nat /\ K * f[e] + 1 <= (g[e] + 1) * P
    BY <1>2
  <2> HIDE DEF t
  <2>7. ASSUME NEW a \in Nat, NEW b \in Nat, NEW x \in Nat, NEW y \in Nat, NEW n \in Nat,
               K * a + n <= (b + n) * P, K * x + 1 <= (y + 1) * P
        PROVE  K * (x + a) + (n + 1) <= ((y + b) + (n + 1)) * P
    <3>1. K * (x + a) = K * x + K * a
      OBVIOUS
    <3>2. ((y + b) + (n + 1)) * P = (b + n) * P + (y + 1) * P
      OBVIOUS
    <3>3. K * x \in Int /\ K * a \in Int /\ (b + n) * P \in Int /\ (y + 1) * P \in Int
      OBVIOUS
    <3> QED BY <2>7, <3>1, <3>2, <3>3
  <2>8. Ok(s)
    BY <2>2, <2>3, <2>4, <2>5, <2>6, <2>7
  <2> QED BY <1>2, <2>8
<1> QED BY <1>5, <1>6

-----------------------------------------------------------------------------
(* The registry                                                            *)

TaskType == [pid : Pid, period : Ulongs, comp_time : Ulongs]

\* The int arguments of a command land in the range of the PCB fields.
LEMMA RegisterType ==
  ASSUME NEW pid \in Pid, NEW period \in PeriodArg, NEW comp_time \in CompArg
  PROVE  Task(pid, Ulong(period), Ulong(comp_time)) \in TaskType
<1>1. Ulong(period) \in Ulongs /\ Ulong(comp_time) \in Ulongs
  BY UlongModAssumption, ArgAssumption DEF Ulong, Ulongs
<1> QED BY <1>1 DEF Task, TaskType

\* Each command keeps the entries well formed.
LEMMA RegistryTypeStep == TypeOK /\ [Next]_tasks => TypeOK'
<1> SUFFICES ASSUME TypeOK, [Next]_tasks PROVE TypeOK'
  OBVIOUS
<1>1. TypeOK <=> tasks \in Seq(TaskType)
  BY DEF TypeOK, TaskType
<1>2. TypeOK' <=> tasks' \in Seq(TaskType)
  BY DEF TypeOK, TaskType
<1>3. CASE UNCHANGED tasks
  BY <1>3 DEF TypeOK
<1>4. ASSUME NEW pid \in Pid, NEW period \in PeriodArg, NEW comp_time \in CompArg,
             Register(pid, period, comp_time)
      PROVE  tasks' \in Seq(TaskType)
  <2> DEFINE t == Task(pid, Ulong(period), Ulong(comp_time))
  <2>1. t \in TaskType
    BY RegisterType
  <2>2. tasks' = Append(tasks, t)
    BY <1>4 DEF Register
  <2> HIDE DEF t
  <2> QED BY <1>1, <2>1, <2>2, AppendProperties
<1>5. ASSUME NEW pid \in Pid, Deregister(pid) PROVE tasks' \in Seq(TaskType)
  <2>1. PICK i \in DOMAIN tasks : tasks' = DelAt(tasks, i)
    BY <1>5 DEF Deregister
  <2> QED BY <1>1, <2>1, DelAtIndex
<1> QED BY <1>2, <1>3, <1>4, <1>5 DEF Next

\* Whatever is written to the proc file, the list holds well-formed tasks.
THEOREM RegistryTypeCorrect == Spec => []TypeOK
<1>1. Init => TypeOK
  BY DEF Init, TypeOK
<1> QED BY <1>1, RegistryTypeStep, PTL DEF Spec

\* A period that is not zero makes the division of taskregister() a natural.
LEMMA UtilNat ==
  ASSUME NEW t \in TaskType, t.period # 0
  PROVE  Util(t) \in Nat
<1>1. t.comp_time \in Nat /\ t.period \in Nat \ {0}
  BY UlongModAssumption DEF TaskType, Ulongs
<1>2. (t.comp_time * UtilScale) % UlongMod \in Nat
  BY <1>1, UlongModAssumption DEF UtilScale
<1>3. \A a \in Nat, b \in Nat \ {0} : a \div b \in Nat
  OBVIOUS
<1> QED BY <1>1, <1>2, <1>3 DEF Util

\* The sum that admission control tests, over the entries of a list.
Utils(ts) == [i \in DOMAIN ts |-> Util(ts[i])]

\* The loop over the list is a sum over its positions.
LEMMA UtilSumIsFold ==
  ASSUME NEW ts \in Seq(TaskType)
  PROVE  /\ IsFiniteSet(DOMAIN ts) /\ DOMAIN ts = 1 .. Len(ts) /\ Len(ts) \in Nat
         /\ SumFunction(Utils(ts)) = Fold("sum", Utils(ts), DOMAIN ts)
<1>1. DOMAIN ts = 1 .. Len(ts) /\ Len(ts) \in Nat
  OBVIOUS
<1>2. IsFiniteSet(DOMAIN ts)
  BY <1>1, FS_Interval
<1>3. SumFunction(Utils(ts)) = SumFunctionOnSet(Utils(ts), DOMAIN ts)
  BY DEF SumFunction, Utils
<1> QED BY <1>1, <1>2, <1>3, SumIsFold

\* list_add_tail() adds the utilisation of the new task ...
LEMMA UtilSumAppend ==
  ASSUME NEW ts \in Seq(TaskType), NEW t \in TaskType, t.period # 0,
         \A i \in DOMAIN ts : ts[i].period # 0
  PROVE  /\ SumFunction(Utils(Append(ts, t))) = Util(t) + SumFunction(Utils(ts))
         /\ SumFunction(Utils(ts)) \in Nat
<1> DEFINE r == Append(ts, t)
           n == Len(ts)
<1>1. /\ n \in Nat /\ r \in Seq(TaskType) /\ DOMAIN ts = 1 .. n /\ DOMAIN r = 1 .. n + 1
      /\ r[n + 1] = t /\ \A i \in 1 .. n : r[i] = ts[i] /\ ts[i] \in TaskType
  BY AppendProperties
<1>2. /\ IsFiniteSet(1 .. n) /\ IsFiniteSet(1 .. n + 1)
      /\ SumFunction(Utils(ts)) = Fold("sum", Utils(ts), 1 .. n)
      /\ SumFunction(Utils(r)) = Fold("sum", Utils(r), 1 .. n + 1)
  BY <1>1, UtilSumIsFold
<1> HIDE DEF r, n
<1>3. \A i \in 1 .. n : Util(ts[i]) \in Nat
  BY <1>1, UtilNat
<1>4. Util(t) \in Nat
  BY UtilNat
<1> DEFINE f == Utils(ts)
           g == Utils(r)
<1>5. \A i \in 1 .. n : f[i] = Util(ts[i]) /\ g[i] = Util(ts[i])
  BY <1>1 DEF Utils
<1>6. g[n + 1] = Util(t)
  BY <1>1 DEF Utils
<1> HIDE DEF f, g
<1>7. (1 .. n + 1) \ {n + 1} = 1 .. n /\ n + 1 \in 1 .. n + 1
      /\ \A i \in 1 .. n + 1 : i \in 1 .. n \/ i = n + 1
  BY <1>1
<1>8. \A i \in 1 .. n + 1 : g[i] \in Nat
  BY <1>3, <1>4, <1>5, <1>6, <1>7
<1>9. Fold("sum", g, 1 .. n + 1) = Comb("sum", g[n + 1], Fold("sum", g, (1 .. n + 1) \ {n + 1}))
  <2> DEFINE T == 1 .. n + 1
             e == n + 1
  <2>1. IsFiniteSet(T) /\ e \in T /\ \A i \in T : g[i] \in Nat
    BY <1>2, <1>7, <1>8
  <2> HIDE DEF T, e
  <2>2. Fold("sum", g, T) = Comb("sum", g[e], Fold("sum", g, T \ {e}))
    BY <2>1, FoldTakeOut
  <2> QED BY <2>2 DEF T, e
<1>10. Fold("sum", g, 1 .. n + 1) = Util(t) + Fold("sum", g, 1 .. n)
  BY <1>6, <1>7, <1>9 DEF Comb
<1>11. \A i \in 1 .. n : g[i] = f[i] /\ g[i] \in Nat /\ f[i] \in Nat
  BY <1>3, <1>5
<1>12. Fold("sum", g, 1 .. n) = Fold("sum", f, 1 .. n)
  <2> DEFINE T == 1 .. n
  <2>1. IsFiniteSet(T) /\ \A i \in T : g[i] = f[i] /\ g[i] \in Nat
    BY <1>2, <1>11
  <2> HIDE DEF T
  <2>2. Fold("sum", g, T) = Fold("sum", f, T)
    BY <2>1, FoldSame
  <2> QED BY <2>2 DEF T
<1>13. Fold("sum", f, 1 .. n) \in Nat
  BY <1>2, <1>11, FoldNat
<1> QED BY <1>2, <1>10, <1>12, <1>13 DEF f, g, r

\* ... and list_del() takes that of the removed task away.
LEMMA UtilSumRemove ==
  ASSUME NEW ts \in Seq(TaskType), \A i \in DOMAIN ts : ts[i].period # 0,
         NEW k \in DOMAIN ts
  PROVE  /\ SumFunction(Utils(ts)) = Util(ts[k]) + SumFunction(Utils(DelAt(ts, k)))
         /\ SumFunction(Utils(DelAt(ts, k))) \in Nat /\ Util(ts[k]) \in Nat
<1> DEFINE r == DelAt(ts, k)
           n == Len(ts)
           h == [i \in 1 .. n - 1 |-> IF i < k THEN i ELSE i + 1]
<1>1. /\ n \in Nat /\ k \in 1 .. n /\ DOMAIN ts = 1 .. n
      /\ \A i \in 1 .. n : ts[i] \in TaskType /\ ts[i].period # 0
  OBVIOUS
<1>2. /\ r \in Seq(TaskType) /\ Len(r) = n - 1
      /\ \A i \in 1 .. n - 1 : r[i] = IF i < k THEN ts[i] ELSE ts[i + 1]
  BY DelAtIndex
<1>3. DOMAIN r = 1 .. n - 1
  BY <1>2
<1>4. /\ IsFiniteSet(1 .. n) /\ IsFiniteSet(1 .. n - 1)
      /\ SumFunction(Utils(ts)) = Fold("sum", Utils(ts), 1 .. n)
      /\ SumFunction(Utils(r)) = Fold("sum", Utils(r), 1 .. n - 1)
  BY <1>1, <1>2, <1>3, UtilSumIsFold
<1>5. \A i \in 1 .. n : Utils(ts)[i] = Util(ts[i]) /\ Utils(ts)[i] \in Nat
  BY <1>1, UtilNat DEF Utils
<1> HIDE DEF r, n
<1>6. /\ \A i \in 1 .. n - 1 : h[i] \in (1 .. n) \ {k} /\ r[i] = ts[h[i]]
      /\ \A i, j \in 1 .. n - 1 : h[i] = h[j] => i = j
  BY <1>1, <1>2
<1>7. \A j \in (1 .. n) \ {k} : \E i \in 1 .. n - 1 : h[i] = j
  <2> SUFFICES ASSUME NEW j \in (1 .. n) \ {k} PROVE \E i \in 1 .. n - 1 : h[i] = j
    OBVIOUS
  <2>1. CASE j < k
    <3>1. j \in 1 .. n - 1 /\ h[j] = j
      BY <1>1, <2>1
    <3> QED BY <3>1
  <2>2. CASE j > k
    <3>1. j - 1 \in 1 .. n - 1 /\ h[j - 1] = j
      BY <1>1, <2>2
    <3> QED BY <3>1
  <2> QED BY <1>1, <2>1, <2>2
<1> HIDE DEF h
<1> DEFINE f == Utils(ts)
           g == Utils(r)
<1>8. \A i \in 1 .. n - 1 : h[i] \in (1 .. n) \ {k} /\ g[i] = f[h[i]] /\ g[i] \in Nat
  <2>1. \A i \in 1 .. n - 1 : g[i] = Util(r[i])
    BY <1>3 DEF Utils
  <2> QED BY <1>5, <1>6, <2>1
<1>9. IsFiniteSet((1 .. n) \ {k})
  BY <1>4, FS_RemoveElement
<1>10. \A i \in 1 .. n : f[i] \in Nat
  BY <1>5
<1>11. f[k] = Util(ts[k]) /\ Util(ts[k]) \in Nat
  BY <1>1, <1>5
<1> HIDE DEF f, g
<1>12. Fold("sum", g, 1 .. n - 1) = Fold("sum", f, (1 .. n) \ {k})
  <2> DEFINE A == 1 .. n - 1
             B == (1 .. n) \ {k}
  <2>1. /\ IsFiniteSet(A) /\ IsFiniteSet(B)
        /\ \A x \in A : h[x] \in B /\ g[x] = f[h[x]] /\ g[x] \in Nat
        /\ \A x, y \in A : h[x] = h[y] => x = y
        /\ \A y \in B : \E x \in A : h[x] = y
    BY <1>4, <1>6, <1>7, <1>8, <1>9
  <2> HIDE DEF A, B
  <2>2. Fold("sum", g, A) = Fold("sum", f, B)
    BY ONLY <2>1, FoldReindex
  <2> QED BY <2>2 DEF A, B
<1>13. Fold("sum", f, 1 .. n) = Comb("sum", f[k], Fold("sum", f, (1 .. n) \ {k}))
  <2> DEFINE T == 1 .. n
             e == k
  <2>1. IsFiniteSet(T) /\ e \in T /\ \A i \in T : f[i] \in Nat
    BY <1>1, <1>4, <1>10
  <2> HIDE DEF T, e
  <2>2. Fold("sum", f, T) = Comb("sum", f[e], Fold("sum", f, T \ {e}))
    BY ONLY <2>1, FoldTakeOut
  <2> QED BY <2>2 DEF T, e
<1>14. Fold("sum", g, 1 .. n - 1) \in Nat
  BY <1>4, <1>8, FoldNat
<1> QED BY <1>4, <1>11, <1>12, <1>13, <1>14 DEF f, g, r, Comb

\* A registration is tested with the sum of the list it makes; a
\* deregistration only lowers the sum.
LEMMA AdmittedStep ==
  ASSUME NoWrap
  PROVE  TypeOK /\ AdmittedInv /\ [Next]_tasks => AdmittedInv'
<1> SUFFICES ASSUME TypeOK, AdmittedInv, [Next]_tasks PROVE AdmittedInv'
  OBVIOUS
<1>1. tasks \in Seq(TaskType)
  BY DEF TypeOK, TaskType
<1>2. AdmittedInv <=> /\ \A i \in DOMAIN tasks :
                           tasks[i].period # 0 /\ tasks[i].comp_time * UtilScale < UlongMod
                      /\ SumFunction(Utils(tasks)) <= UtilBound
  BY DEF AdmittedInv, Utils
<1>3. AdmittedInv' <=> /\ \A i \in DOMAIN tasks' :
                            tasks'[i].period # 0 /\ tasks'[i].comp_time * UtilScale < UlongMod
                       /\ SumFunction(Utils(tasks')) <= UtilBound
  BY DEF AdmittedInv, Utils
<1>4. CASE UNCHANGED tasks
  BY <1>4 DEF AdmittedInv
<1>5. ASSUME NEW pid \in Pid, NEW period \in PeriodArg, NEW comp_time \in CompArg,
             Register(pid, period, comp_time)
      PROVE  AdmittedInv'
  <2> DEFINE t == Task(pid, Ulong(period), Ulong(comp_time))
             s == SumFunction(Utils(tasks))
             s1 == SumFunction(Utils(tasks'))
  <2>1. t \in TaskType
    BY RegisterType
  <2>2. /\ tasks' = Append(tasks, t) /\ t.period # 0
        /\ UtilSum(Append(tasks, t)) <= UtilBound
    BY <1>5 DEF Register, Admits
  <2>3. /\ Util(t) + UtilBound < UlongMod
        /\ Util(t) <= UtilBound => t.comp_time * UtilScale < UlongMod
    BY <2>2, NoWrap DEF NoWrap
  <2> HIDE DEF t
  <2>4. Util(t) \in Nat
    BY <2>1, <2>2, UtilNat
  <2>5. s1 = Util(t) + s /\ s \in Nat
    BY <1>1, <1>2, <2>1, <2>2, UtilSumAppend
  <2>6. s1 % UlongMod <= UtilBound
    BY <2>2 DEF UtilSum, Utils
  <2>7. s <= UtilBound
    BY <1>2
  <2> HIDE DEF s, s1
  <2>8. s1 <= UtilBound
    <3>1. s1 \in Nat /\ s1 < UlongMod
      BY <2>3, <2>4, <2>5, <2>7, UlongModAssumption DEF UtilBound
    <3>2. s1 % UlongMod = s1
      BY <3>1, UlongModAssumption
    <3> QED BY <2>6, <3>2
  <2>9. Util(t) <= UtilBound
    BY <2>4, <2>5, <2>8 DEF UtilBound
  <2>10. ASSUME NEW i \in DOMAIN tasks'
         PROVE  tasks'[i].period # 0 /\ tasks'[i].comp_time * UtilScale < UlongMod
    <3>1. (i \in DOMAIN tasks /\ tasks'[i] = tasks[i]) \/ tasks'[i] = t
      BY <1>1, <2>1, <2>2, AppendProperties
    <3> QED BY <1>2, <2>2, <2>3, <2>9, <3>1
  <2> QED BY <1>3, <2>8, <2>10 DEF s1
<1>6. ASSUME NEW pid \in Pid, Deregister(pid) PROVE AdmittedInv'
  <2>1. PICK k \in DOMAIN tasks : tasks' = DelAt(tasks, k)
    BY <1>6 DEF Deregister
  <2>2. /\ SumFunction(Utils(tasks)) = Util(tasks[k]) + SumFunction(Utils(tasks'))
        /\ SumFunction(Utils(tasks')) \in Nat /\ Util(tasks[k]) \in Nat
    BY <1>1, <1>2, <2>1, UtilSumRemove
  <2>3. SumFunction(Utils(tasks')) <= UtilBound
    BY <1>2, <2>2 DEF UtilBound
  <2>4. \A i \in DOMAIN tasks' : \E j \in DOMAIN tasks : tasks'[i] = tasks[j]
    <3>1. /\ tasks' \in Seq(TaskType) /\ Len(tasks') = Len(tasks) - 1 /\ Len(tasks) \in Nat
          /\ \A i \in 1 .. Len(tasks) - 1 :
               tasks'[i] = IF i < k THEN tasks[i] ELSE tasks[i + 1]
      BY <1>1, <2>1, DelAtIndex
    <3>2. DOMAIN tasks' = 1 .. Len(tasks) - 1 /\ DOMAIN tasks = 1 .. Len(tasks)
      BY <1>1, <3>1
    <3>3. \A i \in 1 .. Len(tasks) - 1 : i \in DOMAIN tasks /\ i + 1 \in DOMAIN tasks
      BY <3>1, <3>2
    <3> QED BY <3>1, <3>2, <3>3
  <2> QED BY <1>2, <1>3, <2>3, <2>4
<1> QED BY <1>4, <1>5, <1>6 DEF Next

\* As long as the arithmetic does not wrap, the task set that taskregister()
\* has let in satisfies its own admission test at all times, whatever the
\* order of registrations and deregistrations.
THEOREM AdmissionInvariant ==
  ASSUME NoWrap
  PROVE  Spec => []AdmittedInv
<1>1. Init => AdmittedInv
  <2> SUFFICES ASSUME Init PROVE AdmittedInv
    OBVIOUS
  <2>1. tasks = << >> /\ tasks \in Seq(TaskType) /\ DOMAIN tasks = {}
    BY DEF Init
  <2>2. SumFunction(Utils(tasks)) = 0
    BY <2>1, UtilSumIsFold, FoldEmpty DEF Unit
  <2> QED BY <2>1, <2>2 DEF AdmittedInv, Utils, UtilBound
<1> QED BY <1>1, AdmittedStep, RegistryTypeCorrect, PTL DEF Spec

\* One task: what the truncated utilisation hides is less than one unit.
LEMMA TruncatedShare ==
  ASSUME NEW t \in TaskType, t.period # 0, t.comp_time * UtilScale < UlongMod,
         NEW Q \in Nat \ {0}
  PROVE  UtilScale * (t.comp_time * Q) + 1 <= (Util(t) + 1) * (t.period * Q)
<1> DEFINE c == t.comp_time
           p == t.period
           u == Util(t)
<1>1. c \in Nat /\ p \in Nat \ {0} /\ u \in Nat
  BY UtilNat, UlongModAssumption DEF TaskType, Ulongs
<1>2. (c * 1000) % UlongMod = c * 1000
  <2>1. c * 1000 \in Nat /\ c * 1000 < UlongMod
    BY <1>1 DEF UtilScale
  <2> QED BY <2>1, UlongModAssumption
<1>3. u = (c * 1000) \div p
  BY <1>2 DEF Util, UtilScale
<1> HIDE DEF c, p, u
<1>4. c * 1000 + 1 <= (u + 1) * p
  BY <1>1, <1>3
<1>5. \A a, b \in Nat : a + 1 <= b => a * Q + 1 <= b * Q
  <2> SUFFICES ASSUME NEW a \in Nat, NEW b \in Nat, a + 1 <= b PROVE a * Q + 1 <= b * Q
    OBVIOUS
  <2>1. PICK d \in Nat : b = a + 1 + d
    <3>1. b - (a + 1) \in Nat /\ b = a + 1 + (b - (a + 1))
      OBVIOUS
    <3> QED BY <3>1
  <2>2. b * Q = a * Q + Q + d * Q
    BY <2>1
  <2>3. d * Q \in Nat /\ a * Q \in Nat /\ Q >= 1
    BY <2>1
  <2> QED BY <2>2, <2>3
<1>6. (c * 1000) * Q + 1 <= ((u + 1) * p) * Q
  <2>1. c * 1000 \in Nat /\ (u + 1) * p \in Nat
    BY <1>1
  <2> QED BY <1>4, <1>5, <2>1
<1>7. (c * 1000) * Q = 1000 * (c * Q) /\ ((u + 1) * p) * Q = (u + 1) * (p * Q)
  BY <1>1
<1> QED BY <1>6, <1>7 DEF c, p, u, UtilScale

Periods == [i \in DOMAIN tasks |-> tasks[i].period]
Shares  == [i \in DOMAIN tasks |->
              tasks[i].comp_time * (PeriodProduct \div tasks[i].period)]

\* The exact demand of a list, and the bound that admission gives for it.
LEMMA DemandBound ==
  ASSUME TypeOK, AdmittedInv
  PROVE  /\ PeriodProduct \in Nat \ {0} /\ ExactDemand \in Nat
         /\ UtilScale * ExactDemand + Len(tasks)
              <= (UtilBound + Len(tasks)) * PeriodProduct
<1> DEFINE n == Len(tasks)
           S == 1 .. n
           f == Shares
           g == Utils(tasks)
           q == Periods
           P == PeriodProduct
<1>1. /\ tasks \in Seq(TaskType) /\ n \in Nat /\ DOMAIN tasks = S
      /\ \A i \in S : tasks[i] \in TaskType
  <2>1. tasks \in Seq(TaskType)
    BY DEF TypeOK, TaskType
  <2> QED BY <2>1
<1>2. /\ \A i \in S : tasks[i].period # 0 /\ tasks[i].comp_time * UtilScale < UlongMod
      /\ SumFunction(g) <= UtilBound
  BY <1>1 DEF AdmittedInv, Utils
<1>3. IsFiniteSet(S) /\ Cardinality(S) = n
  <2>1. Cardinality(1 .. n) = IF 1 > n THEN 0 ELSE n - 1 + 1
    BY <1>1, FS_Interval
  <2>2. IsFiniteSet(1 .. n)
    BY <1>1, FS_Interval
  <2>3. Cardinality(1 .. n) = n
    BY <1>1, <2>1
  <2> QED BY <2>2, <2>3
<1>4. \A i \in S : tasks[i].period \in Nat \ {0} /\ tasks[i].comp_time \in Nat
  BY <1>1, <1>2, UlongModAssumption DEF TaskType, Ulongs
<1>5. P = Fold("product", q, S)
  <2>1. P = Product(q)
    BY DEF PeriodProduct, Product, Periods, FoldFunction, FoldFunctionOnSet, MapThenFoldSet
  <2>2. DOMAIN q = S
    BY <1>1 DEF Periods
  <2> HIDE DEF q
  <2> QED BY <1>3, <2>1, <2>2, ProductIsFold
<1>6. \A i \in S : q[i] = tasks[i].period /\ q[i] \in Nat \ {0}
  BY <1>1, <1>4 DEF Periods
<1>7. \A i \in S : f[i] = tasks[i].comp_time * (P \div tasks[i].period)
  BY <1>1 DEF Shares
<1>8. \A i \in S : g[i] = Util(tasks[i]) /\ g[i] \in Nat
  BY <1>1, <1>2, UtilNat DEF Utils
<1>9. SumFunction(g) = Fold("sum", g, S)
  BY <1>1, UtilSumIsFold
<1>10. ExactDemand = Fold("sum", f, S)
  <2>1. ExactDemand = SumFunction(f)
    BY DEF ExactDemand, Shares
  <2>2. SumFunction(f) = SumFunctionOnSet(f, S)
    BY <1>1 DEF SumFunction, Shares
  <2> HIDE DEF f
  <2> QED BY <1>3, <2>1, <2>2, SumIsFold
<1> HIDE DEF n, S, f, g, q, P
<1>11. P \in Nat \ {0}
  BY <1>3, <1>5, <1>6, ProductPositive
<1>12. ASSUME NEW i \in S
       PROVE  f[i] \in Nat /\ g[i] \in Nat /\ UtilScale * f[i] + 1 <= (g[i] + 1) * P
  <2> DEFINE Q == Fold("product", q, S \ {i})
             p == tasks[i].period
             c == tasks[i].comp_time
  <2>1. IsFiniteSet(S \ {i})
    BY <1>3, FS_RemoveElement
  <2>2. Q \in Nat \ {0}
    BY <1>6, <2>1, ProductPositive
  <2>3. Fold("product", q, S) = Comb("product", q[i], Fold("product", q, S \ {i}))
    BY <1>3, <1>6, FoldTakeOut
  <2>4. P = p * Q
    BY <1>5, <1>6, <2>3 DEF Comb
  <2>5. p \in Nat \ {0} /\ c \in Nat
    BY <1>4
  <2>6. UtilScale * (c * Q) + 1 <= (Util(tasks[i]) + 1) * (p * Q)
    BY <1>1, <1>2, <2>2, TruncatedShare
  <2>7. f[i] = c * (P \div p)
    BY <1>7
  <2>8. g[i] = Util(tasks[i]) /\ g[i] \in Nat
    BY <1>8
  <2> HIDE DEF Q, p, c
  <2>9. (p * Q) \div p = Q
    BY <2>2, <2>5
  <2>10. f[i] = c * Q /\ f[i] \in Nat
    BY <2>2, <2>4, <2>5, <2>7, <2>9
  <2> QED BY <2>4, <2>6, <2>8, <2>10
<1>13. UtilScale * Fold("sum", f, S) + n <= (Fold("sum", g, S) + n) * P
  BY <1>3, <1>11, <1>12, SumBound DEF UtilScale
<1>14. Fold("sum", g, S) \in Nat /\ Fold("sum", f, S) \in Nat
  BY <1>3, <1>12, FoldNat
<1>15. (Fold("sum", g, S) + n) * P <= (UtilBound + n) * P
  <2>1. \A a, b \in Nat : a <= b => a * P <= b * P
    BY <1>11
  <2>2. Fold("sum", g, S) + n <= UtilBound + n
    BY <1>1, <1>2, <1>9, <1>14 DEF UtilBound
  <2>3. Fold("sum", g, S) + n \in Nat /\ UtilBound + n \in Nat
    BY <1>1, <1>14 DEF UtilBound
  <2> QED BY <2>1, <2>2, <2>3
<1>16. UtilScale * ExactDemand + n <= (UtilBound + n) * P
  <2> DEFINE a == Fold("sum", f, S)
             b == (Fold("sum", g, S) + n) * P
             d == (UtilBound + n) * P
  <2>1. UtilScale * a + n \in Nat /\ b \in Nat /\ d \in Nat
    BY <1>1, <1>11, <1>14 DEF UtilScale, UtilBound
  <2>2. UtilScale * a + n <= b /\ b <= d
    BY <1>13, <1>15
  <2> HIDE DEF a, b, d
  <2>3. UtilScale * a + n <= d
    BY <2>1, <2>2
  <2> QED BY <1>10, <2>3 DEF a, d
<1> QED BY <1>10, <1>11, <1>14, <1>16 DEF n, P

\* taskregister()'s integer admission test lets the exact demand of n tasks
\* exceed the bound of 693 thousandths by less than n thousandths.
THEOREM AdmissionSlack ==
  ASSUME NoWrap
  PROVE  Spec => []TruncationSlack
<1>1. TypeOK /\ AdmittedInv => TruncationSlack
  <2> SUFFICES ASSUME TypeOK, AdmittedInv, tasks # << >>
               PROVE  UtilScale * ExactDemand < (UtilBound + Len(tasks)) * PeriodProduct
    BY DEF TruncationSlack
  <2>1. Len(tasks) \in Nat /\ Len(tasks) >= 1
    BY DEF TypeOK
  <2> DEFINE a == UtilScale * ExactDemand
             b == (UtilBound + Len(tasks)) * PeriodProduct
             n == Len(tasks)
  <2>2. a \in Nat /\ b \in Nat /\ a + n <= b
    BY <2>1, DemandBound DEF UtilScale, UtilBound
  <2> HIDE DEF a, b, n
  <2>3. n \in Nat /\ n >= 1
    BY <2>1 DEF n
  <2>4. a < b
    BY <2>2, <2>3
  <2> QED BY <2>4 DEF a, b
<1> QED BY <1>1, AdmissionInvariant, RegistryTypeCorrect, PTL

\* Up to 307 registered tasks the integer test never admits more work than
\* the CPU can do: the exact utilisation stays below one.
THEOREM NotOvercommitted ==
  ASSUME NoWrap
  PROVE  Spec => [](Len(tasks) <= 307 => ExactDemand <= PeriodProduct)
<1>1. TypeOK /\ AdmittedInv => (Len(tasks) <= 307 => ExactDemand <= PeriodProduct)
  <2> SUFFICES ASSUME TypeOK, AdmittedInv, Len(tasks) <= 307
               PROVE  ExactDemand <= PeriodProduct
    OBVIOUS
  <2> DEFINE n == Len(tasks)
             a == ExactDemand
             P == PeriodProduct
  <2>1. n \in Nat /\ n <= 307
    BY DEF TypeOK
  <2>2. P \in Nat \ {0} /\ a \in Nat /\ 1000 * a + n <= (693 + n) * P
    BY DemandBound DEF UtilScale, UtilBound
  <2> HIDE DEF n, a, P
  <2>3. (693 + n) * P <= 1000 * P
    <3>1. \A x, y \in Nat : x <= y => x * P <= y * P
      BY <2>2
    <3> QED BY <2>1, <3>1
  <2>4. (693 + n) * P \in Nat
    BY <2>1, <2>2
  <2> DEFINE m == (693 + n) * P
  <2>5. m \in Nat /\ 1000 * a + n <= m /\ m <= 1000 * P
    BY <2>2, <2>3, <2>4
  <2> HIDE DEF m
  <2>6. a <= P
    BY <2>1, <2>2, <2>5
  <2> QED BY <2>6 DEF a, P
<1> QED BY <1>1, AdmissionInvariant, RegistryTypeCorrect, PTL

\* The overload that admission control misses: a task with a computation time
\* below one thousandth of its period adds nothing to the sum, so
\* taskregister() lets it in whatever is registered already.  Enough of them
\* ask for more than the whole CPU.
THEOREM LightTasksAdmitted ==
  ASSUME NoWrap, NEW pid \in Pid, NEW period \in PeriodArg, NEW comp_time \in CompArg,
         Ulong(comp_time) # 0, Ulong(comp_time) * UtilScale < Ulong(period)
  PROVE  Spec => [](~IsRegistered(tasks, pid) =>
                      Admits(tasks, Task(pid, Ulong(period), Ulong(comp_time))))
<1> DEFINE t == Task(pid, Ulong(period), Ulong(comp_time))
<1>1. TypeOK /\ AdmittedInv => (~IsRegistered(tasks, pid) => Admits(tasks, t))
  <2> SUFFICES ASSUME TypeOK, AdmittedInv, ~IsRegistered(tasks, pid) PROVE Admits(tasks, t)
    OBVIOUS
  <2>1. /\ t \in TaskType /\ t.pid = pid /\ t.comp_time # 0
        /\ t.comp_time * UtilScale < t.period
    BY RegisterType DEF Task
  <2>2. NoWrap => (t.period # 0 => Util(t) + UtilBound < UlongMod)
    BY DEF NoWrap
  <2> HIDE DEF t
  <2> DEFINE c == t.comp_time * UtilScale
  <2>3. t.comp_time \in Nat /\ t.period \in 0 .. UlongMod - 1
    BY <2>1, UlongModAssumption DEF TaskType, Ulongs
  <2>4. c \in Nat /\ c < t.period
    BY <2>1, <2>3 DEF UtilScale
  <2> HIDE DEF c
  <2>5. t.period # 0 /\ c % UlongMod = c
    BY <2>3, <2>4, UlongModAssumption
  <2>6. c \div t.period = 0
    BY <2>3, <2>4
  <2>7. Util(t) = 0
    BY <2>5, <2>6 DEF Util, c
  <2>8. /\ SumFunction(Utils(Append(tasks, t))) = Util(t) + SumFunction(Utils(tasks))
        /\ SumFunction(Utils(tasks)) \in Nat /\ SumFunction(Utils(tasks)) <= UtilBound
    <3>1. tasks \in Seq(TaskType) /\ \A i \in DOMAIN tasks : tasks[i].period # 0
      BY DEF TypeOK, TaskType, AdmittedInv
    <3>2. SumFunction(Utils(tasks)) <= UtilBound
      BY DEF AdmittedInv, Utils
    <3> QED BY <2>1, <2>5, <3>1, <3>2, UtilSumAppend
  <2> DEFINE s == SumFunction(Utils(tasks))
             s1 == SumFunction(Utils(Append(tasks, t)))
  <2>9. s1 = s /\ s \in Nat /\ s <= UtilBound
    BY <2>7, <2>8
  <2>10. UtilBound < UlongMod
    BY <2>2, <2>5, <2>7 DEF UtilBound
  <2>11. UtilSum(Append(tasks, t)) = s1 % UlongMod
    BY DEF UtilSum, Utils
  <2> HIDE DEF s, s1
  <2>12. s1 % UlongMod <= UtilBound
    <3>1. s1 \in Nat /\ s1 < UlongMod
      BY <2>9, <2>10, UlongModAssumption DEF UtilBound
    <3>2. s1 % UlongMod = s1
      BY <3>1, UlongModAssumption
    <3> QED BY <2>9, <3>2
  <2> QED BY <2>1, <2>5, <2>11, <2>12 DEF Admits
<1> QED BY <1>1, AdmissionInvariant, RegistryTypeCorrect, PTL

\* When ints and longs are the target's (Half is 2^31, UlongMod 2^64), every
\* "R" command whose PERIOD is not negative satisfies NoWrap: a negative
\* COMPUTATION becomes a utilisation that taskregister() refuses.
THEOREM IntArgsDoNotWrap ==
  ASSUME NEW Half \in Nat \ {0}, UlongMod >= 2000 * Half,
         PeriodArg \subseteq 0 .. Half - 1,
         CompArg \subseteq -Half .. Half - 1
  PROVE  NoWrap
<1> SUFFICES ASSUME NEW pid \in Pid, NEW period \in PeriodArg, NEW comp_time \in CompArg,
                    Task(pid, Ulong(period), Ulong(comp_time)).period # 0
             PROVE  LET t == Task(pid, Ulong(period), Ulong(comp_time))
                    IN  /\ Util(t) + UtilBound < UlongMod
                        /\ Util(t) <= UtilBound => t.comp_time * UtilScale < UlongMod
  BY DEF NoWrap
<1> DEFINE M == UlongMod
           t == Task(pid, Ulong(period), Ulong(comp_time))
<1>1. /\ period \in 0 .. Half - 1 /\ comp_time \in -Half .. Half - 1
      /\ M \in Nat \ {0} /\ M >= 2000 * Half
  BY UlongModAssumption
<1>3. Ulong(period) = period /\ t.period = period /\ period \in 1 .. Half - 1
  <2>1. period % M = period
    BY <1>1
  <2> QED BY <1>1, <2>1 DEF Ulong, Task
<1>4. t.comp_time = comp_time % M
  BY DEF Ulong, Task
<1> DEFINE x == ((comp_time % M) * 1000) % M
<1>5. Util(t) = x \div period
  BY <1>3, <1>4 DEF Util, UtilScale
<1>6. CASE comp_time >= 0
  <2>1. comp_time % M = comp_time /\ comp_time * 1000 \in Nat
        /\ comp_time * 1000 + 693 < M
    BY <1>1, <1>6
  <2>2. x = comp_time * 1000
    BY <1>1, <2>1
  <2> HIDE DEF x, M
  <2>3. x \div period <= x
    BY <1>3, <2>1, <2>2
  <2>4. x \div period \in Nat
    BY <1>3, <2>1, <2>2
  <2> QED BY <1>1, <1>4, <1>5, <2>1, <2>2, <2>3, <2>4 DEF UtilBound, UtilScale, M
<1>7. CASE comp_time < 0
  <2> HIDE DEF M, t
  <2>1. comp_time % M = M + comp_time
    BY <1>1, <1>7
  <2>2. (M + comp_time) * 1000 = M * 999 + (M + 1000 * comp_time)
    BY <1>1
  <2>3. M + 1000 * comp_time \in 0 .. M - 1000
    BY <1>1, <1>7
  <2>4. \A r \in 0 .. M - 1 : (M * 999 + r) % M = r
    BY <1>1
  <2>5. x = M + 1000 * comp_time
    BY <1>1, <2>1, <2>2, <2>3, <2>4
  <2>6. x \in Nat /\ x <= M - 1000 /\ x >= 694 * Half
    BY <1>1, <2>3, <2>5
  <2> HIDE DEF x
  <2>7. x \div period <= x /\ x \div period \in Nat
    BY <1>3, <2>6
  <2>8. x \div period >= 694
    <3>1. 694 * period <= x
      BY <1>1, <1>3, <2>6
    <3>2. \A a \in Nat, p \in Nat \ {0} : 694 * p <= a => a \div p >= 694
      OBVIOUS
    <3> QED BY <1>3, <2>6, <3>1, <3>2
  <2> QED BY <1>1, <1>5, <2>6, <2>7, <2>8 DEF UtilBound, M, t
<1> QED BY <1>1, <1>6, <1>7
=============================================================================
