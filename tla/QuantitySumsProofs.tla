------------------------- MODULE QuantitySumsProofs -------------------------
(***************************************************************************)
(* What the totals of QuantitySums obey when the table has finitely many   *)
(* rows.  The lemmas are the arithmetic of reservations, grants and waits  *)
(* that the proofs about AllocationPipeline cite.                          *)
(***************************************************************************)
EXTENDS QuantitySums, FiniteSetTheorems, TLAPS

\* A unit is a row key with an ordinal.
LEMMA UnitsMembers ==
    ASSUME NEW f, NEW u
    PROVE  u \in Units(f) <=> \E x \in DOMAIN f : \E k \in 1 .. f[x] : u = <<x, k>>
BY DEF Units, UnitsOf

\* A finite table of quantities stands for finitely many units.
LEMMA UnitsFinite ==
    ASSUME NEW S, IsFiniteSet(S), NEW f \in [S -> Nat]
    PROVE  IsFiniteSet(Units(f))
<1> DEFINE row == [x \in S |-> UnitsOf(f, x)]
           rows == {UnitsOf(f, x) : x \in S}
<1>1. row \in Surjection(S, rows)
  BY DEF Surjection
<1>2. IsFiniteSet(rows)
  BY <1>1, FS_Surjection, Zenon
<1>3. ASSUME NEW x \in S PROVE IsFiniteSet(UnitsOf(f, x))
  <2>1. IsFiniteSet({x})
    BY FS_Singleton, Zenon
  <2>2. 1 \in Int /\ f[x] \in Int
    BY SMT
  <2>3. IsFiniteSet(1 .. f[x])
    BY <2>2, FS_Interval, Zenon
  <2> QED BY <2>1, <2>3, FS_Product, Zenon DEF UnitsOf
<1>4. \A T \in rows : IsFiniteSet(T)
  BY <1>3
<1>5. IsFiniteSet(UNION rows)
  BY <1>2, <1>4, FS_UNION, Zenon
<1>6. DOMAIN f = S
  OBVIOUS
<1> QED BY <1>5, <1>6 DEF Units

\* The total of a finite table is a natural number.
LEMMA SumType ==
    ASSUME NEW S, IsFiniteSet(S), NEW f \in [S -> Nat]
    PROVE  SumOf(f) \in Nat
BY UnitsFinite, FS_CardinalityType, Zenon DEF SumOf

\* A table of zeros totals zero.
LEMMA SumZero ==
    ASSUME NEW S, NEW f \in [S -> Nat], \A x \in S : f[x] = 0
    PROVE  SumOf(f) = 0
<1>1. ASSUME NEW u \in Units(f) PROVE FALSE
  <2>0. PICK x \in DOMAIN f : \E k \in 1 .. f[x] : u = <<x, k>>
    BY UnitsMembers
  <2>1. PICK k \in 1 .. f[x] : u = <<x, k>>
    BY <2>0
  <2> QED BY <2>1
<1>2. Units(f) = {}
  BY <1>1
<1> QED BY <1>2, FS_EmptySet, Zenon DEF SumOf

\* A larger table has a larger total.
LEMMA SumMonotone ==
    ASSUME NEW S, IsFiniteSet(S), NEW f \in [S -> Nat], NEW g \in [S -> Nat],
           \A x \in S : f[x] <= g[x]
    PROVE  SumOf(f) <= SumOf(g)
<1>1. ASSUME NEW u \in Units(f) PROVE u \in Units(g)
  <2>0. PICK x \in DOMAIN f : \E k \in 1 .. f[x] : u = <<x, k>>
    BY UnitsMembers
  <2>1. PICK k \in 1 .. f[x] : u = <<x, k>>
    BY <2>0
  <2>2. x \in DOMAIN g /\ k \in 1 .. g[x]
    BY <2>1, SMT
  <2> QED BY <2>1, <2>2, UnitsMembers
<1>2. Units(f) \in SUBSET Units(g)
  BY <1>1
<1>3. IsFiniteSet(Units(g))
  BY UnitsFinite, Zenon
<1> QED BY <1>2, <1>3, FS_Subset, Zenon DEF SumOf

\* A table whose rows are those of another under other keys, and zero
\* elsewhere, has the same total.
LEMMA SumReindex ==
    ASSUME NEW S, IsFiniteSet(S), NEW T, IsFiniteSet(T),
           NEW f \in [S -> Nat], NEW g \in [T -> Nat],
           NEW key \in [T -> S],
           \A t, u \in T : key[t] = key[u] => t = u,
           \A t \in T : g[t] = f[key[t]],
           \A x \in S : f[x] > 0 => \E t \in T : x = key[t]
    PROVE  SumOf(f) = SumOf(g)
<1> DEFINE m == [u \in Units(g) |-> <<key[u[1]], u[2]>>]
<1>1. ASSUME NEW u \in Units(g)
      PROVE  /\ u[1] \in T /\ u[2] \in 1 .. g[u[1]] /\ u = <<u[1], u[2]>>
             /\ m[u] \in Units(f)
  <2>0. PICK t \in DOMAIN g : \E k \in 1 .. g[t] : u = <<t, k>>
    BY UnitsMembers
  <2>1. PICK k \in 1 .. g[t] : u = <<t, k>>
    BY <2>0
  <2>2. t \in T /\ key[t] \in DOMAIN f /\ k \in 1 .. f[key[t]]
    BY <2>1
  <2>3. m[u] = <<key[t], k>>
    BY <2>1
  <2>4. m[u] \in Units(f)
    BY <2>2, <2>3, UnitsMembers
  <2> QED BY <2>1, <2>2, <2>4
<1>2. m \in [Units(g) -> Units(f)]
  BY <1>1
<1>3. ASSUME NEW u \in Units(g), NEW v \in Units(g), m[u] = m[v] PROVE u = v
  <2>1. key[u[1]] = key[v[1]] /\ u[2] = v[2]
    BY <1>3
  <2>2. u[1] \in T /\ v[1] \in T /\ u = <<u[1], u[2]>> /\ v = <<v[1], v[2]>>
    BY <1>1
  <2>3. u[1] = v[1]
    BY <2>1, <2>2
  <2> QED BY <2>1, <2>2, <2>3
<1>4. ASSUME NEW w \in Units(f) PROVE \E u \in Units(g) : m[u] = w
  <2>0. PICK x \in DOMAIN f : \E k \in 1 .. f[x] : w = <<x, k>>
    BY UnitsMembers
  <2>1. PICK k \in 1 .. f[x] : w = <<x, k>>
    BY <2>0
  <2>2. x \in S /\ f[x] > 0
    BY <2>1
  <2>3. PICK t \in T : x = key[t]
    BY <2>2
  <2>4. t \in DOMAIN g /\ k \in 1 .. g[t]
    BY <2>1, <2>3
  <2>5. <<t, k>> \in Units(g)
    BY <2>4, UnitsMembers
  <2>6. m[<<t, k>>] = w
    BY <2>1, <2>3, <2>5
  <2> QED BY <2>5, <2>6
<1>5. m \in Bijection(Units(g), Units(f))
  BY <1>2, <1>3, <1>4 DEF Bijection, Injection, Surjection, IsInjective
<1>6. ExistsBijection(Units(g), Units(f))
  BY <1>5 DEF ExistsBijection
<1>7. IsFiniteSet(Units(g))
  BY UnitsFinite, Zenon
<1> QED BY <1>6, <1>7, FS_Bijection, Zenon DEF SumOf

\* A table that is the row-wise sum of two others totals their totals.
LEMMA SumAdd ==
    ASSUME NEW S, IsFiniteSet(S),
           NEW f \in [S -> Nat], NEW g \in [S -> Nat], NEW h \in [S -> Nat],
           \A x \in S : f[x] = g[x] + h[x]
    PROVE  SumOf(f) = SumOf(g) + SumOf(h)
<1> DEFINE rest == Units(f) \ Units(g)
           m == [u \in Units(h) |-> <<u[1], g[u[1]] + u[2]>>]
<1>1. ASSUME NEW x \in S, NEW k \in Int
      PROVE  /\ <<x, k>> \in Units(f) <=> 1 <= k /\ k <= f[x]
             /\ <<x, k>> \in Units(g) <=> 1 <= k /\ k <= g[x]
             /\ <<x, k>> \in Units(h) <=> 1 <= k /\ k <= h[x]
  <2>1. ASSUME NEW q \in [S -> Nat]
        PROVE  <<x, k>> \in Units(q) <=> 1 <= k /\ k <= q[x]
    BY UnitsMembers
  <2> QED BY <2>1, Zenon
<1>2. ASSUME NEW q \in [S -> Nat], NEW u \in Units(q)
      PROVE  u[1] \in S /\ u[2] \in Int /\ u = <<u[1], u[2]>>
  BY UnitsMembers
<1>3. Units(g) \subseteq Units(f)
  <2>1. ASSUME NEW u \in Units(g) PROVE u \in Units(f)
    <3>1. u[1] \in S /\ u[2] \in Int /\ u = <<u[1], u[2]>>
      BY <1>2
    <3>2. 1 <= u[2] /\ u[2] <= g[u[1]]
      BY <3>1, <1>1
    <3>3. 1 <= u[2] /\ u[2] <= f[u[1]]
      BY <3>1, <3>2
    <3> QED BY <3>1, <3>3, <1>1
  <2> QED BY <2>1
<1>4. ASSUME NEW u \in Units(h) PROVE m[u] \in rest
  <2>1. u[1] \in S /\ u[2] \in Int /\ u = <<u[1], u[2]>>
    BY <1>2
  <2>2. 1 <= u[2] /\ u[2] <= h[u[1]]
    BY <2>1, <1>1
  <2>3. /\ g[u[1]] + u[2] \in Int /\ 1 <= g[u[1]] + u[2]
        /\ g[u[1]] + u[2] <= f[u[1]] /\ ~(g[u[1]] + u[2] <= g[u[1]])
    BY <2>1, <2>2
  <2>4. m[u] = <<u[1], g[u[1]] + u[2]>>
    OBVIOUS
  <2> QED BY <2>1, <2>3, <2>4, <1>1
<1>5. ASSUME NEW u \in Units(h), NEW v \in Units(h), m[u] = m[v] PROVE u = v
  <2>1. /\ u[1] \in S /\ u[2] \in Int /\ u = <<u[1], u[2]>>
        /\ v[1] \in S /\ v[2] \in Int /\ v = <<v[1], v[2]>>
    BY <1>2
  <2>2. u[1] = v[1] /\ g[u[1]] + u[2] = g[v[1]] + v[2]
    BY <1>5
  <2>3. u[2] = v[2]
    BY <2>1, <2>2
  <2> QED BY <2>1, <2>2, <2>3
<1>6. ASSUME NEW w \in rest PROVE \E u \in Units(h) : m[u] = w
  <2>1. w[1] \in S /\ w[2] \in Int /\ w = <<w[1], w[2]>>
    BY <1>2
  <2> DEFINE k == w[2] - g[w[1]]
  <2>2. 1 <= w[2] /\ w[2] <= f[w[1]] /\ ~(w[2] <= g[w[1]])
    BY <2>1, <1>1
  <2>3. k \in Int /\ 1 <= k /\ k <= h[w[1]] /\ g[w[1]] + k = w[2]
    BY <2>1, <2>2
  <2>4. <<w[1], k>> \in Units(h)
    BY <2>1, <2>3, <1>1
  <2>5. m[<<w[1], k>>] = <<w[1], g[w[1]] + k>>
    BY <2>4
  <2> QED BY <2>1, <2>3, <2>4, <2>5
<1>7. m \in Bijection(Units(h), rest)
  BY <1>4, <1>5, <1>6 DEF Bijection, Injection, Surjection, IsInjective
<1>8. ExistsBijection(Units(h), rest)
  BY <1>7 DEF ExistsBijection
<1>9. IsFiniteSet(Units(f)) /\ IsFiniteSet(Units(g)) /\ IsFiniteSet(Units(h))
  BY UnitsFinite, Zenon
<1>10. Cardinality(rest) = SumOf(h)
  BY <1>8, <1>9, FS_Bijection, Zenon DEF SumOf
<1>11. Units(f) \cap Units(g) = Units(g)
  BY <1>3
<1>12. Cardinality(rest) = SumOf(f) - SumOf(g)
  <2>1. Cardinality(rest)
          = Cardinality(Units(f)) - Cardinality(Units(f) \cap Units(g))
    BY <1>9, FS_Difference
  <2> QED BY <2>1, <1>11, Zenon DEF SumOf
<1>13. SumOf(f) \in Nat /\ SumOf(g) \in Nat /\ SumOf(h) \in Nat
  BY SumType, Zenon
<1> QED BY <1>10, <1>12, <1>13, SMT

\* A table with one row that is not zero totals that row.
LEMMA SumSingle ==
    ASSUME NEW S, IsFiniteSet(S), NEW f \in [S -> Nat], NEW a \in S,
           \A x \in S : x # a => f[x] = 0
    PROVE  SumOf(f) = f[a]
<1> DEFINE m == [k \in 1 .. f[a] |-> <<a, k>>]
<1>1. m \in [1 .. f[a] -> Units(f)]
  BY UnitsMembers
<1>2. \A k, j \in 1 .. f[a] : m[k] = m[j] => k = j
  OBVIOUS
<1>3. ASSUME NEW u \in Units(f) PROVE \E k \in 1 .. f[a] : m[k] = u
  <2>0. PICK x \in DOMAIN f : \E k \in 1 .. f[x] : u = <<x, k>>
    BY UnitsMembers
  <2>1. PICK k \in 1 .. f[x] : u = <<x, k>>
    BY <2>0
  <2>2. x = a
    BY <2>1
  <2> QED BY <2>1, <2>2
<1>4. m \in Bijection(1 .. f[a], Units(f))
  BY <1>1, <1>2, <1>3 DEF Bijection, Injection, Surjection, IsInjective
<1>5. ExistsBijection(1 .. f[a], Units(f))
  BY <1>4 DEF ExistsBijection
<1>6. IsFiniteSet(1 .. f[a]) /\ Cardinality(1 .. f[a]) = f[a]
  <2>1. 1 \in Int /\ f[a] \in Int /\ f[a] \in Nat
    BY SMT
  <2>2. IsFiniteSet(1 .. f[a])
       /\ Cardinality(1 .. f[a]) = IF 1 > f[a] THEN 0 ELSE f[a] - 1 + 1
    BY <2>1, FS_Interval, Zenon
  <2> QED BY <2>1, <2>2, SMT
<1> QED BY <1>5, <1>6, FS_Bijection, Zenon DEF SumOf

\* A total covers each of its rows.
LEMMA SumCovers ==
    ASSUME NEW S, IsFiniteSet(S), NEW f \in [S -> Nat], NEW a \in S
    PROVE  f[a] <= SumOf(f)
<1> DEFINE g == [x \in S |-> IF x = a THEN f[a] ELSE 0]
<1>1. g \in [S -> Nat] /\ g[a] = f[a]
      /\ (\A x \in S : x # a => g[x] = 0) /\ (\A x \in S : g[x] <= f[x])
  OBVIOUS
<1> HIDE DEF g
<1>2. SumOf(g) = g[a]
  BY <1>1, SumSingle, Zenon
<1>3. SumOf(g) <= SumOf(f)
  BY <1>1, SumMonotone, Zenon
<1> QED BY <1>1, <1>2, <1>3

\* A table that is larger in one row and smaller in none has a larger total.
LEMMA SumStrict ==
    ASSUME NEW S, IsFiniteSet(S), NEW f \in [S -> Nat], NEW g \in [S -> Nat],
           \A x \in S : f[x] <= g[x], NEW a \in S, f[a] < g[a]
    PROVE  SumOf(f) < SumOf(g)
<1> DEFINE h == [x \in S |-> g[x] - f[x]]
<1>1. h \in [S -> Nat] /\ h[a] > 0 /\ \A x \in S : g[x] = f[x] + h[x]
  OBVIOUS
<1> HIDE DEF h
<1>2. SumOf(g) = SumOf(f) + SumOf(h)
  BY <1>1, SumAdd
<1>3. h[a] <= SumOf(h)
  BY <1>1, SumCovers, Zenon
<1>4. SumOf(f) \in Nat /\ SumOf(g) \in Nat /\ SumOf(h) \in Nat /\ h[a] \in Nat
  BY <1>1, SumType, Zenon
<1> QED BY <1>1, <1>2, <1>3, <1>4

\* A table with the same rows as another, zero in the rows it adds, has the
\* same total.
LEMMA SumExtend ==
    ASSUME NEW S, IsFiniteSet(S), NEW T, T \subseteq S,
           NEW f \in [S -> Nat], NEW g \in [T -> Nat],
           \A x \in T : g[x] = f[x], \A x \in S : x \notin T => f[x] = 0
    PROVE  SumOf(f) = SumOf(g)
<1> DEFINE key == [x \in T |-> x]
<1>1. key \in [T -> S] /\ \A t \in T : key[t] = t
  OBVIOUS
<1>2. IsFiniteSet(T)
  BY FS_Subset, Zenon
<1> HIDE DEF key
<1>3. /\ \A t, u \in T : key[t] = key[u] => t = u
      /\ \A t \in T : g[t] = f[key[t]]
      /\ \A x \in S : f[x] > 0 => \E t \in T : x = key[t]
  BY <1>1
<1> QED BY <1>1, <1>2, <1>3, SumReindex

\* Tables that balance row by row balance in total.
LEMMA SumBalance ==
    ASSUME NEW S, IsFiniteSet(S),
           NEW f \in [S -> Nat], NEW g \in [S -> Nat],
           NEW a \in [S -> Nat], NEW b \in [S -> Nat],
           \A x \in S : f[x] + a[x] = g[x] + b[x]
    PROVE  SumOf(f) + SumOf(a) = SumOf(g) + SumOf(b)
<1> DEFINE h == [x \in S |-> f[x] + a[x]]
<1>1. h \in [S -> Nat] /\ \A x \in S : h[x] = f[x] + a[x] /\ h[x] = g[x] + b[x]
  OBVIOUS
<1> HIDE DEF h
<1>2. SumOf(h) = SumOf(f) + SumOf(a)
  BY <1>1, SumAdd
<1>3. SumOf(h) = SumOf(g) + SumOf(b)
  BY <1>1, SumAdd
<1> QED BY <1>2, <1>3

\* A table with one unit more in one row totals one unit more.
LEMMA SumStep ==
    ASSUME NEW S, IsFiniteSet(S), NEW f \in [S -> Nat], NEW g \in [S -> Nat],
           NEW a \in S, g[a] = f[a] + 1, \A x \in S : x # a => g[x] = f[x]
    PROVE  SumOf(g) = SumOf(f) + 1
<1> DEFINE h == [x \in S |-> IF x = a THEN 1 ELSE 0]
<1>1. /\ h \in [S -> Nat] /\ h[a] = 1 /\ \A x \in S : x # a => h[x] = 0
      /\ \A x \in S : g[x] = f[x] + h[x]
  OBVIOUS
<1> HIDE DEF h
<1>2. SumOf(g) = SumOf(f) + SumOf(h)
  BY <1>1, SumAdd
<1>3. SumOf(h) = h[a]
  BY <1>1, SumSingle, Zenon
<1> QED BY <1>1, <1>2, <1>3
=============================================================================
