---------------------------- MODULE TotalsProofs ----------------------------
(***************************************************************************)
(* Facts about sums over finite sets (module Totals).                      *)
(***************************************************************************)
EXTENDS Totals, FiniteSetTheorems, FunctionTheorems, TLAPS

\* The units of one row are as many as the row holds.
LEMMA RowUnits ==
    ASSUME NEW x, NEW n \in Nat
    PROVE  IsFiniteSet({x} \X (1 .. n)) /\ Cardinality({x} \X (1 .. n)) = n
<1>1. IsFiniteSet(1 .. n) /\ Cardinality(1 .. n) = n
  BY FS_Interval
<1>2. IsFiniteSet({x}) /\ Cardinality({x}) = 1
  BY FS_Singleton
<1> QED
  BY <1>1, <1>2, FS_Product

\* Finitely many rows hold finitely many units.
LEMMA UnitsFinite ==
    ASSUME NEW S, IsFiniteSet(S), NEW f, \A x \in S : f[x] \in Nat
    PROVE  IsFiniteSet(Units(f, S))
<1> DEFINE row == [x \in S |-> {x} \X (1 .. f[x])]
           rows == {{x} \X (1 .. f[x]) : x \in S}
<1>1. row \in Surjection(S, rows)
  BY DEF Surjection
<1>2. IsFiniteSet(rows)
  BY <1>1, FS_Surjection
<1>3. \A U \in rows : IsFiniteSet(U)
  <2>1. SUFFICES ASSUME NEW x \in S
                 PROVE  IsFiniteSet({x} \X (1 .. f[x]))
    OBVIOUS
  <2>2. f[x] \in Nat
    OBVIOUS
  <2> QED
    BY <2>2, RowUnits
<1> QED
  BY <1>2, <1>3, FS_UNION DEF Units

\* A sum of natural numbers is a natural number.
LEMMA TotalNat ==
    ASSUME NEW S, IsFiniteSet(S), NEW f, \A x \in S : f[x] \in Nat
    PROVE  Total(f, S) \in Nat
BY UnitsFinite, FS_CardinalityType DEF Total

\* The sum over one row.
LEMMA TotalSingle ==
    ASSUME NEW x, NEW f, f[x] \in Nat
    PROVE  Total(f, {x}) = f[x]
<1>1. Units(f, {x}) = {x} \X (1 .. f[x])
  BY DEF Units
<1> QED
  BY <1>1, RowUnits DEF Total

\* The sum only reads the rows it is over.
LEMMA TotalSame ==
    ASSUME NEW S, NEW f, NEW g, \A x \in S : f[x] = g[x]
    PROVE  Total(f, S) = Total(g, S)
<1>1. Units(f, S) = Units(g, S)
  BY DEF Units
<1> QED
  BY <1>1 DEF Total

\* Rows that hold nothing sum to nothing.
LEMMA TotalZero ==
    ASSUME NEW S, NEW f, \A x \in S : f[x] = 0
    PROVE  Total(f, S) = 0
<1>1. Units(f, S) = {}
  BY DEF Units
<1> QED
  BY <1>1, FS_EmptySet DEF Total

\* A sum splits over disjoint sets of rows.
LEMMA TotalSplit ==
    ASSUME NEW A, IsFiniteSet(A), NEW B, IsFiniteSet(B), A \cap B = {},
           NEW f, \A x \in A \cup B : f[x] \in Nat
    PROVE  Total(f, A \cup B) = Total(f, A) + Total(f, B)
<1>1. Units(f, A \cup B) = Units(f, A) \cup Units(f, B)
  BY DEF Units
<1>2. Units(f, A) \cap Units(f, B) = {}
  BY DEF Units
<1>3. IsFiniteSet(Units(f, A)) /\ IsFiniteSet(Units(f, B))
  BY UnitsFinite
<1>4. Cardinality(Units(f, A)) \in Nat /\ Cardinality(Units(f, B)) \in Nat
  BY <1>3, FS_CardinalityType
<1>5. Cardinality(Units(f, A) \cap Units(f, B)) = 0
  BY <1>2, FS_EmptySet
<1>6. Cardinality(Units(f, A) \cup Units(f, B)) =
        Cardinality(Units(f, A)) + Cardinality(Units(f, B))
          - Cardinality(Units(f, A) \cap Units(f, B))
  BY <1>3, FS_Union
<1>7. Cardinality(Units(f, A \cup B)) =
        Cardinality(Units(f, A) \cup Units(f, B))
  BY <1>1
<1>8. Cardinality(Units(f, A) \cup Units(f, B)) =
        Cardinality(Units(f, A)) + Cardinality(Units(f, B))
  BY <1>4, <1>5, <1>6
<1> QED
  BY <1>7, <1>8 DEF Total

\* The sum over some of the rows and the sum over the others.
LEMMA TotalPart ==
    ASSUME NEW S, IsFiniteSet(S), NEW T \in SUBSET S,
           NEW f, \A x \in S : f[x] \in Nat
    PROVE  /\ Total(f, S) = Total(f, T) + Total(f, S \ T)
           /\ Total(f, T) \in Nat
           /\ Total(f, S \ T) \in Nat
           /\ Total(f, T) <= Total(f, S)
<1>1. IsFiniteSet(T) /\ IsFiniteSet(S \ T)
  BY FS_Subset, FS_Difference
<1>2. T \cup (S \ T) = S /\ T \cap (S \ T) = {}
  OBVIOUS
<1>3. Total(f, T \cup (S \ T)) = Total(f, T) + Total(f, S \ T)
  BY <1>1, <1>2, TotalSplit
<1>4. Total(f, T) \in Nat /\ Total(f, S \ T) \in Nat
  BY <1>1, TotalNat
<1>5. Total(f, S) = Total(f, T \cup (S \ T))
  BY <1>2
<1> QED
  BY <1>3, <1>4, <1>5

\* One more row.
LEMMA TotalInsert ==
    ASSUME NEW S, IsFiniteSet(S), NEW x, x \notin S,
           NEW f, \A y \in S \cup {x} : f[y] \in Nat
    PROVE  /\ Total(f, S \cup {x}) = Total(f, S) + f[x]
           /\ Total(f, S) \in Nat
<1>1. IsFiniteSet({x}) /\ S \cap {x} = {} /\ f[x] \in Nat
  BY FS_Singleton
<1>2. Total(f, S \cup {x}) = Total(f, S) + Total(f, {x})
  BY <1>1, TotalSplit
<1>3. Total(f, {x}) = f[x]
  BY <1>1, TotalSingle
<1> QED
  BY <1>2, <1>3, TotalNat

\* Changing one row changes the sum by as much.
LEMMA TotalUpdate ==
    ASSUME NEW S, IsFiniteSet(S), NEW x \in S,
           NEW f, \A y \in S : f[y] \in Nat,
           NEW g, \A y \in S : g[y] \in Nat,
           \A y \in S \ {x} : g[y] = f[y]
    PROVE  /\ Total(g, S) = Total(f, S) - f[x] + g[x]
           /\ f[x] <= Total(f, S)
           /\ Total(f, S) \in Nat
<1>1. Total(g, S \ {x}) = Total(f, S \ {x})
  BY TotalSame
<1>2. {x} \in SUBSET S
  OBVIOUS
<1>3. /\ Total(f, S) = Total(f, {x}) + Total(f, S \ {x})
      /\ Total(f, {x}) \in Nat
      /\ Total(f, S \ {x}) \in Nat
  BY <1>2, TotalPart
<1>4. Total(g, S) = Total(g, {x}) + Total(g, S \ {x})
  BY <1>2, TotalPart
<1>5. Total(f, {x}) = f[x] /\ Total(g, {x}) = g[x]
  BY TotalSingle
<1> QED
  BY <1>1, <1>3, <1>4, <1>5

\* Emptying the rows of T takes what they held off the sum.
LEMMA TotalClear ==
    ASSUME NEW S, IsFiniteSet(S), NEW T \in SUBSET S,
           NEW f, \A x \in S : f[x] \in Nat,
           NEW g, \A x \in T : g[x] = 0, \A x \in S \ T : g[x] = f[x]
    PROVE  /\ Total(g, S) = Total(f, S) - Total(f, T)
           /\ Total(f, T) \in Nat
           /\ Total(f, S) \in Nat
           /\ Total(f, T) <= Total(f, S)
<1>1. \A x \in S : g[x] \in Nat
  OBVIOUS
<1>2. /\ Total(f, S) = Total(f, T) + Total(f, S \ T)
      /\ Total(f, T) \in Nat
      /\ Total(f, S \ T) \in Nat
      /\ Total(f, T) <= Total(f, S)
  BY TotalPart
<1>3. Total(g, S) = Total(g, T) + Total(g, S \ T)
  BY <1>1, TotalPart
<1>4. Total(g, T) = 0
  BY TotalZero
<1>5. Total(g, S \ T) = Total(f, S \ T)
  BY TotalSame
<1> QED
  BY <1>2, <1>3, <1>4, <1>5

\* Two sums over the same rows, added row by row.
LEMMA TotalAdd ==
    ASSUME NEW S, IsFiniteSet(S),
           NEW f, \A x \in S : f[x] \in Nat,
           NEW g, \A x \in S : g[x] \in Nat,
           NEW h, \A x \in S : h[x] = f[x] + g[x]
    PROVE  /\ Total(h, S) = Total(f, S) + Total(g, S)
           /\ Total(f, S) \in Nat
           /\ Total(g, S) \in Nat
<1> DEFINE A == Units(f, S)
           G == Units(g, S)
           B == UNION { {x} \X ((f[x] + 1) .. (f[x] + g[x])) : x \in S }
           shift == [p \in G |-> <<p[1], f[p[1]] + p[2]>>]
<1>1. IsFiniteSet(A) /\ IsFiniteSet(G)
  BY UnitsFinite
<1>2. \A p : p \in A <=> \E x \in S : \E k \in 1 .. f[x] : p = <<x, k>>
  BY DEF Units
<1>3. \A p : p \in G <=> \E x \in S : \E k \in 1 .. g[x] : p = <<x, k>>
  BY DEF Units
<1>4. \A p : p \in B <=> \E x \in S : \E k \in (f[x] + 1) .. (f[x] + g[x]) : p = <<x, k>>
  OBVIOUS
<1>5. \A p : p \in Units(h, S) <=> \E x \in S : \E k \in 1 .. h[x] : p = <<x, k>>
  BY DEF Units
<1>6. shift \in Bijection(G, B)
  <2>1. ASSUME NEW p \in G
        PROVE  shift[p] \in B
    <3>a. PICK x \in S : \E k \in 1 .. g[x] : p = <<x, k>>
      BY <1>3
    <3>1. PICK k \in 1 .. g[x] : p = <<x, k>>
      BY <3>a
    <3>2. shift[p] = <<x, f[x] + k>>
      BY <3>1
    <3>3. f[x] + k \in (f[x] + 1) .. (f[x] + g[x])
      OBVIOUS
    <3> QED
      BY <1>4, <3>2, <3>3
  <2>2. ASSUME NEW p \in G, NEW q \in G, shift[p] = shift[q]
        PROVE  p = q
    <3>a. PICK x \in S : \E k \in 1 .. g[x] : p = <<x, k>>
      BY <1>3
    <3>1. PICK k \in 1 .. g[x] : p = <<x, k>>
      BY <3>a
    <3>b. PICK y \in S : \E l \in 1 .. g[y] : q = <<y, l>>
      BY <1>3
    <3>2. PICK l \in 1 .. g[y] : q = <<y, l>>
      BY <3>b
    <3>3. shift[p] = <<x, f[x] + k>> /\ shift[q] = <<y, f[y] + l>>
      BY <3>1, <3>2
    <3>4. x = y /\ f[x] + k = f[x] + l
      BY <2>2, <3>3
    <3> QED
      BY <3>1, <3>2, <3>4
  <2>3. ASSUME NEW p \in B
        PROVE  \E q \in G : shift[q] = p
    <3>a. PICK x \in S : \E k \in (f[x] + 1) .. (f[x] + g[x]) : p = <<x, k>>
      BY <1>4
    <3>1. PICK k \in (f[x] + 1) .. (f[x] + g[x]) : p = <<x, k>>
      BY <3>a
    <3>2. k - f[x] \in 1 .. g[x] /\ f[x] + (k - f[x]) = k
      OBVIOUS
    <3>3. <<x, k - f[x]>> \in G
      BY <1>3, <3>2
    <3>4. shift[<<x, k - f[x]>>] = p
      BY <3>1, <3>2, <3>3
    <3> QED
      BY <3>3, <3>4
  <2> HIDE DEF G, B, shift
  <2>4. shift \in [G -> B]
    BY <2>1 DEF shift
  <2> QED
    BY <2>2, <2>3, <2>4 DEF Bijection, Injection, Surjection, IsInjective
<1>7. IsFiniteSet(B) /\ Cardinality(B) = Cardinality(G)
  BY <1>1, <1>6, FS_Bijection DEF ExistsBijection
<1>8. A \cap B = {}
  <2>1. ASSUME NEW p \in A, p \in B PROVE FALSE
    <3>a. PICK x \in S : \E k \in 1 .. f[x] : p = <<x, k>>
      BY <1>2
    <3>1. PICK k \in 1 .. f[x] : p = <<x, k>>
      BY <3>a
    <3>b. PICK y \in S : \E l \in (f[y] + 1) .. (f[y] + g[y]) : p = <<y, l>>
      BY <1>4, <2>1
    <3>2. PICK l \in (f[y] + 1) .. (f[y] + g[y]) : p = <<y, l>>
      BY <3>b
    <3>3. x = y /\ k = l
      BY <3>1, <3>2
    <3> QED
      BY <3>3
  <2> HIDE DEF A, B
  <2> QED
    BY <2>1
<1>9. Units(h, S) = A \cup B
  <2>1. ASSUME NEW x \in S, NEW k
        PROVE  k \in 1 .. h[x] <=> k \in 1 .. f[x] \/ k \in (f[x] + 1) .. (f[x] + g[x])
    <3>1. f[x] \in Nat /\ g[x] \in Nat /\ h[x] = f[x] + g[x]
      OBVIOUS
    <3> QED
      BY <3>1
  <2>2. ASSUME NEW p
        PROVE  p \in Units(h, S) <=> p \in A \/ p \in B
    <3> HIDE DEF A, B
    <3> QED
      BY <1>2, <1>4, <1>5, <2>1
  <2> HIDE DEF A, B
  <2> QED
    BY <2>2
<1>10. /\ Cardinality(A \cup B) = Cardinality(A) + Cardinality(B) - Cardinality(A \cap B)
       /\ Cardinality(A) \in Nat
       /\ Cardinality(B) \in Nat
       /\ Cardinality(A \cap B) = 0
  <2> HIDE DEF A, B
  <2> QED
    BY <1>1, <1>7, <1>8, FS_Union, FS_CardinalityType, FS_EmptySet
<1>11. Total(h, S) = Cardinality(A \cup B)
  BY <1>9 DEF Total
<1>12. Total(f, S) = Cardinality(A) /\ Total(g, S) = Cardinality(G)
  BY DEF Total
<1> HIDE DEF A, B, G, shift
<1> QED
  BY <1>7, <1>10, <1>11, <1>12

\* The rows of T are raised, by what h says.
LEMMA TotalRaise ==
    ASSUME NEW S, IsFiniteSet(S), NEW T \in SUBSET S,
           NEW f, \A x \in S : f[x] \in Nat,
           NEW h, \A x \in T : h[x] \in Nat,
           NEW g, \A x \in S : g[x] = IF x \in T THEN f[x] + h[x] ELSE f[x]
    PROVE  /\ Total(g, S) = Total(f, S) + Total(h, T)
           /\ Total(f, S) \in Nat
           /\ Total(h, T) \in Nat
<1> DEFINE more == [x \in S |-> IF x \in T THEN h[x] ELSE 0]
<1>1. \A x \in S : more[x] \in Nat
  OBVIOUS
<1>2. \A x \in S : g[x] = f[x] + more[x]
  OBVIOUS
<1>3. \A x \in T : more[x] = h[x]
  OBVIOUS
<1>4. \A x \in S \ T : more[x] = 0
  OBVIOUS
<1> HIDE DEF more
<1>5. /\ Total(g, S) = Total(f, S) + Total(more, S)
      /\ Total(f, S) \in Nat
      /\ Total(more, S) \in Nat
  BY <1>1, <1>2, TotalAdd
<1>6. /\ Total(more, S) = Total(more, T) + Total(more, S \ T)
      /\ Total(more, T) \in Nat
  BY <1>1, TotalPart
<1>7. Total(more, T) = Total(h, T)
  BY <1>3, TotalSame
<1>8. Total(more, S \ T) = 0
  BY <1>4, TotalZero
<1> QED
  BY <1>5, <1>6, <1>7, <1>8

\* F adds up f by key: F[u] is the sum over the rows of S whose key is u.
SumsBy(F, f, key, S, U) ==
    /\ IsFiniteSet(S)
    /\ \A x \in S : key[x] \in U
    /\ \A x \in S : f[x] \in Nat
    /\ \A u \in U : F[u] = Total(f, {x \in S : key[x] = u})

\* The partial sums add up to the whole.
LEMMA TotalPartition ==
    ASSUME NEW F, NEW f, NEW key, NEW S, NEW U, SumsBy(F, f, key, S, U)
    PROVE  Total(F, U) = Total(f, S)
<1> USE DEF SumsBy
<1> DEFINE Part(u) == Units(f, {x \in S : key[x] = u})
           Number == [u \in U |-> CHOOSE b : b \in Bijection(1 .. F[u], Part(u))]
           all == [p \in Units(F, U) |-> Number[p[1]][p[2]]]
<1>1. ASSUME NEW u \in U
      PROVE  Number[u] \in Bijection(1 .. F[u], Part(u))
  <2>1. IsFiniteSet({x \in S : key[x] = u})
    BY FS_Subset
  <2>2. IsFiniteSet(Part(u))
    BY <2>1, UnitsFinite
  <2>3. Cardinality(Part(u)) = F[u]
    BY DEF Total
  <2>4. \E b : b \in Bijection(1 .. F[u], Part(u))
    <3> HIDE DEF Part
    <3> QED
      BY <2>2, <2>3, FS_CardinalityType DEF ExistsBijection
  <2> QED
    BY <2>4
<1>2. \A p : p \in Units(F, U) <=> \E u \in U : \E k \in 1 .. F[u] : p = <<u, k>>
  BY DEF Units
<1>3. \A p : p \in Units(f, S) <=> \E x \in S : \E k \in 1 .. f[x] : p = <<x, k>>
  BY DEF Units
<1>4. \A u, p : p \in Part(u) <=>
                 \E x \in S : key[x] = u /\ \E k \in 1 .. f[x] : p = <<x, k>>
  BY DEF Units
<1> HIDE DEF Part, Number
<1>5. ASSUME NEW u \in U, NEW k \in 1 .. F[u]
      PROVE  /\ <<u, k>> \in Units(F, U)
             /\ all[<<u, k>>] = Number[u][k]
             /\ Number[u][k] \in Part(u)
  BY <1>1, <1>2 DEF Bijection, Injection, Surjection
<1>6. ASSUME NEW u, NEW p \in Part(u)
      PROVE  p \in Units(f, S) /\ key[p[1]] = u
  <2>1. PICK x \in S : key[x] = u /\ \E k \in 1 .. f[x] : p = <<x, k>>
    BY <1>4
  <2> QED
    BY <1>3, <2>1
<1> HIDE DEF all
<1>7. ASSUME NEW p \in Units(F, U)
      PROVE  all[p] \in Units(f, S)
  <2>1. PICK u \in U : \E k \in 1 .. F[u] : p = <<u, k>>
    BY <1>2
  <2>2. PICK k \in 1 .. F[u] : p = <<u, k>>
    BY <2>1
  <2> QED
    BY <1>5, <1>6, <2>2
<1>8. ASSUME NEW p \in Units(F, U), NEW q \in Units(F, U), all[p] = all[q]
      PROVE  p = q
  <2>1. PICK u \in U : \E k \in 1 .. F[u] : p = <<u, k>>
    BY <1>2
  <2>2. PICK k \in 1 .. F[u] : p = <<u, k>>
    BY <2>1
  <2>3. PICK v \in U : \E l \in 1 .. F[v] : q = <<v, l>>
    BY <1>2
  <2>4. PICK l \in 1 .. F[v] : q = <<v, l>>
    BY <2>3
  <2>5. /\ all[p] = Number[u][k] /\ Number[u][k] \in Part(u)
        /\ all[q] = Number[v][l] /\ Number[v][l] \in Part(v)
    BY <1>5, <2>2, <2>4
  <2>a. all[p] \in Part(u) /\ all[q] \in Part(v)
    BY <2>5
  <2>b. key[all[p][1]] = u /\ key[all[q][1]] = v
    BY <1>6, <2>a
  <2>6. u = v
    BY <1>8, <2>b
  <2>7. k = l
    <3>1. Number[u] \in Bijection(1 .. F[u], Part(u))
      BY <1>1
    <3>2. Number[u][k] = Number[u][l] /\ l \in 1 .. F[u]
      BY <1>8, <2>5, <2>6
    <3> QED
      BY <3>1, <3>2 DEF Bijection, Injection, IsInjective
  <2> QED
    BY <2>2, <2>4, <2>6, <2>7
<1>9. ASSUME NEW p \in Units(f, S)
      PROVE  \E q \in Units(F, U) : all[q] = p
  <2>1. PICK x \in S : \E k \in 1 .. f[x] : p = <<x, k>>
    BY <1>3
  <2>2. key[x] \in U /\ p \in Part(key[x])
    BY <1>4, <2>1, Zenon
  <2>3. Number[key[x]] \in Bijection(1 .. F[key[x]], Part(key[x]))
    BY <1>1, <2>2
  <2>4. PICK n \in 1 .. F[key[x]] : Number[key[x]][n] = p
    BY <2>2, <2>3 DEF Bijection, Surjection
  <2> QED
    BY <1>5, <2>2, <2>4
<1>10. all \in [Units(F, U) -> Units(f, S)]
  BY <1>7 DEF all
<1>11. all \in Bijection(Units(F, U), Units(f, S))
  BY <1>8, <1>9, <1>10 DEF Bijection, Injection, Surjection, IsInjective
<1>12. IsFiniteSet(Units(f, S))
  BY UnitsFinite
<1> QED
  BY <1>11, <1>12, FS_Bijection, FS_CardinalityType, Fun_ExistsBijSymmetric
  DEF Total, ExistsBijection

\* Books that balance row by row balance in all.
LEMMA TotalBalance ==
    ASSUME NEW S, IsFiniteSet(S),
           NEW a, \A x \in S : a[x] \in Nat,
           NEW b, \A x \in S : b[x] \in Nat,
           NEW c, \A x \in S : c[x] \in Nat,
           NEW d, \A x \in S : d[x] \in Nat,
           NEW e, \A x \in S : e[x] \in Nat,
           \A x \in S : a[x] + b[x] = c[x] + d[x] + e[x]
    PROVE  /\ Total(a, S) + Total(b, S) = Total(c, S) + Total(d, S) + Total(e, S)
           /\ Total(a, S) \in Nat /\ Total(b, S) \in Nat /\ Total(c, S) \in Nat
           /\ Total(d, S) \in Nat /\ Total(e, S) \in Nat
<1> DEFINE ab == [x \in S |-> a[x] + b[x]]
           cd == [x \in S |-> c[x] + d[x]]
<1>1. /\ \A x \in S : ab[x] = a[x] + b[x] /\ ab[x] \in Nat
      /\ \A x \in S : cd[x] = c[x] + d[x] /\ cd[x] \in Nat
      /\ \A x \in S : ab[x] = cd[x] + e[x]
  OBVIOUS
<1> HIDE DEF ab, cd
<1>2. /\ Total(ab, S) = Total(a, S) + Total(b, S)
      /\ Total(a, S) \in Nat /\ Total(b, S) \in Nat
  BY <1>1, TotalAdd
<1>3. /\ Total(cd, S) = Total(c, S) + Total(d, S)
      /\ Total(c, S) \in Nat /\ Total(d, S) \in Nat
  BY <1>1, TotalAdd
<1>4. /\ Total(ab, S) = Total(cd, S) + Total(e, S)
      /\ Total(e, S) \in Nat
  BY <1>1, TotalAdd
<1> QED
  BY <1>2, <1>3, <1>4
\* A sum grows with its rows.
LEMMA TotalMonotone ==
    ASSUME NEW S, IsFiniteSet(S),
           NEW f, \A x \in S : f[x] \in Nat,
           NEW g, \A x \in S : g[x] \in Nat,
           \A x \in S : f[x] <= g[x]
    PROVE  Total(f, S) <= Total(g, S)
<1>1. Units(f, S) \subseteq Units(g, S)
  BY DEF Units
<1>2. IsFiniteSet(Units(g, S))
  BY UnitsFinite
<1> QED
  BY <1>1, <1>2, FS_Subset DEF Total

\* The rows that are marked sum to their number.
LEMMA TotalCounts ==
    ASSUME NEW S, IsFiniteSet(S), NEW T \in SUBSET S,
           NEW f, \A x \in S : f[x] = IF x \in T THEN 1 ELSE 0
    PROVE  Total(f, S) = Cardinality(T)
<1>1. Units(f, S) = T \X (1 .. 1)
  <2>1. \A x \in T : f[x] = 1 /\ x \in S
    OBVIOUS
  <2>2. \A x \in S \ T : 1 .. f[x] = {}
    OBVIOUS
  <2>3. Units(f, S) \subseteq T \X (1 .. 1)
    BY <2>1, <2>2 DEF Units
  <2>4. T \X (1 .. 1) \subseteq Units(f, S)
    <3>1. ASSUME NEW x \in T, NEW k \in 1 .. 1
          PROVE  <<x, k>> \in {x} \X (1 .. f[x])
      BY <2>1
    <3> QED
      BY <2>1, <3>1 DEF Units
  <2> QED
    BY <2>3, <2>4
<1>2. IsFiniteSet(T) /\ Cardinality(T) \in Nat
  BY FS_Subset, FS_CardinalityType
<1>3. IsFiniteSet(1 .. 1) /\ Cardinality(1 .. 1) = 1
  <2>1. 1 .. 1 = {1}
    OBVIOUS
  <2> QED
    BY <2>1, FS_Singleton
<1>4. Cardinality(T \X (1 .. 1)) = Cardinality(T) * Cardinality(1 .. 1)
  BY <1>2, <1>3, FS_Product
<1> QED
  BY <1>1, <1>2, <1>3, <1>4 DEF Total
=============================================================================
