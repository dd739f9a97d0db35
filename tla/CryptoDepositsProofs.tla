------------------------ MODULE CryptoDepositsProofs ------------------------
(***************************************************************************)
(* Theorems about CryptoDeposits, for any number of networks, transfers    *)
(* and overlapping scans and any size of the explorers' pages: types, and  *)
(* which transfers can fall behind a cursor.                               *)
(***************************************************************************)
EXTENDS CryptoDeposits, SequenceTheorems, WellFoundedInduction, TLAPS

-----------------------------------------------------------------------------
(* Lists of transfers, newest first *)

Distinct(list) == \A i, j \in DOMAIN list : list[i] = list[j] => i = j

\* t stands before c.
Precedes(list, t, c) == \E i, j \in DOMAIN list : i < j /\ list[i] = t /\ list[j] = c

LEMMA ToSetIs ==
    ASSUME NEW T, NEW list \in Seq(T)
    PROVE  /\ ToSet(list) \subseteq T
           /\ DOMAIN list = 1 .. Len(list) /\ Len(list) \in Nat
           /\ \A x : x \in ToSet(list) <=> \E i \in 1 .. Len(list) : list[i] = x
BY DEF ToSet

\* What stands before something is on the list, and so is that.
LEMMA PrecedesOn ==
    ASSUME NEW T, NEW list \in Seq(T), NEW t, NEW c, Precedes(list, t, c)
    PROVE  t \in ToSet(list) /\ c \in ToSet(list)
BY DEF Precedes, ToSet

\* next is list with t as its new head.
Pushed(list, next, t) ==
    /\ Len(next) = Len(list) + 1
    /\ \A i \in 1 .. Len(list) + 1 : next[i] = IF i = 1 THEN t ELSE list[i - 1]

\* A new transfer stands before everything.
LEMMA PushList ==
    ASSUME NEW T, NEW list \in Seq(T), NEW next \in Seq(T),
           NEW t \in T, t \notin ToSet(list), Pushed(list, next, t)
    PROVE  /\ ToSet(next) = ToSet(list) \cup {t}
           /\ Distinct(list) => Distinct(next)
           /\ \A x, y \in T : Precedes(list, x, y) => Precedes(next, x, y)
           /\ \A y \in ToSet(list) : Precedes(next, t, y)
<1>1. /\ Len(list) \in Nat /\ next[1] = t
      /\ \A i \in 1 .. Len(list) : next[i + 1] = list[i]
  BY DEF Pushed
<1>2. DOMAIN next = 1 .. Len(list) + 1 /\ DOMAIN list = 1 .. Len(list)
  BY <1>1 DEF Pushed
<1>3. \A i \in 1 .. Len(list) + 1 :
          next[i] = IF i = 1 THEN t ELSE list[i - 1]
  BY DEF Pushed
<1>4. \A i \in 1 .. Len(list) : list[i] # t
  BY <1>2 DEF ToSet
<1>5. ToSet(next) = ToSet(list) \cup {t}
  <2>1. ToSet(next) \subseteq ToSet(list) \cup {t}
    BY <1>1, <1>2, <1>3 DEF ToSet
  <2>2. \A i \in 1 .. Len(list) : list[i] \in ToSet(next)
    <3> TAKE i \in 1 .. Len(list)
    <3>1. i + 1 \in DOMAIN next /\ next[i + 1] = list[i]
      BY <1>1, <1>2
    <3> QED
      BY <3>1 DEF ToSet
  <2>3. t \in ToSet(next)
    BY <1>1, <1>2 DEF ToSet
  <2> QED
    BY <1>2, <2>1, <2>2, <2>3 DEF ToSet
<1>6. ASSUME Distinct(list)
      PROVE  Distinct(next)
  <2>1. \A i, j \in 1 .. Len(list) : list[i] = list[j] => i = j
    BY <1>2, <1>6 DEF Distinct
  <2>2. ASSUME NEW i \in 1 .. Len(list) + 1, NEW j \in 1 .. Len(list) + 1,
               next[i] = next[j]
        PROVE  i = j
    <3>1. \A q \in 1 .. Len(list) + 1 : q # 1 => q - 1 \in 1 .. Len(list) /\ next[q] = list[q - 1]
      BY <1>1, <1>3
    <3>2. i = 1 <=> j = 1
      BY <1>1, <1>4, <2>2, <3>1
    <3> QED
      BY <1>1, <2>1, <2>2, <3>1, <3>2
  <2> QED
    BY <1>2, <2>2 DEF Distinct
<1>7. ASSUME NEW x \in T, NEW y \in T, Precedes(list, x, y)
      PROVE  Precedes(next, x, y)
  <2>1. PICK i \in 1 .. Len(list) : \E j \in 1 .. Len(list) :
            i < j /\ list[i] = x /\ list[j] = y
    BY <1>2, <1>7 DEF Precedes
  <2>2. PICK j \in 1 .. Len(list) : i < j /\ list[i] = x /\ list[j] = y
    BY <2>1
  <2>3. /\ i + 1 \in DOMAIN next /\ j + 1 \in DOMAIN next /\ i + 1 < j + 1
        /\ next[i + 1] = x /\ next[j + 1] = y
    BY <1>1, <1>2, <2>2
  <2> QED
    BY <2>3 DEF Precedes
<1>8. ASSUME NEW y \in ToSet(list)
      PROVE  Precedes(next, t, y)
  <2>1. PICK j \in 1 .. Len(list) : list[j] = y
    BY <1>2 DEF ToSet
  <2>2. /\ 1 \in DOMAIN next /\ j + 1 \in DOMAIN next /\ 1 < j + 1
        /\ next[1] = t /\ next[j + 1] = y
    BY <1>1, <1>2, <2>1
  <2> QED
    BY <2>2 DEF Precedes
<1> QED
  BY <1>1, <1>5, <1>6, <1>7, <1>8

LEMMA ConcatIs ==
    ASSUME NEW T, NEW l \in Seq(T), NEW r \in Seq(T), NEW next, next = l \o r
    PROVE  /\ next \in Seq(T)
           /\ Len(l) \in Nat /\ Len(r) \in Nat /\ Len(next) = Len(l) + Len(r)
           /\ \A i \in 1 .. Len(l) + Len(r) :
                  next[i] = IF i <= Len(l) THEN l[i] ELSE r[i - Len(l)]
BY ConcatProperties

LEMMA ConcatTwice ==
    ASSUME NEW T, NEW a \in Seq(T), NEW m \in Seq(T), NEW b \in Seq(T)
    PROVE  (a \o m) \o b = a \o (m \o b)
BY ConcatAssociative, SMT

LEMMA RemoveIndex ==
    ASSUME NEW T, NEW m \in Seq(T), NEW k \in 1 .. Len(m),
           NEW rest, rest = RemoveAt(m, k)
    PROVE  /\ rest \in Seq(T) /\ Len(rest) = Len(m) - 1
           /\ \A i \in 1 .. Len(m) - 1 : rest[i] = IF i < k THEN m[i] ELSE m[i + 1]
<1> DEFINE p == SubSeq(m, 1, k - 1)
           q == SubSeq(m, k + 1, Len(m))
<1>1. Len(m) \in Nat /\ k \in Nat /\ 1 <= k /\ k <= Len(m)
  OBVIOUS
<1>2. /\ p \in Seq(T) /\ Len(p) = k - 1
      /\ \A i \in 1 .. k - 1 : p[i] = m[i]
  BY <1>1
<1>3. /\ q \in Seq(T) /\ Len(q) = Len(m) - k
      /\ \A i \in 1 .. Len(m) - k : q[i] = m[k + i]
  BY <1>1
<1>4. rest = p \o q
  BY DEF RemoveAt
<1> HIDE DEF p, q
<1>5. p \in Seq(T) /\ q \in Seq(T)
  BY <1>2, <1>3
<1>6. /\ rest \in Seq(T) /\ Len(rest) = Len(p) + Len(q)
      /\ \A i \in 1 .. Len(p) + Len(q) :
             rest[i] = IF i <= Len(p) THEN p[i] ELSE q[i - Len(p)]
  BY <1>4, <1>5, ConcatIs
<1>7. Len(rest) = Len(m) - 1
  BY <1>1, <1>2, <1>3, <1>6
<1>8. ASSUME NEW i \in 1 .. Len(m) - 1
      PROVE  rest[i] = IF i < k THEN m[i] ELSE m[i + 1]
  <2>1. CASE i < k
    <3>1. i \in 1 .. Len(p) + Len(q) /\ i <= Len(p) /\ i \in 1 .. k - 1
      BY <1>1, <1>2, <1>3, <2>1
    <3> QED
      BY <1>2, <1>6, <2>1, <3>1
  <2>2. CASE i >= k
    <3>1. i \in 1 .. Len(p) + Len(q) /\ ~(i <= Len(p)) /\ i - Len(p) \in 1 .. Len(m) - k
      BY <1>1, <1>2, <1>3, <2>2
    <3>2. rest[i] = q[i - Len(p)]
      BY <1>6, <3>1
    <3>3. q[i - Len(p)] = m[k + (i - Len(p))]
      BY <1>3, <3>1
    <3>4. k + (i - Len(p)) = i + 1
      BY <1>1, <1>2, <2>2
    <3> QED
      BY <1>1, <2>2, <3>2, <3>3, <3>4
  <2> QED
    BY <1>1, <2>1, <2>2
<1> QED
  BY <1>6, <1>7, <1>8

LEMMA PushIndex ==
    ASSUME NEW T, NEW t \in T, NEW b \in Seq(T)
    PROVE  <<t>> \o b \in Seq(T) /\ Pushed(b, <<t>> \o b, t)
<1> SUFFICES ASSUME NEW next, next = <<t>> \o b
             PROVE  next \in Seq(T) /\ Pushed(b, next, t)
  OBVIOUS
<1>1. /\ next \in Seq(T) /\ Len(next) = Len(b) + 1 /\ Len(b) \in Nat
      /\ next[1] = t /\ \A i \in 1 .. Len(b) : next[i + 1] = b[i]
  OBVIOUS
<1>2. \A i \in 1 .. Len(b) + 1 : next[i] = IF i = 1 THEN t ELSE b[i - 1]
  BY <1>1
<1> QED
  BY <1>1, <1>2 DEF Pushed

\* The k-th transfer of list goes to place M, and what was between moves up.
MovedTo(list, next, k, M) ==
    /\ Len(next) = Len(list) /\ M <= Len(list)
    /\ \A i \in 1 .. Len(list) :
         next[i] = IF k <= i /\ i < M THEN list[i + 1]
                   ELSE IF i = M THEN list[k] ELSE list[i]

\* A block takes the k-th waiting transfer, which then stands behind the rest.
LEMMA MineIndex ==
    ASSUME NEW T, NEW m \in Seq(T), NEW b \in Seq(T), NEW k \in 1 .. Len(m)
    PROVE  /\ m \o b \in Seq(T) /\ RemoveAt(m, k) \in Seq(T)
           /\ <<m[k]>> \o b \in Seq(T)
           /\ RemoveAt(m, k) \o (<<m[k]>> \o b) \in Seq(T)
           /\ MovedTo(m \o b, RemoveAt(m, k) \o (<<m[k]>> \o b), k, Len(m))
<1> SUFFICES ASSUME NEW list, list = m \o b,
                    NEW rest, rest = RemoveAt(m, k),
                    NEW block, block = <<m[k]>> \o b,
                    NEW next, next = rest \o block
             PROVE  /\ list \in Seq(T) /\ rest \in Seq(T)
                    /\ block \in Seq(T) /\ next \in Seq(T)
                    /\ MovedTo(list, next, k, Len(m))
  OBVIOUS
<1>1. Len(m) \in Nat /\ Len(b) \in Nat /\ m[k] \in T /\ k \in Nat /\ 1 <= k /\ k <= Len(m)
  OBVIOUS
<1>2. rest \in Seq(T) /\ Len(rest) = Len(m) - 1
  BY RemoveIndex
<1>3. \A i \in 1 .. Len(m) - 1 : rest[i] = IF i < k THEN m[i] ELSE m[i + 1]
  BY RemoveIndex
<1>4. block \in Seq(T) /\ Len(block) = Len(b) + 1
  BY <1>1, PushIndex DEF Pushed
<1>5. \A i \in 1 .. Len(b) + 1 : block[i] = IF i = 1 THEN m[k] ELSE b[i - 1]
  BY <1>1, PushIndex DEF Pushed
<1>6. list \in Seq(T) /\ Len(list) = Len(m) + Len(b)
  BY ConcatIs
<1>7. \A i \in 1 .. Len(m) + Len(b) :
          list[i] = IF i <= Len(m) THEN m[i] ELSE b[i - Len(m)]
  BY ConcatIs
<1>8. next \in Seq(T) /\ Len(next) = Len(rest) + Len(block)
  <2>1. rest \in Seq(T) /\ block \in Seq(T)
    BY <1>2, <1>4
  <2> QED
    BY <2>1, ConcatIs
<1>9. \A i \in 1 .. Len(rest) + Len(block) :
          next[i] = IF i <= Len(rest) THEN rest[i] ELSE block[i - Len(rest)]
  BY <1>2, <1>4, ConcatIs
<1>10. Len(next) = Len(list) /\ Len(m) <= Len(list)
  <2>1. Len(next) = (Len(m) - 1) + (Len(b) + 1)
    BY <1>2, <1>4, <1>8, Zenon
  <2> DEFINE x == Len(m)
             y == Len(b)
  <2>2. x \in Nat /\ y \in Nat
    BY <1>1
  <2> HIDE DEF x, y
  <2>3. (x - 1) + (y + 1) = x + y /\ x <= x + y
    BY <2>2
  <2> QED
    BY <1>6, <2>1, <2>3, Zenon DEF x, y
<1>11. ASSUME NEW i \in 1 .. Len(list)
       PROVE  next[i] = IF k <= i /\ i < Len(m) THEN list[i + 1]
                        ELSE IF i = Len(m) THEN list[k] ELSE list[i]
  <2>1. i \in 1 .. Len(m) + Len(b) /\ i \in 1 .. Len(rest) + Len(block)
    BY <1>1, <1>2, <1>4, <1>6
  <2>2. CASE i <= Len(m) - 1
    <3>1. next[i] = rest[i] /\ i \in 1 .. Len(m) - 1
      BY <1>1, <1>2, <1>9, <2>1, <2>2
    <3>2. rest[i] = IF i < k THEN m[i] ELSE m[i + 1]
      BY <1>3, <3>1
    <3>3. list[i] = m[i]
      BY <1>1, <1>7, <2>1, <2>2
    <3>4. list[i + 1] = m[i + 1]
      <4>1. i + 1 \in 1 .. Len(m) + Len(b) /\ i + 1 <= Len(m)
        BY <1>1, <2>1, <2>2
      <4> QED
        BY <1>7, <4>1
    <3> QED
      BY <1>1, <2>1, <2>2, <3>1, <3>2, <3>3, <3>4
  <2>3. CASE i = Len(m)
    <3>1. next[i] = block[i - Len(rest)] /\ i - Len(rest) = 1
      BY <1>1, <1>2, <1>9, <2>1, <2>3
    <3>2. block[1] = m[k]
      <4>1. 1 \in 1 .. Len(b) + 1
        BY <1>1
      <4> QED
        BY <1>5, <4>1
    <3>3. list[k] = m[k]
      BY <1>1, <1>7
    <3> QED
      BY <1>1, <2>3, <3>1, <3>2, <3>3
  <2>4. CASE i > Len(m)
    <3>1. /\ i - Len(rest) \in 1 .. Len(b) + 1 /\ i - Len(rest) # 1
          /\ ~(i <= Len(rest)) /\ i - Len(rest) - 1 = i - Len(m)
      BY <1>1, <1>2, <2>1, <2>4
    <3>2. next[i] = block[i - Len(rest)]
      BY <1>9, <2>1, <3>1
    <3>3. block[i - Len(rest)] = b[i - Len(rest) - 1]
      BY <1>5, <3>1
    <3>4. list[i] = b[i - Len(m)]
      BY <1>1, <1>7, <2>1, <2>4
    <3> QED
      BY <1>1, <2>1, <2>4, <3>1, <3>2, <3>3, <3>4
  <2> QED
    BY <1>1, <2>1, <2>2, <2>3, <2>4
<1> QED
  BY <1>2, <1>4, <1>6, <1>8, <1>10, <1>11 DEF MovedTo

\* What that does to the listing.
LEMMA MovedList ==
    ASSUME NEW T, NEW list \in Seq(T), NEW next \in Seq(T),
           NEW M \in Nat, NEW k \in 1 .. M, MovedTo(list, next, k, M)
    PROVE  /\ ToSet(next) = ToSet(list)
           /\ Distinct(list) => Distinct(next)
           /\ \A x, y \in T : Precedes(list, x, y) /\ (x = list[k] => k = M)
                                  => Precedes(next, x, y)
<1> DEFINE L == Len(list)
           at(i) == IF i = k THEN M ELSE IF k < i /\ i <= M THEN i - 1 ELSE i
           from(i) == IF k <= i /\ i < M THEN i + 1 ELSE IF i = M THEN k ELSE i
<1>1. L \in Nat /\ DOMAIN list = 1 .. L /\ DOMAIN next = 1 .. L /\ k \in 1 .. L /\ M <= L
  BY DEF MovedTo
<1>2. \A i \in 1 .. L : from(i) \in 1 .. L /\ next[i] = list[from(i)]
  BY <1>1 DEF MovedTo
<1>3. \A i \in 1 .. L : at(i) \in 1 .. L /\ next[at(i)] = list[i]
  <2> TAKE i \in 1 .. L
  <2>1. at(i) \in 1 .. L /\ from(at(i)) = i
    BY <1>1
  <2> HIDE DEF at, from
  <2> QED
    BY <1>2, <2>1
<1> HIDE DEF L
<1>4. ToSet(next) = ToSet(list)
  <2>1. \A i \in 1 .. L : next[i] \in ToSet(list)
    <3> HIDE DEF from
    <3> QED
      BY <1>1, <1>2 DEF ToSet
  <2>2. \A i \in 1 .. L : list[i] \in ToSet(next)
    <3> HIDE DEF at
    <3> QED
      BY <1>1, <1>3 DEF ToSet
  <2> QED
    BY <1>1, <2>1, <2>2 DEF ToSet
<1>5. ASSUME Distinct(list)
      PROVE  Distinct(next)
  <2>1. ASSUME NEW i \in 1 .. L, NEW j \in 1 .. L, next[i] = next[j]
        PROVE  i = j
    <3>1. from(i) = from(j)
      <4> HIDE DEF from
      <4> QED
        BY <1>1, <1>2, <1>5, <2>1 DEF Distinct
    <3> QED
      BY <1>1, <3>1
  <2> QED
    BY <1>1, <2>1 DEF Distinct
<1>6. ASSUME NEW x \in T, NEW y \in T, Precedes(list, x, y), x = list[k] => k = M
      PROVE  Precedes(next, x, y)
  <2>1. PICK i \in 1 .. L : \E j \in 1 .. L : i < j /\ list[i] = x /\ list[j] = y
    BY <1>1, <1>6 DEF Precedes
  <2>2. PICK j \in 1 .. L : i < j /\ list[i] = x /\ list[j] = y
    BY <2>1
  <2>3. at(i) < at(j)
    <3>1. i = k => k = M
      BY <1>6, <2>2
    <3> QED
      BY <1>1, <2>2, <3>1
  <2> HIDE DEF at
  <2>4. /\ at(i) \in DOMAIN next /\ at(j) \in DOMAIN next
        /\ next[at(i)] = x /\ next[at(j)] = y
    BY <1>1, <1>3, <2>2
  <2> QED
    BY <2>3, <2>4 DEF Precedes
<1> QED
  BY <1>4, <1>5, <1>6

\* What stands before c on a listing is the part that Before cuts out.
LEMMA BeforeMeans ==
    ASSUME NEW T, NEW list \in Seq(T), NEW c
    PROVE  /\ Before(list, c) \in Seq(T)
           /\ ToSet(Before(list, c)) \subseteq ToSet(list)
           /\ c \notin ToSet(list) => Before(list, c) = list
           /\ \A t : t \in ToSet(Before(list, c)) /\ c \in ToSet(list)
                         => Precedes(list, t, c)
           /\ \A t : Distinct(list) /\ Precedes(list, t, c)
                         => t \in ToSet(Before(list, c))
<1>1. CASE c \notin ToSet(list)
  <2>1. Before(list, c) = list
    BY <1>1 DEF Before
  <2> QED
    BY <1>1, <2>1, PrecedesOn
<1>2. CASE c \in ToSet(list)
  <2> DEFINE k == CHOOSE i \in DOMAIN list : list[i] = c
             b == SubSeq(list, 1, k - 1)
  <2>1. k \in 1 .. Len(list) /\ list[k] = c /\ Len(list) \in Nat /\ DOMAIN list = 1 .. Len(list)
    BY <1>2 DEF ToSet
  <2>2. Before(list, c) = b
    BY <1>2 DEF Before
  <2> HIDE DEF k
  <2>3. b \in Seq(T) /\ Len(b) = k - 1 /\ \A i \in 1 .. k - 1 : b[i] = list[i]
    BY <2>1
  <2> HIDE DEF b
  <2>4. DOMAIN b = 1 .. k - 1
    BY <2>1, <2>3
  <2>5. ASSUME NEW t, t \in ToSet(b)
        PROVE  t \in ToSet(list) /\ Precedes(list, t, c)
    <3>1. PICK i \in 1 .. k - 1 : b[i] = t
      BY <2>4, <2>5 DEF ToSet
    <3>2. i \in DOMAIN list /\ k \in DOMAIN list /\ i < k /\ list[i] = t
      BY <2>1, <2>3, <3>1
    <3> QED
      BY <2>1, <3>2 DEF Precedes, ToSet
  <2>6. ASSUME NEW t, Distinct(list), Precedes(list, t, c)
        PROVE  t \in ToSet(b)
    <3>1. PICK i \in DOMAIN list : \E j \in DOMAIN list : i < j /\ list[i] = t /\ list[j] = c
      BY <2>6 DEF Precedes
    <3>2. PICK j \in DOMAIN list : i < j /\ list[i] = t /\ list[j] = c
      BY <3>1
    <3>3. j = k
      BY <2>1, <2>6, <3>2 DEF Distinct
    <3>4. i \in 1 .. k - 1
      BY <2>1, <3>2, <3>3
    <3> QED
      BY <2>3, <2>4, <3>2, <3>4 DEF ToSet
  <2> QED
    BY <1>2, <2>2, <2>3, <2>5, <2>6
<1> QED
  BY <1>1, <1>2

LEMMA FirstPageIs ==
    ASSUME NEW T, NEW list \in Seq(T)
    PROVE  FirstPage(list) \in Seq(T) /\ ToSet(FirstPage(list)) \subseteq ToSet(list)
<1> DEFINE n == IF Len(list) > PageSize THEN PageSize ELSE Len(list)
           p == SubSeq(list, 1, n)
<1>1. n \in Nat /\ n <= Len(list) /\ Len(list) \in Nat /\ DOMAIN list = 1 .. Len(list)
  BY DepositsAssumption
<1> HIDE DEF n
<1>2. p \in Seq(T) /\ Len(p) = n /\ \A i \in 1 .. n : p[i] = list[i]
  BY <1>1
<1>3. FirstPage(list) = p
  BY DEF FirstPage, n
<1> HIDE DEF p
<1>4. DOMAIN p = 1 .. n
  BY <1>1, <1>2
<1>5. ASSUME NEW t \in ToSet(p)
      PROVE  t \in ToSet(list)
  <2>1. PICK i \in 1 .. n : p[i] = t
    BY <1>4 DEF ToSet
  <2>2. i \in DOMAIN list /\ list[i] = t
    BY <1>1, <1>2, <2>1
  <2> QED
    BY <2>2 DEF ToSet
<1> QED
  BY <1>2, <1>3, <1>5

LEMMA OldestIs ==
    ASSUME NEW T, NEW page \in Seq(T), NEW new, new # {}, new \subseteq ToSet(page)
    PROVE  OldestOf(page, new) \in new
<1> DEFINE L == Len(page)
           D == {i \in 1 .. L : page[i] \in new}
           W == {L - i : i \in D}
           less == OpToRel(<, Nat)
<1>1. L \in Nat /\ DOMAIN page = 1 .. L
  OBVIOUS
<1>2. D # {}
  BY <1>1 DEF ToSet
<1> HIDE DEF L
<1>3. W \subseteq Nat /\ W # {}
  BY <1>1, <1>2
<1>4. PICK x \in W : \A y \in W : <<y, x>> \notin less
  <2> HIDE DEF W, less
  <2>1. IsWellFoundedOn(less, Nat)
    BY NatLessThanWellFounded DEF less
  <2> QED
    BY <1>3, <2>1, WFMin
<1>5. PICK i \in D : x = L - i
  BY <1>4
<1>6. \A j \in D : j <= i
  <2> SUFFICES ASSUME NEW j \in D
               PROVE  j <= i
    OBVIOUS
  <2>1. L - j \in W /\ L - j \in Nat /\ x \in Nat
    BY <1>3, <1>4
  <2>2. ~(L - j < x)
    BY <1>4, <2>1 DEF OpToRel
  <2> QED
    BY <1>1, <1>5, <2>1, <2>2
<1>7. /\ i \in DOMAIN page /\ page[i] \in new
      /\ \A j \in DOMAIN page : page[j] \in new => j <= i
  BY <1>1, <1>5, <1>6
<1> QED
  BY <1>7 DEF OldestOf

-----------------------------------------------------------------------------
(* The invariant *)

\* The list of an address names a transfer once, and only what pays it.
ChainsDistinct ==
    \A a \in Addresses : Distinct(Listing(a)) /\ \A t \in OnChain(a) : PaidTo[t] = a

\* Only Bitcoin shows transfers that are in no block.
OnlyBitcoinWaits == \A a \in Addresses : Kind[NetworkOf[a]] # "bitcoin" => mempool[a] = <<>>

\* c is on the list, and what is on it and not known is newer than c.
Covers(list, c, known) ==
    /\ c \in ToSet(list)
    /\ \A t \in ToSet(list) \ known : Precedes(list, t, c)

\* A cursor tells something of the address that its transfer paid.
UpTo(c, known) ==
    \/ c = NoHash
    \/ /\ c \in Transfers
       /\ \A a \in Addresses : a = PaidTo[c] => Covers(Listing(a), c, known)

Known == recorded \cup excused

\* What MissedIsExplained says of the cursors in the database ...
CursorsUpTo == \A n \in Networks : UpTo(address[n].cursor, Known)

\* ... a scan keeps for the cursor it has read, and for the one it will write
\* together with the deposits it has found.
ScanUpTo(s) ==
    scan[s].step = "open" =>
        \A n \in Networks :
            /\ n \in scan[s].todo => /\ scan[s].found[n] = {}
                                     /\ UpTo(scan[s].cursor[n], Known)
            /\ scan[s].found[n] # {} =>
                   /\ scan[s].cursor[n] \in scan[s].found[n]
                   /\ UpTo(scan[s].cursor[n], Known \cup scan[s].found[n])

ScansUpTo == \A s \in Scans : ScanUpTo(s)

DepositsInv ==
    /\ TypeOK
    /\ OnlyBitcoinWaits
    /\ ChainsDistinct
    /\ CursorsUpTo
    /\ ScansUpTo

-----------------------------------------------------------------------------
(* What becomes of the listings *)

\* next has the transfers of list in their order, but for those in moved, and
\* new ones before them.
Follows(list, next, moved) ==
    /\ ToSet(list) \subseteq ToSet(next)
    /\ Distinct(list) => Distinct(next)
    /\ \A x, y \in Transfers :
         Precedes(list, x, y) /\ x \notin moved => Precedes(next, x, y)
    /\ \A x \in ToSet(next) \ ToSet(list) : \A y \in ToSet(list) : Precedes(next, x, y)

ChainsFollow ==
    \A a \in Addresses :
        /\ Follows(Listing(a), Listing(a)', excused')
        /\ \A t \in ToSet(Listing(a)') \ ToSet(Listing(a)) : PaidTo[t] = a

LEMMA ListingIs ==
    ASSUME TypeOK, NEW a \in Addresses
    PROVE  /\ mempool[a] \in Seq(Transfers) /\ blocks[a] \in Seq(Transfers)
           /\ Listing(a) \in Seq(Transfers) /\ OnChain(a) \subseteq Transfers
           /\ NoHash \notin OnChain(a)
<1>1. mempool[a] \in Seq(Transfers) /\ blocks[a] \in Seq(Transfers)
  BY DEF TypeOK
<1>2. Listing(a) \in Seq(Transfers)
  BY <1>1, ConcatIs DEF Listing
<1>3. OnChain(a) \subseteq Transfers
  BY <1>2, ToSetIs DEF OnChain
<1> QED
  BY <1>1, <1>2, <1>3, DepositsAssumption

LEMMA SameChains ==
    ASSUME UNCHANGED chainVars
    PROVE  ChainsFollow
<1>1. \A a \in Addresses : Listing(a)' = Listing(a)
  BY DEF chainVars, Listing
<1> QED
  BY <1>1 DEF ChainsFollow, Follows

\* A list with a new head.
LEMMA PushFollows ==
    ASSUME NEW list \in Seq(Transfers), NEW next \in Seq(Transfers),
           NEW t \in Transfers, t \notin ToSet(list), Pushed(list, next, t), NEW moved
    PROVE  Follows(list, next, moved)
<1>1. ToSet(next) = ToSet(list) \cup {t}
  BY PushList
<1>2. Distinct(list) => Distinct(next)
  BY PushList
<1>3. \A x, y \in Transfers : Precedes(list, x, y) => Precedes(next, x, y)
  BY PushList
<1>4. \A y \in ToSet(list) : Precedes(next, t, y)
  BY PushList
<1> QED
  BY <1>1, <1>2, <1>3, <1>4, Zenon DEF Follows

LEMMA BroadcastFollows ==
    ASSUME TypeOK, OnlyBitcoinWaits, NEW t \in Transfers, Broadcast(t)
    PROVE  /\ mempool' \in [Addresses -> Seq(Transfers)]
           /\ blocks' \in [Addresses -> Seq(Transfers)]
           /\ OnlyBitcoinWaits'
           /\ ChainsFollow
<1> DEFINE a == PaidTo[t]
           m == mempool[a]
           b == blocks[a]
           list == Listing(a)
           next == Listing(a)'
<1>1. a \in Addresses
  BY DepositsAssumption
<1>2. /\ m \in Seq(Transfers) /\ b \in Seq(Transfers) /\ list \in Seq(Transfers)
      /\ list = m \o b
  BY <1>1, ListingIs DEF Listing
<1>3. t \notin ToSet(list)
  BY DEF Broadcast, OnChain
<1>4. \A q \in Addresses : q # a => mempool'[q] = mempool[q] /\ blocks'[q] = blocks[q]
  BY <1>1 DEF Broadcast, TypeOK
<1>5. \/ Kind[NetworkOf[a]] = "bitcoin" /\ mempool'[a] = <<t>> \o m /\ blocks'[a] = b
      \/ Kind[NetworkOf[a]] # "bitcoin" /\ mempool'[a] = m /\ blocks'[a] = <<t>> \o b
  BY <1>1 DEF Broadcast, TypeOK
<1>6. mempool' \in [Addresses -> Seq(Transfers)] /\ blocks' \in [Addresses -> Seq(Transfers)]
  <2>1. <<t>> \o m \in Seq(Transfers) /\ <<t>> \o b \in Seq(Transfers)
    BY <1>2, PushIndex
  <2>2. \/ mempool' = [mempool EXCEPT ![a] = <<t>> \o m] /\ blocks' = blocks
        \/ blocks' = [blocks EXCEPT ![a] = <<t>> \o b] /\ mempool' = mempool
    BY <1>1 DEF Broadcast, TypeOK
  <2> DEFINE mt == <<t>> \o m
             bt == <<t>> \o b
  <2>3. mt \in Seq(Transfers) /\ bt \in Seq(Transfers)
    BY <2>1
  <2>4. \/ mempool' = [mempool EXCEPT ![a] = mt] /\ blocks' = blocks
        \/ blocks' = [blocks EXCEPT ![a] = bt] /\ mempool' = mempool
    BY <2>2
  <2> HIDE DEF mt, bt, a
  <2> QED
    BY <1>1, <2>3, <2>4 DEF TypeOK
<1>7. next = <<t>> \o list
  <2>1. CASE Kind[NetworkOf[a]] = "bitcoin"
    <3>1. next = (<<t>> \o m) \o b
      BY <1>5, <2>1 DEF Listing
    <3> DEFINE tt == <<t>>
    <3>2. tt \in Seq(Transfers)
      OBVIOUS
    <3> HIDE DEF tt, m, b
    <3>3. (tt \o m) \o b = tt \o (m \o b)
      BY <1>2, <3>2, ConcatTwice
    <3> QED
      BY <1>2, <3>1, <3>3 DEF tt
  <2>2. CASE Kind[NetworkOf[a]] # "bitcoin"
    <3>1. next = m \o (<<t>> \o b) /\ m = <<>>
      BY <1>1, <1>5, <2>2 DEF Listing, OnlyBitcoinWaits
    <3>2. <<t>> \o b \in Seq(Transfers)
      BY <1>2, PushIndex
    <3>3. next = <<t>> \o b /\ list = b
      BY <1>2, <3>1, <3>2, ConcatEmptySeq
    <3> QED
      BY <3>3
  <2> QED
    BY <2>1, <2>2
<1>8. OnlyBitcoinWaits'
  BY <1>4, <1>5 DEF OnlyBitcoinWaits
<1>9. ASSUME NEW q \in Addresses
      PROVE  /\ Follows(Listing(q), Listing(q)', excused')
             /\ \A x \in ToSet(Listing(q)') \ ToSet(Listing(q)) : PaidTo[x] = q
  <2>1. CASE q = a
    <3>1. Follows(list, next, excused') /\ ToSet(next) = ToSet(list) \cup {t}
      <4>1. next \in Seq(Transfers) /\ Pushed(list, next, t)
        <5>1. <<t>> \o list \in Seq(Transfers) /\ Pushed(list, <<t>> \o list, t)
          <6> HIDE DEF list
          <6> QED
            BY <1>2, PushIndex
        <5> HIDE DEF list, next
        <5> QED
          BY <1>7, <5>1, Zenon
      <4>2. ToSet(next) = ToSet(list) \cup {t}
        <5>1. list \in Seq(Transfers) /\ t \notin ToSet(list)
          BY <1>2, <1>3
        <5> HIDE DEF list, next, a
        <5> QED
          BY <4>1, <5>1, PushList
      <4> HIDE DEF list, next
      <4>3. Follows(list, next, excused')
        BY <1>2, <1>3, <4>1, PushFollows
      <4> QED
        BY <4>2, <4>3
    <3> HIDE DEF list, next
    <3>2. \A x \in ToSet(next) \ ToSet(list) : PaidTo[x] = a
      BY <3>1
    <3> QED
      BY <2>1, <3>1, <3>2 DEF list, next
  <2>2. CASE q # a
    <3>1. Listing(q)' = Listing(q)
      BY <1>4, <2>2 DEF Listing
    <3> QED
      BY <3>1 DEF Follows
  <2> QED
    BY <2>1, <2>2
<1> QED
  BY <1>6, <1>8, <1>9 DEF ChainsFollow

\* A block takes the k-th waiting transfer: it is known to be behind, unless it
\* has waited longest.
LEMMA MineFollows ==
    ASSUME TypeOK, OnlyBitcoinWaits, NEW t \in Transfers, Mine(t)
    PROVE  /\ mempool' \in [Addresses -> Seq(Transfers)]
           /\ blocks' \in [Addresses -> Seq(Transfers)]
           /\ excused' \subseteq Transfers /\ excused \subseteq excused'
           /\ OnlyBitcoinWaits'
           /\ ChainsFollow
<1> DEFINE a == PaidTo[t]
           m == mempool[a]
           b == blocks[a]
<1>1. a \in Addresses
  BY DepositsAssumption
<1>2. m \in Seq(Transfers) /\ b \in Seq(Transfers)
  BY <1>1, ListingIs
<1>3. PICK k \in DOMAIN m : m[k] = t /\ mempool' = [mempool EXCEPT ![a] = RemoveAt(@, k)]
  BY DEF Mine
<1>4. k \in 1 .. Len(m) /\ Len(m) \in Nat
  BY <1>2, <1>3
<1> DEFINE rest == RemoveAt(m, k)
           block == <<m[k]>> \o b
           list == m \o b
           next == rest \o block
<1>5. mempool' = [mempool EXCEPT ![a] = rest] /\ blocks' = [blocks EXCEPT ![a] = block]
  BY <1>1, <1>3 DEF Mine, TypeOK
<1>6. Kind[NetworkOf[a]] = "bitcoin"
  <2>1. m # <<>>
    BY <1>4
  <2> QED
    BY <1>1, <2>1 DEF OnlyBitcoinWaits
<1>7. /\ list \in Seq(Transfers) /\ rest \in Seq(Transfers) /\ block \in Seq(Transfers)
      /\ next \in Seq(Transfers) /\ MovedTo(list, next, k, Len(m))
  <2> HIDE DEF m, b
  <2> QED
    BY <1>2, <1>4, MineIndex
<1>8. list[k] = t
  <2>1. \A i \in 1 .. Len(m) + Len(b) : list[i] = IF i <= Len(m) THEN m[i] ELSE b[i - Len(m)]
    <3>1. list = m \o b
      OBVIOUS
    <3> HIDE DEF m, b, list
    <3> QED
      BY <1>2, <3>1, ConcatIs
  <2> HIDE DEF list, m, b
  <2>2. k \in 1 .. Len(m) + Len(b) /\ k <= Len(m)
    BY <1>2, <1>4
  <2> QED
    BY <1>3, <2>1, <2>2
<1>9. k # Len(m) => t \in excused'
  <2> SUFFICES ASSUME k # Len(m)
               PROVE  t \in excused'
    OBVIOUS
  <2>1. Len(m) \in DOMAIN m /\ k < Len(m) /\ m[Len(m)] \in Transfers
    BY <1>2, <1>4
  <2>2. NewerThan(t, m[Len(m)])
    BY <1>3, <2>1 DEF NewerThan
  <2> QED
    BY <2>1, <2>2 DEF Mine
<1>10. Follows(list, next, excused') /\ ToSet(next) = ToSet(list)
  <2>1. /\ ToSet(next) = ToSet(list)
        /\ Distinct(list) => Distinct(next)
        /\ \A x, y \in Transfers : Precedes(list, x, y) /\ (x = list[k] => k = Len(m))
                                     => Precedes(next, x, y)
    <3> DEFINE M == Len(m)
    <3>1. M \in Nat /\ k \in 1 .. M
      BY <1>4
    <3> HIDE DEF list, next, M
    <3> QED
      BY <1>7, <3>1, MovedList DEF M
  <2> HIDE DEF list, next, m
  <2> QED
    BY <1>8, <1>9, <2>1 DEF Follows
<1> HIDE DEF rest, block
<1>11. mempool' \in [Addresses -> Seq(Transfers)] /\ blocks' \in [Addresses -> Seq(Transfers)]
  BY <1>1, <1>5, <1>7 DEF TypeOK
<1>12. excused' \subseteq Transfers /\ excused \subseteq excused'
  BY DEF Mine, TypeOK
<1>13. OnlyBitcoinWaits'
  BY <1>1, <1>5, <1>6 DEF OnlyBitcoinWaits, TypeOK
<1>14. ASSUME NEW q \in Addresses
       PROVE  /\ Follows(Listing(q), Listing(q)', excused')
             /\ \A x \in ToSet(Listing(q)') \ ToSet(Listing(q)) : PaidTo[x] = q
  <2>1. CASE q = a
    <3>1. Listing(q) = list /\ Listing(q)' = next
      BY <1>1, <1>5, <2>1 DEF Listing, TypeOK
    <3> QED
      BY <1>10, <3>1
  <2>2. CASE q # a
    <3>1. Listing(q)' = Listing(q)
      BY <1>1, <1>5, <2>2 DEF Listing, TypeOK
    <3> QED
      BY <3>1 DEF Follows
  <2> QED
    BY <2>1, <2>2
<1> QED
  BY <1>11, <1>12, <1>13, <1>14 DEF ChainsFollow

-----------------------------------------------------------------------------
(* What the scans and the cursors keep *)

\* What a cursor c tells after the step.
NextUpTo(c, known) ==
    \/ c = NoHash
    \/ /\ c \in Transfers
       /\ \A a \in Addresses : a = PaidTo[c] => Covers(Listing(a)', c, known)

LEMMA CarriesOver ==
    ASSUME TypeOK, ChainsFollow, NEW c, NEW known, NEW later,
           UpTo(c, known), known \subseteq later, excused' \subseteq later
    PROVE  NextUpTo(c, later)
<1> SUFFICES ASSUME c # NoHash, NEW a \in Addresses, a = PaidTo[c]
             PROVE  Covers(Listing(a)', c, later)
  BY DEF NextUpTo, UpTo
<1> DEFINE list == Listing(a)
           next == Listing(a)'
<1>1. c \in Transfers /\ Covers(list, c, known)
  BY DEF UpTo
<1>3. ToSet(list) \subseteq Transfers
  BY ListingIs DEF OnChain
<1>4. /\ ToSet(list) \subseteq ToSet(next)
      /\ \A x, y \in Transfers : Precedes(list, x, y) /\ x \notin excused' => Precedes(next, x, y)
      /\ \A x \in ToSet(next) \ ToSet(list) : \A y \in ToSet(list) : Precedes(next, x, y)
  BY DEF ChainsFollow, Follows
<1> HIDE DEF list, next
<1>5. c \in ToSet(list) /\ \A t \in ToSet(list) \ known : Precedes(list, t, c)
  BY <1>1 DEF Covers
<1>6. \A t \in ToSet(next) \ later : Precedes(next, t, c)
  BY <1>1, <1>3, <1>4, <1>5
<1>7. Covers(next, c, later)
  BY <1>4, <1>5, <1>6 DEF Covers
<1> QED
  BY <1>7 DEF next

LEMMA StaysDistinct ==
    ASSUME ChainsDistinct, ChainsFollow
    PROVE  ChainsDistinct'
BY DEF ChainsDistinct, ChainsFollow, Follows, OnChain

\* A cursor that is left alone, or cleared.
LEMMA CursorKept ==
    ASSUME TypeOK, CursorsUpTo, ChainsFollow, Known \subseteq Known', NEW n \in Networks,
           address'[n].cursor \in {address[n].cursor, NoHash}
    PROVE  UpTo(address[n].cursor, Known)'
<1> DEFINE c == address[n].cursor
<1>1. excused' \subseteq Known' /\ UpTo(c, Known)
  BY DEF Known, CursorsUpTo
<1>2. NextUpTo(c, Known')
  <2> HIDE DEF c
  <2> QED
    BY <1>1, CarriesOver
<1>3. CASE address'[n].cursor = c
  <2> HIDE DEF c
  <2> QED
    BY <1>2, <1>3 DEF UpTo, NextUpTo
<1>4. CASE address'[n].cursor = NoHash
  BY <1>4 DEF UpTo
<1> QED
  BY <1>3, <1>4

\* A scan that is over, or does not move.
ScanAlone(s) ==
    \/ scan'[s].step # "open"
    \/ /\ scan[s].step = "open"
       /\ scan'[s].todo = scan[s].todo
       /\ scan'[s].found = scan[s].found
       /\ scan'[s].cursor = scan[s].cursor

LEMMA ScanKept ==
    ASSUME TypeOK, ChainsFollow, Known \subseteq Known', NEW s \in Scans, ScanUpTo(s),
           ScanAlone(s)
    PROVE  ScanUpTo(s)'
<1> SUFFICES ASSUME scan'[s].step = "open", NEW n \in Networks
             PROVE  /\ n \in scan'[s].todo => /\ scan'[s].found[n] = {}
                                              /\ UpTo(scan[s].cursor[n], Known)'
                    /\ scan'[s].found[n] # {} =>
                         /\ scan'[s].cursor[n] \in scan'[s].found[n]
                         /\ UpTo(scan[s].cursor[n], Known \cup scan[s].found[n])'
  BY DEF ScanUpTo
<1> DEFINE c == scan[s].cursor[n]
           found == scan[s].found[n]
<1>1. /\ scan[s].step = "open" /\ scan'[s].todo = scan[s].todo
      /\ scan'[s].found[n] = found /\ scan'[s].cursor[n] = c
  BY DEF ScanAlone
<1>2. excused' \subseteq Known'
  BY DEF Known
<1>3. ASSUME n \in scan[s].todo
      PROVE  /\ found = {}
             /\ NextUpTo(c, Known')
  <2>1. found = {} /\ UpTo(c, Known)
    BY <1>1, <1>3 DEF ScanUpTo
  <2> HIDE DEF c, found
  <2> QED
    BY <1>2, <2>1, CarriesOver
<1>4. ASSUME found # {}
      PROVE  /\ c \in found
             /\ NextUpTo(c, Known' \cup found)
  <2>1. c \in found /\ UpTo(c, Known \cup found)
    BY <1>1, <1>4 DEF ScanUpTo
  <2> HIDE DEF c, found
  <2>2. Known \cup found \subseteq Known' \cup found /\ excused' \subseteq Known' \cup found
    BY <1>2
  <2> QED
    BY <2>1, <2>2, CarriesOver
<1> HIDE DEF c, found
<1> QED
  BY <1>1, <1>3, <1>4 DEF UpTo, NextUpTo

\* What an explorer answers is on the chain.
LEMMA PagesAre ==
    ASSUME TypeOK, NEW a \in Addresses, NEW c, NEW page \in Pages(a, c)
    PROVE  page \in Seq(Transfers) /\ ToSet(page) \subseteq OnChain(a)
<1>1. Listing(a) \in Seq(Transfers)
  BY ListingIs
<1> DEFINE first == FirstPage(Listing(a))
<1>2. first \in Seq(Transfers) /\ ToSet(first) \subseteq OnChain(a)
  BY <1>1, FirstPageIs DEF OnChain
<1>3. /\ Before(first, c) \in Seq(Transfers)
      /\ ToSet(Before(first, c)) \subseteq OnChain(a)
  BY <1>2, BeforeMeans
<1>4. /\ Before(Listing(a), c) \in Seq(Transfers)
      /\ ToSet(Before(Listing(a), c)) \subseteq OnChain(a)
  BY <1>1, BeforeMeans DEF OnChain
<1>5. /\ FirstPage(Before(Listing(a), c)) \in Seq(Transfers)
      /\ ToSet(FirstPage(Before(Listing(a), c))) \subseteq OnChain(a)
  BY <1>4, FirstPageIs
<1>6. <<>> \in Seq(Transfers) /\ ToSet(<<>>) = {}
  BY DEF ToSet
<1>7. ASSUME NEW i \in 0 .. Len(first)
      PROVE  /\ SubSeq(first, 1, i) \in Seq(Transfers)
             /\ ToSet(SubSeq(first, 1, i)) \subseteq OnChain(a)
  <2> DEFINE cut == SubSeq(first, 1, i)
  <2>1. Len(first) \in Nat /\ DOMAIN first = 1 .. Len(first)
    <3> HIDE DEF first
    <3> QED
      BY <1>2
  <2>2. cut \in Seq(Transfers) /\ Len(cut) = i /\ \A k \in 1 .. i : cut[k] = first[k]
    <3> HIDE DEF first
    <3> QED
      BY <1>2, <2>1
  <2> HIDE DEF cut, first
  <2>3. DOMAIN cut = 1 .. i
    BY <2>1, <2>2
  <2>4. ASSUME NEW t \in ToSet(cut)
        PROVE  t \in ToSet(first)
    <3>1. PICK k \in 1 .. i : cut[k] = t
      BY <2>3 DEF ToSet
    <3>2. k \in DOMAIN first /\ first[k] = t
      BY <2>1, <2>2, <3>1
    <3> QED
      BY <3>2 DEF ToSet
  <2> QED
    BY <1>2, <2>2, <2>4 DEF cut
<1>8. Kind[NetworkOf[a]] \in {"bitcoin", "tron", "solana", "evm"}
  BY DepositsAssumption
<1>9. CASE Kind[NetworkOf[a]] = "solana"
  BY <1>5, <1>7, <1>9 DEF Pages, SolanaPages
<1> QED
  BY <1>2, <1>3, <1>6, <1>8, <1>9 DEF Pages, BitcoinPage, TronPage, EvmPage

\* Whatever is not known is before the cursor that a scan has read.
LEMMA UnknownBeforeCursor ==
    ASSUME TypeOK, ChainsDistinct, NEW a \in Addresses, NEW c, NEW known, UpTo(c, known),
           NEW t \in OnChain(a) \ known
    PROVE  t \in ToSet(Before(Listing(a), c))
<1>1. Listing(a) \in Seq(Transfers) /\ NoHash \notin ToSet(Listing(a))
  BY ListingIs DEF OnChain
<1>2. Distinct(Listing(a)) /\ t \in ToSet(Listing(a))
  BY DEF ChainsDistinct, OnChain
<1>3. CASE c \notin ToSet(Listing(a))
  <2>1. Before(Listing(a), c) = Listing(a)
    BY <1>1, <1>3, BeforeMeans
  <2> QED
    BY <1>2, <2>1
<1>4. CASE c \in ToSet(Listing(a))
  <2>1. PaidTo[c] = a /\ c # NoHash
    BY <1>1, <1>4 DEF ChainsDistinct, OnChain
  <2>2. Precedes(Listing(a), t, c)
    BY <2>1 DEF UpTo, Covers, OnChain
  <2> QED
    BY <1>1, <1>2, <2>2, BeforeMeans
<1> QED
  BY <1>3, <1>4

\* The argument of every action: the chains follow, what is known stays known,
\* and whichever cursors and scans the action moves have been looked at.
LEMMA InvKept ==
    ASSUME DepositsInv, TypeOK', OnlyBitcoinWaits', ChainsFollow, Known \subseteq Known',
           \A n \in Networks : \/ address'[n].cursor \in {address[n].cursor, NoHash}
                               \/ UpTo(address[n].cursor, Known)',
           \A s \in Scans : ScanAlone(s) \/ ScanUpTo(s)'
    PROVE  DepositsInv'
<1>1. TypeOK /\ ChainsDistinct /\ CursorsUpTo /\ \A s \in Scans : ScanUpTo(s)
  BY DEF DepositsInv, ScansUpTo
<1>2. ChainsDistinct'
  BY <1>1, StaysDistinct
<1>3. \A n \in Networks : UpTo(address[n].cursor, Known)'
  BY <1>1, CursorKept
<1>4. \A s \in Scans : ScanUpTo(s)'
  BY <1>1, ScanKept
<1> QED
  BY <1>2, <1>3, <1>4 DEF DepositsInv, CursorsUpTo, ScansUpTo

LEMMA InitInv ==
    ASSUME Init
    PROVE  DepositsInv
<1>1. \A a \in Addresses : Listing(a) = <<>>
  BY DEF Init, Listing
<1>2. ToSet(<<>>) = {} /\ Distinct(<<>>)
  BY DEF ToSet, Distinct
<1>3. TypeOK
  <2>1. <<>> \in Seq(Transfers) /\ 0 \in 0 .. MaxIncidents
    BY DepositsAssumption
  <2> QED
    BY <2>1 DEF Init, TypeOK, Rows
<1>4. OnlyBitcoinWaits /\ ScansUpTo
  BY DEF Init, OnlyBitcoinWaits, ScansUpTo, ScanUpTo, NotScanning
<1>5. ChainsDistinct
  BY <1>1, <1>2 DEF ChainsDistinct, OnChain
<1>6. CursorsUpTo
  BY DEF Init, CursorsUpTo, UpTo, Rows
<1> QED
  BY <1>3, <1>4, <1>5, <1>6 DEF DepositsInv

-----------------------------------------------------------------------------
(* The chains move *)

LEMMA ScansUnmoved ==
    ASSUME TypeOK, UNCHANGED scan
    PROVE  \A s \in Scans : ScanAlone(s)
BY DEF TypeOK, ScanAlone

LEMMA BroadcastStep ==
    ASSUME DepositsInv, NEW t \in Transfers, Broadcast(t)
    PROVE  DepositsInv'
<1>1. TypeOK /\ OnlyBitcoinWaits
  BY DEF DepositsInv
<1>2. /\ mempool' \in [Addresses -> Seq(Transfers)] /\ blocks' \in [Addresses -> Seq(Transfers)]
      /\ OnlyBitcoinWaits' /\ ChainsFollow
  BY <1>1, BroadcastFollows
<1>3. UNCHANGED <<address, recorded, scan, incidents, excused>>
  BY DEF Broadcast
<1>4. TypeOK'
  BY <1>1, <1>2, <1>3 DEF TypeOK
<1>5. \A s \in Scans : ScanAlone(s)
  BY <1>1, <1>3, ScansUnmoved
<1>6. Known \subseteq Known'
  BY <1>3 DEF Known
<1> QED
  BY <1>2, <1>3, <1>4, <1>5, <1>6, InvKept

LEMMA MineStep ==
    ASSUME DepositsInv, NEW t \in Transfers, Mine(t)
    PROVE  DepositsInv'
<1>1. TypeOK /\ OnlyBitcoinWaits
  BY DEF DepositsInv
<1>2. /\ mempool' \in [Addresses -> Seq(Transfers)] /\ blocks' \in [Addresses -> Seq(Transfers)]
      /\ excused' \subseteq Transfers /\ excused \subseteq excused'
      /\ OnlyBitcoinWaits' /\ ChainsFollow
  BY <1>1, MineFollows
<1>3. UNCHANGED <<address, recorded, scan, incidents>>
  BY DEF Mine
<1>4. TypeOK'
  BY <1>1, <1>2, <1>3 DEF TypeOK
<1>5. \A s \in Scans : ScanAlone(s)
  BY <1>1, <1>3, ScansUnmoved
<1>6. Known \subseteq Known'
  BY <1>2, <1>3 DEF Known
<1> QED
  BY <1>2, <1>3, <1>4, <1>5, <1>6, InvKept

-----------------------------------------------------------------------------
(* Users and administrators *)

LEMMA NotifyStep ==
    ASSUME DepositsInv, NEW t \in Transfers, NotifyDeposit(t)
    PROVE  DepositsInv'
<1>1. TypeOK /\ OnlyBitcoinWaits
  BY DEF DepositsInv
<1>2. /\ UNCHANGED <<chainVars, address, scan, incidents, excused>>
      /\ recorded' = recorded \cup {t}
  BY DEF NotifyDeposit
<1>3. ChainsFollow
  BY <1>2, SameChains
<1>4. OnlyBitcoinWaits'
  BY <1>1, <1>2 DEF OnlyBitcoinWaits, chainVars
<1>5. TypeOK'
  <2>1. address \in [Networks -> Rows(recorded')]
    <3>1. Rows(recorded) \subseteq Rows(recorded')
      BY <1>2 DEF Rows
    <3> QED
      BY <1>1, <3>1 DEF TypeOK
  <2> QED
    BY <1>1, <1>2, <2>1 DEF TypeOK, chainVars
<1>6. \A s \in Scans : ScanAlone(s)
  BY <1>1, <1>2, ScansUnmoved
<1>7. Known \subseteq Known'
  BY <1>2 DEF Known
<1> QED
  BY <1>2, <1>3, <1>4, <1>5, <1>6, <1>7, InvKept

LEMMA IncidentType ==
    ASSUME incidents \in 0 .. MaxIncidents, Incident \/ UNCHANGED incidents
    PROVE  incidents' \in 0 .. MaxIncidents
BY DepositsAssumption DEF Incident

LEMMA SetAddressStep ==
    ASSUME DepositsInv, NEW n \in Networks, NEW a \in Addresses, NEW active \in BOOLEAN,
           SetAddress(n, a, active)
    PROVE  DepositsInv'
<1>1. TypeOK /\ OnlyBitcoinWaits
  BY DEF DepositsInv
<1>2. /\ UNCHANGED <<chainVars, recorded, scan, excused>>
      /\ NetworkOf[a] = n /\ address' = [address EXCEPT ![n].active = active, ![n].at = a]
      /\ Incident \/ UNCHANGED incidents
  BY DEF SetAddress
<1>3. ChainsFollow
  BY <1>2, SameChains
<1>4. OnlyBitcoinWaits'
  BY <1>1, <1>2 DEF OnlyBitcoinWaits, chainVars
<1>5. address' \in [Networks -> Rows(recorded)] /\ \A q \in Networks : NetworkOf[address'[q].at] = q
  <2> DEFINE row == [address[n] EXCEPT !.active = active, !.at = a]
  <2>1. row \in Rows(recorded) /\ row.at = a /\ row.cursor = address[n].cursor
    BY <1>1 DEF TypeOK, Rows
  <2>2. address' = [address EXCEPT ![n] = row]
    BY <1>1, <1>2 DEF TypeOK
  <2> HIDE DEF row
  <2>3. address' \in [Networks -> Rows(recorded)]
    BY <1>1, <2>1, <2>2 DEF TypeOK
  <2>4. ASSUME NEW q \in Networks
        PROVE  NetworkOf[address'[q].at] = q
    <3>1. address'[q] = IF q = n THEN row ELSE address[q]
      BY <1>1, <2>2 DEF TypeOK
    <3>2. NetworkOf[address[q].at] = q
      BY <1>1 DEF TypeOK
    <3>3. NetworkOf[row.at] = n
      BY <1>2, <2>1
    <3> QED
      BY <3>1, <3>2, <3>3, Zenon
  <2> QED
    BY <2>3, <2>4
<1>6. TypeOK'
  <2>1. incidents' \in 0 .. MaxIncidents
    BY <1>1, <1>2, IncidentType DEF TypeOK
  <2> QED
    BY <1>1, <1>2, <1>5, <2>1 DEF TypeOK, chainVars
<1>7. \A s \in Scans : ScanAlone(s)
  BY <1>1, <1>2, ScansUnmoved
<1>8. Known \subseteq Known'
  BY <1>2 DEF Known
<1>9. \A q \in Networks : address'[q].cursor = address[q].cursor
  BY <1>1, <1>2 DEF TypeOK, Rows
<1> QED
  BY <1>3, <1>4, <1>6, <1>7, <1>8, <1>9, InvKept

LEMMA DeleteAddressStep ==
    ASSUME DepositsInv, NEW n \in Networks, DeleteAddress(n)
    PROVE  DepositsInv'
<1>1. TypeOK /\ OnlyBitcoinWaits
  BY DEF DepositsInv
<1>2. /\ UNCHANGED <<chainVars, recorded, excused>> /\ Incident
      /\ address' = [address EXCEPT ![n].active = FALSE, ![n].cursor = NoHash]
      /\ scan' = [s \in Scans |-> IF scan[s].step = "open" /\ n \in scan[s].loaded
                                  THEN [scan[s] EXCEPT !.doomed = TRUE] ELSE scan[s]]
  BY DEF DeleteAddress
<1>3. ChainsFollow
  BY <1>2, SameChains
<1>4. OnlyBitcoinWaits'
  BY <1>1, <1>2 DEF OnlyBitcoinWaits, chainVars
<1>5. ASSUME NEW s \in Scans
      PROVE  scan'[s] \in ScanState \cup {NotScanning} /\ ScanAlone(s)
  <2>1. scan[s] \in ScanState \cup {NotScanning}
    BY <1>1 DEF TypeOK
  <2>2. CASE scan[s].step = "open" /\ n \in scan[s].loaded
    <3>1. scan'[s] = [scan[s] EXCEPT !.doomed = TRUE] /\ scan[s] \in ScanState
      BY <1>2, <2>1, <2>2 DEF NotScanning
    <3> QED
      BY <3>1 DEF ScanState, ScanAlone
  <2>3. CASE ~(scan[s].step = "open" /\ n \in scan[s].loaded)
    <3>1. scan'[s] = scan[s]
      BY <1>2, <2>3
    <3> QED
      BY <2>1, <3>1 DEF ScanAlone
  <2> QED
    BY <2>2, <2>3
<1>6. TypeOK'
  <2>1. incidents' \in 0 .. MaxIncidents
    BY <1>1, <1>2, IncidentType DEF TypeOK
  <2>2. address' \in [Networks -> Rows(recorded)] /\ \A q \in Networks : NetworkOf[address'[q].at] = q
    BY <1>1, <1>2 DEF TypeOK, Rows
  <2>3. scan' \in [Scans -> ScanState \cup {NotScanning}]
    BY <1>2, <1>5
  <2> QED
    BY <1>1, <1>2, <2>1, <2>2, <2>3 DEF TypeOK, chainVars
<1>7. Known \subseteq Known'
  BY <1>2 DEF Known
<1>8. \A q \in Networks : address'[q].cursor \in {address[q].cursor, NoHash}
  BY <1>1, <1>2 DEF TypeOK, Rows
<1> QED
  BY <1>3, <1>4, <1>5, <1>6, <1>7, <1>8, InvKept

-----------------------------------------------------------------------------
(* The scans *)

\* A run that ends without a commit leaves everything as it was.
LEMMA ScanEnds ==
    ASSUME DepositsInv, NEW s \in Scans, scan' = [scan EXCEPT ![s] = NotScanning],
           UNCHANGED <<chainVars, address, recorded, excused>>,
           Incident \/ UNCHANGED incidents
    PROVE  DepositsInv'
<1>1. TypeOK /\ OnlyBitcoinWaits
  BY DEF DepositsInv
<1>2. ChainsFollow
  BY SameChains
<1>3. OnlyBitcoinWaits'
  BY <1>1 DEF OnlyBitcoinWaits, chainVars
<1>4. TypeOK'
  <2>1. incidents' \in 0 .. MaxIncidents
    BY <1>1, IncidentType DEF TypeOK
  <2>2. scan' \in [Scans -> ScanState \cup {NotScanning}]
    BY <1>1 DEF TypeOK
  <2> QED
    BY <1>1, <2>1, <2>2 DEF TypeOK, chainVars
<1>5. \A q \in Scans : ScanAlone(q)
  BY <1>1 DEF TypeOK, ScanAlone, NotScanning
<1>6. Known \subseteq Known'
  BY DEF Known
<1> QED
  BY <1>2, <1>3, <1>4, <1>5, <1>6, InvKept

LEMMA StartScanStep ==
    ASSUME DepositsInv, NEW s \in Scans, StartScan(s)
    PROVE  DepositsInv'
<1> DEFINE new == [step |-> "open", at |-> [n \in Networks |-> address[n].at],
                   cursor |-> [n \in Networks |-> address[n].cursor],
                   loaded |-> ActiveNetworks, todo |-> ActiveNetworks,
                   found |-> [n \in Networks |-> {}], doomed |-> FALSE]
<1>1. TypeOK /\ OnlyBitcoinWaits /\ CursorsUpTo
  BY DEF DepositsInv
<1>2. /\ UNCHANGED <<chainVars, address, recorded, incidents, excused>>
      /\ scan' = [scan EXCEPT ![s] = new]
  BY DEF StartScan
<1>3. ChainsFollow
  BY <1>2, SameChains
<1>4. OnlyBitcoinWaits'
  BY <1>1, <1>2 DEF OnlyBitcoinWaits, chainVars
<1>5. new \in ScanState
  <2>1. \A n \in Networks : /\ address[n].cursor \in Transfers \cup {NoHash}
                            /\ address[n].at \in Addresses
    BY <1>1 DEF TypeOK, Rows
  <2>2. ActiveNetworks \subseteq Networks
    BY DEF ActiveNetworks
  <2> QED
    BY <2>1, <2>2 DEF ScanState
<1>6. TypeOK'
  <2>1. scan' \in [Scans -> ScanState \cup {NotScanning}]
    <3> HIDE DEF new
    <3> QED
      BY <1>1, <1>2, <1>5 DEF TypeOK
  <2> QED
    BY <1>1, <1>2, <2>1 DEF TypeOK, chainVars
<1>7. Known \subseteq Known'
  BY <1>2 DEF Known
<1>8. \A n \in Networks : UpTo(address[n].cursor, Known)'
  BY <1>1, <1>2, <1>3, <1>7, CursorKept
<1>9. scan'[s] = new
  BY <1>1, <1>2 DEF TypeOK
<1>10. ScanUpTo(s)'
  <2>1. \A n \in Networks : /\ scan'[s].found[n] = {}
                            /\ scan'[s].cursor[n] = address'[n].cursor
    BY <1>2, <1>9
  <2>2. \A n \in Networks : scan'[s].found[n] = {} /\ UpTo(scan[s].cursor[n], Known)'
    BY <1>8, <2>1 DEF UpTo
  <2> QED
    BY <2>2 DEF ScanUpTo
<1>11. \A q \in Scans : q # s => ScanAlone(q)
  <2>1. \A q \in Scans : q # s => scan'[q] = scan[q]
    BY <1>1, <1>2 DEF TypeOK
  <2> QED
    BY <2>1 DEF ScanAlone
<1> QED
  BY <1>2, <1>3, <1>4, <1>6, <1>7, <1>8, <1>10, <1>11, InvKept

\* The session has the deposits of one network more.
LEMMA RecordStep ==
    ASSUME DepositsInv, NEW s \in Scans, NEW n \in Networks,
           scan[s].step = "open", n \in scan[s].todo,
           NEW page \in Seq(Transfers), ToSet(page) \subseteq OnChain(scan[s].at[n]),
           NEW seen \in SUBSET ToSet(page), Record(s, n, page, seen),
           UNCHANGED <<chainVars, address, recorded>>,
           excused \subseteq excused', excused' \subseteq Transfers,
           \/ seen = {}
           \/ Unseen(s, n, seen) \subseteq excused',
           incidents' \in 0 .. MaxIncidents
    PROVE  DepositsInv'
<1> DEFINE a == scan[s].at[n]
           new == seen \ recorded
           cur == IF new = {} THEN NoHash ELSE OldestOf(page, new)
<1>1. TypeOK /\ OnlyBitcoinWaits /\ ChainsDistinct /\ ScanUpTo(s)
  BY DEF DepositsInv, ScansUpTo
<1>2. ChainsFollow
  BY SameChains
<1>3. OnlyBitcoinWaits'
  BY <1>1 DEF OnlyBitcoinWaits, chainVars
<1>4. new # {} => cur \in new
  BY OldestIs
<1>7. scan[s] \in ScanState /\ a \in Addresses
  BY <1>1 DEF TypeOK, ScanState, NotScanning
<1>5. new \subseteq OnChain(a) /\ OnChain(a) \subseteq Transfers
  <2> HIDE DEF a
  <2> QED
    BY <1>1, <1>7, ListingIs DEF a
<1>6. cur \in Transfers \cup {NoHash}
  BY <1>4, <1>5
<1>8. scan' = [scan EXCEPT ![s].todo = @ \ {n}, ![s].cursor[n] = cur, ![s].found[n] = new]
  BY DEF Record
<1> HIDE DEF new, cur
<1>9. /\ scan'[s] \in ScanState /\ scan'[s].step = "open"
      /\ scan'[s].todo = scan[s].todo \ {n}
      /\ scan'[s].cursor[n] = cur /\ scan'[s].found[n] = new
      /\ \A q \in Networks : q # n => /\ scan'[s].cursor[q] = scan[s].cursor[q]
                                      /\ scan'[s].found[q] = scan[s].found[q]
  <2>1. scan'[s] = [scan[s] EXCEPT !.todo = @ \ {n}, !.cursor[n] = cur, !.found[n] = new]
    BY <1>1, <1>8 DEF TypeOK
  <2>2. new \subseteq Transfers
    BY <1>5
  <2> DEFINE old == scan[s]
             todo == old.todo \ {n}
             cursor == [old.cursor EXCEPT ![n] = cur]
             found == [old.found EXCEPT ![n] = new]
  <2>3. /\ todo \in SUBSET Networks
        /\ cursor \in [Networks -> Transfers \cup {NoHash}]
        /\ found \in [Networks -> SUBSET Transfers]
        /\ cursor[n] = cur /\ found[n] = new
        /\ \A q \in Networks : q # n => cursor[q] = old.cursor[q] /\ found[q] = old.found[q]
    BY <1>6, <1>7, <2>2 DEF ScanState
  <2>4. scan'[s] = [old EXCEPT !.todo = todo, !.cursor = cursor, !.found = found]
    BY <2>1
  <2> HIDE DEF todo, cursor, found, old
  <2>5. scan'[s] \in ScanState /\ scan'[s].step = "open"
    BY <1>7, <2>3, <2>4 DEF ScanState, old
  <2>6. scan'[s].todo = todo /\ scan'[s].cursor = cursor /\ scan'[s].found = found
    BY <1>7, <2>4 DEF ScanState, old
  <2> QED
    BY <2>3, <2>5, <2>6 DEF todo, old
<1>10. \A q \in Scans : q # s => scan'[q] = scan[q]
  BY <1>1, <1>8 DEF TypeOK
<1>11. TypeOK'
  <2>1. scan' \in [Scans -> ScanState \cup {NotScanning}]
    <3>1. DOMAIN scan = Scans
      BY <1>1 DEF TypeOK
    <3>2. DOMAIN scan' = DOMAIN scan /\ scan' = [q \in DOMAIN scan |-> scan'[q]]
      BY <1>8
    <3>3. \A q \in Scans : scan'[q] \in ScanState \cup {NotScanning}
      BY <1>1, <1>9, <1>10 DEF TypeOK
    <3> QED
      BY <3>1, <3>2, <3>3
  <2> QED
    BY <1>1, <2>1 DEF TypeOK, chainVars
<1>12. Known \subseteq Known' /\ excused' \subseteq Known' /\ recorded \subseteq Known'
  BY DEF Known
<1>13. ASSUME new # {}
       PROVE  cur \in new /\ NextUpTo(cur, Known' \cup new)
  <2>1. UpTo(scan[s].cursor[n], Known)
    BY <1>1 DEF ScanUpTo
  <2>2. ASSUME NEW t \in OnChain(a)
        PROVE  t \in Known' \cup new
    <3>1. CASE t \in Known
      BY <1>12, <3>1
    <3>2. CASE t \notin Known
      <4> DEFINE c == scan[s].cursor[n]
      <4>1. t \in ToSet(Before(Listing(a), c))
        <5> HIDE DEF a, c
        <5>1. UpTo(c, Known)
          BY <2>1 DEF c
        <5> QED
          BY <1>1, <1>7, <3>2, <5>1, UnknownBeforeCursor
      <4>2. t \in seen \/ t \in Unseen(s, n, seen)
        BY <4>1 DEF Unseen
      <4>3. seen # {}
        BY <1>13 DEF new
      <4> QED
        BY <1>12, <4>2, <4>3 DEF new
    <3> QED
      BY <3>1, <3>2
  <2> HIDE DEF a
  <2>3. \A x \in Addresses : Listing(x)' = Listing(x)
    BY DEF chainVars, Listing
  <2>4. cur \in OnChain(a) /\ PaidTo[cur] = a /\ cur \in Transfers
    BY <1>1, <1>4, <1>5, <1>7, <1>13 DEF ChainsDistinct
  <2>5. ASSUME NEW x \in Addresses, x = PaidTo[cur]
        PROVE  Covers(Listing(x)', cur, Known' \cup new)
    <3>1. cur \in ToSet(Listing(x)) /\ ToSet(Listing(x)) \ (Known' \cup new) = {}
      BY <2>2, <2>4, <2>5 DEF OnChain
    <3>2. Listing(x)' = Listing(x)
      BY <2>3
    <3> QED
      BY <3>1, <3>2 DEF Covers
  <2> QED
    BY <1>4, <1>13, <2>4, <2>5 DEF NextUpTo
<1>14. ScanUpTo(s)'
  <2> SUFFICES ASSUME NEW q \in Networks
               PROVE  /\ q \in scan'[s].todo => /\ scan'[s].found[q] = {}
                                                /\ UpTo(scan[s].cursor[q], Known)'
                      /\ scan'[s].found[q] # {} =>
                           /\ scan'[s].cursor[q] \in scan'[s].found[q]
                           /\ UpTo(scan[s].cursor[q], Known \cup scan[s].found[q])'
    BY DEF ScanUpTo
  <2>1. CASE q = n
    BY <1>9, <1>13, <2>1 DEF UpTo, NextUpTo
  <2>2. CASE q # n
    <3> DEFINE c == scan[s].cursor[q]
               found == scan[s].found[q]
    <3>1. /\ q \in scan[s].todo => found = {} /\ UpTo(c, Known)
          /\ found # {} => c \in found /\ UpTo(c, Known \cup found)
      BY <1>1 DEF ScanUpTo
    <3>2. scan'[s].cursor[q] = c /\ scan'[s].found[q] = found
      BY <1>9, <2>2
    <3>3. scan'[s].todo = scan[s].todo \ {n}
      BY <1>9
    <3> HIDE DEF c, found
    <3>4. q \in scan[s].todo =>
              NextUpTo(c, Known')
      BY <1>1, <1>2, <1>12, <3>1, CarriesOver
    <3>5. found # {} => NextUpTo(c, Known' \cup found)
      <4>1. Known \cup found \subseteq Known' \cup found /\ excused' \subseteq Known' \cup found
        BY <1>12
      <4> QED
        BY <1>1, <1>2, <3>1, <4>1, CarriesOver
    <3> QED
      BY <3>1, <3>2, <3>3, <3>4, <3>5 DEF UpTo, NextUpTo
  <2> QED
    BY <2>1, <2>2
<1>15. \A q \in Scans : q # s => ScanAlone(q)
  BY <1>10 DEF ScanAlone
<1> QED
  BY <1>2, <1>3, <1>11, <1>12, <1>14, <1>15, InvKept

LEMMA ScanNetworkStep ==
    ASSUME DepositsInv, NEW s \in Scans, NEW n \in Networks, ScanNetwork(s, n)
    PROVE  DepositsInv'
<1> DEFINE a == scan[s].at[n]
<1>1. TypeOK /\ a \in Addresses
  BY DEF DepositsInv, TypeOK, ScanState, NotScanning, ScanNetwork
<1>0. PICK page \in Pages(a, scan[s].cursor[n]) : \E failing \in SUBSET ToSet(page) :
          LET seen == ToSet(page) \ failing IN
          /\ failing # {} => Kind[n] = "solana" /\ incidents < MaxIncidents
          /\ incidents' = IF failing = {} THEN incidents ELSE incidents + 1
          /\ Record(s, n, page, seen)
          /\ excused' = excused \cup Unseen(s, n, seen)
  BY DEF ScanNetwork
<1>2. PICK failing \in SUBSET ToSet(page) :
          /\ failing # {} => incidents < MaxIncidents
          /\ incidents' = IF failing = {} THEN incidents ELSE incidents + 1
          /\ Record(s, n, page, ToSet(page) \ failing)
          /\ excused' = excused \cup Unseen(s, n, ToSet(page) \ failing)
  BY <1>0
<1>3. page \in Seq(Transfers) /\ ToSet(page) \subseteq OnChain(a)
  <2> HIDE DEF a
  <2> QED
    BY <1>0, <1>1, PagesAre
<1>4. /\ scan[s].step = "open" /\ n \in scan[s].todo
      /\ UNCHANGED <<chainVars, address, recorded>>
  BY DEF ScanNetwork
<1>5. incidents' \in 0 .. MaxIncidents
  BY <1>1, <1>2, DepositsAssumption DEF TypeOK
<1> DEFINE seen == ToSet(page) \ failing
<1>6. Unseen(s, n, seen) \subseteq Transfers
  <2>1. Listing(a) \in Seq(Transfers) /\ OnChain(a) \subseteq Transfers
    <3> HIDE DEF a
    <3> QED
      BY <1>1, ListingIs
  <2>2. ToSet(Before(Listing(a), scan[s].cursor[n])) \subseteq OnChain(a)
    BY <2>1, BeforeMeans DEF OnChain
  <2> QED
    BY <2>1, <2>2 DEF Unseen
<1>7. /\ excused \subseteq excused' /\ excused' \subseteq Transfers
      /\ Unseen(s, n, seen) \subseteq excused'
  BY <1>1, <1>2, <1>6 DEF TypeOK
<1>8. seen \in SUBSET ToSet(page) /\ Record(s, n, page, seen)
  BY <1>2
<1> HIDE DEF seen
<1> QED
  BY <1>3, <1>4, <1>5, <1>7, <1>8, RecordStep

LEMMA ExplorerDownStep ==
    ASSUME DepositsInv, NEW s \in Scans, NEW n \in Networks, ExplorerDown(s, n)
    PROVE  DepositsInv'
<1>1. TypeOK
  BY DEF DepositsInv
<1>2. /\ scan[s].step = "open" /\ n \in scan[s].todo
      /\ Incident /\ Record(s, n, <<>>, {})
      /\ UNCHANGED <<chainVars, address, recorded, excused>>
  BY DEF ExplorerDown
<1>3. <<>> \in Seq(Transfers) /\ ToSet(<<>>) = {}
  BY DEF ToSet
<1>4. incidents' \in 0 .. MaxIncidents
  BY <1>1, <1>2, IncidentType DEF TypeOK
<1>5. excused \subseteq excused' /\ excused' \subseteq Transfers
  BY <1>1, <1>2 DEF TypeOK
<1>6. {} \in SUBSET ToSet(<<>>) /\ ToSet(<<>>) \subseteq OnChain(scan[s].at[n])
  BY <1>3
<1> QED
  BY <1>2, <1>3, <1>4, <1>5, <1>6, RecordStep

\* The commit writes the cursors of the session together with its deposits.
LEMMA CommitScanStep ==
    ASSUME DepositsInv, NEW s \in Scans, CommitScan(s)
    PROVE  DepositsInv'
<1>1. TypeOK /\ OnlyBitcoinWaits /\ ChainsDistinct /\ CursorsUpTo /\ ScanUpTo(s)
  BY DEF DepositsInv, ScansUpTo
<1>2. /\ scan[s].step = "open"
      /\ recorded' = recorded \cup FoundBy(s)
      /\ address' = [n \in Networks |-> [address[n] EXCEPT !.cursor = CursorAfter(s, n)]]
      /\ scan' = [scan EXCEPT ![s] = NotScanning]
      /\ UNCHANGED <<chainVars, incidents, excused>>
  BY DEF CommitScan
<1>3. ChainsFollow
  BY <1>2, SameChains
<1>4. OnlyBitcoinWaits'
  BY <1>1, <1>2 DEF OnlyBitcoinWaits, chainVars
<1>5. Known \subseteq Known' /\ excused' \subseteq Known'
  BY <1>2 DEF Known
<1>6. \A n \in Networks : scan[s].found[n] \subseteq FoundBy(s)
  BY DEF FoundBy
<1>7. FoundBy(s) \subseteq Transfers
  <2>1. scan[s].found \in [Networks -> SUBSET Transfers]
    BY <1>1, <1>2 DEF TypeOK, ScanState, NotScanning
  <2> QED
    BY <2>1 DEF FoundBy
<1>8. ASSUME NEW n \in Networks
      PROVE  /\ address'[n] \in Rows(recorded') /\ NetworkOf[address'[n].at] = n
             /\ \/ address'[n].cursor \in {address[n].cursor, NoHash}
                \/ UpTo(address[n].cursor, Known)'
  <2>1. address[n] \in Rows(recorded) /\ NetworkOf[address[n].at] = n
    BY <1>1 DEF TypeOK
  <2>2. address'[n] = [address[n] EXCEPT !.cursor = CursorAfter(s, n)]
    BY <1>2
  <2>3. address'[n].cursor = CursorAfter(s, n) /\ address'[n].at = address[n].at
    BY <2>1, <2>2 DEF Rows
  <2>4. CASE scan[s].found[n] = {}
    <3>1. address'[n].cursor = address[n].cursor
      BY <2>3, <2>4 DEF CursorAfter
    <3>2. CursorAfter(s, n) \in recorded' \cup {NoHash}
      BY <1>2, <2>1, <2>3, <3>1 DEF Rows
    <3> QED
      BY <2>1, <2>2, <2>3, <3>1, <3>2 DEF Rows
  <2>5. CASE scan[s].found[n] # {}
    <3>1. address'[n].cursor = scan[s].cursor[n]
      BY <2>3, <2>5 DEF CursorAfter
    <3>2. /\ scan[s].cursor[n] \in scan[s].found[n]
          /\ UpTo(scan[s].cursor[n], Known \cup scan[s].found[n])
      BY <1>1, <1>2, <2>5 DEF ScanUpTo
    <3>3. Known \cup scan[s].found[n] \subseteq Known'
      BY <1>2, <1>6 DEF Known
    <3> DEFINE c == scan[s].cursor[n]
    <3>4. NextUpTo(c, Known')
      <4> DEFINE found == scan[s].found[n]
      <4>1. UpTo(c, Known \cup found) /\ Known \cup found \subseteq Known'
        BY <3>2, <3>3
      <4> HIDE DEF c, found
      <4> QED
        BY <1>1, <1>3, <1>5, <4>1, CarriesOver
    <3>5. CursorAfter(s, n) \in recorded' \cup {NoHash}
      BY <1>2, <1>6, <2>3, <3>1, <3>2
    <3> QED
      BY <2>1, <2>2, <2>3, <3>1, <3>4, <3>5 DEF UpTo, NextUpTo, Rows
  <2> QED
    BY <2>4, <2>5
<1>9. TypeOK'
  <2>1. address' \in [Networks -> Rows(recorded')] /\ \A n \in Networks : NetworkOf[address'[n].at] = n
    <3>1. address' = [n \in Networks |-> address'[n]]
      BY <1>2
    <3> QED
      BY <1>8, <3>1
  <2>2. scan' \in [Scans -> ScanState \cup {NotScanning}]
    BY <1>1, <1>2 DEF TypeOK
  <2> QED
    BY <1>1, <1>2, <1>7, <2>1, <2>2 DEF TypeOK, chainVars
<1>10. \A q \in Scans : ScanAlone(q)
  BY <1>1, <1>2 DEF TypeOK, ScanAlone, NotScanning
<1> QED
  BY <1>3, <1>4, <1>5, <1>8, <1>9, <1>10, InvKept

LEMMA RollBackScanStep ==
    ASSUME DepositsInv, NEW s \in Scans, RollBackScan(s) \/ ScanDies(s)
    PROVE  DepositsInv'
<1>1. /\ scan' = [scan EXCEPT ![s] = NotScanning]
      /\ UNCHANGED <<chainVars, address, recorded, excused>>
      /\ Incident \/ UNCHANGED incidents
  BY DEF RollBackScan, ScanDies
<1> QED
  BY <1>1, ScanEnds

LEMMA DepositsInvStep ==
    ASSUME DepositsInv, [Next]_vars
    PROVE  DepositsInv'
<1>1. ASSUME NEW t \in Transfers, Broadcast(t) \/ Mine(t) \/ NotifyDeposit(t)
      PROVE  DepositsInv'
  BY <1>1, BroadcastStep, MineStep, NotifyStep
<1>2. ASSUME ScanStep
      PROVE  DepositsInv'
  <2>1. PICK s \in Scans : \/ StartScan(s) \/ Poll(s) \/ Finish(s) \/ ScanDies(s)
                           \/ \E n \in Networks : ExplorerDown(s, n)
    BY <1>2 DEF ScanStep
  <2>2. CASE StartScan(s)
    BY <2>2, StartScanStep
  <2>3. CASE Poll(s)
    BY <2>3, ScanNetworkStep DEF Poll
  <2>4. CASE Finish(s)
    BY <2>4, CommitScanStep, RollBackScanStep DEF Finish
  <2>5. CASE ScanDies(s)
    BY <2>5, RollBackScanStep
  <2>6. CASE \E n \in Networks : ExplorerDown(s, n)
    BY <2>6, ExplorerDownStep
  <2> QED
    BY <2>1, <2>2, <2>3, <2>4, <2>5, <2>6
<1>3. ASSUME AdminStep
      PROVE  DepositsInv'
  BY <1>3, SetAddressStep, DeleteAddressStep DEF AdminStep
<1>4. CASE UNCHANGED vars
  BY <1>4 DEF vars, chainVars, DepositsInv, TypeOK, OnlyBitcoinWaits, ChainsDistinct,
     CursorsUpTo, ScansUpTo, ScanUpTo, UpTo, Known, Listing, OnChain, Rows
<1> QED
  BY <1>1, <1>2, <1>3, <1>4 DEF Next

LEMMA DepositsInvariant == Spec => []DepositsInv
<1>1. Init => DepositsInv
  BY InitInv
<1>2. DepositsInv /\ [Next]_vars => DepositsInv'
  BY DepositsInvStep
<1> QED
  BY <1>1, <1>2, PTL DEF Spec

-----------------------------------------------------------------------------
(* Theorems *)

\* Every variable keeps its type; what takes an argument is that the cursor of
\* an address is the hash of a row, whichever scan commits (tasks.py).
THEOREM DepositsTypeCorrect == Spec => []TypeOK
<1>1. DepositsInv => TypeOK
  BY DEF DepositsInv
<1> QED
  BY <1>1, DepositsInvariant, PTL

\* A transfer without a row is before the cursor of the address that is polled,
\* where the next scan looks, unless it was left out of an answer to a scan,
\* has overtaken an older one, or pays an address that has been replaced
\* (tasks.py, crypto_scanner.py, crypto.py): overlapping, dying and rolled back
\* scans, outages, reports and the cursors of other addresses lose nothing more.
THEOREM MissedTransfersExplained == Spec => []MissedIsExplained
<1>1. ASSUME DepositsInv
      PROVE  MissedIsExplained
  <2> SUFFICES ASSUME NEW t \in Transfers, t \in OnChain(PaidTo[t]) \ recorded,
                      t \notin excused
               PROVE  t \in ToSet(Before(Listing(PaidTo[t]),
                                        address[NetworkOf[PaidTo[t]]].cursor))
    BY DEF MissedIsExplained
  <2> DEFINE a == PaidTo[t]
             n == NetworkOf[a]
             c == address[n].cursor
  <2>1. a \in Addresses /\ n \in Networks
    BY DepositsAssumption
  <2>2. TypeOK /\ ChainsDistinct /\ UpTo(c, Known)
    BY <1>1, <2>1 DEF DepositsInv, CursorsUpTo
  <2>3. t \in OnChain(a) \ Known
    BY DEF Known
  <2> HIDE DEF a, n, c
  <2>4. t \in ToSet(Before(Listing(a), c))
    BY <2>1, <2>2, <2>3, UnknownBeforeCursor
  <2> QED
    BY <2>4 DEF a, n, c
<1> QED
  BY <1>1, DepositsInvariant, PTL
=============================================================================
