-------------------------- MODULE TablesProofs -----------------------------
(* Facts about the table operators that the other proofs use. *)
EXTENDS Tables, FiniteSetTheorems, TLAPS

(* A linear search that has a match stops at the least matching index. *)
LEMMA FirstIn ==
  ASSUME NEW S \in SUBSET Nat, S # {}
  PROVE  First(S) \in S /\ \A j \in S : First(S) <= j
<1> DEFINE R == {ss \in Nat \X Nat : ss[1] < ss[2]}
<1>1. R = OpToRel(<, Nat)
  BY Zenon DEF OpToRel
<1>2. IsWellFoundedOn(R, Nat)
  BY <1>1, NatLessThanWellFounded, Zenon
<1>3. PICK x \in S : \A y \in S : <<y, x>> \notin R
  <2> HIDE DEF R
  <2> QED BY ZenonT(60), <1>2, WFMin
<1>4. \A a, b \in Nat : a < b => <<a, b>> \in R
  <2> TAKE a, b \in Nat
  <2> HAVE a < b
  <2>1. <<a, b>> \in Nat \X Nat
    OBVIOUS
  <2>2. <<a, b>>[1] < <<a, b>>[2]
    OBVIOUS
  <2> QED BY <2>1, <2>2, Zenon
<1>5. \A y \in S : ~(y < x)
  <2> HIDE DEF R
  <2> QED BY <1>3, <1>4, Zenon
<1>6. \A y \in S : x <= y
  BY <1>5
<1> QED BY ZenonT(60), <1>6 DEF First

(* The least match is where the search stops. *)
LEMMA FirstIs ==
  ASSUME NEW S \in SUBSET Nat, NEW f \in S, \A k \in S : f <= k
  PROVE  First(S) = f
<1>1. First(S) \in S /\ \A j \in S : First(S) <= j
  BY FirstIn
<1>2. First(S) \in Nat /\ f \in Nat /\ First(S) <= f /\ f <= First(S)
  BY ZenonT(60), <1>1
<1> QED BY <1>2

(* Removing a slot keeps the other records, in order. *)
LEMMA RemoveType ==
  ASSUME NEW T, NEW s \in Seq(T), NEW c \in DOMAIN s
  PROVE  /\ Remove(s, c) \in Seq(T)
         /\ Len(Remove(s, c)) = Len(s) - 1
         /\ \A i \in DOMAIN s : i < c => Remove(s, c)[i] = s[i]
         /\ \A i \in DOMAIN s : i > c => Remove(s, c)[i - 1] = s[i]
         /\ \A i \in 1..(Len(s) - 1) :
              Remove(s, c)[i] = IF i < c THEN s[i] ELSE s[i + 1]
BY DEF Remove

(* Arithmetic of counters and of guarded subtraction. *)
LEMMA NatAdd ==
  ASSUME NEW a \in Nat, NEW b \in Nat
  PROVE  a + b \in Nat
OBVIOUS

LEMMA NatSub ==
  ASSUME NEW a \in Nat, NEW b \in Nat
  PROVE  (IF a >= b THEN a - b ELSE a) \in Nat
OBVIOUS

(* Sequences: what the tables, logs and channels are made of. *)
LEMMA SeqOfNone ==
  ASSUME NEW T
  PROVE  <<>> \in Seq(T) /\ Len(<<>>) = 0 /\ \A s \in Seq(T) : s # <<>> => Len(s) > 0
OBVIOUS

LEMMA SeqDomain ==
  ASSUME NEW T, NEW s \in Seq(T)
  PROVE  /\ Len(s) \in Nat /\ DOMAIN s = 1..Len(s)
         /\ s \in [1..Len(s) -> T] /\ \A i \in 1..Len(s) : s[i] \in T
OBVIOUS

LEMMA SeqAppend ==
  ASSUME NEW T, NEW s \in Seq(T), NEW x \in T
  PROVE  /\ Append(s, x) \in Seq(T) /\ Len(Append(s, x)) = Len(s) + 1
         /\ Append(s, x) # <<>>
         /\ Append(s, x)[Len(s) + 1] = x
         /\ \A i \in 1..Len(s) : Append(s, x)[i] = s[i]
OBVIOUS

LEMMA SeqUpdate ==
  ASSUME NEW T, NEW s \in Seq(T), NEW k \in 1..Len(s), NEW x \in T
  PROVE  /\ [s EXCEPT ![k] = x] \in Seq(T) /\ Len([s EXCEPT ![k] = x]) = Len(s)
         /\ [s EXCEPT ![k] = x][k] = x
         /\ \A i \in 1..Len(s) : i # k => [s EXCEPT ![k] = x][i] = s[i]
OBVIOUS

LEMMA SeqSame ==
  ASSUME NEW T, NEW s \in Seq(T), NEW r \in Seq(T), Len(s) = Len(r),
         \A i \in 1..Len(s) : s[i] = r[i]
  PROVE  s = r
OBVIOUS

(* A function from 1..n is a sequence of length n. *)
LEMMA SeqOfFunction ==
  ASSUME NEW S, NEW n \in Nat, NEW f \in [1..n -> S]
  PROVE  f \in Seq(S) /\ Len(f) = n
OBVIOUS

(* Two appends, as tuples. *)
LEMMA AppendToOne ==
  ASSUME NEW a, NEW b
  PROVE  Append(<<a>>, b) = <<a, b>>
<1>1. /\ <<a>> \in Seq({a, b}) /\ Len(<<a>>) = 1 /\ <<a>>[1] = a
      /\ <<a, b>> \in Seq({a, b}) /\ Len(<<a, b>>) = 2
      /\ <<a, b>>[1] = a /\ <<a, b>>[2] = b
  OBVIOUS
<1>2. /\ Append(<<a>>, b) \in Seq({a, b}) /\ Len(Append(<<a>>, b)) = 2
      /\ Append(<<a>>, b)[1] = a /\ Append(<<a>>, b)[2] = b
  BY <1>1, SeqAppend
<1>3. \A i \in 1..2 : i = 1 \/ i = 2
  OBVIOUS
<1> QED BY Zenon, <1>1, <1>2, <1>3, SeqSame

-----------------------------------------------------------------------------
(* Compacting a table: ranks number the slots kept, in order. *)
LEMMA RankFacts ==
  ASSUME NEW n \in Nat, NEW K \in SUBSET (1..n)
  PROVE  /\ IsFiniteSet(K) /\ Cardinality(K) \in Nat /\ Cardinality(K) <= n
         /\ \A j \in K : Rank(K, j) \in 1..Cardinality(K)
         /\ \A j, k \in K : j < k => Rank(K, j) < Rank(K, k)
<1> DEFINE Upto(j) == {k \in K : k <= j}
<1>1. IsFiniteSet(1..n) /\ Cardinality(1..n) = n
  BY FS_Interval
<1>2. IsFiniteSet(K) /\ Cardinality(K) \in Nat /\ Cardinality(K) <= n
  BY ZenonT(60), <1>1, FS_Subset, FS_CardinalityType
<1>3. \A j : IsFiniteSet(Upto(j)) /\ Cardinality(Upto(j)) \in Nat
             /\ Cardinality(Upto(j)) <= Cardinality(K)
  <2> TAKE j
  <2>1. Upto(j) \in SUBSET K
    OBVIOUS
  <2> HIDE DEF Upto
  <2> QED BY <1>2, <2>1, FS_Subset, FS_CardinalityType
<1>4. ASSUME NEW j \in K PROVE Rank(K, j) \in 1..Cardinality(K)
  <2>1. j \in Upto(j)
    OBVIOUS
  <2> HIDE DEF Upto
  <2>2. Cardinality(Upto(j)) # 0
    BY <1>3, <2>1, FS_EmptySet
  <2>3. Rank(K, j) = Cardinality(Upto(j))
    BY DEF Rank, Upto
  <2> QED BY <1>2, <1>3, <2>2, <2>3
<1>5. ASSUME NEW j \in K, NEW k \in K, j < k PROVE Rank(K, j) < Rank(K, k)
  <2>1. Upto(j) \subseteq Upto(k) /\ k \in Upto(k) /\ k \notin Upto(j)
    <3>1. \A h \in K : h \in Int
      OBVIOUS
    <3>2. k <= k /\ ~(k <= j) /\ \A h \in K : h <= j => h <= k
      BY <1>5, <3>1
    <3> QED BY ZenonT(60), <3>2
  <2>2. Rank(K, j) = Cardinality(Upto(j)) /\ Rank(K, k) = Cardinality(Upto(k))
    BY DEF Rank
  <2> HIDE DEF Upto
  <2>3. Upto(j) # Upto(k)
    BY <2>1
  <2>4. Cardinality(Upto(j)) < Cardinality(Upto(k))
    <3>1. Upto(j) \in SUBSET Upto(k) /\ Upto(j) # Upto(k)
      BY <2>1, <2>3
    <3>2. Cardinality(Upto(j)) <= Cardinality(Upto(k))
          /\ (Cardinality(Upto(j)) = Cardinality(Upto(k)) => Upto(j) = Upto(k))
      BY <1>3, <3>1, FS_Subset
    <3> QED BY <1>3, <3>1, <3>2
  <2> QED BY <2>2, <2>4
<1> QED BY <1>2, <1>4, <1>5

(* Every rank belongs to a slot that is kept. *)
LEMMA RankOnto ==
  ASSUME NEW n \in Nat, NEW K \in SUBSET (1..n), NEW i \in 1..Cardinality(K)
  PROVE  \E j \in K : Rank(K, j) = i
<1> DEFINE Gaps == {g \in 1..Cardinality(K) : \A j \in K : Rank(K, j) # g}
<1>1. SUFFICES ASSUME Gaps # {} PROVE FALSE
  OBVIOUS
<1>2. /\ IsFiniteSet(K) /\ Cardinality(K) \in Nat
      /\ \A j \in K : Rank(K, j) \in 1..Cardinality(K)
  BY ZenonT(60), RankFacts
<1> DEFINE g == First(Gaps)
<1>3. g \in Gaps /\ \A h \in Gaps : g <= h
  <2>1. Gaps \in SUBSET Nat
    OBVIOUS
  <2> HIDE DEF Gaps
  <2> QED BY <1>1, <2>1, FirstIn
<1>4. g \in 1..Cardinality(K) /\ \A j \in K : Rank(K, j) # g
  BY <1>3
<1>5. \A h \in 1..Cardinality(K) : h < g => \E j \in K : Rank(K, j) = h
  BY <1>3
<1> HIDE DEF Gaps, g
(* The slots above those of smaller rank. *)
<1>6. PICK L \in SUBSET K : /\ Cardinality(L) = g - 1
                            /\ \A l \in L, k \in K \ L : l < k
  <2>1. CASE g = 1
    <3>1. Cardinality({}) = g - 1
      BY <2>1, FS_EmptySet
    <3> QED BY <3>1
  <2>2. CASE g # 1
    <3>1. g - 1 \in 1..Cardinality(K) /\ g - 1 < g
      BY <1>2, <1>4, <2>2
    <3>2. PICK p \in K : Rank(K, p) = g - 1
      BY <1>5, <3>1
    <3> DEFINE L == {k \in K : k <= p}
    <3>3. Cardinality(L) = g - 1
      BY <3>2 DEF Rank
    <3>4. \A l \in L, k \in K \ L : l < k
      OBVIOUS
    <3> QED BY <3>3, <3>4
  <2> QED BY <2>1, <2>2
<1>7. K \ L # {}
  <2>1. L # K
    BY <1>2, <1>4, <1>6
  <2> QED BY ZenonT(60), <2>1
<1> DEFINE m == First(K \ L)
<1>8. m \in K \ L /\ \A k \in K \ L : m <= k
  <2>1. (K \ L) \in SUBSET Nat
    OBVIOUS
  <2> QED BY <1>7, <2>1, FirstIn
<1> HIDE DEF m
<1>9. {k \in K : k <= m} = L \cup {m}
  <2>1. \A h \in K : h \in Int
    OBVIOUS
  <2>2. m \in K /\ m <= m /\ \A l \in L : l <= m
    BY <1>6, <1>8, <2>1
  <2>3. \A k \in K : k <= m => k \in L \/ k = m
    BY <1>8, <2>1
  <2> QED BY ZenonT(60), <2>2, <2>3
<1>10. IsFiniteSet(L)
  BY ZenonT(60), <1>2, FS_Subset
<1>11. Cardinality(L \cup {m}) = g
  <2>1. Cardinality(L \cup {m}) = Cardinality(L) + 1
    BY <1>8, <1>10, FS_AddElement
  <2> QED BY <1>4, <1>6, <2>1
<1>12. Rank(K, m) = g
  BY <1>9, <1>11 DEF Rank
<1> QED BY <1>4, <1>8, <1>12

(* The compacted table holds the slots kept, in order, and nothing else. *)
LEMMA CompactFacts ==
  ASSUME NEW T, NEW s \in Seq(T), NEW K \in SUBSET DOMAIN s
  PROVE  /\ Compact(s, K) \in Seq(T)
         /\ Len(Compact(s, K)) <= Len(s)
         /\ \A i \in DOMAIN Compact(s, K) :
              \E j \in K : Rank(K, j) = i /\ Compact(s, K)[i] = s[j]
         /\ \A j \in K : /\ Rank(K, j) \in DOMAIN Compact(s, K)
                         /\ Compact(s, K)[Rank(K, j)] = s[j]
         /\ \A j, k \in K : j < k => Rank(K, j) < Rank(K, k)
<1> DEFINE c == Cardinality(K)
           Slot(i) == CHOOSE j \in K : Rank(K, j) = i
<1>1. Len(s) \in Nat /\ K \in SUBSET (1..Len(s))
  OBVIOUS
<1>2. /\ c \in Nat /\ c <= Len(s)
      /\ \A j \in K : Rank(K, j) \in 1..c
      /\ \A j, k \in K : j < k => Rank(K, j) < Rank(K, k)
  BY ZenonT(60), <1>1, RankFacts
<1>3. \A i \in 1..c : \E j \in K : Rank(K, j) = i
  BY ZenonT(60), <1>1, RankOnto
<1> HIDE DEF c
<1>4. \A i \in 1..c : Slot(i) \in K /\ Rank(K, Slot(i)) = i
  BY <1>3
<1>5. Compact(s, K) = [i \in 1..c |-> s[Slot(i)]]
  BY DEF Compact, c
<1> HIDE DEF Slot
<1>6. Compact(s, K) \in [1..c -> T]
  BY <1>4, <1>5
<1>7. /\ Compact(s, K) \in Seq(T) /\ Len(Compact(s, K)) = c
      /\ DOMAIN Compact(s, K) = 1..c
  BY <1>2, <1>6, SeqOfFunction
<1>8. ASSUME NEW j \in K PROVE Slot(Rank(K, j)) = j
  <2> DEFINE k == Slot(Rank(K, j))
  <2>1. k \in K /\ Rank(K, k) = Rank(K, j)
    BY <1>2, <1>4
  <2>2. Rank(K, j) \in Nat /\ j \in Nat /\ k \in Nat
    BY <1>1, <1>2, <2>1
  <2>3. ~(j < k) /\ ~(k < j)
    BY <1>2, <2>1, <2>2
  <2> QED BY <2>2, <2>3
<1>9. \A i \in 1..c : Compact(s, K)[i] = s[Slot(i)]
  BY <1>5
<1> QED BY <1>2, <1>4, <1>7, <1>8, <1>9

-----------------------------------------------------------------------------
(* Sums.  They are cardinalities, so that no induction over the summands   *)
(* is needed.                                                              *)
LEMMA UnitsIn ==
  ASSUME NEW f, NEW S, NEW p
  PROVE  p \in Units(f, S) <=> \E x \in S : p \in {x} \X (1..f[x])
BY Zenon DEF Units

LEMMA UnitsOf ==
  ASSUME NEW f, NEW S, NEW x, NEW p \in {x} \X (1..f[x]), p \in Units(f, S)
  PROVE  x \in S
<1>1. PICK y \in S : p \in {y} \X (1..f[y])
  BY UnitsIn
<1>2. p[1] = x /\ p[1] = y
  BY <1>1
<1> QED BY <1>1, <1>2

(* The units of one summand. *)
LEMMA BlockFacts ==
  ASSUME NEW x, NEW n \in Nat
  PROVE  IsFiniteSet({x} \X (1..n)) /\ Cardinality({x} \X (1..n)) = n
<1>1. IsFiniteSet({x}) /\ Cardinality({x}) = 1
  BY FS_Singleton
<1>2. IsFiniteSet(1..n) /\ Cardinality(1..n) = n
  BY FS_Interval
<1>3. /\ IsFiniteSet({x} \X (1..n))
      /\ Cardinality({x} \X (1..n)) = Cardinality({x}) * Cardinality(1..n)
  BY ZenonT(60), <1>1, <1>2, FS_Product
<1> QED BY <1>1, <1>2, <1>3

LEMMA TotalType ==
  ASSUME NEW f, NEW S, IsFiniteSet(S), \A x \in S : f[x] \in Nat
  PROVE  IsFiniteSet(Units(f, S)) /\ Total(f, S) \in Nat
<1> DEFINE block == [x \in S |-> {x} \X (1..f[x])]
           B == {{x} \X (1..f[x]) : x \in S}
<1>1. block \in [S -> B] /\ \A b \in B : \E x \in S : block[x] = b
  <2>1. \A x \in S : block[x] = {x} \X (1..f[x]) /\ block[x] \in B
    BY Zenon
  <2>2. \A b \in B : \E x \in S : b = {x} \X (1..f[x])
    BY Zenon
  <2>3. block = [x \in S |-> block[x]]
    BY Zenon
  <2> HIDE DEF block, B
  <2>4. block \in [S -> B]
    BY <2>1, <2>3, Zenon
  <2>5. ASSUME NEW b \in B PROVE \E x \in S : block[x] = b
    <3>1. PICK x \in S : b = {x} \X (1..f[x])
      BY <2>2
    <3>2. block[x] = b
      BY <2>1, <3>1, Zenon
    <3> QED BY <3>2
  <2> QED BY <2>4, <2>5
<1>2. ASSUME NEW b \in B PROVE IsFiniteSet(b)
  <2>1. PICK x \in S : b = {x} \X (1..f[x])
    BY Zenon
  <2>2. IsFiniteSet({x} \X (1..f[x]))
    BY ZenonT(60), BlockFacts
  <2> QED BY <2>1, <2>2, Zenon
<1> HIDE DEF block, B
<1>3. IsFiniteSet(B)
  <2>1. block \in Surjection(S, B)
    BY <1>1 DEF Surjection
  <2> QED BY <2>1, FS_Surjection
<1>4. IsFiniteSet(UNION B)
  BY <1>2, <1>3, FS_UNION
<1>5. IsFiniteSet(Units(f, S))
  BY <1>4 DEF Units, B
<1> QED BY <1>5, FS_CardinalityType DEF Total

LEMMA TotalEmpty ==
  ASSUME NEW f
  PROVE  Total(f, {}) = 0
<1>1. Units(f, {}) = {}
  BY DEF Units
<1> QED BY <1>1, FS_EmptySet DEF Total

(* Summands that are equal have equal sums. *)
LEMMA TotalSame ==
  ASSUME NEW f, NEW g, NEW S, \A x \in S : f[x] = g[x]
  PROVE  Total(f, S) = Total(g, S)
<1>1. \A p : p \in Units(f, S) <=> p \in Units(g, S)
  BY UnitsIn
<1>2. Units(f, S) = Units(g, S)
  BY <1>1
<1> QED BY <1>2 DEF Total

(* One summand more. *)
LEMMA TotalAdd ==
  ASSUME NEW f, NEW S, IsFiniteSet(S), \A x \in S : f[x] \in Nat,
         NEW y, y \notin S, f[y] \in Nat
  PROVE  Total(f, S \cup {y}) = Total(f, S) + f[y]
<1> DEFINE U == Units(f, S)
           b == {y} \X (1..f[y])
<1>1. ASSUME NEW p
      PROVE  p \in Units(f, S \cup {y}) <=> p \in U \/ p \in b
  <2>1. p \in Units(f, S \cup {y})
          <=> \E x \in S \cup {y} : p \in {x} \X (1..f[x])
    BY UnitsIn, Zenon
  <2>2. p \in U <=> \E x \in S : p \in {x} \X (1..f[x])
    BY UnitsIn, Zenon
  <2> QED BY <2>1, <2>2, Zenon
<1>2. Units(f, S \cup {y}) = U \cup b
  BY <1>1, Zenon
<1>3. U \cap b = {}
  BY UnitsOf, Zenon
<1>4. IsFiniteSet(U) /\ Cardinality(U) \in Nat
  BY TotalType DEF Total
<1>5. IsFiniteSet(b) /\ Cardinality(b) = f[y]
  BY ZenonT(60), BlockFacts
<1> HIDE DEF U, b
<1>6. Cardinality(U \cup b) = Cardinality(U) + Cardinality(b) - Cardinality({})
  BY <1>3, <1>4, <1>5, FS_Union
<1>7. Cardinality({}) = 0
  BY FS_EmptySet
<1>8. Cardinality(U \cup b) = Cardinality(U) + f[y]
  BY <1>4, <1>5, <1>6, <1>7
<1> QED BY ZenonT(60), <1>2, <1>8 DEF Total, U

(* One summand less. *)
LEMMA TotalRemove ==
  ASSUME NEW f, NEW S, IsFiniteSet(S), \A x \in S : f[x] \in Nat, NEW y \in S
  PROVE  /\ Total(f, S) = Total(f, S \ {y}) + f[y]
         /\ Total(f, S \ {y}) \in Nat
<1> DEFINE R == S \ {y}
<1>1. IsFiniteSet(R)
  BY FS_RemoveElement
<1>2. S = R \cup {y} /\ y \notin R /\ \A x \in R : f[x] \in Nat
  OBVIOUS
<1> HIDE DEF R
<1>3. Total(f, R \cup {y}) = Total(f, R) + f[y] /\ Total(f, R) \in Nat
  BY <1>1, <1>2, TotalAdd, TotalType
<1> QED BY ZenonT(60), <1>2, <1>3 DEF R

(* Fewer summands do not make more. *)
LEMMA TotalSubset ==
  ASSUME NEW f, NEW T, IsFiniteSet(T), \A x \in T : f[x] \in Nat,
         NEW S \in SUBSET T
  PROVE  Total(f, S) <= Total(f, T)
<1>1. Units(f, S) \subseteq Units(f, T)
  BY UnitsIn, Zenon
<1>2. IsFiniteSet(Units(f, T))
  BY TotalType
<1> QED BY <1>1, <1>2, FS_Subset DEF Total
=============================================================================
