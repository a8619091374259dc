-------------------------- MODULE Evaluation_proofs --------------------------
(***************************************************************************)
(* Proofs about Evaluation.tla and Metrics.tla: the sample is spread, a    *)
(* limited run is mixed, a sweep without provider errors is stored as a    *)
(* whole, findings are credited fairly in any order, a line of the report  *)
(* adds up and the two lines of a pair are about the same articles.        *)
(*                                                                         *)
(* First what the model is built from: the head of a sorted set, numbers   *)
(* for the rounds of four nested loops, folds, credit and sums.  Then one  *)
(* invariant for each stage: CorpusInv the sample and the splits, QueueInv *)
(* what a sweep goes through, TablesInv and SweepInv what it has stored,   *)
(* ReadingInv what a report has read.                                      *)
(***************************************************************************)
EXTENDS Evaluation, FiniteSetTheorems, SequenceTheorems, WellFoundedInduction, TLAPS

-----------------------------------------------------------------------------
(***************************************************************************)
(* Sorting, and the head of what is sorted.                                *)
(***************************************************************************)
LEMMA LeastExists ==
  ASSUME NEW T \in SUBSET Nat, T # {}
  PROVE  \E t \in T : \A y \in T : t <= y
<1>1. PICK t \in T : \A y \in T : ~(<<y, t>> \in OpToRel(<, Nat))
  BY NatLessThanWellFounded, WFMin
<1>2. \A y \in T : ~(y < t)
  BY <1>1 DEF OpToRel
<1>3. QED BY <1>2

StrictTotal(R, S) ==
  /\ \A a \in S : <<a, a>> \notin R
  /\ \A a, b, c \in S : <<a, b>> \in R /\ <<b, c>> \in R => <<a, c>> \in R
  /\ \A a, b \in S : a = b \/ <<a, b>> \in R \/ <<b, a>> \in R

Before(S, R, a) == {b \in S : <<b, a>> \in R}

Sorts(s, S, R) ==
  /\ Cardinality(S) \in Nat
  /\ s \in [1..Cardinality(S) -> S]
  /\ \A j, k \in 1..Cardinality(S) : j < k => <<s[j], s[k]>> \in R
  /\ \A a \in S : \E k \in 1..Cardinality(S) : s[k] = a

\* Each place of the order is taken.
LEMMA PlacesTaken ==
  ASSUME NEW S, NEW R, IsFiniteSet(S), StrictTotal(R, S)
  PROVE  /\ \A a \in S : Cardinality(Before(S, R, a)) \in Nat
         /\ \A a, b \in S : <<a, b>> \in R =>
              Cardinality(Before(S, R, a)) < Cardinality(Before(S, R, b))
         /\ \A k \in 1..Cardinality(S) : \E a \in S : Cardinality(Before(S, R, a)) = k - 1
<1> DEFINE n == Cardinality(S)
<1>1. n \in Nat
  BY FS_CardinalityType
<1>2. ASSUME NEW a \in S PROVE IsFiniteSet(Before(S, R, a)) /\ Cardinality(Before(S, R, a)) \in 0..n-1
  <2>1. Before(S, R, a) \subseteq S \ {a}
    BY DEF StrictTotal, Before
  <2>2. IsFiniteSet(S \ {a}) /\ Cardinality(S \ {a}) = n - 1
    BY FS_RemoveElement
  <2>3. IsFiniteSet(Before(S, R, a)) /\ Cardinality(Before(S, R, a)) <= n - 1
    BY <2>1, <2>2, FS_Subset
  <2>4. Cardinality(Before(S, R, a)) \in Nat
    BY <2>3, FS_CardinalityType
  <2> HIDE DEF n
  <2>5. QED BY <1>1, <2>3, <2>4
<1>3. ASSUME NEW a \in S, NEW b \in S, <<a, b>> \in R
      PROVE  Cardinality(Before(S, R, a)) < Cardinality(Before(S, R, b))
  <2>1. Before(S, R, a) \subseteq Before(S, R, b) /\ a \in Before(S, R, b) /\ a \notin Before(S, R, a)
    BY <1>3 DEF StrictTotal, Before
  <2>2. IsFiniteSet(Before(S, R, b)) /\ IsFiniteSet(Before(S, R, a))
    BY <1>2
  <2>3. Cardinality(Before(S, R, a)) <= Cardinality(Before(S, R, b))
    BY <2>1, <2>2, FS_Subset
  <2>4. Cardinality(Before(S, R, a)) # Cardinality(Before(S, R, b))
    BY <2>1, <2>2, FS_Subset
  <2>5. Cardinality(Before(S, R, a)) \in Nat /\ Cardinality(Before(S, R, b)) \in Nat
    BY <2>2, FS_CardinalityType
  <2>6. QED BY <2>3, <2>4, <2>5
<1> DEFINE place == [a \in S |-> Cardinality(Before(S, R, a)) + 1]
<1>4. place \in Injection(S, 1..n)
  <2>1. place \in [S -> 1..n]
    <3> HIDE DEF n
    <3>1. \A a \in S : Cardinality(Before(S, R, a)) + 1 \in 1..n
      BY <1>1, <1>2
    <3>2. QED BY <3>1
  <2>2. ASSUME NEW a \in S, NEW b \in S, place[a] = place[b] PROVE a = b
    <3>1. Cardinality(Before(S, R, a)) = Cardinality(Before(S, R, b))
      <4> HIDE DEF n
      <4>1. QED BY <1>1, <1>2, <2>2
    <3>2. <<a, b>> \notin R /\ <<b, a>> \notin R
      <4>1. Cardinality(Before(S, R, a)) \in 0..n-1 /\ Cardinality(Before(S, R, b)) \in 0..n-1
        BY <1>2
      <4> HIDE DEF n
      <4>2. QED BY <1>3, <1>1, <3>1, <4>1
    <3>3. QED BY <3>2 DEF StrictTotal
  <2> HIDE DEF place
  <2>3. QED BY <2>1, <2>2 DEF Injection, IsInjective
<1>5. place \in Surjection(S, 1..n)
  <2>1. Cardinality(1..n) = n /\ IsFiniteSet(1..n)
    <3>1. 1 \in Int /\ n \in Int
      BY <1>1
    <3> HIDE DEF n
    <3>2. QED BY <1>1, <3>1, FS_Interval
  <2> HIDE DEF place
  <2>2. QED BY <1>4, <2>1, FS_Injection
<1>6. ASSUME NEW k \in 1..n PROVE \E a \in S : Cardinality(Before(S, R, a)) = k - 1
  <2>1. PICK a \in S : place[a] = k
    BY <1>5 DEF Surjection
  <2>2. Cardinality(Before(S, R, a)) \in Nat /\ place[a] = Cardinality(Before(S, R, a)) + 1
    BY <1>2
  <2>3. QED BY <2>1, <2>2
<1> HIDE DEF place, n
<1>7. QED BY <1>2, <1>3, <1>6 DEF n

LEMMA InOrderSorts ==
  ASSUME NEW S, NEW R, IsFiniteSet(S), StrictTotal(R, S)
  PROVE  Sorts(InOrder(S, R), S, R)
<1> DEFINE n == Cardinality(S)
           s == InOrder(S, R)
<1>1. n \in Nat
  BY FS_CardinalityType
<1>2. /\ \A a \in S : Cardinality(Before(S, R, a)) \in Nat
      /\ \A a, b \in S : <<a, b>> \in R => Cardinality(Before(S, R, a)) < Cardinality(Before(S, R, b))
      /\ \A k \in 1..n : \E a \in S : Cardinality(Before(S, R, a)) = k - 1
  BY PlacesTaken
<1>3. s = [k \in 1..n |-> CHOOSE a \in S : Cardinality(Before(S, R, a)) = k - 1]
  BY DEF InOrder, Before
<1> HIDE DEF s, n
<1>4. \A k \in 1..n : s[k] \in S /\ Cardinality(Before(S, R, s[k])) = k - 1
  BY <1>2, <1>3
<1>5. s \in [1..n -> S]
  BY <1>3, <1>4
<1>6. ASSUME NEW j \in 1..n, NEW k \in 1..n, j < k PROVE <<s[j], s[k]>> \in R
  <2>1. Cardinality(Before(S, R, s[j])) < Cardinality(Before(S, R, s[k]))
    BY <1>1, <1>4, <1>6
  <2>2. s[j] # s[k]
    BY <1>2, <1>4, <2>1
  <2>3. <<s[k], s[j]>> \notin R
    BY <1>2, <1>4, <2>1
  <2>4. QED BY <1>4, <2>2, <2>3 DEF StrictTotal
<1>7. ASSUME NEW a \in S PROVE \E k \in 1..n : s[k] = a
  <2>1. s \in Injection(1..n, S)
    <3>1. \A j, k \in 1..n : s[j] = s[k] => j = k
      BY <1>1, <1>4
    <3>2. QED BY <1>5, <3>1 DEF Injection, IsInjective
  <2>2. Cardinality(1..n) = Cardinality(S)
    <3>1. 1 \in Int /\ n \in Int
      BY <1>1
    <3>2. Cardinality(1..n) = n
      BY <1>1, <3>1, FS_Interval
    <3>3. QED BY <3>2 DEF n
  <2>3. s \in Surjection(1..n, S)
    BY <2>1, <2>2, FS_Injection
  <2>4. QED BY <2>3 DEF Surjection
<1>8. QED BY <1>1, <1>5, <1>6, <1>7 DEF Sorts, n, s

\* t is as much as n admits of S, and what it leaves out comes later.
Heads(t, S, R, n) ==
  /\ t \in Seq(S)
  /\ \A j, k \in DOMAIN t : t[j] = t[k] => j = k
  /\ \A a \in ToSet(t), b \in S \ ToSet(t) : <<a, b>> \in R
  /\ Len(t) = IF n = None \/ Cardinality(S) <= n THEN Cardinality(S) ELSE n
  /\ n = None => ToSet(t) = S

LEMMA PrefixHeads ==
  ASSUME NEW S, NEW R, NEW n \in Nat \cup {None}, IsFiniteSet(S), StrictTotal(R, S)
  PROVE  Heads(Prefix(InOrder(S, R), n), S, R, n)
<1> DEFINE s == InOrder(S, R)
           t == Prefix(s, n)
           m == Cardinality(S)
           all == n = None \/ m <= n
<1>1. /\ m \in Nat /\ s \in [1..m -> S]
      /\ \A j, k \in 1..m : j < k => <<s[j], s[k]>> \in R
      /\ \A a \in S : \E k \in 1..m : s[k] = a
  BY InOrderSorts DEF Sorts
<1>2. t = IF n = None \/ Len(s) <= n THEN s ELSE SubSeq(s, 1, n)
  BY DEF Prefix
<1> HIDE DEF s, t, m
<1>3. s \in Seq(S) /\ Len(s) = m
  BY <1>1
<1> DEFINE l == IF all THEN m ELSE n
<1>4. l \in 0..m /\ t \in [1..l -> S] /\ \A k \in 1..l : t[k] = s[k]
  <2>1. CASE all
    BY <1>1, <1>2, <1>3, <2>1
  <2>2. CASE ~all
    <3>1. n \in Nat /\ n < m /\ t = SubSeq(s, 1, n)
      BY <1>1, <1>2, <1>3, <2>2
    <3>2. /\ t \in [1..n -> S] /\ \A k \in 1..n : t[k] = s[k]
      <4>1. t = [k \in 1..n |-> s[k]]
        BY <3>1
      <4>2. \A k \in 1..n : s[k] \in S
        BY <1>1, <3>1
      <4>3. QED BY <4>1, <4>2
    <3>3. QED BY <1>1, <2>2, <3>1, <3>2
  <2>3. QED BY <2>1, <2>2
<1> HIDE DEF l
<1>5. l \in Nat /\ t \in Seq(S) /\ Len(t) = l /\ DOMAIN t = 1..l
  BY <1>1, <1>4
<1>6. ToSet(t) = {s[k] : k \in 1..l}
  BY <1>4, <1>5 DEF ToSet
<1>7. \A j, k \in 1..m : s[j] = s[k] => j = k
  <2>1. ASSUME NEW j \in 1..m, NEW k \in 1..m, s[j] = s[k] PROVE j = k
    <3>1. ~(j < k) /\ ~(k < j)
      BY <1>1, <2>1 DEF StrictTotal
    <3>2. QED BY <1>1, <3>1
  <2>2. QED BY <2>1
<1>8. \A j, k \in DOMAIN t : t[j] = t[k] => j = k
  <2>1. 1..l \subseteq 1..m
    BY <1>1, <1>4
  <2>2. QED BY <1>4, <1>5, <1>7, <2>1
<1>9. ASSUME NEW a \in ToSet(t), NEW b \in S \ ToSet(t) PROVE <<a, b>> \in R
  <2>1. PICK j \in 1..l : a = s[j]
    BY <1>6
  <2>2. PICK k \in 1..m : b = s[k]
    BY <1>1
  <2>3. k \notin 1..l
    BY <1>6, <2>2
  <2>4. j \in 1..m /\ j < k
    BY <1>1, <1>4, <2>1, <2>2, <2>3
  <2>5. QED BY <1>1, <2>1, <2>2, <2>4
<1>10. n = None => ToSet(t) = S
  BY <1>1, <1>6 DEF l
<1>11. QED BY <1>5, <1>8, <1>9, <1>10 DEF Heads, l, m, t, s

\* As many elements as places below m, at most and at least.
LEMMA FewBelow ==
  ASSUME NEW m \in Nat, NEW K, NEW r \in [K -> 0..m-1],
         \A x, y \in K : r[x] = r[y] => x = y
  PROVE  IsFiniteSet(K) /\ Cardinality(K) <= m
<1>1. r \in Injection(K, 0..m-1)
  BY DEF Injection, IsInjective
<1>2. IsFiniteSet(0..m-1) /\ Cardinality(0..m-1) = m
  <2>1. 0 \in Int /\ m-1 \in Int
    OBVIOUS
  <2>2. QED BY <2>1, FS_Interval
<1>3. QED BY <1>1, <1>2, FS_Injection

LEMMA ManyBelow ==
  ASSUME NEW m \in Nat, NEW K, IsFiniteSet(K), NEW r, 
         \A i \in 0..m-1 : \E x \in K : r[x] = i
  PROVE  m <= Cardinality(K)
<1> DEFINE low == {x \in K : r[x] \in 0..m-1}
           f == [x \in low |-> r[x]]
<1>1. IsFiniteSet(low) /\ Cardinality(low) <= Cardinality(K)
  <2>1. low \subseteq K
    OBVIOUS
  <2> HIDE DEF low
  <2>2. QED BY <2>1, FS_Subset
<1>2. f \in Surjection(low, 0..m-1)
  BY DEF Surjection
<1>3. Cardinality(0..m-1) = m
  <2>1. 0 \in Int /\ m-1 \in Int
    OBVIOUS
  <2>2. QED BY <2>1, FS_Interval
<1> HIDE DEF low, f
<1>4. m <= Cardinality(low)
  BY <1>1, <1>2, <1>3, FS_Surjection
<1>5. Cardinality(low) \in Nat /\ Cardinality(K) \in Nat
  BY <1>1, FS_CardinalityType
<1>6. QED BY <1>1, <1>4, <1>5

-----------------------------------------------------------------------------
(***************************************************************************)
(* The number of a call and what it asks: a number in mixed radix.         *)
(***************************************************************************)
LEMMA Products ==
  ASSUME NEW a \in Nat \ {0}, NEW b \in Nat \ {0}
  PROVE  a * b \in Nat \ {0} /\ a * b = b * a
OBVIOUS

LEMMA Scaled ==
  ASSUME NEW b \in Nat, NEW p \in Nat, NEW q \in Nat, p <= q
  PROVE  b * p \in Nat /\ b * q \in Nat /\ b * p <= b * q
<1>1. PICK d \in Nat : q = p + d
  BY q - p \in Nat
<1>2. b * q = b * p + b * d /\ b * d \in Nat /\ b * p \in Nat
  BY <1>1
<1>3. QED BY <1>2

LEMMA DivMod ==
  ASSUME NEW n \in Nat, NEW b \in Nat \ {0}
  PROVE  n \div b \in Nat /\ n % b \in 0..b-1 /\ n = b * (n \div b) + (n % b)
OBVIOUS

LEMMA DivIs ==
  ASSUME NEW b \in Nat \ {0}, NEW q \in Nat, NEW r \in 0..b-1, NEW n \in Nat, n = b * q + r
  PROVE  n \div b = q /\ n % b = r
<1>1. n \div b \in Nat /\ n % b \in 0..b-1 /\ n = b * (n \div b) + (n % b)
  BY DivMod
<1> DEFINE p == n \div b
<1> HIDE DEF p
<1>2. p \in Nat
  BY <1>1 DEF p
<1>3. b * p + (n % b) = b * q + r /\ b * p \in Int /\ b * q \in Int
  BY <1>1, <1>2 DEF p
<1>4. ~(p < q)
  <2> SUFFICES ASSUME p + 1 <= q PROVE FALSE
    BY <1>2
  <2>1. b * (p + 1) <= b * q /\ b * (p + 1) = b * p + b
    BY <1>2, Scaled
  <2>2. QED BY <1>1, <1>3, <2>1
<1>5. ~(q < p)
  <2> SUFFICES ASSUME q + 1 <= p PROVE FALSE
    BY <1>2
  <2>1. b * (q + 1) <= b * p /\ b * (q + 1) = b * q + b
    BY <1>2, Scaled
  <2>2. QED BY <1>1, <1>3, <2>1
<1>6. p = q
  BY <1>2, <1>4, <1>5
<1>7. n % b = r
  BY <1>1, <1>3, <1>6
<1>8. QED BY <1>6, <1>7 DEF p

Division(n, b, q, r) == n = b * q + r

LEMMA DivOf ==
  ASSUME NEW b \in Nat \ {0}, NEW q \in Nat, NEW r \in 0..b-1, NEW n \in Nat, Division(n, b, q, r)
  PROVE  n \div b = q /\ n % b = r
BY DivIs DEF Division

LEMMA Within ==
  ASSUME NEW b \in Nat \ {0}, NEW c \in Nat \ {0}, NEW q \in 0..c-1, NEW r \in 0..b-1
  PROVE  b * q + r \in 0 .. b * c - 1
<1>1. b * (q + 1) <= b * c /\ b * (q + 1) = b * q + b /\ b * q \in Nat /\ b * c \in Nat
  BY Scaled
<1>2. QED BY <1>1

ArticleAt(n, L, R) == (n \div R) % L
VariantAt(n, L, R, V) == (n \div (L * R)) % V
GrammarAt(n, L, R, V) == n \div (L * R * V)
CallNo(a, v, g, r, L, R, V) == R * (L * (V * g + v) + a) + r
CallsOfSweep(L, R, V, G) == L * V * G * R

\* Call n is repetition r of that article, variant and grammar mode.
IsCall(n, a, v, g, r, L, R, V) ==
  /\ ArticleAt(n, L, R) = a /\ VariantAt(n, L, R, V) = v
  /\ GrammarAt(n, L, R, V) = g /\ n % R = r

\* The call of a repetition r of an article under a variant and a grammar mode.
LEMMA CallIsMade ==
  ASSUME NEW L \in Nat \ {0}, NEW R \in Nat \ {0}, NEW V \in Nat \ {0}, NEW G \in Nat \ {0},
         NEW a \in 0..L-1, NEW v \in 0..V-1, NEW g \in 0..G-1, NEW r \in 0..R-1,
         NEW n, n = CallNo(a, v, g, r, L, R, V)
  PROVE  n \in 0 .. CallsOfSweep(L, R, V, G) - 1 /\ IsCall(n, a, v, g, r, L, R, V)
<1> DEFINE y == V * g + v
           x == L * y + a
<1>1. n = R * x + r
  BY DEF CallNo
<1>2. y \in 0 .. V * G - 1 /\ V * G \in Nat \ {0}
  BY Within, Products
<1> HIDE DEF y
<1>3. x \in 0 .. L * (V * G) - 1 /\ L * (V * G) \in Nat \ {0}
  BY <1>2, Within, Products
<1>4. x = L * y + a
  OBVIOUS
<1> HIDE DEF x
<1>5. n \in 0 .. R * (L * (V * G)) - 1 /\ x \in Nat /\ n \in Nat
  <2>1. n \in 0 .. R * (L * (V * G)) - 1
    BY <1>1, <1>3, Within
  <2>2. QED BY <1>3, <2>1, Products
<1>6. R * (L * (V * G)) = L * V * G * R
  OBVIOUS
<1>7. n \div R = x /\ n % R = r
  BY <1>1, <1>3, <1>5, DivIs
<1>8. x \div L = y /\ x % L = a
  <2>1. y \in Nat
    BY <1>2
  <2>2. x \in Nat /\ Division(x, L, y, a)
    BY <1>4, <1>5 DEF Division
  <2>3. QED BY <2>1, <2>2, DivOf
<1>9. R * a + r \in 0 .. R * L - 1 /\ R * L = L * R /\ L * R \in Nat \ {0}
  BY Within, Products
<1>10. n = (L * R) * y + (R * a + r)
  <2>1. R * (L * y + a) = (L * R) * y + R * a
    BY <1>2
  <2>2. R * a \in Int /\ (L * R) * y \in Int
    BY <1>2
  <2>3. QED BY <1>1, <1>4, <2>1, <2>2
<1>11. n \div (L * R) = y
  BY <1>2, <1>5, <1>9, <1>10, DivIs
<1>12. y % V = v /\ y \div V = g
  BY <1>2, DivIs DEF y
<1>13. n \div (L * R * V) = g
  <2> DEFINE P == L * R
             low == R * a + r
  <2>1. P \in Nat \ {0} /\ low \in 0..P-1 /\ n = P * y + low
    BY <1>9, <1>10
  <2> HIDE DEF P, low
  <2>2. P * v + low \in 0 .. P * V - 1 /\ P * V \in Nat \ {0}
    BY <2>1, Within, Products
  <2>3. n = (P * V) * g + (P * v + low)
    <3>1. P * (V * g + v) = (P * V) * g + P * v
      BY <2>1
    <3>2. P * v \in Int /\ (P * V) * g \in Int
      BY <2>1
    <3>3. QED BY <2>1, <3>1, <3>2 DEF y
  <2>4. n \div (P * V) = g
    BY <1>5, <2>2, <2>3, DivIs
  <2>5. QED BY <2>4 DEF P
<1>14. QED BY <1>5, <1>6, <1>7, <1>8, <1>11, <1>12, <1>13 
    DEF ArticleAt, VariantAt, GrammarAt, IsCall, CallsOfSweep

\* And each call is one of those.
LEMMA CallAsks ==
  ASSUME NEW L \in Nat \ {0}, NEW R \in Nat \ {0}, NEW V \in Nat \ {0}, NEW G \in Nat \ {0},
         NEW n \in 0 .. CallsOfSweep(L, R, V, G) - 1
  PROVE  /\ ArticleAt(n, L, R) \in 0..L-1 /\ VariantAt(n, L, R, V) \in 0..V-1
         /\ GrammarAt(n, L, R, V) \in 0..G-1 /\ n % R \in 0..R-1
         /\ n = CallNo(ArticleAt(n, L, R), VariantAt(n, L, R, V), GrammarAt(n, L, R, V),
                       n % R, L, R, V)
<1> DEFINE x == n \div R
           y == x \div L
           g == y \div V
           a == x % L
           v == y % V
           r == n % R
<1>1. n \in Nat /\ n < L * V * G * R
  <2>1. L * V * G * R \in Nat
    BY Products
  <2>2. QED BY <2>1 DEF CallsOfSweep
<1>2. x \in Nat /\ r \in 0..R-1 /\ n = R * x + r
  BY <1>1, DivMod
<1> HIDE DEF x, r
<1>3. y \in Nat /\ a \in 0..L-1 /\ x = L * y + a
  BY <1>2, DivMod
<1> HIDE DEF y, a
<1>4. g \in Nat /\ v \in 0..V-1 /\ y = V * g + v
  BY <1>3, DivMod
<1> HIDE DEF g, v
<1>5. n = CallNo(a, v, g, r, L, R, V)
  BY <1>2, <1>3, <1>4 DEF CallNo
<1>6. g \in 0..(g+1)-1 /\ g + 1 \in Nat \ {0}
  BY <1>4
<1> DEFINE H == g + 1
<1> HIDE DEF H
<1>7. IsCall(n, a, v, g, r, L, R, V)
  <2>1. H \in Nat \ {0} /\ g \in 0..H-1
    BY <1>6 DEF H
  <2>2. QED BY <1>2, <1>3, <1>4, <1>5, <2>1, CallIsMade
<1>8. g < G
  <2> SUFFICES ASSUME G <= g PROVE FALSE
    BY <1>4
  <2>1. V * G <= V * g /\ V * g \in Nat /\ V * G \in Nat
    BY <1>4, Scaled
  <2>2. V * G <= y
    BY <1>4, <2>1
  <2>3. L * (V * G) <= L * y /\ L * y \in Nat /\ L * (V * G) \in Nat
    BY <1>3, <2>1, <2>2, Scaled
  <2>4. L * (V * G) <= x
    BY <1>3, <2>3
  <2>5. R * (L * (V * G)) <= R * x /\ R * x \in Nat
    BY <1>2, <2>3, <2>4, Scaled
  <2>6. R * (L * (V * G)) = L * V * G * R
    OBVIOUS
  <2>7. QED BY <1>1, <1>2, <2>5, <2>6
<1>9. QED BY <1>2, <1>3, <1>4, <1>5, <1>7, <1>8 DEF r, IsCall

\* The numbers of the calls about an article under a variant and a grammar
\* mode, counted from base.
Axes(L, R, V, G) == L \in Nat \ {0} /\ R \in Nat \ {0} /\ V \in Nat \ {0} /\ G \in Nat \ {0}

CallsAbout(K, base, a, v, g, L, R, V, G) ==
  /\ Axes(L, R, V, G) /\ base \in Nat /\ a \in 0..L-1 /\ v \in 0..V-1 /\ g \in 0..G-1
  /\ \A i : i \in K <=>
    /\ i \in base + 1 .. base + CallsOfSweep(L, R, V, G)
    /\ ArticleAt(i - base - 1, L, R) = a
    /\ VariantAt(i - base - 1, L, R, V) = v
    /\ GrammarAt(i - base - 1, L, R, V) = g

CallsAboutArticle(K, base, a, g, L, R, V, G) ==
  /\ Axes(L, R, V, G) /\ base \in Nat /\ a \in 0..L-1 /\ g \in 0..G-1
  /\ \A i : i \in K <=>
    /\ i \in base + 1 .. base + CallsOfSweep(L, R, V, G)
    /\ ArticleAt(i - base - 1, L, R) = a
    /\ GrammarAt(i - base - 1, L, R, V) = g

\* Of an article, variant and grammar mode there is a call per repetition, ...
LEMMA Repetitions ==
  ASSUME NEW L, NEW R, NEW V, NEW G, NEW a, NEW v, NEW g, NEW base, NEW K,
         CallsAbout(K, base, a, v, g, L, R, V, G)
  PROVE  IsFiniteSet(K) /\ Cardinality(K) = R
<1> USE DEF CallsAbout
<1> SUFFICES ASSUME L \in Nat \ {0}, R \in Nat \ {0}, V \in Nat \ {0}, G \in Nat \ {0},
                    a \in 0..L-1, v \in 0..V-1, g \in 0..G-1, base \in Nat
             PROVE  IsFiniteSet(K) /\ Cardinality(K) = R
  BY DEF Axes
<1> DEFINE T == CallsOfSweep(L, R, V, G)
           f == [i \in K |-> (i - base - 1) % R]
<1>1. T \in Nat
  BY Products DEF CallsOfSweep
<1>2. ASSUME NEW i \in K
      PROVE  /\ f[i] \in 0..R-1 /\ i \in Int
             /\ i - base - 1 = CallNo(a, v, g, f[i], L, R, V)
  <2>1. i \in Int /\ i - base - 1 \in 0..T-1
    BY <1>1
  <2> HIDE DEF T
  <2>2. i - base - 1 \in 0 .. CallsOfSweep(L, R, V, G) - 1
    BY <2>1 DEF T
  <2>3. QED BY <2>1, <2>2, CallAsks
<1>3. f \in [K -> 0..R-1]
  BY <1>2
<1>4. \A i, j \in K : f[i] = f[j] => i = j
  <2> HIDE DEF f
  <2>1. ASSUME NEW i \in K, NEW j \in K, f[i] = f[j] PROVE i = j
    <3>1. i - base - 1 = j - base - 1 /\ i \in Int /\ j \in Int
      BY <1>2, <2>1
    <3>2. QED BY <3>1
  <2>2. QED BY <2>1
<1>5. IsFiniteSet(K) /\ Cardinality(K) <= R
  <2> HIDE DEF f
  <2>1. QED BY <1>3, <1>4, FewBelow
<1>6. ASSUME NEW r \in 0..R-1 PROVE \E i \in K : f[i] = r
  <2> DEFINE n == CallNo(a, v, g, r, L, R, V)
  <2>0. n = CallNo(a, v, g, r, L, R, V)
    OBVIOUS
  <2> HIDE DEF n
  <2>1. n \in 0..T-1 /\ IsCall(n, a, v, g, r, L, R, V)
    BY <2>0, CallIsMade
  <2>2. (base + 1 + n) - base - 1 = n /\ base + 1 + n \in base + 1 .. base + T
    BY <1>1, <2>1
  <2>3. base + 1 + n \in K
    BY <2>1, <2>2 DEF IsCall
  <2>4. QED BY <2>1, <2>2, <2>3 DEF IsCall
<1>7. R <= Cardinality(K)
  <2> HIDE DEF f
  <2>1. QED BY <1>5, <1>6, ManyBelow
<1>8. Cardinality(K) \in Nat
  BY <1>5, FS_CardinalityType
<1>9. QED BY <1>5, <1>7, <1>8

\* ... and of an article and grammar mode one per variant and repetition.
LEMMA RepetitionsOfAll ==
  ASSUME NEW L, NEW R, NEW V, NEW G, NEW a, NEW g, NEW base, NEW K,
         CallsAboutArticle(K, base, a, g, L, R, V, G)
  PROVE  Division(Cardinality(K), R, V, 0)
<1> USE DEF CallsAboutArticle
<1> SUFFICES ASSUME L \in Nat \ {0}, R \in Nat \ {0}, V \in Nat \ {0}, G \in Nat \ {0},
                    a \in 0..L-1, g \in 0..G-1, base \in Nat
             PROVE  Division(Cardinality(K), R, V, 0)
  BY DEF Axes
<1> DEFINE T == CallsOfSweep(L, R, V, G)
           vr(i) == VariantAt(i - base - 1, L, R, V)
           place(i) == R * vr(i) + ((i - base - 1) % R)
           f == [i \in K |-> place(i)]
<1>1. T \in Nat /\ R * V \in Nat
  BY Products DEF CallsOfSweep
<1>2. ASSUME NEW i \in K
      PROVE  /\ vr(i) \in 0..V-1 /\ (i - base - 1) % R \in 0..R-1 /\ i \in Int
             /\ i - base - 1 = CallNo(a, vr(i), g, (i - base - 1) % R, L, R, V)
  <2>1. i \in Int /\ i - base - 1 \in 0..T-1
    BY <1>1
  <2> HIDE DEF T
  <2>2. i - base - 1 \in 0 .. CallsOfSweep(L, R, V, G) - 1
    BY <2>1 DEF T
  <2>3. QED BY <2>1, <2>2, CallAsks
<1> HIDE DEF vr
<1>3. f \in [K -> 0..R * V - 1]
  <2>1. ASSUME NEW i \in K PROVE place(i) \in 0..R * V - 1
    BY <1>2, Within
  <2>2. QED BY <2>1
<1>4. \A i, j \in K : f[i] = f[j] => i = j
  <2>1. ASSUME NEW i \in K, NEW j \in K, f[i] = f[j] PROVE i = j
    <3> DEFINE c == f[i]
               p == (i - base - 1) % R
               o == (j - base - 1) % R
               v == vr(i)
               w == vr(j)
    <3>1. /\ v \in Nat /\ p \in 0..R-1 /\ i \in Int
          /\ w \in Nat /\ o \in 0..R-1 /\ j \in Int
          /\ i - base - 1 = CallNo(a, v, g, p, L, R, V)
          /\ j - base - 1 = CallNo(a, w, g, o, L, R, V)
      BY <1>2
    <3>2. place(i) = R * v + p
      BY Zenon
    <3>8. place(j) = R * w + o
      BY Zenon
    <3> HIDE DEF p, o, v, w, place
    <3>9. c = R * v + p /\ c = R * w + o
      BY <2>1, <3>2, <3>8
    <3> HIDE DEF c
    <3>10. Division(c, R, v, p) /\ Division(c, R, w, o)
      BY <3>9 DEF Division
    <3>3. c \in Nat
      BY <3>1, <3>9
    <3>4. c \div R = v /\ c % R = p
      BY <3>1, <3>3, <3>10, DivOf
    <3>5. c \div R = w /\ c % R = o
      BY <3>1, <3>3, <3>10, DivOf
    <3>6. i - base - 1 = j - base - 1
      BY <3>1, <3>4, <3>5
    <3>7. QED BY <3>1, <3>6
  <2>2. QED BY <2>1
<1>5. IsFiniteSet(K) /\ Cardinality(K) <= R * V
  <2> HIDE DEF f
  <2>1. QED BY <1>1, <1>3, <1>4, FewBelow
<1>6. ASSUME NEW k \in 0..R * V - 1 PROVE \E i \in K : f[i] = k
  <2> DEFINE r == k % R
             v == k \div R
             n == CallNo(a, v, g, r, L, R, V)
  <2>0. k \in Nat
    BY <1>1
  <2>1. k \in Nat /\ v \in Nat /\ r \in 0..R-1 /\ k = R * v + r
    BY <2>0, DivMod
  <2> HIDE DEF r, v
  <2>2. v < V
    <3> SUFFICES ASSUME V <= v PROVE FALSE
      BY <2>1
    <3>1. R * V <= R * v /\ R * v \in Nat
      BY <2>1, Scaled
    <3>2. QED BY <1>1, <2>1, <3>1
  <2>3. v \in 0..V-1
    BY <2>1, <2>2
  <2> HIDE DEF r, v
  <2>9. n = CallNo(a, v, g, r, L, R, V)
    OBVIOUS
  <2> HIDE DEF n
  <2>4. n \in 0..T-1 /\ IsCall(n, a, v, g, r, L, R, V)
    BY <2>1, <2>3, <2>9, CallIsMade
  <2>5. (base + 1 + n) - base - 1 = n /\ base + 1 + n \in base + 1 .. base + T
    BY <1>1, <2>4
  <2>6. base + 1 + n \in K
    BY <2>4, <2>5 DEF IsCall
  <2>7. f[base + 1 + n] = R * v + r
    <3> DEFINE i == base + 1 + n
    <3>1. i \in K /\ i - base - 1 = n
      BY <2>5, <2>6
    <3> HIDE DEF i
    <3>2. vr(i) = v /\ n % R = r
      BY <2>4, <3>1 DEF IsCall, vr
    <3>3. place(i) = R * v + r
      BY <3>1, <3>2, Zenon
    <3> HIDE DEF place
    <3>4. f[i] = R * v + r
      BY <3>1, <3>3
    <3>5. QED BY <3>4 DEF i
  <2>8. QED BY <2>1, <2>6, <2>7
<1>7. R * V <= Cardinality(K)
  <2> HIDE DEF f
  <2>1. QED BY <1>1, <1>5, <1>6, ManyBelow
<1>8. Cardinality(K) \in Nat
  BY <1>5, FS_CardinalityType
<1>9. Cardinality(K) = R * V
  BY <1>1, <1>5, <1>7, <1>8
<1>10. QED BY <1>1, <1>9 DEF Division
-----------------------------------------------------------------------------
(***************************************************************************)
(* Folds.                                                                  *)
(***************************************************************************)
\* What a fold of the library computes with, on the sets of at most m elements.
IsFold(it, m, S, base, pick, step) ==
  it = [s \in {s \in SUBSET S : Cardinality(s) <= m} |->
          IF s = {} THEN base ELSE step[<<pick[s], it[s \ {pick[s]}]>>]]

\* The fold over all the sets.
IsFullFold(it, S, V, base, pick, step) ==
  /\ it \in [SUBSET S -> V]
  /\ it = [s \in SUBSET S |-> IF s = {} THEN base ELSE step[<<pick[s], it[s \ {pick[s]}]>>]]

LEMMA FoldExists ==
  ASSUME NEW S, IsFiniteSet(S), NEW V, NEW base \in V, NEW step \in [S \X V -> V],
         NEW pick, \A s \in SUBSET S : s # {} => pick[s] \in s
  PROVE  \E it : IsFullFold(it, S, V, base, pick, step)
<1> DEFINE Upto(m) == {s \in SUBSET S : Cardinality(s) <= m}
           Has(m) == \E it \in [Upto(m) -> V] : IsFold(it, m, S, base, pick, step)
           T == {m \in Nat : ~Has(m)}
<1>1. ASSUME NEW s \in SUBSET S
      PROVE  /\ IsFiniteSet(s) /\ Cardinality(s) \in Nat
             /\ Cardinality(s) = 0 <=> s = {}
             /\ \A x \in s : s \ {x} \in SUBSET S /\ Cardinality(s \ {x}) = Cardinality(s) - 1
  <2>1. IsFiniteSet(s)
    BY FS_Subset
  <2>2. QED BY <2>1, FS_CardinalityType, FS_EmptySet, FS_RemoveElement
<1>2. T = {}
  <2> HIDE DEF Has
  <2>1. SUFFICES ASSUME T # {} PROVE FALSE
    OBVIOUS
  <2>2. PICK m \in T : \A y \in T : m <= y
    BY <2>1, LeastExists
  <2>3. CASE m = 0
    <3> DEFINE it == [s \in Upto(0) |-> base]
    <3>1. \A s \in Upto(0) : s = {}
      BY <1>1
    <3>2. it \in [Upto(0) -> V] /\ IsFold(it, 0, S, base, pick, step)
      BY <3>1 DEF IsFold
    <3>3. QED BY <2>2, <2>3, <3>2 DEF Has
  <2>4. CASE m # 0
    <3>1. m \in Nat /\ m - 1 \in Nat /\ ~(m <= m - 1)
      BY <2>4
    <3>2. Has(m - 1)
      BY <2>2, <3>1
    <3>3. PICK g \in [Upto(m - 1) -> V] : IsFold(g, m - 1, S, base, pick, step)
      BY <3>2 DEF Has
    <3> DEFINE h == [s \in Upto(m) |->
                      IF s = {} THEN base ELSE step[<<pick[s], g[s \ {pick[s]}]>>]]
    <3>4. ASSUME NEW s \in Upto(m), s # {}
          PROVE  /\ pick[s] \in S /\ s \ {pick[s]} \in Upto(m - 1) /\ s \ {pick[s]} \in Upto(m)
      BY <1>1, <3>1, <3>4
    <3>5. \A s \in Upto(m - 1) : h[s] = g[s]
      <4>1. \A s \in Upto(m - 1) : s \in Upto(m)
        BY <1>1, <3>1
      <4>2. \A s \in Upto(m - 1) :
              g[s] = IF s = {} THEN base ELSE step[<<pick[s], g[s \ {pick[s]}]>>]
        BY <3>3 DEF IsFold
      <4>3. QED BY <4>1, <4>2
    <3>6. h \in [Upto(m) -> V]
      <4>1. ASSUME NEW s \in Upto(m)
            PROVE  (IF s = {} THEN base ELSE step[<<pick[s], g[s \ {pick[s]}]>>]) \in V
        <5>1. CASE s = {}
          BY <5>1
        <5>2. CASE s # {}
          <6>1. pick[s] \in S /\ g[s \ {pick[s]}] \in V
            BY <3>3, <3>4, <5>2
          <6>2. QED BY <5>2, <6>1
        <5>3. QED BY <5>1, <5>2
      <4>2. QED BY <4>1
    <3>7. \A s \in Upto(m) :
            h[s] = IF s = {} THEN base ELSE step[<<pick[s], h[s \ {pick[s]}]>>]
      BY <3>4, <3>5
    <3>8. h = [s \in Upto(m) |-> h[s]]
      OBVIOUS
    <3> HIDE DEF h
    <3>9. h = [s \in Upto(m) |-> IF s = {} THEN base ELSE step[<<pick[s], h[s \ {pick[s]}]>>]]
      BY <3>7, <3>8
    <3>10. IsFold(h, m, S, base, pick, step)
      BY <3>9 DEF IsFold
    <3>11. QED BY <2>2, <3>6, <3>10 DEF Has
  <2>5. QED BY <2>3, <2>4
<1>3. Cardinality(S) \in Nat /\ \A s \in SUBSET S : Cardinality(s) <= Cardinality(S)
  BY FS_CardinalityType, FS_Subset
<1>4. PICK it \in [Upto(Cardinality(S)) -> V] : IsFold(it, Cardinality(S), S, base, pick, step)
  BY <1>2, <1>3
<1>5. Upto(Cardinality(S)) = SUBSET S
  BY <1>3
<1>6. it \in [SUBSET S -> V]
  BY <1>5
<1>7. it = [s \in SUBSET S |-> IF s = {} THEN base ELSE step[<<pick[s], it[s \ {pick[s]}]>>]]
  BY <1>4, <1>5 DEF IsFold
<1>8. QED BY <1>6, <1>7 DEF IsFullFold

-----------------------------------------------------------------------------
(***************************************************************************)
(* Credits.                                                                *)
(***************************************************************************)
LEMMA MinIs ==
  ASSUME NEW S \in SUBSET Nat, S # {}
  PROVE  Min(S) \in S
<1>1. \E x \in S : \A y \in S : x =< y
  BY LeastExists
<1>2. QED BY <1>1 DEF Min

LEMMA MaxIs ==
  ASSUME NEW n \in Nat, NEW S \in SUBSET (1..n), S # {}
  PROVE  Max(S) \in S
<1> DEFINE T == {n - x : x \in S}
<1>1. T \in SUBSET Nat /\ T # {}
  <2>1. \A x \in S : n - x \in Nat
    OBVIOUS
  <2>2. QED BY <2>1
<1> HIDE DEF T
<1>2. PICK t \in T : \A y \in T : t <= y
  BY <1>1, LeastExists
<1>3. PICK x \in S : t = n - x
  BY <1>2 DEF T
<1>4. \A y \in S : n - x <= n - y
  BY <1>2, <1>3 DEF T
<1>5. \A y \in S : x >= y
  <2>1. \A y \in S : y \in Int
    OBVIOUS
  <2>2. QED BY <1>4, <2>1
<1>6. QED BY <1>5 DEF Max

\* What finding k of f can still take when the others hold credit.
Open(credit, f, e, k) ==
  {l \in DOMAIN e : Matches(f[k], e[l]) /\ \A j \in 1..k-1 : credit[j] # l}

Credited(credit, f, e, k) ==
  IF Open(credit, f, e, k) = {} THEN credit[k] = 0
  ELSE credit[k] = Min(Open(credit, f, e, k))

LEMMA CreditSteps ==
  ASSUME NEW S, NEW f \in Seq(S), NEW e, DOMAIN e \in SUBSET (Nat \ {0})
  PROVE  \E c : /\ Credit(f, e) = c[Len(f)] /\ c[0] = <<>>
                /\ \A k \in 1..Len(f) : c[k] = Takes(c[k-1], f[k], e)
<1> DEFINE n == Len(f)
           D == 1..n
           Is(it) == it = [s \in SUBSET D |->
                            IF s = {} THEN <<>>
                            ELSE LET x == Max(s) IN Takes(it[s \ {x}], f[x], e)]
           J == CHOOSE it : Is(it)
<1>1. n \in Nat /\ DOMAIN f = D
  OBVIOUS
<1>2. IsFiniteSet(D)
  BY <1>1, FS_Interval
<1>3. \E it : Is(it)
  <2> DEFINE pick == [s \in SUBSET D |-> Max(s)]
             V == Seq(Nat)
             step == [p \in D \X V |-> Takes(p[2], f[p[1]], e)]
  <2>1. \A s \in SUBSET D : s # {} => pick[s] \in s
    BY <1>1, MaxIs
  <2>2. ASSUME NEW x \in D, NEW v \in V PROVE Takes(v, f[x], e) \in V
    <3> DEFINE o == {l \in DOMAIN e : Matches(f[x], e[l]) /\ l \notin Range(v)}
    <3>1. o # {} => Min(o) \in Nat
      BY MinIs
    <3>2. Takes(v, f[x], e) = IF o = {} THEN Append(v, 0) ELSE Append(v, Min(o))
      BY DEF Takes
    <3> HIDE DEF o
    <3>3. QED BY <3>1, <3>2
  <2>3. step \in [D \X V -> V]
    BY <2>2
  <2>4. <<>> \in V
    OBVIOUS
  <2> HIDE DEF V, pick, step, D
  <2>9. \E it : IsFullFold(it, D, V, <<>>, pick, step)
    BY <1>2, <2>1, <2>3, <2>4, FoldExists
  <2>5. PICK it \in [SUBSET D -> V] :
           it = [s \in SUBSET D |-> IF s = {} THEN <<>> ELSE step[<<pick[s], it[s \ {pick[s]}]>>]]
    BY <2>9 DEF IsFullFold
  <2>6. ASSUME NEW s \in SUBSET D, s # {}
        PROVE  step[<<pick[s], it[s \ {pick[s]}]>>] = Takes(it[s \ {Max(s)}], f[Max(s)], e)
    <3>1. pick[s] = Max(s) /\ pick[s] \in D /\ s \ {pick[s]} \in SUBSET D
      BY <2>1, <2>6 DEF pick
    <3>2. it[s \ {pick[s]}] \in V
      BY <3>1
    <3>3. QED BY <3>1, <3>2 DEF step
  <2>7. it = [s \in SUBSET D |-> IF s = {} THEN <<>> ELSE Takes(it[s \ {Max(s)}], f[Max(s)], e)]
    BY <2>5, <2>6
  <2>8. QED BY <2>7
<1>4. Is(J)
  <2> HIDE DEF Is
  <2>1. QED BY <1>3
<1>5. Credit(f, e) = J[D]
  BY <1>1 DEF Credit, FoldLeft, MapThenFoldSet
<1> HIDE DEF J
<1> DEFINE c == [k \in 0..n |-> J[1..k]]
<1>6. J[{}] = <<>>
  BY <1>4
<1>7. ASSUME NEW k \in 1..n PROVE J[1..k] = Takes(J[1..k-1], f[k], e)
  <2>1. 1..k \in SUBSET D /\ 1..k # {} /\ (1..k) \ {k} = 1..k-1
    <3>1. k \in Nat /\ k <= n /\ k \in 1..k /\ n \in Nat
      BY <1>1
    <3>2. \A x \in 1..k : x \in 1..n
      BY <3>1
    <3>3. \A x : x \in 1..k /\ x # k <=> x \in 1..k-1
      BY <3>1
    <3>4. QED BY <3>1, <3>2, <3>3
  <2>2. Max(1..k) = k
    <3>1. k \in 1..k /\ \A y \in 1..k : k >= y
      BY <1>1
    <3>2. \A x \in 1..k : (\A y \in 1..k : x >= y) => x = k
      BY <1>1, <3>1
    <3>3. QED BY <3>1, <3>2 DEF Max
  <2>3. QED BY <1>4, <2>1, <2>2
<1>8. c[0] = <<>> /\ c[n] = J[D]
  <2>1. 1..0 = {} /\ 0 \in 0..n /\ n \in 0..n
    BY <1>1
  <2>2. QED BY <1>6, <2>1
<1>9. \A k \in 1..n : c[k] = J[1..k] /\ c[k-1] = J[1..k-1]
  BY <1>1
<1> HIDE DEF c
<1>10. QED BY <1>5, <1>7, <1>8, <1>9

\* metrics.py:361: each finding takes the first label that is open to it.
LEMMA CreditRule ==
  ASSUME NEW S, NEW f \in Seq(S), NEW e, DOMAIN e \in SUBSET (Nat \ {0})
  PROVE  /\ Credit(f, e) \in [1..Len(f) -> Nat]
         /\ \A k \in 1..Len(f) : Credited(Credit(f, e), f, e, k)
<1> DEFINE n == Len(f)
<1>1. n \in Nat
  OBVIOUS
<1>2. PICK c : /\ Credit(f, e) = c[n] /\ c[0] = <<>>
               /\ \A k \in 1..n : c[k] = Takes(c[k-1], f[k], e)
  BY CreditSteps
<1> DEFINE Good(m) == c[m] \in [1..m -> Nat] /\ \A k \in 1..m : Credited(c[m], f, e, k)
           T == {m \in 0..n : ~Good(m)}
<1>3. T = {}
  <2> HIDE DEF Good
  <2>1. SUFFICES ASSUME T # {} PROVE FALSE
    OBVIOUS
  <2>2. PICK m \in T : \A y \in T : m <= y
    <3>1. T \in SUBSET Nat
      BY <1>1
    <3> HIDE DEF T
    <3>2. QED BY <2>1, <3>1, LeastExists
  <2>3. CASE m = 0
    <3>1. c[0] \in [1..0 -> Nat]
      BY <1>2
    <3>2. Good(0)
      BY <3>1 DEF Good
    <3>3. QED BY <2>2, <2>3, <3>2
  <2>4. CASE m # 0
    <3>1. m \in 1..n /\ m - 1 \in 0..n /\ ~(m <= m - 1)
      BY <1>1, <2>2, <2>4
    <3>2. Good(m - 1)
      BY <2>2, <3>1
    <3> DEFINE v == c[m - 1]
               o == {l \in DOMAIN e : Matches(f[m], e[l]) /\ l \notin Range(v)}
               x == IF o = {} THEN 0 ELSE Min(o)
    <3>3. v \in [1..m-1 -> Nat] /\ \A k \in 1..m-1 : Credited(v, f, e, k)
      BY <3>2 DEF Good
    <3>4. c[m] = Append(v, x)
      BY <1>2, <3>1 DEF Takes
    <3>5. x \in Nat
      <4>1. o \in SUBSET Nat
        OBVIOUS
      <4> HIDE DEF o
      <4>2. QED BY <4>1, MinIs
    <3> HIDE DEF x
    <3>6. m - 1 \in Nat /\ v \in Seq(Nat) /\ Len(v) = m - 1
      BY <1>1, <3>1, <3>3
    <3> HIDE DEF v
    <3>7. /\ c[m] \in [1..m -> Nat] /\ c[m][m] = x
          /\ \A j \in 1..m-1 : c[m][j] = v[j]
      <4>1. /\ Append(v, x) \in Seq(Nat) /\ Len(Append(v, x)) = m
            /\ Append(v, x)[m] = x /\ \A j \in 1..m-1 : Append(v, x)[j] = v[j]
        BY <3>5, <3>6
      <4>2. Append(v, x) \in [1..m -> Nat]
        <5> DEFINE w == Append(v, x)
        <5>1. w \in Seq(Nat) /\ Len(w) = m
          BY <4>1
        <5> HIDE DEF w
        <5>2. w \in [1..m -> Nat]
          BY <5>1
        <5>3. QED BY <5>2 DEF w
      <4>3. QED BY <3>4, <4>1, <4>2
    <3>8. ASSUME NEW k \in 1..m PROVE Credited(c[m], f, e, k)
      <4>1. CASE k = m
        <5>1. Range(v) = {v[j] : j \in 1..m-1}
          BY <3>3 DEF Range
        <5>2. o = Open(c[m], f, e, m)
          BY <3>7, <5>1 DEF Open
        <5> HIDE DEF o
        <5>3. QED BY <3>7, <4>1, <5>2 DEF Credited, x
      <4>2. CASE k # m
        <5>1. k \in 1..m-1 /\ \A j \in 1..k-1 : j \in 1..m-1
          BY <1>1, <3>1, <4>2
        <5>2. Credited(v, f, e, k) /\ c[m][k] = v[k] /\ \A j \in 1..k-1 : c[m][j] = v[j]
          BY <3>3, <3>7, <5>1
        <5>3. Open(c[m], f, e, k) = Open(v, f, e, k)
          BY <5>2 DEF Open
        <5>4. QED BY <5>2, <5>3 DEF Credited
      <4>3. QED BY <4>1, <4>2
    <3>9. QED BY <2>2, <3>7, <3>8 DEF Good
  <2>5. QED BY <2>3, <2>4
<1>4. n \in 0..n
  BY <1>1
<1> HIDE DEF T
<1>5. Good(n)
  BY <1>3, <1>4 DEF T
<1>6. QED BY <1>2, <1>5

\* A label is credited once, to a finding that matches it, and what is left
\* over on either side does not match.
FairCredit(c, f, e, n) ==
  /\ \A k, l \in 1..n : k # l /\ c[k] = c[l] => c[k] = 0
  /\ \A k \in 1..n : c[k] # 0 => c[k] \in DOMAIN e /\ Matches(f[k], e[c[k]])
  /\ \A k \in 1..n, l \in DOMAIN e :
       Matches(f[k], e[l]) => c[k] # 0 \/ \E j \in 1..n : c[j] = l

LEMMA CreditedOnce ==
  ASSUME NEW n \in Nat, NEW f, NEW e, DOMAIN e \in SUBSET (Nat \ {0}),
         NEW c \in [1..n -> Nat], \A k \in 1..n : Credited(c, f, e, k)
  PROVE  FairCredit(c, f, e, n)
<1>1. ASSUME NEW k \in 1..n, c[k] # 0
      PROVE  c[k] \in Open(c, f, e, k)
  <2>1. Open(c, f, e, k) # {} /\ c[k] = Min(Open(c, f, e, k))
    BY <1>1 DEF Credited
  <2>2. Open(c, f, e, k) \in SUBSET Nat
    BY DEF Open
  <2>3. QED BY <2>1, <2>2, MinIs
<1>2. ASSUME NEW k \in 1..n, NEW l \in 1..n, k < l, c[k] = c[l] PROVE c[k] = 0
  <2> SUFFICES ASSUME c[l] # 0 PROVE FALSE
    BY <1>2
  <2>1. c[l] \in Open(c, f, e, l)
    BY <1>1
  <2>2. k \in 1..l-1
    BY <1>2
  <2>3. QED BY <1>2, <2>1, <2>2 DEF Open
<1>3. \A k, l \in 1..n : k # l /\ c[k] = c[l] => c[k] = 0
  <2>1. ASSUME NEW k \in 1..n, NEW l \in 1..n, k # l, c[k] = c[l] PROVE c[k] = 0
    <3>1. k < l \/ l < k
      BY <2>1
    <3>2. QED BY <1>2, <2>1, <3>1
  <2>2. QED BY <2>1
<1>4. ASSUME NEW k \in 1..n, NEW l \in DOMAIN e, Matches(f[k], e[l]), c[k] = 0
      PROVE  \E j \in 1..n : c[j] = l
  <2>1. Open(c, f, e, k) = {}
    <3> SUFFICES ASSUME Open(c, f, e, k) # {} PROVE FALSE
      OBVIOUS
    <3>1. Open(c, f, e, k) \in SUBSET (Nat \ {0}) /\ Open(c, f, e, k) \in SUBSET Nat
      BY DEF Open
    <3>2. Min(Open(c, f, e, k)) \in Open(c, f, e, k)
      BY <3>1, MinIs
    <3>3. c[k] = Min(Open(c, f, e, k))
      BY DEF Credited
    <3>4. QED BY <1>4, <3>1, <3>2, <3>3
  <2>2. PICK j \in 1..k-1 : c[j] = l
    BY <1>4, <2>1 DEF Open
  <2>3. j \in 1..n
    OBVIOUS
  <2>4. QED BY <2>2, <2>3
<1>5. \A k \in 1..n : c[k] # 0 => c[k] \in DOMAIN e /\ Matches(f[k], e[c[k]])
  BY <1>1 DEF Open
<1>6. QED BY <1>3, <1>4, <1>5 DEF FairCredit

\* metrics.py:357: in two orders of the findings, the hits of one are at most
\* twice those of the other.
Hits(c, n) == Cardinality({k \in 1..n : c[k] # 0})

LEMMA OrderMattersTwofold ==
  ASSUME NEW n \in Nat, NEW f, NEW g, Len(f) = n, Len(g) = n,
         NEW e, DOMAIN e \in SUBSET (Nat \ {0}),
         NEW p, p \in Bijection(1..n, 1..n), \A k \in 1..n : g[k] = f[p[k]],
         NEW c \in [1..n -> Nat], \A k \in 1..n : Credited(c, f, e, k),
         NEW d \in [1..n -> Nat], \A k \in 1..n : Credited(d, g, e, k)
  PROVE  Hits(c, n) <= 2 * Hits(d, n)
<1> DEFINE A == {k \in 1..n : c[k] # 0}
           B == {k \in 1..n : d[k] # 0}
<1>1. /\ \A k, l \in 1..n : k # l /\ c[k] = c[l] => c[k] = 0
      /\ \A k \in 1..n : c[k] # 0 => c[k] \in DOMAIN e /\ Matches(f[k], e[c[k]])
  <2>1. FairCredit(c, f, e, n)
    BY CreditedOnce
  <2>2. QED BY <2>1 DEF FairCredit
<1>2. \A k \in 1..n, l \in DOMAIN e :
        Matches(g[k], e[l]) => d[k] # 0 \/ \E j \in 1..n : d[j] = l
  <2>1. FairCredit(d, g, e, n)
    BY CreditedOnce
  <2>2. QED BY <2>1 DEF FairCredit
<1>3. ASSUME NEW k \in 1..n PROVE \E j \in 1..n : p[j] = k
  BY DEF Bijection, Surjection
<1> DEFINE at == [k \in 1..n |-> CHOOSE j \in 1..n : p[j] = k]
           by == [k \in 1..n |-> CHOOSE j \in 1..n : d[j] = c[k]]
           m == [k \in A |-> IF d[at[k]] # 0 THEN <<at[k], 0>> ELSE <<by[k], 1>>]
<1>4. \A k \in 1..n : at[k] \in 1..n /\ p[at[k]] = k
  BY <1>3
<1>5. ASSUME NEW k \in A, d[at[k]] = 0 PROVE by[k] \in B /\ d[by[k]] = c[k]
  <2>1. c[k] \in DOMAIN e /\ Matches(f[k], e[c[k]]) /\ c[k] # 0
    BY <1>1
  <2> HIDE DEF at
  <2>2. g[at[k]] = f[k] /\ at[k] \in 1..n
    BY <1>4
  <2>3. \E j \in 1..n : d[j] = c[k]
    BY <1>2, <1>5, <2>1, <2>2
  <2>4. by[k] \in 1..n /\ d[by[k]] = c[k]
    BY <2>3
  <2>5. QED BY <2>1, <2>4
<1> HIDE DEF at, by
<1>6. m \in [A -> B \X {0, 1}]
  <2>1. ASSUME NEW k \in A PROVE m[k] \in B \X {0, 1}
    <3>1. CASE d[at[k]] # 0
      <4>1. at[k] \in B
        BY <1>4, <3>1
      <4>2. QED BY <3>1, <4>1
    <3>2. CASE d[at[k]] = 0
      BY <1>5, <3>2
    <3>3. QED BY <3>1, <3>2
  <2>2. QED BY <2>1
<1>7. ASSUME NEW k \in A, NEW l \in A, m[k] = m[l] PROVE k = l
  <2>1. CASE d[at[k]] # 0 /\ d[at[l]] # 0
    <3>1. at[k] = at[l]
      BY <1>7, <2>1
    <3>2. p[at[k]] = k /\ p[at[l]] = l
      BY <1>4
    <3>3. QED BY <3>1, <3>2
  <2>2. CASE d[at[k]] = 0 /\ d[at[l]] = 0
    <3>1. by[k] = by[l]
      BY <1>7, <2>2
    <3>2. c[k] = c[l]
      BY <1>5, <2>2, <3>1
    <3>3. QED BY <1>1, <3>2
  <2>3. QED BY <1>7, <2>1, <2>2
<1>8. m \in Injection(A, B \X {0, 1})
  <2> HIDE DEF m
  <2>1. QED BY <1>6, <1>7 DEF Injection, IsInjective
<1>9. IsFiniteSet(1..n) /\ A \subseteq 1..n /\ B \subseteq 1..n
  BY FS_Interval
<1> HIDE DEF A, B, m
<1>10. IsFiniteSet(A) /\ IsFiniteSet(B) /\ Cardinality(A) \in Nat /\ Cardinality(B) \in Nat
  BY <1>9, FS_Subset, FS_CardinalityType
<1>11. IsFiniteSet({0, 1}) /\ Cardinality({0, 1}) = 2
  <2>1. IsFiniteSet(0..1) /\ Cardinality(0..1) = 2
    <3>1. 0 \in Int /\ 1 \in Int
      OBVIOUS
    <3>2. IsFiniteSet(0..1) /\ Cardinality(0..1) = IF 0 > 1 THEN 0 ELSE 1 - 0 + 1
      BY <3>1, FS_Interval
    <3>3. QED BY <3>2
  <2>2. 0..1 = {0, 1}
    OBVIOUS
  <2>3. QED BY <2>1, <2>2, Zenon
<1>12. IsFiniteSet(B \X {0, 1}) /\ Cardinality(B \X {0, 1}) = Cardinality(B) * 2
  <2> DEFINE T == {0, 1}
  <2> HIDE DEF T
  <2>1. IsFiniteSet(T) /\ Cardinality(T) = 2
    BY <1>11 DEF T
  <2>2. IsFiniteSet(B \X T) /\ Cardinality(B \X T) = Cardinality(B) * Cardinality(T)
    BY <1>10, <2>1, FS_Product
  <2>3. QED BY <2>1, <2>2 DEF T
<1>13. Cardinality(A) <= Cardinality(B \X {0, 1})
  BY <1>8, <1>12, FS_Injection
<1>14. Cardinality(A) <= 2 * Cardinality(B)
  BY <1>10, <1>12, <1>13
<1>15. QED BY <1>14 DEF A, B, Hits

-----------------------------------------------------------------------------
(***************************************************************************)
(* The queue of a sweep.                                                   *)
(***************************************************************************)
DepthOf(all, limit, a) ==
  IF limit = None THEN 0 ELSE Cardinality({b \in all : Kind[b] = Kind[a] /\ b < a})

QueueOrder(all, limit) ==
  {p \in all \X all :
     \/ DepthOf(all, limit, p[1]) < DepthOf(all, limit, p[2])
     \/ /\ DepthOf(all, limit, p[1]) = DepthOf(all, limit, p[2])
        /\ \/ KindOrder(p[1]) < KindOrder(p[2])
           \/ KindOrder(p[1]) = KindOrder(p[2]) /\ p[1] < p[2]}

OfKind(S, a) == {b \in S : Kind[b] = Kind[a]}

\* run_eval.py:52: no kind has two articles more than one that was cut short.
Mixed(chosen, all) ==
  \A a \in chosen, b \in all \ chosen :
    Cardinality(OfKind(chosen, a)) <= Cardinality(OfKind(chosen, b)) + 1

LEMMA KindOrderType ==
  ASSUME NEW a \in Articles
  PROVE  KindOrder(a) \in 1..4
<1>1. DOMAIN Kinds = 1..4
  BY DEF Kinds
<1>2. \E k \in 1..4 : Kinds[k] = Kind[a]
  <2>1. /\ Kinds[1] = "borderline" /\ Kinds[2] = "loaded"
        /\ Kinds[3] = "neutral" /\ Kinds[4] = "quoted_speech"
    BY DEF Kinds
  <2>2. 1 \in 1..4 /\ 2 \in 1..4 /\ 3 \in 1..4 /\ 4 \in 1..4
    OBVIOUS
  <2>3. QED BY <2>1, <2>2, ArticlesAssumption
<1>3. QED BY <1>1, <1>2 DEF KindOrder

LEMMA ArticlesFinite ==
  ASSUME NEW S \in SUBSET Articles
  PROVE  IsFiniteSet(S) /\ Cardinality(S) \in Nat
<1>1. IsFiniteSet(S)
  BY FS_Subset, ArticlesAssumption
<1>2. QED BY <1>1, FS_CardinalityType

LEMMA DepthType ==
  ASSUME NEW all \in SUBSET Articles, NEW limit, NEW a
  PROVE  DepthOf(all, limit, a) \in Nat
<1> DEFINE above == {b \in all : Kind[b] = Kind[a] /\ b < a}
<1>1. above \in SUBSET Articles
  OBVIOUS
<1> HIDE DEF above
<1>2. Cardinality(above) \in Nat
  BY <1>1, ArticlesFinite
<1>3. QED BY <1>2 DEF DepthOf, above

LEMMA QueueOrderTotal ==
  ASSUME NEW all \in SUBSET Articles, NEW limit
  PROVE  StrictTotal(QueueOrder(all, limit), all)
<1> DEFINE d(a) == DepthOf(all, limit, a)
           R == QueueOrder(all, limit)
<1>1. \A a \in all : d(a) \in Nat /\ KindOrder(a) \in Nat /\ a \in Nat
  BY DepthType, KindOrderType, ArticlesAssumption
<1>2. \A a, b \in all : <<a, b>> \in R <=>
        \/ d(a) < d(b)
        \/ d(a) = d(b) /\ (KindOrder(a) < KindOrder(b) \/ (KindOrder(a) = KindOrder(b) /\ a < b))
  BY DEF QueueOrder
<1> HIDE DEF d, R
<1>3. \A a \in all : <<a, a>> \notin R
  BY <1>1, <1>2
<1>4. \A a, b, c \in all : <<a, b>> \in R /\ <<b, c>> \in R => <<a, c>> \in R
  BY <1>1, <1>2
<1>5. ASSUME NEW a \in all, NEW b \in all, <<a, b>> \notin R, <<b, a>> \notin R PROVE a = b
  <2>1. /\ d(a) \in Nat /\ KindOrder(a) \in Nat /\ a \in Nat
        /\ d(b) \in Nat /\ KindOrder(b) \in Nat /\ b \in Nat
    BY <1>1
  <2>2. d(a) = d(b)
    BY <1>2, <1>5, <2>1
  <2>3. KindOrder(a) = KindOrder(b)
    BY <1>2, <1>5, <2>1, <2>2
  <2>4. QED BY <1>2, <1>5, <2>1, <2>2, <2>3
<1>6. QED BY <1>3, <1>4, <1>5 DEF StrictTotal, R

LEMMA HeadsAreMixed ==
  ASSUME NEW all \in SUBSET Articles, NEW limit \in Nat, NEW q,
         Heads(q, all, QueueOrder(all, limit), limit)
  PROVE  Mixed(ToSet(q), all)
<1> DEFINE chosen == ToSet(q)
           d(a) == DepthOf(all, limit, a)
<1>1. chosen \subseteq all
  BY DEF Heads, ToSet
<1>2. \A a \in chosen, b \in all \ chosen : <<a, b>> \in QueueOrder(all, limit)
  BY DEF Heads
<1> HIDE DEF chosen
<1>3. \A a \in all : d(a) \in Nat /\ a \in Nat
  BY DepthType, ArticlesAssumption
<1>4. ASSUME NEW a \in chosen, NEW b \in all \ chosen PROVE d(a) <= d(b)
  <2>1. <<a, b>> \in QueueOrder(all, limit) /\ d(a) \in Nat /\ d(b) \in Nat
    BY <1>1, <1>2, <1>3
  <2>2. d(a) < d(b) \/ d(a) = d(b)
    BY <2>1 DEF QueueOrder
  <2> HIDE DEF d
  <2>3. QED BY <2>1, <2>2
<1> SUFFICES ASSUME NEW a \in chosen, NEW b \in all \ chosen
             PROVE  Cardinality(OfKind(chosen, a)) <= Cardinality(OfKind(chosen, b)) + 1
  BY DEF Mixed, chosen
<1> DEFINE left == {y \in all \ chosen : Kind[y] = Kind[b]}
<1>5. PICK z \in left : \A y \in left : z <= y
  <2>1. left \in SUBSET Nat /\ left # {}
    BY ArticlesAssumption
  <2> HIDE DEF left
  <2>2. QED BY <2>1, LeastExists
<1>6. z \in all \ chosen /\ Kind[z] = Kind[b] /\ d(z) \in Nat
  BY <1>3, <1>5
<1>7. Cardinality(OfKind(chosen, a)) <= d(z) + 1
  <2> DEFINE K == OfKind(chosen, a)
             r == [x \in K |-> d(x)]
  <2>1. r \in [K -> 0..(d(z) + 1) - 1]
    <3>1. \A x \in K : d(x) \in 0..(d(z) + 1) - 1
      <4>1. \A x \in K : x \in chosen /\ x \in all
        BY <1>1 DEF OfKind
      <4> HIDE DEF K, d
      <4>2. QED BY <1>3, <1>4, <1>6, <4>1
    <3> HIDE DEF K, d
    <3>2. QED BY <3>1
  <2>2. ASSUME NEW x \in K, NEW y \in K, x < y PROVE d(x) < d(y)
    <3> DEFINE bx == {v \in all : Kind[v] = Kind[x] /\ v < x}
               by == {v \in all : Kind[v] = Kind[y] /\ v < y}
    <3>1. x \in all /\ y \in all /\ Kind[x] = Kind[y] /\ x \in Nat /\ y \in Nat
      BY <1>1, <1>3 DEF OfKind
    <3>2. bx \subseteq by /\ x \in by /\ x \notin bx
      <4>1. \A v \in all : v \in Nat
        BY <1>3
      <4>2. \A v \in all : v < x => v < y
        BY <2>2, <3>1, <4>1
      <4>3. x < y /\ ~(x < x)
        BY <2>2, <3>1
      <4>4. QED BY <3>1, <4>2, <4>3
    <3>3. d(x) = Cardinality(bx) /\ d(y) = Cardinality(by)
      BY LimitsAssumption DEF DepthOf
    <3>4. bx \in SUBSET Articles /\ by \in SUBSET Articles
      OBVIOUS
    <3> HIDE DEF bx, by, d
    <3>5. IsFiniteSet(by) /\ Cardinality(bx) \in Nat /\ Cardinality(by) \in Nat
      BY <3>4, ArticlesFinite
    <3>6. Cardinality(bx) <= Cardinality(by) /\ Cardinality(bx) # Cardinality(by)
      BY <3>2, <3>5, FS_Subset
    <3>7. QED BY <3>3, <3>5, <3>6
  <2>3. \A x, y \in K : r[x] = r[y] => x = y
    <3>1. \A x \in K : x \in Nat /\ d(x) \in Nat
      BY <1>1, <1>3 DEF OfKind
    <3> HIDE DEF K, d
    <3>2. QED BY <2>2, <3>1
  <2>4. d(z) + 1 \in Nat
    BY <1>6
  <2> HIDE DEF r, K, d
  <2>5. Cardinality(K) <= d(z) + 1
    BY <2>1, <2>3, <2>4, FewBelow
  <2>6. QED BY <2>5 DEF K
<1>8. d(z) <= Cardinality(OfKind(chosen, b))
  <2> DEFINE bz == {v \in all : Kind[v] = Kind[z] /\ v < z}
  <2>1. d(z) = Cardinality(bz)
    BY LimitsAssumption DEF DepthOf
  <2>2. bz \subseteq OfKind(chosen, b)
    <3> SUFFICES ASSUME NEW v \in bz PROVE v \in OfKind(chosen, b)
      OBVIOUS
    <3>1. v \in all /\ Kind[v] = Kind[b] /\ v \in Nat /\ z \in Nat /\ v < z
      BY <1>3, <1>6
    <3>2. v \notin left
      BY <1>5, <3>1
    <3>3. QED BY <3>1, <3>2 DEF OfKind
  <2>3. OfKind(chosen, b) \in SUBSET Articles
    BY <1>1 DEF OfKind
  <2> HIDE DEF bz, d
  <2>4. QED BY <2>1, <2>2, <2>3, ArticlesFinite, FS_Subset
<1>9. Cardinality(OfKind(chosen, a)) \in Nat /\ Cardinality(OfKind(chosen, b)) \in Nat
  <2>1. OfKind(chosen, a) \in SUBSET Articles /\ OfKind(chosen, b) \in SUBSET Articles
    BY <1>1 DEF OfKind
  <2>2. QED BY <2>1, ArticlesFinite
<1> HIDE DEF d
<1>10. QED BY <1>6, <1>7, <1>8, <1>9

Chosen(q, split, limit) ==
  LET all == {a \in Articles : gold[a] = split}
  IN /\ q \in Seq(all)
     /\ \A j, k \in DOMAIN q : q[j] = q[k] => j = k
     /\ Len(q) = IF limit = None \/ Cardinality(all) <= limit THEN Cardinality(all) ELSE limit
     /\ Mixed(ToSet(q), all)

LEMMA LoadGoldFacts ==
  ASSUME NEW split, NEW limit \in Nat \cup {None}
  PROVE  Chosen(LoadGold(split, limit), split, limit)
<1> DEFINE all == {a \in Articles : gold[a] = split}
           q == LoadGold(split, limit)
           R == QueueOrder(all, limit)
<1>1. q = Prefix(InOrder(all, R), limit)
  BY DEF LoadGold, QueueOrder, DepthOf
<1>2. all \in SUBSET Articles
  OBVIOUS
<1> HIDE DEF all, q
<1>3. Heads(q, all, R, limit)
  <2>1. StrictTotal(R, all) /\ IsFiniteSet(all)
    BY <1>2, QueueOrderTotal, ArticlesFinite
  <2> HIDE DEF R
  <2>2. QED BY <1>1, <2>1, PrefixHeads
<1>4. Mixed(ToSet(q), all)
  <2>1. CASE limit = None
    <3>1. ToSet(q) = all
      BY <1>3, <2>1 DEF Heads
    <3>2. QED BY <3>1 DEF Mixed
  <2>2. CASE limit \in Nat
    BY <1>2, <1>3, <2>2, HeadsAreMixed
  <2>3. QED BY <2>1, <2>2
<1>5. QED BY <1>3, <1>4 DEF Heads, Chosen, all, q
-----------------------------------------------------------------------------
(***************************************************************************)
(* The sample.                                                             *)
(***************************************************************************)
Cell(S, a) == {b \in S : SameCell(a, b)}

RankOrder(E, rank) == {p \in E \X E : Earlier(p[1], p[2], rank)}

LEMMA RankOrderTotal ==
  ASSUME NEW E \in SUBSET Articles, NEW rank \in [E -> Nat], NEW F \in SUBSET E
  PROVE  StrictTotal(RankOrder(E, rank), F)
<1> DEFINE R == RankOrder(E, rank)
<1>1. \A a \in F : rank[a] \in Nat /\ Portal[a] \in Int /\ a \in Nat
  BY ArticlesAssumption
<1>2. \A a, b \in F : <<a, b>> \in R <=>
        \/ rank[a] < rank[b]
        \/ rank[a] = rank[b] /\ (Portal[a] < Portal[b] \/ (Portal[a] = Portal[b] /\ a < b))
  BY DEF RankOrder, Earlier
<1> HIDE DEF R
<1>3. \A a \in F : <<a, a>> \notin R
  BY <1>1, <1>2
<1>4. \A a, b, c \in F : <<a, b>> \in R /\ <<b, c>> \in R => <<a, c>> \in R
  BY <1>1, <1>2
<1>5. ASSUME NEW a \in F, NEW b \in F, <<a, b>> \notin R, <<b, a>> \notin R PROVE a = b
  <2>1. /\ rank[a] \in Nat /\ Portal[a] \in Int /\ a \in Nat
        /\ rank[b] \in Nat /\ Portal[b] \in Int /\ b \in Nat
    BY <1>1
  <2>2. rank[a] = rank[b]
    BY <1>2, <1>5, <2>1
  <2>3. Portal[a] = Portal[b]
    BY <1>2, <1>5, <2>1, <2>2
  <2>4. QED BY <1>2, <1>5, <2>1, <2>2, <2>3
<1>6. QED BY <1>3, <1>4, <1>5 DEF StrictTotal, R

\* No two articles of a cell have the same rank.
LEMMA RanksOfACell ==
  ASSUME NEW E \in SUBSET Articles, NEW rank \in CellRanks(E), NEW a \in E
  PROVE  /\ rank \in [E -> Nat]
         /\ \A x \in Cell(E, a) : rank[x] \in 1..Cardinality(Cell(E, a))
         /\ \A n \in 1..Cardinality(Cell(E, a)) : \E x \in Cell(E, a) : rank[x] = n
         /\ \A x, y \in Cell(E, a) : rank[x] = rank[y] => x = y
<1> DEFINE cell == Cell(E, a)
           n == Cardinality(cell)
           r == [x \in cell |-> rank[x]]
<1>1. rank \in [E -> 1..Cardinality(E)] /\ {rank[b] : b \in cell} = 1..n
  BY DEF CellRanks, Cell
<1>2. cell \in SUBSET E /\ cell \in SUBSET Articles
  BY DEF Cell
<1>3. IsFiniteSet(cell) /\ n \in Nat /\ Cardinality(E) \in Nat
  BY <1>2, ArticlesFinite
<1>4. rank \in [E -> Nat]
  BY <1>1, <1>3
<1> HIDE DEF cell, n
<1>5. r \in Surjection(cell, 1..n)
  BY <1>1 DEF Surjection
<1>6. Cardinality(cell) = Cardinality(1..n)
  <2>1. 1 \in Int /\ n \in Int
    BY <1>3
  <2>2. Cardinality(1..n) = n
    BY <1>3, <2>1, FS_Interval
  <2>3. QED BY <2>2 DEF n
<1>7. r \in Injection(cell, 1..n)
  <2> HIDE DEF r
  <2>1. QED BY <1>3, <1>5, <1>6, FS_SurjSameCardinalityImpliesInj
<1>8. \A x, y \in cell : rank[x] = rank[y] => x = y
  BY <1>7 DEF Injection, IsInjective
<1>9. QED BY <1>1, <1>4, <1>8 DEF cell, n

LEMMA StratumIsSpread ==
  ASSUME NEW E \in SUBSET Articles, NEW rank \in CellRanks(E), NEW flagged, NEW cap, NEW t,
         Heads(t, {a \in E : Flagged[a] = flagged}, RankOrder(E, rank), cap),
         NEW a \in ToSet(t), NEW b \in {x \in E : Flagged[x] = flagged} \ ToSet(t)
  PROVE  Cardinality(Cell(ToSet(t), a)) <= Cardinality(Cell(ToSet(t), b)) + 1
<1> DEFINE F == {x \in E : Flagged[x] = flagged}
           chosen == ToSet(t)
           left == {y \in F \ chosen : SameCell(b, y)}
           ranks == {rank[y] : y \in left}
<1>1. chosen \subseteq F /\ \A x \in chosen, y \in F \ chosen : <<x, y>> \in RankOrder(E, rank)
  BY DEF Heads, ToSet
<1>2. a \in chosen /\ b \in F \ chosen /\ a \in E /\ b \in E
  BY <1>1
<1> HIDE DEF chosen
<1>3. rank \in [E -> Nat]
  BY <1>2, RanksOfACell
<1>4. PICK n \in ranks : \A m \in ranks : n <= m
  <2>1. ranks \in SUBSET Nat
    BY <1>3
  <2>2. b \in left
    BY <1>2 DEF SameCell
  <2>3. ranks # {}
    BY <2>2
  <2> HIDE DEF ranks
  <2>4. QED BY <2>1, <2>3, LeastExists
<1>5. PICK z \in left : rank[z] = n
  BY <1>4
<1>6. \A y \in left : rank[z] <= rank[y]
  BY <1>4, <1>5
<1>7. z \in Cell(E, b) /\ z \in F \ chosen /\ n \in 1..Cardinality(Cell(E, b))
  <2>1. z \in Cell(E, b) /\ z \in F \ chosen
    BY <1>5 DEF Cell
  <2>2. QED BY <1>2, <1>5, <2>1, RanksOfACell
<1>8. n \in Nat /\ n - 1 \in Nat /\ Cardinality(Cell(E, b)) \in Nat
  <2>1. Cell(E, b) \in SUBSET Articles
    BY DEF Cell
  <2>2. Cardinality(Cell(E, b)) \in Nat
    BY <2>1, ArticlesFinite
  <2>3. QED BY <1>7, <2>2
<1> DEFINE r == [x \in E |-> rank[x] - 1]
<1>9. Cardinality(Cell(chosen, a)) <= n
  <2> DEFINE K == Cell(chosen, a)
             s == [x \in K |-> r[x]]
  <2>1. \A x \in K : x \in Cell(E, a) /\ x \in E /\ x \in chosen
    BY <1>1 DEF Cell
  <2>2. ASSUME NEW x \in K PROVE rank[x] \in Nat /\ 1 <= rank[x] /\ rank[x] <= n
    <3>1. <<x, z>> \in RankOrder(E, rank) /\ x \in E /\ z \in E
      BY <1>1, <1>7, <2>1
    <3>2. rank[x] < rank[z] \/ rank[x] = rank[z]
      BY <3>1 DEF RankOrder, Earlier
    <3>3. rank[x] \in 1..Cardinality(Cell(E, a)) /\ rank[x] \in Nat
      BY <1>2, <1>3, <2>1, RanksOfACell
    <3>4. QED BY <1>5, <1>8, <3>2, <3>3
  <2>3. s \in [K -> 0..n-1]
    <3>1. \A x \in K : r[x] = rank[x] - 1
      BY <2>1
    <3> HIDE DEF K, r
    <3>2. \A x \in K : r[x] \in 0..n-1
      BY <1>8, <2>2, <3>1
    <3>3. QED BY <3>2
  <2>4. ASSUME NEW x \in K, NEW y \in K, s[x] = s[y] PROVE x = y
    <3>1. rank[x] - 1 = rank[y] - 1
      BY <2>1, <2>4
    <3>2. rank[x] \in Nat /\ rank[y] \in Nat
      BY <2>2
    <3>3. rank[x] = rank[y]
      BY <3>1, <3>2
    <3>4. QED BY <1>2, <2>1, <3>3, RanksOfACell
  <2> HIDE DEF s, K
  <2>5. Cardinality(K) <= n
    BY <1>8, <2>3, <2>4, FewBelow
  <2>6. QED BY <2>5 DEF K
<1>10. n - 1 <= Cardinality(Cell(chosen, b))
  <2> DEFINE K == Cell(chosen, b)
  <2>1. ASSUME NEW i \in 0..(n-1)-1 PROVE \E x \in K : r[x] = i
    <3>1. i + 1 \in 1..Cardinality(Cell(E, b)) /\ i + 1 < n
      BY <1>7, <1>8
    <3>2. PICK x \in Cell(E, b) : rank[x] = i + 1
      BY <1>2, <3>1, RanksOfACell
    <3>3. x \in E /\ SameCell(b, x) /\ x \in F
      BY <1>2, <3>2 DEF Cell, SameCell
    <3>4. x \notin left
      BY <1>5, <1>6, <1>8, <3>1, <3>2
    <3>5. x \in K
      BY <3>3, <3>4 DEF Cell
    <3>6. r[x] = i
      BY <3>2, <3>3
    <3>7. QED BY <3>5, <3>6
  <2>2. IsFiniteSet(K)
    <3>1. K \in SUBSET Articles
      BY <1>1 DEF Cell
    <3>2. QED BY <3>1, ArticlesFinite
  <2> HIDE DEF r, K
  <2>3. n - 1 <= Cardinality(K)
    BY <1>8, <2>1, <2>2, ManyBelow
  <2>4. QED BY <2>3 DEF K
<1>11. Cardinality(Cell(chosen, a)) \in Nat /\ Cardinality(Cell(chosen, b)) \in Nat
  <2>1. Cell(chosen, a) \in SUBSET Articles /\ Cell(chosen, b) \in SUBSET Articles
    BY <1>1 DEF Cell
  <2>2. QED BY <2>1, ArticlesFinite
<1>12. Cardinality(Cell(chosen, a)) <= Cardinality(Cell(chosen, b)) + 1
  BY <1>8, <1>9, <1>10, <1>11
<1>13. QED BY <1>12 DEF chosen
\* A list without repetitions is as long as it has elements.
LEMMA DistinctLength ==
  ASSUME NEW S, NEW s \in Seq(S), \A j, k \in DOMAIN s : s[j] = s[k] => j = k
  PROVE  IsFiniteSet(ToSet(s)) /\ Cardinality(ToSet(s)) = Len(s)
<1>1. s \in Bijection(1..Len(s), ToSet(s))
  <2>1. s \in [1..Len(s) -> ToSet(s)]
    BY DEF ToSet
  <2>2. \A e \in ToSet(s) : \E k \in 1..Len(s) : s[k] = e
    BY DEF ToSet
  <2>3. QED BY <2>1, <2>2 DEF Bijection, Injection, Surjection, IsInjective
<1>2. IsFiniteSet(1..Len(s)) /\ Cardinality(1..Len(s)) = Len(s)
  <2>1. 1 \in Int /\ Len(s) \in Int /\ Len(s) \in Nat
    OBVIOUS
  <2>2. IsFiniteSet(1..Len(s)) /\ Cardinality(1..Len(s)) = IF 1 > Len(s) THEN 0 ELSE Len(s) - 1 + 1
    BY <2>1, FS_Interval
  <2>3. QED BY <2>1, <2>2
<1>3. ExistsBijection(1..Len(s), ToSet(s))
  BY <1>1 DEF ExistsBijection
<1>4. QED BY <1>2, <1>3, FS_Bijection

LEMMA Joining ==
  ASSUME NEW S, NEW s \in Seq(S), NEW t \in Seq(S),
         \A j, k \in DOMAIN s : s[j] = s[k] => j = k,
         \A j, k \in DOMAIN t : t[j] = t[k] => j = k,
         ToSet(s) \cap ToSet(t) = {}
  PROVE  /\ s \o t \in Seq(S) /\ ToSet(s \o t) = ToSet(s) \cup ToSet(t)
         /\ Cardinality(ToSet(s \o t)) = Len(s \o t)
<1> DEFINE m == Len(s)
           n == Len(t)
           u == s \o t
<1>1. /\ m \in Nat /\ n \in Nat /\ u \in Seq(S) /\ Len(u) = m + n
      /\ DOMAIN s = 1..m /\ DOMAIN t = 1..n /\ DOMAIN u = 1..m+n
      /\ \A k \in 1..m : u[k] = s[k]
      /\ \A k \in m+1..m+n : u[k] = t[k-m]
  OBVIOUS
<1> HIDE DEF m, n, u
<1>2. \A k \in 1..m+n : k \in 1..m \/ (k \in m+1..m+n /\ k-m \in 1..n)
  BY <1>1
<1> DEFINE left == ToSet(s)
           right == ToSet(t)
           both == ToSet(u)
<1>3. /\ \A k \in 1..m : s[k] \in left
      /\ \A k \in 1..n : t[k] \in right
      /\ \A k \in 1..m+n : u[k] \in both
      /\ \A e \in both : \E k \in 1..m+n : e = u[k]
      /\ \A e \in left : \E k \in 1..m : e = s[k]
      /\ \A e \in right : \E k \in 1..n : e = t[k]
  BY <1>1 DEF ToSet
<1> HIDE DEF left, right, both
<1>4. both = left \cup right
  <2>1. ASSUME NEW k \in 1..m+n PROVE u[k] \in left \cup right
    <3>1. CASE k \in 1..m
      BY <1>1, <1>3, <3>1
    <3>2. CASE k \notin 1..m
      <4>1. k \in m+1..m+n /\ k-m \in 1..n
        BY <1>2, <3>2
      <4>2. u[k] = t[k-m]
        BY <1>1, <4>1
      <4>3. QED BY <1>3, <4>1, <4>2
    <3>3. QED BY <3>1, <3>2
  <2>2. ASSUME NEW k \in 1..m PROVE s[k] \in both
    <3>1. k \in 1..m+n
      BY <1>1
    <3>2. QED BY <1>1, <1>3, <3>1
  <2>3. ASSUME NEW k \in 1..n PROVE t[k] \in both
    <3>1. k+m \in 1..m+n /\ k+m \in m+1..m+n /\ (k+m)-m = k
      BY <1>1
    <3>2. u[k+m] = t[k]
      BY <1>1, <3>1
    <3>3. QED BY <1>3, <3>1, <3>2
  <2>4. both \subseteq left \cup right
    BY <1>3, <2>1
  <2>5. left \subseteq both /\ right \subseteq both
    BY <1>3, <2>2, <2>3
  <2>6. QED BY <2>4, <2>5
<1>5. ASSUME NEW j \in 1..m+n, NEW k \in 1..m+n, u[j] = u[k] PROVE j = k
  <2>1. \A l \in 1..m : u[l] \in left
    BY <1>1, <1>3
  <2>2. ASSUME NEW l \in m+1..m+n PROVE l-m \in 1..n /\ u[l] \in right
    <3>1. l-m \in 1..n /\ u[l] = t[l-m]
      BY <1>1
    <3>2. QED BY <1>3, <3>1
  <2> left \cap right = {}
    BY DEF left, right
  <2>3. CASE j \in 1..m /\ k \in 1..m
    BY <1>1, <1>5, <2>3
  <2>4. CASE j \in m+1..m+n /\ k \in m+1..m+n
    <3>1. t[j-m] = t[k-m] /\ j-m \in 1..n /\ k-m \in 1..n
      BY <1>1, <1>5, <2>2, <2>4
    <3>2. j-m = k-m
      BY <1>1, <3>1
    <3>3. QED BY <1>1, <3>2
  <2>5. QED BY <1>2, <1>5, <2>1, <2>2, <2>3, <2>4
<1>6. Cardinality(ToSet(u)) = Len(u)
  <2>1. u \in Seq(S) /\ \A j, k \in DOMAIN u : u[j] = u[k] => j = k
    BY <1>1, <1>5
  <2>2. QED BY <2>1, DistinctLength
<1>7. QED BY <1>1, <1>4, <1>6 DEF u, left, right, both

\* What is drawn in one ranking.
LEMMA DrawIsSpread ==
  ASSUME NEW E \in SUBSET Articles, NEW rank \in CellRanks(E), NEW s, NEW t,
         Heads(s, {a \in E : Flagged[a] = TRUE}, RankOrder(E, rank), FlaggedCap),
         Heads(t, {a \in E : Flagged[a] = FALSE}, RankOrder(E, rank), NeutralCap)
  PROVE  /\ s \o t \in Seq(E)
         /\ Len(s \o t) = Cardinality(ToSet(s \o t))
         /\ \A a \in ToSet(s \o t), b \in E \ ToSet(s \o t) :
              Flagged[a] = Flagged[b] =>
                Cardinality(Cell(ToSet(s \o t), a)) <= Cardinality(Cell(ToSet(s \o t), b)) + 1
<1> DEFINE F(flagged) == {a \in E : Flagged[a] = flagged}
           sample == ToSet(s \o t)
<1>1. /\ s \in Seq(E) /\ t \in Seq(E)
      /\ ToSet(s) \subseteq F(TRUE) /\ ToSet(t) \subseteq F(FALSE)
      /\ \A j, k \in DOMAIN s : s[j] = s[k] => j = k
      /\ \A j, k \in DOMAIN t : t[j] = t[k] => j = k
  BY DEF Heads, ToSet
<1>2. ToSet(s) \cap ToSet(t) = {}
  BY <1>1
<1>3. s \o t \in Seq(E) /\ sample = ToSet(s) \cup ToSet(t) /\ Cardinality(sample) = Len(s \o t)
  BY <1>1, <1>2, Joining
<1> HIDE DEF sample
<1>4. ASSUME NEW a \in sample, NEW b \in E \ sample, Flagged[a] = Flagged[b]
      PROVE  Cardinality(Cell(sample, a)) <= Cardinality(Cell(sample, b)) + 1
  <2>1. CASE Flagged[a] = TRUE
    <3>1. a \in ToSet(s) /\ b \in F(TRUE) \ ToSet(s)
      BY <1>1, <1>3, <1>4, <2>1
    <3>2. Cell(sample, a) = Cell(ToSet(s), a) /\ Cell(sample, b) = Cell(ToSet(s), b)
      BY <1>1, <1>3, <1>4, <2>1 DEF Cell, SameCell
    <3>3. QED BY <3>1, <3>2, StratumIsSpread
  <2>2. CASE Flagged[a] # TRUE
    <3>1. a \in E /\ a \in ToSet(t)
      BY <1>1, <1>3, <2>2
    <3>2. Flagged[a] = FALSE
      BY <3>1, ArticlesAssumption, <2>2
    <3>3. b \in F(FALSE) \ ToSet(t)
      BY <1>3, <1>4, <3>2
    <3>4. Cell(sample, a) = Cell(ToSet(t), a) /\ Cell(sample, b) = Cell(ToSet(t), b)
      BY <1>1, <1>3, <1>4, <3>2 DEF Cell, SameCell
    <3>5. QED BY <3>1, <3>3, <3>4, StratumIsSpread
  <2>3. QED BY <2>1, <2>2
<1>5. QED BY <1>3, <1>4 DEF sample
-----------------------------------------------------------------------------
(***************************************************************************)
(* The gold set, the sample and the queue, step by step.                   *)
(***************************************************************************)
Split(split) == {a \in Articles : gold[a] = split}

\* The held-out set is what it was, and the main one is the sample or not there.
CorpusInv ==
  /\ gold \in [Articles -> {None, "main", "holdout"}]
  /\ \A a \in Articles : gold[a] = "holdout" <=> a \in HeldOut
  /\ candidates \in Seq(Articles) /\ ToSet(candidates) \cap HeldOut = {}
  /\ Split("main") # {} => Split("main") = ToSet(candidates)
  /\ SampleIsSpread

QueueInv ==
  /\ turn \in Nat \ {0} /\ pc \in {"idle", "calling", "saving"}
  /\ pc # "idle" =>
       /\ turn \in DOMAIN Sweeps /\ queue # <<>>
       /\ Chosen(queue, Sweep.split, Sweep.limit)

LEMMA SweepFacts ==
  ASSUME NEW s \in DOMAIN Sweeps
  PROVE  /\ s \in Nat \ {0} /\ Sweeps[s].split \in {"main", "holdout"}
         /\ Sweeps[s].limit \in Nat \cup {None} /\ Sweeps[s].repeat \in Nat \ {0}
BY SweepsAssumption DEF IsSeq

\* A split that is there changes no more.
LEMMA SplitsStay ==
  ASSUME CorpusInv, Annotate \/ gold' = gold, NEW split \in {"main", "holdout"},
         Split(split) # {}
  PROVE  Split(split)' = Split(split)
<1>1. CASE gold' = gold
  BY <1>1 DEF Split
<1>2. CASE Annotate
  <2>1. CASE split = "main"
    <3>1. \A a \in ToSet(candidates) : gold[a] = "main"
      BY <2>1 DEF CorpusInv, Split
    <3>2. QED BY <1>2, <3>1, LimitsAssumption DEF Annotate
  <2>2. CASE split = "holdout"
    <3>1. \A a \in Articles : gold'[a] = "holdout" <=> gold[a] = "holdout"
      BY <1>2 DEF Annotate, CorpusInv
    <3>2. QED BY <2>2, <3>1 DEF Split
  <2>3. QED BY <2>1, <2>2
<1>3. QED BY <1>1, <1>2

LEMMA ChosenSet ==
  ASSUME NEW q, NEW split, NEW limit, Chosen(q, split, limit)
  PROVE  q \in Seq(Articles) /\ ToSet(q) \subseteq Split(split)
<1>1. q \in Seq(Split(split)) /\ Split(split) \subseteq Articles
  BY DEF Chosen, Split
<1>2. QED BY <1>1 DEF ToSet

LEMMA ChosenStays ==
  ASSUME CorpusInv, Annotate \/ gold' = gold, NEW split \in {"main", "holdout"}, NEW limit,
         NEW q, q # <<>>, Chosen(q, split, limit)
  PROVE  Chosen(q, split, limit)'
<1>1. Split(split) # {}
  <2>1. q \in Seq(Split(split))
    BY DEF Chosen, Split
  <2>2. QED BY <2>1
<1>2. Split(split)' = Split(split)
  BY <1>1, SplitsStay
<1>3. Chosen(q, split, limit) <=>
        /\ q \in Seq(Split(split))
        /\ \A j, k \in DOMAIN q : q[j] = q[k] => j = k
        /\ Len(q) = IF limit = None \/ Cardinality(Split(split)) <= limit
                    THEN Cardinality(Split(split)) ELSE limit
        /\ Mixed(ToSet(q), Split(split))
  BY DEF Chosen, Split
<1>4. Chosen(q, split, limit)' <=>
        /\ q \in Seq(Split(split)')
        /\ \A j, k \in DOMAIN q : q[j] = q[k] => j = k
        /\ Len(q) = IF limit = None \/ Cardinality(Split(split)') <= limit
                    THEN Cardinality(Split(split)') ELSE limit
        /\ Mixed(ToSet(q), Split(split)')
  BY DEF Chosen, Split
<1>5. QED BY <1>2, <1>3, <1>4

LEMMA SampleSpreads ==
  ASSUME CorpusInv, Sample
  PROVE  candidates' \in Seq(Articles) /\ ToSet(candidates') \cap HeldOut = {} /\ SampleIsSpread'
<1> DEFINE E == {a \in Articles : gold[a] = None}
           F(flagged) == {a \in E : Flagged[a] = flagged}
<1>1. PICK rank \in CellRanks(E) :
        candidates' = Prefix(InOrder(F(TRUE), RankOrder(E, rank)), FlaggedCap)
                        \o Prefix(InOrder(F(FALSE), RankOrder(E, rank)), NeutralCap)
  BY DEF Sample, RankOrder
<1> DEFINE s == Prefix(InOrder(F(TRUE), RankOrder(E, rank)), FlaggedCap)
           t == Prefix(InOrder(F(FALSE), RankOrder(E, rank)), NeutralCap)
<1>2. E \in SUBSET Articles /\ E = Articles \ HeldOut
  <2>1. candidates = <<>>
    BY DEF Sample
  <2>2. ToSet(candidates) = {}
    BY <2>1 DEF ToSet
  <2>3. \A a \in Articles : gold[a] # "main"
    BY <2>2 DEF CorpusInv, Split
  <2>4. QED BY <2>3, LimitsAssumption DEF CorpusInv
<1>3. rank \in [E -> Nat]
  <2>1. Cardinality(E) \in Nat
    BY <1>2, ArticlesFinite
  <2> HIDE DEF E
  <2>2. rank \in [E -> 1..Cardinality(E)]
    BY DEF CellRanks
  <2>3. QED BY <2>1, <2>2
<1> HIDE DEF E
<1>4. ASSUME NEW flagged PROVE F(flagged) \in SUBSET E /\ IsFiniteSet(F(flagged))
                                 /\ StrictTotal(RankOrder(E, rank), F(flagged))
  <2>1. F(flagged) \in SUBSET E
    OBVIOUS
  <2> HIDE DEF F
  <2>2. IsFiniteSet(F(flagged))
    BY <1>2, <2>1, ArticlesFinite
  <2>3. QED BY <1>2, <1>3, <2>1, <2>2, RankOrderTotal
<1>5. FlaggedCap \in Nat \cup {None} /\ NeutralCap \in Nat \cup {None}
  BY LimitsAssumption
<1>6. /\ Heads(s, F(TRUE), RankOrder(E, rank), FlaggedCap)
      /\ Heads(t, F(FALSE), RankOrder(E, rank), NeutralCap)
  <2> HIDE DEF F
  <2>1. QED BY <1>4, <1>5, PrefixHeads
<1> HIDE DEF s, t
<1>7. /\ s \o t \in Seq(E)
      /\ Len(s \o t) = Cardinality(ToSet(s \o t))
      /\ \A a \in ToSet(s \o t), b \in E \ ToSet(s \o t) :
           Flagged[a] = Flagged[b] =>
             Cardinality(Cell(ToSet(s \o t), a)) <= Cardinality(Cell(ToSet(s \o t), b)) + 1
  BY <1>2, <1>6, DrawIsSpread
<1>8. candidates' = s \o t
  BY <1>1 DEF s, t
<1> DEFINE c == candidates'
<1>9. /\ c \in Seq(E) /\ Len(c) = Cardinality(ToSet(c))
      /\ \A a \in ToSet(c), b \in E \ ToSet(c) :
           Flagged[a] = Flagged[b] =>
             Cardinality(Cell(ToSet(c), a)) <= Cardinality(Cell(ToSet(c), b)) + 1
  BY <1>7, <1>8
<1> HIDE DEF c
<1>10. c \in Seq(Articles) /\ ToSet(c) \subseteq E
  BY <1>2, <1>9 DEF ToSet
<1>11. SampleIsSpread'
  <2>1. \A a \in ToSet(c), b \in Articles \ (ToSet(c) \cup HeldOut) :
          Flagged[a] = Flagged[b] =>
            Cardinality(Cell(ToSet(c), a)) <= Cardinality(Cell(ToSet(c), b)) + 1
    BY <1>2, <1>9
  <2>2. ToSet(c) \cap HeldOut = {}
    BY <1>2, <1>10
  <2>3. QED BY <1>9, <2>1, <2>2 DEF SampleIsSpread, Cell, c
<1>12. QED BY <1>2, <1>10, <1>11 DEF c

LEMMA CorpusNext ==
  ASSUME CorpusInv, [Next]_vars
  PROVE  CorpusInv'
<1>1. CASE Sample
  <2>1. candidates' \in Seq(Articles) /\ ToSet(candidates') \cap HeldOut = {} /\ SampleIsSpread'
    BY <1>1, SampleSpreads
  <2>2. gold' = gold
    BY <1>1 DEF Sample
  <2>3. Split("main")' = {}
    <3>1. ToSet(candidates) = {}
      BY <1>1 DEF Sample, ToSet
    <3>2. QED BY <2>2, <3>1 DEF CorpusInv, Split
  <2>4. QED BY <2>1, <2>2, <2>3 DEF CorpusInv
<1>2. CASE Annotate
  <2>1. /\ gold' = [a \in Articles |-> IF a \in ToSet(candidates) THEN "main" ELSE gold[a]]
        /\ candidates' = candidates
    BY <1>2 DEF Annotate
  <2>2. ToSet(candidates) \subseteq Articles
    BY DEF CorpusInv, ToSet
  <2>3. Split("main")' = ToSet(candidates)
    BY <2>1, <2>2 DEF CorpusInv, Split
  <2>4. gold' \in [Articles -> {None, "main", "holdout"}]
    BY <2>1 DEF CorpusInv
  <2>5. \A a \in Articles : gold'[a] = "holdout" <=> a \in HeldOut
    BY <2>1 DEF CorpusInv
  <2>6. SampleIsSpread'
    BY <2>1 DEF CorpusInv, SampleIsSpread
  <2>7. QED BY <2>1, <2>3, <2>4, <2>5, <2>6 DEF CorpusInv
<1>3. ASSUME UNCHANGED corpusVars PROVE CorpusInv'
  BY <1>3 DEF CorpusInv, SampleIsSpread, Split, corpusVars
<1>4. CASE SweepStep
  BY <1>3, <1>4 DEF SweepStep, StartSweep, FailedCall, Call, SaveFindings, FinishSweep, Crash
<1>5. CASE ReportStep
  BY <1>3, <1>5 DEF ReportStep, ReadRows, ReadFindings, ReadStability, corpusVars
<1>6. CASE UNCHANGED vars
  BY <1>3, <1>6 DEF vars
<1>7. QED BY <1>1, <1>2, <1>4, <1>5, <1>6 DEF Next

LEMMA QueueNext ==
  ASSUME CorpusInv, QueueInv, [Next]_vars
  PROVE  QueueInv'
<1>1. CASE StartSweep
  <2>1. /\ pc = "idle" /\ turn \in DOMAIN Sweeps
        /\ queue' = LoadGold(Sweep.split, Sweep.limit)
        /\ IF queue' = <<>> THEN turn' = turn + 1 /\ pc' = pc
           ELSE pc' = "calling" /\ turn' = turn
        /\ gold' = gold
    BY <1>1 DEF StartSweep, corpusVars
  <2>2. Chosen(queue', Sweep.split, Sweep.limit)
    BY <2>1, LoadGoldFacts, SweepFacts DEF Sweep
  <2>3. CASE queue' = <<>>
    BY <2>1, <2>3 DEF QueueInv
  <2>4. CASE queue' # <<>>
    <3>1. turn' = turn /\ pc' = "calling" /\ Sweep' = Sweep
      BY <2>1, <2>4 DEF Sweep
    <3>2. Chosen(queue, Sweep.split, Sweep.limit)'
      BY <2>1, <2>2, <3>1 DEF Chosen
    <3>3. QED BY <2>1, <2>4, <3>1, <3>2 DEF QueueInv
  <2>5. QED BY <2>3, <2>4
<1>2. ASSUME turn' = turn, queue' = queue, pc' = pc \/ (pc # "idle" /\ pc' \in {"calling", "saving"}),
             Annotate \/ gold' = gold
      PROVE  QueueInv'
  <2>1. CASE pc = "idle"
    BY <1>2, <2>1 DEF QueueInv
  <2>2. CASE pc # "idle"
    <3>1. /\ turn \in DOMAIN Sweeps /\ queue # <<>>
          /\ Chosen(queue, Sweep.split, Sweep.limit)
      BY <2>2 DEF QueueInv
    <3>2. Sweep.split \in {"main", "holdout"}
      BY <3>1, SweepFacts DEF Sweep
    <3>3. Chosen(queue, Sweep.split, Sweep.limit)'
      <4> DEFINE q == queue
                 split == Sweep.split
                 limit == Sweep.limit
      <4>1. queue' = queue /\ Sweep' = Sweep
        BY <1>2 DEF Sweep
      <4>2. QED BY <1>2, <3>1, <3>2, <4>1, ChosenStays
    <3>4. QED BY <1>2, <2>2, <3>1, <3>3 DEF QueueInv
  <2>3. QED BY <2>1, <2>2
<1>3. ASSUME turn' = turn + 1, pc' = "idle" PROVE QueueInv'
  BY <1>3 DEF QueueInv
<1>4. CASE Sample
  BY <1>2, <1>4 DEF Sample, sweepVars
<1>5. CASE Annotate
  BY <1>2, <1>5 DEF Annotate, sweepVars
<1>6. CASE FailedCall \/ Call \/ SaveFindings
  BY <1>2, <1>6 DEF FailedCall, Call, SaveFindings, corpusVars
<1>7. CASE FinishSweep \/ Crash
  BY <1>3, <1>7 DEF FinishSweep, Crash
<1>8. CASE ReportStep
  BY <1>2, <1>8 DEF ReportStep, ReadRows, ReadFindings, ReadStability, corpusVars, sweepVars
<1>9. CASE UNCHANGED vars
  BY <1>2, <1>9 DEF vars, corpusVars, sweepVars
<1>10. QED BY <1>1, <1>4, <1>5, <1>6, <1>7, <1>8, <1>9 DEF Next, SweepStep

LEMMA InitQueue == Init => CorpusInv /\ QueueInv
<1> SUFFICES ASSUME Init PROVE CorpusInv /\ QueueInv
  OBVIOUS
<1>1. \A a \in Articles : gold[a] = (IF a \in HeldOut THEN "holdout" ELSE None)
  BY DEF Init
<1>2. Split("main") = {}
  BY <1>1, LimitsAssumption DEF Split
<1>3. ToSet(candidates) = {} /\ candidates \in Seq(Articles)
  BY DEF Init, ToSet
<1>4. CorpusInv
  BY <1>1, <1>2, <1>3, LimitsAssumption DEF CorpusInv, SampleIsSpread, Init
<1>5. QED BY <1>4 DEF Init, QueueInv

LEMMA QueueInvariant == Spec => [](CorpusInv /\ QueueInv)
<1>1. Init => CorpusInv /\ QueueInv
  BY InitQueue
<1>2. CorpusInv /\ QueueInv /\ [Next]_vars => (CorpusInv /\ QueueInv)'
  BY CorpusNext, QueueNext
<1>3. QED BY <1>1, <1>2, PTL DEF Spec

\* candidates.py:21: whatever random() says, the sample is spread across days
\* and portals.
THEOREM SampleIsAlwaysSpread == Spec => []SampleIsSpread
<1>1. CorpusInv => SampleIsSpread
  BY DEF CorpusInv
<1>2. QED BY <1>1, QueueInvariant, PTL

\* run_eval.py:52: a limited run is mixed.
THEOREM LimitedRunIsAlwaysMixed == Spec => []LimitedRunIsMixed
<1>1. QueueInv => LimitedRunIsMixed
  <2> SUFFICES ASSUME QueueInv, pc # "idle", NEW a \in ToSet(queue),
                      NEW b \in Articles \ ToSet(queue), gold[b] = Sweep.split
               PROVE  Cardinality({x \in ToSet(queue) : Kind[x] = Kind[a]})
                        <= Cardinality({x \in ToSet(queue) : Kind[x] = Kind[b]}) + 1
    BY DEF LimitedRunIsMixed
  <2>1. Mixed(ToSet(queue), Split(Sweep.split))
    BY DEF QueueInv, Chosen, Split
  <2>2. b \in Split(Sweep.split) \ ToSet(queue)
    BY DEF Split
  <2>3. QED BY <2>1, <2>2 DEF Mixed, OfKind
<1>2. QED BY <1>1, QueueInvariant, PTL

-----------------------------------------------------------------------------
(***************************************************************************)
(* What a sweep stores.                                                    *)
(***************************************************************************)
Record == [run : DOMAIN Sweeps, article : Articles, variant : {"title", "title_lead"},
           grammar : UNION {Range(Sweeps[s].grammars) : s \in DOMAIN Sweeps},
           source : {Sweeps[s].source : s \in DOMAIN Sweeps},
           parsed : BOOLEAN, accepted : Nat]

\* A row holds the findings of its reply or none yet.
TablesInv ==
  /\ rows \in Seq(Record) /\ IsSeq(found) /\ Len(found) = Len(rows)
  /\ \A i \in 1..Len(rows) :
       /\ IsSeq(found[i]) /\ Len(found[i]) <= rows[i].accepted
       /\ ~rows[i].parsed => found[i] = <<>>
  /\ IsSeq(answer)
  /\ pc = "saving" =>
       /\ rows # <<>> /\ Len(answer) = rows[Len(rows)].accepted
       /\ ~rows[Len(rows)].parsed => answer = <<>>

\* What call n of a sweep over q stores.
Records(row, n, q, args) ==
  LET article == q[ArticleAt(n, Len(q), args.repeat) + 1]
      variant == args.variants[VariantAt(n, Len(q), args.repeat, Len(args.variants)) + 1]
  IN /\ row.article = article
     /\ row.variant = IF variant = "title_lead" /\ HasLead[article] THEN "title_lead" ELSE "title"
     /\ row.grammar = args.grammars[GrammarAt(n, Len(q), args.repeat, Len(args.variants)) + 1]
     /\ row.source = args.source

\* The rows of sweep s are the first m calls over q, stored after base others.
Stored(s, q, base, m) ==
  /\ base \in Nat /\ m \in Nat /\ base + m <= Len(rows)
  /\ \A i \in 1..Len(rows) : rows[i].run = s <=> i \in base + 1 .. base + m
  /\ \A i \in base + 1 .. base + m : Records(rows[i], i - base - 1, q, Sweeps[s])

Total(q, args) ==
  CallsOfSweep(Len(q), args.repeat, Len(args.variants), Len(args.grammars))

Whole(s) ==
  \E q, base : /\ q # <<>> /\ Chosen(q, Sweeps[s].split, Sweeps[s].limit)
               /\ Stored(s, q, base, Total(q, Sweeps[s]))

Started == IF pc = "saving" THEN calls + 1 ELSE calls

\* Without a provider error every call so far has its row; a sweep that ended
\* without one is there as a whole.
SweepInv ==
  /\ calls \in Nat /\ failures \in Nat
  /\ \A i \in 1..Len(rows) : rows[i].run <= turn /\ (pc = "idle" => rows[i].run < turn)
  /\ pc # "idle" => Started <= Total(queue, Sweep)
  /\ pc # "idle" /\ failures = 0 => Stored(turn, queue, Len(rows) - Started, Started)
  /\ printed \in [DOMAIN Sweeps -> Nat \cup {None}]
  /\ \A s \in DOMAIN Sweeps : printed[s] # None => s < turn
  /\ \A s \in DOMAIN Sweeps : printed[s] = 0 => Whole(s)

LEMMA SequenceType ==
  ASSUME NEW s, IsSeq(s)
  PROVE  s \in Seq(Range(s)) /\ Len(s) \in Nat /\ DOMAIN s = 1..Len(s)
BY DEF IsSeq

\* The axes of a sweep.
LEMMA AxisFacts ==
  ASSUME NEW s \in DOMAIN Sweeps
  PROVE  LET args == Sweeps[s]
         IN /\ args.repeat \in Nat \ {0}
            /\ Len(args.variants) \in Nat \ {0} /\ Len(args.grammars) \in Nat \ {0}
            /\ \A k \in 1..Len(args.variants) : args.variants[k] \in {"title", "title_lead"}
            /\ \A j, k \in 1..Len(args.variants) : args.variants[j] = args.variants[k] => j = k
            /\ \A k \in 1..Len(args.grammars) : args.grammars[k] \in Range(args.grammars)
            /\ \A j, k \in 1..Len(args.grammars) : args.grammars[j] = args.grammars[k] => j = k
<1> DEFINE args == Sweeps[s]
           v == args.variants
           g == args.grammars
<1>1. /\ args.repeat \in Nat \ {0} /\ Range(v) \subseteq {"title", "title_lead"}
      /\ IsSeq(v) /\ IsInjective(v) /\ v # <<>>
      /\ IsSeq(g) /\ IsInjective(g) /\ g # <<>>
  BY SweepsAssumption
<1> HIDE DEF v, g
<1>2. /\ v \in Seq(Range(v)) /\ Len(v) \in Nat \ {0} /\ DOMAIN v = 1..Len(v)
      /\ g \in Seq(Range(g)) /\ Len(g) \in Nat \ {0} /\ DOMAIN g = 1..Len(g)
  BY <1>1, SequenceType
<1>3. /\ \A k \in 1..Len(v) : v[k] \in {"title", "title_lead"}
      /\ \A k \in 1..Len(g) : g[k] \in Range(g)
  BY <1>1, <1>2 DEF Range
<1>4. /\ \A j, k \in 1..Len(v) : v[j] = v[k] => j = k
      /\ \A j, k \in 1..Len(g) : g[j] = g[k] => j = k
  BY <1>1, <1>2 DEF IsInjective
<1>5. QED BY <1>1, <1>2, <1>3, <1>4 DEF v, g

LEMMA TotalType ==
  ASSUME NEW s \in DOMAIN Sweeps, NEW q \in Seq(Articles), q # <<>>
  PROVE  Total(q, Sweeps[s]) \in Nat
<1> DEFINE L == Len(q)
           R == Sweeps[s].repeat
           V == Len(Sweeps[s].variants)
           G == Len(Sweeps[s].grammars)
<1>1. L \in Nat \ {0} /\ R \in Nat \ {0} /\ V \in Nat \ {0} /\ G \in Nat \ {0}
  BY AxisFacts
<1> HIDE DEF L, R, V, G
<1>2. CallsOfSweep(L, R, V, G) \in Nat
  BY <1>1, Products DEF CallsOfSweep
<1>3. QED BY <1>2 DEF Total, L, R, V, G

\* What the next call asks.
LEMMA AskedFacts ==
  ASSUME NEW n \in Nat, QueueInv, pc # "idle", n < Total(queue, Sweep)
  PROVE  /\ Asked(n).article \in Articles /\ Asked(n).variant \in {"title", "title_lead"}
         /\ Asked(n).grammar \in Range(Sweep.grammars)
         /\ ArticleAt(n, Len(queue), Sweep.repeat) \in 0..Len(queue)-1
         /\ Asked(n).article = queue[ArticleAt(n, Len(queue), Sweep.repeat) + 1]
         /\ Asked(n).variant =
              Sweep.variants[VariantAt(n, Len(queue), Sweep.repeat, Len(Sweep.variants)) + 1]
         /\ Asked(n).grammar =
              Sweep.grammars[GrammarAt(n, Len(queue), Sweep.repeat, Len(Sweep.variants)) + 1]
<1> DEFINE L == Len(queue)
           R == Sweep.repeat
           V == Len(Sweep.variants)
           G == Len(Sweep.grammars)
<1>1. turn \in DOMAIN Sweeps /\ queue \in Seq(Articles) /\ queue # <<>>
  BY ChosenSet DEF QueueInv
<1>2. /\ R \in Nat \ {0} /\ V \in Nat \ {0} /\ G \in Nat \ {0}
      /\ \A k \in 1..V : Sweep.variants[k] \in {"title", "title_lead"}
      /\ \A k \in 1..G : Sweep.grammars[k] \in Range(Sweep.grammars)
  BY <1>1, AxisFacts DEF Sweep
<1>3. L \in Nat \ {0} /\ \A k \in 1..L : queue[k] \in Articles
  BY <1>1
<1>4. /\ Asked(n).article = queue[ArticleAt(n, L, R) + 1]
      /\ Asked(n).variant = Sweep.variants[VariantAt(n, L, R, V) + 1]
      /\ Asked(n).grammar = Sweep.grammars[GrammarAt(n, L, R, V) + 1]
  BY DEF Asked, ArticleAt, VariantAt, GrammarAt
<1> HIDE DEF L, R, V, G
<1>5. n \in 0 .. CallsOfSweep(L, R, V, G) - 1
  <2>1. CallsOfSweep(L, R, V, G) \in Nat
    BY <1>2, <1>3, Products DEF CallsOfSweep
  <2>2. n < CallsOfSweep(L, R, V, G)
    BY DEF Total, L, R, V, G
  <2>3. QED BY <2>1, <2>2
<1>6. /\ ArticleAt(n, L, R) \in 0..L-1 /\ VariantAt(n, L, R, V) \in 0..V-1
      /\ GrammarAt(n, L, R, V) \in 0..G-1
  BY <1>2, <1>3, <1>5, CallAsks
<1>7. /\ ArticleAt(n, L, R) + 1 \in 1..L /\ VariantAt(n, L, R, V) + 1 \in 1..V
      /\ GrammarAt(n, L, R, V) + 1 \in 1..G
  BY <1>2, <1>3, <1>6
<1>8. QED BY <1>2, <1>3, <1>4, <1>6, <1>7 DEF L, R, V, G

LEMMA StoredStays ==
  ASSUME NEW s, NEW q, NEW base, NEW m, Stored(s, q, base, m), rows \in Seq(Record),
         \/ rows' = rows
         \/ \E row \in Record : rows' = Append(rows, row) /\ row.run # s
  PROVE  Stored(s, q, base, m)'
<1>1. CASE rows' = rows
  BY <1>1 DEF Stored
<1>2. ASSUME NEW row \in Record, rows' = Append(rows, row), row.run # s
      PROVE  Stored(s, q, base, m)'
  <2>1. /\ Len(rows) \in Nat /\ Len(rows') = Len(rows) + 1
        /\ rows'[Len(rows) + 1] = row /\ \A i \in 1..Len(rows) : rows'[i] = rows[i]
    BY <1>2
  <2>2. base \in Nat /\ m \in Nat /\ base + m <= Len(rows)
    BY DEF Stored
  <2>3. ASSUME NEW i \in 1..Len(rows') PROVE rows'[i].run = s <=> i \in base + 1 .. base + m
    <3>1. CASE i = Len(rows) + 1
      BY <1>2, <2>1, <2>2, <3>1
    <3>2. CASE i \in 1..Len(rows)
      BY <2>1, <3>2 DEF Stored
    <3>3. QED BY <2>1, <3>1, <3>2
  <2>4. ASSUME NEW i \in base + 1 .. base + m PROVE Records(rows'[i], i - base - 1, q, Sweeps[s])
    <3>1. i \in 1..Len(rows)
      BY <2>1, <2>2
    <3>2. QED BY <2>1, <3>1 DEF Stored
  <2>5. base + m <= Len(rows')
    BY <2>1, <2>2
  <2>6. QED BY <2>2, <2>3, <2>4, <2>5 DEF Stored
<1>3. QED BY <1>1, <1>2

LEMMA StoredGrows ==
  ASSUME NEW s, NEW q, NEW m \in Nat, rows \in Seq(Record), Stored(s, q, Len(rows) - m, m),
         NEW row \in Record, rows' = Append(rows, row), row.run = s, Records(row, m, q, Sweeps[s])
  PROVE  Stored(s, q, Len(rows) - (m + 1), m + 1)'
<1> DEFINE l == Len(rows)
           base == l - m
<1>1. /\ l \in Nat /\ Len(rows') = l + 1
      /\ rows'[l + 1] = row /\ \A i \in 1..l : rows'[i] = rows[i]
  OBVIOUS
<1>2. /\ base \in Nat /\ \A i \in 1..l : rows[i].run = s <=> i \in base + 1 .. base + m
      /\ \A i \in base + 1 .. base + m : Records(rows[i], i - base - 1, q, Sweeps[s])
  BY DEF Stored
<1>3. Len(rows') - (m + 1) = base /\ base + m = l /\ base + (m + 1) = l + 1
  BY <1>1
<1> DEFINE b == Len(rows')
<1>4. ASSUME NEW i \in 1..l + 1 PROVE rows'[i].run = s <=> i \in base + 1 .. base + (m + 1)
  <2>1. CASE i = l + 1
    BY <1>1, <1>2, <1>3, <2>1
  <2>2. CASE i \in 1..l
    BY <1>1, <1>2, <1>3, <2>2
  <2>3. QED BY <1>1, <2>1, <2>2
<1>5. ASSUME NEW i \in base + 1 .. base + (m + 1)
      PROVE  Records(rows'[i], i - base - 1, q, Sweeps[s])
  <2>1. CASE i = l + 1
    <3>1. i - base - 1 = m /\ rows'[i] = row
      BY <1>1, <1>3, <2>1
    <3>2. QED BY <3>1
  <2>2. CASE i # l + 1
    <3>1. i \in base + 1 .. base + m /\ i \in 1..l
      BY <1>1, <1>2, <1>3, <2>2
    <3>2. QED BY <1>1, <1>2, <3>1
  <2>3. QED BY <2>1, <2>2
<1> HIDE DEF base, l
<1>6. /\ Len(rows') = l + 1 /\ Len(rows') - (m + 1) = base
      /\ base \in Nat /\ m + 1 \in Nat /\ base + (m + 1) <= Len(rows')
  BY <1>1, <1>2, <1>3
<1>7. QED BY <1>4, <1>5, <1>6 DEF Stored

\* What a successful call stores.
LEMMA CallStores ==
  ASSUME QueueInv, SweepInv, TablesInv, Call
  PROVE  \E row \in Record :
           /\ rows' = Append(rows, row) /\ row.run = turn /\ Records(row, calls, queue, Sweep)
           /\ found' = Append(found, <<>>) /\ IsSeq(answer') /\ Len(answer') = row.accepted
           /\ ~row.parsed => answer' = <<>>
<1> DEFINE n == calls
<1>1. /\ pc = "calling" /\ n < TotalCalls
      /\ turn \in DOMAIN Sweeps /\ n \in Nat
  BY DEF Call, QueueInv, SweepInv
<1>2. PICK reply \in Answers(Asked(n).article, VisibleFields(Shown(Asked(n)))) :
        SaveAnalysis(reply) /\ answer' = reply.findings
  BY DEF Call
<1>3. n < Total(queue, Sweep)
  BY <1>1 DEF Total, TotalCalls, CallsOfSweep
<1>4. /\ Asked(n).article \in Articles /\ Asked(n).variant \in {"title", "title_lead"}
      /\ Asked(n).grammar \in Range(Sweep.grammars)
      /\ Asked(n).article = queue[ArticleAt(n, Len(queue), Sweep.repeat) + 1]
      /\ Asked(n).variant =
           Sweep.variants[VariantAt(n, Len(queue), Sweep.repeat, Len(Sweep.variants)) + 1]
      /\ Asked(n).grammar =
           Sweep.grammars[GrammarAt(n, Len(queue), Sweep.repeat, Len(Sweep.variants)) + 1]
  BY <1>1, <1>3, AskedFacts
<1>5. VisibleFields(Shown(Asked(n))) \in SUBSET {"title", "lead"}
  BY DEF VisibleFields
<1>6. /\ reply.parsed \in BOOLEAN /\ IsSeq(reply.findings)
      /\ ~reply.parsed => reply.findings = <<>>
  BY <1>2, <1>4, <1>5, AnswersAssumption
<1>7. Len(reply.findings) \in Nat
  BY <1>6, SequenceType
<1> DEFINE asked == Asked(n)
           row == [run |-> turn, article |-> asked.article, variant |-> Shown(asked),
                   grammar |-> asked.grammar, source |-> Sweep.source,
                   parsed |-> reply.parsed, accepted |-> Len(reply.findings)]
<1>8. rows' = Append(rows, row) /\ found' = Append(found, <<>>)
  BY <1>2 DEF SaveAnalysis
<1> HIDE DEF asked, n
<1>9. Shown(asked) = IF asked.variant = "title_lead" /\ HasLead[asked.article] THEN "title_lead" ELSE "title"
  BY DEF Shown
<1>10. /\ Range(Sweep.grammars) \in {Range(Sweeps[s].grammars) : s \in DOMAIN Sweeps}
       /\ Sweep.source \in {Sweeps[s].source : s \in DOMAIN Sweeps}
  BY <1>1 DEF Sweep
<1>11. row \in Record
  BY <1>1, <1>4, <1>6, <1>7, <1>9, <1>10 DEF Record, asked
<1>12. Records(row, n, queue, Sweep)
  BY <1>4, <1>9 DEF Records, asked
<1>13. QED BY <1>2, <1>6, <1>8, <1>11, <1>12 DEF n

LEMMA TablesNext ==
  ASSUME QueueInv, SweepInv, TablesInv, [Next]_vars
  PROVE  TablesInv'
<1>1. /\ rows \in Seq(Record) /\ found \in Seq(Range(found)) /\ Len(found) = Len(rows)
      /\ Len(rows) \in Nat
  BY SequenceType DEF TablesInv
<1>2. CASE Call
  <2>1. PICK row \in Record :
           /\ rows' = Append(rows, row)
           /\ found' = Append(found, <<>>) /\ IsSeq(answer') /\ Len(answer') = row.accepted
           /\ ~row.parsed => answer' = <<>>
    BY <1>2, CallStores
  <2>2. /\ rows' \in Seq(Record) /\ Len(rows') = Len(rows) + 1 /\ rows'[Len(rows) + 1] = row
        /\ \A i \in 1..Len(rows) : rows'[i] = rows[i]
    BY <1>1, <2>1
  <2>3. /\ found' \in Seq(Range(found) \cup {<<>>}) /\ Len(found') = Len(rows) + 1
        /\ found'[Len(rows) + 1] = <<>> /\ \A i \in 1..Len(rows) : found'[i] = found[i]
    BY <1>1, <2>1
  <2>4. IsSeq(found')
    BY <2>3 DEF IsSeq, Range
  <2>5. IsSeq(<<>>) /\ Len(<<>>) = 0 /\ row.accepted \in Nat
    BY DEF IsSeq, Range, Record
  <2>6. ASSUME NEW i \in 1..Len(rows')
        PROVE  /\ IsSeq(found'[i]) /\ Len(found'[i]) <= rows'[i].accepted
               /\ ~rows'[i].parsed => found'[i] = <<>>
    <3>1. CASE i = Len(rows) + 1
      BY <2>2, <2>3, <2>5, <3>1
    <3>2. CASE i \in 1..Len(rows)
      BY <2>2, <2>3, <3>2 DEF TablesInv
    <3>3. QED BY <1>1, <2>2, <3>1, <3>2
  <2>7. rows' # <<>>
    BY <1>1, <2>2
  <2>8. QED BY <2>1, <2>2, <2>3, <2>4, <2>6, <2>7 DEF TablesInv
<1>3. CASE SaveFindings
  <2>1. /\ pc = "saving" /\ found' = [found EXCEPT ![Len(found)] = answer]
        /\ pc' = "calling" /\ answer' = <<>> /\ rows' = rows
    BY <1>3 DEF SaveFindings
  <2>2. /\ rows # <<>> /\ Len(answer) = rows[Len(rows)].accepted /\ IsSeq(answer)
        /\ ~rows[Len(rows)].parsed => answer = <<>>
    BY <2>1 DEF TablesInv
  <2>3. Len(rows) \in 1..Len(rows) /\ DOMAIN found = 1..Len(rows)
    BY <1>1, <2>2
  <2>4. /\ DOMAIN found' = 1..Len(rows) /\ found'[Len(rows)] = answer
        /\ \A i \in 1..Len(rows) : i # Len(rows) => found'[i] = found[i]
    BY <1>1, <2>1, <2>3
  <2>5. found' \in [1..Len(rows) -> Range(found')]
    BY <1>1, <2>1, <2>3, <2>4 DEF Range
  <2>6. IsSeq(found') /\ Len(found') = Len(rows)
    BY <1>1, <2>5 DEF IsSeq
  <2>7. \A i \in 1..Len(rows) : rows[i].accepted \in Nat
    <3>1. \A i \in 1..Len(rows) : rows[i] \in Record
      BY <1>1
    <3>2. QED BY <3>1 DEF Record
  <2>8. \A i \in 1..Len(rows') :
          /\ IsSeq(found'[i]) /\ Len(found'[i]) <= rows'[i].accepted
          /\ ~rows'[i].parsed => found'[i] = <<>>
    <3>1. ASSUME NEW i \in 1..Len(rows')
          PROVE  /\ IsSeq(found'[i]) /\ Len(found'[i]) <= rows'[i].accepted
                 /\ ~rows'[i].parsed => found'[i] = <<>>
      <4>1. CASE i = Len(rows)
        <5>1. rows'[i] = rows[Len(rows)] /\ found'[i] = answer
          BY <2>1, <2>4, <4>1
        <5>2. Len(answer) <= rows[Len(rows)].accepted
          BY <2>2, <2>3, <2>7
        <5>3. QED BY <2>2, <5>1, <5>2
      <4>2. CASE i # Len(rows)
        <5>1. i \in 1..Len(rows) /\ rows'[i] = rows[i] /\ found'[i] = found[i]
          BY <2>1, <2>4, <4>2
        <5>2. QED BY <5>1 DEF TablesInv
      <4>3. QED BY <4>1, <4>2
    <3>2. QED BY <3>1
  <2>9. IsSeq(<<>>)
    BY DEF IsSeq, Range
  <2>10. QED BY <1>1, <2>1, <2>6, <2>8, <2>9 DEF TablesInv
<1>4. ASSUME UNCHANGED tables, answer' = answer, pc' = pc \/ pc' = "idle" \/ pc' = "calling"
      PROVE  TablesInv'
  BY <1>4 DEF TablesInv, tables
<1>5. CASE Crash
  <2>1. IsSeq(<<>>)
    BY DEF IsSeq, Range
  <2>2. QED BY <1>5, <2>1 DEF Crash, TablesInv, tables
<1>6. CASE Sample \/ Annotate
  BY <1>4, <1>6 DEF Sample, Annotate, sweepVars
<1>7. CASE StartSweep
  BY <1>4, <1>7 DEF StartSweep
<1>8. CASE FailedCall \/ FinishSweep
  BY <1>4, <1>8 DEF FailedCall, FinishSweep
<1>9. CASE ReportStep
  BY <1>4, <1>9 DEF ReportStep, ReadRows, ReadFindings, ReadStability, sweepVars
<1>10. CASE UNCHANGED vars
  BY <1>4, <1>10 DEF vars, sweepVars
<1>11. QED BY <1>2, <1>3, <1>5, <1>6, <1>7, <1>8, <1>9, <1>10 DEF Next, SweepStep

\* A sweep that was whole stays so.
LEMMA WholeStays ==
  ASSUME CorpusInv, rows \in Seq(Record), Annotate \/ gold' = gold, NEW s \in DOMAIN Sweeps, Whole(s),
         \/ rows' = rows
         \/ \E row \in Record : rows' = Append(rows, row) /\ row.run # s
  PROVE  Whole(s)'
<1>1. PICK q, base : /\ q # <<>> /\ Chosen(q, Sweeps[s].split, Sweeps[s].limit)
                     /\ Stored(s, q, base, Total(q, Sweeps[s]))
  BY DEF Whole
<1>2. Sweeps[s].split \in {"main", "holdout"}
  BY SweepFacts
<1>3. Chosen(q, Sweeps[s].split, Sweeps[s].limit)'
  BY <1>1, <1>2, ChosenStays
<1>4. Stored(s, q, base, Total(q, Sweeps[s]))'
  <2> DEFINE m == Total(q, Sweeps[s])
  <2> HIDE DEF m
  <2>1. Stored(s, q, base, m)
    BY <1>1 DEF m
  <2>2. Stored(s, q, base, m)'
    BY <2>1, StoredStays
  <2>3. QED BY <2>2 DEF m
<1>5. QED BY <1>1, <1>3, <1>4 DEF Whole

LEMMA SweepNext ==
  ASSUME CorpusInv, QueueInv, SweepInv, TablesInv, [Next]_vars
  PROVE  SweepInv'
<1>1. /\ rows \in Seq(Record) /\ Len(rows) \in Nat /\ turn \in Nat \ {0}
      /\ \A i \in 1..Len(rows) : rows[i] \in Record /\ rows[i].run \in Nat
  <2>1. rows \in Seq(Record) /\ turn \in Nat \ {0}
    BY DEF TablesInv, QueueInv
  <2>2. \A row \in Record : row.run \in Nat
    BY SweepFacts DEF Record
  <2>3. QED BY <2>1, <2>2
<1>2. ASSUME Annotate \/ gold' = gold, rows' = rows, printed' = printed, turn' \in {turn, turn + 1}
      PROVE  /\ \A i \in 1..Len(rows') : rows'[i].run <= turn'
             /\ printed' \in [DOMAIN Sweeps -> Nat \cup {None}]
             /\ \A s \in DOMAIN Sweeps : printed'[s] # None => s < turn'
             /\ \A s \in DOMAIN Sweeps : printed'[s] = 0 => Whole(s)'
  <2>1. \A s \in DOMAIN Sweeps : printed'[s] = 0 => Whole(s)'
    BY <1>1, <1>2, WholeStays DEF SweepInv
  <2>2. \A i \in 1..Len(rows') : rows'[i].run <= turn'
    BY <1>1, <1>2 DEF SweepInv
  <2>3. \A s \in DOMAIN Sweeps : printed'[s] # None => s < turn'
    <3>1. \A s \in DOMAIN Sweeps : s \in Nat
      BY SweepFacts
    <3>2. QED BY <1>1, <1>2, <3>1 DEF SweepInv
  <2>4. QED BY <1>2, <2>1, <2>2, <2>3 DEF SweepInv
<1>3. ASSUME turn' = turn + 1, pc' = "idle", rows' = rows, calls' = 0, failures' = 0,
             printed' = printed, gold' = gold
      PROVE  SweepInv'
  <2>1. \A i \in 1..Len(rows) : rows[i].run < turn + 1
    BY <1>1 DEF SweepInv
  <2>2. QED BY <1>2, <1>3, <2>1 DEF SweepInv
<1>4. ASSUME Annotate \/ gold' = gold,
             UNCHANGED <<turn, pc, queue, calls, failures, printed, rows>>
      PROVE  SweepInv'
  <2>1. Sweep' = Sweep /\ Started' = Started
    BY <1>4 DEF Sweep, Started
  <2>2. pc' # "idle" => Started' <= Total(queue', Sweep')
    BY <1>4, <2>1 DEF SweepInv
  <2>3. pc' # "idle" /\ failures' = 0 => Stored(turn, queue, Len(rows) - Started, Started)'
    BY <1>4, <2>1 DEF SweepInv, Stored
  <2>4. QED BY <1>2, <1>4, <2>2, <2>3 DEF SweepInv
<1>5. CASE StartSweep
  <2>1. /\ pc = "idle" /\ turn \in DOMAIN Sweeps /\ calls' = 0 /\ failures' = 0
        /\ IF queue' = <<>> THEN turn' = turn + 1 /\ pc' = pc
           ELSE pc' = "calling" /\ turn' = turn
        /\ gold' = gold /\ rows' = rows /\ printed' = printed
        /\ queue' = LoadGold(Sweep.split, Sweep.limit)
    BY <1>5 DEF StartSweep, corpusVars, tables
  <2>2. CASE queue' = <<>>
    BY <1>3, <2>1, <2>2
  <2>3. CASE queue' # <<>>
    <3>1. turn' = turn /\ pc' = "calling" /\ Started' = 0 /\ Sweep' = Sweep
      BY <2>1, <2>3 DEF Started, Sweep
    <3>2. Stored(turn, queue, Len(rows) - Started, Started)'
      <4>1. \A i \in 1..Len(rows) : rows[i].run < turn
        BY <2>1 DEF SweepInv
      <4>2. QED BY <1>1, <2>1, <3>1, <4>1 DEF Stored
    <3>3. Total(queue', Sweep') \in Nat
      <4>1. queue' \in Seq(Articles)
        BY <2>1, LoadGoldFacts, SweepFacts, ChosenSet DEF Sweep
      <4>2. QED BY <2>1, <2>3, <3>1, <4>1, TotalType DEF Sweep
    <3>4. QED BY <1>2, <2>1, <3>1, <3>2, <3>3 DEF SweepInv
  <2>4. QED BY <2>2, <2>3
<1>6. CASE FailedCall
  <2>1. /\ pc = "calling" /\ calls < TotalCalls /\ calls' = calls + 1 /\ failures' = failures + 1
        /\ gold' = gold /\ UNCHANGED <<turn, pc, queue, printed, rows>>
    BY <1>6 DEF FailedCall, corpusVars, tables
  <2>2. Started' = calls + 1 /\ calls < Total(queue, Sweep) /\ Sweep' = Sweep
    BY <2>1 DEF Started, Total, TotalCalls, CallsOfSweep, Sweep
  <2>3. Total(queue, Sweep) \in Nat
    <3>1. queue \in Seq(Articles) /\ queue # <<>> /\ turn \in DOMAIN Sweeps
      BY <2>1, ChosenSet DEF QueueInv
    <3>2. QED BY <3>1, TotalType DEF Sweep
  <2>4. Started' <= Total(queue', Sweep') /\ failures' # 0
    BY <2>1, <2>2, <2>3 DEF SweepInv
  <2>5. QED BY <1>2, <2>1, <2>4 DEF SweepInv
<1>7. CASE Call
  <2>1. PICK row \in Record :
           rows' = Append(rows, row) /\ row.run = turn /\ Records(row, calls, queue, Sweep)
    BY <1>7, CallStores
  <2>2. /\ pc = "calling" /\ pc' = "saving" /\ calls < TotalCalls /\ gold' = gold
        /\ UNCHANGED <<turn, queue, calls, failures, printed>>
    BY <1>7 DEF Call, corpusVars
  <2>3. Started = calls /\ Started' = calls + 1 /\ Sweep' = Sweep /\ calls \in Nat
    BY <2>2 DEF Started, Sweep, SweepInv
  <2>4. Started' <= Total(queue', Sweep')
    <3>1. queue \in Seq(Articles) /\ queue # <<>> /\ turn \in DOMAIN Sweeps
      BY <2>2, ChosenSet DEF QueueInv
    <3>2. Total(queue, Sweep) \in Nat
      BY <3>1, TotalType DEF Sweep
    <3>3. calls < Total(queue, Sweep)
      BY <2>2 DEF Total, TotalCalls, CallsOfSweep
    <3>4. QED BY <2>2, <2>3, <3>2, <3>3
  <2>5. failures' = 0 => Stored(turn, queue, Len(rows) - Started, Started)'
    <3> SUFFICES ASSUME failures = 0 PROVE Stored(turn, queue, Len(rows) - Started, Started)'
      BY <2>2
    <3> DEFINE s == turn
               q == queue
               m == calls
    <3> HIDE DEF s, q, m
    <3>1. Stored(s, q, Len(rows) - m, m) /\ Records(row, m, q, Sweeps[s]) /\ m \in Nat
      BY <2>1, <2>2, <2>3 DEF s, q, m, SweepInv, Sweep
    <3>2. Len(rows') = Len(rows) + 1 /\ row.run = s
      BY <1>1, <2>1 DEF s
    <3>3. rows' = Append(rows, row)
      BY <2>1
    <3>4. s' = s /\ q' = q /\ m' = m
      BY <2>2 DEF s, q, m
    <3>5. Stored(s, q, Len(rows) - (m + 1), m + 1)'
      BY <1>1, <3>1, <3>2, <3>3, <3>4, StoredGrows
    <3>6. QED BY <2>2, <2>3, <3>4, <3>5 DEF s, q, m
  <2>6. ASSUME NEW s \in DOMAIN Sweeps, printed'[s] = 0 PROVE Whole(s)'
    <3>1. s < turn /\ Whole(s) /\ s \in Nat
      BY <2>2, <2>6, SweepFacts, LimitsAssumption DEF SweepInv
    <3>2. row.run # s
      BY <1>1, <2>1, <3>1
    <3>3. QED BY <1>1, <2>1, <2>2, <3>1, <3>2, WholeStays
  <2>7. \A i \in 1..Len(rows') : rows'[i].run <= turn
    <3>1. ASSUME NEW i \in 1..Len(rows') PROVE rows'[i].run <= turn
      <4>1. CASE i = Len(rows) + 1
        BY <1>1, <2>1, <4>1
      <4>2. CASE i \in 1..Len(rows)
        BY <1>1, <2>1, <4>2 DEF SweepInv
      <4>3. QED BY <1>1, <2>1, <4>1, <4>2
    <3>2. QED BY <3>1
  <2>8. QED BY <2>2, <2>4, <2>5, <2>6, <2>7 DEF SweepInv
<1>8. CASE SaveFindings
  <2>1. /\ pc = "saving" /\ pc' = "calling" /\ calls' = calls + 1 /\ gold' = gold
        /\ UNCHANGED <<turn, queue, failures, printed, rows>>
    BY <1>8 DEF SaveFindings, corpusVars
  <2>2. Started' = Started /\ Sweep' = Sweep
    BY <2>1 DEF Started, Sweep
  <2>3. failures' = 0 => Stored(turn, queue, Len(rows) - Started, Started)'
    BY <2>1, <2>2 DEF SweepInv, Stored
  <2>4. Started' <= Total(queue', Sweep')
    BY <2>1, <2>2 DEF SweepInv
  <2>5. QED BY <1>2, <2>1, <2>3, <2>4 DEF SweepInv
<1>9. CASE FinishSweep
  <2>1. /\ pc = "calling" /\ calls = TotalCalls /\ printed' = [printed EXCEPT ![turn] = failures]
        /\ turn' = turn + 1 /\ pc' = "idle" /\ calls' = 0 /\ failures' = 0
        /\ gold' = gold /\ queue' = queue /\ rows' = rows
    BY <1>9 DEF FinishSweep, corpusVars, tables
  <2>2. /\ turn \in DOMAIN Sweeps /\ failures \in Nat
        /\ printed \in [DOMAIN Sweeps -> Nat \cup {None}]
    BY <2>1 DEF QueueInv, SweepInv
  <2>3. ASSUME NEW s \in DOMAIN Sweeps, printed'[s] = 0 PROVE Whole(s)'
    <3>1. Whole(s)
      <4>1. CASE s = turn
        <5>1. failures = 0
          BY <2>1, <2>2, <2>3, <4>1
        <5>2. Started = Total(queue, Sweep)
          BY <2>1 DEF Started, Total, TotalCalls, CallsOfSweep
        <5>3. /\ queue # <<>> /\ Chosen(queue, Sweep.split, Sweep.limit)
              /\ Stored(turn, queue, Len(rows) - Started, Total(queue, Sweep))
          BY <2>1, <5>1, <5>2 DEF QueueInv, SweepInv
        <5>4. QED BY <4>1, <5>3 DEF Whole, Sweep
      <4>2. CASE s # turn
        BY <2>1, <2>2, <2>3, <4>2 DEF SweepInv
      <4>3. QED BY <4>1, <4>2
    <3>2. QED BY <1>1, <2>1, <3>1, WholeStays
  <2>4. printed' \in [DOMAIN Sweeps -> Nat \cup {None}]
    BY <2>1, <2>2
  <2>5. \A s \in DOMAIN Sweeps : printed'[s] # None => s < turn'
    <3>1. \A s \in DOMAIN Sweeps : s \in Nat
      BY SweepFacts
    <3>2. QED BY <1>1, <2>1, <2>2, <3>1 DEF SweepInv
  <2>6. \A i \in 1..Len(rows') : rows'[i].run < turn' /\ rows'[i].run <= turn'
    BY <1>1, <2>1 DEF SweepInv
  <2>7. QED BY <2>1, <2>3, <2>4, <2>5, <2>6 DEF SweepInv
<1>10. CASE Crash
  BY <1>3, <1>10 DEF Crash, corpusVars, tables
<1>11. CASE Sample \/ Annotate
  BY <1>4, <1>11 DEF Sample, Annotate, sweepVars, tables
<1>12. CASE ReportStep
  BY <1>4, <1>12 DEF ReportStep, ReadRows, ReadFindings, ReadStability, corpusVars, sweepVars, tables
<1>13. CASE UNCHANGED vars
  BY <1>4, <1>13 DEF vars, corpusVars, sweepVars, tables
<1>14. QED BY <1>5, <1>6, <1>7, <1>8, <1>9, <1>10, <1>11, <1>12, <1>13 DEF Next, SweepStep

LEMMA InitSweep == Init => SweepInv /\ TablesInv
<1> SUFFICES ASSUME Init PROVE SweepInv /\ TablesInv
  OBVIOUS
<1>1. IsSeq(<<>>)
  BY DEF IsSeq, Range
<1>2. TablesInv
  BY <1>1 DEF Init, TablesInv
<1>3. SweepInv
  BY LimitsAssumption DEF Init, SweepInv
<1>4. QED BY <1>2, <1>3

LEMMA SweepInvariant == Spec => [](CorpusInv /\ QueueInv /\ SweepInv /\ TablesInv)
<1>1. Init => CorpusInv /\ QueueInv /\ SweepInv /\ TablesInv
  BY InitQueue, InitSweep
<1>2. CorpusInv /\ QueueInv /\ SweepInv /\ TablesInv /\ [Next]_vars
        => (CorpusInv /\ QueueInv /\ SweepInv /\ TablesInv)'
  BY CorpusNext, QueueNext, SweepNext, TablesNext
<1>3. QED BY <1>1, <1>2, PTL DEF Spec

-----------------------------------------------------------------------------
(***************************************************************************)
(* What a whole sweep holds.                                               *)
(***************************************************************************)
CellRows(s, a, v, g) ==
  {i \in RowsOf(s) : rows[i].article = a /\ rows[i].variant = v /\ rows[i].grammar = g}

LEMMA WholeSweepCounts ==
  ASSUME NEW s \in DOMAIN Sweeps, rows \in Seq(Record), NEW q \in Seq(Articles), q # <<>>,
         \A j, k \in DOMAIN q : q[j] = q[k] => j = k,
         NEW base, Stored(s, q, base, Total(q, Sweeps[s]))
  PROVE  /\ {rows[i].article : i \in RowsOf(s)} = ToSet(q)
         /\ \A a \in ToSet(q), v \in ToSet(Sweeps[s].variants), g \in ToSet(Sweeps[s].grammars) :
              IF HasLead[a] THEN Cardinality(CellRows(s, a, v, g)) = Sweeps[s].repeat
              ELSE Cardinality(CellRows(s, a, "title", g)) = Sweeps[s].repeat * Len(Sweeps[s].variants)
<1> DEFINE args == Sweeps[s]
           L == Len(q)
           R == args.repeat
           V == Len(args.variants)
           G == Len(args.grammars)
           T == CallsOfSweep(L, R, V, G)
           at(i) == ArticleAt(i - base - 1, L, R)
           vt(i) == VariantAt(i - base - 1, L, R, V)
           gt(i) == GrammarAt(i - base - 1, L, R, V)
<1>1. /\ R \in Nat \ {0} /\ V \in Nat \ {0} /\ G \in Nat \ {0}
      /\ \A k \in 1..V : args.variants[k] \in {"title", "title_lead"}
      /\ \A j, k \in 1..V : args.variants[j] = args.variants[k] => j = k
      /\ \A k \in 1..G : args.grammars[k] \in Range(args.grammars)
      /\ \A j, k \in 1..G : args.grammars[j] = args.grammars[k] => j = k
  BY AxisFacts
<1>2. DOMAIN args.variants = 1..V /\ DOMAIN args.grammars = 1..G
  BY SweepsAssumption, SequenceType
<1>3. L \in Nat \ {0} /\ DOMAIN q = 1..L
  OBVIOUS
<1>4. Total(q, args) = T
  BY DEF Total
<1> HIDE DEF L, R, V, G
<1>5. T \in Nat /\ base \in Nat
  BY <1>1, <1>3, Products DEF CallsOfSweep, Stored
<1>6. DOMAIN rows = 1..Len(rows) /\ Len(rows) \in Nat
  OBVIOUS
<1> HIDE DEF T
<1>7. RowsOf(s) = base + 1 .. base + T
  <2>1. base + T <= Len(rows) /\ \A i \in 1..Len(rows) : rows[i].run = s <=> i \in base + 1 .. base + T
    BY <1>4 DEF Stored
  <2>2. \A i \in base + 1 .. base + T : i \in 1..Len(rows)
    BY <1>5, <1>6, <2>1
  <2>3. QED BY <1>6, <2>1, <2>2 DEF RowsOf
<1>8. ASSUME NEW i \in base + 1 .. base + T
      PROVE  at(i) \in 0..L-1 /\ vt(i) \in 0..V-1 /\ gt(i) \in 0..G-1
  <2>1. i - base - 1 \in 0..T-1
    BY <1>5
  <2>2. QED BY <1>1, <1>3, <2>1, CallAsks DEF T
<1>9. ASSUME NEW i \in base + 1 .. base + T
      PROVE  /\ rows[i].article = q[at(i) + 1]
             /\ rows[i].variant = IF args.variants[vt(i) + 1] = "title_lead" /\ HasLead[rows[i].article]
                                  THEN "title_lead" ELSE "title"
             /\ rows[i].grammar = args.grammars[gt(i) + 1]
  <2>1. Records(rows[i], i - base - 1, q, args)
    BY <1>4 DEF Stored
  <2>2. QED BY <2>1 DEF Records, L, R, V
<1> HIDE DEF at, vt, gt
<1>10. ASSUME NEW a \in 0..L-1, NEW i \in base + 1 .. base + T
       PROVE  rows[i].article = q[a + 1] <=> at(i) = a
  <2>1. a + 1 \in 1..L /\ at(i) + 1 \in 1..L /\ at(i) \in Int
    BY <1>3, <1>8
  <2>2. q[at(i) + 1] = q[a + 1] => at(i) = a
    BY <1>3, <2>1
  <2>3. QED BY <1>9, <2>2
<1>11. ASSUME NEW g \in 0..G-1, NEW i \in base + 1 .. base + T
       PROVE  rows[i].grammar = args.grammars[g + 1] <=> gt(i) = g
  <2>1. g + 1 \in 1..G /\ gt(i) + 1 \in 1..G /\ gt(i) \in Int
    BY <1>1, <1>8
  <2>2. args.grammars[gt(i) + 1] = args.grammars[g + 1] => gt(i) = g
    BY <1>1, <2>1
  <2>3. QED BY <1>9, <2>2
<1>12. \A a \in ToSet(q) : \E k \in 0..L-1 : a = q[k + 1]
  <2>1. \A a \in ToSet(q) : \E k \in 1..L : a = q[k]
    BY <1>3 DEF ToSet
  <2>2. \A k \in 1..L : k - 1 \in 0..L-1 /\ (k - 1) + 1 = k
    BY <1>3
  <2>3. QED BY <2>1, <2>2
<1>13. \A g \in ToSet(args.grammars) : \E k \in 0..G-1 : g = args.grammars[k + 1]
  <2>1. \A g \in ToSet(args.grammars) : \E k \in 1..G : g = args.grammars[k]
    BY <1>2 DEF ToSet
  <2>2. \A k \in 1..G : k - 1 \in 0..G-1 /\ (k - 1) + 1 = k
    BY <1>1
  <2>3. QED BY <2>1, <2>2
<1>14. \A v \in ToSet(args.variants) : \E k \in 0..V-1 : v = args.variants[k + 1]
  <2>1. \A v \in ToSet(args.variants) : \E k \in 1..V : v = args.variants[k]
    BY <1>2 DEF ToSet
  <2>2. \A k \in 1..V : k - 1 \in 0..V-1 /\ (k - 1) + 1 = k
    BY <1>1
  <2>3. QED BY <2>1, <2>2
<1>15. {rows[i].article : i \in RowsOf(s)} = ToSet(q)
  <2>1. ASSUME NEW i \in RowsOf(s) PROVE rows[i].article \in ToSet(q)
    <3>1. at(i) + 1 \in 1..L /\ rows[i].article = q[at(i) + 1]
      BY <1>3, <1>7, <1>8, <1>9, <2>1
    <3>2. QED BY <1>3, <3>1 DEF ToSet
  <2>2. ASSUME NEW a \in ToSet(q) PROVE \E i \in RowsOf(s) : rows[i].article = a
    <3>1. PICK k \in 0..L-1 : a = q[k + 1]
      BY <1>12
    <3> DEFINE n == CallNo(k, 0, 0, 0, L, R, V)
    <3>2. n = CallNo(k, 0, 0, 0, L, R, V) /\ 0 \in 0..V-1 /\ 0 \in 0..G-1 /\ 0 \in 0..R-1
      BY <1>1
    <3> HIDE DEF n
    <3>3. n \in 0..T-1 /\ ArticleAt(n, L, R) = k
      <4>1. n \in 0..CallsOfSweep(L, R, V, G)-1 /\ IsCall(n, k, 0, 0, 0, L, R, V)
        BY <1>1, <1>3, <3>2, CallIsMade
      <4>2. QED BY <4>1 DEF T, IsCall
    <3>4. base + 1 + n \in base + 1 .. base + T /\ (base + 1 + n) - base - 1 = n
      BY <1>5, <3>3
    <3>5. at(base + 1 + n) = k
      BY <3>3, <3>4 DEF at
    <3>6. QED BY <1>7, <1>9, <3>1, <3>4, <3>5
  <2>3. QED BY <2>1, <2>2
<1>16. ASSUME NEW a \in ToSet(q), NEW v \in ToSet(args.variants), NEW g \in ToSet(args.grammars), HasLead[a]
       PROVE  Cardinality(CellRows(s, a, v, g)) = R
  <2>1. PICK ka \in 0..L-1 : a = q[ka + 1]
    BY <1>12
  <2>2. PICK kv \in 0..V-1 : v = args.variants[kv + 1]
    BY <1>14
  <2>3. PICK kg \in 0..G-1 : g = args.grammars[kg + 1]
    BY <1>13
  <2>4. ASSUME NEW i \in base + 1 .. base + T, rows[i].article = a
        PROVE  rows[i].variant = v <=> vt(i) = kv
    <3>1. kv + 1 \in 1..V /\ vt(i) + 1 \in 1..V /\ vt(i) \in Int
      BY <1>1, <1>8
    <3>2. args.variants[vt(i) + 1] = args.variants[kv + 1] <=> vt(i) = kv
      BY <1>1, <3>1
    <3>3. rows[i].variant = args.variants[vt(i) + 1]
      BY <1>1, <1>9, <1>16, <2>4, <3>1
    <3>4. QED BY <2>2, <3>2, <3>3
  <2> DEFINE K == CellRows(s, a, v, g)
  <2>5. ASSUME NEW i
        PROVE i \in K <=> i \in base + 1 .. base + T /\ at(i) = ka /\ vt(i) = kv /\ gt(i) = kg
    BY <1>7, <1>10, <1>11, <2>1, <2>3, <2>4 DEF CellRows
  <2> HIDE DEF K
  <2>6. Cardinality(K) = R
    <3>1. Axes(L, R, V, G) /\ base \in Nat
      BY <1>1, <1>3, <1>5 DEF Axes
    <3>2. CallsAbout(K, base, ka, kv, kg, L, R, V, G)
      BY <2>5, <3>1 DEF at, vt, gt, T, CallsAbout
    <3>3. QED BY <3>2, Repetitions
  <2>7. QED BY <2>6 DEF K
<1>17. ASSUME NEW a \in ToSet(q), NEW g \in ToSet(args.grammars), ~HasLead[a]
       PROVE  Cardinality(CellRows(s, a, "title", g)) = R * V
  <2>1. PICK ka \in 0..L-1 : a = q[ka + 1]
    BY <1>12
  <2>2. PICK kg \in 0..G-1 : g = args.grammars[kg + 1]
    BY <1>13
  <2> DEFINE K == CellRows(s, a, "title", g)
  <2>3. ASSUME NEW i
        PROVE i \in K <=> i \in base + 1 .. base + T /\ at(i) = ka /\ gt(i) = kg
    BY <1>7, <1>9, <1>10, <1>11, <1>17, <2>1, <2>2 DEF CellRows
  <2> HIDE DEF K
  <2>4. Cardinality(K) = R * V
    <3>1. Axes(L, R, V, G) /\ base \in Nat
      BY <1>1, <1>3, <1>5 DEF Axes
    <3>2. CallsAboutArticle(K, base, ka, kg, L, R, V, G)
      BY <2>3, <3>1 DEF at, gt, T, CallsAboutArticle
    <3>3. Division(Cardinality(K), R, V, 0)
      BY <3>2, RepetitionsOfAll
    <3>4. R * V \in Nat
      BY <1>1, Products
    <3>5. QED BY <3>3, <3>4 DEF Division
  <2>5. QED BY <2>4 DEF K
<1>18. QED BY <1>15, <1>16, <1>17 DEF R, V

\* run_eval.py:3: a sweep that ended with no provider error holds what it was
\* asked for.
THEOREM EveryCallIsAlwaysAccounted == Spec => []EveryCallIsAccounted
<1>1. CorpusInv /\ SweepInv /\ TablesInv => EveryCallIsAccounted
  <2> SUFFICES ASSUME SweepInv, TablesInv, NEW s \in DOMAIN Sweeps, printed[s] = 0
               PROVE  LET args == Sweeps[s]
                          eligible == {a \in Articles : gold[a] = args.split}
                          called == {rows[i].article : i \in RowsOf(s)}
                          all == Cardinality(eligible)
                      IN /\ called \subseteq eligible
                         /\ Cardinality(called) = IF args.limit = None \/ all <= args.limit THEN all ELSE args.limit
                         /\ \A a \in called, v \in ToSet(args.variants), g \in ToSet(args.grammars) :
                           IF HasLead[a] THEN CallsOf(s, a, v, g) = args.repeat
                           ELSE CallsOf(s, a, "title", g) = args.repeat * Len(args.variants)
    BY DEF EveryCallIsAccounted
  <2> DEFINE args == Sweeps[s]
             called == {rows[i].article : i \in RowsOf(s)}
  <2>1. PICK q, base : /\ q # <<>> /\ Chosen(q, args.split, args.limit)
                       /\ Stored(s, q, base, Total(q, args))
    BY DEF SweepInv, Whole
  <2>2. q \in Seq(Articles) /\ ToSet(q) \subseteq Split(args.split)
    BY <2>1, ChosenSet
  <2>3. /\ \A j, k \in DOMAIN q : q[j] = q[k] => j = k
        /\ Len(q) = IF args.limit = None \/ Cardinality(Split(args.split)) <= args.limit
                    THEN Cardinality(Split(args.split)) ELSE args.limit
    BY <2>1 DEF Chosen, Split
  <2>4. rows \in Seq(Record)
    BY DEF TablesInv
  <2>5. /\ called = ToSet(q)
        /\ \A a \in ToSet(q), v \in ToSet(args.variants), g \in ToSet(args.grammars) :
              IF HasLead[a] THEN Cardinality(CellRows(s, a, v, g)) = args.repeat
              ELSE Cardinality(CellRows(s, a, "title", g)) = args.repeat * Len(args.variants)
    BY <2>1, <2>2, <2>3, <2>4, WholeSweepCounts
  <2>6. Cardinality(ToSet(q)) = Len(q)
    BY <2>2, <2>3, DistinctLength
  <2>7. \A a, v, g : CallsOf(s, a, v, g) = Cardinality(CellRows(s, a, v, g))
    BY DEF CallsOf, CellRows
  <2> HIDE DEF called
  <2>8. Cardinality(called) = Len(q) /\ called \subseteq Split(args.split)
    BY <2>2, <2>5, <2>6
  <2>9. /\ called \subseteq Split(args.split)
        /\ Cardinality(called) = IF args.limit = None \/ Cardinality(Split(args.split)) <= args.limit
                                 THEN Cardinality(Split(args.split)) ELSE args.limit
    BY <2>3, <2>8
  <2>10. \A a \in called, v \in ToSet(args.variants), g \in ToSet(args.grammars) :
           IF HasLead[a] THEN CallsOf(s, a, v, g) = args.repeat
           ELSE CallsOf(s, a, "title", g) = args.repeat * Len(args.variants)
    BY <2>5, <2>7
  <2>11. QED BY <2>9, <2>10 DEF called, Split
<1>2. QED BY <1>1, SweepInvariant, PTL

-----------------------------------------------------------------------------
(***************************************************************************)
(* What the report counts.                                                 *)
(***************************************************************************)
LEMMA ExpectedType ==
  ASSUME NEW labels, IsSeq(labels), NEW variant
  PROVE  /\ DOMAIN Expected(labels, variant) \in SUBSET (Nat \ {0})
         /\ DOMAIN Expected(labels, variant) \subseteq 1..Len(labels)
         /\ IsFiniteSet(DOMAIN Expected(labels, variant))
<1>1. DOMAIN labels = 1..Len(labels) /\ Len(labels) \in Nat
  BY SequenceType
<1>2. DOMAIN Expected(labels, variant) \subseteq 1..Len(labels)
  BY <1>1 DEF Expected
<1>3. IsFiniteSet(1..Len(labels))
  BY <1>1, FS_Interval
<1> HIDE DEF Expected
<1>4. QED BY <1>1, <1>2, <1>3, FS_Subset

\* What is credited to the findings of a call.
LEMMA CreditFacts ==
  ASSUME NEW f, IsSeq(f), NEW e, DOMAIN e \in SUBSET (Nat \ {0})
  PROVE  LET c == Credit(f, e)
         IN /\ c \in [1..Len(f) -> Nat] /\ Len(f) \in Nat
            /\ \A k \in 1..Len(f) : Credited(c, f, e, k)
            /\ FairCredit(c, f, e, Len(f))
            /\ TruePositives(f, e) = Hits(c, Len(f))
<1> DEFINE c == Credit(f, e)
<1>1. f \in Seq(Range(f)) /\ Len(f) \in Nat /\ DOMAIN f = 1..Len(f)
  BY SequenceType
<1>2. c \in [1..Len(f) -> Nat] /\ \A k \in 1..Len(f) : Credited(c, f, e, k)
  BY <1>1, CreditRule
<1>3. TruePositives(f, e) = Hits(c, Len(f))
  BY <1>1 DEF TruePositives, Hits
<1> HIDE DEF c
<1>4. FairCredit(c, f, e, Len(f))
  BY <1>1, <1>2, CreditedOnce
<1>5. QED BY <1>1, <1>2, <1>3, <1>4 DEF c

LEMMA OrdersAre ==
  ASSUME NEW s, IsSeq(s), NEW f \in Orders(s)
  PROVE  /\ IsSeq(f) /\ Len(f) = Len(s)
         /\ \E p \in Bijection(1..Len(s), 1..Len(s)) : \A k \in 1..Len(s) : f[k] = s[p[k]]
<1>1. s \in Seq(Range(s)) /\ Len(s) \in Nat /\ DOMAIN s = 1..Len(s)
  BY SequenceType
<1>2. PICK p \in Bijection(1..Len(s), 1..Len(s)) : f = [k \in 1..Len(s) |-> s[p[k]]]
  BY <1>1 DEF Orders
<1>3. f \in Seq(Range(f)) /\ Len(f) = Len(s)
  <2>1. f \in [1..Len(s) -> Range(f)]
    BY <1>2 DEF Range
  <2>2. QED BY <1>1, <2>1
<1>4. QED BY <1>2, <1>3 DEF IsSeq

\* metrics.py:357: the findings of a call are credited fairly in any order.
THEOREM CreditIsAlwaysFair == Spec => []CreditIsFair
<1>1. TablesInv => CreditIsFair
  <2> SUFFICES ASSUME TablesInv, NEW i \in DOMAIN rows,
                      NEW e, e = Expected(Labels[rows[i].article], rows[i].variant),
                      NEW f \in Orders(found[i])
               PROVE  LET credit == Credit(f, e)
                      IN /\ \A k, l \in DOMAIN credit : k # l /\ credit[k] = credit[l] => credit[k] = 0
                         /\ \A k \in DOMAIN f, l \in DOMAIN e :
                              Matches(f[k], e[l]) => credit[k] # 0 \/ l \in Range(credit)
                         /\ TruePositives(found[i], e) <= 2 * TruePositives(f, e)
    BY DEF CreditIsFair
  <2> DEFINE s == found[i]
             n == Len(s)
             c == Credit(s, e)
             d == Credit(f, e)
  <2>1. i \in 1..Len(rows) /\ rows[i] \in Record
    BY DEF TablesInv
  <2>2. IsSeq(s) /\ rows[i].article \in Articles
    BY <2>1 DEF TablesInv, Record
  <2>3. DOMAIN e \in SUBSET (Nat \ {0})
    BY <2>2, ExpectedType, ArticlesAssumption
  <2> HIDE DEF s
  <2>4. /\ IsSeq(f) /\ Len(f) = n /\ n \in Nat /\ DOMAIN f = 1..n
        /\ \E p \in Bijection(1..n, 1..n) : \A k \in 1..n : f[k] = s[p[k]]
    BY <2>2, OrdersAre, SequenceType DEF s
  <2>5. /\ c \in [1..n -> Nat] /\ \A k \in 1..n : Credited(c, s, e, k)
        /\ TruePositives(s, e) = Hits(c, n)
    BY <2>2, <2>3, CreditFacts
  <2>6. /\ d \in [1..n -> Nat] /\ \A k \in 1..n : Credited(d, f, e, k)
        /\ TruePositives(f, e) = Hits(d, n)
        /\ FairCredit(d, f, e, n)
    BY <2>3, <2>4, CreditFacts
  <2> HIDE DEF c, d, n
  <2>7. PICK p \in Bijection(1..n, 1..n) : \A k \in 1..n : f[k] = s[p[k]]
    BY <2>4
  <2>8. TruePositives(s, e) <= 2 * TruePositives(f, e)
    <3>1. Len(s) = n
      BY DEF n
    <3>2. Hits(c, n) <= 2 * Hits(d, n)
      BY <2>3, <2>4, <2>5, <2>6, <2>7, <3>1, OrderMattersTwofold
    <3>3. QED BY <2>5, <2>6, <3>2
  <2>9. DOMAIN d = 1..n /\ \A j \in 1..n : d[j] \in Range(d)
    BY <2>6 DEF Range
  <2>10. /\ \A k, l \in DOMAIN d : k # l /\ d[k] = d[l] => d[k] = 0
         /\ \A k \in DOMAIN f, l \in DOMAIN e : Matches(f[k], e[l]) => d[k] # 0 \/ l \in Range(d)
    BY <2>4, <2>6, <2>9 DEF FairCredit
  <2>11. QED BY <2>8, <2>10 DEF d, s
<1>2. QED BY <1>1, SweepInvariant, PTL

-----------------------------------------------------------------------------
(***************************************************************************)
(* The two variants of a sweep.                                            *)
(***************************************************************************)
\* Row i is repetition r of an article, variant and grammar mode, by number.
RowIs(i, s, q, base, a, v, g, r) ==
  LET args == Sweeps[s]
  IN /\ i = base + 1 + CallNo(a, v, g, r, Len(q), args.repeat, Len(args.variants))
     /\ rows[i].article = q[a + 1]
     /\ rows[i].variant = IF args.variants[v + 1] = "title_lead" /\ HasLead[q[a + 1]]
                          THEN "title_lead" ELSE "title"
     /\ rows[i].grammar = args.grammars[g + 1]
     /\ rows[i].source = args.source

LEMMA RowsOfWhole ==
  ASSUME NEW s \in DOMAIN Sweeps, rows \in Seq(Record), NEW q \in Seq(Articles), q # <<>>,
         NEW base, Stored(s, q, base, Total(q, Sweeps[s]))
  PROVE  LET args == Sweeps[s]
             L == Len(q)
             R == args.repeat
             V == Len(args.variants)
             G == Len(args.grammars)
         IN /\ base \in Nat
            /\ \A i \in RowsOf(s) : \E a \in 0..L-1, v \in 0..V-1, g \in 0..G-1, r \in 0..R-1 :
                 RowIs(i, s, q, base, a, v, g, r)
            /\ \A a \in 0..L-1, v \in 0..V-1, g \in 0..G-1, r \in 0..R-1 :
                 LET i == base + 1 + CallNo(a, v, g, r, L, R, V)
                 IN i \in RowsOf(s) /\ RowIs(i, s, q, base, a, v, g, r)
<1> DEFINE args == Sweeps[s]
           L == Len(q)
           R == args.repeat
           V == Len(args.variants)
           G == Len(args.grammars)
           T == CallsOfSweep(L, R, V, G)
<1>1. L \in Nat \ {0} /\ R \in Nat \ {0} /\ V \in Nat \ {0} /\ G \in Nat \ {0}
  BY AxisFacts
<1>2. Total(q, args) = T
  BY DEF Total
<1>3. /\ base \in Nat /\ base + T <= Len(rows) /\ DOMAIN rows = 1..Len(rows)
      /\ \A i \in 1..Len(rows) : rows[i].run = s <=> i \in base + 1 .. base + T
      /\ \A i \in base + 1 .. base + T : Records(rows[i], i - base - 1, q, args)
  BY <1>2 DEF Stored
<1>4. Len(rows) \in Nat
  OBVIOUS
<1>5. ASSUME NEW i, NEW a, NEW v, NEW g, NEW r, i \in base + 1 .. base + T,
             i = base + 1 + CallNo(a, v, g, r, L, R, V), IsCall(i - base - 1, a, v, g, r, L, R, V)
      PROVE  RowIs(i, s, q, base, a, v, g, r)
  <2>1. Records(rows[i], i - base - 1, q, args)
    BY <1>3, <1>5
  <2>2. /\ ArticleAt(i - base - 1, L, R) = a /\ VariantAt(i - base - 1, L, R, V) = v
        /\ GrammarAt(i - base - 1, L, R, V) = g
    BY <1>5 DEF IsCall
  <2>3. QED BY <1>5, <2>1, <2>2 DEF Records, RowIs
<1> HIDE DEF L, R, V, G
<1>6. T \in Nat
  BY <1>1, Products DEF CallsOfSweep
<1>7. ASSUME NEW i \in RowsOf(s)
      PROVE  \E a \in 0..L-1, v \in 0..V-1, g \in 0..G-1, r \in 0..R-1 :
               RowIs(i, s, q, base, a, v, g, r)
  <2> DEFINE n == i - base - 1
             a == ArticleAt(n, L, R)
             v == VariantAt(n, L, R, V)
             g == GrammarAt(n, L, R, V)
             r == n % R
  <2>1. i \in base + 1 .. base + T /\ i \in Int
    <3> HIDE DEF T
    <3>1. QED BY <1>3, <1>6, <1>7 DEF RowsOf
  <2>2. n \in 0..T-1
    <3> HIDE DEF T
    <3>1. QED BY <1>3, <1>6, <2>1
  <2>3. /\ a \in 0..L-1 /\ v \in 0..V-1 /\ g \in 0..G-1 /\ r \in 0..R-1
        /\ n = CallNo(a, v, g, r, L, R, V)
    <3> HIDE DEF n
    <3>1. QED BY <1>1, <2>2, CallAsks
  <2>4. IsCall(n, a, v, g, r, L, R, V)
    BY DEF IsCall
  <2>5. i = base + 1 + n
    <3> HIDE DEF T
    <3>1. QED BY <1>3, <1>6, <2>1
  <2> HIDE DEF a, v, g, r
  <2>6. RowIs(i, s, q, base, a, v, g, r)
    BY <1>5, <2>1, <2>3, <2>4, <2>5
  <2>7. QED BY <2>3, <2>6
<1>8. ASSUME NEW a \in 0..L-1, NEW v \in 0..V-1, NEW g \in 0..G-1, NEW r \in 0..R-1
      PROVE  LET i == base + 1 + CallNo(a, v, g, r, L, R, V)
             IN i \in RowsOf(s) /\ RowIs(i, s, q, base, a, v, g, r)
  <2> DEFINE n == CallNo(a, v, g, r, L, R, V)
             i == base + 1 + n
  <2>1. n = CallNo(a, v, g, r, L, R, V)
    OBVIOUS
  <2> HIDE DEF n
  <2>2. n \in 0..T-1 /\ IsCall(n, a, v, g, r, L, R, V)
    BY <1>1, <2>1, CallIsMade
  <2>3. i \in base + 1 .. base + T /\ i - base - 1 = n /\ i \in 1..Len(rows)
    <3> HIDE DEF T
    <3>1. QED BY <1>3, <1>4, <1>6, <2>2
  <2>4. i \in RowsOf(s)
    BY <1>3, <2>3 DEF RowsOf
  <2> HIDE DEF T
  <2>5. RowIs(i, s, q, base, a, v, g, r)
    BY <1>5, <2>1, <2>2, <2>3
  <2>6. QED BY <2>4, <2>5 DEF n
<1>9. QED BY <1>3, <1>7, <1>8 DEF L, R, V, G

\* Its rows of articles with a lead under one variant and grammar mode.
Line(s, v, g) ==
  {i \in RowsOf(s) : HasLead[rows[i].article] /\ rows[i].variant = v /\ rows[i].grammar = g}

LEMMA Counterparts ==
  ASSUME NEW s \in DOMAIN Sweeps, rows \in Seq(Record), NEW q \in Seq(Articles), q # <<>>,
         NEW base, Stored(s, q, base, Total(q, Sweeps[s])), NEW v, NEW w, NEW g, Line(s, w, g) # {}
  PROVE  /\ {rows[i].article : i \in Line(s, v, g)} \subseteq {rows[i].article : i \in Line(s, w, g)}
         /\ IsFiniteSet(Line(s, w, g))
         /\ Cardinality(Line(s, v, g)) <= Cardinality(Line(s, w, g))
<1> DEFINE args == Sweeps[s]
           L == Len(q)
           R == args.repeat
           V == Len(args.variants)
           G == Len(args.grammars)
           P(i, a, n, h, r) == RowIs(i, s, q, base, a, n, h, r)
           row(a, n, h, r) == base + 1 + CallNo(a, n, h, r, L, R, V)
<1>1. /\ L \in Nat \ {0} /\ R \in Nat \ {0} /\ V \in Nat \ {0} /\ G \in Nat \ {0}
      /\ \A k \in 1..V : args.variants[k] \in {"title", "title_lead"}
      /\ \A j, k \in 1..V : args.variants[j] = args.variants[k] => j = k
      /\ \A j, k \in 1..G : args.grammars[j] = args.grammars[k] => j = k
  BY AxisFacts
<1>2. /\ base \in Nat
      /\ \A i \in RowsOf(s) : \E a \in 0..L-1, n \in 0..V-1, h \in 0..G-1, r \in 0..R-1 :
           P(i, a, n, h, r)
      /\ \A a \in 0..L-1, n \in 0..V-1, h \in 0..G-1, r \in 0..R-1 :
           row(a, n, h, r) \in RowsOf(s) /\ P(row(a, n, h, r), a, n, h, r)
  BY RowsOfWhole
<1>3. \A i, a, n, h, r : P(i, a, n, h, r) =>
        /\ i = row(a, n, h, r) /\ rows[i].article = q[a + 1]
        /\ rows[i].variant = IF args.variants[n + 1] = "title_lead" /\ HasLead[q[a + 1]]
                             THEN "title_lead" ELSE "title"
        /\ rows[i].grammar = args.grammars[h + 1]
  BY DEF RowIs
<1> HIDE DEF P, L, R, V, G
<1>4. PICK z \in Line(s, w, g) : TRUE
  OBVIOUS
<1>5. PICK za \in 0..L-1, kw \in 0..V-1, kg \in 0..G-1, zr \in 0..R-1 : P(z, za, kw, kg, zr)
  BY <1>2, <1>4 DEF Line
<1>6. args.grammars[kg + 1] = g /\ w = IF args.variants[kw + 1] = "title_lead" THEN "title_lead" ELSE "title"
  <2> HIDE DEF row
  <2>1. /\ rows[z].article = q[za + 1]
        /\ rows[z].variant = IF args.variants[kw + 1] = "title_lead" /\ HasLead[q[za + 1]]
                             THEN "title_lead" ELSE "title"
        /\ rows[z].grammar = args.grammars[kg + 1]
    BY <1>3, <1>5
  <2>2. HasLead[rows[z].article] /\ rows[z].variant = w /\ rows[z].grammar = g
    BY <1>4 DEF Line
  <2>3. QED BY <2>1, <2>2
\* The row of the same article and repetition under the other variant.
<1>7. ASSUME NEW a \in 0..L-1, NEW r \in 0..R-1, HasLead[q[a + 1]]
      PROVE  row(a, kw, kg, r) \in Line(s, w, g) /\ rows[row(a, kw, kg, r)].article = q[a + 1]
  <2> DEFINE i == row(a, kw, kg, r)
  <2>1. i \in RowsOf(s) /\ P(i, a, kw, kg, r)
    BY <1>2
  <2> HIDE DEF row, i
  <2>4. /\ rows[i].article = q[a + 1] /\ rows[i].grammar = args.grammars[kg + 1]
        /\ rows[i].variant = IF args.variants[kw + 1] = "title_lead" /\ HasLead[q[a + 1]]
                             THEN "title_lead" ELSE "title"
    BY <1>3, <2>1
  <2>2. /\ rows[i].article = q[a + 1] /\ rows[i].grammar = g /\ rows[i].variant = w
    BY <1>6, <1>7, <2>4
  <2>3. QED BY <1>7, <2>1, <2>2 DEF Line, i
<1> DEFINE K == Line(s, v, g)
           at(i) == CHOOSE a \in 0..L-1 : \E n \in 0..V-1, h \in 0..G-1, r \in 0..R-1 : P(i, a, n, h, r)
           which(i) == CHOOSE n \in 0..V-1 : \E h \in 0..G-1, r \in 0..R-1 : P(i, at(i), n, h, r)
           mode(i) == CHOOSE h \in 0..G-1 : \E r \in 0..R-1 : P(i, at(i), which(i), h, r)
           time(i) == CHOOSE r \in 0..R-1 : P(i, at(i), which(i), mode(i), r)
<1>8. ASSUME NEW i \in K
      PROVE  /\ at(i) \in 0..L-1 /\ which(i) \in 0..V-1 /\ mode(i) \in 0..G-1 /\ time(i) \in 0..R-1
             /\ P(i, at(i), which(i), mode(i), time(i))
  <2>1. i \in RowsOf(s)
    BY <1>8 DEF Line
  <2>2. \E a \in 0..L-1 : \E n \in 0..V-1, h \in 0..G-1, r \in 0..R-1 : P(i, a, n, h, r)
    BY <1>2, <2>1
  <2> HIDE DEF L, V, R, G
  <2>3. at(i) \in 0..L-1 /\ \E n \in 0..V-1 : \E h \in 0..G-1, r \in 0..R-1 : P(i, at(i), n, h, r)
    BY <2>2
  <2> HIDE DEF at
  <2>4. which(i) \in 0..V-1 /\ \E h \in 0..G-1 : \E r \in 0..R-1 : P(i, at(i), which(i), h, r)
    BY <2>3
  <2> HIDE DEF which
  <2>5. mode(i) \in 0..G-1 /\ \E r \in 0..R-1 : P(i, at(i), which(i), mode(i), r)
    BY <2>4
  <2> HIDE DEF mode
  <2>6. time(i) \in 0..R-1 /\ P(i, at(i), which(i), mode(i), time(i))
    BY <2>5
  <2>7. QED BY <2>3, <2>4, <2>5, <2>6
<1> HIDE DEF at, which, mode, time
<1>9. ASSUME NEW i \in K PROVE HasLead[q[at(i) + 1]] /\ rows[i].article = q[at(i) + 1]
  <2>1. rows[i].article = q[at(i) + 1]
    BY <1>3, <1>8
  <2>2. QED BY <1>9, <2>1 DEF Line
<1>10. {rows[i].article : i \in K} \subseteq {rows[i].article : i \in Line(s, w, g)}
  <2> SUFFICES ASSUME NEW i \in K PROVE \E j \in Line(s, w, g) : rows[j].article = rows[i].article
    OBVIOUS
  <2> DEFINE j == row(at(i), kw, kg, time(i))
  <2>1. at(i) \in 0..L-1 /\ time(i) \in 0..R-1 /\ HasLead[q[at(i) + 1]]
    BY <1>8, <1>9
  <2>2. j \in Line(s, w, g) /\ rows[j].article = q[at(i) + 1]
    BY <1>7, <2>1
  <2> HIDE DEF j
  <2>3. QED BY <1>9, <2>2
<1>11. IsFiniteSet(Line(s, w, g))
  <2>1. Line(s, w, g) \subseteq 1..Len(rows) /\ IsFiniteSet(1..Len(rows))
    <3>1. DOMAIN rows = 1..Len(rows) /\ Len(rows) \in Nat
      OBVIOUS
    <3>2. IsFiniteSet(1..Len(rows))
      BY <3>1, FS_Interval
    <3>3. QED BY <3>1, <3>2 DEF Line, RowsOf
  <2>2. QED BY <2>1, FS_Subset
<1> DEFINE f == [i \in K |-> row(at(i), kw, kg, time(i))]
<1>12. f \in [K -> Line(s, w, g)]
  BY <1>7, <1>8, <1>9
\* Two rows of a line differ in their article or their repetition.
<1>13. ASSUME NEW i \in K, NEW j \in K, f[i] = f[j] PROVE i = j
  <2> DEFINE a == at(i)
             b == at(j)
             r == time(i)
             t == time(j)
  <2>1. /\ a \in 0..L-1 /\ b \in 0..L-1 /\ r \in 0..R-1 /\ t \in 0..R-1
        /\ row(a, kw, kg, r) = row(b, kw, kg, t)
    BY <1>8, <1>13
  <2> HIDE DEF a, b, r, t
  <2> DEFINE x == CallNo(a, kw, kg, r, L, R, V)
             y == CallNo(b, kw, kg, t, L, R, V)
  <2>2. x = CallNo(a, kw, kg, r, L, R, V) /\ y = CallNo(b, kw, kg, t, L, R, V) /\ base + 1 + x = base + 1 + y
    BY <2>1
  <2> HIDE DEF x, y
  <2>3. /\ x \in 0 .. CallsOfSweep(L, R, V, G) - 1 /\ IsCall(x, a, kw, kg, r, L, R, V)
        /\ y \in 0 .. CallsOfSweep(L, R, V, G) - 1 /\ IsCall(y, b, kw, kg, t, L, R, V)
    BY <1>1, <2>1, <2>2, CallIsMade
  <2>4. x = y
    BY <1>2, <2>2, <2>3
  <2>5. a = b /\ r = t
    BY <2>3, <2>4 DEF IsCall
  <2>6. which(i) = which(j) /\ mode(i) = mode(j)
    <3>1. args.variants[which(i) + 1] = v /\ args.variants[which(j) + 1] = v
      <4>1. ASSUME NEW k \in K PROVE args.variants[which(k) + 1] = v
        <5>1. args.variants[which(k) + 1] \in {"title", "title_lead"}
          <6>1. which(k) \in 0..V-1
            BY <1>8, <4>1
          <6>2. which(k) + 1 \in 1..V
            BY <1>1, <6>1
          <6>3. QED BY <1>1, <6>2
        <5>2. rows[k].variant = v /\ HasLead[q[at(k) + 1]]
          BY <1>9, <4>1 DEF Line
        <5>4. rows[k].variant = IF args.variants[which(k) + 1] = "title_lead" /\ HasLead[q[at(k) + 1]]
                               THEN "title_lead" ELSE "title"
          BY <1>3, <1>8, <4>1
        <5>3. QED BY <5>1, <5>2, <5>4
      <4>2. QED BY <4>1
    <3>2. args.grammars[mode(i) + 1] = g /\ args.grammars[mode(j) + 1] = g
      <4>1. ASSUME NEW k \in K PROVE args.grammars[mode(k) + 1] = g
        <5>1. rows[k].grammar = g
          BY <4>1 DEF Line
        <5>2. rows[k].grammar = args.grammars[mode(k) + 1]
          BY <1>3, <1>8, <4>1
        <5>3. QED BY <5>1, <5>2
      <4>2. QED BY <4>1
    <3> DEFINE ni == which(i)
               nj == which(j)
               hi == mode(i)
               hj == mode(j)
    <3>3. ni \in 0..V-1 /\ nj \in 0..V-1 /\ hi \in 0..G-1 /\ hj \in 0..G-1
      BY <1>8
    <3>6. /\ args.variants[ni + 1] = v /\ args.variants[nj + 1] = v
          /\ args.grammars[hi + 1] = g /\ args.grammars[hj + 1] = g
      BY <3>1, <3>2
    <3> HIDE DEF ni, nj, hi, hj
    <3>4. ni + 1 \in 1..V /\ nj + 1 \in 1..V /\ hi + 1 \in 1..G /\ hj + 1 \in 1..G
      BY <1>1, <3>3
    <3>5. ni + 1 = nj + 1 /\ hi + 1 = hj + 1
      BY <1>1, <3>4, <3>6
    <3>7. ni = nj /\ hi = hj
      BY <3>3, <3>5
    <3>8. QED BY <3>7 DEF ni, nj, hi, hj
  <2>7. i = row(a, which(i), mode(i), r) /\ j = row(b, which(j), mode(j), t)
    BY <1>3, <1>8 DEF a, b, r, t
  <2>8. QED BY <2>5, <2>6, <2>7
<1>14. Cardinality(K) <= Cardinality(Line(s, w, g))
  <2> HIDE DEF f, K
  <2>1. f \in Injection(K, Line(s, w, g))
    BY <1>12, <1>13 DEF Injection, IsInjective
  <2>2. QED BY <1>11, <2>1, FS_Injection
<1>15. QED BY <1>10, <1>11, <1>14

\* A report in progress has read rows that are still there.
ReadingInv == reading # None => reading \in 0..Len(rows)

LEMMA ReadingNext ==
  ASSUME QueueInv, SweepInv, TablesInv, ReadingInv, [Next]_vars
  PROVE  ReadingInv'
<1>1. rows \in Seq(Record) /\ Len(rows) \in Nat
  BY DEF TablesInv
<1>2. CASE Call
  <2>1. PICK row \in Record : rows' = Append(rows, row)
    BY <1>2, CallStores
  <2>2. reading' = reading
    BY <1>2 DEF Call, reportVars
  <2>3. Len(rows') = Len(rows) + 1
    BY <1>1, <2>1
  <2>4. QED BY <1>1, <2>2, <2>3 DEF ReadingInv
<1>3. CASE ReadRows
  BY <1>1, <1>3 DEF ReadRows, ReadingInv, sweepVars, tables
<1>4. CASE ReadFindings
  BY <1>4 DEF ReadFindings, ReadingInv, tables
<1>5. ASSUME reading' = reading, rows' = rows PROVE ReadingInv'
  BY <1>5 DEF ReadingInv
<1>6. CASE Sample \/ Annotate \/ ReadStability
  BY <1>5, <1>6 DEF Sample, Annotate, ReadStability, tables, reportVars
<1>7. CASE StartSweep \/ FailedCall \/ SaveFindings \/ FinishSweep \/ Crash
  BY <1>5, <1>7 DEF StartSweep, FailedCall, SaveFindings, FinishSweep, Crash, tables, reportVars
<1>8. CASE UNCHANGED vars
  BY <1>5, <1>8 DEF vars, tables, reportVars
<1>9. QED BY <1>2, <1>3, <1>4, <1>6, <1>7, <1>8 DEF Next, SweepStep, ReportStep

\* What the score of a group is told by: the key is that of its first row.
LEMMA ScoreGroupKey ==
  ASSUME NEW S, NEW data, NEW all, NEW labels
  PROVE  LET score == ScoreGroup(S, data, all, labels)
         IN /\ score.run = data[Min(S)].run /\ score.variant = data[Min(S)].variant
            /\ score.grammar = data[Min(S)].grammar /\ score.source = data[Min(S)].source
            /\ score.calls = Cardinality(S)
            /\ score.articles = {data[i].article : i \in S}
BY DEF ScoreGroup

\* A row of the join is the row with what the gold set says of its article.
LEMMA JoinedRow ==
  ASSUME NEW i \in DOMAIN rows
  PROVE  /\ Joined[i].run = rows[i].run /\ Joined[i].article = rows[i].article
         /\ Joined[i].variant = rows[i].variant /\ Joined[i].grammar = rows[i].grammar
         /\ Joined[i].source = rows[i].source /\ Joined[i].parsed = rows[i].parsed
         /\ Joined[i].accepted = rows[i].accepted /\ Joined[i].kind = Kind[rows[i].article]
BY DEF Joined

Group(S, i) == {j \in S : SameGroup(Joined[i], Joined[j])}

ScoreOf(score, K, i) ==
  /\ score.run = rows[i].run /\ score.variant = rows[i].variant
  /\ score.grammar = rows[i].grammar /\ score.source = rows[i].source
  /\ score.calls = Cardinality(K)
  /\ score.articles = {rows[j].article : j \in K}

\* The key of a score is that of each of its rows.
LEMMA KeyOfGroup ==
  ASSUME NEW S \in SUBSET (DOMAIN rows), rows \in Seq(Record), NEW i \in S,
         NEW all, NEW labels
  PROVE  ScoreOf(ScoreGroup(Group(S, i), Joined, all, labels), Group(S, i), i)
<1> DEFINE K == Group(S, i)
           score == ScoreGroup(K, Joined, all, labels)
           m == Min(K)
<1>1. i \in K /\ K \subseteq S
  BY DEF Group, SameGroup
<1>2. \A j \in K : SameGroup(Joined[i], Joined[j])
  BY DEF Group
<1>3. /\ score.run = Joined[m].run /\ score.variant = Joined[m].variant
      /\ score.grammar = Joined[m].grammar /\ score.source = Joined[m].source
      /\ score.calls = Cardinality(K) /\ score.articles = {Joined[j].article : j \in K}
  BY ScoreGroupKey
<1> HIDE DEF score, K
<1>4. m \in K
  <2>1. K \in SUBSET Nat /\ K # {}
    <3>1. DOMAIN rows \subseteq Nat
      OBVIOUS
    <3>2. QED BY <1>1, <3>1
  <2>2. QED BY <2>1, MinIs
<1> HIDE DEF m
<1>5. /\ Joined[i].run = Joined[m].run /\ Joined[i].variant = Joined[m].variant
      /\ Joined[i].grammar = Joined[m].grammar /\ Joined[i].source = Joined[m].source
  BY <1>2, <1>4 DEF SameGroup
<1>6. {Joined[j].article : j \in K} = {rows[j].article : j \in K}
  BY <1>1, JoinedRow
<1>7. QED BY <1>3, <1>5, <1>6, JoinedRow DEF score, K, ScoreOf

LEMMA GroupIsLine ==
  ASSUME rows \in Seq(Record), reading \in 0..Len(rows), NEW s \in DOMAIN Sweeps,
         NEW q, NEW base, Stored(s, q, base, Total(q, Sweeps[s])),
         \A j \in RowsOf(s) : j <= reading,
         NEW i \in Comparable(reading), rows[i].run = s
  PROVE  Group(Comparable(reading), i) = Line(s, rows[i].variant, rows[i].grammar)
<1>1. DOMAIN rows = 1..Len(rows) /\ Len(rows) \in Nat
  OBVIOUS
<1>2. \A j : j \in Comparable(reading) <=> j \in 1..reading /\ HasLead[rows[j].article]
  BY DEF Comparable
<1>3. \A j \in 1..reading : j \in DOMAIN rows
  BY <1>1
<1>4. ASSUME NEW j \in DOMAIN rows, rows[j].run = s PROVE rows[j].source = Sweeps[s].source
  BY <1>1, <1>4 DEF Stored, Records
<1>5. \A j \in RowsOf(s) : j \in 1..reading /\ j \in DOMAIN rows /\ rows[j].run = s
  <2>1. \A j \in RowsOf(s) : j \in 1..Len(rows) /\ rows[j].run = s /\ j <= reading
    BY <1>1 DEF RowsOf
  <2>2. QED BY <1>1, <2>1
<1>6. i \in DOMAIN rows /\ rows[i].source = Sweeps[s].source
  BY <1>2, <1>3, <1>4
<1>7. ASSUME NEW j \in DOMAIN rows
      PROVE  SameGroup(Joined[i], Joined[j]) <=>
               /\ rows[j].run = s /\ rows[j].variant = rows[i].variant
               /\ rows[j].grammar = rows[i].grammar
  BY <1>4, <1>6, JoinedRow DEF SameGroup
<1>8. ASSUME NEW j PROVE j \in Group(Comparable(reading), i) <=> j \in Line(s, rows[i].variant, rows[i].grammar)
  <2>1. CASE j \in DOMAIN rows /\ j \in 1..reading
    BY <1>2, <1>7, <2>1 DEF Group, Line, RowsOf
  <2>2. CASE ~(j \in DOMAIN rows /\ j \in 1..reading)
    BY <1>2, <1>3, <1>5, <2>2 DEF Group, Line
  <2>3. QED BY <2>1, <2>2
<1>9. QED BY <1>8

\* report.py:196: the two lines of a pair are about the same articles, called
\* equally often.
PairsMatch ==
  Len(report) = 1 /\ Len(report') = 2 =>
    \A pair \in VariantPairs(report'[2]) :
      printed[pair[1].run] = 0 /\ (\A i \in RowsOf(pair[1].run) : i <= reading) =>
        /\ pair[1].articles = pair[2].articles
        /\ pair[1].calls = pair[2].calls

LEMMA PairsMatchStep ==
  ASSUME SweepInv, TablesInv, ReadingInv, ReadFindings
  PROVE  PairsMatch
<1> SUFFICES ASSUME Len(report) = 1, Len(report') = 2,
                    NEW pair \in VariantPairs(report'[2]), printed[pair[1].run] = 0,
                    \A i \in RowsOf(pair[1].run) : i <= reading
             PROVE  pair[1].articles = pair[2].articles /\ pair[1].calls = pair[2].calls
  BY DEF PairsMatch
<1> DEFINE S == Comparable(reading)
<1>1. rows \in Seq(Record) /\ reading \in 0..Len(rows) /\ DOMAIN rows = 1..Len(rows) /\ Len(rows) \in Nat
  BY DEF TablesInv, ReadingInv, ReadFindings
<1>2. S \in SUBSET (DOMAIN rows)
  BY <1>1 DEF Comparable
<1>3. \E all : report'[2] = ScoreAll(S, Joined, all, Labels)
  <2>1. PICK all : report' = Append(report, ScoreAll(S, Joined, all, Labels))
    BY DEF ReadFindings
  <2>2. report'[2] = ScoreAll(S, Joined, all, Labels)
    BY <2>1
  <2>3. QED BY <2>2
<1> HIDE DEF S
<1>4. PICK all : report'[2] = ScoreAll(S, Joined, all, Labels)
  BY <1>3
<1>5. /\ pair[1] \in report'[2] /\ pair[2] \in report'[2]
      /\ pair[1].run = pair[2].run /\ pair[1].grammar = pair[2].grammar
  BY DEF VariantPairs
<1>6. PICK i \in S : pair[1] = ScoreGroup(Group(S, i), Joined, all, Labels)
  BY <1>4, <1>5 DEF ScoreAll, Group
<1>7. PICK j \in S : pair[2] = ScoreGroup(Group(S, j), Joined, all, Labels)
  BY <1>4, <1>5 DEF ScoreAll, Group
<1>8. /\ pair[1].run = rows[i].run /\ pair[1].grammar = rows[i].grammar
      /\ pair[1].calls = Cardinality(Group(S, i))
      /\ pair[1].articles = {rows[k].article : k \in Group(S, i)}
  <2> DEFINE score == ScoreGroup(Group(S, i), Joined, all, Labels)
  <2>1. ScoreOf(score, Group(S, i), i)
    BY <1>1, <1>2, KeyOfGroup
  <2> HIDE DEF score
  <2>2. pair[1] = score
    BY <1>6 DEF score
  <2>3. QED BY <2>1, <2>2 DEF ScoreOf
<1>9. /\ pair[2].run = rows[j].run /\ pair[2].grammar = rows[j].grammar
      /\ pair[2].calls = Cardinality(Group(S, j))
      /\ pair[2].articles = {rows[k].article : k \in Group(S, j)}
  <2> DEFINE score == ScoreGroup(Group(S, j), Joined, all, Labels)
  <2>1. ScoreOf(score, Group(S, j), j)
    BY <1>1, <1>2, KeyOfGroup
  <2> HIDE DEF score
  <2>2. pair[2] = score
    BY <1>7 DEF score
  <2>3. QED BY <2>1, <2>2 DEF ScoreOf
<1> DEFINE s == rows[i].run
           g == rows[i].grammar
           v == rows[i].variant
           w == rows[j].variant
<1>10. s \in DOMAIN Sweeps
  <2>1. i \in 1..Len(rows)
    BY <1>1, <1>2
  <2>2. rows[i] \in Record
    BY <1>1, <2>1
  <2>3. QED BY <2>2 DEF Record
<1>11. rows[j].run = s /\ rows[j].grammar = g
  BY <1>5, <1>8, <1>9
<1>12. PICK q, base : /\ q # <<>> /\ Chosen(q, Sweeps[s].split, Sweeps[s].limit)
                      /\ Stored(s, q, base, Total(q, Sweeps[s]))
  BY <1>8, <1>10 DEF SweepInv, Whole
<1>13. q \in Seq(Articles)
  BY <1>12, ChosenSet
<1>14. Group(S, i) = Line(s, v, g) /\ Group(S, j) = Line(s, w, g)
  BY <1>1, <1>8, <1>10, <1>11, <1>12, GroupIsLine DEF S
<1>15. i \in Group(S, i) /\ j \in Group(S, j)
  BY DEF Group, SameGroup
<1> HIDE DEF s, g, v, w
<1>16. Line(s, v, g) # {} /\ Line(s, w, g) # {}
  BY <1>14, <1>15
<1> DEFINE Arts(K) == {rows[k].article : k \in K}
<1>17. /\ Arts(Line(s, v, g)) \subseteq Arts(Line(s, w, g)) /\ IsFiniteSet(Line(s, w, g))
       /\ Cardinality(Line(s, v, g)) <= Cardinality(Line(s, w, g))
  BY <1>1, <1>10, <1>12, <1>13, <1>16, Counterparts
<1>18. /\ Arts(Line(s, w, g)) \subseteq Arts(Line(s, v, g)) /\ IsFiniteSet(Line(s, v, g))
       /\ Cardinality(Line(s, w, g)) <= Cardinality(Line(s, v, g))
  BY <1>1, <1>10, <1>12, <1>13, <1>16, Counterparts
<1>19. Arts(Line(s, v, g)) = Arts(Line(s, w, g))
  BY <1>17, <1>18
<1>20. Cardinality(Line(s, v, g)) = Cardinality(Line(s, w, g))
  <2>1. Cardinality(Line(s, v, g)) \in Nat /\ Cardinality(Line(s, w, g)) \in Nat
    BY <1>17, <1>18, FS_CardinalityType
  <2>2. QED BY <1>17, <1>18, <2>1
<1>21. QED BY <1>8, <1>9, <1>14, <1>19, <1>20

LEMMA AppendsOne ==
  ASSUME NEW s, IsSeq(s), NEW x
  PROVE  IsSeq(Append(s, x)) /\ DOMAIN Append(s, x) = 1..Len(s)+1 /\ Append(s, x)[Len(s) + 1] = x
<1> DEFINE t == Append(s, x)
           R == Range(s) \cup {x}
<1>1. s \in Seq(R) /\ x \in R
  BY SequenceType
<1> HIDE DEF R
<1>2. t \in Seq(R) /\ Len(t) = Len(s) + 1 /\ t[Len(s) + 1] = x
  BY <1>1
<1> HIDE DEF t
<1>3. t \in [1..Len(t) -> Range(t)] /\ Len(t) \in Nat
  BY <1>2 DEF Range
<1>4. t \in Seq(Range(t)) /\ DOMAIN t = 1..Len(s)+1
  BY <1>2, <1>3
<1>5. QED BY <1>2, <1>4 DEF IsSeq, t

\* A step leaves the report as it is or adds a section.
LEMMA ReportGrows ==
  ASSUME [Next]_vars
  PROVE  report' = report \/ \E lines : report' = Append(report, lines)
BY DEF Next, ReportStep, Sample, Annotate, SweepStep, StartSweep, FailedCall, Call, SaveFindings,
       FinishSweep, Crash, ReadRows, ReadFindings, ReadStability, reportVars, vars, tables

LEMMA ReportInvariant ==
  Spec => [](CorpusInv /\ QueueInv /\ SweepInv /\ TablesInv /\ ReadingInv /\ IsSeq(report))
<1>1. Init => ReadingInv /\ IsSeq(report)
  BY DEF Init, ReadingInv, IsSeq
<1>2. QueueInv /\ SweepInv /\ TablesInv /\ ReadingInv /\ [Next]_vars => ReadingInv'
  BY ReadingNext
<1>3. IsSeq(report) /\ [Next]_vars => IsSeq(report)'
  BY ReportGrows, AppendsOne DEF IsSeq
<1>4. QED BY <1>1, <1>2, <1>3, SweepInvariant, PTL DEF Spec

THEOREM PairsAreAlwaysComparable == Spec => PairsAreComparable
<1>1. SweepInv /\ TablesInv /\ ReadingInv /\ [Next]_vars => [PairsMatch]_vars
  <2> SUFFICES ASSUME SweepInv, TablesInv, ReadingInv, Next, vars' # vars,
                      Len(report) = 1, Len(report') = 2
               PROVE  PairsMatch
    BY DEF PairsMatch
  <2>1. ReadFindings
    <3>1. report' # report
      OBVIOUS
    <3>2. ~ReadStability
      BY DEF ReadStability
    <3>3. ~(Sample \/ Annotate \/ SweepStep \/ ReadRows)
      BY <3>1 DEF Sample, Annotate, SweepStep, StartSweep, FailedCall, Call, SaveFindings,
                  FinishSweep, Crash, ReadRows, reportVars
    <3>4. QED BY <3>2, <3>3 DEF Next, ReportStep
  <2>2. QED BY <2>1, PairsMatchStep
<1>2. QED BY <1>1, ReportInvariant, PTL DEF Spec, PairsAreComparable, PairsMatch

-----------------------------------------------------------------------------
(***************************************************************************)
(* Sums.                                                                   *)
(***************************************************************************)
\* What holds of a set when it holds of what is left without one element
\* holds of every subset of a finite set.
LEMMA SubsetInduction ==
  ASSUME NEW D, IsFiniteSet(D), NEW T,
         \A s \in SUBSET D : (\A x \in s : s \ {x} \in T) => s \in T
  PROVE  \A s \in SUBSET D : s \in T
<1> DEFINE Sizes == {Cardinality(s) : s \in {s \in SUBSET D : s \notin T}}
<1>1. ASSUME NEW s \in SUBSET D
      PROVE  /\ Cardinality(s) \in Nat
             /\ \A x \in s : s \ {x} \in SUBSET D /\ Cardinality(s \ {x}) = Cardinality(s) - 1
  <2>1. IsFiniteSet(s)
    BY FS_Subset
  <2>2. QED BY <2>1, FS_CardinalityType, FS_RemoveElement
<1>2. SUFFICES ASSUME Sizes # {} PROVE FALSE
  OBVIOUS
<1>3. Sizes \in SUBSET Nat
  BY <1>1
<1>4. PICK m \in Sizes : \A n \in Sizes : m <= n
  <2> HIDE DEF Sizes
  <2>1. QED BY <1>2, <1>3, LeastExists
<1>5. PICK s \in SUBSET D : s \notin T /\ Cardinality(s) = m
  BY <1>4
<1>6. PICK x \in s : s \ {x} \notin T
  BY <1>5
<1>7. Cardinality(s \ {x}) \in Sizes /\ Cardinality(s \ {x}) = m - 1
  BY <1>1, <1>5, <1>6
<1> HIDE DEF Sizes
<1>8. QED BY <1>3, <1>4, <1>7

\* it sums f over every subset of D.
IsSum(it, D, f) ==
  /\ it \in [SUBSET D -> Nat] /\ it[{}] = 0
  /\ \A s \in SUBSET D : \A x \in s : it[s] = f[x] + it[s \ {x}]

LEMMA SumExists ==
  ASSUME NEW D, IsFiniteSet(D), NEW f \in [D -> Nat]
  PROVE  \E it : IsSum(it, D, f) /\ SumFunction(f) = it[D]
<1> DEFINE Is(it) == it = [s \in SUBSET D |->
                            IF s = {} THEN 0
                            ELSE LET x == CHOOSE x \in s : TRUE IN f[x] + it[s \ {x}]]
           J == CHOOSE it : Is(it)
           pick == [s \in SUBSET D |-> CHOOSE x \in s : TRUE]
           step == [p \in D \X Nat |-> f[p[1]] + p[2]]
<1>1. ASSUME NEW s \in SUBSET D, s # {} PROVE pick[s] \in s /\ pick[s] = CHOOSE x \in s : TRUE
  BY <1>1
<1>2. step \in [D \X Nat -> Nat]
  OBVIOUS
<1>3. PICK it : IsFullFold(it, D, Nat, 0, pick, step)
  <2> HIDE DEF pick, step
  <2>1. QED BY <1>1, <1>2, FoldExists
<1>4. it \in [SUBSET D -> Nat]
  BY <1>3 DEF IsFullFold
<1>5. ASSUME NEW s \in SUBSET D, s # {}
      PROVE  step[<<pick[s], it[s \ {pick[s]}]>>] = LET x == CHOOSE x \in s : TRUE IN f[x] + it[s \ {x}]
  <2>1. pick[s] \in D /\ it[s \ {pick[s]}] \in Nat
    <3> HIDE DEF pick
    <3>1. QED BY <1>1, <1>4, <1>5
  <2>2. step[<<pick[s], it[s \ {pick[s]}]>>] = f[pick[s]] + it[s \ {pick[s]}]
    <3> HIDE DEF pick
    <3>1. QED BY <2>1
  <2>3. QED BY <1>1, <1>5, <2>2
<1>6. Is(it)
  <2>1. it = [s \in SUBSET D |-> IF s = {} THEN 0 ELSE step[<<pick[s], it[s \ {pick[s]}]>>]]
    BY <1>3, Zenon DEF IsFullFold
  <2> HIDE DEF step, pick
  <2>2. QED BY <1>5, <2>1, Zenon
<1>7. Is(J)
  <2> HIDE DEF Is
  <2>1. QED BY <1>6
<1>8. SumFunction(f) = J[D]
  <2>1. DOMAIN f = D
    OBVIOUS
  <2>2. SumFunction(f) = SumFunctionOnSet(f, D)
    BY <2>1 DEF SumFunction
  <2>3. QED BY <2>2 DEF SumFunctionOnSet, FoldFunctionOnSet, MapThenFoldSet
<1> HIDE DEF J, step, pick
<1>9. /\ J[{}] = 0 /\ J = [s \in SUBSET D |-> J[s]]
      /\ \A s \in SUBSET D : s # {} => \E p \in s : J[s] = f[p] + J[s \ {p}]
  <2>1. J[{}] = 0 /\ J = [s \in SUBSET D |-> J[s]]
    BY <1>7
  <2>2. ASSUME NEW s \in SUBSET D, s # {} PROVE \E p \in s : J[s] = f[p] + J[s \ {p}]
    <3> DEFINE p == CHOOSE x \in s : TRUE
    <3>1. p \in s
      BY <2>2
    <3>2. J[s] = f[p] + J[s \ {p}]
      BY <1>7, <2>2
    <3> HIDE DEF p
    <3>3. QED BY <3>1, <3>2
  <2>3. QED BY <2>1, <2>2
<1>10. \A s \in SUBSET D : J[s] \in Nat
  <2> DEFINE T == {s \in SUBSET D : J[s] \in Nat}
  <2>1. ASSUME NEW s \in SUBSET D, \A x \in s : s \ {x} \in T PROVE s \in T
    <3>1. CASE s = {}
      BY <1>9, <3>1
    <3>2. CASE s # {}
      <4>1. PICK p \in s : J[s] = f[p] + J[s \ {p}]
        BY <1>9, <3>2
      <4>2. J[s \ {p}] \in Nat /\ f[p] \in Nat
        BY <2>1
      <4>3. J[s] \in Nat
        BY <4>1, <4>2
      <4>4. QED BY <4>3
    <3>3. QED BY <3>1, <3>2
  <2> HIDE DEF T
  <2>2. \A s \in SUBSET D : s \in T
    BY <2>1, SubsetInduction
  <2>3. QED BY <2>2 DEF T
<1>11. \A s \in SUBSET D : \A x \in s : J[s] = f[x] + J[s \ {x}]
  <2> DEFINE T == {s \in SUBSET D : \A x \in s : J[s] = f[x] + J[s \ {x}]}
  <2>1. ASSUME NEW s \in SUBSET D, \A x \in s : s \ {x} \in T PROVE s \in T
    <3> SUFFICES ASSUME NEW x \in s PROVE J[s] = f[x] + J[s \ {x}]
      OBVIOUS
    <3>1. PICK p \in s : J[s] = f[p] + J[s \ {p}]
      BY <1>9
    <3>2. CASE x # p
      <4>1. J[s \ {p}] = f[x] + J[(s \ {p}) \ {x}] /\ J[s \ {x}] = f[p] + J[(s \ {x}) \ {p}]
        BY <2>1, <3>2
      <4>2. (s \ {p}) \ {x} = (s \ {x}) \ {p}
        OBVIOUS
      <4> DEFINE rest == J[(s \ {x}) \ {p}]
      <4>3. rest \in Nat /\ f[x] \in Nat /\ f[p] \in Nat
        BY <1>10
      <4>4. J[s] = f[p] + (f[x] + rest) /\ J[s \ {x}] = f[p] + rest
        BY <3>1, <4>1, <4>2
      <4> HIDE DEF rest
      <4>5. QED BY <4>3, <4>4
    <3>3. QED BY <3>1, <3>2
  <2> HIDE DEF T
  <2>2. \A s \in SUBSET D : s \in T
    BY <2>1, SubsetInduction
  <2>3. QED BY <2>2 DEF T
<1>12. J \in [SUBSET D -> Nat]
  BY <1>9, <1>10
<1>13. IsSum(J, D, f)
  BY <1>9, <1>11, <1>12 DEF IsSum
<1>14. QED BY <1>8, <1>13

LEMMA SumType ==
  ASSUME NEW D, IsFiniteSet(D), NEW f \in [D -> Nat]
  PROVE  SumFunction(f) \in Nat
<1>1. PICK it : IsSum(it, D, f) /\ SumFunction(f) = it[D]
  BY SumExists
<1>2. QED BY <1>1 DEF IsSum

Adds(D, f, g, h) ==
  /\ f \in [D -> Nat] /\ g \in [D -> Nat] /\ h \in [D -> Nat]
  /\ \A x \in D : h[x] = f[x] + g[x]

\* The sum of what adds two functions is the sum of both their sums.
LEMMA SumOfBoth ==
  ASSUME NEW D, IsFiniteSet(D), NEW f, NEW g, NEW h, Adds(D, f, g, h)
  PROVE  SumFunction(h) = SumFunction(f) + SumFunction(g)
<1> USE DEF Adds
<1>1. PICK a : IsSum(a, D, f) /\ SumFunction(f) = a[D]
  BY SumExists
<1>2. PICK b : IsSum(b, D, g) /\ SumFunction(g) = b[D]
  BY SumExists
<1>3. PICK c : IsSum(c, D, h) /\ SumFunction(h) = c[D]
  BY SumExists
<1> DEFINE T == {s \in SUBSET D : c[s] = a[s] + b[s]}
<1>4. ASSUME NEW s \in SUBSET D, \A x \in s : s \ {x} \in T PROVE s \in T
  <2>1. CASE s = {}
    BY <1>1, <1>2, <1>3, <2>1 DEF IsSum
  <2>2. ASSUME NEW x \in s PROVE s \in T
    <3> DEFINE t == s \ {x}
    <3>1. t \in SUBSET D /\ c[t] = a[t] + b[t]
      BY <1>4
    <3>2. a[s] = f[x] + a[t] /\ b[s] = g[x] + b[t] /\ c[s] = h[x] + c[t]
      BY <1>1, <1>2, <1>3 DEF IsSum
    <3> HIDE DEF t
    <3>3. a[t] \in Nat /\ b[t] \in Nat /\ f[x] \in Nat /\ g[x] \in Nat /\ h[x] = f[x] + g[x]
      BY <1>1, <1>2, <3>1 DEF IsSum
    <3>4. QED BY <3>1, <3>2, <3>3
  <2>3. QED BY <2>1, <2>2
<1> HIDE DEF T
<1>5. \A s \in SUBSET D : s \in T
  BY <1>4, SubsetInduction
<1>6. QED BY <1>1, <1>2, <1>3, <1>5 DEF T

\* Of two sums the one is no more when what it counts the other counts too.
LEMMA SumBelow ==
  ASSUME NEW D, IsFiniteSet(D), NEW f \in [D -> Nat],
         NEW E, IsFiniteSet(E), NEW g \in [E -> Nat],
         \A x \in D : f[x] = 0 \/ (x \in E /\ f[x] <= g[x])
  PROVE  SumFunction(f) <= SumFunction(g)
<1>1. PICK a : IsSum(a, D, f) /\ SumFunction(f) = a[D]
  BY SumExists
<1>2. PICK b : IsSum(b, E, g) /\ SumFunction(g) = b[E]
  BY SumExists
<1> DEFINE T == {s \in SUBSET (D \cup E) : a[s \cap D] <= b[s \cap E]}
<1>3. IsFiniteSet(D \cup E)
  BY FS_Union
<1>4. ASSUME NEW s \in SUBSET (D \cup E), \A x \in s : s \ {x} \in T PROVE s \in T
  <2>1. CASE s = {}
    <3>1. s \cap D = {} /\ s \cap E = {}
      BY <2>1
    <3>2. a[{}] = 0 /\ b[{}] = 0
      BY <1>1, <1>2 DEF IsSum
    <3>3. a[s \cap D] <= b[s \cap E]
      BY <3>1, <3>2
    <3>4. QED BY <3>3
  <2>2. ASSUME NEW x \in s PROVE s \in T
    <3> DEFINE t == s \ {x}
    <3>1. t \in SUBSET (D \cup E) /\ a[t \cap D] <= b[t \cap E]
      BY <1>4
    <3>2. /\ x \in D => a[s \cap D] = f[x] + a[(s \cap D) \ {x}]
          /\ x \in E => b[s \cap E] = g[x] + b[(s \cap E) \ {x}]
      BY <1>1, <1>2 DEF IsSum
    <3>3. /\ (s \cap D) \ {x} = t \cap D /\ (x \notin D => s \cap D = t \cap D)
          /\ (s \cap E) \ {x} = t \cap E /\ (x \notin E => s \cap E = t \cap E)
      OBVIOUS
    <3> HIDE DEF t
    <3> DEFINE m == a[t \cap D]
               n == b[t \cap E]
    <3>4. m \in Nat /\ n \in Nat /\ m <= n
      BY <1>1, <1>2, <3>1 DEF IsSum
    <3>5. /\ a[s \cap D] = IF x \in D THEN f[x] + m ELSE m
          /\ b[s \cap E] = IF x \in E THEN g[x] + n ELSE n
      BY <3>2, <3>3
    <3> HIDE DEF m, n
    <3>6. x \in D => f[x] \in Nat /\ (f[x] = 0 \/ (x \in E /\ f[x] <= g[x]))
      OBVIOUS
    <3>7. x \in E => g[x] \in Nat
      OBVIOUS
    <3>8. a[s \cap D] <= b[s \cap E]
      BY <3>4, <3>5, <3>6, <3>7
    <3>9. QED BY <3>8
  <2>3. QED BY <2>1, <2>2
<1> HIDE DEF T
<1>5. \A s \in SUBSET (D \cup E) : s \in T
  <2> DEFINE U == D \cup E
  <2>1. IsFiniteSet(U) /\ \A s \in SUBSET U : (\A x \in s : s \ {x} \in T) => s \in T
    BY <1>3, <1>4
  <2> HIDE DEF U
  <2>2. \A s \in SUBSET U : s \in T
    BY <2>1, SubsetInduction
  <2>3. QED BY <2>2 DEF U
<1>6. (D \cup E) \cap D = D /\ (D \cup E) \cap E = E
  OBVIOUS
<1>7. QED BY <1>1, <1>2, <1>5, <1>6 DEF T

-----------------------------------------------------------------------------
\* The counts of one call: each finding is a hit or a false positive, each
\* label in reach found or missed, and what hits also overlaps.
CallAddsUp(f, e) ==
  /\ TruePositives(f, e) \in Nat /\ FalsePositives(f, e) \in Nat /\ SpanHits(f, e) \in Nat
  /\ TruePositives(f, e) + FalsePositives(f, e) = Len(f)
  /\ TruePositives(f, e) <= SpanHits(f, e) /\ SpanHits(f, e) <= Len(f)
  /\ Cardinality(DOMAIN e \ Range(Credit(f, e))) \in Nat
  /\ TruePositives(f, e) + Cardinality(DOMAIN e \ Range(Credit(f, e))) = Cardinality(DOMAIN e)

LEMMA EachCallAddsUp ==
  ASSUME NEW f, IsSeq(f), NEW e, DOMAIN e \in SUBSET (Nat \ {0}), IsFiniteSet(DOMAIN e)
  PROVE  CallAddsUp(f, e)
<1> DEFINE n == Len(f)
           c == Credit(f, e)
           H == {k \in 1..n : c[k] # 0}
           A == {k \in 1..n : \E l \in DOMAIN e : Overlaps(f[k], e[l])}
           D == DOMAIN e
           taken == D \cap Range(c)
           h == [k \in H |-> c[k]]
<1>1. /\ n \in Nat /\ DOMAIN f = 1..n /\ c \in [1..n -> Nat]
      /\ FairCredit(c, f, e, n) /\ TruePositives(f, e) = Cardinality(H)
  <2>1. n \in Nat /\ DOMAIN f = 1..n
    BY SequenceType
  <2>2. c \in [1..n -> Nat] /\ FairCredit(c, f, e, n) /\ TruePositives(f, e) = Hits(c, n)
    BY CreditFacts
  <2> HIDE DEF c, n
  <2>3. QED BY <2>1, <2>2 DEF Hits
<1>2. FalsePositives(f, e) = n - Cardinality(H) /\ SpanHits(f, e) = Cardinality(A)
  BY <1>1 DEF FalsePositives, SpanHits
<1> HIDE DEF c
<1>3. /\ \A k, l \in H : c[k] = c[l] => k = l
      /\ \A k \in H : c[k] \in D /\ Matches(f[k], e[c[k]])
  BY <1>1 DEF FairCredit
<1>4. H \subseteq A
  BY <1>3 DEF Matches
<1>5. IsFiniteSet(1..n) /\ Cardinality(1..n) = n
  <2>1. 1 \in Int /\ n \in Int
    BY <1>1
  <2>2. IsFiniteSet(1..n) /\ Cardinality(1..n) = IF 1 > n THEN 0 ELSE n - 1 + 1
    BY <2>1, FS_Interval
  <2>3. QED BY <1>1, <2>2
<1>6. H \subseteq 1..n /\ A \subseteq 1..n
  OBVIOUS
<1>7. \A d \in Range(c) : \E k \in 1..n : d = c[k]
  BY <1>1 DEF Range
<1>8. \A k \in 1..n : c[k] \in Range(c)
  BY <1>1 DEF Range
<1>9. h \in Bijection(H, taken)
  <2>1. h \in [H -> taken]
    BY <1>3, <1>8
  <2>2. \A k, l \in H : h[k] = h[l] => k = l
    BY <1>3
  <2>3. ASSUME NEW d \in taken PROVE \E k \in H : h[k] = d
    <3>1. PICK k \in 1..n : d = c[k]
      BY <1>7
    <3>2. d # 0
      OBVIOUS
    <3>3. k \in H /\ h[k] = d
      BY <3>1, <3>2
    <3>4. QED BY <3>3
  <2> HIDE DEF h, H, taken
  <2>4. QED BY <2>1, <2>2, <2>3 DEF Bijection, Injection, Surjection, IsInjective
<1> HIDE DEF h, H, A, n
<1>10. /\ IsFiniteSet(H) /\ IsFiniteSet(A) /\ Cardinality(A) <= n /\ Cardinality(H) <= Cardinality(A)
       /\ Cardinality(H) \in Nat /\ Cardinality(A) \in Nat
  <2>1. IsFiniteSet(A) /\ Cardinality(A) <= n
    <3> DEFINE I == 1..n
    <3>1. IsFiniteSet(I) /\ Cardinality(I) = n /\ A \in SUBSET I
      BY <1>5, <1>6
    <3> HIDE DEF I
    <3>2. QED BY <3>1, FS_Subset
  <2>2. IsFiniteSet(H) /\ Cardinality(H) <= Cardinality(A)
    BY <1>4, <2>1, FS_Subset
  <2>3. QED BY <2>1, <2>2, FS_CardinalityType
<1>11. Cardinality(taken) = Cardinality(H)
  <2> HIDE DEF taken
  <2>1. ExistsBijection(H, taken)
    BY <1>9 DEF ExistsBijection
  <2>2. QED BY <1>10, <2>1, FS_Bijection
<1>12. /\ Cardinality(D \ Range(c)) \in Nat
       /\ Cardinality(H) + Cardinality(D \ Range(c)) = Cardinality(D)
  <2> DEFINE rest == D \ Range(c)
  <2>1. IsFiniteSet(taken) /\ IsFiniteSet(rest)
    <3>1. IsFiniteSet(D) /\ taken \subseteq D /\ rest \subseteq D
      OBVIOUS
    <3> HIDE DEF D, taken, rest
    <3>2. QED BY <3>1, FS_Subset
  <2>2. taken \cup rest = D /\ taken \cap rest = {}
    OBVIOUS
  <2> HIDE DEF taken, rest, D
  <2>3. Cardinality(taken \cup rest) = Cardinality(taken) + Cardinality(rest) - Cardinality({})
    BY <2>1, <2>2, FS_Union
  <2>4. Cardinality({}) = 0 /\ Cardinality(rest) \in Nat
    BY <2>1, FS_EmptySet, FS_CardinalityType
  <2>5. Cardinality(D) = Cardinality(taken) + Cardinality(rest)
    <3>1. Cardinality(D) = Cardinality(taken \cup rest)
      BY <2>2, Zenon
    <3>2. Cardinality(taken) \in Nat
      BY <1>10, <1>11
    <3> DEFINE whole == Cardinality(taken \cup rest)
               empty == Cardinality({})
    <3>3. whole = Cardinality(taken) + Cardinality(rest) - empty /\ empty = 0
      BY <2>3, <2>4
    <3> HIDE DEF whole, empty
    <3>4. whole = Cardinality(taken) + Cardinality(rest)
      BY <3>2, <3>3, <2>4
    <3>5. QED BY <3>1, <3>4 DEF whole
  <2>6. Cardinality(H) + Cardinality(rest) = Cardinality(D)
    BY <1>11, <2>5
  <2>7. QED BY <2>4, <2>6 DEF rest
<1> HIDE DEF D
<1>13. n - Cardinality(H) \in Nat /\ Cardinality(H) + (n - Cardinality(H)) = n /\ Cardinality(H) <= n
  BY <1>1, <1>10
<1>14. QED BY <1>1, <1>2, <1>10, <1>12, <1>13 DEF CallAddsUp, n, c, D

-----------------------------------------------------------------------------
\* The labels in reach of call i, and what of a group parsed.
InReach(i) == Expected(Labels[rows[i].article], rows[i].variant)
Parsed(K) == {i \in K : rows[i].parsed}
Missed(f, e) == Cardinality(DOMAIN e \ Range(Credit(f, e)))

\* A line of the report is what its calls count, ...
Counted(K, all, score) ==
  LET P == Parsed(K)
      N == {i \in P : Kind[rows[i].article] = "neutral"}
  IN /\ score.calls = Cardinality(K)
     /\ score.accepted = SumFunction([i \in K |-> rows[i].accepted])
     /\ score.tp = SumFunction([i \in P |-> TruePositives(all[i], InReach(i))])
     /\ score.fp = SumFunction([i \in P |-> FalsePositives(all[i], InReach(i))])
     /\ score.fn = SumFunction([i \in P |-> Missed(all[i], InReach(i))])
     /\ score.spans = SumFunction([i \in P |-> SpanHits(all[i], InReach(i))])
     /\ score.empty = Cardinality({i \in P : all[i] = <<>>})
     /\ score.neutral = Cardinality(N)
     /\ score.accused = Cardinality({i \in N : all[i] # <<>>})

LEMMA LineIsCounted ==
  ASSUME NEW K \in SUBSET (DOMAIN rows), NEW all, Min(K) \in K,
         \A i \in K : rows[i].variant = rows[Min(K)].variant
  PROVE  Counted(K, all, ScoreGroup(K, Joined, all, Labels))
<1> DEFINE score == ScoreGroup(K, Joined, all, Labels)
           P == Parsed(K)
           J == Joined
           Reachable(i) == Expected(Labels[J[i].article], J[Min(K)].variant)
           Q == {i \in K : J[i].parsed}
           N == {i \in Q : J[i].kind = "neutral"}
<1>1. /\ score.calls = Cardinality(K)
      /\ score.accepted = SumFunction([i \in K |-> J[i].accepted])
      /\ score.tp = SumFunction([i \in Q |-> TruePositives(all[i], Reachable(i))])
      /\ score.fp = SumFunction([i \in Q |-> FalsePositives(all[i], Reachable(i))])
      /\ score.fn = SumFunction([i \in Q |-> Missed(all[i], Reachable(i))])
      /\ score.spans = SumFunction([i \in Q |-> SpanHits(all[i], Reachable(i))])
      /\ score.empty = Cardinality({i \in Q : all[i] = <<>>})
      /\ score.neutral = Cardinality(N)
      /\ score.accused = Cardinality({i \in N : all[i] # <<>>})
  BY DEF ScoreGroup, Missed
<1> HIDE DEF score, J
<1>2. ASSUME NEW i \in K
      PROVE  /\ J[i].accepted = rows[i].accepted /\ J[i].parsed = rows[i].parsed
             /\ J[i].kind = Kind[rows[i].article]
             /\ Reachable(i) = InReach(i)
  BY JoinedRow DEF J, InReach
<1> HIDE DEF Reachable
<1>3. Q = P
  BY <1>2 DEF Parsed
<1>4. N = {i \in P : Kind[rows[i].article] = "neutral"}
  BY <1>2, <1>3 DEF Parsed
<1>5. P \subseteq K
  BY DEF Parsed
<1> HIDE DEF N, Q, P
<1>6. [i \in K |-> J[i].accepted] = [i \in K |-> rows[i].accepted]
  BY <1>2
<1>7. /\ [i \in Q |-> TruePositives(all[i], Reachable(i))] = [i \in P |-> TruePositives(all[i], InReach(i))]
      /\ [i \in Q |-> FalsePositives(all[i], Reachable(i))] = [i \in P |-> FalsePositives(all[i], InReach(i))]
      /\ [i \in Q |-> Missed(all[i], Reachable(i))] = [i \in P |-> Missed(all[i], InReach(i))]
      /\ [i \in Q |-> SpanHits(all[i], Reachable(i))] = [i \in P |-> SpanHits(all[i], InReach(i))]
  BY <1>2, <1>3, <1>5
<1>8. {i \in Q : all[i] = <<>>} = {i \in P : all[i] = <<>>}
  BY <1>3
<1>9. Counted(K, all, score)
  BY <1>1, <1>4, <1>6, <1>7, <1>8 DEF Counted, P
<1>10. QED BY <1>9 DEF score

\* ... and adds up when the findings of each call are those stored, in some order.
AddsUp(K, score) ==
  /\ score.tp + score.fp <= score.accepted /\ score.spans \in score.tp .. score.tp + score.fp
  /\ score.tp + score.fp < score.accepted => \E i \in K : Len(found[i]) < rows[i].accepted
  /\ score.tp + score.fn = SumFunction([i \in Parsed(K) |-> Cardinality(DOMAIN InReach(i))])
  /\ score.accused <= score.neutral /\ score.empty + score.accused <= score.calls

LEMMA LineAddsUp ==
  ASSUME TablesInv, NEW K \in SUBSET (DOMAIN rows), NEW all, NEW score, Counted(K, all, score),
         \A i \in K : IsSeq(all[i]) /\ Len(all[i]) = Len(found[i])
  PROVE  AddsUp(K, score)
<1> DEFINE P == Parsed(K)
           N == {i \in P : Kind[rows[i].article] = "neutral"}
           E == {i \in P : all[i] = <<>>}
           C == {i \in N : all[i] # <<>>}
           tp == [i \in P |-> TruePositives(all[i], InReach(i))]
           fp == [i \in P |-> FalsePositives(all[i], InReach(i))]
           fn == [i \in P |-> Missed(all[i], InReach(i))]
           spans == [i \in P |-> SpanHits(all[i], InReach(i))]
           reach == [i \in P |-> Cardinality(DOMAIN InReach(i))]
           size == [i \in P |-> Len(found[i])]
           accepted == [i \in K |-> rows[i].accepted]
<1>1. /\ score.calls = Cardinality(K) /\ score.accepted = SumFunction(accepted)
      /\ score.tp = SumFunction(tp) /\ score.fp = SumFunction(fp)
      /\ score.fn = SumFunction(fn) /\ score.spans = SumFunction(spans)
      /\ score.empty = Cardinality(E) /\ score.neutral = Cardinality(N)
      /\ score.accused = Cardinality(C)
  BY DEF Counted
<1>2. /\ P \subseteq K /\ C \subseteq N /\ C \subseteq K /\ E \subseteq K /\ E \cap C = {} /\ N \subseteq K
      /\ \A i \in K \ P : ~rows[i].parsed
  BY DEF Parsed
<1>3. ASSUME NEW i \in K
      PROVE  /\ rows[i].accepted \in Nat /\ Len(found[i]) \in Nat /\ Len(found[i]) <= rows[i].accepted
             /\ ~rows[i].parsed => Len(found[i]) = 0
             /\ rows[i].article \in Articles
  <2>1. i \in 1..Len(rows) /\ rows[i] \in Record
    BY DEF TablesInv
  <2>2. IsSeq(found[i]) /\ Len(found[i]) <= rows[i].accepted /\ (~rows[i].parsed => found[i] = <<>>)
    BY <2>1 DEF TablesInv
  <2>3. Len(found[i]) \in Nat
    BY <2>2, SequenceType
  <2>4. QED BY <2>1, <2>2, <2>3 DEF Record
<1>4. ASSUME NEW i \in P
      PROVE  CallAddsUp(all[i], InReach(i)) /\ Len(all[i]) = Len(found[i])
  <2>1. i \in K /\ rows[i].article \in Articles
    BY <1>2, <1>3
  <2>2. DOMAIN InReach(i) \in SUBSET (Nat \ {0}) /\ IsFiniteSet(DOMAIN InReach(i))
    BY <2>1, ExpectedType, ArticlesAssumption DEF InReach
  <2>3. QED BY <2>1, <2>2, EachCallAddsUp
<1>5. IsFiniteSet(K) /\ IsFiniteSet(P) /\ IsFiniteSet(N) /\ IsFiniteSet(C) /\ IsFiniteSet(E)
  <2>1. DOMAIN rows = 1..Len(rows) /\ Len(rows) \in Nat
    BY DEF TablesInv
  <2>2. IsFiniteSet(DOMAIN rows)
    BY <2>1, FS_Interval
  <2> HIDE DEF P, N, C, E
  <2>3. IsFiniteSet(K)
    BY <2>2, FS_Subset
  <2>4. QED BY <1>2, <2>3, FS_Subset
<1> HIDE DEF P, N, C, E
<1>6. ASSUME NEW i \in P
      PROVE  /\ tp[i] \in Nat /\ fp[i] \in Nat /\ fn[i] \in Nat /\ spans[i] \in Nat
             /\ reach[i] \in Nat /\ size[i] \in Nat /\ reach[i] = tp[i] + fn[i]
             /\ size[i] = tp[i] + fp[i] /\ tp[i] <= spans[i] /\ spans[i] <= size[i]
             /\ size[i] <= accepted[i]
  <2>1. /\ tp[i] = TruePositives(all[i], InReach(i)) /\ fp[i] = FalsePositives(all[i], InReach(i))
        /\ fn[i] = Missed(all[i], InReach(i)) /\ spans[i] = SpanHits(all[i], InReach(i))
        /\ reach[i] = Cardinality(DOMAIN InReach(i)) /\ size[i] = Len(found[i])
        /\ accepted[i] = rows[i].accepted /\ i \in K
    BY <1>2
  <2> HIDE DEF tp, fp, fn, spans, reach, size, accepted
  <2>2. Len(found[i]) \in Nat /\ Len(found[i]) <= rows[i].accepted
    BY <1>3, <2>1
  <2>3. QED BY <1>4, <2>1, <2>2 DEF CallAddsUp, Missed
<1>7. /\ tp \in [P -> Nat] /\ fp \in [P -> Nat] /\ fn \in [P -> Nat] /\ spans \in [P -> Nat]
      /\ reach \in [P -> Nat] /\ size \in [P -> Nat] /\ accepted \in [K -> Nat]
  <2>1. accepted \in [K -> Nat]
    BY <1>3
  <2>2. /\ tp = [i \in P |-> tp[i]] /\ fp = [i \in P |-> fp[i]] /\ fn = [i \in P |-> fn[i]]
        /\ spans = [i \in P |-> spans[i]] /\ reach = [i \in P |-> reach[i]] /\ size = [i \in P |-> size[i]]
    OBVIOUS
  <2> HIDE DEF tp, fp, fn, spans, reach, size, accepted
  <2>3. QED BY <1>6, <2>1, <2>2
<1>8. \A i \in K : accepted[i] = rows[i].accepted /\ (i \in P => size[i] = Len(found[i]))
  BY <1>2
<1> HIDE DEF tp, fp, fn, spans, reach, size, accepted
<1> DEFINE TP == SumFunction(tp)
           FP == SumFunction(fp)
           SZ == SumFunction(size)
           AC == SumFunction(accepted)
           SP == SumFunction(spans)
<1>9. TP \in Nat /\ FP \in Nat /\ SZ \in Nat /\ AC \in Nat /\ SP \in Nat /\ SumFunction(fn) \in Nat
  BY <1>5, <1>7, SumType
<1>10. SZ = TP + FP
  <2>1. Adds(P, tp, fp, size)
    BY <1>6, <1>7 DEF Adds
  <2>2. QED BY <1>5, <2>1, SumOfBoth
<1>11. SumFunction(reach) = TP + SumFunction(fn)
  <2>1. Adds(P, tp, fn, reach)
    BY <1>6, <1>7 DEF Adds
  <2>2. QED BY <1>5, <2>1, SumOfBoth
<1>12. TP <= SP
  <2>1. \A i \in P : tp[i] = 0 \/ (i \in P /\ tp[i] <= spans[i])
    BY <1>6
  <2>2. QED BY <1>5, <1>7, <2>1, SumBelow
<1>13. SP <= SZ
  <2>1. \A i \in P : spans[i] = 0 \/ (i \in P /\ spans[i] <= size[i])
    BY <1>6
  <2>2. QED BY <1>5, <1>7, <2>1, SumBelow
<1>14. SZ <= AC
  <2>1. \A i \in P : size[i] = 0 \/ (i \in K /\ size[i] <= accepted[i])
    BY <1>2, <1>6
  <2>2. QED BY <1>5, <1>7, <2>1, SumBelow
<1>15. SZ < AC => \E i \in K : Len(found[i]) < rows[i].accepted
  <2> SUFFICES ASSUME \A i \in K : ~(Len(found[i]) < rows[i].accepted) PROVE AC <= SZ
    BY <1>9
  <2>1. ASSUME NEW i \in K PROVE accepted[i] = 0 \/ (i \in P /\ accepted[i] <= size[i])
    <3>1. Len(found[i]) = rows[i].accepted
      BY <1>3
    <3>2. CASE i \in P
      BY <1>3, <1>8, <3>1, <3>2
    <3>3. CASE i \notin P
      BY <1>2, <1>3, <1>8, <3>1, <3>3
    <3>4. QED BY <3>2, <3>3
  <2>2. QED BY <1>5, <1>7, <2>1, SumBelow
<1>16. Cardinality(C) <= Cardinality(N)
  BY <1>2, <1>5, FS_Subset
<1>17. Cardinality(E) + Cardinality(C) <= Cardinality(K)
  <2>1. Cardinality(E \cup C) = Cardinality(E) + Cardinality(C) - Cardinality({})
    BY <1>2, <1>5, FS_Union
  <2>2. E \cup C \in SUBSET K
    BY <1>2
  <2>3. Cardinality(E \cup C) <= Cardinality(K)
    BY <1>5, <2>2, FS_Subset
  <2>4. Cardinality({}) = 0 /\ Cardinality(E) \in Nat /\ Cardinality(C) \in Nat
    BY <1>5, FS_EmptySet, FS_CardinalityType
  <2>5. QED BY <2>1, <2>3, <2>4
<1>18. reach = [i \in Parsed(K) |-> Cardinality(DOMAIN InReach(i))]
  BY DEF reach, P
<1> HIDE DEF TP, FP, SZ, AC, SP
<1>19. SP \in TP .. TP + FP
  BY <1>9, <1>10, <1>12, <1>13
<1>20. /\ score.accepted = AC /\ score.tp = TP /\ score.fp = FP /\ score.fn = SumFunction(fn)
       /\ score.spans = SP
  BY <1>1 DEF AC, TP, FP, SP
<1>21. /\ score.tp + score.fp <= score.accepted /\ score.spans \in score.tp .. score.tp + score.fp
       /\ score.tp + score.fp < score.accepted => \E i \in K : Len(found[i]) < rows[i].accepted
  BY <1>10, <1>14, <1>15, <1>19, <1>20
<1>22. score.tp + score.fn = SumFunction([i \in Parsed(K) |-> Cardinality(DOMAIN InReach(i))])
  BY <1>11, <1>18, <1>20
<1>23. score.accused <= score.neutral /\ score.empty + score.accused <= score.calls
  BY <1>1, <1>16, <1>17
<1>24. QED BY <1>21, <1>22, <1>23 DEF AddsUp

\* The findings are those stored, in some order.
SomeOrder(all) == all = found \/ all = [i \in DOMAIN found |-> Reverse(found[i])]

LEMMA OrderKeepsLengths ==
  ASSUME TablesInv, NEW all, SomeOrder(all), NEW i \in DOMAIN rows
  PROVE  IsSeq(all[i]) /\ Len(all[i]) = Len(found[i])
<1>1. i \in 1..Len(rows) /\ DOMAIN found = 1..Len(rows)
  BY SequenceType DEF TablesInv
<1>2. IsSeq(found[i])
  BY <1>1 DEF TablesInv
<1>3. CASE all = found
  BY <1>2, <1>3
<1>4. CASE all = [j \in DOMAIN found |-> Reverse(found[j])]
  <2> DEFINE f == found[i]
             n == Len(f)
             r == [k \in 1..n |-> f[(n - k) + 1]]
  <2>1. all[i] = r
    BY <1>1, <1>4 DEF Reverse
  <2>2. n \in Nat
    BY <1>2, SequenceType
  <2> HIDE DEF n
  <2>3. r \in [1..n -> Range(r)]
    BY DEF Range
  <2> HIDE DEF r
  <2>4. r \in Seq(Range(r)) /\ Len(r) = n
    BY <2>2, <2>3
  <2>5. QED BY <2>1, <2>4 DEF IsSeq, n
<1>5. QED BY <1>3, <1>4 DEF SomeOrder

\* The calls that the property finds for a line are those it was made of.
LEMMA LineOfReport ==
  ASSUME TablesInv, reading \in 0..Len(rows), NEW S \in {1..reading, Comparable(reading)},
         NEW all, SomeOrder(all), NEW score \in ScoreAll(S, Joined, all, Labels)
  PROVE  AddsUp({i \in 1..reading : SameGroup(rows[i], score) /\ rows[i].article \in score.articles},
                score)
<1> DEFINE G == {i \in 1..reading : SameGroup(rows[i], score) /\ rows[i].article \in score.articles}
<1>1. rows \in Seq(Record) /\ DOMAIN rows = 1..Len(rows) /\ Len(rows) \in Nat
  BY DEF TablesInv
<1>2. 1..reading \subseteq DOMAIN rows /\ S \subseteq 1..reading
  BY <1>1 DEF Comparable
<1>3. S \in SUBSET (DOMAIN rows)
  BY <1>2
<1>4. PICK i \in S : score = ScoreGroup(Group(S, i), Joined, all, Labels)
  BY DEF ScoreAll, Group
<1> DEFINE K == Group(S, i)
<1>5. i \in K /\ K \subseteq S /\ K \in SUBSET (DOMAIN rows)
  BY <1>3 DEF Group, SameGroup
<1>6. ASSUME NEW j \in S PROVE j \in K <=> SameGroup(rows[i], rows[j])
  BY <1>3, JoinedRow DEF Group, SameGroup
<1>7. ScoreOf(score, K, i)
  BY <1>1, <1>3, <1>4, KeyOfGroup
<1>8. \A j \in 1..reading : HasLead[rows[j].article] => j \in Comparable(reading)
  BY DEF Comparable
<1>9. \A j \in Comparable(reading) : HasLead[rows[j].article]
  BY DEF Comparable
<1> HIDE DEF K
<1>10. /\ score.run = rows[i].run /\ score.variant = rows[i].variant
       /\ score.grammar = rows[i].grammar /\ score.source = rows[i].source
       /\ score.articles = {rows[j].article : j \in K}
  BY <1>7 DEF ScoreOf
<1>11. G = K
  <2>1. ASSUME NEW j \in K PROVE j \in G
    <3>1. j \in S /\ j \in 1..reading /\ SameGroup(rows[i], rows[j])
      BY <1>2, <1>5, <1>6
    <3>2. SameGroup(rows[j], score)
      BY <1>10, <3>1 DEF SameGroup
    <3>3. QED BY <1>10, <3>1, <3>2
  <2>2. ASSUME NEW j \in G PROVE j \in K
    <3>1. j \in 1..reading /\ SameGroup(rows[i], rows[j])
      BY <1>10 DEF SameGroup
    <3>2. PICK k \in K : rows[j].article = rows[k].article
      BY <1>10
    <3>3. j \in S
      <4>1. CASE S = 1..reading
        BY <3>1, <4>1
      <4>2. CASE S = Comparable(reading)
        BY <1>5, <1>8, <1>9, <3>1, <3>2, <4>2
      <4>3. QED BY <4>1, <4>2
    <3>4. QED BY <1>6, <3>1, <3>3
  <2>3. QED BY <2>1, <2>2
<1>12. Min(K) \in K
  <2>1. K \in SUBSET Nat /\ K # {}
    BY <1>1, <1>5
  <2>2. QED BY <2>1, MinIs
<1>13. \A j \in K : rows[j].variant = rows[Min(K)].variant
  <2>1. \A j \in K : rows[j].variant = rows[i].variant
    BY <1>5, <1>6 DEF SameGroup
  <2>2. QED BY <1>12, <2>1
<1>14. Counted(K, all, score)
  BY <1>4, <1>5, <1>12, <1>13, LineIsCounted DEF K
<1>15. \A j \in K : IsSeq(all[j]) /\ Len(all[j]) = Len(found[j])
  BY <1>5, OrderKeepsLengths
<1>16. AddsUp(K, score)
  BY <1>5, <1>14, <1>15, LineAddsUp
<1>17. QED BY <1>11, <1>16

\* report.py: what a line of the report counts.
LineHolds(s) ==
  LET group == {i \in 1..reading : SameGroup(rows[i], s) /\ rows[i].article \in s.articles}
      Reach(i) == Cardinality(DOMAIN Expected(Labels[rows[i].article], rows[i].variant))
  IN /\ s.tp + s.fp <= s.accepted /\ s.spans \in s.tp .. s.tp + s.fp
     /\ s.tp + s.fp < s.accepted => \E i \in group : Len(found[i]) < rows[i].accepted
     /\ s.tp + s.fn = SumFunction([i \in {i \in group : rows[i].parsed} |-> Reach(i)])
     /\ s.accused <= s.neutral /\ s.empty + s.accused <= s.calls

NewLines == UNION {report'[k] : k \in (DOMAIN report' \ DOMAIN report) \cap {1, 2}}

LEMMA NewLinesAddUp ==
  ASSUME TablesInv, ReadingInv, IsSeq(report), Next
  PROVE  \A s \in NewLines : LineHolds(s)
<1>1. CASE ReadFindings
  <2> SUFFICES ASSUME NEW s \in NewLines PROVE LineHolds(s)
    OBVIOUS
  <2>1. \E S \in {1..reading, Comparable(reading)}, all \in {found, [i \in DOMAIN found |-> Reverse(found[i])]} :
          report' = Append(report, ScoreAll(S, Joined, all, Labels))
    BY <1>1 DEF ReadFindings
  <2>2. PICK S \in {1..reading, Comparable(reading)} :
          \E all : SomeOrder(all) /\ report' = Append(report, ScoreAll(S, Joined, all, Labels))
    BY <2>1 DEF SomeOrder
  <2>3. PICK all : SomeOrder(all) /\ report' = Append(report, ScoreAll(S, Joined, all, Labels))
    BY <2>2
  <2> DEFINE n == Len(report)
             lines == ScoreAll(S, Joined, all, Labels)
  <2>4. DOMAIN report = 1..n /\ n \in Nat
    BY SequenceType
  <2>5. DOMAIN report' = 1..n+1 /\ report'[n + 1] = lines
    BY <2>3, AppendsOne
  <2> HIDE DEF n, lines
  <2>6. \A k \in DOMAIN report' \ DOMAIN report : k = n + 1
    BY <2>4, <2>5
  <2>7. s \in lines
    BY <2>5, <2>6 DEF NewLines
  <2>8. reading \in 0..Len(rows)
    BY <1>1 DEF ReadFindings, ReadingInv
  <2> DEFINE G == {i \in 1..reading : SameGroup(rows[i], s) /\ rows[i].article \in s.articles}
  <2>9. AddsUp(G, s)
    BY <2>3, <2>7, <2>8, LineOfReport DEF lines
  <2>10. Parsed(G) = {i \in G : rows[i].parsed}
    BY DEF Parsed
  <2> HIDE DEF G
  <2>11. QED BY <2>9, <2>10 DEF AddsUp, LineHolds, InReach, G
<1>2. CASE ReadStability
  <2>1. DOMAIN report = 1..2 /\ DOMAIN report' = 1..3
    <3>1. DOMAIN report = 1..Len(report) /\ Len(report) = 2
      BY <1>2, SequenceType DEF ReadStability
    <3>2. PICK lines : report' = Append(report, lines)
      BY <1>2 DEF ReadStability
    <3>3. DOMAIN report' = 1..Len(report)+1
      BY <3>2, AppendsOne
    <3>4. QED BY <3>1, <3>3
  <2>2. (DOMAIN report' \ DOMAIN report) \cap {1, 2} = {}
    BY <2>1
  <2>3. QED BY <2>2 DEF NewLines
<1>3. CASE report' = report
  BY <1>3 DEF NewLines
<1>4. Next => ReadFindings \/ ReadStability \/ report' = report
  BY DEF Next, ReportStep, Sample, Annotate, SweepStep, StartSweep, FailedCall, Call, SaveFindings,
         FinishSweep, Crash, ReadRows, reportVars
<1>5. QED BY <1>1, <1>2, <1>3, <1>4

THEOREM ReportAlwaysAddsUp == Spec => ReportAddsUp
<1>1. TablesInv /\ ReadingInv /\ IsSeq(report) /\ [Next]_vars => [\A s \in NewLines : LineHolds(s)]_vars
  BY NewLinesAddUp
<1>2. QED BY <1>1, ReportInvariant, PTL DEF Spec, ReportAddsUp, LineHolds, NewLines

=============================================================================
