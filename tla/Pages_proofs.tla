--------------------------- MODULE Pages_proofs ---------------------------
(***************************************************************************)
(* What a reader sees is so: proofs about the article page (Highlight.tla  *)
(* and Segments.tla), for texts of any length, findings of any number and  *)
(* every reply the assumptions admit:                                      *)
(*                                                                         *)
(*   - MarksAreExact, PiecesAreDisjoint, PiecesCover: segments.ts cuts a   *)
(*     text into pieces that cover it once, each under the marks it is in; *)
(*   - SpansAreTheQuotes, VerbatimQuotesAreKept: what validator.py finds   *)
(*     is what the quote says, and what the text says it finds;            *)
(*   - UnderlinesAgree, ContradictionsAreOnScreen: the page shows every    *)
(*     finding once, its mark under the number of its explanation;         *)
(*                                                                         *)
(* and about the account page and the bookmark button (WebClient.tla), for *)
(* any number of taps and categories:                                      *)
(*                                                                         *)
(*   - PanelLeavesOnlyErased, SavedIsStored: the account page is left only *)
(*     when the account is gone, and says "saved" of a set that is stored  *)
(*     unless a request it had given up overtakes the one it speaks of;    *)
(*   - ButtonIsTrue: taps that overlap or are given up too early, and      *)
(*     nothing else, leave the button at odds with the table, and no       *)
(*     longer than until a tap of its own succeeds.                        *)
(*                                                                         *)
(* Both the pieces and the folded text are concatenations (FlattenSeq),    *)
(* which the community modules define by recursion.  FlattenParts gives    *)
(* the one fact about them that everything rests on: there are offsets     *)
(* off[0] = 0, off[i] = off[i-1] + Len(ss[i]) such that the j-th element   *)
(* of ss[i] is at off[i-1] + j.  Inductions are over the least number at   *)
(* which a claim fails (LeastExists).                                      *)
(***************************************************************************)
EXTENDS Highlight, WebClient, FiniteSetTheorems, SequenceTheorems, WellFoundedInduction, TLAPS

-----------------------------------------------------------------------------
(***************************************************************************)
(* Least and greatest numbers.  Every induction below is one over a set of *)
(* numbers: the least number that is not as claimed cannot be.             *)
(***************************************************************************)
LEMMA LeastExists ==
  ASSUME NEW T \in SUBSET Nat, T # {}
  PROVE  \E t \in T : \A y \in T : t <= y
<1>1. PICK t \in T : \A y \in T : ~(<<y, t>> \in OpToRel(<, Nat))
  BY NatLessThanWellFounded, WFMin
<1>2. \A y \in T : ~(y < t)
  BY <1>1 DEF OpToRel
<1>3. QED BY <1>2

LEMMA GreatestExists ==
  ASSUME NEW n \in Nat, NEW T \in SUBSET (0..n), T # {}
  PROVE  \E t \in T : \A y \in T : y <= t
<1> DEFINE Below == {n - y : y \in T}
<1>1. Below \in SUBSET Nat /\ Below # {}
  <2>1. \A y \in T : y \in 0..n /\ n - y \in Nat
    OBVIOUS
  <2>2. QED BY <2>1
<1>2. PICK b \in Below : \A y \in Below : b <= y
  BY <1>1, LeastExists
<1>3. PICK t \in T : b = n - t
  OBVIOUS
<1>4. ASSUME NEW y \in T PROVE y <= t
  <2>1. n - t <= n - y
    BY <1>2, <1>3
  <2>2. t \in 0..n /\ y \in 0..n
    OBVIOUS
  <2>3. QED BY <2>1, <2>2
<1>5. QED BY <1>4

-----------------------------------------------------------------------------
(***************************************************************************)
(* Flattening.                                                             *)
(***************************************************************************)
\* off[i] is how much the first i parts come to.
Parts(off, ss) ==
  /\ off \in [0..Len(ss) -> Nat] /\ off[0] = 0
  /\ \A i \in 1..Len(ss) : off[i] = off[i-1] + Len(ss[i])

LEMMA FlattenRecursion ==
  ASSUME NEW S, NEW ss \in Seq(Seq(S)), ss # <<>>
  PROVE  \E g \in [1..Len(ss) -> Seq(S)] :
           /\ FlattenSeq(ss) = g[Len(ss)]
           /\ g[1] = ss[1]
           /\ \A i \in 2..Len(ss) : g[i] = g[i-1] \o ss[i]
<1> DEFINE n == Len(ss)
           Is(g, m) == g = [i \in 1..m |-> IF i = 1 THEN ss[i] ELSE g[i-1] \o ss[i]]
           T == {m \in 1..n : ~\E g : Is(g, m)}
<1>1. n \in Nat /\ n >= 1 /\ DOMAIN ss = 1..n /\ \A i \in 1..n : ss[i] \in Seq(S)
  BY LenProperties, EmptySeq, ElementOfSeq
<1>2. T = {}
  <2> HIDE DEF Is
  <2>1. SUFFICES ASSUME T # {} PROVE FALSE
    OBVIOUS
  <2>2. PICK m \in T : \A y \in T : m <= y
    <3>1. \A y \in T : y \in 1..n OBVIOUS
    <3> HIDE DEF T
    <3>2. T \in SUBSET Nat BY <1>1, <3>1
    <3>3. QED BY <2>1, <3>2, LeastExists
  <2>3. m \in 1..n /\ ~\E g : Is(g, m)
    BY <2>2
  <2>4. CASE m = 1
    <3>1. Is([i \in 1..1 |-> ss[i]], 1)
      BY DEF Is
    <3>2. QED BY <2>3, <2>4, <3>1
  <2>5. CASE m # 1
    <3>1. m - 1 \in 1..n /\ m - 1 \notin T
      <4>1. m - 1 \in 1..n /\ ~(m <= m - 1) BY <1>1, <2>3, <2>5
      <4> HIDE DEF T
      <4>2. QED BY <2>2, <4>1
    <3>2. PICK g : Is(g, m - 1)
      BY <3>1
    <3> USE DEF Is
    <3> DEFINE h == [i \in 1..m |-> IF i = m THEN g[m-1] \o ss[m] ELSE g[i]]
    <3>3. \A i \in 1..m : h[i] = IF i = 1 THEN ss[i] ELSE h[i-1] \o ss[i]
      <4>1. SUFFICES ASSUME NEW i \in 1..m
                     PROVE  h[i] = IF i = 1 THEN ss[i] ELSE h[i-1] \o ss[i]
        OBVIOUS
      <4>2. CASE i = m
        <5>1. m - 1 \in 1..m /\ m - 1 # m BY <2>3, <2>5, <1>1
        <5>2. h[i-1] = g[m-1] BY <4>2, <5>1
        <5>3. QED BY <2>5, <4>2, <5>2
      <4>3. CASE i # m
        <5>1. i \in 1..m-1 BY <1>1, <2>3, <4>3
        <5>2. h[i] = g[i] BY <4>3
        <5>3. g[i] = IF i = 1 THEN ss[i] ELSE g[i-1] \o ss[i]
          BY <3>2, <5>1
        <5>4. i # 1 => i - 1 \in 1..m /\ i - 1 # m BY <1>1, <2>3, <5>1
        <5>5. i # 1 => h[i-1] = g[i-1] BY <5>4
        <5>6. QED BY <5>2, <5>3, <5>5
      <4>4. QED BY <4>2, <4>3
    <3>4. Is(h, m)
      BY <3>3
    <3>5. QED BY <2>3, <3>4
  <2>6. QED BY <2>4, <2>5
<1> DEFINE g == CHOOSE g : Is(g, n)
<1>3. Is(g, n)
  <2>1. n \in 1..n BY <1>1
  <2>2. \E h : Is(h, n) BY <1>2, <2>1
  <2>3. QED BY <2>2
<1>4. FlattenSeq(ss) = g[n]
  BY <1>1 DEF FlattenSeq
<1> HIDE DEF g
<1>5. g[1] = ss[1]
  BY <1>1, <1>3
<1>6. \A i \in 2..n : g[i] = g[i-1] \o ss[i]
  <2>1. \A i \in 2..n : i \in 1..n /\ i # 1
    BY <1>1
  <2>2. QED BY <1>3, <2>1
<1>7. \A i \in 1..n : g[i] \in Seq(S)
  <2> DEFINE B == {i \in 1..n : g[i] \notin Seq(S)}
  <2>1. SUFFICES ASSUME B # {} PROVE FALSE
    OBVIOUS
  <2>2. PICK m \in B : \A y \in B : m <= y
    <3>1. B \in SUBSET Nat BY <1>1
    <3>2. QED BY <2>1, <3>1, LeastExists
  <2>3. m \in 1..n /\ g[m] \notin Seq(S)
    BY <2>2
  <2>4. m # 1
    BY <1>1, <1>5, <2>3
  <2>5. m - 1 \in 1..n /\ m - 1 \notin B /\ m \in 2..n
    BY <1>1, <2>2, <2>3, <2>4
  <2>6. g[m-1] \in Seq(S) /\ ss[m] \in Seq(S) /\ g[m] = g[m-1] \o ss[m]
    BY <1>1, <1>6, <2>3, <2>5
  <2>7. QED BY <2>3, <2>6, ConcatProperties
<1>8. g = [i \in 1..n |-> g[i]]
  BY <1>3
<1>9. g \in [1..n -> Seq(S)]
  BY <1>7, <1>8
<1>10. QED BY <1>4, <1>5, <1>6, <1>9

LEMMA PartsGrow ==
  ASSUME NEW S, NEW ss \in Seq(Seq(S)), NEW off, Parts(off, ss),
         NEW i \in 0..Len(ss), NEW k \in i..Len(ss)
  PROVE  off[i] <= off[k]
<1> DEFINE n == Len(ss)
           B == {m \in i..n : ~(off[i] <= off[m])}
<1>1. n \in Nat /\ DOMAIN ss = 1..n /\ \A m \in 1..n : Len(ss[m]) \in Nat
  BY LenProperties, ElementOfSeq
<1>2. SUFFICES ASSUME B # {} PROVE FALSE
  BY <1>1
<1>3. PICK m \in B : \A y \in B : m <= y
  <2>1. B \in SUBSET Nat BY <1>1
  <2>2. QED BY <1>2, <2>1, LeastExists
<1>4. m \in i..n /\ ~(off[i] <= off[m])
  BY <1>3
<1>11. m - 1 \in i..n /\ ~(m <= m - 1) => off[i] <= off[m-1]
  BY <1>3
<1> HIDE DEF B
<1>12. i \in 0..n /\ m \in 0..n
  BY <1>1, <1>4
<1>5. off[i] \in Nat /\ off[m] \in Nat
  BY <1>12 DEF Parts
<1>6. m # i
  BY <1>4, <1>5
<1>7. m - 1 \in i..n /\ m - 1 \in 0..n /\ m \in 1..n /\ ~(m <= m - 1)
  BY <1>1, <1>4, <1>6
<1>8. off[i] <= off[m-1]
  BY <1>7, <1>11
<1>9. off[m] = off[m-1] + Len(ss[m]) /\ off[m-1] \in Nat /\ Len(ss[m]) \in Nat
  BY <1>1, <1>7 DEF Parts
<1>10. QED BY <1>4, <1>5, <1>8, <1>9

\* Every position lies in one part.
LEMMA PartsCover ==
  ASSUME NEW S, NEW ss \in Seq(Seq(S)), NEW off, Parts(off, ss),
         NEW p \in 1..off[Len(ss)]
  PROVE  \E i \in 1..Len(ss) : off[i-1] < p /\ p <= off[i] /\ p - off[i-1] \in 1..Len(ss[i])
<1> DEFINE n == Len(ss)
           B == {i \in 0..n : p <= off[i]}
<1>1. n \in Nat /\ DOMAIN ss = 1..n /\ \A m \in 1..n : Len(ss[m]) \in Nat
  BY LenProperties, ElementOfSeq
<1>2. off[n] \in Nat /\ n \in B
  BY <1>1 DEF Parts
<1>3. PICK i \in B : \A y \in B : i <= y
  <2>1. B \in SUBSET Nat BY <1>1
  <2>2. QED BY <1>2, <2>1, LeastExists
<1>4. i # 0
  BY <1>3 DEF Parts
<1>5. i - 1 \in 0..n /\ i \in 1..n /\ ~(i <= i - 1)
  BY <1>1, <1>3, <1>4
<1>6. ~(p <= off[i-1])
  BY <1>3, <1>5
<1>7. off[i] = off[i-1] + Len(ss[i]) /\ off[i-1] \in Nat /\ Len(ss[i]) \in Nat
  BY <1>1, <1>5 DEF Parts
<1>8. p \in Nat /\ p <= off[i]
  BY <1>2, <1>3
<1> HIDE DEF B
<1>9. off[i-1] < p /\ p - off[i-1] \in 1..Len(ss[i])
  BY <1>6, <1>7, <1>8
<1>10. QED BY <1>5, <1>8, <1>9

LEMMA FlattenParts ==
  ASSUME NEW S, NEW ss \in Seq(Seq(S))
  PROVE  /\ FlattenSeq(ss) \in Seq(S)
         /\ \E off : /\ Parts(off, ss)
                     /\ Len(FlattenSeq(ss)) = off[Len(ss)]
                     /\ \A i \in 1..Len(ss) : \A j \in 1..Len(ss[i]) :
                          FlattenSeq(ss)[off[i-1] + j] = ss[i][j]
<1> DEFINE n == Len(ss)
<1>1. n \in Nat /\ DOMAIN ss = 1..n
      /\ \A i \in 1..n : ss[i] \in Seq(S) /\ Len(ss[i]) \in Nat
  BY LenProperties, ElementOfSeq
<1>2. CASE ss = <<>>
  <2>1. n = 0 /\ FlattenSeq(ss) = <<>>
    BY <1>2, EmptySeq DEF FlattenSeq
  <2> DEFINE off == [i \in 0..0 |-> 0]
  <2>2. Parts(off, ss) /\ off[0] = 0
    BY <2>1 DEF Parts
  <2> HIDE DEF off
  <2>3. Len(FlattenSeq(ss)) = off[Len(ss)]
    BY <1>2, <2>1, <2>2
  <2>4. 1..Len(ss) = {}
    BY <2>1
  <2>5. FlattenSeq(ss) \in Seq(S)
    BY <2>1
  <2>6. QED BY <2>2, <2>3, <2>4, <2>5
<1>3. CASE ss # <<>>
  <2>1. PICK g \in [1..n -> Seq(S)] : /\ FlattenSeq(ss) = g[n]
                                      /\ g[1] = ss[1]
                                      /\ \A i \in 2..n : g[i] = g[i-1] \o ss[i]
    BY <1>3, FlattenRecursion
  <2> DEFINE off == [i \in 0..n |-> IF i = 0 THEN 0 ELSE Len(g[i])]
  <2>2. n \in 1..n /\ n \in 0..n
    BY <1>1, <1>3, EmptySeq
  <2>3. \A i \in 1..n : g[i] \in Seq(S) /\ Len(g[i]) \in Nat
    BY LenProperties
  <2>4. /\ off \in [0..n -> Nat] /\ off[0] = 0
        /\ \A i \in 1..n : off[i] = Len(g[i])
    BY <1>1, <2>3
  <2> HIDE DEF off
  <2>5. \A i \in 1..n : off[i] = off[i-1] + Len(ss[i])
    <3>1. SUFFICES ASSUME NEW i \in 1..n PROVE off[i] = off[i-1] + Len(ss[i])
      OBVIOUS
    <3>2. CASE i = 1
      BY <1>1, <2>1, <2>4, <3>2
    <3>3. CASE i # 1
      <4>1. i \in 2..n /\ i - 1 \in 1..n BY <1>1, <3>3
      <4>2. g[i] = g[i-1] \o ss[i] /\ g[i-1] \in Seq(S) /\ ss[i] \in Seq(S)
        BY <1>1, <2>1, <2>3, <4>1
      <4>3. Len(g[i]) = Len(g[i-1]) + Len(ss[i])
        BY <4>2, ConcatProperties
      <4>4. QED BY <2>4, <4>1, <4>3
    <3>4. QED BY <3>2, <3>3
  <2>6. Parts(off, ss)
    BY <2>4, <2>5 DEF Parts
  <2>7. FlattenSeq(ss) \in Seq(S) /\ Len(FlattenSeq(ss)) = off[n]
    BY <2>1, <2>2, <2>3, <2>4
  \* A part stays where it is as more is appended.
  <2>8. ASSUME NEW i \in 1..n, NEW j \in 1..Len(ss[i])
        PROVE  g[n][off[i-1] + j] = ss[i][j]
    <3> DEFINE B == {k \in i..n : g[k][off[i-1] + j] # ss[i][j]}
    <3>1. off[i-1] \in Nat /\ off[i] = off[i-1] + Len(ss[i]) /\ Len(ss[i]) \in Nat
      BY <1>1, <2>4, <2>5
    <3>8. n \in i..n
      BY <1>1
    <3>2. SUFFICES ASSUME B # {} PROVE FALSE
      BY <3>8
    <3>3. PICK k \in B : \A y \in B : k <= y
      <4>1. B \in SUBSET Nat BY <1>1
      <4>2. QED BY <3>2, <4>1, LeastExists
    <3>9. k \in i..n /\ g[k][off[i-1] + j] # ss[i][j]
      BY <3>3
    <3>10. k - 1 \in i..n /\ ~(k <= k - 1) => g[k-1][off[i-1] + j] = ss[i][j]
      BY <3>3
    <3> HIDE DEF B
    <3>4. k \in i..n /\ k \in 1..n /\ g[k][off[i-1] + j] # ss[i][j]
      BY <1>1, <3>9
    <3>5. CASE k = 1
      <4>1. i = 1 BY <1>1, <3>4, <3>5
      <4>2. QED BY <2>1, <2>4, <3>4, <3>5, <4>1
    <3>6. CASE k # 1
      <4>1. k \in 2..n /\ k - 1 \in 1..n BY <1>1, <3>4, <3>6
      <4>2. g[k] = g[k-1] \o ss[k] /\ g[k-1] \in Seq(S) /\ ss[k] \in Seq(S)
        BY <1>1, <2>1, <2>3, <3>4, <4>1
      <4>3. \A q \in 1..Len(g[k-1]) + Len(ss[k]) :
              g[k][q] = IF q <= Len(g[k-1]) THEN g[k-1][q] ELSE ss[k][q - Len(g[k-1])]
        BY <4>2, ConcatProperties
      <4>4. off[k-1] = Len(g[k-1]) /\ Len(g[k-1]) \in Nat /\ Len(ss[k]) \in Nat
        BY <1>1, <2>3, <2>4, <3>4, <4>1
      <4> DEFINE before == off[i-1]
                 len == Len(ss[i])
                 one == Len(g[k-1])
                 two == Len(ss[k])
      <4>8. j \in Nat /\ 1 <= j /\ j <= len /\ before \in Nat /\ len \in Nat
        BY <3>1
      <4>9. one \in Nat /\ two \in Nat
        BY <4>4
      <4>10. \A q \in 1..one + two :
               /\ q <= one => g[k][q] = g[k-1][q]
               /\ ~(q <= one) => g[k][q] = ss[k][q - one]
        BY <4>3
      <4>11. /\ before + len <= one => before + j \in 1..one + two /\ before + j <= one
             /\ before = one /\ len = two => /\ before + j \in 1..one + two
                                            /\ ~(before + j <= one)
                                            /\ before + j - one = j
        <5> HIDE DEF before, len, one, two
        <5>1. QED BY <4>8, <4>9
      <4>5. CASE k = i
        <5>1. before = one /\ len = two
          BY <4>4, <4>5
        <5> HIDE DEF before, len, one, two
        <5>2. g[k][before + j] = ss[k][j]
          <6>1. /\ before + j \in 1..one + two /\ ~(before + j <= one)
                /\ before + j - one = j
            BY <4>11, <5>1
          <6>2. g[k][before + j] = ss[k][before + j - one]
            BY <4>8, <4>9, <4>10, <6>1
          <6>3. QED BY <6>1, <6>2
        <5>3. g[k][before + j] # ss[i][j]
          BY <3>4 DEF before
        <5>4. QED BY <4>5, <5>2, <5>3
      <4>6. CASE k # i
        <5>1. k - 1 \in i..n /\ ~(k <= k - 1)
          <6>1. i \in Int /\ k \in Int /\ n \in Int BY <1>1, <3>4
          <6>2. i <= k /\ k <= n BY <1>1, <3>4
          <6>3. QED BY <4>6, <6>1, <6>2
        <5>2. g[k-1][before + j] = ss[i][j]
          BY <3>10, <5>1
        <5>3. i \in 0..n /\ k - 1 \in i..n
          BY <1>1, <5>1
        <5>4. off[i] <= off[k-1]
          BY <2>6, <5>3, PartsGrow
        <5>5. before + len <= one
          BY <3>1, <4>4, <5>4
        <5>6. g[k][before + j] # ss[i][j]
          BY <3>4
        <5> HIDE DEF before, len, one, two
        <5>7. g[k][before + j] = g[k-1][before + j]
          BY <4>10, <4>11, <5>5
        <5>8. QED BY <5>2, <5>6, <5>7
      <4>7. QED BY <4>5, <4>6
    <3>7. QED BY <3>5, <3>6
  <2>9. QED BY <2>1, <2>6, <2>7, <2>8
<1>4. QED BY <1>2, <1>3

-----------------------------------------------------------------------------
(***************************************************************************)
(* Pieces.                                                                 *)
(***************************************************************************)
AreSpans(spans) ==
  \A k \in DOMAIN spans : spans[k].start \in Int /\ spans[k].end \in Int

\* The spans that position p lies in.
Over(spans, p) ==
  {k \in DOMAIN spans : spans[k].start <= p /\ p < spans[k].end}

LEMMA ClampWithin ==
  ASSUME NEW n \in Nat, NEW i \in Int
  PROVE  Clamp(n, i) \in 0..n
BY DEF Clamp

LEMMA BoundaryType ==
  ASSUME NEW n \in Nat, NEW spans, AreSpans(spans)
  PROVE  Boundaries(n, spans) \subseteq 0..n
<1> SUFFICES ASSUME NEW z \in Boundaries(n, spans) PROVE z \in 0..n
  OBVIOUS
<1>1. CASE z \in {0, n} BY <1>1
<1>2. CASE z \notin {0, n}
  <2>1. PICK k \in DOMAIN spans : z \in {Clamp(n, spans[k].start), Clamp(n, spans[k].end)}
    BY <1>2 DEF Boundaries
  <2>2. spans[k].start \in Int /\ spans[k].end \in Int BY DEF AreSpans
  <2>3. QED BY <2>1, <2>2, ClampWithin
<1>3. QED BY <1>1, <1>2

LEMMA EndsAreBoundaries ==
  ASSUME NEW n \in Nat, NEW spans, AreSpans(spans), NEW k \in DOMAIN spans,
         spans[k].start < spans[k].end
  PROVE  /\ Clamp(n, spans[k].start) \in Boundaries(n, spans)
         /\ Clamp(n, spans[k].end) \in Boundaries(n, spans)
BY DEF Boundaries

\* A piece lies between two boundaries with none in between.
LEMMA PieceFacts ==
  ASSUME NEW n \in Nat, NEW spans, AreSpans(spans), NEW piece \in Pieces(n, spans)
  PROVE  /\ piece.from \in 0..n /\ piece.to \in 0..n /\ piece.from < piece.to
         /\ \A z \in Boundaries(n, spans) : z <= piece.from \/ piece.to <= z
         /\ piece.from \in Boundaries(n, spans) /\ piece.to \in Boundaries(n, spans)
         /\ piece = [from |-> piece.from, to |-> piece.to,
                     marks |-> MarksOf(spans, piece.from, piece.to)]
<1>1. PICK c \in Cuts(n, spans) :
        piece = [from |-> c[1], to |-> c[2], marks |-> MarksOf(spans, c[1], c[2])]
  BY DEF Pieces
<1>2. piece.from = c[1] /\ piece.to = c[2] BY <1>1
<1>3. /\ c[1] \in Boundaries(n, spans) /\ c[2] \in Boundaries(n, spans) /\ c[1] < c[2]
      /\ ~\E z \in Boundaries(n, spans) : c[1] < z /\ z < c[2]
  BY DEF Cuts
<1>4. \A z \in Boundaries(n, spans) : z \in 0..n BY BoundaryType
<1>5. QED BY <1>1, <1>2, <1>3, <1>4

\* segments.ts:11 "overlapping spans produce one segment carrying both
\* marks": the marks of a piece are the spans that each of its characters
\* lies in.
THEOREM MarksAreExact ==
  ASSUME NEW n \in Nat, NEW spans, AreSpans(spans),
         NEW piece \in Pieces(n, spans), NEW p \in piece.from..piece.to - 1
  PROVE  piece.marks = Over(spans, p)
<1> DEFINE from == piece.from
           to == piece.to
<1>1. /\ from \in 0..n /\ to \in 0..n /\ from < to
      /\ \A z \in Boundaries(n, spans) : z <= from \/ to <= z
      /\ piece.marks = MarksOf(spans, from, to)
  BY PieceFacts
<1>2. p \in Int /\ from <= p /\ p < to BY <1>1
<1> SUFFICES ASSUME NEW k \in DOMAIN spans
             PROVE  k \in MarksOf(spans, from, to) <=> k \in Over(spans, p)
  BY <1>1 DEF MarksOf, Over
<1>3. spans[k].start \in Int /\ spans[k].end \in Int BY DEF AreSpans
<1>4. ASSUME k \in MarksOf(spans, from, to) PROVE k \in Over(spans, p)
  BY <1>1, <1>2, <1>3, <1>4 DEF MarksOf, Over
<1>5. ASSUME k \in Over(spans, p) PROVE k \in MarksOf(spans, from, to)
  <2>1. spans[k].start <= p /\ p < spans[k].end BY <1>5 DEF Over
  <2>2. spans[k].start < spans[k].end BY <1>2, <1>3, <2>1
  <2>3. /\ Clamp(n, spans[k].start) <= from \/ to <= Clamp(n, spans[k].start)
        /\ Clamp(n, spans[k].end) <= from \/ to <= Clamp(n, spans[k].end)
    BY <1>1, <2>2, EndsAreBoundaries
  <2>4. spans[k].start <= from BY <1>1, <1>2, <1>3, <2>1, <2>3 DEF Clamp
  <2>5. to <= spans[k].end BY <1>1, <1>2, <1>3, <2>1, <2>3 DEF Clamp
  <2>6. QED BY <2>2, <2>4, <2>5 DEF MarksOf
<1>6. QED BY <1>4, <1>5

\* segments.ts:10 "concatenating every segment returns the original
\* string": no character is shown in two pieces.
THEOREM PiecesAreDisjoint ==
  ASSUME NEW n \in Nat, NEW spans, AreSpans(spans),
         NEW one \in Pieces(n, spans), NEW two \in Pieces(n, spans),
         NEW p \in (one.from..one.to - 1) \cap (two.from..two.to - 1)
  PROVE  one = two
<1>1. /\ one.from \in 0..n /\ one.to \in 0..n
      /\ \A z \in Boundaries(n, spans) : z <= one.from \/ one.to <= z
      /\ one.from \in Boundaries(n, spans) /\ one.to \in Boundaries(n, spans)
      /\ one = [from |-> one.from, to |-> one.to, marks |-> MarksOf(spans, one.from, one.to)]
  BY PieceFacts
<1>2. /\ two.from \in 0..n /\ two.to \in 0..n
      /\ \A z \in Boundaries(n, spans) : z <= two.from \/ two.to <= z
      /\ two.from \in Boundaries(n, spans) /\ two.to \in Boundaries(n, spans)
      /\ two = [from |-> two.from, to |-> two.to, marks |-> MarksOf(spans, two.from, two.to)]
  BY PieceFacts
<1>3. /\ p \in Int /\ one.from <= p /\ p < one.to /\ two.from <= p /\ p < two.to
  BY <1>1, <1>2
<1>4. /\ two.from <= one.from \/ one.to <= two.from
      /\ one.from <= two.from \/ two.to <= one.from
      /\ two.to <= one.from \/ one.to <= two.to
      /\ one.to <= two.from \/ two.to <= one.to
  BY <1>1, <1>2
<1>5. one.from = two.from /\ one.to = two.to BY <1>1, <1>2, <1>3, <1>4
<1>6. QED BY <1>1, <1>2, <1>5

\* segments.ts:10 "concatenating every segment returns the original string":
\* no character is left out either.
THEOREM PiecesCover ==
  ASSUME NEW n \in Nat, NEW spans, AreSpans(spans), NEW p \in 0..n - 1
  PROVE  \E piece \in Pieces(n, spans) : p \in piece.from..piece.to - 1
<1> DEFINE Cutting == Boundaries(n, spans)
           Behind == {z \in Cutting : z <= p}
           After == {z \in Cutting : p < z}
<1>1. Cutting \subseteq 0..n /\ 0 \in Cutting /\ n \in Cutting
  BY BoundaryType DEF Boundaries
<1> HIDE DEF Cutting
<1>14. p \in Int /\ 0 <= p /\ p < n /\ 0..n \subseteq Nat
  OBVIOUS
<1>2. Behind \in SUBSET (0..n) /\ 0 \in Behind
  <2>1. \A z \in Behind : z \in 0..n
    BY <1>1
  <2>2. 0 \in Behind
    BY <1>1, <1>14
  <2> HIDE DEF Behind
  <2>3. QED BY <2>1, <2>2
<1>3. PICK from \in Behind : \A z \in Behind : z <= from
  BY <1>2, GreatestExists
<1>4. After \in SUBSET Nat /\ n \in After
  <2>1. \A z \in After : z \in Nat
    BY <1>1, <1>14
  <2>2. n \in After
    BY <1>1, <1>14
  <2> HIDE DEF After
  <2>3. QED BY <2>1, <2>2
<1>5. PICK to \in After : \A z \in After : to <= z
  BY <1>4, LeastExists
<1>6. from \in Cutting /\ to \in Cutting /\ from <= p /\ p < to
  BY <1>3, <1>5
<1>7. \A z \in Cutting : z <= from \/ to <= z
  BY <1>1, <1>3, <1>5
<1>8. from \in 0..n /\ to \in 0..n
  BY <1>1, <1>6
<1>9. from < to /\ ~\E z \in Cutting : from < z /\ z < to
  BY <1>1, <1>6, <1>7, <1>8
<1>10. <<from, to>> \in Cuts(n, spans)
  BY <1>6, <1>9 DEF Cuts, Cutting
<1>11. [from |-> from, to |-> to, marks |-> MarksOf(spans, from, to)] \in Pieces(n, spans)
  BY <1>10 DEF Pieces
<1>12. p \in from..to - 1
  BY <1>6, <1>8
<1>13. QED BY <1>11, <1>12

\* The characters of the pieces that span k marks are those of the span.
LEMMA MarkedIsTheSpan ==
  ASSUME NEW n \in Nat, NEW spans, AreSpans(spans), NEW k \in DOMAIN spans,
         0 <= spans[k].start, spans[k].end <= n
  PROVE  UNION {piece.from..piece.to - 1 : piece \in {piece \in Pieces(n, spans) : k \in piece.marks}}
           = spans[k].start..spans[k].end - 1
<1> DEFINE Marked == {piece \in Pieces(n, spans) : k \in piece.marks}
<1>1. spans[k].start \in Int /\ spans[k].end \in Int
  BY DEF AreSpans
<1>2. ASSUME NEW piece \in Marked, NEW p \in piece.from..piece.to - 1
      PROVE  p \in spans[k].start..spans[k].end - 1
  <2>1. piece \in Pieces(n, spans) /\ k \in piece.marks
    OBVIOUS
  <2>2. k \in Over(spans, p)
    BY <2>1, MarksAreExact
  <2>3. p \in Int
    BY <2>1, PieceFacts
  <2>4. QED BY <1>1, <2>2, <2>3 DEF Over
<1>3. ASSUME NEW p \in spans[k].start..spans[k].end - 1
      PROVE  \E piece \in Marked : p \in piece.from..piece.to - 1
  <2>1. p \in 0..n - 1 /\ spans[k].start <= p /\ p < spans[k].end
    BY <1>1
  <2>2. PICK piece \in Pieces(n, spans) : p \in piece.from..piece.to - 1
    BY <2>1, PiecesCover
  <2>3. k \in Over(spans, p)
    BY <2>1 DEF Over
  <2>4. k \in piece.marks
    BY <2>2, <2>3, MarksAreExact
  <2>5. QED BY <2>2, <2>4
<1> HIDE DEF Marked
<1>4. UNION {piece.from..piece.to - 1 : piece \in Marked} = spans[k].start..spans[k].end - 1
  BY <1>2, <1>3
<1>5. QED BY <1>4 DEF Marked

-----------------------------------------------------------------------------
(***************************************************************************)
(* The page.                                                               *)
(***************************************************************************)
LEMMA OfProperties ==
  ASSUME NEW R, NEW rows \in Seq(R), NEW field
  PROVE  /\ Of(field, rows) \in Seq({r \in R : r.field = field})
         /\ \A k \in DOMAIN rows : rows[k].field = field =>
              \E p \in DOMAIN Of(field, rows) : Of(field, rows)[p] = rows[k]
<1> DEFINE S == {r \in R : r.field = field}
           ss == [k \in DOMAIN rows |-> IF rows[k].field = field THEN <<rows[k]>> ELSE <<>>]
           flat == FlattenSeq(ss)
<1>1. Len(rows) \in Nat /\ DOMAIN rows = 1..Len(rows)
      /\ \A k \in 1..Len(rows) : rows[k] \in R
  BY LenProperties, ElementOfSeq
<1>2. \A k \in 1..Len(rows) : ss[k] \in Seq(S)
  <2>1. SUFFICES ASSUME NEW k \in 1..Len(rows) PROVE ss[k] \in Seq(S)
    OBVIOUS
  <2>2. CASE rows[k].field = field
    <3>1. rows[k] \in S BY <1>1, <2>2
    <3>2. ss[k] = <<rows[k]>> BY <1>1, <2>2
    <3> HIDE DEF S, ss
    <3>3. QED BY <3>1, <3>2
  <2>3. CASE rows[k].field # field
    BY <1>1, <2>3
  <2>4. QED BY <2>2, <2>3
<1>3. ss \in Seq(Seq(S)) /\ Len(ss) = Len(rows)
  <2>1. ss \in [1..Len(rows) -> Seq(S)]
    <3> HIDE DEF S
    <3>1. QED BY <1>1, <1>2
  <2> HIDE DEF S, ss
  <2>2. QED BY <1>1, <2>1
<1>4. Of(field, rows) = flat
  BY DEF Of
<1>5. /\ flat \in Seq(S)
      /\ \E off : /\ Parts(off, ss)
                  /\ Len(flat) = off[Len(ss)]
                  /\ \A i \in 1..Len(ss) : \A j \in 1..Len(ss[i]) :
                       flat[off[i-1] + j] = ss[i][j]
  <2> HIDE DEF S, ss
  <2>1. QED BY <1>3, FlattenParts
<1>6. ASSUME NEW k \in DOMAIN rows, rows[k].field = field
      PROVE  \E p \in DOMAIN flat : flat[p] = rows[k]
  <2>1. PICK off : /\ Parts(off, ss)
                   /\ Len(flat) = off[Len(ss)]
                   /\ \A i \in 1..Len(ss) : \A j \in 1..Len(ss[i]) :
                        flat[off[i-1] + j] = ss[i][j]
    BY <1>5
  <2>2. k \in 1..Len(ss) /\ Len(ss) \in Nat
    BY <1>1, <1>3
  <2>3. ss[k] = <<rows[k]>>
    BY <1>6
  <2> HIDE DEF flat, ss, S
  <2>4. Len(ss[k]) = 1 /\ ss[k][1] = rows[k] /\ 1 \in 1..Len(ss[k])
    BY <2>3
  <2>5. flat[off[k-1] + 1] = rows[k]
    BY <2>1, <2>2, <2>4
  <2>6. off[k-1] \in Nat /\ off[k] = off[k-1] + 1
    <3>1. k - 1 \in 0..Len(ss)
      BY <2>2
    <3>2. off[k-1] \in Nat /\ off[k] = off[k-1] + Len(ss[k])
      BY <2>1, <2>2, <3>1 DEF Parts
    <3>3. QED BY <2>4, <3>2
  <2>7. off[k] <= off[Len(ss)] /\ off[Len(ss)] \in Nat
    <3>1. k \in 0..Len(ss) /\ Len(ss) \in k..Len(ss)
      BY <2>2
    <3>2. off[k] <= off[Len(ss)]
      BY <1>3, <2>1, <3>1, PartsGrow
    <3>3. QED BY <2>1, <2>2, <3>2 DEF Parts
  <2>8. off[k-1] + 1 \in 1..Len(flat)
    BY <2>1, <2>6, <2>7
  <2>9. DOMAIN flat = 1..Len(flat)
    BY <1>5, LenProperties
  <2>10. QED BY <2>5, <2>8, <2>9
<1>7. flat \in Seq(S)
  BY <1>5
<1> HIDE DEF flat
<1>8. QED BY <1>4, <1>6, <1>7

LEMMA OfKeeps ==
  ASSUME NEW R, NEW rows \in Seq(R), NEW field, NEW k \in DOMAIN rows, rows[k].field = field
  PROVE  \E p \in DOMAIN Of(field, rows) : Of(field, rows)[p] = rows[k]
<1>1. /\ Of(field, rows) \in Seq({r \in R : r.field = field})
      /\ \A j \in DOMAIN rows : rows[j].field = field =>
           \E p \in DOMAIN Of(field, rows) : Of(field, rows)[p] = rows[j]
  BY OfProperties
<1>2. QED BY <1>1

\* What a page is given is every finding, in some order.
LEMMA SelectedIsAll ==
  ASSUME NEW R, findings \in Seq(R), NEW rows \in Selected
  PROVE  /\ rows \in Seq(R)
         /\ \A k \in DOMAIN findings : \E m \in DOMAIN rows : rows[m] = findings[k]
         /\ \A m \in DOMAIN rows : \E k \in DOMAIN findings : rows[m] = findings[k]
<1> DEFINE n == Len(findings)
           D == DOMAIN findings
<1>1. n \in Nat /\ D = 1..n /\ \A k \in D : findings[k] \in R
  BY LenProperties, ElementOfSeq
<1>2. PICK order \in SetToSeqs(D) : rows = [k \in D |-> findings[order[k]]]
  BY DEF Selected
<1>3. IsFiniteSet(D) /\ Cardinality(D) = n
  <2>1. 1 \in Int /\ n \in Int BY <1>1
  <2>2. Cardinality(1..n) = IF 1 > n THEN 0 ELSE n - 1 + 1 BY <2>1, FS_Interval
  <2>3. QED BY <1>1, <2>1, <2>2, FS_Interval
<1>4. order \in [D -> D] /\ \A i, j \in D : i # j => order[i] # order[j]
  BY <1>1, <1>2, <1>3 DEF SetToSeqs
<1> HIDE DEF D, n
<1>5. order \in Injection(D, D)
  BY <1>4 DEF Injection, IsInjective
<1>6. order \in Surjection(D, D)
  BY <1>3, <1>5, FS_Injection
<1>7. \A k \in D : \E m \in D : order[m] = k
  BY <1>6 DEF Surjection
<1>8. rows \in [1..n -> R]
  BY <1>1, <1>2, <1>4
<1>9. rows \in Seq(R) /\ DOMAIN rows = D
  BY <1>1, <1>8
<1>10. \A m \in D : rows[m] = findings[order[m]] /\ order[m] \in D
  BY <1>2, <1>4
<1>11. \A k \in D : \E m \in D : rows[m] = findings[k]
  BY <1>7, <1>10
<1>12. \A m \in D : \E k \in D : rows[m] = findings[k]
  BY <1>10
<1>13. QED BY <1>9, <1>11, <1>12 DEF D

\* What a finding is that the page can show.
Showable(f) ==
  /\ f.field \in {"title", "lead"} /\ (f.field = "lead" => HasLead)
  /\ f.start \in Nat /\ f.end \in Nat /\ f.start < f.end
  /\ f.end <= Len(Text(f.field)) /\ Len(Text(f.field)) \in Nat

\* The spans of one field are numbered from first on, and n is not theirs if it is
\* outside of their range.
LEMMA AnnotatedNumbers ==
  ASSUME NEW text, NEW spans, AreSpans(spans),
         NEW first \in Nat, NEW n \in Nat, NEW size \in Nat, DOMAIN spans = 1..size
  PROVE  /\ \A k \in DOMAIN spans :
              /\ n = first + k - 1 /\ Len(text) \in Nat
              /\ 0 <= spans[k].start /\ spans[k].end <= Len(text)
              => Underlined(Annotated(text, spans, first), n) = spans[k].start..spans[k].end - 1
         /\ n < first \/ first + size <= n =>
              Underlined(Annotated(text, spans, first), n) = {}
<1> DEFINE pieces == Pieces(Len(text), spans)
           Shown(piece) == [from |-> piece.from, to |-> piece.to,
                            numbers |-> {first + k - 1 : k \in piece.marks}]
<1>1. Annotated(text, spans, first) = {Shown(piece) : piece \in pieces}
  BY DEF Annotated
<1>2. ASSUME NEW piece \in pieces PROVE piece.marks \subseteq 1..size
  BY DEF Pieces, MarksOf
<1>3. ASSUME NEW k \in DOMAIN spans, n = first + k - 1, Len(text) \in Nat,
             0 <= spans[k].start, spans[k].end <= Len(text)
      PROVE  Underlined(Annotated(text, spans, first), n) = spans[k].start..spans[k].end - 1
  <2>1. \A piece \in pieces : n \in Shown(piece).numbers <=> k \in piece.marks
    <3>1. SUFFICES ASSUME NEW piece \in pieces
                   PROVE  n \in Shown(piece).numbers <=> k \in piece.marks
      OBVIOUS
    <3>2. \A m \in piece.marks : m \in Int
      BY <1>2
    <3>3. k \in Int
      OBVIOUS
    <3>4. \A m \in piece.marks : n = first + m - 1 <=> m = k
      BY <1>3, <3>2, <3>3
    <3>5. QED BY <3>4
  <2>2. Underlined(Annotated(text, spans, first), n) =
          UNION {piece.from..piece.to - 1 : piece \in {piece \in pieces : k \in piece.marks}}
    <3> DEFINE Numbered == {piece \in Annotated(text, spans, first) : n \in piece.numbers}
               Marked == {piece \in pieces : k \in piece.marks}
    <3>1. Numbered = {Shown(piece) : piece \in Marked}
      BY <1>1, <2>1
    <3>2. \A piece : Shown(piece).from = piece.from /\ Shown(piece).to = piece.to
      OBVIOUS
    <3> HIDE DEF Shown, Marked
    <3>3. UNION {piece.from..piece.to - 1 : piece \in Numbered}
            = UNION {piece.from..piece.to - 1 : piece \in Marked}
      BY <3>1, <3>2
    <3>4. QED BY <3>3 DEF Underlined, Marked
  <2>3. UNION {piece.from..piece.to - 1 : piece \in {piece \in Pieces(Len(text), spans) : k \in piece.marks}}
          = spans[k].start..spans[k].end - 1
    BY <1>3, MarkedIsTheSpan
  <2>4. QED BY <2>2, <2>3
<1>4. ASSUME n < first \/ first + size <= n
      PROVE  Underlined(Annotated(text, spans, first), n) = {}
  <2>1. ASSUME NEW piece \in pieces PROVE n \notin Shown(piece).numbers
    <3>1. \A m \in piece.marks : m \in Int /\ 1 <= m /\ m <= size
      BY <1>2
    <3>2. \A m \in piece.marks : n # first + m - 1
      BY <1>4, <3>1
    <3>3. QED BY <3>2
  <2> HIDE DEF Shown, pieces
  <2>2. QED BY <1>1, <2>1 DEF Underlined
<1>5. QED BY <1>3, <1>4

\* The number of an entry is that of the mark it explains, and of no other.
LEMMA NumbersAgree ==
  ASSUME NEW R, \A f \in R : Showable(f), NEW rows \in Seq(R)
  PROVE  LET shown == Rendered(rows) IN
         \A n \in DOMAIN shown.list :
           LET f == shown.list[n]
               other == IF f.field = "title" THEN "lead" ELSE "title"
           IN /\ f \in R
              /\ Underlined(shown[f.field], n) = f.start..f.end - 1
              /\ Underlined(shown[other], n) = {}
<1> DEFINE inTitle == Of("title", rows)
           inLead == Of("lead", rows)
           T == {r \in R : r.field = "title"}
           L == {r \in R : r.field = "lead"}
           titled == Annotated(title, inTitle, 1)
           leaded == IF HasLead THEN Annotated(lead, inLead, Len(inTitle) + 1) ELSE {}
           shown == Rendered(rows)
<1>1. inTitle \in Seq(T) /\ inLead \in Seq(L)
  BY OfProperties
<1>2. shown = [list |-> inTitle \o inLead, title |-> titled, lead |-> leaded]
  BY DEF Rendered
<1>3. shown.list = inTitle \o inLead /\ shown["title"] = titled /\ shown["lead"] = leaded
  <2> HIDE DEF inTitle, inLead, titled, leaded, shown
  <2>1. QED BY <1>2
<1> HIDE DEF inTitle, inLead, shown
<1>4. /\ Len(inTitle) \in Nat /\ DOMAIN inTitle = 1..Len(inTitle)
      /\ Len(inLead) \in Nat /\ DOMAIN inLead = 1..Len(inLead)
      /\ \A k \in 1..Len(inTitle) : inTitle[k] \in T
      /\ \A k \in 1..Len(inLead) : inLead[k] \in L
  <2> HIDE DEF T, L
  <2>1. QED BY <1>1, LenProperties, ElementOfSeq
<1>5. /\ \A k \in DOMAIN inTitle : inTitle[k] \in R /\ inTitle[k].field = "title"
                                   /\ Showable(inTitle[k])
      /\ \A k \in DOMAIN inLead : inLead[k] \in R /\ inLead[k].field = "lead"
                                  /\ Showable(inLead[k])
  BY <1>4
<1>6. AreSpans(inTitle) /\ AreSpans(inLead)
  BY <1>5 DEF AreSpans, Showable
<1>7. /\ Len(inTitle \o inLead) = Len(inTitle) + Len(inLead)
      /\ DOMAIN (inTitle \o inLead) = 1..Len(inTitle) + Len(inLead)
      /\ \A n \in 1..Len(inTitle) + Len(inLead) :
           (inTitle \o inLead)[n] = IF n <= Len(inTitle) THEN inTitle[n] ELSE inLead[n - Len(inTitle)]
  <2>1. inTitle \in Seq(R) /\ inLead \in Seq(R)
    BY <1>1, SeqMonotonic
  <2>2. QED BY <2>1, ConcatProperties, LenProperties
<1>8. SUFFICES ASSUME NEW n \in 1..Len(inTitle) + Len(inLead)
               PROVE  LET f == (inTitle \o inLead)[n]
                          other == IF f.field = "title" THEN "lead" ELSE "title"
                      IN /\ f \in R
                         /\ Underlined(shown[f.field], n) = f.start..f.end - 1
                         /\ Underlined(shown[other], n) = {}
  BY <1>3, <1>7 DEF shown
<1>9. n \in Nat /\ Len(inTitle) + 1 \in Nat
  BY <1>4
<1>10. CASE n <= Len(inTitle)
  <2>1. n \in DOMAIN inTitle /\ (inTitle \o inLead)[n] = inTitle[n]
    BY <1>4, <1>7, <1>10
  <2>2. /\ inTitle[n].field = "title" /\ inTitle[n] \in R
        /\ 0 <= inTitle[n].start /\ inTitle[n].end <= Len(title) /\ Len(title) \in Nat
    BY <1>5, <2>1 DEF Showable, Text
  <2>3. Underlined(titled, n) = inTitle[n].start..inTitle[n].end - 1
    BY <1>4, <1>6, <1>9, <2>1, <2>2, AnnotatedNumbers
  <2>4. Underlined(leaded, n) = {}
    <3>1. n < Len(inTitle) + 1
      BY <1>4, <1>9, <1>10
    <3>2. Underlined(Annotated(lead, inLead, Len(inTitle) + 1), n) = {}
      BY <1>4, <1>6, <1>9, <3>1, AnnotatedNumbers
    <3>3. Underlined({}, n) = {}
      BY DEF Underlined
    <3>4. QED BY <3>2, <3>3
  <2>5. QED BY <1>3, <2>1, <2>2, <2>3, <2>4
<1>11. CASE ~(n <= Len(inTitle))
  <2> DEFINE k == n - Len(inTitle)
  <2>1. k \in DOMAIN inLead /\ (inTitle \o inLead)[n] = inLead[k]
    BY <1>4, <1>7, <1>11
  <2>2. /\ inLead[k].field = "lead" /\ inLead[k] \in R /\ HasLead
        /\ 0 <= inLead[k].start /\ inLead[k].end <= Len(lead) /\ Len(lead) \in Nat
    BY <1>5, <2>1 DEF Showable, Text
  <2>3. n = Len(inTitle) + 1 + k - 1 /\ 1 + Len(inTitle) <= n
    BY <1>4, <1>9, <1>11
  <2> HIDE DEF k
  <2>4. Underlined(leaded, n) = inLead[k].start..inLead[k].end - 1
    BY <1>4, <1>6, <1>9, <2>1, <2>2, <2>3, AnnotatedNumbers
  <2>5. Underlined(titled, n) = {}
    BY <1>4, <1>6, <1>9, <2>3, AnnotatedNumbers
  <2>6. QED BY <1>3, <2>1, <2>2, <2>4, <2>5
<1>12. QED BY <1>10, <1>11

\* The list holds every finding the page was given, and nothing else.
LEMMA ListIsAll ==
  ASSUME NEW R, \A f \in R : f.field \in {"title", "lead"}, NEW rows \in Seq(R)
  PROVE  LET list == Rendered(rows).list IN
         /\ \A n \in DOMAIN list : \E m \in DOMAIN rows : list[n] = rows[m]
         /\ \A m \in DOMAIN rows : \E n \in DOMAIN list : list[n] = rows[m]
<1> DEFINE inTitle == Of("title", rows)
           inLead == Of("lead", rows)
           H == {rows[m] : m \in DOMAIN rows}
<1>1. Len(rows) \in Nat /\ DOMAIN rows = 1..Len(rows) /\ \A m \in DOMAIN rows : rows[m] \in R
  BY LenProperties, ElementOfSeq
<1>2. rows \in Seq(H)
  <2>1. rows \in [1..Len(rows) -> H]
    <3>1. rows = [m \in 1..Len(rows) |-> rows[m]] BY LenProperties
    <3>2. \A m \in 1..Len(rows) : rows[m] \in H BY <1>1
    <3> HIDE DEF H
    <3>3. QED BY <3>1, <3>2
  <2> HIDE DEF H
  <2>2. QED BY <1>1, <2>1
<1> HIDE DEF H
<1>3. /\ inTitle \in Seq(H) /\ inLead \in Seq(H)
      /\ \A m \in DOMAIN rows : rows[m].field = "title" =>
           \E p \in DOMAIN inTitle : inTitle[p] = rows[m]
      /\ \A m \in DOMAIN rows : rows[m].field = "lead" =>
           \E p \in DOMAIN inLead : inLead[p] = rows[m]
  <2>1. {r \in H : r.field = "title"} \subseteq H /\ {r \in H : r.field = "lead"} \subseteq H
    OBVIOUS
  <2>2. /\ inTitle \in Seq({r \in H : r.field = "title"})
        /\ inLead \in Seq({r \in H : r.field = "lead"})
    BY <1>2, OfProperties
  <2>3. inTitle \in Seq(H) /\ inLead \in Seq(H)
    BY <2>1, <2>2, SeqMonotonic
  <2>4. ASSUME NEW m \in DOMAIN rows, rows[m].field = "title"
        PROVE  \E p \in DOMAIN inTitle : inTitle[p] = rows[m]
    BY <1>2, <2>4, OfKeeps
  <2>5. ASSUME NEW m \in DOMAIN rows, rows[m].field = "lead"
        PROVE  \E p \in DOMAIN inLead : inLead[p] = rows[m]
    BY <1>2, <2>5, OfKeeps
  <2>6. QED BY <2>3, <2>4, <2>5
<1>4. Rendered(rows).list = inTitle \o inLead
  BY DEF Rendered
<1> HIDE DEF inTitle, inLead
<1>5. /\ Len(inTitle) \in Nat /\ DOMAIN inTitle = 1..Len(inTitle)
      /\ Len(inLead) \in Nat /\ DOMAIN inLead = 1..Len(inLead)
      /\ inTitle \o inLead \in Seq(H)
      /\ DOMAIN (inTitle \o inLead) = 1..Len(inTitle) + Len(inLead)
      /\ \A n \in 1..Len(inTitle) + Len(inLead) :
           (inTitle \o inLead)[n] = IF n <= Len(inTitle) THEN inTitle[n] ELSE inLead[n - Len(inTitle)]
  BY <1>3, ConcatProperties, LenProperties
<1>6. ASSUME NEW n \in DOMAIN (inTitle \o inLead)
      PROVE  \E m \in DOMAIN rows : (inTitle \o inLead)[n] = rows[m]
  <2>1. n \in 1..Len(inTitle \o inLead)
    BY <1>5, LenProperties
  <2>2. (inTitle \o inLead)[n] \in H
    BY <1>5, <2>1, ElementOfSeq
  <2>3. QED BY <2>2 DEF H
<1>7. ASSUME NEW m \in DOMAIN rows
      PROVE  \E n \in DOMAIN (inTitle \o inLead) : (inTitle \o inLead)[n] = rows[m]
  <2>1. rows[m].field \in {"title", "lead"}
    BY <1>1
  <2>2. CASE rows[m].field = "title"
    <3>1. PICK p \in DOMAIN inTitle : inTitle[p] = rows[m]
      BY <1>3, <2>2
    <3>2. p \in 1..Len(inTitle) + Len(inLead) /\ p <= Len(inTitle)
      BY <1>5
    <3>3. QED BY <1>5, <3>1, <3>2
  <2>3. CASE rows[m].field = "lead"
    <3>1. PICK p \in DOMAIN inLead : inLead[p] = rows[m]
      BY <1>3, <2>3
    <3> DEFINE n == Len(inTitle) + p
    <3>2. /\ n \in 1..Len(inTitle) + Len(inLead) /\ ~(n <= Len(inTitle))
          /\ n - Len(inTitle) = p
      BY <1>5
    <3> HIDE DEF n
    <3>3. (inTitle \o inLead)[n] = inLead[p]
      BY <1>5, <3>2
    <3>4. QED BY <1>5, <3>1, <3>2, <3>3
  <2>4. QED BY <2>1, <2>2, <2>3
<1>8. QED BY <1>4, <1>6, <1>7

-----------------------------------------------------------------------------
(***************************************************************************)
(* Folding.                                                                *)
(***************************************************************************)
IsText(text) == Len(text) \in Nat /\ DOMAIN text = 1..Len(text)

FoldParts(text) ==
  [i \in 1..Len(text) |->
    [j \in DOMAIN Produced(text, i) |-> [char |-> Produced(text, i)[j], origin |-> i - 1]]]

\* off[i] is how much the first i characters of a text come to, folded.
Folds(off, text) ==
  /\ Parts(off, FoldParts(text))
  /\ off \in [0..Len(text) -> Nat] /\ off[0] = 0
  /\ \A i \in 1..Len(text) : off[i] = off[i-1] + Len(Produced(text, i))
  /\ Len(Normalise(text)) = off[Len(text)]
  /\ DOMAIN Normalise(text) = 1..Len(Normalise(text))
  /\ \A i \in 1..Len(text) : \A j \in 1..Len(Produced(text, i)) :
       /\ Normalise(text)[off[i-1] + j].char = Produced(text, i)[j]
       /\ Normalise(text)[off[i-1] + j].origin = i - 1

LEMMA TypographyFacts ==
  ASSUME NEW c, c # Blank
  PROVE  /\ Len(Typography(c)) \in 1..3 /\ DOMAIN Typography(c) = 1..Len(Typography(c))
         /\ c # "ellipsis" => Len(Typography(c)) = 1
         /\ \A j \in 1..Len(Typography(c)) : Typography(c)[j] # Blank
<1>1. CASE c = "endash"
  <2>1. Typography(c) = <<"-">> BY <1>1 DEF Typography
  <2>2. \A j \in 1..Len(Typography(c)) : Typography(c)[j] = "-" BY <2>1
  <2>3. \A j \in 1..Len(Typography(c)) : Typography(c)[j] # Blank BY <2>2 DEF Blank
  <2>4. Len(Typography(c)) = 1 /\ DOMAIN Typography(c) = 1..1 BY <2>1
  <2>5. QED BY <2>3, <2>4
<1>2. CASE c = "ellipsis"
  <2>1. Typography(c) = <<".", ".", ".">> BY <1>2 DEF Typography
  <2>2. \A j \in 1..Len(Typography(c)) : Typography(c)[j] = "." BY <2>1
  <2>3. \A j \in 1..Len(Typography(c)) : Typography(c)[j] # Blank BY <2>2 DEF Blank
  <2>4. Len(Typography(c)) = 3 /\ DOMAIN Typography(c) = 1..3 BY <2>1
  <2>5. QED BY <1>2, <2>3, <2>4
<1>3. CASE c # "endash" /\ c # "ellipsis"
  <2>1. Typography(c) = <<c>> BY <1>3 DEF Typography
  <2>2. QED BY <2>1
<1>4. QED BY <1>1, <1>2, <1>3

\* When a character comes to something, and to what.
LEMMA ProducedFacts ==
  ASSUME NEW text, NEW i
  PROVE  /\ Len(Produced(text, i)) \in 0..3
         /\ DOMAIN Produced(text, i) = 1..Len(Produced(text, i))
         /\ text[i] # Blank => Len(Produced(text, i)) >= 1
         /\ text[i] # Blank /\ text[i] # "ellipsis" => Len(Produced(text, i)) = 1
         /\ text[i] # Blank => \A j \in 1..Len(Produced(text, i)) : Produced(text, i)[j] # Blank
         /\ text[i] = Blank => \A j \in 1..Len(Produced(text, i)) : Produced(text, i)[j] = Blank
         /\ text[i] = Blank /\ Len(Produced(text, i)) # 0 =>
              i > 1 /\ text[i-1] # Blank /\ \E j \in i+1..Len(text) : text[j] # Blank
<1>1. CASE text[i] # Blank
  <2>1. Produced(text, i) = Typography(text[i]) BY <1>1 DEF Produced
  <2>2. /\ Len(Typography(text[i])) \in 1..3
        /\ DOMAIN Typography(text[i]) = 1..Len(Typography(text[i]))
        /\ text[i] # "ellipsis" => Len(Typography(text[i])) = 1
        /\ \A j \in 1..Len(Typography(text[i])) : Typography(text[i])[j] # Blank
    BY <1>1, TypographyFacts
  <2>3. \A l \in 1..3 : l \in 0..3 /\ l >= 1 OBVIOUS
  <2>4. QED BY <1>1, <2>1, <2>2, <2>3
<1>2. CASE text[i] = Blank
  <2> DEFINE kept == i > 1 /\ text[i-1] # Blank /\ \E j \in i+1..Len(text) : text[j] # Blank
  <2>1. Produced(text, i) = IF kept THEN <<Blank>> ELSE <<>>
    BY <1>2 DEF Produced
  <2> HIDE DEF kept
  <2>2. CASE kept
    <3>1. Produced(text, i) = <<Blank>> BY <2>1, <2>2
    <3>2. QED BY <1>2, <2>2, <3>1 DEF kept
  <2>3. CASE ~kept
    <3>1. Produced(text, i) = <<>> BY <2>1, <2>3
    <3>2. QED BY <1>2, <3>1
  <2>4. QED BY <2>2, <2>3
<1>3. QED BY <1>1, <1>2

LEMMA FoldPartsType ==
  ASSUME NEW text, IsText(text)
  PROVE  /\ \E S : FoldParts(text) \in Seq(Seq(S))
         /\ Len(FoldParts(text)) = Len(text)
         /\ Normalise(text) = FlattenSeq(FoldParts(text))
         /\ \A i \in 1..Len(text) :
              /\ Len(FoldParts(text)[i]) = Len(Produced(text, i))
              /\ \A j \in 1..Len(Produced(text, i)) :
                   FoldParts(text)[i][j] = [char |-> Produced(text, i)[j], origin |-> i - 1]
<1> DEFINE n == Len(text)
           ss == FoldParts(text)
           S == UNION {{ss[i][j] : j \in 1..Len(Produced(text, i))} : i \in 1..n}
<1>1. n \in Nat
  BY DEF IsText
<1>2. ASSUME NEW i \in 1..n
      PROVE  /\ Len(Produced(text, i)) \in Nat
             /\ ss[i] = [j \in 1..Len(Produced(text, i)) |->
                          [char |-> Produced(text, i)[j], origin |-> i - 1]]
  <2>1. /\ Len(Produced(text, i)) \in 0..3
        /\ DOMAIN Produced(text, i) = 1..Len(Produced(text, i))
    BY ProducedFacts
  <2>2. QED BY <2>1 DEF FoldParts
<1>3. DOMAIN ss = 1..n /\ ss = [i \in 1..n |-> ss[i]]
  BY DEF FoldParts
<1> HIDE DEF ss
<1>4. ASSUME NEW i \in 1..n
      PROVE  /\ Len(ss[i]) = Len(Produced(text, i))
             /\ \A j \in 1..Len(Produced(text, i)) :
                  ss[i][j] = [char |-> Produced(text, i)[j], origin |-> i - 1]
             /\ ss[i] \in Seq(S)
  <2> DEFINE l == Len(Produced(text, i))
  <2>1. l \in Nat /\ ss[i] = [j \in 1..l |-> [char |-> Produced(text, i)[j], origin |-> i - 1]]
    BY <1>2
  <2>2. \A j \in 1..l : ss[i][j] \in S
    OBVIOUS
  <2>3. \A j \in 1..l : ss[i][j] = [char |-> Produced(text, i)[j], origin |-> i - 1]
    BY <2>1
  <2>4. ss[i] = [j \in 1..l |-> ss[i][j]]
    BY <2>1
  <2> HIDE DEF S, l
  <2>5. ss[i] \in [1..l -> S]
    BY <2>2, <2>4
  <2>6. ss[i] \in Seq(S) /\ Len(ss[i]) = l
    BY <2>1, <2>5
  <2>7. QED BY <2>3, <2>6 DEF l
<1>5. ss \in [1..n -> Seq(S)]
  <2> HIDE DEF S, n
  <2>1. QED BY <1>3, <1>4
<1>6. ss \in Seq(Seq(S)) /\ Len(ss) = n
  <2> HIDE DEF S, n
  <2>1. QED BY <1>1, <1>5
<1>7. Normalise(text) = FlattenSeq(ss)
  BY DEF Normalise, FoldParts, ss
<1> HIDE DEF S
<1>8. QED BY <1>4, <1>6, <1>7 DEF ss

LEMMA FoldsExists ==
  ASSUME NEW text, IsText(text)
  PROVE  \E off : Folds(off, text)
<1> DEFINE ss == FoldParts(text)
<1>1. PICK S : ss \in Seq(Seq(S))
  BY FoldPartsType
<1>2. /\ Len(ss) = Len(text)
      /\ Normalise(text) = FlattenSeq(ss)
      /\ \A i \in 1..Len(text) :
              /\ Len(ss[i]) = Len(Produced(text, i))
              /\ \A j \in 1..Len(Produced(text, i)) :
                   ss[i][j] = [char |-> Produced(text, i)[j], origin |-> i - 1]
  BY FoldPartsType
<1> HIDE DEF ss
<1>3. PICK off : /\ Parts(off, ss)
                 /\ Len(FlattenSeq(ss)) = off[Len(ss)]
                 /\ \A i \in 1..Len(ss) : \A j \in 1..Len(ss[i]) :
                      FlattenSeq(ss)[off[i-1] + j] = ss[i][j]
  BY <1>1, FlattenParts
<1>4. DOMAIN Normalise(text) = 1..Len(Normalise(text))
  <2>1. FlattenSeq(ss) \in Seq(S)
    BY <1>1, FlattenParts
  <2>2. QED BY <1>2, <2>1, LenProperties
<1>5. /\ off \in [0..Len(text) -> Nat] /\ off[0] = 0
      /\ \A i \in 1..Len(text) : off[i] = off[i-1] + Len(Produced(text, i))
  BY <1>2, <1>3 DEF Parts
<1>6. \A i \in 1..Len(text) : \A j \in 1..Len(Produced(text, i)) :
        Normalise(text)[off[i-1] + j] = [char |-> Produced(text, i)[j], origin |-> i - 1]
  BY <1>2, <1>3
<1>7. \A i \in 1..Len(text) : \A j \in 1..Len(Produced(text, i)) :
       /\ Normalise(text)[off[i-1] + j].char = Produced(text, i)[j]
       /\ Normalise(text)[off[i-1] + j].origin = i - 1
  <2>1. SUFFICES ASSUME NEW i \in 1..Len(text), NEW j \in 1..Len(Produced(text, i))
                 PROVE  /\ Normalise(text)[off[i-1] + j].char = Produced(text, i)[j]
                        /\ Normalise(text)[off[i-1] + j].origin = i - 1
    OBVIOUS
  <2>2. Normalise(text)[off[i-1] + j] = [char |-> Produced(text, i)[j], origin |-> i - 1]
    BY <1>6
  <2>3. QED BY <2>2
<1>8. Folds(off, text)
  BY <1>2, <1>3, <1>4, <1>5, <1>7 DEF Folds, ss
<1>9. QED BY <1>8

LEMMA FoldsGrow ==
  ASSUME NEW text, IsText(text), NEW off, Folds(off, text),
         NEW i \in 0..Len(text), NEW k \in i..Len(text)
  PROVE  off[i] <= off[k] /\ off[i] \in Nat /\ off[k] \in Nat
<1>1. PICK S : FoldParts(text) \in Seq(Seq(S))
  BY FoldPartsType
<1>2. Len(FoldParts(text)) = Len(text)
  BY FoldPartsType
<1>3. off[i] <= off[k]
  BY <1>1, <1>2, PartsGrow DEF Folds
<1>4. k \in 0..Len(text)
  BY DEF IsText
<1>5. QED BY <1>3, <1>4 DEF Folds

\* The character that a place of the folded text comes from.
LEMMA FoldsPlace ==
  ASSUME NEW text, IsText(text), NEW off, Folds(off, text), NEW p \in 1..Len(Normalise(text))
  PROVE  \E i \in 1..Len(text) :
           /\ off[i-1] < p /\ p <= off[i] /\ off[i-1] \in Nat /\ off[i] \in Nat
           /\ p - off[i-1] \in 1..Len(Produced(text, i))
           /\ Normalise(text)[p].char = Produced(text, i)[p - off[i-1]]
           /\ Normalise(text)[p].origin = i - 1
<1> DEFINE ss == FoldParts(text)
<1>1. PICK S : ss \in Seq(Seq(S))
  BY FoldPartsType
<1>2. Len(ss) = Len(text) /\ \A i \in 1..Len(text) : Len(ss[i]) = Len(Produced(text, i))
  BY FoldPartsType
<1>3. Parts(off, ss) /\ p \in 1..off[Len(ss)]
  BY <1>2 DEF Folds
<1> HIDE DEF ss
<1>4. PICK i \in 1..Len(ss) : off[i-1] < p /\ p <= off[i] /\ p - off[i-1] \in 1..Len(ss[i])
  BY <1>1, <1>3, PartsCover
<1> DEFINE j == p - off[i-1]
<1>5. i \in 1..Len(text) /\ j \in 1..Len(Produced(text, i))
  BY <1>2, <1>4
<1>6. off[i-1] \in Nat /\ off[i] \in Nat /\ off[Len(text)] \in Nat
  <2>1. i \in 0..Len(text) /\ i - 1 \in 0..Len(text) /\ Len(text) \in 0..Len(text)
    BY <1>5 DEF IsText
  <2>2. QED BY <2>1 DEF Folds
<1>7. p \in Int /\ off[i-1] + j = p
  BY <1>6
<1> HIDE DEF j
<1>8. /\ Normalise(text)[off[i-1] + j].char = Produced(text, i)[j]
      /\ Normalise(text)[off[i-1] + j].origin = i - 1
  BY <1>5 DEF Folds
<1>9. QED BY <1>4, <1>5, <1>6, <1>7, <1>8 DEF j

\* From lo to hi the numbers u grow as the numbers v do, d places on.
GrowAlike(u, v, lo, hi, d) ==
  /\ lo \in Int /\ hi \in Int /\ d \in Int
  /\ \A m \in lo..hi : u[m] \in Int /\ v[m + d] \in Int
  /\ \A m \in lo+1..hi : u[m] - u[m-1] = v[m + d] - v[m - 1 + d]

LEMMA SameGrowth ==
  ASSUME NEW u, NEW v, NEW lo, NEW hi, NEW d, GrowAlike(u, v, lo, hi, d)
  PROVE  \A m \in lo..hi : u[m] = u[lo] + v[m + d] - v[lo + d]
<1>0. /\ lo \in Int /\ hi \in Int /\ d \in Int
      /\ \A m \in lo..hi : u[m] \in Int /\ v[m + d] \in Int
      /\ \A m \in lo+1..hi : u[m] - u[m-1] = v[m + d] - v[m - 1 + d]
  BY DEF GrowAlike
<1> DEFINE T == {k \in Nat : k <= hi - lo /\ u[lo + k] # u[lo] + v[lo + k + d] - v[lo + d]}
<1>1. T = {}
  <2>1. SUFFICES ASSUME T # {} PROVE FALSE
    OBVIOUS
  <2>2. PICK k \in T : \A y \in T : k <= y
    <3>1. T \in SUBSET Nat OBVIOUS
    <3> HIDE DEF T
    <3>2. QED BY <2>1, <3>1, LeastExists
  <2>3. k \in Nat /\ k <= hi - lo /\ u[lo + k] # u[lo] + v[lo + k + d] - v[lo + d]
    BY <2>2
  <2>4. lo \in lo..hi
    BY <1>0, <2>3
  <2>5. u[lo] \in Int /\ v[lo + d] \in Int
    BY <1>0, <2>4
  <2>6. k # 0
    <3>1. lo + 0 = lo /\ lo + 0 + d = lo + d BY <1>0
    <3>2. k = 0 => u[lo + k] = u[lo] /\ v[lo + k + d] = v[lo + d] BY <3>1
    <3>3. QED BY <2>3, <2>5, <3>2
  <2>7. k - 1 \in Nat /\ k - 1 <= hi - lo /\ k - 1 \notin T
    <3>1. k - 1 \in Nat /\ k - 1 <= hi - lo /\ ~(k <= k - 1) BY <1>0, <2>3, <2>6
    <3> HIDE DEF T
    <3>2. QED BY <2>2, <3>1
  <2>8. u[lo + (k - 1)] = u[lo] + v[lo + (k - 1) + d] - v[lo + d]
    BY <2>7
  <2> DEFINE m == lo + k
  <2>9. /\ m \in lo+1..hi /\ m \in lo..hi /\ m - 1 \in lo..hi
        /\ lo + (k - 1) = m - 1 /\ lo + (k - 1) + d = m - 1 + d
    BY <1>0, <2>3, <2>6
  <2> HIDE DEF m
  <2>10. u[m] - u[m-1] = v[m + d] - v[m - 1 + d] /\ u[m - 1] = u[lo] + v[m - 1 + d] - v[lo + d]
    BY <1>0, <2>8, <2>9
  <2>11. u[m] \in Int /\ u[m-1] \in Int /\ v[m + d] \in Int /\ v[m - 1 + d] \in Int
    BY <1>0, <2>9
  <2>12. u[m] = u[lo] + v[m + d] - v[lo + d]
    BY <2>5, <2>10, <2>11
  <2>13. QED BY <2>3, <2>12 DEF m
<1>2. ASSUME NEW m \in lo..hi PROVE u[m] = u[lo] + v[m + d] - v[lo + d]
  <2> DEFINE k == m - lo
  <2>1. k \in Nat /\ k <= hi - lo /\ lo + k = m
    BY <1>0
  <2> HIDE DEF k
  <2>2. k \notin T BY <1>1
  <2>3. u[lo + k] = u[lo] + v[lo + k + d] - v[lo + d]
    BY <2>1, <2>2
  <2>4. QED BY <2>1, <2>3
<1>3. QED BY <1>2

LEMMA NoGrowth ==
  ASSUME NEW u, NEW lo \in Int, NEW hi \in Int, lo <= hi,
         \A m \in lo..hi : u[m] \in Int,
         \A m \in lo+1..hi : u[m] = u[m-1]
  PROVE  u[hi] = u[lo]
<1> DEFINE v == [l \in Int |-> 0]
<1>1. \A l \in Int : v[l] = 0
  OBVIOUS
<1> HIDE DEF v
<1>2. \A m \in lo..hi : u[m] \in Int /\ v[m + 0] \in Int
  BY <1>1
<1>3. \A m \in lo+1..hi : u[m] - u[m-1] = v[m + 0] - v[m - 1 + 0]
  <2>1. SUFFICES ASSUME NEW m \in lo+1..hi PROVE u[m] - u[m-1] = v[m + 0] - v[m - 1 + 0]
    OBVIOUS
  <2>2. v[m + 0] = 0 /\ v[m - 1 + 0] = 0
    BY <1>1
  <2>3. m \in lo..hi
    OBVIOUS
  <2>4. u[m] = u[m-1] /\ u[m] \in Int
    BY <1>2, <2>3
  <2>5. QED BY <2>2, <2>4
<1>4. \A m \in lo..hi : u[m] = u[lo] + v[m + 0] - v[lo + 0]
  <2>1. GrowAlike(u, v, lo, hi, 0) BY <1>2, <1>3 DEF GrowAlike
  <2>2. QED BY <2>1, SameGrowth
<1>5. hi \in lo..hi /\ lo \in lo..hi /\ v[hi + 0] = 0 /\ v[lo + 0] = 0
  BY <1>1
<1>6. QED BY <1>2, <1>4, <1>5

LEMMA SubText ==
  ASSUME NEW text, IsSeq(text), NEW a \in 1..Len(text)+1, NEW b \in a-1..Len(text)
  PROVE  /\ IsText(SubSeq(text, a, b)) /\ IsSeq(SubSeq(text, a, b))
         /\ Len(SubSeq(text, a, b)) = b - a + 1
         /\ \A m \in 1..b-a+1 : SubSeq(text, a, b)[m] = text[m + a - 1]
<1>1. text \in Seq(Range(text)) BY DEF IsSeq
<1> DEFINE sub == SubSeq(text, a, b)
<1>2. /\ sub \in Seq(Range(text)) /\ Len(sub) = b - a + 1
      /\ \A m \in 1..b-a+1 : sub[m] = text[m + a - 1]
  <2>1. Len(text) \in Nat BY <1>1
  <2>2. \A m \in 1..b-a+1 : a + m - 1 = m + a - 1 BY <2>1
  <2>3. QED BY <1>1, <2>1, <2>2, SubSeqProperties
<1> HIDE DEF sub
<1>3. Len(sub) \in Nat /\ DOMAIN sub = 1..Len(sub)
  BY <1>2, LenProperties
<1>4. sub \in Seq(Range(sub))
  <2>1. sub = [m \in 1..Len(sub) |-> sub[m]] BY <1>2, LenProperties
  <2>2. \A m \in 1..Len(sub) : sub[m] \in Range(sub) BY <1>3 DEF Range
  <2>3. sub \in [1..Len(sub) -> Range(sub)] BY <2>1, <2>2
  <2>4. QED BY <1>3, <2>3
<1>5. QED BY <1>2, <1>3, <1>4 DEF sub, IsText, IsSeq

\* The places from x to y are those of a slice a..b of a text that are not blanks at
\* its ends.
Core(text, a, b, x, y) ==
  /\ x \in a..b /\ y \in x..b /\ text[x] # Blank /\ text[y] # Blank
  /\ \A i \in a..x-1 : text[i] = Blank
  /\ \A i \in y+1..b : text[i] = Blank

LEMMA CoreExists ==
  ASSUME NEW text, NEW a \in Nat, NEW b \in Nat,
         NEW w \in a..b, text[w] # Blank
  PROVE  \E x, y : Core(text, a, b, x, y)
<1> DEFINE T == {i \in a..b : text[i] # Blank}
<1>1. T \in SUBSET Nat /\ T \in SUBSET (0..b) /\ w \in T
  OBVIOUS
<1>2. \A i \in a..b : i \notin T => text[i] = Blank
  OBVIOUS
<1>3. \A i \in T : i \in a..b /\ text[i] # Blank
  OBVIOUS
<1> HIDE DEF T
<1>4. PICK x \in T : \A i \in T : x <= i
  BY <1>1, LeastExists
<1>5. PICK y \in T : \A i \in T : i <= y
  BY <1>1, GreatestExists
<1>6. x \in a..b /\ y \in x..b
  BY <1>3, <1>4, <1>5
<1>7. \A i \in a..x-1 : i \in a..b /\ ~(x <= i)
  BY <1>6
<1>8. \A i \in y+1..b : i \in a..b /\ ~(i <= y)
  BY <1>6
<1>9. QED BY <1>2, <1>3, <1>4, <1>5, <1>6, <1>7, <1>8 DEF Core

\* A slice comes to what its core comes to in the text.
LEMMA SliceProduced ==
  ASSUME NEW text, IsSeq(text), NEW a \in 1..Len(text)+1, NEW b \in a-1..Len(text),
         NEW x, NEW y, Core(text, a, b, x, y), NEW m \in 1..b-a+1
  PROVE  LET sub == SubSeq(text, a, b) IN
         /\ m + a - 1 \in x..y => Produced(sub, m) = Produced(text, m + a - 1)
         /\ m + a - 1 \notin x..y => Len(Produced(sub, m)) = 0
<1> DEFINE sub == SubSeq(text, a, b)
           i == m + a - 1
<1>1. Len(text) \in Nat
  BY LenProperties DEF IsSeq
<1>2. Len(sub) = b - a + 1 /\ \A l \in 1..b-a+1 : sub[l] = text[l + a - 1]
  BY SubText
<1>3. i \in a..b /\ sub[m] = text[i] /\ a \in Nat /\ b \in Nat /\ m \in Nat
  BY <1>1, <1>2
<1> HIDE DEF sub
<1>4. m > 1 => sub[m-1] = text[i-1] /\ i - 1 \in a..b /\ i > 1
  <2>1. SUFFICES ASSUME m > 1 PROVE sub[m-1] = text[i-1] /\ i - 1 \in a..b /\ i > 1
    OBVIOUS
  <2>2. m - 1 \in 1..b-a+1 /\ (m - 1) + a - 1 = i - 1
    BY <1>1, <2>1
  <2>3. QED BY <1>2, <1>3, <2>1, <2>2
<1>5. x \in a..b /\ y \in x..b /\ text[x] # Blank /\ text[y] # Blank
  BY DEF Core
<1>6. CASE i \in x..y /\ text[i] # Blank
  BY <1>3, <1>6 DEF Produced, sub
<1>7. CASE i \in x..y /\ text[i] = Blank
  <2>1. i # x /\ i # y
    BY <1>5, <1>7
  <2>2. m > 1 /\ i > 1
    BY <1>1, <1>3, <1>5, <1>7, <2>1
  <2>3. \E j \in i+1..Len(text) : text[j] # Blank
    <3>1. y \in i+1..Len(text) BY <1>1, <1>3, <1>5, <1>7, <2>1
    <3>2. QED BY <1>5, <3>1
  <2>4. \E j \in m+1..Len(sub) : sub[j] # Blank
    <3> DEFINE j == y - a + 1
    <3>1. j \in m+1..b-a+1 /\ j \in 1..b-a+1 /\ j + a - 1 = y
      BY <1>1, <1>3, <1>5, <1>7, <2>1
    <3> HIDE DEF j
    <3>2. sub[j] # Blank BY <1>2, <1>5, <3>1
    <3>3. QED BY <1>2, <3>1, <3>2
  <2>5. Produced(sub, m) = Produced(text, i)
    <3> HIDE DEF i
    <3>1. QED BY <1>3, <1>4, <1>7, <2>2, <2>3, <2>4 DEF Produced
  <2>6. QED BY <1>7, <2>5 DEF sub
<1>8. CASE i \notin x..y
  <2>1. CASE i < x
    <3>1. i \in a..x-1 BY <1>3, <1>5, <2>1
    <3>2. sub[m] = Blank BY <1>3, <3>1 DEF Core
    <3>3. m > 1 => i - 1 \in a..x-1 BY <1>3, <1>4, <1>5, <3>1
    <3>4. m > 1 => sub[m-1] = Blank BY <1>4, <3>3 DEF Core
    <3>5. Produced(sub, m) = <<>> BY <3>2, <3>4 DEF Produced
    <3>6. QED BY <1>8, <3>5 DEF sub
  <2>2. CASE y < i
    <3>1. i \in y+1..b BY <1>3, <1>5, <2>2
    <3>2. sub[m] = Blank BY <1>3, <3>1 DEF Core
    <3>3. \A j \in m+1..Len(sub) : sub[j] = Blank
      <4>1. SUFFICES ASSUME NEW j \in m+1..Len(sub) PROVE sub[j] = Blank
        OBVIOUS
      <4>2. j \in 1..b-a+1 /\ j + a - 1 \in y+1..b
        BY <1>1, <1>2, <1>3, <1>5, <3>1
      <4>3. QED BY <1>2, <4>2 DEF Core
    <3>4. Produced(sub, m) = <<>> BY <3>2, <3>3 DEF Produced
    <3>5. QED BY <1>8, <3>4 DEF sub
  <2>3. QED BY <1>3, <1>5, <1>8, <2>1, <2>2
<1>9. QED BY <1>6, <1>7, <1>8 DEF sub

LEMMA SliceOffsets ==
  ASSUME NEW text, IsSeq(text), NEW off, Folds(off, text),
         NEW a \in 1..Len(text)+1, NEW b \in a-1..Len(text),
         NEW x, NEW y, Core(text, a, b, x, y),
         NEW so, Folds(so, SubSeq(text, a, b))
  PROVE  /\ \A m \in x-a..y-a+1 : so[m] = off[m + a - 1] - off[x - 1]
         /\ so[b - a + 1] = off[y] - off[x - 1]
<1> DEFINE sub == SubSeq(text, a, b)
<1>1. Len(text) \in Nat /\ IsText(text)
  BY LenProperties DEF IsSeq, IsText
<1>2. Len(sub) = b - a + 1 /\ a \in Nat /\ a >= 1 /\ b \in Nat
  BY <1>1, SubText
<1>3. x \in a..b /\ y \in x..b
  BY DEF Core
<1>4. /\ \A m \in 0..b-a+1 : so[m] \in Nat
      /\ \A m \in 0..b-a+1 : so[m] \in Int
      /\ so[0] = 0
      /\ \A m \in 1..b-a+1 : so[m] = so[m-1] + Len(Produced(sub, m))
  <2> HIDE DEF sub
  <2>1. so \in [0..Len(sub) -> Nat] /\ so[0] = 0
        /\ \A m \in 1..Len(sub) : so[m] = so[m-1] + Len(Produced(sub, m))
    BY DEF Folds, sub
  <2>2. QED BY <1>2, <2>1
<1>5. /\ \A i \in 0..Len(text) : off[i] \in Nat
      /\ \A i \in 1..Len(text) : off[i] = off[i-1] + Len(Produced(text, i))
  BY DEF Folds
<1>6. \A m \in 1..b-a+1 :
         /\ m + a - 1 \in x..y => Produced(sub, m) = Produced(text, m + a - 1)
         /\ m + a - 1 \notin x..y => Len(Produced(sub, m)) = 0
  BY SliceProduced
<1> HIDE DEF sub
<1>7. \A m \in 1..b-a+1 : m + a - 1 \notin x..y => so[m] = so[m-1]
  <2>1. SUFFICES ASSUME NEW m \in 1..b-a+1, m + a - 1 \notin x..y PROVE so[m] = so[m-1]
    OBVIOUS
  <2>2. so[m] = so[m-1] + 0 BY <1>4, <1>6, <2>1
  <2>3. m - 1 \in 0..b-a+1 BY <1>2
  <2>4. QED BY <1>4, <2>2, <2>3
<1>8. so[x - a] = 0
  <2> DEFINE hi == x - a
  <2>1. 0 \in Int /\ hi \in Int /\ 0 <= hi /\ \A m \in 0..hi : m \in 0..b-a+1
    BY <1>2, <1>3
  <2>2. \A m \in 0+1..hi : m \in 1..b-a+1 /\ m + a - 1 \notin x..y
    BY <1>2, <1>3
  <2> HIDE DEF hi
  <2>3. \A m \in 0..hi : so[m] \in Int
    BY <1>4, <2>1
  <2>4. \A m \in 0+1..hi : so[m] = so[m-1]
    BY <1>7, <2>2
  <2>5. so[hi] = so[0]
    BY <2>1, <2>3, <2>4, NoGrowth
  <2>6. QED BY <1>4, <2>5 DEF hi
<1>9. \A m \in x-a..y-a+1 : so[m] = off[m + a - 1] - off[x - 1]
  <2> DEFINE lo == x - a
             hi == y - a + 1
             d == a - 1
  <2>1. /\ lo \in Int /\ hi \in Int /\ d \in Int /\ lo + d = x - 1
        /\ \A m \in lo..hi : m \in 0..b-a+1 /\ m + d \in 0..Len(text) /\ m + d = m + a - 1
    BY <1>1, <1>2, <1>3
  <2>2. \A m \in lo+1..hi : /\ m \in 1..b-a+1 /\ m + d \in 1..Len(text)
                            /\ m - 1 \in 0..b-a+1 /\ m - 1 + d \in 0..Len(text)
                            /\ m + d = m + a - 1 /\ m + d \in x..y
                            /\ m - 1 + d = (m + d) - 1
    BY <1>1, <1>2, <1>3
  <2> HIDE DEF lo, hi, d
  <2>3. \A m \in lo..hi : so[m] \in Int /\ off[m + d] \in Int
    BY <1>4, <1>5, <2>1
  <2>4. \A m \in lo+1..hi : so[m] - so[m-1] = off[m + d] - off[m - 1 + d]
    <3>1. SUFFICES ASSUME NEW m \in lo+1..hi
                   PROVE so[m] - so[m-1] = off[m + d] - off[m - 1 + d]
      OBVIOUS
    <3>2. /\ so[m] = so[m-1] + Len(Produced(text, m + d))
          /\ off[m + d] = off[m - 1 + d] + Len(Produced(text, m + d))
      BY <1>4, <1>5, <1>6, <2>2
    <3>3. so[m-1] \in Nat /\ off[m - 1 + d] \in Nat
      BY <1>4, <1>5, <2>2
    <3>4. Len(Produced(text, m + d)) \in 0..3
      BY ProducedFacts
    <3>5. \A l \in 0..3 : l \in Int
      OBVIOUS
    <3>6. Len(Produced(text, m + d)) \in Int
      BY <3>4, <3>5
    <3>7. QED BY <3>2, <3>3, <3>6
  <2>5. \A m \in lo..hi : so[m] = so[lo] + off[m + d] - off[lo + d]
    <3>1. GrowAlike(so, off, lo, hi, d) BY <2>1, <2>3, <2>4 DEF GrowAlike
    <3>2. QED BY <3>1, SameGrowth
  <2>6. so[lo] = 0
    BY <1>8 DEF lo
  <2>7. SUFFICES ASSUME NEW m \in lo..hi PROVE so[m] = off[m + a - 1] - off[x - 1]
    BY DEF lo, hi
  <2>8. so[m] = so[lo] + off[m + a - 1] - off[x - 1] /\ off[m + a - 1] \in Int
    BY <2>1, <2>3, <2>5
  <2>9. off[x - 1] \in Int
    BY <1>1, <1>2, <1>3, <1>5
  <2>10. QED BY <2>6, <2>8, <2>9
<1>10. so[b - a + 1] = so[y - a + 1]
  <2> DEFINE lo == y - a + 1
             hi == b - a + 1
  <2>1. lo \in Int /\ hi \in Int /\ lo <= hi /\ \A m \in lo..hi : m \in 0..b-a+1
    BY <1>2, <1>3
  <2>2. \A m \in lo+1..hi : m \in 1..b-a+1 /\ m + a - 1 \notin x..y
    BY <1>2, <1>3
  <2> HIDE DEF lo, hi
  <2>3. \A m \in lo..hi : so[m] \in Int
    BY <1>4, <2>1
  <2>4. \A m \in lo+1..hi : so[m] = so[m-1]
    BY <1>7, <2>2
  <2>5. so[hi] = so[lo]
    BY <2>1, <2>3, <2>4, NoGrowth
  <2>6. QED BY <2>5 DEF lo, hi
<1>11. so[y - a + 1] = off[y] - off[x - 1]
  <2>1. y - a + 1 \in x-a..y-a+1 /\ (y - a + 1) + a - 1 = y
    BY <1>2, <1>3
  <2>2. QED BY <1>9, <2>1
<1>12. QED BY <1>9, <1>10, <1>11

\* What a slice folds to is a part of what the text folds to.
LEMMA SliceFolds ==
  ASSUME NEW text, IsSeq(text), NEW off, Folds(off, text),
         NEW a \in 1..Len(text)+1, NEW b \in a-1..Len(text),
         NEW x, NEW y, Core(text, a, b, x, y)
  PROVE  LET sub == Normalise(SubSeq(text, a, b)) IN
         /\ Len(sub) = off[y] - off[x - 1]
         /\ \A p \in 1..Len(sub) : sub[p].char = Normalise(text)[off[x - 1] + p].char
<1> DEFINE slice == SubSeq(text, a, b)
           sub == Normalise(slice)
<1>1. Len(text) \in Nat /\ IsText(text)
  BY LenProperties DEF IsSeq, IsText
<1>2. IsText(slice) /\ Len(slice) = b - a + 1 /\ a \in Nat /\ a >= 1 /\ b \in Nat
  <2>1. IsText(slice) /\ Len(slice) = b - a + 1 BY SubText
  <2>2. a \in Nat /\ a >= 1 /\ b \in Nat BY <1>1
  <2>3. QED BY <2>1, <2>2
<1>3. x \in a..b /\ y \in x..b
  BY DEF Core
<1>4. PICK so : Folds(so, slice)
  BY <1>2, FoldsExists
<1>5. /\ \A m \in x-a..y-a+1 : so[m] = off[m + a - 1] - off[x - 1]
      /\ so[b - a + 1] = off[y] - off[x - 1]
  BY <1>4, SliceOffsets
<1>6. \A m \in 1..b-a+1 :
         /\ m + a - 1 \in x..y => Produced(slice, m) = Produced(text, m + a - 1)
         /\ m + a - 1 \notin x..y => Len(Produced(slice, m)) = 0
  BY SliceProduced
<1> HIDE DEF slice
<1>7. Len(sub) = off[y] - off[x - 1]
  BY <1>2, <1>4, <1>5 DEF Folds
<1>8. ASSUME NEW p \in 1..Len(sub)
      PROVE  sub[p].char = Normalise(text)[off[x - 1] + p].char
  <2>1. PICK m \in 1..Len(slice) :
           /\ so[m-1] < p /\ p <= so[m] /\ so[m-1] \in Nat /\ so[m] \in Nat
           /\ p - so[m-1] \in 1..Len(Produced(slice, m))
           /\ sub[p].char = Produced(slice, m)[p - so[m-1]]
    BY <1>2, <1>4, FoldsPlace
  <2> DEFINE i == m + a - 1
             j == p - so[m-1]
  <2>2. m \in 1..b-a+1 /\ i \in x..y
    BY <1>2, <1>6, <2>1
  <2>3. Produced(slice, m) = Produced(text, i)
    BY <1>6, <2>2
  <2>4. so[m-1] = off[i - 1] - off[x - 1]
    <3>1. m - 1 \in x-a..y-a+1 /\ (m - 1) + a - 1 = i - 1
      BY <1>2, <1>3, <2>2
    <3>2. QED BY <1>5, <3>1
  <2>5. i \in 1..Len(text) /\ i - 1 \in 0..Len(text) /\ x - 1 \in 0..Len(text)
    BY <1>1, <1>2, <1>3, <2>2
  <2> HIDE DEF i, j
  <2>6. Normalise(text)[off[i-1] + j].char = Produced(text, i)[j]
    BY <2>1, <2>3, <2>5 DEF Folds, j
  <2>7. off[i-1] \in Nat /\ off[x-1] \in Nat /\ p \in Int
    <3>1. \A l \in 0..Len(text) : off[l] \in Nat BY DEF Folds
    <3>2. QED BY <2>5, <3>1
  <2>8. off[i-1] + j = off[x-1] + p
    <3>1. \A u, v, w \in Int : v + (w - (v - u)) = u + w OBVIOUS
    <3>2. j = p - (off[i-1] - off[x-1]) BY <2>4 DEF j
    <3>3. off[i-1] \in Int /\ off[x-1] \in Int BY <2>7
    <3>4. QED BY <2>7, <3>1, <3>2, <3>3
  <2>9. QED BY <2>1, <2>3, <2>6, <2>8 DEF j
<1>9. QED BY <1>7, <1>8 DEF slice

\* A slice without anything but blanks folds to nothing.
LEMMA BlankFolds ==
  ASSUME NEW text, IsText(text), \A i \in 1..Len(text) : text[i] = Blank
  PROVE  Len(Normalise(text)) = 0
<1>1. PICK off : Folds(off, text)
  BY FoldsExists
<1>2. SUFFICES ASSUME NEW p \in 1..Len(Normalise(text)) PROVE FALSE
  <2>1. Len(Normalise(text)) \in Nat
    <3>1. Len(text) \in 0..Len(text) BY DEF IsText
    <3>2. QED BY <1>1, <3>1 DEF Folds
  <2>2. QED BY <2>1
<1>3. PICK i \in 1..Len(text) : p - off[i-1] \in 1..Len(Produced(text, i))
  BY <1>1, FoldsPlace
<1>4. text[i] = Blank /\ Len(Produced(text, i)) # 0
  BY <1>3
<1>5. \E j \in i+1..Len(text) : text[j] # Blank
  BY <1>4, ProducedFacts
<1>6. PICK j \in i+1..Len(text) : text[j] # Blank
  BY <1>5
<1>7. j \in 1..Len(text)
  BY DEF IsText
<1>8. QED BY <1>6, <1>7

\* A folded text neither begins nor ends with a blank.
LEMMA FoldedEnds ==
  ASSUME NEW text, IsText(text), Len(Normalise(text)) >= 1
  PROVE  /\ Normalise(text)[1].char # Blank
         /\ Normalise(text)[Len(Normalise(text))].char # Blank
<1> DEFINE t == Normalise(text)
<1>1. PICK off : Folds(off, text)
  BY FoldsExists
<1>2. /\ Len(t) = off[Len(text)] /\ Len(text) \in Nat
      /\ \A i \in 0..Len(text) : off[i] \in Nat
      /\ \A i \in 1..Len(text) : off[i] = off[i-1] + Len(Produced(text, i))
  BY <1>1 DEF Folds, IsText
<1>3. Len(t) \in Nat /\ 1 \in 1..Len(t) /\ Len(t) \in 1..Len(t)
  BY <1>2
<1>4. ASSUME NEW p \in 1..Len(t), NEW i \in 1..Len(text), text[i] # Blank,
             p - off[i-1] \in 1..Len(Produced(text, i)),
             t[p].char = Produced(text, i)[p - off[i-1]]
      PROVE  t[p].char # Blank
  <2>1. \A j \in 1..Len(Produced(text, i)) : Produced(text, i)[j] # Blank
    BY <1>4, ProducedFacts
  <2>2. QED BY <1>4, <2>1
<1> HIDE DEF t
<1>5. t[1].char # Blank
  <2>1. PICK i \in 1..Len(text) :
           /\ off[i-1] < 1 /\ 1 <= off[i] /\ off[i-1] \in Nat /\ off[i] \in Nat
           /\ 1 - off[i-1] \in 1..Len(Produced(text, i))
           /\ t[1].char = Produced(text, i)[1 - off[i-1]]
    BY <1>1, <1>3, FoldsPlace DEF t
  <2>2. text[i] # Blank
    <3>1. SUFFICES ASSUME text[i] = Blank PROVE FALSE
      OBVIOUS
    <3>2. Len(Produced(text, i)) # 0
      BY <2>1
    <3>3. i > 1 /\ text[i-1] # Blank
      BY <3>1, <3>2, ProducedFacts
    <3>4. Len(Produced(text, i-1)) >= 1 /\ Len(Produced(text, i-1)) \in 0..3
      BY <3>3, ProducedFacts
    <3>5. i - 1 \in 1..Len(text) /\ (i - 1) - 1 \in 0..Len(text)
      BY <1>2, <3>3
    <3>6. off[i-1] = off[(i-1)-1] + Len(Produced(text, i-1)) /\ off[(i-1)-1] \in Nat
      BY <1>2, <3>5
    <3>7. Len(Produced(text, i-1)) \in Nat
      BY <3>4
    <3>8. QED BY <2>1, <3>4, <3>6, <3>7
  <2>3. QED BY <1>3, <1>4, <2>1, <2>2
<1>6. t[Len(t)].char # Blank
  <2>1. PICK i \in 1..Len(text) :
           /\ off[i-1] < Len(t) /\ Len(t) <= off[i] /\ off[i-1] \in Nat /\ off[i] \in Nat
           /\ Len(t) - off[i-1] \in 1..Len(Produced(text, i))
           /\ t[Len(t)].char = Produced(text, i)[Len(t) - off[i-1]]
    BY <1>1, <1>3, FoldsPlace DEF t
  <2>2. text[i] # Blank
    <3>1. SUFFICES ASSUME text[i] = Blank PROVE FALSE
      OBVIOUS
    <3>2. Len(Produced(text, i)) # 0
      BY <2>1
    <3>3. \E j \in i+1..Len(text) : text[j] # Blank
      BY <3>1, <3>2, ProducedFacts
    <3>4. PICK j \in i+1..Len(text) : text[j] # Blank
      BY <3>3
    <3>5. Len(Produced(text, j)) >= 1 /\ Len(Produced(text, j)) \in 0..3
      BY <3>4, ProducedFacts
    <3>6. /\ j \in 1..Len(text) /\ j \in 0..Len(text) /\ j - 1 \in 0..Len(text)
          /\ i \in 0..Len(text) /\ j - 1 \in i..Len(text) /\ Len(text) \in j..Len(text)
      BY <1>2
    <3>7. off[j] = off[j-1] + Len(Produced(text, j)) /\ off[j-1] \in Nat /\ off[j] \in Nat
      BY <1>2, <3>6
    <3>8. off[i] <= off[j-1] /\ off[j] <= off[Len(text)]
      BY <1>1, <3>6, FoldsGrow
    <3>9. Len(Produced(text, j)) \in Nat
      BY <3>5
    <3>10. off[Len(text)] \in Nat /\ off[Len(text)] = Len(t) /\ Len(t) <= off[i]
      BY <1>2, <1>3, <2>1
    <3>11. off[i] \in Nat
      BY <2>1
    <3>12. off[j-1] + 1 <= off[j]
      BY <3>5, <3>7, <3>9
    <3>13. QED BY <3>7, <3>8, <3>10, <3>11, <3>12
  <2>3. QED BY <1>3, <1>4, <2>1, <2>2
<1>7. QED BY <1>5, <1>6 DEF t

\* What is not blank folds to something.
LEMMA NotBlankFolds ==
  ASSUME NEW text, IsText(text), ~IsBlank(text)
  PROVE  Len(Normalise(text)) >= 1
<1>1. PICK off : Folds(off, text)
  BY FoldsExists
<1>2. PICK i \in 1..Len(text) : text[i] # Blank
  BY DEF IsBlank, IsText
<1>3. /\ i \in 0..Len(text) /\ i - 1 \in 0..Len(text) /\ Len(text) \in i..Len(text)
      /\ Len(text) \in 0..Len(text)
  BY DEF IsText
<1>4. off[i] = off[i-1] + Len(Produced(text, i)) /\ off[i-1] \in Nat /\ off[i] \in Nat
      /\ off[Len(text)] \in Nat /\ Len(Normalise(text)) = off[Len(text)]
  BY <1>1, <1>3 DEF Folds
<1>5. off[i] <= off[Len(text)]
  BY <1>1, <1>3, FoldsGrow
<1>6. Len(Produced(text, i)) >= 1 /\ Len(Produced(text, i)) \in 0..3
  BY <1>2, ProducedFacts
<1>7. Len(Produced(text, i)) \in Nat
  BY <1>6
<1>8. QED BY <1>4, <1>5, <1>6, <1>7

LEMMA NormaliseIsSeq ==
  ASSUME NEW text, IsText(text)
  PROVE  /\ Len(Normalise(text)) \in Nat
         /\ Normalise(text) # <<>> <=> Len(Normalise(text)) >= 1
<1>1. PICK S : FoldParts(text) \in Seq(Seq(S))
  BY FoldPartsType
<1>2. Normalise(text) = FlattenSeq(FoldParts(text))
  BY FoldPartsType
<1>3. Normalise(text) \in Seq(S)
  BY <1>1, <1>2, FlattenParts
<1> HIDE DEF Normalise
<1>4. QED BY <1>3

-----------------------------------------------------------------------------
(***************************************************************************)
(* Locating.                                                               *)
(***************************************************************************)
LEMMA SeqIsText ==
  ASSUME NEW text, IsSeq(text)
  PROVE  IsText(text)
BY LenProperties DEF IsSeq, IsText

LEMMA OccurrenceRange ==
  ASSUME NEW q, NEW t, Len(q) \in Nat, Len(q) >= 1, Len(t) \in Nat, NEW p \in Occurrences(q, t)
  PROVE  p \in 1..Len(t) /\ p + Len(q) - 1 \in p..Len(t)
BY DEF Occurrences

\* A quote that a slice reads as is in the text, within the core of the slice.
LEMMA FoundInSlice ==
  ASSUME NEW text, IsSeq(text), NEW off, Folds(off, text),
         NEW a \in 1..Len(text)+1, NEW b \in a-1..Len(text),
         NEW quote, IsText(quote), Len(Normalise(quote)) >= 1,
         IsIn(quote, SubSeq(text, a, b))
  PROVE  \E x, y, p : /\ Core(text, a, b, x, y)
                      /\ p \in Occurrences(Normalise(quote), Normalise(text))
                      /\ off[x - 1] < p /\ p + Len(Normalise(quote)) - 1 <= off[y]
<1> DEFINE slice == SubSeq(text, a, b)
           sub == Normalise(slice)
           q == Normalise(quote)
           t == Normalise(text)
<1>1. Len(text) \in Nat /\ IsText(text) /\ a \in Nat /\ a >= 1 /\ b \in Nat
  BY SeqIsText DEF IsText
<1>2. IsText(slice) /\ Len(slice) = b - a + 1 /\ \A m \in 1..b-a+1 : slice[m] = text[m + a - 1]
  BY SubText
<1>3. Len(q) \in Nat /\ Len(q) >= 1 /\ DOMAIN q = 1..Len(q) /\ Len(sub) \in Nat /\ Len(t) \in Nat
  <2>1. PICK qo : Folds(qo, quote) BY FoldsExists
  <2>2. QED BY <1>1, <1>2, <2>1, NormaliseIsSeq DEF Folds
<1>4. PICK s \in Occurrences(q, sub) : TRUE
  BY DEF IsIn
<1> HIDE DEF slice, sub, q, t
<1>5. s \in 1..Len(sub) /\ s + Len(q) - 1 \in s..Len(sub)
  BY <1>3, OccurrenceRange
<1>6. PICK w \in a..b : text[w] # Blank
  <2>1. SUFFICES ASSUME \A w \in a..b : text[w] = Blank PROVE FALSE
    OBVIOUS
  <2>2. \A i \in 1..Len(slice) : slice[i] = Blank
    <3>1. \A i \in 1..Len(slice) : i \in 1..b-a+1 /\ i + a - 1 \in a..b BY <1>1, <1>2
    <3>2. QED BY <1>2, <2>1, <3>1
  <2>3. Len(sub) = 0
    BY <1>2, <2>2, BlankFolds DEF sub
  <2>4. QED BY <1>5, <2>3
<1>7. PICK x, y : Core(text, a, b, x, y)
  BY <1>1, <1>6, CoreExists
<1>8. /\ Len(sub) = off[y] - off[x - 1]
      /\ \A p \in 1..Len(sub) : sub[p].char = t[off[x - 1] + p].char
  BY <1>7, SliceFolds DEF sub, slice, t
<1>9. off[x-1] \in Nat /\ off[y] \in Nat /\ off[y] <= Len(t)
  <2>1. x \in a..b /\ y \in x..b BY <1>7 DEF Core
  <2>2. x - 1 \in 0..Len(text) /\ y \in 0..Len(text) /\ Len(text) \in y..Len(text)
    BY <1>1, <2>1
  <2>3. off[x-1] \in Nat /\ off[y] \in Nat BY <2>2 DEF Folds
  <2>4. off[y] <= off[Len(text)] BY <1>1, <2>2, FoldsGrow
  <2>5. QED BY <2>3, <2>4 DEF Folds, t
<1> DEFINE p == off[x-1] + s
<1>10. p + Len(q) - 1 <= off[y] /\ off[x-1] < p /\ p \in 1..Len(t) - Len(q) + 1
  <2>1. \A u, v, l, n \in Nat : \A r \in Int :
          r >= 1 /\ l >= 1 /\ r + l - 1 <= v - u /\ v <= n =>
            u + r + l - 1 <= v /\ u < u + r /\ u + r \in 1..n - l + 1
    OBVIOUS
  <2>2. s \in Int /\ s >= 1 /\ s + Len(q) - 1 <= Len(sub)
    BY <1>3, <1>5
  <2>3. s + Len(q) - 1 <= off[y] - off[x-1]
    BY <1>8, <2>2
  <2> HIDE DEF p
  <2>4. off[x-1] + s + Len(q) - 1 <= off[y] /\ off[x-1] < off[x-1] + s
        /\ off[x-1] + s \in 1..Len(t) - Len(q) + 1
    BY <1>3, <1>9, <2>1, <2>2, <2>3
  <2>5. QED BY <2>4 DEF p
<1>11. \A j \in DOMAIN q : t[p + j - 1].char = q[j].char
  <2>1. SUFFICES ASSUME NEW j \in 1..Len(q) PROVE t[p + j - 1].char = q[j].char
    BY <1>3
  <2>2. sub[s + j - 1].char = q[j].char
    BY <1>3 DEF Occurrences
  <2>3. s + j - 1 \in 1..Len(sub) /\ off[x-1] + (s + j - 1) = p + j - 1
    BY <1>3, <1>5, <1>9
  <2>4. QED BY <1>8, <2>2, <2>3
<1> HIDE DEF p
<1>12. p \in Occurrences(q, t)
  BY <1>10, <1>11 DEF Occurrences
<1>13. QED BY <1>7, <1>10, <1>12 DEF q, t

\* A quote that is in the text is in the slice whose core it is within.
LEMMA FoundInText ==
  ASSUME NEW text, IsSeq(text), NEW off, Folds(off, text),
         NEW a \in 1..Len(text)+1, NEW b \in a-1..Len(text),
         NEW quote, IsText(quote), Len(Normalise(quote)) >= 1,
         NEW x, NEW y, Core(text, a, b, x, y),
         NEW p \in Occurrences(Normalise(quote), Normalise(text)),
         off[x - 1] < p, p + Len(Normalise(quote)) - 1 <= off[y]
  PROVE  IsIn(quote, SubSeq(text, a, b))
<1> DEFINE sub == Normalise(SubSeq(text, a, b))
           q == Normalise(quote)
           t == Normalise(text)
<1>1. Len(text) \in Nat /\ IsText(text) /\ a \in Nat /\ a >= 1 /\ b \in Nat
  BY SeqIsText DEF IsText
<1>2. Len(q) \in Nat /\ Len(q) >= 1 /\ DOMAIN q = 1..Len(q) /\ Len(t) \in Nat
  <2>1. PICK qo : Folds(qo, quote) BY FoldsExists
  <2>2. QED BY <1>1, <2>1, NormaliseIsSeq DEF Folds
<1>3. /\ Len(sub) = off[y] - off[x - 1]
      /\ \A s \in 1..Len(sub) : sub[s].char = t[off[x - 1] + s].char
  BY SliceFolds
<1>4. off[x-1] \in Nat /\ off[y] \in Nat
  <2>1. x \in a..b /\ y \in x..b BY DEF Core
  <2>2. x - 1 \in 0..Len(text) /\ y \in 0..Len(text) BY <1>1, <2>1
  <2>3. QED BY <2>2 DEF Folds
<1>5. off[x-1] < p /\ p + Len(q) - 1 <= off[y]
  OBVIOUS
<1> HIDE DEF sub, q, t
<1>6. p \in 1..Len(t) /\ p \in Occurrences(q, t)
  BY <1>2, OccurrenceRange DEF q, t
<1> DEFINE s == p - off[x-1]
<1>7. s \in 1..Len(sub) - Len(q) + 1
  <2>1. \A u, v, l \in Nat : \A r \in Int :
          u < r /\ l >= 1 /\ r + l - 1 <= v => r - u \in 1..v - u - l + 1
    OBVIOUS
  <2>2. p \in Int BY <1>6
  <2>3. p - off[x-1] \in 1..off[y] - off[x-1] - Len(q) + 1
    BY <1>2, <1>4, <1>5, <2>1, <2>2
  <2>4. QED BY <1>3, <2>3
<1>8. \A j \in DOMAIN q : sub[s + j - 1].char = q[j].char
  <2>1. SUFFICES ASSUME NEW j \in 1..Len(q) PROVE sub[s + j - 1].char = q[j].char
    BY <1>2
  <2>2. t[p + j - 1].char = q[j].char
    BY <1>2, <1>6 DEF Occurrences
  <2>3. s + j - 1 \in 1..Len(sub) /\ off[x-1] + (s + j - 1) = p + j - 1
    <3>1. \A u, l \in Nat : \A r, n \in Int : \A i \in 1..l :
            r - u \in 1..n - l + 1 =>
              r - u + i - 1 \in 1..n /\ u + (r - u + i - 1) = r + i - 1
      OBVIOUS
    <3>2. p \in Int /\ Len(sub) \in Int BY <1>3, <1>4, <1>6
    <3> HIDE DEF s
    <3>3. p - off[x-1] \in 1..Len(sub) - Len(q) + 1 BY <1>7 DEF s
    <3>4. /\ p - off[x-1] + j - 1 \in 1..Len(sub)
          /\ off[x-1] + (p - off[x-1] + j - 1) = p + j - 1
      <4> DEFINE u == off[x-1]
                 n == Len(sub)
                 l == Len(q)
      <4>1. u \in Nat /\ l \in Nat /\ p \in Int /\ n \in Int /\ j \in 1..l
        BY <1>2, <1>4, <3>2
      <4>2. p - u \in 1..n - l + 1
        BY <3>3
      <4> HIDE DEF u, n, l
      <4>3. p - u + j - 1 \in 1..n /\ u + (p - u + j - 1) = p + j - 1
        BY <3>1, <4>1, <4>2
      <4>4. QED BY <4>3 DEF u, n
    <3>5. QED BY <3>4 DEF s
  <2> HIDE DEF s
  <2>4. QED BY <1>3, <2>2, <2>3
<1> HIDE DEF s
<1>9. s \in Occurrences(q, sub)
  BY <1>7, <1>8 DEF Occurrences
<1>10. QED BY <1>9 DEF IsIn, q, sub

\* A match is a span of the text, of the characters its ends come from.
SpanOf(m, text, first, last, fuzzy) ==
  /\ m.start \in Nat /\ m.end \in Nat /\ m.start < m.end /\ m.end <= Len(text)
  /\ m.fuzzy = fuzzy /\ m = [start |-> m.start, end |-> m.end, fuzzy |-> fuzzy]
  /\ m.start = Normalise(text)[first].origin
  /\ m.end = Normalise(text)[last].origin + 1

LEMMA MatchIsSpan ==
  ASSUME NEW text, IsSeq(text), NEW first, NEW last, NEW fuzzy,
         first \in 1..Len(Normalise(text)), last \in first..Len(Normalise(text))
  PROVE  SpanOf(Match(Normalise(text), first, last, fuzzy), text, first, last, fuzzy)
<1> DEFINE t == Normalise(text)
           m == Match(t, first, last, fuzzy)
<1>1. Len(text) \in Nat /\ IsText(text)
  BY SeqIsText DEF IsText
<1>2. PICK off : Folds(off, text)
  BY <1>1, FoldsExists
<1>3. Len(t) \in Nat
  BY <1>1, NormaliseIsSeq
<1>4. PICK i \in 1..Len(text) :
        off[i-1] < first /\ first <= off[i] /\ off[i] \in Nat /\ t[first].origin = i - 1
  BY <1>1, <1>2, FoldsPlace
<1>5. last \in 1..Len(t)
  BY <1>3
<1>6. PICK j \in 1..Len(text) :
        off[j-1] < last /\ last <= off[j] /\ off[j] \in Nat /\ t[last].origin = j - 1
  BY <1>1, <1>2, <1>5, FoldsPlace
<1>7. i <= j
  <2>1. SUFFICES ASSUME j < i PROVE FALSE
    BY <1>1
  <2>2. j \in 0..Len(text) /\ i - 1 \in j..Len(text) /\ i - 1 \in 0..Len(text)
    BY <1>1, <2>1
  <2>3. off[j] <= off[i-1] /\ off[i-1] \in Nat
    BY <1>1, <1>2, <2>2, FoldsGrow
  <2>4. QED BY <1>3, <1>4, <1>6, <2>3
<1>8. m.start = t[first].origin /\ m.end = t[last].origin + 1 /\ m.fuzzy = fuzzy
      /\ m = [start |-> m.start, end |-> m.end, fuzzy |-> fuzzy]
  BY DEF Match, SourceSpan
<1> HIDE DEF t, m
<1>9. m.start \in Nat /\ m.end \in Nat /\ m.start < m.end /\ m.end <= Len(text)
  BY <1>1, <1>4, <1>6, <1>7, <1>8
<1>10. QED BY <1>8, <1>9 DEF m, t, SpanOf

\* The first place the quote is found at reads as the quote does, and less of it would
\* not.
LEMMA ExactSpan ==
  ASSUME NEW text, IsSeq(text), NEW quote, IsText(quote), Len(Normalise(quote)) >= 1,
         NEW first \in Occurrences(Normalise(quote), Normalise(text)),
         \A p \in Occurrences(Normalise(quote), Normalise(text)) : first <= p
  PROVE  LET m == Match(Normalise(text), first, first + Len(Normalise(quote)) - 1, FALSE) IN
         /\ IsIn(quote, SubSeq(text, m.start + 1, m.end))
         /\ ~IsIn(quote, SubSeq(text, 1, m.end - 1))
         /\ text[m.end] # "ellipsis" => ~IsIn(quote, SubSeq(text, m.start + 2, m.end))
<1> DEFINE q == Normalise(quote)
           t == Normalise(text)
           last == first + Len(q) - 1
           m == Match(t, first, last, FALSE)
<1>1. Len(text) \in Nat /\ IsText(text)
  BY SeqIsText DEF IsText
<1>2. PICK off : Folds(off, text)
  BY <1>1, FoldsExists
<1>3. Len(q) \in Nat /\ Len(q) >= 1 /\ DOMAIN q = 1..Len(q) /\ Len(t) \in Nat
  <2>1. PICK qo : Folds(qo, quote) BY FoldsExists
  <2>2. QED BY <1>1, <2>1, NormaliseIsSeq DEF Folds
<1>4. q[1].char # Blank /\ q[Len(q)].char # Blank
  BY FoldedEnds
<1>5. first \in 1..Len(t) /\ last \in first..Len(t) /\ first \in Nat
  BY <1>3, OccurrenceRange
<1>6. t[first].char = q[1].char /\ t[last].char = q[Len(q)].char
  <2>1. \A j \in 1..Len(q) : t[first + j - 1].char = q[j].char
    BY <1>3 DEF Occurrences
  <2>2. 1 \in 1..Len(q) /\ Len(q) \in 1..Len(q) /\ first + 1 - 1 = first
    BY <1>3, <1>5
  <2> HIDE DEF q, t
  <2>3. t[first + 1 - 1].char = q[1].char /\ t[first + Len(q) - 1].char = q[Len(q)].char
    BY <2>1, <2>2
  <2>4. QED BY <2>2, <2>3
<1>7. /\ m.start \in Nat /\ m.end \in Nat /\ m.start < m.end /\ m.end <= Len(text)
      /\ m.start = t[first].origin /\ m.end = t[last].origin + 1
  <2>1. first \in 1..Len(t) /\ last \in first..Len(t)
    BY <1>5
  <2> HIDE DEF last
  <2>2. SpanOf(Match(Normalise(text), first, last, FALSE), text, first, last, FALSE)
    BY <2>1, MatchIsSpan
  <2> HIDE DEF m
  <2>3. SpanOf(m, text, first, last, FALSE)
    BY <2>2 DEF m, t
  <2>4. QED BY <2>3 DEF SpanOf
<1> HIDE DEF q, t, last, m
<1>8. last \in 1..Len(t)
  BY <1>3, <1>5
<1>9. PICK i \in 1..Len(text) :
        /\ off[i-1] < first /\ first <= off[i] /\ off[i-1] \in Nat /\ off[i] \in Nat
        /\ first - off[i-1] \in 1..Len(Produced(text, i))
        /\ t[first].char = Produced(text, i)[first - off[i-1]] /\ t[first].origin = i - 1
  BY <1>1, <1>2, <1>5, FoldsPlace DEF t
<1>10. PICK e \in 1..Len(text) :
        /\ off[e-1] < last /\ last <= off[e] /\ off[e-1] \in Nat /\ off[e] \in Nat
        /\ last - off[e-1] \in 1..Len(Produced(text, e))
        /\ t[last].char = Produced(text, e)[last - off[e-1]] /\ t[last].origin = e - 1
  BY <1>1, <1>2, <1>8, FoldsPlace DEF t
<1>11. /\ m.start + 1 = i /\ m.end = e /\ m.start + 2 = i + 1 /\ m.end - 1 = e - 1
       /\ i \in Nat /\ e \in Nat /\ i >= 1 /\ i <= e /\ e <= Len(text)
  BY <1>1, <1>7, <1>9, <1>10
<1>12. text[i] # Blank /\ text[e] # Blank
  <2>1. text[i] = Blank => t[first].char = Blank
    BY <1>9, ProducedFacts
  <2>2. text[e] = Blank => t[last].char = Blank
    BY <1>10, ProducedFacts
  <2>3. QED BY <1>4, <1>6, <2>1, <2>2 DEF q
<1>13. IsIn(quote, SubSeq(text, i, e))
  <2>1. Core(text, i, e, i, e)
    BY <1>11, <1>12 DEF Core
  <2>2. i \in 1..Len(text)+1 /\ e \in i-1..Len(text)
    BY <1>1, <1>11
  <2>3. off[i-1] < first /\ first + Len(q) - 1 <= off[e]
    BY <1>9, <1>10 DEF last
  <2>4. QED BY <1>2, <2>1, <2>2, <2>3, FoundInText DEF q
<1>14. ~IsIn(quote, SubSeq(text, 1, e - 1))
  <2>1. SUFFICES ASSUME IsIn(quote, SubSeq(text, 1, e - 1)) PROVE FALSE
    OBVIOUS
  <2>2. 1 \in 1..Len(text)+1 /\ e - 1 \in 1-1..Len(text)
    BY <1>1, <1>11
  <2>3. PICK x, y, p : /\ Core(text, 1, e - 1, x, y) /\ p \in Occurrences(q, t)
                       /\ p + Len(q) - 1 <= off[y]
    BY <1>2, <2>1, <2>2, FoundInSlice DEF q, t
  <2>4. first <= p /\ p \in 1..Len(t)
    BY <1>3, <2>3, OccurrenceRange DEF q, t
  <2>5. y \in 0..Len(text) /\ e - 1 \in y..Len(text)
    BY <1>1, <1>11, <2>3 DEF Core
  <2>6. off[y] <= off[e-1] /\ off[y] \in Nat
    BY <1>1, <1>2, <2>5, FoldsGrow
  <2>7. off[e-1] < first + Len(q) - 1 /\ off[e-1] \in Nat
    BY <1>10 DEF last
  <2>8. QED BY <1>3, <1>5, <2>3, <2>4, <2>6, <2>7
<1>15. text[e] # "ellipsis" => ~IsIn(quote, SubSeq(text, i + 1, e))
  <2>1. SUFFICES ASSUME text[e] # "ellipsis", IsIn(quote, SubSeq(text, i + 1, e)) PROVE FALSE
    OBVIOUS
  <2>2. i + 1 \in 1..Len(text)+1 /\ e \in (i+1)-1..Len(text)
    BY <1>1, <1>11
  <2>3. PICK x, y, p : /\ Core(text, i + 1, e, x, y) /\ p \in Occurrences(q, t)
                       /\ off[x-1] < p /\ p + Len(q) - 1 <= off[y]
    BY <1>2, <2>1, <2>2, FoundInSlice DEF q, t
  <2>4. p \in 1..Len(t)
    BY <1>3, <2>3, OccurrenceRange DEF q, t
  <2>5. y \in 0..Len(text) /\ e \in y..Len(text)
        /\ i \in 0..Len(text) /\ x - 1 \in i..Len(text)
    BY <1>1, <1>11, <2>3 DEF Core
  <2>6. off[y] <= off[e] /\ off[y] \in Nat /\ off[i] <= off[x-1] /\ off[x-1] \in Nat
    BY <1>1, <1>2, <2>5, FoldsGrow
  <2>7. off[e] = off[e-1] + 1
    <3>1. Len(Produced(text, e)) = 1 BY <1>12, <2>1, ProducedFacts
    <3>2. off[e] = off[e-1] + Len(Produced(text, e)) BY <1>2 DEF Folds
    <3>3. QED BY <3>1, <3>2
  <2>8. off[e-1] < first + Len(q) - 1 /\ first + Len(q) - 1 <= off[e]
    BY <1>10 DEF last
  <2>9. first <= off[i] /\ off[i] \in Nat /\ off[e-1] \in Nat /\ off[e] \in Nat
    BY <1>9, <1>10
  <2>10. p + Len(q) - 1 <= first + Len(q) - 1
    <3>1. first + Len(q) - 1 = off[e]
      <4>1. first + Len(q) - 1 \in Int BY <1>3, <1>5
      <4>2. off[e-1] \in Int /\ off[e] \in Int BY <2>9
      <4>3. QED BY <2>7, <2>8, <4>1, <4>2
    <3>2. off[y] <= off[e] /\ p + Len(q) - 1 <= off[y]
      BY <2>3, <2>6
    <3>3. p + Len(q) - 1 \in Int
      BY <1>3, <2>4
    <3>4. off[y] \in Int /\ off[e] \in Int
      BY <2>6, <2>9
    <3>5. p + Len(q) - 1 <= off[e]
      <4> HIDE DEF q, t
      <4>1. QED BY <3>2, <3>3, <3>4
    <3>6. QED BY <3>1, <3>5
  <2>11. first < p
    BY <1>5, <2>3, <2>4, <2>6, <2>9
  <2>12. QED BY <1>3, <1>5, <2>4, <2>10, <2>11
<1>16. QED BY <1>11, <1>13, <1>14, <1>15 DEF m, last, q, t

\* A span that locate_quote may return of a text.
Located(quote, text, m) ==
  /\ m.start \in Nat /\ m.end \in Nat /\ m.start < m.end /\ m.end <= Len(text)
  /\ m.fuzzy \in BOOLEAN
  /\ ~m.fuzzy => /\ IsIn(quote, SubSeq(text, m.start + 1, m.end))
                 /\ ~IsIn(quote, SubSeq(text, 1, m.end - 1))
                 /\ text[m.end] # "ellipsis" => ~IsIn(quote, SubSeq(text, m.start + 2, m.end))

LEMMA FirstOccurrence ==
  ASSUME NEW q, NEW t, Occurrences(q, t) # {}
  PROVE  /\ Min(Occurrences(q, t)) \in Occurrences(q, t)
         /\ \A p \in Occurrences(q, t) : Min(Occurrences(q, t)) <= p
<1> DEFINE at == Occurrences(q, t)
<1>1. at \in SUBSET Nat /\ at # {}
  BY DEF Occurrences
<1> HIDE DEF at
<1>2. \E p \in at : \A y \in at : p <= y
  BY <1>1, LeastExists
<1>3. QED BY <1>2 DEF Min, at

\* What locate_quote returns is a span of the text, the first that reads as the quote
\* does if it is not fuzzy.
LEMMA LocateIsSound ==
  ASSUME NEW text, IsSeq(text), NEW quote, IsText(quote),
         NEW m \in LocateQuote(quote, text), m # None
  PROVE  Located(quote, text, m)
<1> DEFINE q == Normalise(quote)
           t == Normalise(text)
           at == Occurrences(q, t)
<1>1. IsText(text)
  BY SeqIsText
<1>2. /\ Len(q) \in Nat /\ (q # <<>> <=> Len(q) >= 1)
      /\ Len(t) \in Nat /\ (t # <<>> <=> Len(t) >= 1)
  BY <1>1, NormaliseIsSeq
<1>3. /\ q # <<>> /\ t # <<>>
      /\ at # {} => m = Match(t, Min(at), Min(at) + Len(q) - 1, FALSE)
      /\ at = {} => \E w \in FuzzyWindows(q, t) : w # None /\ m = Match(t, w[1], w[2], TRUE)
  BY DEF LocateQuote
<1>4. CASE at # {}
  <2>1. Min(at) \in at /\ \A p \in at : Min(at) <= p
    BY <1>4, FirstOccurrence
  <2>2. Min(at) \in 1..Len(t) /\ Min(at) + Len(q) - 1 \in Min(at)..Len(t)
    BY <1>2, <1>3, <2>1, OccurrenceRange
  <2>3. /\ m.start \in Nat /\ m.end \in Nat /\ m.start < m.end /\ m.end <= Len(text)
        /\ m.fuzzy = FALSE
    <3> DEFINE first == Min(at)
               last == Min(at) + Len(q) - 1
    <3>1. first \in 1..Len(Normalise(text)) /\ last \in first..Len(Normalise(text))
      BY <2>2
    <3>2. m = Match(Normalise(text), first, last, FALSE)
      BY <1>3, <1>4
    <3> HIDE DEF first, last
    <3>3. SpanOf(m, text, first, last, FALSE)
      BY <3>1, <3>2, MatchIsSpan
    <3>4. QED BY <3>3 DEF SpanOf
  <2>4. /\ IsIn(quote, SubSeq(text, m.start + 1, m.end))
        /\ ~IsIn(quote, SubSeq(text, 1, m.end - 1))
        /\ text[m.end] # "ellipsis" => ~IsIn(quote, SubSeq(text, m.start + 2, m.end))
    BY <1>2, <1>3, <1>4, <2>1, ExactSpan
  <2>5. QED BY <2>3, <2>4 DEF Located
<1>5. CASE at = {}
  <2>1. PICK w \in FuzzyWindows(q, t) : w # None /\ m = Match(t, w[1], w[2], TRUE)
    BY <1>3, <1>5
  <2>2. w = <<1, Len(t)>> \/ (w \in (1..Len(t)) \X (1..Len(t)) /\ w[1] <= w[2])
    BY <2>1 DEF FuzzyWindows
  <2>3. w[1] \in 1..Len(t) /\ w[2] \in w[1]..Len(t)
    <3> HIDE DEF t
    <3>1. CASE w = <<1, Len(t)>>
      BY <1>2, <1>3, <3>1
    <3>2. CASE w \in (1..Len(t)) \X (1..Len(t)) /\ w[1] <= w[2]
      BY <1>2, <3>2
    <3>3. QED BY <2>2, <3>1, <3>2
  <2>4. /\ m.start \in Nat /\ m.end \in Nat /\ m.start < m.end /\ m.end <= Len(text)
        /\ m.fuzzy = TRUE
    <3>1. SpanOf(m, text, w[1], w[2], TRUE)
      BY <2>1, <2>3, MatchIsSpan
    <3>2. QED BY <3>1 DEF SpanOf
  <2>5. QED BY <2>4 DEF Located
<1>6. QED BY <1>4, <1>5

\* A quote that is in a text and is not blank is found in it.
LEMMA LocateFinds ==
  ASSUME NEW text, IsSeq(text), NEW quote, IsText(quote), ~IsBlank(quote), IsIn(quote, text)
  PROVE  None \notin LocateQuote(quote, text)
<1> DEFINE q == Normalise(quote)
           t == Normalise(text)
           at == Occurrences(q, t)
<1>1. IsText(text)
  BY SeqIsText
<1>2. /\ Len(q) \in Nat /\ (q # <<>> <=> Len(q) >= 1)
      /\ Len(t) \in Nat /\ (t # <<>> <=> Len(t) >= 1)
  BY <1>1, NormaliseIsSeq
<1>3. Len(q) >= 1
  BY NotBlankFolds
<1>4. at # {}
  BY DEF IsIn
<1>5. Min(at) \in at
  BY <1>4, FirstOccurrence
<1>6. Min(at) \in 1..Len(t) /\ Min(at) + Len(q) - 1 \in Min(at)..Len(t)
  BY <1>2, <1>3, <1>5, OccurrenceRange
<1>7. q # <<>> /\ t # <<>>
  BY <1>2, <1>3, <1>6
<1> DEFINE m == Match(t, Min(at), Min(at) + Len(q) - 1, FALSE)
<1>8. LocateQuote(quote, text) = {m}
  BY <1>4, <1>7 DEF LocateQuote
<1>9. /\ m.start \in Nat /\ m.end \in Nat
      /\ m = [start |-> m.start, end |-> m.end, fuzzy |-> FALSE]
  <2> DEFINE first == Min(at)
             last == Min(at) + Len(q) - 1
  <2>1. first \in 1..Len(Normalise(text)) /\ last \in first..Len(Normalise(text))
    BY <1>6
  <2>2. m = Match(Normalise(text), first, last, FALSE)
    OBVIOUS
  <2> HIDE DEF first, last, m
  <2>3. SpanOf(m, text, first, last, FALSE)
    BY <2>1, <2>2, MatchIsSpan
  <2>4. QED BY <2>3 DEF SpanOf
<1> HIDE DEF m
<1>10. m \in [start : Nat, end : Nat, fuzzy : BOOLEAN]
  <2>1. \A i, j \in Nat : [start |-> i, end |-> j, fuzzy |-> FALSE]
                            \in [start : Nat, end : Nat, fuzzy : BOOLEAN]
    OBVIOUS
  <2>2. QED BY <1>9, <2>1, Zenon
<1>11. m # None
  BY <1>10, TextsAssumption
<1>12. QED BY <1>8, <1>11

-----------------------------------------------------------------------------
(***************************************************************************)
(* The call and the page.                                                  *)
(***************************************************************************)
\* A finding as it is stored.
Stored(f) ==
  /\ f.field \in {"title", "lead"} /\ (f.field = "lead" => HasLead)
  /\ f.quote = Slice(Text(f.field), f)
  /\ Located(f.reported, Text(f.field), f)

\* A finding that _verify_quotes has yet to look for.
Reported(f) == IsSeq(f.quote) /\ ~IsBlank(f.quote)

NotFound(quote) == ~IsIn(quote, title) /\ (HasLead => ~IsIn(quote, lead))

FoundInv ==
  /\ title \in Titles /\ lead \in Leads
  /\ IsSeq(findings) /\ \A k \in DOMAIN findings : Stored(findings[k])
  /\ IsSeq(rejected) /\ \A k \in DOMAIN rejected : NotFound(rejected[k])

TodoInv ==
  pc = "verify" => /\ Parses(reply)
                   /\ IsSeq(todo) /\ \A k \in DOMAIN todo : Reported(todo[k])

VerdictInv ==
  pc \in {"stored", "shown"} /\ Parses(reply) =>
    (contradiction <=> Contradicts(reply.verdict, findings))

PageInv == pc = "shown" => \E rows \in Selected : page = Rendered(rows)

CallInv ==
  /\ FoundInv /\ TodoInv /\ VerdictInv /\ PageInv
  /\ pc \in {"call", "verify", "failed", "stored", "shown"}
  /\ reply \in Replies \cup {None}

LEMMA SeqIsSeq ==
  ASSUME NEW S, NEW s \in Seq(S)
  PROVE  IsSeq(s) /\ Len(s) \in Nat /\ DOMAIN s = 1..Len(s)
<1>1. Len(s) \in Nat /\ DOMAIN s = 1..Len(s) /\ s = [m \in 1..Len(s) |-> s[m]]
  BY LenProperties
<1>2. \A m \in 1..Len(s) : s[m] \in Range(s)
  BY <1>1 DEF Range
<1>3. s \in [1..Len(s) -> Range(s)]
  BY <1>1, <1>2
<1>4. QED BY <1>1, <1>3 DEF IsSeq

LEMMA EmptyIsSeq == IsSeq(<<>>) /\ DOMAIN <<>> = {}
<1>1. <<>> \in Seq({})
  OBVIOUS
<1>2. IsSeq(<<>>) /\ DOMAIN <<>> = 1..Len(<<>>)
  BY <1>1, SeqIsSeq
<1>3. QED BY <1>2

LEMMA AppendIsSeq ==
  ASSUME NEW s, IsSeq(s), NEW e
  PROVE  /\ IsSeq(Append(s, e))
         /\ \A k \in DOMAIN Append(s, e) : Append(s, e)[k] = e \/ \E j \in DOMAIN s : Append(s, e)[k] = s[j]
<1> DEFINE S == Range(s) \cup {e}
<1>1. s \in Seq(Range(s))
  BY DEF IsSeq
<1>2. Append(s, e) \in Seq(S)
  <2>1. Range(s) \subseteq S /\ e \in S OBVIOUS
  <2> HIDE DEF S
  <2>2. s \in Seq(S) BY <1>1, <2>1, SeqMonotonic
  <2>3. QED BY <2>1, <2>2
<1> HIDE DEF S
<1>3. IsSeq(Append(s, e)) /\ DOMAIN Append(s, e) = 1..Len(Append(s, e))
  BY <1>2, SeqIsSeq
<1>4. Len(Append(s, e)) = Len(s) + 1 /\ Len(s) \in Nat /\ DOMAIN s = 1..Len(s)
  BY <1>1, LenProperties
<1>5. \A k \in 1..Len(s) + 1 : Append(s, e)[k] = IF k <= Len(s) THEN s[k] ELSE e
  BY <1>1
<1>6. QED BY <1>3, <1>4, <1>5

LEMMA HeadAndTail ==
  ASSUME NEW s, IsSeq(s), s # <<>>
  PROVE  /\ \E k \in DOMAIN s : Head(s) = s[k]
         /\ IsSeq(Tail(s))
         /\ \A k \in DOMAIN Tail(s) : \E j \in DOMAIN s : Tail(s)[k] = s[j]
<1>1. s \in Seq(Range(s)) /\ Len(s) \in Nat /\ DOMAIN s = 1..Len(s)
  BY LenProperties DEF IsSeq
<1>2. Len(s) >= 1 /\ Head(s) = s[1]
  BY <1>1
<1>3. Tail(s) \in Seq(Range(s)) /\ Len(Tail(s)) = Len(s) - 1
      /\ \A k \in 1..Len(s) - 1 : Tail(s)[k] = s[k + 1]
  BY <1>1, HeadTailProperties
<1>4. IsSeq(Tail(s)) /\ DOMAIN Tail(s) = 1..Len(Tail(s))
  BY <1>3, SeqIsSeq
<1>5. \A k \in 1..Len(s) - 1 : k + 1 \in DOMAIN s
  BY <1>1
<1>6. QED BY <1>1, <1>2, <1>3, <1>4, <1>5

\* The texts of an article are sequences.
LEMMA Texts ==
  ASSUME title \in Titles, lead \in Leads
  PROVE  IsSeq(title) /\ (HasLead => IsSeq(lead))
BY TextsAssumption DEF HasLead

LEMMA StoredIsShowable ==
  ASSUME title \in Titles, lead \in Leads, NEW f, Stored(f)
  PROVE  Showable(f)
<1>1. f.field \in {"title", "lead"} /\ (f.field = "lead" => HasLead)
      /\ Located(f.reported, Text(f.field), f)
  BY DEF Stored
<1>2. IsSeq(Text(f.field))
  BY <1>1, Texts DEF Text
<1>3. Len(Text(f.field)) \in Nat
  BY <1>2, SeqIsText DEF IsText
<1>4. QED BY <1>1, <1>3 DEF Showable, Located

\* What is found is stored as it was found.
LEMMA VerifiedIsStored ==
  ASSUME NEW f, NEW field \in {"title", "lead"}, field = "lead" => HasLead,
         NEW m, Located(f.quote, Text(field), m)
  PROVE  Stored(Verified(f, field, m))
<1> DEFINE v == Verified(f, field, m)
<1>1. /\ v.start = m.start /\ v.end = m.end /\ v.fuzzy = m.fuzzy /\ v.field = field
      /\ v.quote = Slice(Text(field), m) /\ v.reported = f.quote
  BY DEF Verified
<1> HIDE DEF v
<1>2. Slice(Text(field), m) = Slice(Text(field), v)
  BY <1>1 DEF Slice
<1>3. Located(f.quote, Text(field), v)
  BY <1>1 DEF Located
<1>4. QED BY <1>1, <1>2, <1>3 DEF Stored, v

LEMMA CallInvInit ==
  ASSUME Init
  PROVE  CallInv
BY EmptyIsSeq DEF Init, CallInv, FoundInv, TodoInv, VerdictInv, PageInv

LEMMA CompleteKeepsCallInv ==
  ASSUME CallInv, NEW r \in Replies, Complete(r)
  PROVE  CallInv'
<1>1. /\ title' = title /\ lead' = lead /\ reply' = r
      /\ findings' = <<>> /\ rejected' = <<>>
      /\ \/ Parses(r) /\ pc' = "verify" /\ todo' = r.findings
         \/ ~Parses(r) /\ pc' = "stored"
  BY DEF Complete
<1>2. Parses(r) => IsSeq(r.findings) /\ \A k \in DOMAIN r.findings : Reported(r.findings[k])
  <2>1. SUFFICES ASSUME Parses(r) PROVE IsSeq(r.findings) /\ \A k \in DOMAIN r.findings : Reported(r.findings[k])
    OBVIOUS
  <2>2. r \in Replies \ {None}
    BY <2>1 DEF Parses
  <2>3. IsSeq(r.findings) /\ \A k \in DOMAIN r.findings : IsSeq(r.findings[k].quote)
    BY <2>2, TextsAssumption
  <2>4. QED BY <2>1, <2>3 DEF Parses, Reported
<1>3. title \in Titles /\ lead \in Leads
  BY DEF CallInv, FoundInv
<1>4. IsSeq(<<>>) /\ DOMAIN <<>> = {}
  BY EmptyIsSeq
<1>5. FoundInv' /\ reply' \in Replies \cup {None}
  BY <1>1, <1>3, <1>4 DEF FoundInv
<1>6. CASE Parses(r) /\ pc' = "verify" /\ todo' = r.findings
  <2>1. TodoInv'
    BY <1>1, <1>2, <1>6 DEF TodoInv, Parses
  <2>2. VerdictInv' /\ PageInv'
    BY <1>6 DEF VerdictInv, PageInv
  <2>3. QED BY <1>5, <1>6, <2>1, <2>2 DEF CallInv
<1>7. CASE ~Parses(r) /\ pc' = "stored"
  <2>1. ~Parses(reply)'
    BY <1>1, <1>7 DEF Parses
  <2>2. TodoInv' /\ VerdictInv' /\ PageInv'
    BY <1>7, <2>1 DEF TodoInv, VerdictInv, PageInv
  <2>3. QED BY <1>5, <1>7, <2>2 DEF CallInv
<1>8. QED BY <1>1, <1>6, <1>7

LEMMA VerifyKeepsCallInv ==
  ASSUME CallInv, VerifyQuote
  PROVE  CallInv'
<1> DEFINE f == Head(todo)
<1>1. /\ pc = "verify" /\ todo # <<>> /\ todo' = Tail(todo)
      /\ title' = title /\ lead' = lead /\ pc' = pc /\ reply' = reply
      /\ contradiction' = contradiction /\ page' = page
  BY DEF VerifyQuote
<1>2. PICK inTitle \in LocateQuote(f.quote, title),
           inLead \in IF HasLead THEN LocateQuote(f.quote, lead) ELSE {None} :
        \/ /\ inTitle # None
           /\ findings' = Append(findings, Verified(f, "title", inTitle))
           /\ rejected' = rejected
        \/ /\ inTitle = None /\ inLead # None
           /\ findings' = Append(findings, Verified(f, "lead", inLead))
           /\ rejected' = rejected
        \/ /\ inTitle = None /\ inLead = None
           /\ rejected' = Append(rejected, f.quote)
           /\ findings' = findings
  BY DEF VerifyQuote
<1>3. /\ title \in Titles /\ lead \in Leads /\ Parses(reply)
      /\ IsSeq(todo) /\ \A k \in DOMAIN todo : Reported(todo[k])
      /\ IsSeq(findings) /\ \A k \in DOMAIN findings : Stored(findings[k])
      /\ IsSeq(rejected) /\ \A k \in DOMAIN rejected : NotFound(rejected[k])
      /\ reply \in Replies \cup {None}
  BY <1>1 DEF CallInv, FoundInv, TodoInv
<1>4. IsSeq(Tail(todo)) /\ \A k \in DOMAIN Tail(todo) : Reported(Tail(todo)[k])
  <2>1. /\ IsSeq(Tail(todo))
        /\ \A k \in DOMAIN Tail(todo) : \E j \in DOMAIN todo : Tail(todo)[k] = todo[j]
    BY <1>1, <1>3, HeadAndTail
  <2>2. QED BY <1>3, <2>1
<1>5. IsSeq(f.quote) /\ ~IsBlank(f.quote) /\ IsText(f.quote)
  <2>1. \E k \in DOMAIN todo : f = todo[k]
    BY <1>1, <1>3, HeadAndTail
  <2>2. Reported(f)
    BY <1>3, <2>1
  <2>3. QED BY <2>2, SeqIsText DEF Reported
<1>6. IsSeq(title) /\ (HasLead => IsSeq(lead))
  BY <1>3, Texts
<1> HIDE DEF f
<1>7. /\ IsSeq(findings') /\ \A k \in DOMAIN findings' : Stored(findings'[k])
      /\ IsSeq(rejected') /\ \A k \in DOMAIN rejected' : NotFound(rejected'[k])
  <2>1. CASE /\ inTitle # None
             /\ findings' = Append(findings, Verified(f, "title", inTitle))
             /\ rejected' = rejected
    <3>1. Located(f.quote, title, inTitle)
      BY <1>2, <1>5, <1>6, <2>1, LocateIsSound
    <3>2. Stored(Verified(f, "title", inTitle))
      BY <3>1, VerifiedIsStored DEF Text
    <3>3. QED BY <1>3, <2>1, <3>2, AppendIsSeq
  <2>2. CASE /\ inTitle = None /\ inLead # None
             /\ findings' = Append(findings, Verified(f, "lead", inLead))
             /\ rejected' = rejected
    <3>1. HasLead /\ inLead \in LocateQuote(f.quote, lead)
      BY <2>2
    <3>2. Located(f.quote, lead, inLead)
      BY <1>5, <1>6, <2>2, <3>1, LocateIsSound
    <3>3. Stored(Verified(f, "lead", inLead))
      BY <3>1, <3>2, VerifiedIsStored DEF Text
    <3>4. QED BY <1>3, <2>2, <3>3, AppendIsSeq
  <2>3. CASE /\ inTitle = None /\ inLead = None
             /\ rejected' = Append(rejected, f.quote)
             /\ findings' = findings
    <3>1. None \in LocateQuote(f.quote, title)
      BY <1>2, <2>3
    <3>2. HasLead => None \in LocateQuote(f.quote, lead)
      BY <1>2, <2>3
    <3>3. ~IsIn(f.quote, title)
      BY <1>5, <1>6, <3>1, LocateFinds
    <3>4. HasLead => ~IsIn(f.quote, lead)
      BY <1>5, <1>6, <3>2, LocateFinds
    <3>5. NotFound(f.quote)
      BY <3>3, <3>4 DEF NotFound
    <3>6. QED BY <1>3, <2>3, <3>5, AppendIsSeq
  <2>4. QED BY <1>2, <2>1, <2>2, <2>3
<1>8. /\ \A k \in DOMAIN findings' : Stored(findings[k])'
      /\ \A k \in DOMAIN rejected' : NotFound(rejected[k])'
  BY <1>1, <1>7 DEF Stored, NotFound, HasLead, Text, Slice
<1>9. FoundInv'
  BY <1>1, <1>3, <1>7, <1>8 DEF FoundInv
<1>10. TodoInv'
  BY <1>1, <1>3, <1>4 DEF TodoInv, Parses
<1>11. VerdictInv' /\ PageInv' /\ reply' \in Replies \cup {None} /\ pc' = "verify"
  BY <1>1, <1>3 DEF VerdictInv, PageInv
<1>12. QED BY <1>9, <1>10, <1>11 DEF CallInv

\* What a step keeps that leaves the article and what was found as they are.
LEMMA SameFindings ==
  ASSUME FoundInv, title' = title, lead' = lead,
         \/ findings' = findings /\ rejected' = rejected
         \/ findings' = <<>> /\ rejected' = <<>>
  PROVE  FoundInv'
BY EmptyIsSeq DEF FoundInv, Stored, NotFound, HasLead, Text, Slice

\* The same findings of the same article make the same pages.
LEMMA SamePages ==
  ASSUME UNCHANGED <<title, lead, findings>>
  PROVE  Selected' = Selected /\ \A rows : Rendered(rows)' = Rendered(rows)
<1>1. Selected' = Selected
  BY DEF Selected, Before
<1>2. ASSUME NEW rows PROVE Rendered(rows)' = Rendered(rows)
  BY DEF Rendered, HasLead
<1>3. QED BY <1>1, <1>2

LEMMA NextKeepsCallInv ==
  ASSUME CallInv, [Next]_vars
  PROVE  CallInv'
<1>0. FoundInv /\ reply \in Replies \cup {None}
  BY DEF CallInv
<1>1. ASSUME NEW r \in Replies, Complete(r) PROVE CallInv'
  BY <1>1, CompleteKeepsCallInv
<1>2. CASE ProviderError
  <2>1. UNCHANGED <<title, lead, reply, findings, rejected>> /\ pc' = "failed"
    BY <1>2 DEF ProviderError
  <2>2. FoundInv'
    <3>1. title' = title /\ lead' = lead /\ findings' = findings /\ rejected' = rejected
      BY <2>1
    <3>2. QED BY <1>0, <3>1, SameFindings
  <2>3. TodoInv' /\ VerdictInv' /\ PageInv'
    BY <2>1 DEF TodoInv, VerdictInv, PageInv
  <2>4. QED BY <1>0, <2>1, <2>2, <2>3 DEF CallInv
<1>3. CASE VerifyQuote
  BY <1>3, VerifyKeepsCallInv
<1>4. CASE Conclude
  <2>1. /\ UNCHANGED <<title, lead, reply, findings, rejected>> /\ pc' = "stored"
        /\ contradiction' = Contradicts(reply.verdict, findings)
    BY <1>4 DEF Conclude
  <2>2. FoundInv'
    <3>1. title' = title /\ lead' = lead /\ findings' = findings /\ rejected' = rejected
      BY <2>1
    <3>2. QED BY <1>0, <3>1, SameFindings
  <2>3. VerdictInv'
    BY <2>1 DEF VerdictInv
  <2>4. TodoInv' /\ PageInv'
    BY <2>1 DEF TodoInv, PageInv
  <2>5. QED BY <1>0, <2>1, <2>2, <2>3, <2>4 DEF CallInv
<1>5. CASE OpenPage
  <2>1. /\ UNCHANGED <<title, lead, reply, findings, rejected, contradiction>>
        /\ pc = "stored" /\ pc' = "shown"
    BY <1>5 DEF OpenPage
  <2>2. \E rows \in Selected : page' = Rendered(rows)
    BY <1>5 DEF OpenPage
  <2>3. FoundInv'
    <3>1. title' = title /\ lead' = lead /\ findings' = findings /\ rejected' = rejected
      BY <2>1
    <3>2. QED BY <1>0, <3>1, SameFindings
  <2>4. PageInv'
    BY <2>1, <2>2, SamePages DEF PageInv
  <2>5. VerdictInv'
    <3>1. VerdictInv /\ Parses(reply)' = Parses(reply)
      BY <2>1 DEF CallInv, Parses
    <3>2. QED BY <2>1, <3>1 DEF VerdictInv, Contradicts
  <2>6. TodoInv'
    BY <2>1 DEF TodoInv
  <2>7. QED BY <1>0, <2>1, <2>3, <2>4, <2>5, <2>6 DEF CallInv
<1>6. CASE CallAgain
  <2>1. /\ UNCHANGED <<title, lead>> /\ pc' = "call" /\ reply' = None
        /\ findings' = <<>> /\ rejected' = <<>>
    BY <1>6 DEF CallAgain
  <2>2. FoundInv'
    <3>1. title' = title /\ lead' = lead /\ findings' = <<>> /\ rejected' = <<>>
      BY <2>1
    <3>2. QED BY <1>0, <3>1, SameFindings
  <2>3. TodoInv' /\ VerdictInv' /\ PageInv'
    BY <2>1 DEF TodoInv, VerdictInv, PageInv
  <2>4. QED BY <2>1, <2>2, <2>3 DEF CallInv
<1>7. CASE UNCHANGED vars
  <2>1. UNCHANGED <<title, lead, pc, reply, todo, findings, rejected, contradiction, page>>
    BY <1>7 DEF vars
  <2>2. FoundInv'
    <3>1. title' = title /\ lead' = lead /\ findings' = findings /\ rejected' = rejected
      BY <2>1
    <3>2. QED BY <1>0, <3>1, SameFindings
  <2>3. TodoInv'
    BY <2>1 DEF CallInv, TodoInv, Parses, Reported
  <2>4. VerdictInv'
    BY <2>1 DEF CallInv, VerdictInv, Parses, Contradicts
  <2>5. PageInv'
    BY <2>1, SamePages DEF CallInv, PageInv
  <2>6. QED BY <1>0, <2>1, <2>2, <2>3, <2>4, <2>5 DEF CallInv
<1>8. QED BY <1>1, <1>2, <1>3, <1>4, <1>5, <1>6, <1>7 DEF Next

LEMMA CallInvariant == Spec => []CallInv
<1>1. Init => CallInv
  BY CallInvInit
<1>2. CallInv /\ [Next]_vars => CallInv'
  BY NextKeepsCallInv
<1>3. QED BY <1>1, <1>2, PTL DEF Spec

-----------------------------------------------------------------------------
(***************************************************************************)
(* Theorems.                                                               *)
(***************************************************************************)
\* Whatever the texts and the reply, a finding that is stored cites its own span of a
\* field that the article has, and where locate_quote did not fall back on rapidfuzz
\* the span is the first of the text as published that reads as the quote does: folding
\* and mapping the offsets back loses no character and takes none too many.
THEOREM SpansAreTheQuotes == Spec => []SpanIsTheQuote
<1>1. CallInv => SpanIsTheQuote
  <2>1. SUFFICES ASSUME CallInv, NEW k \in DOMAIN findings
                 PROVE  LET f == findings[k]
                            text == Text(f.field)
                        IN /\ f.field = "lead" => HasLead
                           /\ 0 <= f.start /\ f.start < f.end /\ f.end <= Len(text)
                           /\ f.quote = Slice(text, f)
                           /\ ~f.fuzzy =>
                                /\ IsIn(f.reported, SubSeq(text, f.start + 1, f.end))
                                /\ ~IsIn(f.reported, SubSeq(text, 1, f.end - 1))
                                /\ text[f.end] # "ellipsis" =>
                                     ~IsIn(f.reported, SubSeq(text, f.start + 2, f.end))
    BY DEF SpanIsTheQuote
  <2>2. Stored(findings[k])
    BY <2>1 DEF CallInv, FoundInv
  <2>3. QED BY <2>2 DEF Stored, Located
<1>2. QED BY <1>1, CallInvariant, PTL

\* A quote of the reply that the title or the lead has, typography aside, is never among
\* the rejected: what is folded away in one is folded away in the other.
THEOREM VerbatimQuotesAreKept == Spec => []VerbatimIsKept
<1>1. CallInv => VerbatimIsKept
  BY DEF CallInv, FoundInv, NotFound, VerbatimIsKept
<1>2. QED BY <1>1, CallInvariant, PTL

LEMMA ShownIsFound ==
  ASSUME CallInv, pc = "shown"
  PROVE  LET R == Range(findings) IN
         /\ \A f \in R : Showable(f) /\ f.field \in {"title", "lead"}
         /\ \E rows \in Seq(R) :
              /\ page = Rendered(rows)
              /\ \A k \in DOMAIN findings : \E m \in DOMAIN rows : rows[m] = findings[k]
              /\ \A m \in DOMAIN rows : \E k \in DOMAIN findings : rows[m] = findings[k]
<1> DEFINE R == Range(findings)
<1>1. /\ title \in Titles /\ lead \in Leads /\ findings \in Seq(R)
      /\ \A k \in DOMAIN findings : Stored(findings[k])
  BY DEF CallInv, FoundInv, IsSeq
<1>2. \A f \in R : Stored(f)
  BY <1>1 DEF Range
<1>3. \A f \in R : Showable(f) /\ f.field \in {"title", "lead"}
  <2>1. SUFFICES ASSUME NEW f \in R PROVE Showable(f)
    BY DEF Showable
  <2>2. Stored(f) BY <1>2
  <2>3. QED BY <1>1, <2>2, StoredIsShowable
<1>4. PICK rows \in Selected : page = Rendered(rows)
  BY DEF CallInv, PageInv
<1> HIDE DEF R
<1>5. /\ rows \in Seq(R)
      /\ \A k \in DOMAIN findings : \E m \in DOMAIN rows : rows[m] = findings[k]
      /\ \A m \in DOMAIN rows : \E k \in DOMAIN findings : rows[m] = findings[k]
  BY <1>1, SelectedIsAll
<1>6. QED BY <1>3, <1>4, <1>5 DEF R

\* However many findings there are and however they overlap, what page.tsx underlines
\* with a number is what the entry of that number quotes, in its own field, and nothing
\* in the other.
THEOREM UnderlinesAgree == Spec => []UnderlinedIsQuoted
<1>1. CallInv => UnderlinedIsQuoted
  <2>1. SUFFICES ASSUME CallInv, pc = "shown" PROVE UnderlinedIsQuoted
    BY DEF UnderlinedIsQuoted
  <2> DEFINE R == Range(findings)
  <2>2. \A f \in R : Showable(f)
    BY <2>1, ShownIsFound
  <2>3. PICK rows \in Seq(R) : page = Rendered(rows)
    BY <2>1, ShownIsFound
  <2> HIDE DEF R
  <2>4. \A n \in DOMAIN page.list :
          LET f == page.list[n]
              other == IF f.field = "title" THEN "lead" ELSE "title"
          IN /\ Underlined(page[f.field], n) = f.start..f.end - 1
             /\ Underlined(page[other], n) = {}
    BY <2>2, <2>3, NumbersAgree
  <2>5. QED BY <2>4 DEF UnderlinedIsQuoted
<1>2. QED BY <1>1, CallInvariant, PTL

\* The entries on screen are the findings the verdict was held against, all of them and
\* no other: what is recorded as a contradiction is one the reader can see.
THEOREM ContradictionsAreOnScreen == Spec => []ContradictionIsOnScreen
<1>1. CallInv => ContradictionIsOnScreen
  <2>1. SUFFICES ASSUME CallInv, pc = "shown", Parses(reply)
                 PROVE  contradiction <=> Contradicts(reply.verdict, page.list)
    BY DEF ContradictionIsOnScreen
  <2> DEFINE R == Range(findings)
             list == page.list
  <2>2. \A f \in R : f.field \in {"title", "lead"}
    BY <2>1, ShownIsFound
  <2>3. PICK rows \in Seq(R) :
           /\ page = Rendered(rows)
           /\ \A k \in DOMAIN findings : \E m \in DOMAIN rows : rows[m] = findings[k]
           /\ \A m \in DOMAIN rows : \E k \in DOMAIN findings : rows[m] = findings[k]
    BY <2>1, ShownIsFound
  <2> HIDE DEF R
  <2>4. /\ \A n \in DOMAIN list : \E m \in DOMAIN rows : list[n] = rows[m]
        /\ \A m \in DOMAIN rows : \E n \in DOMAIN list : list[n] = rows[m]
    BY <2>2, <2>3, ListIsAll
  <2> HIDE DEF list
  <2>5. /\ \A n \in DOMAIN list : \E k \in DOMAIN findings : list[n] = findings[k]
        /\ \A k \in DOMAIN findings : \E n \in DOMAIN list : list[n] = findings[k]
    <3>1. ASSUME NEW n \in DOMAIN list PROVE \E k \in DOMAIN findings : list[n] = findings[k]
      <4>1. PICK m \in DOMAIN rows : list[n] = rows[m] BY <2>4
      <4>2. PICK k \in DOMAIN findings : rows[m] = findings[k] BY <2>3
      <4>3. QED BY <4>1, <4>2
    <3>2. ASSUME NEW k \in DOMAIN findings PROVE \E n \in DOMAIN list : list[n] = findings[k]
      <4>1. PICK m \in DOMAIN rows : rows[m] = findings[k] BY <2>3
      <4>2. PICK n \in DOMAIN list : list[n] = rows[m] BY <2>4
      <4>3. QED BY <4>1, <4>2
    <3>3. QED BY <3>1, <3>2
  <2>6. (\E n \in DOMAIN list : list[n].confident) <=> \E k \in DOMAIN findings : findings[k].confident
    BY <2>5, Zenon
  <2>7. contradiction <=> Contradicts(reply.verdict, findings)
    BY <2>1 DEF CallInv, VerdictInv
  <2>8. Contradicts(reply.verdict, findings) <=> Contradicts(reply.verdict, list)
    BY <2>6 DEF Contradicts
  <2>9. QED BY <2>7, <2>8 DEF list
<1>2. QED BY <1>1, CallInvariant, PTL

-----------------------------------------------------------------------------
(***************************************************************************)
(* The account page and the bookmark button.                               *)
(***************************************************************************)
Fates == {"none", "sent", "resolved", "deleted", "closed", "done", "refused"}

PanelTypeOK ==
  /\ stored \subseteq Categories /\ chosen \subseteq Categories
  /\ outcome \in {"none", "saved", "failed"}
  /\ busy \in BOOLEAN /\ confirming \in BOOLEAN /\ left \in BOOLEAN
  /\ erased \in BOOLEAN /\ saved \in BOOLEAN /\ session \in BOOLEAN
  /\ sent \in 0..MaxRequests
  /\ asked \in [Panel!Requests ->
       [kind : {"none", "save", "erase"}, categories : SUBSET Categories]]
  /\ fate \in [Panel!Requests -> Fates]
  /\ stragglers \subseteq Panel!Requests

\* How far a request has come and what it is; only the last one and those that
\* were given up before it are still under way.
RequestInv ==
  /\ \A n \in Panel!Requests :
       /\ n > sent => fate[n] = "none"
       /\ fate[n] \notin Panel!Final => n \in stragglers \cup {sent}
       /\ fate[n] = "deleted" => asked[n].kind = "save"
       /\ fate[n] = "closed" => asked[n].kind = "erase"
       /\ fate[n] = "done" /\ asked[n].kind = "erase" => erased
  /\ busy \/ outcome = "saved" => sent \in Panel!Requests
  /\ left => erased
  /\ erased => stored = {} /\ ~saved

\* What is stored since the last save has cleared the table.
StoredInv ==
  /\ \A n \in Panel!Requests :
       n = sent /\ asked[n].kind = "save" /\ fate[n] \in {"deleted", "done"} =>
         /\ stored \subseteq UNION {asked[m].categories : m \in stragglers \cup {n}}
         /\ stragglers = {} /\ fate[n] = "deleted" => stored = {}
         /\ stragglers = {} /\ fate[n] = "done" => stored = asked[n].categories
  /\ outcome = "saved" /\ ~busy => asked[sent].kind = "save" /\ fate[sent] = "done"

PanelInv == PanelTypeOK /\ RequestInv /\ StoredInv

ButtonTypeOK ==
  /\ on \in BOOLEAN /\ saved \in BOOLEAN
  /\ taps \in 0..MaxTaps
  /\ next \in [Button!Taps -> BOOLEAN]
  /\ waiting \subseteq Button!Taps
  /\ put \in [Button!Taps -> {"none", "sent", "resolved", "done", "refused"}]
  /\ alone \in BOOLEAN /\ muddled \in BOOLEAN

\* A tap that found nothing under way has the server to itself.  Until it is
\* answered the button shows what it asked for; until it is carried out the
\* table holds the opposite, if the two agreed before.
TapInv ==
  /\ \A n \in Button!Taps : n > taps => put[n] = "none" /\ n \notin waiting
  /\ ~muddled => alone
  /\ alone => Button!UnderWay \subseteq {taps}
  /\ ~erased /\ alone => \A n \in waiting :
       /\ next[n] = on
       /\ put[n] = "done" => saved = on
       /\ ~muddled /\ put[n] # "done" => saved # on
  /\ ~erased /\ ~muddled /\ waiting = {} => Button!UnderWay = {} /\ saved = on

-----------------------------------------------------------------------------
\* An erased account stays erased.
LEMMA ErasedForGood == ASSUME [WebNext]_webVars, erased PROVE erased'
BY DEF WebNext, webVars, ButtonStep, PanelStep, SessionChanges, Button!Next, Button!Toggle,
   Button!Resolve, Button!Write, Button!Break, Button!Answer, Panel!Next, Panel!Toggle,
   Panel!Save, Panel!Confirm, Panel!Remove, Panel!Send, Panel!Resolve,
   Panel!DeleteSubscriptions, Panel!InsertSubscriptions, Panel!CloseAllSessions,
   Panel!DeleteUser, Panel!Break, Panel!SaveAnswered, Panel!RemoveAnswered

LEMMA PanelKept ==
  ASSUME PanelInv, UNCHANGED panelVars, erased' = erased, session' \in BOOLEAN,
         saved' \in BOOLEAN, erased => saved' = FALSE
  PROVE  PanelInv'
BY DEF PanelInv, PanelTypeOK, RequestInv, StoredInv, panelVars

\* A step of the page that sends nothing and leaves the server alone.
LEMMA ScreenStep ==
  ASSUME PanelInv, UNCHANGED <<sent, asked, stragglers, fate, stored, erased, session, saved>>,
         chosen' \subseteq Categories, outcome' \in {"none", "saved", "failed"},
         busy' \in BOOLEAN, confirming' \in BOOLEAN, left' \in BOOLEAN,
         busy' => busy, left' => erased,
         outcome' = "saved" /\ ~busy' =>
           sent \in Panel!Requests /\ asked[sent].kind = "save" /\ fate[sent] = "done",
         outcome' = "saved" => sent \in Panel!Requests
  PROVE  PanelInv'
BY DEF PanelInv, PanelTypeOK, RequestInv, StoredInv

LEMMA SendStep ==
  ASSUME PanelInv, NEW kind \in {"save", "erase"}, NEW categories \in SUBSET Categories,
         Panel!Send(kind, categories), saved' = saved
  PROVE  PanelInv'
<1> USE DEF PanelInv, PanelTypeOK, RequestInv, StoredInv
<1>1. sent + 1 \in Panel!Requests /\ sent' = sent + 1 /\ sent \in Nat
  BY WebClientAssumption DEF Panel!Send, Panel!Requests
<1>2. /\ asked' = [asked EXCEPT ![sent + 1] = [kind |-> kind, categories |-> categories]]
      /\ fate' = [fate EXCEPT ![sent + 1] = "sent"]
      /\ stragglers' = {n \in Panel!Requests : fate[n] \notin Panel!Final}
      /\ busy' = TRUE
      /\ UNCHANGED <<chosen, outcome, confirming, left, stored, session, erased, saved>>
  BY DEF Panel!Send
<1>3. PanelTypeOK'
  BY <1>1, <1>2 DEF Fates, Panel!Requests
<1>4. ASSUME NEW n \in Panel!Requests, n # sent + 1
      PROVE  fate'[n] = fate[n] /\ asked'[n] = asked[n]
  BY <1>2, <1>4
<1>5. fate'[sent + 1] = "sent"
  BY <1>1, <1>2
<1>6. RequestInv'
  <2>1. ASSUME NEW n \in Panel!Requests
        PROVE  /\ n > sent' => fate'[n] = "none"
               /\ fate'[n] \notin Panel!Final => n \in stragglers' \cup {sent'}
               /\ fate'[n] = "deleted" => asked'[n].kind = "save"
               /\ fate'[n] = "closed" => asked'[n].kind = "erase"
               /\ fate'[n] = "done" /\ asked'[n].kind = "erase" => erased'
    <3>1. CASE n = sent + 1
      BY <1>1, <1>5, <3>1
    <3>2. CASE n # sent + 1
      BY <1>1, <1>2, <1>4, <3>2 DEF Panel!Requests
    <3>3. QED BY <3>1, <3>2
  <2>2. QED BY <1>1, <1>2, <2>1 DEF Panel!Final
<1>7. StoredInv'
  BY <1>1, <1>2, <1>5
<1>8. QED BY <1>3, <1>6, <1>7

\* A step of the server on behalf of request n; what it does to the table.
LEMMA ServerStep ==
  ASSUME PanelInv, NEW n \in Panel!Requests, fate[n] \notin Panel!Final,
         NEW f \in Fates \ {"none", "sent"}, fate' = [fate EXCEPT ![n] = f],
         UNCHANGED <<Panel!screen, Panel!requests>>,
         session' \in BOOLEAN, erased' \in BOOLEAN, erased => erased',
         saved' = (saved /\ ~erased'), stored' \subseteq Categories,
         erased' => stored' = {},
         f = "deleted" => asked[n].kind = "save" /\ stored' = {},
         f = "closed" => asked[n].kind = "erase",
         f = "done" /\ asked[n].kind = "erase" => erased',
         \/ stored' \in {stored, {}} /\ (f = "done" => asked[n].kind # "save")
         \/ /\ f = "done" /\ fate[n] = "deleted"
            /\ stored' = stored \cup asked[n].categories,
         stored' # stored =>
           f = "deleted" \/ fate[n] = "deleted" \/ asked[n].kind = "erase"
  PROVE  PanelInv'
<1> USE DEF PanelInv, PanelTypeOK, RequestInv, StoredInv, Panel!screen, Panel!requests
<1>1. PanelTypeOK'
  OBVIOUS
<1>2. \A m \in Panel!Requests \ {n} : fate'[m] = fate[m]
  OBVIOUS
<1>3. fate'[n] = f /\ n \in stragglers \cup {sent} /\ n <= sent
  <2>1. n \in Nat /\ sent \in Nat
    BY DEF Panel!Requests
  <2>2. ~(n > sent)
    BY DEF Panel!Final
  <2>3. QED BY <2>1, <2>2
<1>4. RequestInv'
  <2>1. ASSUME NEW m \in Panel!Requests
        PROVE  /\ m > sent => fate'[m] = "none"
               /\ fate'[m] \notin Panel!Final => m \in stragglers \cup {sent}
               /\ fate'[m] = "deleted" => asked[m].kind = "save"
               /\ fate'[m] = "closed" => asked[m].kind = "erase"
               /\ fate'[m] = "done" /\ asked[m].kind = "erase" => erased'
    <3>1. CASE m = n
      <4>1. ~(m > sent)
        BY <1>3, <3>1 DEF Panel!Requests
      <4>2. QED BY <1>3, <3>1, <4>1
    <3>2. CASE m # n
      BY <1>2, <3>2
    <3>3. QED BY <3>1, <3>2
  <2>2. QED BY <2>1
<1>5. StoredInv'
  <2>1. ASSUME NEW m \in Panel!Requests, m = sent, asked[m].kind = "save",
               fate'[m] \in {"deleted", "done"}
        PROVE  /\ stored' \subseteq UNION {asked[k].categories : k \in stragglers \cup {m}}
               /\ stragglers = {} /\ fate'[m] = "deleted" => stored' = {}
               /\ stragglers = {} /\ fate'[m] = "done" => stored' = asked[m].categories
    <3> DEFINE Union == UNION {asked[k].categories : k \in stragglers \cup {m}}
    <3>1. asked[n].categories \subseteq Union
      BY <1>3, <2>1
    <3>2. CASE n = m
      <4>1. CASE f = "deleted"
        BY <1>3, <3>2, <4>1
      <4>2. CASE f = "done"
        <5>1. fate[m] = "deleted" /\ stored' = stored \cup asked[m].categories
          BY <2>1, <3>2, <4>2
        <5>2. stored \subseteq Union /\ (stragglers = {} => stored = {})
          BY <2>1, <5>1
        <5>3. QED BY <1>3, <3>1, <3>2, <4>2, <5>1, <5>2
      <4>3. QED BY <1>3, <2>1, <3>2, <4>1, <4>2
    <3>3. CASE n # m
      <4>1. fate[m] = fate'[m] /\ stragglers # {}
        BY <1>2, <1>3, <2>1, <3>3
      <4>2. stored \subseteq Union
        BY <2>1, <4>1
      <4>3. QED BY <3>1, <4>1, <4>2
    <3>4. QED BY <3>2, <3>3
  <2>2. outcome = "saved" /\ ~busy => asked[sent].kind = "save" /\ fate'[sent] = "done"
    BY DEF Panel!Final
  <2>3. QED BY <2>1, <2>2
<1>6. QED BY <1>1, <1>4, <1>5

LEMMA PanelNext ==
  ASSUME PanelInv, ButtonTypeOK, [WebNext]_webVars
  PROVE  PanelInv'
<1>0. PanelTypeOK /\ RequestInv /\ StoredInv
  BY DEF PanelInv
<1>1. CASE ButtonStep
  <2>1. /\ UNCHANGED <<panelVars, session, erased>>
        /\ saved' \in BOOLEAN /\ (erased => saved' = FALSE)
    BY <1>0, <1>1 DEF ButtonStep, ButtonTypeOK, RequestInv, Button!Next, Button!Toggle, Button!Resolve,
       Button!Write, Button!Break, Button!Answer, Button!button, Button!history
  <2>2. QED BY <1>0, <2>1, PanelKept DEF PanelTypeOK
<1>2. CASE PanelStep
  <2>1. saved' = (saved /\ ~erased')
    BY <1>2 DEF PanelStep
  <2>2. erased' = erased => saved' = saved
    BY <1>0, <2>1 DEF PanelTypeOK, RequestInv
  <2>3. ASSUME NEW c \in Categories, Panel!Toggle(c) PROVE PanelInv'
    <3>1. /\ UNCHANGED <<sent, asked, stragglers, fate, stored, erased, session, saved>>
          /\ UNCHANGED <<busy, confirming, left>>
          /\ outcome' = "none" /\ chosen' \subseteq Categories
      BY <1>0, <2>2, <2>3 DEF Panel!Toggle, Panel!requests, PanelTypeOK
    <3>2. QED BY <1>0, <3>1, ScreenStep DEF PanelTypeOK, RequestInv
  <2>4. CASE Panel!Confirm
    <3>1. /\ UNCHANGED <<sent, asked, stragglers, fate, stored, erased, session, saved>>
          /\ UNCHANGED <<busy, chosen, outcome, left>> /\ confirming' \in BOOLEAN
      BY <1>0, <2>2, <2>4 DEF Panel!Confirm, Panel!requests, PanelTypeOK
    <3>2. QED BY <1>0, <3>1, ScreenStep DEF PanelTypeOK, RequestInv, StoredInv
  <2>5. CASE Panel!Save \/ Panel!Remove
    <3>1. \E kind \in {"save", "erase"}, categories \in SUBSET Categories :
            Panel!Send(kind, categories)
      BY <1>0, <2>5 DEF Panel!Save, Panel!Remove, PanelTypeOK
    <3>2. saved' = saved
      BY <2>2, <3>1 DEF Panel!Send
    <3>3. QED BY <3>1, <3>2, SendStep
  <2>6. ASSUME NEW succeeded \in BOOLEAN, Panel!SaveAnswered(succeeded) PROVE PanelInv'
    <3>1. /\ UNCHANGED <<sent, asked, stragglers, fate, stored, erased, session, saved>>
          /\ UNCHANGED <<chosen, confirming, left>> /\ busy /\ busy' = FALSE
          /\ outcome' \in {"saved", "failed"}
          /\ outcome' = "saved" => asked[sent].kind = "save" /\ fate[sent] = "done"
      BY <2>2, <2>6 DEF Panel!SaveAnswered, Panel!requests
    <3>2. sent \in Panel!Requests
      BY <1>0, <3>1 DEF RequestInv
    <3>3. QED BY <1>0, <3>1, <3>2, ScreenStep DEF PanelTypeOK, RequestInv
  <2>7. ASSUME NEW succeeded \in BOOLEAN, Panel!RemoveAnswered(succeeded) PROVE PanelInv'
    <3>1. /\ UNCHANGED <<sent, asked, stragglers, fate, stored, erased, session, saved>>
          /\ UNCHANGED <<chosen, confirming>> /\ busy /\ ~left
          /\ asked[sent].kind = "erase"
          /\ succeeded => fate[sent] = "done" /\ left' = TRUE /\ UNCHANGED <<outcome, busy>>
          /\ ~succeeded => outcome' = "failed" /\ busy' = FALSE /\ UNCHANGED left
      BY <2>2, <2>7 DEF Panel!RemoveAnswered, Panel!requests
    <3>2. sent \in Panel!Requests
      BY <1>0, <3>1 DEF RequestInv
    <3>3. succeeded => erased
      BY <1>0, <3>1, <3>2 DEF RequestInv
    <3>4. CASE succeeded
      BY <1>0, <3>1, <3>2, <3>3, <3>4, ScreenStep DEF PanelTypeOK, RequestInv
    <3>5. CASE ~succeeded
      <4>1. outcome' = "failed" /\ busy' = FALSE /\ left' = FALSE
        BY <1>0, <3>1, <3>5 DEF PanelTypeOK
      <4>2. QED BY <1>0, <3>1, <4>1, ScreenStep DEF PanelTypeOK
    <3>6. QED BY <3>4, <3>5
  <2>8. ASSUME NEW n \in Panel!Requests,
               \/ Panel!Resolve(n) \/ Panel!DeleteSubscriptions(n)
               \/ Panel!InsertSubscriptions(n) \/ Panel!CloseAllSessions(n)
               \/ Panel!DeleteUser(n) \/ Panel!Break(n)
        PROVE  PanelInv'
    <3> USE DEF Panel!Goes, Panel!Final, Fates
    <3>1. asked[n] \in [kind : {"none", "save", "erase"}, categories : SUBSET Categories]
      BY <1>0 DEF PanelTypeOK
    <3>2. CASE Panel!Resolve(n)
      <4>1. PICK f \in {"resolved", "refused"} : fate' = [fate EXCEPT ![n] = f]
        BY <3>2 DEF Panel!Resolve
      <4>2. /\ UNCHANGED <<Panel!screen, Panel!requests, stored, session, erased>>
            /\ fate[n] = "sent"
        BY <3>2 DEF Panel!Resolve
      <4>3. CASE f = "resolved"
        BY <1>0, <2>1, <4>1, <4>2, <4>3, ServerStep DEF PanelTypeOK, RequestInv
      <4>4. CASE f = "refused"
        BY <1>0, <2>1, <4>1, <4>2, <4>4, ServerStep DEF PanelTypeOK, RequestInv
      <4>5. QED BY <4>3, <4>4
    <3>3. CASE Panel!DeleteSubscriptions(n)
      BY <1>0, <2>1, <3>3, ServerStep DEF Panel!DeleteSubscriptions, PanelTypeOK, RequestInv
    <3>4. CASE Panel!InsertSubscriptions(n)
      <4>0. asked[n].kind = "save" /\ asked[n].categories \subseteq Categories
        BY <1>0, <3>1, <3>4 DEF Panel!InsertSubscriptions, RequestInv
      <4>1. CASE asked[n].categories = {} \/ (~erased /\ asked[n].categories \cap stored = {})
        <5>1. /\ stored' = stored \cup asked[n].categories
              /\ fate' = [fate EXCEPT ![n] = "done"] /\ fate[n] = "deleted"
              /\ UNCHANGED <<Panel!screen, Panel!requests, session, erased>>
          BY <3>4, <4>1 DEF Panel!InsertSubscriptions
        <5>2. erased => stored' = {}
          BY <1>0, <4>1, <5>1 DEF RequestInv
        <5>3. QED BY <1>0, <2>1, <4>0, <5>1, <5>2, ServerStep DEF PanelTypeOK
      <4>2. CASE ~(asked[n].categories = {} \/ (~erased /\ asked[n].categories \cap stored = {}))
        <5>1. /\ stored' = stored
              /\ fate' = [fate EXCEPT ![n] = "refused"] /\ fate[n] = "deleted"
              /\ UNCHANGED <<Panel!screen, Panel!requests, session, erased>>
          BY <3>4, <4>2 DEF Panel!InsertSubscriptions
        <5>2. QED BY <1>0, <2>1, <4>0, <5>1, ServerStep DEF PanelTypeOK, RequestInv
      <4>3. QED BY <4>1, <4>2
    <3>5. CASE Panel!CloseAllSessions(n)
      BY <1>0, <2>1, <3>5, ServerStep DEF Panel!CloseAllSessions, PanelTypeOK, RequestInv
    <3>6. CASE Panel!DeleteUser(n)
      <4>1. asked[n].kind = "erase"
        BY <1>0, <3>6 DEF Panel!DeleteUser, RequestInv
      <4>2. /\ UNCHANGED <<Panel!screen, Panel!requests>> /\ fate[n] = "closed"
            /\ erased' = TRUE /\ session' = FALSE /\ stored' = {}
            /\ fate' = [fate EXCEPT ![n] = "done"]
        BY <3>6 DEF Panel!DeleteUser
      <4>3. QED BY <1>0, <2>1, <4>1, <4>2, ServerStep
    <3>7. CASE Panel!Break(n)
      BY <1>0, <2>1, <3>7, ServerStep DEF Panel!Break, PanelTypeOK, RequestInv
    <3>8. QED BY <2>8, <3>2, <3>3, <3>4, <3>5, <3>6, <3>7
  <2>9. QED
    BY <1>2, <2>3, <2>4, <2>5, <2>6, <2>7, <2>8 DEF PanelStep, Panel!Next
<1>3. CASE SessionChanges
  BY <1>0, <1>3, PanelKept DEF SessionChanges, PanelTypeOK
<1>4. CASE UNCHANGED webVars
  BY <1>0, <1>4, PanelKept DEF webVars, PanelTypeOK, RequestInv
<1>5. QED BY <1>1, <1>2, <1>3, <1>4 DEF WebNext

LEMMA ButtonTypes ==
  ASSUME ButtonTypeOK, erased \in BOOLEAN, [WebNext]_webVars
  PROVE  ButtonTypeOK'
<1> USE DEF ButtonTypeOK, Button!Taps, Button!button, Button!history
<1>1. CASE Button!Toggle
  <2>1. taps + 1 \in 1..MaxTaps
    BY <1>1, WebClientAssumption DEF Button!Toggle
  <2>2. QED BY <1>1, <2>1 DEF Button!Toggle
<1>2. ASSUME NEW n \in Button!Taps, Button!Resolve(n) \/ Button!Write(n) \/ Button!Break(n)
      PROVE  ButtonTypeOK'
  BY <1>2 DEF Button!Resolve, Button!Write, Button!Break
<1>3. ASSUME NEW n \in Button!Taps, NEW succeeded \in BOOLEAN, Button!Answer(n, succeeded)
      PROVE  ButtonTypeOK'
  BY <1>3 DEF Button!Answer
<1>4. CASE PanelStep
  BY <1>4 DEF PanelStep, buttonVars
<1>5. CASE SessionChanges \/ UNCHANGED webVars
  BY <1>5 DEF SessionChanges, webVars, buttonVars
<1>6. QED BY <1>1, <1>2, <1>3, <1>4, <1>5 DEF WebNext, ButtonStep, Button!Next

LEMMA TapNext ==
  ASSUME ButtonTypeOK, TapInv, [WebNext]_webVars
  PROVE  TapInv'
<1> USE DEF ButtonTypeOK, TapInv, Button!UnderWay
<1>0. erased => erased'
  BY ErasedForGood
<1>1. CASE Button!Toggle
  <2>1. taps + 1 \in Button!Taps /\ taps \in Nat
    BY <1>1, WebClientAssumption DEF Button!Toggle, Button!Taps
  <2>2. /\ next' = [next EXCEPT ![taps + 1] = ~on] /\ on' = ~on /\ taps' = taps + 1
        /\ waiting' = waiting \cup {taps + 1}
        /\ put' = [put EXCEPT ![taps + 1] = "sent"]
        /\ alone' = (Button!UnderWay = {}) /\ muddled' = (muddled \/ Button!UnderWay # {})
        /\ UNCHANGED <<saved, erased>>
    BY <1>1 DEF Button!Toggle
  <2>3. next'[taps + 1] = on' /\ put'[taps + 1] = "sent"
    BY <2>1, <2>2
  <2>4. Button!UnderWay = {} => waiting' = {taps + 1} /\ Button!UnderWay' = {taps + 1}
    BY <2>1, <2>2, <2>3
  <2>5. \A n \in Button!Taps : n > taps' => put'[n] = "none" /\ n \notin waiting'
    BY <2>1, <2>2 DEF Button!Taps
  <2>6. ~erased /\ ~muddled' => saved # on'
    BY <2>2
  <2>7. QED BY <2>1, <2>2, <2>3, <2>4, <2>5, <2>6
\* What is under way, and nothing else, moves at the server.
<1>2. ASSUME NEW n \in Button!Taps, Button!Resolve(n) \/ Button!Write(n) \/ Button!Break(n)
      PROVE  TapInv'
  <2>1. /\ n \in Button!UnderWay /\ UNCHANGED <<on, taps, next, waiting, alone, muddled, erased>>
        /\ \E f \in {"resolved", "done", "refused"} :
             /\ put' = [put EXCEPT ![n] = f]
             /\ f = "done" => (~erased => saved' = next[n])
             /\ f # "done" => saved' = saved
        /\ put[n] # "done"
    BY <1>2 DEF Button!Resolve, Button!Write, Button!Break, Button!button, Button!history
  <2>2. Button!UnderWay' \subseteq Button!UnderWay
    BY <2>1
  <2>3. alone => n = taps
    BY <2>1
  <2>4. \A m \in Button!Taps \ {n} : put'[m] = put[m]
    BY <2>1
  <2>5. \A m \in Button!Taps : m > taps => put'[m] = "none" /\ m \notin waiting'
    <3>1. ~(n > taps)
      BY <2>1
    <3>2. QED BY <2>1, <2>4, <3>1
  <2>6. ASSUME ~erased, alone, NEW m \in waiting
        PROVE  /\ next[m] = on
               /\ put'[m] = "done" => saved' = on
               /\ ~muddled /\ put'[m] # "done" => saved' # on
    <3>1. m = n
      BY <2>3, <2>6
    <3>2. QED BY <2>1, <2>6, <3>1
  <2>7. ~erased /\ ~muddled => waiting # {}
    BY <2>1
  <2>8. QED BY <2>1, <2>2, <2>5, <2>6, <2>7
<1>3. ASSUME NEW n \in Button!Taps, NEW succeeded \in BOOLEAN, Button!Answer(n, succeeded)
      PROVE  TapInv'
  <2>1. /\ n \in waiting /\ waiting' = waiting \ {n}
        /\ on' = IF succeeded THEN on ELSE ~next[n]
        /\ UNCHANGED <<taps, next, put, saved, session, erased, alone>>
        /\ succeeded => put[n] = "done" /\ muddled' = (muddled /\ ~(alone /\ n = taps))
        /\ ~succeeded => muddled' = (muddled \/ put[n] # "refused")
    BY <1>3 DEF Button!Answer
  <2>2. alone => n = taps /\ waiting' = {}
    BY <2>1
  <2>3. ~muddled' => alone
    BY <2>1
  <2>4. Button!UnderWay' \subseteq Button!UnderWay
    BY <2>1
  <2>5. ASSUME ~erased, ~muddled' PROVE Button!UnderWay' = {} /\ saved = on'
    <3>1. alone /\ n = taps /\ waiting' = {}
      BY <2>2, <2>3, <2>5
    <3>2. put[n] \notin {"sent", "resolved"}
      BY <2>1, <2>5
    <3>3. Button!UnderWay' = {}
      BY <2>1, <2>4, <3>1, <3>2
    <3>4. CASE succeeded
      BY <2>1, <2>5, <3>1, <3>4
    <3>5. CASE ~succeeded
      <4>1. ~muddled /\ put[n] = "refused"
        BY <2>1, <2>5, <3>5
      <4>2. saved # on /\ next[n] = on
        BY <2>1, <2>5, <3>1, <4>1
      <4>3. QED BY <2>1, <3>3, <3>5, <4>2
    <3>6. QED BY <3>3, <3>4, <3>5
  <2>6. QED BY <1>0, <2>1, <2>2, <2>3, <2>4, <2>5
<1>4. CASE UNCHANGED buttonVars /\ (~erased' => saved' = saved)
  BY <1>0, <1>4 DEF buttonVars
<1>5. CASE PanelStep
  BY <1>4, <1>5 DEF PanelStep
<1>6. CASE SessionChanges \/ UNCHANGED webVars
  BY <1>4, <1>6 DEF SessionChanges, webVars
<1>7. QED BY <1>1, <1>2, <1>3, <1>5, <1>6 DEF WebNext, ButtonStep, Button!Next

LEMMA WebInitInv == WebInit => PanelInv /\ ButtonTypeOK /\ TapInv
<1> SUFFICES ASSUME WebInit PROVE PanelInv /\ ButtonTypeOK /\ TapInv
  OBVIOUS
<1> USE DEF WebInit, Button!Init, Panel!Init
<1>1. PanelTypeOK
  <2>1. stored \subseteq Categories /\ chosen \subseteq Categories /\ saved \in BOOLEAN
    OBVIOUS
  <2>2. sent \in 0..MaxRequests
    BY WebClientAssumption
  <2>3. asked \in [Panel!Requests ->
          [kind : {"none", "save", "erase"}, categories : SUBSET Categories]]
    OBVIOUS
  <2>4. fate \in [Panel!Requests -> Fates]
    BY DEF Fates
  <2>5. QED BY <2>1, <2>2, <2>3, <2>4 DEF PanelTypeOK
<1>2. RequestInv /\ StoredInv
  BY DEF RequestInv, StoredInv, Panel!Final
<1>3. ButtonTypeOK
  <2>1. on \in BOOLEAN /\ saved \in BOOLEAN /\ waiting \subseteq Button!Taps
    OBVIOUS
  <2>2. taps \in 0..MaxTaps
    BY WebClientAssumption
  <2>3. /\ next \in [Button!Taps -> BOOLEAN]
        /\ put \in [Button!Taps -> {"none", "sent", "resolved", "done", "refused"}]
    OBVIOUS
  <2>4. QED BY <2>1, <2>2, <2>3 DEF ButtonTypeOK
<1>4. Button!UnderWay = {}
  BY DEF Button!UnderWay
<1>5. TapInv
  BY <1>4 DEF TapInv
<1>6. QED BY <1>1, <1>2, <1>3, <1>5 DEF PanelInv

LEMMA WebInvariant == WebSpec => [](PanelInv /\ ButtonTypeOK /\ TapInv)
<1>1. ASSUME PanelInv /\ ButtonTypeOK /\ TapInv, [WebNext]_webVars
      PROVE  (PanelInv /\ ButtonTypeOK /\ TapInv)'
  <2>1. erased \in BOOLEAN
    BY <1>1 DEF PanelInv, PanelTypeOK
  <2>2. QED BY <1>1, <2>1, PanelNext, ButtonTypes, TapNext
<1>2. QED BY <1>1, WebInitInv, PTL DEF WebSpec

\* account-panel.tsx: the page is left only when the account is gone with all it
\* had, whatever either tab still has under way at the server.
THEOREM PanelLeavesOnlyErased == WebSpec => []LeavesOnlyErased
<1>1. PanelInv => LeavesOnlyErased
  BY DEF PanelInv, RequestInv, LeavesOnlyErased
<1>2. QED BY <1>1, WebInvariant, PTL

\* account-panel.tsx: "saved" is only said of what the account holds, unless a
\* request that was given up before overtakes the one that is spoken of.
THEOREM SavedIsStored == WebSpec => []SaidSavedIsStored
<1>1. PanelInv => SaidSavedIsStored
  BY DEF PanelInv, RequestInv, StoredInv, SaidSavedIsStored
<1>2. QED BY <1>1, WebInvariant, PTL

\* save-button.tsx:12-15: at rest the button shows what the database holds, but
\* after taps that overlapped or one that was given up too early, and then only
\* until one that found nothing under way succeeds.
THEOREM ButtonIsTrue == WebSpec => []ButtonIsTrueUnlessMuddled
<1>1. TapInv => ButtonIsTrueUnlessMuddled
  BY DEF TapInv, ButtonIsTrueUnlessMuddled, Button!UnderWay
<1>2. QED BY <1>1, WebInvariant, PTL

=============================================================================
