------------------------ MODULE ServedCorpus_proofs ------------------------
(***************************************************************************)
(* What readers are served, for any number of articles, of overlapping     *)
(* passes, of sweeps, rows and prompt versions.                            *)
(*                                                                         *)
(* AnalysedIsServed is not inductive: MarkAnalyzed relies on the row that  *)
(* InsertAnalysis appended one or two transactions earlier, so InHand      *)
(* remembers it, and rows must only grow for it to be remembered.          *)
(* FilterMatchesVerdict relies on Overtaken: a row that came in while a    *)
(* pass stood between its two writes about the same article knows it.      *)
(***************************************************************************)
EXTENDS ServedCorpus, SequenceTheorems, WellFoundedInduction, TLAPS

\* The row of the analysis in hand is in the table, findings and all once its
\* pass goes on to mark the article.
InHand ==
  \A w \in Writers :
    /\ pc[w] # "idle" => at[w] \in DOMAIN rows
    /\ pc[w] # "idle" /\ w \in Analyzers => rows[at[w]].an.kind = "production"
    /\ pc[w] = "mark" => w \in Analyzers /\ rows[at[w]].written

\* A row newer than the one a pass still has to mark was not alone.
Overtaken ==
  \A v \in Analyzers : pc[v] # "idle" =>
    \A j \in DOMAIN rows :
      j > at[v] /\ rows[j].an.article = rows[at[v]].an.article => ~rows[j].alone

IInv == TypeOK /\ InHand /\ AnalysedIsServed /\ Overtaken /\ FilterMatchesVerdict

\* Rows are never taken away, never change what they say, and keep their
\* findings once they have them.
RowsKept ==
  /\ DOMAIN rows \subseteq DOMAIN rows'
  /\ \A i \in DOMAIN rows : /\ rows'[i].an = rows[i].an
                            /\ rows'[i].alone = rows[i].alone
                            /\ rows[i].written => rows'[i].written

\* Nothing is inserted.
SameRows == RowsKept /\ DOMAIN rows' = DOMAIN rows

-----------------------------------------------------------------------------
LEMMA MaximumExists ==
  ASSUME NEW n \in Nat, NEW S \in SUBSET (1..n), S # {}
  PROVE  \E i \in S : \A j \in S : j <= i
<1> DEFINE T == {n - i : i \in S}
<1>1. T \subseteq Nat /\ T # {}
  <2>1. \A i \in S : i \in 1..n /\ n - i \in Nat
    OBVIOUS
  <2>2. QED BY <2>1
<1>2. PICK t \in T : \A y \in T : ~(<<y, t>> \in OpToRel(<, Nat))
  BY <1>1, NatLessThanWellFounded, WFMin
<1>3. \A y \in T : ~(y < t)
  BY <1>1, <1>2 DEF OpToRel
<1>4. PICK i \in S : t = n - i
  BY <1>2
<1>5. \A j \in S : j <= i
  <2>1. SUFFICES ASSUME NEW j \in S PROVE j <= i
    OBVIOUS
  <2>2. ~(n - j < n - i)
    BY <1>3, <1>4
  <2>3. QED BY <2>2
<1>6. QED BY <1>5

LEMMA AppendKeeps ==
  ASSUME NEW R, NEW s \in Seq(R), NEW r \in R
  PROVE  /\ Append(s, r) \in Seq(R)
         /\ Len(s) \in Nat
         /\ DOMAIN s = 1..Len(s)
         /\ DOMAIN Append(s, r) = 1..(Len(s) + 1)
         /\ \A i \in DOMAIN s : Append(s, r)[i] = s[i]
         /\ Append(s, r)[Len(s) + 1] = r
OBVIOUS

LEMMA ReplaceKeeps ==
  ASSUME NEW R, NEW s \in Seq(R), NEW i \in DOMAIN s, NEW r \in R
  PROVE  /\ [s EXCEPT ![i] = r] \in Seq(R)
         /\ DOMAIN [s EXCEPT ![i] = r] = DOMAIN s
         /\ \A j \in DOMAIN s : [s EXCEPT ![i] = r][j] = IF j = i THEN r ELSE s[j]
<1>1. Len(s) \in Nat /\ DOMAIN s = 1..Len(s)
  BY LenProperties
<1>2. QED BY <1>1, ExceptSeq

\* The row the view shows is the newest of those it chooses from.
NewestShown ==
  \A a \in Served : /\ Latest(a) \in Candidates(a)
                    /\ Latest(a) \in DOMAIN rows
                    /\ Latest(a) \in Nat
                    /\ \A i \in Candidates(a) : i <= Latest(a)

LEMMA LatestIsNewest == TypeOK => NewestShown
<1> SUFFICES ASSUME TypeOK, NEW a \in Served
             PROVE  /\ Latest(a) \in Candidates(a)
                    /\ Latest(a) \in DOMAIN rows
                    /\ Latest(a) \in Nat
                    /\ \A i \in Candidates(a) : i <= Latest(a)
  BY DEF NewestShown
<1>1. Len(rows) \in Nat /\ DOMAIN rows = 1..Len(rows)
  BY LenProperties DEF TypeOK
<1>2. Candidates(a) \in SUBSET (1..Len(rows)) /\ Candidates(a) # {}
  BY <1>1 DEF Candidates, Served
<1>3. \E i \in Candidates(a) : \A j \in Candidates(a) : j <= i
  BY <1>1, <1>2, MaximumExists
<1>4. Latest(a) \in Candidates(a) /\ \A i \in Candidates(a) : i <= Latest(a)
  BY <1>3 DEF Latest
<1>5. QED BY <1>1, <1>2, <1>4

LEMMA CandidatesStay == RowsKept => \A a \in Articles : Candidates(a) \subseteq Candidates(a)'
BY DEF RowsKept, Candidates

LEMMA SameCandidates ==
  SameRows => \A a \in Articles : /\ Candidates(a)' = Candidates(a)
                                  /\ a \in Served' <=> a \in Served
                                  /\ Latest(a)' = Latest(a)
<1> SUFFICES ASSUME SameRows, NEW a \in Articles
             PROVE  /\ Candidates(a)' = Candidates(a)
                    /\ a \in Served' <=> a \in Served
                    /\ Latest(a)' = Latest(a)
  OBVIOUS
<1>1. Candidates(a)' = Candidates(a)
  BY DEF SameRows, RowsKept, Candidates
<1>2. QED BY <1>1 DEF Served, Latest

-----------------------------------------------------------------------------
(***************************************************************************)
(* The three steps that touch the rows.                                    *)
(***************************************************************************)
LEMMA NewRowSays ==
  ASSUME NEW w, NEW an
  PROVE  /\ NewRow(w, an).an = an
         /\ NewRow(w, an).written <=> ~an.flagged
         /\ ~NewRow(w, an).marked
         /\ NewRow(w, an).alone <=> \A v \in Analyzers \ {w} : ~BetweenWrites(v, an.article)
<1> DEFINE whole == ~an.flagged
           al == \A v \in Analyzers \ {w} : ~BetweenWrites(v, an.article)
<1>1. NewRow(w, an) =
        [by |-> w, an |-> an, written |-> whole, marked |-> FALSE, alone |-> al]
  BY DEF NewRow
<1>2. whole \in BOOLEAN /\ al \in BOOLEAN
  OBVIOUS
<1> HIDE DEF whole, al
<1>3. /\ NewRow(w, an).an = an /\ NewRow(w, an).written = whole
      /\ NewRow(w, an).marked = FALSE /\ NewRow(w, an).alone = al
  BY <1>1
<1>4. (NewRow(w, an).written <=> whole) /\ ~NewRow(w, an).marked
      /\ (NewRow(w, an).alone <=> al)
  BY <1>3, Zenon
<1>5. QED BY <1>3, <1>4 DEF whole, al

LEMMA InsertedIsLast ==
  ASSUME TypeOK, NEW w \in Writers, NEW an \in Analysis, InsertAnalysis(w, an)
  PROVE  /\ rows' \in Seq(Row) /\ RowsKept
         /\ \A i \in DOMAIN rows : rows'[i] = rows[i]
         /\ Len(rows) \in Nat /\ DOMAIN rows = 1..Len(rows)
         /\ DOMAIN rows' = 1..(Len(rows) + 1)
         /\ rows'[Len(rows) + 1] = NewRow(w, an)
         /\ Len(rows) + 1 \in 0..MaxRows
<1>1. NewRow(w, an) \in Row
  BY DEF NewRow, Row, Analysis
<1>2. rows' = Append(rows, NewRow(w, an)) /\ Len(rows) < MaxRows
  BY DEF InsertAnalysis
<1> HIDE DEF NewRow, Row
<1>3. rows \in Seq(Row)
  BY DEF TypeOK
<1>4. /\ Append(rows, NewRow(w, an)) \in Seq(Row)
      /\ Len(rows) \in Nat
      /\ DOMAIN rows = 1..Len(rows)
      /\ DOMAIN Append(rows, NewRow(w, an)) = 1..(Len(rows) + 1)
      /\ \A i \in DOMAIN rows : Append(rows, NewRow(w, an))[i] = rows[i]
      /\ Append(rows, NewRow(w, an))[Len(rows) + 1] = NewRow(w, an)
  BY <1>1, <1>3, AppendKeeps
<1>5. QED BY <1>2, <1>4, Bounds DEF RowsKept

\* What a row says, without what is filled in later.
LEMMA EditKeeps ==
  ASSUME TypeOK, NEW i \in DOMAIN rows, NEW r \in Row,
         r.an = rows[i].an, r.alone = rows[i].alone, rows[i].written => r.written,
         rows' = [rows EXCEPT ![i] = r]
  PROVE  rows' \in Seq(Row) /\ SameRows /\ \A j \in DOMAIN rows \ {i} : rows'[j] = rows[j]
<1>1. rows \in Seq(Row)
  BY DEF TypeOK
<1> HIDE DEF Row
<1>2. /\ rows' \in Seq(Row) /\ DOMAIN rows' = DOMAIN rows
      /\ \A j \in DOMAIN rows : rows'[j] = IF j = i THEN r ELSE rows[j]
  BY <1>1, ReplaceKeeps
<1>3. QED BY <1>2 DEF SameRows, RowsKept

LEMMA FindingsEdit ==
  ASSUME TypeOK, InHand, NEW w \in Writers, InsertFindings(w)
  PROVE  /\ rows' \in Seq(Row) /\ SameRows /\ at[w] \in DOMAIN rows
         /\ rows'[at[w]].written
         /\ \A i \in DOMAIN rows : rows'[i].marked = rows[i].marked
<1>1. at[w] \in DOMAIN rows
  BY DEF InHand, InsertFindings
<1> DEFINE i == at[w]
           r == [rows[i] EXCEPT !.written = TRUE]
<1>2. Len(rows) \in Nat /\ DOMAIN rows = 1..Len(rows) /\ rows[i] \in Row
  BY <1>1, LenProperties, ElementOfSeq DEF TypeOK
<1>3. /\ r \in Row /\ r.an = rows[i].an /\ r.alone = rows[i].alone /\ r.written
      /\ r.marked = rows[i].marked
  BY <1>2 DEF Row
<1>4. rows' = [rows EXCEPT ![i] = r]
  BY DEF InsertFindings
<1> HIDE DEF r
<1>5. rows' \in Seq(Row) /\ SameRows /\ \A j \in DOMAIN rows \ {i} : rows'[j] = rows[j]
  BY <1>1, <1>3, <1>4, EditKeeps
<1>6. rows'[i] = r
  BY <1>1, <1>4
<1>7. QED BY <1>1, <1>3, <1>5, <1>6

LEMMA MarkEdit ==
  ASSUME TypeOK, InHand, NEW w \in Analyzers, MarkAnalyzed(w)
  PROVE  /\ rows' \in Seq(Row) /\ SameRows /\ at[w] \in DOMAIN rows
         /\ rows[at[w]] \in Row
         /\ \A j \in DOMAIN rows \ {at[w]} : rows'[j] = rows[j]
<1>1. at[w] \in DOMAIN rows
  BY DEF InHand, MarkAnalyzed, Writers
<1> DEFINE i == at[w]
           r == [rows[i] EXCEPT !.marked = TRUE]
<1>2. Len(rows) \in Nat /\ DOMAIN rows = 1..Len(rows) /\ rows[i] \in Row
  BY <1>1, LenProperties, ElementOfSeq DEF TypeOK
<1>3. r \in Row /\ r.an = rows[i].an /\ r.alone = rows[i].alone /\ r.written = rows[i].written
  BY <1>2 DEF Row
<1>4. rows' = [rows EXCEPT ![i] = r]
  BY DEF MarkAnalyzed, WriteBack
<1> HIDE DEF r
<1>5. rows' \in Seq(Row) /\ SameRows /\ \A j \in DOMAIN rows \ {i} : rows'[j] = rows[j]
  BY <1>1, <1>3, <1>4, EditKeeps
<1>6. QED BY <1>1, <1>2, <1>5

\* Every other step leaves the table alone.
LEMMA NextRows ==
  ASSUME TypeOK, InHand, [Next]_vars
  PROVE  RowsKept /\ rows' \in Seq(Row)
<1>1. ASSUME NEW w \in Writers, NEW an \in Analysis, InsertAnalysis(w, an)
      PROVE  RowsKept /\ rows' \in Seq(Row)
  BY <1>1, InsertedIsLast
<1>2. ASSUME NEW w \in Writers, InsertFindings(w)
      PROVE  RowsKept /\ rows' \in Seq(Row)
  BY <1>2, FindingsEdit DEF SameRows
<1>3. ASSUME NEW w \in Analyzers, MarkAnalyzed(w)
      PROVE  RowsKept /\ rows' \in Seq(Row)
  BY <1>3, MarkEdit DEF SameRows
<1>4. ASSUME rows' = rows
      PROVE  RowsKept /\ rows' \in Seq(Row)
  BY <1>4 DEF RowsKept, TypeOK
<1>5. CASE UNCHANGED vars
  BY <1>4, <1>5 DEF vars, tables
<1>6. CASE Next
  BY <1>1, <1>2, <1>3, <1>4, <1>6 DEF Next, tables, Arrive, Label, LoadPending, PassReplied,
     PassFailed, BumpAttempts, SweepReplied, Crash, Release, Rebuild, Reanalyze, Writers
<1>7. QED BY <1>5, <1>6

-----------------------------------------------------------------------------
WriterTypes ==
  /\ pc \in [Writers -> {"idle", "findings", "mark"}]
  /\ at \in [Writers -> 0..MaxRows]

LEMMA LeaveTypes ==
  ASSUME TypeOK, NEW w \in Writers, Leave(w)
  PROVE  WriterTypes'
BY Bounds DEF TypeOK, Leave, WriterTypes

LEMMA AfterSaveTypes ==
  ASSUME TypeOK, NEW w \in Writers, NEW i \in 0..MaxRows, AfterSave(w, i)
  PROVE  WriterTypes'
<1>1. CASE w \in Analyzers
  BY <1>1 DEF AfterSave, TypeOK, WriterTypes
<1>2. CASE w \notin Analyzers
  BY <1>2, LeaveTypes DEF AfterSave
<1>3. QED BY <1>1, <1>2

LEMMA StopTypes ==
  ASSUME TypeOK, NEW w \in Writers, Stop(w)
  PROVE  /\ WriterTypes'
         /\ todo' \in [Analyzers -> SUBSET Articles]
         /\ charged' \in [Analyzers -> SUBSET Articles]
BY LeaveTypes DEF Stop, TypeOK

LEMMA InitTypeOK == Init => TypeOK
<1> SUFFICES ASSUME Init PROVE TypeOK OBVIOUS
<1> USE DEF Init
<1>1. rows \in Seq(Row)
  OBVIOUS
<1>2. image \in [Analyzers -> 1..MaxVersion] /\ current \in 1..MaxVersion
  BY Bounds
<1>3. at \in [Writers -> 0..MaxRows]
  BY Bounds
<1>4. QED BY <1>1, <1>2, <1>3 DEF TypeOK

LEMMA NextTypeOK ==
  ASSUME TypeOK, InHand, [Next]_vars
  PROVE  TypeOK'
<1>1. rows' \in Seq(Row)
  BY NextRows
<1> USE <1>1
<1> HIDE DEF Row
<1>2. CASE UNCHANGED vars
  BY <1>2 DEF TypeOK, vars, tables, passVars, writerVars
<1>3. ASSUME NEW a \in Articles, Arrive(a) PROVE TypeOK'
  BY <1>3 DEF TypeOK, Arrive, passVars, writerVars
<1>4. ASSUME NEW a \in Articles, Label(a) PROVE TypeOK'
  BY <1>4 DEF TypeOK, Label, passVars, writerVars
<1>5. ASSUME NEW w \in Analyzers, NEW a \in Articles, PassFailed(w, a) PROVE TypeOK'
  <2>1. todo' \in [Analyzers -> SUBSET Articles]
    BY <1>5 DEF TypeOK, PassFailed
  <2>2. charged' \in [Analyzers -> SUBSET Articles]
    <3>1. PICK C \in {charged[w] \cup {a}, {}} : charged' = [charged EXCEPT ![w] = C]
      BY <1>5 DEF PassFailed
    <3>2. C \subseteq Articles
      BY <3>1 DEF TypeOK
    <3>3. QED BY <3>1, <3>2 DEF TypeOK
  <2>3. QED BY <1>5, <2>1, <2>2 DEF TypeOK, PassFailed, tables, writerVars
<1>6. ASSUME NEW w \in Analyzers, LoadPending(w) PROVE TypeOK'
  <2>1. PICK S \in SUBSET {a \in Articles \ gold : status[a] = "pending"} :
          todo' = [todo EXCEPT ![w] = S]
    BY <1>6 DEF LoadPending
  <2>2. todo' \in [Analyzers -> SUBSET Articles]
    BY <2>1 DEF TypeOK
  <2>3. image' \in [Analyzers -> 1..MaxVersion]
    BY <1>6 DEF LoadPending, TypeOK
  <2>4. QED BY <1>6, <2>2, <2>3 DEF TypeOK, LoadPending, tables, writerVars
<1>7. ASSUME NEW w \in Analyzers, BumpAttempts(w) PROVE TypeOK'
  BY <1>7 DEF TypeOK, BumpAttempts, writerVars
<1>8. ASSUME NEW w \in Writers, NEW an \in Analysis, InsertAnalysis(w, an) PROVE TypeOK'
  <2>1. Len(rows) + 1 \in 0..MaxRows
    BY <1>8, InsertedIsLast
  <2>2. WriterTypes'
    <3>1. CASE an.flagged
      BY <1>8, <2>1, <3>1 DEF InsertAnalysis, WriterTypes, TypeOK
    <3>2. CASE ~an.flagged
      BY <1>8, <2>1, <3>2, AfterSaveTypes DEF InsertAnalysis
    <3>3. QED BY <3>1, <3>2
  <2>3. QED BY <1>8, <2>2 DEF InsertAnalysis, TypeOK, WriterTypes, passVars
<1>9. ASSUME NEW w \in Analyzers, PassReplied(w) PROVE TypeOK'
  BY <1>8, <1>9 DEF PassReplied, Writers
<1>10. ASSUME NEW v \in Sweeps, SweepReplied(v) PROVE TypeOK'
  BY <1>8, <1>10 DEF SweepReplied, Writers
<1>11. ASSUME NEW w \in Writers, InsertFindings(w) PROVE TypeOK'
  <2>1. WriterTypes'
    BY <1>11, AfterSaveTypes DEF InsertFindings, TypeOK
  <2>2. QED BY <1>11, <2>1 DEF InsertFindings, TypeOK, WriterTypes, passVars
<1>12. ASSUME NEW w \in Analyzers, MarkAnalyzed(w) PROVE TypeOK'
  <2>1. rows[at[w]].an \in Analysis
    BY <1>12, MarkEdit DEF Row
  <2>2. PICK st \in {"failed", "analyzed"}, cat \in Categories \cup {None} :
          WriteBack(w, rows[at[w]].an, st, cat)
    BY <1>12, <2>1 DEF MarkAnalyzed, TypeOK, Analysis
  <2>3. WriterTypes'
    BY <2>2, LeaveTypes DEF WriteBack, Writers
  <2>4. QED BY <2>1, <2>2, <2>3 DEF WriteBack, TypeOK, WriterTypes, Analysis
<1>13. ASSUME NEW w \in Writers, Crash(w) PROVE TypeOK'
  BY <1>13, StopTypes DEF TypeOK, Crash, tables, WriterTypes
<1>14. CASE Release
  BY <1>14, Bounds DEF TypeOK, Release, tables, passVars, writerVars
<1>15. CASE Rebuild
  <2>1. Stop(Container) /\ Container \in Writers /\ Container \in Analyzers
    BY <1>15, Names DEF Rebuild, Writers
  <2>2. image' \in [Analyzers -> 1..MaxVersion]
    BY <1>15, Names DEF Rebuild, TypeOK
  <2>3. QED BY <1>15, <2>1, <2>2, StopTypes DEF TypeOK, Rebuild, tables, WriterTypes
<1>16. CASE Reanalyze
  BY <1>16 DEF TypeOK, Reanalyze, passVars, writerVars
<1>17. QED
  BY <1>2, <1>3, <1>4, <1>5, <1>6, <1>7, <1>9, <1>10, <1>11, <1>12, <1>13, <1>14,
     <1>15, <1>16 DEF Next

-----------------------------------------------------------------------------
(***************************************************************************)
(* The row in hand.                                                        *)
(***************************************************************************)
LEMMA NextInHand ==
  ASSUME TypeOK, InHand, [Next]_vars
  PROVE  InHand'
<1>1. RowsKept
  BY NextRows
<1> USE DEF InHand
<1>2. ASSUME UNCHANGED writerVars
      PROVE  InHand'
  BY <1>1, <1>2 DEF RowsKept, writerVars
<1>3. ASSUME NEW w \in Writers, Leave(w)
      PROVE  InHand'
  BY <1>1, <1>3 DEF RowsKept, TypeOK, Leave
\* The row is whole: a pass goes on to mark its article, a sweep is done.
<1>4. ASSUME NEW w \in Writers, NEW i \in DOMAIN rows', AfterSave(w, i), rows'[i].written,
             w \in Analyzers => rows'[i].an.kind = "production"
      PROVE  InHand'
  <2>1. CASE w \in Analyzers
    <3>1. /\ pc'[w] = "mark" /\ at'[w] = i
          /\ \A v \in Writers \ {w} : pc'[v] = pc[v] /\ at'[v] = at[v]
      BY <1>4, <2>1 DEF AfterSave, TypeOK
    <3>2. \A v \in Writers \ {w} :
            /\ pc'[v] # "idle" => at'[v] \in DOMAIN rows'
            /\ pc'[v] # "idle" /\ v \in Analyzers => rows'[at'[v]].an.kind = "production"
            /\ pc'[v] = "mark" => v \in Analyzers /\ rows'[at'[v]].written
      BY <1>1, <3>1 DEF RowsKept
    <3>3. QED BY <1>4, <2>1, <3>1, <3>2
  <2>2. CASE w \notin Analyzers
    BY <1>3, <1>4, <2>2 DEF AfterSave
  <2>3. QED BY <2>1, <2>2
<1>5. ASSUME NEW w \in Writers, NEW an \in Analysis, InsertAnalysis(w, an),
             w \in Analyzers => an.kind = "production"
      PROVE  InHand'
  <2> DEFINE i == Len(rows) + 1
  <2>1. i \in DOMAIN rows' /\ rows'[i].an = an /\ (rows'[i].written <=> ~an.flagged)
    BY <1>5, InsertedIsLast, NewRowSays
  <2>2. CASE an.flagged
    <3>1. /\ pc' = [pc EXCEPT ![w] = "findings"]
          /\ at' = [at EXCEPT ![w] = i]
      BY <1>5, <2>2 DEF InsertAnalysis
    <3> HIDE DEF i
    <3>2. QED BY <1>1, <1>5, <2>1, <3>1 DEF RowsKept, TypeOK
  <2>3. CASE ~an.flagged
    <3>1. AfterSave(w, i)
      BY <1>5, <2>3 DEF InsertAnalysis
    <3> HIDE DEF i
    <3>2. QED BY <1>4, <1>5, <2>1, <2>3, <3>1
  <2>4. QED BY <2>2, <2>3
<1>6. ASSUME NEW w \in Writers, InsertFindings(w) PROVE InHand'
  <2>1. /\ pc[w] = "findings" /\ AfterSave(w, at[w])
        /\ at[w] \in DOMAIN rows' /\ rows'[at[w]].written
    BY <1>6, FindingsEdit DEF InsertFindings, SameRows
  <2>2. w \in Analyzers => rows'[at[w]].an.kind = "production"
    BY <1>1, <2>1 DEF RowsKept
  <2>3. QED BY <1>4, <2>1, <2>2
<1>7. ASSUME NEW w \in Analyzers, MarkAnalyzed(w) PROVE InHand'
  BY <1>3, <1>7 DEF MarkAnalyzed, WriteBack, Writers
<1>8. ASSUME NEW w \in Writers, Crash(w) PROVE InHand'
  BY <1>3, <1>8 DEF Crash, Stop
<1>9. CASE Rebuild
  BY <1>3, <1>9, Names DEF Rebuild, Stop, Writers
<1>10. ASSUME NEW w \in Analyzers, PassReplied(w) PROVE InHand'
  BY <1>5, <1>10 DEF PassReplied, Writers
<1>11. ASSUME NEW v \in Sweeps, SweepReplied(v) PROVE InHand'
  BY <1>5, <1>11, Names DEF SweepReplied, Writers
<1>12. CASE UNCHANGED vars
  BY <1>2, <1>12 DEF vars
<1>13. QED
  BY <1>2, <1>6, <1>7, <1>8, <1>9, <1>10, <1>11, <1>12 DEF Next, Arrive, Label,
     LoadPending, PassFailed, BumpAttempts, Release, Reanalyze

-----------------------------------------------------------------------------
(***************************************************************************)
(* An analysed article has an analysis, and one with its findings.         *)
(***************************************************************************)
LEMMA NextAnalysedIsServed ==
  ASSUME TypeOK, InHand, AnalysedIsServed, [Next]_vars
  PROVE  AnalysedIsServed'
<1>1. RowsKept /\ \A a \in Articles : Candidates(a) \subseteq Candidates(a)'
  BY NextRows, CandidatesStay
<1>2. ASSUME \A a \in Articles : status'[a] = "analyzed" => status[a] = "analyzed"
      PROVE  AnalysedIsServed'
  BY <1>1, <1>2 DEF AnalysedIsServed, RowsKept, Candidates
<1>3. ASSUME NEW w \in Analyzers, MarkAnalyzed(w) PROVE AnalysedIsServed'
  <2> DEFINE i == at[w]
             an == rows[i].an
  <2>1. /\ i \in DOMAIN rows /\ rows[i].written /\ an.kind = "production"
        /\ an \in Analysis
    BY <1>3, MarkEdit DEF InHand, MarkAnalyzed, Writers, Row
  <2>2. SUFFICES ASSUME NEW a \in Articles, status'[a] = "analyzed"
                 PROVE  \E j \in Candidates(a)' : rows'[j].written
    BY DEF AnalysedIsServed
  <2>3. CASE a # an.article
    <3>1. status[a] = "analyzed"
      BY <1>3, <2>2, <2>3 DEF MarkAnalyzed, WriteBack, TypeOK
    <3>2. QED BY <1>1, <3>1 DEF AnalysedIsServed, RowsKept, Candidates
  <2>4. CASE a = an.article
    <3>1. an.category # None
      BY <1>3, <2>2, <2>4 DEF MarkAnalyzed, WriteBack, TypeOK
    <3>2. i \in Candidates(a)
      BY <2>1, <2>4, <3>1 DEF Candidates
    <3>3. QED BY <1>1, <2>1, <3>2 DEF RowsKept
  <2>5. QED BY <2>3, <2>4
<1>4. ASSUME NEW a \in Articles, Arrive(a) PROVE AnalysedIsServed'
  BY <1>2, <1>4 DEF Arrive, TypeOK
<1>5. ASSUME NEW w \in Analyzers, BumpAttempts(w) PROVE AnalysedIsServed'
  BY <1>2, <1>5 DEF BumpAttempts, TypeOK
<1>6. CASE Reanalyze
  BY <1>2, <1>6 DEF Reanalyze
<1>7. ASSUME status' = status PROVE AnalysedIsServed'
  BY <1>2, <1>7
<1>8. CASE UNCHANGED vars
  BY <1>7, <1>8 DEF vars, tables
<1>9. QED
  BY <1>3, <1>4, <1>5, <1>6, <1>7, <1>8 DEF Next, Label, LoadPending, PassReplied, PassFailed,
     SweepReplied, InsertAnalysis, InsertFindings, Crash, Release, Rebuild, tables

-----------------------------------------------------------------------------
(***************************************************************************)
(* The category the feed filters by.                                       *)
(***************************************************************************)
LEMMA NextOvertaken ==
  ASSUME TypeOK, InHand, Overtaken, [Next]_vars
  PROVE  Overtaken'
<1>0. Len(rows) \in Nat /\ DOMAIN rows = 1..Len(rows)
  BY LenProperties DEF TypeOK
\* A step that inserts nothing and takes nothing up.
<1>1. ASSUME SameRows,
             \A v \in Analyzers :
               pc'[v] # "idle" => pc[v] # "idle" /\ at'[v] = at[v] /\ at[v] \in DOMAIN rows
      PROVE  Overtaken'
  BY <1>1 DEF Overtaken, SameRows, RowsKept
<1>2. ASSUME rows' = rows PROVE SameRows
  BY <1>2 DEF SameRows, RowsKept
<1>3. ASSUME NEW w \in Writers, Leave(w), SameRows
      PROVE  Overtaken'
  BY <1>1, <1>3 DEF Leave, TypeOK, InHand, Writers
<1>4. ASSUME NEW w \in Writers, NEW an \in Analysis, InsertAnalysis(w, an)
      PROVE  Overtaken'
  <2> DEFINE n == Len(rows) + 1
  <2>1. /\ \A i \in DOMAIN rows : rows'[i] = rows[i]
        /\ n \in Nat /\ DOMAIN rows = 1..(n - 1) /\ DOMAIN rows' = 1..n
        /\ rows'[n].an = an
        /\ rows'[n].alone <=> \A v \in Analyzers \ {w} : ~BetweenWrites(v, an.article)
    <3>1. rows'[n] = NewRow(w, an)
      BY <1>4, InsertedIsLast
    <3>2. QED BY <1>4, <3>1, InsertedIsLast, NewRowSays
  <2>2. /\ \A v \in Writers \ {w} : pc'[v] = pc[v] /\ at'[v] = at[v]
        /\ pc'[w] # "idle" => at'[w] = n
    BY <1>4 DEF InsertAnalysis, AfterSave, Leave, TypeOK
  <2> HIDE DEF n
  <2>3. SUFFICES ASSUME NEW v \in Analyzers, pc'[v] # "idle",
                        NEW j \in DOMAIN rows', j > at'[v],
                        rows'[j].an.article = rows'[at'[v]].an.article
                 PROVE  ~rows'[j].alone
    BY DEF Overtaken
  <2>4. v # w
    BY <2>1, <2>2, <2>3
  <2>5. /\ pc[v] # "idle" /\ at'[v] = at[v] /\ at[v] \in DOMAIN rows
        /\ rows'[at[v]] = rows[at[v]]
    BY <2>1, <2>2, <2>3, <2>4 DEF InHand, Writers
  <2>6. CASE j = n
    BY <2>1, <2>3, <2>4, <2>5, <2>6 DEF BetweenWrites
  <2>7. CASE j # n
    <3>1. j \in DOMAIN rows /\ rows'[j] = rows[j]
      BY <2>1, <2>7
    <3>2. QED BY <2>3, <2>5, <3>1 DEF Overtaken
  <2>8. QED BY <2>6, <2>7
<1>5. ASSUME NEW w \in Writers, InsertFindings(w) PROVE Overtaken'
  <2>1. SameRows /\ pc[w] = "findings" /\ AfterSave(w, at[w])
    BY <1>5, FindingsEdit DEF InsertFindings
  <2>2. CASE w \in Analyzers
    <3>1. pc' = [pc EXCEPT ![w] = "mark"] /\ at' = [at EXCEPT ![w] = at[w]]
      BY <2>1, <2>2 DEF AfterSave
    <3>2. QED BY <1>1, <2>1, <3>1 DEF TypeOK, InHand, Writers
  <2>3. CASE w \notin Analyzers
    BY <1>3, <2>1, <2>3 DEF AfterSave
  <2>4. QED BY <2>2, <2>3
<1>6. ASSUME NEW w \in Analyzers, MarkAnalyzed(w) PROVE Overtaken'
  <2>1. SameRows
    BY <1>6, MarkEdit
  <2>2. Leave(w)
    BY <1>6 DEF MarkAnalyzed, WriteBack
  <2>3. QED BY <1>3, <2>1, <2>2 DEF Writers
<1>7. ASSUME NEW w \in Writers, Crash(w) PROVE Overtaken'
  BY <1>2, <1>3, <1>7 DEF Crash, Stop, tables
<1>8. CASE Rebuild
  BY <1>2, <1>3, <1>8, Names DEF Rebuild, Stop, tables, Writers
<1>9. ASSUME NEW w \in Analyzers, PassReplied(w) PROVE Overtaken'
  BY <1>4, <1>9 DEF PassReplied, Writers
<1>10. ASSUME NEW v \in Sweeps, SweepReplied(v) PROVE Overtaken'
  BY <1>4, <1>10 DEF SweepReplied, Writers
<1>11. ASSUME rows' = rows, UNCHANGED writerVars PROVE Overtaken'
  BY <1>1, <1>2, <1>11 DEF writerVars, InHand, Writers
<1>12. CASE UNCHANGED vars
  BY <1>11, <1>12 DEF vars, tables
<1>13. QED
  BY <1>5, <1>6, <1>7, <1>8, <1>9, <1>10, <1>11, <1>12 DEF Next, Arrive, Label,
     LoadPending, PassFailed, BumpAttempts, Release, Reanalyze, tables

LEMMA NextFilterMatchesVerdict ==
  ASSUME IInv, TypeOK', [Next]_vars
  PROVE  FilterMatchesVerdict'
<1>1. TypeOK /\ InHand
  BY DEF IInv
<1>2. NewestShown /\ NewestShown'
  <2>1. TypeOK' => NewestShown'
    BY LatestIsNewest, PTL
  <2>2. QED BY <1>1, <2>1, LatestIsNewest
<1>3. Len(rows) \in Nat /\ DOMAIN rows = 1..Len(rows)
  BY <1>1, LenProperties DEF TypeOK
\* A step that neither inserts nor marks.
<1>4. ASSUME SameRows, UNCHANGED category,
             \A i \in DOMAIN rows : rows'[i].marked = rows[i].marked
      PROVE  FilterMatchesVerdict'
  <2> SUFFICES ASSUME NEW a \in Served', rows'[Latest(a)'].marked, rows'[Latest(a)'].alone
               PROVE  category'[a] = rows'[Latest(a)'].an.category
    BY DEF FilterMatchesVerdict
  <2>1. a \in Articles
    BY DEF Served
  <2>2. a \in Served /\ Latest(a)' = Latest(a) /\ Latest(a) \in DOMAIN rows
    BY <1>2, <1>4, <2>1, SameCandidates DEF NewestShown
  <2>3. QED BY <1>4, <2>2 DEF IInv, FilterMatchesVerdict, SameRows, RowsKept
<1>5. ASSUME rows' = rows, UNCHANGED category PROVE FilterMatchesVerdict'
  BY <1>4, <1>5 DEF SameRows, RowsKept
<1>6. ASSUME NEW w \in Writers, NEW an \in Analysis, InsertAnalysis(w, an)
      PROVE  FilterMatchesVerdict'
  <2>1. /\ \A i \in DOMAIN rows : rows'[i] = rows[i]
        /\ DOMAIN rows' = 1..(Len(rows) + 1)
        /\ ~rows'[Len(rows) + 1].marked
        /\ RowsKept /\ category' = category
    BY <1>1, <1>6, InsertedIsLast, NewRowSays DEF InsertAnalysis
  <2>2. SUFFICES ASSUME NEW a \in Served', rows'[Latest(a)'].marked, rows'[Latest(a)'].alone
                 PROVE  category'[a] = rows'[Latest(a)'].an.category
    BY DEF FilterMatchesVerdict
  <2>3. a \in Articles
    BY DEF Served
  <2>4. Latest(a)' \in Candidates(a)' /\ \A i \in Candidates(a)' : i <= Latest(a)'
    BY <1>2 DEF NewestShown
  <2>5. Latest(a)' \in Candidates(a)
    <3>1. Latest(a)' \in DOMAIN rows' /\ Latest(a)' # Len(rows) + 1
      BY <2>1, <2>2, <2>4 DEF Candidates
    <3>2. Latest(a)' \in DOMAIN rows
      BY <1>3, <2>1, <3>1
    <3>3. QED BY <2>1, <2>4, <3>2 DEF Candidates
  <2>6. a \in Served /\ Candidates(a) \subseteq Candidates(a)'
    BY <2>1, <2>3, <2>5, CandidatesStay DEF Served
  <2>7. Latest(a) = Latest(a)'
    <3>1. Latest(a) \in Candidates(a) /\ \A i \in Candidates(a) : i <= Latest(a)
      BY <1>2, <2>6 DEF NewestShown
    <3>2. Candidates(a) \subseteq Nat
      BY <1>3 DEF Candidates
    <3>3. Latest(a) <= Latest(a)' /\ Latest(a)' <= Latest(a)
      BY <2>4, <2>5, <2>6, <3>1
    <3>4. QED BY <2>5, <3>1, <3>2, <3>3
  <2>8. rows'[Latest(a)'] = rows[Latest(a)]
    BY <2>1, <2>5, <2>7 DEF Candidates
  <2>9. QED BY <2>1, <2>2, <2>6, <2>8 DEF IInv, FilterMatchesVerdict
<1>7. ASSUME NEW w \in Writers, InsertFindings(w) PROVE FilterMatchesVerdict'
  BY <1>1, <1>4, <1>7, FindingsEdit DEF InsertFindings
<1>8. ASSUME NEW w \in Analyzers, MarkAnalyzed(w) PROVE FilterMatchesVerdict'
  <2> DEFINE k == at[w]
             an == rows[k].an
  <2>1. /\ SameRows /\ k \in DOMAIN rows /\ pc[w] # "idle"
        /\ an \in Analysis /\ an.kind = "production"
        /\ \A j \in DOMAIN rows \ {k} : rows'[j] = rows[j]
    BY <1>1, <1>8, MarkEdit DEF InHand, MarkAnalyzed, Writers, Row
  <2>2. category' = [category EXCEPT ![an.article] =
                       IF an.category = None THEN category[an.article] ELSE an.category]
    BY <1>8 DEF MarkAnalyzed, WriteBack
  <2>3. SUFFICES ASSUME NEW a \in Served', rows'[Latest(a)'].marked, rows'[Latest(a)'].alone
                 PROVE  category'[a] = rows'[Latest(a)'].an.category
    BY DEF FilterMatchesVerdict
  <2>4. a \in Articles
    BY DEF Served
  <2> DEFINE n == Latest(a)
  <2>5. a \in Served /\ Latest(a)' = n
    BY <2>1, <2>4, SameCandidates
  <2>6. n \in Candidates(a) /\ n \in DOMAIN rows /\ \A i \in Candidates(a) : i <= n
    BY <1>2, <2>5 DEF NewestShown
  <2>7. rows'[n].an = rows[n].an /\ rows'[n].alone = rows[n].alone
    BY <2>1, <2>6 DEF SameRows, RowsKept
  <2> HIDE DEF n
  <2>8. CASE a # an.article
    <3>1. n # k
      BY <2>6, <2>8 DEF Candidates
    <3>2. rows'[n] = rows[n] /\ category'[a] = category[a]
      BY <1>1, <2>1, <2>2, <2>4, <2>6, <2>8, <3>1 DEF TypeOK
    <3>3. QED BY <2>3, <2>5, <3>2 DEF IInv, FilterMatchesVerdict, n
  <2>9. CASE a = an.article /\ an.category = None
    <3>1. n # k
      BY <2>6, <2>9 DEF Candidates
    <3>2. rows'[n] = rows[n] /\ category'[a] = category[a]
      BY <1>1, <2>1, <2>2, <2>4, <2>6, <2>9, <3>1 DEF TypeOK
    <3>3. QED BY <2>3, <2>5, <3>2 DEF IInv, FilterMatchesVerdict, n
  <2>10. CASE a = an.article /\ an.category # None
    <3>1. category'[a] = an.category
      BY <1>1, <2>2, <2>4, <2>10 DEF TypeOK
    <3>2. k \in Candidates(a)
      BY <2>1, <2>10 DEF Candidates
    <3>3. k <= n /\ k \in Nat /\ n \in Nat
      BY <1>3, <2>1, <2>6, <3>2
    \* A newer row of the article was not alone, this pass being between its writes.
    <3>4. ~(n > k)
      <4>1. rows[n].an.article = an.article
        BY <2>6, <2>10 DEF Candidates
      <4>2. n > k => ~rows[n].alone
        BY <2>1, <2>6, <4>1 DEF IInv, Overtaken
      <4>3. QED BY <2>3, <2>5, <2>7, <4>2
    <3>5. n = k
      BY <3>3, <3>4
    <3>6. QED BY <2>5, <2>7, <3>1, <3>5
  <2>11. QED BY <2>8, <2>9, <2>10
<1>9. ASSUME NEW w \in Analyzers, PassReplied(w) PROVE FilterMatchesVerdict'
  BY <1>6, <1>9 DEF PassReplied, Writers
<1>10. ASSUME NEW v \in Sweeps, SweepReplied(v) PROVE FilterMatchesVerdict'
  BY <1>6, <1>10 DEF SweepReplied, Writers
<1>11. CASE UNCHANGED vars
  BY <1>5, <1>11 DEF vars, tables
<1>12. QED
  BY <1>5, <1>7, <1>8, <1>9, <1>10, <1>11 DEF Next, Arrive, Label, LoadPending, PassFailed,
     BumpAttempts, Crash, Release, Rebuild, Reanalyze, tables

-----------------------------------------------------------------------------
LEMMA InitIInv == Init => IInv
<1> SUFFICES ASSUME Init PROVE IInv OBVIOUS
<1>1. TypeOK
  BY InitTypeOK
<1>2. InHand /\ Overtaken /\ AnalysedIsServed
  BY DEF Init, InHand, Overtaken, AnalysedIsServed, Writers
<1>3. FilterMatchesVerdict
  BY DEF Init, FilterMatchesVerdict, Served, Candidates
<1>4. QED BY <1>1, <1>2, <1>3 DEF IInv

LEMMA InductiveInvariant == Spec => []IInv
<1>1. ASSUME IInv, [Next]_vars PROVE IInv'
  <2>1. TypeOK' /\ InHand' /\ AnalysedIsServed' /\ Overtaken'
    BY <1>1, NextTypeOK, NextInHand, NextAnalysedIsServed, NextOvertaken DEF IInv
  <2>2. FilterMatchesVerdict'
    BY <1>1, <2>1, NextFilterMatchesVerdict
  <2>3. QED BY <2>1, <2>2 DEF IInv
<1>2. QED BY <1>1, InitIInv, PTL DEF Spec

\* Every variable keeps its type.
THEOREM TypeCorrect == Spec => []TypeOK
<1>1. IInv => TypeOK
  BY DEF IInv
<1>2. QED BY <1>1, InductiveInvariant, PTL

\* evals/audit_data.py:76: the feed never lists an analysed article without an
\* analysis to show, nor one none of whose analyses has its findings, wherever a
\* writer dies, however passes overlap and whatever is swept or requeued.
THEOREM AnalysedIsAlwaysServed == Spec => []AnalysedIsServed
<1>1. IInv => AnalysedIsServed
  BY DEF IInv
<1>2. QED BY <1>1, InductiveInvariant, PTL

\* The analysis an article is served by is only ever replaced by a newer one.
THEOREM OnceServedStaysServed == Spec => OnceServedAlwaysServed
<1>1. ASSUME IInv, IInv', [Next]_vars
      PROVE  \A a \in Articles : Latest(a)' >= Latest(a)
  <2> SUFFICES ASSUME NEW a \in Articles PROVE Latest(a)' >= Latest(a)
    OBVIOUS
  <2>1. TypeOK /\ InHand /\ TypeOK'
    BY <1>1 DEF IInv
  <2>2. Candidates(a) \subseteq Candidates(a)'
    BY <1>1, <2>1, NextRows, CandidatesStay
  <2>3. a \in Served => a \in Served'
    BY <2>2 DEF Served
  <2>4. NewestShown /\ NewestShown'
    <3>1. TypeOK' => NewestShown'
      BY LatestIsNewest, PTL
    <3>2. QED BY <2>1, <3>1, LatestIsNewest
  <2>5. a \in Served => Latest(a) \in Candidates(a)
    BY <2>4 DEF NewestShown
  <2>6. CASE a \in Served
    BY <2>2, <2>3, <2>4, <2>5, <2>6 DEF NewestShown
  <2>7. CASE a \notin Served
    <3>1. Latest(a) = 0
      BY <2>7 DEF Latest
    <3>2. a \notin Served' => Latest(a)' = 0
      BY DEF Latest
    <3>3. QED BY <2>4, <3>1, <3>2 DEF NewestShown
  <2>8. QED BY <2>6, <2>7
<1>2. QED BY <1>1, InductiveInvariant, PTL DEF Spec, OnceServedAlwaysServed

\* feed.py:34: for any number of overlapping passes and sweeps, the category the
\* feed filters an article by is another than the one it shows only where the
\* analysis shown was never written back or came in between the two writes that
\* another pass made about the article.
THEOREM FilterMatchesTheVerdict == Spec => []FilterMatchesVerdict
<1>1. IInv => FilterMatchesVerdict
  BY DEF IInv
<1>2. QED BY <1>1, InductiveInvariant, PTL

=============================================================================
