--------------------------- MODULE Ingest_proofs ---------------------------
(***************************************************************************)
(* What the ingest pass guarantees for every set of sources and passes,    *)
(* every window and any number of publications.                            *)
(*                                                                         *)
(* That the stored ETag covers its listing is not inductive: the step that *)
(* stores the ETag needs the articles to be stored by then (Committed),    *)
(* and a 304 is given to the ETag as it was when the pass began, which     *)
(* covers its listing as well (KnownCovers) because no article goes.       *)
(*                                                                         *)
(* A fetch time covers what is shown up to the articles that came between  *)
(* an answer and the write of its time (Gaps), as long as nothing was      *)
(* published since (Dates, KnownDates): later on it is below the shelf and *)
(* no 304 is given to it.                                                  *)
(***************************************************************************)
EXTENDS Ingest, TLAPS

\* A pass that has its articles in stores the validator next.
Committed ==
  \A p \in Passes, s \in Sources :
    pc[p] = "mark" /\ Current(p, s) => Listing(s, body[p]) \subseteq stored

KnownCovers ==
  \A p \in Passes, s \in Sources :
    known[p][s].etag # None => Listing(s, known[p][s].etag) \subseteq stored

\* Between the answer and the write, what is published is late.
Gaps ==
  \A p \in Passes, s \in Sources : Answered(p, s) =>
    /\ body[p] <= shelf[s]
    /\ \A k \in Nat : body[p] < k /\ k <= shelf[s] => <<s, k>> \in late
    /\ pc[p] = "unchanged" => Listing(s, body[p]) \subseteq stored \cup late

\* The moment m, where it is that of the newest article, hides late ones only.
Dated(m, s) ==
  /\ m # None => m <= shelf[s]
  /\ m = shelf[s] => Listing(s, shelf[s]) \subseteq stored \cup late

Dates == \A s \in Sources : Dated(fetched[s], s)
KnownDates == \A p \in Passes, s \in Sources : Dated(known[p][s].fetched, s)

Covers == ETagCovers /\ Committed /\ KnownCovers
IInv == TypeOK /\ Covers /\ Gaps /\ Dates /\ KnownDates

-----------------------------------------------------------------------------
LEMMA CurrentIsUnique ==
  ASSUME NEW p \in Passes, NEW s \in Sources, NEW r \in Sources, Current(p, s), Current(p, r)
  PROVE  s = r
BY SourcesAssumption DEF Current

LEMMA ListingIsOfTheSource ==
  ASSUME NEW s \in Sources, NEW n \in Moments PROVE Listing(s, n) \subseteq Sources \X Nat
BY PortalsAssumption DEF Listing, Moments

LEMMA InitIInv == Init => IInv
<1> SUFFICES ASSUME Init PROVE IInv
  OBVIOUS
<1> USE DEF Init
<1>1. TypeOK
  <2>1. \A s \in Sources : shelf[s] \in {0, 1} /\ Published[s] \in Nat \ {0}
    BY PortalsAssumption
  <2>2. \A s \in Sources : shelf[s] <= Published[s]
    BY <2>1
  <2>3. shelf \in [Sources -> Moments]
    BY DEF Moments
  <2>4. body \in [Passes -> Moments]
    BY DEF Moments
  <2>5. QED BY <2>2, <2>3, <2>4 DEF TypeOK
<1>2. Covers
  BY DEF Covers, ETagCovers, Committed, KnownCovers
<1>3. Gaps
  BY DEF Gaps, Answered
<1>4. Dates /\ KnownDates
  <2>1. \A s \in Sources : shelf[s] \in Nat /\ fetched[s] = None
    OBVIOUS
  <2>2. \A p \in Passes, s \in Sources : known[p][s].fetched = None
    OBVIOUS
  <2>3. \A s \in Sources : Dated(None, s)
    BY <2>1, NoneIsNoMoment DEF Dated
  <2>4. QED BY <2>1, <2>2, <2>3 DEF Dates, KnownDates
<1>5. QED BY <1>1, <1>2, <1>3, <1>4 DEF IInv

LEMMA NextTypeOK == TypeOK /\ [Next]_vars => TypeOK'
<1> SUFFICES ASSUME TypeOK, [Next]_vars PROVE TypeOK'
  OBVIOUS
<1> USE DEF TypeOK, portalVars, tables, passVars
<1>1. ASSUME NEW p \in Passes, LoadSources(p) PROVE TypeOK'
  BY <1>1 DEF LoadSources
<1>2. ASSUME NEW p \in Passes, NEW s \in Sources, RobotsVerdict(p, s) PROVE TypeOK'
  <2>1. /\ failing' \in {failing, failing \cup {s}}
        /\ todo' \in {todo, [todo EXCEPT ![p] = @ \ {s}]}
    BY <1>2 DEF RobotsVerdict, Finish
  <2>2. \E c \in {"idle", "robots", "fetch"} : pc' = [pc EXCEPT ![p] = c]
    BY <1>2 DEF RobotsVerdict, Finish
  <2>3. UNCHANGED <<shelf, healthy, banned, active, etag, fetched, stored, known, body, late>>
    BY <1>2 DEF RobotsVerdict
  <2>4. pc' \in [Passes -> {"idle", "robots", "fetch", "error", "unchanged", "save", "mark"}]
    BY <2>2
  <2>5. todo' \in [Passes -> SUBSET Sources] /\ failing' \subseteq Sources
    BY <2>1
  <2>6. QED BY <2>3, <2>4, <2>5
<1>3. ASSUME NEW p \in Passes, NEW s \in Sources, FetchSource(p, s) PROVE TypeOK'
  BY <1>3 DEF FetchSource
<1>4. ASSUME NEW p \in Passes, NEW s \in Sources, RecordFailure(p, s) PROVE TypeOK'
  BY <1>4 DEF RecordFailure, Finish
<1>5. ASSUME NEW p \in Passes, NEW s \in Sources, MarkUnchanged(p, s) PROVE TypeOK'
  BY <1>5 DEF MarkUnchanged, Finish
<1>6. ASSUME NEW p \in Passes, NEW s \in Sources, SaveArticles(p, s) PROVE TypeOK'
  BY <1>6, ListingIsOfTheSource DEF SaveArticles
<1>7. ASSUME NEW p \in Passes, NEW s \in Sources, MarkFetched(p, s) PROVE TypeOK'
  BY <1>7 DEF MarkFetched, Finish
<1>8. ASSUME NEW p \in Passes, Crash(p) PROVE TypeOK'
  BY <1>8 DEF Crash
<1>9. ASSUME NEW s \in Sources, Publish(s) PROVE TypeOK'
  <2>1. shelf' \in [Sources -> Moments] /\ \A r \in Sources : shelf'[r] <= Published[r]
    <3>1. \A r \in Sources : shelf[r] \in Nat /\ Published[r] \in Nat
      BY PortalsAssumption DEF Moments
    <3>2. QED BY <1>9, <3>1 DEF Publish, Moments
  <2>2. late' \subseteq Sources \X Nat
    <3>1. shelf'[s] \in Nat
      BY <2>1 DEF Moments
    <3>2. QED BY <1>9, <3>1 DEF Publish
  <2>3. QED BY <1>9, <2>1, <2>2 DEF Publish
<1>10. ASSUME NEW s \in Sources, Outage(s) \/ ChangeRobots(s) \/ Switch(s) PROVE TypeOK'
  BY <1>10 DEF Outage, ChangeRobots, Switch, Toggle
<1>11. CASE UNCHANGED vars
  BY <1>11 DEF vars
<1>12. QED
  BY <1>1, <1>2, <1>3, <1>4, <1>5, <1>6, <1>7, <1>8, <1>9, <1>10, <1>11 DEF Next, Step

\* The pass that is not at "mark" after its step has nothing to commit.
LEMMA CommittedKept ==
  ASSUME TypeOK, Committed, NEW p \in Passes, NEW c, c # "mark",
         pc' = [pc EXCEPT ![p] = c], stored \subseteq stored',
         \A q \in Passes \ {p} : todo'[q] = todo[q] /\ body'[q] = body[q]
  PROVE  Committed'
BY DEF TypeOK, Committed, Current

LEMMA NextCovers == TypeOK /\ Covers /\ [Next]_vars => Covers'
<1> SUFFICES ASSUME TypeOK, Covers, [Next]_vars PROVE Covers'
  OBVIOUS
<1> DEFINE Covered == ETagCovers /\ Committed /\ KnownCovers
<1>0. TypeOK /\ TypeOK'
  BY NextTypeOK
<1> SUFFICES Covered'
  BY DEF Covers
<1> USE DEF portalVars, tables, passVars
<1>1. ASSUME NEW p \in Passes, LoadSources(p) PROVE Covered'
  <2>1. Committed'
    BY <1>0, <1>1, CommittedKept DEF Covers, LoadSources, TypeOK
  <2>2. \A s \in Sources : known'[p][s].etag = etag[s]
    BY <1>0, <1>1 DEF LoadSources, TypeOK
  <2>3. \A q \in Passes \ {p} : known'[q] = known[q]
    BY <1>0, <1>1 DEF LoadSources, TypeOK
  <2>4. KnownCovers'
    BY <1>1, <2>2, <2>3 DEF Covers, KnownCovers, ETagCovers, LoadSources, Listing
  <2>5. QED BY <1>1, <2>1, <2>4 DEF Covers, ETagCovers, LoadSources, Listing
<1>2. ASSUME NEW p \in Passes, NEW s \in Sources, RobotsVerdict(p, s) PROVE Covered'
  <2>1. \A q \in Passes \ {p} : todo'[q] = todo[q]
    BY <1>0, <1>2 DEF RobotsVerdict, Finish, TypeOK
  <2>2. \E c : c # "mark" /\ pc' = [pc EXCEPT ![p] = c]
    BY <1>2 DEF RobotsVerdict, Finish
  <2>3. stored' = stored /\ body' = body /\ known' = known /\ etag' = etag
    BY <1>2 DEF RobotsVerdict
  <2>4. Committed'
    BY <1>0, <2>1, <2>2, <2>3, CommittedKept DEF Covers
  <2>5. QED BY <2>3, <2>4 DEF Covers, ETagCovers, KnownCovers, Listing
<1>3. ASSUME NEW p \in Passes, NEW s \in Sources, FetchSource(p, s) PROVE Covered'
  <2>1. \A q \in Passes \ {p} : body'[q] = body[q] /\ todo'[q] = todo[q]
    BY <1>0, <1>3 DEF FetchSource, TypeOK
  <2>2. \E c : c # "mark" /\ pc' = [pc EXCEPT ![p] = c]
    BY <1>3 DEF FetchSource
  <2>3. stored' = stored /\ known' = known /\ etag' = etag
    BY <1>3 DEF FetchSource
  <2>4. Committed'
    BY <1>0, <2>1, <2>2, <2>3, CommittedKept DEF Covers
  <2>5. QED BY <2>3, <2>4 DEF Covers, ETagCovers, KnownCovers, Listing
<1>4. ASSUME NEW p \in Passes, NEW s \in Sources, RecordFailure(p, s) \/ MarkUnchanged(p, s)
      PROVE  Covered'
  <2>1. \A q \in Passes \ {p} : todo'[q] = todo[q]
    BY <1>0, <1>4 DEF RecordFailure, MarkUnchanged, Finish, TypeOK
  <2>2. \E c : c # "mark" /\ pc' = [pc EXCEPT ![p] = c]
    BY <1>4 DEF RecordFailure, MarkUnchanged, Finish
  <2>3. stored' = stored /\ body' = body /\ known' = known /\ etag' = etag
    BY <1>4 DEF RecordFailure, MarkUnchanged
  <2>4. Committed'
    BY <1>0, <2>1, <2>2, <2>3, CommittedKept DEF Covers
  <2>5. QED BY <2>3, <2>4 DEF Covers, ETagCovers, KnownCovers, Listing
<1>5. ASSUME NEW p \in Passes, NEW s \in Sources, SaveArticles(p, s) PROVE Covered'
  <2>1. /\ stored' = stored \cup Listing(s, body[p]) /\ pc' = [pc EXCEPT ![p] = "mark"]
        /\ todo' = todo /\ body' = body /\ known' = known /\ etag' = etag
    BY <1>5 DEF SaveArticles
  <2>2. ASSUME NEW q \in Passes, NEW r \in Sources, pc'[q] = "mark", Current(q, r)
        PROVE  Listing(r, body[q]) \subseteq stored'
    <3>1. CASE q = p
      BY <1>5, <2>1, <2>2, <3>1, CurrentIsUnique DEF SaveArticles
    <3>2. CASE q # p
      BY <1>0, <2>1, <2>2, <3>2 DEF Covers, Committed, TypeOK
    <3>3. QED BY <3>1, <3>2
  <2>3. Committed'
    BY <2>1, <2>2 DEF Committed, Current, Listing
  <2>4. QED BY <2>1, <2>3 DEF Covers, ETagCovers, KnownCovers, Listing
<1>6. ASSUME NEW p \in Passes, NEW s \in Sources, MarkFetched(p, s) PROVE Covered'
  <2>1. \A q \in Passes \ {p} : todo'[q] = todo[q]
    BY <1>0, <1>6 DEF MarkFetched, Finish, TypeOK
  <2>2. \E c \in {"idle", "robots"} : pc' = [pc EXCEPT ![p] = c]
    BY <1>6 DEF MarkFetched, Finish
  <2>3. stored' = stored /\ body' = body /\ known' = known
    BY <1>6 DEF MarkFetched
  <2>4. Committed'
    BY <1>0, <2>1, <2>2, <2>3, CommittedKept DEF Covers
  <2>5. Listing(s, body[p]) \subseteq stored
    BY <1>6 DEF Covers, Committed, MarkFetched
  <2>6. etag'[s] \in {body[p], None} /\ \A r \in Sources \ {s} : etag'[r] = etag[r]
    BY <1>0, <1>6 DEF MarkFetched, TypeOK
  <2>7. ASSUME NEW r \in Sources, etag'[r] # None PROVE Listing(r, etag'[r]) \subseteq stored
    <3>1. CASE r = s
      BY <2>5, <2>6, <2>7, <3>1
    <3>2. CASE r # s
      BY <2>6, <2>7, <3>2 DEF Covers, ETagCovers
    <3>3. QED BY <3>1, <3>2
  <2>8. ETagCovers'
    BY <2>3, <2>7 DEF ETagCovers, Listing
  <2>9. QED BY <2>3, <2>4, <2>8 DEF Covers, KnownCovers, Listing
<1>7. ASSUME NEW p \in Passes, Crash(p) PROVE Covered'
  <2>1. Committed'
    BY <1>0, <1>7, CommittedKept DEF Covers, Crash, TypeOK
  <2>2. QED BY <1>7, <2>1 DEF Covers, ETagCovers, KnownCovers, Crash, Listing
\* The rest leaves the passes and what they rely on alone.
<1>8. ASSUME UNCHANGED <<etag, stored, passVars>> PROVE Covered'
  BY <1>8 DEF Covers, ETagCovers, Committed, KnownCovers, Current, Listing
<1>9. ASSUME NEW s \in Sources, Publish(s) \/ Outage(s) \/ ChangeRobots(s) \/ Switch(s)
      PROVE  Covered'
  BY <1>8, <1>9 DEF Publish, Outage, ChangeRobots, Switch
<1>10. CASE UNCHANGED vars
  BY <1>8, <1>10 DEF vars
<1>11. QED
  BY <1>1, <1>2, <1>3, <1>4, <1>5, <1>6, <1>7, <1>9, <1>10 DEF Next, Step

\* A pass that is not past an answer after its step leaves no gap.
LEMMA GapsKept ==
  ASSUME TypeOK, Gaps, NEW p \in Passes, NEW c, c \notin {"unchanged", "save", "mark"},
         pc' = [pc EXCEPT ![p] = c], stored \subseteq stored', UNCHANGED <<shelf, late>>,
         \A q \in Passes \ {p} : todo'[q] = todo[q] /\ body'[q] = body[q]
  PROVE  Gaps'
<1> SUFFICES ASSUME NEW q \in Passes, NEW s \in Sources, Answered(q, s)'
             PROVE  /\ (body[q] <= shelf[s])'
                    /\ \A k \in Nat : (body[q] < k /\ k <= shelf[s] => <<s, k>> \in late)'
                    /\ (pc[q] = "unchanged" => Listing(s, body[q]) \subseteq stored \cup late)'
  BY DEF Gaps
<1>1. q # p /\ Answered(q, s) /\ pc'[q] = pc[q] /\ body'[q] = body[q]
  BY DEF Answered, Current, TypeOK
<1>2. Listing(s, body[q])' = Listing(s, body[q])
  BY <1>1 DEF Listing
<1>3. QED BY <1>1, <1>2 DEF Gaps

LEMMA NextGaps == TypeOK /\ Covers /\ Gaps /\ KnownDates /\ [Next]_vars => Gaps'
<1> SUFFICES ASSUME TypeOK, Covers, Gaps, KnownDates, [Next]_vars PROVE Gaps'
  OBVIOUS
<1> USE DEF portalVars, tables, passVars
<1>1. ASSUME NEW p \in Passes, LoadSources(p) PROVE Gaps'
  BY <1>1, GapsKept DEF LoadSources, TypeOK
<1>2. ASSUME NEW p \in Passes, NEW s \in Sources,
             RobotsVerdict(p, s) \/ RecordFailure(p, s) \/ MarkUnchanged(p, s) \/ MarkFetched(p, s)
      PROVE  Gaps'
  <2>1. \A q \in Passes \ {p} : todo'[q] = todo[q]
    BY <1>2 DEF RobotsVerdict, RecordFailure, MarkUnchanged, MarkFetched, Finish, TypeOK
  <2>2. \E c : c \notin {"unchanged", "save", "mark"} /\ pc' = [pc EXCEPT ![p] = c]
    BY <1>2 DEF RobotsVerdict, RecordFailure, MarkUnchanged, MarkFetched, Finish
  <2>3. UNCHANGED <<shelf, stored, body, late>>
    BY <1>2 DEF RobotsVerdict, RecordFailure, MarkUnchanged, MarkFetched
  <2>4. QED BY <2>1, <2>2, <2>3, GapsKept
<1>3. ASSUME NEW p \in Passes, Crash(p) PROVE Gaps'
  BY <1>3, GapsKept DEF Crash, TypeOK
<1>4. ASSUME NEW p \in Passes, NEW r \in Sources, FetchSource(p, r) PROVE Gaps'
  <2> SUFFICES ASSUME NEW q \in Passes, NEW s \in Sources, Answered(q, s)'
               PROVE  /\ body'[q] <= shelf[s]
                      /\ \A k \in Nat : body'[q] < k /\ k <= shelf[s] => <<s, k>> \in late
                      /\ pc'[q] = "unchanged" => Listing(s, body'[q]) \subseteq stored \cup late
    BY <1>4 DEF Gaps, FetchSource, Listing
  <2>1. CASE q # p
    <3>1. Answered(q, s) /\ pc'[q] = pc[q] /\ body'[q] = body[q]
      BY <1>4, <2>1 DEF FetchSource, Answered, Current, TypeOK
    <3>2. QED BY <3>1 DEF Gaps
  <2>2. CASE q = p
    <3>1. s = r /\ body'[q] = shelf[s] /\ shelf[s] \in Nat
      BY <1>4, <2>2, CurrentIsUnique DEF FetchSource, Answered, Current, TypeOK, Moments
    <3>2. ASSUME pc'[q] = "unchanged" PROVE Listing(s, shelf[s]) \subseteq stored \cup late
      <4>1. NotModified(s, known[p][s])
        BY <1>4, <2>2, <3>1, <3>2 DEF FetchSource, TypeOK
      <4>2. CASE known[p][s].etag = shelf[s]
        <5>1. known[p][s].etag # None
          BY <3>1, <4>2, NoneIsNoMoment
        <5>2. QED BY <4>2, <5>1 DEF Covers, KnownCovers
      <4>3. CASE known[p][s].fetched = shelf[s]
        BY <4>3 DEF KnownDates, Dated
      <4>4. QED BY <4>1, <4>2, <4>3 DEF NotModified
    <3>3. QED BY <3>1, <3>2
  <2>3. QED BY <2>1, <2>2
<1>5. ASSUME NEW p \in Passes, NEW r \in Sources, SaveArticles(p, r) PROVE Gaps'
  <2>1. \A q \in Passes, s \in Sources :
          Answered(q, s)' => Answered(q, s) /\ (pc'[q] = "unchanged" => pc[q] = "unchanged")
    BY <1>5, CurrentIsUnique DEF SaveArticles, Answered, Current, TypeOK
  <2>2. stored \subseteq stored' /\ UNCHANGED <<shelf, late, body>>
    BY <1>5 DEF SaveArticles
  <2>3. QED BY <2>1, <2>2 DEF Gaps, Listing
<1>6. ASSUME NEW r \in Sources, Publish(r) PROVE Gaps'
  <2>1. UNCHANGED <<pc, todo, body, stored>>
    BY <1>6 DEF Publish
  <2> SUFFICES ASSUME NEW q \in Passes, NEW s \in Sources, Answered(q, s)
               PROVE  /\ body[q] <= shelf'[s]
                      /\ \A k \in Nat : body[q] < k /\ k <= shelf'[s] => <<s, k>> \in late'
                      /\ pc[q] = "unchanged" => Listing(s, body[q]) \subseteq stored \cup late'
    BY <2>1 DEF Gaps, Listing, Answered, Current
  <2>2. /\ body[q] <= shelf[s] /\ body[q] \in Nat /\ shelf[s] \in Nat
        /\ \A k \in Nat : body[q] < k /\ k <= shelf[s] => <<s, k>> \in late
        /\ pc[q] = "unchanged" => Listing(s, body[q]) \subseteq stored \cup late
    BY DEF Gaps, TypeOK, Moments
  <2>3. CASE s = r
    <3>1. late' = late \cup {<<s, shelf'[s]>>} /\ shelf'[s] = shelf[s] + 1
      BY <1>6, <2>3 DEF Publish, TypeOK
    <3>2. QED BY <2>2, <3>1
  <2>4. CASE s # r
    <3>1. shelf'[s] = shelf[s]
      BY <1>6, <2>4 DEF Publish, TypeOK
    <3>2. \A k \in Nat : <<s, k>> \in late => <<s, k>> \in late'
      BY <1>6, <2>4 DEF Publish
    <3>3. \A x \in Listing(s, body[q]) : \E k \in Nat : x = <<s, k>>
      BY DEF Listing
    <3>4. QED BY <2>2, <3>1, <3>2, <3>3
  <2>5. QED BY <2>3, <2>4
<1>7. CASE UNCHANGED <<shelf, late, stored, passVars>>
  BY <1>7 DEF Gaps, Answered, Current, Listing
<1>8. ASSUME NEW s \in Sources, Outage(s) \/ ChangeRobots(s) \/ Switch(s) PROVE Gaps'
  BY <1>7, <1>8 DEF Outage, ChangeRobots, Switch
<1>9. CASE UNCHANGED vars
  BY <1>7, <1>9 DEF vars
<1>10. QED
  BY <1>1, <1>2, <1>3, <1>4, <1>5, <1>6, <1>8, <1>9 DEF Next, Step

\* No moment on record is that of the newest article once another came.
LEMMA PublishDates ==
  ASSUME TypeOK, NEW r \in Sources, Publish(r), NEW s \in Sources,
         NEW m \in Moments \cup {None}, Dated(m, s)
  PROVE  Dated(m, s)'
<1>0. shelf[s] \in Nat /\ shelf'[s] \in Nat
  BY NextTypeOK DEF TypeOK, Moments, Next
<1>1. CASE s = r
  <2>1. shelf'[s] = shelf[s] + 1
    BY <1>1 DEF Publish, TypeOK
  <2>2. m # None => m <= shelf[s] /\ m \in Nat
    BY DEF Dated, Moments
  <2>3. m # shelf'[s] /\ (m # None => m <= shelf'[s])
    BY <1>0, <2>1, <2>2, NoneIsNoMoment
  <2>4. QED BY <2>3 DEF Dated
<1>2. CASE s # r
  <2>1. shelf'[s] = shelf[s] /\ stored' = stored
    BY <1>2 DEF Publish, TypeOK, tables
  <2>2. \A k \in Nat : <<s, k>> \in late => <<s, k>> \in late'
    BY <1>2 DEF Publish
  <2>3. \A x \in Listing(s, shelf[s]) : \E k \in Nat : x = <<s, k>>
    BY DEF Listing
  <2>4. Listing(s, shelf[s])' = Listing(s, shelf[s])
    BY <2>1 DEF Listing
  <2>5. QED BY <2>1, <2>2, <2>3, <2>4 DEF Dated
<1>3. QED BY <1>1, <1>2

LEMMA NextDates ==
  TypeOK /\ Covers /\ Gaps /\ Dates /\ KnownDates /\ [Next]_vars => Dates' /\ KnownDates'
<1> SUFFICES ASSUME TypeOK, Covers, Gaps, Dates, KnownDates, [Next]_vars
             PROVE  Dates' /\ KnownDates'
  OBVIOUS
<1> USE DEF portalVars, tables, passVars
<1>1. ASSUME NEW p \in Passes, LoadSources(p) PROVE Dates' /\ KnownDates'
  <2>1. UNCHANGED <<shelf, fetched, stored, late>>
    BY <1>1 DEF LoadSources
  <2>2. \A s \in Sources : known'[p][s].fetched = fetched[s]
    BY <1>1 DEF LoadSources, TypeOK
  <2>3. \A q \in Passes \ {p} : known'[q] = known[q]
    BY <1>1 DEF LoadSources, TypeOK
  <2>4. Dates'
    BY <2>1 DEF Dates, Dated, Listing
  <2>5. KnownDates'
    BY <2>1, <2>2, <2>3 DEF Dates, KnownDates, Dated, Listing
  <2>6. QED BY <2>4, <2>5
\* The write of the time: what is shown was stored, or vouched for, or is late.
<1>2. ASSUME NEW p \in Passes, NEW r \in Sources, MarkUnchanged(p, r) \/ MarkFetched(p, r)
      PROVE  Dates' /\ KnownDates'
  <2>1. UNCHANGED <<shelf, stored, known, late>>
    BY <1>2 DEF MarkUnchanged, MarkFetched
  <2>2. fetched' = [fetched EXCEPT ![r] = shelf[r]]
    BY <1>2 DEF MarkUnchanged, MarkFetched
  <2>3. Answered(p, r) /\ pc[p] \in {"unchanged", "mark"}
    BY <1>2 DEF MarkUnchanged, MarkFetched, Answered
  <2>4. Listing(r, body[p]) \subseteq stored \cup late
    <3>1. CASE pc[p] = "unchanged"
      BY <2>3, <3>1 DEF Gaps
    <3>2. CASE pc[p] = "mark"
      BY <2>3, <3>2 DEF Covers, Committed, Answered
    <3>3. QED BY <2>3, <3>1, <3>2
  <2>5. body[p] \in Nat /\ shelf[r] \in Nat /\ body[p] <= shelf[r] /\ Window \in Nat
    BY <2>3, PortalsAssumption DEF Gaps, TypeOK, Moments
  <2>6. Listing(r, shelf[r]) \subseteq stored \cup late
    <3> SUFFICES ASSUME NEW k \in 1..shelf[r], k + Window > shelf[r]
                 PROVE  <<r, k>> \in stored \cup late
      BY DEF Listing
    <3>1. CASE k <= body[p]
      <4>1. <<r, k>> \in Listing(r, body[p])
        BY <2>5, <3>1 DEF Listing
      <4>2. QED BY <2>4, <4>1
    <3>2. CASE k > body[p]
      BY <2>3, <2>5, <3>2 DEF Gaps
    <3>3. QED BY <2>5, <3>1, <3>2
  <2>7. ASSUME NEW s \in Sources PROVE Dated(fetched[s], s)'
    <3>1. CASE s = r
      <4>1. fetched'[s] = shelf[s]
        BY <2>2, <3>1 DEF TypeOK
      <4>2. QED BY <2>1, <2>5, <2>6, <3>1, <4>1 DEF Dated, Listing
    <3>2. CASE s # r
      <4>1. fetched'[s] = fetched[s]
        BY <2>2, <3>2 DEF TypeOK
      <4>2. QED BY <2>1, <4>1 DEF Dates, Dated, Listing
    <3>3. QED BY <3>1, <3>2
  <2>8. KnownDates'
    BY <2>1 DEF KnownDates, Dated, Listing
  <2>9. QED BY <2>7, <2>8 DEF Dates
<1>3. ASSUME NEW r \in Sources, Publish(r) PROVE Dates' /\ KnownDates'
  <2>1. UNCHANGED <<fetched, known>>
    BY <1>3 DEF Publish
  <2>2. ASSUME NEW s \in Sources PROVE Dated(fetched[s], s)'
    <3>1. Dated(fetched[s], s) /\ fetched[s] \in Moments \cup {None}
      BY DEF Dates, TypeOK
    <3>2. \A m \in Moments \cup {None} : Dated(m, s) => Dated(m, s)'
      BY <1>3, PublishDates
    <3>3. QED BY <2>1, <3>1, <3>2 DEF Dated
  <2>3. ASSUME NEW q \in Passes, NEW s \in Sources PROVE Dated(known[q][s].fetched, s)'
    <3>1. Dated(known[q][s].fetched, s) /\ known[q][s].fetched \in Moments \cup {None}
      BY DEF KnownDates, TypeOK
    <3>2. \A m \in Moments \cup {None} : Dated(m, s) => Dated(m, s)'
      BY <1>3, PublishDates
    <3>3. QED BY <2>1, <3>1, <3>2 DEF Dated
  <2>4. QED BY <2>2, <2>3 DEF Dates, KnownDates
\* The rest leaves the times alone and takes no article away.
<1>4. ASSUME UNCHANGED <<shelf, fetched, known, late>>, stored \subseteq stored'
      PROVE  Dates' /\ KnownDates'
  BY <1>4 DEF Dates, KnownDates, Dated, Listing
<1>5. ASSUME NEW p \in Passes, NEW s \in Sources,
             \/ RobotsVerdict(p, s) \/ FetchSource(p, s) \/ RecordFailure(p, s)
             \/ SaveArticles(p, s) \/ Crash(p)
             \/ Outage(s) \/ ChangeRobots(s) \/ Switch(s)
      PROVE  Dates' /\ KnownDates'
  <2>1. UNCHANGED <<shelf, fetched, known, late>> /\ stored \subseteq stored'
    BY <1>5 DEF RobotsVerdict, FetchSource, RecordFailure, SaveArticles, Crash, Outage,
       ChangeRobots, Switch
  <2>2. QED BY <1>4, <2>1
<1>6. ASSUME NEW p \in Passes, Crash(p) PROVE Dates' /\ KnownDates'
  BY <1>4, <1>6 DEF Crash
<1>7. ASSUME NEW s \in Sources, Outage(s) \/ ChangeRobots(s) \/ Switch(s)
      PROVE  Dates' /\ KnownDates'
  BY <1>4, <1>7 DEF Outage, ChangeRobots, Switch
<1>8. CASE UNCHANGED vars
  BY <1>4, <1>8 DEF vars
<1>9. QED
  BY <1>1, <1>2, <1>3, <1>5, <1>6, <1>7, <1>8 DEF Next, Step

LEMMA NextIInv == IInv /\ [Next]_vars => IInv'
BY NextTypeOK, NextCovers, NextGaps, NextDates DEF IInv

THEOREM InductiveInvariant == Spec => []IInv
BY InitIInv, NextIInv, PTL DEF Spec

-----------------------------------------------------------------------------
\* Every variable keeps its type (the state of the passes of _run_pass).
THEOREM TypeCorrect == Spec => []TypeOK
BY InductiveInvariant, PTL DEF IInv

\* save_articles commits before mark_fetched does: the ETag in sources vouches
\* for its whole listing, whichever pass dies or overtakes another.
THEOREM ETagAlwaysCovers == Spec => []ETagCovers
BY InductiveInvariant, PTL DEF IInv, Covers

\* The 304 that fetch_source takes for "nothing new" hides no article where it
\* answers an ETag, however stale the one that a pass loaded at its start.
\* Where it answers a fetch time it hides what was published between an answer
\* and mark_fetched or mark_unchanged, and nothing else.
THEOREM OnlyLateIsEverHidden == Spec => OnlyLateIsHidden
<1>1. ASSUME IInv, [Next]_vars
      PROVE  \A p \in Passes, s \in Sources :
               FetchSource(p, s) /\ pc'[p] = "unchanged"
                 => Listing(s, shelf[s]) \subseteq Vouched(s)
  <2> SUFFICES ASSUME NEW p \in Passes, NEW s \in Sources,
                      FetchSource(p, s), pc'[p] = "unchanged"
               PROVE  Listing(s, shelf[s]) \subseteq Vouched(s)
    OBVIOUS
  <2>1. NotModified(s, known[p][s])
    BY <1>1 DEF FetchSource, IInv, TypeOK
  <2>2. CASE Validator[s] = "etag" /\ known[p][s].etag = shelf[s]
    <3>1. known[p][s].etag # None
      BY <1>1, <2>2, NoneIsNoMoment DEF IInv, TypeOK, Moments
    <3>2. QED BY <1>1, <2>2, <3>1 DEF IInv, Covers, KnownCovers, Vouched
  <2>3. CASE Validator[s] = "lastmod" /\ known[p][s].fetched = shelf[s]
    BY <1>1, <2>3 DEF IInv, KnownDates, Dated, Vouched
  <2>4. QED BY <2>1, <2>2, <2>3 DEF NotModified
<1>2. QED BY <1>1, InductiveInvariant, PTL DEF Spec, OnlyLateIsHidden

=============================================================================
