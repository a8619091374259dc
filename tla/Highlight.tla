----------------------------- MODULE Highlight -----------------------------
(***************************************************************************)
(* From a model's reply to the underlined words of the article page:       *)
(* analyzer/providers, analyzer/analyze.py, analyzer/validator.py, the     *)
(* query of the page in api/routers/feed.py, and in web/ article/page.tsx, *)
(* annotated-text.tsx and finding-list.tsx.  A quote is looked for in the  *)
(* title, then in the lead, with the typography of both folded; offsets    *)
(* into the folded text are mapped back to the text as published; the page *)
(* numbers the findings of the title first and underlines by offset.       *)
(*                                                                         *)
(* A text is a sequence of characters; of the eleven typographic ones two  *)
(* stand for the rest, a dash that folds to one character and the ellipsis *)
(* that folds to three.  Of a finding the quote and whether its confidence *)
(* reaches 0.7 are kept.  One article goes through one call at a time; how *)
(* calls are queued is AnalysisQueue's, what is served is ServedCorpus's.  *)
(***************************************************************************)
EXTENDS Segments, SequencesExt

CONSTANTS
  Titles, Leads,  \* texts; a lead may be empty or None
  Replies,        \* what a model may send: findings and a verdict
  MAX_FINDINGS, MAX_QUOTE,  \* the limits of the schema
  None

ASSUME LimitsAssumption == MAX_FINDINGS \in Nat /\ MAX_QUOTE \in Nat

IsSeq(s) == s \in Seq(Range(s))

ASSUME TextsAssumption ==
  /\ \A text \in Titles \cup (Leads \ {None}) : IsSeq(text)
  /\ \A r \in Replies \ {None} :
       /\ IsSeq(r.findings)
       /\ \A k \in DOMAIN r.findings :
            IsSeq(r.findings[k].quote) /\ r.findings[k].confident \in BOOLEAN
  /\ None \notin [start : Nat, end : Nat, fuzzy : BOOLEAN]

VARIABLES
  title, lead,    \* the article
  pc,             \* how far the call and the page have come
  reply,          \* the reply, kept verbatim
  todo,           \* findings of the reply that are yet to be verified
  findings,       \* verified, as stored
  rejected,       \* quotes that were not found
  contradiction,  \* is analyses.consistency_error set?
  page            \* the page a reader has open

vars == <<title, lead, pc, reply, todo, findings, rejected, contradiction, page>>

-----------------------------------------------------------------------------
(***************************************************************************)
(* validator.py                                                            *)
(***************************************************************************)
Blank == " "
IsBlank(q) == \A i \in DOMAIN q : q[i] = Blank

Typography(c) ==
  IF c = "endash" THEN <<"-">> ELSE IF c = "ellipsis" THEN <<".", ".", ".">> ELSE <<c>>

\* What the i-th character comes out as: of a run of blanks the first, and
\* nothing of one that leads or trails.
Produced(text, i) ==
  IF text[i] # Blank THEN Typography(text[i])
  ELSE IF /\ i > 1 /\ text[i-1] # Blank
          /\ \E j \in i+1..Len(text) : text[j] # Blank
       THEN <<Blank>> ELSE <<>>

\* The folded text, each character with the offset it came from.
Normalise(text) ==
  FlattenSeq([i \in 1..Len(text) |->
    [j \in DOMAIN Produced(text, i) |-> [char |-> Produced(text, i)[j], origin |-> i - 1]]])

\* Mutant: the offset after a match is where the next character came from.
SourceSpan_Next(folded, first, last) ==
  [start |-> folded[first].origin,
   end |-> IF last = Len(folded) THEN folded[last].origin + 1 ELSE folded[last+1].origin]

\* _to_source_span, of the folded characters first..last.
SourceSpan(folded, first, last) ==
  [start |-> folded[first].origin, end |-> folded[last].origin + 1]

\* Where the folded quote q begins in the folded text t.
Occurrences(q, t) ==
  {i \in 1..Len(t) - Len(q) + 1 : \A j \in DOMAIN q : t[i+j-1].char = q[j].char}

\* rapidfuzz slides the shorter of the two across the longer and returns the
\* part of t it likes best, or nothing.  External: sure only when all of t
\* is found in the quote, otherwise left open.
FuzzyWindows(q, t) ==
  IF Occurrences(t, q) # {} THEN {<<1, Len(t)>>}
  ELSE {w \in (1..Len(t)) \X (1..Len(t)) : w[1] <= w[2] /\ w[2] - w[1] < Len(q)} \cup {None}

Match(folded, first, last, fuzzy) ==
  LET span == SourceSpan(folded, first, last)
  IN  [start |-> span.start, end |-> span.end, fuzzy |-> fuzzy]

\* Mutant: only the text is folded.
LocateQuote_Verbatim(quote, text) ==
  LET q == [i \in DOMAIN quote |-> [char |-> quote[i], origin |-> i - 1]]
      t == Normalise(text)
      at == Occurrences(q, t)
  IN IF q = <<>> \/ t = <<>> THEN {None}
     ELSE IF at # {} THEN {Match(t, Min(at), Min(at) + Len(q) - 1, FALSE)}
     ELSE {IF w = None THEN None ELSE Match(t, w[1], w[2], TRUE) : w \in FuzzyWindows(q, t)}

\* What locate_quote may return: a span of the text, or None.
LocateQuote(quote, text) ==
  LET q == Normalise(quote)
      t == Normalise(text)
      at == Occurrences(q, t)
  IN IF q = <<>> \/ t = <<>> THEN {None}
     ELSE IF at # {} THEN {Match(t, Min(at), Min(at) + Len(q) - 1, FALSE)}
     ELSE {IF w = None THEN None ELSE Match(t, w[1], w[2], TRUE) : w \in FuzzyWindows(q, t)}

-----------------------------------------------------------------------------
(***************************************************************************)
(* One call.                                                               *)
(***************************************************************************)
\* The schema of domain/analysis.py.
Parses(r) ==
  /\ r # None
  /\ Len(r.findings) <= MAX_FINDINGS
  /\ \A k \in DOMAIN r.findings :
       Len(r.findings[k].quote) <= MAX_QUOTE /\ ~IsBlank(r.findings[k].quote)

Contradicts(verdict, verified) ==
  (verdict = "neutral") = \E k \in DOMAIN verified : verified[k].confident

\* if lead: neither NULL nor the empty string
HasLead == lead # None /\ lead # <<>>

Text(field) == IF field = "title" THEN title ELSE lead

Slice(text, span) == SubSeq(text, span.start + 1, span.end)

\* reported is the wording of the reply, which the row does not keep.
Verified(finding, field, match) ==
  [start |-> match.start, end |-> match.end, fuzzy |-> match.fuzzy, field |-> field,
   quote |-> Slice(Text(field), match), reported |-> finding.quote,
   confident |-> finding.confident]

Init ==
  /\ title \in Titles /\ lead \in Leads
  /\ pc = "call" /\ reply = None /\ todo = <<>>
  /\ findings = <<>> /\ rejected = <<>> /\ contradiction = FALSE
  /\ page = None

\* The provider answers with some text; None is one that is not JSON.
Complete(r) ==
  /\ pc = "call"
  /\ reply' = r
  /\ findings' = <<>> /\ rejected' = <<>> /\ contradiction' = FALSE
  /\ IF Parses(r) THEN pc' = "verify" /\ todo' = r.findings
                  ELSE pc' = "stored" /\ todo' = <<>>
  /\ UNCHANGED <<title, lead, page>>

\* An HTTP error, an answer without content, or a prompt that the backend
\* reports too long for its window: a ProviderError, and nothing is stored.
ProviderError ==
  /\ pc = "call"
  /\ pc' = "failed"
  /\ UNCHANGED <<title, lead, reply, todo, findings, rejected, contradiction, page>>

\* One round of the loop of _verify_quotes.
VerifyQuote ==
  /\ pc = "verify" /\ todo # <<>>
  /\ LET finding == Head(todo) IN
     \E inTitle \in LocateQuote(finding.quote, title),
        inLead \in IF HasLead THEN LocateQuote(finding.quote, lead) ELSE {None} :
       IF inTitle # None
       THEN /\ findings' = Append(findings, Verified(finding, "title", inTitle))
            /\ UNCHANGED rejected
       ELSE IF inLead # None
       THEN /\ findings' = Append(findings, Verified(finding, "lead", inLead))
            /\ UNCHANGED rejected
       ELSE /\ rejected' = Append(rejected, finding.quote)
            /\ UNCHANGED findings
  /\ todo' = Tail(todo)
  /\ UNCHANGED <<title, lead, pc, reply, contradiction, page>>

\* Mutant: the verdict is held against all that the model reported.
Conclude_Reported ==
  /\ pc = "verify" /\ todo = <<>>
  /\ contradiction' = Contradicts(reply.verdict, reply.findings)
  /\ pc' = "stored"
  /\ UNCHANGED <<title, lead, reply, todo, findings, rejected, page>>

\* The verdict is held against what survived verification.
Conclude ==
  /\ pc = "verify" /\ todo = <<>>
  /\ contradiction' = Contradicts(reply.verdict, findings)
  /\ pc' = "stored"
  /\ UNCHANGED <<title, lead, reply, todo, findings, rejected, page>>

-----------------------------------------------------------------------------
(***************************************************************************)
(* The page.                                                               *)
(***************************************************************************)
\* ORDER BY field, quote_start; those that tie come in any order.
Before(f, g) ==
  \/ f.field = "lead" /\ g.field = "title"
  \/ f.field = g.field /\ f.start < g.start

Selected ==
  {[k \in DOMAIN findings |-> findings[order[k]]] :
     order \in {order \in SetToSeqs(DOMAIN findings) :
                  \A i, j \in DOMAIN findings :
                    i < j => ~Before(findings[order[j]], findings[order[i]])}}

\* AnnotatedText: a piece carries the numbers of the findings it is part of.
Annotated(text, spans, firstNumber) ==
  {[from |-> piece.from, to |-> piece.to,
    numbers |-> {firstNumber + k - 1 : k \in piece.marks}] :
     piece \in Pieces(Len(text), spans)}

Of(field, rows) ==
  FlattenSeq([k \in DOMAIN rows |-> IF rows[k].field = field THEN <<rows[k]>> ELSE <<>>])

\* Mutant: the numbers of the lead start again at 1.
Rendered_Restarts(rows) ==
  LET inTitle == Of("title", rows)
      inLead == Of("lead", rows)
  IN [list |-> inTitle \o inLead,
      title |-> Annotated(title, inTitle, 1),
      lead |-> IF HasLead THEN Annotated(lead, inLead, 1) ELSE {}]

\* ArticlePage; list is what FindingList numbers from 1.
Rendered(rows) ==
  LET inTitle == Of("title", rows)
      inLead == Of("lead", rows)
  IN [list |-> inTitle \o inLead,
      title |-> Annotated(title, inTitle, 1),
      lead |-> IF HasLead THEN Annotated(lead, inLead, Len(inTitle) + 1) ELSE {}]

OpenPage ==
  /\ pc = "stored"
  /\ \E rows \in Selected : page' = Rendered(rows)
  /\ pc' = "shown"
  /\ UNCHANGED <<title, lead, reply, todo, findings, rejected, contradiction>>

\* A later pass, a sweep or make reanalyze calls again.
CallAgain ==
  /\ pc \in {"failed", "stored", "shown"}
  /\ pc' = "call" /\ reply' = None /\ page' = None
  /\ findings' = <<>> /\ rejected' = <<>> /\ contradiction' = FALSE
  /\ UNCHANGED <<title, lead, todo>>

Next ==
  \/ \E r \in Replies : Complete(r)
  \/ ProviderError \/ VerifyQuote \/ Conclude \/ OpenPage \/ CallAgain

Spec == Init /\ [][Next]_vars

-----------------------------------------------------------------------------
(***************************************************************************)
(* Properties.                                                             *)
(***************************************************************************)
\* The quote q found in a text, up to typography.
IsIn(q, text) == Occurrences(Normalise(q), Normalise(text)) # {}

\* validator.py:82 "a match found in folded space [is] reported against the
\* original string", and evals/audit_data.py's first three checks: a finding
\* cites its own span of a field that the article has, and where it is an exact
\* match the span is the first that reads as the quote does.  No part of it would
\* do, unless it ends in an ellipsis of which the quote takes the first dots only:
\* two dots are found in a dot and an ellipsis as the whole of both.
SpanIsTheQuote ==
  \A k \in DOMAIN findings :
    LET f == findings[k]
        text == Text(f.field)
        Reads(i, j) == IsIn(f.reported, SubSeq(text, i, j))
    IN /\ f.field = "lead" => HasLead
       /\ 0 <= f.start /\ f.start < f.end /\ f.end <= Len(text)
       /\ f.quote = Slice(text, f)
       /\ ~f.fuzzy => /\ Reads(f.start + 1, f.end)
                      /\ ~Reads(1, f.end - 1)
                      /\ text[f.end] # "ellipsis" => ~Reads(f.start + 2, f.end)

\* validator.py:125 "A verbatim match after normalisation is the expected
\* outcome": what the article says, give or take typography, is not rejected.
VerbatimIsKept ==
  \A k \in DOMAIN rejected :
    ~IsIn(rejected[k], title) /\ (HasLead => ~IsIn(rejected[k], lead))

\* The positions underlined with number n.
Underlined(pieces, n) ==
  UNION {piece.from..piece.to - 1 : piece \in {piece \in pieces : n \in piece.numbers}}

\* page.tsx:17: the mark above a text and the explanation below carry the
\* same number.  What is underlined with n is what entry n of the list
\* quotes, in the field it was found in, however the spans overlap.
UnderlinedIsQuoted ==
  pc = "shown" =>
    \A n \in DOMAIN page.list :
      LET f == page.list[n]
          other == IF f.field = "title" THEN "lead" ELSE "title"
      IN /\ Underlined(page[f.field], n) = f.start..f.end - 1
         /\ Underlined(page[other], n) = {}

\* domain/analysis.py:187 "those are what the interface puts on screen next
\* to the verdict": a verdict shown beside entries that contradict it is
\* always recorded as a contradiction, and no other is.
ContradictionIsOnScreen ==
  pc = "shown" /\ Parses(reply) => (contradiction <=> Contradicts(reply.verdict, page.list))

\* analyze.py:97 "a quote cannot silently match by straddling the boundary
\* between a headline and a sentence": no quote that goes on beyond a field
\* is attributed to it.
NoStraddling ==
  \A k \in DOMAIN findings :
    LET q == Normalise(findings[k].reported)
        t == Normalise(Text(findings[k].field))
    IN Len(q) > Len(t) => Occurrences(t, q) = {}

=============================================================================
