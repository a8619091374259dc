------------------------------ MODULE Metrics ------------------------------
(***************************************************************************)
(* evals/metrics.py: what a finding of the model earns against the labels  *)
(* of the annotator, and the groups of calls that are scored together.     *)
(* Latencies, tokens, the confidence split and the ratios made of the      *)
(* counts are left out, and so are the expected category and assessment.   *)
(***************************************************************************)
EXTENDS Integers, SequencesExt

CONSTANT None  \* SQL NULL

\* overlaps: the two spans share a character.  Offsets are half-open.
Overlaps(finding, label) ==
  /\ finding.field = label.field
  /\ finding.start < label.end /\ label.start < finding.end

Matches(finding, label) == Overlaps(finding, label) /\ finding.type = label.type

VisibleFields(variant) == IF variant = "title" THEN {"title"} ELSE {"title", "lead"}

\* The labels that a call could have found, each at its place in the list.
Expected(labels, variant) ==
  [k \in {k \in DOMAIN labels : labels[k].field \in VisibleFields(variant)} |-> labels[k]]

\* Mutant: only the first label it matches is tried.
Takes_First(credit, finding, expected) ==
  LET matching == {k \in DOMAIN expected : Matches(finding, expected[k])}
  IN IF matching = {} \/ Min(matching) \in Range(credit) THEN Append(credit, 0)
     ELSE Append(credit, Min(matching))

\* A finding takes the first label it matches that no earlier one has taken;
\* 0 is a false positive.
Takes(credit, finding, expected) ==
  LET open == {k \in DOMAIN expected :
                 Matches(finding, expected[k]) /\ k \notin Range(credit)}
  IN IF open = {} THEN Append(credit, 0) ELSE Append(credit, Min(open))

\* For each finding of a call the label it is credited with, or 0.
Credit(found, expected) ==
  FoldLeft(LAMBDA credit, finding : Takes(credit, finding, expected), <<>>, found)

TruePositives(found, expected) ==
  Cardinality({k \in DOMAIN found : Credit(found, expected)[k] # 0})

FalsePositives(found, expected) == Len(found) - TruePositives(found, expected)

SpanHits(found, expected) ==
  Cardinality({k \in DOMAIN found : \E l \in DOMAIN expected : Overlaps(found[k], expected[l])})

\* The counts of one group, over its calls that parsed; S is its rows, found
\* the findings of each and labels those of each article.
ScoreGroup(S, rows, found, labels) ==
  LET parsed == {i \in S : rows[i].parsed}
      first == rows[Min(S)]
      Reachable(i) == Expected(labels[rows[i].article], first.variant)
      Total(Count(_, _)) == SumFunction([i \in parsed |-> Count(found[i], Reachable(i))])
      neutral == {i \in parsed : rows[i].kind = "neutral"}
  IN [run |-> first.run, variant |-> first.variant, grammar |-> first.grammar,
      source |-> first.source, split |-> first.split,
      calls |-> Cardinality(S),
      articles |-> {rows[i].article : i \in S},
      accepted |-> SumFunction([i \in S |-> rows[i].accepted]),
      tp |-> Total(TruePositives), fp |-> Total(FalsePositives),
      fn |-> Total(LAMBDA f, e : Cardinality(DOMAIN e \ Range(Credit(f, e)))),
      spans |-> Total(SpanHits),
      empty |-> Cardinality({i \in parsed : found[i] = <<>>}),
      neutral |-> Cardinality(neutral),
      accused |-> Cardinality({i \in neutral : found[i] # <<>>})]

\* Mutant: the input variant is not part of the key.
SameGroup_AnyVariant(r, s) ==
  r.run = s.run /\ r.grammar = s.grammar /\ r.source = s.source

\* Calls that answered one question: the key of score_all.
SameGroup(r, s) ==
  /\ r.run = s.run /\ r.variant = s.variant
  /\ r.grammar = s.grammar /\ r.source = s.source

ScoreAll(S, rows, found, labels) ==
  {ScoreGroup({j \in S : SameGroup(rows[i], rows[j])}, rows, found, labels) : i \in S}

\* _variant_pairs: what one sweep measured under both variants, with no label.
VariantPairs(scores) ==
  {pair \in scores \X scores :
     /\ pair[1].variant = "title" /\ pair[2].variant = "title_lead"
     /\ pair[1].run = pair[2].run /\ pair[1].grammar = pair[2].grammar
     /\ pair[1].source = None /\ pair[2].source = None}

\* stability: the rows of one configuration that call an article repeatedly.
Repeated(S, rows) ==
  {i \in S : /\ rows[i].parsed /\ rows[i].source = None
             /\ \E j \in S \ {i} : /\ SameGroup(rows[i], rows[j]) /\ rows[j].parsed
                                  /\ rows[j].article = rows[i].article}

=============================================================================
