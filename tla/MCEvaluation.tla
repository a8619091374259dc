---------------------------- MODULE MCEvaluation ----------------------------
(* Constants for model-checking Evaluation. *)
EXTENDS Evaluation

\* Three neutral verdicts, two of them of one day and portal, the first
\* without a lead; one flagged; one article of the held-out set, without a lead.
FiveArticles == 1..5
SomeFlagged == [a \in Articles |-> a = 4]
OneDay == [a \in Articles |-> 1]
TwoPortals == [a \in Articles |-> IF a = 3 THEN 2 ELSE 1]
LeadsBut15 == [a \in Articles |-> a \notin {1, 5}]
SomeKinds == [a \in Articles |-> IF a = 4 THEN "quoted_speech" ELSE "neutral"]
Five == {5}

Span(field, type, start, end) == [field |-> field, type |-> type, start |-> start, end |-> end]

\* What article 4 is accused of; the others are neutral.
SomeLabels == [a \in Articles |->
  IF a = 4 THEN <<Span("title", "x", 0, 2), Span("title", "x", 2, 4), Span("lead", "y", 0, 1)>>
  ELSE <<>>]

\* Of article 4 two findings over one and both labels of its title, or one of
\* its lead and one of another type; of the others at most one, in the title.
Found(a, fields) ==
  IF a = 4 THEN {IF "lead" \in fields
                 THEN <<Span("lead", "y", 0, 1), Span("title", "z", 3, 5)>>
                 ELSE <<Span("title", "x", 1, 3), Span("title", "x", 0, 1)>>}
  ELSE {<<Span("title", "x", 0, 1)>>} \cup (IF a = 5 THEN {} ELSE {<<>>})

\* A reply may fail to parse about article 4 alone.
Replies(a, fields) ==
  {[parsed |-> TRUE, findings |-> f] : f \in Found(a, fields)}
  \cup (IF a = 4 THEN {[parsed |-> FALSE, findings |-> <<>>]} ELSE {})

Args(variants, repeat, limit, split) ==
  [variants |-> variants, grammars |-> <<"schema">>, repeat |-> repeat, limit |-> limit,
   source |-> None, split |-> split]

\* Both variants of a mixed prefix, then the held-out set twice.
TwoSweeps ==
  <<Args(<<"title", "title_lead">>, 1, 2, "main"), Args(<<"title">>, 2, None, "holdout")>>

=============================================================================
