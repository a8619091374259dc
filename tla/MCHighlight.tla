---------------------------- MODULE MCHighlight ----------------------------
(* Constants for model-checking Highlight. *)
EXTENDS Highlight

Chars == {"a", Blank, "ellipsis"}

\* Every text of up to three characters that is not blank, and one in which a
\* quote may begin at either of two characters.
ShortTexts == {t \in SeqOf(Chars, 3) : ~IsBlank(t)} \cup {<<".", "ellipsis">>}

\* A lead where runs, a dash and an ellipsis meet.
SomeLeads ==
  {None, <<>>, <<"a", Blank, Blank, "endash", "a", "ellipsis">>}

Quotes ==
  {<<"a">>, <<".">>, <<"a", Blank, "endash">>, <<"b", ".">>, <<".", ".">>, <<Blank, Blank>>}

Answers(quotes, most) ==
  [findings : UNION {[1..n -> [quote : quotes, confident : BOOLEAN]] : n \in 0..most},
   verdict : {"neutral", "loaded"}]

SomeReplies == {None} \cup Answers(Quotes, 2)

\* A headline, its lead, and a quote that runs from the one into the other.
Headline == {<<"a", "b">>}
Sentence == {<<"c", "d">>}
Straddling == Answers({<<"a", "b", Blank, "c">>}, 1)

=============================================================================
