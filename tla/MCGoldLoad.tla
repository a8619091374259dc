----------------------------- MODULE MCGoldLoad -----------------------------
(* Constants for model-checking GoldLoad: editions of the main set that add, *)
(* drop and relabel an article, and a holdout that may clash with it.        *)
EXTENDS GoldLoad

CONSTANTS main, holdout, a1, a2, a3

Edition(s, A, L) == [split |-> s, articles |-> A, labelled |-> L]

BothSplits ==
  { Edition(main, {a1, a2}, {a1, a2}), Edition(main, {a1}, {}),
    Edition(holdout, {a3}, {a3}), Edition(holdout, {a2, a3}, {a2}) }

MainOnly == { Edition(main, {a1, a2}, {a1}) }

=============================================================================
