-------------------------- MODULE MCAnalysisQueue --------------------------
(***************************************************************************)
(* Constants for model-checking AnalysisQueue.  The policy constants keep  *)
(* the values of the source.                                               *)
(***************************************************************************)
EXTENDS AnalysisQueue

\* Ids as they sort.
TwoArticles == 1..2
ThreeArticles == 1..3

\* The container runs without --limit; an operator may take a bite of one.
NoLimit == {4}
OneOrAll == {1, 4}

\* What a healthy backend refuses.
Nothing == {}
TheSecond == {2}
TheFirstThree == 1..3

=============================================================================
