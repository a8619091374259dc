-------------------------- MODULE GoldLoad_proofs --------------------------
(***************************************************************************)
(* What a gold load guarantees for every set of articles, every splits and *)
(* loaders and whatever the CSVs say, wherever a load stops.               *)
(*                                                                         *)
(* The invariant says, for each place a loader stands, what its earlier    *)
(* transactions have established and the other loaders cannot undo: they   *)
(* work on other splits (Apart), and a gold row belongs to one split only. *)
(***************************************************************************)
EXTENDS GoldLoad, TLAPS

Apart ==
  \A l, m \in Loaders :
    l # m /\ Running(l) /\ Running(m) => plan[l].split # plan[m].split

\* Before the gold rows go, their labels are gone...
Unlabelled ==
  \A l \in Loaders : pc[l] = "articles" => labels \cap InSplit(plan[l].split) = {}

\* ...before they are inserted the split is empty...
Emptied ==
  \A l \in Loaders : pc[l] \in {"store", "check", "insert"} => InSplit(plan[l].split) = {}

\* ...and before they are labelled the split is the edition, without labels.
Filled ==
  \A l \in Loaders :
    pc[l] = "label" => /\ InSplit(plan[l].split) = plan[l].articles
                       /\ labels \cap plan[l].articles = {}

Checked ==
  \A l \in Loaders :
    pc[l] \in {"insert", "label"} => \A a \in plan[l].articles : text[a] = "csv"

IInv == /\ TypeOK /\ Apart /\ Unlabelled /\ Emptied /\ Filled /\ Checked
        /\ LabelsAreOnGold /\ LabelsFitStoredText

-----------------------------------------------------------------------------
LEMMA InitIInv == Init => IInv
BY DEF Init, IInv, TypeOK, Apart, Unlabelled, Emptied, Filled, Checked, LabelsAreOnGold,
       LabelsFitStoredText, Running

LEMMA PlanIsConsistent ==
  ASSUME TypeOK, NEW l \in Loaders
  PROVE  /\ plan[l].split \in Splits /\ plan[l].split # None
         /\ plan[l].articles \subseteq Articles
         /\ plan[l].labelled \subseteq plan[l].articles
<1>1. plan[l] \in Editions
  BY DEF TypeOK
<1>2. QED BY <1>1, Consistent, NoneIsNoSplit

LEMMA NextTypeOK == TypeOK /\ [Next]_vars => TypeOK'
<1> SUFFICES ASSUME TypeOK, [Next]_vars PROVE TypeOK'
  OBVIOUS
<1>1. ASSUME NEW l \in Loaders, NEW e \in Editions, Start(l, e) PROVE TypeOK'
  BY <1>1 DEF Start, TypeOK, goldVars, passVars
<1>2. ASSUME NEW l \in Loaders, DeleteLabels(l) PROVE TypeOK'
  BY <1>2 DEF DeleteLabels, TypeOK, passVars
<1>3. ASSUME NEW l \in Loaders, DeleteArticles(l) PROVE TypeOK'
  BY <1>3 DEF DeleteArticles, TypeOK, passVars
<1>4. ASSUME NEW l \in Loaders, StoreArticles(l) PROVE TypeOK'
  BY <1>4 DEF StoreArticles, TypeOK, goldVars, passVars
<1>5. ASSUME NEW l \in Loaders, CheckStoredText(l) PROVE TypeOK'
  BY <1>5 DEF CheckStoredText, TypeOK, goldVars, passVars
<1>6. ASSUME NEW l \in Loaders, InsertArticles(l) PROVE TypeOK'
  BY <1>6, PlanIsConsistent DEF InsertArticles, TypeOK, passVars
<1>7. ASSUME NEW l \in Loaders, InsertLabels(l) PROVE TypeOK'
  BY <1>7, PlanIsConsistent DEF InsertLabels, TypeOK, passVars
<1>8. ASSUME NEW l \in Loaders, Crash(l) PROVE TypeOK'
  BY <1>8 DEF Crash, TypeOK, goldVars, passVars
<1>9. ASSUME NEW a \in Articles, Ingest(a) PROVE TypeOK'
  BY <1>9 DEF Ingest, TypeOK, goldVars, passVars
<1>10. ASSUME NEW a \in Articles, Analyse(a) PROVE TypeOK'
  BY <1>10 DEF Analyse, TypeOK, goldVars
<1>11. CASE LoadPending
  BY <1>11 DEF LoadPending, TypeOK, goldVars
<1>12. CASE UNCHANGED vars
  BY <1>12 DEF TypeOK, vars, goldVars, passVars
<1>13. QED
  BY <1>1, <1>2, <1>3, <1>4, <1>5, <1>6, <1>7, <1>8, <1>9, <1>10, <1>11, <1>12 DEF Next


\* What the conjuncts but TypeOK say of a step that changes no table.
LEMMA TablesKept ==
  ASSUME IInv, NEW l \in Loaders, plan' = plan, UNCHANGED <<text, goldVars>>,
         NEW c \in {"done", "failed"}, pc' = [pc EXCEPT ![l] = c]
  PROVE  /\ Apart' /\ Unlabelled' /\ Emptied' /\ Filled' /\ Checked'
         /\ LabelsAreOnGold' /\ LabelsFitStoredText'
BY DEF IInv, TypeOK, Apart, Unlabelled, Emptied, Filled, Checked, LabelsAreOnGold,
       LabelsFitStoredText, Running, InSplit, Gold, goldVars

LEMMA NextIInv == IInv /\ [Next]_vars => IInv'
<1> SUFFICES ASSUME IInv, [Next]_vars PROVE IInv'
  OBVIOUS
<1> DEFINE Rest == /\ Apart /\ Unlabelled /\ Emptied /\ Filled /\ Checked
                   /\ LabelsAreOnGold /\ LabelsFitStoredText
<1>0. TypeOK /\ TypeOK'
  BY NextTypeOK DEF IInv
<1> SUFFICES Rest'
  BY <1>0 DEF IInv
<1> USE DEF IInv
<1>1. ASSUME NEW l \in Loaders, NEW e \in Editions, Start(l, e) PROVE Rest'
  <2>1. /\ plan' = [plan EXCEPT ![l] = e] /\ pc' = [pc EXCEPT ![l] = "labels"]
        /\ text' = text /\ split' = split /\ labels' = labels
    BY <1>1 DEF Start, goldVars
  <2>2. plan'[l] = e /\ pc'[l] = "labels"
    BY <1>0, <2>1 DEF TypeOK
  <2>3. \A m \in Loaders \ {l} : plan'[m] = plan[m] /\ pc'[m] = pc[m]
    BY <1>0, <2>1 DEF TypeOK
  <2>4. Apart'
    BY <1>1, <2>2, <2>3 DEF Apart, Running, Start
  <2>5. Unlabelled' /\ Emptied' /\ Filled' /\ Checked'
    BY <2>1, <2>2, <2>3 DEF Unlabelled, Emptied, Filled, Checked, InSplit
  <2>6. LabelsAreOnGold' /\ LabelsFitStoredText'
    BY <2>1 DEF LabelsAreOnGold, LabelsFitStoredText, Gold
  <2>7. QED BY <2>4, <2>5, <2>6
\* The steps of a running loader leave the others where they are.
<1>2. ASSUME NEW l \in Loaders, Running(l), plan' = plan, NEW c, pc' = [pc EXCEPT ![l] = c]
      PROVE  /\ pc'[l] = c
             /\ \A m \in Loaders \ {l} : pc'[m] = pc[m]
             /\ Apart'
  <2>1. pc'[l] = c /\ \A m \in Loaders \ {l} : pc'[m] = pc[m]
    BY <1>0, <1>2 DEF TypeOK
  <2>2. QED BY <1>2, <2>1 DEF Apart, Running
<1>3. ASSUME NEW l \in Loaders, DeleteLabels(l) PROVE Rest'
  <2>1. Running(l)
    BY <1>3 DEF DeleteLabels, Running
  <2>2. /\ pc'[l] = "articles" /\ \A m \in Loaders \ {l} : pc'[m] = pc[m]
        /\ Apart'
    BY <1>2, <1>3, <2>1 DEF DeleteLabels
  <2>3. /\ labels' = labels \ InSplit(plan[l].split)
        /\ text' = text /\ split' = split /\ plan' = plan
    BY <1>3 DEF DeleteLabels
  <2>4. Unlabelled' /\ Emptied' /\ Filled' /\ Checked'
    BY <2>2, <2>3 DEF Unlabelled, Emptied, Filled, Checked, InSplit
  <2>5. LabelsAreOnGold' /\ LabelsFitStoredText'
    BY <2>3 DEF LabelsAreOnGold, LabelsFitStoredText, Gold
  <2>6. QED BY <2>2, <2>4, <2>5
<1>4. ASSUME NEW l \in Loaders, DeleteArticles(l) PROVE Rest'
  <2>1. Running(l)
    BY <1>4 DEF DeleteArticles, Running
  <2>2. /\ pc'[l] = "store" /\ \A m \in Loaders \ {l} : pc'[m] = pc[m]
        /\ Apart'
    BY <1>2, <1>4, <2>1 DEF DeleteArticles
  <2>3. /\ split' = [a \in Articles |-> IF split[a] = plan[l].split THEN None ELSE split[a]]
        /\ text' = text /\ labels' = labels /\ plan' = plan
    BY <1>4 DEF DeleteArticles
  <2>4. labels \cap InSplit(plan[l].split) = {}
    BY <1>4 DEF Unlabelled, DeleteArticles
  <2>5. plan[l].split # None /\ \A m \in Loaders : plan[m].split # None
    BY <1>0, PlanIsConsistent
  <2>6. \A m \in Loaders \ {l} :
          Running(m) => InSplit(plan[m].split)' = InSplit(plan[m].split)
    BY <2>1, <2>3, <2>5 DEF InSplit, Apart
  <2>7. InSplit(plan[l].split)' = {}
    BY <2>3, <2>5 DEF InSplit
  <2>8. Unlabelled' /\ Emptied' /\ Filled' /\ Checked'
    BY <2>2, <2>3, <2>6, <2>7 DEF Unlabelled, Emptied, Filled, Checked, Running
  <2>9. LabelsAreOnGold' /\ LabelsFitStoredText'
    BY <2>3, <2>4 DEF LabelsAreOnGold, LabelsFitStoredText, Gold, InSplit
  <2>10. QED BY <2>2, <2>8, <2>9
<1>5. ASSUME NEW l \in Loaders, StoreArticles(l) PROVE Rest'
  <2>1. Running(l)
    BY <1>5 DEF StoreArticles, Running
  <2>2. /\ pc'[l] = "check" /\ \A m \in Loaders \ {l} : pc'[m] = pc[m]
        /\ Apart'
    BY <1>2, <1>5, <2>1 DEF StoreArticles
  <2>3. /\ split' = split /\ labels' = labels /\ plan' = plan
        /\ \A a \in Articles : text[a] = "csv" => text'[a] = "csv"
    BY <1>5 DEF StoreArticles, goldVars
  <2>4. Unlabelled' /\ Emptied' /\ Filled'
    BY <1>5, <2>2, <2>3 DEF Unlabelled, Emptied, Filled, InSplit, StoreArticles
  <2>5. Checked'
    BY <1>0, <2>2, <2>3, PlanIsConsistent DEF Checked
  <2>6. LabelsAreOnGold' /\ LabelsFitStoredText'
    BY <1>0, <2>3 DEF LabelsAreOnGold, LabelsFitStoredText, Gold, TypeOK
  <2>7. QED BY <2>2, <2>4, <2>5, <2>6
<1>6. ASSUME NEW l \in Loaders, CheckStoredText(l) PROVE Rest'
  <2>1. /\ Running(l) /\ plan' = plan /\ text' = text /\ split' = split /\ labels' = labels
    BY <1>6 DEF CheckStoredText, Running, goldVars
  <2>2. CASE \A a \in plan[l].articles : text[a] = "csv"
    <3>1. /\ pc'[l] = "insert" /\ \A m \in Loaders \ {l} : pc'[m] = pc[m]
          /\ Apart'
      BY <1>2, <1>6, <2>1, <2>2 DEF CheckStoredText
    <3>2. Unlabelled' /\ Emptied' /\ Filled' /\ Checked'
      BY <1>6, <2>1, <2>2, <3>1 DEF Unlabelled, Emptied, Filled, Checked, InSplit, CheckStoredText
    <3>3. QED BY <2>1, <3>1, <3>2 DEF LabelsAreOnGold, LabelsFitStoredText, Gold
  <2>3. CASE ~ \A a \in plan[l].articles : text[a] = "csv"
    BY <1>6, <2>1, <2>3, TablesKept DEF CheckStoredText, goldVars
  <2>4. QED BY <2>2, <2>3
<1>7. ASSUME NEW l \in Loaders, InsertArticles(l) PROVE Rest'
  <2>1. /\ Running(l) /\ plan' = plan /\ text' = text /\ labels' = labels
        /\ pc[l] = "insert"
    BY <1>7 DEF InsertArticles, Running
  <2>2. CASE plan[l].articles \cap Gold = {}
    <3>1. /\ pc'[l] = "label" /\ \A m \in Loaders \ {l} : pc'[m] = pc[m]
          /\ Apart'
      BY <1>2, <1>7, <2>1, <2>2 DEF InsertArticles
    <3>2. split' = [a \in Articles |-> IF a \in plan[l].articles THEN plan[l].split ELSE split[a]]
      BY <1>7, <2>2 DEF InsertArticles
    <3>3. /\ plan[l].articles \subseteq Articles
          /\ \A m \in Loaders : plan[m].split # None
      BY <1>0, PlanIsConsistent
    <3>4. InSplit(plan[l].split) = {}
      BY <2>1 DEF Emptied
    <3>5. InSplit(plan[l].split)' = plan[l].articles
      BY <2>1, <3>2, <3>3, <3>4 DEF InSplit
    <3>6. \A m \in Loaders \ {l} :
            Running(m) => InSplit(plan[m].split)' = InSplit(plan[m].split)
      BY <2>1, <2>2, <3>2, <3>3 DEF InSplit, Apart, Gold
    <3>7. labels \cap plan[l].articles = {}
      BY <2>2 DEF LabelsAreOnGold
    <3>8. Unlabelled' /\ Emptied' /\ Filled' /\ Checked'
      BY <2>1, <3>1, <3>5, <3>6, <3>7 DEF Unlabelled, Emptied, Filled, Checked, Running
    <3>9. LabelsAreOnGold' /\ LabelsFitStoredText'
      BY <2>1, <3>2, <3>3 DEF LabelsAreOnGold, LabelsFitStoredText, Gold
    <3>10. QED BY <3>1, <3>8, <3>9
  <2>3. CASE plan[l].articles \cap Gold # {}
    BY <1>7, <2>1, <2>3, TablesKept DEF InsertArticles, goldVars
  <2>4. QED BY <2>2, <2>3
<1>8. ASSUME NEW l \in Loaders, InsertLabels(l) PROVE Rest'
  <2>1. /\ Running(l) /\ plan' = plan /\ text' = text /\ split' = split
        /\ pc[l] = "label"
    BY <1>8 DEF InsertLabels, Running
  <2>2. CASE plan[l].labelled \cap labels = {}
    <3>1. /\ pc'[l] = "done" /\ \A m \in Loaders \ {l} : pc'[m] = pc[m]
          /\ Apart'
      BY <1>2, <1>8, <2>1, <2>2 DEF InsertLabels
    <3>2. labels' = labels \cup plan[l].labelled
      BY <1>8, <2>2 DEF InsertLabels
    <3>3. /\ plan[l].labelled \subseteq InSplit(plan[l].split)
          /\ plan[l].labelled \subseteq plan[l].articles
          /\ plan[l].split # None
      BY <1>0, <2>1, PlanIsConsistent DEF Filled
    <3>4. \A m \in Loaders \ {l} :
            Running(m) => plan[l].labelled \cap InSplit(plan[m].split) = {}
      BY <2>1, <3>3 DEF InSplit, Apart
    <3>5. \A m \in Loaders : InSplit(plan[m].split)' = InSplit(plan[m].split)
      BY <2>1 DEF InSplit
    <3>6. Unlabelled' /\ Emptied' /\ Filled' /\ Checked'
      BY <2>1, <3>1, <3>2, <3>4, <3>5 DEF Unlabelled, Emptied, Filled, Checked, Running
    <3>7. LabelsAreOnGold' /\ LabelsFitStoredText'
      BY <2>1, <3>2, <3>3 DEF LabelsAreOnGold, LabelsFitStoredText, Gold, InSplit, Checked
    <3>8. QED BY <3>1, <3>6, <3>7
  <2>3. CASE plan[l].labelled \cap labels # {}
    BY <1>8, <2>1, <2>3, TablesKept DEF InsertLabels, goldVars
  <2>4. QED BY <2>2, <2>3
<1>9. ASSUME NEW l \in Loaders, Crash(l) PROVE Rest'
  BY <1>9, TablesKept DEF Crash
<1>10. ASSUME NEW a \in Articles, Ingest(a) PROVE Rest'
  <2>1. /\ plan' = plan /\ split' = split /\ labels' = labels /\ pc' = pc
        /\ \A b \in Articles : text[b] = "csv" => text'[b] = "csv"
    BY <1>0, <1>10 DEF Ingest, goldVars, TypeOK
  <2>2. \A l \in Loaders : plan[l].articles \subseteq Articles
    BY <1>0, PlanIsConsistent
  <2>3. QED
    BY <1>0, <2>1, <2>2 DEF Apart, Unlabelled, Emptied, Filled, Checked, LabelsAreOnGold,
       LabelsFitStoredText, Running, InSplit, Gold, TypeOK
<1>11. ASSUME UNCHANGED <<text, goldVars, pc, plan>> PROVE Rest'
  BY <1>11 DEF Apart, Unlabelled, Emptied, Filled, Checked, LabelsAreOnGold,
     LabelsFitStoredText, Running, InSplit, Gold, goldVars
<1>12. CASE LoadPending \/ UNCHANGED vars \/ \E a \in Articles : Analyse(a)
  BY <1>11, <1>12 DEF LoadPending, Analyse, vars
<1>13. QED
  BY <1>1, <1>3, <1>4, <1>5, <1>6, <1>7, <1>8, <1>9, <1>10, <1>12 DEF Next

LEMMA InductiveInvariant == Spec => []IInv
BY InitIInv, NextIInv, PTL DEF Spec


\* Every variable keeps its type.
THEOREM TypeCorrect == Spec => []TypeOK
<1>1. IInv => TypeOK
  BY DEF IInv
<1>2. QED BY <1>1, InductiveInvariant, PTL

\* Wherever the loads of several splits stop, no label is left without its
\* gold row: gold.py deletes labels first and inserts them last.
THEOREM LabelsAlwaysOnGold == Spec => []LabelsAreOnGold
<1>1. IInv => LabelsAreOnGold
  BY DEF IInv
<1>2. QED BY <1>1, InductiveInvariant, PTL

\* Every stored label's offsets index the stored text: what check_stored_text
\* saw still holds when the labels are inserted, since nobody rewrites a row.
THEOREM LabelsAlwaysFitStoredText == Spec => []LabelsFitStoredText
<1>1. IInv => LabelsFitStoredText
  BY DEF IInv
<1>2. QED BY <1>1, InductiveInvariant, PTL

\* A load that reports success has replaced its split by the edition it read.
THEOREM LoadReplacesTheSplit == Spec => LoadedIsTheEdition
<1>1. ASSUME IInv, [Next]_vars
      PROVE  \A l \in Loaders :
               pc[l] = "label" /\ pc'[l] = "done"
               => LET stored == {a \in Articles : split'[a] = plan[l].split}
                  IN  stored = plan[l].articles /\ labels' \cap stored = plan[l].labelled
  <2> SUFFICES ASSUME NEW l \in Loaders, pc[l] = "label", pc'[l] = "done"
               PROVE  LET stored == {a \in Articles : split'[a] = plan[l].split}
                      IN  stored = plan[l].articles /\ labels' \cap stored = plan[l].labelled
    OBVIOUS
  <2>1. /\ InSplit(plan[l].split) = plan[l].articles
        /\ labels \cap plan[l].articles = {}
        /\ plan[l].labelled \subseteq plan[l].articles
    BY <1>1, PlanIsConsistent DEF IInv, Filled
  <2>2. InsertLabels(l)
    <3>1. \A m \in Loaders : \A c :
            /\ [pc EXCEPT ![m] = c][m] = c
            /\ \A k \in Loaders \ {m} : [pc EXCEPT ![m] = c][k] = pc[k]
      <4>1. TypeOK BY <1>1 DEF IInv
      <4>2. DOMAIN pc = Loaders BY <4>1 DEF TypeOK
      <4>3. QED BY <4>2
    <3>2. ASSUME NEW m \in Loaders, NEW c, c # "done", pc' = [pc EXCEPT ![m] = c]
          PROVE  FALSE
      BY <1>1, <3>1, <3>2
    <3>3. ASSUME NEW m \in Loaders, m # l, NEW c, pc' = [pc EXCEPT ![m] = c]
          PROVE  FALSE
      BY <1>1, <3>1, <3>3
    <3>4. pc' # pc
      BY <1>1
    <3>5. ASSUME NEW m \in Loaders, InsertLabels(m) PROVE m = l
      BY <3>3, <3>5 DEF InsertLabels
    <3>6. ASSUME NEW m \in Loaders, CheckStoredText(m) PROVE FALSE
      BY <3>2, <3>6 DEF CheckStoredText
    <3>7. ASSUME NEW m \in Loaders, InsertArticles(m) PROVE FALSE
      BY <3>2, <3>7 DEF InsertArticles
    <3>8. QED
      BY <1>1, <3>2, <3>4, <3>5, <3>6, <3>7 DEF Next, Start, DeleteLabels, DeleteArticles,
         StoreArticles, Crash, Ingest, LoadPending, Analyse, vars
  <2>3. split' = split /\ labels' = labels \cup plan[l].labelled
    <3>1. pc' # [pc EXCEPT ![l] = "failed"]
      BY <1>1 DEF IInv, TypeOK
    <3>2. QED BY <2>2, <3>1 DEF InsertLabels
  <2>4. QED BY <2>1, <2>3 DEF InSplit
<1>2. QED BY <1>1, InductiveInvariant, PTL DEF Spec, LoadedIsTheEdition

\* Whatever the other split's loader is doing, a load touches only its own.
THEOREM LoadsStayInTheirSplit == Spec => OtherSplitUntouched
<1>1. ASSUME IInv, [Next]_vars
      PROVE  \A a \in Articles :
               split'[a] # split[a] \/ (a \in labels) # (a \in labels')
               => \E l \in Loaders : Running(l) /\ plan[l].split \in {split[a], split'[a]}
  <2> SUFFICES ASSUME NEW a \in Articles,
                      split'[a] # split[a] \/ (a \in labels) # (a \in labels')
               PROVE  \E l \in Loaders : Running(l) /\ plan[l].split \in {split[a], split'[a]}
    OBVIOUS
  <2> USE DEF Running
  <2>1. ASSUME NEW l \in Loaders, DeleteLabels(l)
        PROVE  Running(l) /\ plan[l].split \in {split[a], split'[a]}
    BY <1>1, <2>1 DEF DeleteLabels, InSplit
  <2>2. ASSUME NEW l \in Loaders, DeleteArticles(l)
        PROVE  Running(l) /\ plan[l].split \in {split[a], split'[a]}
    BY <1>1, <2>2 DEF DeleteArticles
  <2>3. ASSUME NEW l \in Loaders, InsertArticles(l)
        PROVE  Running(l) /\ plan[l].split \in {split[a], split'[a]}
    <3>1. labels' = labels /\ pc[l] = "insert"
      BY <2>3 DEF InsertArticles
    <3>2. split'[a] # split[a] => split'[a] = plan[l].split
      BY <2>3 DEF InsertArticles
    <3>3. QED BY <1>1, <3>1, <3>2
  <2>4. ASSUME NEW l \in Loaders, InsertLabels(l)
        PROVE  Running(l) /\ plan[l].split \in {split[a], split'[a]}
    <3>1. plan[l].labelled \subseteq InSplit(plan[l].split)
      BY <1>1, <2>4, PlanIsConsistent DEF IInv, Filled, InsertLabels
    <3>2. QED BY <1>1, <2>4, <3>1 DEF InsertLabels, InSplit
  <2>5. ASSUME UNCHANGED goldVars PROVE FALSE
    BY <1>1, <2>5 DEF goldVars
  <2>6. CASE UNCHANGED vars
    BY <2>5, <2>6 DEF vars
  <2>7. CASE Next
    BY <2>1, <2>2, <2>3, <2>4, <2>5, <2>7 DEF Next, Start, StoreArticles, CheckStoredText,
       Crash, Ingest, LoadPending, Analyse
  <2>8. QED BY <1>1, <2>6, <2>7
<1>2. QED BY <1>1, InductiveInvariant, PTL DEF Spec, OtherSplitUntouched

=============================================================================
