------------------------------ MODULE GoldLoad ------------------------------
(***************************************************************************)
(* The loader of the evaluation set, evals/gold.py: `make gold-load`       *)
(* rebuilds one split of gold_articles and gold_labels from its CSVs, a    *)
(* transaction per statement, any of which may be the last, beside the     *)
(* other split's loader, ingest and the production pass.  The tables are   *)
(* what keeps load_pending (analyzer/store.py) off the evaluation set.     *)
(*                                                                         *)
(* The INSERT INTO sources changes nothing modelled here.  How a pass goes *)
(* about its articles is AnalysisQueue's.                                  *)
(***************************************************************************)
EXTENDS Naturals

CONSTANTS
  Articles,  \* by url_hash
  Splits,    \* SPLITS, main and holdout
  Loaders,   \* processes running evals/gold.py
  Editions,  \* what the CSVs of a split may say
  None       \* SQL NULL

\* read_labels refuses a label of an article that is not in the set.
ASSUME Consistent ==
  Editions \subseteq
    {e \in [split: Splits, articles: SUBSET Articles, labelled: SUBSET Articles] :
       e.labelled \subseteq e.articles}
ASSUME NoneIsNoSplit == None \notin Splits

VARIABLES
  text,    \* the articles row: absent, with the text of the CSV, or with another
  split,   \* gold_articles.split; None without a row
  labels,  \* articles with rows in gold_labels
  pc,      \* where each loader stands; "done" and "failed" are its exit codes
  plan,    \* the edition it read
  todo,    \* what the production pass has loaded and not finished with
  produced \* articles analysed by a production pass

goldVars == <<split, labels>>
passVars == <<todo, produced>>
vars == <<text, goldVars, pc, plan, passVars>>

InSplit(s) == {a \in Articles : split[a] = s}
Gold == {a \in Articles : split[a] # None}
Running(l) == pc[l] \notin {"idle", "done", "failed"}

Init ==
  /\ text = [a \in Articles |-> "absent"]
  /\ split = [a \in Articles |-> None]
  /\ labels = {}
  /\ pc = [l \in Loaders |-> "idle"]
  /\ plan \in [Loaders -> Editions]
  /\ todo = {} /\ produced = {}

-----------------------------------------------------------------------------
(***************************************************************************)
(* _load, a transaction at a time.  Nobody loads one split twice at once.  *)
(***************************************************************************)

\* The CSVs are read and resolved before the first of them.
Start(l, e) ==
  /\ ~Running(l)
  /\ \A m \in Loaders \ {l} : Running(m) => plan[m].split # e.split
  /\ plan' = [plan EXCEPT ![l] = e]
  /\ pc' = [pc EXCEPT ![l] = "labels"]
  /\ UNCHANGED <<text, goldVars, passVars>>

\* Mutant: the labels of every split are deleted.
DeleteLabels_OfEverySplit(l) ==
  /\ pc[l] = "labels"
  /\ labels' = {}
  /\ pc' = [pc EXCEPT ![l] = "articles"]
  /\ UNCHANGED <<text, split, plan, passVars>>

\* Mutant: gold_labels is left to a cascade that is not there.
DeleteLabels_Cascade(l) ==
  /\ pc[l] = "labels"
  /\ pc' = [pc EXCEPT ![l] = "articles"]
  /\ UNCHANGED <<text, goldVars, plan, passVars>>

DeleteLabels(l) ==
  /\ pc[l] = "labels"
  /\ labels' = labels \ InSplit(plan[l].split)
  /\ pc' = [pc EXCEPT ![l] = "articles"]
  /\ UNCHANGED <<text, split, plan, passVars>>

\* Mutant: only what the new edition names is deleted.
DeleteArticles_Named(l) ==
  /\ pc[l] = "articles"
  /\ split' = [a \in Articles |->
       IF a \in plan[l].articles /\ split[a] = plan[l].split THEN None ELSE split[a]]
  /\ pc' = [pc EXCEPT ![l] = "store"]
  /\ UNCHANGED <<text, labels, plan, passVars>>

DeleteArticles(l) ==
  /\ pc[l] = "articles"
  /\ split' = [a \in Articles |-> IF split[a] = plan[l].split THEN None ELSE split[a]]
  /\ pc' = [pc EXCEPT ![l] = "store"]
  /\ UNCHANGED <<text, labels, plan, passVars>>

\* ON CONFLICT (url_hash) DO NOTHING keeps the text of a row already there.
StoreArticles(l) ==
  /\ pc[l] = "store"
  /\ text' = [a \in Articles |->
       IF a \in plan[l].articles /\ text[a] = "absent" THEN "csv" ELSE text[a]]
  /\ pc' = [pc EXCEPT ![l] = "check"]
  /\ UNCHANGED <<goldVars, plan, passVars>>

\* Mutant: the stored text is taken on trust.
CheckStoredText_Trusts(l) ==
  /\ pc[l] = "check"
  /\ pc' = [pc EXCEPT ![l] = "insert"]
  /\ UNCHANGED <<text, goldVars, plan, passVars>>

CheckStoredText(l) ==
  /\ pc[l] = "check"
  /\ pc' = [pc EXCEPT ![l] =
       IF \A a \in plan[l].articles : text[a] = "csv" THEN "insert" ELSE "failed"]
  /\ UNCHANGED <<text, goldVars, plan, passVars>>

\* article_id is the primary key: an article of the other split is an error.
InsertArticles(l) ==
  /\ pc[l] = "insert"
  /\ IF plan[l].articles \cap Gold = {}
     THEN /\ split' = [a \in Articles |->
               IF a \in plan[l].articles THEN plan[l].split ELSE split[a]]
          /\ pc' = [pc EXCEPT ![l] = "label"]
     ELSE /\ pc' = [pc EXCEPT ![l] = "failed"]
          /\ UNCHANGED split
  /\ UNCHANGED <<text, labels, plan, passVars>>

\* gold_labels_span_unique: a label left over is an error.
InsertLabels(l) ==
  /\ pc[l] = "label"
  /\ IF plan[l].labelled \cap labels = {}
     THEN /\ labels' = labels \cup plan[l].labelled
          /\ pc' = [pc EXCEPT ![l] = "done"]
     ELSE /\ pc' = [pc EXCEPT ![l] = "failed"]
          /\ UNCHANGED labels
  /\ UNCHANGED <<text, split, plan, passVars>>

Crash(l) ==
  /\ Running(l)
  /\ pc' = [pc EXCEPT ![l] = "failed"]
  /\ UNCHANGED <<text, goldVars, plan, passVars>>

-----------------------------------------------------------------------------
(***************************************************************************)
(* Around the loaders.                                                     *)
(***************************************************************************)

\* save_articles finds the address first; the portal may have other words.
Ingest(a) ==
  /\ text[a] = "absent"
  /\ \E t \in {"csv", "other"} : text' = [text EXCEPT ![a] = t]
  /\ UNCHANGED <<goldVars, pc, plan, passVars>>

LoadPending ==
  /\ todo = {}
  /\ todo' = {a \in Articles \ (Gold \cup produced) : text[a] # "absent"}
  /\ todo' # {}
  /\ UNCHANGED <<text, goldVars, pc, plan, produced>>

Analyse(a) ==
  /\ a \in todo
  /\ todo' = todo \ {a}
  /\ produced' = produced \cup {a}
  /\ UNCHANGED <<text, goldVars, pc, plan>>

Next ==
  \/ \E l \in Loaders :
       \/ \E e \in Editions : Start(l, e)
       \/ DeleteLabels(l) \/ DeleteArticles(l) \/ StoreArticles(l)
       \/ CheckStoredText(l) \/ InsertArticles(l) \/ InsertLabels(l)
       \/ Crash(l)
  \/ \E a \in Articles : Ingest(a) \/ Analyse(a)
  \/ LoadPending

Spec == Init /\ [][Next]_vars

-----------------------------------------------------------------------------
(***************************************************************************)
(* Properties.                                                             *)
(***************************************************************************)
TypeOK ==
  /\ text \in [Articles -> {"absent", "csv", "other"}]
  /\ split \in [Articles -> Splits \cup {None}]
  /\ labels \subseteq Articles
  /\ pc \in [Loaders -> {"idle", "labels", "articles", "store", "check", "insert",
                         "label", "done", "failed"}]
  /\ plan \in [Loaders -> Editions]
  /\ todo \subseteq Articles /\ produced \subseteq Articles

\* Labels never outlive the gold row they belong to, wherever a load stops:
\* gold_labels has no foreign key that would see to it, and a label left over
\* makes every later load of its article fail.
LabelsAreOnGold == labels \subseteq Gold

\* check_stored_text: every label's offsets index the text that is stored,
\* although ingest may have stored the address first.
LabelsFitStoredText == \A a \in labels : text[a] = "csv"

\* gold.py:194 "Replace one split of the stored gold set with what its CSVs
\* say": a load that reports success leaves neither more nor less than that.
LoadedIsTheEdition ==
  [][\A l \in Loaders :
       pc[l] = "label" /\ pc'[l] = "done"
       => LET stored == {a \in Articles : split'[a] = plan[l].split}
          IN  stored = plan[l].articles /\ labels' \cap stored = plan[l].labelled]_vars

\* gold.py:201 "reloading the main set cannot silently drop the holdout": what
\* a load changes is of its own split, before or after.
OtherSplitUntouched ==
  [][\A a \in Articles :
       split'[a] # split[a] \/ (a \in labels) # (a \in labels')
       => \E l \in Loaders : Running(l) /\ plan[l].split \in {split[a], split'[a]}]_vars

\* store.py:78 "Gold articles are excluded": a production pass never analyses
\* an article of the evaluation set.
ProductionSparesGold ==
  [][\A a \in produced' \ produced : split[a] = None]_vars

=============================================================================
