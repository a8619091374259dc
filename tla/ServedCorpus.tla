---------------------------- MODULE ServedCorpus ----------------------------
(***************************************************************************)
(* What a reader is served.  `analyses` is append-only and shared: the     *)
(* production pass (analyzer/__main__.py) and the evaluation sweep         *)
(* (evals/run_eval.py) both write it through save_analysis, which is two   *)
(* transactions, and article_latest_analysis (migrations/007) picks one    *)
(* row per article for the feed and the article page (api/routers/feed.py).*)
(* `make reanalyze` requeues what an older prompt version produced.        *)
(*                                                                         *)
(* Passes may overlap (`make analyze` beside the container), and nothing   *)
(* orders the INSERT and the UPDATE of the one with those of the other.    *)
(*                                                                         *)
(* When an article is due and how its attempts are counted is              *)
(* AnalysisQueue's: here a pass may load any that waits, and a charge may  *)
(* be its last.  The page and the feed only read.                          *)
(***************************************************************************)
EXTENDS Naturals, Sequences

CONSTANTS
  Articles,
  Analyzers,   \* production passes that may run at one time...
  Container,   \* ...and the one of them that compose keeps running
  Sweeps,      \* evaluation runs
  Categories,
  None,        \* SQL NULL
  CanCrash,    \* may a writer die between two of its transactions?
  MaxRows,     \* bound on the rows of analyses
  MaxVersion   \* bound on the prompt versions released

ASSUME Names ==
  None \notin Categories /\ Container \in Analyzers /\ Analyzers \cap Sweeps = {}
ASSUME Bounds == MaxRows \in Nat /\ MaxVersion \in Nat \ {0} /\ CanCrash \in BOOLEAN

Writers == Analyzers \cup Sweeps

\* "production" is the fixed configuration of analyzer/__main__.py, "label" a
\* sweep that differs from it in what the view does not look at (a source
\* label, another model, an older prompt), "arm" one that differs in what it
\* does look at (grammar_mode, or the lead withheld).
Kinds == {"production", "label", "arm"}

VARIABLES
  status,    \* articles.status
  category,  \* articles.category
  gold,      \* articles in gold_articles
  rows,      \* analyses, in created_at order; by tells whose run_id it is
  todo,      \* what each pass loaded and has not finished with
  charged,   \* FailureTracker.article_ids of each pass
  pc,        \* where each writer stands; a reply it has not inserted is memory
  at,        \* the analysis_id its INSERT returned
  image,     \* PROMPT_VERSION in each analyzer's process
  current    \* PROMPT_VERSION in the checkout, CURRENT_PROMPT to make

writerVars == <<pc, at>>
passVars == <<todo, charged, image>>
tables == <<status, category, gold, rows>>
vars == <<tables, passVars, writerVars, current>>

Analysis ==
  [article: Articles, kind: Kinds, version: 1..MaxVersion,
   category: Categories \cup {None}, flagged: BOOLEAN]

\* A reply that does not parse carries neither category nor findings.
WellFormed(an) == an.category = None => ~an.flagged

\* Mutant: only the newest row is looked at, and shown if it parsed.
Candidates_NewestOnly(a) ==
  LET mine == {i \in DOMAIN rows : rows[i].an.article = a /\ rows[i].an.kind # "arm"}
  IN  {i \in mine : rows[i].an.category # None /\ \A j \in mine : j <= i}

\* The rows the view article_latest_analysis chooses from...
Candidates(a) ==
  {i \in DOMAIN rows : /\ rows[i].an.article = a
                       /\ rows[i].an.kind # "arm"
                       /\ rows[i].an.category # None}

Served == {a \in Articles : Candidates(a) # {}}

\* ...and the one it shows; 0 where it has no row.
Latest(a) ==
  IF a \in Served
  THEN CHOOSE i \in Candidates(a) : \A j \in Candidates(a) : j <= i
  ELSE 0

\* STALE_ARTICLES of the Makefile.
Stale ==
  {a \in Articles \ gold : /\ status[a] = "analyzed"
                           /\ ~(a \in Served /\ rows[Latest(a)].an.version = current)}

\* A pass stands between its two writes about the article.
BetweenWrites(w, a) == pc[w] # "idle" /\ rows[at[w]].an.article = a

-----------------------------------------------------------------------------
Init ==
  /\ status = [a \in Articles |-> "absent"]
  /\ category = [a \in Articles |-> None]
  /\ gold = {}
  /\ rows = <<>>
  /\ todo = [w \in Analyzers |-> {}]
  /\ charged = [w \in Analyzers |-> {}]
  /\ pc = [w \in Writers |-> "idle"]
  /\ at = [w \in Writers |-> 0]
  /\ image = [w \in Analyzers |-> 1] /\ current = 1

\* Ingest, or a gold load, stores the row.
Arrive(a) ==
  /\ status[a] = "absent"
  /\ status' = [status EXCEPT ![a] = "pending"]
  /\ UNCHANGED <<category, gold, rows, passVars, writerVars, current>>

\* A gold load takes the article up or drops it; candidates.py samples
\* analysed ones.
Label(a) ==
  /\ status[a] # "absent"
  /\ gold' = IF a \in gold THEN gold \ {a} ELSE gold \cup {a}
  /\ UNCHANGED <<status, category, rows, passVars, writerVars, current>>

\* The container runs what its image holds, a pass by hand the checkout.
LoadPending(w) ==
  /\ pc[w] = "idle" /\ todo[w] = {} /\ charged[w] = {}
  /\ \E S \in SUBSET {a \in Articles \ gold : status[a] = "pending"} :
       S # {} /\ todo' = [todo EXCEPT ![w] = S]
  /\ image' = [image EXCEPT ![w] = IF w = Container THEN @ ELSE current]
  /\ UNCHANGED <<tables, charged, writerVars, current>>

\* The provider failed.  The pass charges the article and goes on without it,
\* or aborts and forgets its charges.
PassFailed(w, a) ==
  /\ pc[w] = "idle" /\ a \in todo[w]
  /\ \/ /\ todo' = [todo EXCEPT ![w] = @ \ {a}]
        /\ charged' = [charged EXCEPT ![w] = @ \cup {a}]
     \/ /\ todo' = [todo EXCEPT ![w] = {}]
        /\ charged' = [charged EXCEPT ![w] = {}]
  /\ UNCHANGED <<tables, image, writerVars, current>>

\* bump_attempts, at the end of the pass and by id alone, retires those whose
\* last attempt it was.
BumpAttempts(w) ==
  /\ pc[w] = "idle" /\ todo[w] = {} /\ charged[w] # {}
  /\ \E S \in SUBSET charged[w] :
       status' = [a \in Articles |-> IF a \in S THEN "failed_permanent" ELSE status[a]]
  /\ charged' = [charged EXCEPT ![w] = {}]
  /\ UNCHANGED <<category, gold, rows, todo, image, writerVars, current>>

\* A writer is done with the article in hand.
Leave(w) ==
  /\ pc' = [pc EXCEPT ![w] = "idle"]
  /\ at' = [at EXCEPT ![w] = 0]

\* What a writer does once analysis i and its findings are stored.
AfterSave(w, i) ==
  IF w \in Analyzers
  THEN /\ pc' = [pc EXCEPT ![w] = "mark"]
       /\ at' = [at EXCEPT ![w] = i]
  ELSE Leave(w)

\* What an INSERT adds.  Whether the findings are in, whether a pass has
\* written the verdict back, and whether another pass stood between its two
\* writes about the article at that moment are told for the properties' sake.
NewRow(w, an) ==
  [by |-> w, an |-> an, written |-> ~an.flagged, marked |-> FALSE,
   alone |-> \A v \in Analyzers \ {w} : ~BetweenWrites(v, an.article)]

\* Mutant: the findings are forgotten.
InsertAnalysis_Forgets(w, an) ==
  /\ pc[w] = "idle" /\ WellFormed(an)
  /\ Len(rows) < MaxRows
  /\ rows' = Append(rows, NewRow(w, an))
  /\ AfterSave(w, Len(rows) + 1)
  /\ UNCHANGED <<status, category, gold, passVars, current>>

\* The provider has replied to w; save_analysis, first transaction.
InsertAnalysis(w, an) ==
  /\ pc[w] = "idle" /\ WellFormed(an)
  /\ Len(rows) < MaxRows
  /\ rows' = Append(rows, NewRow(w, an))
  /\ IF an.flagged
     THEN /\ pc' = [pc EXCEPT ![w] = "findings"]
          /\ at' = [at EXCEPT ![w] = Len(rows) + 1]
     ELSE AfterSave(w, Len(rows) + 1)
  /\ UNCHANGED <<status, category, gold, passVars, current>>

PassReplied(w) ==
  \E an \in Analysis :
    /\ an.article \in todo[w]
    /\ an.kind = "production" /\ an.version = image[w]
    /\ InsertAnalysis(w, an)

\* A sweep loads the gold set once and goes on with what has left it since, so
\* any stored article may be among its own.
SweepReplied(s) ==
  \E an \in Analysis :
    /\ status[an.article] # "absent"
    /\ an.version <= current /\ (an.kind = "production" => an.version = current)
    /\ InsertAnalysis(s, an)

\* save_analysis, second transaction, when any quote survived verification.
InsertFindings(w) ==
  /\ pc[w] = "findings"
  /\ rows' = [rows EXCEPT ![at[w]].written = TRUE]
  /\ AfterSave(w, at[w])
  /\ UNCHANGED <<status, category, gold, passVars, current>>

\* Analysis an, which w has in hand, is written onto its article with the given
\* status and category; what became of the article meanwhile is not asked.
WriteBack(w, an, st, cat) ==
  /\ status' = [status EXCEPT ![an.article] = st]
  /\ category' = [category EXCEPT ![an.article] = cat]
  /\ rows' = [rows EXCEPT ![at[w]].marked = TRUE]
  /\ todo' = [todo EXCEPT ![w] = @ \ {an.article}]
  /\ Leave(w)
  /\ UNCHANGED <<gold, charged, image, current>>

\* Mutant: a reply that did not parse takes the category away.
MarkAnalyzed_NoCoalesce(w) ==
  /\ pc[w] = "mark"
  /\ LET an == rows[at[w]].an
     IN  WriteBack(w, an, IF an.category = None THEN "failed" ELSE "analyzed", an.category)

\* coalesce() keeps the category an article had when the reply did not parse.
MarkAnalyzed(w) ==
  /\ pc[w] = "mark"
  /\ LET an == rows[at[w]].an
     IN  IF an.category = None
         THEN WriteBack(w, an, "failed", category[an.article])
         ELSE WriteBack(w, an, "analyzed", an.category)

\* A process ends wherever it stands.
Stop(w) ==
  /\ Leave(w)
  /\ todo' = [v \in Analyzers |-> IF v = w THEN {} ELSE todo[v]]
  /\ charged' = [v \in Analyzers |-> IF v = w THEN {} ELSE charged[v]]

Crash(w) ==
  /\ CanCrash
  /\ pc[w] # "idle" \/ (w \in Analyzers /\ todo[w] \cup charged[w] # {})
  /\ Stop(w)
  /\ UNCHANGED <<tables, image, current>>

\* The checkout moves to a newer prompt...
Release ==
  /\ current < MaxVersion
  /\ current' = current + 1
  /\ UNCHANGED <<tables, passVars, writerVars>>

\* ...and `make pipeline` rebuilds the container, which ends its pass.
Rebuild ==
  /\ image[Container] # current
  /\ image' = [image EXCEPT ![Container] = current]
  /\ Stop(Container)
  /\ UNCHANGED <<tables, current>>

Reanalyze ==
  /\ Stale # {}
  /\ status' = [a \in Articles |-> IF a \in Stale THEN "pending" ELSE status[a]]
  /\ UNCHANGED <<category, gold, rows, passVars, writerVars, current>>

Next ==
  \/ \E a \in Articles : Arrive(a) \/ Label(a)
  \/ \E w \in Analyzers :
       \/ LoadPending(w) \/ PassReplied(w) \/ MarkAnalyzed(w) \/ BumpAttempts(w)
       \/ \E a \in Articles : PassFailed(w, a)
  \/ \E s \in Sweeps : SweepReplied(s)
  \/ \E w \in Writers : InsertFindings(w) \/ Crash(w)
  \/ Release \/ Rebuild \/ Reanalyze

Spec == Init /\ [][Next]_vars

-----------------------------------------------------------------------------
(***************************************************************************)
(* Properties.                                                             *)
(***************************************************************************)
Row ==
  [by : Writers, an : Analysis, written : BOOLEAN, marked : BOOLEAN, alone : BOOLEAN]

TypeOK ==
  /\ status \in [Articles -> {"absent", "pending", "analyzed", "failed", "failed_permanent"}]
  /\ category \in [Articles -> Categories \cup {None}]
  /\ gold \subseteq Articles
  /\ rows \in Seq(Row)
  /\ todo \in [Analyzers -> SUBSET Articles]
  /\ charged \in [Analyzers -> SUBSET Articles]
  /\ pc \in [Writers -> {"idle", "findings", "mark"}]
  /\ at \in [Writers -> 0..MaxRows]
  /\ image \in [Analyzers -> 1..MaxVersion] /\ current \in 1..MaxVersion

\* evals/audit_data.py:76 "the feed would list an article whose detail view has
\* nothing to show": an article with status analyzed has an analysis to serve,
\* and one with its findings in.  A verdict that a crash left without them is of
\* an article that still waits, unless another pass settled it.
AnalysedIsServed ==
  \A a \in Articles : status[a] = "analyzed" => \E i \in Candidates(a) : rows[i].written

\* The table is append-only: an article once served stays served, by the same
\* analysis or a newer one, through requeueing, failing replies and retirement.
OnceServedAlwaysServed ==
  [][\A a \in Articles : Latest(a)' >= Latest(a)]_vars

\* feed.py:34 "mark_analyzed() writes the verdict back onto the article": the
\* feed filters by articles.category and shows the category of the newest
\* analysis, of articles in any status.  The two differ only where no pass has
\* written that analysis back (a sweep's, one whose pass died or is still at
\* it), or where another pass stood between its own two writes about the
\* article when the analysis came in, so that it may write back an older one.
FilterMatchesVerdict ==
  \A a \in Served :
    rows[Latest(a)].marked /\ rows[Latest(a)].alone
      => category[a] = rows[Latest(a)].an.category

\* What the line above promises of every article that has left the queue.
FilterIsTheVerdict ==
  \A a \in Served :
    status[a] = "analyzed" => category[a] = rows[Latest(a)].an.category

\* migrations/007:41 "the newest analysis produced by the production
\* configuration".
ServedByProduction ==
  \A a \in Served : rows[Latest(a)].an.kind = "production"

\* store.py:129 "Persist one call and the findings that survived": an analysis
\* that flagged something is never served without what it flagged.
ServedIsWhole == \A a \in Served : rows[Latest(a)].written

\* Makefile "Requeueing is the whole repair": when reanalyze has nothing left
\* to requeue and the queue is drained under the current prompt, no article
\* outside the gold set is served from an older one.
RequeueingIsTheWholeRepair ==
  /\ image[Container] = current /\ Stale = {}
  /\ \A a \in Articles : status[a] # "pending"
  /\ \A w \in Writers : pc[w] = "idle"
  => \A a \in Served \ gold : rows[Latest(a)].an.version = current

=============================================================================
