--------------------------- MODULE AnalysisQueue ---------------------------
(***************************************************************************)
(* The analysis queue: src/analyzer/store.py and the pass that drives it,  *)
(* src/analyzer/__main__.py.  There is no queue table.  articles.status is *)
(* the queue, articles.attempts the retry counter, and the back-off is a   *)
(* WHERE clause; a pass reads the due articles once and then works from    *)
(* memory, one database transaction per call.                              *)
(*                                                                         *)
(* Passes may overlap: the compose service loops for ever and nothing      *)
(* stops an operator from running `make analyze` beside it.  A pass may    *)
(* die between any two of its transactions (an uncaught exception, a       *)
(* restart): what it held in memory is lost, the tables stay.              *)
(*                                                                         *)
(* A --dry-run pass writes nothing, so it is a stuttering step here.       *)
(*                                                                         *)
(* A definition marked "Mutant", here and in the other modules, is used by *)
(* no action: put in place of the definition its name begins with, it is a *)
(* mistake that a property must notice.                                    *)
(***************************************************************************)
EXTENDS Integers, FiniteSets

CONSTANTS
  Articles,                   \* article ids; uuidv7 sorts as an integer does
  Passes,                     \* analyzer processes that may run at one time
  Rejected,                   \* articles whose request a healthy backend refuses
  Limits,                     \* values of --limit; |Articles| or more is no limit
  MAX_ATTEMPTS,               \* store.py:25
  RETRY_BACKOFF_HOURS,        \* store.py:28
  CONSECUTIVE_FAILURE_LIMIT   \* store.py:31

ASSUME ArticlesAssumption == Articles \subseteq Nat /\ Rejected \subseteq Articles
ASSUME PassesAssumption == IsFiniteSet(Passes)
ASSUME LimitsAssumption == Limits \subseteq Nat \ {0}
ASSUME PolicyAssumption ==
  /\ MAX_ATTEMPTS \in Nat \ {0}
  /\ RETRY_BACKOFF_HOURS \in Nat \ {0}
  /\ CONSECUTIVE_FAILURE_LIMIT \in Nat \ {0}

VARIABLES
  status,       \* articles.status; "absent" before ingest stores the row
  attempts,     \* articles.attempts
  age,          \* hours since articles.last_attempt_at, saturating at Rested
  rows,         \* analyses, as pairs of an article and how its reply parsed
  gold,         \* articles that have a gold_articles row
  up,           \* does the inference backend answer?
  pc,           \* where each pass stands
  todo,         \* articles the pass loaded and has not finished with
  consecutive,  \* FailureTracker.consecutive
  charged,      \* FailureTracker.article_ids
  verdict       \* how the reply in hand parsed

articleVars == <<status, attempts, age>>
trackerVars == <<consecutive, charged>>
passVars == <<pc, todo, consecutive, charged, verdict>>
vars == <<articleVars, rows, gold, up, passVars>>

Statuses == {"pending", "analyzed", "failed", "failed_permanent"}
Verdicts == {"parsed", "unparsed"}

(***************************************************************************)
(* The back-off only ever compares last_attempt_at with now() minus at     *)
(* most RETRY_BACKOFF_HOURS * (MAX_ATTEMPTS - 1) hours, so an age beyond   *)
(* that is as good as any larger one, and as good as the NULL of an        *)
(* article never charged.                                                  *)
(***************************************************************************)
Rested == RETRY_BACKOFF_HOURS * MAX_ATTEMPTS
BackOff(n) == RETRY_BACKOFF_HOURS * n

Stored == {a \in Articles : status[a] # "absent"}
Pending == {a \in Articles : status[a] = "pending"}

\* The loop variable of _run_pass: the lowest id not yet finished with.
Current(p, a) == a \in todo[p] /\ \A b \in todo[p] : a <= b

\* Mutant: <= for < in the back-off clause.
Due_Early == {a \in Pending \ gold : age[a] >= BackOff(attempts[a])}

Due == {a \in Pending \ gold : age[a] > BackOff(attempts[a])}

\* ORDER BY id LIMIT n.
FirstById(S, n) == {a \in S : Cardinality({b \in S : b < a}) < n}

\* Mutant: any reply counts as an analysis.
Outcome_Any(v) == "analyzed"
\* store.py:107 outcome()
Outcome(v) == IF v = "parsed" THEN "analyzed" ELSE "failed"

\* Mutant: the pass aborts one failure too early.
Aborts_Early(n) == n + 1 >= CONSECUTIVE_FAILURE_LIMIT

\* store.py:56, the consecutive-failure limit.
Aborts(n) == n >= CONSECUTIVE_FAILURE_LIMIT

\* Mutants: the ceiling is compared with the attempts before, or beyond, this one.
Retires_Late(n) == n >= MAX_ATTEMPTS
Retires_Early(n) == n + 2 >= MAX_ATTEMPTS

\* store.py:229, the ceiling.
Retires(n) == n + 1 >= MAX_ATTEMPTS

-----------------------------------------------------------------------------
Init ==
  /\ gold = {}
  /\ status = [a \in Articles |-> "absent"]
  /\ attempts = [a \in Articles |-> 0]
  /\ age = [a \in Articles |-> Rested]
  /\ rows = {}
  /\ up \in BOOLEAN
  /\ pc = [p \in Passes |-> "idle"]
  /\ todo = [p \in Passes |-> {}]
  /\ consecutive = [p \in Passes |-> 0]
  /\ charged = [p \in Passes |-> {}]
  /\ verdict = [p \in Passes |-> "parsed"]

(***************************************************************************)
(* One pass.  An empty queue ends it at once, which changes nothing.       *)
(***************************************************************************)
LoadPending(p, limit) ==
  /\ pc[p] = "idle"
  /\ Due # {}
  /\ pc' = [pc EXCEPT ![p] = "loop"]
  /\ todo' = [todo EXCEPT ![p] = FirstById(Due, limit)]
  /\ UNCHANGED <<articleVars, rows, gold, up, trackerVars, verdict>>

\* The provider raised ProviderError: the charge is only collected.  At the
\* limit every charge collected so far is dropped and the loop is left.
RecordFailure(p, a) ==
  /\ pc[p] = "loop" /\ Current(p, a)
  /\ ~up \/ a \in Rejected
  /\ consecutive' = [consecutive EXCEPT ![p] = @ + 1]
  /\ IF Aborts(consecutive[p] + 1)
     THEN /\ charged' = [charged EXCEPT ![p] = {}]
          /\ todo' = [todo EXCEPT ![p] = {}]
     ELSE /\ charged' = [charged EXCEPT ![p] = @ \cup {a}]
          /\ todo' = [todo EXCEPT ![p] = @ \ {a}]
  /\ UNCHANGED <<articleVars, rows, gold, up, pc, verdict>>

\* The provider replied; the reply parses or it does not.
RecordSuccess(p, a) ==
  /\ pc[p] = "loop" /\ Current(p, a)
  /\ up /\ a \notin Rejected
  /\ consecutive' = [consecutive EXCEPT ![p] = 0]
  /\ \E v \in Verdicts : verdict' = [verdict EXCEPT ![p] = v]
  /\ pc' = [pc EXCEPT ![p] = "save"]
  /\ UNCHANGED <<articleVars, rows, gold, up, todo, charged>>

\* The INSERT INTO analyses.  The findings that follow in a transaction of
\* their own are the business of ServedCorpus.
SaveAnalysis(p, a) ==
  /\ pc[p] = "save" /\ Current(p, a)
  /\ rows' = rows \cup {<<a, verdict[p]>>}
  /\ pc' = [pc EXCEPT ![p] = "mark"]
  /\ UNCHANGED <<articleVars, gold, up, todo, trackerVars, verdict>>

\* An UPDATE by id alone: it does not ask what the status is by now.
MarkAnalyzed(p, a) ==
  /\ pc[p] = "mark" /\ Current(p, a)
  /\ status' = [status EXCEPT ![a] = Outcome(verdict[p])]
  /\ todo' = [todo EXCEPT ![p] = @ \ {a}]
  /\ pc' = [pc EXCEPT ![p] = "loop"]
  /\ UNCHANGED <<attempts, age, rows, gold, up, trackerVars, verdict>>

\* Mutant: the FailureTracker outlives the pass.
BumpAttempts_KeepsTracker(p) ==
  /\ pc[p] = "loop" /\ todo[p] = {}
  /\ attempts' = [a \in Articles |->
       IF a \in charged[p] THEN attempts[a] + 1 ELSE attempts[a]]
  /\ age' = [a \in Articles |-> IF a \in charged[p] THEN 0 ELSE age[a]]
  /\ status' = [a \in Articles |->
       IF a \in charged[p] /\ Retires(attempts[a])
       THEN "failed_permanent" ELSE status[a]]
  /\ pc' = [pc EXCEPT ![p] = "idle"]
  /\ UNCHANGED <<rows, gold, up, todo, trackerVars, verdict>>

\* One UPDATE for the whole batch, again by id alone, and the end of the pass.
BumpAttempts(p) ==
  /\ pc[p] = "loop" /\ todo[p] = {}
  /\ attempts' = [a \in Articles |->
       IF a \in charged[p] THEN attempts[a] + 1 ELSE attempts[a]]
  /\ age' = [a \in Articles |-> IF a \in charged[p] THEN 0 ELSE age[a]]
  /\ status' = [a \in Articles |->
       IF a \in charged[p] /\ Retires(attempts[a])
       THEN "failed_permanent" ELSE status[a]]
  /\ pc' = [pc EXCEPT ![p] = "idle"]
  /\ consecutive' = [consecutive EXCEPT ![p] = 0]
  /\ charged' = [charged EXCEPT ![p] = {}]
  /\ UNCHANGED <<rows, gold, up, todo, verdict>>

\* Anything but ProviderError ends the process...
Crash(p) ==
  /\ pc[p] \notin {"idle", "down"}
  /\ pc' = [pc EXCEPT ![p] = "down"]
  /\ todo' = [todo EXCEPT ![p] = {}]
  /\ consecutive' = [consecutive EXCEPT ![p] = 0]
  /\ charged' = [charged EXCEPT ![p] = {}]
  /\ UNCHANGED <<articleVars, rows, gold, up, verdict>>

\* ...and compose, under `restart: unless-stopped`, starts it again.
Restart(p) ==
  /\ pc[p] = "down"
  /\ pc' = [pc EXCEPT ![p] = "idle"]
  /\ UNCHANGED <<articleVars, rows, gold, up, todo, trackerVars, verdict>>

Step(p) ==
  \/ \E limit \in Limits : LoadPending(p, limit)
  \/ \E a \in Articles : \/ RecordFailure(p, a)
                         \/ RecordSuccess(p, a)
                         \/ SaveAnalysis(p, a)
                         \/ MarkAnalyzed(p, a)
  \/ BumpAttempts(p)

-----------------------------------------------------------------------------
(***************************************************************************)
(* What happens around the passes.                                         *)
(***************************************************************************)

\* ingest/store.py save_articles, or a gold load (evals/gold.py _load): a new
\* row enters with the column defaults.
Arrive(a) ==
  /\ status[a] = "absent"
  /\ status' = [status EXCEPT ![a] = "pending"]
  /\ UNCHANGED <<attempts, age, rows, gold, up, passVars>>

\* `make reanalyze`.  Which analysed articles predate the current prompt is
\* not tracked here, so any set of them may be requeued.
Reanalyze(S) ==
  /\ \A a \in S : status[a] = "analyzed" /\ a \notin gold
  /\ status' = [a \in Articles |-> IF a \in S THEN "pending" ELSE status[a]]
  /\ attempts' = [a \in Articles |-> IF a \in S THEN 0 ELSE attempts[a]]
  /\ age' = [a \in Articles |-> IF a \in S THEN Rested ELSE age[a]]
  /\ UNCHANGED <<rows, gold, up, passVars>>

\* `make gold-load` deletes the gold rows of a split in one transaction and
\* inserts those of its CSVs in a later one.  Nothing keeps it off an article
\* that a pass has in hand.
LoadGold(S) ==
  /\ S \subseteq Stored
  /\ gold' \in {gold \ S, gold \cup S}
  /\ UNCHANGED <<articleVars, rows, up, passVars>>

Hour ==
  /\ age' = [a \in Articles |-> IF age[a] < Rested THEN age[a] + 1 ELSE age[a]]
  /\ UNCHANGED <<status, attempts, rows, gold, up, passVars>>

Backend ==
  /\ up' = ~up
  /\ UNCHANGED <<articleVars, rows, gold, passVars>>

Next ==
  \/ \E p \in Passes : Step(p) \/ Crash(p) \/ Restart(p)
  \/ \E a \in Articles : Arrive(a)
  \/ \E S \in SUBSET Articles : Reanalyze(S) \/ LoadGold(S)
  \/ Hour
  \/ Backend

Spec == Init /\ [][Next]_vars

\* A running pass goes on until it ends, `--interval` starts the next one and
\* compose a dead one; time passes.  Nothing is promised of crashes, of the
\* backend or of the operator.
Fairness ==
  /\ WF_vars(Hour)
  /\ \A p \in Passes : WF_vars(Step(p)) /\ WF_vars(Restart(p))
FairSpec == Spec /\ Fairness

-----------------------------------------------------------------------------
(***************************************************************************)
(* Properties.                                                             *)
(***************************************************************************)

TypeOK ==
  /\ status \in [Articles -> Statuses \cup {"absent"}]
  /\ attempts \in [Articles -> Nat]
  /\ age \in [Articles -> Nat]
  /\ rows \subseteq Articles \X Verdicts
  /\ gold \subseteq Articles
  /\ up \in BOOLEAN
  /\ pc \in [Passes -> {"idle", "loop", "save", "mark", "down"}]
  /\ todo \in [Passes -> SUBSET Articles]
  /\ consecutive \in [Passes -> Nat]
  /\ charged \in [Passes -> SUBSET Articles]
  /\ verdict \in [Passes -> Verdicts]

\* What a pass still has to write about.
Held(p) == todo[p] \cup charged[p]

\* evals/audit_data.py "queue is not stuck": no article waits in the queue with
\* its attempts used up, however passes overlap and wherever they crash.
QueueIsNotStuck ==
  \A a \in Articles : status[a] = "pending" => attempts[a] < MAX_ATTEMPTS

\* evals/audit_data.py "analysed articles carry an analysis": save_analysis and
\* mark_analyzed are two transactions and the order between them is what makes
\* a crash harmless.  Likewise a failed article has the reply that failed.
SettledCarriesAnalysis ==
  \A a \in Articles :
    /\ status[a] = "analyzed" => <<a, "parsed">> \in rows
    /\ status[a] = "failed" => <<a, "unparsed">> \in rows

\* An article is only dropped once it has used up its attempts.
RetiredIsExhausted ==
  \A a \in Articles : status[a] = "failed_permanent" => attempts[a] >= MAX_ATTEMPTS

\* Passes that overlap can charge an article past the ceiling, by at most one
\* each: whoever still holds it may add one more and nobody loads it again.
OverrunBounded ==
  \A a \in Articles :
    attempts[a] + Cardinality({p \in Passes : a \in Held(p)})
      <= MAX_ATTEMPTS - 1 + Cardinality(Passes)

\* test_analyzer_queue.py test_an_unbroken_run_of_failures_charges_nobody: a
\* pass that has reached the limit has nothing left to charge or to analyse.
AbortForgets ==
  \A p \in Passes : consecutive[p] >= CONSECUTIVE_FAILURE_LIMIT => Held(p) = {}

\* store.py:4 "a row that is being worked on is simply one whose status has not
\* changed yet": what a pass holds, to try or to charge, is in the queue.  (Not
\* outside the gold set: GoldLoad's ProductionSparesGold is about that.)
HeldIsPending == \A p \in Passes : Held(p) \subseteq Pending

\* The back-off of store.py:92: an article already charged n times is charged
\* again only n * RETRY_BACKOFF_HOURS hours or more after the last charge,
\* although the WHERE clause was evaluated when the pass began.
BackOffRespected ==
  [][\A a \in Articles :
       attempts'[a] > attempts[a] => age[a] > BackOff(attempts[a])]_vars

\* What the queue promises the rest of the system, with the passes hidden.
Contract == INSTANCE QueueContract WITH
  status <- status, attempts <- attempts, age <- age, replies <- rows, gold <- gold
ImplementsContract == Contract!Spec

\* From some point on the backend answers and no process dies.
Calm == <>[](up /\ \A p \in Passes : pc[p] # "down")

Waiting(a) == a \in Pending \ gold

\* Every article that waits leaves the queue, analysed, failed or retired.
QueueDrains ==
  Calm => \A a \in Articles : Waiting(a) ~> ~Waiting(a)

\* migrations/003_analysis_queue.sql:4-7: the counter exists so that an article
\* whose request always fails is not retried for ever.
RejectedIsDropped ==
  Calm => \A a \in Rejected : Waiting(a) ~> ~Waiting(a)

\* docker-compose.yml:95-96: a backend that is down charges nobody, so only an
\* article that a healthy backend refuses can run out of attempts.
OutageSparesTheCorpus ==
  \A a \in Articles : status[a] = "failed_permanent" => a \in Rejected

=============================================================================
