# Verification of news-aggregator

TLA+ models of the program in `src/` (Python), `web/` (TypeScript) and
`migrations/` (SQL), the TLC configurations that check them on small instances,
and proofs, checked by the TLA+ proof system, of the safety properties for every
value of the constants. Paths below are relative to the root of the repository.

1. [The system](#1-the-system)
2. [Modules](#2-modules)
3. [Runs, bounds and fairness](#3-runs-bounds-and-fairness)
4. [Where the code falls short of what it says](#4-where-the-code-falls-short-of-what-it-says)
5. [Proofs](#5-proofs)
6. [What is not modelled](#6-what-is-not-modelled)
7. [Plan](#7-plan)

## 1. The system

The program collects Polish news (`ingest`), has a language model name the
language techniques in each headline and lead (`analyzer`), and serves the
result to readers (`api`, `web`). A second path, `evals`, measures the model on a
hand-labelled set of articles. The parts never call each other: they are
processes that meet in one PostgreSQL database.

`src/db.py` opens a connection per call and commits it at the end, so **every
call into a store module is a transaction of its own**, and nothing else is
atomic. That is the grain of every model here: one action per transaction, and
between two of them anything else may happen, the death of the process included.
There are no locks, no claims on rows and no `SELECT ... FOR UPDATE`; what keeps
the tables consistent is the order of the transactions and a few constraints.

### Components

**Analysis queue and pass** (`src/analyzer/store.py`, `src/analyzer/__main__.py`).
State: `articles.status`, `attempts` and `last_attempt_at`; in memory the list a
pass has loaded and a `FailureTracker`. Operations: load what is due, call the
provider, save the analysis, mark the article, at the end charge what failed;
`make reanalyze` puts analysed articles back. Hard: passes overlap (`make
analyze` beside the container), die at any transaction, and guess from a run of
three failures whether the backend or the articles are at fault. Correct when no
article is stuck, dropped early or settled without an analysis, back-off is
kept, and what waits is eventually dealt with.

**Served analyses** (`article_latest_analysis` of `migrations/007`,
`save_analysis`, `mark_analyzed`, `src/api/routers/feed.py`). State: `analyses`
and `analysis_findings`, append-only, written by production and by evaluation sweeps
alike. Hard: an analysis and its findings are two transactions, the article page
is two queries, the newest row wins whoever wrote it, overlapping passes write their
verdicts back in another order than they stored them, and prompt releases make
served analyses stale. Correct when an analysed article always has something to
show, stays served, and is filtered by what is shown of it.

**Gold set loader** (`src/evals/gold.py`). State: `gold_articles`,
`gold_labels`, per split. A load deletes its split and rebuilds it in six
transactions and may refuse the CSV at the fourth. Hard: what it leaves behind
when it stops, the other split's loader, ingest storing the same address with
other words, and the production pass, which must stay off these articles.

**Ingest pass** (`src/ingest/__main__.py`, `store.py`, `fetch.py`). State:
`sources` with the validators of the next conditional GET, `articles`,
`fetch_errors`. Hard: a validator vouches for articles that are committed in
another transaction, and a fetch time is that of the write; passes overlap; one source
must not harm another. Correct when a 304 hides no article, or no other than that gap
explains, and what a reachable source goes on showing is collected.

**Accounts** (`src/api/security.py`, `routers/auth.py`, `routers/me.py`,
`migrations/008`, `009`). State: users, sessions, failed sign-ins, bookmarks,
subscriptions. Hard: every statement of a handler is a transaction and the
session is looked up once, before the first; erasure and sign-in race
everything else; an address may be typed in several ways. Correct when nothing outlives
an erased account, the budget of failed sign-ins is kept within what is in flight and a
lockout ends.

**Web client** (`web/components/save-button.tsx`, `account-panel.tsx`,
`web/lib/mutate.ts`). State: that of the two components. Hard: requests overtake
each other, fail, and are carried out without an answer, or long after the page has
given them up. Correct when the screen says what the database holds, or errs no longer
than such a tangle lasts.

**Quote validator and highlighting** (`src/analyzer/validator.py`, `analyze.py`,
`src/domain/analysis.py`, `web/lib/segments.ts`, `annotated-text.tsx`, `finding-list.tsx`,
the article page). State: one call with the findings it has verified so far, then
an open page. A quote is found in the text with its typography folded, in the title first,
then in the lead, exactly or nearly; its offsets are mapped back; the page cuts the
text at them and numbers the findings. Hard: offsets through characters that fold to several or
to none, overlapping spans, findings that come in any order, a verdict held
against what survived. Correct when what is underlined with a number is what that entry quotes.

**Evaluation** (`src/evals/candidates.py`, `run_eval.py`, `metrics.py`, `report.py`). State:
the sample, the sweep's place in four nested loops, `analyses` and
`analysis_findings`, the report's sections. Hard: samples and limits that cut lists
anywhere, calls that fail, sweeps that die, a report over tables that are
being written, greedy credit over findings in no order. Correct when every call is
accounted for, the lines add up and the lines of a pair compare like with like.

**Crawlers** (`src/ingest/fetch.py`, `src/ingest/__main__.py`, `src/evals/audit_sources.py`).
State: each process's `Throttle`, the pass over the sources or the portals,
`articles` by canonical address, `candidates.csv`. Hard: a fresh throttle every
pass, redirects and restarts, a robots.txt that changes or does not answer, one article
under many links. Correct when a process leaves a host alone between two requests, what
is forbidden is no longer stored, an article is one row and every source has its turn.

**The rest**: LLM providers (one HTTP call each), the data audit (its checks are
properties here), smoke test and diagnostics, configuration,
schema and Makefile, the API shell (headers, request-size limit, operator
queries), the other server-rendered pages.

### How they interact

| from | to | through |
| --- | --- | --- |
| ingest, gold loader | analyzer | a row in `articles` with status `pending` |
| gold loader | analyzer | `gold_articles`, which `load_pending` excludes |
| analyzer, sweep | readers | `analyses`, through the view |
| analyzer | feed filter | `articles.status`, `articles.category` |
| make reanalyze | analyzer | status back to `pending`, attempts to 0 |
| requests | each other | `users` and what cascades from it |
| web client | API | requests that may be repeated, reordered or lost |
| validator | article page | the spans in `analysis_findings`, counted in Python's characters |
| candidates, gold loader, sweep | report | `gold_articles`, `gold_labels`, `analyses`, `analysis_findings` |
| ingest, source audit | portals | requests that each spaces by itself |

## 2. Modules

Each module is one component; in it a `VARIABLE` is a column, a table or a local
of the process, an action a transaction (or a call to the outside), and its name
that of the function in the code. Definitions marked *Mutant* are plausible
mistakes: they stand above the definition they would replace (their name begins
with its name), no action uses them, and each is caught by a property.
`PROJECT.json` maps every definition to the lines it translates.

| module | models | main state |
| --- | --- | --- |
| `AnalysisQueue` | the queue and overlapping passes over it | `status`, `attempts`, `age`, `rows`; per pass `pc`, `todo`, `consecutive`, `charged`, `verdict` |
| `QueueContract` | what those columns promise a reader of them: the abstract specification | the columns only |
| `ServedCorpus` | the shared table of analyses, the view, overlapping passes and sweeps, releases and requeueing | `rows`, `status`, `category`, `current`; per pass `todo`, `charged`, `image`; per writer `pc`, `at` |
| `GoldLoad` | a loader per split, ingest and a production pass beside them | `text`, `split`, `labels`; per loader `pc`, `plan`; `todo`, `produced` |
| `Ingest` | passes, portals and the operator | `etag`, `fetched`, `stored`, `active`; per pass `pc`, `todo`, `known`, `body`; `shelf`, `healthy`, `banned`; history `late` |
| `Accounts` | requests in flight over the account tables | `users`, `owner`, `saved`, `follows`, `failures`; per request `pc`, `who`, `asked`, `want` |
| `SaveButton`, `AccountPanel` | the two client components and the fate of their requests | the state of the component, the row behind it, each request's stage; histories `alone`, `muddled`, `stragglers` |
| `WebClient` | the two composed, as two tabs on one account | both |
| `Segments` | a text cut at the ends of spans | operators only |
| `Highlight` | from a model's reply to the underlined page | `title`, `lead`, `pc`, `reply`, `todo`, `findings`, `rejected`, `contradiction`, `page` |
| `Metrics` | credit, groups of calls, pairs of lines | operators only |
| `Evaluation` | sample, sweeps and report beside each other | `candidates`, `gold`; `turn`, `pc`, `calls`, `failures`, `answer`; `rows`, `found`; `reading`, `report` |
| `Fetching` | canonical addresses, feeds and listings | operators only |
| `Crawl` | the ingest process and the source audit as their hosts see them | per client `pc`, `asleep`, `last`, `quiet`, `hops`; `todo`, `body`, `articles`; `turn`, `feeds`, `reports`, `entries`, `candidates`; `rules`; histories `permitted`, `quiet`, `strange` |
| `MC*` | values for the constants | |
| `*_proofs` | theorems and proofs | |

### AnalysisQueue

`LoadPending` is the query of `load_pending` (due, not gold, lowest ids first);
`Current` the loop variable; `RecordFailure` and `RecordSuccess` the two outcomes
of the provider call with the tracker's bookkeeping; `SaveAnalysis`,
`MarkAnalyzed` and `BumpAttempts` the three writes, of which the last two are by
id and ask nothing; `Crash` any exception but `ProviderError`; `Restart` compose.
`Arrive` is ingest, `Reanalyze` the make target over any analysed set, `LoadGold` a load
of the evaluation set, which takes articles up or drops them at any moment of a pass, `Hour` the
clock, `Backend` the provider going down or up. The gold set is looked at where the code looks, in
`Due`: a pass may go on with an article that has become gold since, and `HeldIsPending` does not say otherwise. `last_attempt_at` is kept as an
age in hours that saturates at `Rested`, beyond which the back-off cannot tell
ages apart. The policy constants (3 attempts, 1 hour, 3 failures) keep the values
of the source, except that one run lowers the failure limit, see below.

`QueueContract` has none of this: six ways in which a row may change, and a change of the gold set, each with
the place it may start from. `ImplementsContract` is the refinement: with one analyzer
every step of a pass is one of these or changes none of the columns. The mapping is written out in
`Contract == INSTANCE QueueContract WITH ...`: the contract's `replies` are the `rows` of
`analyses`, `status`, `attempts`, `age` and `gold` are themselves, the passes are hidden.

### ServedCorpus

Any number of passes overlap: `Container` is the one compose runs, from the prompt of its
`image`, the others are started by hand from the checkout. `LoadPending` takes any articles
that wait, since when they are due is `AnalysisQueue`'s; `PassReplied` and `SweepReplied` hand a writer an
analysis, and `InsertAnalysis` and `InsertFindings` are the two transactions of
`save_analysis`; `MarkAnalyzed` writes a pass's verdict back by id, `BumpAttempts` retires.
`Candidates` and `Latest` are the view. An analysis has a `kind`: what the fixed
production configuration produced, what a sweep produced under settings the view
looks at (`arm`) or does not (`label`). Whose row it is (`by`) stands for its
`run_id`; `written`, `marked` and `alone` are told of a row for the properties' sake: its findings are in, a
pass has written it back, no other pass stood between its own two writes about the article when it came in.
`Release` and `Rebuild` move the checkout and the container to a newer prompt;
`Reanalyze` requeues exactly `Stale`, the query of the Makefile. The page and the feed only read, and are no actions.

### GoldLoad

`Start` reads the CSVs; `DeleteLabels` to `InsertLabels` are the transactions of
`_load` in their order; `CheckStoredText` may refuse the edition, `InsertArticles` and
`InsertLabels` fail on the unique constraints. An article's `text` is absent, that
of the CSV, or another: the three cases the checks tell apart. Labels are kept per
article, since a load treats those of an article alike. One loader per split runs at
a time, as a target run by hand does.

### Ingest

`LoadSources` takes the active sources and their validators for the whole pass;
then per source `RobotsVerdict`, `FetchSource` and, by its outcome,
`RecordFailure`, `MarkUnchanged`, or `SaveArticles` and `MarkFetched`. Portals number
their articles, and a moment is named by how many there were: an ETag is the
listing it came with, an If-Modified-Since date the listing of that moment. The host of a
banned source may fail to answer for its robots.txt, and the source is then read. The history variable
`late` remembers what a portal published while a pass had its answer and had yet to write the time of it.
Portals are external and modelled by what `fetch_source` relies on.

### Accounts

Each request has a `pc` at the statement it executes next. Sign-in is
`CheckBudget`, `Lookup`, then `RecordFailure`, or `ClearFailures` and
`OpenSession`; requests of a signed-in reader begin with `ResolveSession` and keep
the user id they got there in `who`. Foreign keys are modelled by what they do: an insert for
a user who is gone stores nothing, `DeleteUser` cascades. A password is right or wrong. Addresses have
spellings: `Fold` is `lower()`, by which `Register` and `Lookup` find an account and `CheckBudget` the failures of a mailbox.

### Highlight, Segments

`Complete` is `complete()` and the schema, `ProviderError` its failure, `VerifyQuote` one
round of the loop of `_verify_quotes`, `Conclude` the consistency check and the
storing. `Normalise` keeps with each folded character the offset it came from,
`SourceSpan` maps back, `LocateQuote` is the exact stage and then the fuzzy one.
rapidfuzz is external: `FuzzyWindows` leaves open which window it prefers, except that a
text found whole in the quote is certain to match. `OpenPage` selects the findings in any order the query
allows and renders them; `Segments` is the cutting. A text is a sequence of
abstract characters; of the typographic ones a dash (folds to one) and the
ellipsis (folds to three) stand for all, and blanks collapse to one or none.

### Evaluation, Metrics

`Sample` draws every sample `random()` allows, `Annotate` loads it as the main split,
`StartSweep` to `FinishSweep` are `run_eval.py`, with the two transactions of
`save_analysis` as `Call` and `SaveFindings`; `FailedCall` is a ProviderError and `Crash`
the end of the process. `Asked(n)` is the n-th round of the four nested loops. `InOrder` is ORDER BY, of the
query of the candidates and of `load_gold`, and `Prefix` a slice or a LIMIT. The report reads in three
steps, each in a transaction of its own. `Metrics` holds what it computes: `Takes` is the greedy credit of
one finding, `ScoreGroup` a line, `VariantPairs` the comparison.

### Crawl, Fetching

`StartWait` and `Send` are the two halves of `Throttle.wait` with the request that
follows; `Redirect` is httpx's; then the answer is taken by `RobotsVerdict`,
`FetchSource` or `FetchYieldsNothing` of ingest, by `DiscoverFeeds`, `Probe` or `Verdict` of the audit.
`last` is what the throttle believes and `quiet` what the host has seen, both as ticks
that saturate at the delay. `Ingest` has the transactions and
validators of the same pass; here it is seen from the portals. `Story` is which article a link really leads
to, external to the program, and `Canonical` the key the program computes.
`ChangeRules` changes a host's robots.txt at any moment, and any host may leave a request for it unanswered
(`Told`). The history variable `permitted` says whether, during the turn of the current source, its host allowed it or failed to answer.
A `Crash` ends the ingest process, in a pass or between two, and the next one begins at once with a fresh throttle. `quiet` goes
on: what the dead process asked still counts, and `strange` is the hosts that the new one has not asked yet.

### SaveButton, AccountPanel, WebClient

The components' `useState` variables, each request with how far it has come, and
the row it is about. A tap is not held up by the one before. At the server a request resolves the session and
then writes, in the transactions of the handlers (`DeleteSubscriptions` and `InsertSubscriptions` are those of
`replace_subscriptions`, `CloseAllSessions` and `DeleteUser` those of the erasure); `Break` is a 500, a worker that dies or a
request that never arrives. The answer is apart from that: `mutate` reports UNREACHABLE whenever `fetch` rejects, so a request the
page has given up may be carried out at any time after, another one having been answered meanwhile.
`WebClient` instantiates both (`Button` and `Panel`);
they share the session, which may expire or be renewed, and meet where erasing the account cascades to the bookmark.

## 3. Runs, bounds and fairness

`tlc -config <Config>.cfg <Module>.tla` runs a configuration; each takes between
seconds and a few minutes.

| run | module, config | checks | distinct states |
| --- | --- | --- | --- |
| `queue_sole` | MCAnalysisQueue, QueueSole | HeldIsPending, BackOffRespected, ImplementsContract, QueueDrains | 46,878 |
| `queue_overlap` | MCAnalysisQueue, QueueOverlap | QueueIsNotStuck, SettledCarriesAnalysis, RetiredIsExhausted, OverrunBounded | 2,147,854 |
| `served_shared` | MCServedCorpus, ServedShared | AnalysedIsServed, FilterMatchesVerdict, OnceServedAlwaysServed | 537,527 |
| `gold_splits` | MCGoldLoad, GoldSplits | LabelsAreOnGold, LabelsFitStoredText, OtherSplitUntouched, LoadedIsTheEdition | 535,612 |
| `ingest_overlap` | MCIngest, IngestOverlap | ETagCovers, OnlyLateIsHidden | 943,216 |
| `ingest_collects` | MCIngest, IngestCollects | ShownIsCollected, OnlyLateIsHidden | 553,216 |
| `accounts_erased` | MCAccounts, AccountsErased | NothingOutlivesTheAccount, OverrunBounded, LockoutEnds | 343,641 |
| `web_client` | WebClient, WebClient | ButtonIsTrueUnlessMuddled, LeavesOnlyErased, SaidSavedIsStored | 4,702,656 |
| `highlight` | MCHighlight, Highlight | SpanIsTheQuote, VerbatimIsKept, UnderlinedIsQuoted, ContradictionIsOnScreen | 936,134 |
| `evaluation` | MCEvaluation, Evaluation | SampleIsSpread, LimitedRunIsMixed, EveryCallIsAccounted, CreditIsFair, ReportAddsUp, PairsAreComparable | 563,721 |
| `crawl` | MCCrawl, Crawl | ForbiddenIsNotStored, OneRowPerArticle, Polite, EverySourceHasItsTurn | 11,584 |
| `queue_poisoned` | MCAnalysisQueue, QueuePoisoned | RejectedIsDropped: violated | |

The type invariants (`TypeOK`) of the modules with theorems are proved for every value of
the constants (section 5) and are not repeated by the runs.

### What they show

**queue_sole.** With the one analyzer compose deploys, dying and restarting
anywhere, over a backend that comes and goes and gold loads that come in between: what a
pass works on is still queued, no article is
charged inside its back-off although the back-off is only looked at when the
pass begins, and every step is one the contract allows. Once the backend stays
up and nothing dies any more, every waiting article leaves the queue, the one
the backend refuses included.

**queue_overlap.** Two passes may hold the same article, turn each other's
verdict over and charge it twice. What the data audit relies on survives that:
a queued article has attempts left, a settled one has the reply it was settled
by, a retired one has used its attempts up, and the ceiling is overrun by at most
one per pass.

**served_shared.** Two passes and a sweep write the same table, dying anywhere, across new
prompts, rebuilt containers and requeueing. An article with status `analyzed` has an analysis to show whose findings are in
(the order of the transactions is what ensures it), and one that was ever served stays served by the same or a newer analysis. The feed
filters by the category it shows, with two exceptions, which the property names: the analysis on show
was never written back, or it came in between the two writes of another pass, which may then write back an older one.

**gold_splits.** Wherever loads stop, labels sit on gold rows and on the text they
were made for, the other split is left alone, and a load that reports success
has left exactly its edition. The four editions include two that clash over one article.

**ingest_overlap, ingest_collects.** Articles are committed before the ETag that
vouches for them, so two passes in any order, dying anywhere, never store or
send an ETag that hides an article. A portal that goes by If-Modified-Since (Gazeta.pl) may hide one, but no other than
what it published between an answer and the write of its time, and only until it publishes again outside such a gap. An article that a portal
goes on showing is collected if the source stays on, reachable and allowed, whatever the other source answers;
here the second portal takes its first article down, which may then be lost, and nothing is claimed of it.

**accounts_erased.** No request in flight leaves a row behind the account it
resolved, the address may sign up again at once and is a new account, sign-ins
in flight overrun the budget by fewer than there are requests, in whatever spelling the
address is typed, and a lockout ends.

**web_client.** The reader taps whenever they like and any answer may be lost. With nothing under
way, the button shows what the database holds, unless taps have overlapped or one was given up that the
server had; and the next tap that finds nothing under way and succeeds puts that right. `saved` is said of a set
that is stored, unless a request given up before is carried out afterwards, and then the account holds nothing that
was not asked for in one of these. The account page is left only when account, bookmark and
subscriptions are gone for good, whatever either tab still has at the server.

**highlight.** Over every title of up to three characters, blanks in runs and at the ends and
ellipses included: a stored span is in its field, cites exactly what it cuts out, and for
an exact match is the first that reads as the quote does, with no character to spare unless it ends in an
ellipsis of which the quote has the first dots only; what the article says up to typography is never
rejected; what is underlined with a number is what the list quotes under it, however spans
overlap and tie; a contradiction is recorded exactly when the reader would see one.

**evaluation.** Whatever `random()` says and wherever the limits cut, sample and limited run
stay balanced. A sweep that ended without a provider error holds every call it was asked for, once per
repetition. The order in which findings come back never credits a label twice and costs at most half
of the hits. A line of the report, read at any moment of a sweep, adds up, and a pair of lines is about the same articles
called equally often.

**crawl.** Over redirects, rules that change at any moment, hosts that leave robots.txt unanswered, a restart at any
point and passes that begin with a fresh throttle: what a process sends of its own accord
leaves the delay between two requests to a host, and a restart costs each host one request that comes too early at most.
Whatever a portal allowed before, nothing of a source is stored in a turn throughout which its host answers
and disallows it; links with different decorations come to one row and one candidate, and each source gets
its turn in pass after pass.

### Bounds, and why they are enough

| bound | value | why |
| --- | --- | --- |
| `Articles` (queue) | 2 or 3 | a pass tells articles apart by order and by being held; three is what fills the failure limit |
| `Passes` | 1 or 2 | conflicts are between two passes over one article; the proofs cover any number |
| `CONSECUTIVE_FAILURE_LIMIT` | 3, in `queue_sole` 2 | with two articles a limit of two is what makes passes abort; the theorems hold for every value |
| `Limits` | none, or none and 1 | `--limit` cuts the list, one article is the smallest cut |
| `age` | saturates at `Rested` = 3 hours | beyond the longest back-off all ages compare alike: exact, not a cut |
| `MaxRows`, `MaxVersion` | 2, 2 | an older and a newer analysis, an older and a newer prompt |
| `Analyzers`, `Sweeps` (served) | 2, 1 | two passes whose writes about one article interleave, and a sweep's row between them; the proofs cover any number |
| `Window`, `Published` | 1, 1 to 3 | a listing that has moved on by one or by two while a pass held an older one; in `ingest_collects` one portal publishes once and the other twice, so that its first article goes |
| `Editions` | 4 | adding, dropping and relabelling an article, and a clash between splits |
| `Requests`, `Ids`, `Tokens` | 2, 2, 2 | two requests in flight; a mailbox erased and registered again |
| `Addresses` | 2 | one mailbox in two spellings |
| `Callers` | none | the default deployment, without `TRUST_PROXY_IP`; the proofs cover any set |
| `MaxFailedLogins` | 1 | the smallest budget that two requests can overrun |
| `MaxTaps`, `MaxRequests` | 2, 2 | two taps at once or one after another, one of them to put right what the other left; a request given up and the one after it; the proofs cover any number |
| `Titles`, `Leads` | every text of 1 to 3 characters over a letter, a blank and an ellipsis, and a dot before an ellipsis; no lead, an empty one, and one where a run of blanks, a dash and an ellipsis meet; quotes of one or two characters and of three across a blank and a dash | offsets go wrong at a character that folds to none, one or three and at its neighbours: three positions show each between the other two |
| `MAX_FINDINGS`, `MAX_QUOTE` | 2, 3 (8 and 400 in the source) | two findings overlap, tie, nest or lie in different fields; a third one repeats a relation of two |
| `Articles`, `Sweeps` (evaluation) | 5, 2 | a cell of two and a cell of one, a kind of its own, one held out; a sweep of both variants over two articles and one with repetitions |
| report | one | each report reads from nothing |
| `Sources`, `Portals`, `Hosts` | 3, 2, 2 | a feed, a listing and a strategy without a reader; two sources on one host and a host of its own |
| `CRAWL_DELAY`, `INTERVAL`, `MaxHops` | 3, 4, 2 | ticks are relative; the source has 2 s and 7200 s, so the interval is the tighter here; proved for every value with `INTERVAL >= CRAWL_DELAY` |
| `AtOnce` | 1 in `crawl` | each process has a `Throttle` of its own, so two of them are only looked at together for the claim that fails (CrawlTogether) |

`failures` needs no bound: `OverrunBounded` keeps it below
`MaxFailedLogins + |Requests|`. The categories of `served_shared` are
symmetric: they are only compared with each other, and the run checks safety only.

Deadlock is checked wherever the system has no natural end: the queue, ingest
and the gold loader must always be able to go on. `CHECK_DEADLOCK FALSE` stands where
a bound stops the model (all rows written, all tokens handed out), a visit ends
(the page is left), or the work is finite (the list of sweeps and one report).

### Fairness

* Queue: `WF(Step(p))` (a running pass goes on, and `--interval` starts the next),
  `WF(Restart(p))` (`restart: unless-stopped`), `WF(Hour)`. `QueueDrains` and
  `RejectedIsDropped` assume `Calm`: from some point on the backend answers and no
  process dies. Nothing is assumed of the operator, who may requeue for ever, which
  is why `queue_sole` runs without `--limit`, as the container does: with a limit,
  articles requeued again and again at the head starve those behind.
* Ingest: `WF(Step(p))`. `ShownIsCollected` assumes of a source that from some point on
  it stays switched on, reachable and allowed and that no pass dies: an answer that raises what is not an httpx error ends the
  process, at the same source in every pass, and what comes after that source is then never collected (a hazard with a note). It assumes nothing else of the other sources.
* Accounts: `WF(ExpireFailure(i))`: time passes, and an attempt leaves the window.
  Clients owe nothing.
* Crawlers: `WF(Tick)`, time passes and a sleep ends; `WF` of each client's steps: every request has a
  timeout, so it is answered or fails. `EverySourceHasItsTurn` assumes that from some point on no process dies;
  nothing else of the portals, which may refuse, redirect, change their rules or stay silent for ever.

The other runs check safety and state no fairness.

## 4. Where the code falls short of what it says

One disagreement is a run of its own, recorded as a finding in `PROJECT.json` with the lines it contradicts:

| run | what happens |
| --- | --- |
| `queue_poisoned` | Three articles the backend always refuses, at the head of the queue, open the breaker in every pass; their charges are dropped each time, so they are never retired and nothing behind them is ever analysed. |

Further configurations are kept beside the runs, each of which shows claims of a
comment, document or test that the code does not keep. Where a configuration lists several
properties TLC stops at the first; each of them alone is violated too.

| config (module) | claim | what happens |
| --- | --- | --- |
| QueueOutage (MCAnalysisQueue) | `docker-compose.yml:95`: a backend that is down charges nobody. OutageSparesTheCorpus | An outage during passes with one or two articles due charges each of them; three such passes retire them. |
| QueueOverlapHeld (MCAnalysisQueue) | `src/analyzer/store.py:4`: a row being worked on is one whose status has not changed yet. HeldIsPending | Nothing claims a row: of two passes one goes on with an article the other has settled. |
| ServedBeside (MCServedCorpus) | `migrations/007:41`: the newest analysis of the production configuration. ServedByProduction | The view looks at `grammar_mode` and `input_variant` only, so a sweep with those values is served to readers. |
| ServedBeside | `src/api/routers/feed.py:34`: the feed filters by the verdict it shows. FilterIsTheVerdict | An analysis that a sweep adds moves what is shown and not the category; so do two passes that write back in the other order. |
| ServedBeside | `store.py:129`: persist one call and its findings. ServedIsWhole | Between the two transactions of `save_analysis`, or for good after a crash, a verdict is served without its findings. |
| ServedRepair (MCServedCorpus) | `Makefile:173`: requeueing is the whole repair. RequeueingIsTheWholeRepair | A requeued article whose new reply does not parse ends `failed`, is served from its old analysis and is never found stale again. |
| GoldProduction (MCGoldLoad) | `src/analyzer/store.py:78`: gold articles are excluded. ProductionSparesGold | The gold set is looked at when a pass loads its list, and `gold-load` empties it in between: production analyses an article of the evaluation set. |
| IngestLastModified (MCIngest) | `src/ingest/fetch.py:333`: the fetch time is exactly what If-Modified-Since wants. NothingIsHidden | `last_fetch_at` is stamped when the row is written, after the answer was parsed: what a Last-Modified portal publishes in between is hidden by the next 304. |
| IngestSwitchedOff (MCIngest) | `Makefile:151`: stop collecting from one source. OffMeansOff | A running pass has the list of sources from its start and still stores the articles. |
| AccountsRaces (MCAccounts) | `src/api/routers/me.py:151`: the session resolved, so the row exists. ResolvedMeansExists | An erasure between the two transactions removes it. |
| AccountsRaces | `me.py:165`: a request in flight cannot act on an account that is halfway gone. HalfwayGoneIsInert | One that has resolved its session still writes before the user is deleted (the cascade then removes the row). |
| AccountsRaces | `tests/test_api_account.py:82`: the set sent is the set stored. SetSentIsSetStored | Two PUTs that both delete before either inserts store the union. |
| AccountsRaces | `migrations/008:6`: an erasure leaves nothing behind. ErasureLeavesNothing | Failed sign-ins are kept by address and no cascade reaches them. |
| SaveButtonDouble (SaveButton) | `web/components/save-button.tsx:12`: reverted so that it does not claim the opposite of what the database holds. ButtonTellsTheTruth | The button is not disabled while a request is pending: two quick taps that both fail, or are served in the other order, leave it claiming the opposite. |
| SaveButtonLost (SaveButton) | `web/lib/mutate.ts:9`: status 0 means the request never reached the server. ButtonTellsTheTruth | A request that was carried out and lost its answer reverts the button. |
| PanelChosen (AccountPanel) | `account-panel.tsx:23`: "saved" and "nothing said yet" are different things. SavedIsWhatIsChosen | A box ticked while the request is pending is shown as saved when the answer comes. |
| HighlightStraddles (MCHighlight) | `src/analyzer/analyze.py:96`: a quote cannot match by straddling headline and lead. NoStraddling | A quote that runs a little beyond the headline is within the fuzzy threshold of it and is kept. |
| EvaluationTwice (MCEvaluation) | `src/evals/metrics.py:258`: a `title_lead` sweep skips the articles without a lead. NoArticleCountsTwice | It calls them again with the prompt of the first variant; both rows say `title`, count twice in that line and pass for repeated calls. |
| CrawlTogether (MCCrawl) | `src/ingest/fetch.py:123`: one request per domain in so many seconds. NoHostIsHurried | The audit, run beside the container, has a throttle of its own, and so has a process that compose has restarted. |
| CrawlTogether | `src/ingest/__main__.py:77`: a portal's terms can change, so they are checked every pass. TermsAreKept | A host that disallows the source and times out or answers 5xx for its robots.txt counts as allowing it; rules that change after the check are noticed in the next pass. |
| CrawlTogether | `fetch.py:51`: likewise. RedirectsWait | httpx follows redirects at once. |
| CrawlLevel (MCCrawl) | `src/evals/audit_sources.py:12`: lead coverage is measured. LevelIsWhatIngestReads | The audit counts an article once per channel it is listed on, ingest once. |

## 5. Proofs

Every theorem is checked by tlapm to its last leaf; nothing is assumed but the
`ASSUME`s of the module, which TLC evaluates in every run: ids are numbers where the
code orders by them, policy constants are positive, `None` (SQL NULL) is none of the
values beside it, the sets of requests and of passes are finite, the container is one of the analyzers and no analyzer a sweep, folding an address twice changes nothing more, a CSV labels only what it lists
(`read_labels` refuses others), a pass over the sources is followed by an interval no shorter than
the delay between requests (7200 s and 2 s), there is a source and a portal, texts and what a
portal answers are sequences. `Evaluation` assumes finitely many articles of four kinds (a constraint of the table),
limits that are natural numbers or none, sweeps of one variant or both and of one grammar mode or both (the choices of
`_parse_args`) with at least one call per article (`--repeat 0` would measure nothing), and that a reply that does not parse has no findings. `StoriesAssumption` of `Crawl` is what `canonical_url` takes for granted (`fetch.py:87`):
a tracking parameter does not change the article a link leads to, and links that differ in more lead to
different articles.

| module | theorems | obligations |
| --- | --- | --- |
| `AnalysisQueue_proofs` | TypeCorrect, QueueIsNeverStuck, SettledAlwaysCarriesAnalysis, RetiredIsAlwaysExhausted, AbortAlwaysForgets for any number of passes; SoleAnalyzerHoldsPending, SoleAnalyzerRespectsBackOff, SoleAnalyzerImplementsContract for one; OverrunIsBounded | 632 |
| `ServedCorpus_proofs` | TypeCorrect, AnalysedIsAlwaysServed, OnceServedStaysServed, FilterMatchesTheVerdict, for any number of overlapping passes and sweeps | 772 |
| `GoldLoad_proofs` | TypeCorrect, LabelsAlwaysOnGold, LabelsAlwaysFitStoredText, LoadReplacesTheSplit, LoadsStayInTheirSplit | 408 |
| `Accounts_proofs` | TypeCorrect, NothingEverOutlives, OverrunIsBounded | 358 |
| `Ingest_proofs` | TypeCorrect, ETagAlwaysCovers, OnlyLateIsEverHidden, for portals of any kind | 539 |
| `Crawl_proofs` | AlwaysPolite, ForbiddenIsNeverStored, OneRowEach, for any sources, portals, answers, hosts, delay and number of redirects, and rules that change at any time | 1203 |
| `Pages_proofs` | of the web client ButtonIsTrue, PanelLeavesOnlyErased, SavedIsStored, for any number of taps and requests, whichever overlap, fail or lose their answer and whatever the other tab does; of the pieces MarksAreExact, PiecesAreDisjoint, PiecesCover, for texts of any length and any spans; of the quotes SpansAreTheQuotes, VerbatimQuotesAreKept, UnderlinesAgree, ContradictionsAreOnScreen, for any texts, replies, limits and any preference of the fuzzy matcher | 3125 |
| `Evaluation_proofs` | SampleIsAlwaysSpread, LimitedRunIsAlwaysMixed, EveryCallIsAlwaysAccounted, CreditIsAlwaysFair, PairsAreAlwaysComparable, ReportAlwaysAddsUp, for any articles, cells, kinds, labels, caps, sweeps, replies and any moment a report reads at | 3864 |

Each follows the same argument: an inductive invariant `IInv`, `Init => IInv`, one
step per action for `IInv /\ [Next]_vars => IInv'`, and the property from `IInv`. (The three theorems
about pieces have no steps: they are about every text and every sequence of spans.)
None of the properties is inductive alone:

* **Queue.** `SettledCarriesAnalysis` needs the reply of a pass between its two writes to be on
  record (`ReplyOnRecord`); `QueueIsNotStuck` needs what a pass holds to be stored
  (`HeldIsStored`), stored rows to enter uncharged (`AbsentIsFresh`) and a pass that is
  not running to hold nothing (`AtRest`). For one analyzer `SoleInv` adds that what is
  held is still pending, still past its back-off, and not both charged and yet to
  be analysed: nobody else writes. From it follow the back-off and the refinement:
  `Init` implies `Contract!Init`, each action is a step of the contract or a stutter. `SoleInv` fails
  for two passes, as QueueOverlapHeld shows, and those theorems assume `SoleAnalyzer`. `OverrunIsBounded` is for
  any number of passes again: the attempts of an article and the passes that hold it (`Holders`) add up to at most
  one short of the ceiling and a charge per pass, since a pass that charges lets go of the article.
* **Served corpus.** `MarkAnalyzed` relies on the row inserted a transaction or two before, so
  `InHand` remembers it, with its findings in once the article is to be marked, and `RowsKept` says that rows never go,
  never change what they say and keep their findings. That the newest candidate exists, which `Latest` chooses, is proved from the
  well-foundedness of the naturals. `FilterMatchesVerdict` needs `Overtaken`: a row about the article that is newer than the one a pass has still
  to write back was not `alone` when it came in; so nobody writes an older analysis over one that was alone and has been written back.
* **Gold.** For each place a loader stands, what its earlier transactions have established:
  `Unlabelled`, `Emptied`, `Filled`, `Checked`; `Apart`, that running loaders have different
  splits, is why the others cannot undo it.
* **Ingest.** `Committed`: a pass about to store a validator has its articles in. `KnownCovers`: so had
  whoever stored the one it loaded. Both last because no article is ever removed. `OnlyLateIsHidden` needs more of the
  dates: between an answer and the write whatever is published is late (`Gaps`), so a date that is that of the newest
  article hides late ones only, whether it is in the table (`Dates`) or held by a pass (`KnownDates`).
* **Accounts.** `Charged` counts with the failures on record those that requests past the check
  may yet add, by the cardinality of the set of such requests.
* **Crawlers.** `ClockInv`: what is left to sleep makes up for what the host must still be left alone
  (`Waits`), and the throttle never believes that a host was left alone longer than it was (`Remembers`),
  except between passes, where the new throttle believes it of every host and the interval makes up
  for that (`Pauses`), and of hosts that are still `strange` to the process. Redirects, which no throttle spaces, are
  outside the property (RedirectsWait). `Cleared` says that since the turn of a source began whatever allowed it was noted in `permitted`, and that a client past the robots
  check has been allowed, so that what it parsed may be stored. For `OneRowEach`, every address on its way to the
  table, in it or among the candidates is the canonical one of a link (`KeptOnce`, `Written`), and two of those that
  lead to one article are equal (`OneAddress`); `DeduplicatedFacts` is that deduplicating keeps each address once and
  loses none; `Busy` says that a client at work has a source, a feed or a portal to work on.
* **Web client.** `PanelInv` ties each request to what it has already done on the server (`RequestInv`) and says what the
  table holds since the last save has cleared it (`StoredInv`): only that save and those given up before it are still under way.
  Nothing sets the tables of an erased account again. `TapInv`: a tap that found nothing under way has the server to itself;
  until it is carried out button and table say opposite things, afterwards the same, and reverting
  one that failed at the server makes them the same.
* **Highlight.** Texts and pages are concatenations of parts. `FlattenParts` says where the
  parts of one lie: at offsets that grow by their lengths. From it come the cutting (the ends of a span are
  boundaries and no boundary lies inside a piece, so a span covers a piece wholly or not at all) and the folding:
  each folded character knows the character it came from, the folding of a slice is a
  part of the folding of the text (`SliceFolds`), and no folded text begins or ends with a blank, so
  a match never begins in one that was left out. Hence what is found reads as the quote, and what reads as the quote is
  found. `CallInv` carries this through the call: what is stored is a checked span, what is rejected is in neither
  field, and the page is a rendering of the stored findings in one of the orders the query allows.
  `SpanIsTheQuote` was first stated without its exception for an ellipsis; the proof does not go through without it,
  and the title `.…` with the quote `..` shows why: the span is both characters, although the
  second alone reads as the quote.

* **Evaluation.** Four arguments, for what are four parts of the program.
  *Order*: the first articles of a sorted list hold with an article every earlier one (`PrefixHeads`), and what is earlier under
  the rank within a cell, or within a kind, is counted by that rank; from it the spread sample and the mixed run.
  *Calls*: the rounds of four nested loops are the numbers below `TotalCalls` written with four digits (`IsCall`, `CallNo`), so each
  article meets each configuration and repetition at one number and at no other. `SweepInv` says that the rows of the
  running sweep are those of the numbers so far that did not fail (`Stored`), and of one that is over and had no
  failure, all of them (`Whole`); a crash leaves `printed` unset. From it `EveryCallIsAccounted`, and `Counterparts`:
  each row of one line of a pair has one in the other, a different one for each.
  *Credit*: `CreditRule` is what one step of the greedy loop does, `FairCredit` what holds at its end; a hit of one order that is
  none of another has its label taken there, so two orders differ at most twofold (`OrderMattersTwofold`, an injection).
  *Sums*: a line sums over its calls with a fold that takes them in an order of its choice. `SumExists` shows that its result
  is the sum whichever call is set apart, `SumOfBoth` and `SumBelow` that sums add and compare as their terms do. What one call adds (`EachCallAddsUp`) then
  carries to a line (`LineAddsUp`); `ReadingInv`, that the rows a report has read are still there, and that a row never
  changes, carry it from the transaction that read the rows to the next, which read their findings.

Concatenation, sorting, counting and summing are defined by recursion or choice. Where a fact about all lengths is needed it is
proved of the least length, or the first place, at which it could fail (`LeastExists`), and where one about all finite
sets is, of a largest subset for which it holds (`SubsetInduction`).

### What is only model-checked

Liveness: `QueueDrains`, `ShownIsCollected`, `LockoutEnds` and `EverySourceHasItsTurn`, which under fairness are beyond
the prover. Every invariant and every action property that a passing run checks is proved as well, for all values of
the constants its module's assumptions allow. Some have a premise, for the reason given above: one analyzer (what is held is pending, the back-off, the
refinement). Others say themselves where the code may err, and the proofs cover the whole of it: an analysis that came in between
another pass's writes (the filter), a fetch time written late (what a 304 hides), taps that overlap or lose their answer (the button), requests given up
(what is said to be saved), a process that has just started (politeness), a robots.txt that goes unanswered (what is stored).

## 6. What is not modelled

* Formatting of prompts, the HTTP calls of the providers, payloads, tokens and latencies, layout and wording of pages:
  no state. A call gives a reply, one that does not parse, or a ProviderError.
* What HTML, XML and dates are made of: a feed or a listing is a sequence of entries with the
  features the parsers go by. How similar rapidfuzz finds two strings is left open.
* Smoke test and diagnostics: they print. `--dry-run` and `--check-only` write nothing. Operator
  queries and probes read only.
* The request-size limit of `api/limits.py`: one request and one counter, in the plan.
* The checks `read_labels` and `check_consistency` make of the CSVs, and reading and writing of CSV
  files: `GoldLoad` assumes what they establish (`Consistent`).
* Argon2 re-hashing and `last_seen_at` change nothing a property tells apart.
* Two loaders of the same split at once, and what the two queries of `GET /feed` or of the article page read between other writes: hazards with a note in
  `PROJECT.json`.
* Migrations run once, before anything else; only the constraints and the view they leave are modelled.

## 7. Plan

The order followed the importance of the behaviour: first the queue, which every
article passes through, then what readers are served, then the evaluation set that
must stay apart from both, then ingest, accounts and the client. All
of these are written, and after them what surrounds them: `Highlight` (the path of a quote to the screen),
`Evaluation` with `Metrics`, `Crawl` with `Fetching`; and the safety properties of all of them are proved. Next, in this order:

1. **RequestSizeLimit**: `api/limits.py`, a body arriving in chunks against the declared and
   the counted limit; the operator queries of `ops.py` over the queue's columns.
2. **CSV checks**: `read_labels` and `check_consistency` of `gold.py`, so that `Consistent`
   in `GoldLoad` becomes a theorem instead of an assumption.
3. **Compositions**: two loaders of one split in `GoldLoad`; an abstract specification of
   what readers are promised, implemented by `ServedCorpus`.
