----------------------------- MODULE Evaluation -----------------------------
(***************************************************************************)
(* The evaluation harness: evals/candidates.py draws a sample, it is       *)
(* annotated and loaded (GoldLoad), evals/run_eval.py asks a model about   *)
(* every article of a split and stores each call, and evals/report.py      *)
(* scores what is stored (Metrics), which it may do while a sweep runs.    *)
(*                                                                         *)
(* One model and one prompt version.  An answer is its parse error or the  *)
(* findings that survived verification (Highlight); of the counts of quotes*)
(* the accepted ones are kept.  Every article has one analysis outside the *)
(* gold set.  Sweeps follow one another as Sweeps lists them.              *)
(***************************************************************************)
EXTENDS Metrics

IsSeq(s) == s \in Seq(Range(s))

CONSTANTS
  Articles,                    \* as numbers, in the order of their ids
  Flagged, Day, Portal, HasLead,  \* of each article
  Labels, Kind,                \* what the annotator writes of each
  HeldOut,                     \* articles of the held-out set, loaded before
  FlaggedCap, NeutralCap,      \* --flagged and --neutral
  Sweeps,                      \* the arguments of each run of run_eval
  Answers(_, _)                \* what a model may find in an article's fields

ASSUME ArticlesAssumption ==
  /\ Articles \subseteq Nat /\ IsFiniteSet(Articles) /\ HeldOut \subseteq Articles
  /\ \A a \in Articles :
       /\ Flagged[a] \in BOOLEAN /\ HasLead[a] \in BOOLEAN /\ Portal[a] \in Int
       /\ Kind[a] \in {"borderline", "loaded", "neutral", "quoted_speech"}
       /\ IsSeq(Labels[a])

ASSUME LimitsAssumption ==
  /\ None \notin Nat \cup {"main", "holdout"}
  /\ {FlaggedCap, NeutralCap} \subseteq Nat \cup {None}

\* One variant or both, one grammar mode or both, at least one call per article.
ASSUME SweepsAssumption ==
  /\ IsSeq(Sweeps)
  /\ \A s \in DOMAIN Sweeps :
       LET args == Sweeps[s]
       IN /\ args.split \in {"main", "holdout"}
          /\ args.limit \in Nat \cup {None} /\ args.repeat \in Nat \ {0}
          /\ Range(args.variants) \subseteq {"title", "title_lead"}
          /\ \A axis \in {args.variants, args.grammars} :
               IsSeq(axis) /\ IsInjective(axis) /\ axis # <<>>

\* Of a reply that does not parse there are no findings.
ASSUME AnswersAssumption ==
  \A a \in Articles, fields \in SUBSET {"title", "lead"} : \A reply \in Answers(a, fields) :
    /\ reply.parsed \in BOOLEAN /\ IsSeq(reply.findings)
    /\ ~reply.parsed => reply.findings = <<>>

VARIABLES
  candidates,        \* gold_candidates.csv, in order
  gold,              \* gold_articles.split of each article, or None
  turn, pc,          \* the sweep that runs, or runs next, and how far it is
  queue,             \* the articles it goes through, in order
  calls, failures,   \* calls it has made, and those that raised ProviderError
  answer,            \* findings it has yet to store
  printed,           \* the provider errors that each sweep reported at its end
  rows, found,       \* analyses and their findings, in the order of insertion
  reading,           \* the report in progress has read this many rows
  report             \* its sections so far

corpusVars == <<candidates, gold>>
sweepVars == <<turn, pc, queue, calls, failures, answer, printed>>
tables == <<rows, found>>
reportVars == <<reading, report>>
vars == <<corpusVars, sweepVars, tables, reportVars>>

\* The first n, or all of them when there is no limit.
Prefix(s, n) == IF n = None \/ Len(s) <= n THEN s ELSE SubSeq(s, 1, n)

\* ORDER BY: before the k-th of S come k - 1 others.
InOrder(S, before) ==
  [k \in 1..Cardinality(S) |->
     CHOOSE a \in S : Cardinality({b \in S : <<b, a>> \in before}) = k - 1]

-----------------------------------------------------------------------------
(***************************************************************************)
(* candidates.py                                                           *)
(***************************************************************************)
SameCell(a, b) == Flagged[a] = Flagged[b] /\ Day[a] = Day[b] /\ Portal[a] = Portal[b]

\* Every way random() can rank the articles of E inside their cells.
CellRanks(E) ==
  {rank \in [E -> 1..Cardinality(E)] :
     \A a \in E : LET cell == {b \in E : SameCell(a, b)}
                  IN {rank[b] : b \in cell} = 1..Cardinality(cell)}

\* Mutant: the rank is left out of the order.
Earlier_Unranked(a, b, rank) ==
  Portal[a] < Portal[b] \/ (Portal[a] = Portal[b] /\ a < b)

\* ORDER BY cell_rank, s.name, a.id
Earlier(a, b, rank) ==
  \/ rank[a] < rank[b]
  \/ rank[a] = rank[b] /\ (Portal[a] < Portal[b] \/ (Portal[a] = Portal[b] /\ a < b))

Sample ==
  /\ candidates = <<>>
  /\ LET latest == {a \in Articles : gold[a] = None}
         Stratum(flagged, rank) ==
           InOrder({a \in latest : Flagged[a] = flagged},
                   {p \in latest \X latest : Earlier(p[1], p[2], rank)})
     IN \E rank \in CellRanks(latest) :
          candidates' = Prefix(Stratum(TRUE, rank), FlaggedCap)
                          \o Prefix(Stratum(FALSE, rank), NeutralCap)
  /\ UNCHANGED <<gold, sweepVars, tables, reportVars>>

\* The candidates are annotated and loaded as the main split.
Annotate ==
  /\ \E a \in ToSet(candidates) : gold[a] = None
  /\ gold' = [a \in Articles |-> IF a \in ToSet(candidates) THEN "main" ELSE gold[a]]
  /\ UNCHANGED <<candidates, sweepVars, tables, reportVars>>

-----------------------------------------------------------------------------
(***************************************************************************)
(* run_eval.py                                                             *)
(***************************************************************************)
Kinds == <<"borderline", "loaded", "neutral", "quoted_speech">>
KindOrder(a) == CHOOSE k \in DOMAIN Kinds : Kinds[k] = Kind[a]

\* Mutant: a limited run takes the head of the list.
LoadGold_Head(split, limit) ==
  LET all == {a \in Articles : gold[a] = split}
      Precedes(a, b) == \/ KindOrder(a) < KindOrder(b)
                        \/ KindOrder(a) = KindOrder(b) /\ a < b
  IN Prefix(InOrder(all, {p \in all \X all : Precedes(p[1], p[2])}), limit)

\* One split by kind and id; with a limit round-robin across the kinds.
LoadGold(split, limit) ==
  LET all == {a \in Articles : gold[a] = split}
      Depth(a) == IF limit = None THEN 0
                  ELSE Cardinality({b \in all : Kind[b] = Kind[a] /\ b < a})
      Precedes(a, b) ==
        \/ Depth(a) < Depth(b)
        \/ Depth(a) = Depth(b) /\ \/ KindOrder(a) < KindOrder(b)
                                  \/ KindOrder(a) = KindOrder(b) /\ a < b
  IN Prefix(InOrder(all, {p \in all \X all : Precedes(p[1], p[2])}), limit)

Sweep == Sweeps[turn]
TotalCalls ==
  Len(queue) * Len(Sweep.variants) * Len(Sweep.grammars) * Sweep.repeat

\* An empty split ends the run before it has called anything.
StartSweep ==
  /\ pc = "idle" /\ turn \in DOMAIN Sweeps
  /\ queue' = LoadGold(Sweep.split, Sweep.limit)
  /\ IF queue' = <<>> THEN turn' = turn + 1 /\ UNCHANGED pc
     ELSE pc' = "calling" /\ UNCHANGED turn
  /\ calls' = 0 /\ failures' = 0
  /\ UNCHANGED <<corpusVars, answer, printed, tables, reportVars>>

\* Mutant: the repetitions share a counter with the articles.
Asked_Diagonal(n) ==
  [article |-> queue[(n % Len(queue)) + 1],
   variant |-> Sweep.variants[((n \div Sweep.repeat) % Len(Sweep.variants)) + 1],
   grammar |-> Sweep.grammars[(n % Len(Sweep.grammars)) + 1]]

\* What the n-th call asks: grammars, variants, articles, repetitions.
Asked(n) ==
  LET perVariant == Len(queue) * Sweep.repeat
  IN [article |-> queue[((n \div Sweep.repeat) % Len(queue)) + 1],
      variant |-> Sweep.variants[((n \div perVariant) % Len(Sweep.variants)) + 1],
      grammar |-> Sweep.grammars[(n \div (perVariant * Len(Sweep.variants))) + 1]]

\* build_prompt: the variant recorded is "title" whenever there was no lead.
Shown(asked) ==
  IF asked.variant = "title_lead" /\ HasLead[asked.article] THEN "title_lead" ELSE "title"

\* ProviderError: reported and passed over.
FailedCall ==
  /\ pc = "calling" /\ calls < TotalCalls
  /\ calls' = calls + 1 /\ failures' = failures + 1
  /\ UNCHANGED <<corpusVars, turn, pc, queue, answer, printed, tables, reportVars>>

\* The first transaction of save_analysis.
SaveAnalysis(reply) ==
  /\ rows' = Append(rows,
       [run |-> turn, article |-> Asked(calls).article, variant |-> Shown(Asked(calls)),
        grammar |-> Asked(calls).grammar, source |-> Sweep.source,
        parsed |-> reply.parsed, accepted |-> Len(reply.findings)])
  /\ found' = Append(found, <<>>)

Call ==
  /\ pc = "calling" /\ calls < TotalCalls
  /\ \E reply \in Answers(Asked(calls).article, VisibleFields(Shown(Asked(calls)))) :
       SaveAnalysis(reply) /\ answer' = reply.findings
  /\ pc' = "saving"
  /\ UNCHANGED <<corpusVars, turn, queue, calls, failures, printed, reportVars>>

\* The second transaction.
SaveFindings ==
  /\ pc = "saving"
  /\ found' = [found EXCEPT ![Len(found)] = answer]
  /\ calls' = calls + 1 /\ pc' = "calling" /\ answer' = <<>>
  /\ UNCHANGED <<corpusVars, turn, queue, failures, printed, rows, reportVars>>

FinishSweep ==
  /\ pc = "calling" /\ calls = TotalCalls
  /\ printed' = [printed EXCEPT ![turn] = failures]
  /\ turn' = turn + 1 /\ pc' = "idle" /\ calls' = 0 /\ failures' = 0
  /\ UNCHANGED <<corpusVars, queue, answer, tables, reportVars>>

\* The process is stopped, or meets an error that is no ProviderError.
Crash ==
  /\ pc # "idle"
  /\ turn' = turn + 1 /\ pc' = "idle" /\ calls' = 0 /\ failures' = 0 /\ answer' = <<>>
  /\ UNCHANGED <<corpusVars, queue, printed, tables, reportVars>>

-----------------------------------------------------------------------------
(***************************************************************************)
(* report.py: every configuration, those with a lead once more, and the    *)
(* repeated calls.  Bound: one report.                                     *)
(***************************************************************************)
Joined == [i \in DOMAIN rows |->
  [run |-> rows[i].run, article |-> rows[i].article, variant |-> rows[i].variant,
   grammar |-> rows[i].grammar, source |-> rows[i].source,
   parsed |-> rows[i].parsed, accepted |-> rows[i].accepted,
   kind |-> Kind[rows[i].article], split |-> gold[rows[i].article]]]

\* Mutant: the second scoring is not restricted to articles with a lead.
Comparable_All(n) == 1..n

Comparable(n) == {i \in 1..n : HasLead[rows[i].article]}

\* load_rows; no rows at all end the report.
ReadRows ==
  /\ reading = None /\ Len(report) < 2 /\ rows # <<>>
  /\ reading' = Len(rows)
  /\ UNCHANGED <<corpusVars, sweepVars, tables, report>>

\* load_findings has no ORDER BY: the findings come in some order.
ReadFindings ==
  /\ reading # None
  /\ \E backwards \in BOOLEAN :
       LET order == IF backwards THEN [i \in DOMAIN found |-> Reverse(found[i])] ELSE found
           S == IF Len(report) = 0 THEN 1..reading ELSE Comparable(reading)
       IN report' = Append(report, ScoreAll(S, Joined, order, Labels))
  /\ reading' = None
  /\ UNCHANGED <<corpusVars, sweepVars, tables>>

ReadStability ==
  /\ Len(report) = 2
  /\ report' = Append(report, Repeated(DOMAIN rows, rows))
  /\ UNCHANGED <<corpusVars, sweepVars, tables, reading>>

-----------------------------------------------------------------------------
Init ==
  /\ candidates = <<>>
  /\ gold = [a \in Articles |-> IF a \in HeldOut THEN "holdout" ELSE None]
  /\ turn = 1 /\ pc = "idle" /\ queue = <<>> /\ calls = 0 /\ failures = 0 /\ answer = <<>>
  /\ printed = [s \in DOMAIN Sweeps |-> None]
  /\ rows = <<>> /\ found = <<>>
  /\ reading = None /\ report = <<>>

SweepStep ==
  StartSweep \/ FailedCall \/ Call \/ SaveFindings \/ FinishSweep \/ Crash
ReportStep == ReadRows \/ ReadFindings \/ ReadStability

Next == Sample \/ Annotate \/ SweepStep \/ ReportStep
Spec == Init /\ [][Next]_vars

-----------------------------------------------------------------------------
(***************************************************************************)
(* Properties.                                                             *)
(***************************************************************************)

\* candidates.py:21 "The sample is spread across days and portals, not taken
\* off the head of the list": whatever random() says, no day and portal gives
\* up two articles more than one that still has some.
SampleIsSpread ==
  LET sample == ToSet(candidates)
      Drawn(a) == Cardinality({b \in sample : SameCell(a, b)})
  IN candidates # <<>> =>
       /\ Len(candidates) = Cardinality(sample) /\ sample \cap HeldOut = {}
       /\ \A a \in sample, b \in Articles \ (sample \cup HeldOut) :
            Flagged[a] = Flagged[b] => Drawn(a) <= Drawn(b) + 1

\* run_eval.py:52 "ordered so a truncated run is still mixed": no kind has two
\* articles more in a limited run than a kind that was cut short.
LimitedRunIsMixed ==
  LET chosen == ToSet(queue)
      Share(a) == Cardinality({b \in chosen : Kind[b] = Kind[a]})
  IN pc # "idle" => \A a \in chosen, b \in Articles \ chosen :
       gold[b] = Sweep.split => Share(a) <= Share(b) + 1

RowsOf(run) == {i \in DOMAIN rows : rows[i].run = run}
CallsOf(run, a, variant, grammar) ==
  Cardinality({i \in RowsOf(run) : /\ rows[i].article = a /\ rows[i].variant = variant
                                   /\ rows[i].grammar = grammar})

\* run_eval.py:3 "Every axis the evaluation varies is a column": a sweep that
\* ended with no provider error holds each article once per repetition under
\* each configuration it was asked for, replies that do not parse included.
\* An article without a lead is called for both variants and told apart by
\* neither.
EveryCallIsAccounted ==
  \A run \in DOMAIN Sweeps : printed[run] = 0 =>
    LET args == Sweeps[run]
        eligible == {a \in Articles : gold[a] = args.split}
        called == {rows[i].article : i \in RowsOf(run)}
        all == Cardinality(eligible)
    IN /\ called \subseteq eligible
       /\ Cardinality(called) = IF args.limit = None \/ all <= args.limit THEN all ELSE args.limit
       /\ \A a \in called, v \in ToSet(args.variants), g \in ToSet(args.grammars) :
         IF HasLead[a] THEN CallsOf(run, a, v, g) = args.repeat
         ELSE CallsOf(run, a, "title", g) = args.repeat * Len(args.variants)

Orders(s) == {[k \in DOMAIN s |-> s[p[k]]] : p \in Bijection(DOMAIN s, DOMAIN s)}

\* metrics.py:357: in whatever order the findings of a call come back, a label
\* is credited once, what is left over on either side does not match, and the
\* order never changes the hits by more than a factor of two.
CreditIsFair ==
  \A i \in {i \in DOMAIN rows : Len(found[i]) > 1} :
    LET expected == Expected(Labels[rows[i].article], rows[i].variant)
    IN \A f \in Orders(found[i]) :
         LET credit == Credit(f, expected)
         IN /\ \A k, l \in DOMAIN credit : k # l /\ credit[k] = credit[l] => credit[k] = 0
            /\ \A k \in DOMAIN f, l \in DOMAIN expected :
                 Matches(f[k], expected[l]) => credit[k] # 0 \/ l \in Range(credit)
            /\ TruePositives(found[i], expected) <= 2 * TruePositives(f, expected)

\* report.py: a line of the report adds up.  It counts each accepted quote as a
\* hit or a false positive, fewer only while, or because, a call was saved
\* without its findings; and each label in reach as found or missed.
ReportAddsUp ==
  [][\A s \in UNION {report'[k] : k \in (DOMAIN report' \ DOMAIN report) \cap {1, 2}} :
       LET group == {i \in 1..reading : SameGroup(rows[i], s) /\ rows[i].article \in s.articles}
           Reach(i) == Cardinality(DOMAIN Expected(Labels[rows[i].article], rows[i].variant))
       IN /\ s.tp + s.fp <= s.accepted /\ s.spans \in s.tp .. s.tp + s.fp
          /\ s.tp + s.fp < s.accepted => \E i \in group : Len(found[i]) < rows[i].accepted
          /\ s.tp + s.fn = SumFunction([i \in {i \in group : rows[i].parsed} |-> Reach(i)])
          /\ s.accused <= s.neutral /\ s.empty + s.accused <= s.calls]_vars

\* report.py:196 "The variant comparison, restricted to articles both variants
\* could reach": when the sweep was over and had no provider error the two
\* lines of a pair are about the same articles, called equally often.
PairsAreComparable ==
  [][Len(report) = 1 /\ Len(report') = 2 =>
       \A pair \in VariantPairs(report'[2]) :
         printed[pair[1].run] = 0 /\ (\A i \in RowsOf(pair[1].run) : i <= reading) =>
           /\ pair[1].articles = pair[2].articles
           /\ pair[1].calls = pair[2].calls]_vars

\* metrics.py:258 "A `title_lead` sweep silently skips the ones without it":
\* with --repeat 1 no article counts twice in a line of the report, and none
\* is shown among the repeated calls.
NoArticleCountsTwice ==
  /\ report # <<>> => \A s \in report[1] :
       s.calls <= Cardinality(s.articles) * Sweeps[s.run].repeat
  /\ Len(report) = 3 => \A i \in report[3] : Sweeps[rows[i].run].repeat > 1

=============================================================================
