------------------------------- MODULE Ingest -------------------------------
(***************************************************************************)
(* The ingest pass: src/ingest/__main__.py, store.py and fetch_source of   *)
(* fetch.py.  A pass reads the active sources once, then goes through them *)
(* by name with a robots check and a conditional GET each; what it stores  *)
(* and the validators of the next GET are separate transactions.  The      *)
(* container's passes and a `make ingest` beside them may overlap, and     *)
(* what is not an httpx error ends the process.                            *)
(*                                                                         *)
(* The articles of a source are numbered as its portal publishes them, and *)
(* a moment is named by how many it had published by then: an ETag names   *)
(* the listing it came with, an If-Modified-Since date the listing of that *)
(* moment.  How addresses are told apart (canonical_url, digest) is left   *)
(* out, and a second is taken to be shorter than between two publications. *)
(* A --dry-run pass writes nothing and is a stuttering step.               *)
(***************************************************************************)
EXTENDS Naturals, FiniteSets

CONSTANTS
  Sources,    \* as numbers, in the order of their names
  Passes,     \* ingest processes that may run at one time
  Validator,  \* what each portal checks a GET by: "etag", "lastmod" or "none"
  Window,     \* how many of its articles a portal shows
  Published,  \* bound on the articles of each portal
  None        \* SQL NULL

ASSUME SourcesAssumption == Sources \subseteq Nat
ASSUME PortalsAssumption ==
  /\ Validator \in [Sources -> {"etag", "lastmod", "none"}]
  /\ Window \in Nat \ {0} /\ Published \in [Sources -> Nat \ {0}]
ASSUME NoneIsNoMoment == None \notin Nat

VARIABLES
  shelf,    \* articles each portal has published
  healthy,  \* does it answer with something that parses?
  banned,   \* sources whose robots.txt disallows their address
  active,   \* sources.active
  etag,     \* sources.last_etag
  fetched,  \* sources.last_fetch_at
  stored,   \* articles, as pairs of a source and a number
  failing,  \* sources with a row in fetch_errors
  pc, todo, \* where each pass stands and the sources it has yet to finish
  known,    \* the validators as the pass loaded them
  body,     \* the listing it was answered with
  late      \* history: the articles a portal published while a pass had its
            \* answer and had yet to write when, none published otherwise since

portalVars == <<shelf, healthy, banned>>
tables == <<active, etag, fetched, stored, failing>>
passVars == <<pc, todo, known, body>>
vars == <<portalVars, tables, passVars, late>>

Moments == Nat

\* What the portal of s shows when it has published n articles.
Listing(s, n) == {<<s, k>> : k \in {k \in 1..n : k + Window > n}}

\* The loop variable of _run_pass.
Current(p, s) == s \in todo[p] /\ \A r \in todo[p] : s <= r

\* Does the portal find nothing newer than the validators it is sent?  An
\* If-None-Match, where the portal heeds it, takes precedence.  External.
NotModified(s, v) ==
  \/ Validator[s] = "etag" /\ v.etag = shelf[s]
  \/ Validator[s] = "lastmod" /\ v.fetched = shelf[s]

Init ==
  /\ shelf \in [Sources -> {0, 1}]
  /\ healthy = Sources /\ banned = {}
  /\ active = {}
  /\ etag = [s \in Sources |-> None]
  /\ fetched = [s \in Sources |-> None]
  /\ stored = {} /\ failing = {}
  /\ pc = [p \in Passes |-> "idle"]
  /\ todo = [p \in Passes |-> {}]
  /\ known = [p \in Passes |-> [s \in Sources |-> [etag |-> None, fetched |-> None]]]
  /\ body = [p \in Passes |-> 0]
  /\ late = {}

-----------------------------------------------------------------------------
(***************************************************************************)
(* One pass.                                                               *)
(***************************************************************************)

\* No active source ends the pass at once, which changes nothing.
LoadSources(p) ==
  /\ pc[p] = "idle" /\ active # {}
  /\ pc' = [pc EXCEPT ![p] = "robots"]
  /\ todo' = [todo EXCEPT ![p] = active]
  /\ known' = [known EXCEPT ![p] =
       [s \in Sources |-> [etag |-> etag[s], fetched |-> fetched[s]]]]
  /\ UNCHANGED <<portalVars, tables, body, late>>

\* On to the next source; after the last one the pass is over.
Finish(p, s) ==
  /\ todo' = [todo EXCEPT ![p] = @ \ {s}]
  /\ pc' = [pc EXCEPT ![p] = IF todo[p] = {s} THEN "idle" ELSE "robots"]

\* robots_verdict; anything but DISALLOWED goes on to the fetch, and a host may
\* always fail to answer for its robots.txt.
RobotsVerdict(p, s) ==
  /\ pc[p] = "robots" /\ Current(p, s)
  /\ \/ /\ s \in banned
        /\ failing' = failing \cup {s}
        /\ Finish(p, s)
     \/ /\ pc' = [pc EXCEPT ![p] = "fetch"]
        /\ UNCHANGED <<failing, todo>>
  /\ UNCHANGED <<portalVars, active, etag, fetched, stored, known, body, late>>

\* fetch_source: an error, a 304, or a listing.
FetchSource(p, s) ==
  /\ pc[p] = "fetch" /\ Current(p, s)
  /\ pc' = [pc EXCEPT ![p] =
       IF s \notin healthy THEN "error"
       ELSE IF NotModified(s, known[p][s]) THEN "unchanged"
       ELSE IF shelf[s] = 0 THEN "error" ELSE "save"]
  /\ body' = [body EXCEPT ![p] = shelf[s]]
  /\ UNCHANGED <<portalVars, tables, todo, known, late>>

\* Mutant: a source that failed is tried again before the next one.
RecordFailure_Retries(p, s) ==
  /\ pc[p] = "error" /\ Current(p, s)
  /\ failing' = failing \cup {s}
  /\ pc' = [pc EXCEPT ![p] = "fetch"]
  /\ UNCHANGED <<portalVars, active, etag, fetched, stored, todo, known, body, late>>

\* Mutant: a failed fetch counts as the last one.
RecordFailure_Marks(p, s) ==
  /\ pc[p] = "error" /\ Current(p, s)
  /\ failing' = failing \cup {s}
  /\ fetched' = [fetched EXCEPT ![s] = shelf[s]]
  /\ Finish(p, s)
  /\ UNCHANGED <<portalVars, active, etag, stored, known, body, late>>

\* record_fetch_failure leaves the validators as they were.
RecordFailure(p, s) ==
  /\ pc[p] = "error" /\ Current(p, s)
  /\ failing' = failing \cup {s}
  /\ Finish(p, s)
  /\ UNCHANGED <<portalVars, active, etag, fetched, stored, known, body, late>>

\* now() is the moment of the write, not of the answer.
MarkUnchanged(p, s) ==
  /\ pc[p] = "unchanged" /\ Current(p, s)
  /\ fetched' = [fetched EXCEPT ![s] = shelf[s]]
  /\ Finish(p, s)
  /\ UNCHANGED <<portalVars, active, etag, stored, failing, known, body, late>>

\* Mutant: the validator is committed along with the first article.
SaveArticles_MarksFirst(p, s) ==
  /\ pc[p] = "save" /\ Current(p, s)
  /\ etag' = [etag EXCEPT ![s] = IF Validator[s] = "etag" THEN body[p] ELSE None]
  /\ pc' = [pc EXCEPT ![p] = "mark"]
  /\ UNCHANGED <<portalVars, active, fetched, stored, failing, todo, known, body, late>>

SaveArticles(p, s) ==
  /\ pc[p] = "save" /\ Current(p, s)
  /\ stored' = stored \cup Listing(s, body[p])
  /\ pc' = [pc EXCEPT ![p] = "mark"]
  /\ UNCHANGED <<portalVars, active, etag, fetched, failing, todo, known, body, late>>

\* Mutant: the validator is that of the listing as it is by now.
MarkFetched_Late(p, s) ==
  /\ pc[p] = "mark" /\ Current(p, s)
  /\ fetched' = [fetched EXCEPT ![s] = shelf[s]]
  /\ etag' = [etag EXCEPT ![s] = IF Validator[s] = "etag" THEN shelf[s] ELSE None]
  /\ Finish(p, s)
  /\ UNCHANGED <<portalVars, active, stored, failing, known, body, late>>

MarkFetched(p, s) ==
  /\ pc[p] = "mark" /\ Current(p, s)
  /\ fetched' = [fetched EXCEPT ![s] = shelf[s]]
  /\ etag' = [etag EXCEPT ![s] = IF Validator[s] = "etag" THEN body[p] ELSE None]
  /\ Finish(p, s)
  /\ UNCHANGED <<portalVars, active, stored, failing, known, body, late>>

\* The process dies; compose, or the operator, starts another pass.
Crash(p) ==
  /\ pc[p] # "idle"
  /\ pc' = [pc EXCEPT ![p] = "idle"]
  /\ todo' = [todo EXCEPT ![p] = {}]
  /\ UNCHANGED <<portalVars, tables, known, body, late>>

Step(p) ==
  \/ LoadSources(p)
  \/ \E s \in Sources : \/ RobotsVerdict(p, s) \/ FetchSource(p, s)
                        \/ RecordFailure(p, s) \/ MarkUnchanged(p, s)
                        \/ SaveArticles(p, s) \/ MarkFetched(p, s)

-----------------------------------------------------------------------------
(***************************************************************************)
(* The portals and the operator.                                           *)
(***************************************************************************)
\* The pass has the answer of s, and has yet to write last_fetch_at.
Answered(p, s) == pc[p] \in {"unchanged", "save", "mark"} /\ Current(p, s)

Publish(s) ==
  /\ shelf[s] < Published[s]
  /\ shelf' = [shelf EXCEPT ![s] = @ + 1]
  /\ late' = IF \E p \in Passes : Answered(p, s) THEN late \cup {<<s, shelf'[s]>>}
             ELSE {a \in late : a[1] # s}
  /\ UNCHANGED <<healthy, banned, tables, passVars>>

\* S with s put in or taken out.
Toggle(S, s) == IF s \in S THEN S \ {s} ELSE S \cup {s}

Outage(s) ==
  /\ healthy' = Toggle(healthy, s)
  /\ UNCHANGED <<shelf, banned, tables, passVars, late>>

ChangeRobots(s) ==
  /\ banned' = Toggle(banned, s)
  /\ UNCHANGED <<shelf, healthy, tables, passVars, late>>

\* make source-enable, make source-disable
Switch(s) ==
  /\ active' = Toggle(active, s)
  /\ UNCHANGED <<portalVars, etag, fetched, stored, failing, passVars, late>>

Next ==
  \/ \E p \in Passes : Step(p) \/ Crash(p)
  \/ \E s \in Sources : Publish(s) \/ Outage(s) \/ ChangeRobots(s) \/ Switch(s)

Spec == Init /\ [][Next]_vars

\* A pass goes on until it ends and the interval starts the next.
Fairness == \A p \in Passes : WF_vars(Step(p))
FairSpec == Spec /\ Fairness

-----------------------------------------------------------------------------
(***************************************************************************)
(* Properties.                                                             *)
(***************************************************************************)
TypeOK ==
  /\ shelf \in [Sources -> Moments] /\ \A s \in Sources : shelf[s] <= Published[s]
  /\ healthy \subseteq Sources /\ banned \subseteq Sources /\ active \subseteq Sources
  /\ etag \in [Sources -> Moments \cup {None}]
  /\ fetched \in [Sources -> Moments \cup {None}]
  /\ stored \subseteq Sources \X Nat
  /\ failing \subseteq Sources
  /\ pc \in [Passes -> {"idle", "robots", "fetch", "error", "unchanged", "save", "mark"}]
  /\ todo \in [Passes -> SUBSET Sources]
  /\ known \in [Passes -> [Sources -> [etag : Moments \cup {None}, fetched : Moments \cup {None}]]]
  /\ body \in [Passes -> Moments]
  /\ late \subseteq Sources \X Nat

\* A stored ETag vouches for its whole listing: the articles are committed
\* before the validator, whichever pass dies or overtakes another in between.
ETagCovers ==
  \A s \in Sources : etag[s] # None => Listing(s, etag[s]) \subseteq stored

\* What a 304 of s vouches for.
Vouched(s) == IF Validator[s] = "lastmod" THEN stored \cup late ELSE stored

\* fetch.py:330 "Ask the portal to answer 304 when nothing changed": a 304 to
\* an ETag never hides an article that the portal shows and the database
\* lacks, however stale the ETag is.  One to a fetch time hides no more than
\* was published between an answer and the write of its time, and that only
\* until the portal publishes once outside of such a gap.
OnlyLateIsHidden ==
  [][\A p \in Passes, s \in Sources :
       FetchSource(p, s) /\ pc'[p] = "unchanged" => Listing(s, shelf[s]) \subseteq Vouched(s)]_vars

\* fetch.py:333 "the fetch time is exactly what If-Modified-Since wants": no
\* 304 hides an article.  The code does not keep to it.
NothingIsHidden ==
  [][\A p \in Passes, s \in Sources :
       FetchSource(p, s) /\ pc'[p] = "unchanged" => Listing(s, shelf[s]) \subseteq stored]_vars

\* Makefile "Stop collecting from one source": no article of a source that is
\* switched off is stored.
OffMeansOff ==
  [][\A a \in stored' \ stored : a[1] \in active]_vars

\* From some point on s is switched on, may be and can be fetched, and no pass
\* dies, of what another portal answers or of anything else.
Calm(s) ==
  /\ <>[](s \in (active \cap healthy) \ banned)
  /\ <>[][\A p \in Passes : ~Crash(p)]_vars

\* _run_pass records a failure and goes on to the next source: whatever errors
\* the others answer with, an article that a portal goes on showing is stored.
\* One that it takes down before a pass comes by is lost, and so may be one
\* that a fetch time hides.
ShownIsCollected ==
  \A s \in Sources : Calm(s) =>
    \A k \in 1..Published[s] :
      <>[](<<s, k>> \in Listing(s, shelf[s]) /\ (Validator[s] = "lastmod" => <<s, k>> \notin late))
        => <>(<<s, k>> \in stored)

=============================================================================
