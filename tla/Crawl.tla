-------------------------------- MODULE Crawl --------------------------------
(***************************************************************************)
(* What the two crawlers send to the portals, and what they make of it.    *)
(* The ingest process (ingest/__main__.py, fetch.py) asks each source's    *)
(* host for robots.txt and then for its address, pass after pass; the      *)
(* audit (evals/audit_sources.py) asks each portal for its homepage, for   *)
(* every feed known or declared there, and for robots.txt.  Each spaces    *)
(* its requests with a Throttle of its own, and httpx follows redirects    *)
(* without asking it.                                                      *)
(*                                                                         *)
(* Ingest describes the transactions and validators of a pass; this module *)
(* is the inside of its RobotsVerdict, FetchSource and SaveArticles.  All  *)
(* sources are active here.  An address stands for its own path; robots    *)
(* rules hold for a host.  Time goes by in ticks.                          *)
(***************************************************************************)
EXTENDS Fetching, FiniteSets

CONSTANTS
  Clients,        \* "ingest" and "audit"
  AtOnce,         \* how many of them run at one time
  Sources,        \* of ingest, as numbers in the order of their names
  Strategy,       \* "rss", "static", or another that nothing reads
  Address,        \* of each source
  Portals,        \* of the audit, as a sequence: homepage, known and declared feeds
  Host(_),        \* of an address
  Hosts,
  Bodies(_),      \* what a GET of an address may return
  Story(_),       \* the article that a link really leads to
  GoldLinks,      \* links of articles the gold loader may store
  CRAWL_DELAY, INTERVAL,  \* in ticks
  MaxHops         \* redirects that httpx follows

\* docker-compose.yml:71 has 7200 s between passes, fetch.py:50 2 s between requests.
ASSUME DelayAssumption ==
  CRAWL_DELAY \in Nat \ {0} /\ INTERVAL \in Nat /\ INTERVAL >= CRAWL_DELAY
ASSUME ClientsAssumption == Clients \subseteq {"ingest", "audit"}
ASSUME NoneIsNoTime == None \notin Nat

\* Sources have numbers; there is one, and a portal.
ASSUME AddressesAssumption ==
  /\ Sources \in SUBSET Nat /\ Sources # {}
  /\ Portals \in Seq(Range(Portals)) /\ Portals # <<>>
  /\ \A p \in Range(Portals) :
       p.known \in Seq(Range(p.known)) /\ p.declared \in Seq(Range(p.declared))

\* Every link that is ever seen.
Feeds == UNION {Range(p.known) \cup Range(p.declared) : p \in Range(Portals)}
Answers == UNION {Bodies(f) : f \in Feeds \cup {Address[s] : s \in Sources}}
Links == GoldLinks \cup {e.link : e \in {e \in UNION {Range(b) : b \in Answers} : e.link # None}}

\* fetch.py:87 "The same article reached from a feed and from a homepage differs only
\* in these parameters": what canonical_url takes for granted of the links.
ASSUME StoriesAssumption ==
  /\ \A b \in Answers : b \in Seq(Range(b))
  /\ \A l \in Links :
       /\ l = [path |-> l.path, params |-> l.params]
       /\ Story([path |-> l.path, params |-> l.params \ TRACKING_PARAMS]) = Story(l)
       /\ \A m \in Links : Story(l) = Story(m) =>
            l.path = m.path /\ l.params \ TRACKING_PARAMS = m.params \ TRACKING_PARAMS

VARIABLES
  rules,          \* each host's robots.txt: "allow" (or there is none), "disallow"
  permitted,      \* history: since the turn of the current source began, its host
                  \* has once allowed it, or failed to answer for its robots.txt
  pc,             \* what each client is about to ask for, or does
  asleep,         \* ticks it has yet to sleep; None before throttle.wait
  last,           \* ticks since Throttle._last of each host, up to the delay
  quiet,          \* history: ticks since the client really asked it, up to the delay,
                  \* whichever of its processes did
  strange,        \* history: hosts that the process running now has not asked yet
  hops,           \* redirects followed for this request
  todo,           \* sources that the pass has yet to finish
  body,           \* articles that are parsed and not yet stored
  articles,       \* the table, by canonical address
  turn, feeds,    \* the audit's portal, and the addresses it has yet to try
  reports,        \* the usable feeds of this portal
  entries,        \* of all portals so far
  candidates      \* eval/candidates.csv, None before it is written

ingestVars == <<todo, body>>
auditVars == <<turn, feeds, reports, entries, candidates>>
robotsVars == <<rules, permitted>>
clockVars == <<asleep, last, quiet, strange, hops>>
vars == <<robotsVars, pc, clockVars, ingestVars, articles, auditVars>>

-----------------------------------------------------------------------------
(***************************************************************************)
(* Requests.                                                               *)
(***************************************************************************)
First(some) == CHOOSE s \in some : \A r \in some : s <= r
Current == First(todo)

\* What the client is about to ask for.
Target(c) ==
  CASE pc[c] \in {"robots", "fetch"} -> Address[Current]
    [] pc[c] = "home" -> Portals[turn].homepage
    [] pc[c] = "feed" -> Head(feeds)
    [] OTHER -> IF reports = <<>> THEN Portals[turn].homepage ELSE reports[1].feed

Supported(s) == Strategy[s] \in {"rss", "static"}

\* A source that nothing reads is asked for its rules, and for nothing else.
Asking(c) ==
  \/ pc[c] \in {"robots", "home", "feed", "verdict"}
  \/ pc[c] = "fetch" /\ Supported(Current)

\* Throttle.wait computes how long to sleep ...
StartWait(c) ==
  /\ Asking(c) /\ asleep[c] = None
  /\ asleep' = [asleep EXCEPT ![c] = CRAWL_DELAY - last[c][Host(Target(c))]]
  /\ UNCHANGED <<robotsVars, pc, last, quiet, strange, hops, ingestVars, articles, auditVars>>

\* Mutant: what was asked for robots.txt does not count.
Send_RobotsUncounted(c, h) ==
  /\ Asking(c) /\ asleep[c] = 0 /\ hops[c] = None /\ h = Host(Target(c))
  /\ last' = [last EXCEPT ![c][h] = IF pc[c] = "robots" THEN @ ELSE 0]
  /\ quiet' = [quiet EXCEPT ![c][h] = 0] /\ strange' = [strange EXCEPT ![c] = @ \ {h}]
  /\ hops' = [hops EXCEPT ![c] = 0]
  /\ UNCHANGED <<robotsVars, pc, asleep, ingestVars, articles, auditVars>>

\* ... and on waking up notes the time, when the request leaves.
Send(c, h) ==
  /\ Asking(c) /\ asleep[c] = 0 /\ hops[c] = None /\ h = Host(Target(c))
  /\ last' = [last EXCEPT ![c][h] = 0]
  /\ quiet' = [quiet EXCEPT ![c][h] = 0] /\ strange' = [strange EXCEPT ![c] = @ \ {h}]
  /\ hops' = [hops EXCEPT ![c] = 0]
  /\ UNCHANGED <<robotsVars, pc, asleep, ingestVars, articles, auditVars>>

\* follow_redirects=True: to any host, at once, and no throttle is told.
Redirect(c, h) ==
  /\ hops[c] # None /\ hops[c] < MaxHops
  /\ hops' = [hops EXCEPT ![c] = @ + 1]
  /\ UNCHANGED <<robotsVars, pc, asleep, last, quiet, strange, ingestVars, articles, auditVars>>

Answered(c, next) ==
  /\ hops[c] # None
  /\ hops' = [hops EXCEPT ![c] = None] /\ asleep' = [asleep EXCEPT ![c] = None]
  /\ pc' = [pc EXCEPT ![c] = next]
  /\ UNCHANGED <<rules, last, quiet, strange>>

\* A sleeper may wake up late.
Tick ==
  LET Older(age) == [c \in Clients |-> [h \in Hosts |->
        IF age[c][h] < CRAWL_DELAY THEN age[c][h] + 1 ELSE age[c][h]]]
  IN /\ asleep' = [c \in Clients |->
          IF asleep[c] = None \/ asleep[c] = 0 THEN asleep[c] ELSE asleep[c] - 1]
     /\ last' = Older(last) /\ quiet' = Older(quiet)
     /\ UNCHANGED <<robotsVars, pc, strange, hops, ingestVars, articles, auditVars>>

-----------------------------------------------------------------------------
(***************************************************************************)
(* The ingest process.                                                     *)
(***************************************************************************)
Permits(h) == rules[h] # "disallow"

\* A pass starts with a fresh Throttle.
StartPass(c) ==
  /\ c = "ingest" /\ pc[c] = "idle" /\ asleep[c] \in {None, 0}
  /\ todo' = Sources
  /\ last' = [last EXCEPT ![c] = [h \in Hosts |-> CRAWL_DELAY]]
  /\ asleep' = [asleep EXCEPT ![c] = None]
  /\ pc' = [pc EXCEPT ![c] = "robots"]
  /\ permitted' = Permits(Host(Address[First(Sources)]))
  /\ UNCHANGED <<rules, quiet, strange, hops, body, articles, auditVars>>

\* The next source, or the interval.
GoOn(c) ==
  /\ todo' = todo \ {Current} /\ body' = <<>>
  /\ pc' = [pc EXCEPT ![c] = IF todo' = {} THEN "idle" ELSE "robots"]
  /\ asleep' = [asleep EXCEPT ![c] = IF todo' = {} THEN INTERVAL ELSE None]
  /\ hops' = [hops EXCEPT ![c] = None]
  /\ permitted' = (todo' # {} /\ Permits(Host(Address[First(todo')])))
  /\ UNCHANGED <<rules, last, quiet, strange, auditVars>>

NextSource(c) == GoOn(c) /\ UNCHANGED articles

\* What a GET of robots.txt tells: the rules, or nothing when the host cannot be
\* reached, times out or answers with anything but HTTP 200.
Told == {rules[Host(Address[Current])], "nothing"}

\* The source is read, whatever its host has told.
Read(c, told) ==
  /\ Answered(c, "fetch")
  /\ permitted' = (permitted \/ told = "nothing")
  /\ UNCHANGED <<ingestVars, articles, auditVars>>

\* Mutant: a host that does not answer is asked again.
RobotsVerdict_Insists(c) ==
  /\ pc[c] = "robots" /\ hops[c] # None
  /\ \E told \in Told :
       CASE told = "disallow" -> NextSource(c)
         [] told = "allow" -> Read(c, told)
         [] OTHER -> /\ Answered(c, "robots")
                     /\ UNCHANGED <<permitted, ingestVars, articles, auditVars>>

\* Mutant: what once allowed a source is trusted to allow it still.
RobotsVerdict_Trusts(c) ==
  /\ pc[c] = "robots" /\ hops[c] # None
  /\ \E told \in Told :
       IF told = "disallow" /\ \A a \in articles : a.source # Current
       THEN NextSource(c) ELSE Read(c, told)

\* robots_verdict: unreachable and absent count as allowed.
RobotsVerdict(c) ==
  /\ pc[c] = "robots" /\ hops[c] # None
  /\ \E told \in Told : IF told = "disallow" THEN NextSource(c) ELSE Read(c, told)

\* fetch_source refuses a strategy it has no reader for before it asks.
Unsupported(c) ==
  /\ pc[c] = "fetch" /\ asleep[c] = None
  /\ ~Supported(Current)
  /\ NextSource(c)

\* httpx.HTTPError, HTTP 4xx and 5xx, 304, and a body with nothing usable.
FetchYieldsNothing(c) ==
  /\ pc[c] = "fetch" /\ hops[c] # None
  /\ NextSource(c)

FetchSource(c) ==
  /\ pc[c] = "fetch" /\ hops[c] # None
  /\ \E b \in Bodies(Address[Current]) :
       body' = IF Strategy[Current] = "rss" THEN ParseFeed(b) ELSE ParseListing(b)
  /\ body' # <<>>
  /\ Answered(c, "save")
  /\ UNCHANGED <<permitted, todo, articles, auditVars>>

\* ON CONFLICT (url_hash) DO NOTHING
Insert(rows) ==
  articles' = articles \cup
    {a \in rows : \A b \in articles : b.url # a.url}

SaveArticles(c) ==
  /\ pc[c] = "save"
  /\ Insert({[url |-> a.url, source |-> Current] : a \in Range(body)})
  /\ GoOn(c)

\* The process dies, in a pass or between two, and compose starts another at
\* once, whose Throttle knows nothing of what the last one asked.
Crash(c) ==
  /\ c = "ingest" /\ pc[c] # "done"
  /\ todo' = {} /\ body' = <<>> /\ permitted' = FALSE
  /\ pc' = [pc EXCEPT ![c] = "idle"]
  /\ asleep' = [asleep EXCEPT ![c] = None] /\ hops' = [hops EXCEPT ![c] = None]
  /\ strange' = [strange EXCEPT ![c] = Hosts]
  /\ UNCHANGED <<rules, last, quiet, articles, auditVars>>

\* A portal changes its robots.txt, at any time.  Only ingest heeds it.
ChangeRules(h) ==
  /\ \E c \in Clients : c = "ingest" /\ pc[c] # "done"
  /\ rules' = [rules EXCEPT ![h] = IF @ = "allow" THEN "disallow" ELSE "allow"]
  /\ permitted' = (permitted \/ (todo # {} /\ rules'[Host(Address[Current])] # "disallow"))
  /\ UNCHANGED <<pc, clockVars, ingestVars, articles, auditVars>>

\* The gold loader stores an article under the same key.
StoreGold ==
  /\ \E link \in GoldLinks : Insert({[url |-> Canonical(link), source |-> None]})
  /\ UNCHANGED <<robotsVars, pc, clockVars, ingestVars, auditVars>>

-----------------------------------------------------------------------------
(***************************************************************************)
(* The audit.                                                              *)
(***************************************************************************)
\* _discover_feeds; the homepage may fail, or declare any of its feeds.
DiscoverFeeds(c) ==
  /\ pc[c] = "home"
  /\ \E declared \in {<<>>, Portals[turn].declared} :
       LET known == Range(Portals[turn].known)
       IN feeds' = Portals[turn].known
                \o At(declared, {i \in DOMAIN declared : declared[i] \notin known})
  /\ reports' = <<>>
  /\ Answered(c, IF feeds' = <<>> THEN "verdict" ELSE "feed")
  /\ UNCHANGED <<permitted, ingestVars, articles, turn, entries, candidates>>

\* _analyse: what the feed offers, duplicates included; b is empty when the
\* feed did not answer.
Probe(c) ==
  /\ pc[c] = "feed"
  /\ \E b \in Bodies(Head(feeds)) \cup {<<>>} :
       LET found == Usable(b)
       IN /\ reports' = IF found = <<>> THEN reports
                         ELSE Append(reports, [feed |-> Head(feeds), found |-> found])
          /\ entries' = entries \o [i \in DOMAIN found |->
                 [url |-> Canonical(found[i].link), portal |-> turn]]
  /\ feeds' = Tail(feeds)
  /\ Answered(c, IF feeds' = <<>> THEN "verdict" ELSE "feed")
  /\ UNCHANGED <<permitted, ingestVars, articles, turn, candidates>>

\* robots_verdict for the best feed, or the homepage; then the next portal, and
\* after the last _write_candidates, one row per canonical address.
Verdict(c) ==
  /\ pc[c] = "verdict"
  /\ turn' = turn + 1
  /\ IF turn' \in DOMAIN Portals THEN Answered(c, "home") /\ UNCHANGED candidates
     ELSE Answered(c, "done") /\ candidates' = Deduplicated(entries)
  /\ UNCHANGED <<permitted, ingestVars, articles, feeds, reports, entries>>

-----------------------------------------------------------------------------
Init ==
  /\ \E running \in kSubset(AtOnce, Clients) :
       /\ pc = [c \in Clients |-> IF c \notin running THEN "done"
                                 ELSE IF c = "ingest" THEN "idle" ELSE "home"]
       \* The audit reports the rules and does nothing about them.
       /\ IF "ingest" \in running THEN rules \in [Hosts -> {"allow", "disallow"}]
          ELSE rules = [h \in Hosts |-> "allow"]
  /\ asleep = [c \in Clients |-> None] /\ hops = [c \in Clients |-> None]
  /\ last = [c \in Clients |-> [h \in Hosts |-> CRAWL_DELAY]] /\ quiet = last
  /\ strange = [c \in Clients |-> Hosts] /\ permitted = FALSE
  /\ todo = {} /\ body = <<>> /\ articles = {}
  /\ turn = 1 /\ feeds = <<>> /\ reports = <<>> /\ entries = <<>> /\ candidates = None

IngestStep(c) ==
  \/ StartPass(c) \/ RobotsVerdict(c) \/ Unsupported(c) \/ FetchYieldsNothing(c)
  \/ FetchSource(c) \/ SaveArticles(c)
AuditStep(c) == DiscoverFeeds(c) \/ Probe(c) \/ Verdict(c)
Request(c) == StartWait(c) \/ \E h \in Hosts : Send(c, h) \/ Redirect(c, h)

Next ==
  \/ \E c \in Clients : Request(c) \/ IngestStep(c) \/ AuditStep(c) \/ Crash(c)
  \/ (\E h \in Hosts : ChangeRules(h)) \/ StoreGold \/ Tick

Spec == Init /\ [][Next]_vars

\* Every call has a timeout, every sleep ends, and the process goes on.
Fairness ==
  /\ WF_vars(Tick)
  /\ \A c \in Clients :
       WF_vars(StartWait(c) \/ (\E h \in Hosts : Send(c, h)) \/ IngestStep(c) \/ AuditStep(c))
FairSpec == Spec /\ Fairness

-----------------------------------------------------------------------------
(***************************************************************************)
(* Properties.                                                             *)
(***************************************************************************)

\* fetch.py:51 "One request per two seconds per domain": a client asks a host
\* again at least the delay after it last asked it, from source to source, from
\* feed to feed and from pass to pass; a process that dies costs each host at
\* most one request that comes too early.  Redirects are nobody's to space: see
\* RedirectsWait.
Polite ==
  [][\A c \in Clients, h \in Hosts :
       Send(c, h) => quiet[c][h] >= CRAWL_DELAY \/ h \in strange[c]]_vars

\* ingest/__main__.py:77 "Checked every pass rather than trusted": whatever a
\* portal allowed in earlier passes, nothing more is stored of a source whose
\* host answers for its robots.txt and disallows it throughout its turn.
ForbiddenIsNotStored ==
  [][\A a \in articles' \ articles :
       a.source # None => a.source = Current /\ permitted]_vars

\* fetch.py:85 "so one article is one key": however a link is decorated, and
\* whether ingest or the gold loader stores it first, an article is one row,
\* and one candidate of the annotator.
OneRowPerArticle ==
  /\ \A a, b \in articles : Story(a.url) = Story(b.url) => a = b
  /\ candidates # None =>
       /\ \A i, j \in DOMAIN candidates :
            Story(candidates[i].url) = Story(candidates[j].url) => i = j
       /\ \A e \in Range(entries) : \E x \in Range(candidates) : Story(e.url) = Story(x.url)

\* fetch.py:359 "reporting failure as data rather than raising": whatever the
\* portals answer, and wherever they redirect, each source gets its turn in
\* pass after pass, as long as no process dies.
EverySourceHasItsTurn ==
  \A c \in Clients : (pc[c] = "idle" /\ <>[][\A d \in Clients : ~Crash(d)]_vars) =>
    \A s \in Sources : []<>(todo # {} /\ Current = s)

\* ingest/__main__.py:77 "a portal's terms can change": nothing is stored of a
\* source whose host disallows it by then.
TermsAreKept ==
  [][\A a \in articles' \ articles :
       a.source # None => Permits(Host(Address[a.source]))]_vars

\* fetch.py:123 "One request per domain": no process asks a host that another
\* has just asked, or one that has died.
NoHostIsHurried ==
  [][\A c \in Clients, h \in Hosts :
       Send(c, h) => \A d \in Clients : quiet[d][h] >= CRAWL_DELAY]_vars

\* fetch.py:51 "One request per two seconds per domain": nor does a redirect.
RedirectsWait ==
  [][\A c \in Clients, h \in Hosts : Redirect(c, h) => quiet[c][h] >= CRAWL_DELAY]_vars

\* audit_sources.py:12 "lead coverage is measured, not assumed": a feed that the
\* audit puts on level 1 gives ingest a lead for four articles of five.
OfLevel1(found) == 5 * Len(SelectSeq(found, LAMBDA e : e.lead)) >= 4 * Len(found)
LevelIsWhatIngestReads ==
  \A r \in Range(reports) :
    OfLevel1([i \in DOMAIN r.found |-> [lead |-> HasEntryLead(r.found[i])]])
      => OfLevel1(ParseFeed(r.found))

=============================================================================
