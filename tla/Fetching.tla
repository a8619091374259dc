------------------------------ MODULE Fetching ------------------------------
(***************************************************************************)
(* The pure part of ingest/fetch.py, shared by the ingest pass and by      *)
(* evals/audit_sources.py: when two addresses are one article, which       *)
(* entries of a feed or a listing count, and which carry a lead.           *)
(*                                                                         *)
(* A link is a path and a set of query parameters, None where an entry has *)
(* none.  A summary is "lead" when it is worth analysing: it is there, is  *)
(* not the headline once more and has MIN_LEAD_CHARS.  The address a link  *)
(* is relative to and what HTML and dates are made of are left out.        *)
(***************************************************************************)
EXTENDS Naturals, SequencesExt

CONSTANTS
  TRACKING_PARAMS,
  MAX_ANCHOR_HOPS,
  None

\* Mutant: the parameters are kept.
Canonical_Verbatim(link) == link

\* canonical_url
Canonical(link) == [link EXCEPT !.params = @ \ TRACKING_PARAMS]

HasEntryLead(entry) == entry.summary = "lead"

\* What a sequence has at the given places, in their order.
At(s, places) ==
  LET order == CHOOSE p \in [1..Cardinality(places) -> places] :
                 \A j, k \in DOMAIN p : j < k => p[j] < p[k]
  IN [k \in DOMAIN order |-> s[order[k]]]

\* One article per canonical address, the first that is seen.
Deduplicated(found) ==
  At(found, {i \in DOMAIN found : \A j \in 1..i-1 : found[j].url # found[i].url})

Usable(body) == At(body, {i \in DOMAIN body : body[i].titled /\ body[i].link # None})

ParseFeed(body) ==
  LET usable == Usable(body)
  IN Deduplicated([i \in DOMAIN usable |->
       [url |-> Canonical(usable[i].link), lead |-> HasEntryLead(usable[i])]])

\* A heading whose anchor is further up than MAX_ANCHOR_HOPS is no card; a
\* listing has no leads.
ParseListing(body) ==
  LET usable == Usable(body)
      cards == At(usable, {i \in DOMAIN usable : usable[i].hops <= MAX_ANCHOR_HOPS})
  IN Deduplicated([i \in DOMAIN cards |->
       [url |-> Canonical(cards[i].link), lead |-> FALSE]])

=============================================================================
