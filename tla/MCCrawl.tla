------------------------------ MODULE MCCrawl ------------------------------
(* Constants for model-checking Crawl. *)
EXTENDS Crawl

Both == {"ingest", "audit"}
TwoHosts == {"h1", "h2"}
Home(f) == IF f \in {"feed2", "page2"} THEN "h2" ELSE "h1"

\* A feed and a listing of one host, and a source that nothing reads.
ThreeSources == 1..3
SomeStrategies == [s \in Sources |-> CASE s = 1 -> "rss" [] s = 2 -> "static" [] s = 3 -> "browser"]
SomeAddresses == [s \in Sources |-> CASE s = 1 -> "feed1" [] s = 2 -> "page1" [] s = 3 -> "page3"]

\* One portal declares the feed that is known and one that is not.
TwoPortals ==
  <<[homepage |-> "page1", known |-> <<"feed1">>, declared |-> <<"feed1", "feed2">>],
    [homepage |-> "page2", known |-> <<"feed2">>, declared |-> <<>>]>>

Entry(path, params, summary, up) ==
  [link |-> [path |-> path, params |-> params], titled |-> TRUE, summary |-> summary, hops |-> up]

\* One article on two channels of a feed, and under one path a second article
\* that a parameter tells apart; the listing has it too, and a tag link.  Later,
\* or earlier, the feed offers something else.
SomeBodies(f) ==
  IF f = "page1"
  THEN {<<Entry("a", {"utm_source"}, "none", 1), Entry("b", {}, "none", MAX_ANCHOR_HOPS + 1)>>}
  ELSE {<<Entry("a", {"utm_source"}, "headline", 0), Entry("a", {}, "lead", 0),
          Entry("a", {"id", "srcc"}, "lead", 0)>>,
        <<Entry("c", {}, "lead", 0)>>}

\* One article on four channels, with a lead on each, and one without a lead.
Channels(f) ==
  {<<Entry("a", {}, "lead", 0), Entry("a", {"utm_source"}, "lead", 0), Entry("a", {"s"}, "lead", 0),
     Entry("a", {"srcc"}, "lead", 0), Entry("b", {}, "none", 0)>>}

StoryOf(link) == <<link.path, "id" \in link.params>>
SomeGold == {[path |-> "a", params |-> {"srcc"}]}

TrackingParams == {"utm_source", "srcc", "s"}

=============================================================================
