\* The ingest process, pass after pass, or one audit; two redirects a request.
SPECIFICATION FairSpec
CONSTANTS
  None = None
  TRACKING_PARAMS <- TrackingParams
  MAX_ANCHOR_HOPS = 4
  Clients <- Both
  AtOnce = 1
  Sources <- ThreeSources
  Strategy <- SomeStrategies
  Address <- SomeAddresses
  Portals <- TwoPortals
  Host <- Home
  Hosts <- TwoHosts
  Bodies <- SomeBodies
  Story <- StoryOf
  GoldLinks <- SomeGold
  CRAWL_DELAY = 3
  INTERVAL = 4
  MaxHops = 2
INVARIANTS OneRowPerArticle
PROPERTIES ForbiddenIsNotStored Polite EverySourceHasItsTurn
