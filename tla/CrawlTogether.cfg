\* The ingest process and an audit at one time, and rules that change.  TLC stops
\* at the first of the three that it finds violated; each alone is violated too.
SPECIFICATION Spec
CONSTANTS
  None = None
  TRACKING_PARAMS <- TrackingParams
  MAX_ANCHOR_HOPS = 4
  Clients <- Both
  AtOnce = 2
  Sources <- ThreeSources
  Strategy <- SomeStrategies
  Address <- SomeAddresses
  Portals <- TwoPortals
  Host <- Home
  Hosts <- TwoHosts
  Bodies <- SomeBodies
  Story <- StoryOf
  GoldLinks <- SomeGold
  CRAWL_DELAY = 2
  INTERVAL = 2
  MaxHops = 1
PROPERTIES NoHostIsHurried RedirectsWait TermsAreKept
