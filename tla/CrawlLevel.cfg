\* A feed that lists an article on several channels.
SPECIFICATION Spec
CONSTANTS
  None = None
  TRACKING_PARAMS <- TrackingParams
  MAX_ANCHOR_HOPS = 4
  Clients <- Both
  AtOnce = 1
  Sources <- ThreeSources
  Strategy <- SomeStrategies
  Address <- SomeAddresses
  Portals <- TwoPortals
  Host <- Home
  Hosts <- TwoHosts
  Bodies <- Channels
  Story <- StoryOf
  GoldLinks <- SomeGold
  CRAWL_DELAY = 2
  INTERVAL = 2
  MaxHops = 1
INVARIANTS LevelIsWhatIngestReads
