SPECIFICATION ServicesSpec
CONSTANTS
  Urls = {"home", "news", "news/", "far", "deep", "deeper", "pic", "priv"}
  Pages = {"home", "news", "far", "deep", "deeper", "pic", "priv"}
  PageOf <- MCPageOf
  HostOf <- MCHostOf
  LinksOf <- MCLinksOf
  Html = {"home", "deep", "news", "far", "priv"}
  Binary = {"pic"}
  Denied = {"priv"}
  Untagged = {"home", "news"}
  Undated = {"home"}
  SecondOf <- MCSecondOf
  CfgUrls <- MCCfgUrls
  Sitemap <- MCSitemap
  CrawlDepth = 1
  MaxPages = 4
  AllowExternal = FALSE
  MaxVersion = 2
  MaxMishaps = 1
  DocCount = 3
  PageSize = 2
  BatchSize = 2
  MaxEdits = 1
  MaxLosses = 2
  MaxCalls = 2
  Period = 4
  SleepTime = 1
  SleepBackoff = 2
  MaxNumSleep = 3
  Processes = {p, q}
  Leeway = 2
  Lifetime = 4
  Horizon = 9
  Cells = {"a", "b", "c"}
  Concurrency = 2
  PipeRoom = 1
  Output <- MCOutput
  CheckpointTimes = {1}
  TimeLimit = 2
  LastTime = 4
  Items = {"a", "b", "x"}
  Unwanted = {"x"}
  Kinds = {"rss", "blob", "table", "s3", "drive", "drive_ids", "dropbox", "notion", "notion_ids",
           "github", "gitlab", "slack"}
  PerDocument = {"table", "s3", "drive_ids"}
  Rough = 2
  Hazards = {}
  MaxLog = 4
  MaxFaults = 1
INVARIANTS FirstCrawlIsComplete UnmodifiedIsStored CheckpointIsBacked StoreIsTruthful
  RateIsHeld StoredTokenIsValid ResultIsTrue StaleIsDue SettledIsDone
PROPERTIES OrchestrateReturns EventuallyCurrent
CHECK_DEADLOCK FALSE
