CONSTANTS
  Clients = {k1}
  Hosts = {h1}
  MaxSessions = 2
  MaxDocs = 3
  MaxHandles = 1
  Sent <- WireRequests
  Called <- HostRequests
  Watchers = {w1, w2}
  Contents = {"A", "B"}
  NoData = "none"
  EmitInitial = TRUE
  MaxHistory = 1
  MaxPending = 2
  MaxRunning = 2
  MaxEdits = 1
  MaxDeploys = 2
  MaxFaults = 1
  MaxInFlight = 1
  MaxUnwritten = 1
  Drivers = {d1, d2}
  Marionettes = {m1, m2}
  MaxActions = 2
  pageA = pageA pageB = pageB pageC = pageC pageD = pageD elsewhere = elsewhere
  Urls <- Site
  Outside <- elsewhere
  LinksOf <- SiteLinks
  Denied = {pageC}
  MaxFrontier = 3
  MaxRetries = 1
  MaxPages = 3
  MaxDepth = 2
  Options <- CrawlOptions
  Seeds <- Starts
  DriverOps <- Staging
  MaxCommands = 3
  MaxFailures = 1
SPECIFICATION ServicesSpec
INVARIANTS OwnResponsesOnly ChangesAreAccountedFor RecordIsSound
PROPERTIES EveryoneIsServed SnapshotCatchesUp BridgeIsActionSlot CrawlGoesOn
CHECK_DEADLOCK FALSE
