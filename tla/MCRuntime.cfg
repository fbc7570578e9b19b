CONSTANTS
  LuaBrowsers = {x1, x2}
  MaxUserdata = 3
  MaxSubs = 1
  PluginFiles = {p1, p2}
  LuaFiles = {l1}
  HostThreads = {t1, t2}
  MaxHandlers = 1
  MaxCalls = 5
  site = site
  www = www
  Domains <- StoreDomains
  Under <- StorePairs
  Origins <- StoreOrigins
  Cookies <- StoreCookies
  NoDomain = ""
  Never = 99
  PathPrefix <- StorePaths
  Passwords = {w1, w2}
  StoreSessions = {s1}
  MaxNow = 1
  MaxStoreOps = 3
  Docs <- PrintDocs
  Sheet <- PrintSheet
  Defaults <- PrintDefaults
  MaxWalk = 4
  MaxNesting = 4
  Height = 14
  Margin = 2
  KeepClear = 3
  Width = 9
  MinWidth = 3
  MaxPrinted = 2
  Tools = {"scrape", "scrape-lua", "resolver", "resolver-lua", "schema", "schema-lua"}
  WebPages <- SitePages
  AnswerTo <- SiteAnswer
  Api = {1, 2, 3, 5, 6}
  Garbage = {5}
  TemplateOf <- SiteTemplate
  Home = "home"
  MinConfidence = 40
  RequestBudget = 3
  MaxRounds = 2
  MaxProperties = 2
  MaxLinks = 3
  MaxLost = 1
  flash1 = flash1 flash2 = flash2 tab1 = tab1
  Flashes = {flash1, flash2}
  Tabs = {tab1}
  MatchingTabs <- OpenTabs
  MaxFlashes = 1
  MaxQueue = 1
  IdleLimit = 0
  MaxNavigations = 1
  MaxClicks = 4
  MaxReports = 1
  MaxDriverCalls = 2
  MaxBrokerFaults = 1
  d1 = d1 d2 = d2 d3 = d3 d4 = d4
  DomNodes = {d1, d2, d3, d4}
  BodyNode = d1
  DomPages <- DomSite
  ListenerSorts <- DomSorts
  MaxDomOps = 2
  MaxDomFrames = 5
  LaidPages <- LaidSet
  Viewport = 8
  MaxFragments = 6
  MaxDepth = 4
  AutoLength = AutoLength
  Addresses = {1, 2, 3}
  MaxNodes = 3
  MaxInstalls = 2
  MaxHandles = 2
  MaxHeld = 2
  NativeModules = {m1}
  Initializing = {m1}
  TicksPerMs = 2
  TimeoutMs = 1
  MaxTicks = 4
  MaxJobs = 1
  MaxDrainJobs = 1
  MaxQueued = 2
  MaxInstances = 1
  MaxCallDepth = 1
  MaxFrames = 4
  MaxEntries = 3
  Xhrs = {x1, x2}
  MaxFetches = 2
  MaxSources = 2
  MaxPosts = 2
  MaxPageCalls = 4
  MaxNested = 2
  HistoryUrls <- WindowUrls
  NoHref = NoHref
  ScriptUrl = ScriptUrl
  MaxHistory = 3
  Sizes <- WindowSizes
  MediaTexts <- WindowQueries
  MaxLists = 1
  MaxListsMade = 2
  MaxWindowOps = 4
  ByteTexts <- CodecByteTexts
  UnitTexts <- CodecUnitTexts
  Decoders <- CodecKinds
  MaxPiece = 4
  MaxUses = 2
SPECIFICATION RuntimeSpec
INVARIANTS BrowsersOutliveSessions PluginsAreCalledInTurn StoresAgree PrintIsThePage EverythingFoundIsReported PolledIsConsented DocumentIsSound HitsAreVisible HandlesAreStable ScriptsAreAccountedFor PageIsAnswered WindowIsCurrent TextIsKept
CHECK_DEADLOCK FALSE
