\* Host handlers may call any operation of the session back.
CONSTANTS
  Runtimes = {"engine"}
  HookCalls <- Operations
  HandlersThrow = TRUE
  MaxRedirects = 1
  MaxPasses = 1
  MaxScripts = 1
  MaxNesting = 3
  MaxCalls = 3
  AgentSessions = {a1}
  Flavours = {"v2", "bare", "oracle"}
  ListLimit = 3
  MaxAgentRequests = 7
  MaxAgentRuns = 2
  MaxAgentMessages = 3
  MaxAgentEvents = 2
  MaxAgentCalls = 3
  Catalogue <- Endpoints6
  Shows <- ShownOn
  FormsOn <- FormsShown
  ServedAt <- PageUrls
  FirstPage = "home"
  Policy <- Permitted
  MaxSteps = 2
  MaxPageRequests = 4
  MaxGetProbes = 2
  MaxSchemas = 3
  ProbeStatus = {200, 404}
  uLogin = uLogin uNext = uNext uPartner = uPartner uForeign = uForeign uAccount = uAccount
  SiteUrls <- LoginPages
  HostOf <- LoginHosts
  BareUrls = {uNext}
  NoUrl = NoUrl
  LoginUrl <- uLogin
  NameEndpoint <- uAccount
  PasswordEndpoint <- uAccount
  TrustedUrls = {uPartner}
  PageForms <- LoginForms
  NoForm = NoForm
  LoginSteps = 3
  RedirectHops = 2
  Responses <- HttpAnswers
  MaxBody = 3
  WordSize = 16
  MaxAddresses = 2
  MaxSocketFrames = 3
  MaxCdpEvents = 1
  MaxCdpCalls = 2
  MaxEmitted = 2
  pHome = pHome pList = pList pItem = pItem pMoved = pMoved pOut = pOut pAlso = pAlso
  CrawlUrls <- SitePages
  CrawlStart <- pHome
  OriginOf <- SiteOrigins
  PageAt <- LeadsTo
  LinksOn <- SiteLinks
  FoundOn <- SiteApis
  BlockedUrls = {}
  DisallowedUrls = {pList}
  CrawlOrigins = {1, 2}
  CrawlLimits <- SiteLimits
  MaxOutput = 9
  PageElements = 2
  MaxCdpDocs = 3
  MaxCdpCommands = 5
  MaxConnections = 2
  JsonLexemes <- Lexemes
  JsonValues <- SomeValues
  MaxJson = 3
  OpenDepth = 1
  RpcDepth = 2
  RpcValues = 4
  PrintedDigits = 2
  RpcMethods = {"m", "rpc.m"}
  RpcIds <- PageIds
  RpcCodes <- ErrorCodes
  ServerIds <- OtherSpellings
  DoubleDigits = 2
  MaxBatch = 2
  MaxRpcRequests = 3
  MaxResponses = 2
SPECIFICATION DriversSpec
INVARIANTS EngineLifetime AnswersAreTheirs ResultsAreHonest CredentialsStayTrusted WhatArrivesWasSent CrawlAccountsForPages IdsNameOneElement MessagesAreKept
CHECK_DEADLOCK FALSE
