SPECIFICATION Spec
CONSTANTS
  A = A
  B = B
  Hosts <- BothHosts
  Paths <- Root
  Urls <- OriginUrls
  Statuses <- StatusClasses
  MaxRedirects = 2
  FollowRedirects = TRUE
  MaxJarWrites = 1
INVARIANTS
  CarriedOnlyHome
  ChainIsWhatWasSent
