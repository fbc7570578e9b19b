SPECIFICATION Spec
CONSTANTS
  A = A
  B = B
  Hosts <- BothHosts
  Paths <- RootAndSub
  Urls <- PathUrls
  Statuses <- StatusClasses
  MaxRedirects = 2
  FollowRedirects = TRUE
  MaxJarWrites = 0
INVARIANTS
  JarScopeEnforced
