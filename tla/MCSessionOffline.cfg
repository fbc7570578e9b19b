SPECIFICATION Spec
CONSTANTS
  Runtimes = {"engine"}
  HookCalls = {"close"}
  HandlersThrow = TRUE
  MaxRedirects = 1
  MaxPasses = 1
  MaxScripts = 1
  MaxNesting = 3
  MaxCalls = 3
INVARIANT OfflineNeverNavigates
CHECK_DEADLOCK FALSE
