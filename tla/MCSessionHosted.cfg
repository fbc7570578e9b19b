\* Host handlers may close the session but call nothing else back.
SPECIFICATION HostedSpec
CONSTANTS
  Runtimes = {"absent", "null", "engine"}
  HookCalls = {"close"}
  HandlersThrow = FALSE
  MaxRedirects = 2
  MaxPasses = 2
  MaxScripts = 2
  MaxNesting = 3
  MaxCalls = 3
  Observers = {o1, o2}
  Delays = {0, 1}
  MaxFlush = 2
  MaxDrain = 2
  MaxClock = 1
  MaxOps = 3
  MaxInterrupts = 1
  Lexemes <- MarkupLexemes
  MaxLexemes = 4
  MaxBytes = 15
  MaxTreeNodes = 5
  MaxTreeDepth = 4
  SelectorTexts <- SelectorSet
  MaxCompounds = 3
  SelectorBudget = 4
  AgentSheet <- BaseSheet
  AuthorSheets <- SheetSet
  StyledPages <- StyledSet
  MaxRules = 4
  MaxDeclarations = 14
  MaxMedia = 1
  MatchBudget = 24
  RootSize = 2
  MaxFontSize = 8
INVARIANTS
  LoopKeepsItsWord
  PriorObservationsKept
  MarkupIsFaithful
  CascadeIsTheDefinition
PROPERTIES EveryCallReturns TimersRun
CHECK_DEADLOCK FALSE
