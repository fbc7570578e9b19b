\* Two names compete for one slot; the daemon is killed between any two writes.
SPECIFICATION FairSpec
CONSTANTS
  NumNames = 2
  NumFds = 3
  MaxClients = 1
  MaxSpiders = 1
  Commands <- AllCommands
  Faults = {"crash", "midway"}
INVARIANTS
  DaemonKnowsItsSpiders
PROPERTY LeasesAreReleased
