\* One spider, two connections at a time, every command and every fault.
SPECIFICATION Spec
CONSTANTS
  NumNames = 1
  NumFds = 4
  MaxClients = 2
  MaxSpiders = 1
  Commands <- AllCommands
  Faults = {"launch", "crash", "midway"}
INVARIANTS
  LeaseIsTheAskers
  AcknowledgedIsDurable
