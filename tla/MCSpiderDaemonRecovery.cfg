SPECIFICATION Spec
CONSTANTS
  NumNames = 2
  NumFds = 4
  MaxClients = 1
  MaxSpiders = 1
  Commands = {"create"}
  Faults = {"launch"}
INVARIANT AcknowledgedIsRecovered
