SPECIFICATION Spec
CONSTANTS
  NumNames = 1
  NumFds = 4
  MaxClients = 2
  MaxSpiders = 1
  Commands = {"create", "operate"}
  Faults = {}
INVARIANT DisconnectCancelsNothing
