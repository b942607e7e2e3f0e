\* A reset connection: read() returns -1.  No input ends.
CONSTANTS
  Clients = {c1, c2, c3}
  NoClient = NoClient
  MaxClients = 3
  Fds = {4, 5, 6}
  MaxTexts = 0
  MaxLeaves = 1
  Talkers = {}
  Departures = {"rst"}
SPECIFICATION Spec
INVARIANT Attribution
CHECK_DEADLOCK FALSE
