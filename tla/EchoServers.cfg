\* Three clients; two slots for select(), so that a socket can be leaked, and
\* three descriptors, so that the poll() array has a middle.
CONSTANTS
  Clients = {c1, c2, c3}
  NoClient = NoClient
  MaxClients = 2
  Fds = {4, 5, 6}
  MaxSent = 2
SPECIFICATION FairSpec
INVARIANTS SlotTable BlocksOnlyOnNew
PROPERTIES Remembered KilledOnlyBy Served
CHECK_DEADLOCK FALSE
