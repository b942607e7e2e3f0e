\* Liveness, so no symmetry; two slots and three descriptors for four clients:
\* the third socket is leaked, and a fourth accept() can fail.
CONSTANTS
  Clients = {1, 2, 3, 4}
  NoClient = 0
  MaxClients = 2
  Fds = {4, 5, 6}
  MaxTexts = 1
  MaxLeaves = 1
  Talkers = {1}
  Departures = {"fin", "rst"}
SPECIFICATION LiveSpec
PROPERTIES Served Accepted
CHECK_DEADLOCK FALSE
