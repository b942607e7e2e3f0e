\* A reused slot keeps the revents of the client that left it.
CONSTANTS
  Clients = {c1, c2}
  NoClient = NoClient
  MaxFds = 3
  Fds = {4, 5}
  MaxSent = 1
SPECIFICATION Spec
PROPERTY HupOnlyIfReset
CHECK_DEADLOCK FALSE
