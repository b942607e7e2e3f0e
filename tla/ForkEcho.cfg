\* Two clients of the servers that fork for each, so that children end together;
\* three of the prefork server, one more than its workers.
CONSTANTS
  Clients = {c1, c2, c3}
  NoClient = NoClient
  NProcess = 2
  Callers = {c1, c2}
  Ending = {c1}
  Pieces = 2
  MaxOwed = 3
SPECIFICATION FairSpec
INVARIANTS NoLeakedSocket Conserved
PROPERTIES HandlerReaps Answered
CHECK_DEADLOCK FALSE
