\* Three clients in the room at once; connections end with FIN or RST,
\* after a RST there is one text only.
CONSTANTS
  Clients = {c1, c2, c3}
  NoClient = NoClient
  MaxClients = 3
  Fds = {4, 5, 6}
  MaxTexts = 2
  MaxLeaves = 1
  Talkers = {c1}
  Departures = {"fin", "rst"}
SPECIFICATION Spec
SYMMETRY Symmetry
INVARIANTS SlotTable NeverBlocks SameConversation KeepsName OwnOrHeard
CONSTRAINT FewTexts
CHECK_DEADLOCK FALSE
