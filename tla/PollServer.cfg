\* Three clients, two client slots (MaxFds - 1) and one descriptor more than
\* slots: the "too many clients" branch, swap removal and slot reuse all occur.
\* Liveness, so no symmetry.
CONSTANTS
  Clients = {c1, c2, c3}
  NoClient = NoClient
  MaxFds = 3
  Fds = {4, 5, 6}
  MaxSent = 1
SPECIFICATION FairSpec
INVARIANTS SlotTable PassServesAll
PROPERTIES ClosedRight Attended SigintStopsOnEvent
CHECK_DEADLOCK FALSE
