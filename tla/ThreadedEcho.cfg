\* Two clients, one of which may be killed; buffers of three bytes, so a piece
\* with and without a newline fills them; descriptors for one connection or two.
CONSTANTS
  Clients = {c1, c2}
  Cap = 3
  MaxOpen = 2
  MaxPieces = 2
  MayAbort = {c2}
SPECIFICATION FairSpec
INVARIANTS EchoedExactly OthersKept
PROPERTIES SigintStops EchoArrives
CHECK_DEADLOCK FALSE
