\* The game: three clients, one of which loses datagrams; two words.  The
\* acknowledgements: two clients of any kind, two runs of the server.  The
\* select() pair: sockets of two texts.  The counters: four increments each.
CONSTANTS
  Players = {c1, c2, c3}
  Words = {banana, apple}
  NoWord = NoWord
  MayLose = {c3}
  Askers = {a1, a2}
  Nobody = Nobody
  MaxRuns = 2
  Room = 2
  MaxTyped = 2
  Loops = 4
SPECIFICATION SmallSpec
INVARIANTS OneInFlight PhaseRestored AckRight CountRight
PROPERTIES ClientFinishes AskEnds PairServed
CHECK_DEADLOCK FALSE
