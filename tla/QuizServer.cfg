\* Two players, whose sessions overlap in every way.
CONSTANTS
  Clients = {c1, c2}
  NoClient = NoClient
  NumQuestions = 2
  NumOptions = 2
  Key <- FirstKeys
  MayLeave = {c2}
SPECIFICATION FairSpec
INVARIANTS KeyFollows InStep ScoreFair
PROPERTY QuizEnds
CHECK_DEADLOCK FALSE
