SPECIFICATION Spec
CONSTANTS
  alice = alice
  bob = bob
  carol = carol
  question = question
  comment = comment
  h1 = h1
  h2 = h2
  RankAgentEnabled = FALSE
  Users = {alice, bob, carol}
  Posts = {question, comment}
  Handlers = {h1, h2}
  Author <- QuestionAndComment
  Kind <- TwoKinds
  Points <- ScaledPoints
  DailyRankLimit = 2
  InitialRank = 1
  MaxRequests = 3
  OneAtATime = TRUE
  NoRequest = NoRequest
  StatementsFail = TRUE
  CountsFail = FALSE
INVARIANTS
  PairedRows
  OneStance
  RankFloor
  AnnouncedOnce
PROPERTIES
  RollbackExact
  ImplementsStance
SYMMETRY Symmetry
CHECK_DEADLOCK FALSE
