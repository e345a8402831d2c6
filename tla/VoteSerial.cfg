SPECIFICATION FairSpec
CONSTANTS
  alice = alice
  bob = bob
  carol = carol
  question = question
  comment = comment
  h1 = h1
  h2 = h2
  RankAgentEnabled = FALSE
  Users = {alice, bob, carol}
  Posts = {question}
  Handlers = {h1}
  Author <- OneQuestion
  Kind <- QuestionKind
  Points <- ScaledPoints
  DailyRankLimit = 2
  InitialRank = 1
  MaxRequests = 5
  OneAtATime = TRUE
  NoRequest = NoRequest
  StatementsFail = FALSE
  CountsFail = FALSE
INVARIANTS
  RankCoversRows
  VoteCountSettled
PROPERTIES
  VoteTakesEffect
CHECK_DEADLOCK FALSE
