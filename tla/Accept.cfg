SPECIFICATION Spec
CONSTANTS
  asker = asker
  bob = bob
  moderator = moderator
  question = question
  other = other
  a1 = a1
  a2 = a2
  a3 = a3
  h1 = h1
  h2 = h2
  RankAgentEnabled = FALSE
  Questions = {question, other}
  Answers = {a1, a2, a3}
  Users = {asker, bob, moderator}
  Handlers = {h1, h2}
  QuestionOf <- TwoQuestionOf
  Asker <- TwoAsker
  Answerer <- ThreeAnswerer
  Acceptors <- AskerAndModerator
  Points <- ScaledPoints
  InitialRank = 1
  MaxRequests = 3
  MaxLost = 1
  StatementsFail = TRUE
  NoAnswer = NoAnswer
  NoRequest = NoRequest
INVARIANTS
  RankCoversAwards
  OneAdopted
  AcceptedIsAdopted
  AwardsFollowAccepted
SYMMETRY Symmetry
CHECK_DEADLOCK FALSE
