SPECIFICATION Spec
CONSTANTS
  question = question
  answer = answer
  tag = tag
  h1 = h1
  h2 = h2
  Objects = {question, answer, tag}
  Handlers = {h1, h2}
  Kind <- ThreeKinds
  MaxRequests = 4
  NoRequest = NoRequest
  Mixed = Mixed
  OneAtATime = TRUE
  StatementsFail = TRUE
INVARIANTS
  OneUnreviewed
  TagsFollowText
  RejectedNotShown
PROPERTIES
  ImplementsHistory
SYMMETRY Symmetry
CHECK_DEADLOCK FALSE
