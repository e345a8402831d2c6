SPECIFICATION Spec
CONSTANTS
  bob = bob
  carol = carol
  question = question
  a1 = a1
  a2 = a2
  h1 = h1
  h2 = h2
  Users = {bob, carol}
  Questions = {question}
  Answers = {a1, a2}
  Handlers = {h1, h2}
  Author <- OneEach
  QuestionOf <- OneQuestion
  Operations = {"add", "remove", "recover", "approve", "reject", "report", "reportDelete", "reportEdit", "reportIgnore"}
  Verdicts = {"approved", "needReview", "deleteDirectly"}
  RestrictAnswer = FALSE
  MaxRequests = 4
  NoRequest = NoRequest
  StatementsFail = TRUE
INVARIANTS
  CountsRepaired
  PendingIsQueued
PROPERTIES
  ReportedIsDeleted
SYMMETRY Symmetry
CHECK_DEADLOCK FALSE
