SPECIFICATION Spec
CONSTANTS
  ann = ann
  q1 = q1
  q2 = q2
  t1 = t1
  t2 = t2
  h1 = h1
  h2 = h2
  Users = {ann}
  Questions = {q1}
  Tags = {t1, t2}
  Handlers = {h1, h2}
  Owner <- OneOwner
  InitialTags <- NoQuestionYet
  Operations = {"add", "edit", "applyEdit", "hide", "show", "pin", "unpin", "remove", "recover", "approve", "reject", "close", "reopen", "adminSet", "removeAll"}
  Overlapping = {"pin", "unpin", "hide", "show", "add", "approve", "reject"}
  Verdicts = {"approved", "needReview", "deleteDirectly"}
  MaxRequests = 5
  NoRequest = NoRequest
  StatementsFail = TRUE
INVARIANTS
  TagCountSettled
  PendingIsQueued
  LiveIsTagged
  PinnedNotHidden
SYMMETRY Symmetry
CHECK_DEADLOCK FALSE
