SPECIFICATION Spec
CONSTANTS
  t1 = t1
  t2 = t2
  t3 = t3
  n1 = n1
  n2 = n2
  n3 = n3
  h1 = h1
  h2 = h2
  Tags = {t1, t2, t3}
  Names = {n1, n2, n3}
  Handlers = {h1, h2}
  Seeds <- TwoTags
  Operations = {"add", "question", "synonyms", "edit", "approve", "remove", "recover"}
  Lists <- NoneOrTwo
  MaxRequests = 3
  None = None
  StatementsFail = TRUE
INVARIANTS
  NameHasMain
PROPERTIES
  SynonymsAsAsked
  NoFormerName
SYMMETRY Symmetry
CHECK_DEADLOCK FALSE
