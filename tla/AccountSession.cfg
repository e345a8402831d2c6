SPECIFICATION Spec
CONSTANTS
  t1 = t1
  t2 = t2
  h1 = h1
  h2 = h2
  Tokens = {t1, t2}
  Handlers = {h1, h2}
  None = None
  NoRequest = NoRequest
  Operations = {"login", "verify", "use", "logout", "endAll", "endOthers", "suspend", "restore"}
  MaxRequests = 4
  MaxFileUses = 2
  StatementsFail = TRUE
INVARIANTS
  
  SuspendedIsRefused
  FirstPointOnce
SYMMETRY Symmetry
CHECK_DEADLOCK FALSE
