SPECIFICATION Spec
CONSTANTS
  Users = {"author", "boss"}
  Codes = {"c"}
  Handlers = {h1, h2}
  Requests <- MCRequests
  Op <- MCOp
  By <- MCBy
  Kind <- MCKind
  Code <- MCCode
  Target <- MCTarget
  Limit <- MCLimit
  Wrong = {"note"}
  NoCode = "nocode"
  NoRequest = "none"
  Moderators = {"boss"}
  Admins = {"boss"}
  MaxPosts = 2
  MaxArrivals = 3
  MaxFaults = 1
SYMMETRY Symmetric
CHECK_DEADLOCK FALSE
INVARIANTS
  PostedOnce
  RetryAllowed
  FreeWithinLimit
  CodeTriedOnce
