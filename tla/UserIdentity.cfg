SPECIFICATION IdentitySpec
CONSTANTS
  a1 = a1
  a2 = a2
  i1 = i1
  i2 = i2
  h1 = h1
  h2 = h2
  Emails = {a1, a2}
  Handlers = {h1, h2}
  Identities = {i1, i2}
  ExternalID <- OwnID
  None = None
  NoRequest = NoRequest
  Operations = {"register", "addUser", "editProfile", "setPassword", "external", "bindMail", "unbind", "askVerify", "askChange", "askReset", "verify", "changeMail", "reset", "suspend", "delete", "deactivate", "restore"}
  MaxUsers = 2
  MaxBindings = 2
  MaxCodes = 2
  MaxLogins = 1
  MaxRequests = 4
INVARIANTS
  OneAccountEach
  VerifiedIsProven
PROPERTIES
  KeepsAWayIn
SYMMETRY Symmetry
CHECK_DEADLOCK FALSE
