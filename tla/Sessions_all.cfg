SPECIFICATION Spec
CONSTANTS
  ann = ann
  bob = bob
  laptop = laptop
  phone = phone
  Users = {ann, bob}
  Clients = {laptop, phone}
  Owner <- MCOwner
  Requests = {q1, q2}
  Kinds = {"page", "api", "refresh", "login", "logout"}
  MaxRequests = 4
  MaxSweeps = 1
  MaxLosses = 1
INVARIANTS
  TypeOK
  QuietIsSignedIn
  ServedWasActive
  ResetSignsOut
  ResetLinkWorksOnce
SYMMETRY Alike
CHECK_DEADLOCK FALSE
