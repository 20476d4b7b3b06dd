SPECIFICATION Spec
CONSTANTS
  ann = ann
  bob = bob
  laptop = laptop
  phone = phone
  Users = {ann, bob}
  Clients = {laptop, phone}
  Owner <- MCOwner
  Requests = {q1, q2}
  Kinds = {"login"}
  MaxRequests = 2
  MaxSweeps = 1
  MaxLosses = 0
INVARIANTS
  ResetLinkIsSingleUse
CHECK_DEADLOCK FALSE
