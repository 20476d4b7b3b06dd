SPECIFICATION Spec
CONSTANTS
  ann = ann
  bob = bob
  None = None
  Org = Org
  Departments = {d1}
  Users = {ann, bob}
  Bootstrap = bob
  Handlers = {h1, h2}
  InitialUsers <- MCInitialUsers
  MaxRequests = 4
  MaxFaults = 1
INVARIANTS
  LogoIsThere
  OldLogosAreDeleted
  AnAdminRemains
SYMMETRY Alike
CHECK_DEADLOCK FALSE
