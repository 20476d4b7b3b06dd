SPECIFICATION Spec
CONSTANTS
  ann = ann
  bea = bea
  None = None
  Logins = {l1, l2, l3}
  Subjects = {ann, bea}
  Emails = {"shared"}
  EmailOf <- MCEmailOf
  UserTables <- MCUserTables
  Handlers = {h1, h2}
  Redeemers = {r1, r2}
  MaxCallbacks = 3
  MaxKeys = 2
  MaxEvents = 1
INVARIANTS
  OneAccountPerPerson
  OnePersonPerAccount
  OneSessionPerLogin
  RefusalIsGenuine
SYMMETRY Alike
CHECK_DEADLOCK FALSE
