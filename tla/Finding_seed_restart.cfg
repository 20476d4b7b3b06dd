SPECIFICATION Spec
CONSTANTS
  Seeds <- MCSeeds
  Requests = {r1}
  Boot = Boot
  None = None
  Configured = TRUE
  AdminNames = {"custom"}
  AdminSlugs = {None}
  MaxEdits = 0
  MaxLosses = 1
PROPERTY AlwaysServes
CHECK_DEADLOCK FALSE
