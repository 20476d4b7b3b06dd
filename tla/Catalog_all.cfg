SPECIFICATION Spec
CONSTANTS
  Seeds <- MCSeeds
  Requests = {r1, r2}
  Boot = Boot
  None = None
  Configured = TRUE
  AdminNames = {"custom"}
  AdminSlugs = {None, "laptop"}
  MaxEdits = 2
  MaxLosses = 2
INVARIANTS
  TypeOK
  DoneMeansLoaded
  LoadsConverge
  PublishedBeforeOffered
PROPERTIES
  EditsAreKept
  RestartServes
CHECK_DEADLOCK FALSE
