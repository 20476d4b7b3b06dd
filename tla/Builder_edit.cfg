SPECIFICATION Spec
CONSTANTS
  NewId <- MCNewId
  Names <- MCNames
  Texts <- MCTexts
  NotAGraph = NotAGraph
  None = None
  Kinds = {"wait_for_approval", "end"}
  MaxSteps = 3
  MaxCounter = 3
  MaxEvents = 5
INVARIANTS
  SavedIsSound
PROPERTIES
  EditsRedirectNothing
CHECK_DEADLOCK FALSE
