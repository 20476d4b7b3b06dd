SPECIFICATION Spec
CONSTANTS
  StepIds <- MCStepIds
  FieldKeys <- MCFieldKeys
  Values <- MCValues
  Absent = Absent
  MAX_AUTO_STEPS = 2
  QIds <- MCQIds
  Offers <- MCOffers
  RawTexts <- MCRawTexts
  ApiValues <- MCApiValues
  Numerals = {"5"}
  Items <- MCItems
  MaxShown = 4
  MaxTickets = 2
INVARIANTS
  ErrorsAreTheGraphs
  PreviewIsAsked
  TicketAfterApprovals
  TypedMatchesCondition
PROPERTIES
  PreviewEnds
  DispatchEnds
CHECK_DEADLOCK FALSE
