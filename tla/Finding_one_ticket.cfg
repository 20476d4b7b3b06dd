SPECIFICATION Spec
CONSTANTS
  Absent = Absent
  None = None
  Poller = Poller
  StepIds <- MCStepIds
  FieldKeys = {"room", "reason"}
  Values = {"big"}
  MAX_AUTO_STEPS = 3
  Definitions = {"approved"}
  Definition <- MCDefinition
  Users <- MCUsers
  Directories <- OneDirectory
  Instances = {i1}
  Approvals = {a1, a2}
  Tickets = {k1, k2}
  Handlers = {h1, h2}
  MaxFaults = 0
INVARIANTS
  OneTicketPerInstance
CHECK_DEADLOCK FALSE
