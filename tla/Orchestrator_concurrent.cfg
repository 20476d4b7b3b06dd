SPECIFICATION Spec
CONSTANTS
  Absent = Absent
  None = None
  Poller = Poller
  StepIds <- MCStepIds
  FieldKeys = {"room", "reason"}
  Values = {"big", "small"}
  MAX_AUTO_STEPS = 3
  Definitions = {"approved", "branched", "unmapped"}
  Definition <- MCDefinition
  Users <- MCUsers
  Directories <- TwoDirectories
  Instances = {i1}
  Approvals = {a1, a2}
  Tickets = {k1, k2}
  Handlers = {h1, h2}
  MaxFaults = 1
SYMMETRY Ids
INVARIANTS
  TypeOK
  ResumeFollowsRecord
  StatusMatchesStep
  AwaitingHasApproval
  TicketsAgree
  NoTicketWithoutApproval
  CompletedHasTicket
PROPERTIES
  ImplementsLifecycle
  TicketSettlesOnce
CHECK_DEADLOCK FALSE
