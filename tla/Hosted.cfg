\* Three deliveries of six requests to one run; requests that meet in the platform; runs played.
SPECIFICATION MCSpec
CONSTANTS
  a1 = a1
  a2 = a2
  a3 = a3
  begin = begin
  pay = pay
  tell = tell
  warn = warn
  none = none
  Attempts <- MCAttempts
  Commands <- MCCommands
  Bodies <- MCBodies
  Requests <- MCRequests
  Width <- MCWidth
  MaxWidth = 2
  NoRequest = none
  Null = Null
  Traffic <- AllTraffic
  Rosters <- AllRosters
  Bootstrap <- Allowlist
  Library <- AllScenarios
  Cases <- MCCases
  FindingIds = {"a", "b"}
  Arguments <- MCArguments
  Modules <- MCModules
  CoffeePolicies = {"issuer"}
  MinimumCoffeePolicies = 1
SYMMETRY Deliveries
INVARIANTS
  StreamReplays
  AnswersAreTruthful
  TimeLimitClosesTheRun
  AnswersStand
  RunsPlayAssignedContent
  RevisionsAreNumbered
  AccessIsInOrder
  StoredRunsReplay
  GradesAreSound
  OnlyAsAuthored
PROPERTIES
  ImplementsRunLog
  DecisionsAreFinal
  RunsAreFinal
  LearnerFinishes
CHECK_DEADLOCK FALSE
