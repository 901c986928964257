\* The same request delivered twice at once.
SPECIFICATION Spec
CONSTANTS
  a1 = a1
  a2 = a2
  a3 = a3
  begin = begin
  pay = pay
  tell = tell
  warn = warn
  none = none
  Attempts <- MCAttempts
  Commands <- MCCommands
  Bodies <- MCBodies
  Requests <- MCRequests
  Width <- MCWidth
  MaxWidth = 2
  NoRequest = none
SYMMETRY Deliveries
INVARIANTS
  DuplicateDeliveryIsIdempotent
CHECK_DEADLOCK FALSE
