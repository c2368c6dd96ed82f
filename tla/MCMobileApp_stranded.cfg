SPECIFICATION AppSpec
CONSTANTS
  Profiles = {p1}
  Askers = {card}
  Flows = {f}
  None = None
  MaxActs = 2
  MaxFaults = 0
INVARIANT PendingIsRejected
CHECK_DEADLOCK FALSE
