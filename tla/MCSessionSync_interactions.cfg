SPECIFICATION Spec
CONSTANTS
    Sessions = {s1}
    MaxBuffer = 2
    MaxSeq = 1
    MaxInteractions = 2
    MaxRestarts = 0
    MaxText = 2
    MaxPhoneDrops = 2
    MaxDaemonDrops = 1
    MaxQueue = 2
    None = None
INVARIANT CurrentSinceView
CHECK_DEADLOCK FALSE
