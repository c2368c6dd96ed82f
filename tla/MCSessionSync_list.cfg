SPECIFICATION Spec
CONSTANTS
    Sessions = {s1, s2}
    MaxBuffer = 2
    MaxSeq = 0
    MaxInteractions = 0
    MaxRestarts = 0
    MaxText = 2
    MaxPhoneDrops = 1
    MaxDaemonDrops = 1
    MaxQueue = 2
    None = None
SYMMETRY SessionSymmetry
INVARIANT ListCurrentUnlessSkipped
PROPERTIES
    OnlyResyncReopens
    OpeningIsOnItsWay
CHECK_DEADLOCK FALSE
