SPECIFICATION FairSpec
CONSTANTS
    Sessions = {s1}
    MaxBuffer = 2
    MaxSeq = 3
    MaxInteractions = 0
    MaxRestarts = 1
    MaxText = 2
    MaxPhoneDrops = 1
    MaxDaemonDrops = 1
    MaxQueue = 2
    None = None
INVARIANTS
    TypeOK
    TranscriptOrdered
    NoGapSinceView
PROPERTIES
    RefinesTranscript
    ResyncEndsUnlessGone
CHECK_DEADLOCK FALSE
