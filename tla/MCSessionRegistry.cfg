SPECIFICATION RegistrySpec
CONSTANTS
    Sessions = {s1, s2}
    MaxBuffer = 2
    MaxSeq = 3
    MaxInteractions = 2
    MaxRestarts = 1
SYMMETRY SessionSymmetry
INVARIANT BufferIsRecent
INVARIANT ViewsAreComplete
INVARIANT WaitingHasInteraction
CHECK_DEADLOCK FALSE
