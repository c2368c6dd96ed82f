SPECIFICATION FairAppSpec
CONSTANTS
  Profiles = {p1, p2}
  Askers = {card}
  Flows = {f, g}
  None = None
  MaxActs = 4
  MaxFaults = 1
INVARIANTS AppTypeOK OneDriver OnlineServesProfile OneActiveUnlessCrossed
PROPERTIES OnlyUserStrands ConnectionSettles
CHECK_DEADLOCK FALSE
