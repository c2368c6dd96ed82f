SPECIFICATION Spec
CONSTANTS
    m1 = m1  m2 = m2  r1 = r1  r2 = r2
    None = None
    DesktopSockets = {s1, s2}
    MobileSockets = {m1, m2}
    DesktopIds = {d1, d2}
    Devices = {a1, a2}
    Codes = {c1, c2}
    Tokens = {t1, t2}
    RequestIds = {}
    IdsOf <- NoIds
    PairingTTL = 0
    SessionTTL = 0
    MaxTime = 1
    MaxEpoch = 1
INVARIANTS
    LinksAuthorized
    EventsOnlyToGranted
PROPERTIES
    RefinesLedger
SYMMETRY PairingSymmetry
CHECK_DEADLOCK FALSE
