SPECIFICATION Spec
CONSTANTS
    m1 = m1  m2 = m2  r1 = r1  r2 = r2
    None = None
    DesktopSockets = {s1}
    MobileSockets = {m1, m2}
    DesktopIds = {d1}
    Devices = {a1}
    Codes = {c1}
    Tokens = {t1}
    RequestIds = {r1}
    IdsOf <- SharedIds
    PairingTTL = 0
    SessionTTL = 0
    MaxTime = 0
    MaxEpoch = 0
INVARIANT RoutedToOriginator
CHECK_DEADLOCK FALSE
