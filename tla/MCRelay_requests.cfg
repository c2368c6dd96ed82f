SPECIFICATION FairSpec
CONSTANTS
    m1 = m1  m2 = m2  r1 = r1  r2 = r2
    None = None
    DesktopSockets = {s1, s2}
    MobileSockets = {m1, m2}
    DesktopIds = {d1}
    Devices = {a1}
    Codes = {c1}
    Tokens = {t1}
    RequestIds = {r1, r2}
    IdsOf <- DisjointIds
    PairingTTL = 0
    SessionTTL = 0
    MaxTime = 0
    MaxEpoch = 0
INVARIANTS
    TypeOK
    RegisteredIsReachable
    RequestAccounting
    RoutedToOriginator
PROPERTIES
    SettledOnce
    RequestsSettle
CHECK_DEADLOCK FALSE
