SPECIFICATION Spec
CONSTANTS
    Device = {d1, d2, d3}
    Pin = {p1, p2, p3}
    Token = {t1, t2, t3}
    None = None
    MaxPairingAttempts = 5
    CleanupSize = 2
INVARIANTS TypeOK PairingsAccounted
PROPERTIES SessionsEndForGood
CHECK_DEADLOCK FALSE
