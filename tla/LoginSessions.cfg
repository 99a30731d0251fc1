SPECIFICATION LoginSpec
CONSTANTS
    Emails = {guest}
    Staff = {}
    Kids = {k1, k2}
    Attempts = {a1, a2}
    Sessions = {s1}
    Requests = {r1}
    CertsTTL = 1
    SessionTTL = 1
    MaxFetch = 1
    MaxTime = 2
SYMMETRY LoginSymmetry
INVARIANTS
    LoginIInv
    RequestsVouched
PROPERTIES
    SessionsVouched
    RotationRefusesNobody
CHECK_DEADLOCK FALSE
