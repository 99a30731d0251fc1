SPECIFICATION FairCallSpec
CONSTANTS
    ann = ann
    guest = guest
    Emails = {ann, guest}
    Staff = {ann}
    Kids = {k1}
    Attempts = {a1}
    Sessions = {s1}
    Requests = {r1}
    CertsTTL = 1
    SessionTTL = 1
    MaxFetch = 0
    MaxTime = 1
    DEFAULT_MAX_RETRIES = 3
    AGGRESSIVE_MAX_RETRIES = 5
    Served = {"complete_task", "get_approved_clauses", "products_catalog"}
    Granted <- MCGranted
INVARIANTS
    CallIInv
    CommandsRunOnce
    AnswersHonest
    AskedWithPermission
PROPERTIES
    EveryCallAnswered
CHECK_DEADLOCK FALSE
