SPECIFICATION DashboardSpec
CONSTANTS
    sales = sales
    commit = commit
    claims = claims
    proposals = proposals
    r1 = r1
    r2 = r2
    Modules = {sales, commit}
    Capabilities = {claims, proposals}
    FamilyOf <- MCFamilyOf
    LifetimeOf <- MCLifetimeOf
    MaxCards = 2
    Positions = {0, 1}
    DEFAULT_CARD_MODULE_IDS <- MCDefaults
    EMPTY_ASSERTIONS_TTL = 1
    Requests = {r1, r2}
    MaxTime = 1
    MaxChanges = 1
SYMMETRY Symmetry
INVARIANTS
    RevocationBounded
    StoredIsOneLayout
    ShownIsHeld
CHECK_DEADLOCK FALSE
