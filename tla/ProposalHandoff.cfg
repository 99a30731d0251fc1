SPECIFICATION Spec
CONSTANTS
    None = None
    c1 = c1
    c2 = c2
    s1 = s1
    s2 = s2
    q1 = q1
    q2 = q2
    p1 = p1
    p2 = p2
    Commit = Commit
    Sessions = {s1, s2}
    Consultants = {c1, c2}
    Legal = Legal
    Targets = {Commit, Legal}
    Requests = {q1, q2}
    Proposals = {p1, p2}
SYMMETRY Symmetry
INVARIANTS
    SurfacedToOwner
    OneProposalPerRequest
    HandoffIsFollowed
PROPERTIES
    InactiveForGood
CHECK_DEADLOCK FALSE
