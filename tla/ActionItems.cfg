CONSTANTS
    Prospects = {p1}
    Consultants = {c1, c2}
    Requests = {q1, q2}
    Notes = {n1, n2}
    Names = {x, y}
    Items = {i1}
    Texts = {u1, u2}
    Won = 4
    c1 = c1
    c2 = c2
    q1 = q1
    q2 = q2
    n1 = n1
    n2 = n2
    p1 = p1
    x = x
    y = y
    i1 = i1
    u1 = u1
    u2 = u2
SPECIFICATION ItemSpec
SYMMETRY Symmetry
INVARIANTS
    FunnelNotSkipped
    LinksOwnProspects
PROPERTIES
    NotesAreAppendOnly
    MatrixUnlessOvertaken
    RenamedUnlessOvertaken
    ItemAsAsked
