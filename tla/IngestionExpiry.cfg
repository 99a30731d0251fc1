SPECIFICATION FairSpec
CONSTANTS
    task = task
    done = done
    news = news
    clause = clause
    NoEvent = NoEvent
    Events = {task, done}
    TypeOf <- MCTypeOf
    RelatedOf <- MCRelatedOf
    Malformed = {}
    Slots = {s1, s2}
    MaxFaults = 0
PROPERTY OverdueIsSettled
CHECK_DEADLOCK FALSE
