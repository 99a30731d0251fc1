SPECIFICATION FairSpec
CONSTANTS
    task = task
    done = done
    news = news
    clause = clause
    NoEvent = NoEvent
    Events = {task, done, news, clause}
    TypeOf <- MCTypeOf
    RelatedOf <- MCRelatedOf
    Malformed = {news}
    Slots = {s1, s2}
    MaxFaults = 1
INVARIANTS
    InsertPushedOnce
    PushedIsDurable
    EveryRowIsAnnounced
    AcceptedIsDurable
    IInv
PROPERTIES
    LifecycleSpec
    AnnouncementsSpec
    Delivered
    ConfirmationSettles
CHECK_DEADLOCK FALSE
