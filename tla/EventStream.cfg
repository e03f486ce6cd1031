\* Two requests, queues of two, four events: enough to overflow and catch up.
SPECIFICATION FairSpec
CONSTANTS
    Clients = {c1, c2}
    Capacity = 2
    MaxEvents = 4
CHECK_DEADLOCK FALSE
INVARIANTS
    TypeOK
    NothingLostSilently
PROPERTIES
    RefinesEventFeed
    EventArrives
    LeaverIsForgotten
    StopsOnceLeft
