CONSTANTS
    Stations = {s1}
    Channels <- MCChannels
    World = "00"
    RegMessages <- MCRegMessages
    Intercepted = TRUE
    QueueLimit = 2
    MaxEvents = 3
    MaxRetried = 2
    MaxReply = 2
SPECIFICATION Spec
INVARIANTS
    StartedListens
    SyncSocketUnwatched
    HandledOnceInOrder
    FrameworkUpToDate
PROPERTIES
    EventsAreRead
    SignalEndsProcess
CHECK_DEADLOCK FALSE
