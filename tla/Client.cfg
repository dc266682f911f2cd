\* Any three keys, any answers.
SPECIFICATION AnsweredSpec
CONSTANTS
    a = a
    b = b
    query = query
    limit = limit
    Malformed = Malformed
    NotObject = NotObject
    Tools = {a, b}
    Lists <- AllLists
    Filters <- AFilter
    Required <- Needs
    Optional <- Offers
    MayFail = TRUE
    MaxKeys = 3
INVARIANTS
    ScreenSound
    SettledNotPending
    BelievedSessionExists
PROPERTIES
    WaitsReturn
