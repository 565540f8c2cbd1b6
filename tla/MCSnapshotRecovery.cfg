CONSTANTS
    FeedLength = 4
    Starts = {1, 2, 4}
    Joins = {1, 2, 3, 4, 5}
    RequestLimit = 2
    Heartbeats = TRUE
    Closes = TRUE
    Feeds <- MCFeeds
SPECIFICATION RecoverySpec
INVARIANTS
    TypeOK
    DeliveredInOrder
    HeldBehindGap
    RequestsCanBeAnswered
    RecoversBook
PROPERTIES
    AllDelivered
CHECK_DEADLOCK FALSE
