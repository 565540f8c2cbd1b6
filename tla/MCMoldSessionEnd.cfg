CONSTANTS
    FeedLength = 3
    Starts = {1, 2, 3}
    Joins = {1}
    RequestLimit = 3
    Heartbeats = FALSE
    Closes = TRUE
SPECIFICATION FairSpec
PROPERTIES
    EndedThenComplete
CHECK_DEADLOCK FALSE
