CONSTANTS
    Capacity = 8
    Total = 16
    OutCapacity = 4
    TradesOf <- MCTradesOf
SPECIFICATION PipelineSpec
INVARIANTS
    TypeOK
    NoRace
    HoldsTheRest
    NothingLeftBehind
    TradesAsSequential
PROPERTIES
    RingsAreQueues
    AllThreadsEnd
CHECK_DEADLOCK TRUE
