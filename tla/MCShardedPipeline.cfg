CONSTANTS
    IBM = IBM
    ORCL = ORCL
    Symbol = {IBM, ORCL}
    ShardCount = 2
    ShardFor <- MCShardFor
    RingBound = 1
    MaxMessages = 4
SPECIFICATION Spec
INVARIANTS
    TypeOK
    ShardsMatchSequential
    EndedIsDrained
PROPERTY
    EndsOrHangsBehindFailure
CHECK_DEADLOCK TRUE
