SPECIFICATION Spec
CONSTANTS
    OrderId = {a, b, c}
    Symbol = {IBM, MSFT}
    Mpid = {anon, m}
    NoMpid = anon
    Price = {9, 12}
    Quantity = {1, 2}
    MaxOrderSize = 2
    MinPrice = 1
    MaxPrice = 20
    BandInverse = 4
    InitialWindow = 5
    MaxLevels = 7
    ArenaCapacity = 2
SYMMETRY Interchangeable
INVARIANTS
    TypeOK
    OneSidedParticipants
    ShadowFollows
    RoutesCoverBooks
    CountsMatchRoutes
CHECK_DEADLOCK TRUE
