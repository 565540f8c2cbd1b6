SPECIFICATION Spec
CONSTANTS
    OrderId = {a, b, c}
    Symbol = {IBM}
    Mpid = {anon, m}
    NoMpid = anon
    Price = {8, 10, 12}
    Quantity = {1, 2}
    MaxOrderSize = 2
    MinPrice = 1
    MaxPrice = 20
    BandInverse = 4
    InitialWindow = 4
    MaxLevels = 6
    ArenaCapacity = 2
SYMMETRY Interchangeable
PROPERTY RejectedAddChangesNothing
CHECK_DEADLOCK TRUE
