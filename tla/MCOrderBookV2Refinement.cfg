SPECIFICATION HSpec
CONSTANTS
    OrderId = {a, b, c}
    Price = {1, 2}
    Quantity = {1, 2}
    InitialWindow = 2
    MaxLevels = 2
    ArenaCapacity = 2
SYMMETRY IdSymmetry
PROPERTY ImplementsPromise
CHECK_DEADLOCK TRUE
