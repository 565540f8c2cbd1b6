SPECIFICATION Spec
CONSTANTS
    OrderId = {a, b, c}
    Price = {1, 2, 4}
    Quantity = {0, 1, 2}
    InitialWindow = 2
    MaxLevels = 4
    ArenaCapacity = 2
SYMMETRY IdSymmetry
INVARIANTS
    TypeOK
    ListsSound
    NodesConserved
    BestExact
    NotCrossed
    TotalsExact
    ArenaThrowIsClean
PROPERTY KeepsPrice
CHECK_DEADLOCK TRUE
