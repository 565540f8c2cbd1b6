SPECIFICATION Spec
CONSTANTS
    OrderId = {a, b}
    Symbol = {IBM, MSFT}
    AllowedSymbols = {IBM}
    Decimal <- MCDecimal
    Price = {0}
    Quantity = {1, 2}
    Width = 9
    Places = 2
    MaxOrderQty = 2
    MaxNotional = 250
    CollarBps = 1000
    InitialWindow = 40
    MaxLevels = 300
    ArenaCapacity = 2
    MaxPending = 2
SYMMETRY Interchangeable
INVARIANTS
    WithinLimits
    BuysPayWithinLimit
    TicksAreTheDecimal
CHECK_DEADLOCK FALSE
