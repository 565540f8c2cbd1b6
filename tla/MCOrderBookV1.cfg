SPECIFICATION Spec
CONSTANTS
    OrderId = {a, b, c}
    Price = {1, 2, 3}
    Quantity = {0, 1, 2}
SYMMETRY IdSymmetry
INVARIANTS
    IndexMatchesQueues
PROPERTY ImplementsPromise
CHECK_DEADLOCK TRUE
