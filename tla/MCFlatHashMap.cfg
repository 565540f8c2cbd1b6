CONSTANTS
    Key = {6, 7, 8, 14, 15}
    Value = {1, 2}
    MinCapacity = 4
    MaxCapacity = 16
SPECIFICATION MapSpec
INVARIANTS
    ProbesEnd
    MapTypeOK
    FindsWhatWasPut
    NoSecondCopy
