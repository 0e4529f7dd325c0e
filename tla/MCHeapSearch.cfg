CONSTANTS
    Total = 6
    MaxRequest = 7
SPECIFICATION SearchSpec
INVARIANTS LoopInv SearchCorrect
CHECK_DEADLOCK FALSE
