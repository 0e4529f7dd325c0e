CONSTANTS
    Total = 4
    MaxRequest = 5
SPECIFICATION SearchSpec
INVARIANT ErrorWithoutWindow
CHECK_DEADLOCK FALSE
