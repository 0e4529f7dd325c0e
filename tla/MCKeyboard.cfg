CONSTANTS
    MAX_PROCESSES = 2
    BufferSize = 2
    Word = 4
    Letters = {a}
    Symbols = {}
SPECIFICATION Spec
INVARIANTS TypeOK RingHoldsUnread FocusExists
PROPERTIES KeepsPromise KeysArrive
CHECK_DEADLOCK FALSE
