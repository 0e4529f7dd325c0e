CONSTANTS
    Tasks = {t1, t2, t3, t4}
    Null = Null
SPECIFICATION Spec
INVARIANT CurrentTaskExists
SYMMETRY Symmetry
CHECK_DEADLOCK FALSE
