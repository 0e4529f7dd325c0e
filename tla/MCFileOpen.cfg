SPECIFICATION OpenSpec
CONSTANTS
    f = f
    g = g
    d = d
    MAX_FILE_DESCRIPTORS = 3
    Word = 4
    Files = {f, g}
    Directories = {d}
    Filesize <- MCFilesize
    Privates = {p1, p2, p3, p4}
    MAX_PATH = 8
    Paths <- MCPaths
    Lower <- MCLower
    Digits = {"0", "1"}
    Volumes <- MCVolumes
    Root = Root
    NoItem = NoItem
    MaxHeld = 8
INVARIANTS OwnPrivate FindsTheFile NoStrayAccess MemoryAccounted
PROPERTY KeepsPromise
SYMMETRY Symmetry
CHECK_DEADLOCK FALSE
