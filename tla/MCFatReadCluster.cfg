SPECIFICATION Spec
CONSTANTS
    SectorSize = 1
    Memory <- MCMemory
    SectorsPerCluster = 2
    LastCluster = 3
    MaxStart = 0
    MaxCount = 1
INVARIANT CorrectCluster
CHECK_DEADLOCK FALSE
