SPECIFICATION Spec
CONSTANTS
    SectorSize = 2
    Memory <- MCMemory
    SectorsPerCluster = 2
    LastCluster = 3
    MaxStart = 7
    MaxCount = 2
INVARIANTS Progress StreamExact ReadsWhatWasAsked ReadsTheFile
CHECK_DEADLOCK FALSE
