SPECIFICATION Spec
CONSTANTS
    PageSize = 4
    EntriesPerTable = 2
    Flags = {0, 3}
    DirectoryFlags = {3}
    WriteableFlags = 3
    TablesAt = {0, 8, 12}
    Objects <- MCObjects
INVARIANT TypeOK
PROPERTIES KeepsPromise EveryByteMapped
