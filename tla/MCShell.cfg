SPECIFICATION Spec
CONSTANTS
    VGA_WIDTH = 3
    VGA_HEIGHT = 2
    Keys = {"a", " ", "BS"}
    Texts = {"LF", "TAB"}
    Welcome <- MCWelcome
    Prompt <- MCPrompt
    max = 4
    ArgumentSize = 3
    MAX_PROGRAM_ALLOCATIONS = 3
    MaxPrograms = 1
    MaxCount = 3
INVARIANTS LineOnScreen ArgumentsAsTyped TokensEnd
CHECK_DEADLOCK FALSE
