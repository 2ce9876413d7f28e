CONSTANTS
    Env = {e1, e2}
    ReaderKeys = {"a", "lshift", "rctl"}
    KbdBytes = 2
    CONSBUFSIZE = 2
    CRT_COLS = 8
    CRT_SIZE = 16
    PromptLen = 1
    BUFLEN = 5
    HISTORY_MAX = 1
    MaxKeys = 6
    PromptKeys = {"a", "b", " ", "bksp", "left", "right", "up", "down", "tab", "enter", "del"}
    commands <- MCcommands
    programs <- MCprograms
SPECIFICATION ConsoleSpec
INVARIANTS
    InputInOrder
    PromptLine
CHECK_DEADLOCK FALSE
