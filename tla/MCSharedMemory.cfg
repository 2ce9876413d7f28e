\* Two processes and two names; a fourth page finds no frame.
CONSTANTS
    Env = {e1, e2}
    Frame = {11, 12, 13}
    DFrame = {}
    NULL = NULL
    SizeMod = 64
    ProgPages = {}
    HeapPages = {1, 2, 3}
    StackPages = {}
    OutsidePages = {}
    AbovePages = {}
    Name = {"x", "y"}
    Sizes = {0, 1, 2}
    MaxShares = 2
SPECIFICATION SharedSpec
INVARIANT SharesAccounted
PROPERTY ReadOnlyKept
CHECK_DEADLOCK FALSE
