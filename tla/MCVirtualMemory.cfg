\* One program of two text and data pages, a heap page, a stack page and a page
\* outside its regions on a working set of two or three: every page can be evicted
\* by every other, and under OPTIMAL all five fit in memory.
CONSTANTS
    Env = {e1}
    Frame = {1, 2, 3, 4, 5}
    DFrame = {11, 12, 13, 14}
    NULL = NULL
    SizeMod = 64
    ProgPages = {1, 2}
    HeapPages = {5}
    StackPages = {9}
    OutsidePages = {7}
    AbovePages = {12}
    Zero = 0
    Value = {0, 1}
    StampBits = 2
    Setups <- MCSetups
    MaxTrace = 4
    TextPages = {1, 2, 7}
    MallocLoop = FALSE
    Unknown = Unknown
SPECIFICATION FairSpec
INVARIANTS NoFaultPanic StorageConserved WorkingSetIsResident ContentsSurvive OptimalIsLeast
PROPERTIES VictimIsRight AccessCompletes
CHECK_DEADLOCK FALSE
