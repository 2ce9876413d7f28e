\* Three processes on two levels: one runs, one waits above or below another;
\* a threshold that promotes at once and one that does not.
CONSTANTS
    Env = {e1, e2, e3}
    NULL = NULL
    Levels = {1, 2}
    Thresholds = {0, 1}
    SizeMod = 8
SPECIFICATION Spec
INVARIANTS TypeOK QueuesMaintained QueuesMatchStatus
PROPERTY HighestPriorityFirst
SYMMETRY EnvSymmetry
