\* A parent and the child whose priority it changes.
CONSTANTS
    Env = {e1, e2}
    NULL = NULL
    Levels = {2}
    Thresholds = {1}
    SizeMod = 8
SPECIFICATION SpecAll
INVARIANT QueuesMaintained
