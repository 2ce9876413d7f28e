\* Three levels: the lowest process has to be promoted twice.
CONSTANTS
    Env = {e1, e2}
    NULL = NULL
    Levels = {3}
    Thresholds = {1}
    SizeMod = 8
SPECIFICATION FairSpec
PROPERTY NoStarvation
