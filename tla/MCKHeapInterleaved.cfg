\* Two processes race for a hole below the pages of a third.  A panic ends the
\* run.
CONSTANTS
    N = 3
    Frame = {f1, f2, f3}
    Block = {}
    MaxSize = 2
    Unit = 2
    NoFrame = NoFrame
    Proc = {p1, p2, p3}
SPECIFICATION SpecI
INVARIANT HeldIsNotFree
CHECK_DEADLOCK FALSE
