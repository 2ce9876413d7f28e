\* Requests of one to three pages on six pages: exact, larger and too small
\* holes; fewer frames than pages, so that allocate_frame runs out.  A panic
\* ends the run.
CONSTANTS
    N = 6
    Frame = {f1, f2, f3, f4}
    Block = {b1}
    MaxSize = 6
    Unit = 2
    NoFrame = NoFrame
SPECIFICATION Spec
INVARIANTS NoOverlap SizesMatchOwners FramesAndAddresses BreakIsTight
    ContentsKept PlacementIsCustomFit
SYMMETRY FrameSymmetry
CHECK_DEADLOCK FALSE
