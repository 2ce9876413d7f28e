------------------------------ MODULE MCKHeap ------------------------------
EXTENDS KHeap, TLC

\* Frames are interchangeable: the free list starts in any order.
FrameSymmetry == Permutations(Frame)
=============================================================================
