------------------------ MODULE MCKHeapInterleaved ------------------------
EXTENDS KHeapInterleaved
=============================================================================
