--------------------------- MODULE MCSharedMemory ---------------------------
EXTENDS SharedMemory
=============================================================================
