-------------------------- MODULE MCVirtualMemory ---------------------------
EXTENDS VirtualMemory, TLC

\* Three places let the hand of CLOCK pass over a used page to an unused one; with
\* two modified CLOCK passes over a used page, and comes round a second time.
MCSetups == {<<"CLOCK", 3>>, <<"ModifiedCLOCK", 2>>, <<"LRU", 2>>, <<"OPTIMAL", 2>>}
=============================================================================
