-------------------------- MODULE MCListOperations --------------------------
EXTENDS ListOperations
=============================================================================
