------------------------ MODULE MCPriorityScheduler ------------------------
EXTENDS PriorityScheduler, TLC

\* The processes are interchangeable: no definition names one.
EnvSymmetry == Permutations(Env)
=============================================================================
