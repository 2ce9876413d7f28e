---------------------------- MODULE MCKsemaphore ----------------------------
EXTENDS Ksemaphore, TLC

\* Programs are interchangeable: they start in any order and run one code.
EnvSymmetry == Permutations(Env)
=============================================================================
