\* A holder and a sleeper that a newcomer may overtake; the theorems hold for
\* any number of programs.
CONSTANTS
  Env = {e1, e2}
  NoEnv = NoEnv
SPECIFICATION FairSpec
INVARIANT TypeOK
INVARIANT NoPanic
INVARIANT SleeplockInterrupts
INVARIANT ReadyDiscipline
INVARIANT MutualExclusion
INVARIANT NoLostWakeup
PROPERTY ImplementsMutex
PROPERTY ProgramsEnd
