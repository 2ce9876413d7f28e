\* Two sleepers at once, and a post that makes a second permit.
CONSTANTS
  Env = {e1, e2, e3}
  NoEnv = NoEnv
  InitialCount = 1
  MaxPosts = 1
SPECIFICATION SemSpec
INVARIANT NoPanic
INVARIANT SemaphoreInterrupts
INVARIANT ChannelDiscipline
INVARIANT PermitsConserved
INVARIANT NoLostSignal
SYMMETRY EnvSymmetry
