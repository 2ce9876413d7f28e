-------------------------- MODULE AbstractSemaphore --------------------------
(***************************************************************************)
(* What the blocking primitives of kern/conc promise to the programs that  *)
(* use them: a program that asks for a permit waits until there is one,    *)
(* takes it in one step, and gives it back.  A sleeplock is the case of    *)
(* one permit and no Post.                                                 *)
(***************************************************************************)
EXTENDS Naturals

CONSTANTS Client, InitialPermits

VARIABLES permits,   \* permits nobody has taken
          mode       \* "out", "wait" or "in" for each client

absVars == <<permits, mode>>

AbsInit == permits = InitialPermits /\ mode = [c \in Client |-> "out"]

Request(c) ==
    /\ mode[c] = "out"
    /\ mode' = [mode EXCEPT ![c] = "wait"]
    /\ UNCHANGED permits

Enter(c) ==
    /\ mode[c] = "wait" /\ permits > 0
    /\ mode' = [mode EXCEPT ![c] = "in"]
    /\ permits' = permits - 1

Leave(c) ==
    /\ mode[c] = "in"
    /\ mode' = [mode EXCEPT ![c] = "out"]
    /\ permits' = permits + 1

\* A client outside adds a permit (signal without a wait).
Post(c) ==
    /\ mode[c] = "out"
    /\ permits' = permits + 1
    /\ UNCHANGED mode

AbsNext == \E c \in Client : Request(c) \/ Enter(c) \/ Leave(c) \/ Post(c)

AbsSpec == AbsInit /\ [][AbsNext]_absVars
=============================================================================
