---------------------------- MODULE UserPrograms ----------------------------
(***************************************************************************)
(* What the applications of user/ share.  An application is a few          *)
(* processes that run concurrently, each at a label of its program, with   *)
(* shared objects (smalloc, sget), semaphores and the console's lock.  One *)
(* behaviour runs one application.  A step is one access to something      *)
(* shared: what happens between two of them is private.  The delays        *)
(* (env_sleep, busy waiting) are arbitrary, and the order in which the     *)
(* scheduler runs the processes is arbitrary too.  A few checks hold only  *)
(* if a delay was long enough: a program that fails one of them is at      *)
(* "late", and its shared object "waited" says whether the delay lasted    *)
(* until no other process could move.                                      *)
(***************************************************************************)
EXTENDS Integers, Sequences, FiniteSets, SequencesExt

CONSTANT MaxRounds  \* how often "repeat" may be answered with y

VARIABLES program,  \* the application this behaviour runs
          pc,       \* the label of each of its processes
          sem,      \* its semaphores: a count and the processes that wait
          mem,      \* its shared objects
          local     \* the private variables of each process

pvars == <<program, pc, sem, mem, local>>

Proc == DOMAIN pc

\* Where a process ends: it returns, it reports a failure, of a check that
\* relies on a delay or of another, or the CPU traps.
Ended == {"done", "late", "panic", "trap"}

create_semaphore(n) == [count |-> n, queue |-> <<>>]

\* A process inside wait_semaphore already carries the label after it.
Blocked(p) == \E s \in DOMAIN sem : Contains(sem[s].queue, p)

At(p, l) == pc[p] = l /\ ~Blocked(p)

\* Where p sleeps for a time, the others have all done what they can do.
OthersRest(p) == \A q \in Proc \ {p} : pc[q] \in Ended \/ Blocked(q)

\* The step of p from one label to another.
Goto(p, from, to) == At(p, from) /\ pc' = [pc EXCEPT ![p] = to]

\* The user library's semaphores count below 0 and hand over in order.
wait_semaphore(p, s) ==
    sem' = [sem EXCEPT ![s] =
               [count |-> @.count - 1,
                queue |-> IF @.count > 0 THEN @.queue ELSE Append(@.queue, p)]]

\* Signals in a row are one step: a signal never waits, and nothing that
\* another process does between two of them depends on the second.
signal_semaphore(s) == [count |-> s.count + 1,
                        queue |-> IF s.count < 0 THEN Tail(s.queue) ELSE s.queue]
Signal(names) == sem' = [s \in DOMAIN sem |-> IF s \in names THEN signal_semaphore(sem[s]) ELSE sem[s]]

\* The kernel's semaphores, as the Ksemaphore module shows them to behave: a
\* permit is taken only when there is one, and whoever comes first has it.
wait_ksemaphore(s) ==
    sem[s].count > 0 /\ sem' = [sem EXCEPT ![s].count = @ - 1]

signal_ksemaphore(s) == sem' = [sem EXCEPT ![s].count = @ + 1]

Set(p, field, v) == local' = [local EXCEPT ![p][field] = v]

\* Nothing but the label, the semaphores or the private variables moves.
OnlySem == UNCHANGED <<program, mem, local>>
OnlyMem == UNCHANGED <<program, sem, local>>
OnlyLocal == UNCHANGED <<program, sem, mem>>
OnlyPc == UNCHANGED <<program, sem, mem, local>>

\* Every process has ended: the application is over.
Finished == (\A p \in Proc : pc[p] \in Ended) /\ UNCHANGED pvars
=============================================================================
