------------------------------ MODULE MidTermEx ------------------------------
(***************************************************************************)
(* The midterm example (user/MidTermEx_*.c): process A doubles a shared X, *)
(* process B increments it, after A if the master chose a protection, and  *)
(* the master waits for both.  The protection is none (0), semaphores (1)  *)
(* or spinlocks in shared memory (2).                                      *)
(***************************************************************************)
EXTENDS UserPrograms

MidProcs == {"A", "B", "M"}

\* T is created taken: A gives it away, B takes it.
MidInit ==
    \E prot \in 0..2 :
        /\ program = "midterm"
        /\ pc = [p \in MidProcs |-> CASE p = "A" -> "read" [] p = "B" -> "after_A" [] OTHER -> "wait1"]
        /\ sem = [s \in {"T", "finished", "finishedCountMutex"} |->
                     create_semaphore(IF s = "finishedCountMutex" THEN 1 ELSE 0)]
        /\ mem = [X |-> 5, protType |-> prot, finishedCount |-> 0,
                  heldT |-> TRUE, heldCount |-> FALSE, heldCons |-> FALSE]
        /\ local = [p \in MidProcs |-> 0]

Prot(n) == mem.protType = n
SetLocal(p, v) == local' = [local EXCEPT ![p] = v]

\* acquire_uspinlock, release_uspinlock and the console's lock, as what they do
\* to their flag.
Acquire(flag) == ~mem[flag] /\ mem' = [mem EXCEPT ![flag] = TRUE]
Release(flag) == mem' = [mem EXCEPT ![flag] = FALSE]

after_A(p) ==
    /\ Goto(p, "after_A", "read")
    /\ \/ Prot(1) /\ wait_semaphore(p, "T") /\ UNCHANGED mem
       \/ Prot(2) /\ Acquire("heldT") /\ UNCHANGED sem
       \/ Prot(0) /\ UNCHANGED <<sem, mem>>
    /\ UNCHANGED <<program, local>>

read(p) == Goto(p, "read", "write") /\ SetLocal(p, IF p = "A" THEN mem.X * 2 ELSE mem.X + 1) /\ OnlyLocal

write(p) ==
    /\ Goto(p, "write", IF p = "A" THEN "before_B" ELSE "finished")
    /\ mem' = [mem EXCEPT !.X = local[p]] /\ OnlyMem

before_B(p) ==
    /\ Goto(p, "before_B", "finished")
    /\ \/ Prot(1) /\ Signal({"T"}) /\ UNCHANGED mem
       \/ Prot(2) /\ Release("heldT") /\ UNCHANGED sem
       \/ Prot(0) /\ UNCHANGED <<sem, mem>>
    /\ UNCHANGED <<program, local>>

\* Declaring the end: the signal and the counter, under the lock of each case.
finished(p) ==
    /\ Goto(p, "finished", "count")
    /\ sem' = IF Prot(1) THEN [sem EXCEPT !["finished"] = signal_semaphore(@)] ELSE sem
    /\ OnlySem
count(p) ==
    /\ Goto(p, "count", "count_read")
    /\ \/ Prot(1) /\ wait_semaphore(p, "finishedCountMutex") /\ UNCHANGED mem
       \/ Prot(2) /\ Acquire("heldCount") /\ UNCHANGED sem
       \/ Prot(0) /\ Acquire("heldCons") /\ UNCHANGED sem
    /\ UNCHANGED <<program, local>>
count_read(p) == Goto(p, "count_read", "count_write") /\ SetLocal(p, mem.finishedCount) /\ OnlyLocal
count_write(p) ==
    /\ Goto(p, "count_write", "count_end")
    /\ mem' = [mem EXCEPT !.finishedCount = local[p] + 1] /\ OnlyMem
count_end(p) ==
    /\ Goto(p, "count_end", "done")
    /\ \/ Prot(1) /\ Signal({"finishedCountMutex"}) /\ UNCHANGED mem
       \/ Prot(2) /\ Release("heldCount") /\ UNCHANGED sem
       \/ Prot(0) /\ Release("heldCons") /\ UNCHANGED sem
    /\ UNCHANGED <<program, local>>

declare_finishing(p) == finished(p) \/ count(p) \/ count_read(p) \/ count_write(p) \/ count_end(p)

\* The master: two waits under semaphores, then in every case it spins until
\* both are counted.
wait1(p) ==
    /\ Goto(p, "wait1", "wait2")
    /\ IF Prot(1) THEN wait_semaphore(p, "finished") ELSE UNCHANGED sem
    /\ OnlySem
wait2(p) ==
    /\ Goto(p, "wait2", "spin")
    /\ IF Prot(1) THEN wait_semaphore(p, "finished") ELSE UNCHANGED sem
    /\ OnlySem
spin(p) == mem.finishedCount = 2 /\ Goto(p, "spin", "done") /\ OnlyPc

ProcessA(p) == read(p) \/ write(p) \/ before_B(p) \/ declare_finishing(p)
ProcessB(p) == after_A(p) \/ read(p) \/ write(p) \/ declare_finishing(p)
MidMaster(p) == wait1(p) \/ wait2(p) \/ spin(p)

MidStep(p) ==
    /\ program = "midterm"
    /\ \/ p = "A" /\ ProcessA(p)
       \/ p = "B" /\ ProcessB(p)
       \/ p = "M" /\ MidMaster(p)

-----------------------------------------------------------------------------
\* With a protection the X the master prints is 11, in every schedule; without
\* one it is what some interleaving of the two reads and writes gives
\* (user/MidTermEx_Master.c:60-78, the value user/ef_MidTermEx_Master.c:65
\* checks).
MidtermResult ==
    (program = "midterm" /\ pc["M"] = "done") =>
        mem.X \in IF Prot(0) THEN {6, 10, 11, 12} ELSE {11}
=============================================================================
