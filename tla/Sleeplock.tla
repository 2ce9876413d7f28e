------------------------------ MODULE Sleeplock ------------------------------
(***************************************************************************)
(* kern/conc/sleeplock.c on top of the channel, driven by programs that    *)
(* acquire and release one lock through system calls, as                   *)
(* user/tst_sleeplock_slave.c does through sys_utilities, and then exit.   *)
(***************************************************************************)
EXTENDS Channel

VARIABLES held,    \* lk->locked
          pid      \* lk->pid

vars == <<kernelVars, chan, held, pid>>

-----------------------------------------------------------------------------
acquire_guard(p) ==
    /\ At(p, "acquire")
    /\ acquire_kspinlock("guard")
    /\ Goto(p, "acquire_test")
    /\ UNCHANGED <<exec, proc, clk, status, ready, ret, saved, spc, chan, held,
                   pid>>

\* Mutation: a process that finds the lock taken returns without it.
acquire_test_gives_up(p) ==
    /\ At(p, "acquire_test")
    /\ \/ held = 1 /\ Goto(p, "release_unguard") /\ UNCHANGED held
       \/ held = 0 /\ Goto(p, "acquire_unguard") /\ held' = 1
    /\ UNCHANGED <<exec, proc, ien, clk, ncli, intena, locked, kstate, status,
                   ready, ret, saved, spc, chan, pid>>

\* while (lk->locked) sleep(...); lk->locked = 1: the test is made again
\* after every sleep.
acquire_test(p) ==
    /\ At(p, "acquire_test")
    /\ \/ held = 1 /\ Goto(p, "sleep_acquire") /\ UNCHANGED held
       \/ held = 0 /\ Goto(p, "acquire_unguard") /\ held' = 1
    /\ UNCHANGED <<exec, proc, ien, clk, ncli, intena, locked, kstate, status,
                   ready, ret, saved, spc, chan, pid>>

acquire_unguard(p) ==
    /\ At(p, "acquire_unguard")
    /\ release_kspinlock("guard")
    /\ Goto(p, "acquire_return")
    /\ UNCHANGED <<exec, proc, clk, status, ready, ret, saved, spc, chan, held,
                   pid>>

\* Mutation: "if" instead of "while", a woken process takes the lock for its own.
acquire_sleeplock_if(p) ==
    \/ acquire_guard(p)
    \/ acquire_test(p)
    \/ sleep(p, "acquire_unguard") /\ UNCHANGED <<held, pid>>
    \/ acquire_unguard(p)

acquire_sleeplock(p) ==
    \/ acquire_guard(p)
    \/ acquire_test(p)
    \/ sleep(p, "acquire_test") /\ UNCHANGED <<held, pid>>
    \/ acquire_unguard(p)

-----------------------------------------------------------------------------
release_guard(p) ==
    /\ At(p, "release")
    /\ acquire_kspinlock("guard")
    /\ Goto(p, "release_test")
    /\ UNCHANGED <<exec, proc, clk, status, ready, ret, saved, spc, chan, held,
                   pid>>

\* Mutation: the sleepers are not woken.
release_test_no_wakeup(p) ==
    /\ At(p, "release_test")
    /\ Goto(p, "release_clear")
    /\ UNCHANGED <<exec, proc, ien, clk, ncli, intena, locked, kstate, status,
                   ready, ret, saved, spc, chan, held, pid>>

release_test(p) ==
    /\ At(p, "release_test")
    /\ Goto(p, IF chan # <<>> THEN "wakeup_all" ELSE "release_clear")
    /\ UNCHANGED <<exec, proc, ien, clk, ncli, intena, locked, kstate, status,
                   ready, ret, saved, spc, chan, held, pid>>

release_clear(p) ==
    /\ At(p, "release_clear")
    /\ held' = 0
    /\ Goto(p, "release_unguard")
    /\ UNCHANGED <<exec, proc, ien, clk, ncli, intena, locked, kstate, status,
                   ready, ret, saved, spc, chan, pid>>

release_unguard(p) ==
    /\ At(p, "release_unguard")
    /\ release_kspinlock("guard")
    /\ Goto(p, "release_return")
    /\ UNCHANGED <<exec, proc, clk, status, ready, ret, saved, spc, chan, held,
                   pid>>

release_sleeplock(p) ==
    \/ release_guard(p)
    \/ release_test(p)
    \/ wakeup_all(p, "release_clear") /\ UNCHANGED <<held, pid>>
    \/ release_clear(p)
    \/ release_unguard(p)

\* What holding_sleeplock returns to p.  Nothing stores the holder in pid, so
\* it is false for every process; no code in the kernel calls it.
holding_sleeplock(p) == held = 1 /\ pid = p

-----------------------------------------------------------------------------
(* The programs: outside ("user") and inside ("cs") the critical section.  *)

EnterCall(p)    == SyscallEntry(p, "user", "acquire")
EnterReturn(p)  == SyscallReturn(p, "acquire_return", "cs")
LeaveCall(p)    == SyscallEntry(p, "cs", "release")
LeaveReturn(p)  == SyscallReturn(p, "release_return", "user")

Idle == UNCHANGED <<chan, held, pid>>

\* Kernel code that p executes until it is back in its program.
ProcStep(p) ==
    \/ KernelStep(p) /\ Idle
    \/ acquire_sleeplock(p)
    \/ release_sleeplock(p)
    \/ (EnterReturn(p) \/ LeaveReturn(p)) /\ Idle

Init ==
    /\ KernelInit
    /\ chan = <<>>
    /\ held = 0
    /\ pid = NoEnv

Next ==
    \/ SchedulerStep /\ Idle
    \/ PromptIdle /\ Idle
    \/ \E p \in Env :
          \/ RunFromPrompt(p) /\ Idle
          \/ clock_interrupt_handler(p) /\ Idle
          \/ HandlerStep(p) /\ Idle
          \/ ProcStep(p)
          \/ KernelCall(p) /\ Idle
          \/ EnterCall(p) /\ Idle
          \/ LeaveCall(p) /\ Idle

Spec == Init /\ [][Next]_vars

\* The CPU never stops: the scheduler loop and the clock handler go on, and a
\* process that is scheduled again and again gets on with its kernel code in
\* spite of the clock (kclock_resume leaves at least 20 counts).  A program
\* that is scheduled again and again leaves its critical section and, in the
\* end, exits.
Fairness ==
    /\ WF_vars(SchedulerStep /\ Idle)
    /\ \A p \in Env :
          /\ WF_vars(HandlerStep(p) /\ Idle)
          /\ SF_vars(ProcStep(p))
          /\ SF_vars(LeaveCall(p) /\ Idle)
          /\ SF_vars(SyscallEntry(p, "user", "exit_acquire") /\ Idle)

FairSpec == Spec /\ Fairness

-----------------------------------------------------------------------------
AcquirePoints == {"acquire", "acquire_test"} \union SleepPoints
HoldPoints    == {"acquire_unguard", "acquire_return", "cs", "release",
                  "release_test", "release_clear"} \union WakeupPoints
Points == KernelPoints \union AcquirePoints \union HoldPoints
            \union {"release_unguard", "release_return"}

\* Where the running process has no spinlock: interrupts must be on there.
Interruptible == UserPoints \union
    {"run_acquire", "run_return", "exit_acquire", "acquire", "acquire_return",
     "release", "release_return"}

TypeOK ==
    /\ KernelTypeOK(Points)
    /\ chan \in Seq(Env)
    /\ held \in Bit
    /\ pid \in Env \union {NoEnv}

\* p has set lk->locked and has not cleared it again.
Holds(p) == Point(p) \in HoldPoints

\* acquire_sleeplock lets one process at a time into the critical section,
\* and the lock word is set exactly while there is one.
MutualExclusion ==
    /\ \A p, q \in Env : Holds(p) /\ Holds(q) => p = q
    /\ held = 1 <=> \E p \in Env : Holds(p)

\* No process sleeps on a free lock: whenever the guard is free and the lock
\* is not taken, the channel is empty.  (release wakes before it clears the
\* word, sleep enqueues after it has released the guard.)
NoLostWakeup == locked["guard"] = 0 /\ held = 0 => chan = <<>>

\* Interrupt flag and spinlocks around the blocking calls.
SleeplockInterrupts == InterruptDiscipline(Interruptible)

\* Every program that was started ends, in spite of blocking.
ProgramsEnd == \A p \in Env : status[p] = "READY" ~> status[p] = "EXIT"

\* The sleeplock implements the one-permit semaphore.
Mode(p) == IF Holds(p) THEN "in"
           ELSE IF Point(p) \in AcquirePoints THEN "wait" ELSE "out"

Abstract == INSTANCE AbstractSemaphore
                WITH Client <- Env, InitialPermits <- 1,
                     permits <- 1 - held, mode <- [p \in Env |-> Mode(p)]

ImplementsMutex == Abstract!AbsSpec
=============================================================================
