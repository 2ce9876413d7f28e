----------------------------- MODULE Ksemaphore -----------------------------
(***************************************************************************)
(* kern/conc/ksemaphore.c on top of the channel, driven by programs that   *)
(* wait for and signal one semaphore through system calls, as the          *)
(* user/tst_ksemaphore_* programs do through sys_utilities.  A program     *)
(* outside may also signal without having waited, to tell the others that  *)
(* something happened; posts counts these signals.                         *)
(***************************************************************************)
EXTENDS Channel, FiniteSets

CONSTANTS InitialCount,   \* the value given to init_ksemaphore
          MaxPosts        \* bound on the signals without a wait

ASSUME CountAssumption == InitialCount \in Nat /\ MaxPosts \in Nat

\* envs[] has NENV slots.
ASSUME EnvAssumption == IsFiniteSet(Env)

VARIABLES count,   \* ksem->count
          posts    \* signals made so far by programs outside

semVars == <<kernelVars, chan, count, posts>>

-----------------------------------------------------------------------------
wait_guard(p) ==
    /\ At(p, "wait")
    /\ acquire_kspinlock("guard")
    /\ Goto(p, "wait_test")
    /\ UNCHANGED <<exec, proc, clk, status, ready, ret, saved, spc, chan, count,
                   posts>>

\* while (count <= 0) sleep(...); count--
wait_test(p) ==
    /\ At(p, "wait_test")
    /\ \/ count <= 0 /\ Goto(p, "sleep_acquire") /\ UNCHANGED count
       \/ count > 0 /\ Goto(p, "wait_unguard") /\ count' = count - 1
    /\ UNCHANGED <<exec, proc, ien, clk, ncli, intena, locked, kstate, status,
                   ready, ret, saved, spc, chan, posts>>

wait_unguard(p) ==
    /\ At(p, "wait_unguard")
    /\ release_kspinlock("guard")
    /\ Goto(p, "wait_return")
    /\ UNCHANGED <<exec, proc, clk, status, ready, ret, saved, spc, chan, count,
                   posts>>

wait_ksemaphore(p) ==
    \/ wait_guard(p)
    \/ wait_test(p)
    \/ sleep(p, "wait_test") /\ UNCHANGED <<count, posts>>
    \/ wait_unguard(p)

-----------------------------------------------------------------------------
signal_guard(p) ==
    /\ At(p, "signal")
    /\ acquire_kspinlock("guard")
    /\ Goto(p, "signal_count")
    /\ UNCHANGED <<exec, proc, clk, status, ready, ret, saved, spc, chan, count,
                   posts>>

\* Mutation: a signal that finds a sleeper is handed over, not counted.
signal_count_handed_over(p) ==
    /\ At(p, "signal_count")
    /\ count' = IF chan # <<>> THEN count ELSE count + 1
    /\ Goto(p, IF chan # <<>> THEN "wakeup_all" ELSE "signal_unguard")
    /\ UNCHANGED <<exec, proc, ien, clk, ncli, intena, locked, kstate, status,
                   ready, ret, saved, spc, chan, posts>>

\* Mutation: the sleepers are not woken.
signal_count_no_wakeup(p) ==
    /\ At(p, "signal_count")
    /\ count' = count + 1
    /\ Goto(p, "signal_unguard")
    /\ UNCHANGED <<exec, proc, ien, clk, ncli, intena, locked, kstate, status,
                   ready, ret, saved, spc, chan, posts>>

signal_count(p) ==
    /\ At(p, "signal_count")
    /\ count' = count + 1
    /\ Goto(p, IF chan # <<>> THEN "wakeup_all" ELSE "signal_unguard")
    /\ UNCHANGED <<exec, proc, ien, clk, ncli, intena, locked, kstate, status,
                   ready, ret, saved, spc, chan, posts>>

signal_unguard(p) ==
    /\ At(p, "signal_unguard")
    /\ release_kspinlock("guard")
    /\ Goto(p, "signal_return")
    /\ UNCHANGED <<exec, proc, clk, status, ready, ret, saved, spc, chan, count,
                   posts>>

signal_ksemaphore(p) ==
    \/ signal_guard(p)
    \/ signal_count(p)
    \/ wakeup_all(p, "signal_unguard") /\ UNCHANGED <<count, posts>>
    \/ signal_unguard(p)

-----------------------------------------------------------------------------
(* The programs: "cs" is the code between a wait and its signal.           *)

WaitCall(p)     == SyscallEntry(p, "user", "wait")
WaitReturn(p)   == SyscallReturn(p, "wait_return", "cs")
SignalCall(p)   == SyscallEntry(p, "cs", "signal")
SignalReturn(p) == SyscallReturn(p, "signal_return", "user")

SemIdle == UNCHANGED <<chan, count, posts>>

\* A signal by a program that is outside.
PostCall(p) ==
    /\ posts < MaxPosts
    /\ SyscallEntry(p, "user", "signal")
    /\ posts' = posts + 1
    /\ UNCHANGED <<chan, count>>

SemStep(p) ==
    \/ KernelStep(p) /\ SemIdle
    \/ wait_ksemaphore(p)
    \/ signal_ksemaphore(p)
    \/ (WaitReturn(p) \/ SignalReturn(p)) /\ SemIdle

SemInit ==
    /\ KernelInit
    /\ chan = <<>>
    /\ count = InitialCount
    /\ posts = 0

SemNext ==
    \/ SchedulerStep /\ SemIdle
    \/ PromptIdle /\ SemIdle
    \/ \E p \in Env :
          \/ RunFromPrompt(p) /\ SemIdle
          \/ clock_interrupt_handler(p) /\ SemIdle
          \/ HandlerStep(p) /\ SemIdle
          \/ SemStep(p)
          \/ KernelCall(p) /\ SemIdle
          \/ WaitCall(p) /\ SemIdle
          \/ SignalCall(p) /\ SemIdle
          \/ PostCall(p)

SemSpec == SemInit /\ [][SemNext]_semVars

-----------------------------------------------------------------------------
WaitPoints   == {"wait", "wait_test"} \union SleepPoints
InPoints     == {"wait_unguard", "wait_return", "cs"}
SignalPoints == {"signal", "signal_count"}
SemPoints == KernelPoints \union WaitPoints \union InPoints \union SignalPoints
               \union WakeupPoints \union {"signal_unguard", "signal_return"}

SemTypeOK ==
    /\ KernelTypeOK(SemPoints)
    /\ chan \in Seq(Env)
    /\ count \in Nat
    /\ posts \in 0 .. MaxPosts

\* Interrupt flag and spinlocks around the blocking calls.
SemaphoreInterrupts ==
    InterruptDiscipline(UserPoints \union
        {"run_acquire", "run_return", "exit_acquire", "wait", "wait_return",
         "signal", "signal_return"})

Inside    == {p \in Env : Point(p) \in InPoints}
Signaling == {p \in Env : Point(p) \in SignalPoints}

\* Permits are conserved by any interleaving of waits, signals and spurious
\* wakeups: the count, the programs inside and the signals under way always
\* add up to the initial value plus the posts.  In particular at most
\* InitialCount + posts programs are inside.
PermitsConserved ==
    count + Cardinality(Inside) + Cardinality(Signaling) = InitialCount + posts

\* No process sleeps on a positive semaphore once the guard is free.
NoLostSignal == locked["guard"] = 0 /\ count > 0 => chan = <<>>

\* The semaphore implements the abstract one: a signal takes effect when it is
\* called, a wait when its test finds a positive count.
SemMode(p) == IF Point(p) \in InPoints THEN "in"
              ELSE IF Point(p) \in WaitPoints THEN "wait" ELSE "out"

AbstractSem == INSTANCE AbstractSemaphore
                   WITH Client <- Env, InitialPermits <- InitialCount,
                        permits <- count + Cardinality(Signaling),
                        mode <- [p \in Env |-> SemMode(p)]

ImplementsSemaphore == AbstractSem!AbsSpec
=============================================================================
