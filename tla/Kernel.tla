------------------------------- MODULE Kernel -------------------------------
(***************************************************************************)
(* The single CPU of FOS and the code every blocking primitive runs on:    *)
(* pushcli/popcli and the kernel spinlocks (kern/cpu/cpu.c,                *)
(* kern/conc/kspinlock.c), traps, the clock interrupt and yield            *)
(* (kern/trap/trap.c, kern/cpu/sched.c, kern/proc/user_environment.c),     *)
(* sched/context_switch and the fos_scheduler loop with the round-robin    *)
(* policy (kern/cpu/sched.c), program start and exit                       *)
(* (kern/cpu/sched_helpers.c).                                             *)
(*                                                                         *)
(* One action is one piece of kernel code between two operations on a      *)
(* spinlock, a change of stack, or an instant at which an interrupt can    *)
(* arrive.  A process is interrupted only while the interrupt flag is set  *)
(* and IRQ0 is unmasked.  panic() stops the machine.                       *)
(***************************************************************************)
EXTENDS Naturals, Sequences, Functions

CONSTANTS Env,      \* the environments (processes) of envs[]
          NoEnv     \* NULL: no process on the CPU / the scheduler's own stack

ASSUME NoEnvAssumption == NoEnv \notin Env

VARIABLES
    exec,     \* whose kernel stack the CPU is on (NoEnv: the scheduler's)
    proc,     \* mycpu()->proc
    ien,      \* FL_IF of eflags
    clk,      \* 1 iff IRQ0 is unmasked (kclock_resume / kclock_stop)
    ncli,     \* mycpu()->ncli
    intena,   \* mycpu()->intena
    locked,   \* locked word of each spinlock
    kstate,   \* "ok", or "panic" once panic() or a failed assert ran
    status,   \* env_status of each environment
    ready,    \* env_ready_queues[0], next to dequeue first
    pc,       \* where each process is in the kernel or in its program
    ret,      \* where the clock interrupted it
    saved,    \* the local intena of sched(), on each process's stack
    spc       \* where fos_scheduler, or the command prompt, is

kernelVars == <<exec, proc, ien, clk, ncli, intena, locked, kstate,
                status, ready, pc, ret, saved, spc>>

\* The process-queues lock, and the lock that guards one blocking object.
SpinLocks == {"qlock", "guard"}

At(p, l)   == kstate = "ok" /\ exec = p /\ pc[p] = l
SchedAt(l) == kstate = "ok" /\ exec = NoEnv /\ spc = l
Goto(p, l) == pc' = [pc EXCEPT ![p] = l]

\* panic() and assert(): nothing runs once kstate is "panic", so what the
\* rest of the action assigns no longer matters.
PanicUnless(c) == kstate' = IF c THEN kstate ELSE "panic"

\* The control point of p with any clock interrupt it is in undone.
HandlerPoints == {"yield_acquire", "yield_sched", "yield_release", "irq_return"}
Point(p) == IF pc[p] \in HandlerPoints THEN ret[p] ELSE pc[p]

-----------------------------------------------------------------------------
(* kern/cpu/cpu.c, kern/conc/kspinlock.c                                   *)

\* Mutation: the nesting is not counted.
pushcli_uncounted ==
    /\ intena' = IF ncli = 0 THEN ien ELSE intena
    /\ ien' = 0
    /\ UNCHANGED ncli

pushcli ==
    /\ ncli' = ncli + 1
    /\ intena' = IF ncli = 0 THEN ien ELSE intena
    /\ ien' = 0

\* Mutation: the interrupt flag is not restored.
popcli_no_sti == ncli' = ncli - 1 /\ UNCHANGED <<ien, intena>>

popcli ==
    /\ ncli' = ncli - 1
    /\ ien' = IF ncli = 1 /\ intena = 1 THEN 1 ELSE ien
    /\ UNCHANGED intena

\* With one CPU a lock that is taken is taken by this CPU, so acquiring it
\* again never spins: it panics.
acquire_kspinlock(lk) ==
    /\ PanicUnless(locked[lk] = 0)
    /\ pushcli
    /\ locked' = [locked EXCEPT ![lk] = 1]

\* Panics when the lock is not held, and in popcli when interrupts are on or
\* the nesting count would become negative.
release_kspinlock(lk) ==
    /\ PanicUnless(locked[lk] = 1 /\ ien = 0 /\ ncli > 0)
    /\ locked' = [locked EXCEPT ![lk] = 0]
    /\ popcli

-----------------------------------------------------------------------------
(* kern/cpu/sched_helpers.c: a queue is kept in the order of dequeue().    *)

enqueue(q, p) == Append(q, p)

sched_insert_ready(p) ==
    /\ status' = [status EXCEPT ![p] = "READY"]
    /\ ready' = enqueue(ready, p)

-----------------------------------------------------------------------------
(* sched(), called by p once it has given itself the status s.             *)

sched(p, s) ==
    /\ PanicUnless(locked["qlock"] = 1 /\ ncli = 1 /\ s # "RUNNING" /\ ien = 0)
    /\ saved' = [saved EXCEPT ![p] = intena]
    /\ exec' = NoEnv
    /\ spc' = "back"

\* Mutation: sched() does not put its intena back.
context_switch_keeps_intena(p) == exec' = p /\ UNCHANGED intena

\* The scheduler's side of context_switch, up to the first statement the
\* process executes: env_start for a new one, the restoring of intena that
\* ends sched() for the others.
context_switch(p) ==
    /\ exec' = p
    /\ intena' = IF pc[p] = "env_start" THEN intena ELSE saved[p]

-----------------------------------------------------------------------------
(* fos_scheduler                                                           *)

fos_scheduler_sti ==
    /\ SchedAt("sti")
    /\ ien' = 1
    /\ spc' = "acquire"
    /\ UNCHANGED <<exec, proc, clk, ncli, intena, locked, kstate, status,
                   ready, pc, ret, saved>>

fos_scheduler_acquire ==
    /\ SchedAt("acquire")
    /\ acquire_kspinlock("qlock")
    /\ spc' = "next"
    /\ UNCHANGED <<exec, proc, clk, status, ready, pc, ret, saved>>

\* Mutation: the process that came back READY is not queued again.
fos_scheduler_RR_forgets(q) == q

\* fos_scheduler_RR: the process that came back READY is queued again, the
\* next one is taken from the queue and the clock is left stopped.
fos_scheduler_RR(q) ==
    IF proc # NoEnv THEN enqueue(q, proc) ELSE q

fos_scheduler_next ==
    LET q == fos_scheduler_RR(ready) IN
    /\ SchedAt("next")
    /\ PanicUnless(locked["qlock"] = 1)
    /\ clk' = 0
    /\ \/ /\ q = <<>>
          /\ ready' = q
          /\ spc' = "release"
          /\ UNCHANGED <<exec, proc, intena, status>>
       \/ /\ q # <<>>
          /\ ready' = Tail(q)
          /\ proc' = Head(q)
          /\ status' = [status EXCEPT ![Head(q)] = "RUNNING"]
          /\ context_switch(Head(q))
          /\ spc' = "switched"
    /\ UNCHANGED <<ien, ncli, locked, pc, ret, saved>>

\* Back from context_switch: a READY process stays in c->proc, for the next
\* round to queue it; a BLOCKED or EXIT one leaves the CPU.
fos_scheduler_back ==
    /\ SchedAt("back")
    /\ PanicUnless(/\ locked["qlock"] = 1
                   /\ proc # NoEnv
                   /\ status[proc] # "RUNNING")
    /\ proc' = IF status[proc] = "READY" THEN proc ELSE NoEnv
    /\ clk' = 0
    /\ spc' = "next"
    /\ UNCHANGED <<exec, ien, ncli, intena, locked, status, ready, pc, ret,
                   saved>>

\* The outer loop goes on while some process is BLOCKED.
fos_scheduler_release ==
    /\ SchedAt("release")
    /\ release_kspinlock("qlock")
    /\ spc' = IF \E p \in Env : status[p] = "BLOCKED" THEN "sti" ELSE "no_envs"
    /\ UNCHANGED <<exec, proc, clk, status, ready, pc, ret, saved>>

get_into_prompt ==
    /\ SchedAt("no_envs")
    /\ ien' = 0 /\ ncli' = 0 /\ intena' = 0
    /\ proc' = NoEnv
    /\ spc' = "prompt"
    /\ UNCHANGED <<exec, clk, locked, kstate, status, ready, pc, ret, saved>>

\* The run command: sched_run_env moves a NEW process to the ready queue,
\* inside the queues lock, and enters fos_scheduler, which is stopped.
RunFromPrompt(q) ==
    /\ SchedAt("prompt")
    /\ status[q] = "NEW"
    /\ PanicUnless(locked["qlock"] = 0)
    /\ sched_insert_ready(q)
    /\ proc' = NoEnv
    /\ spc' = "sti"
    /\ UNCHANGED <<exec, ien, clk, ncli, intena, locked, pc, ret, saved>>

-----------------------------------------------------------------------------
(* Traps                                                                   *)

\* A system call from user mode runs with interrupts and the clock on.
SyscallEntry(p, from, to) ==
    /\ At(p, from)
    /\ PanicUnless(proc = p /\ status[p] = "RUNNING")
    /\ ien' = 1 /\ clk' = 1
    /\ Goto(p, to)
    /\ UNCHANGED <<exec, proc, ncli, intena, locked, status, ready, ret, saved,
                   spc>>

\* The end of trap(): interrupts off, the clock resumed, and iret, which
\* restores the interrupt flag of the user program.
SyscallReturn(p, from, to) ==
    /\ At(p, from)
    /\ ien' = 1 /\ clk' = 1
    /\ Goto(p, to)
    /\ UNCHANGED <<exec, proc, ncli, intena, locked, kstate, status, ready,
                   ret, saved, spc>>

\* IRQ0: the interrupt gate clears FL_IF and trap() masks the clock.
clock_interrupt_handler(p) ==
    /\ kstate = "ok" /\ exec = p
    /\ ien = 1 /\ clk = 1
    /\ ret' = [ret EXCEPT ![p] = pc[p]]
    /\ Goto(p, "yield_acquire")
    /\ ien' = 0 /\ clk' = 0
    /\ UNCHANGED <<exec, proc, ncli, intena, locked, kstate, status, ready,
                   saved, spc>>

\* Mutation: yield calls sched() without the queues lock.
yield_acquire_dropped(p) ==
    /\ At(p, "yield_acquire")
    /\ Goto(p, "yield_sched")
    /\ UNCHANGED <<exec, proc, ien, clk, ncli, intena, locked, kstate, status,
                   ready, ret, saved, spc>>

yield_acquire(p) ==
    /\ At(p, "yield_acquire")
    /\ acquire_kspinlock("qlock")
    /\ Goto(p, "yield_sched")
    /\ UNCHANGED <<exec, proc, clk, status, ready, ret, saved, spc>>

yield_sched(p) ==
    /\ At(p, "yield_sched")
    /\ status' = [status EXCEPT ![p] = "READY"]
    /\ sched(p, "READY")
    /\ Goto(p, "yield_release")
    /\ UNCHANGED <<proc, ien, clk, ncli, intena, locked, ready, ret>>

yield_release(p) ==
    /\ At(p, "yield_release")
    /\ release_kspinlock("qlock")
    /\ Goto(p, "irq_return")
    /\ UNCHANGED <<exec, proc, clk, status, ready, ret, saved, spc>>

\* trap() asserts that interrupts are off, resumes the clock and returns to
\* the interrupted instruction, whose interrupt flag was set.
irq_return(p) ==
    /\ At(p, "irq_return")
    /\ PanicUnless(ien = 0)
    /\ ien' = 1 /\ clk' = 1
    /\ Goto(p, ret[p])
    /\ UNCHANGED <<exec, proc, ncli, intena, locked, status, ready, ret,
                   saved, spc>>

-----------------------------------------------------------------------------
(* Program start and exit                                                  *)

\* The first dispatch: env_start releases the lock the scheduler took, and
\* trapret enters the program with interrupts on.  The clock is not resumed:
\* that happens in the first trap of the program.
env_start(p) ==
    /\ At(p, "env_start")
    /\ release_kspinlock("qlock")
    /\ Goto(p, "start_return")
    /\ UNCHANGED <<exec, proc, clk, status, ready, ret, saved, spc>>

trapret(p) ==
    /\ At(p, "start_return")
    /\ ien' = 1
    /\ Goto(p, "user")
    /\ UNCHANGED <<exec, proc, clk, ncli, intena, locked, kstate, status, ready,
                   ret, saved, spc>>

\* sys_run_env: sched_run_env while the scheduler is started.
run_acquire(p) ==
    /\ At(p, "run_acquire")
    /\ acquire_kspinlock("qlock")
    /\ Goto(p, "run_insert")
    /\ UNCHANGED <<exec, proc, clk, status, ready, ret, saved, spc>>

run_insert(p, q) ==
    /\ At(p, "run_insert")
    /\ PanicUnless(locked["qlock"] = 1)
    /\ IF status[q] = "NEW" THEN sched_insert_ready(q)
                            ELSE UNCHANGED <<status, ready>>
    /\ Goto(p, "run_release")
    /\ UNCHANGED <<exec, proc, ien, clk, ncli, intena, locked, ret, saved,
                   spc>>

run_release(p) ==
    /\ At(p, "run_release")
    /\ release_kspinlock("qlock")
    /\ Goto(p, "run_return")
    /\ UNCHANGED <<exec, proc, clk, status, ready, ret, saved, spc>>

\* env_exit: sched_exit_env of the process itself.
exit_acquire(p) ==
    /\ At(p, "exit_acquire")
    /\ acquire_kspinlock("qlock")
    /\ Goto(p, "exit_sched")
    /\ UNCHANGED <<exec, proc, clk, status, ready, ret, saved, spc>>

exit_sched(p) ==
    /\ At(p, "exit_sched")
    /\ status' = [status EXCEPT ![p] = "EXIT"]
    /\ sched(p, "EXIT")
    /\ Goto(p, "exited")
    /\ UNCHANGED <<proc, ien, clk, ncli, intena, locked, ready, ret>>

-----------------------------------------------------------------------------
KernelInit ==
    /\ exec = NoEnv /\ proc = NoEnv
    /\ ien = 0 /\ clk = 0 /\ ncli = 0 /\ intena = 0
    /\ locked = [lk \in SpinLocks |-> 0]
    /\ kstate = "ok"
    /\ status = [p \in Env |-> "NEW"]
    /\ ready = <<>>
    /\ pc = [p \in Env |-> "env_start"]
    /\ ret = [p \in Env |-> "env_start"]
    /\ saved = [p \in Env |-> 0]
    /\ spc = "prompt"

SchedulerStep ==
    \/ fos_scheduler_sti \/ fos_scheduler_acquire \/ fos_scheduler_next
    \/ fos_scheduler_back \/ fos_scheduler_release \/ get_into_prompt

\* Steps p takes by itself once it is in the clock interrupt ...
HandlerStep(p) ==
    \/ yield_acquire(p) \/ yield_sched(p) \/ yield_release(p) \/ irq_return(p)

\* ... and elsewhere in the kernel.
KernelStep(p) ==
    \/ env_start(p) \/ trapret(p)
    \/ run_acquire(p) \/ run_release(p) \/ SyscallReturn(p, "run_return", "user")
    \/ exit_acquire(p) \/ exit_sched(p)
    \/ \E q \in Env : run_insert(p, q)

\* The system calls of a program that does no blocking.
KernelCall(p) ==
    \/ SyscallEntry(p, "user", "run_acquire")
    \/ SyscallEntry(p, "user", "exit_acquire")

\* With nothing left to run, the prompt waits for the next command line.
PromptIdle == SchedAt("prompt") /\ UNCHANGED kernelVars

-----------------------------------------------------------------------------
(* Properties of the CPU and of the scheduler                              *)

UserPoints   == {"user", "cs"}
StartPoints  == {"env_start", "start_return"}
RunPoints    == {"run_acquire", "run_insert", "run_release", "run_return"}
ExitPoints   == {"exit_acquire", "exit_sched", "exited"}
KernelPoints == UserPoints \union StartPoints \union RunPoints \union ExitPoints
                  \union HandlerPoints
SchedPoints  == {"prompt", "sti", "acquire", "next", "switched", "back",
                 "release", "no_envs"}
Status       == {"NEW", "READY", "RUNNING", "BLOCKED", "EXIT"}
Bit          == {0, 1}

KernelTypeOK(Points) ==
    /\ exec \in Env \union {NoEnv}
    /\ proc \in Env \union {NoEnv}
    /\ ien \in Bit /\ clk \in Bit /\ ncli \in Nat /\ intena \in Bit
    /\ locked \in [SpinLocks -> Bit]
    /\ kstate \in {"ok", "panic"}
    /\ status \in [Env -> Status]
    /\ ready \in Seq(Env)
    /\ pc \in [Env -> Points]
    /\ ret \in [Env -> Points]
    /\ saved \in [Env -> Bit]
    /\ spc \in SchedPoints

\* No panic() or assert() of the locks, of sched(), of the scheduler loop or
\* of trap() is ever reached: no spinlock is taken twice or released by
\* someone who does not hold it, and sched() is entered with exactly the
\* queues lock held, whatever the clock interrupts.
NoPanic == kstate = "ok"

\* sched.c:109-111 stops the clock so that it cannot interrupt the scheduler
\* after sti(): no clock interrupt is deliverable on the scheduler's stack.
NoClockInScheduler == exec = NoEnv => ~(ien = 1 /\ clk = 1)

\* A process is interrupted only outside every spinlock, and outside them it
\* is always interruptible again: no blocking call returns with the
\* interrupt flag of the process that ran before it.
InterruptDiscipline(Interruptible) ==
    /\ ien = 1 => ncli = 0 /\ \A lk \in SpinLocks : locked[lk] = 0
    /\ \A p \in Env : exec = p /\ pc[p] \in Interruptible => ien = 1

\* The CPU runs the process that c->proc names, exactly that one is RUNNING,
\* and the ready queue holds every other READY process exactly once.
ReadyDiscipline ==
    /\ exec # NoEnv => proc = exec
    /\ \A p \in Env : status[p] = "RUNNING" <=> exec = p
    /\ IsInjective(ready)
    /\ \A p \in Env : p \in Range(ready) <=> status[p] = "READY" /\ p # proc
=============================================================================
