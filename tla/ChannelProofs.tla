--------------------------- MODULE ChannelProofs ---------------------------
(***************************************************************************)
(* Proofs about kern/conc, for every set of environments.  First what the  *)
(* kernel and the channel guarantee to every object built on them: such an *)
(* object has control points of its own, of which those in O hold no       *)
(* spinlock and those in G hold its guard.  Then the two objects: the      *)
(* sleeplock, and the semaphore for every initial count and any number of  *)
(* posts (its names begin with Sem where the sleeplock has the same one).  *)
(***************************************************************************)
EXTENDS Sleeplock, Ksemaphore, QueueLemmas

\* Control points at which no spinlock is held and interrupts are on.
Open(O) == UserPoints \union {"run_acquire", "run_return", "exit_acquire"} \union O

Guarded(G)  == {"sleep_acquire", "wakeup_all"} \union G
QueuePoints == {"run_insert", "run_release", "exit_sched", "sleep_sched",
                "sleep_reguard"}
BothPoints  == {"sleep_unguard", "sleep_release", "wakeup_all_move",
                "wakeup_release"}

SharedPoints    == KernelPoints \union SleepPoints \union WakeupPoints
AllPoints(O, G) == SharedPoints \union O \union G

Object(O, G) ==
    /\ O \intersect SharedPoints = {} /\ G \intersect SharedPoints = {}
    /\ O \intersect G = {}

-----------------------------------------------------------------------------
(* The invariant.  Each control point of the running process fixes which   *)
(* spinlocks are held, how deep pushcli is nested, whether interrupts are  *)
(* on and which interrupt flag the outermost pushcli saved.                *)

CpuIs(q, g, n, i) ==
    locked["qlock"] = q /\ locked["guard"] = g /\ ncli = n /\ ien = i

RunningCpu(p, O, G) ==
    \/ pc[p] \in Open(O) /\ CpuIs(0, 0, 0, 1)
    \/ pc[p] = "start_return" /\ clk = 0 /\ CpuIs(0, 0, 0, ien)
    \/ pc[p] \in {"yield_acquire", "irq_return"} /\ CpuIs(0, 0, 0, 0)
    \/ pc[p] \in {"yield_sched", "yield_release"} /\ CpuIs(1, 0, 1, 0) /\ intena = 0
    \/ pc[p] = "env_start" /\ clk = 0 /\ CpuIs(1, 0, 1, 0)
    \/ pc[p] \in QueuePoints /\ CpuIs(1, 0, 1, 0) /\ intena = 1
    \/ pc[p] \in Guarded(G) /\ CpuIs(0, 1, 1, 0) /\ intena = 1
    \/ pc[p] \in BothPoints /\ CpuIs(1, 1, 2, 0) /\ intena = 1

\* The scheduler's own stack: what it holds at each point of its loop.
SchedulerCpu ==
    \/ spc = "prompt" /\ CpuIs(0, 0, 0, 0) /\ proc = NoEnv /\ clk = 0
    \/ spc \in {"sti", "acquire", "no_envs"} /\ CpuIs(0, 0, 0, ien) /\ proc = NoEnv
         /\ clk = 0
    \/ spc = "next" /\ CpuIs(1, 0, 1, 0) /\ clk = 0
         /\ (proc # NoEnv => status[proc] = "READY")
    \/ spc = "back" /\ CpuIs(1, 0, 1, 0) /\ proc # NoEnv
    \/ spc = "release" /\ CpuIs(1, 0, 1, 0) /\ clk = 0 /\ proc = NoEnv

CpuInv(O, G) ==
    /\ \A p \in Env : exec = p => proc = p /\ spc = "switched" /\ RunningCpu(p, O, G)
    /\ exec = NoEnv => SchedulerCpu

\* A process that is not on the CPU is where its context_switch left it.
Suspended(p) ==
    \/ pc[p] = "env_start" /\ status[p] \in {"NEW", "READY"}
    \/ pc[p] = "yield_release" /\ status[p] = "READY" /\ saved[p] = 0
    \/ pc[p] = "sleep_reguard" /\ status[p] \in {"BLOCKED", "READY"}
         /\ saved[p] = 1
    \/ pc[p] = "exited" /\ status[p] = "EXIT"

SuspendedInv(O) ==
    /\ \A p \in Env : exec # p => Suspended(p)
    /\ \A p \in Env : pc[p] \in HandlerPoints => ret[p] \in Open(O)

TypeInv(O, G) == KernelTypeOK(AllPoints(O, G)) /\ chan \in Seq(Env)

KernelInv(O, G) ==
    /\ TypeInv(O, G)
    /\ NoPanic
    /\ CpuInv(O, G)
    /\ SuspendedInv(O)
    /\ ReadyDiscipline
    /\ ChannelDiscipline

\* The step takes p from one control point to another, clock interrupts
\* undone, and nobody else anywhere.
Moves(p, from, to) ==
    /\ Point(p) = from /\ Point(p)' = to
    /\ \A q \in Env : q # p => Point(q)' = Point(q)

\* Points of the system calls that do not concern the object.
PlainPoints == {"user"} \union StartPoints \union RunPoints \union ExitPoints

\* Nobody enters or leaves the code of the object, or of the channel.
Quiet ==
    \A q \in Env : \/ Point(q)' = Point(q)
                   \/ Point(q) \in PlainPoints /\ Point(q)' \in PlainPoints

-----------------------------------------------------------------------------
(* Steps of the running process that leave the queues alone.               *)

LocalTo(p, l, O, G) ==
    /\ exec = p
    /\ pc' = [pc EXCEPT ![p] = l] /\ l \in AllPoints(O, G)
    /\ UNCHANGED <<exec, proc, kstate, status, ready, saved, spc, chan>>
    /\ ien' \in Bit /\ clk' \in Bit /\ ncli' \in Nat /\ intena' \in Bit
    /\ locked' \in [SpinLocks -> Bit]
    /\ RunningCpu(p, O, G)'

\* Such a step preserves the invariant.  It moves p from its point to l, unless
\* one of the two is in the clock interrupt.
LEMMA LocalStep ==
    ASSUME NEW O, NEW G, Object(O, G), KernelInv(O, G),
           NEW p \in Env, NEW l, LocalTo(p, l, O, G),
           \/ ret' = ret /\ (l \in HandlerPoints => pc[p] \in HandlerPoints)
           \/ ret' = [ret EXCEPT ![p] = pc[p]] /\ pc[p] \in Open(O)
    PROVE  /\ KernelInv(O, G)'
           /\ \A q \in Env : q # p => Point(q)' = Point(q)
           /\ l \notin HandlerPoints => Point(p)' = l
           /\ pc[p] \notin HandlerPoints => Point(p) = pc[p]
<1> USE DEF KernelInv
<1>1. /\ pc \in [Env -> AllPoints(O, G)] /\ ret \in [Env -> AllPoints(O, G)]
      /\ pc' \in [Env -> AllPoints(O, G)] /\ ret' \in [Env -> AllPoints(O, G)]
      /\ \A q \in Env : q # p => pc'[q] = pc[q] /\ ret'[q] = ret[q]
      /\ pc'[p] = l
    BY DEF TypeInv, KernelTypeOK, LocalTo
<1>2. TypeInv(O, G)'
    BY <1>1 DEF TypeInv, KernelTypeOK, LocalTo
<1>3. NoPanic'
    BY DEF NoPanic, LocalTo
<1>4. CpuInv(O, G)'
    BY NoEnvAssumption DEF CpuInv, LocalTo
<1>5. SuspendedInv(O)'
  <2>1. ASSUME NEW q \in Env, exec' # q PROVE Suspended(q)'
      BY <1>1, <2>1 DEF SuspendedInv, Suspended, LocalTo
  <2>2. ASSUME NEW q \in Env, pc'[q] \in HandlerPoints
        PROVE  ret'[q] \in Open(O)
      BY <1>1, <2>2 DEF SuspendedInv
  <2>3. QED
      BY <2>1, <2>2 DEF SuspendedInv
<1>6. ReadyDiscipline' /\ ChannelDiscipline'
    BY DEF ReadyDiscipline, ChannelDiscipline, LocalTo
<1>7. QED
    BY <1>1, <1>2, <1>3, <1>4, <1>5, <1>6 DEF Point

\* The control point of the running process determines the state of the CPU.
LEMMA CpuAt ==
    ASSUME NEW O, NEW G, Object(O, G), KernelInv(O, G), NEW p \in Env, exec = p
    PROVE  /\ pc[p] \in Open(O) => CpuIs(0, 0, 0, 1)
           /\ pc[p] = "start_return" => clk = 0 /\ CpuIs(0, 0, 0, ien)
           /\ pc[p] \in {"yield_acquire", "irq_return"} => CpuIs(0, 0, 0, 0)
           /\ pc[p] \in {"yield_sched", "yield_release"} => CpuIs(1, 0, 1, 0) /\ intena = 0
           /\ pc[p] = "env_start" => clk = 0 /\ CpuIs(1, 0, 1, 0)
           /\ pc[p] \in QueuePoints => CpuIs(1, 0, 1, 0) /\ intena = 1
           /\ pc[p] \in Guarded(G) => CpuIs(0, 1, 1, 0) /\ intena = 1
           /\ pc[p] \in BothPoints => CpuIs(1, 1, 2, 0) /\ intena = 1
           /\ proc = p /\ status[p] = "RUNNING" /\ spc = "switched" /\ kstate = "ok"
<1>1. /\ RunningCpu(p, O, G)
      /\ proc = p /\ status[p] = "RUNNING" /\ spc = "switched" /\ kstate = "ok"
    BY DEF KernelInv, CpuInv, ReadyDiscipline, NoPanic
<1>2. /\ \A x \in O : x \notin SharedPoints \union G
      /\ \A x \in G : x \notin SharedPoints \union O
    BY DEF Object
<1>3. QED
    BY <1>1, <1>2 DEF RunningCpu, Open, Guarded, QueuePoints, BothPoints, SharedPoints,
       KernelPoints, UserPoints, StartPoints, RunPoints, ExitPoints, HandlerPoints,
       SleepPoints, WakeupPoints

\* The points of the kernel and of the channel are points of every object, and
\* the open ones are not in the clock interrupt.
LEMMA PointSets ==
    ASSUME NEW O, NEW G, Object(O, G)
    PROVE  /\ PlainPoints \subseteq AllPoints(O, G)
           /\ HandlerPoints \subseteq AllPoints(O, G)
           /\ SleepPoints \union WakeupPoints \subseteq AllPoints(O, G)
           /\ Open(O) \subseteq AllPoints(O, G) /\ Guarded(G) \subseteq AllPoints(O, G)
           /\ Open(O) \intersect HandlerPoints = {}
           /\ Guarded(G) \intersect HandlerPoints = {}
           /\ PlainPoints \intersect HandlerPoints = {}
           /\ (SleepPoints \union WakeupPoints) \intersect HandlerPoints = {}
BY DEF Object, AllPoints, PlainPoints, Open, Guarded, SharedPoints, KernelPoints, UserPoints,
   StartPoints, RunPoints, ExitPoints, HandlerPoints, SleepPoints, WakeupPoints

\* The steps of trap handling, of program start and of the system calls that do
\* not concern the object, which take and drop at most the queues lock.
LEMMA KernelLocal ==
    ASSUME NEW O, NEW G, Object(O, G), KernelInv(O, G), NEW p \in Env, UNCHANGED chan,
           \/ clock_interrupt_handler(p)
           \/ yield_acquire(p) \/ yield_release(p) \/ irq_return(p)
           \/ env_start(p) \/ trapret(p)
           \/ run_acquire(p) \/ run_release(p)
           \/ SyscallReturn(p, "run_return", "user")
           \/ exit_acquire(p)
           \/ KernelCall(p)
    PROVE  KernelInv(O, G)' /\ Quiet
<1> USE PointSets DEF LocalTo, At, Goto, PanicUnless
<1>1. TypeInv(O, G) /\ pc \in [Env -> AllPoints(O, G)] /\ ret \in [Env -> AllPoints(O, G)]
    BY DEF KernelInv, TypeInv, KernelTypeOK
<1>2. CASE clock_interrupt_handler(p)
  <2>1. pc[p] \in Open(O) /\ CpuIs(0, 0, 0, 1)
      BY <1>2 DEF clock_interrupt_handler, KernelInv, CpuInv, RunningCpu, CpuIs
  <2>2. LocalTo(p, "yield_acquire", O, G) /\ ret' = [ret EXCEPT ![p] = pc[p]]
      BY <1>1, <1>2, <2>1 DEF clock_interrupt_handler, TypeInv, KernelTypeOK,
         HandlerPoints, RunningCpu, CpuIs, Bit
  <2>3. Point(p)' = Point(p)
      BY <1>1, <2>1, <2>2 DEF Point, HandlerPoints
  <2>4. QED
      BY <2>1, <2>2, <2>3, LocalStep DEF Quiet
<1>3. CASE irq_return(p)
  <2>1. pc[p] = "irq_return" /\ CpuIs(0, 0, 0, 0) /\ exec = p
      BY <1>3, CpuAt DEF irq_return
  <2>2. ret[p] \in Open(O)
      BY <2>1 DEF KernelInv, SuspendedInv, HandlerPoints
  <2>3. LocalTo(p, ret[p], O, G) /\ ret' = ret
      BY <1>1, <1>3, <2>1, <2>2 DEF irq_return, TypeInv, KernelTypeOK, RunningCpu, CpuIs, Bit
  <2>4. Point(p)' = Point(p)
      BY <1>1, <2>1, <2>2, <2>3 DEF Point, HandlerPoints
  <2>5. QED
      BY <2>1, <2>2, <2>3, <2>4, LocalStep DEF Quiet
<1>4. CASE yield_acquire(p) \/ yield_release(p)
  <2>1. PICK l \in HandlerPoints :
          LocalTo(p, l, O, G) /\ ret' = ret /\ pc[p] \in HandlerPoints
    <3>1. CASE yield_acquire(p)
        BY <1>1, <3>1, CpuAt DEF yield_acquire, acquire_kspinlock, pushcli, TypeInv,
           KernelTypeOK, HandlerPoints, RunningCpu, CpuIs, Bit, SpinLocks
    <3>2. CASE yield_release(p)
        BY <1>1, <3>2, CpuAt DEF yield_release, release_kspinlock, popcli, TypeInv,
           KernelTypeOK, HandlerPoints, RunningCpu, CpuIs, Bit, SpinLocks
    <3>3. QED
        BY <1>4, <3>1, <3>2
  <2>2. Point(p)' = Point(p)
      BY <1>1, <2>1 DEF Point
  <2>3. QED
      BY <2>1, <2>2, LocalStep DEF Quiet
<1>5. CASE \/ env_start(p) \/ trapret(p) \/ run_acquire(p) \/ run_release(p)
           \/ SyscallReturn(p, "run_return", "user") \/ exit_acquire(p) \/ KernelCall(p)
  <2>1. PICK l \in PlainPoints :
          LocalTo(p, l, O, G) /\ ret' = ret /\ pc[p] \in PlainPoints
    <3> USE <1>1, CpuAt DEF TypeInv, KernelTypeOK, RunningCpu, CpuIs, Bit, SpinLocks, Open,
              UserPoints, QueuePoints, PlainPoints, StartPoints, RunPoints, ExitPoints
    <3>1. CASE env_start(p)
        BY <3>1 DEF env_start, release_kspinlock, popcli
    <3>2. CASE trapret(p)
        BY <3>2 DEF trapret
    <3>3. CASE run_acquire(p) \/ exit_acquire(p)
        BY <3>3 DEF run_acquire, exit_acquire, acquire_kspinlock, pushcli
    <3>4. CASE run_release(p)
        BY <3>4 DEF run_release, release_kspinlock, popcli
    <3>5. CASE SyscallReturn(p, "run_return", "user")
        BY <3>5 DEF SyscallReturn
    <3>6. CASE KernelCall(p)
        BY <3>6 DEF KernelCall, SyscallEntry
    <3>7. QED
        BY <1>5, <3>1, <3>2, <3>3, <3>4, <3>5, <3>6
  <2>2. l \notin HandlerPoints /\ pc[p] \notin HandlerPoints
      BY <2>1
  <2>3. KernelInv(O, G)' /\ Point(p)' = l /\ Point(p) = pc[p]
        /\ \A q \in Env : q # p => Point(q)' = Point(q)
      BY <2>1, <2>2, LocalStep
  <2>4. QED
      BY <2>1, <2>3 DEF Quiet
<1>6. QED
    BY <1>2, <1>3, <1>4, <1>5

-----------------------------------------------------------------------------
(* The object's own steps.                                                 *)

\* Entering and leaving a system call of the object.
LEMMA ObjectCall ==
    ASSUME NEW O, NEW G, Object(O, G), KernelInv(O, G), NEW p \in Env, UNCHANGED chan,
           NEW from, NEW to,
           \/ SyscallEntry(p, from, to) /\ from \in UserPoints /\ to \in O
           \/ SyscallReturn(p, from, to) /\ from \in O /\ to \in UserPoints
    PROVE  KernelInv(O, G)' /\ Moves(p, from, to)
<1>1. /\ exec = p /\ pc[p] = from /\ from \in Open(O) /\ to \in Open(O)
      /\ ret' = ret
    BY DEF SyscallEntry, SyscallReturn, At, Open
<1>2. CpuIs(0, 0, 0, 1) /\ proc = p /\ status[p] = "RUNNING" /\ kstate = "ok"
    BY <1>1, CpuAt
<1>3. /\ to \in AllPoints(O, G) /\ to \notin HandlerPoints /\ from \notin HandlerPoints
    BY <1>1, PointSets
<1>4. LocalTo(p, to, O, G)
  <2>1. /\ UNCHANGED <<exec, proc, kstate, status, ready, saved, spc, chan, ncli, intena, locked>>
        /\ ien' = 1 /\ clk' = 1 /\ pc' = [pc EXCEPT ![p] = to]
      BY <1>2 DEF SyscallEntry, SyscallReturn, At, Goto, PanicUnless
  <2>2. /\ pc \in [Env -> AllPoints(O, G)] /\ ncli \in Nat /\ intena \in Bit
        /\ locked \in [SpinLocks -> Bit]
      BY DEF KernelInv, TypeInv, KernelTypeOK
  <2>3. pc'[p] \in Open(O) /\ CpuIs(0, 0, 0, 1)'
      BY <1>1, <1>2, <2>1, <2>2 DEF CpuIs
  <2>4. QED
      BY <1>1, <1>3, <2>1, <2>2, <2>3 DEF LocalTo, RunningCpu, Bit
<1>5. QED
    BY <1>1, <1>3, <1>4, LocalStep DEF Moves

\* Taking the guard, dropping it, and steps under it.
LEMMA ObjectGuard ==
    ASSUME NEW O, NEW G, Object(O, G), KernelInv(O, G), NEW p \in Env,
           UNCHANGED <<exec, proc, clk, status, ready, ret, saved, spc, chan>>,
           NEW from, NEW to, At(p, from), Goto(p, to),
           \/ acquire_kspinlock("guard") /\ from \in O /\ to \in Guarded(G)
           \/ release_kspinlock("guard") /\ from \in Guarded(G) /\ to \in O
           \/ /\ UNCHANGED <<ien, ncli, intena, locked, kstate>>
              /\ from \in Guarded(G) /\ to \in Guarded(G)
    PROVE  KernelInv(O, G)' /\ Moves(p, from, to)
<1>1. /\ exec = p /\ pc[p] = from /\ kstate = "ok" /\ pc' = [pc EXCEPT ![p] = to]
    BY DEF At, Goto
<1>2. /\ from \in O => CpuIs(0, 0, 0, 1)
      /\ from \in Guarded(G) => CpuIs(0, 1, 1, 0) /\ intena = 1
    BY <1>1, CpuAt DEF Open
<1>3. /\ to \in AllPoints(O, G) /\ to \notin HandlerPoints /\ from \notin HandlerPoints
      /\ to \in O => to \in Open(O)
    BY PointSets DEF Open
<1>4. LocalTo(p, to, O, G)
  <2>1. /\ pc \in [Env -> AllPoints(O, G)] /\ ncli \in Nat /\ intena \in Bit /\ clk \in Bit
        /\ locked \in [SpinLocks -> Bit] /\ ien \in Bit
      BY DEF KernelInv, TypeInv, KernelTypeOK
  <2>2. pc'[p] = to
      BY <1>1, <2>1
  <2>3. /\ kstate' = kstate /\ ien' \in Bit /\ ncli' \in Nat /\ intena' \in Bit
        /\ locked' \in [SpinLocks -> Bit]
        /\ \/ to \in Guarded(G) /\ CpuIs(0, 1, 1, 0)' /\ intena' = 1
           \/ to \in O /\ CpuIs(0, 0, 0, 1)'
    <3>1. CASE acquire_kspinlock("guard") /\ from \in O /\ to \in Guarded(G)
        BY <3>1, <1>1, <1>2, <2>1 DEF acquire_kspinlock, pushcli, PanicUnless, CpuIs, Bit,
           SpinLocks
    <3>2. CASE release_kspinlock("guard") /\ from \in Guarded(G) /\ to \in O
        BY <3>2, <1>1, <1>2, <2>1 DEF release_kspinlock, popcli, PanicUnless, CpuIs, Bit,
           SpinLocks
    <3>3. CASE /\ UNCHANGED <<ien, ncli, intena, locked, kstate>>
               /\ from \in Guarded(G) /\ to \in Guarded(G)
        BY <3>3, <1>1, <1>2, <2>1 DEF CpuIs, Bit
    <3>4. QED
        BY <3>1, <3>2, <3>3
  <2>4. QED
      BY <1>1, <1>3, <2>1, <2>2, <2>3 DEF LocalTo, RunningCpu
<1>5. QED
    BY <1>1, <1>3, <1>4, LocalStep DEF Moves

-----------------------------------------------------------------------------
(* The channel.                                                            *)

\* The steps of sleep and wakeup_all around the move between the queues.
LEMMA ChannelLocal ==
    ASSUME NEW O, NEW G, Object(O, G), KernelInv(O, G), NEW p \in Env, NEW to \in G,
           NEW from, NEW l,
           \/ sleep_acquire(p) /\ from = "sleep_acquire" /\ l = "sleep_unguard"
           \/ sleep_unguard(p) /\ from = "sleep_unguard" /\ l = "sleep_sched"
           \/ sleep_reguard(p) /\ from = "sleep_reguard" /\ l = "sleep_release"
           \/ sleep_release(p, to) /\ from = "sleep_release" /\ l = to
           \/ /\ wakeup_acquire(p, "wakeup_all", "wakeup_all_move")
              /\ from = "wakeup_all" /\ l = "wakeup_all_move"
           \/ wakeup_release(p, to) /\ from = "wakeup_release" /\ l = to
    PROVE  KernelInv(O, G)' /\ Moves(p, from, l)
<1>1. /\ exec = p /\ pc[p] = from /\ kstate = "ok" /\ pc' = [pc EXCEPT ![p] = l]
      /\ UNCHANGED <<exec, proc, clk, status, ready, ret, saved, spc, chan>>
    BY DEF sleep_acquire, sleep_unguard, sleep_reguard, sleep_release, wakeup_acquire,
       wakeup_release, At, Goto
<1>2. /\ from \in {"sleep_acquire", "wakeup_all"} => CpuIs(0, 1, 1, 0) /\ intena = 1
      /\ from = "sleep_reguard" => CpuIs(1, 0, 1, 0) /\ intena = 1
      /\ from \in BothPoints => CpuIs(1, 1, 2, 0) /\ intena = 1
    BY <1>1, CpuAt DEF Guarded, QueuePoints
<1>3. /\ from \in SleepPoints \union WakeupPoints
      /\ l \in SleepPoints \union WakeupPoints \union Guarded(G)
    BY DEF SleepPoints, WakeupPoints, Guarded
<1>4. l \in AllPoints(O, G) /\ l \notin HandlerPoints /\ from \notin HandlerPoints
    BY <1>3, PointSets
<1>5. LocalTo(p, l, O, G)
  <2>1. /\ pc \in [Env -> AllPoints(O, G)] /\ ncli \in Nat /\ intena \in Bit /\ clk \in Bit
        /\ locked \in [SpinLocks -> Bit] /\ ien \in Bit
      BY DEF KernelInv, TypeInv, KernelTypeOK
  <2>2. pc'[p] = l
      BY <1>1, <2>1
  <2>3. /\ kstate' = kstate /\ ien' \in Bit /\ ncli' \in Nat /\ intena' \in Bit
        /\ locked' \in [SpinLocks -> Bit] /\ intena' = 1
        /\ \/ l \in QueuePoints /\ CpuIs(1, 0, 1, 0)'
           \/ l \in Guarded(G) /\ CpuIs(0, 1, 1, 0)'
           \/ l \in BothPoints /\ CpuIs(1, 1, 2, 0)'
    <3> USE <1>1, <1>2, <2>1 DEF PanicUnless, CpuIs, Bit, SpinLocks
    <3>1. CASE sleep_acquire(p) /\ from = "sleep_acquire" /\ l = "sleep_unguard"
        BY <3>1 DEF sleep_acquire, acquire_kspinlock, pushcli, BothPoints
    <3>2. CASE sleep_unguard(p) /\ from = "sleep_unguard" /\ l = "sleep_sched"
        BY <3>2 DEF sleep_unguard, release_kspinlock, popcli, BothPoints, QueuePoints
    <3>3. CASE sleep_reguard(p) /\ from = "sleep_reguard" /\ l = "sleep_release"
        BY <3>3 DEF sleep_reguard, acquire_kspinlock, pushcli, BothPoints
    <3>4. CASE sleep_release(p, to) /\ from = "sleep_release" /\ l = to
        BY <3>4 DEF sleep_release, release_kspinlock, popcli, BothPoints, Guarded
    <3>5. CASE /\ wakeup_acquire(p, "wakeup_all", "wakeup_all_move")
               /\ from = "wakeup_all" /\ l = "wakeup_all_move"
        BY <3>5 DEF wakeup_acquire, acquire_kspinlock, pushcli, BothPoints
    <3>6. CASE wakeup_release(p, to) /\ from = "wakeup_release" /\ l = to
        BY <3>6 DEF wakeup_release, release_kspinlock, popcli, BothPoints, Guarded
    <3>7. QED
        BY <3>1, <3>2, <3>3, <3>4, <3>5, <3>6
  <2>4. QED
      BY <1>1, <1>4, <2>1, <2>2, <2>3 DEF LocalTo, RunningCpu
<1>6. QED
    BY <1>1, <1>4, <1>5, LocalStep DEF Moves

-----------------------------------------------------------------------------
(* The steps that change the queues and the statuses.                      *)

\* Giving up the CPU: yield, exit and sleep call sched() with the queues lock
\* held once, and leave the process where Suspended says.
LEMMA GiveUpCpu ==
    ASSUME NEW O, NEW G, Object(O, G), KernelInv(O, G), NEW p \in Env,
           \/ yield_sched(p) /\ UNCHANGED chan
           \/ exit_sched(p) /\ UNCHANGED chan
           \/ sleep_sched(p)
    PROVE  /\ KernelInv(O, G)'
           /\ sleep_sched(p) => /\ Moves(p, "sleep_sched", "sleep_reguard")
                                /\ chan' = Append(chan, p)
           /\ ~sleep_sched(p) => Quiet
<1> USE DEF KernelInv, sched, At, Goto, PanicUnless, NoPanic
<1>1. /\ exec = p /\ pc[p] \in {"yield_sched", "exit_sched", "sleep_sched"}
      /\ proc = p /\ status[p] = "RUNNING" /\ kstate = "ok"
    BY DEF yield_sched, exit_sched, sleep_sched, CpuInv, ReadyDiscipline
<1>2. CpuIs(1, 0, 1, 0) /\ (pc[p] = "yield_sched" => intena = 0)
                        /\ (pc[p] # "yield_sched" => intena = 1)
    BY <1>1, CpuAt DEF QueuePoints
<1>3. /\ exec' = NoEnv /\ spc' = "back" /\ kstate' = "ok"
      /\ UNCHANGED <<proc, ien, clk, ncli, intena, locked, ready, ret>>
      /\ saved' = [saved EXCEPT ![p] = intena]
    BY <1>1, <1>2 DEF yield_sched, exit_sched, sleep_sched, CpuIs
<1>4. PICK s \in {"READY", "EXIT", "BLOCKED"}, l \in {"yield_release", "exited", "sleep_reguard"} :
         /\ status' = [status EXCEPT ![p] = s]
         /\ pc' = [pc EXCEPT ![p] = l]
         /\ \/ pc[p] = "yield_sched" /\ s = "READY" /\ l = "yield_release" /\ chan' = chan
            \/ pc[p] = "exit_sched" /\ s = "EXIT" /\ l = "exited" /\ chan' = chan
            \/ /\ pc[p] = "sleep_sched" /\ s = "BLOCKED" /\ l = "sleep_reguard"
               /\ chan' = Append(chan, p)
    BY DEF yield_sched, exit_sched, sleep_sched, enqueue
<1>5. /\ chan \in Seq(Env) /\ p \notin Range(chan) /\ IsInjective(chan)
      /\ ready \in Seq(Env) /\ p \notin Range(ready) /\ IsInjective(ready)
    BY <1>1 DEF TypeInv, KernelTypeOK, ReadyDiscipline, ChannelDiscipline
<1>6. /\ Append(chan, p) \in Seq(Env) /\ Range(Append(chan, p)) = Range(chan) \union {p}
      /\ IsInjective(Append(chan, p))
    BY <1>5, AppendLemma
<1>7. /\ pc \in [Env -> AllPoints(O, G)] /\ ret \in [Env -> AllPoints(O, G)]
      /\ status \in [Env -> Status] /\ saved \in [Env -> Bit]
      /\ l \in AllPoints(O, G)
    BY DEF TypeInv, KernelTypeOK, AllPoints, SharedPoints, KernelPoints, HandlerPoints,
       ExitPoints, SleepPoints
<1>8. TypeInv(O, G)'
    BY <1>3, <1>4, <1>6, <1>7 DEF TypeInv, KernelTypeOK, Status, SchedPoints
<1>9. CpuInv(O, G)'
    BY <1>1, <1>2, <1>3, NoEnvAssumption DEF CpuInv, SchedulerCpu, CpuIs
<1>10. SuspendedInv(O)'
  <2>1. ASSUME NEW q \in Env PROVE Suspended(q)'
      BY <1>1, <1>2, <1>3, <1>4, <1>7 DEF SuspendedInv, Suspended
  <2>2. ASSUME NEW q \in Env, pc'[q] \in HandlerPoints PROVE ret'[q] \in Open(O)
      BY <1>1, <1>3, <1>4, <1>7, <2>2 DEF SuspendedInv, HandlerPoints
  <2>3. QED
      BY <2>1, <2>2 DEF SuspendedInv
<1>11. ReadyDiscipline'
    BY <1>1, <1>3, <1>4, <1>5, <1>7, NoEnvAssumption DEF ReadyDiscipline
<1>12. ChannelDiscipline'
    BY <1>1, <1>4, <1>5, <1>6, <1>7 DEF ChannelDiscipline
<1>13. /\ \A q \in Env : q # p => Point(q)' = Point(q)
       /\ pc[p] = "yield_sched" => Point(p)' = Point(p)
       /\ pc[p] = "exit_sched" => Point(p) = "exit_sched" /\ Point(p)' = "exited"
       /\ pc[p] = "sleep_sched" => Point(p) = "sleep_sched" /\ Point(p)' = "sleep_reguard"
    BY <1>3, <1>4, <1>7 DEF Point, HandlerPoints
<1>14. ASSUME sleep_sched(p)
       PROVE  Moves(p, "sleep_sched", "sleep_reguard") /\ chan' = Append(chan, p)
    BY <1>4, <1>13, <1>14 DEF sleep_sched, Moves
<1>15. ASSUME ~sleep_sched(p) PROVE Quiet
  <2>1. pc[p] # "sleep_sched"
      BY <1>15 DEF yield_sched, exit_sched
  <2>2. QED
      BY <1>1, <1>13, <2>1 DEF Quiet, PlainPoints, ExitPoints
<1>16. QED
    BY <1>3, <1>8, <1>9, <1>10, <1>11, <1>12, <1>14, <1>15

\* Putting a NEW process q into the ready queue, from the prompt or by the
\* running process; sched_run_env does nothing with one that is not NEW.
LEMMA RunStep ==
    ASSUME NEW O, NEW G, Object(O, G), KernelInv(O, G), NEW p \in Env, NEW q \in Env,
           UNCHANGED chan, RunFromPrompt(q) \/ run_insert(p, q)
    PROVE  KernelInv(O, G)' /\ Quiet
<1> USE DEF KernelInv, At, SchedAt, Goto, PanicUnless, NoPanic, sched_insert_ready, enqueue
<1>1. /\ pc \in [Env -> AllPoints(O, G)] /\ ret \in [Env -> AllPoints(O, G)]
      /\ status \in [Env -> Status] /\ ready \in Seq(Env)
      /\ "run_release" \in AllPoints(O, G) /\ "READY" \in Status /\ "sti" \in SchedPoints
    BY DEF TypeInv, KernelTypeOK, AllPoints, SharedPoints, KernelPoints, RunPoints, Status,
       SchedPoints
<1>2. /\ UNCHANGED <<exec, ien, clk, ncli, intena, locked, ret, saved, chan>>
      /\ proc' = proc
      /\ \/ exec = NoEnv /\ spc = "prompt" /\ spc' = "sti" /\ pc' = pc /\ status[q] = "NEW"
         \/ /\ exec = p /\ spc' = spc /\ pc[p] = "run_insert"
            /\ pc' = [pc EXCEPT ![p] = "run_release"]
    BY DEF RunFromPrompt, run_insert, CpuInv, SchedulerCpu
<1>3. /\ exec = p => CpuIs(1, 0, 1, 0) /\ intena = 1
      /\ exec = NoEnv => CpuIs(0, 0, 0, 0) /\ proc = NoEnv /\ clk = 0
    BY <1>2, CpuAt, NoEnvAssumption DEF QueuePoints, CpuInv, SchedulerCpu
<1>4. kstate' = kstate
    BY <1>2, <1>3, NoEnvAssumption DEF RunFromPrompt, run_insert, CpuIs
<1>5. /\ \A x \in Env : x # p => Point(x)' = Point(x)
      /\ exec = NoEnv => Point(p)' = Point(p)
      /\ exec = p => Point(p) = "run_insert" /\ Point(p)' = "run_release"
    BY <1>1, <1>2, NoEnvAssumption DEF Point, HandlerPoints
<1>6. Quiet
    BY <1>2, <1>5 DEF Quiet, PlainPoints, RunPoints
<1>7. CASE status[q] # "NEW"
  <2>1. /\ exec = p /\ pc[p] = "run_insert" /\ pc' = [pc EXCEPT ![p] = "run_release"]
        /\ UNCHANGED <<status, ready, ret, spc>> /\ pc'[p] = "run_release"
      BY <1>1, <1>2, <1>7, NoEnvAssumption DEF run_insert, RunFromPrompt
  <2>2. RunningCpu(p, O, G)'
      BY <1>2, <1>3, <2>1 DEF RunningCpu, CpuIs, QueuePoints
  <2>3. LocalTo(p, "run_release", O, G)
      BY <1>1, <1>2, <1>4, <2>1, <2>2 DEF LocalTo, TypeInv, KernelTypeOK
  <2>4. "run_release" \notin HandlerPoints
      BY DEF HandlerPoints
  <2>5. QED
      BY <1>6, <2>1, <2>3, <2>4, LocalStep
<1>8. CASE status[q] = "NEW"
  <2>1. q \notin Range(ready) /\ IsInjective(ready) /\ q \notin Range(chan) /\ exec # q
      BY <1>8 DEF ReadyDiscipline, ChannelDiscipline
  <2>2. q # proc
      BY <1>2, <1>3, <2>1, NoEnvAssumption DEF CpuInv
  <2>3. status' = [status EXCEPT ![q] = "READY"] /\ ready' = Append(ready, q)
      BY <1>8 DEF RunFromPrompt, run_insert
  <2>4. /\ Append(ready, q) \in Seq(Env) /\ Range(Append(ready, q)) = Range(ready) \union {q}
        /\ IsInjective(Append(ready, q))
      BY <1>1, <2>1, AppendLemma
  <2>5. TypeInv(O, G)' /\ NoPanic'
      BY <1>1, <1>2, <1>4, <2>3, <2>4 DEF TypeInv, KernelTypeOK
  <2>6. CpuInv(O, G)'
    <3>1. CASE exec = NoEnv
        BY <3>1, <1>2, <1>3, NoEnvAssumption DEF CpuInv, SchedulerCpu, CpuIs
    <3>2. CASE exec = p
      <4>1. RunningCpu(p, O, G)'
          BY <3>2, <1>1, <1>2, <1>3, NoEnvAssumption DEF RunningCpu, CpuIs, QueuePoints
      <4>2. QED
          BY <3>2, <4>1, <1>2, NoEnvAssumption DEF CpuInv
    <3>3. QED
        BY <3>1, <3>2, <1>2
  <2>7. SuspendedInv(O)'
      BY <1>1, <1>2, <1>8, <2>1, <2>3, NoEnvAssumption DEF SuspendedInv, Suspended, HandlerPoints
  <2>8. ReadyDiscipline' /\ ChannelDiscipline'
      BY <1>1, <1>2, <1>8, <2>1, <2>2, <2>3, <2>4 DEF ReadyDiscipline, ChannelDiscipline
  <2>9. QED
      BY <1>6, <2>5, <2>6, <2>7, <2>8
<1>9. QED
    BY <1>7, <1>8

\* The loop of wakeup_all: the sleepers move behind the ready processes.
LEMMA WakeupStep ==
    ASSUME NEW O, NEW G, Object(O, G), KernelInv(O, G), NEW p \in Env, wakeup_all_move(p)
    PROVE  /\ KernelInv(O, G)' /\ Moves(p, "wakeup_all_move", "wakeup_release")
           /\ chan' = <<>>
<1> USE DEF KernelInv, At, Goto, PanicUnless, NoPanic
<1>1. /\ exec = p /\ pc[p] = "wakeup_all_move" /\ proc = p /\ status[p] = "RUNNING"
      /\ pc' = [pc EXCEPT ![p] = "wakeup_release"]
      /\ chan' = <<>> /\ ready' = ready \o chan
      /\ UNCHANGED <<exec, proc, ien, clk, ncli, intena, locked, ret, saved, spc>>
    BY DEF wakeup_all_move, CpuInv, ReadyDiscipline
<1>2. CpuIs(1, 1, 2, 0) /\ intena = 1
    BY <1>1, CpuAt DEF BothPoints
<1>3. kstate' = "ok"
    BY <1>2 DEF wakeup_all_move, CpuIs
<1>4. /\ pc \in [Env -> AllPoints(O, G)] /\ ret \in [Env -> AllPoints(O, G)]
      /\ status \in [Env -> Status] /\ ready \in Seq(Env) /\ chan \in Seq(Env)
      /\ "wakeup_release" \in AllPoints(O, G) /\ "READY" \in Status
    BY DEF TypeInv, KernelTypeOK, AllPoints, SharedPoints, WakeupPoints, Status
<1>5. \A q \in Env : status'[q] = IF q \in Range(chan) THEN "READY" ELSE status[q]
    BY <1>4 DEF wakeup_all_move, Range
<1>6. IsInjective(ready) /\ IsInjective(chan) /\ Range(ready) \intersect Range(chan) = {}
  <2>1. Range(chan) \subseteq Env
      BY <1>4 DEF Range
  <2>2. QED
      BY <2>1 DEF ReadyDiscipline, ChannelDiscipline
<1>7. /\ ready \o chan \in Seq(Env)
      /\ Range(ready \o chan) = Range(ready) \union Range(chan)
      /\ IsInjective(ready \o chan)
    BY <1>4, <1>6, ConcatLemma
<1>8. TypeInv(O, G)'
  <2>1. status' \in [Env -> Status]
      BY <1>4, <1>5 DEF wakeup_all_move
  <2>2. QED
      BY <2>1, <1>1, <1>3, <1>4, <1>7 DEF TypeInv, KernelTypeOK
<1>9. CpuInv(O, G)'
    BY <1>1, <1>2, <1>4, NoEnvAssumption DEF CpuInv, RunningCpu, CpuIs, BothPoints
<1>10. SuspendedInv(O)'
    BY <1>1, <1>4, <1>5 DEF SuspendedInv, Suspended, ChannelDiscipline, HandlerPoints
<1>11. ReadyDiscipline'
    BY <1>1, <1>5, <1>7 DEF ReadyDiscipline, ChannelDiscipline
<1>12. ChannelDiscipline'
    BY <1>1, <1>5, EmptyLemma DEF ChannelDiscipline
<1>13. Moves(p, "wakeup_all_move", "wakeup_release")
    BY <1>1, <1>4 DEF Moves, Point, HandlerPoints
<1>14. QED
    BY <1>1, <1>3, <1>8, <1>9, <1>10, <1>11, <1>12, <1>13

-----------------------------------------------------------------------------
(* The scheduler.                                                          *)

\* Steps of the scheduler that dispatch nobody: only the CPU state, c->proc
\* and the scheduler's own control point change.
LEMMA SchedulerLocal ==
    ASSUME NEW O, NEW G, Object(O, G), KernelInv(O, G), UNCHANGED chan,
           \/ fos_scheduler_sti \/ fos_scheduler_acquire \/ fos_scheduler_back
           \/ fos_scheduler_release \/ get_into_prompt \/ PromptIdle
    PROVE  KernelInv(O, G)' /\ Quiet
<1> USE DEF KernelInv, SchedAt, PanicUnless, NoPanic
<1>1. /\ exec = NoEnv /\ UNCHANGED <<exec, status, ready, pc, ret, saved, chan>>
    BY DEF fos_scheduler_sti, fos_scheduler_acquire, fos_scheduler_back,
           fos_scheduler_release, get_into_prompt, PromptIdle, kernelVars
<1>2. /\ exec' = NoEnv /\ SchedulerCpu' /\ kstate' = "ok"
      /\ proc' = (IF proc # NoEnv /\ spc = "back" /\ status[proc] # "READY" THEN NoEnv ELSE proc)
      /\ ien' \in Bit /\ clk' \in Bit /\ ncli' \in Nat /\ intena' \in Bit
      /\ locked' \in [SpinLocks -> Bit] /\ spc' \in SchedPoints
  <2> USE <1>1 DEF TypeInv, KernelTypeOK, CpuInv, SchedulerCpu, CpuIs, Bit, SpinLocks,
              SchedPoints
  <2>1. CASE fos_scheduler_sti
      BY <2>1 DEF fos_scheduler_sti
  <2>2. CASE fos_scheduler_acquire
      BY <2>2 DEF fos_scheduler_acquire, acquire_kspinlock, pushcli
  <2>3. CASE fos_scheduler_back
      BY <2>3 DEF fos_scheduler_back, ReadyDiscipline
  <2>4. CASE fos_scheduler_release
      BY <2>4 DEF fos_scheduler_release, release_kspinlock, popcli
  <2>5. CASE get_into_prompt
      BY <2>5 DEF get_into_prompt
  <2>6. CASE PromptIdle
      BY <2>6 DEF PromptIdle, kernelVars
  <2>7. QED
      BY <2>1, <2>2, <2>3, <2>4, <2>5, <2>6
<1>3. TypeInv(O, G)'
    BY <1>1, <1>2 DEF TypeInv, KernelTypeOK
<1>4. CpuInv(O, G)'
    BY <1>2, NoEnvAssumption DEF CpuInv
<1>5. SuspendedInv(O)'
    BY <1>1 DEF SuspendedInv, Suspended
<1>6. ReadyDiscipline' /\ ChannelDiscipline'
    BY <1>1, <1>2 DEF ReadyDiscipline, ChannelDiscipline
<1>7. Quiet
    BY <1>1 DEF Quiet, Point
<1>8. QED
    BY <1>2, <1>3, <1>4, <1>5, <1>6, <1>7

\* A dispatch: the process that came back READY is queued again and the head
\* of the queue resumes where it was suspended.
LEMMA Dispatch ==
    ASSUME NEW O, NEW G, Object(O, G), KernelInv(O, G), UNCHANGED chan, fos_scheduler_next
    PROVE  KernelInv(O, G)' /\ Quiet
<1> DEFINE q == fos_scheduler_RR(ready)
<1> USE DEF KernelInv, SchedAt, PanicUnless, NoPanic
<1>1. /\ exec = NoEnv /\ spc = "next" /\ CpuIs(1, 0, 1, 0) /\ clk = 0
      /\ proc # NoEnv => proc \in Env /\ status[proc] = "READY"
      /\ kstate' = "ok" /\ clk' = 0
      /\ UNCHANGED <<ien, ncli, locked, pc, ret, saved, chan>>
    BY DEF fos_scheduler_next, CpuInv, SchedulerCpu, CpuIs, TypeInv, KernelTypeOK
<1>2. /\ q \in Seq(Env) /\ IsInjective(q)
      /\ \A x \in Env : x \in Range(q) <=> status[x] = "READY"
  <2>1. ready \in Seq(Env) /\ IsInjective(ready)
      BY DEF TypeInv, KernelTypeOK, ReadyDiscipline
  <2>2. CASE proc = NoEnv
      BY <2>1, <2>2, NoEnvAssumption DEF fos_scheduler_RR, ReadyDiscipline
  <2>3. CASE proc # NoEnv
    <3>1. proc \in Env /\ proc \notin Range(ready)
        BY <1>1, <2>3 DEF ReadyDiscipline
    <3>2. q = Append(ready, proc)
        BY <2>3 DEF fos_scheduler_RR, enqueue
    <3>3. QED
        BY <2>1, <3>1, <3>2, <1>1, <2>3, AppendLemma DEF ReadyDiscipline
  <2>4. QED
      BY <2>2, <2>3
<1>3. Quiet
    BY <1>1 DEF Quiet, Point
<1>4. CASE q = <<>>
  <2>1. /\ ready' = <<>> /\ spc' = "release" /\ UNCHANGED <<exec, proc, intena, status>>
      BY <1>4 DEF fos_scheduler_next
  <2>2. proc = NoEnv
    <3>1. proc # NoEnv => proc \in Range(q)
        BY <1>1, <1>2
    <3>2. QED
        BY <3>1, <1>4, EmptyLemma
  <2>3. ready' = ready
      BY <1>4, <2>1, <2>2 DEF fos_scheduler_RR
  <2>4. TypeInv(O, G)'
      BY <1>1, <2>1, <2>3 DEF TypeInv, KernelTypeOK, SchedPoints, Bit
  <2>5. CpuInv(O, G)'
      BY <1>1, <2>1, <2>2, NoEnvAssumption DEF CpuInv, SchedulerCpu, CpuIs
  <2>6. SuspendedInv(O)'
      BY <1>1, <2>1 DEF SuspendedInv, Suspended
  <2>7. ReadyDiscipline' /\ ChannelDiscipline'
      BY <1>1, <2>1, <2>3 DEF ReadyDiscipline, ChannelDiscipline
  <2>8. QED
      BY <1>1, <1>3, <2>4, <2>5, <2>6, <2>7
<1>5. CASE q # <<>>
  <2> DEFINE h == Head(q)
  <2>1. /\ h \in Env /\ h \in Range(q) /\ Tail(q) \in Seq(Env)
        /\ IsInjective(Tail(q)) /\ Range(Tail(q)) = Range(q) \ {h}
      BY <1>2, <1>5, TailLemma
  <2>2. /\ ready' = Tail(q) /\ proc' = h /\ exec' = h /\ spc' = "switched"
        /\ status' = [status EXCEPT ![h] = "RUNNING"]
        /\ intena' = IF pc[h] = "env_start" THEN intena ELSE saved[h]
      BY <1>5 DEF fos_scheduler_next, context_switch
  <2>3. status[h] = "READY" /\ h # NoEnv
      BY <1>2, <2>1, NoEnvAssumption
  <2>4. \/ pc[h] = "env_start"
        \/ pc[h] = "yield_release" /\ saved[h] = 0
        \/ pc[h] = "sleep_reguard" /\ saved[h] = 1
      BY <1>1, <2>1, <2>3 DEF SuspendedInv, Suspended
  <2>5. /\ status \in [Env -> Status] /\ saved \in [Env -> Bit]
      BY DEF TypeInv, KernelTypeOK
  <2>6. TypeInv(O, G)'
      BY <1>1, <2>1, <2>2, <2>5 DEF TypeInv, KernelTypeOK, SchedPoints, Status, Bit
  <2>7. CpuInv(O, G)'
      BY <1>1, <2>1, <2>2, <2>3, <2>4 DEF CpuInv, RunningCpu, CpuIs, QueuePoints
  <2>8. SuspendedInv(O)'
      BY <1>1, <2>1, <2>2, <2>5, NoEnvAssumption DEF SuspendedInv, Suspended
  <2>9. ReadyDiscipline'
      BY <1>1, <1>2, <2>1, <2>2, <2>3, <2>5, NoEnvAssumption DEF ReadyDiscipline
  <2>10. ChannelDiscipline'
      BY <1>1, <2>1, <2>2, <2>3, <2>5 DEF ChannelDiscipline
  <2>11. QED
      BY <1>1, <1>3, <2>6, <2>7, <2>8, <2>9, <2>10
<1>6. QED
    BY <1>4, <1>5

-----------------------------------------------------------------------------
(* What an object built on the channel may rely on.                        *)

\* The invariant holds at the command prompt, before anything ran, and every
\* process is then outside the object.
LEMMA KernelInvInit ==
    ASSUME NEW O, NEW G, KernelInit, chan = <<>>
    PROVE  KernelInv(O, G) /\ \A p \in Env : Point(p) = "env_start"
<1> USE DEF KernelInit
<1>1. TypeInv(O, G)
    BY DEF TypeInv, KernelTypeOK, AllPoints, SharedPoints, KernelPoints, StartPoints,
       SchedPoints, Status, Bit, SpinLocks
<1>2. NoPanic /\ CpuInv(O, G)
    BY NoEnvAssumption DEF NoPanic, CpuInv, SchedulerCpu, CpuIs, SpinLocks
<1>3. SuspendedInv(O)
    BY DEF SuspendedInv, Suspended, HandlerPoints
<1>4. ReadyDiscipline /\ ChannelDiscipline
    BY NoEnvAssumption, EmptyLemma DEF ReadyDiscipline, ChannelDiscipline
<1>5. QED
    BY <1>1, <1>2, <1>3, <1>4 DEF KernelInv, Point, HandlerPoints

\* The steps of the kernel that are not the object's: the scheduler, the prompt,
\* the clock interrupt and the system calls that run and exit programs.
OtherStep ==
    \/ SchedulerStep \/ PromptIdle
    \/ \E p \in Env : \/ RunFromPrompt(p) \/ clock_interrupt_handler(p) \/ HandlerStep(p)
                      \/ KernelStep(p) \/ KernelCall(p)

\* They preserve the invariant, and nobody enters or leaves the object's code.
LEMMA OtherSteps ==
    ASSUME NEW O, NEW G, Object(O, G), KernelInv(O, G), UNCHANGED chan, OtherStep
    PROVE  KernelInv(O, G)' /\ Quiet
<1>1. CASE SchedulerStep \/ PromptIdle
    BY <1>1, SchedulerLocal, Dispatch DEF SchedulerStep
<1>2. ASSUME NEW p \in Env, RunFromPrompt(p) \/ \E q \in Env : run_insert(p, q)
      PROVE  KernelInv(O, G)' /\ Quiet
    BY <1>2, RunStep
<1>3. ASSUME NEW p \in Env, yield_sched(p) \/ exit_sched(p)
      PROVE  KernelInv(O, G)' /\ Quiet
  <2>1. ~sleep_sched(p)
      BY <1>3 DEF yield_sched, exit_sched, sleep_sched, At
  <2>2. QED
      BY <1>3, <2>1, GiveUpCpu
<1>4. ASSUME NEW p \in Env,
             \/ clock_interrupt_handler(p)
             \/ yield_acquire(p) \/ yield_release(p) \/ irq_return(p)
             \/ env_start(p) \/ trapret(p)
             \/ run_acquire(p) \/ run_release(p)
             \/ SyscallReturn(p, "run_return", "user")
             \/ exit_acquire(p) \/ KernelCall(p)
      PROVE  KernelInv(O, G)' /\ Quiet
    BY <1>4, KernelLocal
<1>5. QED
    BY <1>1, <1>2, <1>3, <1>4 DEF OtherStep, HandlerStep, KernelStep

\* sleep takes its caller from sleep_acquire to the object's point to, and adds
\* it to the channel on the way.
LEMMA SleepSteps ==
    ASSUME NEW O, NEW G, Object(O, G), KernelInv(O, G), NEW p \in Env, NEW to \in G,
           sleep(p, to)
    PROVE  /\ KernelInv(O, G)'
           /\ \/ Moves(p, "sleep_acquire", "sleep_unguard") /\ chan' = chan
              \/ Moves(p, "sleep_unguard", "sleep_sched") /\ chan' = chan
              \/ Moves(p, "sleep_sched", "sleep_reguard") /\ chan' = Append(chan, p)
              \/ Moves(p, "sleep_reguard", "sleep_release") /\ chan' = chan
              \/ Moves(p, "sleep_release", to) /\ chan' = chan
<1>1. CASE sleep_acquire(p)
    BY <1>1, ChannelLocal DEF sleep_acquire
<1>2. CASE sleep_unguard(p)
    BY <1>2, ChannelLocal DEF sleep_unguard
<1>3. CASE sleep_sched(p)
    BY <1>3, GiveUpCpu
<1>4. CASE sleep_reguard(p)
    BY <1>4, ChannelLocal DEF sleep_reguard
<1>5. CASE sleep_release(p, to)
    BY <1>5, ChannelLocal DEF sleep_release
<1>6. QED
    BY <1>1, <1>2, <1>3, <1>4, <1>5 DEF sleep

\* wakeup_all takes its caller from wakeup_all to the object's point to, and
\* empties the channel on the way.
LEMMA WakeupSteps ==
    ASSUME NEW O, NEW G, Object(O, G), KernelInv(O, G), NEW p \in Env, NEW to \in G,
           wakeup_all(p, to)
    PROVE  /\ KernelInv(O, G)'
           /\ \/ Moves(p, "wakeup_all", "wakeup_all_move") /\ chan' = chan
              \/ Moves(p, "wakeup_all_move", "wakeup_release") /\ chan' = <<>>
              \/ Moves(p, "wakeup_release", to) /\ chan' = chan
<1>1. CASE wakeup_acquire(p, "wakeup_all", "wakeup_all_move")
    BY <1>1, ChannelLocal DEF wakeup_acquire
<1>2. CASE wakeup_all_move(p)
    BY <1>2, WakeupStep
<1>3. CASE wakeup_release(p, to)
    BY <1>3, ChannelLocal DEF wakeup_release
<1>4. QED
    BY <1>1, <1>2, <1>3 DEF wakeup_all

\* At a point that holds a spinlock, a process is on the CPU: the others are
\* outside every spinlock, asleep, not started or gone.
LEMMA OnlyOneInside ==
    ASSUME NEW O, NEW G, Object(O, G), KernelInv(O, G), NEW p \in Env,
           Point(p) \notin Open(O) \union {"env_start", "sleep_reguard", "exited"}
    PROVE  /\ exec = p /\ pc[p] = Point(p)
           /\ Point(p) \in Guarded(G) \union BothPoints => locked["guard"] = 1
<1>1. pc[p] \notin HandlerPoints /\ pc[p] = Point(p)
    BY DEF Point, KernelInv, SuspendedInv
<1>2. exec = p
    BY <1>1 DEF KernelInv, SuspendedInv, Suspended, HandlerPoints
<1>3. QED
    BY <1>1, <1>2, CpuAt DEF CpuIs

\* Interrupts are never on inside a spinlock, never off outside one, and the
\* clock never interrupts the scheduler.
LEMMA Interrupts ==
    ASSUME NEW O, NEW G, Object(O, G), KernelInv(O, G)
    PROVE  InterruptDiscipline(Open(O)) /\ NoClockInScheduler
<1>1. ASSUME ien = 1 PROVE ncli = 0 /\ \A lk \in SpinLocks : locked[lk] = 0
  <2>1. exec \in Env \union {NoEnv}
      BY DEF KernelInv, TypeInv, KernelTypeOK
  <2>2. CASE exec = NoEnv
      BY <1>1, <2>2 DEF KernelInv, CpuInv, SchedulerCpu, CpuIs, SpinLocks
  <2>3. CASE exec \in Env
      BY <1>1, <2>3 DEF KernelInv, CpuInv, RunningCpu, CpuIs, SpinLocks
  <2>4. QED
      BY <2>1, <2>2, <2>3
<1>2. ASSUME NEW p \in Env, exec = p, pc[p] \in Open(O) PROVE ien = 1
    BY <1>2, CpuAt DEF CpuIs
<1>3. NoClockInScheduler
    BY DEF KernelInv, CpuInv, SchedulerCpu, CpuIs, NoClockInScheduler
<1>4. QED
    BY <1>1, <1>2, <1>3 DEF InterruptDiscipline

-----------------------------------------------------------------------------
(* The sleeplock: an inductive invariant, and what follows from it.        *)

\* The lock's own control points: outside every spinlock, and with the guard
\* held.
CallPoints  == {"acquire", "acquire_return", "release", "release_return"}
GuardPoints == {"acquire_test", "acquire_unguard", "release_test", "release_clear",
                "release_unguard"}

\* Sleepers wait for a lock that is held, and a releasing process has emptied
\* the channel by the time it clears the lock word.
SleepersInv ==
    /\ chan # <<>> => held = 1
    /\ \A p \in Env :
          /\ Point(p) \in {"sleep_acquire", "sleep_unguard", "sleep_sched"} => held = 1
          /\ Point(p) \in {"wakeup_release", "release_clear"} => chan = <<>>

Inv ==
    /\ KernelInv(CallPoints, GuardPoints)
    /\ held \in Bit
    /\ pid \in Env \union {NoEnv}
    /\ MutualExclusion
    /\ SleepersInv

-----------------------------------------------------------------------------
(* What a step does to the control points, the channel and the lock word.  *)

AcquireMove(p) ==
    \/ Moves(p, "user", "acquire") /\ Idle
    \/ Moves(p, "acquire", "acquire_test") /\ Idle
    \/ Moves(p, "acquire_test", "sleep_acquire") /\ held = 1 /\ Idle
    \/ Moves(p, "sleep_acquire", "sleep_unguard") /\ Idle
    \/ Moves(p, "sleep_unguard", "sleep_sched") /\ Idle
    \/ /\ Moves(p, "sleep_sched", "sleep_reguard")
       /\ chan' = Append(chan, p) /\ UNCHANGED <<held, pid>>
    \/ Moves(p, "sleep_reguard", "sleep_release") /\ Idle
    \/ Moves(p, "sleep_release", "acquire_test") /\ Idle

\* The test finds the lock free.
TakeMove(p) ==
    /\ Moves(p, "acquire_test", "acquire_unguard")
    /\ held = 0 /\ held' = 1 /\ UNCHANGED <<chan, pid>>

HoldMove(p) ==
    \/ Moves(p, "acquire_unguard", "acquire_return") /\ Idle
    \/ Moves(p, "acquire_return", "cs") /\ Idle
    \/ Moves(p, "cs", "release") /\ Idle
    \/ Moves(p, "release", "release_test") /\ Idle
    \/ Moves(p, "release_test", "release_clear") /\ chan = <<>> /\ Idle
    \/ Moves(p, "release_test", "wakeup_all") /\ Idle
    \/ Moves(p, "wakeup_all", "wakeup_all_move") /\ Idle
    \/ /\ Moves(p, "wakeup_all_move", "wakeup_release")
       /\ chan' = <<>> /\ UNCHANGED <<held, pid>>
    \/ Moves(p, "wakeup_release", "release_clear") /\ Idle

\* The lock word is cleared.
ClearMove(p) ==
    /\ Moves(p, "release_clear", "release_unguard")
    /\ held' = 0 /\ UNCHANGED <<chan, pid>>

EndMove(p) ==
    \/ Moves(p, "release_unguard", "release_return") /\ Idle
    \/ Moves(p, "release_return", "user") /\ Idle

Move(p) ==
    AcquireMove(p) \/ TakeMove(p) \/ HoldMove(p) \/ ClearMove(p) \/ EndMove(p)

\* The lock's points are its own.
LEMMA SleeplockPoints ==
    /\ Object(CallPoints, GuardPoints)
    /\ Points = AllPoints(CallPoints, GuardPoints)
    /\ Interruptible = Open(CallPoints)
    /\ GuardPoints \union {"sleep_acquire", "wakeup_all"} \subseteq Guarded(GuardPoints)
BY DEF Object, Points, AllPoints, SharedPoints, CallPoints, GuardPoints, Guarded, AcquirePoints,
   HoldPoints, Interruptible, Open, KernelPoints, UserPoints, StartPoints, RunPoints,
   ExitPoints, HandlerPoints, SleepPoints, WakeupPoints

\* acquire_sleeplock and release_sleeplock outside the channel.
LEMMA SleeplockLocal ==
    ASSUME Inv, NEW p \in Env,
           \/ acquire_guard(p) \/ acquire_test(p) \/ acquire_unguard(p)
           \/ release_guard(p) \/ release_test(p) \/ release_clear(p) \/ release_unguard(p)
    PROVE  KernelInv(CallPoints, GuardPoints)' /\ Move(p)
<1> DEFINE O == CallPoints
           G == GuardPoints
<1>1. Object(O, G) /\ KernelInv(O, G)
    BY SleeplockPoints DEF Inv
<1>2. /\ {"acquire", "acquire_return", "release", "release_return"} \subseteq O
      /\ {"acquire_test", "acquire_unguard", "release_test", "release_clear",
          "release_unguard", "sleep_acquire", "wakeup_all"} \subseteq Guarded(G)
    BY SleeplockPoints DEF CallPoints, GuardPoints
<1> HIDE DEF O, G
<1>3. CASE acquire_guard(p)
  <2>1. KernelInv(O, G)' /\ Moves(p, "acquire", "acquire_test")
      BY <1>1, <1>2, <1>3, ObjectGuard DEF acquire_guard
  <2>2. QED
      BY <1>3, <2>1 DEF acquire_guard, Move, AcquireMove, Idle, O, G
<1>4. CASE acquire_test(p) /\ held = 1 /\ Goto(p, "sleep_acquire") /\ UNCHANGED held
  <2>1. KernelInv(O, G)' /\ Moves(p, "acquire_test", "sleep_acquire")
      BY <1>1, <1>2, <1>4, ObjectGuard DEF acquire_test
  <2>2. QED
      BY <1>4, <2>1 DEF acquire_test, Move, AcquireMove, Idle, O, G
<1>5. CASE acquire_test(p) /\ held = 0 /\ Goto(p, "acquire_unguard") /\ held' = 1
  <2>1. KernelInv(O, G)' /\ Moves(p, "acquire_test", "acquire_unguard")
      BY <1>1, <1>2, <1>5, ObjectGuard DEF acquire_test
  <2>2. QED
      BY <1>5, <2>1 DEF acquire_test, Move, TakeMove, O, G
<1>6. CASE acquire_unguard(p)
  <2>1. KernelInv(O, G)' /\ Moves(p, "acquire_unguard", "acquire_return")
      BY <1>1, <1>2, <1>6, ObjectGuard DEF acquire_unguard
  <2>2. QED
      BY <1>6, <2>1 DEF acquire_unguard, Move, HoldMove, Idle, O, G
<1>7. CASE release_guard(p)
  <2>1. KernelInv(O, G)' /\ Moves(p, "release", "release_test")
      BY <1>1, <1>2, <1>7, ObjectGuard DEF release_guard
  <2>2. QED
      BY <1>7, <2>1 DEF release_guard, Move, HoldMove, Idle, O, G
<1>8. CASE release_test(p) /\ chan = <<>>
  <2>1. KernelInv(O, G)' /\ Moves(p, "release_test", "release_clear")
      BY <1>1, <1>2, <1>8, ObjectGuard DEF release_test
  <2>2. QED
      BY <1>8, <2>1 DEF release_test, Move, HoldMove, Idle, O, G
<1>9. CASE release_test(p) /\ chan # <<>>
  <2>1. KernelInv(O, G)' /\ Moves(p, "release_test", "wakeup_all")
      BY <1>1, <1>2, <1>9, ObjectGuard DEF release_test
  <2>2. QED
      BY <1>9, <2>1 DEF release_test, Move, HoldMove, Idle, O, G
<1>10. CASE release_clear(p)
  <2>1. KernelInv(O, G)' /\ Moves(p, "release_clear", "release_unguard")
      BY <1>1, <1>2, <1>10, ObjectGuard DEF release_clear
  <2>2. QED
      BY <1>10, <2>1 DEF release_clear, Move, ClearMove, O, G
<1>11. CASE release_unguard(p)
  <2>1. KernelInv(O, G)' /\ Moves(p, "release_unguard", "release_return")
      BY <1>1, <1>2, <1>11, ObjectGuard DEF release_unguard
  <2>2. QED
      BY <1>11, <2>1 DEF release_unguard, Move, EndMove, Idle, O, G
<1>12. QED
    BY <1>3, <1>4, <1>5, <1>6, <1>7, <1>8, <1>9, <1>10, <1>11 DEF acquire_test

\* sleep and wakeup_all, called by them.
LEMMA SleeplockChannel ==
    ASSUME Inv, NEW p \in Env, UNCHANGED <<held, pid>>,
           sleep(p, "acquire_test") \/ wakeup_all(p, "release_clear")
    PROVE  KernelInv(CallPoints, GuardPoints)' /\ Move(p)
<1>1. /\ Object(CallPoints, GuardPoints) /\ KernelInv(CallPoints, GuardPoints)
      /\ "acquire_test" \in GuardPoints /\ "release_clear" \in GuardPoints
    BY SleeplockPoints DEF Inv, GuardPoints
<1>2. CASE sleep(p, "acquire_test")
    BY <1>1, <1>2, SleepSteps DEF Move, AcquireMove, Idle
<1>3. CASE wakeup_all(p, "release_clear")
    BY <1>1, <1>3, WakeupSteps DEF Move, HoldMove, Idle
<1>4. QED
    BY <1>2, <1>3

\* The system calls.
LEMMA SleeplockCalls ==
    ASSUME Inv, NEW p \in Env, Idle,
           EnterCall(p) \/ EnterReturn(p) \/ LeaveCall(p) \/ LeaveReturn(p)
    PROVE  KernelInv(CallPoints, GuardPoints)' /\ Move(p)
<1>1. /\ Object(CallPoints, GuardPoints) /\ KernelInv(CallPoints, GuardPoints)
      /\ "acquire" \in CallPoints /\ "acquire_return" \in CallPoints
      /\ "release" \in CallPoints /\ "release_return" \in CallPoints
      /\ "user" \in UserPoints /\ "cs" \in UserPoints
      /\ UNCHANGED chan
    BY SleeplockPoints DEF Inv, CallPoints, UserPoints, Idle
<1>2. CASE EnterCall(p)
    BY <1>1, <1>2, ObjectCall DEF EnterCall, Move, AcquireMove
<1>3. CASE EnterReturn(p)
    BY <1>1, <1>3, ObjectCall DEF EnterReturn, Move, HoldMove
<1>4. CASE LeaveCall(p)
    BY <1>1, <1>4, ObjectCall DEF LeaveCall, Move, HoldMove
<1>5. CASE LeaveReturn(p)
    BY <1>1, <1>5, ObjectCall DEF LeaveReturn, Move, EndMove
<1>6. QED
    BY <1>2, <1>3, <1>4, <1>5

\* Every step is one of these moves, or leaves the lock alone.
LEMMA NextMoves ==
    ASSUME Inv, Next
    PROVE  /\ KernelInv(CallPoints, GuardPoints)'
           /\ \/ Quiet /\ Idle
              \/ \E p \in Env : Move(p)
<1>1. Object(CallPoints, GuardPoints) /\ KernelInv(CallPoints, GuardPoints)
    BY SleeplockPoints DEF Inv
<1>2. CASE OtherStep /\ Idle
    BY <1>1, <1>2, OtherSteps DEF Idle
<1>3. ASSUME NEW p \in Env, acquire_sleeplock(p) \/ release_sleeplock(p)
      PROVE  KernelInv(CallPoints, GuardPoints)' /\ Move(p)
    BY <1>3, SleeplockLocal, SleeplockChannel DEF acquire_sleeplock, release_sleeplock
<1>4. QED
    BY <1>2, <1>3, SleeplockCalls DEF Next, ProcStep, OtherStep

-----------------------------------------------------------------------------
\* The step changes neither the lock word nor who holds the lock or waits for it.
Stays == held' = held /\ \A q \in Env : Mode(q)' = Mode(q)

\* The step changes the mode of no program but p, from m to n.
Turns(p, m, n) ==
    /\ Mode(p) = m /\ Mode(p)' = n
    /\ \A q \in Env : q # p => Mode(q)' = Mode(q)

\* The holder changes exactly twice: when the test in acquire_sleeplock finds
\* the lock free, and when release_sleeplock clears the lock word.
LEMMA ModesNext ==
    ASSUME Inv, Next
    PROVE  \/ Stays
           \/ \E p \in Env :
                \/ Turns(p, "out", "wait") /\ held' = held
                \/ Turns(p, "wait", "in") /\ held = 0 /\ held' = 1
                \/ Turns(p, "in", "out") /\ held = 1 /\ held' = 0
<1>1. CASE Quiet /\ Idle
  <2>1. PlainPoints \intersect (HoldPoints \union AcquirePoints) = {}
      BY DEF PlainPoints, StartPoints, RunPoints, ExitPoints, HoldPoints, AcquirePoints,
         SleepPoints, WakeupPoints
  <2>2. QED
      BY <1>1, <2>1 DEF Quiet, Idle, Stays, Mode, Holds
<1>2. ASSUME NEW p \in Env, Move(p)
      PROVE  \/ Stays
             \/ Turns(p, "out", "wait") /\ held' = held
             \/ Turns(p, "wait", "in") /\ held = 0 /\ held' = 1
             \/ Turns(p, "in", "out") /\ held = 1 /\ held' = 0
  <2> USE DEF Moves, Idle, Stays, Turns, Mode, Holds, HoldPoints, AcquirePoints, SleepPoints,
              WakeupPoints
  <2>1. CASE AcquireMove(p)
      BY <2>1 DEF AcquireMove
  <2>2. CASE TakeMove(p)
      BY <2>2 DEF TakeMove
  <2>3. CASE HoldMove(p)
      BY <2>3 DEF HoldMove
  <2>4. CASE ClearMove(p)
    <3>1. held = 1
        BY <2>4 DEF ClearMove, Inv, MutualExclusion
    <3>2. QED
        BY <2>4, <3>1 DEF ClearMove
  <2>5. CASE EndMove(p)
      BY <2>5 DEF EndMove
  <2>6. QED
      BY <1>2, <2>1, <2>2, <2>3, <2>4, <2>5 DEF Move
<1>3. QED
    BY <1>1, <1>2, NextMoves

\* One process at a time holds the lock.
LEMMA MutexNext ==
    ASSUME Inv, Next
    PROVE  MutualExclusion' /\ held' \in Bit /\ pid' \in Env \union {NoEnv}
<1>1. \A q \in Env : /\ Holds(q) <=> Mode(q) = "in"
                     /\ Holds(q)' <=> Mode(q)' = "in"
    BY DEF Mode
<1>2. MutualExclusion /\ held \in Bit /\ pid \in Env \union {NoEnv}
    BY DEF Inv
<1>3. MutualExclusion' /\ held' \in Bit
  <2>1. CASE Stays
      BY <1>1, <1>2, <2>1 DEF Stays, MutualExclusion
  <2>2. ASSUME NEW p \in Env, Turns(p, "out", "wait"), held' = held
        PROVE  MutualExclusion' /\ held' \in Bit
      BY <1>1, <1>2, <2>2 DEF Turns, MutualExclusion
  <2>3. ASSUME NEW p \in Env, Turns(p, "wait", "in"), held = 0, held' = 1
        PROVE  MutualExclusion' /\ held' \in Bit
      BY <1>1, <1>2, <2>3 DEF Turns, MutualExclusion, Bit
  <2>4. ASSUME NEW p \in Env, Turns(p, "in", "out"), held = 1, held' = 0
        PROVE  MutualExclusion' /\ held' \in Bit
      BY <1>1, <1>2, <2>4 DEF Turns, MutualExclusion, Bit
  <2>5. QED
      BY <2>1, <2>2, <2>3, <2>4, ModesNext
<1>4. pid' = pid
    BY NextMoves DEF Move, AcquireMove, TakeMove, HoldMove, ClearMove, EndMove, Idle
<1>5. QED
    BY <1>2, <1>3, <1>4

\* Who sleeps, or is about to, and what the lock word is.
LEMMA SleepersNext ==
    ASSUME Inv, Next
    PROVE  SleepersInv'
<1> DEFINE Falling  == {"sleep_acquire", "sleep_unguard", "sleep_sched"}
           Clearing == {"wakeup_release", "release_clear"}
<1>1. /\ chan # <<>> => held = 1
      /\ \A p \in Env : /\ Point(p) \in Falling => held = 1
                        /\ Point(p) \in Clearing => chan = <<>>
    BY DEF Inv, SleepersInv
<1>2. SUFFICES /\ chan' # <<>> => held' = 1
               /\ \A p \in Env : /\ Point(p)' \in Falling => held' = 1
                                 /\ Point(p)' \in Clearing => chan' = <<>>
    BY DEF SleepersInv
<1>3. \A q \in Env : Point(q) \in Falling \union Clearing => exec = q
  <2>1. (Falling \union Clearing) \intersect
          (Open(CallPoints) \union {"env_start", "sleep_reguard", "exited"}) = {}
      BY DEF Open, CallPoints, UserPoints
  <2>2. QED
      BY <2>1, OnlyOneInside, SleeplockPoints DEF Inv
<1>4. CASE Quiet /\ Idle
  <2>1. PlainPoints \intersect (Falling \union Clearing) = {}
      BY DEF PlainPoints, StartPoints, RunPoints, ExitPoints
  <2>2. QED
      BY <1>1, <1>4, <2>1 DEF Quiet, Idle
<1>5. ASSUME NEW p \in Env, Move(p)
      PROVE  /\ chan' # <<>> => held' = 1
             /\ \A q \in Env : /\ Point(q)' \in Falling => held' = 1
                               /\ Point(q)' \in Clearing => chan' = <<>>
  <2>1. CASE AcquireMove(p)
    <3>1. CASE /\ Moves(p, "sleep_sched", "sleep_reguard")
               /\ chan' = Append(chan, p) /\ UNCHANGED <<held, pid>>
        BY <1>1, <1>3, <3>1 DEF Moves
    <3>2. CASE \/ Moves(p, "sleep_acquire", "sleep_unguard") /\ Idle
               \/ Moves(p, "sleep_unguard", "sleep_sched") /\ Idle
        BY <1>1, <3>2 DEF Moves, Idle
    <3>3. CASE \/ Moves(p, "user", "acquire") /\ Idle
               \/ Moves(p, "acquire", "acquire_test") /\ Idle
               \/ Moves(p, "acquire_test", "sleep_acquire") /\ held = 1 /\ Idle
               \/ Moves(p, "sleep_reguard", "sleep_release") /\ Idle
               \/ Moves(p, "sleep_release", "acquire_test") /\ Idle
        BY <1>1, <3>3 DEF Moves, Idle
    <3>4. QED
        BY <2>1, <3>1, <3>2, <3>3 DEF AcquireMove
  <2>2. CASE TakeMove(p)
      BY <1>1, <2>2 DEF TakeMove, Moves
  <2>3. CASE HoldMove(p) \/ EndMove(p)
      BY <1>1, <2>3 DEF HoldMove, EndMove, Moves, Idle
  <2>4. CASE ClearMove(p)
      BY <1>1, <1>3, <2>4 DEF ClearMove, Moves
  <2>5. QED
      BY <1>5, <2>1, <2>2, <2>3, <2>4 DEF Move
<1>6. QED
    BY <1>4, <1>5, NextMoves

-----------------------------------------------------------------------------
\* The invariant holds at the command prompt, before anything ran.
LEMMA InvInit == Init => Inv
<1> SUFFICES ASSUME Init PROVE Inv
    OBVIOUS
<1>1. KernelInv(CallPoints, GuardPoints) /\ \A p \in Env : Point(p) = "env_start"
    BY KernelInvInit DEF Init
<1>2. \A p \in Env : ~Holds(p)
    BY <1>1 DEF Holds, HoldPoints, WakeupPoints
<1>3. QED
    BY <1>1, <1>2 DEF Init, Inv, Bit, MutualExclusion, SleepersInv

\* Every step of the kernel and of the programs preserves it.
LEMMA InvNext == Inv /\ [Next]_vars => Inv'
<1> SUFFICES ASSUME Inv, [Next]_vars PROVE Inv'
    OBVIOUS
<1>1. CASE Next
    BY <1>1, NextMoves, MutexNext, SleepersNext DEF Inv
<1>2. CASE UNCHANGED vars
    BY <1>2 DEF vars, kernelVars, Inv, KernelInv, TypeInv, KernelTypeOK, NoPanic, CpuInv,
       RunningCpu, CpuIs, SchedulerCpu, SuspendedInv, Suspended, ReadyDiscipline,
       ChannelDiscipline, MutualExclusion, Holds, Point, SleepersInv
<1>3. QED
    BY <1>1, <1>2

\* The control points, the CPU, the queues and the lock word always fit
\* together as the invariant says, for any number of environments.
THEOREM InvHolds == Spec => []Inv
BY InvInit, InvNext, PTL DEF Spec

\* Type correctness.
THEOREM TypeCorrect == Spec => []TypeOK
<1>1. Inv => TypeOK
    BY SleeplockPoints DEF Inv, KernelInv, TypeInv, TypeOK
<1>2. QED
    BY <1>1, InvHolds, PTL

\* No panic or assertion of the locks, of sched(), of the scheduler loop or of
\* trap() is reachable.
THEOREM NeverPanics == Spec => []NoPanic
<1>1. Inv => NoPanic
    BY DEF Inv, KernelInv
<1>2. QED
    BY <1>1, InvHolds, PTL

\* acquire_sleeplock lets one process at a time into the critical section.
THEOREM MutexHolds == Spec => []MutualExclusion
<1>1. Inv => MutualExclusion
    BY DEF Inv
<1>2. QED
    BY <1>1, InvHolds, PTL

\* No process is left sleeping on a sleeplock that is free.
THEOREM WakeupsAreNotLost == Spec => []NoLostWakeup
<1>1. Inv => NoLostWakeup
    BY DEF Inv, SleepersInv, NoLostWakeup
<1>2. QED
    BY <1>1, InvHolds, PTL

\* The CPU's process, the RUNNING status and the ready queue always agree, and
\* the channel holds exactly the BLOCKED processes.
THEOREM QueuesAgree == Spec => [](ReadyDiscipline /\ ChannelDiscipline)
<1>1. Inv => ReadyDiscipline /\ ChannelDiscipline
    BY DEF Inv, KernelInv
<1>2. QED
    BY <1>1, InvHolds, PTL

\* Interrupts are never on inside a spinlock, never off outside one, and the
\* clock never interrupts the scheduler.
THEOREM InterruptsAreSafe == Spec => [](SleeplockInterrupts /\ NoClockInScheduler)
<1>1. ASSUME Inv PROVE SleeplockInterrupts /\ NoClockInScheduler
  <2>1. InterruptDiscipline(Open(CallPoints)) /\ NoClockInScheduler
      BY <1>1, Interrupts, SleeplockPoints DEF Inv
  <2>2. QED
      BY <2>1, SleeplockPoints DEF SleeplockInterrupts
<1>2. QED
    BY <1>1, InvHolds, PTL

-----------------------------------------------------------------------------
\* Every behaviour of the sleeplock, interrupts and scheduling included, is a
\* behaviour of a one-permit semaphore whose operations are atomic.
THEOREM SleeplockImplementsMutex == Spec => ImplementsMutex
<1> USE DEF Abstract!AbsInit, Abstract!AbsNext, Abstract!absVars
<1>1. Init => Abstract!AbsInit
    BY DEF Init, KernelInit, Mode, Holds, Point, HandlerPoints, HoldPoints, AcquirePoints,
       SleepPoints, WakeupPoints
<1>2. Inv /\ [Next]_vars => [Abstract!AbsNext]_(Abstract!absVars)
  <2> SUFFICES ASSUME Inv, [Next]_vars
               PROVE  [Abstract!AbsNext]_(Abstract!absVars)
      OBVIOUS
  <2>1. CASE Stays
      BY <2>1 DEF Stays
  <2>2. CASE UNCHANGED vars
      BY <2>2 DEF vars, kernelVars, Mode, Holds, Point
  <2>3. ASSUME NEW p \in Env, Turns(p, "out", "wait"), held' = held
        PROVE  Abstract!Request(p)
      BY <2>3 DEF Turns, Abstract!Request
  <2>4. ASSUME NEW p \in Env, Turns(p, "wait", "in"), held = 0, held' = 1
        PROVE  Abstract!Enter(p)
    <3>1. 1 - held > 0 /\ 1 - held' = (1 - held) - 1
        BY <2>4
    <3>2. QED
        BY <2>4, <3>1 DEF Turns, Abstract!Enter
  <2>5. ASSUME NEW p \in Env, Turns(p, "in", "out"), held = 1, held' = 0
        PROVE  Abstract!Leave(p)
    <3>1. 1 - held' = (1 - held) + 1
        BY <2>5
    <3>2. QED
        BY <2>5, <3>1 DEF Turns, Abstract!Leave
  <2>6. QED
      BY <2>1, <2>2, <2>3, <2>4, <2>5, ModesNext
<1>3. QED
    BY <1>1, <1>2, InvHolds, PTL DEF Spec, ImplementsMutex, Abstract!AbsSpec

-----------------------------------------------------------------------------
(* The semaphore: an inductive invariant, and what follows from it.        *)

\* The semaphore's own control points: outside every spinlock, and with the
\* guard held.
SemCallPoints  == {"wait", "wait_return", "signal", "signal_return"}
SemGuardPoints == {"wait_test", "wait_unguard", "signal_count", "signal_unguard"}

\* Whoever is about to sleep saw a count of 0 that nobody has changed since,
\* and sleepers on a positive count are about to be woken.
SemSleepersInv ==
    /\ \A p \in Env :
          Point(p) \in {"sleep_acquire", "sleep_unguard", "sleep_sched"} => count = 0
    /\ chan # <<>> /\ count > 0 =>
          \E p \in Env : Point(p) \in {"wakeup_all", "wakeup_all_move"}

SemInv ==
    /\ KernelInv(SemCallPoints, SemGuardPoints)
    /\ count \in Nat
    /\ posts \in 0 .. MaxPosts
    /\ PermitsConserved
    /\ SemSleepersInv

-----------------------------------------------------------------------------
(* What a step does to the control points, the channel and the count.      *)

WaitMove(p) ==
    \/ Moves(p, "user", "wait") /\ SemIdle
    \/ Moves(p, "wait", "wait_test") /\ SemIdle
    \/ Moves(p, "wait_test", "sleep_acquire") /\ count = 0 /\ SemIdle
    \/ Moves(p, "sleep_acquire", "sleep_unguard") /\ SemIdle
    \/ Moves(p, "sleep_unguard", "sleep_sched") /\ SemIdle
    \/ /\ Moves(p, "sleep_sched", "sleep_reguard")
       /\ chan' = Append(chan, p) /\ UNCHANGED <<count, posts>>
    \/ Moves(p, "sleep_reguard", "sleep_release") /\ SemIdle
    \/ Moves(p, "sleep_release", "wait_test") /\ SemIdle

\* The test finds a permit.
SemTakeMove(p) ==
    /\ Moves(p, "wait_test", "wait_unguard")
    /\ count > 0 /\ count' = count - 1 /\ UNCHANGED <<chan, posts>>

InMove(p) ==
    \/ Moves(p, "wait_unguard", "wait_return") /\ SemIdle
    \/ Moves(p, "wait_return", "cs") /\ SemIdle

\* A signal is called, by a program inside or by one outside.
SignalMove(p) ==
    \/ Moves(p, "cs", "signal") /\ SemIdle
    \/ /\ Moves(p, "user", "signal")
       /\ posts < MaxPosts /\ posts' = posts + 1 /\ UNCHANGED <<chan, count>>

\* The signal is counted.
CountMove(p) ==
    /\ Moves(p, "signal_count", IF chan # <<>> THEN "wakeup_all" ELSE "signal_unguard")
    /\ count' = count + 1 /\ UNCHANGED <<chan, posts>>

SemEndMove(p) ==
    \/ Moves(p, "signal", "signal_count") /\ SemIdle
    \/ Moves(p, "wakeup_all", "wakeup_all_move") /\ SemIdle
    \/ /\ Moves(p, "wakeup_all_move", "wakeup_release")
       /\ chan' = <<>> /\ UNCHANGED <<count, posts>>
    \/ Moves(p, "wakeup_release", "signal_unguard") /\ SemIdle
    \/ Moves(p, "signal_unguard", "signal_return") /\ SemIdle
    \/ Moves(p, "signal_return", "user") /\ SemIdle

SemMove(p) ==
    \/ WaitMove(p) \/ SemTakeMove(p) \/ InMove(p) \/ SignalMove(p) \/ CountMove(p)
    \/ SemEndMove(p)

\* The semaphore's points are its own.
LEMMA SemaphorePoints ==
    /\ Object(SemCallPoints, SemGuardPoints)
    /\ SemPoints = AllPoints(SemCallPoints, SemGuardPoints)
    /\ SemGuardPoints \subseteq Guarded(SemGuardPoints)
    /\ {"sleep_acquire", "wakeup_all"} \subseteq Guarded(SemGuardPoints)
BY DEF Object, SemPoints, AllPoints, SharedPoints, SemCallPoints, SemGuardPoints, Guarded,
   WaitPoints, InPoints, SignalPoints, KernelPoints, UserPoints, StartPoints, RunPoints, ExitPoints,
   HandlerPoints, SleepPoints, WakeupPoints

\* wait_ksemaphore and signal_ksemaphore outside the channel.
LEMMA SemaphoreLocal ==
    ASSUME SemInv, NEW p \in Env,
           \/ wait_guard(p) \/ wait_test(p) \/ wait_unguard(p)
           \/ signal_guard(p) \/ signal_count(p) \/ signal_unguard(p)
    PROVE  KernelInv(SemCallPoints, SemGuardPoints)' /\ SemMove(p)
<1> DEFINE O == SemCallPoints
           G == SemGuardPoints
<1>1. /\ Object(O, G) /\ KernelInv(O, G) /\ count \in Nat
      /\ SemGuardPoints \subseteq Guarded(G)
      /\ {"sleep_acquire", "wakeup_all"} \subseteq Guarded(G)
    BY SemaphorePoints DEF SemInv
<1>2. /\ {"wait", "wait_return", "signal", "signal_return"} \subseteq O
      /\ {"wait_test", "wait_unguard", "signal_count", "signal_unguard"} \subseteq Guarded(G)
    BY <1>1 DEF SemCallPoints, SemGuardPoints
<1> HIDE DEF O, G
<1>3. CASE wait_guard(p)
  <2>1. KernelInv(O, G)' /\ Moves(p, "wait", "wait_test")
      BY <1>1, <1>2, <1>3, ObjectGuard DEF wait_guard
  <2>2. QED
      BY <1>3, <2>1 DEF wait_guard, SemMove, WaitMove, SemIdle, O, G
<1>4. CASE wait_test(p) /\ count <= 0 /\ Goto(p, "sleep_acquire")
  <2>1. KernelInv(O, G)' /\ Moves(p, "wait_test", "sleep_acquire")
      BY <1>1, <1>2, <1>4, ObjectGuard DEF wait_test
  <2>2. count = 0 /\ SemIdle
      BY <1>1, <1>4 DEF wait_test, SemIdle
  <2>3. QED
      BY <2>1, <2>2 DEF SemMove, WaitMove, O, G
<1>5. CASE wait_test(p) /\ count > 0 /\ Goto(p, "wait_unguard") /\ count' = count - 1
  <2>1. KernelInv(O, G)' /\ Moves(p, "wait_test", "wait_unguard")
      BY <1>1, <1>2, <1>5, ObjectGuard DEF wait_test
  <2>2. QED
      BY <1>5, <2>1 DEF wait_test, SemMove, SemTakeMove, O, G
<1>6. CASE wait_unguard(p)
  <2>1. KernelInv(O, G)' /\ Moves(p, "wait_unguard", "wait_return")
      BY <1>1, <1>2, <1>6, ObjectGuard DEF wait_unguard
  <2>2. QED
      BY <1>6, <2>1 DEF wait_unguard, SemMove, InMove, SemIdle, O, G
<1>7. CASE signal_guard(p)
  <2>1. KernelInv(O, G)' /\ Moves(p, "signal", "signal_count")
      BY <1>1, <1>2, <1>7, ObjectGuard DEF signal_guard
  <2>2. QED
      BY <1>7, <2>1 DEF signal_guard, SemMove, SemEndMove, SemIdle, O, G
<1>8. CASE signal_count(p)
  <2> DEFINE l == IF chan # <<>> THEN "wakeup_all" ELSE "signal_unguard"
  <2>1. l \in Guarded(G)
      BY <1>1, <1>2
  <2>2. At(p, "signal_count") /\ Goto(p, l)
      BY <1>8 DEF signal_count
  <2> HIDE DEF l
  <2>3. KernelInv(O, G)' /\ Moves(p, "signal_count", l)
      BY <1>1, <1>2, <1>8, <2>1, <2>2, ObjectGuard DEF signal_count
  <2>4. QED
      BY <1>8, <2>3 DEF signal_count, SemMove, CountMove, O, G, l
<1>9. CASE signal_unguard(p)
  <2>1. KernelInv(O, G)' /\ Moves(p, "signal_unguard", "signal_return")
      BY <1>1, <1>2, <1>9, ObjectGuard DEF signal_unguard
  <2>2. QED
      BY <1>9, <2>1 DEF signal_unguard, SemMove, SemEndMove, SemIdle, O, G
<1>10. QED
    BY <1>3, <1>4, <1>5, <1>6, <1>7, <1>8, <1>9 DEF wait_test

\* sleep and wakeup_all, called by them.
LEMMA SemaphoreChannel ==
    ASSUME SemInv, NEW p \in Env, UNCHANGED <<count, posts>>,
           sleep(p, "wait_test") \/ wakeup_all(p, "signal_unguard")
    PROVE  KernelInv(SemCallPoints, SemGuardPoints)' /\ SemMove(p)
<1>1. /\ Object(SemCallPoints, SemGuardPoints) /\ KernelInv(SemCallPoints, SemGuardPoints)
      /\ "wait_test" \in SemGuardPoints /\ "signal_unguard" \in SemGuardPoints
    BY SemaphorePoints DEF SemInv, SemGuardPoints
<1>2. CASE sleep(p, "wait_test")
    BY <1>1, <1>2, SleepSteps DEF SemMove, WaitMove, SemIdle
<1>3. CASE wakeup_all(p, "signal_unguard")
    BY <1>1, <1>3, WakeupSteps DEF SemMove, SemEndMove, SemIdle
<1>4. QED
    BY <1>2, <1>3

\* The system calls.
LEMMA SemaphoreCalls ==
    ASSUME SemInv, NEW p \in Env,
           \/ (WaitCall(p) \/ WaitReturn(p) \/ SignalCall(p) \/ SignalReturn(p)) /\ SemIdle
           \/ PostCall(p)
    PROVE  KernelInv(SemCallPoints, SemGuardPoints)' /\ SemMove(p)
<1>1. /\ Object(SemCallPoints, SemGuardPoints) /\ KernelInv(SemCallPoints, SemGuardPoints)
      /\ "wait" \in SemCallPoints /\ "wait_return" \in SemCallPoints
      /\ "signal" \in SemCallPoints /\ "signal_return" \in SemCallPoints
      /\ "user" \in UserPoints /\ "cs" \in UserPoints
      /\ UNCHANGED chan
    BY SemaphorePoints DEF SemInv, SemCallPoints, UserPoints, SemIdle, PostCall
<1>2. CASE WaitCall(p) /\ SemIdle
    BY <1>1, <1>2, ObjectCall DEF WaitCall, SemMove, WaitMove
<1>3. CASE WaitReturn(p) /\ SemIdle
    BY <1>1, <1>3, ObjectCall DEF WaitReturn, SemMove, InMove
<1>4. CASE SignalCall(p) /\ SemIdle
    BY <1>1, <1>4, ObjectCall DEF SignalCall, SemMove, SignalMove
<1>5. CASE SignalReturn(p) /\ SemIdle
    BY <1>1, <1>5, ObjectCall DEF SignalReturn, SemMove, SemEndMove
<1>6. CASE PostCall(p)
    BY <1>1, <1>6, ObjectCall DEF PostCall, SemMove, SignalMove
<1>7. QED
    BY <1>2, <1>3, <1>4, <1>5, <1>6

\* Every step is one of these moves, or leaves the semaphore alone.
LEMMA SemNextMoves ==
    ASSUME SemInv, SemNext
    PROVE  /\ KernelInv(SemCallPoints, SemGuardPoints)'
           /\ \/ Quiet /\ SemIdle
              \/ \E p \in Env : SemMove(p)
<1>1. Object(SemCallPoints, SemGuardPoints) /\ KernelInv(SemCallPoints, SemGuardPoints)
    BY SemaphorePoints DEF SemInv
<1>2. CASE OtherStep /\ SemIdle
    BY <1>1, <1>2, OtherSteps DEF SemIdle
<1>3. ASSUME NEW p \in Env,
             wait_ksemaphore(p) \/ signal_ksemaphore(p)
      PROVE  KernelInv(SemCallPoints, SemGuardPoints)' /\ SemMove(p)
    BY <1>3, SemaphoreLocal, SemaphoreChannel DEF wait_ksemaphore, signal_ksemaphore
<1>4. QED
    BY <1>2, <1>3, SemaphoreCalls DEF SemNext, SemStep, OtherStep

-----------------------------------------------------------------------------
\* What a step does to the programs inside and to the signals under way.
LEMMA InsideAndSignaling ==
    ASSUME SemInv, SemNext
    PROVE  \/ Inside' = Inside /\ Signaling' = Signaling /\ UNCHANGED <<count, posts>>
           \/ \E p \in Env :
                \/ /\ SemTakeMove(p) /\ p \notin Inside
                   /\ Inside' = Inside \union {p} /\ Signaling' = Signaling
                \/ /\ Moves(p, "cs", "signal") /\ UNCHANGED <<count, posts>>
                   /\ p \in Inside /\ p \notin Signaling
                   /\ Inside' = Inside \ {p} /\ Signaling' = Signaling \union {p}
                \/ /\ Moves(p, "user", "signal") /\ count' = count /\ posts < MaxPosts
                   /\ posts' = posts + 1 /\ p \notin Signaling
                   /\ Inside' = Inside /\ Signaling' = Signaling \union {p}
                \/ /\ CountMove(p) /\ p \in Signaling
                   /\ Inside' = Inside /\ Signaling' = Signaling \ {p}
<1>1. CASE Quiet /\ SemIdle
  <2>1. PlainPoints \intersect InPoints = {} /\ PlainPoints \intersect SignalPoints = {}
      BY DEF PlainPoints, StartPoints, RunPoints, ExitPoints, InPoints, SignalPoints
  <2>2. QED
      BY <1>1, <2>1 DEF Quiet, SemIdle, Inside, Signaling
<1>2. ASSUME NEW p \in Env, WaitMove(p) \/ InMove(p) \/ SemEndMove(p)
      PROVE  Inside' = Inside /\ Signaling' = Signaling /\ UNCHANGED <<count, posts>>
    BY <1>2 DEF WaitMove, InMove, SemEndMove, Moves, SemIdle, Inside, Signaling, InPoints,
       SignalPoints
<1>3. ASSUME NEW p \in Env, SemTakeMove(p)
      PROVE  /\ p \notin Inside
             /\ Inside' = Inside \union {p} /\ Signaling' = Signaling
    BY <1>3 DEF SemTakeMove, Moves, Inside, Signaling, InPoints, SignalPoints
<1>4. ASSUME NEW p \in Env, Moves(p, "cs", "signal")
      PROVE  /\ p \in Inside /\ p \notin Signaling
             /\ Inside' = Inside \ {p} /\ Signaling' = Signaling \union {p}
    BY <1>4 DEF Moves, Inside, Signaling, InPoints, SignalPoints
<1>5. ASSUME NEW p \in Env, Moves(p, "user", "signal")
      PROVE  p \notin Signaling /\ Inside' = Inside /\ Signaling' = Signaling \union {p}
    BY <1>5 DEF Moves, Inside, Signaling, InPoints, SignalPoints
<1>6. ASSUME NEW p \in Env, CountMove(p)
      PROVE  p \in Signaling /\ Inside' = Inside /\ Signaling' = Signaling \ {p}
    BY <1>6 DEF CountMove, Moves, Inside, Signaling, InPoints, SignalPoints
<1>7. QED
    BY <1>1, <1>2, <1>3, <1>4, <1>5, <1>6, SemNextMoves DEF SemMove, SignalMove, SemIdle

\* The permits are conserved, and the abstract permits follow the signals.
LEMMA PermitsNext ==
    ASSUME SemInv, SemNext
    PROVE  PermitsConserved' /\ count' \in Nat /\ posts' \in 0 .. MaxPosts
<1>1. /\ IsFiniteSet(Inside) /\ IsFiniteSet(Signaling)
      /\ Cardinality(Inside) \in Nat /\ Cardinality(Signaling) \in Nat
    BY EnvAssumption, FS_Subset, FS_CardinalityType DEF Inside, Signaling
<1>2. /\ count \in Nat /\ posts \in 0 .. MaxPosts /\ InitialCount \in Nat /\ MaxPosts \in Nat
      /\ count + Cardinality(Inside) + Cardinality(Signaling) = InitialCount + posts
    BY CountAssumption DEF SemInv, PermitsConserved
<1>3. CASE Inside' = Inside /\ Signaling' = Signaling /\ UNCHANGED <<count, posts>>
    BY <1>2, <1>3 DEF PermitsConserved
<1>4. ASSUME NEW p \in Env, SemTakeMove(p), p \notin Inside,
             Inside' = Inside \union {p}, Signaling' = Signaling
      PROVE  PermitsConserved' /\ count' \in Nat /\ posts' \in 0 .. MaxPosts
  <2>1. Cardinality(Inside') = Cardinality(Inside) + 1
      BY <1>1, <1>4, FS_AddElement
  <2>2. QED
      BY <1>1, <1>2, <1>4, <2>1 DEF SemTakeMove, PermitsConserved
<1>5. ASSUME NEW p \in Env, UNCHANGED <<count, posts>>, p \in Inside, p \notin Signaling,
             Inside' = Inside \ {p}, Signaling' = Signaling \union {p}
      PROVE  PermitsConserved' /\ count' \in Nat /\ posts' \in 0 .. MaxPosts
  <2>1. /\ Cardinality(Inside') = Cardinality(Inside) - 1
        /\ Cardinality(Signaling') = Cardinality(Signaling) + 1
      BY <1>1, <1>5, FS_AddElement, FS_RemoveElement
  <2>2. QED
      BY <1>1, <1>2, <1>5, <2>1 DEF PermitsConserved
<1>6. ASSUME NEW p \in Env, count' = count, posts < MaxPosts, posts' = posts + 1,
             p \notin Signaling, Inside' = Inside, Signaling' = Signaling \union {p}
      PROVE  PermitsConserved' /\ count' \in Nat /\ posts' \in 0 .. MaxPosts
  <2>1. Cardinality(Signaling') = Cardinality(Signaling) + 1
      BY <1>1, <1>6, FS_AddElement
  <2>2. QED
      BY <1>1, <1>2, <1>6, <2>1 DEF PermitsConserved
<1>7. ASSUME NEW p \in Env, CountMove(p), p \in Signaling,
             Inside' = Inside, Signaling' = Signaling \ {p}
      PROVE  PermitsConserved' /\ count' \in Nat /\ posts' \in 0 .. MaxPosts
  <2>1. Cardinality(Signaling') = Cardinality(Signaling) - 1
      BY <1>1, <1>7, FS_RemoveElement
  <2>2. QED
      BY <1>1, <1>2, <1>7, <2>1 DEF CountMove, PermitsConserved
<1>8. QED
    BY <1>3, <1>4, <1>5, <1>6, <1>7, InsideAndSignaling

\* Who sleeps, or is about to, and what the count is.
LEMMA SemSleepersNext ==
    ASSUME SemInv, SemNext
    PROVE  SemSleepersInv'
<1> DEFINE Falling == {"sleep_acquire", "sleep_unguard", "sleep_sched"}
           Waking  == {"wakeup_all", "wakeup_all_move"}
<1>1. /\ count \in Nat
      /\ \A p \in Env : Point(p) \in Falling => count = 0
      /\ chan # <<>> /\ count > 0 => \E p \in Env : Point(p) \in Waking
    BY DEF SemInv, SemSleepersInv
<1>2. SUFFICES /\ \A p \in Env : Point(p)' \in Falling => count' = 0
               /\ chan' # <<>> /\ count' > 0 => \E p \in Env : Point(p)' \in Waking
    BY DEF SemSleepersInv
<1>3. CASE Quiet /\ SemIdle
  <2>1. PlainPoints \intersect (Falling \union Waking) = {}
      BY DEF PlainPoints, StartPoints, RunPoints, ExitPoints
  <2>2. QED
      BY <1>1, <1>3, <2>1 DEF Quiet, SemIdle
<1>4. ASSUME NEW p \in Env, SemMove(p)
      PROVE  /\ \A q \in Env : Point(q)' \in Falling => count' = 0
             /\ chan' # <<>> /\ count' > 0 => \E q \in Env : Point(q)' \in Waking
  <2>1. CASE WaitMove(p)
    <3>1. CASE Moves(p, "sleep_sched", "sleep_reguard") /\ UNCHANGED <<count, posts>>
        BY <1>1, <3>1 DEF Moves
    <3>2. CASE Moves(p, "sleep_acquire", "sleep_unguard") /\ SemIdle
        BY <1>1, <3>2 DEF Moves, SemIdle
    <3>3. CASE Moves(p, "sleep_unguard", "sleep_sched") /\ SemIdle
        BY <1>1, <3>3 DEF Moves, SemIdle
    <3>4. CASE \/ Moves(p, "user", "wait") /\ SemIdle
               \/ Moves(p, "wait", "wait_test") /\ SemIdle
               \/ Moves(p, "wait_test", "sleep_acquire") /\ count = 0 /\ SemIdle
               \/ Moves(p, "sleep_reguard", "sleep_release") /\ SemIdle
               \/ Moves(p, "sleep_release", "wait_test") /\ SemIdle
        BY <1>1, <3>4 DEF Moves, SemIdle
    <3>5. QED
        BY <2>1, <3>1, <3>2, <3>3, <3>4 DEF WaitMove
  <2>2. CASE SemTakeMove(p)
    <3>1. /\ \A q \in Env : Point(q) \notin Falling
          /\ chan # <<>> => \E q \in Env : Point(q) \in Waking
        BY <1>1, <2>2 DEF SemTakeMove
    <3>2. QED
        BY <2>2, <3>1 DEF SemTakeMove, Moves
  <2>3. CASE InMove(p) \/ SignalMove(p)
      BY <1>1, <2>3 DEF InMove, SignalMove, Moves, SemIdle
  <2>4. CASE CountMove(p)
    <3>1. \A q \in Env : Point(q) \in Falling \union {"signal_count"} => exec = q
      <4>1. (Falling \union {"signal_count"}) \intersect
              (Open(SemCallPoints) \union {"env_start", "sleep_reguard", "exited"}) = {}
          BY DEF Open, SemCallPoints, UserPoints
      <4>2. QED
          BY <4>1, OnlyOneInside, SemaphorePoints DEF SemInv
    <3>2. \A q \in Env : Point(q)' \notin Falling
        BY <2>4, <3>1 DEF CountMove, Moves
    <3>3. chan' # <<>> => Point(p)' \in Waking
        BY <2>4 DEF CountMove, Moves
    <3>4. QED
        BY <3>2, <3>3
  <2>5. CASE SemEndMove(p)
    <3>1. CASE Moves(p, "wakeup_all_move", "wakeup_release") /\ chan' = <<>>
                 /\ UNCHANGED <<count, posts>>
        BY <1>1, <3>1 DEF Moves
    <3>2. CASE \/ Moves(p, "signal", "signal_count") /\ SemIdle
               \/ Moves(p, "wakeup_all", "wakeup_all_move") /\ SemIdle
               \/ Moves(p, "wakeup_release", "signal_unguard") /\ SemIdle
               \/ Moves(p, "signal_unguard", "signal_return") /\ SemIdle
               \/ Moves(p, "signal_return", "user") /\ SemIdle
        BY <1>1, <3>2 DEF Moves, SemIdle
    <3>3. QED
        BY <2>5, <3>1, <3>2 DEF SemEndMove
  <2>6. QED
      BY <1>4, <2>1, <2>2, <2>3, <2>4, <2>5 DEF SemMove
<1>5. QED
    BY <1>3, <1>4, SemNextMoves

-----------------------------------------------------------------------------
\* The invariant holds at the command prompt.
LEMMA SemInvInit == SemInit => SemInv
<1> SUFFICES ASSUME SemInit PROVE SemInv
    OBVIOUS
<1>1. KernelInv(SemCallPoints, SemGuardPoints) /\ \A p \in Env : Point(p) = "env_start"
    BY KernelInvInit DEF SemInit
<1>2. Inside = {} /\ Signaling = {}
    BY <1>1 DEF Inside, Signaling, InPoints, SignalPoints
<1>3. PermitsConserved
    BY <1>2, FS_EmptySet, CountAssumption DEF SemInit, PermitsConserved
<1>4. SemSleepersInv
    BY <1>1 DEF SemInit, SemSleepersInv
<1>5. QED
    BY <1>1, <1>3, <1>4, CountAssumption DEF SemInit, SemInv

\* Every step preserves it.
LEMMA SemInvNext == SemInv /\ [SemNext]_semVars => SemInv'
<1> SUFFICES ASSUME SemInv, [SemNext]_semVars PROVE SemInv'
    OBVIOUS
<1>1. CASE SemNext
    BY <1>1, SemNextMoves, PermitsNext, SemSleepersNext DEF SemInv
<1>2. CASE UNCHANGED semVars
    BY <1>2 DEF semVars, kernelVars, SemInv, KernelInv, TypeInv, KernelTypeOK, NoPanic, CpuInv,
       RunningCpu, CpuIs, SchedulerCpu, SuspendedInv, Suspended, ReadyDiscipline,
       ChannelDiscipline, PermitsConserved, Inside, Signaling, Point, SemSleepersInv
<1>3. QED
    BY <1>1, <1>2

\* The control points, the CPU, the queues and the count always fit together as
\* the invariant says.
THEOREM SemaphoreInv == SemSpec => []SemInv
BY SemInvInit, SemInvNext, PTL DEF SemSpec

\* Type correctness.
THEOREM SemaphoreTypeCorrect == SemSpec => []SemTypeOK
<1>1. SemInv => SemTypeOK
    BY SemaphorePoints DEF SemInv, KernelInv, TypeInv, SemTypeOK
<1>2. QED
    BY <1>1, SemaphoreInv, PTL

\* No panic or assertion is reachable from wait_ksemaphore or signal_ksemaphore.
THEOREM SemaphoreNeverPanics == SemSpec => []NoPanic
<1>1. SemInv => NoPanic
    BY DEF SemInv, KernelInv
<1>2. QED
    BY <1>1, SemaphoreInv, PTL

\* Interrupts are never on inside a spinlock and never off outside one, across
\* every sleep, wakeup and context switch, and the clock never interrupts the
\* scheduler.
THEOREM SemaphoreInterruptsAreSafe == SemSpec => [](SemaphoreInterrupts /\ NoClockInScheduler)
<1>1. ASSUME SemInv PROVE SemaphoreInterrupts /\ NoClockInScheduler
  <2>1. InterruptDiscipline(Open(SemCallPoints)) /\ NoClockInScheduler
      BY <1>1, Interrupts, SemaphorePoints DEF SemInv
  <2>2. Open(SemCallPoints) = UserPoints \union
          {"run_acquire", "run_return", "exit_acquire", "wait", "wait_return", "signal",
           "signal_return"}
      BY DEF Open, SemCallPoints
  <2>3. QED
      BY <2>1, <2>2 DEF SemaphoreInterrupts
<1>2. QED
    BY <1>1, SemaphoreInv, PTL

\* The channel of the semaphore holds exactly the BLOCKED processes, each once,
\* and the ready queue exactly the READY ones that are not on the CPU.
THEOREM SemaphoreQueuesAgree == SemSpec => [](ChannelDiscipline /\ ReadyDiscipline)
<1>1. SemInv => ChannelDiscipline /\ ReadyDiscipline
    BY DEF SemInv, KernelInv
<1>2. QED
    BY <1>1, SemaphoreInv, PTL

\* No permit is lost or made up: the count, the programs inside and the signals
\* under way add up to the initial count and the posts.
THEOREM PermitsAreConserved == SemSpec => []PermitsConserved
<1>1. SemInv => PermitsConserved
    BY DEF SemInv
<1>2. QED
    BY <1>1, SemaphoreInv, PTL

\* No process is left sleeping on a positive semaphore.
THEOREM SignalsAreNotLost == SemSpec => []NoLostSignal
<1>1. ASSUME SemInv PROVE NoLostSignal
  <2>1. SUFFICES ASSUME locked["guard"] = 0, count > 0, chan # <<>> PROVE FALSE
      BY DEF NoLostSignal
  <2>2. PICK p \in Env : Point(p) \in {"wakeup_all", "wakeup_all_move"}
      BY <1>1, <2>1 DEF SemInv, SemSleepersInv
  <2>3. /\ Point(p) \notin Open(SemCallPoints) \union {"env_start", "sleep_reguard", "exited"}
        /\ Point(p) \in Guarded(SemGuardPoints) \union BothPoints
      BY <2>2 DEF Open, SemCallPoints, UserPoints, Guarded, BothPoints
  <2>4. locked["guard"] = 1
      BY <1>1, <2>3, OnlyOneInside, SemaphorePoints DEF SemInv
  <2>5. QED
      BY <2>1, <2>4
<1>2. QED
    BY <1>1, SemaphoreInv, PTL

-----------------------------------------------------------------------------
\* Every behaviour of the semaphore, interrupts and scheduling included, is a
\* behaviour of one whose operations are atomic: a signal counts at its call,
\* a wait at the test that finds a positive count.
THEOREM SemaphoreImplementsAbstract == SemSpec => ImplementsSemaphore
<1> USE DEF AbstractSem!AbsInit, AbstractSem!AbsNext, AbstractSem!absVars
<1>1. SemInit => AbstractSem!AbsInit
  <2> SUFFICES ASSUME SemInit PROVE AbstractSem!AbsInit
      OBVIOUS
  <2>1. \A p \in Env : Point(p) = "env_start"
      BY KernelInvInit DEF SemInit
  <2>2. Signaling = {} /\ \A p \in Env : SemMode(p) = "out"
      BY <2>1 DEF Signaling, SignalPoints, SemMode, InPoints, WaitPoints, SleepPoints
  <2>3. count + Cardinality(Signaling) = InitialCount
      BY <2>2, FS_EmptySet, CountAssumption DEF SemInit
  <2>4. QED
      BY <2>2, <2>3
<1>2. SemInv /\ [SemNext]_semVars => [AbstractSem!AbsNext]_(AbstractSem!absVars)
  <2> SUFFICES ASSUME SemInv, [SemNext]_semVars
               PROVE  [AbstractSem!AbsNext]_(AbstractSem!absVars)
      OBVIOUS
  <2> DEFINE permits == count + Cardinality(Signaling)
  <2>1. /\ IsFiniteSet(Signaling) /\ Cardinality(Signaling) \in Nat /\ count \in Nat
      BY EnvAssumption, FS_Subset, FS_CardinalityType DEF Signaling, SemInv
  <2>2. CASE UNCHANGED semVars
      BY <2>2 DEF semVars, kernelVars, Signaling, SemMode, Point
  <2>3. CASE SemNext /\ Quiet /\ SemIdle
    <3>1. PlainPoints \intersect (InPoints \union WaitPoints \union SignalPoints) = {}
        BY DEF PlainPoints, StartPoints, RunPoints, ExitPoints, InPoints, SignalPoints,
           WaitPoints, SleepPoints
    <3>2. Signaling' = Signaling /\ \A p \in Env : SemMode(p)' = SemMode(p)
        BY <2>3, <3>1 DEF Quiet, Signaling, SemMode
    <3>3. QED
        BY <2>3, <3>2 DEF SemIdle
  <2>4. ASSUME NEW p \in Env, WaitMove(p) \/ InMove(p) \/ SemEndMove(p)
        PROVE  [AbstractSem!AbsNext]_(AbstractSem!absVars)
    <3> USE DEF Moves, Signaling, SemMode, InPoints, WaitPoints, SignalPoints, SleepPoints, SemIdle
    <3>1. CASE Moves(p, "user", "wait") /\ SemIdle
      <4>1. /\ SemMode(p) = "out" /\ SemMode(p)' = "wait" /\ permits' = permits
            /\ \A q \in Env : q # p => SemMode(q)' = SemMode(q)
          BY <3>1
      <4>2. AbstractSem!Request(p)
          BY <4>1 DEF AbstractSem!Request
      <4>3. QED
          BY <4>2
    <3>2. CASE ~Moves(p, "user", "wait")
      <4>1. permits' = permits /\ \A q \in Env : SemMode(q)' = SemMode(q)
          BY <2>4, <3>2 DEF WaitMove, InMove, SemEndMove
      <4>2. QED
          BY <4>1
    <3>3. CASE Moves(p, "user", "wait") /\ ~SemIdle
        BY <2>4, <3>3 DEF WaitMove, InMove, SemEndMove
    <3>4. QED
        BY <3>1, <3>2, <3>3
  <2>5. ASSUME NEW p \in Env, SemTakeMove(p) PROVE AbstractSem!Enter(p)
    <3>1. /\ SemMode(p) = "wait" /\ SemMode(p)' = "in" /\ Signaling' = Signaling
          /\ \A q \in Env : q # p => SemMode(q)' = SemMode(q)
        BY <2>5 DEF SemTakeMove, Moves, Signaling, SemMode, InPoints, WaitPoints, SignalPoints
    <3>2. permits > 0 /\ permits' = permits - 1
        BY <2>1, <2>5, <3>1 DEF SemTakeMove
    <3>3. QED
        BY <3>1, <3>2 DEF AbstractSem!Enter
  <2>6. ASSUME NEW p \in Env, SignalMove(p) PROVE AbstractSem!Leave(p) \/ AbstractSem!Post(p)
    <3>1. /\ Signaling' = Signaling \union {p} /\ p \notin Signaling /\ count' = count
        BY <2>6 DEF SignalMove, SemIdle, Moves, Signaling, SignalPoints
    <3>2. Cardinality(Signaling') = Cardinality(Signaling) + 1
        BY <2>1, <3>1, FS_AddElement
    <3>3. /\ SemMode(p)' = "out" /\ SemMode(p) \in {"in", "out"}
          /\ \A q \in Env : q # p => SemMode(q)' = SemMode(q)
        BY <2>6 DEF SignalMove, Moves, SemMode, InPoints, WaitPoints, SleepPoints
    <3>4. permits' = permits + 1
        BY <2>1, <3>1, <3>2
    <3>5. QED
        BY <3>3, <3>4 DEF AbstractSem!Leave, AbstractSem!Post
  <2>7. ASSUME NEW p \in Env, CountMove(p)
        PROVE  [AbstractSem!AbsNext]_(AbstractSem!absVars)
    <3>1. /\ Signaling' = Signaling \ {p} /\ p \in Signaling /\ count' = count + 1
          /\ \A q \in Env : SemMode(q)' = SemMode(q)
        BY <2>7 DEF CountMove, Moves, Signaling, SignalPoints, SemMode, InPoints, WaitPoints,
           SleepPoints
    <3>2. Cardinality(Signaling') = Cardinality(Signaling) - 1
        BY <2>1, <3>1, FS_RemoveElement
    <3>3. permits' = permits
        BY <2>1, <3>1, <3>2
    <3>4. QED
        BY <3>1, <3>3
  <2>8. QED
      BY <2>2, <2>3, <2>4, <2>5, <2>6, <2>7, SemNextMoves DEF SemMove
<1>3. QED
    BY <1>1, <1>2, SemaphoreInv, PTL DEF SemSpec, ImplementsSemaphore, AbstractSem!AbsSpec
=============================================================================
