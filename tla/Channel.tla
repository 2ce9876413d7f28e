------------------------------ MODULE Channel ------------------------------
(***************************************************************************)
(* kern/conc/channel.c: processes block on a channel and are moved back to *)
(* the ready queue by a wakeup.  The spinlock a sleeper hands to sleep is  *)
(* the guard of the object the channel belongs to.                         *)
(***************************************************************************)
EXTENDS Kernel

VARIABLE chan     \* chan->queue, next to dequeue first

\* sleep(chan, lk), entered with the guard held: lock the queues, release the
\* guard, block, enqueue and switch; when awake, take the guard back before
\* the queues lock the scheduler handed over is released.
sleep_acquire(p) ==
    /\ At(p, "sleep_acquire")
    /\ acquire_kspinlock("qlock")
    /\ Goto(p, "sleep_unguard")
    /\ UNCHANGED <<exec, proc, clk, status, ready, ret, saved, spc, chan>>

\* Mutation: the sleeper keeps the guard.
sleep_unguard_dropped(p) ==
    /\ At(p, "sleep_unguard")
    /\ Goto(p, "sleep_sched")
    /\ UNCHANGED <<exec, proc, ien, clk, ncli, intena, locked, kstate, status,
                   ready, ret, saved, spc, chan>>

sleep_unguard(p) ==
    /\ At(p, "sleep_unguard")
    /\ release_kspinlock("guard")
    /\ Goto(p, "sleep_sched")
    /\ UNCHANGED <<exec, proc, clk, status, ready, ret, saved, spc, chan>>

\* Mutation: the sleeper is not put in the channel.
sleep_sched_unqueued(p) ==
    /\ At(p, "sleep_sched")
    /\ status' = [status EXCEPT ![p] = "BLOCKED"]
    /\ sched(p, "BLOCKED")
    /\ Goto(p, "sleep_reguard")
    /\ UNCHANGED <<proc, ien, clk, ncli, intena, locked, ready, ret, chan>>

sleep_sched(p) ==
    /\ At(p, "sleep_sched")
    /\ status' = [status EXCEPT ![p] = "BLOCKED"]
    /\ chan' = enqueue(chan, p)
    /\ sched(p, "BLOCKED")
    /\ Goto(p, "sleep_reguard")
    /\ UNCHANGED <<proc, ien, clk, ncli, intena, locked, ready, ret>>

sleep_reguard(p) ==
    /\ At(p, "sleep_reguard")
    /\ acquire_kspinlock("guard")
    /\ Goto(p, "sleep_release")
    /\ UNCHANGED <<exec, proc, clk, status, ready, ret, saved, spc, chan>>

sleep_release(p, to) ==
    /\ At(p, "sleep_release")
    /\ release_kspinlock("qlock")
    /\ Goto(p, to)
    /\ UNCHANGED <<exec, proc, clk, status, ready, ret, saved, spc, chan>>

sleep(p, to) ==
    \/ sleep_acquire(p) \/ sleep_unguard(p) \/ sleep_sched(p)
    \/ sleep_reguard(p) \/ sleep_release(p, to)

-----------------------------------------------------------------------------
wakeup_acquire(p, from, to) ==
    /\ At(p, from)
    /\ acquire_kspinlock("qlock")
    /\ Goto(p, to)
    /\ UNCHANGED <<exec, proc, clk, status, ready, ret, saved, spc, chan>>

\* The loop of wakeup_all: every sleeper is dequeued and made READY, in the
\* order in which they went to sleep.
wakeup_all_move(p) ==
    /\ At(p, "wakeup_all_move")
    /\ PanicUnless(locked["qlock"] = 1)
    /\ status' = [q \in Env |-> IF \E i \in DOMAIN chan : chan[i] = q
                                THEN "READY" ELSE status[q]]
    /\ ready' = ready \o chan
    /\ chan' = <<>>
    /\ Goto(p, "wakeup_release")
    /\ UNCHANGED <<exec, proc, ien, clk, ncli, intena, locked, ret, saved, spc>>

wakeup_one_move(p) ==
    /\ At(p, "wakeup_one_move")
    /\ PanicUnless(locked["qlock"] = 1)
    /\ IF chan # <<>> THEN sched_insert_ready(Head(chan)) /\ chan' = Tail(chan)
                      ELSE UNCHANGED <<status, ready, chan>>
    /\ Goto(p, "wakeup_release")
    /\ UNCHANGED <<exec, proc, ien, clk, ncli, intena, locked, ret, saved, spc>>

wakeup_release(p, to) ==
    /\ At(p, "wakeup_release")
    /\ release_kspinlock("qlock")
    /\ Goto(p, to)
    /\ UNCHANGED <<exec, proc, clk, status, ready, ret, saved, spc, chan>>

wakeup_all(p, to) ==
    \/ wakeup_acquire(p, "wakeup_all", "wakeup_all_move")
    \/ wakeup_all_move(p) \/ wakeup_release(p, to)

wakeup_one(p, to) ==
    \/ wakeup_acquire(p, "wakeup_one", "wakeup_one_move")
    \/ wakeup_one_move(p) \/ wakeup_release(p, to)

-----------------------------------------------------------------------------
SleepPoints  == {"sleep_acquire", "sleep_unguard", "sleep_sched",
                 "sleep_reguard", "sleep_release"}
WakeupPoints == {"wakeup_all", "wakeup_all_move", "wakeup_one",
                 "wakeup_one_move", "wakeup_release"}

\* The channel holds every BLOCKED process exactly once and nobody else.
ChannelDiscipline ==
    /\ IsInjective(chan)
    /\ \A p \in Env : p \in Range(chan) <=> status[p] = "BLOCKED"
=============================================================================
