------------------------------ MODULE SyncTests ------------------------------
(***************************************************************************)
(* The synchronisation tests (user/tst_ksemaphore_*.c, user/tst_chan_*.c): *)
(* a master creates a channel or two kernel semaphores, runs slaves and    *)
(* waits for them, and both sides check counts on the way.  A master of a  *)
(* channel looks, and sleeps between two looks, as often as there are      *)
(* slaves, then gives up.                                                  *)
(***************************************************************************)
EXTENDS UserPrograms

CONSTANTS NumOfSlaves, ShopCapacity

SyncTestNames == {"ksem1", "ksem2", "chan_all", "chan_one"}
SyncSlaves == 1..NumOfSlaves
Master0 == 0

SyncInit ==
    \E test \in SyncTestNames :
        /\ program = test
        /\ pc = [p \in SyncSlaves \cup {Master0} |->
                    IF p # Master0 THEN "start" ELSE IF test \in {"ksem1", "ksem2"} THEN "collect" ELSE "poll"]
        /\ sem = [s \in {"cs", "depend", "chan"} |->
                     create_semaphore(IF s # "cs" THEN 0 ELSE IF test = "ksem2" THEN ShopCapacity ELSE 1)]
        /\ mem = [tst |-> 0, waited |-> FALSE]
        /\ local = [p \in SyncSlaves \cup {Master0} |-> 0]

-----------------------------------------------------------------------------
(* The two tests of the kernel's semaphores.                               *)

Permits == IF program = "ksem2" THEN ShopCapacity ELSE 1

ksem_enter(p) == Goto(p, "start", "inside") /\ wait_ksemaphore("cs") /\ OnlySem

\* In the first test the slave checks that no permit is left while it is inside.
ksem_check(p) ==
    /\ Goto(p, "inside", IF program = "ksem1" /\ sem["cs"].count > 0 THEN "panic" ELSE "leave")
    /\ OnlyPc
ksem_leave(p) == Goto(p, "leave", "finish") /\ signal_ksemaphore("cs") /\ OnlySem
ksem_finish(p) == Goto(p, "finish", "done") /\ signal_ksemaphore("depend") /\ OnlySem

\* The master waits once for each slave and then compares both counts.
ksem_collect(p) ==
    /\ Goto(p, "collect", IF local[p] = NumOfSlaves - 1 THEN "compare" ELSE "collect")
    /\ wait_ksemaphore("depend")
    /\ local' = [local EXCEPT ![p] = @ + 1] /\ UNCHANGED <<program, mem>>
ksem_compare(p) ==
    /\ Goto(p, "compare", IF sem["cs"].count = Permits /\ sem["depend"].count = 0 THEN "done" ELSE "panic")
    /\ OnlyPc

ksem1Slave(p) == ksem_enter(p) \/ ksem_check(p) \/ ksem_leave(p) \/ ksem_finish(p)
ksem2Slave(p) == ksem_enter(p) \/ ksem_check(p) \/ ksem_leave(p) \/ ksem_finish(p)
ksem1(p) == ksem_collect(p) \/ ksem_compare(p)
ksem2(p) == ksem_collect(p) \/ ksem_compare(p)

-----------------------------------------------------------------------------
(* The two tests of a channel.                                             *)

Chan == sem["chan"].queue
SetChan(q) == sem' = [sem EXCEPT !["chan"].queue = q]

chan_sleep(p, to) == Goto(p, "start", to) /\ SetChan(Append(Chan, p)) /\ OnlySem

\* __WakeupOne__, __WakeupAll__
WakeupOne == SetChan(IF Chan = <<>> THEN Chan ELSE Tail(Chan))
WakeupAll == SetChan(<<>>)

inctst(p, from, to) ==
    Goto(p, from, to) /\ mem' = [mem EXCEPT !.tst = @ + 1] /\ OnlyMem

\* The slave of "all" counts itself and ends.
tstChanAllSlave(p) == chan_sleep(p, "woken") \/ inctst(p, "woken", "done")

\* The slave of "one" reads how many sleep, then how many woke up, checks that
\* these are all the others, counts itself and wakes the next.
chan_blocked(p) == Goto(p, "woken", "awake") /\ local' = [local EXCEPT ![p] = Len(Chan)] /\ OnlyLocal
chan_awake(p) ==
    /\ Goto(p, "awake", IF mem.tst + local[p] = NumOfSlaves - 1 THEN "count" ELSE "panic")
    /\ OnlyPc
chan_next(p) == Goto(p, "next", "done") /\ WakeupOne /\ OnlySem
tstChanOneSlave(p) ==
    \/ chan_sleep(p, "woken") \/ chan_blocked(p) \/ chan_awake(p)
    \/ inctst(p, "count", "next") \/ chan_next(p)

\* A look at what the master waits for, and after a sleep another look, or
\* giving up.  The last sleep is not followed by a look.
Look(p, from, seen, to, sleep) == Goto(p, from, IF seen THEN to ELSE sleep) /\ OnlyPc
Sleep(p, from, to) ==
    /\ IF local[p] = NumOfSlaves
       THEN Goto(p, from, "late") /\ UNCHANGED <<mem, local>>
       ELSE /\ Goto(p, from, to) /\ local' = [local EXCEPT ![p] = @ + 1]
            /\ mem' = [mem EXCEPT !.waited = @ \/ OthersRest(p)]
    /\ UNCHANGED <<program, sem>>

\* Until everyone sleeps on the channel.
chan_poll(p) == Look(p, "poll", Len(Chan) = NumOfSlaves, "wake", "poll_sleep")
chan_poll_sleep(p) == Sleep(p, "poll_sleep", "poll")

\* The counter is reset, and slaves are woken up.
chan_wake(p) ==
    /\ Goto(p, "wake", "rest")
    /\ IF program = "chan_all" THEN WakeupAll ELSE WakeupOne
    /\ mem' = [tst |-> 0, waited |-> FALSE]
    /\ local' = [local EXCEPT ![p] = 0] /\ UNCHANGED program

\* Until everyone has counted.
chan_rest(p) == Look(p, "rest", mem.tst = NumOfSlaves, "done", "rest_sleep")
chan_rest_sleep(p) == Sleep(p, "rest_sleep", "rest")

chan_master(p) ==
    chan_poll(p) \/ chan_poll_sleep(p) \/ chan_wake(p) \/ chan_rest(p) \/ chan_rest_sleep(p)
tstChanAll(p) == chan_master(p)
tstChanOne(p) == chan_master(p)

SyncStep(p) ==
    \/ program = "ksem1" /\ IF p = Master0 THEN ksem1(p) ELSE ksem1Slave(p)
    \/ program = "ksem2" /\ IF p = Master0 THEN ksem2(p) ELSE ksem2Slave(p)
    \/ program = "chan_all" /\ IF p = Master0 THEN tstChanAll(p) ELSE tstChanAllSlave(p)
    \/ program = "chan_one" /\ IF p = Master0 THEN tstChanOne(p) ELSE tstChanOneSlave(p)

-----------------------------------------------------------------------------
\* The master has woken up a slave, or all, and not given up since.
Woken == pc[Master0] \in {"rest", "rest_sleep", "done"}

\* In the test of wakeup_one one slave at a time is awake and uncounted once
\* the master has started the chain, so its two reads, of the sleepers and of
\* the counter, belong together although nothing makes them atomic
\* (user/tst_chan_one_slave.c:17-31).
WakeupsChained ==
    program = "chan_one" /\ Woken =>
        LET uncounted == {p \in SyncSlaves : pc[p] \in {"woken", "awake", "count"} /\ ~Blocked(p)}
            passing == {p \in SyncSlaves : pc[p] = "next"}
        IN  /\ Cardinality(uncounted \cup passing) = IF mem.tst = NumOfSlaves /\ passing = {} THEN 0 ELSE 1
            /\ Cardinality(uncounted) + Len(Chan) + mem.tst = NumOfSlaves

\* In the test of wakeup_all every slave sleeps when the master wakes them up,
\* none sleeps after that, and each counts itself once, none early
\* (user/tst_chan_all_master.c:35-65, user/tst_chan_all_slave.c:11-16).
WokenAll ==
    program = "chan_all" =>
        /\ mem.tst = Cardinality({p \in SyncSlaves : pc[p] = "done"})
        /\ pc[Master0] \in {"poll", "poll_sleep", "wake"} =>
              \A p \in SyncSlaves : pc[p] = "start" \/ Blocked(p)
        /\ pc[Master0] = "wake" \/ Woken => \A p \in SyncSlaves : pc[p] # "start"
        /\ Woken => Chan = <<>>
=============================================================================
