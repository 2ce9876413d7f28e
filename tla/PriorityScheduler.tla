------------------------- MODULE PriorityScheduler -------------------------
(***************************************************************************)
(* The process queues (kern/cpu/sched_helpers.c) under the priority        *)
(* round-robin scheduler (fos_scheduler_PRIRR and the aging in             *)
(* clock_interrupt_handler, kern/cpu/sched.c).                             *)
(*                                                                         *)
(* Kernel shows that a section under the queues lock runs with interrupts  *)
(* off, and that the clock handler and the scheduler are not interrupted,  *)
(* so each of these is one step here: a clock interrupt is the aging,      *)
(* yield and the next dispatch; a system call that gives up the CPU ends   *)
(* with the dispatch.  env_set_priority drops the lock twice: it has a     *)
(* step for each section and the clock may come between them.              *)
(***************************************************************************)
EXTENDS Integers, Sequences, FiniteSets, FiniteSetsExt

CONSTANTS Env,          \* the slots of envs[]
          NULL,
          Levels,       \* numOfPriorities given to sched_init_PRIRR
          Thresholds,   \* starvation thresholds given to it
          SizeMod       \* 2^32 in the code

HasGreatest(S) == \E m \in S : \A n \in S : n <= m

ASSUME PrirrAssumption ==
    /\ IsFiniteSet(Env) /\ NULL \notin Env
    /\ Levels \subseteq Nat \ {0} /\ HasGreatest(Levels)
    /\ Thresholds \subseteq Nat /\ HasGreatest(Thresholds)
    /\ SizeMod \in Nat /\ SizeMod > Cardinality(Env)

ReadyQ(i) == <<"ready", i>>
NewQ  == <<"new", 0>>
ExitQ == <<"exit", 0>>
ChanQ == <<"chan", 0>>

Priority == 0 .. Max(Levels) - 1
Queue    == {ReadyQ(i) : i \in Priority} \union {NewQ, ExitQ, ChanQ}

INSTANCE LinkedList WITH Elm <- Env, List <- Queue

VARIABLES ps,       \* queues, and status, priority, nTicks of each process,
                    \* and cur, the process on the CPU
          nq,       \* num_of_ready_queues
          thresh,   \* starvation_threshold
          call,     \* where each process is in env_set_priority
          parent    \* env_parent_id; NULL for one created from the prompt

vars == <<ps, nq, thresh, call, parent>>

NoCall == [at |-> "none", env |-> NULL, pri |-> 0]

-----------------------------------------------------------------------------
(* sched_helpers.c, on the record s of queues and process fields           *)

SetStatus(s, e, st) == [s EXCEPT !.status[e] = st]

enqueue(s, q, e) == [s EXCEPT !.h = LIST_INSERT_HEAD(@, q, e)]
remove_from_queue(s, q, e) == [s EXCEPT !.h = LIST_REMOVE(@, q, e)]

sched_insert_ready(s, e) ==
    enqueue([SetStatus(s, e, "READY") EXCEPT !.nTicks[e] = 0],
            ReadyQ(s.priority[e]), e)

sched_insert_new(s, e)  == enqueue(SetStatus(s, e, "NEW"), NewQ, e)
sched_insert_exit(s, e) == enqueue(SetStatus(s, e, "EXIT"), ExitQ, e)

sched_remove_new(s, e) ==
    SetStatus(remove_from_queue(s, NewQ, e), e, "UNKNOWN")

\* sched_run_env, up to the entry of fos_scheduler: nothing happens unless
\* the process is in the NEW queue.
sched_run_env(s, e) ==
    IF In(s.h, NewQ, e) THEN sched_insert_ready(sched_remove_new(s, e), e)
                        ELSE s

\* dequeue takes the last element, if there is one; it is inserted as READY.
MoveLast(s, q) ==
    LET e == s.h.last[q] IN
    IF e = NULL THEN s ELSE sched_insert_ready(remove_from_queue(s, q, e), e)

\* As often as the queue had elements.
MoveAll(s, q) ==
    LET moved[n \in 0 .. s.h.size[q]] ==
            IF n = 0 THEN s ELSE MoveLast(moved[n - 1], q)
    IN  moved[s.h.size[q]]

sched_run_all(s) == MoveAll(s, NewQ)
wakeup_all(s)    == MoveAll(s, ChanQ)

-----------------------------------------------------------------------------
(* sched.c                                                                 *)

\* Mutation: the lowest level is searched first.
fos_scheduler_PRIRR_lowest(s) ==
    LET r == IF s.cur # NULL THEN enqueue(s, ReadyQ(s.priority[s.cur]), s.cur)
                             ELSE s
        busy == {i \in 0 .. nq - 1 : r.h.size[ReadyQ(i)] # 0}
        q == ReadyQ(Max(busy))
        e == r.h.last[q]
    IN  IF busy = {} \/ e = NULL THEN [r EXCEPT !.cur = NULL]
        ELSE [remove_from_queue(r, q, e) EXCEPT !.cur = e]

\* The process that came back READY goes to the queue of its priority; the
\* oldest of the first queue whose size is not 0 is next.
fos_scheduler_PRIRR(s) ==
    LET r == IF s.cur # NULL THEN enqueue(s, ReadyQ(s.priority[s.cur]), s.cur)
                             ELSE s
        busy == {i \in 0 .. nq - 1 : r.h.size[ReadyQ(i)] # 0}
        q == ReadyQ(Min(busy))
        e == r.h.last[q]
    IN  IF busy = {} \/ e = NULL THEN [r EXCEPT !.cur = NULL]
        ELSE [remove_from_queue(r, q, e) EXCEPT !.cur = e]

\* fos_scheduler: choose, mark RUNNING and switch to it.
fos_scheduler(s) ==
    LET r == fos_scheduler_PRIRR(s) IN
    IF r.cur = NULL THEN r ELSE SetStatus(r, r.cur, "RUNNING")

\* sched() by a process that has blocked or exited: it leaves the CPU.
sched(s) == fos_scheduler([s EXCEPT !.cur = NULL])

\* env_exit of the process on the CPU: also what panic() does to it.
env_exit(s, p) == sched(sched_insert_exit(s, p))

\* Mutation: a promoted process keeps its place in the queue it came from.
AgeEnv_keeps_queue(s, e) ==
    IF s.priority[e] = 0 THEN s
    ELSE IF s.nTicks[e] > thresh
    THEN [s EXCEPT !.priority[e] = @ - 1, !.nTicks[e] = 0]
    ELSE [s EXCEPT !.nTicks[e] = @ + 1]

\* Mutation: the ticks of a process that is not promoted are forgotten.
AgeEnv_no_count(s, e) == s

\* One iteration of the aging loop.
AgeEnv(s, e) ==
    IF s.priority[e] = 0 THEN s
    ELSE IF s.nTicks[e] > thresh
    THEN LET out == remove_from_queue(s, ReadyQ(s.priority[e]), e)
         IN  sched_insert_ready([out EXCEPT !.priority[e] = @ - 1], e)
    ELSE [s EXCEPT !.nTicks[e] = @ + 1]

\* LIST_FOREACH over one ready queue (ListOperations: it visits what the
\* queue held when it began), for each queue in order.
AgeQueue(s, q) ==
    LET w == Walk(s.h, q)
        aged[n \in 0 .. Len(w)] == IF n = 0 THEN s ELSE AgeEnv(aged[n - 1], w[n])
    IN  aged[Len(w)]

AgeQueues(s) ==
    LET aged[i \in 0 .. nq] ==
            IF i = 0 THEN s ELSE AgeQueue(aged[i - 1], ReadyQ(i - 1))
    IN  aged[nq]

-----------------------------------------------------------------------------
(* The CPU runs a program                                                  *)

Running(p) == ps.cur = p
InUser(p)  == Running(p) /\ call[p] = NoCall

Unchanged == UNCHANGED <<nq, thresh, call, parent>>

\* The clock interrupt: age the waiting processes, then yield.
Tick == fos_scheduler(SetStatus(AgeQueues(ps), ps.cur, "READY"))

clock_interrupt_handler ==
    /\ ps.cur # NULL
    /\ ps' = Tick
    /\ UNCHANGED <<nq, thresh, call, parent>>

sys_create_env(p, e) ==
    /\ InUser(p)
    /\ ps.status[e] = "FREE"
    /\ ps' = sched_insert_new(ps, e)
    /\ parent' = [parent EXCEPT ![e] = p]
    /\ UNCHANGED <<nq, thresh, call>>

sys_run_env(p, e) == InUser(p) /\ ps' = sched_run_env(ps, e) /\ Unchanged

sleep(p) ==
    /\ InUser(p)
    /\ ps' = sched(enqueue(SetStatus(ps, p, "BLOCKED"), ChanQ, p))
    /\ Unchanged

wakeup(p) == InUser(p) /\ ps' = wakeup_all(ps) /\ Unchanged

sys_exit_env(p) == InUser(p) /\ ps' = env_exit(ps, p) /\ Unchanged

-----------------------------------------------------------------------------
(* env_set_priority, from the system call                                  *)

Step(p, at) == call' = [call EXCEPT ![p].at = at]

\* Mutation: the new priority is not compared with the number of queues.
env_set_priority_check_no_range(p, e, pri) ==
    /\ InUser(p)
    /\ ps.status[e] # "FREE"
    /\ call' = [call EXCEPT ![p] = [env |-> e, pri |-> pri,
                    at |-> IF ps.status[e] = "READY" THEN "remove" ELSE "set"]]
    /\ UNCHANGED <<ps, nq, thresh, parent>>

\* The range test, which panics and so exits the caller, the look-up of the
\* process and the test of its status.
env_set_priority_check(p, e, pri) ==
    /\ InUser(p)
    /\ ps.status[e] # "FREE"
    /\ IF pri < nq
       THEN /\ call' = [call EXCEPT ![p] = [env |-> e, pri |-> pri,
                    at |-> IF ps.status[e] = "READY" THEN "remove" ELSE "set"]]
            /\ UNCHANGED ps
       ELSE ps' = env_exit(ps, p) /\ UNCHANGED call
    /\ UNCHANGED <<nq, thresh, parent>>

env_set_priority_remove(p) ==
    LET e == call[p].env IN
    /\ Running(p) /\ call[p].at = "remove"
    /\ ps' = remove_from_queue(ps, ReadyQ(ps.priority[e]), e)
    /\ Step(p, "assign")
    /\ UNCHANGED <<nq, thresh, parent>>

env_set_priority_assign(p) ==
    /\ Running(p) /\ call[p].at = "assign"
    /\ ps' = [ps EXCEPT !.priority[call[p].env] = call[p].pri]
    /\ Step(p, "insert")
    /\ UNCHANGED <<nq, thresh, parent>>

env_set_priority_insert(p) ==
    /\ Running(p) /\ call[p].at = "insert"
    /\ ps' = sched_insert_ready(ps, call[p].env)
    /\ call' = [call EXCEPT ![p] = NoCall]
    /\ UNCHANGED <<nq, thresh, parent>>

\* The branch of a process that was not READY.
env_set_priority_set(p) ==
    /\ Running(p) /\ call[p].at = "set"
    /\ ps' = [ps EXCEPT !.priority[call[p].env] = call[p].pri]
    /\ call' = [call EXCEPT ![p] = NoCall]
    /\ UNCHANGED <<nq, thresh, parent>>

\* The queues that sched_kill_env searches.
Searched == {NewQ, ExitQ} \union {ReadyQ(i) : i \in 0 .. nq - 1}
Found(e) == \E q \in Searched : In(ps.h, q, e)

\* Found: out of its queue, and env_free clears the slot and frees it.
env_free(s, e) ==
    LET q == CHOOSE x \in Searched : In(s.h, x, e) IN
    [SetStatus(remove_from_queue(s, q, e), e, "FREE")
        EXCEPT !.priority[e] = 0, !.nTicks[e] = 0]

\* sys_destroy_env of another process: env_free ends in panic("env_free() is
\* not implemented yet...!!"), which exits the caller; for a process that is
\* not found nothing is done, and the caller is told it succeeded.
sys_destroy_env(p, e) ==
    /\ InUser(p) /\ e # p
    /\ ps.status[e] # "FREE"
    /\ IF Found(e)
       THEN ps' = env_exit(env_free(ps, e), p)
       ELSE UNCHANGED ps
    /\ UNCHANGED <<nq, thresh, call, parent>>

-----------------------------------------------------------------------------
(* The command prompt: no process on the CPU, none BLOCKED                 *)

AtPrompt ==
    /\ ps.cur = NULL
    /\ \A e \in Env : ps.status[e] # "BLOCKED"

\* load: CreateEnv gives the process its priority before it is in a queue.
\* (A priority out of range panics, which returns to the prompt.)
load(e, pri) ==
    /\ AtPrompt
    /\ ps.status[e] = "FREE"
    /\ pri < nq
    /\ ps' = sched_insert_new([ps EXCEPT !.priority[e] = pri], e)
    /\ parent' = [parent EXCEPT ![e] = NULL]
    /\ UNCHANGED <<nq, thresh, call>>

runall ==
    /\ AtPrompt
    /\ ps' = fos_scheduler(sched_run_all(ps))
    /\ Unchanged

setPri(e, pri) ==
    /\ AtPrompt
    /\ ps.status[e] # "FREE" /\ pri < nq
    /\ ps' = [ps EXCEPT !.priority[e] = pri]
    /\ Unchanged

\* kill: the panic at the end of env_free returns to the prompt.
kill(e) ==
    /\ AtPrompt
    /\ Found(e)
    /\ ps' = env_free(ps, e)
    /\ Unchanged

setStarvThr(t) ==
    /\ AtPrompt
    /\ thresh' = t
    /\ UNCHANGED <<ps, nq, call, parent>>

\* The sched command again: new, empty ready queues.
sched_init_PRIRR(n, t) ==
    /\ AtPrompt
    /\ nq' = n /\ thresh' = t
    /\ ps' = [ps EXCEPT !.h.first = [q \in Queue |-> IF q[1] = "ready" THEN NULL ELSE @[q]],
                        !.h.last = [q \in Queue |-> IF q[1] = "ready" THEN NULL ELSE @[q]],
                        !.h.size = [q \in Queue |-> IF q[1] = "ready" THEN 0 ELSE @[q]]]
    /\ UNCHANGED <<call, parent>>

\* Nothing READY and someone BLOCKED: the outer loop of fos_scheduler spins.
SchedulerSpins ==
    /\ ps.cur = NULL /\ ~AtPrompt
    /\ UNCHANGED vars

-----------------------------------------------------------------------------
Init ==
    /\ nq \in Levels /\ thresh \in Thresholds
    /\ ps = [h |-> [first |-> [q \in Queue |-> NULL], last |-> [q \in Queue |-> NULL],
                    size |-> [q \in Queue |-> 0],
                    next |-> [e \in Env |-> NULL], prev |-> [e \in Env |-> NULL]],
             status |-> [e \in Env |-> "FREE"], priority |-> [e \in Env |-> 0],
             nTicks |-> [e \in Env |-> 0], cur |-> NULL]
    /\ call = [e \in Env |-> NoCall]
    /\ parent = [e \in Env |-> NULL]

SetPriorityStep(p) ==
    \/ env_set_priority_remove(p) \/ env_set_priority_assign(p)
    \/ env_set_priority_insert(p) \/ env_set_priority_set(p)

Prompt ==
    \/ \E e \in Env, pri \in Priority : load(e, pri) \/ setPri(e, pri)
    \/ runall
    \/ \E e \in Env : kill(e)
    \/ \E t \in Thresholds : setStarvThr(t)

Program(p) ==
    \/ \E e \in Env : sys_create_env(p, e)
    \/ sleep(p) \/ wakeup(p) \/ sys_exit_env(p)

\* Programs that change only their own priority, or that of a process they
\* created and have not run yet, and that run only processes they created.
Mine(p, e) == e = p \/ (parent[e] = p /\ ps.status[e] = "NEW")

\* A sched command that leaves a queue for every process that is loaded: no
\* code looks at the priorities given under more levels, and run would put
\* such a process beyond the end of env_ready_queues.
Enough(n) == \A e \in Env : ps.status[e] = "NEW" => ps.priority[e] < n

Next ==
    \/ Prompt \/ SchedulerSpins \/ clock_interrupt_handler
    \/ \E n \in Levels, t \in Thresholds : Enough(n) /\ sched_init_PRIRR(n, t)
    \/ \E p \in Env :
         \/ Program(p)
         \/ \E e \in Env : Mine(p, e) /\ e # p /\ sys_run_env(p, e)
         \/ \E e \in Env, pri \in 0 .. nq : Mine(p, e) /\ env_set_priority_check(p, e, pri)
         \/ env_set_priority_set(p)

\* Time passes while programs run: a clock interrupt that would change
\* something comes in the end.  Nothing is assumed of the programs.  (This is
\* WF_vars(clock_interrupt_handler) with its ENABLED written out.)
TickMatters == ps.cur # NULL /\ Tick # ps
ClockTicks  == []<>~TickMatters \/ []<><<clock_interrupt_handler>>_vars

Spec     == Init /\ [][Next]_vars
FairSpec == Spec /\ ClockTicks

\* Everything the system calls and the prompt allow.
NextAll ==
    \/ Next
    \/ \E n \in Levels, t \in Thresholds : sched_init_PRIRR(n, t)
    \/ \E p \in Env :
         \/ \E e \in Env : sys_run_env(p, e) \/ sys_destroy_env(p, e)
         \/ \E e \in Env, pri \in 0 .. nq : env_set_priority_check(p, e, pri)
         \/ SetPriorityStep(p)

SpecAll == Init /\ [][NextAll]_vars

-----------------------------------------------------------------------------
Statuses == {"FREE", "UNKNOWN", "NEW", "READY", "RUNNING", "BLOCKED", "EXIT"}

\* The fields keep their types; a process never waits longer than one tick
\* past the threshold without moving up.
TypeOK ==
    /\ ps.h \in Heap
    /\ ps.status \in [Env -> Statuses] /\ ps.priority \in [Env -> Priority]
    /\ ps.nTicks \in [Env -> 0 .. Max(Thresholds) + 1]
    /\ ps.cur \in Pointer
    /\ nq \in Levels /\ thresh \in Thresholds

\* inc/queue.h:114, of the size of a list: "maintained by list functions".
\* Every queue of processes is a well-formed list whose size is its length:
\* no process was removed from a queue it was not in.
QueuesMaintained ==
    \A q \in Queue : Represents(ps.h, q, Walk(ps.h, q))

\* The queue a process is in is the one its status and its priority name,
\* also while it ages, is promoted, changes its priority, blocks and wakes,
\* and the priority of a READY process is below the number of ready queues
\* (sched_helpers.c:145-252, 704-705, sched.c:325-343, 356-378).
HomeQueue(e) ==
    CASE ps.status[e] = "NEW"     -> {NewQ}
      [] ps.status[e] = "READY"   -> {ReadyQ(ps.priority[e])}
      [] ps.status[e] = "BLOCKED" -> {ChanQ}
      [] ps.status[e] = "EXIT"    -> {ExitQ}
      [] OTHER                    -> {}

QueuesMatchStatus ==
    /\ \A e \in Env : {q \in Queue : In(ps.h, q, e)} = HomeQueue(e)
    /\ \A e \in Env : ps.status[e] = "RUNNING" <=> ps.cur = e
    /\ \A e \in Env : ps.status[e] = "READY" => ps.priority[e] < nq

\* A dispatch, by the clock or by a process that blocks or exits, never
\* chooses a process while one of a higher priority is READY: the aging, the
\* queueing and the choice together keep the priority order
\* (sched.c:314-343).
HighestPriorityFirst ==
    [][(ps'.cur # NULL /\ (ps'.cur # ps.cur \/ clock_interrupt_handler))
         => \A e \in Env : ps'.status[e] = "READY"
                             => ps'.priority[e] >= ps'.priority[ps'.cur]]_vars

\* Aging prevents starvation: a READY process eventually gets the CPU however
\* low its priority, whatever processes of higher priority do
\* (sched.c:356-378).
NoStarvation == \A e \in Env : ps.status[e] = "READY" ~> ps.cur = e
=============================================================================
