# Verification of the FOS kernel

FOS is a teaching kernel for one i386 CPU: programs run in user mode, enter
the kernel through traps, are preempted by the clock, block on channels and
share memory and a page file.  This directory holds TLA+ models of its parts,
TLC configurations that check them on small instances, and TLAPS proofs of the
properties that matter most.  Paths below are relative to `src/`.

The models are of the build with the kernel heap on (`USE_KHEAP = 1`), which
most of the code needs.  The commit itself has `#define USE_KHEAP 0`
(`inc/memlayout.h:18`): with it heap, working set, faults beyond placement and
sharing are compiled to panics, and only the scheduler, the locks, the console
and the prompt are as modelled.

## Inventory

| component | state | operations | interacts with |
|---|---|---|---|
| CPU, spinlocks (`kern/cpu/cpu.c`, `kern/conc/kspinlock.c`) | `ncli`, `intena`, `proc`, interrupt flag, `locked` of each lock | `pushcli`, `popcli`, `acquire_kspinlock`, `release_kspinlock`, `holding_kspinlock` | everything that holds a lock |
| Scheduler loop (`kern/cpu/sched.c`, `kern/cpu/context_switch.S`) | `c->proc`, statuses, ready queues, scheduler status | `fos_scheduler`, `fos_scheduler_RR`, `fos_scheduler_PRIRR`, `sched`, `yield`, `clock_interrupt_handler` | trap handling, channels, kernel clock |
| Process queues (`kern/cpu/sched_helpers.c`, `inc/queue.h`) | NEW, ready and EXIT queues as doubly linked lists with a size, priorities, ticks | `enqueue`, `dequeue`, `sched_insert_*`, `sched_remove_*`, `sched_run_env`, `sched_exit_env`, `sched_kill_env`, `env_set_priority` | scheduler loop, system calls, prompt |
| Traps and clock (`kern/trap/trap.c`, `kern/trap/trapentry.S`, `kern/cpu/kclock.c`) | trap frames, IRQ0 mask, quantum | `trap`, `irq_dispatch`, `kclock_stop`, `kclock_resume`, `kclock_set_quantum` | scheduler, system calls, fault handler |
| Channels (`kern/conc/channel.c`) | queue of blocked processes | `sleep`, `wakeup_one`, `wakeup_all` | process queues, scheduler |
| Sleeplock (`kern/conc/sleeplock.c`) | lock word, guard, channel, holder | `acquire_sleeplock`, `release_sleeplock`, `holding_sleeplock` | channel |
| Semaphore (`kern/conc/ksemaphore.c`) | count, guard, channel | `wait_ksemaphore`, `signal_ksemaphore` | channel |
| Console and keyboard (`kern/cons/console.c`, `kern/trap/syscall.c`) | scan-code flags, ring buffer with read and write positions, screen and cursor | `kbd_proc_data`, `cons_intr`, `cons_getc`, `cons_getc2`, `cga_putc`, `sys_cgetc`, `sys_lock_cons`, `sys_unlock_cons` | interrupts, prompt, user programs |
| Command prompt (`kern/cmd/command_prompt.c`, `kern/cmd/command_readline.c`, `kern/cmd/commands.c`) | line, cursor, history, completions | `command_prompt_readline`, `run_command_prompt`, the commands | console, scheduler |
| Environments (`kern/proc/user_environment.c`) | `envs[]`, free list, ids with generation, page directories, kernel stacks | `env_create`, `env_free`, `envid2env`, `initialize_environment` | frames, page tables, page file, queues |
| Kernel heap (`kern/mem/kheap.c`) | page-allocator ranges and break, dynamic allocator | `kmalloc`, `kfree`, `krealloc`, address conversions | frames, page tables |
| Frames and page tables (`kern/mem/memory_manager.c`, `kern/mem/paging_helpers.c`) | free list, reference counts, directory and table entries | `allocate_frame`, `free_frame`, `map_frame`, `unmap_frame`, `get_page_table`, permission helpers | heap, fault handler, shared memory |
| Fault handler and working set (`kern/trap/fault_handler.c`, `kern/mem/working_set_manager.c`) | working-set list, clock hand, time stamps, page bits | placement and the OPTIMAL, CLOCK, LRU and modified CLOCK replacements | page tables, page file |
| Page file (`kern/disk/pagefile_manager.c`) | disk frames, disk page tables | `pf_add_empty_env_page`, `pf_update_env_page`, `pf_read_env_page`, `pf_remove_env_page` | fault handler |
| User memory (`kern/mem/chunk_operations.c`) | marked user-heap pages | `allocate_user_mem`, `free_user_mem` | working set, page file |
| Shared memory (`kern/mem/shared_memory_manager.c`) | share list, references, frames | `create_shared_object`, `get_shared_object`, `delete_shared_object` | heap, frames, page tables |
| User applications and tests (`user/`) | shared objects, semaphores, private variables | `_main` of each program | semaphores, console lock, sharing |
| Boot, kernel tests, working-set priorities, user library | | | drivers of the above, or not in the repository |

Shared state: every part above the CPU reaches the process queues through one
spinlock (`ProcessQueues.qlock`); channels hold their sleepers in a queue under
the same lock; the scheduler and the processes hand that lock to each other
across `context_switch`.  System calls run with interrupts on, so whatever they
touch without a spinlock is interleaved with other processes.

What makes the parts hard, and the properties that make them correct:

- **CPU, scheduler, traps**: the clock interrupts wherever interrupts are on;
  the interrupt flag and its nesting count belong to the CPU and travel with a
  process.  Correct when no panic is reachable, no lock is held with interrupts
  on, no process comes back from a blocking call with them off, and `c->proc`,
  the statuses and the ready queue agree.
- **Channel, sleeplock, semaphore**: `sleep` drops the guard before it has
  queued itself; `wakeup_all` wakes everybody for one permit.  Correct when no
  wakeup is lost, one process (or as many as permits) is inside, and everybody
  gets in.
- **Process queues and priorities**: intrusive linked lists that nothing
  checks; aging moves elements while a loop runs over them; `env_set_priority`
  tests before it locks.  Correct when every process is in the one queue its
  status and priority name, the highest priority runs first, and nobody starves.
- **Kernel heap**: three ways to move the break, three ways to resize, a
  reverse map from frames to pages, no lock.  Correct when allocations do not
  overlap, nothing leaks, contents survive, the placement is custom fit.
- **Frames, working set, page file**: a page is in memory, on disk, in both or
  in neither; the hand points into a list that evictions and frees change; a
  fault is handled by several attempts at the same instruction.  Correct when
  what a program wrote is what it finds, no frame of memory or disk is lost or
  given twice, the policies evict what they promise and every access completes.
- **Shared memory**: creation may stop half way with a lock held, `sget` is two
  calls.  Correct when an object is shared whole, counted right, and a read-only
  one is written by its owner alone.
- **Console and prompt**: interrupts fill a ring that nothing guards while a
  reader takes from it in three steps; the editor keeps array, cursor, last
  index, history and screen apart.  Correct when what is read is what was typed
  and what Enter executes is the line on the screen.
- **Applications**: protocols over several semaphores that start before their
  shared objects exist.  Correct when their own checks never fail, their results
  are those of a run alone, and they end.

## Modules

| module | models | notes |
|---|---|---|
| `Kernel` | `cpu.c`, `kspinlock.c`, the loop of `sched.c`, `sched`, `yield`, `env_exit`, `sched_run_env`, trap entry and return, the clock interrupt | one step between two points where an interrupt can matter |
| `Channel` | `channel.c` | extends `Kernel` |
| `Sleeplock`, `Ksemaphore` | `sleeplock.c`, `ksemaphore.c` with programs that use them | extend `Channel`: the full kernel runs beneath |
| `AbstractSemaphore` | what a semaphore promises: `permits`, and each client out, waiting or in | refined by `Sleeplock` and `Ksemaphore` |
| `LinkedList` | `inc/queue.h` as operators on a heap of heads and links | no state |
| `ListOperations` | any use of the macros, and `LIST_FOREACH` | mathematical sequences run beside |
| `PriorityScheduler` | `sched_helpers.c`, PRIRR and aging of `sched.c`, the scheduling commands | its queues are `LinkedList` heaps |
| `KHeap` | `kheap.c` on frames and the kernel page table | one step per call |
| `KHeapInterleaved` | `kmalloc` and `kfree` statement by statement | extends `KHeap` |
| `Frames` | `memory_manager.c`, `paging_helpers.c` | operators on a record `k`; the free list is a `LinkedList` heap |
| `PageFile` | `pagefile_manager.c` | extends `Frames`; its free list too is a `LinkedList` heap |
| `WorkingSet` | `working_set_manager.c`, the page fault handler's four policies, aging | extends `PageFile` |
| `VirtualMemory` | `fault_handler`, program loading, user memory, the count of OPTIMAL | extends `WorkingSet`; the state machine of the memory part |
| `SharedMemory` | `shared_memory_manager.c` and its system calls | on `Frames` |
| `Console` | `console.c`: keyboard, serial line, ring, screen | operators on a record |
| `ConsoleReaders` | `sys_cgetc`, console lock, interrupts and switches | on `Console` |
| `CommandPrompt` | `command_readline.c`, `command_prompt.c` | on `Console` |
| `UserPrograms` | what the applications share | one behaviour runs one application |
| `AirReservation`, `MidTermEx`, `ArrayOperations`, `SortPrograms`, `MatrixOperations`, `SyncTests` | the applications of `user/` | extend `UserPrograms`; composed in `MCUserPrograms` |
| `QueueLemmas` | lemmas: sequences without repetition, loops, induction | cited by all proofs |
| `ChannelProofs`, `ListProofs`, `PrioritySchedulerProofs`, `KHeapProofs`, `VirtualMemoryProofs`, `SharedMemoryProofs`, `ConsoleProofs` | the proofs | one module per component; `ChannelProofs` is about sleeplock and semaphore on what they share; `ListProofs` has the lemmas on the list macros that the scheduler and the free lists stand on |
| `MC*` | instances for TLC | |

### Kernel, Channel, Sleeplock, Ksemaphore

`exec` is the stack the CPU is on (a process, or the scheduler as `NoEnv`),
`proc` is `c->proc`, `ien` the interrupt flag, `clk` whether the clock can
interrupt (`kclock_stop` and `kclock_resume`), `ncli` and `intena` the fields
of the CPU, `locked` the word of each spinlock, `status` and `ready` the
process table and the one ready queue of round robin (first element next),
`pc` where each process is in the kernel, `ret` where an interrupted one goes
back to, `saved` the local `intena` of `sched()`, `spc` where the scheduler is.
A step is the code between two points where another process could get the CPU
or a lock changes hands; `acquire_kspinlock` panics if the lock is held, as the
code does on one CPU.  `clock_interrupt_handler` may happen at every step with
`ien = 1`, `clk = 1`; what follows (`yield`, the switch, the return) are steps
of their own.  A panic sets `kstate`; what `_panic` does next (`init.c:325-361`
exits the running process) is not followed here, because no panic is reachable.

Queues are sequences here; `PriorityScheduler` and `ListOperations` are where
the linked lists themselves are modelled.

### PriorityScheduler

`Kernel` shows that interrupts are off under the queues lock and in the clock
handler, so here each section under the lock is one step, and a clock interrupt
is the aging, `yield` and the dispatch together.  `ps.h` is the heap of links,
`ps.status`, `ps.priority`, `ps.nTicks` the fields of `struct Env`, `ps.cur` is
`c->proc`; `call` is where a process is in `env_set_priority`, which drops the
lock between its sections.  A panic in a system call exits the caller, as
`_panic` does (`init.c:345-350`); `env_free` always panics
(`user_environment.c:570`).  `Next` has programs that change the priority of
themselves and of children they have not run, and a `sched` command that leaves
a queue for every NEW process (`Enough`); `NextAll` has any number of levels and
also changes other processes, runs and destroys them.  A process that destroys itself
(`sys_destroy_env(0)`) frees its own slot, panics and lands in the prompt with
other processes READY; that and `sched_kill_all` are left for the module of
environments.

### KHeap

Pages are numbered from `kheapPageAllocStart`; sizes are in units of
`DYN_ALLOC_MAX_BLOCK_SIZE`, so a size of 1 is a block and `Unit` of them fill a
page.  `hp` is the program's state: `size` is `kallocation_sizes`, `brk` the
break, `pt` the page table, `mapped_va` the reverse map in `frames_info`,
`free` the free list, `mem` what each frame holds, `ok` that no panic occurred.
`live` is what the owners know.  The dynamic allocator is not in the repository;
its blocks are the set `hp.blocks`.  The loops over pages are recursive functions
(`GetPages`, `ReturnPages`, and `Scan` with one round as `ScanStep`); the inner
loops that look for the end of a hole and lower the break are the minimum and
the maximum they stop at.

### Frames, PageFile, WorkingSet, VirtualMemory

All four work on one record `k`: `h` holds the two linked free lists, `refs`
the reference counts, `mem` and `dmem` the contents of frames of memory and of
disk, `dir` and `pt` the tables of each environment (an entry keeps the frame
and the bits PRESENT, USED, MODIFIED, UHPAGE apart, because the code keeps
frames behind entries that are not PRESENT), `dpt` the disk page tables, `ws`
and `hand` the working set.  `ok` falls when the kernel panics.  A page fault is
handled behind an interrupt gate (`trap.c:138-142`), so it is one step; the
instruction is then executed again, which `pending` remembers.  `want` is what
the program last wrote in each page and `trace` what it touched under OPTIMAL:
history variables for the properties.  A page's address is a number; a table
covers four pages (`PDX`).  The frame of a page table is not counted among
`Frame`: a directory entry is present or not.

### SharedMemory

Every function runs under `AllShares.shareslock` with interrupts off, so a
system call is a step; `sget` of the user library is two, `getting` in between.
A panic for want of frames leaves the lock taken (`shareslock = "left"`) and the
next caller panics on it.

### Console, ConsoleReaders, CommandPrompt

A character is a name; a byte of the keyboard is `E0` or a key that goes down or
up.  Characters in the ring carry the number they came in with, so that order
and loss can be stated.  A reader with interrupts on takes three steps (test,
take, wrap) between which interrupts and other processes come; one with
interrupts off polls the devices.  The prompt runs when no process does, so a
key is one step of the editor.  `ref` is the line the user has in mind, `plain`
says that every key since the last Enter was in a position the editor supports.

### Applications

A process is at a label of its program; a step is one access to something
shared.  A delay may be over at any time.  Some checks rely on one: the master of
the reservation asserts that its clerks are free and wait again after
`env_sleep(1500)` (`tst_air.c:258`, `260`), although a clerk signals itself free
only after its customer (`tst_air_clerk.c:174-177`), and the masters of the channel
tests give up after as many sleeps as there are slaves
(`tst_chan_one_master.c:43-46`, `63-66`, `tst_chan_all_master.c:40-43`, `60-63`).
Failing one of these is the label `late`, and `mem.waited` remembers whether, at the
end of a delay that a look follows, no other process could move: whether the delay
was long enough.  The user library's semaphores count below zero
and hand over in order (external); the kernel's behave as `Ksemaphore` shows.
Sorting, merging and the k-th element are recursive functions over the arrays,
over every pivot the code may draw.  A panic of an application is the label
`panic`, a CPU trap the label `trap`, the master's third console section `say`
(`arrayOperations_Master.c:166-182`).

## Runs

| run | shows | bounds and why |
|---|---|---|
| `sleeplock` | mutual exclusion, no lost wakeup, queue and interrupt discipline, no panic, refinement of the mutex, every program ends | 2 programs: one sleeps while the other holds; the safety part is proved for every number |
| `ksemaphore` | permits conserved, no lost signal, the disciplines again | 3 programs, 1 permit, 1 post: two sleepers and more than one permit occur; symmetry over programs; proved for every number |
| `lists` | links, ends and sizes after any macros; `LIST_FOREACH` visits each element | 3 elements, 2 lists: first, last, both and middle; all initial garbage in the links; proved for every number |
| `prirr` | queues well formed and matching statuses, highest priority first | 3 processes, 1 or 2 levels, thresholds 0 and 1, both changed between runs; proved for every number |
| `prirr_live` | nobody starves | 2 processes, 3 levels, so that a process ages twice |
| `kheap` | no overlap, no leak, contents, address conversions, tight break, custom fit | 6 pages, 4 frames, requests of 1 to 3 pages: exact, larger and too small holes, and frames run out; a panic ends a behaviour, hence no deadlock check; proved for every number |
| `vm` | contents survive, frames conserved, working set resident, victims right, OPTIMAL least, accesses complete | one program with two program pages, a heap and a stack page and a page outside its regions on a working set of 2, for CLOCK 3: every page evicts every other and the hand passes over used pages; stamps of 2 bits; five frames, so that under OPTIMAL all pages fit; at most 4 recorded accesses under OPTIMAL; all but completion said until the program is ended for the page outside; a program may exit on a bad pointer, hence no deadlock check; storage, residence, contents and victims proved for every number |
| `sharing` | an object shared whole and counted right, read-only kept | 2 processes, 2 names, sizes 0 to 2, 3 frames: creation succeeds, fails at once and fails half way; proved for every number |
| `console` | input in order; the executed line is the one on the screen | ring of 2, so it overruns; 2 readers, an ordinary, a shift and an extended key; prompt: lines up to 4 characters, 2 history entries empty or full, 6 keys out of 11; the input proved for every number |
| `programs` | checks of the applications pass, those that rely on a delay unless it was too short; results right, every customer served once, sleepers woken one at a time or all; they end unless a failed check or the division by zero cuts one short | 3 customers, 2 clerks and one seat per flight; arrays up to 6; ten sorting programs in six pairs; matrices up to 2 by 2 with overflow at 8 bits; 3 slaves |
| `prirr_race` | **violation** | see below |
| `kheap_interleaved` | **violation** | |

Fairness.  `FairSpec` of the blocking models says: the scheduler and the
interrupt handler go on (the CPU does not stop); a process that is scheduled
again and again gets on with its kernel code although the clock may interrupt
it each time (strong fairness: `kclock_resume` restores at least 20 counts,
`kclock.c:155-159`); a program leaves its critical section and exits in the
end (an assumption about programs).  Nothing is assumed of system calls a
program may never make.  `FairSpec` of the priority scheduler assumes only that
the clock goes on ticking while a process is on the CPU (weak fairness of the
interrupt: it stays enabled while one process runs and another is READY).
`FairSpec` of the virtual memory assumes that a process whose fault was handled
executes its instruction again, as the trap returns to it (weak fairness of
`Retry`, with the guard written out because it is cheaper to evaluate than
`ENABLED`), and `FairSpec` of the
applications that some process that can run is run: the scheduler does not idle
while one is ready.

Every property has a mutant: an operator next to the definition it
replaces, commented `Mutation:`, changes the code as a plausible mistake would,
and the property is then violated.

## What the violations show

- `prirr_race`: `env_set_priority` tests `env_status == ENV_READY` before it
  takes the lock (`sched_helpers.c:713-716`).  The clock may let the process
  run and exit in between; `LIST_REMOVE` then works on a list the element is
  not in.  `user/priRR_fib_create.c` sets priorities of running children.
- `kheap_interleaved`: two processes in `kmalloc` at once may be given the same
  pages (`kheap.c:138-156`); the run shows one of them freeing the other's.

Met while modelling, without a run of their own: `acquire_sleeplock` never
stores the holder, so `holding_sleeplock` is false for it
(`sleeplock.h:18`, `sleeplock.c:59-66`; no caller).  The comments of
`wakeup_one` and `wakeup_all` ask for the queues lock, which they take
themselves (`channel.c:49`, `72`).  `LIST_CONCAT` adds the size of a list it has
just reset (`queue.h:298-300`; no caller).  `sched_init_PRIRR` with fewer
levels leaves NEW processes with priorities that name no queue
(`sched.c:225`), and running them writes past the end of `env_ready_queues`:
without `Enough` in `Next`, `prirr` violates `QueuesMatchStatus`.
`krealloc` from pages to a block copies the old size (`kheap.c:363`).
`sched_kill_all` panics in `env_free` with the queues lock held
(`sched_helpers.c:573`).  `sched_kill_env` does not look into channels; for a
sleeping process `sys_destroy_env` returns 0 and does nothing
(`sched_helpers.c:390`, against `syscall.c:408`).  `kfree` of a block returns
before `free_block` (`kheap.c:189-197`), because only page allocations have a
recorded size.

In the memory part: the counter of repeated faults is never reset by a success
(`fault_handler.c:104-119`), so a program that uses and frees one page over and
over panics; `MallocLoop = TRUE` in `MCVirtualMemory.cfg` shows it as a violation
of `NoFaultPanic`.  A fault on a page that is neither in the page file nor of
heap or stack frees its frame twice (`fault_handler.c:459-460`), on a path that
`user/tst_invalid_access_slave4.c` takes; `StorageConserved` without `~strayed` shows
it as a violation.  The LRU
search finds no victim when every stamp is all ones (`fault_handler.c:545`); the
bound in `clock_ages` keeps the clock from ticking that often.  The range test of
`allocate_user_mem` is true of every address (`chunk_operations.c:166`).
`OPTIMAL`'s active list and its flag are one for all environments
(`fault_handler.c:358-436`).  `delete_user_kern_stack` unmaps and frees each
frame and then gives the range to `kfree` (`user_environment.c:1019`).  Names of
shared objects are cut at 63 characters when stored and compared in full, so
longer ones are never found (`shared_memory_manager.c:56`, `137`).

In the console part: two processes that read without the lock may pass the end of
the ring (`console.c:460-463`); `clear_screen_buffer` writes words over a buffer
of half words, twice the screen (`console.c:530-533`); Ctrl-Alt-Del is tested
after the delete key has returned.  The editor's `lastIndex` grows when a
character is overwritten (`command_readline.c:251`), Backspace in the middle of a
line duplicates a character, Tab on an argument nothing matches truncates the
line (`126-127`), Tab as the first key reads uninitialised variables (`77`), and
the history is read at -1 (`258`) and past its end (`99`): the model makes the
last a choice among what may be there.

In the applications: the checks that rely on delays, as said above; the last sleep of
a channel master is not followed by a look, so that it may give up although all
slaves have come (`tst_chan_one_master.c:40-50`); the semi-random fill divides by zero for one and two elements
in some of them (`arrayOperations_Master.c:230`), and the programs that announce
"Freeing the Heap" free nothing (`quicksort_interrupt.c:83-86`).

## Proofs

The theorems hold for every value of the constants that satisfies the named
assumptions: `NoEnv` (or `NULL`) is no process, `envs[]` is finite, there is at
least one priority level and levels and thresholds are bounded (the code has
`uint8` and `uint32`), a list's size cannot wrap because there are fewer
elements than 2^32, and the kernel heap has at least one page, a page at least
one unit, and finitely many frames, none of which is `NoFrame`.  Of the memory
part they say that the regions of the address space do not overlap, that there
are finitely many frames and fewer of them than 2^32, that a program has finitely
many pages and the stack has a highest one (where loading starts), and that the
size of a working set is positive, and that objects are asked for in whole pages.
The console's ring has at least two places.
TLC evaluates these assumptions in the runs.

### Sleeplock and semaphore

`ChannelProofs` first shows what the kernel and a channel guarantee to any object
built on them.  That part is parameterised by the object's own control points: `O`, which hold
no spinlock, and `G`, which hold the guard.  `KernelInv(O, G)` is inductive for
every step of `Kernel` and `Channel`:

- `CpuInv`: for each control point of the running process, which locks are
  held and what `ncli`, `intena` and `ien` are; likewise for the scheduler.
- `SuspendedInv`: a process off the CPU stands right behind a
  `context_switch`, with the status and the saved `intena` that belong to that
  place; so a resumed process finds exactly the queues lock held.
- the ready queue and the channel are without repetition and hold exactly the
  READY and the BLOCKED processes.

Most steps move one process and leave queues and statuses alone; one lemma
(`LocalStep`) covers them.  The others, giving up the CPU, inserting a process,
waking all, dispatching, have a lemma each, on facts about injective sequences
in `QueueLemmas`.

The sleeplock and the semaphore each add a `SleepersInv` of their own to it:
whoever is in the channel, or on the way into it, sleeps on a lock that is taken
(a count that is not positive); whoever clears the lock word has emptied the
channel before it gives the guard back, and the sleepers on a count that became
positive are about to be woken by the one who raised it.  From that follow
type correctness, `NoPanic`, `MutualExclusion`, `NoLostWakeup`, `NoLostSignal`,
`PermitsConserved` and the queue and interrupt disciplines.  Permits are counted
with `Cardinality`, so each step is classified by how it moves its process
(waiting, inside, signalling); a step adds to one set what it takes from another
or from the count.

Both implement `AbstractSemaphore`.  For the sleeplock `permits` is `1 - held`,
for the semaphore `count` plus the signals called but not yet counted, and a
process is out, waiting or in by its control point; only the test that succeeds
and the call of release or signal are visible.  (`ImplementsSemaphore` is proved;
it is no property of a run, which would need the refinement checked under
symmetry.)

### Lists

`ListProofs` first shows that each macro of `inc/queue.h` does to the sequence a list
stands for what its name says.  `Stands(h, S)` says that the heads and links `h`
are exactly the sequences `S`, one per list, no element in two.  A macro is first
shown to relink an element between two neighbours (`LinkedIn`) or to take it out
from between them (`TakenOut`), then these to splice or delete in the sequence.
`ListsRepresented` follows from that at once.  `ForeachVisitsEach` needs
an invariant of the loop: the elements it has not seen are still, in their order,
the end of the list, and its variable is the first of them.  That is what lets
the body remove its element or move it to a head.

### Priority scheduler

`Good(s, D)` is the heart: the links stand for some sequences, and a process is
in a queue exactly if its status and priority name that queue, except for the
processes of `D`, which the code has in hand between a removal and an insertion.
Every helper of `sched_helpers.c` has a lemma that takes `Good(s, D)` to `Good`
of its result with one process more or less in hand; aging, the loops that empty
a queue and the dispatch are put together from those.  `Inv` adds that
only the process on the CPU is RUNNING, that the CPU is idle only when nothing is
READY, that every process that may become READY has a priority below
`num_of_ready_queues` (this is what needs `Enough`), and that a process between
the test and the assignment of `env_set_priority` works on itself or on a child
that is still NEW, which nobody else can run.  The last is why the programs of
`Next` never meet the race that `prirr_race` shows.  `DispatchIsByPriority` comes
from the lemma about the dispatch, which finds the least non-empty level.

### Kernel heap

`KHeapProofs` reasons about heaps `s` between and within calls.  The sizes the
program records give each allocation an `Extent` of pages.  `Good(s)` says that
the fields have their types, that frames, page table and reverse map agree
(`FramesOk`), that extents lie below the break and are disjoint (`Tiled`), that
their pages are present (`Backed`), and, unless the frames have run out, that no
other page is (`NoLeak`) and the break is right above one (`Tight`).  `Owners`
ties sizes and contents to what the owners know; `Inv` is both, and is inductive.
`NoOverlap` alone is not: without `Tight` and `NoLeak` a lowered break could cut
an allocation, without `FramesOk` a page given to one owner could share a frame
with another's, and without `Tiled` the scan could step into an allocation.

- Mapping and unmapping a run of pages are inductions over the loops (`GetPagesLemma`,
  `ReturnPagesLemma`): which pages changed, and that other pages keep their frames
  and contents.
- `find_customfit`'s loop has the invariant `ScanInv`: the scan stands at
  the start of an allocation or of a hole, or at the break, and knows the lowest exact
  and the lowest of the largest holes among those it has passed.  Each round
  passes at least one page, so N rounds reach the break (`ScanLemma`).
- `kmalloc` and `krealloc` are put together from these: `Resized` is what
  shrinking, extending and moving have in common, so that one lemma carries the
  owners across all three.
- A free tag exists for each new allocation, because no more than N are live
  (`FreeTagLemma`).

### Memory

`VirtualMemoryProofs` has no bound on processes, pages, frames, working-set size
or time, and none on the layout of the address space.  A fault outside segments,
heap and stack unmaps the frame just mapped, which frees it, and then frees it again
(`fault_handler.c:458-462`), and nothing about frames holds afterwards.  `strayed`
tells that a program has touched such a page under another policy than OPTIMAL,
which brings it in like any other.  `Inv` is `~strayed => Sound`, and the theorems
say what holds until then.  `Sound` is preserved by every step that does not stray
and has these parts:

- `Store`: the two free lists are well formed and hold exactly the frames that no
  page is mapped to and the disk frames that hold no page; a frame in use has a
  reference count of 1; no frame and no disk frame belongs to two pages.
  `StorageConserved` follows by counting: the pages in the page file are in
  bijection with the disk frames that are not free.
- `Tables`: a page that is mapped or marked has a page table.  Without it
  `get_frame_info` would answer "no frame" for a mapped page, and mapping over it
  would lose the frame.
- `Fresh`: an environment that is not in use has no pages, so that loading a
  program overwrites no mapping.
- `WorkingSetOk`, except under OPTIMAL, whose active list is not the working set:
  the pages with a frame, the PRESENT pages and the working-set list are the same
  pages, each is in the list once, the list is no longer than its maximum, and the
  hand of a full one is on an element (`HandOk`).  The search of a victim is a
  loop from the hand; that it finds one needs the hand.
- `MarkedOk`: a heap page in memory is marked; `free_user_mem` and the fault
  handler decide by the mark.
- `LoadedOk`: the pages of the program are in the page file, so that a fault on one
  of them reads it instead of ending the process.
- `Holds(x, e, p, w)`: where the content of a page is.  Without a frame it is on
  disk; with one it is in the frame, and on disk as well unless the entry is
  MODIFIED.  This is what lets an eviction drop an unmodified page, and what
  `ContentsSurvive` alone does not say: it is not inductive.

`Store`, `Tables` and the types (`Base`) hold after a panic too; the rest only while
`ok`.  Within a step `Moves`, `Nears` and `Arranges` say what a part of it
may have changed, so that the fault handler, eviction, placement, freeing and
loading are put together from one lemma per function of the code.  The two clocks
share one lemma on replacing an element of the list turned to the hand
(`ReplaceLemma`); LRU and invalidation take an element out (`RemoveLess`).
The loops of loading are inductions over pages (`LoopLemma`, `BoundedInduction`).

`VictimIsRight` is about a step.  `Lost` are the pages that lose their frame in a part
of it; a part is `Fair` when each of these is `Proper`, the choice of the policy.  One
lemma per policy says what its search picks: the first unused page from the hand, or
the first of all once every used bit is cleared (`ClockFair`); the lowest class first
(`ModifiedClockFair`); the least stamp after aging (`LRUFair`; `AgedLemma` says what
aging does to each element).  `FaultFair` carries this through the fault handler.
`free_user_mem` faults too, when it reads a page back, and takes out the page it
frees: the property leaves that page aside, because its mark changes (`FreeFair`).
The pages of all other processes stay as they are (`FaultOthers`).

### Shared memory

`SharedMemoryProofs` has no bound on processes, names, sizes, pages, frames and
objects.  A frame may be behind several pages here, so `VirtualMemoryProofs`, where
every count is 1, is of no use beyond the lemmas on lists.  `Inv` has these parts:

- `Store`: the free list holds exactly the frames that no page is mapped to, every
  count is the number of pages the frame is mapped at, and a page that has a frame
  is PRESENT and has a page table.
- `Apart`: each object has frames of its own, each once, and a name of its own.
- `Whole(k, s)`: every process has n copies of the pages of `s`, its owner at least
  one, and the references are the copies of all.  With `Apart` this is most of
  `SharesAccounted`.
- `Promised`: an object that a process was told the size of still exists with that
  size, and the hole found for it is still there.  This is what the second call of
  `sget` stands on, which looks for the object again.
- `Protected`: of a read-only object only the owner has writable pages.
  `ReadOnlyKept` follows, since a store is the only step that changes a frame.

The loops of creation and of getting are inductions (`CreateLoop`, `GetLoop`): the
frames made are distinct and were free, so they belong to no object; pages laid in
a hole take nothing away (`OthersKeep`); one more copy adds the size of the object
to its pages (`WholeMore`).  A creation that runs out of frames half way keeps `Inv`
as well: its pages belong to no object, but are counted.

### Console

`ConsoleProofs` has no bound on the ring, the processes, the keys and the bytes in
the controller.  `RingInOrder` is not inductive: it numbers the waiting characters
from the read position, which a step of `cons_getc2` leaves past the end of the
ring, and a ring that overruns between a reader's test and its read is empty when
the reader takes a character from it.  `Inv` therefore says

- `InOrder`: the last places before the write position hold the last characters that
  came in, and what is missing are whole rings.  `OrderLemma` turns this into
  `RingInOrder`.
- `RingKept`: between test and take the ring is `Takeable`, which is to have a
  character in order or to be `Overrun`: empty by the positions and full of the
  last N characters, so that the place the reader takes is the oldest of them.  The
  read position is outside the ring only between take and wrap.
- `OneReader`: interrupts are off for the running process alone and only under the
  lock, and one process at a time is in `sys_cgetc`.
- `Held`: a modifier that the bytes still in the controller would leave set
  (`InForce`) has a key that is down.  The flags alone would not do: they lag behind
  the keys until an interrupt or a reader takes the bytes.

The arithmetic on positions is in `OneOn` and `WholeLemma`; `KbdLemma` is the
induction over the bytes one interrupt takes; `ProcLemma` says that of the flags
of `kbd_proc_data` a byte changes the modifier of its own key alone, extended or not.

### Loops and induction

The library's induction theorems cannot be instantiated by the provers installed,
so `QueueLemmas` derives first-order forms from the well-foundedness of `<`:
`LeastNatural`, `SetInduction` (a set that has 0 and successors has all
naturals), `BoundedInduction` (the same up to a bound), `StepsStay` (what each step keeps, n steps keep) and `StepsExist` (a
recursive function that iterates a step exists).  The loops of the code are
recursive functions in the models, and these lemmas prove what they compute.

### Only model-checked

Liveness (fairness is outside the prover's reach): `ProgramsEnd`, `NoStarvation`,
`AccessCompletes`, `ProgramsFinish`.  `KHeapInterleaved`, which is there for a
violation.  Of memory, `OptimalIsLeast` (a minimum over all policies, computed by
recursion over the recorded stream) and `NoFaultPanic`, which holds only within the bounds of its run: frames do run out, and the counter of
repeated faults reaches its limit (`fault_handler.c:104-119`).  The command prompt
has no proof; what the applications compute (sorting, matrices) would need induction
over their data.

## Not modelled, and the plan

Not modelled: more than one CPU (the code boots one), device registers and disk
transfers, colours and printing, boot, the commands that only print or set a
flag, counter values of the clock, page buffering (off: `fault_handler.c:71`),
the policies without a branch in `page_fault_handler` (FIFO, N-chance CLOCK, LRU
by lists, dynamic local), `env_free`, `delete_shared_object`, `move_user_mem` and
the MLFQ and BSD schedulers (their bodies panic), and the dynamic allocator and
user library, whose sources are not in the repository.  Of `user/`, the
single-process demonstrations and the tests that drive one kernel operation are
left out: they have no schedule to explore, and the models have the operations.

Next:

- `Environments`: identifiers and generations, kernel stacks, creation undone
  half way, `sched_kill_all`, self-destruction.
