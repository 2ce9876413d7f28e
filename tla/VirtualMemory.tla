--------------------------- MODULE VirtualMemory ----------------------------
(***************************************************************************)
(* Programs on demand-paged memory: fault_handler of                       *)
(* kern/trap/fault_handler.c, the loading of a program (env_create of      *)
(* kern/proc/user_environment.c), allocate_user_mem and free_user_mem of   *)
(* kern/mem/chunk_operations.c and the system calls around them.           *)
(* A page fault is handled behind an interrupt gate (trap.c:138-142), so a *)
(* fault is one step; the faulting instruction is then executed again.     *)
(* Kernel heap on (USE_KHEAP = 1), buffering off.                          *)
(***************************************************************************)
EXTENDS WorkingSet, FiniteSetsExt

CONSTANTS Setups,        \* the policies set at the prompt, with page_WS_max_size
          TextPages,     \* program pages that are only read
          MallocLoop,    \* whether a program may use, free and use again one page
                         \* many times without touching another that is absent
          MaxTrace,      \* bound on the accesses recorded under OPTIMAL
          Unknown        \* contents that nothing was promised about

ASSUME SetupsAssumption ==
    Setups \subseteq {"CLOCK", "ModifiedCLOCK", "LRU", "OPTIMAL"} \X (Nat \ {0})

ASSUME LoadAssumption ==
    /\ IsFiniteSet(ProgPages)
    /\ \E p \in StackPages : \A q \in StackPages : q <= p

VARIABLES k,        \* memory, tables, page file and working sets
          pending,  \* the instruction that faulted and will be executed again
          want,     \* the value a program last put in each page
          trace,    \* under OPTIMAL, the pages each program accessed, in order
          strayed   \* whether a process has been ended for a page outside its regions

vars == <<k, pending, want, trace, strayed>>

-----------------------------------------------------------------------------
(* Faults.                                                                 *)

\* Mutation: the missing table is not made.
table_fault_handler_nothing(x, e, p) == x

table_fault_handler(x, e, p) == create_page_table(x, e, p)

\* The tests for user traps; pages at or above USTACKTOP end the process
\* earlier, in a panic, when they are below USER_TOP.
InvalidPointer(x, e, p) ==
    \/ p \in AbovePages
    \/ p \in HeapPages /\ get_page_table(x, e, p)
       /\ ~pt_get_page_permissions(x, e, p).uhpage

\* The faults at one address in a row, after the first.
CountFault(x, e, p) ==
    [x EXCEPT !.last = <<e, p>>, !.num = IF x.last = <<e, p>> THEN @ + 1 ELSE 0]

\* The third fault more of one process at one address is a panic.
HandleFault(x, e, p, userTrap) ==
    CASE x.num = 3 -> Panic(x)
      [] x.num # 3 /\ userTrap /\ InvalidPointer(x, e, p) -> env_exit(x, e)
      [] x.num # 3 /\ ~(userTrap /\ InvalidPointer(x, e, p)) ->
           IF ~get_page_table(x, e, p) THEN table_fault_handler(x, e, p)
           ELSE IF x.pt[e][p].present THEN Panic(x)
                ELSE page_fault_handler(x, e, p)

fault_handler(x, e, p, userTrap) == HandleFault(CountFault(x, e, p), e, p, userTrap)

\* trap_dispatch ages the working set first.
PageFault(x, e, p, userTrap) ==
    fault_handler(IF x.algo = "LRU" THEN update_WS_time_stamps(x, e) ELSE x,
                  e, p, userTrap)

-----------------------------------------------------------------------------
(* Loading.                                                                *)

\* What the program file has for a page.
Image(p) == CHOOSE v \in Value : v = p % 2

StackTop == CHOOSE p \in StackPages : \A q \in StackPages : q <= p

\* Copying sets the used bit, and the modified bit, which step [8] clears.
program_segment_alloc_map_copy_workingset(x, e, p) ==
    LET f == FreeFrame(x)
    IN  IF f = NULL THEN allocate_frame(x)
        ELSE SetHand(InsertTail([loadtime_map_frame(allocate_frame(x), e, f, p)
                                   EXCEPT !.mem[f] = Image(p), !.pt[e][p].used = TRUE],
                                e, p), e)

\* Pages of the program in memory while there is room, one place being kept
\* for the stack; all of them in the page file.
AddToFile(x, e, p, v) == IF x.ok THEN pf_add_env_page(x, e, p, v) ELSE x

LoadPage(x, e, p, room) ==
    AddToFile(IF room THEN program_segment_alloc_map_copy_workingset(x, e, p) ELSE x,
              e, p, Image(p))

LoadSegments(x, e) ==
    LET n == Cardinality(ProgPages)
        from[i \in 0 .. n] ==
          IF i = 0 THEN x
          ELSE LoadPage(from[i - 1], e, Ascending(ProgPages)[i], i <= x.max - 1)
    IN  from[n]

\* The initial stack page is zeroed in memory and in the page file.
LoadStack(x, e) ==
    LET f == FreeFrame(x)
        s == [loadtime_map_frame(allocate_frame(x), e, f, StackTop) EXCEPT
                !.mem[f] = Zero,
                !.pt[e][StackTop] = [@ EXCEPT !.used = TRUE, !.modified = TRUE]]
    IN  CASE ~x.ok -> x
          [] x.ok /\ f = NULL -> allocate_frame(x)
          [] OTHER -> pf_add_env_page(SetHand(InsertTail(s, e, StackTop), e), e, StackTop, Zero)

\* The directory starts with no user tables, the lists empty; the process
\* structure comes from the free list with its page file entries zero.
initialize_environment(x, e) ==
    [x EXCEPT !.status[e] = "live", !.dir[e] = {"kernel"}, !.ws[e] = <<>>,
              !.pt[e] = [p \in Page |-> NoEntry], !.dpt[e] = [p \in Page |-> NULL],
              !.hand[e] = NULL, !.stream[e] = <<>>]

env_create(e) ==
    /\ k.ok /\ k.status[e] = "free"
    /\ k' = LoadStack(LoadSegments(initialize_environment(k, e), e), e)
    /\ want' = [want EXCEPT ![e] = [p \in Page |->
                  IF p \in ProgPages THEN Image(p)
                  ELSE IF p = StackTop THEN Zero ELSE Unknown]]
    /\ trace' = [trace EXCEPT ![e] = <<>>]
    /\ UNCHANGED <<pending, strayed>>

-----------------------------------------------------------------------------
(* Instructions and system calls of a process.                             *)

Runs(e) == k.ok /\ k.status[e] = "live"

\* v is NULL for a read.  The processor sets the bits.
Touch(x, e, p, v) ==
    LET t == [x EXCEPT !.pt[e][p].used = TRUE]
    IN  IF v = NULL THEN t
        ELSE [t EXCEPT !.pt[e][p].modified = TRUE, !.mem[x.pt[e][p].frame] = v]

\* Under OPTIMAL a page outside the regions is brought in like any other.
Strays(p) == p \in OutsidePages /\ k.algo # "OPTIMAL"

\* A page at or above USER_TOP is mapped for the kernel only.
Access(e, p, v) ==
    /\ Runs(e)
    /\ pending[e] \in {NULL, <<p, v>>}
    /\ p \in TextPages => v = NULL
    /\ strayed' = (strayed \/ Strays(p))
    /\ IF k.pt[e][p].present
       THEN /\ k' = Touch(k, e, p, v)
            /\ pending' = [pending EXCEPT ![e] = NULL]
            /\ want' = [want EXCEPT ![e][p] = IF v = NULL THEN @ ELSE v]
            /\ trace' = [trace EXCEPT ![e] = IF k.algo = "OPTIMAL" THEN Append(@, p) ELSE @]
       ELSE /\ k' = PageFault(k, e, p, TRUE)
            /\ pending' = [pending EXCEPT ![e] =
                             IF k'.status[e] = "live" THEN <<p, v>> ELSE NULL]
            /\ UNCHANGED <<want, trace>>

\* Bounds: a run under OPTIMAL ends after MaxTrace accesses; without MallocLoop
\* a program turns to another page before its third fault in a row at one.
Instruction(e) ==
    /\ Len(trace[e]) < MaxTrace
    /\ \E p \in Page, v \in Value \union {NULL} :
         /\ MallocLoop \/ pending[e] # NULL \/ k.last # <<e, p>> \/ k.num < 1
         /\ Access(e, p, v)

\* sys_allocate_user_mem, one turn of its loop.  The user library gives out
\* only pages that are not marked.  The test of the range is true of every
\* address (chunk_operations.c:166).
allocate_user_mem(e) ==
    \E p \in HeapPages :
      /\ Runs(e) /\ pending[e] = NULL /\ ~k.pt[e][p].uhpage
      /\ k' = pt_set_page_permissions(WithTable(k, e, p), e, p,
                 [k.pt[e][p] EXCEPT !.uhpage = TRUE, !.present = FALSE])
      /\ UNCHANGED <<pending, want, trace, strayed>>

\* pf_read_env_page writes to the page: when it is in the page file and not in
\* memory that is a fault in kernel mode, which brings it in, whatever it
\* evicts for that.
RemoveFromFile(x, e, p) ==
    IF x.ok /\ InPageFile(x, e, p)
    THEN pf_remove_env_page(pf_read_env_page(x, e, p), e, p) ELSE x
ReadBack(x, e, p) ==
    RemoveFromFile(IF InPageFile(x, e, p) /\ ~x.pt[e][p].present
                   THEN PageFault(x, e, p, FALSE) ELSE x, e, p)

Invalidate(x, e, p) == IF x.ok THEN env_page_ws_invalidate(x, e, p) ELSE x

\* sys_free_user_mem, one turn of its loop, for a page that was allocated.
free_user_mem(e) ==
    \E p \in HeapPages :
      /\ Runs(e) /\ pending[e] = NULL /\ k.pt[e][p].uhpage
      /\ k' = LET u == pt_set_page_permissions(k, e, p,
                         [k.pt[e][p] EXCEPT !.uhpage = FALSE])
              IN  Invalidate(ReadBack(u, e, p), e, p)
      /\ want' = [want EXCEPT ![e][p] = Unknown]
      /\ UNCHANGED <<pending, trace, strayed>>

\* The clock ages the working set of the running process.  Bound: it does not
\* tick so often between two faults that one more aging, by the fault, would
\* make every stamp all ones.
clock_ages(e) ==
    /\ Runs(e) /\ k.algo = "LRU"
    /\ k' = update_WS_time_stamps(k, e)
    /\ \E i \in DOMAIN k'.ws[e] : k'.ws[e][i].stamp < UINT_MAX - 1
    /\ k' # k
    /\ UNCHANGED <<pending, want, trace, strayed>>

-----------------------------------------------------------------------------
(* OPTIMAL: counting the faults of the best policy on the recorded stream. *)

\* References of p after the i-th: how many come before it, 10^9 for none.
Distance(refs, i, p) ==
    LET later == {j \in i + 1 .. Len(refs) : refs[j] = p}
    IN  IF later = {} THEN 1000000000 ELSE Min(later) - i - 1

\* Mutation: the page used soonest is replaced.
OptimalVictim_soonest(ws, refs, i) ==
    CHOOSE n \in DOMAIN ws :
      \A m \in DOMAIN ws : Distance(refs, i, ws[n]) <= Distance(refs, i, ws[m])

\* The first of those whose next use is farthest.
OptimalVictim(ws, refs, i) ==
    CHOOSE n \in DOMAIN ws :
      \A m \in DOMAIN ws : \/ Distance(refs, i, ws[n]) > Distance(refs, i, ws[m])
                           \/ Distance(refs, i, ws[n]) = Distance(refs, i, ws[m]) /\ n <= m

get_optimal_num_faults(initial, refs) ==
    LET at[i \in 0 .. Len(refs)] ==
          IF i = 0 THEN [ws |-> initial, faults |-> 0]
          ELSE LET c == at[i - 1]
                   hit == \E n \in DOMAIN c.ws : c.ws[n] = refs[i]
                   full == Len(c.ws) = k.max
               IN  IF hit THEN c
                   ELSE [faults |-> c.faults + 1,
                         ws |-> IF full
                                THEN [c.ws EXCEPT ![OptimalVictim(c.ws, refs, i)] = refs[i]]
                                ELSE Append(c.ws, refs[i])]
    IN  at[Len(refs)].faults

\* It runs on the working set the process was loaded with, which OPTIMAL
\* leaves alone.
sys_get_optimal_num_faults(e) ==
    get_optimal_num_faults([i \in DOMAIN k.ws[e] |-> k.ws[e][i].va], k.stream[e])

\* Reference: the fewest faults over all choices of victims.
FewestFaults(start, refs) ==
    LET best[i \in 0 .. Len(refs), W \in SUBSET Page] ==
          IF i = Len(refs) THEN 0
          ELSE LET p == refs[i + 1] IN
               IF p \in W THEN best[i + 1, W]
               ELSE IF Cardinality(W) < k.max THEN 1 + best[i + 1, W \union {p}]
               ELSE 1 + Min({best[i + 1, (W \ {v}) \union {p}] : v \in W})
    IN  best[0, start]

-----------------------------------------------------------------------------
NoLinks == [x \in Frame \union DFrame |-> NULL]

NoLists == [l \in {"free_frame_list", "disk_free_frame_list"} |-> NULL]

Init ==
    /\ \E a \in Setups :
         k = [h |-> initialize_disk_page_file(
                      initialize_paging(
                        [first |-> NoLists, last |-> NoLists,
                         size |-> [l \in DOMAIN NoLists |-> 0],
                         next |-> NoLinks, prev |-> NoLinks], Ascending(Frame)),
                      Ascending(DFrame)),
              refs |-> [f \in Frame |-> 0], mem |-> [f \in Frame |-> Zero],
              dmem |-> [x \in DFrame |-> Zero],
              dir |-> [e \in Env |-> {}], pt |-> [e \in Env |-> [p \in Page |-> NoEntry]],
              dpt |-> [e \in Env |-> [p \in Page |-> NULL]],
              ws |-> [e \in Env |-> <<>>], hand |-> [e \in Env |-> NULL],
              active |-> <<>>, optimal_initialized |-> FALSE,
              stream |-> [e \in Env |-> <<>>], last |-> <<NULL, 0>>, num |-> 0,
              status |-> [e \in Env |-> "free"], algo |-> a[1], max |-> a[2], ok |-> TRUE]
    /\ pending = [e \in Env |-> NULL]
    /\ want = [e \in Env |-> [p \in Page |-> Unknown]]
    /\ trace = [e \in Env |-> <<>>]
    /\ strayed = FALSE

Next ==
    \E e \in Env : \/ env_create(e)        \/ Instruction(e)
                   \/ allocate_user_mem(e) \/ free_user_mem(e)
                   \/ clock_ages(e)

Spec == Init /\ [][Next]_vars

\* The instruction that faulted, executed again.
Retry(e) == pending[e] # NULL /\ Access(e, pending[e][1], pending[e][2])

\* A process that has faulted executes its instruction again: the trap
\* returns to it.  Weak fairness, with the guard of Retry written out, which
\* is enabled, and changes the memory or ends the wait, whenever it holds.
FairSpec ==
    Spec /\ \A e \in Env : \/ []<>~(Runs(e) /\ pending[e] # NULL)
                           \/ []<><<Retry(e)>>_vars

-----------------------------------------------------------------------------
(* Properties.  A page outside all regions ends its process, and its frame *)
(* is freed twice (fault_handler.c:459-460): the free list holds it twice  *)
(* then, and what is said of frames is said until a program has strayed.   *)

\* No process panics, follows a lost clock hand or repeats a fault three times
\* while there are frames for every working set, under OPTIMAL for all it
\* touches (fault_handler.c:104-119).  Two bounds leave panics out: clock_ages
\* keeps some stamp below UINT_MAX - 1, so that the LRU scan finds a victim
\* (545-554), and MallocLoop = FALSE keeps out programs whose third unrelated
\* fault falls on the address of the last one (104-111).
NoFaultPanic == ~strayed => k.ok

\* Through every sequence of faults, evictions, allocations and frees, no frame of
\* memory is lost, handed out twice or mapped while free (memory_manager.c:148-213),
\* and no frame of the page file is lost or shared by two pages
\* (pagefile_manager.c:112-147).
StorageConserved == ~strayed => FramesAccounted(k) /\ DiskFramesAccounted(k)

\* The present pages of a process are those of its working set, each once, and
\* the hand of a full one is on one of them (fault_handler.c:443-587).
WorkingSetIsResident ==
    \A e \in Env : ~strayed /\ k.ok /\ k.status[e] = "live" /\ k.algo # "OPTIMAL" =>
      /\ WSPages(k, e) = {p \in Page : k.pt[e][p].present}
      /\ Cardinality(WSPages(k, e)) = Len(k.ws[e])
      /\ Full(k, e) /\ k.algo # "LRU" => ~HandLost(k, e)

Held(e, p) == IF k.pt[e][p].frame # NULL THEN k.mem[k.pt[e][p].frame]
              ELSE IF InPageFile(k, e, p) THEN k.dmem[k.dpt[e][p]] ELSE Unknown

\* What a program put in a page is what it will find there, through any number
\* of evictions, write-backs and reads, and whatever the clean copy on disk
\* was (fault_handler.c:500-511, pagefile_manager.c:270-444).
ContentsSurvive ==
    \A e \in Env, p \in Page :
      ~strayed /\ k.ok /\ k.status[e] = "live" /\ want[e][p] # Unknown =>
        Held(e, p) = want[e][p]

\* The pages one step takes out of the working set to make room.
Evicted(e) == IF k'.ok /\ k'.status[e] = "live" /\ k.status[e] = "live" /\ Full(k, e)
              THEN WSPages(k, e) \ WSPages(k', e) ELSE {}

Aged(e) == update_WS_time_stamps(k, e)

\* Of the working set of e, v is what the policy is to evict.
RightVictim(e, v) ==
    LET W == {k.pt[e][p] : p \in WSPages(k, e)}
        x == k.pt[e][v]
    IN  CASE k.algo = "CLOCK" -> x.used => \A y \in W : y.used
          [] k.algo = "ModifiedCLOCK" ->
               /\ (\E y \in W : ~y.used /\ ~y.modified) => ~x.used /\ ~x.modified
               /\ (\E y \in W : ~y.used) => ~x.used
               /\ (\E y \in W : ~y.modified) => (x.modified => ~x.used)
          [] k.algo = "LRU" ->
               \A i \in DOMAIN k.ws[e] :
                 Aged(e).ws[e][IndexOf(k.ws[e], v)].stamp <= Aged(e).ws[e][i].stamp
          [] OTHER -> TRUE

\* Each policy evicts what it is meant to: CLOCK no used page while there is an
\* unused one; modified CLOCK the lowest class there is, for unmodified before
\* used; LRU a page whose aged stamp is least (fault_handler.c:482-696).  A page
\* that is being freed was not chosen.
VictimIsRight ==
    [][~strayed' => \A e \in Env : \A v \in Evicted(e) :
         k'.pt[e][v].uhpage = k.pt[e][v].uhpage => RightVictim(e, v)]_vars

\* sys_get_optimal_num_faults gives the least number of faults that any policy
\* has on the recorded stream (fault_handler.c:259-343).
OptimalIsLeast ==
    \A e \in Env : k.ok /\ k.status[e] = "live" /\ k.algo = "OPTIMAL" =>
      sys_get_optimal_num_faults(e) = FewestFaults(WSPages(k, e), k.stream[e])

\* The instruction that faulted is executed, or the process ended for it, and
\* that after a table fault, a page fault and any eviction between them.
AccessCompletes ==
    \A e \in Env : pending[e] # NULL ~> pending[e] = NULL
=============================================================================
