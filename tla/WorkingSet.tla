----------------------------- MODULE WorkingSet -----------------------------
(***************************************************************************)
(* The page working set of an environment and the page fault handler with  *)
(* its four policies: kern/mem/working_set_manager.c, the replacement part *)
(* of kern/trap/fault_handler.c and update_WS_time_stamps of               *)
(* kern/cpu/sched.c.  The record k of PageFile also holds                  *)
(*   ws      page_WS_list: page addresses with their time stamps,          *)
(*   hand    page_last_WS_element, as the address of its page,             *)
(*   active  page_active_WS_list, one for all environments,                *)
(*   optimal_initialized, and stream, the referenceStreamList,             *)
(*   algo    the policy, and max, page_WS_max_size, which is given for     *)
(*           each environment and is the same for all here,                *)
(*   status  "free", "live" or "exit" (in the exit queue).                 *)
(* Lists are sequences here; the macros they use are checked in            *)
(* ListOperations.  Working-set elements come from the kernel heap, which  *)
(* is taken to have room.                                                  *)
(***************************************************************************)
EXTENDS PageFile, SequencesExt

CONSTANTS StampBits    \* 32 in the code

\* The bit that aging sets.
TopBit == 2^(StampBits - 1)

ASSUME WorkingSetAssumption == StampBits \in Nat \ {0} /\ TopBit \in Nat

Full(k, e) == Len(k.ws[e]) = k.max

WSPages(k, e) == {k.ws[e][i].va : i \in DOMAIN k.ws[e]}

IndexOf(s, p) == CHOOSE i \in DOMAIN s : s[i].va = p

\* Mutation: a working set of one page fewer counts as full.
SetHand_early(k, e) ==
    [k EXCEPT !.hand[e] = IF Len(k.ws[e]) = k.max - 1 THEN k.ws[e][1].va ELSE NULL]

\* After every insertion at the tail: the hand is on the first element of a
\* full working set.  Only the clocks follow the hand; LRU, which lets it go
\* stale, is modelled without one.
SetHand(k, e) ==
    [k EXCEPT !.hand[e] = IF Full(k, e) /\ k.algo # "LRU" THEN k.ws[e][1].va ELSE NULL]

env_page_ws_list_create_element(p) == [va |-> p, stamp |-> 0]

InsertTail(k, e, p) ==
    [k EXCEPT !.ws[e] = Append(@, env_page_ws_list_create_element(p))]

\* Mutation: the element goes and the page stays mapped.
env_page_ws_invalidate_mapped(k, e, p) ==
    IF p \notin WSPages(k, e) THEN k
    ELSE [k EXCEPT !.ws[e] = RemoveAt(@, IndexOf(@, p))]

\* The hand moves on, to nothing from the last element.
env_page_ws_invalidate(k, e, p) ==
    IF p \notin WSPages(k, e) THEN k
    ELSE LET i == IndexOf(k.ws[e], p)
             next == IF i = Len(k.ws[e]) THEN NULL ELSE k.ws[e][i + 1].va
         IN  [unmap_frame(k, e, p) EXCEPT
                !.ws[e] = RemoveAt(@, i),
                !.hand[e] = IF @ = p THEN next ELSE @]

-----------------------------------------------------------------------------
(* Aging.                                                                  *)

Shifted(w, used) == [w EXCEPT !.stamp = (@ \div 2) + IF used THEN TopBit ELSE 0]

update_WS_time_stamps(k, e) ==
    [k EXCEPT
       !.ws[e] = [i \in DOMAIN @ |-> Shifted(@[i], k.pt[e][@[i].va].used)],
       !.pt[e] = [p \in Page |-> IF p \in WSPages(k, e)
                                 THEN [@[p] EXCEPT !.used = FALSE] ELSE @[p]]]

UINT_MAX == 2^StampBits - 1

-----------------------------------------------------------------------------
(* Placement.                                                              *)

\* env_exit: the environment goes to the exit queue and never runs again.
env_exit(k, e) == [k EXCEPT !.status[e] = "exit"]

\* pf_read_env_page into the frame f, and the end of the process for a page
\* that is neither in the page file nor of the heap or the stack: the frame is
\* unmapped, which frees it, and then freed.
ReadInto(k, e, p, f) ==
    IF ~InPageFile(k, e, p) /\ ~MayBeNew(p)
    THEN env_exit(free_frame(unmap_frame(k, e, p), f), e)
    ELSE pf_read_env_page(k, e, p)

\* allocate_frame, map_frame and the page's contents.
Bring(k, e, p, used) ==
    LET f == FreeFrame(k)
    IN  IF f = NULL THEN allocate_frame(k)
        ELSE ReadInto(map_frame(allocate_frame(k), e, f, p, used), e, p, f)

\* Unless that ended the process.
Goes(k, e) == k.ok /\ k.status[e] = "live"
Insert(k, e, p) == IF Goes(k, e) THEN InsertTail(k, e, p) ELSE k
InsertAndSetHand(k, e, p) == IF Goes(k, e) THEN SetHand(InsertTail(k, e, p), e) ELSE k

Placement(k, e, p) == InsertAndSetHand(Bring(k, e, p, FALSE), e, p)

\* Mutation: the victim is dropped without being written back.
Evict_dropped(k, e, v) == unmap_frame(k, e, v)

\* The victim is written back if it was modified, then unmapped.
Drop(k, e, v) == IF k.ok THEN unmap_frame(k, e, v) ELSE k
Evict(k, e, v) ==
    Drop(IF k.pt[e][v].modified THEN pf_update_env_page(k, e, v) ELSE k, e, v)

\* The list is turned until the victim is first, and the victim removed.
TurnTo(k, e, v) ==
    [k EXCEPT !.ws[e] = LET i == IndexOf(@, v)
                        IN  SubSeq(@, i + 1, Len(@)) \o SubSeq(@, 1, i - 1)]

-----------------------------------------------------------------------------
(* The clocks.  The elements in the order the hand meets them.             *)

FromHand(k, e) ==
    LET i == IndexOf(k.ws[e], k.hand[e])
        s == k.ws[e]
    IN  [n \in 1 .. Len(s) |-> s[((i + n - 2) % Len(s)) + 1].va]

FirstIn(s, S) == s[CHOOSE n \in DOMAIN s :
                     s[n] \in S /\ \A m \in 1 .. n - 1 : s[m] \notin S]

Before(s, p) == {s[m] : m \in {m \in DOMAIN s : \A n \in 1 .. m : s[n] # p}}

ClearUsed(k, e, S) ==
    [k EXCEPT !.pt[e] = [p \in Page |-> IF p \in S THEN [@[p] EXCEPT !.used = FALSE]
                                        ELSE @[p]]]

\* The hand is NULL or on an element that is gone.
HandLost(k, e) == k.hand[e] \notin WSPages(k, e)

Succeed(k, e, p, v) == IF k.ok THEN Placement(TurnTo(k, e, v), e, p) ELSE k
Replace(k, e, p, v) == Succeed(Evict(k, e, v), e, p, v)

\* Mutation: the hand clears every bit and takes the page it is on.
replacement_CLOCK_fifo(k, e, p) ==
    Replace(ClearUsed(k, e, WSPages(k, e)), e, p, k.hand[e])

\* Used pages lose their bit on the way; after one turn none is used.
replacement_CLOCK(k, e, p) ==
    LET s == FromHand(k, e)
        unused == {q \in WSPages(k, e) : ~k.pt[e][q].used}
        v == IF unused = {} THEN s[1] ELSE FirstIn(s, unused)
        passed == IF unused = {} THEN WSPages(k, e) ELSE Before(s, v)
    IN  IF HandLost(k, e) THEN Panic(k)
        ELSE Replace(ClearUsed(k, e, passed), e, p, v)

\* First try: unused and unmodified.  Second try: unused, clearing the bit of
\* the used ones; when it meets none every page is unused, and the first try
\* is repeated and, should all be modified, the second.  Each try that fails
\* turns the hand all the way round.
replacement_ModifiedCLOCK(k, e, p) ==
    LET s == FromHand(k, e)
        unused == {q \in WSPages(k, e) : ~k.pt[e][q].used}
        clean == {q \in WSPages(k, e) : ~k.pt[e][q].modified}
        v == CASE unused \intersect clean # {} -> FirstIn(s, unused \intersect clean)
               [] unused # {} /\ unused \intersect clean = {} -> FirstIn(s, unused)
               [] unused = {} /\ clean # {} -> FirstIn(s, clean)
               [] OTHER -> s[1]
        passed == CASE unused \intersect clean # {} -> {}
                    [] unused # {} /\ unused \intersect clean = {} -> Before(s, v)
                    [] OTHER -> WSPages(k, e)
    IN  IF HandLost(k, e) THEN Panic(k)
        ELSE Replace(ClearUsed(k, e, passed), e, p, v)

-----------------------------------------------------------------------------
(* Aging LRU.  The comparison starts at UINT_MAX: a working set whose      *)
(* stamps are all ones has no victim, and the pointer that is followed is  *)
(* NULL.  The hand is left as it is.                                       *)

Oldest(s) == {i \in DOMAIN s : s[i].stamp < UINT_MAX
                               /\ \A j \in DOMAIN s : s[i].stamp <= s[j].stamp}

SucceedAt(k, e, p, i) ==
    IF k.ok THEN Insert(Bring([k EXCEPT !.ws[e] = RemoveAt(@, i)], e, p, TRUE), e, p) ELSE k

replacement_LRU(k, e, p) ==
    LET old == Oldest(k.ws[e])
        i == CHOOSE i \in old : \A j \in old : i <= j
    IN  IF old = {} THEN Panic(k)
        ELSE SucceedAt(Evict(k, e, k.ws[e][i].va), e, p, i)

-----------------------------------------------------------------------------
(* OPTIMAL: pages stay in memory; the active set only decides which are    *)
(* PRESENT, so that every first use after a reset faults and is recorded.  *)

is_page_in_ws(k, p) == \E i \in DOMAIN k.active : k.active[i].va = p

\* The static flag is set by the first environment that faults.
optimal_init(k, e) ==
    IF k.optimal_initialized THEN k
    ELSE [k EXCEPT !.optimal_initialized = TRUE,
                   !.active = [i \in DOMAIN k.ws[e] |->
                                 env_page_ws_list_create_element(k.ws[e][i].va)]]

\* Read what the disk has, or set PERM_PRESENT of a page that is in memory.
\* A page that is not in the page file is not looked at further.
optimal_present(k, e, p) ==
    IF get_frame_info(k, e, p) # NULL
    THEN pt_set_page_permissions(k, e, p, [k.pt[e][p] EXCEPT !.present = TRUE])
    ELSE IF FreeFrame(k) = NULL THEN allocate_frame(k)
    ELSE pf_read_env_page(map_frame(allocate_frame(k), e, FreeFrame(k), p, FALSE), e, p)

\* A full active set is emptied and its pages made not PRESENT.
optimal_record(k, e, p) ==
    LET reset == Len(k.active) = k.max
        gone == {k.active[i].va : i \in DOMAIN k.active}
    IN  IF is_page_in_ws(k, p) \/ ~k.ok THEN k
        ELSE [k EXCEPT
                !.active = Append(IF reset THEN <<>> ELSE @,
                                  env_page_ws_list_create_element(p)),
                !.pt[e] = [q \in Page |-> IF reset /\ q \in gone
                                          THEN [@[q] EXCEPT !.present = FALSE]
                                          ELSE @[q]],
                !.stream[e] = Append(@, p)]

page_fault_handler_OPTIMAL(k, e, p) ==
    optimal_record(optimal_present(optimal_init(k, e), e, p), e, p)

-----------------------------------------------------------------------------
\* A page in the OPTIMAL active set is not replaced by the clocks: the page
\* under the hand is marked used and the fault repeats.
OnlyMarkHand(k, e) ==
    IF HandLost(k, e) THEN Panic(k) ELSE [k EXCEPT !.pt[e][k.hand[e]].used = TRUE]

page_fault_handler(k, e, p) ==
    CASE k.algo = "OPTIMAL" -> page_fault_handler_OPTIMAL(k, e, p)
      [] k.algo # "OPTIMAL" /\ Len(k.ws[e]) < k.max -> Placement(k, e, p)
      [] k.algo = "LRU" /\ Len(k.ws[e]) >= k.max -> replacement_LRU(k, e, p)
      [] k.algo \in {"CLOCK", "ModifiedCLOCK"} /\ Len(k.ws[e]) >= k.max ->
           IF is_page_in_ws(k, p) THEN OnlyMarkHand(k, e)
           ELSE IF k.algo = "CLOCK" THEN replacement_CLOCK(k, e, p)
                                    ELSE replacement_ModifiedCLOCK(k, e, p)
=============================================================================
