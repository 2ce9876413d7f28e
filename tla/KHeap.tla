------------------------------- MODULE KHeap -------------------------------
(***************************************************************************)
(* The kernel heap (kern/mem/kheap.c): the page allocator between          *)
(* kheapPageAllocStart and KERNEL_HEAP_MAX, with custom-fit placement, and *)
(* its use of frames and of the kernel page table                          *)
(* (kern/mem/paging_helpers.c alloc_page, kern/mem/memory_manager.c).      *)
(* Requests of at most DYN_ALLOC_MAX_BLOCK_SIZE go to the dynamic          *)
(* allocator, which is not in the repository: a pool of equal blocks.      *)
(*                                                                         *)
(* Pages are numbered from kheapPageAllocStart = 1; the address 0 is NULL. *)
(* Sizes are in units of DYN_ALLOC_MAX_BLOCK_SIZE, of which a page has     *)
(* Unit.  Each call is one step here; KHeapInterleaved takes them apart.   *)
(***************************************************************************)
EXTENDS Integers, Sequences, FiniteSets, Functions, FiniteSetsExt

CONSTANTS N,         \* pages up to KERNEL_HEAP_MAX
          Frame,     \* physical frames
          Block,     \* blocks of the dynamic allocator
          MaxSize,   \* largest request
          Unit,      \* units in a page: PAGE_SIZE / DYN_ALLOC_MAX_BLOCK_SIZE
          NoFrame    \* a page table entry without PERM_PRESENT

ASSUME KHeapAssumption ==
    /\ N \in Nat \ {0} /\ Unit \in Nat \ {0} /\ MaxSize \in Nat
    /\ NoFrame \notin Frame /\ IsFiniteSet(Frame)

Page     == 1 .. N
HeapMax  == N + 1
NULL     == 0
Tag      == 1 .. N          \* what the owner of an allocation writes in it
Pages(s) == (s + Unit - 1) \div Unit
Span(a, n) == a .. a + n - 1

VARIABLES hp,     \* the heap, its page table and the frames
          live,   \* what each allocation is to its owner
          blk     \* blocks that kmalloc returned and nobody gave back

vars == <<hp, live, blk>>

None == [size |-> 0, tag |-> 0, kept |-> 0]

-----------------------------------------------------------------------------
(* get_page and return_page: alloc_page and unmap_frame on the kernel      *)
(* directory.  allocate_frame takes the first of the free frames, and      *)
(* panics when there is none; free_frame puts it back first.  The contents *)
(* of a free frame are nobody's: 0.                                        *)

get_page(s, v) ==
    IF ~s.ok \/ s.pt[v] # NoFrame THEN s
    ELSE IF s.free = <<>> THEN [s EXCEPT !.ok = FALSE]
    ELSE LET f == Head(s.free) IN
         [s EXCEPT !.pt[v] = f, !.mapped_va[f] = v, !.free = Tail(@)]

\* Mutation: the reverse mapping of a frame outlives its use.
return_page_stale(s, v) ==
    IF s.pt[v] = NoFrame THEN s
    ELSE LET f == s.pt[v] IN
         [s EXCEPT !.pt[v] = NoFrame, !.free = <<f>> \o @, !.mem[f] = 0]

return_page(s, v) ==
    IF s.pt[v] = NoFrame THEN s
    ELSE LET f == s.pt[v] IN
         [s EXCEPT !.pt[v] = NoFrame, !.mapped_va[f] = NULL, !.free = <<f>> \o @,
                   !.mem[f] = 0]

\* The loops that map and unmap n pages from a.
GetPages(s, a, n) ==
    LET got[i \in 0 .. n] == IF i = 0 THEN s ELSE get_page(got[i - 1], a + i - 1)
    IN  got[n]

ReturnPages(s, a, n) ==
    LET left[i \in 0 .. n] == IF i = 0 THEN s ELSE return_page(left[i - 1], a + i - 1)
    IN  left[n]

-----------------------------------------------------------------------------
(* find_customfit: one pass over the heap, jumping over allocations and    *)
(* measuring each hole; the first hole of the exact size, or else the      *)
(* first of the largest.                                                   *)

HoleEnd(s, v) == Min({u \in v .. s.brk : u = s.brk \/ s.size[u] # 0})

\* One round, at page b.v; past the break the loop has ended.
ScanStep(s, n, b) ==
    IF b.v >= s.brk THEN b
    ELSE IF s.size[b.v] # 0 THEN [b EXCEPT !.v = @ + Pages(s.size[b.v])]
    ELSE LET e == HoleEnd(s, b.v)
             w == e - b.v
             wider == w >= n /\ w > b.worst
         IN  [v     |-> e,
              exact |-> IF w = n /\ b.exact = NULL THEN b.v ELSE b.exact,
              worst |-> IF wider THEN w ELSE b.worst,
              at    |-> IF wider THEN b.v ELSE b.at]

\* Each round passes at least one of the N pages.
Scan(s, n) ==
    LET b[i \in 0 .. N] ==
          IF i = 0 THEN [v |-> 1, exact |-> NULL, worst |-> 0, at |-> NULL]
          ELSE ScanStep(s, n, b[i - 1])
    IN  b[N]

\* Mutation: the first hole that is large enough.
find_customfit_first(s, n) ==
    LET fits == {v \in 1 .. s.brk - n :
                   \A u \in Span(v, n) : s.size[u] = 0 /\ s.pt[u] = NoFrame}
    IN  IF fits = {} THEN NULL ELSE Min(fits)

Chosen(best, n) ==
    CASE best.exact # NULL -> best.exact
      [] best.exact = NULL /\ best.worst >= n -> best.at
      [] OTHER -> NULL

find_customfit(s, n) == Chosen(Scan(s, n), n)

-----------------------------------------------------------------------------
(* kmalloc, kfree, krealloc; each returns the heap and an address          *)

Refused(s, size) == size = 0 \/ Pages(size) > HeapMax - s.brk

\* The address is chosen, and the break is moved if no hole fits.
Place(s, n) ==
    LET v == find_customfit(s, n) IN
    IF v # NULL THEN [hp |-> s, va |-> v]
    ELSE IF s.brk + n > HeapMax THEN [hp |-> s, va |-> NULL]
    ELSE [hp |-> [s EXCEPT !.brk = @ + n], va |-> s.brk]

\* The page allocator's part of kmalloc.
kmalloc_pages(s, size) ==
    LET n == Pages(size)
        p == Place(s, n)
        m == GetPages(p.hp, p.va, n)
    IN  IF Refused(s, size) \/ p.va = NULL THEN [hp |-> s, va |-> NULL]
        ELSE IF ~m.ok THEN [hp |-> m, va |-> NULL]
        ELSE [hp |-> [m EXCEPT !.size[p.va] = size], va |-> p.va]

\* The break comes down over the pages that are not present.
Lower(s) == [s EXCEPT !.brk =
                Max({b \in 1 .. @ : b = 1 \/ s.pt[b - 1] # NoFrame})]

\* Mutation: the break is not lowered.
kfree_keeps_break(s, v) ==
    IF s.size[v] = 0 THEN s
    ELSE [ReturnPages(s, v, Pages(s.size[v])) EXCEPT !.size[v] = 0]

\* An address whose entry of kallocation_sizes is 0 is taken as free already.
kfree(s, v) ==
    IF s.size[v] = 0 THEN s
    ELSE Lower([ReturnPages(s, v, Pages(s.size[v])) EXCEPT !.size[v] = 0])

\* memcpy of the first n pages from v to u.
memcpy(s, u, v, n) ==
    [s EXCEPT !.mem = [f \in Frame |->
        IF s.mapped_va[f] \in Span(u, n) THEN s.mem[s.pt[s.mapped_va[f] - u + v]]
                                         ELSE s.mem[f]]]

\* Mutation: the size of the allocation stays the old one.
krealloc_shrink_keeps_size(s, v, old, new, size) ==
    LET r == ReturnPages(s, v + new, old - new)
    IN  [hp |-> IF v + old = s.brk THEN [r EXCEPT !.brk = v + new] ELSE r,
         va |-> v]

\* krealloc, page to page: shrink in place, grow in place into free pages
\* below the break, or move.
krealloc_shrink(s, v, old, new, size) ==
    LET r == [ReturnPages(s, v + new, old - new) EXCEPT !.size[v] = size]
    IN  [hp |-> IF v + old = s.brk THEN [r EXCEPT !.brk = v + new] ELSE r,
         va |-> v]

\* Mutation: only the break is tested.
CanExtend_to_break(s, v, old, new) == v + new <= s.brk

CanExtend(s, v, old, new) ==
    \A u \in Span(v + old, new - old) : u < s.brk /\ s.size[u] = 0

krealloc_extend(s, v, old, new, size) ==
    LET m == GetPages(s, v + old, new - old)
    IN  IF m.ok THEN [hp |-> [m EXCEPT !.size[v] = size], va |-> v]
                ELSE [hp |-> m, va |-> NULL]

\* Mutation: the contents are not copied.
krealloc_move_no_copy(s, v, old, size) ==
    LET k == kmalloc_pages(s, size)
    IN  IF k.va = NULL THEN k ELSE [k EXCEPT !.hp = kfree(@, v)]

krealloc_move(s, v, old, size) ==
    LET k == kmalloc_pages(s, size)
    IN  IF k.va = NULL THEN k
        ELSE [k EXCEPT !.hp = kfree(memcpy(@, k.va, v, old), v)]

krealloc_pages(s, v, size) ==
    LET old == Pages(s.size[v])  new == Pages(size)
    IN  CASE s.size[v] = size -> [hp |-> s, va |-> v]
          [] s.size[v] # size /\ new < old -> krealloc_shrink(s, v, old, new, size)
          [] new > old /\ CanExtend(s, v, old, new) ->
               krealloc_extend(s, v, old, new, size)
          [] OTHER -> krealloc_move(s, v, old, size)

-----------------------------------------------------------------------------
(* The callers: each allocation has an owner who fills it with its tag.    *)

IsLive(v) == live[v] # None

Fill(s, v, n, t) ==
    [s EXCEPT !.mem = [f \in Frame |->
        IF s.mapped_va[f] \in Span(v, n) THEN t ELSE s.mem[f]]]

FreeTag == CHOOSE t \in Tag : \A v \in Page : live[v].tag # t

Init ==
    /\ \E q \in Bijection(1 .. Cardinality(Frame), Frame) :
       hp = [size |-> [v \in Page |-> 0], brk |-> 1,
             pt |-> [v \in Page |-> NoFrame],
             mapped_va |-> [f \in Frame |-> NULL],
             mem |-> [f \in Frame |-> 0],
             free |-> q, blocks |-> {}, ok |-> TRUE]
    /\ live = [v \in Page |-> None]
    /\ blk = {}

KmallocPages(size) ==
    LET k == kmalloc_pages(hp, size)  t == FreeTag IN
    /\ hp.ok /\ size > 1
    /\ IF k.va = NULL THEN hp' = k.hp /\ UNCHANGED live
       ELSE /\ hp' = Fill(k.hp, k.va, Pages(size), t)
            /\ live' = [live EXCEPT ![k.va] =
                          [size |-> size, tag |-> t, kept |-> Pages(size)]]
    /\ UNCHANGED blk

\* A request of one unit; the break is tested first here too.
KmallocBlock ==
    /\ hp.ok /\ ~Refused(hp, 1)
    /\ \E b \in Block \ hp.blocks :
         /\ hp' = [hp EXCEPT !.blocks = @ \union {b}]
         /\ blk' = blk \union {b}
    /\ UNCHANGED live

KfreePages(v) ==
    /\ hp.ok
    /\ hp' = kfree(hp, v)
    /\ live' = [live EXCEPT ![v] = None]
    /\ UNCHANGED blk

\* kallocation_sizes has no entry for the address of a block, so kfree takes
\* it as free already and returns.
KfreeBlock(b) ==
    /\ hp.ok /\ b \in blk
    /\ blk' = blk \ {b}
    /\ UNCHANGED <<hp, live>>

\* The owner resizes: krealloc(v, 0) is kfree.
KreallocPages(v, size) ==
    LET k == krealloc_pages(hp, v, size) IN
    /\ hp.ok /\ IsLive(v) /\ size > 1
    /\ hp' = k.hp
    /\ live' = IF k.va = NULL THEN live
               ELSE [live EXCEPT ![v] = None,
                                 ![k.va] = [live[v] EXCEPT !.size = size,
                                              !.kept = Min({@, Pages(size)})]]
    /\ UNCHANGED blk

\* Page to block.  The memcpy of the old size, which is more than the block
\* holds (kheap.c:363), is not modelled: what it overwrites belongs to the
\* dynamic allocator.
KreallocToBlock(v) ==
    /\ hp.ok /\ IsLive(v)
    /\ \E b \in Block \ hp.blocks :
         /\ hp' = [kfree(hp, v) EXCEPT !.blocks = @ \union {b}]
         /\ blk' = blk \union {b}
    /\ live' = [live EXCEPT ![v] = None]

\* Block to page: kmalloc, copy, free_block.
KreallocFromBlock(b, size) ==
    LET k == kmalloc_pages(hp, size)  t == FreeTag IN
    /\ hp.ok /\ b \in blk /\ size > 1
    /\ IF k.va = NULL THEN hp' = k.hp /\ UNCHANGED <<live, blk>>
       ELSE /\ hp' = [Fill(k.hp, k.va, 1, t) EXCEPT !.blocks = @ \ {b}]
            /\ live' = [live EXCEPT ![k.va] =
                          [size |-> size, tag |-> t, kept |-> 1]]
            /\ blk' = blk \ {b}

Next ==
    \/ \E size \in 2 .. MaxSize : KmallocPages(size)
    \/ KmallocBlock
    \/ \E v \in Page : KfreePages(v)
    \/ \E b \in Block : KfreeBlock(b)
    \/ \E v \in Page, size \in 2 .. MaxSize : KreallocPages(v, size)
    \/ \E v \in Page : KreallocToBlock(v)
    \/ \E b \in Block, size \in 2 .. MaxSize : KreallocFromBlock(b, size)

Spec == Init /\ [][Next]_vars

-----------------------------------------------------------------------------
Owned(v) == Span(v, Pages(live[v].size))

\* No two allocations share a page, and each lies below the break.
NoOverlap ==
    \A u, v \in {x \in Page : IsLive(x)} :
        /\ Owned(v) \subseteq 1 .. hp.brk - 1
        /\ u # v => Owned(u) \intersect Owned(v) = {}

\* kheap.c:11: "store allocation size in bytes, 0 => free".  The sizes are
\* those the owners asked for last, and the pages that are present are those
\* of the allocations: nothing leaks and nothing is unmapped under its owner,
\* through every kfree and every way krealloc shrinks, extends or moves (a
\* panic for lack of frames leaves the pages it had mapped).
SizesMatchOwners ==
    /\ \A v \in Page : hp.size[v] = live[v].size
    /\ hp.ok => {v \in Page : hp.pt[v] # NoFrame}
                  = UNION {Owned(v) : v \in {x \in Page : IsLive(x)}}

\* Every frame is either free, once, or behind exactly one page, and
\* kheap_virtual_address and kheap_physical_address are inverse to each other
\* (kheap.c:236-290).
FramesAndAddresses ==
    /\ IsInjective(hp.free)
    /\ \A f \in Frame : f \in Range(hp.free) <=> hp.mapped_va[f] = NULL
    /\ \A v \in Page, f \in Frame : hp.pt[v] = f <=> hp.mapped_va[f] = v

\* The page below the break is always in use: the break never strands free
\* pages above which nothing is allocated (kheap.c:208-223, 385-386).
BreakIsTight == hp.ok /\ hp.brk > 1 => hp.pt[hp.brk - 1] # NoFrame

\* What an owner wrote is still there after any sequence of calls: krealloc
\* keeps the contents it must keep, and nobody's pages are given to another
\* (kheap.c:295-303).
ContentsKept ==
    \A v \in Page : IsLive(v) =>
        \A i \in 0 .. live[v].kept - 1 : hp.mem[hp.pt[v + i]] = live[v].tag

\* What find_customfit finds is custom fit: an exact hole if there is one,
\* the lowest; otherwise the largest, the lowest of those; a hole is a
\* maximal run of pages below the break that no allocation covers.
Hole(v, n) ==
    LET used == UNION {Owned(u) : u \in {x \in Page : IsLive(x)}}
        isfree(u) == u \in 1 .. hp.brk - 1 /\ u \notin used
    IN  /\ \A u \in Span(v, n) : isfree(u)
        /\ ~isfree(v - 1) /\ ~isfree(v + n)

Widths   == {n \in Page : \E v \in Page : Hole(v, n)}
Lowest(n) == Min({v \in Page : Hole(v, n)})

PlacementIsCustomFit ==
    \A n \in Page :
        find_customfit(hp, n) =
            IF n \in Widths THEN Lowest(n)
            ELSE IF \E w \in Widths : w > n THEN Lowest(Max(Widths))
            ELSE NULL
=============================================================================
