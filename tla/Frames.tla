------------------------------- MODULE Frames -------------------------------
(***************************************************************************)
(* Physical frames and page tables: kern/mem/memory_manager.c and          *)
(* kern/mem/paging_helpers.c, as operators on a record k that holds        *)
(*   h     the free lists of frames and of disk frames (LinkedList),       *)
(*   refs  frames_info[].references,      mem   what each frame holds,     *)
(*   dir   which page tables each environment has,                         *)
(*   pt    the entry of each page: frame, PERM_PRESENT, PERM_USED,         *)
(*         PERM_MODIFIED and PERM_UHPAGE,                                  *)
(*   ok    FALSE after a panic or an access through a wild pointer.        *)
(* A page table is a page of the kernel heap (module KHeap), which is      *)
(* taken to have room.  The first-level entry of a page is that of its     *)
(* region: the regions of the address space are 4 MB apart.                *)
(***************************************************************************)
EXTENDS Integers, Sequences, FiniteSets

CONSTANTS Env,
          Frame,     \* frames that the kernel heap does not use
          DFrame,    \* frames of the page file
          NULL,
          ProgPages,     \* pages of the program's segments, in order: 1, 2, ...
          HeapPages,     \* pages in [USER_HEAP_START, USER_HEAP_MAX)
          StackPages,    \* pages in [USTACKBOTTOM, USTACKTOP)
          OutsidePages,  \* other user pages
          AbovePages,    \* pages at and above USTACKTOP
          SizeMod        \* 2^32: LIST_SIZE is a uint32

Page == ProgPages \union HeapPages \union StackPages \union OutsidePages
          \union AbovePages

ASSUME FramesAssumption ==
    /\ Page \union Frame \union DFrame \subseteq Nat
    /\ Frame \intersect DFrame = {} /\ NULL \notin Frame \union DFrame
    /\ LET regions == <<ProgPages, HeapPages, StackPages, OutsidePages, AbovePages>>
       IN  \A i, j \in 1 .. 5 : i # j => regions[i] \intersect regions[j] = {}
    /\ IsFiniteSet(Frame \union DFrame)
    /\ SizeMod \in Nat /\ SizeMod > Cardinality(Frame \union DFrame)

INSTANCE LinkedList
    WITH Elm <- Frame \union DFrame, NULL <- NULL, SizeMod <- SizeMod,
         List <- {"free_frame_list", "disk_free_frame_list"}

PDX(p) == CASE p \in ProgPages -> "prog"       [] p \in HeapPages -> "heap"
            [] p \in StackPages -> "stack"     [] p \in OutsidePages -> "outside"
            [] p \in AbovePages -> "kernel"

NoEntry == [frame |-> NULL, present |-> FALSE, used |-> FALSE,
            modified |-> FALSE, uhpage |-> FALSE]

Panic(k) == [k EXCEPT !.ok = FALSE]

-----------------------------------------------------------------------------
(* The free list.  The frame lock is a spinlock: the section under it is   *)
(* one step.                                                               *)

\* The links are zeroed with the rest of the structure.
initialize_frame_info(k, f) ==
    [k EXCEPT !.refs[f] = 0, !.h.next[f] = NULL, !.h.prev[f] = NULL]

\* The order of frames_info[].
Ascending(S) == [i \in 1 .. Cardinality(S) |->
                   CHOOSE x \in S : Cardinality({y \in S : y <= x}) = i]

\* Both lists start with every frame, the last one inserted first.
initialize_paging(h, s) == InsertAll(h, "free_frame_list", s)

\* LIST_FIRST, or NULL, in which case allocate_frame panics.
FreeFrame(k) == k.h.first["free_frame_list"]

allocate_frame(k) ==
    IF FreeFrame(k) = NULL THEN Panic(k)
    ELSE initialize_frame_info(
           [k EXCEPT !.h = LIST_REMOVE(@, "free_frame_list", FreeFrame(k))],
           FreeFrame(k))

free_frame(k, f) ==
    LET c == initialize_frame_info(k, f)
    IN  [c EXCEPT !.h = LIST_INSERT_HEAD(@, "free_frame_list", f)]

decrement_references(k, f) ==
    IF k.refs[f] = 1 THEN free_frame(k, f) ELSE [k EXCEPT !.refs[f] = @ - 1]

-----------------------------------------------------------------------------
(* Page tables.                                                            *)

get_page_table(k, e, p) == PDX(p) \in k.dir[e]

create_page_table(k, e, p) == [k EXCEPT !.dir[e] = @ \union {PDX(p)}]

WithTable(k, e, p) == IF get_page_table(k, e, p) THEN k ELSE create_page_table(k, e, p)

\* The frame a page has, present or not; NULL for a page that is only marked.
get_frame_info(k, e, p) ==
    IF get_page_table(k, e, p) THEN k.pt[e][p].frame ELSE NULL

\* Mutation: the entry is cleared and the frame forgotten.
unmap_frame_forgets(k, e, p) ==
    [k EXCEPT !.pt[e][p] = [NoEntry EXCEPT !.uhpage = k.pt[e][p].uhpage]]

\* Everything but PERM_AVAILABLE, where PERM_UHPAGE is, goes.
unmap_frame(k, e, p) ==
    LET f == get_frame_info(k, e, p)
    IN  IF f = NULL THEN k
        ELSE [decrement_references(k, f) EXCEPT
                !.pt[e][p] = [NoEntry EXCEPT !.uhpage = k.pt[e][p].uhpage]]

\* A frame that was mapped there is unmapped first, unless it is the same.
\* perm has PERM_USED or not; the mark of the user heap is kept.
MapInto(k, e, f, p, used) ==
    LET old == k.pt[e][p]
    IN  IF old.present /\ old.frame = f THEN k
        ELSE [IF old.present THEN unmap_frame(k, e, p) ELSE k EXCEPT
                !.refs[f] = @ + 1,
                !.pt[e][p] = [@ EXCEPT !.frame = f, !.present = TRUE,
                                       !.used = used, !.modified = FALSE]]

map_frame(k, e, f, p, used) == MapInto(WithTable(k, e, p), e, f, p, used)

\* As map_frame, for a page that is known to be unmapped, at load time.
loadtime_map_frame(k, e, f, p) ==
    [WithTable(k, e, p) EXCEPT
       !.refs[f] = @ + 1,
       !.pt[e][p] = [NoEntry EXCEPT !.frame = f, !.present = TRUE]]

\* set and clear are changes to the bits of the entry.
pt_set_page_permissions(k, e, p, entry) ==
    IF get_page_table(k, e, p) THEN [k EXCEPT !.pt[e][p] = entry] ELSE Panic(k)

pt_get_page_permissions(k, e, p) ==
    IF get_page_table(k, e, p) THEN k.pt[e][p] ELSE NoEntry

calculate_available_frames(k) == Len(Walk(k.h, "free_frame_list"))

-----------------------------------------------------------------------------
\* The environments' pages that a frame is mapped at.
MappedAt(k, f) == {x \in Env \X Page : k.pt[x[1]][x[2]].frame = f}

\* memory_manager.c:45-47: "frames_info are reference counted, and free frames
\* are kept on a linked list".  Every frame is on the free list once or has a
\* count equal to the number of page table entries that hold it; the list is
\* well formed: no frame is lost, given out twice or given out while mapped.
FramesAccounted(k) ==
    LET free == Walk(k.h, "free_frame_list") IN
    /\ Represents(k.h, "free_frame_list", free)
    /\ \A f \in Frame :
         /\ k.refs[f] = Cardinality(MappedAt(k, f))
         /\ (\E i \in DOMAIN free : free[i] = f) <=> k.refs[f] = 0
=============================================================================
