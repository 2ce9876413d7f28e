------------------------------ MODULE PageFile ------------------------------
(***************************************************************************)
(* The page file: kern/disk/pagefile_manager.c, as operators on the record *)
(* k of Frames, which also holds                                           *)
(*   dpt   the disk frame of each page of each environment (NULL: dfn 0),  *)
(*   dmem  what each disk frame holds.                                     *)
(* The disk's own directory and tables are pages of the kernel heap, which *)
(* is taken to have room: a missing table reads as one without entries.    *)
(* The disk is taken to work (ide_read and ide_write return 0).            *)
(***************************************************************************)
EXTENDS Frames

CONSTANTS Zero,    \* what the zero page holds
          Value    \* what a page may hold

ASSUME PageFileAssumption == Zero \in Value

-----------------------------------------------------------------------------
(* Disk frames.  Frame 0 is never on the list: it stands for "none".       *)

initialize_disk_page_file(h, s) == InsertAll(h, "disk_free_frame_list", s)

FreeDiskFrame(k) == k.h.first["disk_free_frame_list"]

\* For a list that is not empty; initialize_frame_info clears the links,
\* which LIST_REMOVE has cleared.
allocate_disk_frame(k) ==
    [k EXCEPT !.h = LIST_REMOVE(@, "disk_free_frame_list", FreeDiskFrame(k))]

free_disk_frame(k, d) ==
    IF d = NULL THEN k
    ELSE [k EXCEPT !.h = LIST_INSERT_HEAD(@, "disk_free_frame_list", d)]

pf_calculate_free_frames(k) == k.h.size["disk_free_frame_list"]

read_disk_page(k, d, f) == [k EXCEPT !.mem[f] = k.dmem[d]]

write_disk_page(k, d, v) == [k EXCEPT !.dmem[d] = v]

-----------------------------------------------------------------------------
(* Pages of an environment.                                                *)

\* get_disk_page_directory and get_disk_page_table make both on demand.
DiskFrameOf(k, e, p) == k.dpt[e][p]

\* A page that need not be in the page file to be used.
MayBeNew(p) == p \in HeapPages \union StackPages

\* A page that has no disk frame gets one; E_NO_PAGE_FILE_SPACE when there is
\* none, which the callers turn into a panic.  Contents stay as they are.
pf_add_empty_env_page(k, e, p) ==
    IF DiskFrameOf(k, e, p) # NULL THEN k
    ELSE IF FreeDiskFrame(k) = NULL THEN Panic(k)
         ELSE [allocate_disk_frame(k) EXCEPT !.dpt[e][p] = FreeDiskFrame(k)]

\* Written to the disk frame of the page, if there was one.
WriteOut(k, e, p, v) == IF k.ok THEN write_disk_page(k, k.dpt[e][p], v) ELSE k

\* initializeByZero: the zero page is the source.
pf_add_env_page(k, e, p, v) == WriteOut(pf_add_empty_env_page(k, e, p), e, p, v)

\* The page goes through its own address to its disk frame and is clean.
WriteBack(k, e, p) ==
    IF ~k.ok THEN k
    ELSE [write_disk_page(k, k.dpt[e][p], k.mem[k.pt[e][p].frame])
            EXCEPT !.pt[e][p].modified = FALSE]

\* A page of the heap or the stack comes into being here; for any other the
\* code panics.  The page is written through its own address, made PRESENT
\* for that time, and is clean afterwards.
pf_update_env_page(k, e, p) ==
    WriteBack(CASE DiskFrameOf(k, e, p) # NULL -> k
                [] DiskFrameOf(k, e, p) = NULL /\ MayBeNew(p) -> pf_add_empty_env_page(k, e, p)
                [] OTHER -> Panic(k),
              e, p)

InPageFile(k, e, p) == DiskFrameOf(k, e, p) # NULL

\* The page is mapped.  The disk writes through the page's address, which sets
\* PERM_USED; the bit for modified is cleared again.
pf_read_env_page(k, e, p) ==
    IF ~InPageFile(k, e, p) THEN k
    ELSE [read_disk_page(k, k.dpt[e][p], k.pt[e][p].frame)
            EXCEPT !.pt[e][p].used = TRUE, !.pt[e][p].modified = FALSE]

pf_remove_env_page(k, e, p) ==
    [free_disk_frame(k, DiskFrameOf(k, e, p)) EXCEPT !.dpt[e][p] = NULL]

-----------------------------------------------------------------------------
\* pagefile_manager.c:64-68 and 138-147.  Every disk frame is on the free list
\* once or holds exactly one page, and the size field counts the list.
DiskFramesAccounted(k) ==
    LET free == Walk(k.h, "disk_free_frame_list") IN
    /\ Represents(k.h, "disk_free_frame_list", free)
    /\ \A d \in DFrame :
         LET held == {x \in Env \X Page : k.dpt[x[1]][x[2]] = d}
         IN  Cardinality(held) = IF \E i \in DOMAIN free : free[i] = d THEN 0 ELSE 1
    /\ pf_calculate_free_frames(k)
         + Cardinality({x \in Env \X Page : InPageFile(k, x[1], x[2])})
         = Cardinality(DFrame)
=============================================================================
