-------------------------- MODULE KHeapInterleaved --------------------------
(***************************************************************************)
(* kmalloc and kfree as system calls run them: kheap.c takes no lock, and  *)
(* a system call runs with interrupts on (trap.c:265-273), so the clock    *)
(* may switch to another process between any two accesses to the heap.     *)
(* Each process allocates and frees what it got, as env_create does for    *)
(* the kernel stack and the directories of the process sys_create_env      *)
(* makes.                                                                  *)
(***************************************************************************)
EXTENDS KHeap

CONSTANT Proc

VARIABLES pc,    \* where each process is, with the locals of the call
          got    \* what kmalloc returned to it, NULL once it calls kfree

ivars == <<vars, pc, got>>

Idle == [at |-> "idle", size |-> 0, va |-> NULL, i |-> 0]

InitI ==
    /\ Init
    /\ pc = [p \in Proc |-> Idle]
    /\ got = [p \in Proc |-> NULL]

Goto(p, r) == pc' = [pc EXCEPT ![p] = r]
At(p, l)   == hp.ok /\ pc[p].at = l

kmalloc_find(p, size) ==
    /\ At(p, "idle") /\ got[p] = NULL
    /\ ~Refused(hp, size)
    /\ Goto(p, [at |-> "place", size |-> size, i |-> 0,
                va |-> find_customfit(hp, Pages(size))])
    /\ UNCHANGED <<vars, got>>

kmalloc_place(p) ==
    LET n == Pages(pc[p].size) IN
    /\ At(p, "place")
    /\ IF pc[p].va # NULL THEN Goto(p, [pc[p] EXCEPT !.at = "map"]) /\ UNCHANGED hp
       ELSE IF hp.brk + n > HeapMax THEN Goto(p, Idle) /\ UNCHANGED hp
       ELSE /\ hp' = [hp EXCEPT !.brk = @ + n]
            /\ Goto(p, [pc[p] EXCEPT !.at = "map", !.va = hp.brk])
    /\ UNCHANGED <<live, blk, got>>

kmalloc_map(p) ==
    /\ At(p, "map")
    /\ hp' = get_page(hp, pc[p].va + pc[p].i)
    /\ Goto(p, [pc[p] EXCEPT !.i = @ + 1,
                  !.at = IF pc[p].i + 1 = Pages(pc[p].size) THEN "store" ELSE "map"])
    /\ UNCHANGED <<live, blk, got>>

kmalloc_store(p) ==
    /\ At(p, "store")
    /\ hp' = [hp EXCEPT !.size[pc[p].va] = pc[p].size]
    /\ got' = [got EXCEPT ![p] = pc[p].va]
    /\ Goto(p, Idle)
    /\ UNCHANGED <<live, blk>>

kfree_read(p) ==
    /\ At(p, "idle") /\ got[p] # NULL
    /\ got' = [got EXCEPT ![p] = NULL]
    /\ Goto(p, IF hp.size[got[p]] = 0 THEN Idle
               ELSE [at |-> "unmap", size |-> hp.size[got[p]], va |-> got[p], i |-> 0])
    /\ UNCHANGED vars

kfree_unmap(p) ==
    /\ At(p, "unmap")
    /\ hp' = return_page(hp, pc[p].va + pc[p].i)
    /\ Goto(p, [pc[p] EXCEPT !.i = @ + 1,
                  !.at = IF pc[p].i + 1 = Pages(pc[p].size) THEN "clear" ELSE "unmap"])
    /\ UNCHANGED <<live, blk, got>>

kfree_clear(p) ==
    /\ At(p, "clear")
    /\ hp' = [hp EXCEPT !.size[pc[p].va] = 0]
    /\ Goto(p, [pc[p] EXCEPT !.at = "lower"])
    /\ UNCHANGED <<live, blk, got>>

\* One round of the loop that lowers the break.
kfree_lower(p) ==
    /\ At(p, "lower")
    /\ IF hp.brk > 1 /\ hp.pt[hp.brk - 1] = NoFrame
       THEN hp' = [hp EXCEPT !.brk = @ - 1] /\ UNCHANGED pc
       ELSE Goto(p, Idle) /\ UNCHANGED hp
    /\ UNCHANGED <<live, blk, got>>

NextI ==
    \E p \in Proc :
        \/ \E size \in 2 .. MaxSize : kmalloc_find(p, size)
        \/ kmalloc_place(p) \/ kmalloc_map(p) \/ kmalloc_store(p)
        \/ kfree_read(p) \/ kfree_unmap(p) \/ kfree_clear(p) \/ kfree_lower(p)

SpecI == InitI /\ [][NextI]_ivars

\* kheap.c:11, of kallocation_sizes: "0 => free": what a process holds is
\* never recorded as free.
HeldIsNotFree == \A p \in Proc : got[p] # NULL => hp.size[got[p]] # 0
=============================================================================
