---------------------------- MODULE SharedMemory ----------------------------
(***************************************************************************)
(* Shared objects: kern/mem/shared_memory_manager.c and its system calls,  *)
(* on the frames and page tables of Frames.  An object is a name of its    *)
(* owner and the frames the owner allocated for it; whoever gets it maps   *)
(* the same frames.  Every function runs under the shares spinlock with    *)
(* interrupts off, so a system call is one step; sget is two of them, the  *)
(* size first.  Nothing deletes an object: delete_shared_object panics and *)
(* a process that exits keeps its pages.  smalloc and sget of the user     *)
(* library are external: they choose the address.                          *)
(***************************************************************************)
EXTENDS Frames, FiniteSetsExt

CONSTANTS Name,      \* names shorter than the 64 bytes of Share.name
          Sizes,     \* requested sizes, in pages
          MaxShares  \* bound on the objects

ASSUME SharedAssumption == Sizes \subseteq Nat

VARIABLES k,          \* frames and page tables
          writable,   \* the pages each process may write
          shares,     \* AllShares.shares_list
          shareslock, \* "free", or "left" by a process that panicked inside
          status,     \* "live" or "exit"
          getting     \* a process between the two calls of sget

svars == <<k, writable, shares, shareslock, status, getting>>

Idle == [owner |-> NULL, name |-> NULL, size |-> 0]

Lists == {"free_frame_list", "disk_free_frame_list"}
Unlisted == [l \in Lists |-> NULL]
Unlinked == [f \in Frame \cup DFrame |-> NULL]

SharedInit ==
    /\ k = [h |-> initialize_paging([first |-> Unlisted, last |-> Unlisted, size |-> [l \in Lists |-> 0],
                                     next |-> Unlinked, prev |-> Unlinked], Ascending(Frame)),
            refs |-> [f \in Frame |-> 0], mem |-> [f \in Frame |-> NULL],
            dir |-> [e \in Env |-> {}], pt |-> [e \in Env |-> [p \in Page |-> NoEntry]], ok |-> TRUE]
    /\ writable = [e \in Env |-> {}]
    /\ shares = <<>>
    /\ shareslock = "free"
    /\ status = [e \in Env |-> "live"]
    /\ getting = [e \in Env |-> Idle]

\* Where the user library may place n pages: the lowest hole of its heap.
Holes(e, n) == {p \in HeapPages : \A i \in 0 .. n - 1 :
                  p + i \in HeapPages /\ ~k.pt[e][p + i].present}
VAFor(e, n) == Min(Holes(e, n))

\* Mutation: the names are compared as pointers, and are never the same.
find_share_pointers(owner, name) == 0

\* The index of the object in the list, 0 if there is none.
find_share(owner, name) ==
    LET found == {i \in DOMAIN shares : shares[i].owner = owner /\ shares[i].name = name}
    IN  IF found = {} THEN 0 ELSE Min(found)

size_of_shared_object(owner, name) ==
    IF find_share(owner, name) = 0 THEN 0 ELSE shares[find_share(owner, name)].size

alloc_share(e, name, n, isWritable, frames) ==
    [owner |-> e, name |-> name, size |-> n, isWritable |-> isWritable,
     references |-> 1, frames |-> frames]

\* The loop of create_shared_object: allocate and map page after page.  It stops
\* where no frame is left, for allocate_frame panics.
CreatePages(x, e, va, n) ==
    LET step[i \in 0 .. n] ==
          IF i = 0 THEN [k |-> x, frames |-> <<>>]
          ELSE LET s == step[i - 1]
                   a == allocate_frame(s.k)
                   f == FreeFrame(s.k)
               IN  IF ~a.ok THEN [s EXCEPT !.k.ok = FALSE]
                   ELSE [k |-> map_frame(a, e, f, va + i - 1, FALSE), frames |-> Append(s.frames, f)]
    IN  step[n]

-----------------------------------------------------------------------------
Ready(e) == status[e] = "live" /\ getting[e] = Idle

\* An object of no pages has no frame storage: the failed allocation is given to
\* kfree as a null pointer, which panics and so ends the process; the lock is
\* free again by then.  A panic for want of frames leaves the lock taken, and the
\* kernel in the prompt, from where the others may be run again.
sys_create_shared_object(e, name, n, isWritable) ==
    /\ Ready(e) /\ shareslock = "free" /\ Holes(e, n) # {}
    /\ \/ /\ find_share(e, name) # 0
          /\ UNCHANGED <<k, writable, shares, shareslock, status>>
       \/ /\ find_share(e, name) = 0 /\ n = 0
          /\ status' = [status EXCEPT ![e] = "exit"]
          /\ UNCHANGED <<k, writable, shares, shareslock>>
       \/ /\ find_share(e, name) = 0 /\ n > 0
          /\ LET made == CreatePages(k, e, VAFor(e, n), n)
             IN  /\ k' = [made.k EXCEPT !.ok = TRUE]
                 /\ writable' = [writable EXCEPT ![e] =
                                   @ \cup {VAFor(e, n) + i - 1 : i \in DOMAIN made.frames}]
                 /\ IF made.k.ok
                    THEN /\ shares' = Append(shares, alloc_share(e, name, n, isWritable, made.frames))
                         /\ UNCHANGED <<shareslock, status>>
                    ELSE /\ shareslock' = "left"
                         /\ status' = [status EXCEPT ![e] = "exit"]
                         /\ UNCHANGED shares
    /\ UNCHANGED getting

\* Once the lock is left taken, acquiring it is a panic that ends the caller.
LockLeft(e) ==
    /\ status[e] = "live" /\ shareslock = "left"
    /\ status' = [status EXCEPT ![e] = "exit"]
    /\ UNCHANGED <<k, writable, shares, shareslock, getting>>

\* The first call of sget.  A missing object ends it.  Looking for an object goes
\* on under a lock that the CPU has already, left behind or not.
sys_size_of_shared_object(e, owner, name) ==
    /\ Ready(e)
    /\ size_of_shared_object(owner, name) > 0
    /\ Holes(e, size_of_shared_object(owner, name)) # {}
    /\ getting' = [getting EXCEPT ![e] = [owner |-> owner, name |-> name,
                                          size |-> size_of_shared_object(owner, name)]]
    /\ UNCHANGED <<k, writable, shares, shareslock, status>>

\* Mutation: the pages are always writable.
GetPermission_always(s) == TRUE

\* PERM_WRITEABLE only if the object says so.
GetPermission(s) == s.isWritable

\* The frames of the object are mapped one after the other from the address that
\* was chosen for the size of the first call.
sys_get_shared_object(e) ==
    LET g == getting[e]
        i == find_share(g.owner, g.name)
        s == shares[i]
        va == VAFor(e, g.size)
        step[j \in 0 .. s.size] ==
          IF j = 0 THEN k ELSE map_frame(step[j - 1], e, s.frames[j], va + j - 1, FALSE)
    IN  /\ status[e] = "live" /\ g # Idle /\ shareslock = "free"
        /\ k' = step[s.size]
        /\ writable' = [writable EXCEPT ![e] =
                          IF GetPermission(s) THEN @ \cup (va .. va + s.size - 1) ELSE @ \ (va .. va + s.size - 1)]
        /\ shares' = [shares EXCEPT ![i].references = @ + 1]
        /\ getting' = [getting EXCEPT ![e] = Idle]
        /\ UNCHANGED <<shareslock, status>>

\* A write to a page the process may not write is a fault that ends it.
Write(e, p) ==
    /\ Ready(e) /\ k.pt[e][p].present
    /\ IF p \in writable[e]
       THEN k' = [k EXCEPT !.mem[k.pt[e][p].frame] = e] /\ UNCHANGED status
       ELSE status' = [status EXCEPT ![e] = "exit"] /\ UNCHANGED k
    /\ UNCHANGED <<writable, shares, shareslock, getting>>

Create(e) == \E name \in Name, n \in Sizes, w \in BOOLEAN :
    Len(shares) < MaxShares /\ sys_create_shared_object(e, name, n, w)
Size(e) == \E owner \in Env, name \in Name : sys_size_of_shared_object(e, owner, name)
Use(e) == \E p \in Page : Write(e, p)

SharedNext == \E e \in Env : Create(e) \/ Size(e) \/ sys_get_shared_object(e) \/ LockLeft(e) \/ Use(e)

SharedSpec == SharedInit /\ [][SharedNext]_svars

-----------------------------------------------------------------------------
Mapping(s, e) == {p \in Page : \E j \in DOMAIN s.frames : k.pt[e][p].frame = s.frames[j]}

\* shared_memory_manager.c:203-209, 259-263: an owner has one object of a name;
\* the size that sget asked for first is still the size when it maps; nobody
\* ever has part of an object; an object counts one reference for its owner
\* and one for every time it was got; and no frame is lost or free while
\* mapped, in the middle of an object that could not be completed too.
SharesAccounted ==
    /\ \A i, j \in DOMAIN shares :
          (shares[i].owner = shares[j].owner /\ shares[i].name = shares[j].name) => i = j
    /\ \A e \in Env : getting[e] # Idle =>
          size_of_shared_object(getting[e].owner, getting[e].name) = getting[e].size
    /\ \A i \in DOMAIN shares :
          /\ \A e \in Env : \E n \in 0 .. shares[i].references :
                /\ Cardinality(Mapping(shares[i], e)) = n * shares[i].size
                /\ e = shares[i].owner => n > 0
          /\ shares[i].references * shares[i].size =
                Cardinality({x \in Env \X Page : x[2] \in Mapping(shares[i], x[1])})
          /\ \A j \in DOMAIN shares : i # j => Range(shares[i].frames) \cap Range(shares[j].frames) = {}
    /\ FramesAccounted(k)

\* shared_memory_manager.h:30: what a read-only object holds is only ever changed
\* by its owner, whatever was mapped over or next to it.
ReadOnlyKept ==
    [][\A i \in DOMAIN shares : ~shares[i].isWritable =>
          \A j \in DOMAIN shares[i].frames :
             k'.mem[shares[i].frames[j]] \in {k.mem[shares[i].frames[j]], shares[i].owner}]_svars
=============================================================================
