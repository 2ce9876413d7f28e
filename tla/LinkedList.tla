----------------------------- MODULE LinkedList -----------------------------
(***************************************************************************)
(* The list macros of inc/queue.h, on which every queue of the kernel      *)
(* stands (process queues, channels, free frames, working sets, shares).   *)
(* A value h holds the heads of all lists and the links inside all         *)
(* elements: a macro that is given the wrong list, or an element that is   *)
(* in another list, does here the damage it does in memory.                *)
(* LIST_INSERT_* and LIST_REMOVE panic on a NULL element; the operators    *)
(* are for elements.  LIST_CONCAT has no caller and is left out.           *)
(***************************************************************************)
EXTENDS Integers, Sequences, FiniteSets

CONSTANTS Elm,       \* the structures that carry a LIST_ENTRY
          List,      \* the LIST_HEADs
          NULL,
          SizeMod    \* 2^32 in the code: size is a uint32

Pointer == Elm \union {NULL}

Heap == [first : [List -> Pointer], last : [List -> Pointer],
         size : [List -> 0 .. SizeMod - 1],
         next : [Elm -> Pointer], prev : [Elm -> Pointer]]

\* An assignment through the pointer x, skipped when the code tests it first.
Put(f, x, v) == IF x = NULL THEN f ELSE [f EXCEPT ![x] = v]

SizePlus(h, l, d) == [h.size EXCEPT ![l] = (@ + d) % SizeMod]

LIST_INIT(h, l) ==
    [h EXCEPT !.first[l] = NULL, !.last[l] = NULL, !.size[l] = 0]

\* Mutation: the new element inherits no link to the element after x.
LIST_INSERT_AFTER_cut(h, l, x, e) ==
    [h EXCEPT !.next = [@ EXCEPT ![e] = NULL, ![x] = e],
              !.prev = [Put(@, h.next[x], e) EXCEPT ![e] = x],
              !.last[l] = IF h.next[x] = NULL THEN e ELSE @,
              !.size = SizePlus(h, l, 1)]

LIST_INSERT_AFTER(h, l, x, e) ==
    [h EXCEPT !.next = [@ EXCEPT ![e] = h.next[x], ![x] = e],
              !.prev = [Put(@, h.next[x], e) EXCEPT ![e] = x],
              !.last[l] = IF h.next[x] = NULL THEN e ELSE @,
              !.size = SizePlus(h, l, 1)]

LIST_INSERT_BEFORE(h, l, x, e) ==
    [h EXCEPT !.prev = [@ EXCEPT ![e] = h.prev[x], ![x] = e],
              !.next = Put([@ EXCEPT ![e] = x], h.prev[x], e),
              !.first[l] = IF h.prev[x] = NULL THEN e ELSE @,
              !.size = SizePlus(h, l, 1)]

LIST_INSERT_HEAD(h, l, e) ==
    [h EXCEPT !.next[e] = h.first[l],
              !.prev = [Put(@, h.first[l], e) EXCEPT ![e] = NULL],
              !.last[l] = IF h.first[l] = NULL THEN e ELSE @,
              !.first[l] = e,
              !.size = SizePlus(h, l, 1)]

LIST_INSERT_TAIL(h, l, e) ==
    [h EXCEPT !.prev[e] = h.last[l],
              !.next = [Put(@, h.last[l], e) EXCEPT ![e] = NULL],
              !.first[l] = IF h.last[l] = NULL THEN e ELSE @,
              !.last[l] = e,
              !.size = SizePlus(h, l, 1)]

\* Mutation: removing the last element leaves lh_last on it.
LIST_REMOVE_stale_last(h, l, e) ==
    [h EXCEPT !.prev = [Put(@, h.next[e], h.prev[e]) EXCEPT ![e] = NULL],
              !.next = [Put(@, h.prev[e], h.next[e]) EXCEPT ![e] = NULL],
              !.first[l] = IF h.prev[e] = NULL THEN h.next[e] ELSE @,
              !.size = SizePlus(h, l, -1)]

LIST_REMOVE(h, l, e) ==
    [h EXCEPT !.prev = [Put(@, h.next[e], h.prev[e]) EXCEPT ![e] = NULL],
              !.next = [Put(@, h.prev[e], h.next[e]) EXCEPT ![e] = NULL],
              !.last[l] = IF h.next[e] = NULL THEN h.prev[e] ELSE @,
              !.first[l] = IF h.prev[e] = NULL THEN h.next[e] ELSE @,
              !.size = SizePlus(h, l, -1)]

LOOP_LIST_NEXT(h, x) == IF x = NULL THEN NULL ELSE h.next[x]

\* An emptied list, and then each element of s at its head.
InsertAll(h, l, s) ==
    LET from[i \in 0 .. Len(s)] ==
          IF i = 0 THEN LIST_INIT(h, l) ELSE LIST_INSERT_HEAD(from[i - 1], l, s[i])
    IN  from[Len(s)]

-----------------------------------------------------------------------------
(* What a head stands for: the elements met by following the links, up to  *)
(* the first NULL.                                                         *)

Walk(h, l) ==
    LET at[n \in 1 .. Cardinality(Elm)] ==
            IF n = 1 THEN h.first[l] ELSE LOOP_LIST_NEXT(h, at[n - 1])
    IN  SubSeq(at, 1, Cardinality({n \in DOMAIN at : at[n] # NULL}))

In(h, l, e) == \E i \in DOMAIN Walk(h, l) : Walk(h, l)[i] = e

\* The head l and the links stand for the sequence s: forwards, backwards,
\* both ends and the size.
Represents(h, l, s) ==
    LET n == Len(s) IN
    /\ h.first[l] = IF n = 0 THEN NULL ELSE s[1]
    /\ h.last[l] = IF n = 0 THEN NULL ELSE s[n]
    /\ h.size[l] = n
    /\ \A i \in 1 .. n : /\ h.next[s[i]] = IF i = n THEN NULL ELSE s[i + 1]
                         /\ h.prev[s[i]] = IF i = 1 THEN NULL ELSE s[i - 1]
    /\ \A i, j \in 1 .. n : s[i] = s[j] => i = j
=============================================================================
