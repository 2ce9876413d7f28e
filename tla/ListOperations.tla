--------------------------- MODULE ListOperations ---------------------------
(***************************************************************************)
(* The list macros used the way the kernel uses them: an element is in at  *)
(* most one list, and a LIST_FOREACH body removes at most the element it   *)
(* is at, which it may insert at the head of some list (sched_helpers.c    *)
(* 655-662, sched.c 357-376, sched_helpers.c 568-578).  The mathematical   *)
(* lists seq run beside the linked ones.                                   *)
(***************************************************************************)
EXTENDS LinkedList, SequencesExt

ASSUME NullAssumption == NULL \notin Elm
ASSUME ElmAssumption == IsFiniteSet(Elm)
ASSUME SizeModAssumption == SizeMod \in Nat /\ SizeMod > Cardinality(Elm)

VARIABLES h,       \* heads and links
          seq,     \* the sequence each list stands for
          loop     \* the LIST_FOREACH in progress, or NoLoop

vars == <<h, seq, loop>>

NoLoop == [on |-> FALSE]

\* Elements in no list; their links hold whatever memory held.
Free == {e \in Elm : \A l \in List : ~Contains(seq[l], e)}

Init ==
    /\ \E n, p \in [Elm -> Pointer] :
         h = [first |-> [l \in List |-> NULL], last |-> [l \in List |-> NULL],
              size |-> [l \in List |-> 0], next |-> n, prev |-> p]
    /\ seq = [l \in List |-> <<>>]
    /\ loop = NoLoop

Apply(g, l, s) == h' = g /\ seq' = [seq EXCEPT ![l] = s]

InsertHead(l, e) == Apply(LIST_INSERT_HEAD(h, l, e), l, <<e>> \o seq[l])
InsertTail(l, e) == Apply(LIST_INSERT_TAIL(h, l, e), l, Append(seq[l], e))

InsertAfter(l, i, e) ==
    Apply(LIST_INSERT_AFTER(h, l, seq[l][i], e), l, InsertAt(seq[l], i + 1, e))

InsertBefore(l, i, e) ==
    Apply(LIST_INSERT_BEFORE(h, l, seq[l][i], e), l, InsertAt(seq[l], i, e))

RemoveElm(l, i) == Apply(LIST_REMOVE(h, l, seq[l][i]), l, RemoveAt(seq[l], i))

\* LIST_FOREACH(var, head) begins: var is the first element, and the test of
\* the loop stores the element after it in head->___ptr_next.
ForeachBegin(l) ==
    /\ ~loop.on
    /\ loop' = [on |-> TRUE, list |-> l, var |-> h.first[l],
                ptr_next |-> LOOP_LIST_NEXT(h, h.first[l]),
                start |-> seq[l], seen |-> <<>>]
    /\ UNCHANGED <<h, seq>>

\* Mutation: the element after var is read from var when the body has run.
ForeachNext_late ==
    /\ loop.on /\ loop.var # NULL
    /\ LET v == LOOP_LIST_NEXT(h', loop.var) IN
       loop' = [loop EXCEPT !.var = v, !.ptr_next = LOOP_LIST_NEXT(h', v),
                            !.seen = Append(@, loop.var)]

\* The end of one iteration: var takes the stored pointer, and the test
\* stores the next one.
ForeachNext ==
    /\ loop.on /\ loop.var # NULL
    /\ LET v == loop.ptr_next IN
       loop' = [loop EXCEPT !.var = v, !.ptr_next = LOOP_LIST_NEXT(h', v),
                            !.seen = Append(@, loop.var)]

\* A body that only looks; one that removes the element; one that moves it
\* to the head of a list.
BodyLook == UNCHANGED <<h, seq>> /\ ForeachNext

BodyRemove ==
    /\ loop.on /\ loop.var # NULL
    /\ \E i \in DOMAIN seq[loop.list] :
         seq[loop.list][i] = loop.var /\ RemoveElm(loop.list, i)
    /\ ForeachNext

BodyMove(l) ==
    /\ loop.on /\ loop.var # NULL
    /\ h' = LIST_INSERT_HEAD(LIST_REMOVE(h, loop.list, loop.var), l, loop.var)
    /\ \E i \in DOMAIN seq[loop.list] :
         /\ seq[loop.list][i] = loop.var
         /\ LET out == [seq EXCEPT ![loop.list] = RemoveAt(@, i)]
            IN  seq' = [out EXCEPT ![l] = <<loop.var>> \o @]
    /\ ForeachNext

\* Both operands of the loop test are NULL.
ForeachEnd ==
    /\ loop.on /\ loop.var = NULL /\ loop.ptr_next = NULL
    /\ loop' = NoLoop
    /\ UNCHANGED <<h, seq>>

Operation ==
    /\ ~loop.on
    /\ UNCHANGED loop
    /\ \E l \in List :
         \/ \E e \in Free : InsertHead(l, e) \/ InsertTail(l, e)
         \/ \E e \in Free, i \in DOMAIN seq[l] : InsertAfter(l, i, e)
         \/ \E e \in Free, i \in DOMAIN seq[l] : InsertBefore(l, i, e)
         \/ \E i \in DOMAIN seq[l] : RemoveElm(l, i)

Foreach ==
    \/ \E l \in List : ForeachBegin(l) \/ BodyMove(l)
    \/ BodyLook \/ BodyRemove \/ ForeachEnd

Next == Operation \/ Foreach

Spec == Init /\ [][Next]_vars

-----------------------------------------------------------------------------
\* Whatever macros ran in whatever order, on whichever lists, the links, both
\* ends and the size of every list are those of its sequence: no operation on
\* one list disturbs another, and the garbage in an element that is not in a
\* list never reaches one (inc/queue.h:197-289).
ListsRepresented == \A l \in List : Represents(h, l, seq[l])

\* A LIST_FOREACH whose body removes the current element, or moves it to the
\* head of this or of another list, still visits exactly the elements the
\* list had when the loop began, in order (inc/queue.h:183-186).
ForeachVisitsEach ==
    loop.on => /\ IsPrefix(loop.seen, loop.start)
               /\ loop.var = NULL => loop.seen = loop.start
=============================================================================
