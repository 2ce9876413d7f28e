----------------------------- MODULE SortPrograms -----------------------------
(***************************************************************************)
(* The sorting programs (user/quicksort_*.c, user/mergesort_*.c,           *)
(* user/ef_mergesort_*.c): each asks for a size and a way to fill, sorts,  *)
(* checks the result, frees what it frees and asks whether to go on.       *)
(* Most of them say and ask under the console's sleeplock, so programs     *)
(* that run together never mix a question and its answer; one has a        *)
(* semaphore of its own instead and one nothing at all.  A program is a    *)
(* record of what sets it apart from the others.                           *)
(***************************************************************************)
EXTENDS ArrayOperations

CONSTANTS SortSizes,    \* the sizes that may be entered
          FixedSize,    \* in place of the sizes written into some programs
          SortPairs     \* the programs that run together

-----------------------------------------------------------------------------
(* What the programs compute.                                              *)

\* QSort of these programs keeps the pivot at start.
QSortFirst[E \in Seq(Nat), start, final \in Nat] ==
    IF start >= final THEN E
    ELSE LET r == Partition[E, start, final, start + 1, final, FALSE]
         IN  QSortFirst[QSortFirst[Swap(r.E, start, r.j), start, r.j - 1], r.i, final]

QuickSort(E) == QSortFirst[E, 1, Len(E)]

\* What a sort gives: the array and the temporaries it left on the heap.  A
\* merge sort of n elements merges n - 1 times, with two temporaries each.
Sorted(E, left) == [elements |-> E, left |-> left]
MergeSorted(E, perMerge) == Sorted(MSort[E, 1, Len(E)], perMerge * Max({0, Len(E) - 1}))

static_MSort(E) == MergeSorted(E, 0)    \* the temporaries are global arrays
leakage_MSort(E) == MergeSorted(E, 2)   \* they are allocated
noleakage_MSort(E) == MergeSorted(E, 0) \* they are allocated and freed
ef_leakage_MSort(E) == MergeSorted(E, 2)
ef_noleakage_MSort(E) == MergeSorted(E, 0)

\* The semi-random fill: some programs replace a divisor of 0 by 3, the others
\* divide by it unless there is nothing to fill.
Repetition(n) == IF n \div 3 = 0 THEN 3 ELSE n \div 3
Divides(prog, n, chose) == prog.guarded \/ chose # "c" \/ n \notin {1, 2}
Fill(n, chose) ==
    CASE chose = "a" -> InitializeAscending(n)
      [] chose = "b" -> InitializeDescending(n)
      [] chose = "c" -> [i \in 1..n |-> (i - 1) % Repetition(n)]

-----------------------------------------------------------------------------
(* The programs.                                                           *)

Methods == {"a", "b", "c"}
Entered == [sizes |-> SortSizes, methods |-> <<Methods, Methods>>, repeats |-> MaxRounds,
            allocates |-> 1]

\* What a program holds while it talks, and whether it says that the sort is
\* finished before it checks, or that it frees the heap after it.
Talks == [lock |-> "cons", says |-> "sorted"]

quicksort_noleakage == Entered @@ Talks @@ [sort |-> "qs", guarded |-> TRUE, frees |-> TRUE]
quicksort_leakage == Entered @@ Talks @@ [sort |-> "qs", guarded |-> TRUE, frees |-> FALSE]
mergesort_leakage == Entered @@ Talks @@ [sort |-> "ms2", guarded |-> FALSE, frees |-> FALSE]
mergesort_noleakage == Entered @@ Talks @@ [sort |-> "ms1", guarded |-> FALSE, frees |-> TRUE]

\* These announce that they free the heap, and do not.
Unfreed(lock) == Entered @@ [sort |-> "qs", guarded |-> TRUE, frees |-> FALSE,
                             lock |-> lock, says |-> "freeing"]
quicksort_interrupt == Unfreed("cons")
quicksort_semaphore == Unfreed("IO.CS")
quicksort_freeheap == Unfreed("none")

\* These ask for nothing: size, method and answer are written in.
Written(methods, repeats) == [sizes |-> {FixedSize}, methods |-> methods, repeats |-> repeats] @@ Talks
mergesort_static == Written(<<{"c"}>>, 0)
    @@ [sort |-> "static", guarded |-> TRUE, frees |-> FALSE, allocates |-> 0]
ef_mergesort_leakage == Written(<<{"a"}, {"c"}>>, 1)
    @@ [sort |-> "ef2", guarded |-> TRUE, frees |-> FALSE, allocates |-> 1]
ef_mergesort_noleakage == Written(<<{"a"}>>, 0)
    @@ [sort |-> "ef1", guarded |-> TRUE, frees |-> TRUE, allocates |-> 1]

Prog(name) ==
    CASE name = "qs1" -> quicksort_noleakage
      [] name = "qs2" -> quicksort_leakage
      [] name = "qs3" -> quicksort_interrupt
      [] name = "qs4" -> quicksort_semaphore
      [] name = "qs5" -> quicksort_freeheap
      [] name = "ms1" -> mergesort_noleakage
      [] name = "ms2" -> mergesort_leakage
      [] name = "static" -> mergesort_static
      [] name = "ef2" -> ef_mergesort_leakage
      [] name = "ef1" -> ef_mergesort_noleakage

SortOf(prog, E) ==
    CASE prog.sort = "qs" -> Sorted(QuickSort(E), 0)
      [] prog.sort = "ms1" -> noleakage_MSort(E)
      [] prog.sort = "ms2" -> leakage_MSort(E)
      [] prog.sort = "static" -> static_MSort(E)
      [] prog.sort = "ef2" -> ef_leakage_MSort(E)
      [] prog.sort = "ef1" -> ef_noleakage_MSort(E)

\* What every program makes of every input, computed once.
SortNames == {"qs1", "qs2", "qs3", "qs4", "qs5", "ms1", "ms2", "static", "ef1", "ef2"}
Results == [name \in SortNames, n \in SortSizes \cup {FixedSize}, chose \in Methods |->
               SortOf(Prog(name), Fill(n, chose))]

-----------------------------------------------------------------------------
(* A run of two programs.                                                  *)

SortInit ==
    \E pair \in SortPairs :
        /\ program = "sorts"
        /\ pc = [p \in DOMAIN pair |-> "ask"]
        /\ sem = [s \in {"cons", "IO.CS"} |-> create_semaphore(1)]
        /\ mem = [heap |-> [p \in DOMAIN pair |-> 0]]
        /\ local = [p \in DOMAIN pair |->
                       [name |-> pair[p], n |-> 0, chose |-> "a", array |-> <<>>, round |-> 1]]

Mine(p) == Prog(local[p].name)

\* sys_lock_cons, wait_semaphore(IO_CS), or nothing; and its counterpart.  The
\* semaphore belongs to its program alone, so nobody ever waits for it.
sys_lock_cons(p, from, to) ==
    /\ Goto(p, from, to)
    /\ \/ Mine(p).lock = "none" /\ OnlyPc
       \/ Mine(p).lock # "none" /\ wait_ksemaphore(Mine(p).lock) /\ OnlySem
sys_unlock_cons(p, from, to) ==
    /\ Goto(p, from, to)
    /\ \/ Mine(p).lock = "none" /\ UNCHANGED sem
       \/ Mine(p).lock # "none" /\ signal_ksemaphore(Mine(p).lock)

\* The size and the method, under the lock, and the array.
ask(p) == sys_lock_cons(p, "ask", "entered")
entered(p) ==
    /\ sys_unlock_cons(p, "entered", "work")
    /\ \E n \in Mine(p).sizes, c \in Mine(p).methods[Min({local[p].round, Len(Mine(p).methods)})] :
          local' = [local EXCEPT ![p].n = n, ![p].chose = c]
    /\ mem' = [mem EXCEPT !.heap[p] = @ + Mine(p).allocates]
    /\ UNCHANGED program

work(p) ==
    LET me == local[p]
        result == Results[me.name, me.n, me.chose]
        ok == Divides(Mine(p), me.n, me.chose)
    IN  /\ IF ok THEN /\ Goto(p, "work", IF Mine(p).says = "sorted" THEN "tell" ELSE "check")
                      /\ local' = [local EXCEPT ![p].array = result.elements]
                      /\ mem' = [mem EXCEPT !.heap[p] = @ + result.left]
           ELSE Goto(p, "work", "trap") /\ UNCHANGED <<mem, local>>
        /\ UNCHANGED <<program, sem>>

tell(p) == sys_lock_cons(p, "tell", "told")
told(p) == sys_unlock_cons(p, "told", "check") /\ UNCHANGED <<program, mem, local>>
check(p) == Goto(p, "check", IF CheckSorted(local[p].array) THEN "congratulate" ELSE "panic") /\ OnlyPc
congratulate(p) == sys_lock_cons(p, "congratulate", "free")
free(p) ==
    /\ sys_unlock_cons(p, "free", IF Mine(p).says = "freeing" THEN "freeing" ELSE "again")
    /\ mem' = [mem EXCEPT !.heap[p] = IF Mine(p).frees THEN @ - Mine(p).allocates ELSE @]
    /\ UNCHANGED <<program, local>>

freeing(p) == sys_lock_cons(p, "freeing", "said")
said(p) == sys_unlock_cons(p, "said", "again") /\ UNCHANGED <<program, mem, local>>

\* The answer: the written ones are y until the last round.
again(p) == sys_lock_cons(p, "again", "answer")
answer(p) ==
    \E repeat \in BOOLEAN :
        /\ sys_unlock_cons(p, "answer", IF repeat THEN "ask" ELSE "done")
        /\ repeat => local[p].round <= Mine(p).repeats
        /\ Mine(p).sizes = {FixedSize} => repeat = (local[p].round <= Mine(p).repeats)
        /\ local' = [local EXCEPT ![p].round = IF repeat THEN @ + 1 ELSE @]
        /\ UNCHANGED <<program, mem>>

SortStep(p) ==
    /\ program = "sorts"
    /\ \/ ask(p) \/ entered(p) \/ work(p) \/ tell(p) \/ told(p)
       \/ check(p) \/ congratulate(p) \/ free(p) \/ freeing(p) \/ said(p) \/ again(p) \/ answer(p)

-----------------------------------------------------------------------------
\* What the programs announce as sorted is a permutation of what they filled
\* in, for every size and method (the programs' own CheckSorted looks at the
\* order alone); nobody ends with the console's lock, so no program is left
\* waiting for it by another one's trap; and the programs called noleakage
\* have nothing on the heap when they ask whether to go on
\* (user/quicksort_noleakage.c:72-100, user/mergesort_noleakage.c:68-91).
SortsRight ==
    program = "sorts" =>
        /\ \A p \in Proc : pc[p] \in {"congratulate", "free", "freeing", "said", "again", "answer", "done"} =>
              LET filled == Fill(local[p].n, local[p].chose)
                  sorted == local[p].array
              IN  /\ CheckSorted(sorted) /\ Len(sorted) = Len(filled)
                  /\ \A v \in Range(filled) :
                        Cardinality({i \in DOMAIN sorted : sorted[i] = v})
                      = Cardinality({i \in DOMAIN filled : filled[i] = v})
        /\ \A p \in Proc : pc[p] \in {"again", "answer", "done"} =>
              (mem.heap[p] = 0 <=> local[p].name \in {"qs1", "ms1", "ef1", "static"})
        /\ \A lock \in DOMAIN sem : sem[lock].count = 1 <=>
              \A p \in Proc : Mine(p).lock = lock =>
                  pc[p] \notin {"entered", "told", "free", "said", "answer"}
=============================================================================
