--------------------------- MODULE ArrayOperations ---------------------------
(***************************************************************************)
(* The array operations application (user/arrayOperations_*.c): a master   *)
(* fills a shared array, three slaves sort it in two ways and compute its  *)
(* statistics, and the master compares what they give.  The slaves start   *)
(* before the objects they share exist.  Kernel semaphore 0 says the array *)
(* is ready, 1 counts the slaves that finished and 2 guards the console    *)
(* (USE_KERN_SEMAPHORE).  An array is a sequence; the C index i is i + 1.  *)
(***************************************************************************)
EXTENDS UserPrograms, Functions

CONSTANT ArraySizes,   \* the sizes that may be entered
         Absent        \* an object that does not exist

ArrProcs == {"master", "slave_qs", "slave_ms", "slave_stats"}
Slaves == ArrProcs \ {"master"}

-----------------------------------------------------------------------------
(* The algorithms.                                                         *)

InitializeAscending(n) == [i \in 1..n |-> i - 1]
InitializeDescending(n) == [i \in 1..n |-> n - i]

\* The divisor is n / 3, and for 1 and 2 elements there is none.
InitializeSemiRandom(n) == [i \in 1..n |-> (i - 1) % (n \div 3)]

Swap(E, i, j) == [E EXCEPT ![i] = E[j], ![j] = E[i]]

\* The first index from i on whose element is above the pivot, or final + 1; the
\* last one from j down whose element is below it (or equal, for the k-th
\* element), or start.
ScanUp(E, start, final, i) ==
    Min({final + 1} \cup {k \in i..final : E[start] < E[k]})
ScanDown(E, start, j, equal) ==
    Max({start} \cup {k \in (start + 1)..j : E[k] < E[start] \/ (equal /\ E[k] = E[start])})

\* The loop of QSort around the pivot at start: the array, i and j it ends with.
Partition[E \in Seq(Nat), start, final, i, j \in Nat, equal \in BOOLEAN] ==
    IF i > j THEN [E |-> E, i |-> i, j |-> j]
    ELSE LET up == ScanUp(E, start, final, i)
             down == ScanDown(E, start, j, equal)
         IN  Partition[IF up <= down THEN Swap(E, up, down) ELSE E, start, final, up, down, equal]

\* Every array QSort may give, over the pivots it may draw (RANDU(start,
\* final), which leaves the last index out).
QSort[E \in Seq(Nat), start, final \in Nat] ==
    IF start >= final THEN {E}
    ELSE UNION {LET r == Partition[Swap(E, start, pvt), start, final, start + 1, final, FALSE]
                IN  UNION {QSort[L, r.i, final] : L \in QSort[Swap(r.E, start, r.j), start, r.j - 1]} :
                pvt \in start..(final - 1)}

\* Every value QSort of the statistics may give for the k-th place: it goes on
\* only on the side that holds it.
KthElement[E \in Seq(Nat), start, final, k \in Nat] ==
    IF start >= final THEN {E[final]}
    ELSE UNION {LET r == Partition[Swap(E, start, pvt), start, final, start + 1, final, TRUE]
                    F == Swap(r.E, start, r.j)
                IN  IF k = r.j THEN {F[k]}
                    ELSE IF k < r.j THEN KthElement[F, start, r.j - 1, k]
                    ELSE KthElement[F, r.i, final, k] :
                pvt \in start..(final - 1)}

MergeInto[left, right \in Seq(Nat)] ==
    IF left = <<>> THEN right
    ELSE IF right = <<>> THEN left
    ELSE IF Head(left) < Head(right) THEN <<Head(left)>> \o MergeInto[Tail(left), right]
    ELSE <<Head(right)>> \o MergeInto[left, Tail(right)]

Merge(A, p, q, r) ==
    LET merged == MergeInto[SubSeq(A, p, q), SubSeq(A, q + 1, r)]
    IN  [k \in DOMAIN A |-> IF k \in p..r THEN merged[k - p + 1] ELSE A[k]]

MSort[A \in Seq(Nat), p, r \in Nat] ==
    IF p >= r THEN A
    ELSE LET q == (p + r) \div 2
         IN  Merge(MSort[MSort[A, p, q], q + 1, r], p, q, r)

CheckSorted(E) == \A i \in 1..(Len(E) - 1) : E[i] <= E[i + 1]

ArrayStats(E) ==
    LET n == Len(E)
        mean == FoldSeq(+, 0, E) \div n
    IN  [mean |-> mean,
         var |-> FoldSeq(LAMBDA x, acc : acc + (x - mean) * (x - mean), 0, E) \div n]

\* The slave's version adds the extremes and the middle element.
SlaveStats(E) ==
    LET n == Len(E)
    IN  {ArrayStats(E) @@ [min |-> Min(Range(E)), max |-> Max(Range(E)), med |-> med] :
            med \in KthElement[E, 1, n, (n + 1) \div 2]}

-----------------------------------------------------------------------------
(* The processes.                                                          *)

Shared == {"arr", "quicksortedArr", "mergesortedArr", "stats"}

ArrInit ==
    /\ program = "arrop"
    /\ pc = [p \in ArrProcs |-> IF p = "master" THEN "input" ELSE "ready"]
    /\ sem = [s \in {"ready", "finished", "cons"} |-> create_semaphore(IF s = "cons" THEN 1 ELSE 0)]
    /\ mem = [s \in Shared |-> Absent]
    /\ local = [p \in ArrProcs |-> [n |-> 0, chose |-> "", i |-> 0]]

\* The console section of the master: the size and the way to fill, and the
\* shared array, whose contents are still whatever its frames held.
input(p) ==
    /\ Goto(p, "input", "input_end") /\ wait_ksemaphore("cons")
    /\ \E n \in ArraySizes, c \in {"a", "b", "c"} :
          /\ local' = [local EXCEPT ![p].n = n, ![p].chose = c]
          /\ mem' = [mem EXCEPT !.arr = [i \in 1..n |-> Absent]]
    /\ UNCHANGED program
input_end(p) == Goto(p, "input_end", "fill") /\ signal_ksemaphore("cons") /\ OnlySem

\* Filling semi-randomly divides by n / 3, which traps for 1 and 2 elements.
fill(p) ==
    LET n == local[p].n
        c == local[p].chose
    IN  /\ Goto(p, "fill", IF c = "c" /\ n \in {1, 2} THEN "trap" ELSE "signal")
        /\ mem' = CASE c = "a" -> [mem EXCEPT !.arr = InitializeAscending(n)]
                    [] c = "b" -> [mem EXCEPT !.arr = InitializeDescending(n)]
                    [] c = "c" /\ n \notin {1, 2} -> [mem EXCEPT !.arr = InitializeSemiRandom(n)]
                    [] OTHER -> mem
        /\ OnlyMem

\* A loop over the slaves.
Three(p, from, to) ==
    /\ Goto(p, from, IF local[p].i = 2 THEN to ELSE from)
    /\ local' = [local EXCEPT ![p].i = (@ + 1) % 3]
    /\ UNCHANGED <<program, mem>>

signal_slaves(p) == Three(p, "signal", "collect") /\ signal_ksemaphore("ready")
wait_slaves(p) == Three(p, "collect", "validate") /\ wait_ksemaphore("finished")

\* sget of a missing object gives no address, and using it ends the process.
validate(p) ==
    /\ Goto(p, "validate",
            IF mem.quicksortedArr = Absent \/ mem.mergesortedArr = Absent THEN "trap"
            ELSE IF CheckSorted(mem.quicksortedArr) /\ CheckSorted(mem.mergesortedArr)
                 THEN "say" ELSE "panic")
    /\ OnlyPc

\* The console section in which the statistics are printed.
say(p) ==
    /\ Goto(p, "say", IF mem.stats = Absent THEN "trap" ELSE "say_end")
    /\ wait_ksemaphore("cons") /\ OnlySem
say_end(p) == Goto(p, "say_end", "compare") /\ signal_ksemaphore("cons") /\ OnlySem

\* The statistics the master expects, from the array and the sorted one.
compare(p) ==
    LET q == mem.quicksortedArr
        n == Len(q)
    IN  /\ Goto(p, "compare",
                IF mem.stats = ArrayStats(mem.arr)
                               @@ [min |-> q[1], max |-> q[n], med |-> q[(n + 1) \div 2]]
                THEN "done" ELSE "panic")
        /\ OnlyPc

master_fills(p) == input(p) \/ input_end(p) \/ fill(p) \/ signal_slaves(p)

master_validates(p) == wait_slaves(p) \/ validate(p) \/ say(p) \/ say_end(p) \/ compare(p)

ready(p) == Goto(p, "ready", "job") /\ wait_ksemaphore("ready") /\ OnlySem

\* The slave's copy of the shared array and what it computes from it: an
\* unwritten element would be Absent.
Usable == mem.arr # Absent /\ \A i \in DOMAIN mem.arr : mem.arr[i] # Absent
Job(p, next) ==
    /\ Goto(p, "job", IF Usable THEN next ELSE "trap")
    /\ UNCHANGED <<program, sem>>

slave_qs_job(p) ==
    /\ p = "slave_qs" /\ Job(p, "report")
    /\ \E sorted \in IF Usable THEN QSort[mem.arr, 1, Len(mem.arr)] ELSE {Absent} :
          mem' = [mem EXCEPT !.quicksortedArr = sorted]
    /\ UNCHANGED local

slave_ms_job(p) ==
    /\ p = "slave_ms" /\ Job(p, "report")
    /\ mem' = [mem EXCEPT !.mergesortedArr =
                  IF Usable THEN MSort[mem.arr, 1, Len(mem.arr)] ELSE Absent]
    /\ UNCHANGED local

\* The statistics stay private until the slave has reported.
slave_stats_job(p) ==
    /\ p = "slave_stats" /\ Job(p, "report")
    /\ \E stats \in IF Usable THEN SlaveStats(mem.arr) ELSE {Absent} :
          local' = [local EXCEPT ![p].n = stats]
    /\ UNCHANGED mem

\* The message under the console's semaphore, then the end; the statistics are
\* shared between their two messages.
report(p) == Goto(p, "report", "report_end") /\ wait_ksemaphore("cons") /\ OnlySem
report_end(p) ==
    /\ Goto(p, "report_end", IF p = "slave_stats" /\ mem.stats = Absent THEN "share" ELSE "finish")
    /\ signal_ksemaphore("cons") /\ OnlySem
share(p) ==
    Goto(p, "share", "report") /\ mem' = [mem EXCEPT !.stats = local[p].n] /\ OnlyMem
finish(p) == Goto(p, "finish", "done") /\ signal_ksemaphore("finished") /\ OnlySem

slave_reports(p) == report(p) \/ report_end(p) \/ share(p) \/ finish(p)

ArrStep(p) ==
    /\ program = "arrop"
    /\ \/ p = "master" /\ (master_fills(p) \/ master_validates(p))
       \/ p \in Slaves /\ (ready(p) \/ slave_reports(p))
       \/ slave_qs_job(p) \/ slave_ms_job(p) \/ slave_stats_job(p)

-----------------------------------------------------------------------------
\* The sorted arrays are permutations of the shared one and not only ordered,
\* the statistics are its extremes, middle element, mean and variance, and the
\* one trap is the master's, for the semi-random fill of one or two elements:
\* no slave ever uses an object before the master has created and filled it, nor
\* the master a result that is not there (user/arrayOperations_Master.c:40-51,
\* 110-187, 227-237).
ArraysRight ==
    program = "arrop" =>
        /\ \A p \in Slaves : pc[p] # "trap"
        /\ pc["master"] = "trap" => local["master"].chose = "c" /\ local["master"].n \in {1, 2}
        /\ mem.stats # Absent =>
              /\ mem.stats.min = Min(Range(mem.arr)) /\ mem.stats.max = Max(Range(mem.arr))
              /\ mem.stats.med = SortSeq(mem.arr, <)[(Len(mem.arr) + 1) \div 2]
              /\ \A s \in {"mean", "var"} : mem.stats[s] = ArrayStats(mem.arr)[s]
        /\ \A s \in {"quicksortedArr", "mergesortedArr"} :
              mem[s] # Absent =>
                  /\ CheckSorted(mem[s])
                  /\ \A v \in Range(mem.arr) \cup Range(mem[s]) :
                        Cardinality({i \in DOMAIN mem[s] : mem[s][i] = v})
                      = Cardinality({i \in DOMAIN mem.arr : mem.arr[i] = v})
=============================================================================
