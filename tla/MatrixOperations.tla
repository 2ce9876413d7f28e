--------------------------- MODULE MatrixOperations ---------------------------
(***************************************************************************)
(* The matrix program (user/matrix_operations.c): two square matrices are  *)
(* allocated row by row and filled, one operation is chosen, its result is *)
(* allocated too, and everything is freed before the next round.  The      *)
(* elements are C ints and the result is wider.  The program runs alone    *)
(* here: its questions are under the console's lock, as in SortPrograms.   *)
(***************************************************************************)
EXTENDS UserPrograms, Functions

CONSTANTS MatrixSizes,   \* the sizes that may be entered
          MatrixValues,  \* the values that may be entered for "identical"
          IntBits        \* the width of an int

ToInt(x) == ((x + 2 ^ (IntBits - 1)) % 2 ^ IntBits) - 2 ^ (IntBits - 1)

Square(n) == (1..n) \X (1..n)

\* Every matrix a method may give: RANDU(0, n) leaves n out.
InitializeAscendingRows(n) == [ij \in Square(n) |-> ij[2] - 1]
InitializeIdentical(n, value) == [ij \in Square(n) |-> value]
InitializeRandomly(n) == [Square(n) -> 0..(n - 1)]

\* A product of two ints is an int, and only the sum of the products is wide;
\* so is the sum or the difference of two elements.
MatrixMultiply(M1, M2, n) ==
    [ij \in Square(n) |->
        FoldFunction(+, 0, [k \in 1..n |-> ToInt(M1[<<ij[1], k>>] * M2[<<k, ij[2]>>])])]

MatrixAddition(M1, M2, n) == [ij \in Square(n) |-> ToInt(M1[ij] + M2[ij])]
MatrixSubtraction(M1, M2, n) == [ij \in Square(n) |-> ToInt(M1[ij] - M2[ij])]

-----------------------------------------------------------------------------
MatInit ==
    /\ program = "matrix"
    /\ pc = [p \in {"matrix"} |-> "enter"]
    /\ sem = [s \in {"cons"} |-> create_semaphore(1)]
    /\ mem = [heap |-> 0]
    /\ local = [p \in {"matrix"} |->
                   [n |-> 0, M1 |-> <<>>, M2 |-> <<>>, op |-> "", Res |-> <<>>, round |-> 1]]

\* The size, the method and its value under the console's lock; then the
\* matrices, an array of rows each.
enter_matrices(p) ==
    /\ Goto(p, "enter", "operation")
    /\ \E n \in MatrixSizes :
          /\ \/ \E value \in MatrixValues :
                   local' = [local EXCEPT ![p] = [@ EXCEPT !.n = n, !.M1 = InitializeIdentical(n, value),
                                                           !.M2 = InitializeIdentical(n, value)]]
             \/ local' = [local EXCEPT ![p] = [@ EXCEPT !.n = n, !.M1 = InitializeAscendingRows(n),
                                                        !.M2 = InitializeAscendingRows(n)]]
             \/ \E M1, M2 \in InitializeRandomly(n) :
                   local' = [local EXCEPT ![p] = [@ EXCEPT !.n = n, !.M1 = M1, !.M2 = M2]]
          /\ mem' = [mem EXCEPT !.heap = @ + 2 + 2 * n]
    /\ UNCHANGED <<program, sem>>

\* The operation, again asked under the lock, and its result.
compute(p) ==
    LET me == local[p]
    IN  /\ Goto(p, "operation", "completed")
        /\ \/ local' = [local EXCEPT ![p] = [@ EXCEPT !.op = "+", !.Res = MatrixAddition(me.M1, me.M2, me.n)]]
           \/ local' = [local EXCEPT ![p] = [@ EXCEPT !.op = "-", !.Res = MatrixSubtraction(me.M1, me.M2, me.n)]]
           \/ local' = [local EXCEPT ![p] = [@ EXCEPT !.op = "x", !.Res = MatrixMultiply(me.M1, me.M2, me.n)]]
        /\ mem' = [mem EXCEPT !.heap = @ + 1 + me.n]
        /\ UNCHANGED <<program, sem>>

\* Every row and the three arrays of rows are freed; any answer but y ends.
free_matrices(p) ==
    /\ \/ Goto(p, "completed", "enter") /\ local[p].round <= MaxRounds
       \/ Goto(p, "completed", "done")
    /\ mem' = [mem EXCEPT !.heap = @ - 3 * local[p].n - 3]
    /\ local' = [local EXCEPT ![p] = [@ EXCEPT !.M1 = <<>>, !.M2 = <<>>, !.Res = <<>>, !.round = @ + 1]]
    /\ UNCHANGED <<program, sem>>

MatStep(p) == program = "matrix" /\ (enter_matrices(p) \/ compute(p) \/ free_matrices(p))

-----------------------------------------------------------------------------
\* The result is the exact sum, difference or product whenever no element of
\* the int computation leaves its width, however large the wide sum gets, and a
\* round gives back all it allocated (user/matrix_operations.c:148-206).
MatrixRight ==
    program = "matrix" =>
        LET me == local["matrix"]
            Fits(x) == ToInt(x) = x
            Exact(i, j) == CASE me.op = "+" -> me.M1[<<i, j>>] + me.M2[<<i, j>>]
                             [] me.op = "-" -> me.M1[<<i, j>>] - me.M2[<<i, j>>]
                             [] me.op = "x" -> FoldFunction(+, 0, [k \in 1..me.n |-> me.M1[<<i, k>>] * me.M2[<<k, j>>]])
            Products == {me.M1[<<i, k>>] * me.M2[<<k, j>>] : i, j, k \in 1..me.n}
        IN  /\ pc["matrix"] \in {"enter", "done"} => mem.heap = 0
            /\ (pc["matrix"] = "completed" /\ \A x \in Products : Fits(x)) =>
                  \A i, j \in 1..me.n : me.Res[<<i, j>>] = Exact(i, j)
=============================================================================
