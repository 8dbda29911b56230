------------------------------ MODULE Tracegen ------------------------------
(***************************************************************************)
(* tracegen of the cache lab (CACHE_HW/generator/tracegen.c) as far as its *)
(* exit status: it runs registered transpose functions on static matrices  *)
(* and validates what they did.  A matrix is memory, row after row, as     *)
(* `int A[N][M]' makes it: N rows of M columns; the transpose has M of N.  *)
(***************************************************************************)
EXTENDS Integers, Sequences

CONSTANTS Cells,      \* what an int of a matrix can hold
          MaxCells    \* bound: cells of a matrix

Matrix(rows, columns) == [0 .. rows * columns - 1 -> Cells]

\* X[r][c], when rows have this many columns.
At(r, c, columns) == r * columns + c

\* correctTrans, trans: B[c][r] = A[r][c] for each r and c, once.
\* Mutant: B[r][c] = A[r][c], with the rows of A.
CopiesRows(M, N, A) == A

correctTrans(M, N, A) ==
  [k \in 0 .. M * N - 1 |-> A[At(k % N, k \div N, M)]]

validate(M, N, A, B) ==
  LET C == correctTrans(M, N, A)
  IN  \A r \in 0 .. M - 1, c \in 0 .. N - 1 : B[At(r, c, N)] = C[At(r, c, N)]

\* The helper in trans.c that a student may call.
is_transpose(M, N, A, B) ==
  \A r \in 0 .. N - 1, c \in 0 .. M - 1 : A[At(r, c, M)] = B[At(c, r, N)]

\* main's status: with -F, of that function; without it, of the first that is wrong,
\* for all run on the same two matrices.  after[f] has the matrices as the f-th
\* function left them.
Wrong(M, N, after, selected) ==
  {f \in (IF selected = -1 THEN DOMAIN after ELSE {selected}) :
     ~ validate(M, N, after[f].A, after[f].B)}

main(M, N, after, selected) ==
  LET wrong == Wrong(M, N, after, selected)
  IN  IF wrong = {} THEN 0 ELSE CHOOSE f \in wrong : \A g \in wrong : f <= g

-----------------------------------------------------------------------------
(* Properties.                                                             *)

\* What validates is the transpose of what is in A, for every shape, and both checks
\* of the lab agree on it; hence tracegen with -F accepts a function that leaves A
\* alone if and only if it wrote the transpose of the A it was given.  (One that
\* writes to A is compared with what it left there.)  tracegen.c:34-47, 108-113.
ValidMeansTransposed ==
  \A M \in 1 .. MaxCells : \A N \in 1 .. MaxCells \div M :
  \A A \in Matrix(N, M), B \in Matrix(M, N) :
    LET transposed == \A row \in 0 .. N - 1, column \in 0 .. M - 1 :
                         A[row * M + column] = B[column * N + row]
        matrices   == [A |-> A, B |-> B]
    IN  /\ validate(M, N, A, B) = transposed
        /\ is_transpose(M, N, A, B) = transposed
        /\ main(M, N, <<matrices, matrices>>, 2) = (IF transposed THEN 0 ELSE 2)
        /\ main(M, N, <<matrices, matrices>>, -1) = (IF transposed THEN 0 ELSE 1)
=============================================================================
