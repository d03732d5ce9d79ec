---------------------------- MODULE SparseMatrix ----------------------------
(***************************************************************************)
(* The sparsity map and the compressed column matrix (lib/cscmatrix.cpp).  *)
(* A position is <<equation, unknown>>, counted from 1; the arrays AP and  *)
(* AI hold numbers counted from 0, as the solvers want them.  Ax[i + 1] is *)
(* the value of nonzero i, Ax[0] the bucket, where a pointer to a position *)
(* the matrix does not have leads.                                         *)
(***************************************************************************)
EXTENDS Integers, Sequences, FiniteSets, SequencesExt, FiniteSetsExt

\* SparsityMap::enumerate(): positions by column, then by row.
Ordered(positions) ==
    LET n == Max({0} \cup {p[1] : p \in positions} \cup {p[2] : p \in positions})
    IN  SelectSeq([k \in 1 .. n * n |-> <<((k - 1) % n) + 1, (k - 1) \div n + 1>>],
                  LAMBDA p : p \in positions)

\* AP with the columns up to col closed at the entries seen so far.
CloseColumns(M, col) ==
    [M EXCEPT !.AP = @ \o [i \in 1 .. col + 1 - Len(@) |-> Len(M.AI)]]

\* Slip: a column is closed only when it has an entry.
\* CSCMatrixCore::rebuild(): entries of ground are skipped, empty columns
\* closed, values zeroed, all but the bucket.
Rebuilt(positions, n, bucket) ==
    LET Enter(M, pos) ==
            IF pos[1] = 0 \/ pos[2] = 0
            THEN M
            ELSE LET C == CloseColumns(M, pos[2] - 1)
                 IN  [C EXCEPT !.AI = Append(@, pos[1] - 1)]
        M == CloseColumns(FoldLeft(Enter, [AP |-> <<0>>, AI |-> <<>>], Ordered(positions)), n)
    IN  [AP |-> M.AP, AI |-> M.AI,
         Ax |-> [i \in 0 .. Cardinality(positions) |-> IF i = 0 THEN bucket ELSE 0]]

\* CSCMatrixCore::zero()
Zeroed(M) == [M EXCEPT !.Ax = [i \in DOMAIN @ |-> IF i = 0 THEN @[0] ELSE 0]]

Order(M) == Len(M.AP) - 1

\* Entries of column col (from 1) as places in AI and Ax.
Column(M, col) == M.AP[col] + 1 .. M.AP[col + 1]

\* elementPtr(): a place in Ax, found in the map and numbered by enumerate().
Pointer(positions, pos) ==
    IF pos \in positions
    THEN Cardinality({q \in positions : q[2] < pos[2] \/ (q[2] = pos[2] /\ q[1] <= pos[1])})
    ELSE 0

\* CSCMatrixCore::product()
Product(M, vec) ==
    [row \in 1 .. Order(M) |->
        MapThenSumSet(LAMBDA c : MapThenSumSet(LAMBDA i : M.Ax[i] * vec[c],
                                               {i \in Column(M, c) : M.AI[i] = row - 1}),
                      1 .. Order(M))]

Magnitude(v) == IF v < 0 THEN -v ELSE v

\* CSCMatrixCore::rowMaxNorm()
RowMaxNorm(M) ==
    [row \in 1 .. Order(M) |->
        Max({0} \cup {Magnitude(M.Ax[i]) : i \in {i \in DOMAIN M.AI : M.AI[i] = row - 1}})]

\* CSCMatrixCore::nonzeroOffset(): bisection for a row of a column (both from
\* 1); the place in Ax, or 0 when there is none.
NonzeroOffset(M, row, col) ==
    LET lo == M.AP[col] + 1
        hi == M.AP[col + 1]
        search[i1 \in 1 .. Len(M.AI), i2 \in 1 .. Len(M.AI)] ==
            LET ic == (i1 + i2) \div 2
            IN  CASE i2 - i1 <= 1 -> 0
                  [] i2 - i1 > 1 /\ M.AI[ic] = row - 1 -> ic
                  [] i2 - i1 > 1 /\ M.AI[ic] > row - 1 -> search[i1, ic]
                  [] OTHER -> search[ic, i2]
    IN  CASE lo > hi -> 0
          [] lo <= hi /\ M.AI[lo] = row - 1 -> lo
          [] lo <= hi /\ M.AI[lo] # row - 1 /\ M.AI[hi] = row - 1 -> hi
          [] OTHER -> search[lo, hi]
=============================================================================
