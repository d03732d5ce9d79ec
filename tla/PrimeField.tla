----------------------------- MODULE PrimeField -----------------------------
(***************************************************************************)
(* Exact arithmetic in place of floating point.  Code that adds,           *)
(* multiplies, divides and solves linear systems may take its numbers from *)
(* any field.  Here they are residues modulo a prime, and a number is a    *)
(* pair <<x, d>> that carries the derivative of x along: arithmetic        *)
(* differentiates what it computes.                                        *)
(***************************************************************************)
EXTENDS Integers, Sequences, SequencesExt

CONSTANT P      \* the prime

ASSUME PrimeAssumption == P \in Nat /\ P > 2 /\ \A k \in 2..(P - 1) : k * k <= P => P % k # 0

(***************************************************************************)
(* Numbers.                                                                *)
(***************************************************************************)
Num(k) == <<k % P, 0>>
Zero == Num(0)
One  == Num(1)

ValueOf(x) == x[1]
SlopeOf(x) == x[2]

Reciprocal[r \in 1..(P - 1)] ==
    IF r = 1 THEN 1 ELSE ((P - P \div r) * Reciprocal[P % r]) % P

x ++ y == <<(x[1] + y[1]) % P, (x[2] + y[2]) % P>>
x -- y == <<(x[1] - y[1]) % P, (x[2] - y[2]) % P>>
x ** y == <<(x[1] * y[1]) % P, (x[1] * y[2] + x[2] * y[1]) % P>>
x // y ==
    LET r == Reciprocal[y[1]] q == (x[1] * r) % P
    IN <<q, (((x[2] - q * y[2]) % P) * r) % P>>

Power(x, n) == FoldLeft(LAMBDA y, z : y ** z, One, [i \in 1..n |-> x])
Total(s) == FoldLeft(LAMBDA y, z : y ++ z, Zero, s)
Dot(s, t) == Total([i \in DOMAIN s |-> s[i] ** t[i]])

(***************************************************************************)
(* Linear systems: the rows are eliminated column by column, each with a   *)
(* pivot that is not zero.  Nothing is left of a singular system.          *)
(***************************************************************************)
Cleared(rows, j, top) ==
    [i \in DOMAIN rows |->
        IF i = j THEN top ELSE [k \in DOMAIN top |-> rows[i][k] -- (rows[i][j] ** top[k])]]

ClearedColumn(rows, j) == Cleared(rows, j, [k \in DOMAIN rows[j] |-> rows[j][k] // rows[j][j]])

Eliminate(rows, j) ==
    LET pivots == {i \in j..Len(rows) : ValueOf(rows[i][j]) # 0}
        swapped(pivot) == [rows EXCEPT ![j] = rows[pivot], ![pivot] = rows[j]]
    IN IF pivots = {} THEN <<>> ELSE ClearedColumn(swapped(CHOOSE i \in pivots : TRUE), j)

\* every row of the matrix is followed by its row of right-hand sides
Eliminated(matrix, rhs) ==
    FoldLeft(Eliminate, [i \in DOMAIN matrix |-> matrix[i] \o rhs[i]], [i \in DOMAIN matrix |-> i])

SolveSystem(matrix, rhs) ==
    LET solved == Eliminated(matrix, [i \in DOMAIN matrix |-> <<rhs[i]>>])
    IN [i \in DOMAIN solved |-> solved[i][Len(matrix) + 1]]

\* the inverse, <<>> for a singular matrix
Inverted(matrix) ==
    LET n == Len(matrix)
        unit == [i \in 1..n |-> [k \in 1..n |-> IF k = i THEN One ELSE Zero]]
        solved == Eliminated(matrix, unit)
    IN [i \in DOMAIN solved |-> SubSeq(solved[i], n + 1, 2 * n)]

MultiplyVector(matrix, v) == [i \in DOMAIN matrix |-> Dot(matrix[i], v)]
=============================================================================
