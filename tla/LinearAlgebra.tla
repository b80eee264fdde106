--------------------------- MODULE LinearAlgebra ---------------------------
(***************************************************************************)
(* Matrices over the integers modulo Q, as functions from row numbers to   *)
(* functions from column numbers.  The products are the ones of            *)
(* general_functions.c; determinant and characteristic polynomial are the  *)
(* textbook definitions, against which the algorithm of the code is        *)
(* checked in CharPoly.                                                    *)
(***************************************************************************)
EXTENDS Integers, FiniteSets, FiniteSetsExt, Determinants

CONSTANT Q     \* the modulus, a prime (47 in parameters.c)

Upto(n) == 0 .. n - 1

Matrix(m, n) == [Upto(m) -> [Upto(n) -> Upto(Q)]]

ZeroMatrix(m, n) == [r \in Upto(m) |-> [c \in Upto(n) |-> 0]]

\* The representative in -Q/2 .. Q/2, and its absolute value.
Centered(v)  == IF v <= Q \div 2 THEN v ELSE v - Q
Magnitude(v) == IF v <= Q \div 2 THEN v ELSE Q - v

\* s_mod_q of general_functions.c, right only for -Q < v < Q.  The other
\* reductions, mod_q, p_mod_q and the tables, are v % Q.
s_mod_q(v) == IF v < 0 THEN v + Q ELSE v

\* inverse_mod_q of tables.c; the table has 0 at 0.
Inverse_mod_q(v) == IF v = 0 THEN 0
                    ELSE CHOOSE w \in 1 .. Q - 1 : (v * w) % Q = 1

Dot(n, u, v) == SumFunction([x \in Upto(n) |-> u[x] * v[x]])

\* matrix_multiply: A is m by l, B is l by n.
Product(m, l, n, A, B) ==
  [r \in Upto(m) |-> [c \in Upto(n) |->
     SumFunction([x \in Upto(l) |-> A[r][x] * B[x][c]]) % Q]]

\* A matrix times a vector, both over Upto(n).
Apply(m, n, A, v) == [r \in Upto(m) |-> Dot(n, A[r], v) % Q]

-----------------------------------------------------------------------------
\* The determinant of the square submatrix of A on the rows and columns in I.
Minor(A, I) == Leibniz(A, I) % Q

Determinant(n, A) == Minor(A, Upto(n))

\* The coefficients of det(xI - A), lowest first: the coefficient of x^d is
\* the sum of the principal minors of size n-d, up to the sign.
CharPolyOf(n, A) ==
  [d \in 0 .. n |->
     ((IF (n - d) % 2 = 0 THEN 1 ELSE -1)
        * SumFunction([I \in kSubset(n - d, Upto(n)) |-> Minor(A, I)])) % Q]
=============================================================================
