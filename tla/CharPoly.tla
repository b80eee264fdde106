------------------------------ MODULE CharPoly ------------------------------
(***************************************************************************)
(* C1_characteristic_polynomial of eht_keygen.c: C1 is brought to upper    *)
(* Hessenberg form by exchanges and row operations, each with the matching *)
(* column operation, and the characteristic polynomials of the leading     *)
(* blocks of the result follow from a recurrence.  One action is one pass  *)
(* of an outer loop.  What it must compute is CharPolyOf of LinearAlgebra. *)
(***************************************************************************)
EXTENDS LinearAlgebra

CONSTANTS M,        \* rows of C1
          Inputs    \* the matrices C1 to start from

ASSUME InputAssumption ==
  /\ M \in Nat \ {0}
  /\ Q \in Nat /\ 1 < Q
  /\ \A v \in 1 .. Q - 1 : \E w \in 1 .. Q - 1 : (v * w) % Q = 1
  /\ Inputs \subseteq Matrix(M, M)

VARIABLES C1,     \* the input
          H,      \* the matrix being reduced
          m,      \* the loop variable of the code
          row,    \* the next row to clear in column m-1
          CP,     \* CP[e]: the polynomial of the leading e by e block
          pc,
          invertible   \* the value returned

vars == <<C1, H, m, row, CP, pc, invertible>>

Idx == Upto(M)

\* (-1)^M: the polynomial is det(xI - C1) or its negative.
Lead == IF M % 2 = 0 THEN 1 ELSE Q - 1

Init == /\ C1 \in Inputs
        /\ H = C1
        /\ m = IF 1 < M - 1 THEN 1 ELSE 0
        /\ row = 0
        /\ CP = [e \in {0} |-> [d \in {0} |-> Lead]]
        /\ pc = IF 1 < M - 1 THEN "pivot" ELSE "extend"
        /\ invertible = FALSE

-----------------------------------------------------------------------------
\* Rows q and m exchanged, from column m-1 on.
RowsSwapped(A, q) ==
  [r \in Idx |-> [c \in Idx |-> IF c < m - 1 THEN A[r][c]
                                ELSE IF r = q THEN A[m][c]
                                ELSE IF r = m THEN A[q][c] ELSE A[r][c]]]
ColumnsSwapped(A, q) ==
  [r \in Idx |-> [c \in Idx |-> IF c = q THEN A[r][m]
                                ELSE IF c = m THEN A[r][q] ELSE A[r][c]]]

Below == {r \in m + 1 .. M - 1 : H[r][m - 1] # 0}

NextColumn == /\ m' = IF m + 1 < M - 1 THEN m + 1 ELSE 0
              /\ pc' = IF m + 1 < M - 1 THEN "pivot" ELSE "extend"

\* Column m-1 has nothing to clear.
Skip == /\ pc = "pivot"
        /\ Below = {}
        /\ NextColumn
        /\ UNCHANGED <<C1, H, row, CP, invertible>>

\* MUTANT of Pivot: the rows are exchanged and the columns are not.
PivotRowsOnly == /\ pc = "pivot"
                 /\ Below # {}
                 /\ H' = IF H[m][m - 1] # 0 THEN H ELSE RowsSwapped(H, Min(Below))
                 /\ row' = m + 1
                 /\ pc' = "clear"
                 /\ UNCHANGED <<C1, m, CP, invertible>>

\* A nonzero entry comes to (m, m-1), unless there is one already.
Pivot == /\ pc = "pivot"
         /\ Below # {}
         /\ H' = IF H[m][m - 1] # 0 THEN H
                 ELSE ColumnsSwapped(RowsSwapped(H, Min(Below)), Min(Below))
         /\ row' = m + 1
         /\ pc' = "clear"
         /\ UNCHANGED <<C1, m, CP, invertible>>

\* MUTANT of Cleared: a difference is stored unreduced.
ClearedSigned ==
  LET u == (H[row][m - 1] * Inverse_mod_q(H[m][m - 1])) % Q
      A == [H EXCEPT ![row] = [c \in Idx |-> IF c < m - 1 THEN H[row][c]
                                             ELSE H[row][c] - u * H[m][c]]]
  IN  [r \in Idx |-> [A[r] EXCEPT ![m] = (@ + u * A[r][row]) % Q]]

\* Row `row' minus u times row m, then column m plus u times column `row'.
Cleared ==
  LET u == (H[row][m - 1] * Inverse_mod_q(H[m][m - 1])) % Q
      A == [H EXCEPT ![row] = [c \in Idx |-> IF c < m - 1 THEN H[row][c]
                                             ELSE (H[row][c] - u * H[m][c]) % Q]]
  IN  [r \in Idx |-> [A[r] EXCEPT ![m] = (@ + u * A[r][row]) % Q]]

\* MUTANT of Clear: the last row is left out.
ClearShort == /\ pc = "clear"
              /\ H' = IF row + 1 < M THEN Cleared ELSE H
              /\ \/ row + 1 < M /\ row' = row + 1 /\ UNCHANGED <<m, pc>>
                 \/ row + 1 = M /\ row' = 0 /\ NextColumn
              /\ UNCHANGED <<C1, CP, invertible>>

\* With H[row][m-1] = 0 the multiplier u is zero and nothing changes.
Clear == /\ pc = "clear"
         /\ H' = Cleared
         /\ \/ row + 1 < M /\ row' = row + 1 /\ UNCHANGED <<m, pc>>
            \/ row + 1 = M /\ row' = 0 /\ NextColumn
         /\ UNCHANGED <<C1, CP, invertible>>

-----------------------------------------------------------------------------
Coefficient(p, d) == IF d \in DOMAIN p THEN p[d] ELSE 0

\* H[m][m-1] * ... * H[m-q][m-q-1], of the code's variable t.
SubDiagonal(e, q) ==
  FoldFunction(LAMBDA u, v : (u * v) % Q, 1, [s \in e - q .. e |-> H[s][s - 1]])

\* MUTANT of NextPolynomial: the last product of the recurrence is missing.
NextPolynomialShort ==
  [d \in 0 .. m + 1 |->
     (Coefficient(CP[m], d - 1) - H[m][m] * Coefficient(CP[m], d)
        - SumFunction([q \in Upto(m - 1) |-> (SubDiagonal(m, q) * H[m - q - 1][m])
                                               * Coefficient(CP[m - q - 1], d)])) % Q]

\* (x - H[m][m]) * CP[m] minus the terms from above the diagonal.
NextPolynomial ==
  [d \in 0 .. m + 1 |->
     (Coefficient(CP[m], d - 1) - H[m][m] * Coefficient(CP[m], d)
        - SumFunction([q \in Upto(m) |-> (SubDiagonal(m, q) * H[m - q - 1][m])
                                           * Coefficient(CP[m - q - 1], d)])) % Q]

Extend == /\ pc = "extend"
          /\ m < M
          /\ CP' = [e \in 0 .. m + 1 |-> IF e <= m THEN CP[e] ELSE NextPolynomial]
          /\ m' = m + 1
          /\ UNCHANGED <<C1, H, row, pc, invertible>>

\* MUTANT of Decide: the test of the constant term is inverted.
DecideInverted == /\ pc = "extend"
                  /\ m = M
                  /\ invertible' = (CP[M][0] = 0)
                  /\ pc' = "done"
                  /\ UNCHANGED <<C1, H, m, row, CP>>

\* Only an invertible C1 has its polynomial copied into C1cp.
Decide == /\ pc = "extend"
          /\ m = M
          /\ invertible' = (CP[M][0] # 0)
          /\ pc' = "done"
          /\ UNCHANGED <<C1, H, m, row, CP>>

Next == Skip \/ Pivot \/ Clear \/ Extend \/ Decide

Spec == Init /\ [][Next]_vars

-----------------------------------------------------------------------------
TypeOK == /\ H \in Matrix(M, M)
          /\ m \in 0 .. M
          /\ row \in Upto(M)
          /\ \A e \in DOMAIN CP : CP[e] \in [0 .. e -> Upto(Q)]

\* Every operation on rows is undone by the one on columns: H stays similar
\* to C1, also where the code changes only the columns from m-1 on.
StaysSimilar == CharPolyOf(M, H) = CharPolyOf(M, C1)

\* The columns before m-1 are cleared below the subdiagonal and stay so;
\* when the polynomial is computed, all of them are.
HessenbergSoFar ==
  \A r, c \in Idx :
    r > c + 1 /\ (pc \in {"extend", "done"} \/ c < m - 1) => H[r][c] = 0

\* CP[e] is the characteristic polynomial of the leading e by e block of H,
\* with the sign (-1)^M: the recurrence reads entries of H it may rely on
\* only because H has Hessenberg form.
LeadingBlocks ==
  \A e \in DOMAIN CP : CP[e] = [d \in 0 .. e |-> (Lead * CharPolyOf(e, H)[d]) % Q]

\* The verdict on C1 is right, and the polynomial stored for the signer is
\* that of C1 and begins, for even M, with the 1 that sk_to_C1cp supplies.
VerdictRight ==
  pc = "done" => /\ invertible <=> Determinant(M, C1) # 0
                 /\ M % 2 = 0 => CP[M] = CharPolyOf(M, C1) /\ CP[M][M] = 1
=============================================================================
