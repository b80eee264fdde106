----------------------------- MODULE GenerateC -----------------------------
(***************************************************************************)
(* generate_C_sk of eht_keygen.c: the sparse matrix C = [C1 | C2].  The    *)
(* positions of C1 come from LatinRectangle, whose variables are this      *)
(* module's too; then every position gets a sign, C1 is kept only if it is *)
(* invertible, and every row of C2 takes NORM2 unit steps away from zero.  *)
(* generate_C of eht_siggen.c is the same without the invertibility test.  *)
(* One action is one pass of an innermost loop; the draws of NIST_rng are  *)
(* its parameters.                                                         *)
(***************************************************************************)
EXTENDS LinearAlgebra, Sequences

CONSTANTS M,       \* rows of C
          D,       \* columns of C2 (24 in parameters.c)
          NORM1,   \* nonzero entries per row of C1
          NORM2    \* steps per row of C2 (5 in parameters.c)

\* C is an array of unsigned char, and a row of C2 must not walk from the
\* positive half of the residues into the negative one.
ASSUME WeightAssumption == /\ M \in Nat \ {0} /\ D \in Nat \ {0}
                           /\ NORM1 \in Nat \ {0} /\ NORM2 \in Nat \ {0}
                           /\ Q \in Nat /\ 2 * NORM2 < Q /\ 2 < Q /\ Q <= 256

VARIABLES C1_index, tracker, i, j,   \* as in LatinRectangle
          C,          \* [row -> [column -> byte]]
          row, k,     \* the cursor of the loops that fill C
          pc          \* which loop runs

rectangle == <<C1_index, tracker, i, j>>
vars == <<C1_index, tracker, i, j, C, row, k, pc>>

Rect == INSTANCE LatinRectangle

Row   == Upto(M)
C1Col == Upto(M)
C2Col == M .. M + D - 1

Init == /\ Rect!Init
        /\ C = ZeroMatrix(M, M + D)
        /\ row = 0
        /\ k = 0
        /\ pc = "index"

-----------------------------------------------------------------------------
\* The cursor of a double loop of M rows and `width' columns.
MoveOn(width, after) ==
  \/ /\ k + 1 < width
     /\ k' = k + 1
     /\ UNCHANGED <<row, pc>>
  \/ /\ k + 1 = width
     /\ k' = 0
     /\ \/ row + 1 < M /\ row' = row + 1 /\ UNCHANGED pc
        \/ row + 1 = M /\ row' = 0       /\ pc' = after

\* MUTANT of Unit: -1 stored in an unsigned char.
UnitSigned(b) == IF b = 0 THEN 1 ELSE 255

\* (NIST_rng(2)==0)?1:Q-1
Unit(b) == IF b = 0 THEN 1 ELSE Q - 1

IndexDraw(s) == /\ pc = "index"
                /\ Rect!Draw(s)
                /\ UNCHANGED <<C, row, k, pc>>

\* MUTANT of StartValues: C is not cleared after a rejected C1.
StartValuesDirty == /\ pc = "index"
                    /\ j = NORM1
                    /\ pc' = "value"
                    /\ UNCHANGED <<C1_index, tracker, i, j, C, row, k>>

\* The rectangle is complete: zero_matrix, and the sign loop begins.
StartValues == /\ pc = "index"
               /\ j = NORM1
               /\ C' = ZeroMatrix(M, M + D)
               /\ pc' = "value"
               /\ UNCHANGED <<C1_index, tracker, i, j, row, k>>

ValueDraw(b) == /\ pc = "value"
                /\ C' = [C EXCEPT ![row][C1_index[row][k]] = Unit(b)]
                /\ MoveOn(NORM1, "test")
                /\ UNCHANGED rectangle

\* C1_characteristic_polynomial returns whether the constant term of the
\* polynomial is nonzero, which is whether the determinant is.
Invertible == Determinant(M, C) # 0

\* MUTANT of Accept: every C1 is taken.
AcceptAny == pc = "test" /\ pc' = "error" /\ UNCHANGED <<rectangle, C, row, k>>

Accept == /\ pc = "test"
          /\ Invertible
          /\ pc' = "error"
          /\ UNCHANGED <<C1_index, tracker, i, j, C, row, k>>

\* The while loop on check1 goes round: indices and tracker are set up anew.
Retry == /\ pc = "test"
         /\ ~ Invertible
         /\ Rect!Retry
         /\ pc' = "index"
         /\ UNCHANGED <<C, row, k>>

\* generate_C of the signer has no test.
AcceptUntested == /\ pc = "test"
                  /\ pc' = "error"
                  /\ UNCHANGED <<C1_index, tracker, i, j, C, row, k>>

-----------------------------------------------------------------------------
\* MUTANT of Stepped: always up, so a negative entry moves towards zero.
SteppedUp(v, b) == IF v = 0 THEN Unit(b) ELSE (v + 1) % 256

\* MUTANT of Stepped: the comparison is off by one.
SteppedShort(v, b) == IF v = 0 THEN Unit(b)
                      ELSE IF v < NORM2 - 1 THEN (v + 1) % 256
                      ELSE (v - 1) % 256

\* One step of an entry of C2 in the direction of its sign, or in a drawn
\* direction if it is zero.  The entries are bytes.
Stepped(v, b) == IF v = 0 THEN Unit(b)
                 ELSE IF v < NORM2 THEN (v + 1) % 256
                 ELSE (v - 1) % 256

\* d is M + NIST_rng(D); b is drawn only if the entry is zero.
ErrorDraw(d, b) == /\ pc = "error"
                   /\ C' = [C EXCEPT ![row][d] = Stepped(@, b)]
                   /\ MoveOn(NORM2, "done")
                   /\ UNCHANGED rectangle

Next == \/ \E s \in Row : IndexDraw(s)
        \/ StartValues
        \/ \E b \in {0, 1} : ValueDraw(b)
        \/ Accept
        \/ Retry
        \/ \E d \in C2Col, b \in {0, 1} : ErrorDraw(d, b)

Spec == Init /\ [][Next]_vars

-----------------------------------------------------------------------------
TypeOK == /\ C \in Matrix(M, M + D)
          /\ row \in Row
          /\ k \in Nat
          /\ pc \in {"index", "value", "test", "error", "done"}

Filled == pc \in {"test", "error", "done"}

\* Each row and each column of C1 has exactly NORM1 nonzero entries, all of
\* them +1 or -1: no sign overwrites another, none goes astray, and nothing
\* of a rejected C1 is left.
SparseC1 ==
  Filled =>
    \A r \in Row :
      /\ Cardinality({c \in C1Col : C[r][c] # 0}) = NORM1
      /\ Cardinality({q \in Row : C[q][r] # 0}) = NORM1
      /\ \A c \in C1Col : C[r][c] \in {0, 1, Q - 1}

\* The l1 norm of row r restricted to the columns in S.
Norm(r, S) == SumFunction([c \in S |-> Magnitude(C[r][c])])

\* No step of C2 is taken back: after x steps a row of C2 has l1 norm x, so
\* in the end every row of C has l1 norm NORM1 + NORM2, the norm that the
\* scripts rely on (morph.py).
RowNorm ==
  /\ pc = "done" => \A r \in Row : Norm(r, Upto(M + D)) = NORM1 + NORM2
  /\ pc = "error" => \A r \in Row :
       Norm(r, C2Col) = IF r < row THEN NORM2 ELSE IF r = row THEN k ELSE 0

\* C1 is invertible from the test on: the loop over C2 does not touch it.
InvertibleKept == pc \in {"error", "done"} => Invertible

\* An entry of C2 never changes sign and never moves towards zero.
NeverBack ==
  [][ pc = "error" => \A r \in Row, c \in C2Col :
        C[r][c] # 0 => /\ Magnitude(C'[r][c]) >= Magnitude(C[r][c])
                       /\ Centered(C'[r][c]) * Centered(C[r][c]) > 0 ]_vars
=============================================================================
