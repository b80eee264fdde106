-------------------------- MODULE RectanglePromise --------------------------
(***************************************************************************)
(* What the index search of C1 promises, without its draws, its swaps and  *)
(* its tracker: a list of columns, each a permutation of the rows, that    *)
(* grows by one column at a time and never repeats a value within a row.   *)
(* LatinRectangle implements it.                                           *)
(***************************************************************************)
EXTENDS Naturals, Sequences

CONSTANTS M,       \* rows of C1
          NORM1    \* columns of the rectangle: nonzero entries per row of C1

VARIABLE columns   \* the completed columns, each a function from rows to rows

Row == 0 .. M - 1

Permutation == {p \in [Row -> Row] :
                  \A r, q \in Row : p[r] = p[q] => r = q}

Init == columns = << >>

AddColumn == \E p \in Permutation :
               /\ Len(columns) < NORM1
               /\ \A c \in DOMAIN columns, r \in Row : columns[c][r] # p[r]
               /\ columns' = Append(columns, p)

\* C1 turned out to be singular: the whole rectangle is dropped.
Discard == /\ Len(columns) = NORM1
           /\ columns' = << >>

Next == AddColumn \/ Discard

Spec == Init /\ [][Next]_columns
=============================================================================
