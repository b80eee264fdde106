--------------------------- MODULE LatinRectangle ---------------------------
(***************************************************************************)
(* Where the nonzero entries of C1 go: the search of generate_C_sk         *)
(* (eht_keygen.c) that generate_C (eht_siggen.c) and print_sk.c repeat     *)
(* line for line.  C1_index[r][c] is the column of C1 that holds the c-th  *)
(* nonzero entry of row r.  Each column of C1_index is shuffled from the   *)
(* top; a draw that would repeat a value within its row clears what the    *)
(* column marked so far in `tracker' and starts the column again, on the   *)
(* half-shuffled column.  One action is one pass of the innermost loop,    *)
(* that is one call of NIST_rng.                                           *)
(***************************************************************************)
EXTENDS Naturals, Sequences

CONSTANTS M,       \* rows of C1 (460 in parameters.c)
          NORM1    \* nonzero entries per row of C1 (4 in parameters.c)

ASSUME ShapeAssumption == M \in Nat \ {0} /\ NORM1 \in Nat \ {0}

VARIABLES C1_index,   \* [row -> [column -> value]]
          tracker,    \* tracker[r][t]: row r already has the value t
          i,          \* the row the next draw decides
          j           \* the column being shuffled, NORM1 when all are done

vars == <<C1_index, tracker, i, j>>

Row == 0 .. M - 1
Col == 0 .. NORM1 - 1

Identity == [r \in Row |-> [c \in Col |-> r]]
NoMarks  == [r \in Row |-> [t \in Row |-> FALSE]]

Init == /\ C1_index = Identity
        /\ tracker = NoMarks
        /\ i = 0
        /\ j = 0

-----------------------------------------------------------------------------
\* The state after a draw s: the value that row i would take, the exchange
\* of rows s and i, the marks without those of the rows above row i, and
\* the cursor on the next row or on the next column.  A definition marked
\* MUTANT is a plausible slip; no specification uses it.
Drawn(s) == C1_index[s][j]

\* MUTANT of Swapped: the value of row i is dropped.
SwapLoses(s) == [C1_index EXCEPT ![i][j] = Drawn(s)]
Swapped(s)   == [C1_index EXCEPT ![s][j] = C1_index[i][j],
                                 ![i][j] = Drawn(s)]

\* MUTANT of RolledBack: off by one, the last mark stays.
RolledBackShort == [r \in Row |-> [t \in Row |->
                      tracker[r][t] /\ ~ (r + 1 < i /\ t = C1_index[r][j])]]
\* MUTANT of RolledBack: off by one, row i loses a mark of another column.
RolledBackLong  == [r \in Row |-> [t \in Row |->
                      tracker[r][t] /\ ~ (r <= i /\ t = C1_index[r][j])]]
RolledBack      == [r \in Row |-> [t \in Row |->
                      tracker[r][t] /\ ~ (r < i /\ t = C1_index[r][j])]]

\* MUTANT of Advance: the loop bound is one too far.
AdvanceLate == IF i < M THEN i' = i + 1 /\ j' = j ELSE i' = 0 /\ j' = j + 1
Advance     == \/ i + 1 < M /\ i' = i + 1 /\ j' = j
               \/ i + 1 = M /\ i' = 0     /\ j' = j + 1

-----------------------------------------------------------------------------
\* MUTANT of Place: the tracker is consulted from the third column on.
PlaceUnchecked(s) == /\ j < NORM1
                     /\ j > 1 => ~ tracker[i][Drawn(s)]
                     /\ C1_index' = Swapped(s)
                     /\ tracker' = [tracker EXCEPT ![i][Drawn(s)] = TRUE]
                     /\ Advance

\* The drawn value is new in row i, or this is the first column, which the
\* code shuffles without looking at the tracker.
Place(s) == /\ j < NORM1
            /\ j > 0 => ~ tracker[i][Drawn(s)]
            /\ C1_index' = Swapped(s)
            /\ tracker' = [tracker EXCEPT ![i][Drawn(s)] = TRUE]
            /\ Advance

\* Row i already has the drawn value: the column starts again.  The rows of
\* C1_index above i keep the order the draws gave them.
Conflict(s) == /\ j \in 1 .. NORM1 - 1
               /\ tracker[i][Drawn(s)]
               /\ tracker' = RolledBack
               /\ i' = 0
               /\ UNCHANGED <<C1_index, j>>

\* NIST_rng(M-i) + i, then one pass of the loop body.
Draw(s) == s \in i .. M - 1 /\ (Place(s) \/ Conflict(s))

\* MUTANT of Retry: the tracker is initialised once, outside the loop.
RetryDirty == /\ j = NORM1
              /\ C1_index' = Identity
              /\ i' = 0
              /\ j' = 0
              /\ UNCHANGED tracker

\* The matrix was singular: generate_C_sk (and it alone) starts over.
Retry == /\ j = NORM1
         /\ C1_index' = Identity
         /\ tracker' = NoMarks
         /\ i' = 0
         /\ j' = 0

Next == (\E s \in Row : Draw(s)) \/ Retry

Spec == Init /\ [][Next]_vars

-----------------------------------------------------------------------------
TypeOK == /\ C1_index \in [Row -> [Col -> Row]]
          /\ tracker \in [Row -> [Row -> BOOLEAN]]
          /\ i \in Row
          /\ j \in 0 .. NORM1

\* Row r has its final value in column c.
Placed(r, c) == c < j \/ (c = j /\ r < i)

\* Every column, also one that is half shuffled or was abandoned half way
\* and is being shuffled again, is a permutation of the rows: an exchange
\* loses no value, so every column of C1 gets as many entries as every row.
ColumnsArePermutations ==
  \A c \in Col : /\ \A r, q \in Row : C1_index[r][c] = C1_index[q][c] => r = q
                 /\ \A v \in Row : \E r \in Row : C1_index[r][c] = v

\* The tracker marks exactly the placed values: a conflict takes back the
\* marks of the abandoned column and none of the columns before it, although
\* a mark does not say which column set it.
TrackerExact ==
  \A r, t \in Row :
    tracker[r][t] <=> \E c \in Col : Placed(r, c) /\ C1_index[r][c] = t

\* No row repeats a value: at the end every row of C1 has exactly NORM1
\* nonzero entries, none of which overwrites another.
RowsDistinct ==
  \A r \in Row : \A c, d \in Col :
    Placed(r, c) /\ Placed(r, d) /\ C1_index[r][c] = C1_index[r][d] => c = d

\* The search cannot run into a dead end: whenever a column is begun, also
\* after any number of conflicts, the tracker leaves room for a whole
\* column, so some sequence of draws ends the loop.  (It needs NORM1 <= M.)
FreshColumnFillable ==
  i = 0 /\ j < NORM1 =>
    \E p \in [Row -> Row] : /\ \A r, q \in Row : p[r] = p[q] => r = q
                            /\ \A r \in Row : ~ tracker[r][p[r]]

-----------------------------------------------------------------------------
\* The completed columns, as the abstract specification sees them.
CompletedColumns == [c \in 1 .. j |-> [r \in Row |-> C1_index[r][c - 1]]]

Promise == INSTANCE RectanglePromise WITH columns <- CompletedColumns

\* The search implements RectanglePromise: a step completes a column that
\* agrees with none of the earlier ones in any row, drops the whole
\* rectangle, or leaves the completed columns as they are.
ImplementsPromise == Promise!Spec
=============================================================================
