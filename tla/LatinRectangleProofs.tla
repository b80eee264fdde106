------------------------ MODULE LatinRectangleProofs ------------------------
(***************************************************************************)
(* The index search of C1 is correct for every M and NORM1.  The safety    *)
(* properties of LatinRectangle are inductive together: a conflict is      *)
(* detected through the tracker, so RowsDistinct needs TrackerExact; the   *)
(* rollback clears no mark of an earlier column only because the placed    *)
(* values of a row are distinct, so TrackerExact needs RowsDistinct; and   *)
(* the first column is placed unchecked.                                   *)
(*                                                                         *)
(* That the search has no dead end is an instance of Hall's theorem, which *)
(* is proved here for any two finite sets.                                 *)
(***************************************************************************)
EXTENDS LatinRectangle, NumberTheorems

RectangleInv == /\ TypeOK
                /\ ColumnsArePermutations
                /\ TrackerExact
                /\ RowsDistinct

-----------------------------------------------------------------------------
\* The first state satisfies the invariant: C1_index is the identity in
\* every column and nothing is marked or placed.
LEMMA RectangleInit == Init => RectangleInv
<1> SUFFICES ASSUME Init PROVE RectangleInv
  OBVIOUS
<1> USE ShapeAssumption DEF Init, Identity, NoMarks, Row, Col
<1>1. TypeOK
  BY DEF TypeOK
<1>2. ColumnsArePermutations
  BY DEF ColumnsArePermutations
<1>3. TrackerExact
  BY DEF TrackerExact, Placed
<1>4. RowsDistinct
  BY DEF RowsDistinct, Placed
<1> QED
  BY <1>1, <1>2, <1>3, <1>4 DEF RectangleInv

\* Exchanging the entries of rows s and i of column j leaves the other
\* columns alone.
LEMMA SwapEntries ==
  ASSUME TypeOK, j < NORM1, NEW s \in i .. M - 1,
         NEW r \in Row, NEW c \in Col
  PROVE  Swapped(s)[r][c] = IF c = j /\ r = i THEN C1_index[s][j]
                            ELSE IF c = j /\ r = s THEN C1_index[i][j]
                            ELSE C1_index[r][c]
<1>1. s \in Row /\ i \in Row /\ j \in Col
  BY ShapeAssumption DEF TypeOK, Row, Col
<1> QED
  BY <1>1, ShapeAssumption DEF TypeOK, Swapped, Drawn

\* The exchange keeps the type of C1_index.
LEMMA SwapType ==
  ASSUME TypeOK, j < NORM1, NEW s \in i .. M - 1
  PROVE  Swapped(s) \in [Row -> [Col -> Row]]
<1>1. s \in Row /\ i \in Row /\ j \in Col
  BY ShapeAssumption DEF TypeOK, Row, Col
<1> QED
  BY <1>1 DEF TypeOK, Swapped, Drawn

-----------------------------------------------------------------------------
\* Placing a value preserves the invariant.
LEMMA PlaceStep ==
  ASSUME RectangleInv, NEW s \in i .. M - 1, Place(s)
  PROVE  RectangleInv'
<1> DEFINE t == C1_index[s][j]
<1>1. /\ s \in Row /\ i \in Row /\ j \in Col /\ j < NORM1 /\ t \in Row
      /\ C1_index' = Swapped(s)
      /\ tracker' = [tracker EXCEPT ![i][t] = TRUE]
  <2>1. s \in Row /\ i \in Row /\ j \in Col /\ j < NORM1
    BY ShapeAssumption DEF RectangleInv, TypeOK, Row, Col, Place
  <2>2. t \in Row
    BY <2>1 DEF RectangleInv, TypeOK
  <2> QED
    BY <2>1, <2>2 DEF Place, Drawn
<1>2. /\ TypeOK
      /\ \A r \in Row, c \in Col :
           C1_index'[r][c] = IF c = j /\ r = i THEN t
                             ELSE IF c = j /\ r = s THEN C1_index[i][j]
                             ELSE C1_index[r][c]
  BY <1>1, SwapEntries DEF RectangleInv
<1>3. \A r, q \in Row : tracker'[r][q] <=> (r = i /\ q = t) \/ tracker[r][q]
  BY <1>1, <1>2 DEF TypeOK
\* Only the entry (i, j) becomes placed.
<1>4. \A r \in Row, c \in Col :
        Placed(r, c)' <=> Placed(r, c) \/ (r = i /\ c = j)
  BY <1>1, ShapeAssumption DEF Place, Advance, Placed, Row, Col
<1>5. ~ Placed(i, j) /\ ~ Placed(s, j)
  BY <1>1 DEF Placed, Row, Col
<1>6. \A c \in Col : Placed(i, c) => C1_index[i][c] # t
  <2> SUFFICES ASSUME NEW c \in Col, Placed(i, c), C1_index[i][c] = t
               PROVE  FALSE
    OBVIOUS
  <2>1. c < j
    BY <1>1 DEF Placed, Row, Col
  <2>2. ~ tracker[i][t]
    BY <1>1, <2>1 DEF Place, Drawn, Col
  <2> QED
    BY <1>1, <2>2 DEF RectangleInv, TrackerExact
<1>7. TypeOK'
  <2>1. C1_index' \in [Row -> [Col -> Row]]
    BY <1>1, SwapType DEF RectangleInv
  <2>2. tracker' \in [Row -> [Row -> BOOLEAN]]
    BY <1>1, <1>2 DEF TypeOK
  <2>3. i' \in Row /\ j' \in 0 .. NORM1
    BY <1>1, ShapeAssumption DEF Place, Advance, Row, Col
  <2> QED
    BY <2>1, <2>2, <2>3 DEF TypeOK
<1>8. ColumnsArePermutations'
  <2>1. \A c \in Col : \A r, q \in Row :
          C1_index'[r][c] = C1_index'[q][c] => r = q
    <3> SUFFICES ASSUME NEW c \in Col, NEW r \in Row, NEW q \in Row,
                        C1_index'[r][c] = C1_index'[q][c]
                 PROVE  r = q
      OBVIOUS
    <3>1. \A u, v \in Row : C1_index[u][c] = C1_index[v][c] => u = v
      BY DEF RectangleInv, ColumnsArePermutations
    <3>2. CASE c # j
      BY <1>2, <3>1, <3>2
    <3>3. CASE c = j
      BY <1>1, <1>2, <3>1, <3>3
    <3> QED
      BY <3>2, <3>3
  <2>2. \A c \in Col, v \in Row : \E r \in Row : C1_index'[r][c] = v
    <3> SUFFICES ASSUME NEW c \in Col, NEW v \in Row
                 PROVE  \E r \in Row : C1_index'[r][c] = v
      OBVIOUS
    <3>1. PICK r \in Row : C1_index[r][c] = v
      BY DEF RectangleInv, ColumnsArePermutations
    <3>2. CASE c = j /\ r = i
      BY <1>1, <1>2, <3>1, <3>2
    <3>3. CASE c = j /\ r = s
      BY <1>1, <1>2, <3>1, <3>3
    <3>4. CASE c # j \/ (r # i /\ r # s)
      BY <1>1, <1>2, <3>1, <3>4
    <3> QED
      BY <3>2, <3>3, <3>4
  <2> QED
    BY <2>1, <2>2 DEF ColumnsArePermutations
\* Placed entries other than (i, j) keep their value.
<1>9. \A r \in Row, c \in Col : Placed(r, c) => C1_index'[r][c] = C1_index[r][c]
  BY <1>1, <1>2, <1>5
<1>10. TrackerExact'
  <2> SUFFICES ASSUME NEW r \in Row, NEW q \in Row
               PROVE  tracker'[r][q] <=>
                        \E c \in Col : Placed(r, c)' /\ C1_index'[r][c] = q
    BY DEF TrackerExact
  <2>1. tracker[r][q] <=> \E c \in Col : Placed(r, c) /\ C1_index[r][c] = q
    BY DEF RectangleInv, TrackerExact
  <2>2. CASE r = i /\ q = t
    <3>1. tracker'[r][q]
      BY <1>3, <2>2
    <3>2. \A c \in Col : c = j => Placed(r, c)'
      BY <1>1, <1>4, <2>2
    <3>3. C1_index'[r][j] = q
      BY <1>1, <1>2, <2>2
    <3> QED
      BY <1>1, <3>1, <3>2, <3>3
  <2>3. CASE r # i
    BY <1>3, <1>4, <1>9, <2>1, <2>3
  <2>4. CASE r = i /\ q # t
    <3>1. \A c \in Col : Placed(r, c)' /\ C1_index'[r][c] = q => Placed(r, c)
      BY <1>1, <1>2, <1>4, <2>4
    <3> QED
      BY <1>3, <1>4, <1>9, <2>1, <2>4, <3>1
  <2> QED
    BY <2>2, <2>3, <2>4
<1>11. RowsDistinct'
  <2> SUFFICES ASSUME NEW r \in Row, NEW c \in Col, NEW d \in Col,
                      Placed(r, c)', Placed(r, d)',
                      C1_index'[r][c] = C1_index'[r][d]
               PROVE  c = d
    BY DEF RowsDistinct
  <2>1. CASE Placed(r, c) /\ Placed(r, d)
    BY <1>9, <2>1 DEF RectangleInv, RowsDistinct
  <2>2. CASE ~ Placed(r, c) /\ Placed(r, d)
    BY <1>1, <1>2, <1>4, <1>6, <1>9, <2>2
  <2>3. CASE Placed(r, c) /\ ~ Placed(r, d)
    BY <1>1, <1>2, <1>4, <1>6, <1>9, <2>3
  <2>4. CASE ~ Placed(r, c) /\ ~ Placed(r, d)
    BY <1>4, <2>4
  <2> QED
    BY <2>1, <2>2, <2>3, <2>4
<1> QED
  BY <1>7, <1>8, <1>10, <1>11 DEF RectangleInv

\* A conflict preserves the invariant: the marks it takes back are those of
\* column j, because no earlier column of the same row has the same value.
LEMMA ConflictStep ==
  ASSUME RectangleInv, NEW s \in i .. M - 1, Conflict(s)
  PROVE  RectangleInv'
<1>1. /\ i \in Row /\ j \in Col /\ i' = 0 /\ j' = j
      /\ C1_index' = C1_index /\ tracker' = RolledBack /\ TypeOK
  <2>1. i \in Row /\ j \in Col
    BY ShapeAssumption DEF RectangleInv, TypeOK, Conflict, Col
  <2> QED
    BY <2>1 DEF RectangleInv, Conflict
<1>2. \A r, q \in Row :
        tracker'[r][q] <=> tracker[r][q] /\ ~ (r < i /\ q = C1_index[r][j])
  BY <1>1 DEF RolledBack
<1>3. \A r \in Row, c \in Col : /\ Placed(r, c) <=> c < j \/ (c = j /\ r < i)
                                /\ Placed(r, c)' <=> c < j
  BY <1>1, ShapeAssumption DEF Placed, Row, Col
<1>4. TypeOK'
  BY <1>1, ShapeAssumption DEF TypeOK, RolledBack, Row, Col
<1>5. ColumnsArePermutations'
  BY <1>1 DEF RectangleInv, ColumnsArePermutations
<1>6. TrackerExact'
  <2> SUFFICES ASSUME NEW r \in Row, NEW q \in Row
               PROVE  tracker'[r][q] <=>
                        \E c \in Col : Placed(r, c)' /\ C1_index'[r][c] = q
    BY DEF TrackerExact
  <2>1. tracker[r][q] <=> \E c \in Col : Placed(r, c) /\ C1_index[r][c] = q
    BY DEF RectangleInv, TrackerExact
  <2>2. \A c \in Col : c < j => c # j
    BY <1>1 DEF Col
  <2>3. CASE r < i /\ q = C1_index[r][j]
    <3>1. \A c \in Col : c < j => C1_index[r][c] # q
      BY <1>1, <1>3, <2>2, <2>3 DEF RectangleInv, RowsDistinct
    <3> QED
      BY <1>1, <1>2, <1>3, <2>3, <3>1
  <2>4. CASE ~ (r < i /\ q = C1_index[r][j])
    BY <1>1, <1>2, <1>3, <2>1, <2>4
  <2> QED
    BY <2>3, <2>4
<1>7. RowsDistinct'
  BY <1>1, <1>3 DEF RectangleInv, RowsDistinct
<1> QED
  BY <1>4, <1>5, <1>6, <1>7 DEF RectangleInv

\* Every step of the search preserves the invariant.
LEMMA RectangleStep == RectangleInv /\ [Next]_vars => RectangleInv'
<1> SUFFICES ASSUME RectangleInv, [Next]_vars PROVE RectangleInv'
  OBVIOUS
<1>1. CASE \E s \in Row : Draw(s)
  BY <1>1, PlaceStep, ConflictStep DEF Draw
<1>2. CASE Retry
  <2>1. Init'
    BY <1>2 DEF Retry, Init
  <2> QED
    BY <2>1, RectangleInit, PTL
<1>3. CASE UNCHANGED vars
  BY <1>3 DEF vars, RectangleInv, TypeOK, ColumnsArePermutations,
              TrackerExact, RowsDistinct, Placed
<1> QED
  BY <1>1, <1>2, <1>3 DEF Next

-----------------------------------------------------------------------------
\* Type correctness and the invariant hold in every reachable state.
THEOREM RectangleCorrect == Spec => []RectangleInv
  BY RectangleInit, RectangleStep, PTL DEF Spec

\* The variables of the search keep their types: the cursor never leaves the
\* matrix.
THEOREM RectangleTypeTheorem == Spec => []TypeOK
<1>1. RectangleInv => TypeOK
  BY DEF RectangleInv
<1> QED
  BY <1>1, RectangleCorrect, PTL

\* Every column of C1_index is a permutation of the rows at all times.
THEOREM PermutationTheorem == Spec => []ColumnsArePermutations
<1>1. RectangleInv => ColumnsArePermutations
  BY DEF RectangleInv
<1> QED
  BY <1>1, RectangleCorrect, PTL

\* The tracker is exact at all times, whatever the conflicts and retries.
THEOREM TrackerTheorem == Spec => []TrackerExact
<1>1. RectangleInv => TrackerExact
  BY DEF RectangleInv
<1> QED
  BY <1>1, RectangleCorrect, PTL

\* No row of C1 is given the same column twice.
THEOREM DistinctTheorem == Spec => []RowsDistinct
<1>1. RectangleInv => RowsDistinct
  BY DEF RectangleInv
<1> QED
  BY <1>1, RectangleCorrect, PTL

-----------------------------------------------------------------------------
\* The search starts where the abstract specification starts.
LEMMA PromiseInit == Init => Promise!Init
<1> SUFFICES ASSUME Init PROVE CompletedColumns = << >>
  BY DEF Promise!Init
<1>1. j = 0
  BY DEF Init
<1> QED
  BY <1>1 DEF CompletedColumns

\* The columns an unfinished step leaves behind are the same.
LEMMA SameColumns ==
  ASSUME RectangleInv, j' = j,
         \A r \in Row, c \in Col : c < j => C1_index'[r][c] = C1_index[r][c]
  PROVE  CompletedColumns' = CompletedColumns
<1>1. j \in Nat /\ \A c \in 1 .. j : c - 1 \in Col /\ c - 1 < j
  BY ShapeAssumption DEF RectangleInv, TypeOK, Col
<1>2. \A c \in 1 .. j : [r \in Row |-> C1_index'[r][c - 1]]
                          = [r \in Row |-> C1_index[r][c - 1]]
  BY <1>1
<1> QED
  BY <1>2 DEF CompletedColumns

\* A step that completes a column is an AddColumn of the abstract
\* specification; the step between two rows of a column is a stutter.
LEMMA PlaceImplements ==
  ASSUME RectangleInv, RectangleInv', NEW s \in i .. M - 1, Place(s)
  PROVE  [Promise!Next]_CompletedColumns
<1>1. /\ s \in Row /\ i \in Row /\ j \in Col /\ j < NORM1
      /\ j \in Nat /\ j + 1 \in 1 .. NORM1 /\ C1_index' = Swapped(s) /\ TypeOK
  <2>1. s \in Row /\ i \in Row /\ j \in Col /\ j \in Nat /\ j + 1 \in 1 .. NORM1
    BY ShapeAssumption DEF RectangleInv, TypeOK, Row, Col, Place
  <2> QED
    BY <2>1 DEF RectangleInv, Place
<1>2. \A r \in Row, c \in Col : c < j => C1_index'[r][c] = C1_index[r][c]
  BY <1>1, SwapEntries DEF Col
<1>0. \A c \in 1 .. j : c - 1 \in Col /\ c - 1 < j /\ c - 1 # j
  BY <1>1, ShapeAssumption DEF Col
<1>3. CASE i + 1 < M
  <2>1. j' = j
    BY <1>1, <1>3, ShapeAssumption DEF Place, Advance, Row
  <2> QED
    BY <1>2, <2>1, SameColumns
<1>4. CASE i + 1 = M
  <2> DEFINE p == [r \in Row |-> C1_index'[r][j]]
  <2>1. j' = j + 1 /\ i' = 0
    BY <1>1, <1>4, ShapeAssumption DEF Place, Advance, Row
  <2>2. p \in Promise!Permutation
    <3>1. C1_index' \in [Row -> [Col -> Row]]
      BY DEF RectangleInv, TypeOK
    <3>2. p \in [Row -> Row]
      BY <1>1, <3>1
    <3>3. \A r, q \in Row : p[r] = p[q] => r = q
      BY <1>1 DEF RectangleInv, ColumnsArePermutations
    <3> QED
      BY <3>2, <3>3 DEF Promise!Permutation, Promise!Row, Row
  <2>3. /\ CompletedColumns \in Seq([Row -> Row])
        /\ Len(CompletedColumns) = j
        /\ DOMAIN CompletedColumns = 1 .. j
    <3>1. \A c \in 1 .. j : [r \in Row |-> C1_index[r][c - 1]] \in [Row -> Row]
      BY <1>0, <1>1 DEF TypeOK
    <3> QED
      BY <1>1, <3>1 DEF CompletedColumns
  <2>4. \A c \in 1 .. j, r \in Row : CompletedColumns[c][r] # p[r]
    <3> SUFFICES ASSUME NEW c \in 1 .. j, NEW r \in Row
                 PROVE  C1_index[r][c - 1] # C1_index'[r][j]
      BY DEF CompletedColumns
    <3>1. c - 1 \in Col /\ c - 1 < j /\ c - 1 # j
      BY <1>0
    <3>2. \A d \in Col : d <= j => Placed(r, d)'
      BY <1>1, <2>1 DEF Placed, Col
    <3>3. C1_index'[r][c - 1] = C1_index[r][c - 1]
      BY <1>2, <3>1
    <3>4. Placed(r, c - 1)' /\ \A d \in Col : d = j => Placed(r, d)'
      BY <1>1, <3>1, <3>2 DEF Col
    <3> QED
      BY <1>1, <3>1, <3>3, <3>4 DEF RectangleInv, RowsDistinct
  <2>5. CompletedColumns' = Append(CompletedColumns, p)
    <3>1. CompletedColumns' = [c \in 1 .. j + 1 |->
                                 [r \in Row |-> C1_index'[r][c - 1]]]
      BY <2>1 DEF CompletedColumns
    <3>2. Append(CompletedColumns, p)
            = [c \in 1 .. j + 1 |-> IF c = j + 1 THEN p ELSE CompletedColumns[c]]
      BY <1>1, <2>3
    <3>3. \A c \in 1 .. j + 1 :
            [r \in Row |-> C1_index'[r][c - 1]]
              = IF c = j + 1 THEN p ELSE CompletedColumns[c]
      <4> SUFFICES ASSUME NEW c \in 1 .. j + 1
                   PROVE  [r \in Row |-> C1_index'[r][c - 1]]
                            = IF c = j + 1 THEN p ELSE CompletedColumns[c]
        OBVIOUS
      <4>1. CASE c = j + 1
        BY <1>1, <4>1
      <4>2. CASE c # j + 1
        <5>1. c \in 1 .. j /\ c - 1 \in Col /\ c - 1 < j
          BY <1>0, <1>1, <4>2
        <5> QED
          BY <1>2, <4>2, <5>1 DEF CompletedColumns
      <4> QED
        BY <4>1, <4>2
    <3> QED
      BY <3>1, <3>2, <3>3
  <2>6. Promise!AddColumn
    BY <1>1, <2>2, <2>3, <2>4, <2>5 DEF Promise!AddColumn, Promise!Row, Row
  <2> QED
    BY <2>6 DEF Promise!Next
<1> QED
  BY <1>1, <1>3, <1>4, ShapeAssumption DEF Place, Advance

\* Every step of the search is a step of the abstract specification or
\* leaves the completed columns as they are.
LEMMA PromiseStep ==
  RectangleInv /\ RectangleInv' /\ [Next]_vars => [Promise!Next]_CompletedColumns
<1> SUFFICES ASSUME RectangleInv, RectangleInv', [Next]_vars
             PROVE  [Promise!Next]_CompletedColumns
  OBVIOUS
<1>1. CASE \E s \in Row : Draw(s)
  <2>1. PICK s \in i .. M - 1 : Place(s) \/ Conflict(s)
    BY <1>1 DEF Draw
  <2>2. CASE Place(s)
    BY <2>2, PlaceImplements
  <2>3. CASE Conflict(s)
    BY <2>3, SameColumns DEF Conflict
  <2> QED
    BY <2>1, <2>2, <2>3
<1>2. CASE Retry
  <2>1. Len(CompletedColumns) = NORM1
    BY <1>2, ShapeAssumption DEF Retry, CompletedColumns
  <2>2. CompletedColumns' = << >>
    BY <1>2 DEF Retry, CompletedColumns
  <2> QED
    BY <2>1, <2>2 DEF Promise!Next, Promise!Discard
<1>3. CASE UNCHANGED vars
  BY <1>3 DEF vars, CompletedColumns
<1> QED
  BY <1>1, <1>2, <1>3 DEF Next

\* The index search implements RectanglePromise for every M and NORM1.
THEOREM RefinementTheorem == Spec => ImplementsPromise
<1>1. ImplementsPromise <=> Promise!Init /\ [][Promise!Next]_CompletedColumns
  BY DEF ImplementsPromise, Promise!Spec
<1> QED
  BY <1>1, RectangleCorrect, PromiseInit, PromiseStep, PTL DEF Spec

-----------------------------------------------------------------------------
(* Hall's theorem *)

\* The elements of Y that the edges in E join to one of S.
Neighbours(E, S, Y) == {y \in Y : \E x \in S : <<x, y>> \in E}

HallCondition(E, X, Y) ==
  \A S \in SUBSET X : Cardinality(S) <= Cardinality(Neighbours(E, S, Y))

Matches(f, E, X, Y) == /\ f \in [X -> Y] /\ \A x \in X : <<x, f[x]>> \in E
                       /\ \A x, z \in X : f[x] = f[z] => x = z

Matched(E, X, Y) == \E f : Matches(f, E, X, Y)

\* One more edge, to an element that is not in use.
LEMMA MatchOne ==
  ASSUME NEW E, NEW X, NEW Y, NEW x \in X, NEW y \in Y, <<x, y>> \in E,
         Matched(E, X \ {x}, Y \ {y})
  PROVE  Matched(E, X, Y)
<1>1. PICK f : Matches(f, E, X \ {x}, Y \ {y}) BY DEF Matched
<1> DEFINE g == [z \in X |-> IF z = x THEN y ELSE f[z]]
<1>2. Matches(g, E, X, Y) BY <1>1 DEF Matches
<1> QED BY <1>2 DEF Matched

\* Two parts matched with different elements.
LEMMA MatchBoth ==
  ASSUME NEW E, NEW X, NEW Y, NEW S \in SUBSET X,
         Matched(E, S, Y), Matched(E, X \ S, Y \ Neighbours(E, S, Y))
  PROVE  Matched(E, X, Y)
<1>1. PICK f : Matches(f, E, S, Y) BY DEF Matched
<1>2. PICK h : Matches(h, E, X \ S, Y \ Neighbours(E, S, Y)) BY DEF Matched
<1> DEFINE g == [z \in X |-> IF z \in S THEN f[z] ELSE h[z]]
<1>3. \A z \in S : f[z] \in Neighbours(E, S, Y) BY <1>1 DEF Matches, Neighbours
<1>4. \A z \in X : <<z, g[z]>> \in E /\ g[z] \in Y BY <1>1, <1>2 DEF Matches
<1>5. ASSUME NEW z \in X, NEW w \in X, g[z] = g[w] PROVE z = w
  <2>1. CASE z \in S /\ w \in S BY <1>1, <1>5, <2>1 DEF Matches
  <2>2. CASE z \notin S /\ w \notin S BY <1>2, <1>5, <2>2 DEF Matches
  <2>3. CASE z \in S /\ w \notin S BY <1>2, <1>3, <1>5, <2>3 DEF Matches
  <2>4. CASE z \notin S /\ w \in S BY <1>2, <1>3, <1>5, <2>4 DEF Matches
  <2> QED BY <2>1, <2>2, <2>3, <2>4
<1>6. Matches(g, E, X, Y) BY <1>4, <1>5 DEF Matches
<1> QED BY <1>6 DEF Matched

\* If every part has more neighbours than elements, an edge may be taken out.
LEMMA HallSlack ==
  ASSUME NEW E, NEW X, IsFiniteSet(X), NEW Y, IsFiniteSet(Y), NEW x \in X, NEW y,
         \A S \in SUBSET X : S # {} /\ S # X =>
            Cardinality(S) < Cardinality(Neighbours(E, S, Y))
  PROVE  HallCondition(E, X \ {x}, Y \ {y})
<1> SUFFICES ASSUME NEW S \in SUBSET (X \ {x})
             PROVE  Cardinality(S) <= Cardinality(Neighbours(E, S, Y \ {y}))
  BY DEF HallCondition
<1> DEFINE A == Neighbours(E, S, Y)
           B == Neighbours(E, S, Y \ {y})
<1>1. A \in SUBSET Y /\ B = A \ {y} BY DEF Neighbours
<1>2. S \in SUBSET X /\ S # X OBVIOUS
<1> HIDE DEF A, B
<1>3. IsFiniteSet(A) /\ IsFiniteSet(S) BY <1>1, <1>2, FS_Subset
<1>4. Cardinality(A) \in Nat /\ Cardinality(S) \in Nat BY <1>3, FS_CardinalityType
<1>5. Cardinality(B) = IF y \in A THEN Cardinality(A) - 1 ELSE Cardinality(A)
  BY <1>1, <1>3, FS_RemoveElement
<1>6. S = {} => Cardinality(S) = 0 BY FS_EmptySet
<1>7. IsFiniteSet(B) BY <1>1, <1>3, FS_RemoveElement
<1>8. Cardinality(B) \in Nat BY <1>7, FS_CardinalityType
<1>9. S # {} => Cardinality(S) < Cardinality(A) BY <1>2 DEF A
<1>10. Cardinality(S) <= Cardinality(B) BY <1>4, <1>5, <1>6, <1>8, <1>9
<1> QED BY <1>10 DEF B

\* If a part has just as many, the others have enough besides.
LEMMA HallTight ==
  ASSUME NEW E, NEW X, IsFiniteSet(X), NEW Y, IsFiniteSet(Y), HallCondition(E, X, Y),
         NEW S \in SUBSET X, Cardinality(Neighbours(E, S, Y)) <= Cardinality(S)
  PROVE  HallCondition(E, X \ S, Y \ Neighbours(E, S, Y))
<1> DEFINE T == Neighbours(E, S, Y)
<1> SUFFICES ASSUME NEW W \in SUBSET (X \ S)
             PROVE  Cardinality(W) <= Cardinality(Neighbours(E, W, Y \ T))
  BY DEF HallCondition
<1> DEFINE B == Neighbours(E, W, Y \ T)
           C == Neighbours(E, W \cup S, Y)
<1>1. T \in SUBSET Y /\ B \in SUBSET Y /\ C = B \cup T /\ B \cap T = {}
  BY DEF Neighbours
<1>2. W \cup S \in SUBSET X /\ W \in SUBSET X /\ W \cap S = {} OBVIOUS
<1>3. Cardinality(W \cup S) <= Cardinality(C) BY <1>2 DEF HallCondition
<1>4. Cardinality(T) <= Cardinality(S) OBVIOUS
<1> HIDE DEF T, B, C
<1>5. IsFiniteSet(T) /\ IsFiniteSet(B) /\ IsFiniteSet(W) /\ IsFiniteSet(S)
  BY <1>1, <1>2, FS_Subset
<1>6. /\ Cardinality(T) \in Nat /\ Cardinality(B) \in Nat
      /\ Cardinality(W) \in Nat /\ Cardinality(S) \in Nat
  BY <1>5, FS_CardinalityType
<1>7. Cardinality({}) = 0 BY FS_EmptySet
<1>8. Cardinality(C) = Cardinality(B) + Cardinality(T) - 0
  BY <1>1, <1>5, <1>7, FS_Union
<1>9. Cardinality(W \cup S) = Cardinality(W) + Cardinality(S) - 0
  BY <1>2, <1>5, <1>7, FS_Union
<1>10. Cardinality(W) <= Cardinality(B) BY <1>3, <1>4, <1>6, <1>8, <1>9
<1> QED BY <1>10 DEF B

\* If all parts of X have enough neighbours, X can be matched.
LEMMA HallTheorem ==
  ASSUME NEW E, NEW X, IsFiniteSet(X), NEW Y, IsFiniteSet(Y), HallCondition(E, X, Y)
  PROVE  Matched(E, X, Y)
<1> DEFINE P == {n \in Nat : \A A \in SUBSET X, B \in SUBSET Y :
                   Cardinality(A) = n /\ HallCondition(E, A, B) => Matched(E, A, B)}
<1>1. ASSUME NEW n \in Nat, \A l \in 0 .. n - 1 : l \in P PROVE n \in P
  <2> SUFFICES ASSUME NEW A \in SUBSET X, NEW B \in SUBSET Y,
                      Cardinality(A) = n, HallCondition(E, A, B)
               PROVE  Matched(E, A, B)
    OBVIOUS
  <2>0. IsFiniteSet(A) /\ IsFiniteSet(B) BY FS_Subset
  <2>1. ASSUME NEW C \in SUBSET A, C # A, NEW D \in SUBSET B, HallCondition(E, C, D)
        PROVE  Matched(E, C, D)
    <3>1. C \in SUBSET X /\ D \in SUBSET Y OBVIOUS
    <3>2. IsFiniteSet(C) /\ Cardinality(C) <= Cardinality(A)
          /\ (Cardinality(A) = Cardinality(C) => A = C)
      BY <2>0, FS_Subset
    <3>3. Cardinality(C) \in Nat BY <3>2, FS_CardinalityType
    <3>4. Cardinality(C) \in 0 .. n - 1 BY <2>1, <3>2, <3>3
    <3>5. Cardinality(C) \in P BY <1>1, <3>4
    <3> QED BY <2>1, <3>1, <3>5
  <2> HIDE DEF P
  <2>2. CASE A = {}
    <3> DEFINE f == [x \in A |-> x]
    <3>1. Matches(f, E, A, B) BY <2>2 DEF Matches
    <3> QED BY <3>1 DEF Matched
  <2>3. CASE A # {} /\ \A S \in SUBSET A : S # {} /\ S # A =>
                          Cardinality(S) < Cardinality(Neighbours(E, S, B))
    <3>1. PICK x \in A : TRUE BY <2>3
    <3>2. Neighbours(E, {x}, B) # {}
      <4>1. Cardinality({x}) = 1 BY FS_Singleton
      <4>2. Cardinality({x}) <= Cardinality(Neighbours(E, {x}, B))
        BY DEF HallCondition
      <4>3. Cardinality({}) = 0 BY FS_EmptySet
      <4> QED BY <4>1, <4>2, <4>3
    <3>3. PICK y \in B : <<x, y>> \in E BY <3>2 DEF Neighbours
    <3>4. HallCondition(E, A \ {x}, B \ {y}) BY <2>0, <2>3, HallSlack
    <3>5. Matched(E, A \ {x}, B \ {y})
      <4>1. A \ {x} \in SUBSET A /\ A \ {x} # A /\ B \ {y} \in SUBSET B OBVIOUS
      <4> QED BY <2>1, <3>4, <4>1
    <3> QED BY <3>3, <3>5, MatchOne
  <2>4. ASSUME NEW S \in SUBSET A, S # {}, S # A,
               ~ (Cardinality(S) < Cardinality(Neighbours(E, S, B)))
        PROVE  Matched(E, A, B)
    <3> DEFINE T == Neighbours(E, S, B)
    <3>1. T \in SUBSET B BY DEF Neighbours
    <3>2. Cardinality(T) <= Cardinality(S)
      <4>1. IsFiniteSet(T) /\ IsFiniteSet(S) BY <2>0, <3>1, FS_Subset
      <4>2. Cardinality(T) \in Nat /\ Cardinality(S) \in Nat
        BY <4>1, FS_CardinalityType
      <4> QED BY <2>4, <4>2
    <3>3. HallCondition(E, A \ S, B \ T) BY <2>0, <3>2, HallTight
    <3>4. HallCondition(E, S, B) BY DEF HallCondition
    <3>5. Matched(E, S, B) BY <2>1, <2>4, <3>4
    <3>6. Matched(E, A \ S, B \ T)
      <4>1. A \ S \in SUBSET A /\ A \ S # A /\ B \ T \in SUBSET B BY <2>4
      <4> HIDE DEF T
      <4> QED BY <2>1, <3>3, <4>1
    <3> QED BY <3>5, <3>6, MatchBoth
  <2> QED BY <2>2, <2>3, <2>4
<1>2. \A n \in Nat : n \in P
  <2> HIDE DEF P
  <2> QED BY <1>1, StrongInduction
<1>3. Cardinality(X) \in Nat BY FS_CardinalityType
<1>4. Cardinality(X) \in P BY <1>2, <1>3
<1> QED BY <1>4

-----------------------------------------------------------------------------
(* Regular graphs *)

\* Disjoint sets of one size k.
LEMMA EqualParts ==
  ASSUME NEW S, IsFiniteSet(S), NEW U, IsFiniteSet(U), NEW F \in [S -> SUBSET U],
         NEW k \in Nat, \A s \in S : Cardinality(F[s]) = k,
         \A s, t \in S : s # t => F[s] \cap F[t] = {}
  PROVE  \A T \in SUBSET S : Cardinality(UNION {F[s] : s \in T}) = k * Cardinality(T)
<1> DEFINE All(T) == UNION {F[s] : s \in T}
           P == {T \in SUBSET S : Cardinality(All(T)) = k * Cardinality(T)}
<1>1. {} \in P
  <2>1. All({}) = {} OBVIOUS
  <2>2. Cardinality({}) = 0 BY FS_EmptySet
  <2> QED BY <2>1, <2>2
<1>2. ASSUME NEW T \in SUBSET S, T \in P, NEW x \in S \ T PROVE T \cup {x} \in P
  <2>1. All(T \cup {x}) = All(T) \cup F[x] OBVIOUS
  <2>2. All(T) \cap F[x] = {}
    <3> SUFFICES ASSUME NEW e \in All(T), e \in F[x] PROVE FALSE OBVIOUS
    <3>1. PICK s \in T : e \in F[s] OBVIOUS
    <3> QED BY <3>1
  <2>3. IsFiniteSet(All(T)) /\ IsFiniteSet(F[x])
    <3>1. \A s \in S : F[s] \in SUBSET U OBVIOUS
    <3>2. F[x] \in SUBSET U BY <3>1
    <3>3. ASSUME NEW e \in All(T) PROVE e \in U
      <4>1. PICK s \in T : e \in F[s] BY <3>3
      <4>2. s \in S BY <4>1
      <4> QED BY <3>1, <4>1, <4>2
    <3>4. All(T) \in SUBSET U BY <3>3
    <3> HIDE DEF All
    <3> QED BY <3>2, <3>4, FS_Subset
  <2>4. Cardinality(All(T)) = k * Cardinality(T) BY <1>2
  <2> HIDE DEF All
  <2>5. Cardinality({}) = 0 BY FS_EmptySet
  <2>6. Cardinality(All(T) \cup F[x]) = k * Cardinality(T) + k - 0
    <3> DEFINE a == All(T)
               f == F[x]
    <3>1. /\ IsFiniteSet(a) /\ IsFiniteSet(f) /\ a \cap f = {}
          /\ Cardinality(a) = k * Cardinality(T) /\ Cardinality(f) = k
      BY <2>2, <2>3, <2>4
    <3> HIDE DEF a, f
    <3>2. Cardinality(a \cup f) = Cardinality(a) + Cardinality(f) - Cardinality(a \cap f)
      BY <3>1, FS_Union
    <3>3. Cardinality(a \cup f) = k * Cardinality(T) + k - 0 BY <2>5, <3>1, <3>2
    <3> QED BY <3>3 DEF a, f
  <2>7. IsFiniteSet(T) BY FS_Subset
  <2>8. Cardinality(T) \in Nat /\ Cardinality(T \cup {x}) = Cardinality(T) + 1
    BY <2>7, FS_CardinalityType, FS_AddElement
  <2>9. k * (Cardinality(T) + 1) = k * Cardinality(T) + k - 0 BY <2>8
  <2> QED BY <2>1, <2>6, <2>8, <2>9
<1>3. \A T \in SUBSET S : T \in P
  <2> HIDE DEF P
  <2> QED BY <1>1, <1>2, SubsetInduction
<1> QED BY <1>3

\* If every element of X and of Y has the same number k > 0 of edges, X can
\* be matched: the edges of a part of X are among those of its neighbours.
LEMMA RegularMatched ==
  ASSUME NEW X, IsFiniteSet(X), NEW Y, IsFiniteSet(Y), NEW E \in SUBSET (X \X Y),
         NEW k \in Nat, k > 0,
         \A x \in X : Cardinality({e \in E : e[1] = x}) = k,
         \A y \in Y : Cardinality({e \in E : e[2] = y}) = k
  PROVE  Matched(E, X, Y)
<1>0. IsFiniteSet(E)
  <2>1. IsFiniteSet(X \X Y) BY FS_Product
  <2> QED BY <2>1, FS_Subset
<1> DEFINE F == [x \in X |-> {e \in E : e[1] = x}]
           G == [y \in Y |-> {e \in E : e[2] = y}]
<1>1. \A T \in SUBSET X : Cardinality(UNION {F[s] : s \in T}) = k * Cardinality(T)
  <2>1. /\ F \in [X -> SUBSET E] /\ \A x \in X : Cardinality(F[x]) = k
        /\ \A s, t \in X : s # t => F[s] \cap F[t] = {}
    OBVIOUS
  <2> HIDE DEF F
  <2> QED BY <1>0, <2>1, EqualParts
<1>2. \A T \in SUBSET Y : Cardinality(UNION {G[s] : s \in T}) = k * Cardinality(T)
  <2>1. /\ G \in [Y -> SUBSET E] /\ \A y \in Y : Cardinality(G[y]) = k
        /\ \A s, t \in Y : s # t => G[s] \cap G[t] = {}
    OBVIOUS
  <2> HIDE DEF G
  <2> QED BY <1>0, <2>1, EqualParts
<1>3. ASSUME NEW S \in SUBSET X
      PROVE  Cardinality(S) <= Cardinality(Neighbours(E, S, Y))
  <2> DEFINE T == Neighbours(E, S, Y)
             A == UNION {F[s] : s \in S}
             B == UNION {G[s] : s \in T}
  <2>1. T \in SUBSET Y BY DEF Neighbours
  <2>2. A \in SUBSET B
    <3> SUFFICES ASSUME NEW e \in A PROVE e \in B OBVIOUS
    <3>1. e \in E /\ e[1] \in S OBVIOUS
    <3>2. e = <<e[1], e[2]>> /\ e[2] \in Y BY <3>1
    <3>3. e[2] \in T BY <3>1, <3>2 DEF Neighbours
    <3>4. e \in G[e[2]] BY <3>1, <3>2
    <3> QED BY <3>3, <3>4
  <2>3. B \in SUBSET E BY <2>1
  <2>4. Cardinality(A) = k * Cardinality(S) BY <1>1
  <2>5. Cardinality(B) = k * Cardinality(T) BY <1>2, <2>1
  <2> HIDE DEF A, B, T
  <2>6. IsFiniteSet(B) BY <1>0, <2>3, FS_Subset
  <2>7. Cardinality(A) <= Cardinality(B) BY <2>2, <2>6, FS_Subset
  <2>8. IsFiniteSet(S) /\ IsFiniteSet(T) BY <2>1, FS_Subset
  <2>9. Cardinality(S) \in Nat /\ Cardinality(T) \in Nat BY <2>8, FS_CardinalityType
  <2>10. Cardinality(S) <= Cardinality(T)
    <3> DEFINE a == Cardinality(S)
               b == Cardinality(T)
    <3>1. a \in Nat /\ b \in Nat /\ k * a <= k * b BY <2>4, <2>5, <2>7, <2>9
    <3> HIDE DEF a, b
    <3>2. ASSUME b + 1 <= a PROVE FALSE
      <4>1. k * (b + 1) <= k * a
        <5>1. a - (b + 1) \in Nat BY <3>1, <3>2
        <5>2. k * (a - (b + 1)) \in Nat BY <5>1
        <5>3. k * a = k * (b + 1) + k * (a - (b + 1)) BY <3>1
        <5>4. k * a \in Nat /\ k * (b + 1) \in Nat BY <3>1
        <5> QED BY <5>2, <5>3, <5>4
      <4>2. k * (b + 1) = k * b + k BY <3>1
      <4>3. k * a \in Nat /\ k * b \in Nat BY <3>1
      <4> QED BY <3>1, <4>1, <4>2, <4>3
    <3>3. a <= b BY <3>1, <3>2
    <3> QED BY <3>3 DEF a, b
  <2> QED BY <2>10 DEF T
<1>4. HallCondition(E, X, Y) BY <1>3 DEF HallCondition
<1> QED BY <1>4, HallTheorem

\* f gives every element of T once.
Counts(f, S, T) == /\ f \in [S -> T] /\ \A x, z \in S : f[x] = f[z] => x = z
                   /\ \A y \in T : \E x \in S : f[x] = y

\* A set that a finite set counts has as many elements.
LEMMA CountedBy ==
  ASSUME NEW S, IsFiniteSet(S), NEW T, NEW f, Counts(f, S, T)
  PROVE  IsFiniteSet(T) /\ Cardinality(T) = Cardinality(S)
<1>1. f \in Bijection(S, T) BY DEF Counts, Bijection, Injection, Surjection, IsInjective
<1>2. ExistsBijection(S, T) BY <1>1 DEF ExistsBijection
<1> QED BY <1>2, FS_Bijection

-----------------------------------------------------------------------------
(* A column that is begun can be filled *)

Free == {e \in Row \X Row : ~ tracker[e[1]][e[2]]}

\* What is left of M pairs when j of them are marked.
LEMMA WithoutMarks ==
  ASSUME M \in Nat, j \in Nat, NEW A, NEW B \in SUBSET A, NEW f, Counts(f, Row, A),
         NEW g, Counts(g, 0 .. j - 1, B)
  PROVE  Cardinality(A \ B) = M - j
<1>1. IsFiniteSet(Row) /\ Cardinality(Row) = M
  <2>1. 0 \in Int /\ M - 1 \in Int OBVIOUS
  <2>2. IsFiniteSet(0 .. M - 1)
        /\ Cardinality(0 .. M - 1) = IF 0 > M - 1 THEN 0 ELSE (M - 1) - 0 + 1
    BY <2>1, FS_Interval
  <2> QED BY <2>2 DEF Row
<1>2. IsFiniteSet(0 .. j - 1) /\ Cardinality(0 .. j - 1) = j
  <2>1. 0 \in Int /\ j - 1 \in Int OBVIOUS
  <2>2. IsFiniteSet(0 .. j - 1)
        /\ Cardinality(0 .. j - 1) = IF 0 > j - 1 THEN 0 ELSE (j - 1) - 0 + 1
    BY <2>1, FS_Interval
  <2> QED BY <2>2
<1>3. IsFiniteSet(A) /\ Cardinality(A) = M BY <1>1, CountedBy
<1>4. Cardinality(B) = j BY <1>2, CountedBy
<1>5. A \cap B = B OBVIOUS
<1>6. Cardinality(A \ B) = Cardinality(A) - Cardinality(A \cap B)
  BY <1>3, FS_Difference
<1> QED BY <1>3, <1>4, <1>5, <1>6

\* A row has j marks, one for each column before the one that is begun.
LEMMA FreeOfRow ==
  ASSUME RectangleInv, i = 0, j < NORM1, NEW r \in Row
  PROVE  Cardinality({e \in Free : e[1] = r}) = M - j
<1>0. /\ M \in Nat /\ j \in Nat /\ 0 .. j - 1 \subseteq Col
      /\ \A c \in Col : Placed(r, c) <=> c \in 0 .. j - 1
  <2>1. M \in Nat /\ j \in Nat BY ShapeAssumption DEF RectangleInv, TypeOK
  <2>2. 0 .. j - 1 \subseteq Col BY <2>1, ShapeAssumption DEF Col
  <2>3. \A c \in Col : Placed(r, c) <=> c \in 0 .. j - 1
    BY <2>1 DEF Placed, Row, Col
  <2> QED BY <2>1, <2>2, <2>3
<1>1. C1_index \in [Row -> [Col -> Row]] BY DEF RectangleInv, TypeOK
<1> DEFINE A == {e \in Row \X Row : e[1] = r}
           B == {e \in A : tracker[e[1]][e[2]]}
           f == [t \in Row |-> <<r, t>>]
           g == [c \in 0 .. j - 1 |-> <<r, C1_index[r][c]>>]
<1>2. B \in SUBSET A OBVIOUS
<1>3. Counts(f, Row, A) BY DEF Counts
<1>4. \A t \in Row : tracker[r][t] <=> \E c \in 0 .. j - 1 : C1_index[r][c] = t
  BY <1>0 DEF RectangleInv, TrackerExact
<1>5. \A c \in 0 .. j - 1 : C1_index[r][c] \in Row BY <1>0, <1>1
<1>6. g \in [0 .. j - 1 -> B] BY <1>4, <1>5
<1>7. \A c, d \in 0 .. j - 1 : g[c] = g[d] => c = d
  BY <1>0 DEF RectangleInv, RowsDistinct
<1>8. \A y \in B : \E c \in 0 .. j - 1 : g[c] = y
  <2> SUFFICES ASSUME NEW y \in B PROVE \E c \in 0 .. j - 1 : g[c] = y OBVIOUS
  <2>1. y = <<r, y[2]>> /\ y[2] \in Row /\ tracker[r][y[2]] OBVIOUS
  <2> QED BY <1>4, <2>1
<1>9. {e \in Free : e[1] = r} = A \ B BY DEF Free
<1>10. Counts(g, 0 .. j - 1, B) BY <1>6, <1>7, <1>8 DEF Counts
<1> HIDE DEF A, B, f, g
<1> QED BY <1>0, <1>2, <1>3, <1>9, <1>10, WithoutMarks

\* And so has a value: each of those columns has it in one row, and no two of
\* them in the same.
LEMMA FreeOfValue ==
  ASSUME RectangleInv, i = 0, j < NORM1, NEW v \in Row
  PROVE  Cardinality({e \in Free : e[2] = v}) = M - j
<1>0. /\ M \in Nat /\ j \in Nat /\ 0 .. j - 1 \subseteq Col
      /\ \A r \in Row, c \in Col : Placed(r, c) <=> c \in 0 .. j - 1
  <2>1. M \in Nat /\ j \in Nat BY ShapeAssumption DEF RectangleInv, TypeOK
  <2>2. 0 .. j - 1 \subseteq Col BY <2>1, ShapeAssumption DEF Col
  <2>3. \A r \in Row, c \in Col : Placed(r, c) <=> c \in 0 .. j - 1
    BY <2>1 DEF Placed, Row, Col
  <2> QED BY <2>1, <2>2, <2>3
<1> DEFINE Has(c) == CHOOSE r \in Row : C1_index[r][c] = v
           A == {e \in Row \X Row : e[2] = v}
           B == {e \in A : tracker[e[1]][e[2]]}
           f == [t \in Row |-> <<t, v>>]
           g == [c \in 0 .. j - 1 |-> <<Has(c), v>>]
<1>1. \A c \in Col : Has(c) \in Row /\ C1_index[Has(c)][c] = v
  BY DEF RectangleInv, ColumnsArePermutations
<1>2. B \in SUBSET A OBVIOUS
<1>3. Counts(f, Row, A) BY DEF Counts
<1>4. \A r \in Row : tracker[r][v] <=> \E c \in 0 .. j - 1 : C1_index[r][c] = v
  BY <1>0 DEF RectangleInv, TrackerExact
<1>5. \A r \in Row, c \in Col : C1_index[r][c] = v => r = Has(c)
  BY <1>1 DEF RectangleInv, ColumnsArePermutations
<1> HIDE DEF Has
<1>6. g \in [0 .. j - 1 -> B] BY <1>0, <1>1, <1>4
<1>7. ASSUME NEW c \in 0 .. j - 1, NEW d \in 0 .. j - 1, g[c] = g[d] PROVE c = d
  <2>1. Has(c) = Has(d) /\ c \in Col /\ d \in Col BY <1>0, <1>7
  <2>2. C1_index[Has(c)][c] = C1_index[Has(c)][d] BY <1>1, <2>1
  <2>3. Placed(Has(c), c) /\ Placed(Has(c), d) /\ Has(c) \in Row BY <1>0, <1>1, <2>1
  <2> QED BY <2>1, <2>2, <2>3 DEF RectangleInv, RowsDistinct
<1>8. ASSUME NEW y \in B PROVE \E c \in 0 .. j - 1 : g[c] = y
  <2>1. y = <<y[1], v>> /\ y[1] \in Row /\ tracker[y[1]][v] OBVIOUS
  <2>2. PICK c \in 0 .. j - 1 : C1_index[y[1]][c] = v BY <1>4, <2>1
  <2>3. y[1] = Has(c) BY <1>0, <1>5, <2>1, <2>2
  <2> QED BY <2>1, <2>3
<1>9. {e \in Free : e[2] = v} = A \ B BY DEF Free
<1>10. Counts(g, 0 .. j - 1, B) BY <1>6, <1>7, <1>8 DEF Counts
<1> HIDE DEF A, B, f, g
<1> QED BY <1>0, <1>2, <1>3, <1>9, <1>10, WithoutMarks

\* If there are no more nonzero entries in a row than rows, the search has no
\* dead end: the free pairs of a column that is begun are as many in every row
\* and for every value, and Hall's theorem fills it.
THEOREM FillableTheorem == ASSUME NORM1 <= M PROVE Spec => []FreshColumnFillable
<1>1. RectangleInv => FreshColumnFillable
  <2> SUFFICES ASSUME RectangleInv, i = 0, j < NORM1
               PROVE  \E p \in [Row -> Row] : /\ \A r, q \in Row : p[r] = p[q] => r = q
                                              /\ \A r \in Row : ~ tracker[r][p[r]]
    BY DEF FreshColumnFillable
  <2>1. M \in Nat /\ NORM1 \in Nat /\ j \in Nat
    BY ShapeAssumption DEF RectangleInv, TypeOK
  <2> DEFINE k == M - j
  <2>2. k \in Nat /\ k > 0 BY <2>1
  <2>3. /\ \A r \in Row : Cardinality({e \in Free : e[1] = r}) = k
        /\ \A v \in Row : Cardinality({e \in Free : e[2] = v}) = k
    BY FreeOfRow, FreeOfValue
  <2> HIDE DEF k
  <2>4. IsFiniteSet(Row) BY <2>1, FS_Interval DEF Row
  <2>5. Free \in SUBSET (Row \X Row) BY DEF Free
  <2>6. Matched(Free, Row, Row) BY <2>2, <2>3, <2>4, <2>5, RegularMatched
  <2>7. PICK p : Matches(p, Free, Row, Row) BY <2>6 DEF Matched
  <2>8. \A r \in Row : ~ tracker[r][p[r]]
    <3> SUFFICES ASSUME NEW r \in Row PROVE ~ tracker[r][p[r]] OBVIOUS
    <3>1. <<r, p[r]>> \in Free BY <2>7 DEF Matches
    <3> QED BY <3>1 DEF Free
  <2> QED BY <2>7, <2>8 DEF Matches
<1> QED BY <1>1, RectangleCorrect, PTL
=============================================================================
