-------------------------- MODULE GenerateCProofs --------------------------
(***************************************************************************)
(* The shape of C for every M, D, NORM1, NORM2 and Q: C1 has NORM1 entries *)
(* +1 or -1 in every row and every column, and C2 moves away from zero.    *)
(* The invariant extends the one of the index search by the set of         *)
(* positions already written, which the distinctness of a row's values     *)
(* makes a faithful picture of C1, and by the number of steps each row of  *)
(* C2 has taken, which bounds its entries below the point where the code   *)
(* would take a positive entry for a negative one.  With that bound every  *)
(* step adds one to the l1 norm of its row (NormInv), and as the steps     *)
(* stay in C2, C1 is as invertible as it was when it was tested.           *)
(***************************************************************************)
EXTENDS GenerateC, NumberTheorems

RectP == INSTANCE LatinRectangleProofs

Col == Upto(NORM1)

\* The sign loop has written the entry of row r at C1_index[r][x].
Written(r, x) == \/ Filled
                 \/ pc = "value" /\ (r < row \/ (r = row /\ x < k))

\* The number of steps row r of C2 has taken.
StepsTaken(r) == IF pc = "done" THEN NORM2
                 ELSE IF pc # "error" THEN 0
                 ELSE IF r < row THEN NORM2
                 ELSE IF r = row THEN k ELSE 0

CursorOK == /\ pc \in {"index", "test", "done"} => row = 0 /\ k = 0
            /\ pc = "value" => k < NORM1
            /\ pc = "error" => k < NORM2
            /\ pc # "index" => j = NORM1

Support == pc # "index" =>
             \A r \in Row, c \in C1Col :
               /\ C[r][c] # 0 <=> \E x \in Col : /\ Written(r, x)
                                                 /\ C1_index[r][x] = c
               /\ C[r][c] \in {0, 1, Q - 1}

\* An entry of C2 is within as many units of zero as its row took steps.
Bounded == pc # "index" =>
             \A r \in Row, c \in C2Col : Magnitude(C[r][c]) <= StepsTaken(r)

GenInv == /\ RectP!RectangleInv
          /\ TypeOK
          /\ CursorOK
          /\ Support
          /\ Bounded

-----------------------------------------------------------------------------
\* What the index search proves, in the terms of this module.
LEMMA RectFacts ==
  ASSUME RectP!RectangleInv
  PROVE  /\ C1_index \in [Row -> [Col -> Row]]
         /\ \A c \in Col, r \in Row : \E q \in Row : C1_index[q][c] = r
         /\ \A c \in Col : \A r, q \in Row : C1_index[r][c] = C1_index[q][c] => r = q
         /\ j = NORM1 => \A r \in Row : \A c, d \in Col :
                           C1_index[r][c] = C1_index[r][d] => c = d
<1>1. Row = RectP!Row /\ Col = RectP!Col
  BY DEF RectP!Row, RectP!Col, Row, Col, Upto
<1>2. j = NORM1 => \A r \in Row, c \in Col : RectP!Placed(r, c)
  BY WeightAssumption DEF RectP!Placed, Col, Upto
<1>3. C1_index \in [Row -> [Col -> Row]]
  BY <1>1 DEF RectP!RectangleInv, RectP!TypeOK
<1>4. \A c \in Col : /\ \A r \in Row : \E q \in Row : C1_index[q][c] = r
                     /\ \A r, q \in Row : C1_index[r][c] = C1_index[q][c] => r = q
  BY <1>1 DEF RectP!RectangleInv, RectP!ColumnsArePermutations
<1>5. j = NORM1 => \A r \in Row : \A c, d \in Col :
                     C1_index[r][c] = C1_index[r][d] => c = d
  BY <1>1, <1>2 DEF RectP!RectangleInv, RectP!RowsDistinct
<1> QED
  BY <1>3, <1>4, <1>5

\* A step of the index search preserves its invariant.
LEMMA RectStep ==
  ASSUME RectP!RectangleInv, [Rect!Next]_rectangle
  PROVE  RectP!RectangleInv'
<1>1. [Rect!Next]_rectangle <=> [RectP!Next]_(RectP!vars)
  BY DEF rectangle, RectP!vars, Rect!Next, RectP!Next, Rect!Draw, RectP!Draw,
         Rect!Retry, RectP!Retry, Rect!Place, RectP!Place,
         Rect!Conflict, RectP!Conflict, Rect!Drawn, RectP!Drawn,
         Rect!Swapped, RectP!Swapped, Rect!Advance, RectP!Advance,
         Rect!RolledBack, RectP!RolledBack, Rect!Identity, RectP!Identity,
         Rect!NoMarks, RectP!NoMarks, Rect!Row, RectP!Row, Rect!Col, RectP!Col
<1>2. RectP!ShapeAssumption
  BY WeightAssumption DEF RectP!ShapeAssumption
<1> QED
  BY <1>1, <1>2, RectP!RectangleStep

\* The start of generate_C_sk satisfies the invariant.
LEMMA GenInit == Init => GenInv
<1> SUFFICES ASSUME Init PROVE GenInv
  OBVIOUS
<1>1. RectP!ShapeAssumption
  BY WeightAssumption DEF RectP!ShapeAssumption
<1>2. RectP!Init
  BY DEF Init, Rect!Init, RectP!Init, Rect!Identity, RectP!Identity,
         Rect!NoMarks, RectP!NoMarks, Rect!Row, RectP!Row, Rect!Col, RectP!Col
<1>3. RectP!RectangleInv
  BY <1>1, <1>2, RectP!RectangleInit
<1>4. TypeOK /\ CursorOK /\ Support /\ Bounded
  BY WeightAssumption
     DEF Init, TypeOK, CursorOK, Support, Bounded, ZeroMatrix, Matrix, Row, Upto
<1> QED
  BY <1>3, <1>4 DEF GenInv

-----------------------------------------------------------------------------
\* The cursor stays in range, whatever loop moves it on.
LEMMA MoveOnType ==
  ASSUME TypeOK, NEW width \in Nat \ {0}, NEW after, k < width,
         MoveOn(width, after)
  PROVE  /\ row' \in Row /\ k' \in Nat /\ k' < width
         /\ \/ pc' = pc /\ row' = row /\ k' = k + 1 /\ k + 1 < width
            \/ pc' = pc /\ row' = row + 1 /\ k' = 0 /\ k + 1 = width
            \/ pc' = after /\ row' = 0 /\ k' = 0 /\ k + 1 = width /\ row + 1 = M
  BY WeightAssumption DEF MoveOn, TypeOK, Row, Upto

\* Drawing positions disturbs neither C nor the cursor.
LEMMA IndexDrawStep ==
  ASSUME GenInv, NEW s \in Row, IndexDraw(s)
  PROVE  GenInv'
<1>1. RectP!RectangleInv'
  <2>1. [Rect!Next]_rectangle
    BY DEF IndexDraw, Rect!Next, Rect!Row, Row, Upto
  <2> QED
    BY <2>1, RectStep DEF GenInv
<1>2. TypeOK' /\ CursorOK' /\ Support' /\ Bounded'
  BY DEF IndexDraw, GenInv, TypeOK, CursorOK, Support, Bounded
<1> QED
  BY <1>1, <1>2 DEF GenInv

\* Clearing C makes nothing written the truth.
LEMMA StartValuesStep ==
  ASSUME GenInv, StartValues
  PROVE  GenInv'
<1>1. RectP!RectangleInv'
  <2>1. UNCHANGED rectangle
    BY DEF StartValues, rectangle
  <2> QED
    BY <2>1, RectStep DEF GenInv
<1>2. /\ C' = ZeroMatrix(M, M + D) /\ pc' = "value" /\ row' = 0 /\ k' = 0
      /\ pc = "index" /\ j' = NORM1
  BY DEF StartValues, GenInv, CursorOK
<1>3. \A r \in Row, c \in Upto(M + D) : C'[r][c] = 0
  BY <1>2 DEF ZeroMatrix, Row
<1>4. TypeOK' /\ CursorOK'
  BY <1>2, WeightAssumption DEF TypeOK, CursorOK, ZeroMatrix, Matrix, Row, Upto
<1>5. Support'
  BY <1>2, <1>3, WeightAssumption
     DEF Support, Written, Filled, Row, Col, C1Col, Upto
<1>6. Bounded'
  <2>1. \A c \in C2Col : c \in Upto(M + D)
    BY WeightAssumption DEF C2Col, Upto
  <2>2. Magnitude(0) = 0
    BY WeightAssumption DEF Magnitude
  <2> QED
    BY <1>2, <1>3, <2>1, <2>2 DEF Bounded, StepsTaken
<1> QED
  BY <1>1, <1>4, <1>5, <1>6 DEF GenInv

\* Writing a sign adds its position to the written ones and touches no
\* other entry.
LEMMA ValueDrawStep ==
  ASSUME GenInv, NEW b \in {0, 1}, ValueDraw(b)
  PROVE  GenInv'
<1> DEFINE t == C1_index[row][k]
           v == Unit(b)
<1>1. /\ pc = "value" /\ j = NORM1 /\ k < NORM1 /\ k \in Col /\ row \in Row
      /\ UNCHANGED rectangle /\ C1_index' = C1_index /\ j' = j
      /\ TypeOK /\ MoveOn(NORM1, "test")
  <2>1. pc = "value" /\ j = NORM1 /\ k < NORM1 /\ k \in Nat /\ row \in Row
    BY DEF ValueDraw, GenInv, CursorOK, TypeOK
  <2>2. k \in Col
    BY <2>1, WeightAssumption DEF Col, Upto
  <2> QED
    BY <2>1, <2>2 DEF ValueDraw, GenInv, rectangle
<1>2. RectP!RectangleInv'
  BY <1>1, RectStep DEF GenInv
<1>3. /\ row' \in Row /\ k' \in Nat /\ k' < NORM1
      /\ \/ pc' = "value" /\ row' = row /\ k' = k + 1 /\ k + 1 < NORM1
         \/ pc' = "value" /\ row' = row + 1 /\ k' = 0 /\ k + 1 = NORM1
         \/ pc' = "test" /\ row' = 0 /\ k' = 0 /\ k + 1 = NORM1 /\ row + 1 = M
  BY <1>1, MoveOnType, WeightAssumption
<1>4. t \in Row /\ t \in C1Col /\ t \in Upto(M + D) /\ v \in {1, Q - 1}
  <2>1. t \in Row
    BY <1>1, RectFacts DEF GenInv
  <2> QED
    BY <2>1, WeightAssumption DEF Unit, Row, C1Col, Upto
<1>5. /\ C' \in Matrix(M, M + D)
      /\ \A r \in Row, c \in Upto(M + D) :
           C'[r][c] = IF r = row /\ c = t THEN v ELSE C[r][c]
  <2>1. C' = [C EXCEPT ![row][t] = v]
    BY DEF ValueDraw
  <2>2. v \in Upto(Q)
    BY <1>4, WeightAssumption DEF Upto
  <2> QED
    BY <1>1, <1>4, <2>1, <2>2 DEF TypeOK, Matrix, Row
<1>6. TypeOK' /\ CursorOK'
  BY <1>1, <1>3, <1>5 DEF TypeOK, CursorOK
<1>7. \A r \in Row, x \in Col :
        Written(r, x)' <=> Written(r, x) \/ (r = row /\ x = k)
  BY <1>1, <1>3, WeightAssumption DEF Written, Filled, TypeOK, Row, Col, Upto
<1>8. Support'
  <2> SUFFICES ASSUME NEW r \in Row, NEW c \in C1Col
               PROVE  /\ C'[r][c] # 0 <=> \E x \in Col : /\ Written(r, x)'
                                                         /\ C1_index'[r][x] = c
                      /\ C'[r][c] \in {0, 1, Q - 1}
    BY DEF Support
  <2>1. c \in Upto(M + D)
    BY WeightAssumption DEF C1Col, Upto
  <2>2. /\ C[r][c] # 0 <=> \E x \in Col : Written(r, x) /\ C1_index[r][x] = c
        /\ C[r][c] \in {0, 1, Q - 1}
    BY <1>1 DEF GenInv, Support
  <2>3. CASE r = row /\ c = t
    <3>1. C'[r][c] = v /\ v # 0
      BY <1>4, <1>5, <2>1, <2>3, WeightAssumption
    <3> QED
      BY <1>1, <1>4, <1>7, <2>3, <3>1
  <2>4. CASE ~ (r = row /\ c = t)
    <3>1. C'[r][c] = C[r][c]
      BY <1>5, <2>1, <2>4
    <3>2. \A x \in Col : C1_index[r][x] = c => (Written(r, x)' <=> Written(r, x))
      BY <1>7, <2>4
    <3> QED
      BY <1>1, <2>2, <3>1, <3>2
  <2> QED
    BY <2>3, <2>4
<1>9. Bounded'
  <2>1. \A r \in Row, c \in C2Col : C'[r][c] = C[r][c]
    BY <1>4, <1>5, WeightAssumption DEF C2Col, C1Col, Upto
  <2>2. \A r \in Row : StepsTaken(r) = 0 /\ StepsTaken(r)' = 0
    BY <1>1, <1>3 DEF StepsTaken
  <2> QED
    BY <1>1, <2>1, <2>2 DEF GenInv, Bounded
<1> QED
  BY <1>2, <1>6, <1>8, <1>9 DEF GenInv

\* The verdict on C1 changes no matrix.
LEMMA UntestedStep ==
  ASSUME GenInv, AcceptUntested
  PROVE  GenInv'
<1>1. RectP!RectangleInv'
  <2>1. UNCHANGED rectangle
    BY DEF AcceptUntested, rectangle
  <2> QED
    BY <2>1, RectStep DEF GenInv
<1>2. TypeOK' /\ CursorOK'
  BY WeightAssumption DEF AcceptUntested, GenInv, TypeOK, CursorOK
<1>3. Support'
  <2>1. \A r \in Row, x \in Col : Written(r, x) /\ Written(r, x)'
    BY DEF AcceptUntested, Written, Filled
  <2> QED
    BY <2>1 DEF AcceptUntested, GenInv, Support
<1>4. Bounded'
  <2>1. \A r \in Row : StepsTaken(r) = 0 /\ StepsTaken(r)' = 0
    BY WeightAssumption DEF AcceptUntested, StepsTaken, GenInv, CursorOK, Row, Upto
  <2> QED
    BY <2>1 DEF AcceptUntested, GenInv, Bounded
<1> QED
  BY <1>1, <1>2, <1>3, <1>4 DEF GenInv

\* A new search begins, whatever the test was.
LEMMA RestartStep ==
  ASSUME GenInv, Rect!Retry, pc' = "index", UNCHANGED <<C, row, k>>, pc = "test"
  PROVE  GenInv'
<1>1. RectP!RectangleInv'
  <2>1. [Rect!Next]_rectangle
    BY DEF Rect!Next
  <2> QED
    BY <2>1, RectStep DEF GenInv
<1>2. TypeOK' /\ CursorOK' /\ Support' /\ Bounded'
  BY DEF GenInv, TypeOK, CursorOK, Support, Bounded
<1> QED
  BY <1>1, <1>2 DEF GenInv

\* So does what follows the test of C1, whatever its outcome.
LEMMA TestStep ==
  ASSUME GenInv, Accept \/ Retry
  PROVE  GenInv'
<1>1. CASE Accept
  <2>1. AcceptUntested
    BY <1>1 DEF Accept, AcceptUntested, rectangle
  <2> QED BY <2>1, UntestedStep
<1>2. CASE Retry
  BY <1>2, RestartStep DEF Retry
<1> QED
  BY <1>1, <1>2

\* A step of C2 moves an entry one unit away from zero: an entry below
\* NORM2 steps is below the half of the modulus, so the comparison sees its
\* sign.
LEMMA SteppedAway ==
  ASSUME NEW v \in Upto(Q), NEW b \in {0, 1}, Magnitude(v) < NORM2
  PROVE  /\ Stepped(v, b) \in Upto(Q)
         /\ Magnitude(Stepped(v, b)) = Magnitude(v) + 1
         /\ v # 0 => Centered(Stepped(v, b)) * Centered(v) > 0
<1>1. /\ Q \in Nat /\ NORM2 \in Nat /\ 2 * NORM2 < Q /\ 2 < Q /\ Q <= 256
      /\ v \in 0 .. Q - 1 /\ Q \div 2 \in Nat
      /\ 2 * (Q \div 2) <= Q /\ Q <= 2 * (Q \div 2) + 1
  BY WeightAssumption DEF Upto
<1>2. CASE v = 0
  BY <1>1, <1>2 DEF Stepped, Unit, Magnitude, Upto
<1>3. CASE v # 0 /\ v <= Q \div 2
  <2>1. v < NORM2
    BY <1>3 DEF Magnitude
  <2>2. Stepped(v, b) = v + 1
    BY <1>1, <1>3, <2>1 DEF Stepped
  <2>3. v + 1 <= Q \div 2
    BY <1>1, <2>1
  <2>4. \A x, y \in Nat : x > 0 /\ y > 0 => x * y > 0
    BY SMT
  <2> QED
    BY <1>1, <1>3, <2>2, <2>3, <2>4 DEF Magnitude, Centered, Upto
<1>4. CASE v # 0 /\ v > Q \div 2
  <2>1. Q - v < NORM2
    BY <1>1, <1>4 DEF Magnitude
  <2>2. Stepped(v, b) = v - 1 /\ v - 1 > Q \div 2
    BY <1>1, <1>4, <2>1 DEF Stepped
  <2>3. \A x, y \in Int : x < 0 /\ y < 0 => x * y > 0
    BY SMT
  <2> QED
    BY <1>1, <1>4, <2>2, <2>3 DEF Magnitude, Centered, Upto
<1> QED
  BY <1>1, <1>2, <1>3, <1>4

\* The entry a step of C2 draws is replaced by its Stepped value, the row
\* having taken k steps before; every other entry stays.
LEMMA ErrorDrawEntry ==
  ASSUME GenInv, NEW d \in C2Col, NEW b \in {0, 1}, ErrorDraw(d, b)
  PROVE  /\ pc = "error" /\ k < NORM2 /\ k \in Nat /\ row \in Row
         /\ d \in Upto(M + D) /\ d \notin C1Col
         /\ C[row][d] \in Upto(Q) /\ Magnitude(C[row][d]) \in Nat
         /\ Magnitude(C[row][d]) <= k /\ Magnitude(C[row][d]) < NORM2
         /\ Stepped(C[row][d], b) \in Upto(Q)
         /\ C' \in Matrix(M, M + D)
         /\ \A r \in Row, c \in Upto(M + D) :
              C'[r][c] = IF r = row /\ c = d THEN Stepped(C[row][d], b) ELSE C[r][c]
<1>1. pc = "error" /\ k < NORM2 /\ k \in Nat /\ row \in Row
  BY DEF ErrorDraw, GenInv, CursorOK, TypeOK
<1>2. d \in Upto(M + D) /\ d \notin C1Col
  BY WeightAssumption DEF C2Col, C1Col, Upto
<1>3. C[row][d] \in Upto(Q)
  BY <1>1, <1>2 DEF GenInv, TypeOK, Matrix, Row
<1>4. Magnitude(C[row][d]) \in Nat
  BY <1>3, WeightAssumption DEF Magnitude, Upto
<1>5. Magnitude(C[row][d]) <= k
  BY <1>1 DEF GenInv, Bounded, StepsTaken, Row, Upto
<1>6. Magnitude(C[row][d]) < NORM2
  BY <1>1, <1>4, <1>5, WeightAssumption
<1>7. Stepped(C[row][d], b) \in Upto(Q)
  BY <1>3, <1>6, SteppedAway
<1>8. C' = [C EXCEPT ![row][d] = Stepped(C[row][d], b)]
  BY <1>1, <1>2 DEF ErrorDraw, GenInv, TypeOK, Matrix, Row
<1>9. /\ C' \in Matrix(M, M + D)
      /\ \A r \in Row, c \in Upto(M + D) :
           C'[r][c] = IF r = row /\ c = d THEN Stepped(C[row][d], b) ELSE C[r][c]
  BY <1>1, <1>2, <1>7, <1>8 DEF GenInv, TypeOK, Matrix, Row
<1> QED
  BY <1>1, <1>2, <1>3, <1>4, <1>5, <1>6, <1>7, <1>9

\* A step of C2 stays inside C2 and within the steps its row has taken.
LEMMA ErrorDrawStep ==
  ASSUME GenInv, NEW d \in C2Col, NEW b \in {0, 1}, ErrorDraw(d, b)
  PROVE  GenInv'
<1> DEFINE v == Stepped(C[row][d], b)
<1>1. /\ pc = "error" /\ k < NORM2 /\ row \in Row /\ TypeOK
      /\ d \in Upto(M + D) /\ d \notin C1Col
      /\ UNCHANGED rectangle /\ C1_index' = C1_index /\ j' = j
      /\ MoveOn(NORM2, "done")
  BY ErrorDrawEntry DEF ErrorDraw, GenInv, rectangle
<1>2. RectP!RectangleInv'
  BY <1>1, RectStep DEF GenInv
<1>3. /\ row' \in Row /\ k' \in Nat /\ k' < NORM2
      /\ \/ pc' = "error" /\ row' = row /\ k' = k + 1 /\ k + 1 < NORM2
         \/ pc' = "error" /\ row' = row + 1 /\ k' = 0 /\ k + 1 = NORM2
         \/ pc' = "done" /\ row' = 0 /\ k' = 0 /\ k + 1 = NORM2 /\ row + 1 = M
  BY <1>1, MoveOnType, WeightAssumption
<1>4. \A r \in Row : StepsTaken(r)' = IF r = row THEN k + 1 ELSE StepsTaken(r)
  BY <1>1, <1>3, WeightAssumption DEF StepsTaken, TypeOK, Row, Upto
<1>5. /\ C[row][d] \in Upto(Q) /\ Magnitude(C[row][d]) <= k
      /\ v \in Upto(Q) /\ Magnitude(v) = Magnitude(C[row][d]) + 1
  BY ErrorDrawEntry, SteppedAway
<1>6. /\ C' \in Matrix(M, M + D)
      /\ \A r \in Row, c \in Upto(M + D) :
           C'[r][c] = IF r = row /\ c = d THEN v ELSE C[r][c]
  BY ErrorDrawEntry
<1>7. TypeOK' /\ CursorOK'
  BY <1>1, <1>3, <1>6 DEF TypeOK, CursorOK, GenInv
<1>8. Support'
  <2>1. \A r \in Row, x \in Col : Written(r, x) /\ Written(r, x)'
    BY <1>1, <1>3 DEF Written, Filled
  <2>2. \A r \in Row, c \in C1Col : C'[r][c] = C[r][c]
    BY <1>1, <1>6, WeightAssumption DEF C1Col, Upto
  <2> QED
    BY <1>1, <2>1, <2>2 DEF GenInv, Support
<1>9. Bounded'
  <2> SUFFICES ASSUME NEW r \in Row, NEW c \in C2Col
               PROVE  Magnitude(C'[r][c]) <= StepsTaken(r)'
    BY DEF Bounded, Magnitude
  <2>1. c \in Upto(M + D) /\ Magnitude(C[r][c]) <= StepsTaken(r)
    BY <1>1, WeightAssumption DEF GenInv, Bounded, C2Col, Upto
  <2>2. CASE r = row /\ c = d
    <3>1. Magnitude(C[row][d]) \in Int
      BY <1>5, WeightAssumption DEF Magnitude, Upto
    <3> QED
      BY <1>1, <1>4, <1>5, <1>6, <2>1, <2>2, <3>1 DEF TypeOK
  <2>3. CASE r = row /\ c # d
    <3>1. StepsTaken(row) = k
      BY <1>1 DEF StepsTaken, Row, Upto
    <3>2. Magnitude(C[r][c]) \in Int
      <4>1. C[r][c] \in Upto(Q)
        BY <1>1, <2>1 DEF TypeOK, Matrix, Row
      <4> QED
        BY <4>1, WeightAssumption DEF Magnitude, Upto
    <3> QED
      BY <1>1, <1>4, <1>6, <2>1, <2>3, <3>1, <3>2 DEF TypeOK
  <2>4. CASE r # row
    BY <1>4, <1>6, <2>1, <2>4
  <2> QED
    BY <2>2, <2>3, <2>4
<1> QED
  BY <1>2, <1>7, <1>8, <1>9 DEF GenInv

\* Every step of the generation preserves the invariant.
LEMMA GenStep == GenInv /\ [Next]_vars => GenInv'
<1> SUFFICES ASSUME GenInv, [Next]_vars PROVE GenInv'
  OBVIOUS
<1>1. CASE UNCHANGED vars
  <2>1. RectP!RectangleInv'
    <3>1. UNCHANGED rectangle
      BY <1>1 DEF vars, rectangle
    <3> QED
      BY <3>1, RectStep DEF GenInv
  <2>2. TypeOK' /\ CursorOK' /\ Support' /\ Bounded'
    BY <1>1 DEF vars, GenInv, TypeOK, CursorOK, Support, Written, Filled,
                Bounded, StepsTaken
  <2> QED
    BY <2>1, <2>2 DEF GenInv
<1> QED
  BY <1>1, IndexDrawStep, StartValuesStep, ValueDrawStep, TestStep, ErrorDrawStep
     DEF Next

-----------------------------------------------------------------------------
\* The generation keeps its invariant, type correctness included.
THEOREM GenerationCorrect == Spec => []GenInv
  BY GenInit, GenStep, PTL DEF Spec

\* The two Cardinality claims of SparseC1, from bijections with Col.
LEMMA SparseFromInv == GenInv => SparseC1
<1> SUFFICES ASSUME GenInv, Filled, NEW r \in Row
             PROVE  /\ Cardinality({c \in C1Col : C[r][c] # 0}) = NORM1
                    /\ Cardinality({q \in Row : C[q][r] # 0}) = NORM1
                    /\ \A c \in C1Col : C[r][c] \in {0, 1, Q - 1}
  BY DEF SparseC1
<1>1. /\ C1_index \in [Row -> [Col -> Row]]
      /\ \A c \in Col, s \in Row : \E q \in Row : C1_index[q][c] = s
      /\ \A c \in Col : \A s, q \in Row : C1_index[s][c] = C1_index[q][c] => s = q
      /\ \A s \in Row : \A c, d \in Col : C1_index[s][c] = C1_index[s][d] => c = d
  <2>1. j = NORM1
    BY DEF GenInv, CursorOK, Filled
  <2> QED
    BY <2>1, RectFacts DEF GenInv
<1>2. \A s \in Row, c \in C1Col :
        /\ C[s][c] # 0 <=> \E x \in Col : C1_index[s][x] = c
        /\ C[s][c] \in {0, 1, Q - 1}
  BY DEF GenInv, Support, Written, Filled
<1>3. Row = C1Col
  BY DEF Row, C1Col
<1>4. IsFiniteSet(Col) /\ Cardinality(Col) = NORM1
  BY FS_Interval, WeightAssumption DEF Col, Upto
<1>5. Cardinality({c \in C1Col : C[r][c] # 0}) = NORM1
  <2> DEFINE T == {c \in C1Col : C[r][c] # 0}
             f == [x \in Col |-> C1_index[r][x]]
  <2>1. f \in Bijection(Col, T)
    <3>1. f \in [Col -> T]
      BY <1>1, <1>2, <1>3
    <3>2. \A x, y \in Col : f[x] = f[y] => x = y
      BY <1>1
    <3>3. \A c \in T : \E x \in Col : f[x] = c
      BY <1>2, <1>3
    <3> QED
      BY <3>1, <3>2, <3>3 DEF Bijection, Injection, Surjection, IsInjective
  <2> QED
    BY <1>4, <2>1, FS_Bijection DEF ExistsBijection
<1>6. Cardinality({q \in Row : C[q][r] # 0}) = NORM1
  <2> DEFINE T == {q \in Row : C[q][r] # 0}
             f == [x \in Col |-> CHOOSE q \in Row : C1_index[q][x] = r]
  <2>1. \A x \in Col : f[x] \in Row /\ C1_index[f[x]][x] = r
    BY <1>1
  <2>2. f \in Bijection(Col, T)
    <3>1. f \in [Col -> T]
      BY <1>2, <1>3, <2>1
    <3>2. \A x, y \in Col : f[x] = f[y] => x = y
      <4> HIDE DEF f
      <4> SUFFICES ASSUME NEW x \in Col, NEW y \in Col, f[x] = f[y] PROVE x = y
        OBVIOUS
      <4>1. f[x] \in Row /\ C1_index[f[x]][x] = C1_index[f[x]][y]
        BY <2>1
      <4>2. \A s \in Row : \A c, d \in Col :
              C1_index[s][c] = C1_index[s][d] => c = d
        BY <1>1
      <4> QED
        BY <4>1, <4>2
    <3>3. \A q \in T : \E x \in Col : f[x] = q
      BY <1>1, <1>2, <1>3, <2>1
    <3> QED
      BY <3>1, <3>2, <3>3 DEF Bijection, Injection, Surjection, IsInjective
  <2> QED
    BY <1>4, <2>2, FS_Bijection DEF ExistsBijection
<1> QED
  BY <1>2, <1>5, <1>6

\* Every row and every column of C1 has exactly NORM1 nonzero entries, for
\* every size of the matrix and however often the search starts over.
THEOREM SparseTheorem == Spec => []SparseC1
  BY SparseFromInv, GenerationCorrect, PTL

\* No step takes an entry of C2 back towards zero.
THEOREM NeverBackTheorem == Spec => NeverBack
<1> DEFINE Away == pc = "error" => \A r \in Row, c \in C2Col :
             C[r][c] # 0 => /\ Magnitude(C'[r][c]) >= Magnitude(C[r][c])
                            /\ Centered(C'[r][c]) * Centered(C[r][c]) > 0
<1>1. ASSUME GenInv, [Next]_vars, pc = "error", ~ UNCHANGED vars,
             NEW r \in Row, NEW c \in C2Col, C[r][c] # 0
      PROVE  /\ Magnitude(C'[r][c]) >= Magnitude(C[r][c])
             /\ Centered(C'[r][c]) * Centered(C[r][c]) > 0
  <2>1. PICK d \in C2Col, b \in {0, 1} : ErrorDraw(d, b)
    BY <1>1 DEF Next, IndexDraw, StartValues, ValueDraw, Accept, Retry
  <2>2. c \in Upto(M + D) /\ C[r][c] \in Upto(Q)
    BY <1>1, WeightAssumption DEF C2Col, GenInv, TypeOK, Matrix, Row, Upto
  <2>3. CASE r = row /\ c = d
    <3>1. /\ C'[r][c] = Stepped(C[row][d], b) /\ Magnitude(C[row][d]) \in Nat
          /\ C[row][d] \in Upto(Q) /\ Magnitude(C[row][d]) < NORM2
      BY <1>1, <2>1, <2>2, <2>3, ErrorDrawEntry
    <3> QED
      BY <1>1, <2>3, <3>1, SteppedAway
  <2>4. CASE ~ (r = row /\ c = d)
    <3>1. C'[r][c] = C[r][c]
      BY <1>1, <2>1, <2>2, <2>4, ErrorDrawEntry
    <3>2. Magnitude(C[r][c]) \in Int /\ Centered(C[r][c]) \in Int \ {0}
      BY <1>1, <2>2, WeightAssumption DEF Magnitude, Centered, Upto
    <3>3. \A x \in Int \ {0} : x * x > 0
      BY SMT
    <3> QED
      BY <3>1, <3>2, <3>3
  <2> QED
    BY <2>3, <2>4
<1>2. ASSUME GenInv, [Next]_vars PROVE [Away]_vars
  BY <1>1, <1>2
<1> QED
  BY <1>2, GenerationCorrect, PTL DEF Spec, NeverBack

-----------------------------------------------------------------------------
\* The variables of the generator keep their types.
THEOREM GenTypeTheorem == Spec => []TypeOK
<1>1. GenInv => TypeOK BY DEF GenInv
<1> QED BY <1>1, GenerationCorrect, PTL

\* The norm of row r of a matrix A on the columns S, as a sum.
Magnitudes(A, r, S) == [c \in S |-> Magnitude(A[r][c])]
NormOf(A, r, S) == SumFunctionOnSet(Magnitudes(A, r, S), S)

\* The norm of the model is the sum the lemmas are about.
LEMMA NormIsSum == \A r, S : Norm(r, S) = NormOf(C, r, S)
  BY SumIs DEF Norm, NormOf, Magnitudes

\* The columns of C are those of C1 and those of C2.
LEMMA ColumnsFinite ==
  /\ IsFiniteSet(C1Col) /\ IsFiniteSet(C2Col) /\ C1Col \cap C2Col = {}
  /\ Upto(M + D) = C1Col \cup C2Col
<1>1. IsFiniteSet(C1Col) /\ IsFiniteSet(C2Col)
  BY FS_Interval, WeightAssumption DEF C1Col, C2Col, Upto
<1>2. C1Col \cap C2Col = {} /\ Upto(M + D) = C1Col \cup C2Col
  BY WeightAssumption DEF C1Col, C2Col, Upto
<1> QED BY <1>1, <1>2

\* The terms of a norm are numbers.
LEMMA NormTerms ==
  ASSUME NEW A \in Matrix(M, M + D), NEW r \in Row, NEW S \in SUBSET Upto(M + D)
  PROVE  \A c \in S : Magnitudes(A, r, S)[c] \in Int
<1>1. \A c \in S : A[r][c] \in Upto(Q) BY DEF Matrix, Row
<1> QED BY <1>1, WeightAssumption DEF Magnitudes, Magnitude, Upto

\* A step of C2 adds one to the norm of its row.
LEMMA NormGrows ==
  ASSUME GenInv, NEW d \in C2Col, NEW b \in {0, 1}, ErrorDraw(d, b)
  PROVE  \A r \in Row : NormOf(C', r, C2Col)
                          = NormOf(C, r, C2Col) + IF r = row THEN 1 ELSE 0
<1>1. /\ row \in Row /\ C[row][d] \in Upto(Q) /\ Magnitude(C[row][d]) < NORM2
      /\ C' \in Matrix(M, M + D)
      /\ \A r \in Row, c \in Upto(M + D) :
           C'[r][c] = IF r = row /\ c = d THEN Stepped(C[row][d], b) ELSE C[r][c]
  BY ErrorDrawEntry
<1>2. C2Col \in SUBSET Upto(M + D) /\ C \in Matrix(M, M + D)
  BY ColumnsFinite DEF GenInv, TypeOK
<1> SUFFICES ASSUME NEW r \in Row
             PROVE  NormOf(C', r, C2Col)
                      = NormOf(C, r, C2Col) + IF r = row THEN 1 ELSE 0
  OBVIOUS
<1> DEFINE f == Magnitudes(C, r, C2Col)
           g == Magnitudes(C', r, C2Col)
           R == C2Col \ {d}
<1>3. IsFiniteSet(C2Col) /\ IsFiniteSet(R)
  BY ColumnsFinite, FS_Subset
<1>4. \A c \in C2Col : f[c] \in Int /\ g[c] \in Int
  BY <1>1, <1>2, NormTerms
<1>5. g[d] = f[d] + IF r = row THEN 1 ELSE 0
  BY <1>1, <1>2, <1>4, SteppedAway DEF Magnitudes
<1>6. \A c \in R : f[c] \in Int /\ g[c] = f[c]
  BY <1>1, <1>2, <1>4 DEF Magnitudes
<1> HIDE DEF f, g
<1>7. SumFunctionOnSet(f, R) = SumFunctionOnSet(g, R) BY <1>3, <1>6, SumEqual
<1>8. SumFunctionOnSet(f, C2Col) = f[d] + SumFunctionOnSet(f, R)
  BY <1>3, <1>4, SumTake
<1>9. SumFunctionOnSet(g, C2Col) = g[d] + SumFunctionOnSet(g, R)
  BY <1>3, <1>4, SumTake
<1>10. f[d] \in Int /\ SumFunctionOnSet(f, R) \in Int
  BY <1>3, <1>4, <1>6, SumInt
<1>11. SumFunctionOnSet(g, C2Col)
         = SumFunctionOnSet(f, C2Col) + IF r = row THEN 1 ELSE 0
  BY <1>5, <1>7, <1>8, <1>9, <1>10
<1> QED BY <1>11 DEF f, g, NormOf

\* A row of C2 has as large a norm as it has taken steps.
NormInv == pc # "index" => \A r \in Row : NormOf(C, r, C2Col) = StepsTaken(r)

\* Every step keeps the norms: of C1 as its signs are set, of C2 as its steps
\* are made.
LEMMA NormStep == GenInv /\ NormInv /\ [Next]_vars => NormInv'
<1> SUFFICES ASSUME GenInv, NormInv, [Next]_vars PROVE NormInv'
  OBVIOUS
<1>1. ASSUME NEW s \in Row, IndexDraw(s) PROVE NormInv'
  BY <1>1 DEF IndexDraw, NormInv
<1>2. ASSUME StartValues PROVE NormInv'
  <2> SUFFICES ASSUME NEW r \in Row
               PROVE  NormOf(C', r, C2Col) = 0 /\ StepsTaken(r)' = 0
    BY DEF NormInv, NormOf, Magnitudes, Magnitude
  <2>1. \A c \in C2Col : Magnitudes(C', r, C2Col)[c] = 0
    BY <1>2, ColumnsFinite, WeightAssumption
       DEF StartValues, ZeroMatrix, Magnitudes, Magnitude, Row
  <2>2. NormOf(C', r, C2Col) = 0
    BY <2>1, ColumnsFinite, SumZeros DEF NormOf
  <2> QED BY <1>2, <2>2 DEF StartValues, StepsTaken
<1>3. ASSUME NEW b \in {0, 1}, ValueDraw(b) PROVE NormInv'
  <2>1. /\ row \in Row /\ C1_index[row][k] \in C1Col
        /\ pc = "value" /\ pc' \in {"value", "test"}
        /\ C' = [C EXCEPT ![row][C1_index[row][k]] = Unit(b)]
    <3>1. k \in Col /\ row \in Row
      BY <1>3, WeightAssumption DEF ValueDraw, GenInv, CursorOK, TypeOK, Col, Upto
    <3>2. C1_index \in [Row -> [Col -> Row]]
      BY RectFacts DEF GenInv
    <3> QED BY <1>3, <3>1, <3>2 DEF ValueDraw, MoveOn, Row, C1Col
  <2>2. \A r \in Row, c \in C2Col : C'[r][c] = C[r][c]
    BY <2>1, ColumnsFinite DEF GenInv, TypeOK, Matrix, Row
  <2>3. \A r \in Row : Magnitudes(C', r, C2Col) = Magnitudes(C, r, C2Col)
    BY <2>2 DEF Magnitudes
  <2>4. \A r \in Row : StepsTaken(r) = 0 /\ StepsTaken(r)' = 0
    BY <2>1 DEF StepsTaken
  <2> QED BY <2>1, <2>3, <2>4 DEF NormInv, NormOf
<1>4. ASSUME Accept PROVE NormInv'
  <2>1. \A r \in Row : StepsTaken(r) = 0 /\ StepsTaken(r)' = 0
    BY <1>4, WeightAssumption DEF Accept, StepsTaken, GenInv, CursorOK, Row, Upto
  <2> QED BY <1>4, <2>1 DEF Accept, NormInv
<1>5. ASSUME Retry PROVE NormInv'
  BY <1>5 DEF Retry, NormInv
<1>6. ASSUME NEW d \in C2Col, NEW b \in {0, 1}, ErrorDraw(d, b) PROVE NormInv'
  <2>1. /\ pc = "error" /\ k < NORM2 /\ k \in Nat /\ row \in Row /\ TypeOK
        /\ MoveOn(NORM2, "done")
    BY <1>6, ErrorDrawEntry DEF ErrorDraw, GenInv
  <2>2. /\ row' \in Row /\ k' \in Nat /\ k' < NORM2
        /\ \/ pc' = "error" /\ row' = row /\ k' = k + 1 /\ k + 1 < NORM2
           \/ pc' = "error" /\ row' = row + 1 /\ k' = 0 /\ k + 1 = NORM2
           \/ pc' = "done" /\ row' = 0 /\ k' = 0 /\ k + 1 = NORM2 /\ row + 1 = M
    BY <2>1, MoveOnType, WeightAssumption
  <2>3. \A r \in Row : StepsTaken(r)' = StepsTaken(r) + IF r = row THEN 1 ELSE 0
    BY <2>1, <2>2, WeightAssumption DEF StepsTaken, TypeOK, Row, Upto
  <2> QED BY <1>6, <2>1, <2>3, NormGrows DEF NormInv
<1>7. CASE UNCHANGED vars
  BY <1>7 DEF vars, NormInv, StepsTaken
<1> QED
  BY <1>1, <1>2, <1>3, <1>4, <1>5, <1>6, <1>7 DEF Next

\* When C is finished every row has had its signs and all of its steps.
LEMMA RowNormFromInv == GenInv /\ NormInv => RowNorm
<1> SUFFICES ASSUME GenInv, NormInv PROVE RowNorm
  OBVIOUS
<1>1. ASSUME pc = "error", NEW r \in Row
      PROVE  Norm(r, C2Col) = IF r < row THEN NORM2 ELSE IF r = row THEN k ELSE 0
  BY <1>1, NormIsSum DEF NormInv, StepsTaken
<1>2. ASSUME pc = "done", NEW r \in Row
      PROVE  Norm(r, Upto(M + D)) = NORM1 + NORM2
  <2> DEFINE f == Magnitudes(C, r, Upto(M + D))
             U == {c \in C1Col : C[r][c] # 0}
  <2>1. \A c \in Upto(M + D) : f[c] \in Int
    BY NormTerms DEF GenInv, TypeOK
  <2>2. Cardinality(U) = NORM1
    BY <1>2, SparseFromInv DEF SparseC1, Filled
  <2>3. SumFunctionOnSet(f, C1Col) = NORM1
    <3>1. \A c \in C1Col : C[r][c] \in {0, 1, Q - 1}
      BY <1>2, SparseFromInv DEF SparseC1, Filled
    <3>2. \A c \in C1Col : f[c] = IF c \in U THEN 1 ELSE 0
      BY <3>1, ColumnsFinite, WeightAssumption DEF Magnitudes, Magnitude
    <3> HIDE DEF f
    <3> QED BY <2>2, <3>2, ColumnsFinite, SumOnes
  <2>4. SumFunctionOnSet(f, C2Col) = NORM2
    <3>1. NormOf(C, r, C2Col) = NORM2
      BY <1>2 DEF NormInv, StepsTaken
    <3> DEFINE g == Magnitudes(C, r, C2Col)
    <3>2. \A c \in C2Col : f[c] \in Int /\ g[c] = f[c]
      BY <2>1, ColumnsFinite DEF Magnitudes
    <3> HIDE DEF f, g
    <3>3. SumFunctionOnSet(f, C2Col) = SumFunctionOnSet(g, C2Col)
      BY <3>2, ColumnsFinite, SumEqual
    <3> QED BY <3>1, <3>3 DEF g, NormOf
  <2> HIDE DEF f
  <2>5. SumFunctionOnSet(f, Upto(M + D))
          = SumFunctionOnSet(f, C1Col) + SumFunctionOnSet(f, C2Col)
    BY <2>1, ColumnsFinite, SumUnion
  <2> QED BY <2>3, <2>4, <2>5, NormIsSum DEF f, NormOf
<1> QED BY <1>1, <1>2 DEF RowNorm

\* Every row of C ends with the l1 norm NORM1 + NORM2, and while C2 is filled
\* a row has the norm of its steps: none of them is taken back.
THEOREM RowNormTheorem == Spec => []RowNorm
<1>1. Init => NormInv BY DEF Init, NormInv
<1>2. Spec => []NormInv
  BY <1>1, NormStep, GenerationCorrect, PTL DEF Spec
<1> QED BY <1>2, RowNormFromInv, GenerationCorrect, PTL

-----------------------------------------------------------------------------
\* A minor depends on its own rows and columns only.
LEMMA MinorLocal ==
  ASSUME NEW A, NEW B, NEW I, \A r, c \in I : A[r][c] = B[r][c]
  PROVE  Minor(A, I) = Minor(B, I)
BY LeibnizSame DEF Minor

\* No step after the test changes a column of C1.
LEMMA InvertibleStep == GenInv /\ InvertibleKept /\ [Next]_vars => InvertibleKept'
<1> SUFFICES ASSUME GenInv, InvertibleKept, [Next]_vars, pc' \in {"error", "done"}
             PROVE  Determinant(M, C') # 0
  BY DEF InvertibleKept, Invertible
<1>1. ASSUME Accept PROVE Determinant(M, C') # 0
  BY <1>1 DEF Accept, Invertible
<1>2. ASSUME NEW d \in C2Col, NEW b \in {0, 1}, ErrorDraw(d, b)
      PROVE  Determinant(M, C') # 0
  <2>1. \A r \in Row, c \in Upto(M + D) :
          c # d => C'[r][c] = C[r][c]
    BY <1>2, ErrorDrawEntry
  <2>2. \A r, c \in Upto(M) : C'[r][c] = C[r][c]
    BY <2>1, ColumnsFinite DEF Row, C1Col
  <2>3. Minor(C', Upto(M)) = Minor(C, Upto(M))
    BY <2>2, MinorLocal
  <2> QED BY <1>2, <2>3 DEF ErrorDraw, InvertibleKept, Invertible, Determinant
<1>3. CASE UNCHANGED vars
  BY <1>3 DEF vars, InvertibleKept, Invertible
<1>4. ASSUME NEW s \in Row, IndexDraw(s) PROVE FALSE
  BY <1>4 DEF IndexDraw
<1>5. ASSUME StartValues PROVE FALSE
  BY <1>5 DEF StartValues
<1>6. ASSUME NEW b \in {0, 1}, ValueDraw(b) PROVE FALSE
  BY <1>6 DEF ValueDraw, MoveOn
<1>7. ASSUME Retry PROVE FALSE
  BY <1>7 DEF Retry
<1> QED
  BY <1>1, <1>2, <1>3, <1>4, <1>5, <1>6, <1>7 DEF Next

\* A C1 that passed the test stays invertible: no step of C2 reaches it.
THEOREM InvertibleTheorem == Spec => []InvertibleKept
<1>1. Init => InvertibleKept BY DEF Init, InvertibleKept
<1> QED BY <1>1, InvertibleStep, GenerationCorrect, PTL DEF Spec
=============================================================================
