----------------------------- MODULE Ehtv3Proofs -----------------------------
(***************************************************************************)
(* The scheme for every dimension, modulus and random stream.  The algebra *)
(* comes first: sums of products modulo Q, the inverses of the triangular  *)
(* factors, solve_z and solve_a.  Then come the values that a seed         *)
(* determines: each matrix is a function of the seed and of the number of  *)
(* draws made before it, and generate_C, which rejects and starts over,    *)
(* passes through the same states whenever it starts from the same seed.   *)
(* SchemeInv collects what follows about keys and signatures; the theorems *)
(* are read off it.  One thing is a hypothesis and not an assumption of    *)
(* the model: RandWords, that the generator returns numbers.  solve_a      *)
(* needs the theorem of Cayley and Hamilton, proved in NumberTheorems.     *)
(***************************************************************************)
EXTENDS Ehtv3, NumberTheorems

-----------------------------------------------------------------------------
(* Sums of products modulo Q *)

\* The modulus is at least 3.
LEMMA Modulus == Q \in Nat /\ Q > 0 /\ Q > 2
BY SchemeAssumption

Terms(n, u, v) == [s \in Upto(n) |-> u[s] * v[s]]

IntVector(n, u) == \A s \in Upto(n) : u[s] \in Int

IntMatrix(m, n, A) == \A r \in Upto(m) : IntVector(n, A[r])

Column(l, B, c) == [s \in Upto(l) |-> B[s][c]]

\* Index sets are finite.
LEMMA UptoIs == ASSUME NEW n \in Nat PROVE IsFiniteSet(Upto(n))
<1>1. IsFiniteSet(0 .. n - 1) BY UptoFinite
<1> QED BY <1>1 DEF Upto

\* A dot product as a sum over a set.
LEMMA DotIs == \A n, u, v : Dot(n, u, v) = SumFunctionOnSet(Terms(n, u, v), Upto(n))
BY SumIs DEF Dot, Terms

\* Its terms are integers.
LEMMA TermsInt ==
  ASSUME NEW n \in Nat, NEW u, NEW v, IntVector(n, u), IntVector(n, v)
  PROVE  \A s \in Upto(n) : Terms(n, u, v)[s] \in Int
BY DEF Terms, IntVector

\* It is an integer.
LEMMA DotInt ==
  ASSUME NEW n \in Nat, NEW u, NEW v, IntVector(n, u), IntVector(n, v)
  PROVE  Dot(n, u, v) \in Int
<1>1. \A s \in Upto(n) : Terms(n, u, v)[s] \in Int BY TermsInt
<1>2. IsFiniteSet(Upto(n)) BY UptoIs
<1>3. SumFunctionOnSet(Terms(n, u, v), Upto(n)) \in Int BY <1>1, <1>2, SumInt
<1> QED BY <1>3, DotIs

\* Congruent factors have congruent sums of products.
LEMMA DotCongruent ==
  ASSUME NEW n \in Nat, NEW u, NEW v, NEW w, NEW t,
         IntVector(n, u), IntVector(n, v), IntVector(n, w), IntVector(n, t),
         \A s \in Upto(n) : Congruent(Q, u[s], w[s]) /\ Congruent(Q, v[s], t[s])
  PROVE  Congruent(Q, Dot(n, u, v), Dot(n, w, t))
<1> DEFINE f == Terms(n, u, v)
           g == Terms(n, w, t)
<1>1. IsFiniteSet(Upto(n)) BY UptoIs
<1>2. \A s \in Upto(n) : f[s] \in Int /\ g[s] \in Int BY TermsInt
<1>3. ASSUME NEW s \in Upto(n) PROVE Congruent(Q, f[s], g[s])
  <2>1. u[s] \in Int /\ v[s] \in Int /\ w[s] \in Int /\ t[s] \in Int BY DEF IntVector
  <2>2. Congruent(Q, u[s], w[s]) /\ Congruent(Q, v[s], t[s]) OBVIOUS
  <2>3. Congruent(Q, u[s] * v[s], w[s] * t[s]) BY <2>1, <2>2, Modulus, CongruentTimes
  <2> QED BY <2>3 DEF Terms
<1> HIDE DEF f, g
<1>4. Congruent(Q, SumFunctionOnSet(f, Upto(n)), SumFunctionOnSet(g, Upto(n)))
  BY <1>1, <1>2, <1>3, Modulus, SumCongruent
<1> QED BY <1>4, DotIs DEF f, g

\* The sum of sums.
LEMMA DotPlus ==
  ASSUME NEW n \in Nat, NEW u, NEW v, NEW w, NEW t,
         IntVector(n, u), IntVector(n, v), IntVector(n, w),
         \A s \in Upto(n) : t[s] = v[s] + w[s]
  PROVE  Dot(n, u, t) = Dot(n, u, v) + Dot(n, u, w)
<1> DEFINE f == Terms(n, u, v)
           g == Terms(n, u, w)
           h == Terms(n, u, t)
<1>1. IsFiniteSet(Upto(n)) BY UptoIs
<1>2. \A s \in Upto(n) : f[s] \in Int /\ g[s] \in Int BY TermsInt
<1>3. ASSUME NEW s \in Upto(n) PROVE h[s] = f[s] + g[s]
  <2>1. u[s] \in Int /\ v[s] \in Int /\ w[s] \in Int BY DEF IntVector
  <2>2. \A a1, b1, c1 \in Int : a1 * (b1 + c1) = a1 * b1 + a1 * c1 OBVIOUS
  <2>3. u[s] * (v[s] + w[s]) = u[s] * v[s] + u[s] * w[s] BY <2>1, <2>2
  <2> QED BY <2>3 DEF Terms
<1> HIDE DEF f, g, h
<1>4. SumFunctionOnSet(h, Upto(n))
        = SumFunctionOnSet(f, Upto(n)) + SumFunctionOnSet(g, Upto(n))
  BY <1>1, <1>2, <1>3, SumPlus
<1> QED BY <1>4, DotIs DEF f, g, h

\* A row times a matrix times a column, from either end.
LEMMA DotSwap ==
  ASSUME NEW l \in Nat, NEW n \in Nat, NEW u, NEW B, NEW v,
         IntVector(l, u), IntMatrix(l, n, B), IntVector(n, v)
  PROVE  Dot(l, u, [s \in Upto(l) |-> Dot(n, B[s], v)])
           = Dot(n, [e \in Upto(n) |-> Dot(l, u, Column(l, B, e))], v)
<1> DEFINE X == Upto(l)
           Y == Upto(n)
           F == [s \in X |-> [e \in Y |-> u[s] * (B[s][e] * v[e])]]
           p == [s \in X |-> Dot(n, B[s], v)]
           q == [e \in Y |-> Dot(l, u, Column(l, B, e))]
           Line(s) == [e \in Y |-> F[s][e]]
           Pile(e) == [s \in X |-> F[s][e]]
           Lines == [s \in X |-> SumFunctionOnSet(Line(s), Y)]
           Piles == [e \in Y |-> SumFunctionOnSet(Pile(e), X)]
<1>1. IsFiniteSet(X) /\ IsFiniteSet(Y) BY UptoIs
<1>2. \A s \in X, e \in Y : u[s] \in Int /\ B[s][e] \in Int /\ v[e] \in Int
  BY DEF IntVector, IntMatrix
<1>3. \A a1, b1, c1 \in Int : /\ a1 * (b1 * c1) \in Int /\ b1 * c1 \in Int
                              /\ a1 * (b1 * c1) = c1 * (a1 * b1)
  OBVIOUS
<1>4. \A s \in X, e \in Y : F[s][e] \in Int
  <2> SUFFICES ASSUME NEW s \in X, NEW e \in Y PROVE u[s] * (B[s][e] * v[e]) \in Int
    OBVIOUS
  <2> QED BY <1>2, <1>3
<1>5. \A s \in X : Terms(l, u, p)[s] = Lines[s] /\ Lines[s] \in Int
  <2> SUFFICES ASSUME NEW s \in X
               PROVE  Terms(l, u, p)[s] = Lines[s] /\ Lines[s] \in Int
    OBVIOUS
  <2> DEFINE t == Terms(n, B[s], v)
  <2>1. IntVector(n, B[s]) BY DEF IntMatrix
  <2>2. \A e \in Y : t[e] \in Int BY <2>1, TermsInt
  <2>3. \A e \in Y : Line(s)[e] = u[s] * t[e] BY DEF Terms
  <2>4. u[s] \in Int BY DEF IntVector
  <2>5. Dot(n, B[s], v) = SumFunctionOnSet(t, Y) BY DotIs
  <2>6. Terms(l, u, p)[s] = u[s] * Dot(n, B[s], v) BY DEF Terms
  <2>7. Lines[s] = SumFunctionOnSet(Line(s), Y) OBVIOUS
  <2>8. \A e \in Y : Line(s)[e] \in Int BY <1>4
  <2> DEFINE f == Line(s)
  <2>9. \A e \in Y : f[e] \in Int /\ f[e] = u[s] * t[e] BY <2>3, <2>8
  <2> HIDE DEF t, f, X, Y, Lines
  <2>10. SumFunctionOnSet(f, Y) = u[s] * SumFunctionOnSet(t, Y)
    BY <1>1, <2>2, <2>4, <2>9, SumTimes
  <2>11. SumFunctionOnSet(f, Y) \in Int BY <1>1, <2>9, SumInt
  <2> QED BY <2>5, <2>6, <2>7, <2>10, <2>11 DEF f
<1>6. \A e \in Y : Terms(n, q, v)[e] = Piles[e] /\ Piles[e] \in Int
  <2> SUFFICES ASSUME NEW e \in Y
               PROVE  Terms(n, q, v)[e] = Piles[e] /\ Piles[e] \in Int
    OBVIOUS
  <2> DEFINE b == Column(l, B, e)
             t == Terms(l, u, b)
             f == Pile(e)
  <2>1. IntVector(l, b) BY <1>2 DEF Column, IntVector
  <2>2. \A s \in X : t[s] \in Int BY <2>1, TermsInt
  <2>3. v[e] \in Int BY DEF IntVector
  <2>4. \A s \in X : f[s] \in Int /\ f[s] = v[e] * t[s]
    <3> SUFFICES ASSUME NEW s \in X PROVE f[s] \in Int /\ f[s] = v[e] * t[s]
      OBVIOUS
    <3>1. f[s] = u[s] * (B[s][e] * v[e]) OBVIOUS
    <3>2. t[s] = u[s] * B[s][e] BY DEF Terms, Column
    <3>3. u[s] \in Int /\ B[s][e] \in Int /\ v[e] \in Int BY <1>2
    <3> QED BY <1>3, <3>1, <3>2, <3>3
  <2>5. Dot(l, u, b) = SumFunctionOnSet(t, X) BY DotIs
  <2>6. Terms(n, q, v)[e] = Dot(l, u, b) * v[e] BY DEF Terms
  <2>7. Piles[e] = SumFunctionOnSet(f, X) OBVIOUS
  <2> HIDE DEF t, f, b, X, Y, Piles, q
  <2>8. SumFunctionOnSet(f, X) = v[e] * SumFunctionOnSet(t, X)
    BY <1>1, <2>2, <2>3, <2>4, SumTimes
  <2>9. SumFunctionOnSet(f, X) \in Int /\ SumFunctionOnSet(t, X) \in Int
    BY <1>1, <2>2, <2>4, SumInt
  <2>10. \A a1, b1 \in Int : a1 * b1 = b1 * a1 OBVIOUS
  <2> QED BY <2>3, <2>5, <2>6, <2>7, <2>8, <2>9, <2>10
<1>7. SumFunctionOnSet(Lines, X) = SumFunctionOnSet(Piles, Y)
  <2> HIDE DEF F, X, Y
  <2>1. SumFunctionOnSet([s \in X |-> SumFunctionOnSet([e \in Y |-> F[s][e]], Y)], X)
          = SumFunctionOnSet([e \in Y |-> SumFunctionOnSet([s \in X |-> F[s][e]], X)], Y)
    BY <1>1, <1>4, SumSwap
  <2> QED BY <2>1
<1> HIDE DEF Lines, Piles, F
<1>8. SumFunctionOnSet(Lines, X) = SumFunctionOnSet(Terms(l, u, p), X)
  <2> HIDE DEF X, p
  <2> QED BY <1>1, <1>5, SumEqual
<1>9. SumFunctionOnSet(Piles, Y) = SumFunctionOnSet(Terms(n, q, v), Y)
  <2> HIDE DEF Y, q
  <2> QED BY <1>1, <1>6, SumEqual
<1> QED BY <1>7, <1>8, <1>9, DotIs

\* The products of general_functions.c are such sums.
LEMMA MatrixInt ==
  ASSUME NEW m, NEW n, NEW A \in Matrix(m, n)
  PROVE  IntMatrix(m, n, A)
<1>1. \A v \in Upto(Q) : v \in Int BY Modulus DEF Upto
<1> QED BY <1>1 DEF Matrix, IntMatrix, IntVector

\* A vector of residues is one of integers.
LEMMA VectorInt ==
  ASSUME NEW n, NEW v \in [Upto(n) -> Upto(Q)]
  PROVE  IntVector(n, v)
<1>1. \A w \in Upto(Q) : w \in Int BY Modulus DEF Upto
<1> QED BY <1>1 DEF IntVector

\* So is a column of a matrix.
LEMMA ColumnInt ==
  ASSUME NEW l, NEW n, NEW B, IntMatrix(l, n, B), NEW c \in Upto(n)
  PROVE  IntVector(l, Column(l, B, c))
BY DEF IntMatrix, IntVector, Column

\* Matrices are equal that agree entry by entry.
LEMMA MatrixEqual ==
  ASSUME NEW m, NEW n, NEW A \in Matrix(m, n), NEW B \in Matrix(m, n),
         \A r \in Upto(m), c \in Upto(n) : A[r][c] = B[r][c]
  PROVE  A = B
<1> DEFINE X == Upto(m)
           Y == Upto(n)
           Z == Upto(Q)
<1>1. A \in [X -> [Y -> Z]] /\ B \in [X -> [Y -> Z]] BY DEF Matrix
<1>2. \A r \in X, c \in Y : A[r][c] = B[r][c] OBVIOUS
<1> HIDE DEF X, Y, Z
<1>3. ASSUME NEW r \in X PROVE A[r] = B[r]
  <2>1. A[r] \in [Y -> Z] /\ B[r] \in [Y -> Z] BY <1>1
  <2>2. \A c \in Y : A[r][c] = B[r][c] BY <1>2
  <2> QED BY <2>1, <2>2, SameFunction
<1>4. \A r \in X : A[r] = B[r] BY <1>3
<1> QED BY <1>1, <1>4, SameFunction

\* An entry of a product is a dot product modulo Q.
LEMMA ProductAt ==
  ASSUME NEW m, NEW l, NEW n, NEW A, NEW B, NEW r \in Upto(m), NEW c \in Upto(n)
  PROVE  Product(m, l, n, A, B)[r][c] = Dot(l, A[r], Column(l, B, c)) % Q
<1>1. [s \in Upto(l) |-> A[r][s] * B[s][c]]
        = [s \in Upto(l) |-> A[r][s] * Column(l, B, c)[s]]
  BY DEF Column
<1>2. Product(m, l, n, A, B)[r][c]
        = (SumFunction([s \in Upto(l) |-> A[r][s] * B[s][c]])) % Q
  BY DEF Product
<1>3. Dot(l, A[r], Column(l, B, c))
        = SumFunction([s \in Upto(l) |-> A[r][s] * Column(l, B, c)[s]])
  BY DEF Dot
<1>4. Dot(l, A[r], Column(l, B, c)) = SumFunction([s \in Upto(l) |-> A[r][s] * B[s][c]])
  BY <1>1, <1>3, Zenon
<1> QED BY <1>2, <1>4

\* A product is a matrix of residues.
LEMMA ProductType ==
  ASSUME NEW m, NEW l \in Nat, NEW n, NEW A, NEW B, IntMatrix(m, l, A), IntMatrix(l, n, B)
  PROVE  Product(m, l, n, A, B) \in Matrix(m, n)
<1> DEFINE P == Product(m, l, n, A, B)
           term(r, c) == SumFunction([s \in Upto(l) |-> A[r][s] * B[s][c]]) % Q
<1>1. ASSUME NEW r \in Upto(m), NEW c \in Upto(n) PROVE term(r, c) \in Upto(Q)
  <2>1. IntVector(l, A[r]) BY DEF IntMatrix
  <2>2. IntVector(l, Column(l, B, c)) BY ColumnInt
  <2>3. Dot(l, A[r], Column(l, B, c)) \in Int BY <2>1, <2>2, DotInt
  <2>4. P[r][c] = Dot(l, A[r], Column(l, B, c)) % Q BY ProductAt
  <2>5. P[r][c] = term(r, c) BY DEF Product
  <2> HIDE DEF P, term
  <2>6. Dot(l, A[r], Column(l, B, c)) % Q \in 0 .. Q - 1 BY <2>3, Modulus, ModType
  <2> QED BY <2>4, <2>5, <2>6 DEF Upto
<1>2. P = [r \in Upto(m) |-> [c \in Upto(n) |-> term(r, c)]] BY DEF Product
<1> HIDE DEF P, term
<1>3. P \in [Upto(m) -> [Upto(n) -> Upto(Q)]] BY <1>1, <1>2
<1> QED BY <1>3 DEF P, Matrix

\* A matrix applied to a vector gives a vector of residues, each a dot product
\* modulo Q.
LEMMA ApplyType ==
  ASSUME NEW m, NEW n \in Nat, NEW A, NEW v, IntMatrix(m, n, A), IntVector(n, v)
  PROVE  /\ Apply(m, n, A, v) \in [Upto(m) -> Upto(Q)]
         /\ \A r \in Upto(m) : Apply(m, n, A, v)[r] = Dot(n, A[r], v) % Q
<1>1. ASSUME NEW r \in Upto(m) PROVE Dot(n, A[r], v) % Q \in Upto(Q)
  <2>1. Dot(n, A[r], v) \in Int BY DotInt DEF IntMatrix
  <2>2. Dot(n, A[r], v) % Q \in 0 .. Q - 1 BY <2>1, Modulus, ModType
  <2> QED BY <2>2 DEF Upto
<1> QED BY <1>1 DEF Apply

\* A row times a product, in either order and with the sums reduced.
LEMMA RowThrough ==
  ASSUME NEW l \in Nat, NEW n \in Nat, NEW u, NEW B, NEW v,
         IntVector(l, u), IntMatrix(l, n, B), IntVector(n, v)
  PROVE  Congruent(Q, Dot(l, u, [s \in Upto(l) |-> Dot(n, B[s], v) % Q]),
                      Dot(n, [e \in Upto(n) |-> Dot(l, u, Column(l, B, e)) % Q], v))
<1> DEFINE p == [s \in Upto(l) |-> Dot(n, B[s], v)]
           q == [e \in Upto(n) |-> Dot(l, u, Column(l, B, e))]
           pr == [s \in Upto(l) |-> Dot(n, B[s], v) % Q]
           qr == [e \in Upto(n) |-> Dot(l, u, Column(l, B, e)) % Q]
<1>1. Dot(l, u, p) = Dot(n, q, v) BY DotSwap
<1>2. \A s \in Upto(l) : p[s] \in Int /\ pr[s] = p[s] % Q
  <2> SUFFICES ASSUME NEW s \in Upto(l) PROVE p[s] \in Int /\ pr[s] = p[s] % Q
    OBVIOUS
  <2>1. IntVector(n, B[s]) BY DEF IntMatrix
  <2>2. Dot(n, B[s], v) \in Int BY <2>1, DotInt
  <2> QED BY <2>2
<1>3. \A e \in Upto(n) : q[e] \in Int /\ qr[e] = q[e] % Q
  <2> SUFFICES ASSUME NEW e \in Upto(n) PROVE q[e] \in Int /\ qr[e] = q[e] % Q
    OBVIOUS
  <2>1. IntVector(l, Column(l, B, e)) BY ColumnInt
  <2>2. Dot(l, u, Column(l, B, e)) \in Int BY <2>1, DotInt
  <2> QED BY <2>2
<1> HIDE DEF p, q, pr, qr
<1>4. \A a1 \in Int : a1 % Q \in Int /\ Congruent(Q, a1 % Q, a1)
  BY Modulus, ModType, CongruentMod
<1>5. IntVector(l, p) /\ IntVector(l, pr) /\ IntVector(n, q) /\ IntVector(n, qr)
  BY <1>2, <1>3, <1>4 DEF IntVector
<1>6. \A s \in Upto(l) : Congruent(Q, u[s], u[s]) /\ Congruent(Q, pr[s], p[s])
  BY <1>2, <1>4, CongruentSame
<1>7. \A e \in Upto(n) : Congruent(Q, qr[e], q[e]) /\ Congruent(Q, v[e], v[e])
  BY <1>3, <1>4, CongruentSame
<1>8. Congruent(Q, Dot(l, u, pr), Dot(l, u, p)) BY <1>5, <1>6, DotCongruent
<1>9. Congruent(Q, Dot(n, qr, v), Dot(n, q, v)) BY <1>5, <1>7, DotCongruent
<1>10. Congruent(Q, Dot(l, u, pr), Dot(n, qr, v))
  BY <1>1, <1>8, <1>9 DEF Congruent
<1> QED BY <1>10 DEF pr, qr

\* A product is applied factor by factor.
LEMMA ApplyProduct ==
  ASSUME NEW m \in Nat, NEW l \in Nat, NEW n \in Nat, NEW A, NEW B, NEW v,
         IntMatrix(m, l, A), IntMatrix(l, n, B), IntVector(n, v)
  PROVE  Apply(m, l, A, Apply(l, n, B, v)) = Apply(m, n, Product(m, l, n, A, B), v)
<1> DEFINE AB == Product(m, l, n, A, B)
           w == Apply(l, n, B, v)
           X == Upto(m)
           Z == Upto(Q)
<1>1. w \in [Upto(l) -> Upto(Q)] /\ w = [s \in Upto(l) |-> Dot(n, B[s], v) % Q]
  BY ApplyType DEF Apply
<1>2. AB \in Matrix(m, n) BY ProductType
<1> HIDE DEF w, AB
<1>3. IntVector(l, w) /\ IntMatrix(m, n, AB) BY <1>1, <1>2, VectorInt, MatrixInt
<1> DEFINE f == Apply(m, l, A, w)
           g == Apply(m, n, AB, v)
<1>4. f \in [X -> Z] /\ \A r \in X : f[r] = Dot(l, A[r], w) % Q
  BY <1>3, ApplyType
<1>5. g \in [X -> Z] /\ \A r \in X : g[r] = Dot(n, AB[r], v) % Q
  BY <1>3, ApplyType
<1> HIDE DEF f, g
<1>6. ASSUME NEW r \in X PROVE f[r] = g[r]
  <2>1. IntVector(l, A[r]) BY DEF IntMatrix
  <2>2. AB[r] = [e \in Upto(n) |-> Dot(l, A[r], Column(l, B, e)) % Q]
    <3> DEFINE Y == Upto(n)
               h == [e \in Upto(n) |-> Dot(l, A[r], Column(l, B, e)) % Q]
    <3>1. \A e \in Y : AB[r][e] = h[e] BY ProductAt DEF AB
    <3>2. AB[r] \in [Y -> Z] BY <1>2 DEF Matrix
    <3>3. h = [e \in Y |-> h[e]] OBVIOUS
    <3> HIDE DEF h, Y
    <3>4. h \in [Y -> Z] BY <3>1, <3>2, <3>3
    <3>5. AB[r] = h BY <3>1, <3>2, <3>4, SameFunction
    <3> QED BY <3>5 DEF h
  <2>3. Congruent(Q, Dot(l, A[r], [s \in Upto(l) |-> Dot(n, B[s], v) % Q]),
                     Dot(n, [e \in Upto(n) |-> Dot(l, A[r], Column(l, B, e)) % Q], v))
    BY <2>1, RowThrough
  <2>4. Congruent(Q, Dot(l, A[r], w), Dot(n, AB[r], v)) BY <1>1, <2>2, <2>3, Zenon
  <2> QED BY <1>4, <1>5, <2>4 DEF Congruent
<1> HIDE DEF X, Z
<1>7. f = g BY <1>4, <1>5, <1>6, SameFunction
<1> QED BY <1>7 DEF f, g, w, AB

\* The product of matrices is associative.
LEMMA ProductAssociates ==
  ASSUME NEW m \in Nat, NEW l \in Nat, NEW n \in Nat, NEW p \in Nat, NEW A, NEW B, NEW E,
         IntMatrix(m, l, A), IntMatrix(l, n, B), IntMatrix(n, p, E)
  PROVE  Product(m, l, p, A, Product(l, n, p, B, E))
           = Product(m, n, p, Product(m, l, n, A, B), E)
<1> DEFINE AB == Product(m, l, n, A, B)
           BE == Product(l, n, p, B, E)
           Z == Upto(Q)
<1>1. AB \in Matrix(m, n) /\ BE \in Matrix(l, p) BY ProductType
<1>2. \A r \in Upto(m), e \in Upto(n) : AB[r][e] = Dot(l, A[r], Column(l, B, e)) % Q
  BY ProductAt
<1>3. \A s \in Upto(l), c \in Upto(p) : BE[s][c] = Dot(n, B[s], Column(n, E, c)) % Q
  BY ProductAt
<1> HIDE DEF AB, BE
<1>4. IntMatrix(m, n, AB) /\ IntMatrix(l, p, BE) BY <1>1, MatrixInt
<1> DEFINE F == Product(m, l, p, A, BE)
           G == Product(m, n, p, AB, E)
<1>5. F \in Matrix(m, p) /\ G \in Matrix(m, p) BY <1>4, ProductType
<1>6. ASSUME NEW r \in Upto(m), NEW c \in Upto(p) PROVE F[r][c] = G[r][c]
  <2> DEFINE v == Column(n, E, c)
  <2>1. F[r][c] = Dot(l, A[r], Column(l, BE, c)) % Q BY ProductAt
  <2>2. G[r][c] = Dot(n, AB[r], v) % Q BY ProductAt
  <2>3. Column(l, BE, c) = [s \in Upto(l) |-> Dot(n, B[s], v) % Q]
    BY <1>3 DEF Column
  <2>4. AB[r] = [e \in Upto(n) |-> Dot(l, A[r], Column(l, B, e)) % Q]
    <3> DEFINE Y == Upto(n)
               h == [e \in Upto(n) |-> Dot(l, A[r], Column(l, B, e)) % Q]
    <3>1. \A e \in Y : AB[r][e] = h[e] BY <1>2
    <3>2. AB[r] \in [Y -> Z] BY <1>1 DEF Matrix
    <3>3. h = [e \in Y |-> h[e]] OBVIOUS
    <3> HIDE DEF h, Y
    <3>4. h \in [Y -> Z] BY <3>1, <3>2, <3>3
    <3>5. AB[r] = h BY <3>1, <3>2, <3>4, SameFunction
    <3> QED BY <3>5 DEF h
  <2>5. IntVector(n, v) BY ColumnInt
  <2>6. IntVector(l, A[r]) BY DEF IntMatrix
  <2> HIDE DEF v, F, G
  <2>7. Congruent(Q, Dot(l, A[r], [s \in Upto(l) |-> Dot(n, B[s], v) % Q]),
                     Dot(n, [e \in Upto(n) |-> Dot(l, A[r], Column(l, B, e)) % Q], v))
    BY <2>5, <2>6, RowThrough
  <2>8. Congruent(Q, Dot(l, A[r], Column(l, BE, c)), Dot(n, AB[r], v))
    BY <2>3, <2>4, <2>7, Zenon
  <2> QED BY <2>1, <2>2, <2>8 DEF Congruent
<1> HIDE DEF F, G
<1>7. F = G BY <1>5, <1>6, MatrixEqual
<1> QED BY <1>7 DEF F, G, AB, BE

\* The order of the factors of a sum of products is immaterial.
LEMMA DotSwapped ==
  ASSUME NEW n \in Nat, NEW u, NEW v, IntVector(n, u), IntVector(n, v)
  PROVE  Dot(n, u, v) = Dot(n, v, u)
<1> DEFINE f == Terms(n, u, v)
           g == Terms(n, v, u)
<1>1. IsFiniteSet(Upto(n)) BY UptoIs
<1>2. ASSUME NEW s \in Upto(n) PROVE f[s] \in Int /\ g[s] = f[s]
  <2>1. u[s] \in Int /\ v[s] \in Int BY DEF IntVector
  <2>2. \A a1, b1 \in Int : a1 * b1 \in Int /\ a1 * b1 = b1 * a1 OBVIOUS
  <2>3. u[s] * v[s] \in Int /\ u[s] * v[s] = v[s] * u[s] BY <2>1, <2>2
  <2> QED BY <2>3 DEF Terms
<1> HIDE DEF f, g
<1>3. SumFunctionOnSet(f, Upto(n)) = SumFunctionOnSet(g, Upto(n))
  BY <1>1, <1>2, SumEqual
<1> QED BY <1>3, DotIs DEF f, g

\* The unit matrix.
Id == [r \in Upto(N) |-> [c \in Upto(N) |-> IF r = c THEN 1 ELSE 0]]

\* The dimensions as the steps below use them.
LEMMA Dimensions ==
  /\ M \in Nat /\ M > 0 /\ D \in Nat /\ D > 0 /\ N \in Nat /\ N > 0
  /\ K = 2 /\ K * N \in Nat /\ K * N = M + D /\ M + D \in Nat /\ K * N = 2 * N
<1>1. M \in Nat /\ M > 0 /\ D \in Nat /\ D > 0 /\ N \in Nat /\ N > 0 /\ K = 2
  BY SchemeAssumption
<1>2. K * N = M + D BY SchemeAssumption
<1>3. K * N = 2 * N BY <1>1
<1>4. 2 * N \in Nat BY <1>1
<1> QED BY <1>1, <1>2, <1>3, <1>4

\* The identity matrix is a matrix.
LEMMA IdType == Id \in Matrix(N, N)
<1>1. 0 \in Upto(Q) /\ 1 \in Upto(Q) BY Modulus DEF Upto
<1> QED BY <1>1 DEF Id, Matrix

\* Its lines and columns.
LEMMA IdLine ==
  ASSUME NEW u, IntVector(N, u), NEW c \in Upto(N)
  PROVE  Dot(N, u, Id[c]) = u[c] /\ Column(N, Id, c) = Id[c]
<1> DEFINE f == Terms(N, u, Id[c])
<1>1. \A e \in Upto(N) : f[e] = IF c = e THEN u[e] ELSE 0
  <2> SUFFICES ASSUME NEW e \in Upto(N) PROVE f[e] = IF c = e THEN u[e] ELSE 0
    OBVIOUS
  <2>1. f[e] = u[e] * (IF c = e THEN 1 ELSE 0) BY DEF Terms, Id
  <2>2. u[e] \in Int BY DEF IntVector
  <2>3. \A w \in Int : w * 1 = w /\ w * 0 = 0 OBVIOUS
  <2> HIDE DEF f
  <2> QED BY <2>1, <2>2, <2>3
<1>2. u[c] \in Int BY DEF IntVector
<1> HIDE DEF f
<1>3. f[c] \in Int /\ f[c] = u[c] /\ \A e \in Upto(N) \ {c} : f[e] = 0 BY <1>1, <1>2
<1>4. IsFiniteSet(Upto(N)) BY Dimensions, UptoIs
<1>5. SumFunctionOnSet(f, Upto(N)) = f[c] BY <1>3, <1>4, SumOnly
<1>6. Dot(N, u, Id[c]) = u[c] BY <1>3, <1>5, DotIs DEF f
<1>7. Column(N, Id, c) = Id[c] BY DEF Column, Id
<1> QED BY <1>6, <1>7

\* Reducing a residue changes nothing.
LEMMA SmallResidue == \A v \in Upto(Q) : v \in Int /\ v % Q = v
<1> SUFFICES ASSUME NEW v \in Upto(Q) PROVE v \in Int /\ v % Q = v OBVIOUS
<1>1. v \in Int /\ 0 <= v /\ v < Q BY Modulus DEF Upto
<1>2. v % Q = v BY <1>1, Modulus, ModSmall
<1> QED BY <1>1, <1>2

\* The identity is neutral on the right.
LEMMA TimesId ==
  ASSUME NEW m \in Nat, NEW A \in Matrix(m, N)
  PROVE  Product(m, N, N, A, Id) = A
<1> DEFINE R == Product(m, N, N, A, Id)
<1>1. IntMatrix(N, N, Id) /\ IntMatrix(m, N, A) BY IdType, MatrixInt
<1>2. R \in Matrix(m, N) BY <1>1, Dimensions, ProductType
<1>3. ASSUME NEW r \in Upto(m), NEW c \in Upto(N) PROVE R[r][c] = A[r][c]
  <2>1. R[r][c] = Dot(N, A[r], Column(N, Id, c)) % Q BY ProductAt
  <2>2. IntVector(N, A[r]) BY <1>1 DEF IntMatrix
  <2>3. Dot(N, A[r], Column(N, Id, c)) = A[r][c] BY <2>2, IdLine
  <2>4. A[r][c] \in Upto(Q) BY DEF Matrix
  <2> QED BY <2>1, <2>3, <2>4, SmallResidue
<1> HIDE DEF R
<1>4. R = A BY <1>2, <1>3, MatrixEqual
<1> QED BY <1>4 DEF R

\* And on the left.
LEMMA IdTimes ==
  ASSUME NEW A \in Matrix(N, N)
  PROVE  Product(N, N, N, Id, A) = A
<1> DEFINE R == Product(N, N, N, Id, A)
<1>1. IntMatrix(N, N, Id) /\ IntMatrix(N, N, A) BY IdType, MatrixInt
<1>2. R \in Matrix(N, N) BY <1>1, Dimensions, ProductType
<1>3. ASSUME NEW r \in Upto(N), NEW c \in Upto(N) PROVE R[r][c] = A[r][c]
  <2> DEFINE v == Column(N, A, c)
  <2>1. R[r][c] = Dot(N, Id[r], v) % Q BY ProductAt
  <2>2. IntVector(N, v) BY <1>1, ColumnInt
  <2>3. IntVector(N, Id[r]) BY <1>1 DEF IntMatrix
  <2>4. v[r] = A[r][c] BY DEF Column
  <2> HIDE DEF v
  <2>5. Dot(N, Id[r], v) = Dot(N, v, Id[r]) BY <2>2, <2>3, Dimensions, DotSwapped
  <2>6. Dot(N, v, Id[r]) = v[r] BY <2>2, IdLine
  <2>7. A[r][c] \in Upto(Q) BY DEF Matrix
  <2> QED BY <2>1, <2>4, <2>5, <2>6, <2>7, SmallResidue
<1> HIDE DEF R
<1>4. R = A BY <1>2, <1>3, MatrixEqual
<1> QED BY <1>4 DEF R

-----------------------------------------------------------------------------
(* Inverses of triangular matrices *)

\* The table of inverses modulo Q, which the assumption makes total.
LEMMA InverseIs ==
  ASSUME NEW v \in 1 .. Q - 1
  PROVE  /\ Inverse_mod_q(v) \in 1 .. Q - 1
         /\ (v * Inverse_mod_q(v)) % Q = 1
<1>1. \E w \in 1 .. Q - 1 : (v * w) % Q = 1 BY SchemeAssumption
<1>2. v # 0 BY Modulus
<1>3. Inverse_mod_q(v) = CHOOSE w \in 1 .. Q - 1 : (v * w) % Q = 1
  BY <1>2 DEF Inverse_mod_q
<1> QED BY <1>1, <1>3

\* Row r of the inverse of a lower triangular matrix E, dg being the inverses
\* of its diagonal.
TriRow(inv, dg, E, r) ==
  inv = [c \in Upto(N) |->
           IF r < c THEN 0 ELSE IF r = c THEN dg[c]
           ELSE (- dg[c] * SumFunction([q \in c + 1 .. r |-> E[q][c] * inv[q]])) % Q]

Above(E, u, r, c) == [q \in c + 1 .. r |-> E[q][c] * u[q]]

\* The sum in substitution has integer terms.
LEMMA AboveInt ==
  ASSUME NEW E, IntMatrix(N, N, E), NEW r \in Upto(N), NEW c \in Upto(N), NEW u,
         \A q \in c + 1 .. r : u[q] \in Upto(Q)
  PROVE  /\ \A q \in c + 1 .. r : Above(E, u, r, c)[q] \in Int
         /\ SumFunction(Above(E, u, r, c)) = SumFunctionOnSet(Above(E, u, r, c), c + 1 .. r)
         /\ SumFunction(Above(E, u, r, c)) \in Int
         /\ IsFiniteSet(c + 1 .. r)
<1> DEFINE f == Above(E, u, r, c)
           T0 == c + 1 .. r
<1>1. r \in Int /\ c \in Int /\ 0 <= c /\ r < N BY Dimensions DEF Upto
<1>2. ASSUME NEW q \in T0 PROVE f[q] \in Int
  <2>1. q \in Upto(N) BY <1>1, Dimensions DEF Upto
  <2>2. E[q][c] \in Int BY <2>1 DEF IntMatrix, IntVector
  <2>3. u[q] \in Int BY Modulus DEF Upto
  <2>4. \A a1, b1 \in Int : a1 * b1 \in Int OBVIOUS
  <2>5. E[q][c] * u[q] \in Int BY <2>2, <2>3, <2>4
  <2> QED BY <2>5 DEF Above
<1>3. IsFiniteSet(T0) BY <1>1, FS_Interval
<1>4. DOMAIN f = T0 BY DEF Above
<1> HIDE DEF f, T0
<1>5. SumFunction(f) = SumFunctionOnSet(f, T0) BY <1>4, SumIs
<1>6. SumFunctionOnSet(f, T0) \in Int BY <1>2, <1>3, SumInt
<1> QED BY <1>2, <1>3, <1>5, <1>6 DEF f, T0

\* A remainder modulo Q is a residue.
LEMMA ResidueType == \A v \in Int : v % Q \in Upto(Q)
<1> SUFFICES ASSUME NEW v \in Int PROVE v % Q \in Upto(Q) OBVIOUS
<1>1. v % Q \in 0 .. Q - 1 BY Modulus, ModType
<1> QED BY <1>1 DEF Upto

\* Substitution can be carried out from the diagonal to the first column.
LEMMA TriExists ==
  ASSUME NEW E, IntMatrix(N, N, E), NEW dg \in [Upto(N) -> Upto(Q)], NEW r \in Upto(N)
  PROVE  \E inv : TriRow(inv, dg, E, r)
<1> DEFINE V == Upto(Q)
           B(l, p) == [q \in r - l + 1 .. r |-> E[q][r - l] * p[r - q]]
           G == [l \in Nat |-> [p \in [0 .. l - 1 -> V] |->
                   IF l = 0 THEN dg[r] ELSE IF l <= r
                   THEN (- dg[r - l] * SumFunction(B(l, p))) % Q ELSE 0]]
<1>1. r \in Nat /\ r < N BY Dimensions DEF Upto
<1>2. \A l \in Nat : \A p \in [0 .. l - 1 -> V] :
        G[l][p] = IF l = 0 THEN dg[r] ELSE IF l <= r
                  THEN (- dg[r - l] * SumFunction(B(l, p))) % Q ELSE 0
  OBVIOUS
<1>3. 0 \in V BY Modulus DEF Upto
<1>4. Yields(G, V)
  <2> SUFFICES ASSUME NEW l \in Nat, NEW p \in [0 .. l - 1 -> V] PROVE G[l][p] \in V
    BY DEF Yields
  <2>1. CASE l = 0
    <3>1. dg[r] \in V OBVIOUS
    <3> QED BY <1>2, <2>1, <3>1
  <2>2. CASE l # 0 /\ l <= r
    <3> DEFINE c == r - l
               u == [q \in c + 1 .. r |-> p[r - q]]
    <3>1. c \in Upto(N) BY <1>1, <2>2, Dimensions DEF Upto
    <3>2. \A q \in c + 1 .. r : u[q] \in Upto(Q)
      <4> SUFFICES ASSUME NEW q \in c + 1 .. r PROVE p[r - q] \in Upto(Q) OBVIOUS
      <4>1. r - q \in 0 .. l - 1 BY <1>1, <2>2
      <4> QED BY <4>1
    <3>3. Above(E, u, r, c) = B(l, p) BY DEF Above
    <3>4. dg[c] \in Int BY <3>1, Modulus DEF Upto
    <3> HIDE DEF c, u, B
    <3>5. SumFunction(B(l, p)) \in Int BY <3>1, <3>2, <3>3, AboveInt
    <3>6. \A a1, b1 \in Int : - a1 * b1 \in Int OBVIOUS
    <3>7. - dg[c] * SumFunction(B(l, p)) \in Int BY <3>4, <3>5, <3>6
    <3>8. (- dg[c] * SumFunction(B(l, p))) % Q \in V BY <3>7, ResidueType
    <3> HIDE DEF G
    <3>9. G[l][p] = (- dg[c] * SumFunction(B(l, p))) % Q BY <1>2, <2>2 DEF c
    <3> QED BY <3>8, <3>9
  <2>3. CASE l # 0 /\ ~ (l <= r)
    BY <1>2, <1>3, <2>3
  <2> QED BY <2>1, <2>2, <2>3
<1> HIDE DEF G
<1>5. PICK f \in [Nat -> V] : Solves(f, G) BY <1>4, Recursion
<1> DEFINE inv == [c \in Upto(N) |-> IF r < c THEN 0 ELSE f[r - c]]
           rhs == [c \in Upto(N) |->
                     IF r < c THEN 0 ELSE IF r = c THEN dg[c]
                     ELSE (- dg[c] * SumFunction([q \in c + 1 .. r |-> E[q][c] * inv[q]])) % Q]
<1>6. ASSUME NEW c \in Upto(N) PROVE inv[c] = rhs[c]
  <2>1. c \in Nat BY Dimensions DEF Upto
  <2>2. CASE r < c BY <2>2
  <2>3. CASE ~ (r < c)
    <3> DEFINE l == r - c
    <3>1. l \in Nat /\ l <= r /\ r - l = c /\ (l = 0 <=> r = c) BY <1>1, <2>1, <2>3
    <3>2. f[l] = G[l][Initial(f, l)] BY <1>5, <3>1 DEF Solves
    <3>3. Initial(f, l) \in [0 .. l - 1 -> V] BY <1>5, <3>1, InitialType
    <3>4. inv[c] = f[l] BY <2>3
    <3>5. B(l, Initial(f, l)) = [q \in c + 1 .. r |-> E[q][c] * inv[q]]
      <4>1. ASSUME NEW q \in c + 1 .. r
            PROVE  E[q][r - l] * Initial(f, l)[r - q] = E[q][c] * inv[q]
        <5>0. q \in Int /\ c + 1 <= q /\ q <= r BY <1>1, <2>1
        <5>1. r - q \in 0 .. l - 1 /\ q \in Upto(N) /\ ~ (r < q)
          BY <1>1, <2>1, <5>0, Dimensions DEF Upto
        <5>2. Initial(f, l)[r - q] = f[r - q] BY <5>1, InitialAt
        <5>3. inv[q] = f[r - q] BY <5>1
        <5> QED BY <3>1, <5>2, <5>3
      <4>2. r - l + 1 = c + 1 BY <1>1, <2>1
      <4> HIDE DEF l, inv
      <4> QED BY <4>1, <4>2
    <3> HIDE DEF l, inv, B
    <3>6. CASE r = c
      <4>1. f[l] = dg[r] BY <1>2, <3>1, <3>2, <3>3, <3>6
      <4> QED BY <2>3, <3>4, <3>6, <4>1
    <3>7. CASE r # c
      <4>1. f[l] = (- dg[r - l] * SumFunction(B(l, Initial(f, l)))) % Q
        BY <1>2, <3>1, <3>2, <3>3, <3>7
      <4>2. f[l] = (- dg[c] * SumFunction([q \in c + 1 .. r |-> E[q][c] * inv[q]])) % Q
        BY <3>1, <3>5, <4>1
      <4> QED BY <2>3, <3>4, <3>7, <4>2
    <3> QED BY <3>6, <3>7
  <2> QED BY <2>2, <2>3
<1>7. inv = rhs
  <2>1. inv = [c \in Upto(N) |-> inv[c]] /\ rhs = [c \in Upto(N) |-> rhs[c]] OBVIOUS
  <2> HIDE DEF inv, rhs
  <2> QED BY <1>6, <2>1
<1> QED BY <1>7 DEF TriRow

\* What it gives: the inverted diagonal, zeros on one side, substitution on the
\* other.
LEMMA TriLaw ==
  ASSUME NEW E, IntMatrix(N, N, E), NEW dg \in [Upto(N) -> Upto(Q)], NEW r \in Upto(N),
         NEW inv, TriRow(inv, dg, E, r)
  PROVE  /\ inv \in [Upto(N) -> Upto(Q)]
         /\ inv[r] = dg[r]
         /\ \A c \in Upto(N) : r < c => inv[c] = 0
         /\ \A c \in Upto(N) : c < r =>
              inv[c] = (- dg[c] * SumFunction(Above(E, inv, r, c))) % Q
<1>1. r \in Nat /\ r < N /\ 0 \in Upto(Q) BY Dimensions, Modulus DEF Upto
<1>2. \A c \in Upto(N) : c \in Int BY Dimensions DEF Upto
<1>3. \A c \in Upto(N) :
        inv[c] = IF r < c THEN 0 ELSE IF r = c THEN dg[c]
                 ELSE (- dg[c] * SumFunction(Above(E, inv, r, c))) % Q
  BY DEF TriRow, Above
<1>4. \A c \in Upto(N) : r < c => inv[c] = 0 BY <1>3
<1>5. inv[r] = dg[r] BY <1>1, <1>3
<1>6. \A c \in Upto(N) : c < r =>
        inv[c] = (- dg[c] * SumFunction(Above(E, inv, r, c))) % Q
  BY <1>1, <1>2, <1>3
<1> DEFINE P == {l \in Nat : l <= r => inv[r - l] \in Upto(Q)}
<1>7. ASSUME NEW l \in Nat, \A e \in 0 .. l - 1 : e \in P PROVE l \in P
  <2> SUFFICES ASSUME l <= r PROVE inv[r - l] \in Upto(Q) OBVIOUS
  <2> DEFINE c == r - l
  <2>1. c \in Upto(N) BY <1>1, Dimensions DEF Upto
  <2>2. CASE l = 0 BY <1>1, <1>5, <2>2
  <2>3. CASE l # 0
    <3>1. \A q \in c + 1 .. r : inv[q] \in Upto(Q)
      <4> SUFFICES ASSUME NEW q \in c + 1 .. r PROVE inv[q] \in Upto(Q) OBVIOUS
      <4>0. c \in Int /\ 0 <= c /\ c + 1 <= q /\ q \in Int /\ q <= r BY <1>1, <2>1 DEF Upto
      <4>1. r - q \in 0 .. l - 1 /\ r - q <= r /\ r - (r - q) = q BY <1>1, <4>0
      <4>2. r - q \in P BY <1>7, <4>1
      <4> QED BY <4>1, <4>2
    <3>2. SumFunction(Above(E, inv, r, c)) \in Int BY <2>1, <3>1, AboveInt
    <3>3. dg[c] \in Int BY <2>1, Modulus DEF Upto
    <3>4. c < r BY <1>1, <2>3
    <3> HIDE DEF c
    <3>5. \A a1, b1 \in Int : - a1 * b1 \in Int OBVIOUS
    <3>6. - dg[c] * SumFunction(Above(E, inv, r, c)) \in Int BY <3>2, <3>3, <3>5
    <3>7. inv[c] = (- dg[c] * SumFunction(Above(E, inv, r, c))) % Q BY <1>6, <2>1, <3>4
    <3>8. inv[c] \in Upto(Q) BY <3>6, <3>7, ResidueType
    <3> QED BY <3>8 DEF c
  <2> QED BY <2>2, <2>3
<1>8. \A l \in Nat : l \in P
  <2> HIDE DEF P
  <2> QED BY <1>7, StrongInduction
<1>9. \A c \in Upto(N) : inv[c] \in Upto(Q)
  <2> SUFFICES ASSUME NEW c \in Upto(N) PROVE inv[c] \in Upto(Q) OBVIOUS
  <2>1. CASE r < c BY <1>1, <1>4, <2>1
  <2>2. CASE ~ (r < c)
    <3>1. c \in Int /\ 0 <= c BY Dimensions DEF Upto
    <3>2. r - c \in Nat /\ r - c <= r /\ r - (r - c) = c BY <1>1, <2>2, <3>1
    <3> QED BY <1>8, <3>2
  <2> QED BY <2>1, <2>2
<1>10. inv \in [Upto(N) -> Upto(Q)]
  <2>1. inv = [c \in Upto(N) |-> inv[c]] BY DEF TriRow
  <2> QED BY <1>9, <2>1
<1> QED BY <1>4, <1>5, <1>6, <1>10

Lower(E) == \A r, c \in Upto(N) : r < c => E[r][c] = 0

\* A row of it times the matrix is a row of the identity.
LEMMA TriDot ==
  ASSUME NEW E, IntMatrix(N, N, E), Lower(E), NEW dg \in [Upto(N) -> Upto(Q)],
         \A c \in Upto(N) : (E[c][c] * dg[c]) % Q = 1,
         NEW r \in Upto(N), NEW inv, TriRow(inv, dg, E, r), NEW c \in Upto(N)
  PROVE  Dot(N, inv, Column(N, E, c)) % Q = IF r = c THEN 1 ELSE 0
<1> DEFINE col == Column(N, E, c)
           f == Terms(N, inv, col)
           S1 == SumFunctionOnSet(f, Upto(N))
<1>1. /\ r \in Nat /\ r < N /\ c \in Nat /\ c < N /\ N \in Nat
      /\ \A q \in Upto(N) : q \in Int /\ 0 <= q
  BY Dimensions DEF Upto
<1>2. /\ inv \in [Upto(N) -> Upto(Q)]
      /\ inv[r] = dg[r]
      /\ \A q \in Upto(N) : r < q => inv[q] = 0
      /\ c < r => inv[c] = (- dg[c] * SumFunction(Above(E, inv, r, c))) % Q
  BY TriLaw
<1>3. IntVector(N, inv) /\ IntVector(N, col) BY <1>2, VectorInt, ColumnInt
<1>4. \A q \in Upto(N) : f[q] \in Int /\ f[q] = inv[q] * E[q][c]
  <2>1. \A q \in Upto(N) : f[q] \in Int BY <1>1, <1>3, TermsInt
  <2>2. \A q \in Upto(N) : f[q] = inv[q] * E[q][c] BY DEF Terms, Column
  <2> QED BY <2>1, <2>2
<1>5. \A q \in Upto(N) : q < c \/ r < q => f[q] = 0
  <2> SUFFICES ASSUME NEW q \in Upto(N), q < c \/ r < q PROVE f[q] = 0 OBVIOUS
  <2>1. inv[q] \in Int /\ E[q][c] \in Int BY <1>3 DEF IntVector, IntMatrix
  <2>2. inv[q] = 0 \/ E[q][c] = 0 BY <1>2 DEF Lower
  <2>3. \A a1 \in Int : 0 * a1 = 0 /\ a1 * 0 = 0 OBVIOUS
  <2> HIDE DEF f
  <2> QED BY <1>4, <2>1, <2>2, <2>3
<1>6. IsFiniteSet(Upto(N)) BY <1>1, UptoIs
<1>7. Dot(N, inv, col) = S1 BY DotIs
<1>8. (E[c][c] * dg[c]) % Q = 1 /\ E[c][c] \in Int /\ dg[c] \in Int
  BY Modulus DEF IntMatrix, IntVector, Upto
<1>9. 0 % Q = 0 BY Modulus, ModSmall
<1> HIDE DEF f, col
<1>10. CASE r < c
  <2>1. ASSUME NEW q \in Upto(N) PROVE f[q] = 0
    <3>1. q < c \/ r < q BY <1>1, <1>10
    <3> QED BY <1>5, <3>1
  <2>2. S1 = 0 BY <1>6, <2>1, SumZeros
  <2> QED BY <1>1, <1>7, <1>9, <1>10, <2>2 DEF col
<1>11. CASE r = c
  <2>1. ASSUME NEW q \in Upto(N) \ {c} PROVE f[q] = 0
    <3>1. q < c \/ r < q BY <1>1, <1>11
    <3> QED BY <1>5, <3>1
  <2>2. S1 = f[c] BY <1>4, <1>6, <2>1, SumOnly
  <2>3. f[c] = dg[c] * E[c][c] BY <1>2, <1>4, <1>11
  <2>4. \A a1, b1 \in Int : a1 * b1 = b1 * a1 OBVIOUS
  <2>5. S1 = E[c][c] * dg[c] BY <1>8, <2>2, <2>3, <2>4
  <2> QED BY <1>7, <1>8, <1>11, <2>5 DEF col
<1>12. CASE c < r
  <2> DEFINE T0 == c + 1 .. r
             U0 == T0 \cup {c}
             g == Above(E, inv, r, c)
             S2 == SumFunctionOnSet(f, T0)
  <2>1. /\ U0 \in SUBSET Upto(N) /\ c \in Upto(N) \ T0 /\ T0 \in SUBSET Upto(N)
        /\ \A q \in Upto(N) \ U0 : q < c \/ r < q
    BY <1>1, <1>12 DEF Upto
  <2>2. \A q \in T0 : inv[q] \in Upto(Q) BY <1>2, <2>1
  <2>3. /\ \A q \in T0 : g[q] \in Int
        /\ SumFunction(g) = SumFunctionOnSet(g, T0)
        /\ IsFiniteSet(T0)
    BY <2>2, AboveInt
  <2>4. ASSUME NEW q \in T0 PROVE f[q] \in Int /\ g[q] = f[q]
    <3>1. q \in Upto(N) BY <2>1
    <3>2. inv[q] \in Int /\ E[q][c] \in Int BY <1>3, <3>1 DEF IntVector, IntMatrix
    <3>3. \A a1, b1 \in Int : a1 * b1 = b1 * a1 OBVIOUS
    <3>4. g[q] = E[q][c] * inv[q] BY DEF Above
    <3>5. f[q] = inv[q] * E[q][c] /\ f[q] \in Int BY <1>4, <3>1
    <3> QED BY <3>2, <3>3, <3>4, <3>5
  <2>5. inv[c] = (- dg[c] * SumFunction(g)) % Q BY <1>2, <1>12
  <2> HIDE DEF T0, U0, g
  <2>6. SumFunctionOnSet(f, T0) = SumFunctionOnSet(g, T0) BY <2>3, <2>4, SumEqual
  <2>7. S2 \in Int BY <2>3, <2>4, SumInt
  <2>8. S1 = SumFunctionOnSet(f, U0)
    <3>1. \A q \in Upto(N) \ U0 : f[q] = 0 BY <1>5, <2>1
    <3>2. \A q \in U0 : f[q] \in Int BY <1>4, <2>1
    <3> QED BY <1>6, <2>1, <3>1, <3>2, SumPad
  <2>9. SumFunctionOnSet(f, U0) = f[c] + S2
    <3>1. \A q \in Upto(N) : f[q] \in Int BY <1>4
    <3>2. SumFunctionOnSet(f, T0 \cup {c}) = f[c] + SumFunctionOnSet(f, T0)
      BY <1>6, <2>1, <3>1, SumAdd
    <3> QED BY <3>2 DEF U0
  <2> DEFINE s == S2
             d == dg[c]
             e == E[c][c]
             v == inv[c]
  <2>10. v = (- d * s) % Q BY <2>3, <2>5, <2>6
  <2>11. f[c] = v * e BY <1>4
  <2>12. s \in Int /\ d \in Int /\ e \in Int /\ (e * d) % Q = 1 /\ - d * s \in Int
    <3>1. s \in Int /\ d \in Int /\ e \in Int /\ (e * d) % Q = 1 BY <1>8, <2>7
    <3> HIDE DEF s, d, e
    <3>2. \A a1, b1 \in Int : - a1 * b1 \in Int OBVIOUS
    <3> QED BY <3>1, <3>2
  <2> HIDE DEF s, d, e, v, S2, S1
  <2>13. v \in Int BY <2>10, <2>12, ResidueType, Modulus DEF Upto
  <2>14. Congruent(Q, v, - d * s) BY <2>10, <2>12, Modulus, CongruentMod
  <2> DEFINE w == - d * s
             ed == e * d
             xs == ed * s
  <2>15. w \in Int /\ ed \in Int /\ ed % Q = 1 /\ xs \in Int
    <3>1. \A a1, b1 \in Int : a1 * b1 \in Int OBVIOUS
    <3>2. ed \in Int BY <2>12, <3>1
    <3> HIDE DEF ed
    <3>3. xs \in Int BY <2>12, <3>1, <3>2
    <3> QED BY <2>12, <3>2, <3>3 DEF ed
  <2>16. Congruent(Q, v * e, w * e)
    <3> HIDE DEF w
    <3>1. Congruent(Q, v, w) BY <2>14 DEF w
    <3>2. Congruent(Q, e, e) BY CongruentSame
    <3> QED BY <2>12, <2>13, <2>15, <3>1, <3>2, Modulus, CongruentTimes
  <2>17. w * e = - xs
    <3>1. \A a1, b1, c1 \in Int : (- a1 * b1) * c1 = - ((c1 * a1) * b1) OBVIOUS
    <3> QED BY <2>12, <3>1
  <2>18. Congruent(Q, xs, s)
    <3>1. 1 % Q = 1 BY Modulus, ModSmall
    <3>2. Congruent(Q, ed, 1) BY <2>15, <3>1 DEF Congruent
    <3>3. Congruent(Q, s, s) BY CongruentSame
    <3> HIDE DEF ed
    <3>4. 1 \in Int OBVIOUS
    <3>5. Congruent(Q, ed * s, 1 * s)
      BY <2>12, <2>15, <3>2, <3>3, <3>4, Modulus, CongruentTimes
    <3>6. 1 * s = s BY <2>12
    <3> QED BY <3>5, <3>6
  <2> HIDE DEF xs, w, ed
  <2>19. Congruent(Q, (- xs) + s, (- s) + s)
    <3>1. Congruent(Q, 0, 0) /\ Congruent(Q, s, s) BY CongruentSame
    <3>2. 0 \in Int OBVIOUS
    <3>3. Congruent(Q, 0 - xs, 0 - s)
      BY <2>12, <2>15, <2>18, <3>1, <3>2, Modulus, CongruentMinus
    <3>4. 0 - xs = - xs /\ 0 - s = - s BY <2>12, <2>15
    <3>5. - xs \in Int /\ - s \in Int BY <2>12, <2>15
    <3>6. Congruent(Q, - xs, - s) BY <3>3, <3>4
    <3> DEFINE mx == - xs
               ms == - s
    <3> HIDE DEF mx, ms
    <3>7. Congruent(Q, mx + s, ms + s)
      BY <2>12, <3>1, <3>5, <3>6, Modulus, CongruentPlus DEF mx, ms
    <3> QED BY <3>7 DEF mx, ms
  <2>20. Congruent(Q, v * e + s, (- xs) + s)
    <3> DEFINE ve == v * e
               mx == - xs
    <3>1. ve \in Int /\ mx \in Int
      <4>1. \A a1, b1 \in Int : a1 * b1 \in Int OBVIOUS
      <4> QED BY <2>12, <2>13, <2>15, <4>1
    <3>2. Congruent(Q, ve, mx) BY <2>16, <2>17
    <3> HIDE DEF ve, mx
    <3>3. Congruent(Q, s, s) BY CongruentSame
    <3>4. Congruent(Q, ve + s, mx + s)
      BY <2>12, <3>1, <3>2, <3>3, Modulus, CongruentPlus
    <3> QED BY <3>4 DEF ve, mx
  <2>21. (- s) + s = 0 BY <2>12
  <2>22. Congruent(Q, v * e + s, 0) BY <2>19, <2>20, <2>21, CongruentChain
  <2>23. S1 = v * e + s BY <2>8, <2>9, <2>11 DEF s
  <2>24. S1 % Q = 0 BY <1>9, <2>22, <2>23 DEF Congruent
  <2> QED BY <1>1, <1>7, <1>12, <2>24 DEF col
<1> QED BY <1>1, <1>10, <1>11, <1>12

\* The inverses that inverse_mod_q has for the diagonal.
Diagonal(A) == [c \in Upto(N) |-> Inverse_mod_q(A[c][c])]

Transpose(A) == [r \in Upto(N) |-> [c \in Upto(N) |-> A[c][r]]]

\* A matrix with invertible diagonal.
Regular(A) == A \in Matrix(N, N) /\ \A c \in Upto(N) : A[c][c] \in 1 .. Q - 1

TriInverse(A, dg, r) == CHOOSE inv : TriRow(inv, dg, A, r)

\* The inverses of the diagonal.
LEMMA DiagonalLaw ==
  ASSUME NEW A, \A c \in Upto(N) : A[c][c] \in 1 .. Q - 1
  PROVE  /\ Diagonal(A) \in [Upto(N) -> Upto(Q)]
         /\ \A c \in Upto(N) : Diagonal(A)[c] \in 1 .. Q - 1
         /\ \A c \in Upto(N) : (A[c][c] * Diagonal(A)[c]) % Q = 1
<1>1. ASSUME NEW c \in Upto(N)
      PROVE  /\ Inverse_mod_q(A[c][c]) \in 1 .. Q - 1
             /\ (A[c][c] * Inverse_mod_q(A[c][c])) % Q = 1
  BY InverseIs
<1>2. 1 .. Q - 1 \subseteq Upto(Q) BY Modulus DEF Upto
<1> QED BY <1>1, <1>2 DEF Diagonal

\* A transposed matrix is a matrix.
LEMMA TransposeInt ==
  ASSUME NEW A, IntMatrix(N, N, A)
  PROVE  IntMatrix(N, N, Transpose(A))
BY DEF IntMatrix, IntVector, Transpose

\* What the loop of the lower triangle computes.
LEMMA LowerRows ==
  ASSUME NEW A, Regular(A)
  PROVE  /\ LowerInverse(A) = [r \in Upto(N) |-> TriInverse(A, Diagonal(A), r)]
         /\ \A r \in Upto(N) : TriRow(TriInverse(A, Diagonal(A), r), Diagonal(A), A, r)
<1> DEFINE dg == Diagonal(A)
           Body(inv, r) ==
             [c \in Upto(N) |->
                IF r < c THEN 0 ELSE IF r = c THEN Inverse_mod_q(A[c][c])
                ELSE (- Inverse_mod_q(A[c][c])
                        * SumFunction([q \in c + 1 .. r |-> A[q][c] * inv[q]])) % Q]
<1>1. \A inv, r : TriRow(inv, dg, A, r) <=> inv = Body(inv, r)
  <2> SUFFICES ASSUME NEW inv, NEW r PROVE TriRow(inv, dg, A, r) <=> inv = Body(inv, r)
    OBVIOUS
  <2>1. \A c \in Upto(N) : dg[c] = Inverse_mod_q(A[c][c]) BY DEF Diagonal
  <2>2. Body(inv, r)
          = [c \in Upto(N) |->
               IF r < c THEN 0 ELSE IF r = c THEN dg[c]
               ELSE (- dg[c] * SumFunction([q \in c + 1 .. r |-> A[q][c] * inv[q]])) % Q]
    <3> HIDE DEF dg
    <3> QED BY <2>1
  <2> HIDE DEF dg, Body
  <2> QED BY <2>2 DEF TriRow
<1>2. LowerInverse(A) = [r \in Upto(N) |-> CHOOSE inv : inv = Body(inv, r)]
  BY DEF LowerInverse
<1>3. \A r : (CHOOSE inv : inv = Body(inv, r)) = TriInverse(A, dg, r)
  <2> HIDE DEF Body, dg
  <2> QED BY <1>1 DEF TriInverse
<1>4. LowerInverse(A) = [r \in Upto(N) |-> TriInverse(A, dg, r)]
  <2> HIDE DEF Body, dg
  <2> QED BY <1>2, <1>3, Zenon
<1>5. ASSUME NEW r \in Upto(N) PROVE TriRow(TriInverse(A, dg, r), dg, A, r)
  <2>1. IntMatrix(N, N, A) BY MatrixInt DEF Regular
  <2>2. dg \in [Upto(N) -> Upto(Q)] BY DiagonalLaw DEF Regular
  <2> HIDE DEF dg
  <2>3. \E inv : TriRow(inv, dg, A, r) BY <2>1, <2>2, TriExists
  <2> QED BY <2>3 DEF TriInverse
<1> QED BY <1>4, <1>5

\* UpperInverse, whose columns are substituted, by rows of the transposed
\* matrix.
LEMMA UpperRows ==
  ASSUME NEW A, Regular(A)
  PROVE  /\ UpperInverse(A) = [r \in Upto(N) |-> [c \in Upto(N) |->
                                 TriInverse(Transpose(A), Diagonal(A), c)[r]]]
         /\ \A c \in Upto(N) : TriRow(TriInverse(Transpose(A), Diagonal(A), c),
                                      Diagonal(A), Transpose(A), c)
<1> DEFINE dg == Diagonal(A)
           E == Transpose(A)
           Body(inv, c) ==
             [r \in Upto(N) |->
                IF r > c THEN 0 ELSE IF r = c THEN Inverse_mod_q(A[r][r])
                ELSE (- Inverse_mod_q(A[r][r])
                        * SumFunction([q \in r + 1 .. c |-> A[r][q] * inv[q]])) % Q]
<1>1. ASSUME NEW c \in Upto(N), NEW inv
      PROVE  TriRow(inv, dg, E, c) <=> inv = Body(inv, c)
  <2>1. \A r \in Upto(N) : dg[r] = Inverse_mod_q(A[r][r]) BY DEF Diagonal
  <2>2. ASSUME NEW r \in Upto(N)
        PROVE  [q \in r + 1 .. c |-> A[r][q] * inv[q]] = [q \in r + 1 .. c |-> E[q][r] * inv[q]]
    <3>1. ASSUME NEW q \in r + 1 .. c PROVE E[q][r] = A[r][q]
      <4>1. q \in Upto(N) BY Dimensions DEF Upto
      <4> QED BY <4>1 DEF Transpose
    <3> HIDE DEF E
    <3> QED BY <3>1
  <2>3. \A r \in Upto(N) : r \in Int BY Dimensions DEF Upto
  <2>4. ASSUME NEW r \in Upto(N)
        PROVE  (IF r > c THEN 0 ELSE IF r = c THEN Inverse_mod_q(A[r][r])
                ELSE (- Inverse_mod_q(A[r][r])
                        * SumFunction([q \in r + 1 .. c |-> A[r][q] * inv[q]])) % Q)
             = (IF c < r THEN 0 ELSE IF c = r THEN dg[r]
                ELSE (- dg[r] * SumFunction([q \in r + 1 .. c |-> E[q][r] * inv[q]])) % Q)
    <3> DEFINE s1 == SumFunction([q \in r + 1 .. c |-> A[r][q] * inv[q]])
               s2 == SumFunction([q \in r + 1 .. c |-> E[q][r] * inv[q]])
    <3>1. s1 = s2 BY <2>2, Zenon
    <3> HIDE DEF s1, s2, dg, E
    <3>2. (IF r > c THEN 0 ELSE IF r = c THEN Inverse_mod_q(A[r][r])
                ELSE (- Inverse_mod_q(A[r][r]) * s1) % Q)
             = (IF c < r THEN 0 ELSE IF c = r THEN dg[r]
                ELSE (- dg[r] * s2) % Q)
      BY <2>1, <2>3, <3>1
    <3> QED BY <3>2 DEF s1, s2
  <2>5. Body(inv, c)
          = [r \in Upto(N) |->
               IF c < r THEN 0 ELSE IF c = r THEN dg[r]
               ELSE (- dg[r] * SumFunction([q \in r + 1 .. c |-> E[q][r] * inv[q]])) % Q]
    <3> HIDE DEF dg, E
    <3> QED BY <2>4, Zenon
  <2> HIDE DEF dg, Body, E
  <2> QED BY <2>5 DEF TriRow
<1> DEFINE Chosen(c) == CHOOSE inv : inv = Body(inv, c)
           Inverted(c) == TriInverse(E, dg, c)
<1>2. UpperInverse(A) = [r \in Upto(N) |-> [c \in Upto(N) |-> Chosen(c)[r]]]
  BY DEF UpperInverse
<1>3. \A c \in Upto(N) : Chosen(c) = Inverted(c)
  <2> HIDE DEF Body, dg, E
  <2> QED BY <1>1 DEF TriInverse
<1>4. UpperInverse(A) = [r \in Upto(N) |-> [c \in Upto(N) |-> TriInverse(E, dg, c)[r]]]
  <2> HIDE DEF Chosen, Inverted
  <2>1. [r \in Upto(N) |-> [c \in Upto(N) |-> Chosen(c)[r]]]
          = [r \in Upto(N) |-> [c \in Upto(N) |-> Inverted(c)[r]]]
    BY <1>3
  <2>2. UpperInverse(A) = [r \in Upto(N) |-> [c \in Upto(N) |-> Inverted(c)[r]]]
    BY <1>2, <2>1, Zenon
  <2> QED BY <2>2 DEF Inverted
<1>5. ASSUME NEW c \in Upto(N) PROVE TriRow(TriInverse(E, dg, c), dg, E, c)
  <2>1. IntMatrix(N, N, A) BY MatrixInt DEF Regular
  <2>2. IntMatrix(N, N, E) BY <2>1, TransposeInt
  <2>3. dg \in [Upto(N) -> Upto(Q)] BY DiagonalLaw DEF Regular
  <2> HIDE DEF dg, E
  <2>4. \E inv : TriRow(inv, dg, E, c) BY <2>2, <2>3, TriExists
  <2> QED BY <2>4 DEF TriInverse
<1> QED BY <1>4, <1>5

\* LowerInverse is a left inverse.
LEMMA LowerInverts ==
  ASSUME NEW A, Regular(A), Lower(A)
  PROVE  /\ LowerInverse(A) \in Matrix(N, N)
         /\ Product(N, N, N, LowerInverse(A), A) = Id
<1> DEFINE dg == Diagonal(A)
           V == LowerInverse(A)
<1>1. IntMatrix(N, N, A) /\ A \in Matrix(N, N) BY MatrixInt DEF Regular
<1>2. /\ dg \in [Upto(N) -> Upto(Q)]
      /\ \A c \in Upto(N) : (A[c][c] * dg[c]) % Q = 1
  BY DiagonalLaw DEF Regular
<1>3. V = [r \in Upto(N) |-> TriInverse(A, dg, r)] BY LowerRows
<1>4. \A r \in Upto(N) : TriRow(TriInverse(A, dg, r), dg, A, r) BY LowerRows
<1> HIDE DEF dg, V
<1>5. \A r \in Upto(N) : TriRow(V[r], dg, A, r) BY <1>3, <1>4
<1>6. V \in Matrix(N, N)
  <2>1. \A r \in Upto(N) : V[r] \in [Upto(N) -> Upto(Q)] BY <1>1, <1>2, <1>5, TriLaw
  <2> QED BY <1>3, <2>1 DEF Matrix
<1>7. IntMatrix(N, N, V) BY <1>6, MatrixInt
<1> DEFINE P == Product(N, N, N, V, A)
<1>8. P \in Matrix(N, N) BY <1>1, <1>7, Dimensions, ProductType
<1>9. ASSUME NEW r \in Upto(N), NEW c \in Upto(N) PROVE P[r][c] = Id[r][c]
  <2>1. P[r][c] = Dot(N, V[r], Column(N, A, c)) % Q BY ProductAt
  <2>2. TriRow(V[r], dg, A, r) BY <1>5
  <2>3. Dot(N, V[r], Column(N, A, c)) % Q = IF r = c THEN 1 ELSE 0
    BY <1>1, <1>2, <2>2, TriDot
  <2> QED BY <2>1, <2>3 DEF Id
<1> HIDE DEF P
<1>10. P = Id BY <1>8, <1>9, IdType, MatrixEqual
<1> QED BY <1>6, <1>10 DEF P, V

Upper(A) == \A r, c \in Upto(N) : c < r => A[r][c] = 0

\* UpperInverse is a right inverse, upper triangular with units on the diagonal
\* itself.
LEMMA UpperRight ==
  ASSUME NEW A, Regular(A), Upper(A)
  PROVE  /\ Regular(UpperInverse(A)) /\ Upper(UpperInverse(A))
         /\ Product(N, N, N, A, UpperInverse(A)) = Id
<1> DEFINE dg == Diagonal(A)
           E == Transpose(A)
           V == UpperInverse(A)
           U(c) == TriInverse(E, dg, c)
<1>1. IntMatrix(N, N, A) /\ A \in Matrix(N, N) BY MatrixInt DEF Regular
<1>2. /\ dg \in [Upto(N) -> Upto(Q)]
      /\ \A c \in Upto(N) : (A[c][c] * dg[c]) % Q = 1 /\ dg[c] \in 1 .. Q - 1
  BY DiagonalLaw DEF Regular
<1>3. V = [r \in Upto(N) |-> [c \in Upto(N) |-> U(c)[r]]] BY UpperRows
<1>4. \A c \in Upto(N) : TriRow(U(c), dg, E, c) BY UpperRows
<1>5. IntMatrix(N, N, E) BY <1>1, TransposeInt
<1>6. Lower(E) BY DEF Lower, Upper, Transpose
<1>7. \A r, c \in Upto(N) : E[c][r] = A[r][c] BY DEF Transpose
<1> HIDE DEF dg, V, U, E
<1>8. \A c \in Upto(N) : /\ U(c) \in [Upto(N) -> Upto(Q)]
                         /\ U(c)[c] = dg[c]
                         /\ \A r \in Upto(N) : c < r => U(c)[r] = 0
  BY <1>2, <1>4, <1>5, TriLaw
<1>9. V \in Matrix(N, N)
  <2>1. \A r, c \in Upto(N) : U(c)[r] \in Upto(Q) BY <1>8
  <2> QED BY <1>3, <2>1 DEF Matrix
<1>10. Regular(V)
  <2>1. \A c \in Upto(N) : V[c][c] \in 1 .. Q - 1 BY <1>2, <1>3, <1>8
  <2> QED BY <1>9, <2>1 DEF Regular
<1>11. Upper(V) BY <1>3, <1>8 DEF Upper
<1> DEFINE P == Product(N, N, N, A, V)
<1>12. IntMatrix(N, N, V) BY <1>9, MatrixInt
<1>13. P \in Matrix(N, N) BY <1>1, <1>12, Dimensions, ProductType
<1>14. ASSUME NEW r \in Upto(N), NEW c \in Upto(N) PROVE P[r][c] = Id[r][c]
  <2>1. P[r][c] = Dot(N, A[r], Column(N, V, c)) % Q BY ProductAt
  <2>2. Column(N, V, c) = U(c)
    <3> DEFINE f == Column(N, V, c)
               X == Upto(N)
               Y == Upto(Q)
    <3>1. f = [e \in X |-> V[e][c]] BY DEF Column
    <3>2. \A e \in X : V[e][c] = U(c)[e] BY <1>3
    <3>3. U(c) \in [X -> Y] BY <1>8
    <3> HIDE DEF f, X, Y
    <3>4. f \in [X -> Y] /\ \A e \in X : f[e] = U(c)[e] BY <3>1, <3>2, <3>3
    <3>5. f = U(c) BY <3>3, <3>4, SameFunction
    <3> QED BY <3>5 DEF f
  <2>3. A[r] = Column(N, E, r)
    <3> DEFINE f == Column(N, E, r)
               X == Upto(N)
               Y == Upto(Q)
    <3>1. f = [e \in X |-> E[e][r]] BY DEF Column
    <3>2. \A e \in X : E[e][r] = A[r][e] BY <1>7
    <3>3. A[r] \in [X -> Y] BY <1>1 DEF Matrix
    <3> HIDE DEF f, X, Y
    <3>4. f \in [X -> Y] /\ \A e \in X : f[e] = A[r][e] BY <3>1, <3>2, <3>3
    <3>5. f = A[r] BY <3>3, <3>4, SameFunction
    <3> QED BY <3>5 DEF f
  <2>4. TriRow(U(c), dg, E, c) BY <1>4
  <2>5. Dot(N, U(c), Column(N, E, r)) % Q = IF c = r THEN 1 ELSE 0
    <3> DEFINE u == U(c)
    <3>1. TriRow(u, dg, E, c) BY <2>4
    <3>2. \A e \in Upto(N) : (E[e][e] * dg[e]) % Q = 1 BY <1>2, <1>7
    <3> HIDE DEF u
    <3>3. Dot(N, u, Column(N, E, r)) % Q = IF c = r THEN 1 ELSE 0
      BY <1>2, <1>5, <1>6, <3>1, <3>2, TriDot
    <3> QED BY <3>3 DEF u
  <2>6. IntVector(N, A[r]) BY <1>1 DEF IntMatrix
  <2>7. U(c) \in [Upto(N) -> Upto(Q)] BY <1>8
  <2>8. IntVector(N, U(c)) BY <2>7, VectorInt
  <2>9. Dot(N, A[r], U(c)) = Dot(N, U(c), A[r]) BY <2>6, <2>8, Dimensions, DotSwapped
  <2>10. P[r][c] = Dot(N, A[r], U(c)) % Q BY <2>1, <2>2, Zenon
  <2>11. Dot(N, U(c), A[r]) % Q = IF c = r THEN 1 ELSE 0 BY <2>3, <2>5, Zenon
  <2>12. P[r][c] = IF c = r THEN 1 ELSE 0 BY <2>9, <2>10, <2>11, Zenon
  <2> QED BY <2>12 DEF Id
<1> HIDE DEF P
<1>15. P = Id BY <1>13, <1>14, IdType, MatrixEqual
<1> QED BY <1>10, <1>11, <1>15 DEF P, V

\* A right inverse that has one itself is a left inverse.
LEMMA UpperInverts ==
  ASSUME NEW A, Regular(A), Upper(A)
  PROVE  /\ UpperInverse(A) \in Matrix(N, N)
         /\ Product(N, N, N, UpperInverse(A), A) = Id
<1> DEFINE V == UpperInverse(A)
           W == UpperInverse(V)
<1>1. Regular(V) /\ Upper(V) /\ Product(N, N, N, A, V) = Id BY UpperRight
<1> HIDE DEF V
<1>2. Regular(W) /\ Product(N, N, N, V, W) = Id BY <1>1, UpperRight
<1> HIDE DEF W
<1>3. A \in Matrix(N, N) /\ V \in Matrix(N, N) /\ W \in Matrix(N, N)
  BY <1>1, <1>2 DEF Regular
<1>4. IntMatrix(N, N, A) /\ IntMatrix(N, N, V) /\ IntMatrix(N, N, W)
  BY <1>3, MatrixInt
<1>5. Product(N, N, N, A, Product(N, N, N, V, W))
        = Product(N, N, N, Product(N, N, N, A, V), W)
  BY <1>4, Dimensions, ProductAssociates
<1>6. Product(N, N, N, A, Id) = A BY <1>3, Dimensions, TimesId
<1>7. Product(N, N, N, Id, W) = W BY <1>3, IdTimes
<1>8. A = W BY <1>1, <1>2, <1>5, <1>6, <1>7
<1> QED BY <1>2, <1>3, <1>8 DEF V

\* B of the signer and the inverse of it that key_gen has put into the public
\* key cancel: C*T*Binv times L*U is C*T.
LEMMA InverseCancels ==
  ASSUME NEW U, Regular(U), Upper(U), NEW E, Regular(E), Lower(E),
         NEW A \in Matrix(M, K * N), NEW B \in Matrix(K * N, N)
  PROVE  Product(M, N, N,
                 Product(M, K * N, N, A,
                         Product(K * N, N, N, B,
                                 Product(N, N, N, UpperInverse(U), LowerInverse(E)))),
                 Product(N, N, N, E, U))
           = Product(M, K * N, N, A, B)
<1> DEFINE UI == UpperInverse(U)
           EI == LowerInverse(E)
           BI == Product(N, N, N, UI, EI)
           LU == Product(N, N, N, E, U)
           TB == Product(K * N, N, N, B, BI)
           n2 == K * N
<1>1. UI \in Matrix(N, N) /\ Product(N, N, N, UI, U) = Id BY UpperInverts
<1>2. EI \in Matrix(N, N) /\ Product(N, N, N, EI, E) = Id BY LowerInverts
<1>3. U \in Matrix(N, N) /\ E \in Matrix(N, N) BY DEF Regular
<1>4. N \in Nat /\ M \in Nat /\ n2 \in Nat BY Dimensions
<1> HIDE DEF UI, EI, n2
<1>5. /\ IntMatrix(N, N, UI) /\ IntMatrix(N, N, EI) /\ IntMatrix(N, N, U)
      /\ IntMatrix(N, N, E)
  BY <1>1, <1>2, <1>3, MatrixInt
<1>6. IntMatrix(M, n2, A) /\ IntMatrix(n2, N, B) BY MatrixInt DEF n2
<1>7. BI \in Matrix(N, N) /\ LU \in Matrix(N, N) BY <1>4, <1>5, ProductType
<1>8. IntMatrix(N, N, BI) /\ IntMatrix(N, N, LU)
  <2> HIDE DEF BI, LU
  <2> QED BY <1>7, MatrixInt
<1>9. Product(N, N, N, BI, LU) = Id
  <2>1. Product(N, N, N, EI, LU) = Product(N, N, N, Product(N, N, N, EI, E), U)
    BY <1>4, <1>5, ProductAssociates
  <2>2. Product(N, N, N, EI, LU) = U BY <1>2, <1>3, <2>1, IdTimes
  <2>3. Product(N, N, N, UI, Product(N, N, N, EI, LU)) = Product(N, N, N, BI, LU)
    <3> HIDE DEF LU
    <3> QED BY <1>4, <1>5, <1>8, ProductAssociates
  <2> QED BY <1>1, <2>2, <2>3
<1> HIDE DEF BI, LU
<1>10. TB = Product(n2, N, N, B, BI) BY DEF n2
<1>11. TB \in Matrix(n2, N)
  BY <1>4, <1>6, <1>8, <1>10, ProductType
<1> HIDE DEF TB
<1>12. IntMatrix(n2, N, TB) BY <1>11, MatrixInt
<1>13. Product(M, n2, N, A, Product(n2, N, N, TB, LU))
         = Product(M, N, N, Product(M, n2, N, A, TB), LU)
  BY <1>4, <1>6, <1>8, <1>12, ProductAssociates
<1>14. Product(n2, N, N, TB, LU) = B
  <2>1. Product(n2, N, N, B, Product(N, N, N, BI, LU)) = Product(n2, N, N, TB, LU)
    BY <1>4, <1>6, <1>8, <1>10, ProductAssociates
  <2>2. B \in Matrix(n2, N) BY DEF n2
  <2>3. Product(n2, N, N, B, Id) = B BY <1>4, <2>2, TimesId
  <2> QED BY <1>9, <2>1, <2>3
<1> QED BY <1>13, <1>14 DEF TB, BI, LU, UI, EI, n2

-----------------------------------------------------------------------------
(* solve_z *)

t2 == TUPPLE[1]

\* The parameters of the rounding as the steps below use them.
LEMMA Bounds ==
  /\ ZBOUND \in Nat /\ 2 * ZBOUND + 1 < Q /\ Q \in Nat
  /\ t2 \in Nat /\ t2 >= ZBOUND + 1 /\ t2 <= 2 * ZBOUND + 1 /\ t2 > 0 /\ t2 < Q
  /\ TUPPLE[0] = 1
  /\ Q \div 2 \in Nat /\ 2 * (Q \div 2) <= Q /\ Q <= 2 * (Q \div 2) + 1
  /\ Q \div 2 <= (t2 + 1) * ZBOUND
BY SchemeAssumption DEF t2

\* The division of a number that is not negative leaves a quotient that, with
\* a small remainder, is within the bound, and otherwise below it.
LEMMA QuotientBound ==
  ASSUME NEW b \in Nat, NEW w \in Nat, t2 * b + w <= Q \div 2
  PROVE  b <= ZBOUND /\ (w > ZBOUND => b + 1 <= ZBOUND)
<1> DEFINE h == Q \div 2
           t == t2
           Z == ZBOUND
<1>1. h \in Nat /\ t \in Nat /\ Z \in Nat /\ t >= Z + 1 /\ h <= (t + 1) * Z BY Bounds
<1>2. t * b + w <= h OBVIOUS
<1> HIDE DEF h, t, Z
<1>3. \A c, d \in Nat : c >= d => t * c >= t * d
  <2> SUFFICES ASSUME NEW c \in Nat, NEW d \in Nat, c >= d PROVE t * c >= t * d OBVIOUS
  <2> DEFINE e == c - d
  <2>1. e \in Nat /\ c = d + e OBVIOUS
  <2> HIDE DEF e
  <2>2. \A u, v, q \in Nat : u * (v + q) = u * v + u * q /\ u * q \in Nat /\ u * v \in Nat
    OBVIOUS
  <2>3. t * (d + e) = t * d + t * e /\ t * e \in Nat /\ t * d \in Nat BY <1>1, <2>1, <2>2
  <2> QED BY <2>1, <2>3
<1>4. \A u, v \in Nat : (u + 1) * v = u * v + v /\ u * (v + 1) = u * v + u /\ u * v \in Nat
  OBVIOUS
<1>5. (t + 1) * Z = t * Z + Z /\ t * (Z + 1) = t * Z + t /\ t * Z \in Nat /\ t * b \in Nat
  BY <1>1, <1>4
<1> DEFINE tZ == t * Z
           tb == t * b
<1>6. tb + w <= tZ + Z /\ tZ \in Nat /\ tb \in Nat BY <1>1, <1>2, <1>5
<1>7. b >= Z + 1 => tb >= tZ + t
  <2>1. Z + 1 \in Nat BY <1>1
  <2> QED BY <1>3, <1>5, <2>1
<1>8. b >= Z => tb >= tZ BY <1>1, <1>3
<1> HIDE DEF tZ, tb
<1>9. b <= Z /\ (w > Z => b + 1 <= Z) BY <1>1, <1>6, <1>7, <1>8
<1> QED BY <1>9 DEF Z

Small(w) == w \in Int /\ - ZBOUND <= w /\ w <= ZBOUND

\* The two cases of the code, of either sign, in one pair of equations.
LEMMA ReduceLaw ==
  ASSUME NEW u \in Int, - (Q \div 2) <= u, u <= Q \div 2
  PROVE  Small(Reduce(u)[1]) /\ Small(Reduce(u)[2]) /\ Reduce(u)[1] - t2 * Reduce(u)[2] = u
<1> DEFINE y1 == Quot(u, t2)
           y2 == Rem(u, t2)
           sg == Signum(u)
           inside == y2 \in - ZBOUND .. ZBOUND
<1>1. Reduce(u)[1] = IF inside THEN y2 ELSE y2 - sg * t2 BY DEF Reduce, t2
<1>2. Reduce(u)[2] = IF inside THEN - y1 ELSE - (y1 + sg) BY DEF Reduce, t2
<1>3. PICK b \in Nat, w \in Nat :
        /\ w < t2 /\ t2 * b + w <= Q \div 2
        /\ \/ u >= 0 /\ y1 = b /\ y2 = w /\ u = t2 * b + w
           \/ u < 0 /\ y1 = - b /\ y2 = - w /\ u = - (t2 * b + w)
  <2> DEFINE p == IF u >= 0 THEN u ELSE - u
             b == p \div t2
             w == p % t2
  <2>1. p \in Nat /\ p <= Q \div 2 BY Bounds
  <2>2. t2 \in Nat /\ t2 > 0 BY Bounds
  <2> HIDE DEF p
  <2>3. b \in Nat /\ w \in Nat /\ w < t2 /\ p = t2 * b + w
    <3>1. w \in Int /\ 0 <= w /\ w < t2 BY <2>1, <2>2, ModType
    <3>2. b \in Int /\ p = t2 * b + w BY <2>1, <2>2, DivType, DivMod
    <3>3. b >= 0 BY <2>1, <2>2
    <3> QED BY <3>1, <3>2, <3>3
  <2>4. CASE u >= 0
    <3>1. p = u BY <2>4 DEF p
    <3>2. y1 = b BY <2>4, <3>1 DEF Quot
    <3>3. y2 = u - t2 * b BY <3>2 DEF Rem
    <3> DEFINE tb == t2 * b
    <3>4. tb \in Int /\ p = tb + w /\ y2 = u - tb BY <2>2, <2>3, <3>3
    <3> HIDE DEF tb, b, w
    <3>5. y2 = w BY <2>3, <3>1, <3>4
    <3> QED BY <2>1, <2>3, <2>4, <3>1, <3>2, <3>5
  <2>5. CASE u < 0
    <3>1. p = - u BY <2>5 DEF p
    <3>2. ~ (u >= 0) BY <2>5
    <3>3. y1 = - b BY <3>1, <3>2 DEF Quot
    <3>4. y2 = u - t2 * (- b) BY <3>3 DEF Rem
    <3> DEFINE tb == t2 * b
    <3>5. t2 * (- b) = - tb /\ tb \in Int
      <4> HIDE DEF b
      <4>1. \A v, q \in Int : v * (- q) = - (v * q) /\ v * q \in Int OBVIOUS
      <4> QED BY <2>2, <2>3, <4>1
    <3>6. p = tb + w BY <2>3
    <3> HIDE DEF tb, b, w
    <3>7. y2 = - w /\ u = - (tb + w) BY <2>3, <3>1, <3>4, <3>5, <3>6
    <3> QED BY <2>1, <2>3, <2>5, <3>3, <3>7 DEF tb
  <2> QED BY <2>4, <2>5
<1>4. b <= ZBOUND /\ (w > ZBOUND => b + 1 <= ZBOUND) BY <1>3, QuotientBound
<1> DEFINE tb == t2 * b
<1>5. tb \in Int /\ t2 \in Int /\ ZBOUND \in Int /\ t2 <= 2 * ZBOUND + 1
  <2>1. \A v, q \in Int : v * q \in Int OBVIOUS
  <2> QED BY <2>1, Bounds
<1>6. \A v, q \in Int : /\ v * (- q) = - (v * q) /\ v * (q + 1) = v * q + v
                        /\ v * (- (q + 1)) = - (v * q) - v
  OBVIOUS
<1>7. t2 * (- b) = - tb /\ t2 * (b + 1) = tb + t2 /\ t2 * (- (b + 1)) = - tb - t2
  BY <1>5, <1>6
<1> HIDE DEF tb, y1, y2
<1>8. CASE u >= 0
  <2>1. y1 = b /\ y2 = w /\ u = tb + w BY <1>3, <1>8 DEF tb
  <2>2. CASE inside
    <3>1. Reduce(u)[1] = w /\ Reduce(u)[2] = - b BY <1>1, <1>2, <2>1, <2>2
    <3>2. w <= ZBOUND BY <2>1, <2>2, <1>5
    <3>3. t2 * (- b) = - tb BY <1>7
    <3>4. Small(w) /\ Small(- b) BY <1>4, <1>5, <3>2 DEF Small
    <3>5. w - t2 * (- b) = u BY <1>5, <2>1, <3>3
    <3> QED BY <3>1, <3>4, <3>5
  <2>3. CASE ~ inside
    <3>1. w > ZBOUND BY <1>5, <2>1, <2>3
    <3>2. u > 0
      <4>1. tb >= 0 BY Bounds DEF tb
      <4> QED BY <1>5, <2>1, <3>1, <4>1, Bounds
    <3>3. sg = 1 BY <3>2 DEF Signum
    <3>4. Reduce(u)[1] = w - t2 /\ Reduce(u)[2] = - (b + 1)
      BY <1>1, <1>2, <1>5, <2>1, <2>3, <3>3
    <3> QED BY <1>3, <1>4, <1>5, <1>7, <2>1, <3>1, <3>4 DEF Small
  <2> QED BY <2>2, <2>3
<1>9. CASE u < 0
  <2>1. y1 = - b /\ y2 = - w /\ u = - (tb + w) BY <1>3, <1>9 DEF tb
  <2>2. CASE inside
    <3>1. Reduce(u)[1] = - w /\ Reduce(u)[2] = b BY <1>1, <1>2, <2>1, <2>2
    <3>2. w <= ZBOUND BY <2>1, <2>2, <1>5
    <3>3. t2 * b = tb BY DEF tb
    <3> QED BY <1>4, <1>5, <2>1, <3>1, <3>2, <3>3 DEF Small
  <2>3. CASE ~ inside
    <3>1. w > ZBOUND BY <1>5, <2>1, <2>3
    <3>2. sg = -1 BY <1>9 DEF Signum
    <3>3. Reduce(u)[1] = - w + t2 /\ Reduce(u)[2] = b + 1
      BY <1>1, <1>2, <1>5, <2>1, <2>3, <3>2
    <3> QED BY <1>3, <1>4, <1>5, <1>7, <2>1, <3>1, <3>3 DEF Small
  <2> QED BY <2>2, <2>3
<1> QED BY <1>8, <1>9

\* s_mod_q is only ever given small numbers there.
LEMMA SmallLaw ==
  ASSUME NEW w, Small(w)
  PROVE  /\ s_mod_q(w) \in Upto(Q)
         /\ Congruent(Q, s_mod_q(w), w)
         /\ Magnitude(s_mod_q(w)) <= ZBOUND
<1>1. w \in Int /\ - ZBOUND <= w /\ w <= ZBOUND BY DEF Small
<1>2. CASE w < 0
  <2>1. s_mod_q(w) = w + Q BY <1>2 DEF s_mod_q
  <2>2. 1 \in Int OBVIOUS
  <2>3. (w + Q * 1) % Q = w % Q BY <1>1, <2>2, Modulus, ModShift
  <2>4. Q * 1 = Q BY Modulus
  <2>5. Congruent(Q, w + Q, w) BY <2>3, <2>4 DEF Congruent
  <2>6. w + Q \in Upto(Q) /\ Magnitude(w + Q) <= ZBOUND
    BY <1>1, <1>2, Bounds DEF Upto, Magnitude
  <2> QED BY <2>1, <2>5, <2>6
<1>3. CASE w >= 0
  <2>1. s_mod_q(w) = w BY <1>1, <1>3 DEF s_mod_q
  <2>2. w \in Upto(Q) /\ Magnitude(w) <= ZBOUND
    BY <1>1, <1>3, Bounds DEF Upto, Magnitude
  <2> QED BY <2>1, <2>2, CongruentSame
<1> QED BY <1>1, <1>2, <1>3

\* The centred representative of a residue is small and congruent to it.
LEMMA CenteredLaw ==
  ASSUME NEW v \in Upto(Q)
  PROVE  /\ Centered(v) \in Int /\ - (Q \div 2) <= Centered(v) /\ Centered(v) <= Q \div 2
         /\ Congruent(Q, Centered(v), v)
<1>1. v \in Int /\ 0 <= v /\ v < Q BY Modulus DEF Upto
<1>2. CASE v <= Q \div 2
  <2>1. Centered(v) = v BY <1>2 DEF Centered
  <2> QED BY <1>1, <1>2, <2>1, Bounds, CongruentSame
<1>3. CASE ~ (v <= Q \div 2)
  <2>1. Centered(v) = v - Q BY <1>3 DEF Centered
  <2>2. (v + Q * (-1)) % Q = v % Q BY <1>1, Modulus, ModShift
  <2>3. v + Q * (-1) = v - Q BY <1>1, Modulus
  <2>4. Congruent(Q, v - Q, v) BY <2>2, <2>3 DEF Congruent
  <2>5. - (Q \div 2) <= v - Q /\ v - Q <= Q \div 2 /\ v - Q \in Int
    BY <1>1, <1>3, Bounds
  <2> QED BY <2>1, <2>4, <2>5
<1> QED BY <1>2, <1>3

\* A pair of equations with unit triangular matrix, solved modulo Q.
Pair(b0, b1, v, s0, s1, t) ==
  Congruent(Q, v + s0, b0) /\ Congruent(Q, t * v + s1, b1)

\* What the two rows of one unknown need: rounded multiples that differ from
\* the targets by their errors.
LEMMA PairSolved ==
  ASSUME NEW b0 \in Int, NEW b1 \in Int, NEW v \in Int, NEW s0 \in Int, NEW s1 \in Int,
         NEW z0 \in Int, NEW z1 \in Int, NEW u \in Int, NEW t \in Int,
         Congruent(Q, v, b0 - s0), Congruent(Q, s0, z0), Congruent(Q, s1, z1),
         z1 - t * z0 = u, Congruent(Q, u, b1 - t * b0)
  PROVE  Pair(b0, b1, v, s0, s1, t)
<1>1. Q \in Nat /\ Q > 0 BY Modulus
<1>2. Congruent(Q, s0, s0) /\ Congruent(Q, b0, b0) /\ Congruent(Q, t, t) BY CongruentSame
<1>3. Congruent(Q, v + s0, b0)
  <2> DEFINE d == b0 - s0
  <2>1. d \in Int /\ d + s0 = b0 /\ Congruent(Q, v, d) OBVIOUS
  <2> HIDE DEF d
  <2>2. Congruent(Q, v + s0, d + s0) BY <1>1, <1>2, <2>1, CongruentPlus
  <2> QED BY <2>1, <2>2
<1>4. Congruent(Q, v, b0 - z0)
  <2>1. Congruent(Q, b0 - s0, b0 - z0) BY <1>1, <1>2, CongruentMinus
  <2> QED BY <2>1, CongruentChain
<1> DEFINE d == b0 - z0
           td == t * d
           tv == t * v
           tb == t * b0
           tz == t * z0
<1>5. d \in Int /\ Congruent(Q, v, d) BY <1>4
<1>6. \A c, e, f \in Int : c * e \in Int /\ c * (e - f) = c * e - c * f OBVIOUS
<1>7. td = tb - tz /\ tb \in Int /\ tz \in Int /\ td \in Int /\ tv \in Int BY <1>6
<1>8. Congruent(Q, tv, td)
  <2> HIDE DEF d
  <2> QED BY <1>1, <1>2, <1>5, CongruentTimes
<1>9. z1 - tz = u /\ Congruent(Q, u, b1 - tb) OBVIOUS
<1> HIDE DEF td, tv, tb, tz, d
<1>10. Congruent(Q, tv + s1, td + z1) BY <1>1, <1>7, <1>8, CongruentPlus
<1>11. td + z1 = u + tb BY <1>7, <1>9
<1> DEFINE e == b1 - tb
<1>12. e \in Int /\ e + tb = b1 /\ Congruent(Q, u, e) BY <1>7, <1>9
<1> HIDE DEF e
<1>13. Congruent(Q, tb, tb) BY CongruentSame
<1>14. Congruent(Q, u + tb, e + tb) BY <1>1, <1>7, <1>12, <1>13, CongruentPlus
<1>15. Congruent(Q, tv + s1, b1) BY <1>10, <1>11, <1>12, <1>14, CongruentChain
<1> QED BY <1>3, <1>15 DEF tv, Pair

\* One pass of the loop.
Known(so, r, e) == SumFunction([c \in Upto(e) |-> T[r][c] * so[c].y])

Entry(so, target, e) ==
  LET tt0 == SumFunction([c \in Upto(e) |-> T[K * e][c] * so[c].y])
      tt1 == SumFunction([c \in Upto(e) |-> T[K * e + 1][c] * so[c].y])
      ax == (target[K * e + 1] - tt1 - TUPPLE[1] * (target[K * e] - tt0)) % Q
      zz == Reduce(Centered(ax))
  IN  [z1 |-> s_mod_q(zz[1]), z0 |-> s_mod_q(zz[2]),
       y  |-> (target[K * e] - tt0 - s_mod_q(zz[2])) % Q]

Solved == [z1 : Upto(Q), z0 : Upto(Q), y : Upto(Q)]

\* The two rows of an unknown.
LEMMA RowsOf ==
  ASSUME NEW e \in Upto(N)
  PROVE  K * e \in Upto(K * N) /\ K * e + 1 \in Upto(K * N) /\ K * e = 2 * e
BY Dimensions DEF Upto

KnownTerms(so, r, e) == [c \in Upto(e) |-> T[r][c] * so[c].y]

\* What the unknowns solved so far contribute to a row is an integer.
LEMMA KnownInt ==
  ASSUME T \in Matrix(K * N, N), NEW r \in Upto(K * N), NEW e \in Upto(N), NEW so,
         \A c \in Upto(e) : so[c].y \in Upto(Q)
  PROVE  /\ Known(so, r, e) \in Int
         /\ Known(so, r, e) = SumFunctionOnSet(KnownTerms(so, r, e), Upto(e))
         /\ \A c \in Upto(e) : KnownTerms(so, r, e)[c] \in Int
<1> DEFINE f == KnownTerms(so, r, e)
<1>1. e \in Nat /\ e < N BY Dimensions DEF Upto
<1>2. ASSUME NEW c \in Upto(e) PROVE f[c] \in Int
  <2>1. c \in Upto(N) BY <1>1, Dimensions DEF Upto
  <2>2. T[r][c] \in Upto(Q) BY <2>1 DEF Matrix
  <2>3. T[r][c] \in Int /\ so[c].y \in Int BY <2>2, SmallResidue
  <2>4. \A v, w \in Int : v * w \in Int OBVIOUS
  <2> QED BY <2>3, <2>4 DEF KnownTerms
<1>3. IsFiniteSet(Upto(e)) BY <1>1, UptoIs
<1>4. DOMAIN f = Upto(e) /\ Known(so, r, e) = SumFunction(f) BY DEF Known, KnownTerms
<1> HIDE DEF f
<1>5. SumFunctionOnSet(f, Upto(e)) \in Int BY <1>2, <1>3, SumInt
<1>6. SumFunction(f) = SumFunctionOnSet(f, Upto(e)) BY <1>4, SumIs
<1> QED BY <1>2, <1>4, <1>5, <1>6 DEF f

\* One pass of solve_z: its two errors are within the bound and its two rows
\* hold modulo Q.
LEMMA EntryLaw ==
  ASSUME T \in Matrix(K * N, N), NEW target \in [Upto(K * N) -> Upto(Q)],
         NEW e \in Upto(N), NEW so, \A c \in Upto(e) : so[c].y \in Upto(Q)
  PROVE  /\ Entry(so, target, e) \in Solved
         /\ Magnitude(Entry(so, target, e).z0) <= ZBOUND
         /\ Magnitude(Entry(so, target, e).z1) <= ZBOUND
         /\ Congruent(Q, Entry(so, target, e).y + Entry(so, target, e).z0,
                         target[K * e] - Known(so, K * e, e))
         /\ Congruent(Q, t2 * Entry(so, target, e).y + Entry(so, target, e).z1,
                         target[K * e + 1] - Known(so, K * e + 1, e))
<1> DEFINE b0 == target[K * e] - Known(so, K * e, e)
           b1 == target[K * e + 1] - Known(so, K * e + 1, e)
           w == b1 - t2 * b0
           u == Centered(w % Q)
           z1 == Reduce(u)[1]
           z0 == Reduce(u)[2]
           s1 == s_mod_q(z1)
           s0 == s_mod_q(z0)
           v == (b0 - s0) % Q
<1>1. Entry(so, target, e) = [z1 |-> s1, z0 |-> s0, y |-> v]
  BY DEF Entry, Known, t2
<1>2. target[K * e] \in Int /\ target[K * e + 1] \in Int
  <2>1. target[K * e] \in Upto(Q) /\ target[K * e + 1] \in Upto(Q) BY RowsOf
  <2> QED BY <2>1, SmallResidue
<1>3. Known(so, K * e, e) \in Int /\ Known(so, K * e + 1, e) \in Int BY RowsOf, KnownInt
<1>4. b0 \in Int /\ b1 \in Int BY <1>2, <1>3
<1> HIDE DEF b0, b1
<1>5. w \in Int
  <2>1. \A c, d \in Int : c * d \in Int OBVIOUS
  <2>2. t2 * b0 \in Int BY <1>4, <2>1, Bounds
  <2> QED BY <1>4, <2>2
<1>6. w % Q \in Upto(Q) /\ Congruent(Q, w % Q, w)
  <2> HIDE DEF w
  <2> QED BY <1>5, Modulus, ResidueType, CongruentMod
<1> DEFINE wq == w % Q
<1>7. /\ u \in Int /\ - (Q \div 2) <= u /\ u <= Q \div 2 /\ Congruent(Q, u, wq)
  <2>1. u = Centered(wq) OBVIOUS
  <2> HIDE DEF wq
  <2> QED BY <1>6, <2>1, CenteredLaw DEF wq
<1>8. Congruent(Q, u, w)
  <2> HIDE DEF u, w
  <2> QED BY <1>6, <1>7, CongruentChain DEF wq
<1> HIDE DEF u, wq
<1>9. Small(z1) /\ Small(z0) /\ z1 - t2 * z0 = u BY <1>7, ReduceLaw
<1> HIDE DEF z1, z0
<1>10. /\ s1 \in Upto(Q) /\ Congruent(Q, s1, z1) /\ Magnitude(s1) <= ZBOUND
       /\ s0 \in Upto(Q) /\ Congruent(Q, s0, z0) /\ Magnitude(s0) <= ZBOUND
  BY <1>9, SmallLaw
<1>11. s1 \in Int /\ s0 \in Int BY <1>10, SmallResidue
<1> HIDE DEF s1, s0
<1>12. v \in Upto(Q) /\ Congruent(Q, v, b0 - s0)
  <2> DEFINE d == b0 - s0
  <2>1. d \in Int BY <1>4, <1>11
  <2>2. v = d % Q OBVIOUS
  <2> HIDE DEF d, v
  <2>3. v \in Upto(Q) /\ Congruent(Q, v, d) BY <2>1, <2>2, Modulus, ResidueType, CongruentMod
  <2> QED BY <2>3 DEF d
<1> HIDE DEF v
<1>13. v \in Int BY <1>12, SmallResidue
<1>14. z0 \in Int /\ z1 \in Int /\ t2 \in Int BY <1>9, Bounds DEF Small
<1>15. Congruent(Q, v + s0, b0) /\ Congruent(Q, t2 * v + s1, b1)
  <2>1. Congruent(Q, u, b1 - t2 * b0) BY <1>8 DEF w
  <2>2. Congruent(Q, s0, z0) /\ Congruent(Q, s1, z1) /\ Congruent(Q, v, b0 - s0)
    BY <1>10, <1>12
  <2>3. z1 - t2 * z0 = u /\ u \in Int BY <1>7, <1>9
  <2> HIDE DEF w
  <2>4. Pair(b0, b1, v, s0, s1, t2)
    BY <1>4, <1>11, <1>13, <1>14, <2>1, <2>2, <2>3, PairSolved
  <2> QED BY <2>4 DEF Pair
<1>16. Entry(so, target, e) \in Solved BY <1>1, <1>10, <1>12 DEF Solved
<1>17. /\ Entry(so, target, e).z0 = s0 /\ Entry(so, target, e).z1 = s1
       /\ Entry(so, target, e).y = v
  BY <1>1
<1> QED BY <1>10, <1>15, <1>16, <1>17 DEF b0, b1

\* A pass uses no entry but those before its own.
LEMMA EntryLocal ==
  ASSUME NEW target, NEW e, NEW so, NEW sn, \A c \in Upto(e) : so[c] = sn[c]
  PROVE  Entry(so, target, e) = Entry(sn, target, e)
<1>1. [c \in Upto(e) |-> T[K * e][c] * so[c].y] = [c \in Upto(e) |-> T[K * e][c] * sn[c].y]
  OBVIOUS
<1>2. [c \in Upto(e) |-> T[K * e + 1][c] * so[c].y]
        = [c \in Upto(e) |-> T[K * e + 1][c] * sn[c].y]
  OBVIOUS
<1>3. Known(so, K * e, e) = Known(sn, K * e, e) BY <1>1, Zenon DEF Known
<1>4. Known(so, K * e + 1, e) = Known(sn, K * e + 1, e) BY <1>2, Zenon DEF Known
<1> DEFINE Form(k0, k1) ==
             LET ax == (target[K * e + 1] - k1 - TUPPLE[1] * (target[K * e] - k0)) % Q
                 zz == Reduce(Centered(ax))
             IN  [z1 |-> s_mod_q(zz[1]), z0 |-> s_mod_q(zz[2]),
                  y  |-> (target[K * e] - k0 - s_mod_q(zz[2])) % Q]
<1>5. \A s : Entry(s, target, e) = Form(Known(s, K * e, e), Known(s, K * e + 1, e))
  BY DEF Entry, Known
<1> HIDE DEF Form
<1> QED BY <1>3, <1>4, <1>5

SolvedBy(so, target) == so = [e \in Upto(N) |-> Entry(so, target, e)]

\* The passes can be made in turn.
LEMMA SolutionExists ==
  ASSUME T \in Matrix(K * N, N), NEW target \in [Upto(K * N) -> Upto(Q)]
  PROVE  \E so : SolvedBy(so, target)
<1> DEFINE V == Solved
           Nothing == [z1 |-> 0, z0 |-> 0, y |-> 0]
           G == [n \in Nat |-> [p \in [0 .. n - 1 -> V] |->
                   IF n < N THEN Entry(p, target, n) ELSE Nothing]]
<1>1. \A n \in Nat : \A p \in [0 .. n - 1 -> V] :
        G[n][p] = IF n < N THEN Entry(p, target, n) ELSE Nothing
  OBVIOUS
<1>2. Nothing \in V BY Modulus DEF Solved, Upto
<1>3. Yields(G, V)
  <2> HIDE DEF G, Nothing
  <2> SUFFICES ASSUME NEW n \in Nat, NEW p \in [0 .. n - 1 -> V] PROVE G[n][p] \in V
    BY DEF Yields
  <2>1. CASE n < N
    <3>1. n \in Upto(N) BY <2>1, Dimensions DEF Upto
    <3>2. \A c \in Upto(n) : p[c].y \in Upto(Q)
      <4>1. \A c \in Upto(n) : p[c] \in V BY DEF Upto
      <4> QED BY <4>1 DEF Solved
    <3>3. Entry(p, target, n) \in V BY <3>1, <3>2, EntryLaw
    <3> QED BY <1>1, <2>1, <3>3
  <2>2. CASE ~ (n < N) BY <1>1, <1>2, <2>2
  <2> QED BY <2>1, <2>2
<1> HIDE DEF G, V
<1>4. PICK f \in [Nat -> V] : Solves(f, G) BY <1>3, Recursion
<1> DEFINE so == [e \in Upto(N) |-> f[e]]
           rhs == [e \in Upto(N) |-> Entry(so, target, e)]
<1>5. ASSUME NEW e \in Upto(N) PROVE so[e] = Entry(so, target, e)
  <2>1. e \in Nat /\ e < N BY Dimensions DEF Upto
  <2>2. f[e] = G[e][Initial(f, e)] BY <1>4, <2>1 DEF Solves
  <2>3. Initial(f, e) \in [0 .. e - 1 -> V] BY <1>4, <2>1, InitialType
  <2>4. f[e] = Entry(Initial(f, e), target, e) BY <1>1, <2>1, <2>2, <2>3
  <2>5. ASSUME NEW c \in Upto(e) PROVE Initial(f, e)[c] = so[c]
    <3>1. c \in 0 .. e - 1 /\ c \in Upto(N) BY <2>1, Dimensions DEF Upto
    <3>2. Initial(f, e)[c] = f[c] BY <3>1, InitialAt
    <3> QED BY <3>1, <3>2
  <2> DEFINE p == Initial(f, e)
  <2>6. so[e] = Entry(p, target, e) BY <2>4
  <2>7. \A c \in Upto(e) : p[c] = so[c] BY <2>5
  <2> HIDE DEF so, p
  <2>8. Entry(p, target, e) = Entry(so, target, e) BY <2>7, EntryLocal
  <2> QED BY <2>6, <2>8
<1>6. so = rhs
  <2>1. so = [e \in Upto(N) |-> so[e]] /\ rhs = [e \in Upto(N) |-> rhs[e]] OBVIOUS
  <2>2. \A e \in Upto(N) : so[e] = rhs[e] BY <1>5
  <2> HIDE DEF so, rhs
  <2> QED BY <2>1, <2>2
<1>7. SolvedBy(so, target)
  <2> HIDE DEF so
  <2> QED BY <1>6 DEF SolvedBy
<1> QED BY <1>7

\* Every unknown is what its pass gave.
LEMMA SolutionType ==
  ASSUME T \in Matrix(K * N, N), NEW target \in [Upto(K * N) -> Upto(Q)],
         NEW so, SolvedBy(so, target)
  PROVE  /\ \A e \in Upto(N) : so[e] \in Solved
         /\ \A e \in Upto(N) : so[e] = Entry(so, target, e)
<1>1. \A e \in Upto(N) : so[e] = Entry(so, target, e) BY DEF SolvedBy
<1> DEFINE P == {n \in Nat : n < N => so[n] \in Solved}
<1>2. ASSUME NEW n \in Nat, \A l \in 0 .. n - 1 : l \in P PROVE n \in P
  <2> SUFFICES ASSUME n < N PROVE so[n] \in Solved OBVIOUS
  <2>1. n \in Upto(N) BY Dimensions DEF Upto
  <2>2. ASSUME NEW c \in Upto(n) PROVE so[c].y \in Upto(Q)
    <3>1. c \in 0 .. n - 1 /\ c < N BY Dimensions DEF Upto
    <3>2. so[c] \in Solved BY <1>2, <3>1
    <3> QED BY <3>2 DEF Solved
  <2>3. Entry(so, target, n) \in Solved BY <2>1, <2>2, EntryLaw
  <2> QED BY <1>1, <2>1, <2>3
<1>3. \A n \in Nat : n \in P
  <2> HIDE DEF P
  <2> QED BY <1>2, StrongInduction
<1>4. \A e \in Upto(N) : e \in Nat /\ e < N BY Dimensions DEF Upto
<1> QED BY <1>1, <1>3, <1>4

\* T as the fill loop leaves it.
Shape(A) == /\ A \in Matrix(K * N, N)
            /\ \A r \in Upto(K * N) : /\ A[r][r \div 2] = TUPPLE[r % K]
                                      /\ \A c \in Upto(N) : c > r \div 2 => A[r][c] = 0

TShape == Shape(T)

\* A row of T times y is what solve_z has added up and the entry at its end.
LEMMA RowOfT ==
  ASSUME TShape, NEW target \in [Upto(K * N) -> Upto(Q)], NEW so,
         \A e \in Upto(N) : so[e] \in Solved,
         NEW e \in Upto(N), NEW r \in Upto(K * N), r \div 2 = e,
         NEW v, v = [c \in Upto(N) |-> so[c].y]
  PROVE  Dot(N, T[r], v) = Known(so, r, e) + TUPPLE[r % K] * v[e]
<1> DEFINE f == Terms(N, T[r], v)
           g == KnownTerms(so, r, e)
           Y == Upto(e) \cup {e}
<1>1. e \in Nat /\ e < N /\ N \in Nat BY Dimensions DEF Upto
<1>2. /\ Upto(e) \subseteq Upto(N) /\ Y \in SUBSET Upto(N)
      /\ e \in Upto(N) \ Upto(e) /\ Upto(e) \in SUBSET Upto(N)
      /\ \A c \in Upto(N) \ Y : c > e
  BY <1>1 DEF Upto
<1>3. IsFiniteSet(Upto(N)) /\ IsFiniteSet(Upto(e)) BY <1>1, UptoIs
<1>4. \A c \in Upto(N) : v[c] = so[c].y /\ v[c] \in Int
  <2> SUFFICES ASSUME NEW c \in Upto(N) PROVE v[c] = so[c].y /\ v[c] \in Int
    OBVIOUS
  <2>1. v[c] = so[c].y OBVIOUS
  <2>2. so[c].y \in Upto(Q) BY DEF Solved
  <2> QED BY <2>1, <2>2, SmallResidue
<1>5. IntVector(N, T[r]) BY MatrixInt DEF TShape, Shape, IntMatrix
<1>6. IntVector(N, v) BY <1>4 DEF IntVector
<1>7. \A c \in Upto(N) : f[c] \in Int BY <1>1, <1>5, <1>6, TermsInt
<1>8. \A c \in Upto(N) : f[c] = T[r][c] * v[c] BY DEF Terms
<1>9. \A c \in Upto(e) : g[c] = f[c] /\ f[c] \in Int
  BY <1>2, <1>4, <1>7, <1>8 DEF KnownTerms
<1>10. \A c \in Upto(e) : so[c].y \in Upto(Q) BY <1>2 DEF Solved
<1>11. \A c \in Upto(N) \ Y : f[c] = 0
  <2> SUFFICES ASSUME NEW c \in Upto(N) \ Y PROVE f[c] = 0 OBVIOUS
  <2>1. T[r][c] = 0 BY <1>2 DEF TShape, Shape
  <2>2. v[c] \in Int BY <1>4
  <2>3. \A w \in Int : 0 * w = 0 OBVIOUS
  <2> QED BY <1>8, <2>1, <2>2, <2>3
<1>12. f[e] = TUPPLE[r % K] * v[e] BY <1>8 DEF TShape, Shape
<1>13. Known(so, r, e) = SumFunctionOnSet(g, Upto(e))
  BY <1>10, KnownInt DEF TShape, Shape
<1> HIDE DEF f, g, Y
<1>14. SumFunctionOnSet(f, Upto(N)) = SumFunctionOnSet(f, Y)
  BY <1>2, <1>3, <1>7, <1>11, SumPad
<1>15. SumFunctionOnSet(f, Upto(e) \cup {e}) = f[e] + SumFunctionOnSet(f, Upto(e))
  BY <1>2, <1>3, <1>7, SumAdd
<1>16. SumFunctionOnSet(f, Upto(e)) = SumFunctionOnSet(g, Upto(e))
  BY <1>3, <1>9, SumEqual
<1>17. Dot(N, T[r], v) = SumFunctionOnSet(f, Upto(N)) BY DotIs DEF f
<1>18. f[e] \in Int BY <1>7
<1>19. SumFunctionOnSet(f, Upto(e)) \in Int BY <1>3, <1>9, SumInt
<1> QED BY <1>12, <1>13, <1>14, <1>15, <1>16, <1>17, <1>18, <1>19 DEF Y

\* The result of solve_z.
LEMMA SolveZLaw ==
  ASSUME TShape, NEW target \in [Upto(K * N) -> Upto(Q)]
  PROVE  /\ SolveZ(target).y \in [Upto(N) -> Upto(Q)]
         /\ SolveZ(target).z \in [Upto(K * N) -> Upto(Q)]
         /\ \A r \in Upto(K * N) :
              /\ (Dot(N, T[r], SolveZ(target).y) + SolveZ(target).z[r]) % Q = target[r]
              /\ Magnitude(SolveZ(target).z[r]) <= ZBOUND
<1> DEFINE so == CHOOSE so : SolvedBy(so, target)
           yy == [e \in Upto(N) |-> so[e].y]
           zz == [e \in Upto(K * N) |-> IF e % K = 0 THEN so[e \div K].z0
                                        ELSE so[e \div K].z1]
<1>1. SolveZ(target).y = yy /\ SolveZ(target).z = zz
  BY DEF SolveZ, SolvedBy, Entry
<1>2. SolvedBy(so, target) BY SolutionExists DEF TShape, Shape
<1> HIDE DEF so
<1>3. \A e \in Upto(N) : so[e] \in Solved /\ so[e] = Entry(so, target, e)
  BY <1>2, SolutionType DEF TShape, Shape
<1>4. \A e \in Upto(N) : /\ so[e].y \in Upto(Q) /\ so[e].z0 \in Upto(Q)
                         /\ so[e].z1 \in Upto(Q)
  BY <1>3 DEF Solved
<1>5. ASSUME NEW r \in Upto(K * N)
      PROVE  /\ r \div 2 \in Upto(N) /\ r \div K = r \div 2 /\ r \in Int
             /\ \/ r % K = 0 /\ r = K * (r \div 2)
                \/ r % K = 1 /\ r = K * (r \div 2) + 1
  <2>1. K = 2 /\ r \in Nat /\ r < 2 * N /\ N \in Nat BY Dimensions DEF Upto
  <2> QED BY <2>1 DEF Upto
<1>6. yy \in [Upto(N) -> Upto(Q)] BY <1>4
<1>7. zz \in [Upto(K * N) -> Upto(Q)] BY <1>4, <1>5
<1>8. ASSUME NEW r \in Upto(K * N)
      PROVE  (Dot(N, T[r], yy) + zz[r]) % Q = target[r] /\ Magnitude(zz[r]) <= ZBOUND
  <2> DEFINE e == r \div 2
             w == Entry(so, target, e)
             known == Known(so, r, e)
  <2>1. e \in Upto(N) BY <1>5
  <2>2. \A c \in Upto(e) : so[c].y \in Upto(Q)
    <3>1. \A c \in Upto(e) : c \in Upto(N) BY <2>1, Dimensions DEF Upto
    <3> QED BY <1>4, <3>1
  <2>3. /\ Magnitude(w.z0) <= ZBOUND /\ Magnitude(w.z1) <= ZBOUND
        /\ Congruent(Q, w.y + w.z0, target[K * e] - Known(so, K * e, e))
        /\ Congruent(Q, t2 * w.y + w.z1, target[K * e + 1] - Known(so, K * e + 1, e))
    BY <2>1, <2>2, EntryLaw DEF TShape, Shape
  <2>4. so[e] = w BY <1>3, <2>1
  <2>5. Dot(N, T[r], yy) = known + TUPPLE[r % K] * yy[e]
    <3> HIDE DEF e
    <3>1. r \div 2 = e BY DEF e
    <3> DEFINE v == yy
    <3>2. v = [c \in Upto(N) |-> so[c].y] OBVIOUS
    <3>3. \A c \in Upto(N) : so[c] \in Solved BY <1>3
    <3> HIDE DEF v
    <3>4. Dot(N, T[r], v) = Known(so, r, e) + TUPPLE[r % K] * v[e]
      BY <2>1, <3>1, <3>2, <3>3, RowOfT
    <3> QED BY <3>4 DEF v
  <2>6. yy[e] = w.y BY <2>1, <2>4
  <2>7. w.y \in Int /\ w.z0 \in Int /\ w.z1 \in Int BY <1>4, <2>1, <2>4, SmallResidue
  <2>8. known \in Int /\ target[r] \in Upto(Q) /\ target[r] \in Int
    <3>1. known \in Int BY <2>1, <2>2, KnownInt DEF TShape, Shape
    <3>2. target[r] \in Upto(Q) OBVIOUS
    <3> QED BY <3>1, <3>2, SmallResidue
  <2> DEFINE part == (TUPPLE[r % K] * w.y) + zz[r]
  <2>9. /\ part \in Int /\ TUPPLE[r % K] * w.y \in Int /\ zz[r] \in Int
        /\ Congruent(Q, part, target[r] - known)
        /\ Magnitude(zz[r]) <= ZBOUND
    <3>1. CASE r % K = 0 /\ r = K * e
      <4>1. zz[r] = w.z0 BY <1>5, <2>4, <3>1
      <4>2. TUPPLE[r % K] * w.y = w.y BY <2>7, <3>1, Bounds
      <4> HIDE DEF w, zz
      <4> QED BY <2>3, <2>7, <3>1, <4>1, <4>2
    <3>2. CASE r % K = 1 /\ r = K * e + 1
      <4>1. zz[r] = w.z1 BY <1>5, <2>4, <3>2
      <4>2. TUPPLE[r % K] * w.y = t2 * w.y /\ t2 * w.y \in Int
        <5>1. \A c, d \in Int : c * d \in Int OBVIOUS
        <5>2. t2 * w.y \in Int BY <2>7, <5>1, Bounds
        <5> QED BY <3>2, <5>2 DEF t2
      <4> HIDE DEF w, zz
      <4> QED BY <2>3, <2>7, <3>2, <4>1, <4>2
    <3> QED BY <1>5, <3>1, <3>2
  <2>10. Dot(N, T[r], yy) + zz[r] = known + part
    BY <2>5, <2>6, <2>8, <2>9
  <2> DEFINE diff == target[r] - known
  <2>11. diff \in Int /\ known + diff = target[r] /\ Congruent(Q, part, diff) BY <2>8, <2>9
  <2>12. Congruent(Q, known, known) BY CongruentSame
  <2> HIDE DEF known, part, diff, zz, yy
  <2>13. Congruent(Q, known + part, known + diff)
    BY <2>8, <2>9, <2>11, <2>12, Modulus, CongruentPlus
  <2>14. (Dot(N, T[r], yy) + zz[r]) % Q = target[r] % Q
    BY <2>10, <2>11, <2>13 DEF Congruent
  <2>15. target[r] % Q = target[r] BY <2>8, SmallResidue
  <2> QED BY <2>9, <2>14, <2>15
<1> HIDE DEF yy, zz
<1> QED BY <1>1, <1>6, <1>7, <1>8

-----------------------------------------------------------------------------
(* The matrices as functions of a seed and of the draws made before *)

\* The seeds the generator is given: those at the start and secret keys.
Streams == Seeds \cup [1 .. SEEDBYTES -> 0 .. 255]

\* What the random generator returns is a number.
RandWords == \A seed \in Streams, n \in Nat : Rand(seed, n) \in Nat

TFrom(seed, n0) ==
  [r \in Upto(K * N) |-> [c \in Upto(N) |->
     LET n == SumFunction([q \in Upto(r) |-> q \div 2]) + c
     IN  IF c < r \div 2 THEN Rand(seed, n0 + n) % Q
         ELSE IF c = r \div 2 THEN TUPPLE[r % K] ELSE 0]]

LowerFrom(seed, n0) ==
  [r \in Upto(N) |-> [c \in Upto(N) |->
     LET n == SumFunction([q \in Upto(c) |-> N - q]) + (r - c)
     IN  IF r = c THEN 1 + (Rand(seed, n0 + n) % (Q - 1))
         ELSE IF r > c THEN Rand(seed, n0 + n) % Q ELSE 0]]

UpperFrom(seed, n0) ==
  [r \in Upto(N) |-> [c \in Upto(N) |->
     LET n == SumFunction([q \in Upto(c) |-> 1 + q])
     IN  IF r = c THEN 1 + (Rand(seed, n0 + n) % (Q - 1))
         ELSE IF r < c THEN Rand(seed, n0 + (n + 1 + r)) % Q ELSE 0]]

\* The draws of T, L and U depend on the seed and the position in its stream
\* only.
LEMMA DrawnAre ==
  /\ DrawnT = TFrom(drbg.seed, drbg.n)
  /\ DrawnLower = LowerFrom(drbg.seed, drbg.n)
  /\ DrawnUpper = UpperFrom(drbg.seed, drbg.n)
<1>1. DrawnT = TFrom(drbg.seed, drbg.n) BY DEF DrawnT, TFrom, DrawAt
<1>2. DrawnLower = LowerFrom(drbg.seed, drbg.n) BY DEF DrawnLower, LowerFrom, DrawAt
<1>3. DrawnUpper = UpperFrom(drbg.seed, drbg.n) BY DEF DrawnUpper, UpperFrom, DrawAt
<1> QED BY <1>1, <1>2, <1>3

\* A draw is below its bound.
LEMMA DrawBelow ==
  ASSUME RandWords, NEW seed \in Streams, NEW n \in Nat, NEW b \in Nat, b > 0
  PROVE  Rand(seed, n) % b \in Upto(b) /\ Rand(seed, n) % b \in Nat
<1>1. Rand(seed, n) \in Nat BY DEF RandWords
<1> DEFINE w == Rand(seed, n)
<1> HIDE DEF w
<1>2. w \in Int BY <1>1 DEF w
<1>3. w % b \in Int /\ 0 <= w % b /\ w % b \in 0 .. b - 1 BY <1>2, ModType
<1>4. w % b \in Nat BY <1>3
<1> QED BY <1>3, <1>4 DEF w, Upto

\* The draws of the rows and columns before.
LEMMA CountNat ==
  ASSUME NEW m \in Nat, NEW f, DOMAIN f = Upto(m), \A e \in Upto(m) : f[e] \in Nat
  PROVE  SumFunction(f) \in Nat
<1>1. IsFiniteSet(Upto(m)) BY UptoIs
<1>2. SumFunction(f) = SumFunctionOnSet(f, Upto(m)) BY SumIs
<1>3. SumFunctionOnSet(f, Upto(m)) \in Nat BY <1>1, SumNat
<1> QED BY <1>2, <1>3

\* The number of draws before a row is a natural number.
LEMMA HalvesNat ==
  ASSUME NEW m \in Nat
  PROVE  SumFunction([q \in Upto(m) |-> q \div 2]) \in Nat
<1> DEFINE f == [q \in Upto(m) |-> q \div 2]
<1>1. \A q \in Upto(m) : f[q] \in Nat BY DEF Upto
<1>2. DOMAIN f = Upto(m) OBVIOUS
<1> HIDE DEF f
<1>3. SumFunction(f) \in Nat BY <1>1, <1>2, CountNat
<1> QED BY <1>3 DEF f

\* T has the shape solve_z needs: 1 and TUPPLE[1] in the two rows of each
\* unknown, zeros before.
LEMMA TFromLaw ==
  ASSUME RandWords, NEW seed \in Streams, NEW n0 \in Nat
  PROVE  Shape(TFrom(seed, n0))
<1> DEFINE A == TFrom(seed, n0)
           before(r) == SumFunction([q \in Upto(r) |-> q \div 2])
           entry(r, c) == IF c < r \div 2 THEN Rand(seed, n0 + (before(r) + c)) % Q
                          ELSE IF c = r \div 2 THEN TUPPLE[r % K] ELSE 0
<1>1. A = [r \in Upto(K * N) |-> [c \in Upto(N) |-> entry(r, c)]] BY DEF TFrom
<1>2. ASSUME NEW r \in Upto(K * N)
      PROVE  /\ r \in Nat /\ r \div 2 \in Nat /\ r \div 2 \in Upto(N)
             /\ TUPPLE[r % K] \in Upto(Q)
             /\ before(r) \in Nat
  <2>1. K = 2 /\ r \in Nat /\ r < 2 * N /\ N \in Nat BY Dimensions DEF Upto
  <2>2. r \div 2 \in Nat /\ r \div 2 < N /\ r % 2 \in {0, 1} BY <2>1
  <2>3. TUPPLE[r % K] = 1 \/ TUPPLE[r % K] = t2
    <3>1. r % K \in {0, 1} BY <2>1, <2>2
    <3> QED BY <3>1, Bounds DEF t2
  <2>4. 1 \in Upto(Q) /\ t2 \in Upto(Q) BY Bounds DEF Upto
  <2>5. before(r) \in Nat BY <2>1, HalvesNat
  <2> QED BY <2>1, <2>2, <2>3, <2>4, <2>5 DEF Upto
<1> HIDE DEF before
<1>3. ASSUME NEW r \in Upto(K * N), NEW c \in Upto(N) PROVE entry(r, c) \in Upto(Q)
  <2>1. c \in Nat BY Dimensions DEF Upto
  <2>2. n0 + (before(r) + c) \in Nat BY <1>2, <2>1
  <2>3. Rand(seed, n0 + (before(r) + c)) % Q \in Upto(Q) BY <2>2, Modulus, DrawBelow
  <2>4. 0 \in Upto(Q) BY Modulus DEF Upto
  <2> QED BY <1>2, <2>3, <2>4
<1> HIDE DEF A, entry
<1>4. A \in Matrix(K * N, N) BY <1>1, <1>3 DEF Matrix
<1>5. ASSUME NEW r \in Upto(K * N)
      PROVE  /\ A[r][r \div 2] = TUPPLE[r % K]
             /\ \A c \in Upto(N) : c > r \div 2 => A[r][c] = 0
  <2>1. A[r][r \div 2] = TUPPLE[r % K] BY <1>1, <1>2 DEF entry
  <2>2. \A c \in Upto(N) : c \in Nat BY Dimensions DEF Upto
  <2>3. \A c \in Upto(N) : c > r \div 2 => A[r][c] = 0 BY <1>1, <1>2, <2>2 DEF entry
  <2> QED BY <2>1, <2>3
<1>6. Shape(A) BY <1>4, <1>5 DEF Shape
<1> QED BY <1>6 DEF A

\* A drawn diagonal has no zero.
LEMMA DiagonalDraw ==
  ASSUME RandWords, NEW seed \in Streams, NEW n \in Nat
  PROVE  1 + (Rand(seed, n) % (Q - 1)) \in 1 .. Q - 1
<1>1. Q - 1 \in Nat /\ Q - 1 > 0 BY Modulus
<1>2. Rand(seed, n) % (Q - 1) \in Upto(Q - 1) BY <1>1, DrawBelow
<1> QED BY <1>1, <1>2 DEF Upto

\* The drawn L is lower triangular with units on the diagonal.
LEMMA LowerFromLaw ==
  ASSUME RandWords, NEW seed \in Streams, NEW n0 \in Nat
  PROVE  Regular(LowerFrom(seed, n0)) /\ Lower(LowerFrom(seed, n0))
<1> DEFINE A == LowerFrom(seed, n0)
           before(c) == SumFunction([q \in Upto(c) |-> N - q])
           entry(r, c) == IF r = c THEN 1 + (Rand(seed, n0 + (before(c) + (r - c))) % (Q - 1))
                          ELSE IF r > c THEN Rand(seed, n0 + (before(c) + (r - c))) % Q
                          ELSE 0
<1>1. A = [r \in Upto(N) |-> [c \in Upto(N) |-> entry(r, c)]] BY DEF LowerFrom
<1>2. ASSUME NEW c \in Upto(N) PROVE before(c) \in Nat /\ c \in Nat
  <2> DEFINE f == [q \in Upto(c) |-> N - q]
  <2>1. c \in Nat /\ c < N /\ N \in Nat BY Dimensions DEF Upto
  <2>2. \A q \in Upto(c) : f[q] \in Nat BY <2>1 DEF Upto
  <2>3. DOMAIN f = Upto(c) OBVIOUS
  <2> HIDE DEF f
  <2>4. SumFunction(f) \in Nat BY <2>1, <2>2, <2>3, CountNat
  <2> QED BY <2>1, <2>4 DEF f
<1> HIDE DEF before
<1>3. ASSUME NEW r \in Upto(N), NEW c \in Upto(N)
      PROVE  /\ entry(r, c) \in Upto(Q) /\ (r = c => entry(r, c) \in 1 .. Q - 1)
             /\ (r < c => entry(r, c) = 0)
  <2>1. r \in Nat /\ c \in Nat /\ before(c) \in Nat BY <1>2
  <2> DEFINE n == n0 + (before(c) + (r - c))
  <2>2. r >= c => n \in Nat BY <2>1
  <2> HIDE DEF n
  <2>3. r = c => entry(r, c) = 1 + (Rand(seed, n) % (Q - 1)) BY DEF n
  <2>4. r > c => entry(r, c) = Rand(seed, n) % Q BY <2>1 DEF n
  <2>5. r < c => entry(r, c) = 0 BY <2>1
  <2>6. r > c => Rand(seed, n) % Q \in Upto(Q) BY <2>1, <2>2, Modulus, DrawBelow
  <2>7. r = c => 1 + (Rand(seed, n) % (Q - 1)) \in 1 .. Q - 1
    BY <2>1, <2>2, DiagonalDraw
  <2>8. 0 \in Upto(Q) /\ 1 .. Q - 1 \subseteq Upto(Q) BY Modulus DEF Upto
  <2> HIDE DEF entry
  <2>9. r = c \/ r > c \/ r < c BY <2>1
  <2>10. r = c => entry(r, c) \in 1 .. Q - 1 BY <2>3, <2>7
  <2>11. entry(r, c) \in Upto(Q) BY <2>4, <2>5, <2>6, <2>8, <2>9, <2>10
  <2> QED BY <2>5, <2>10, <2>11
<1> HIDE DEF A, entry
<1>4. A \in Matrix(N, N) BY <1>1, <1>3 DEF Matrix
<1>5. Regular(A) BY <1>1, <1>3, <1>4 DEF Regular
<1>6. Lower(A) BY <1>1, <1>3 DEF Lower
<1> QED BY <1>5, <1>6 DEF A

\* The drawn U is upper triangular with units on the diagonal.
LEMMA UpperFromLaw ==
  ASSUME RandWords, NEW seed \in Streams, NEW n0 \in Nat
  PROVE  Regular(UpperFrom(seed, n0)) /\ Upper(UpperFrom(seed, n0))
<1> DEFINE A == UpperFrom(seed, n0)
           before(c) == SumFunction([q \in Upto(c) |-> 1 + q])
           entry(r, c) == IF r = c THEN 1 + (Rand(seed, n0 + before(c)) % (Q - 1))
                          ELSE IF r < c THEN Rand(seed, n0 + (before(c) + 1 + r)) % Q
                          ELSE 0
<1>1. A = [r \in Upto(N) |-> [c \in Upto(N) |-> entry(r, c)]] BY DEF UpperFrom
<1>2. ASSUME NEW c \in Upto(N) PROVE before(c) \in Nat /\ c \in Nat
  <2> DEFINE f == [q \in Upto(c) |-> 1 + q]
  <2>1. c \in Nat /\ c < N /\ N \in Nat BY Dimensions DEF Upto
  <2>2. \A q \in Upto(c) : f[q] \in Nat BY <2>1 DEF Upto
  <2>3. DOMAIN f = Upto(c) OBVIOUS
  <2> HIDE DEF f
  <2>4. SumFunction(f) \in Nat BY <2>1, <2>2, <2>3, CountNat
  <2> QED BY <2>1, <2>4 DEF f
<1> HIDE DEF before
<1>3. ASSUME NEW r \in Upto(N), NEW c \in Upto(N)
      PROVE  /\ entry(r, c) \in Upto(Q) /\ (r = c => entry(r, c) \in 1 .. Q - 1)
             /\ (c < r => entry(r, c) = 0)
  <2>1. r \in Nat /\ c \in Nat /\ before(c) \in Nat BY <1>2
  <2> DEFINE n == n0 + before(c)
             l == n0 + (before(c) + 1 + r)
  <2>2. n \in Nat /\ l \in Nat BY <2>1
  <2> HIDE DEF n, l
  <2>3. r = c => entry(r, c) = 1 + (Rand(seed, n) % (Q - 1)) BY DEF n
  <2>4. r < c => entry(r, c) = Rand(seed, l) % Q BY <2>1 DEF l
  <2>5. c < r => entry(r, c) = 0 BY <2>1
  <2>6. Rand(seed, l) % Q \in Upto(Q) BY <2>2, Modulus, DrawBelow
  <2>7. 1 + (Rand(seed, n) % (Q - 1)) \in 1 .. Q - 1 BY <2>2, DiagonalDraw
  <2>8. 0 \in Upto(Q) /\ 1 .. Q - 1 \subseteq Upto(Q) BY Modulus DEF Upto
  <2> HIDE DEF entry
  <2>9. r = c \/ r < c \/ c < r BY <2>1
  <2>10. r = c => entry(r, c) \in 1 .. Q - 1 BY <2>3, <2>7
  <2>11. entry(r, c) \in Upto(Q) BY <2>4, <2>5, <2>6, <2>8, <2>9, <2>10
  <2> QED BY <2>5, <2>10, <2>11
<1> HIDE DEF A, entry
<1>4. A \in Matrix(N, N) BY <1>1, <1>3 DEF Matrix
<1>5. Regular(A) BY <1>1, <1>3, <1>4 DEF Regular
<1>6. Upper(A) BY <1>1, <1>3 DEF Upper
<1> QED BY <1>5, <1>6 DEF A

-----------------------------------------------------------------------------
(* Determinant and characteristic polynomial *)

\* Determinants are residues.
LEMMA MinorType ==
  ASSUME NEW I \in SUBSET Int, IsFiniteSet(I), NEW A, Square(A, I)
  PROVE  Minor(A, I) \in Upto(Q)
BY LeibnizInt, ResidueType DEF Minor

\* The coefficients are those of det(xI - A), reduced.
LEMMA CharPolyIs ==
  ASSUME NEW A, \A r, c \in Upto(M) : A[r][c] \in Int, NEW d \in 0 .. M
  PROVE  /\ CharCoeff(A, M, d) \in Int
         /\ CharPolyOf(M, A)[d] = CharCoeff(A, M, d) % Q
<1> DEFINE U == Upto(M)
           f == [I \in kSubset(M - d, U) |-> Minor(A, I)]
           s == Alternate(M - d)
           ms == MinorSum(A, U, M - d)
<1>1. M \in Nat /\ Q \in Nat /\ Q > 0 BY Dimensions, Modulus
<1>2. U \in SUBSET Int /\ IsFiniteSet(U) /\ Square(A, U) /\ U = 0 .. M - 1
  BY <1>1, UptoIs DEF Square, Upto
<1>3. CharCoeff(A, M, d) = s * ms BY <1>2 DEF CharCoeff
<1>4. CharPolyOf(M, A)[d] = (s * SumFunction(f)) % Q BY DEF CharPolyOf, Alternate
<1>5. f = [I \in kSubset(M - d, U) |-> Leibniz(A, I) % Q] BY DEF Minor
<1>6. s \in Int
  <2>1. M - d \in Int BY <1>1
  <2> QED BY <2>1, AlternateType
<1> HIDE DEF f, U, s
<1>7. SumFunction(f) \in Int /\ Congruent(Q, SumFunction(f), ms)
  BY <1>1, <1>2, <1>5, MinorsReduced
<1>8. ms \in Int BY <1>2, MinorSumInt
<1> HIDE DEF ms
<1>9. Congruent(Q, s, s) BY CongruentSame
<1>10. Congruent(Q, s * SumFunction(f), s * ms) BY <1>1, <1>6, <1>7, <1>8, <1>9, CongruentTimes
<1>11. \A u, v \in Int : u * v \in Int OBVIOUS
<1> QED BY <1>3, <1>4, <1>6, <1>8, <1>10, <1>11 DEF Congruent

\* The coefficients are residues, and the leading one, which the secret key
\* leaves out, is 1.
LEMMA CharPolyLaw ==
  ASSUME NEW A, \A r, c \in Upto(M) : A[r][c] \in Int
  PROVE  CharPolyOf(M, A) \in [0 .. M -> Upto(Q)] /\ CharPolyOf(M, A)[M] = 1
<1> DEFINE P == CharPolyOf(M, A)
<1>1. P = [d \in 0 .. M |-> P[d]] BY DEF CharPolyOf
<1>2. \A d \in 0 .. M : CharCoeff(A, M, d) \in Int /\ P[d] = CharCoeff(A, M, d) % Q
  BY CharPolyIs
<1>3. M \in Nat /\ M \in 0 .. M BY Dimensions
<1> HIDE DEF P
<1>4. \A d \in 0 .. M : P[d] \in Upto(Q) BY <1>2, ResidueType
<1>5. CharCoeff(A, M, M) = 1
  <2> DEFINE U == 0 .. M - 1
  <2>1. U \in SUBSET Int /\ IsFiniteSet(U) BY <1>3, UptoFinite
  <2>2. M - M = 0 BY <1>3
  <2>3. Alternate(0) = 1 BY DEF Alternate
  <2> HIDE DEF U
  <2>4. MinorSum(A, U, 0) = 1 BY <2>1, MinorSumZero
  <2> QED BY <2>2, <2>3, <2>4 DEF CharCoeff, U
<1>6. 1 % Q = 1 BY Modulus, ModSmall
<1>7. P[M] = 1 BY <1>2, <1>3, <1>5, <1>6
<1>8. P \in [0 .. M -> Upto(Q)]
  <2>1. [d \in 0 .. M |-> P[d]] \in [0 .. M -> Upto(Q)] BY <1>4
  <2> QED BY <1>1, <2>1
<1> QED BY <1>7, <1>8 DEF P

-----------------------------------------------------------------------------
(* The generator *)

GenP == INSTANCE GenerateCProofs

\* The dimensions of the scheme satisfy the assumption of GenerateC.
LEMMA GenAssumption == GenP!WeightAssumption
BY SchemeAssumption DEF GenP!WeightAssumption

\* A minor depends on its own rows and columns only.
LEMMA MinorLocal ==
  ASSUME NEW A, NEW B, NEW I, \A r, c \in I : A[r][c] = B[r][c]
  PROVE  Minor(A, I) = Minor(B, I)
BY LeibnizSame DEF Minor

\* What depends on C1 only.
LEMMA CharPolyLocal ==
  ASSUME NEW A, NEW B, \A r, c \in Upto(M) : A[r][c] = B[r][c]
  PROVE  CharPolyOf(M, A) = CharPolyOf(M, B) /\ Determinant(M, A) = Determinant(M, B)
<1>1. ASSUME NEW I \in SUBSET Upto(M) PROVE Minor(A, I) = Minor(B, I)
  <2>1. \A r, c \in I : A[r][c] = B[r][c] OBVIOUS
  <2> QED BY <2>1, MinorLocal
<1>2. Determinant(M, A) = Determinant(M, B) BY <1>1 DEF Determinant
<1>3. ASSUME NEW d
      PROVE  [I \in kSubset(M - d, Upto(M)) |-> Minor(A, I)]
               = [I \in kSubset(M - d, Upto(M)) |-> Minor(B, I)]
  <2>1. kSubset(M - d, Upto(M)) \subseteq SUBSET Upto(M) BY DEF kSubset
  <2> QED BY <1>1, <2>1
<1> DEFINE f(d) == [I \in kSubset(M - d, Upto(M)) |-> Minor(A, I)]
           g(d) == [I \in kSubset(M - d, Upto(M)) |-> Minor(B, I)]
           form(h, d) == ((IF (M - d) % 2 = 0 THEN 1 ELSE -1) * SumFunction(h)) % Q
<1>4. \A d : f(d) = g(d) BY <1>3, Zenon
<1>5. CharPolyOf(M, A) = [d \in 0 .. M |-> form(f(d), d)] BY DEF CharPolyOf
<1>6. CharPolyOf(M, B) = [d \in 0 .. M |-> form(g(d), d)] BY DEF CharPolyOf
<1> HIDE DEF f, g, form
<1>7. CharPolyOf(M, A) = CharPolyOf(M, B) BY <1>4, <1>5, <1>6
<1> QED BY <1>2, <1>7

\* The steps of Ehtv3's instance are those of the one the theorems are about.
LEMMA SameInit == Gen!Init <=> GenP!Init
BY DEF Gen!Init, GenP!Init, Gen!Rect!Init, GenP!Rect!Init, Gen!Rect!Identity,
       GenP!Rect!Identity, Gen!Rect!NoMarks, GenP!Rect!NoMarks,
       Gen!Rect!Row, GenP!Rect!Row, Gen!Rect!Col, GenP!Rect!Col,
       Gen!ZeroMatrix, GenP!ZeroMatrix, Gen!Upto, GenP!Upto

\* A call for a position here is one there.
LEMMA SameIndexDraw == ASSUME NEW s PROVE Gen!IndexDraw(s) => GenP!IndexDraw(s)
BY DEF Gen!IndexDraw, GenP!IndexDraw, Gen!Rect!Draw, GenP!Rect!Draw,
       Gen!Rect!Place, GenP!Rect!Place, Gen!Rect!Conflict, GenP!Rect!Conflict,
       Gen!Rect!Drawn, GenP!Rect!Drawn, Gen!Rect!Swapped, GenP!Rect!Swapped,
       Gen!Rect!RolledBack, GenP!Rect!RolledBack, Gen!Rect!Advance, GenP!Rect!Advance,
       Gen!Rect!Row, GenP!Rect!Row

\* So is the passage from positions to signs.
LEMMA SameStartValues == Gen!StartValues => GenP!StartValues
BY DEF Gen!StartValues, GenP!StartValues, Gen!ZeroMatrix, GenP!ZeroMatrix,
       Gen!Upto, GenP!Upto

\* So is the draw of a sign.
LEMMA SameValueDraw == ASSUME NEW b PROVE Gen!ValueDraw(b) => GenP!ValueDraw(b)
BY DEF Gen!ValueDraw, GenP!ValueDraw, Gen!MoveOn, GenP!MoveOn, Gen!Unit, GenP!Unit,
       Gen!rectangle, GenP!rectangle

\* So is a step of C2.
LEMMA SameErrorDraw == ASSUME NEW d, NEW b PROVE Gen!ErrorDraw(d, b) => GenP!ErrorDraw(d, b)
BY DEF Gen!ErrorDraw, GenP!ErrorDraw, Gen!MoveOn, GenP!MoveOn, Gen!Unit, GenP!Unit,
       Gen!Stepped, GenP!Stepped, Gen!rectangle, GenP!rectangle

\* A rejected C1 restarts the search and leaves the rest alone.
LEMMA SameRetry ==
  Gen!Retry => /\ GenP!Rect!Retry /\ pc = "test" /\ pc' = "index"
               /\ C' = C /\ row' = row /\ k' = k
BY DEF Gen!Retry, GenP!Rect!Retry, Gen!Rect!Retry, Gen!Rect!Identity,
       GenP!Rect!Identity, Gen!Rect!NoMarks, GenP!Rect!NoMarks,
       Gen!Rect!Row, GenP!Rect!Row, Gen!Rect!Col, GenP!Rect!Col

-----------------------------------------------------------------------------
(* The generation of C as a function of the seed *)

State(ci, tr, ii, jj, cc, rr, kk, at, n) ==
  [ci |-> ci, tr |-> tr, i |-> ii, j |-> jj, C |-> cc, row |-> rr, k |-> kk,
   pc |-> at, n |-> n]

\* What the generation depends on.  C is set to zero before it is read.
View == State(C1_index, tracker, i, j,
              IF pc = "index" THEN ZeroMatrix(M, M + D) ELSE C,
              row, k, pc, drbg.n)

Start == State(Gen!Rect!Identity, Gen!Rect!NoMarks, 0, 0, ZeroMatrix(M, M + D),
               0, 0, "index", 0)

\* A pass of the loop over the positions, and what a pass of the loops over
\* the values makes of the cursor.
PickedRow(seed, v)   == (Rand(seed, v.n) % (M - v.i)) + v.i
PickedValue(seed, v) == v.ci[PickedRow(seed, v)][v.j]

Searched(seed, v) ==
  IF v.j > 0 /\ v.tr[v.i][PickedValue(seed, v)]
  THEN State(v.ci,
             [r \in Row |-> [t \in Row |-> v.tr[r][t] /\ ~ (r < v.i /\ t = v.ci[r][v.j])]],
             0, v.j, v.C, v.row, v.k, v.pc, v.n + 1)
  ELSE State([v.ci EXCEPT ![PickedRow(seed, v)][v.j] = v.ci[v.i][v.j],
                          ![v.i][v.j] = PickedValue(seed, v)],
             [v.tr EXCEPT ![v.i][PickedValue(seed, v)] = TRUE],
             IF v.i + 1 < M THEN v.i + 1 ELSE 0,
             IF v.i + 1 < M THEN v.j ELSE v.j + 1,
             v.C, v.row, v.k, v.pc, v.n + 1)

Written(v, cc, width, after, n) ==
  State(v.ci, v.tr, v.i, v.j, cc,
        IF v.k + 1 < width THEN v.row ELSE IF v.row + 1 < M THEN v.row + 1 ELSE 0,
        IF v.k + 1 < width THEN v.k + 1 ELSE 0,
        IF v.k + 1 < width \/ v.row + 1 < M THEN v.pc ELSE after,
        n)

ErrorAt(seed, v) == M + (Rand(seed, v.n) % D)
FreshAt(seed, v) == v.C[v.row][ErrorAt(seed, v)] = 0

\* The state after v.
After(seed, v) ==
  IF v.pc = "index" /\ v.j < NORM1 THEN Searched(seed, v)
  ELSE IF v.pc = "index"
  THEN State(v.ci, v.tr, v.i, v.j, v.C, v.row, v.k, "value", v.n)
  ELSE IF v.pc = "value"
  THEN Written(v, [v.C EXCEPT ![v.row][v.ci[v.row][v.k]] = Gen!Unit(Rand(seed, v.n) % 2)],
               NORM1, "test", v.n + 1)
  ELSE IF v.pc = "test"
  THEN State(v.ci, v.tr, v.i, v.j, v.C, v.row, v.k, "error", v.n)
  ELSE IF v.pc = "error"
  THEN Written(v, [v.C EXCEPT ![v.row][ErrorAt(seed, v)] =
                     Gen!Stepped(@, IF FreshAt(seed, v) THEN Rand(seed, v.n + 1) % 2 ELSE 0)],
               NORM2, "done", v.n + (IF FreshAt(seed, v) THEN 2 ELSE 1))
  ELSE v

\* The fields of the view.
LEMMA ViewFields ==
  /\ View.ci = C1_index /\ View.tr = tracker /\ View.i = i /\ View.j = j
  /\ View.C = (IF pc = "index" THEN ZeroMatrix(M, M + D) ELSE C)
  /\ View.row = row /\ View.k = k /\ View.pc = pc /\ View.n = drbg.n
BY DEF View, State

\* v is on the way of the generation from seed.
Passes(seed, f, e) == /\ f[0] = Start
                      /\ \A l \in 0 .. e - 1 : f[l + 1] = After(seed, f[l])

Reached(seed, v) == \E e \in Nat : \E f : Passes(seed, f, e) /\ f[e] = v

Final(seed) == CHOOSE v : Reached(seed, v) /\ v.pc = "done"

\* Generation from a seed starts at the start.
LEMMA ReachedStart == ASSUME NEW seed PROVE Reached(seed, Start)
<1> DEFINE f == [l \in 0 .. 0 |-> Start]
<1>1. f[0] = Start OBVIOUS
<1>2. Passes(seed, f, 0) BY <1>1 DEF Passes
<1> HIDE DEF f
<1> QED BY <1>1, <1>2 DEF Reached

\* And reaches what follows from what it has reached.
LEMMA ReachedAfter ==
  ASSUME NEW seed, NEW v, Reached(seed, v)
  PROVE  Reached(seed, After(seed, v))
<1>1. PICK e \in Nat : \E f : Passes(seed, f, e) /\ f[e] = v BY DEF Reached
<1>2. PICK f : Passes(seed, f, e) /\ f[e] = v BY <1>1
<1> DEFINE w == After(seed, v)
           g == [l \in 0 .. e + 1 |-> IF l <= e THEN f[l] ELSE w]
<1>3. e + 1 \in Nat /\ g[e + 1] = w BY <1>1
<1>4. Passes(seed, g, e + 1)
  <2>1. g[0] = Start BY <1>1, <1>2 DEF Passes
  <2>2. ASSUME NEW l \in 0 .. (e + 1) - 1 PROVE g[l + 1] = After(seed, g[l])
    <3>1. l \in Nat /\ l <= e /\ g[l] = f[l] BY <1>1
    <3>2. CASE l = e
      <4>1. g[l + 1] = w /\ g[l] = v BY <1>2, <1>3, <3>1, <3>2
      <4> QED BY <4>1
    <3>3. CASE l # e
      <4>1. l \in 0 .. e - 1 /\ l + 1 \in 0 .. e + 1 /\ l + 1 <= e BY <1>1, <3>1, <3>3
      <4>2. g[l + 1] = f[l + 1] BY <4>1
      <4> HIDE DEF g
      <4> QED BY <1>2, <3>1, <4>1, <4>2 DEF Passes
    <3> QED BY <3>2, <3>3
  <2> HIDE DEF g
  <2> QED BY <2>1, <2>2 DEF Passes
<1> HIDE DEF g, w
<1>5. Reached(seed, w) BY <1>3, <1>4 DEF Reached
<1> QED BY <1>5 DEF w

\* Two ways from the same seed are one.
LEMMA PassesOnce ==
  ASSUME NEW seed, NEW f, NEW g, NEW e \in Nat, NEW n \in Nat, e <= n,
         Passes(seed, f, e), Passes(seed, g, n), f[e].pc = "done"
  PROVE  g[n] = f[e]
<1> DEFINE P == {l \in Nat : l <= e => g[l] = f[l]}
           R == {l \in Nat : e + l <= n => g[e + l] = f[e]}
<1>1. \A l \in Nat : l \in P
  <2>1. 0 \in P BY DEF Passes
  <2>2. \A l \in Nat : l \in P => l + 1 \in P
    <3> SUFFICES ASSUME NEW l \in Nat, l \in P, l + 1 <= e PROVE g[l + 1] = f[l + 1]
      OBVIOUS
    <3>1. l \in 0 .. e - 1 /\ l \in 0 .. n - 1 /\ g[l] = f[l] OBVIOUS
    <3> HIDE DEF P
    <3> QED BY <3>1 DEF Passes
  <2> HIDE DEF P
  <2> QED BY <2>1, <2>2, NatSetInduction
<1>2. g[e] = f[e] BY <1>1
<1>3. \A l \in Nat : l \in R
  <2>1. 0 \in R BY <1>2
  <2>2. \A l \in Nat : l \in R => l + 1 \in R
    <3> SUFFICES ASSUME NEW l \in Nat, l \in R, e + (l + 1) <= n
                 PROVE  g[e + (l + 1)] = f[e]
      OBVIOUS
    <3>1. e + l \in 0 .. n - 1 /\ g[e + l] = f[e] /\ e + (l + 1) = (e + l) + 1 OBVIOUS
    <3> HIDE DEF R
    <3>2. g[(e + l) + 1] = After(seed, f[e]) BY <3>1 DEF Passes
    <3>3. After(seed, f[e]) = f[e] BY DEF After
    <3> QED BY <3>1, <3>2, <3>3
  <2> HIDE DEF R
  <2> QED BY <2>1, <2>2, NatSetInduction
<1>4. n - e \in Nat /\ e + (n - e) = n OBVIOUS
<1>5. n - e \in R BY <1>3, <1>4
<1> QED BY <1>4, <1>5

\* All generations from one seed that finish, finish in the same state.
LEMMA FinalIs ==
  ASSUME NEW seed, NEW v, Reached(seed, v), v.pc = "done"
  PROVE  v = Final(seed)
<1> DEFINE w == Final(seed)
<1>1. Reached(seed, w) /\ w.pc = "done" BY DEF Final
<1> HIDE DEF w
<1>2. PICK e \in Nat : \E f : Passes(seed, f, e) /\ f[e] = v BY DEF Reached
<1>3. PICK f : Passes(seed, f, e) /\ f[e] = v BY <1>2
<1>4. PICK n \in Nat : \E g : Passes(seed, g, n) /\ g[n] = w BY <1>1 DEF Reached
<1>5. PICK g : Passes(seed, g, n) /\ g[n] = w BY <1>4
<1>6. CASE e <= n
  <2>1. g[n] = f[e] BY <1>3, <1>5, <1>6, PassesOnce
  <2> QED BY <1>3, <1>5, <2>1 DEF w
<1>7. CASE n <= e
  <2>1. f[e] = g[n] BY <1>1, <1>3, <1>5, <1>7, PassesOnce
  <2> QED BY <1>3, <1>5, <2>1 DEF w
<1> QED BY <1>6, <1>7

\* What the invariant of the generation says, in the terms of this module.
LEMMA GenFacts ==
  ASSUME GenP!GenInv
  PROVE  /\ C \in Matrix(M, M + D) /\ row \in Row /\ k \in Nat
         /\ i \in Row /\ j \in 0 .. NORM1
         /\ pc \in {"index", "value", "test", "error", "done"}
         /\ pc \in {"index", "test", "done"} => row = 0 /\ k = 0
         /\ pc # "index" => j = NORM1
<1>1. /\ C \in Matrix(M, M + D) /\ row \in Row /\ k \in Nat
      /\ pc \in {"index", "value", "test", "error", "done"}
  BY DEF GenP!GenInv, GenP!TypeOK, GenP!Matrix, GenP!Row, GenP!Upto, Matrix, Row, Upto
<1>2. /\ pc \in {"index", "test", "done"} => row = 0 /\ k = 0
      /\ pc # "index" => j = NORM1
  BY DEF GenP!GenInv, GenP!CursorOK
<1>3. i \in Row /\ j \in 0 .. NORM1
  BY DEF GenP!GenInv, GenP!RectP!RectangleInv, GenP!RectP!TypeOK, GenP!RectP!Row, Row, Upto
<1> QED BY <1>1, <1>2, <1>3

DrbgOK == drbg \in [seed : Streams, n : Nat]

\* A step that consumes draws moves on in the same stream.
LEMMA Consumes ==
  ASSUME DrbgOK, NEW m \in Nat, Consume(m)
  PROVE  DrbgOK' /\ drbg'.seed = drbg.seed /\ drbg'.n = drbg.n + m
BY DEF Consume, DrbgOK

\* The next draw, as a function of the seed and the position.
LEMMA NextDraw == ASSUME DrbgOK, NEW b PROVE NIST_rng(b) = Rand(drbg.seed, drbg.n) % b
<1>1. drbg.n + 0 = drbg.n BY DEF DrbgOK
<1> QED BY <1>1 DEF NIST_rng, DrawAt

\* A call for a position follows the view of the state before it.
LEMMA IndexDrawView ==
  ASSUME GenP!GenInv, DrbgOK, IndexDraw
  PROVE  View' = After(drbg.seed, View)
<1> DEFINE s == (Rand(drbg.seed, drbg.n) % (M - i)) + i
           v == View
           d == C1_index[s][j]
<1>1. Gen!IndexDraw(s)
  <2>1. NIST_rng(M - i) + i = s BY NextDraw
  <2> QED BY <2>1 DEF IndexDraw
<1>2. s = PickedRow(drbg.seed, v) /\ d = PickedValue(drbg.seed, v)
  <2>1. s = PickedRow(drbg.seed, v) BY ViewFields DEF PickedRow
  <2> HIDE DEF s, v
  <2> QED BY <2>1, ViewFields DEF PickedValue, v
<1>3. pc = "index" /\ pc' = "index" /\ UNCHANGED <<C, row, k>>
  BY <1>1 DEF Gen!IndexDraw
<1> HIDE DEF s
<1>4. drbg'.n = drbg.n + 1 BY Consumes DEF IndexDraw
<1>5. i \in Nat /\ j \in Nat /\ M \in Nat /\ i < M /\ NORM1 \in Nat
  BY GenFacts, Dimensions, SchemeAssumption DEF Row, Upto
<1>6. CASE Gen!Rect!Place(s)
  <2>1. /\ j < NORM1 /\ ~ (j > 0 /\ tracker[i][d])
        /\ C1_index' = [C1_index EXCEPT ![s][j] = C1_index[i][j], ![i][j] = d]
        /\ tracker' = [tracker EXCEPT ![i][d] = TRUE]
        /\ i' = (IF i + 1 < M THEN i + 1 ELSE 0)
        /\ j' = (IF i + 1 < M THEN j ELSE j + 1)
    BY <1>5, <1>6 DEF Gen!Rect!Place, Gen!Rect!Drawn, Gen!Rect!Swapped, Gen!Rect!Advance
  <2>2. After(drbg.seed, v) = Searched(drbg.seed, v)
    BY <1>3, <2>1, ViewFields DEF After
  <2> HIDE DEF d, v
  <2>3. Searched(drbg.seed, v)
          = State([C1_index EXCEPT ![s][j] = C1_index[i][j], ![i][j] = d],
                  [tracker EXCEPT ![i][d] = TRUE],
                  IF i + 1 < M THEN i + 1 ELSE 0, IF i + 1 < M THEN j ELSE j + 1,
                  ZeroMatrix(M, M + D), row, k, "index", drbg.n + 1)
    BY <1>2, <1>3, <2>1, ViewFields DEF Searched, v
  <2>4. View' = State(C1_index', tracker', i', j', ZeroMatrix(M, M + D), row, k,
                      "index", drbg.n + 1)
    BY <1>3, <1>4 DEF View
  <2> QED BY <2>1, <2>2, <2>3, <2>4 DEF v
<1>7. CASE Gen!Rect!Conflict(s)
  <2>1. /\ j < NORM1 /\ j > 0 /\ tracker[i][d]
        /\ C1_index' = C1_index /\ i' = 0 /\ j' = j
        /\ tracker' = [r \in Row |-> [t \in Row |->
                         tracker[r][t] /\ ~ (r < i /\ t = C1_index[r][j])]]
    BY <1>5, <1>7 DEF Gen!Rect!Conflict, Gen!Rect!Drawn, Gen!Rect!RolledBack, Gen!Rect!Row,
                      Row, Upto
  <2>2. After(drbg.seed, v) = Searched(drbg.seed, v)
    BY <1>3, <2>1, ViewFields DEF After
  <2> HIDE DEF d, v
  <2>3. Searched(drbg.seed, v)
          = State(C1_index,
                  [r \in Row |-> [t \in Row |->
                     tracker[r][t] /\ ~ (r < i /\ t = C1_index[r][j])]],
                  0, j, ZeroMatrix(M, M + D), row, k, "index", drbg.n + 1)
    BY <1>2, <1>3, <2>1, ViewFields DEF Searched, v
  <2>4. View' = State(C1_index', tracker', i', j', ZeroMatrix(M, M + D), row, k,
                      "index", drbg.n + 1)
    BY <1>3, <1>4 DEF View
  <2> QED BY <2>1, <2>2, <2>3, <2>4 DEF v
<1> QED BY <1>1, <1>6, <1>7 DEF Gen!IndexDraw, Gen!Rect!Draw

\* So does the passage from positions to signs.
LEMMA StartValuesView ==
  ASSUME GenP!GenInv, DrbgOK, StartValues
  PROVE  View' = After(drbg.seed, View)
<1>1. /\ pc = "index" /\ j = NORM1 /\ pc' = "value" /\ C' = ZeroMatrix(M, M + D)
      /\ UNCHANGED <<C1_index, tracker, i, j, row, k, drbg>>
  BY DEF StartValues, Gen!StartValues, Gen!ZeroMatrix, ZeroMatrix, Gen!Upto, Upto
<1>2. ~ (j < NORM1) BY <1>1, SchemeAssumption
<1>3. View' = State(C1_index, tracker, i, j, ZeroMatrix(M, M + D), row, k, "value", drbg.n)
  BY <1>1 DEF View
<1>4. After(drbg.seed, View)
        = State(C1_index, tracker, i, j, ZeroMatrix(M, M + D), row, k, "value", drbg.n)
  BY <1>1, <1>2, ViewFields DEF After
<1> QED BY <1>3, <1>4

\* So does the acceptance of C1, tested or not.
LEMMA TestView ==
  ASSUME GenP!GenInv, DrbgOK, AcceptC1 \/ TakeC1
  PROVE  View' = After(drbg.seed, View)
<1>1. /\ pc = "test" /\ pc' = "error"
      /\ UNCHANGED <<C1_index, tracker, i, j, C, row, k, drbg>>
  BY DEF AcceptC1, TakeC1, Gen!Accept, Gen!AcceptUntested
<1>2. View' = State(C1_index, tracker, i, j, C, row, k, "error", drbg.n)
  BY <1>1 DEF View
<1>3. After(drbg.seed, View) = State(C1_index, tracker, i, j, C, row, k, "error", drbg.n)
  BY <1>1, ViewFields DEF After
<1> QED BY <1>2, <1>3

\* The cursor of the model moves as Written says.
LEMMA MoveOnView ==
  ASSUME GenP!GenInv, NEW width \in Nat, NEW after, Gen!MoveOn(width, after), pc # "index"
  PROVE  /\ row' = (IF k + 1 < width THEN row ELSE IF row + 1 < M THEN row + 1 ELSE 0)
         /\ k' = (IF k + 1 < width THEN k + 1 ELSE 0)
         /\ pc' = (IF k + 1 < width \/ row + 1 < M THEN pc ELSE after)
<1>1. row \in Nat /\ k \in Nat /\ M \in Nat
  BY GenFacts, Dimensions DEF Row, Upto
<1> QED BY <1>1 DEF Gen!MoveOn

\* The cursor moves in the view as in the state.
LEMMA WrittenView ==
  ASSUME GenP!GenInv, NEW width \in Nat, NEW after, Gen!MoveOn(width, after), pc # "index",
         after # "index", UNCHANGED <<C1_index, tracker, i, j>>
  PROVE  View' = Written(View, C', width, after, drbg'.n)
<1>1. /\ row' = (IF k + 1 < width THEN row ELSE IF row + 1 < M THEN row + 1 ELSE 0)
      /\ k' = (IF k + 1 < width THEN k + 1 ELSE 0)
      /\ pc' = (IF k + 1 < width \/ row + 1 < M THEN pc ELSE after)
  BY MoveOnView
<1>2. pc' # "index" BY <1>1
<1>3. View' = State(C1_index, tracker, i, j, C', row', k', pc', drbg'.n) BY <1>2 DEF View
<1>4. Written(View, C', width, after, drbg'.n)
        = State(C1_index, tracker, i, j, C',
                IF k + 1 < width THEN row ELSE IF row + 1 < M THEN row + 1 ELSE 0,
                IF k + 1 < width THEN k + 1 ELSE 0,
                IF k + 1 < width \/ row + 1 < M THEN pc ELSE after, drbg'.n)
  BY ViewFields DEF Written
<1> QED BY <1>1, <1>3, <1>4

\* The draw of a sign follows the view of the state before it.
LEMMA ValueDrawView ==
  ASSUME GenP!GenInv, DrbgOK, ValueDraw
  PROVE  View' = After(drbg.seed, View)
<1>1. /\ pc = "value"
      /\ C' = [C EXCEPT ![row][C1_index[row][k]] = Gen!Unit(Rand(drbg.seed, drbg.n) % 2)]
      /\ Gen!MoveOn(NORM1, "test") /\ UNCHANGED <<C1_index, tracker, i, j>>
  BY NextDraw DEF ValueDraw, Gen!ValueDraw, Gen!rectangle
<1>2. drbg'.n = drbg.n + 1 BY Consumes DEF ValueDraw
<1>3. NORM1 \in Nat BY SchemeAssumption
<1>4. View' = Written(View, C', NORM1, "test", drbg'.n) BY <1>1, <1>3, WrittenView
<1>5. After(drbg.seed, View)
        = Written(View, [C EXCEPT ![row][C1_index[row][k]] =
                           Gen!Unit(Rand(drbg.seed, drbg.n) % 2)], NORM1, "test", drbg.n + 1)
  BY <1>1, ViewFields DEF After
<1> QED BY <1>1, <1>2, <1>4, <1>5

\* So does a step of C2.
LEMMA ErrorDrawView ==
  ASSUME GenP!GenInv, DrbgOK, ErrorDraw
  PROVE  View' = After(drbg.seed, View)
<1> DEFINE d == M + (Rand(drbg.seed, drbg.n) % D)
           fresh == C[row][d] = 0
           b == IF fresh THEN Rand(drbg.seed, drbg.n + 1) % 2 ELSE 0
<1>1. Gen!ErrorDraw(d, b) /\ Consume(IF fresh THEN 2 ELSE 1)
  <2>1. d = M + NIST_rng(D) BY NextDraw
  <2>2. b = IF fresh THEN DrawAt(1, 2) ELSE 0 BY DEF DrawAt
  <2> HIDE DEF d
  <2> QED BY <2>1, <2>2 DEF ErrorDraw
<1>2. d = ErrorAt(drbg.seed, View) BY ViewFields DEF ErrorAt
<1> HIDE DEF d
<1>3. /\ pc = "error" /\ C' = [C EXCEPT ![row][d] = Gen!Stepped(@, b)]
      /\ Gen!MoveOn(NORM2, "done") /\ UNCHANGED <<C1_index, tracker, i, j>>
  BY <1>1 DEF Gen!ErrorDraw, Gen!rectangle
<1>4. fresh = FreshAt(drbg.seed, View)
  BY <1>2, <1>3, ViewFields DEF FreshAt
<1>5. NORM2 \in Nat BY SchemeAssumption
<1>6. View' = Written(View, C', NORM2, "done", drbg'.n) BY <1>3, <1>5, WrittenView
<1>7. drbg'.n = drbg.n + (IF fresh THEN 2 ELSE 1)
  <2>1. (IF fresh THEN 2 ELSE 1) \in Nat OBVIOUS
  <2> HIDE DEF fresh
  <2> QED BY <1>1, <2>1, Consumes
<1> HIDE DEF fresh
<1>8. After(drbg.seed, View)
        = Written(View, [C EXCEPT ![row][d] = Gen!Stepped(@, b)], NORM2, "done",
                  drbg.n + (IF fresh THEN 2 ELSE 1))
  BY <1>2, <1>3, <1>4, ViewFields DEF After
<1> QED BY <1>3, <1>6, <1>7, <1>8

-----------------------------------------------------------------------------
(* solve_a *)

\* A reduced sum of integers is a residue.
LEMMA SumResidue ==
  ASSUME NEW X, IsFiniteSet(X), NEW f, DOMAIN f = X, \A e \in X : f[e] \in Int
  PROVE  /\ SumFunction(f) \in Int
         /\ \A v \in Int : (v * SumFunction(f)) % Q \in Upto(Q)
         /\ SumFunction(f) % Q \in Upto(Q)
<1> DEFINE s == SumFunction(f)
<1>1. s = SumFunctionOnSet(f, X) BY SumIs
<1>2. s \in Int BY <1>1, SumInt
<1> HIDE DEF s
<1>3. \A u, v \in Int : v * u \in Int OBVIOUS
<1>4. \A v \in Int : (v * s) % Q \in Upto(Q) BY <1>2, <1>3, ResidueType
<1>5. s % Q \in Upto(Q) BY <1>2, ResidueType
<1> QED BY <1>2, <1>4, <1>5 DEF s

SparseOK == \A r \in Row, c \in Upto(NORM1) :
              C1_index[r][c] \in Row /\ C[r][C1_index[r][c]] \in Int

\* The positions of C1, from the invariant of GenerateC.
LEMMA SparseIsOK == GenP!GenInv => SparseOK
<1> SUFFICES ASSUME GenP!GenInv, NEW r \in Row, NEW c \in Upto(NORM1)
             PROVE  C1_index[r][c] \in Row /\ C[r][C1_index[r][c]] \in Int
  BY DEF SparseOK
<1>1. C1_index[r][c] \in Row
  BY DEF GenP!GenInv, GenP!RectP!RectangleInv, GenP!RectP!TypeOK, GenP!RectP!Row,
         GenP!RectP!Col, Row, Upto
<1>2. IntMatrix(M, M + D, C) BY GenFacts, MatrixInt
<1>3. \A d \in Row : d \in Upto(M + D) BY Dimensions DEF Row, Upto
<1> QED BY <1>1, <1>2, <1>3 DEF IntMatrix, IntVector, Row

\* The sparse product gives residues.
LEMMA SparseApplyType ==
  ASSUME SparseOK, NEW v, \A r \in Row : v[r] \in Int
  PROVE  SparseApply(v) \in [Row -> Upto(Q)]
<1> DEFINE f(r) == [c \in Upto(NORM1) |-> C[r][C1_index[r][c]] * v[C1_index[r][c]]]
<1>1. IsFiniteSet(Upto(NORM1)) BY SchemeAssumption, UptoIs
<1>2. ASSUME NEW r \in Row PROVE SumFunction(f(r)) % Q \in Upto(Q)
  <2> DEFINE g == f(r)
  <2>1. \A u, w \in Int : u * w \in Int OBVIOUS
  <2>2. \A c \in Upto(NORM1) : g[c] \in Int BY <2>1 DEF SparseOK
  <2>3. DOMAIN g = Upto(NORM1) OBVIOUS
  <2> HIDE DEF g
  <2>4. SumFunction(g) % Q \in Upto(Q) BY <1>1, <2>2, <2>3, SumResidue
  <2> QED BY <2>4 DEF g
<1>3. SparseApply(v) = [r \in Row |-> SumFunction(f(r)) % Q] BY DEF SparseApply
<1> HIDE DEF f
<1> QED BY <1>2, <1>3

\* The powers of C1 times a vector.
Powers(p, h) == p = [e \in Nat |-> IF e = 0 THEN h ELSE SparseApply(p[e - 1])]

\* The vectors C1^e h exist.
LEMMA PowersExist ==
  ASSUME SparseOK, NEW h \in [Row -> Upto(Q)]
  PROVE  \E p : Powers(p, h)
<1> DEFINE V == [Row -> Upto(Q)]
           G == [n \in Nat |-> [p \in [0 .. n - 1 -> V] |->
                   IF n = 0 THEN h ELSE SparseApply(p[n - 1])]]
<1>1. \A n \in Nat : \A p \in [0 .. n - 1 -> V] :
        G[n][p] = IF n = 0 THEN h ELSE SparseApply(p[n - 1])
  OBVIOUS
<1>2. Yields(G, V)
  <2> HIDE DEF G
  <2> SUFFICES ASSUME NEW n \in Nat, NEW p \in [0 .. n - 1 -> V] PROVE G[n][p] \in V
    BY DEF Yields
  <2>1. CASE n = 0 BY <1>1, <2>1
  <2>2. CASE n # 0
    <3>1. n - 1 \in 0 .. n - 1 BY <2>2
    <3>2. p[n - 1] \in V BY <3>1
    <3>3. \A v \in Upto(Q) : v \in Int BY SmallResidue
    <3>4. \A r \in Row : p[n - 1][r] \in Int BY <3>2, <3>3
    <3>5. SparseApply(p[n - 1]) \in V BY <3>4, SparseApplyType
    <3> QED BY <1>1, <2>2, <3>5
  <2> QED BY <2>1, <2>2
<1> HIDE DEF G, V
<1>3. PICK f \in [Nat -> V] : Solves(f, G) BY <1>2, Recursion
<1> DEFINE rhs == [e \in Nat |-> IF e = 0 THEN h ELSE SparseApply(f[e - 1])]
<1>4. ASSUME NEW e \in Nat PROVE f[e] = rhs[e]
  <2>1. f[e] = G[e][Initial(f, e)] BY <1>3 DEF Solves
  <2>2. Initial(f, e) \in [0 .. e - 1 -> V] BY <1>3, InitialType
  <2>3. f[e] = IF e = 0 THEN h ELSE SparseApply(Initial(f, e)[e - 1])
    BY <1>1, <2>1, <2>2
  <2>4. CASE e = 0 BY <2>3, <2>4
  <2>5. CASE e # 0
    <3>1. e - 1 \in 0 .. e - 1 BY <2>5
    <3>2. Initial(f, e)[e - 1] = f[e - 1] BY <3>1, InitialAt
    <3> QED BY <2>3, <2>5, <3>2
  <2> QED BY <2>4, <2>5
<1>5. f = rhs
  <2>1. f = [e \in Nat |-> f[e]] /\ rhs = [e \in Nat |-> rhs[e]] BY <1>3
  <2> HIDE DEF rhs
  <2> QED BY <1>4, <2>1
<1>6. Powers(f, h) BY <1>5 DEF Powers
<1> QED BY <1>6

\* They are vectors of residues, each the sparse product of the one before.
LEMMA PowersType ==
  ASSUME SparseOK, NEW h \in [Row -> Upto(Q)], NEW p, Powers(p, h)
  PROVE  /\ \A e \in Nat : p[e] \in [Row -> Upto(Q)]
         /\ p[0] = h /\ \A e \in Nat : p[e + 1] = SparseApply(p[e])
<1>1. p[0] = h /\ \A e \in Nat : p[e + 1] = SparseApply(p[e])
  <2>1. \A e \in Nat : p[e] = IF e = 0 THEN h ELSE SparseApply(p[e - 1])
    BY DEF Powers
  <2>2. ASSUME NEW e \in Nat PROVE p[e + 1] = SparseApply(p[e])
    <3>1. e + 1 \in Nat /\ e + 1 # 0 /\ (e + 1) - 1 = e OBVIOUS
    <3> QED BY <2>1, <3>1
  <2> QED BY <2>1, <2>2
<1> DEFINE P == {e \in Nat : p[e] \in [Row -> Upto(Q)]}
<1>2. 0 \in P BY <1>1
<1>3. \A e \in Nat : e \in P => e + 1 \in P
  <2> SUFFICES ASSUME NEW e \in Nat, p[e] \in [Row -> Upto(Q)]
               PROVE  p[e + 1] \in [Row -> Upto(Q)]
    OBVIOUS
  <2>1. \A v \in Upto(Q) : v \in Int BY SmallResidue
  <2>2. \A r \in Row : p[e][r] \in Int BY <2>1
  <2>3. SparseApply(p[e]) \in [Row -> Upto(Q)] BY <2>2, SparseApplyType
  <2> QED BY <1>1, <2>3
<1> HIDE DEF P
<1>4. \A e \in Nat : e \in P BY <1>2, <1>3, NatSetInduction
<1> QED BY <1>1, <1>4 DEF P

PowersOf(h) == CHOOSE p : Powers(p, h)

HeadTerms(h, r) == [e \in Row |-> C1cp[e + 1] * PowersOf(h)[e][r]]

\* The first M entries of a, written out.
LEMMA HeadOfAIs ==
  ASSUME SparseOK, C1cp \in [0 .. M -> Upto(Q)], NEW h \in [Row -> Upto(Q)]
  PROVE  /\ HeadOfA(h) = [r \in Row |-> ((- Inverse_mod_q(C1cp[0]))
                                           * SumFunction(HeadTerms(h, r))) % Q]
         /\ HeadOfA(h) \in [Row -> Upto(Q)]
<1> DEFINE p == PowersOf(h)
           ni == - Inverse_mod_q(C1cp[0])
<1>0. HeadOfA(h) = [r \in Row |-> ((- Inverse_mod_q(C1cp[0]))
                                      * SumFunction(HeadTerms(h, r))) % Q]
  BY DEF HeadOfA, HeadTerms, PowersOf, Powers
<1>1. HeadOfA(h) = [r \in Row |-> (ni * SumFunction(HeadTerms(h, r))) % Q]
  BY <1>0
<1>2. Powers(p, h) BY PowersExist DEF PowersOf
<1> HIDE DEF p
<1>3. \A e \in Nat : p[e] \in [Row -> Upto(Q)] BY <1>2, PowersType
<1>4. 0 \in 0 .. M /\ M \in Nat BY Dimensions
<1>5. ni \in Int
  <2>1. C1cp[0] \in Upto(Q) BY <1>4
  <2>2. C1cp[0] = 0 \/ C1cp[0] \in 1 .. Q - 1 BY <2>1, Modulus DEF Upto
  <2>3. Inverse_mod_q(C1cp[0]) \in Int
    <3>1. CASE C1cp[0] = 0 BY <3>1 DEF Inverse_mod_q
    <3>2. CASE C1cp[0] \in 1 .. Q - 1
      <4>1. Inverse_mod_q(C1cp[0]) \in 1 .. Q - 1 BY <3>2, InverseIs
      <4> QED BY <4>1, Modulus
    <3> QED BY <2>2, <3>1, <3>2
  <2> QED BY <2>3
<1> HIDE DEF ni
<1>6. ASSUME NEW r \in Row PROVE (ni * SumFunction(HeadTerms(h, r))) % Q \in Upto(Q)
  <2> DEFINE f == HeadTerms(h, r)
  <2>1. \A u, w \in Int : u * w \in Int OBVIOUS
  <2>2. \A e \in Row : e \in Nat /\ e + 1 \in 0 .. M BY <1>4 DEF Row, Upto
  <2>3. \A v \in Upto(Q) : v \in Int BY SmallResidue
  <2>4. ASSUME NEW e \in Row PROVE f[e] \in Int
    <3>1. f[e] = C1cp[e + 1] * p[e][r] BY DEF HeadTerms, p
    <3>2. C1cp[e + 1] \in Int /\ p[e][r] \in Int BY <1>3, <2>2, <2>3
    <3> QED BY <2>1, <3>1, <3>2
  <2>5. DOMAIN f = Row BY DEF HeadTerms
  <2>6. IsFiniteSet(Row) BY <1>4, UptoIs DEF Row
  <2> HIDE DEF f
  <2>7. (ni * SumFunction(f)) % Q \in Upto(Q) BY <1>5, <2>4, <2>5, <2>6, SumResidue
  <2> QED BY <2>7 DEF f
<1>7. HeadOfA(h) \in [Row -> Upto(Q)] BY <1>1, <1>6
<1> QED BY <1>0, <1>7

\* The drawn end of a, and what is left of the hash for C1 times its head.
DrawnTail == [d \in M .. M + D - 1 |-> DrawAt(d - M, Q)]

TailTerms(r) == [d \in M .. M + D - 1 |-> C[r][d] * DrawnTail[d]]

Rest == [r \in Row |-> (Hash(msg)[r] - SumFunction(TailTerms(r))) % Q]

\* The two parts of a.
LEMMA SolveAIs ==
  SolveA = [e \in Upto(M + D) |-> IF e < M THEN HeadOfA(Rest)[e] ELSE DrawnTail[e]]
BY DEF SolveA, Rest, DrawnTail, TailTerms

\* The drawn part of a, and what it leaves of the hash, are residues.
LEMMA RestType ==
  ASSUME RandWords, DrbgOK, GenP!GenInv, msg \in Messages
  PROVE  /\ DrawnTail \in [M .. M + D - 1 -> Upto(Q)]
         /\ \A r \in Row : /\ Hash(msg)[r] \in Upto(Q)
                           /\ DOMAIN TailTerms(r) = M .. M + D - 1
                           /\ \A d \in M .. M + D - 1 : TailTerms(r)[d] \in Int
                           /\ SumFunction(TailTerms(r)) \in Int
         /\ Rest \in [Row -> Upto(Q)]
<1>1. M \in Nat /\ D \in Nat BY SchemeAssumption
<1> DEFINE X == M .. M + D - 1
<1>2. \A d \in X : d - M \in Nat /\ d \in Upto(M + D) BY <1>1 DEF Upto
<1>3. IsFiniteSet(X) BY <1>1, FS_Interval
<1>4. DrawnTail = [d \in X |-> DrawAt(d - M, Q)] BY DEF DrawnTail
<1> HIDE DEF X
<1>5. DrawnTail \in [X -> Upto(Q)]
  <2>1. ASSUME NEW d \in X PROVE DrawAt(d - M, Q) \in Upto(Q)
    <3>1. drbg.seed \in Streams /\ drbg.n \in Nat BY DEF DrbgOK
    <3>2. drbg.n + (d - M) \in Nat BY <1>2, <3>1
    <3>3. Rand(drbg.seed, drbg.n + (d - M)) % Q \in Upto(Q)
      BY <3>1, <3>2, Modulus, DrawBelow
    <3> QED BY <3>3 DEF DrawAt
  <2> QED BY <1>4, <2>1
<1>6. \A r \in Row : Hash(msg)[r] \in Upto(Q) BY SchemeAssumption DEF Row
<1>7. \A v \in Upto(Q) : v \in Int BY SmallResidue
<1>8. ASSUME NEW r \in Row
      PROVE  /\ DOMAIN TailTerms(r) = X
             /\ \A d \in X : TailTerms(r)[d] \in Int
             /\ SumFunction(TailTerms(r)) \in Int
  <2> DEFINE f == TailTerms(r)
  <2>1. f = [d \in X |-> C[r][d] * DrawnTail[d]] BY DEF TailTerms, X
  <2>2. IntMatrix(M, M + D, C) BY GenFacts, MatrixInt
  <2>3. \A d \in X : C[r][d] \in Int
    BY <1>2, <2>2 DEF IntMatrix, IntVector, Row
  <2>4. \A u, w \in Int : u * w \in Int OBVIOUS
  <2>5. \A d \in X : DrawnTail[d] \in Int BY <1>5, <1>7
  <2>6. \A d \in X : f[d] \in Int BY <2>1, <2>3, <2>4, <2>5
  <2>7. DOMAIN f = X BY <2>1
  <2> HIDE DEF f
  <2>8. SumFunction(f) \in Int BY <1>3, <2>6, <2>7, SumResidue
  <2> QED BY <2>6, <2>7, <2>8 DEF f
<1>9. Rest \in [Row -> Upto(Q)]
  <2>1. ASSUME NEW r \in Row
        PROVE  (Hash(msg)[r] - SumFunction(TailTerms(r))) % Q \in Upto(Q)
    <3>1. Hash(msg)[r] - SumFunction(TailTerms(r)) \in Int BY <1>6, <1>7, <1>8
    <3> QED BY <3>1, ResidueType
  <2> QED BY <2>1 DEF Rest
<1> QED BY <1>5, <1>6, <1>8, <1>9 DEF X

\* solve_a gives a vector of residues.
LEMMA SolveAType ==
  ASSUME RandWords, DrbgOK, GenP!GenInv, msg \in Messages, C1cp \in [0 .. M -> Upto(Q)]
  PROVE  SolveA \in [Upto(M + D) -> Upto(Q)]
<1>1. HeadOfA(Rest) \in [Row -> Upto(Q)] BY RestType, SparseIsOK, HeadOfAIs
<1>2. DrawnTail \in [M .. M + D - 1 -> Upto(Q)] BY RestType
<1>3. \A e \in Upto(M + D) : IF e < M THEN e \in Row ELSE e \in M .. M + D - 1
  BY Dimensions DEF Upto, Row
<1> QED BY <1>1, <1>2, <1>3, SolveAIs

-----------------------------------------------------------------------------
(* The stream invariant: what has been drawn, and from where *)

DrawsT   == SumFunction([q \in Upto(K * N) |-> q \div 2])
DrawsTri == (N * (N + 1)) \div 2

TOf(seed) == TFrom(seed, Final(seed).n)
LOf(seed) == LowerFrom(seed, Final(seed).n + DrawsT)
UOf(seed) == UpperFrom(seed, Final(seed).n + DrawsT + DrawsTri)

AtStart == /\ C1_index = Gen!Rect!Identity /\ tracker = Gen!Rect!NoMarks
           /\ i = 0 /\ j = 0 /\ row = 0 /\ k = 0 /\ pc = "index"

\* Which program can be how far.
Flow == /\ prog \in {"idle", "key_gen", "sig_gen", "sig_ver", "print_sk"}
        /\ prog = "key_gen"  => phase \in {"seed", "C", "L", "U", "pk"}
        /\ prog = "sig_gen"  => phase \in {"C", "L", "U", "try", "x"}
        /\ prog = "sig_ver"  => phase = "open"
        /\ prog = "print_sk" => phase \in {"C", "L", "U", "print"}
        /\ prog = "idle"     => phase \in {"idle", "opened", "parsed", "printed"}

\* The generation runs on the secret key's stream from its beginning, and
\* what follows continues where it ended.
OnStream ==
  /\ DrbgOK
  /\ sk \in [seed : Streams \cup {None}, cp : [Row -> Upto(Q)] \cup {None}]
  /\ phase # "seed" => sk.seed = drbg.seed
  /\ GenP!GenInv
  /\ phase = "seed" => AtStart
  /\ phase = "C" => Reached(sk.seed, View)
  /\ phase \notin {"seed", "C"} => pc = "done" /\ C = Final(sk.seed).C
  /\ phase = "L" => drbg.n = Final(sk.seed).n + DrawsT
  /\ phase = "U" => drbg.n = Final(sk.seed).n + DrawsT + DrawsTri

\* The programs start in order.
LEMMA FlowInit == Init => Flow
BY DEF Init, Flow

\* Every step keeps the order of the programs.
LEMMA FlowStep == Flow /\ [Next]_vars => Flow'
<1> SUFFICES ASSUME Flow, [Next]_vars PROVE Flow'
  OBVIOUS
<1> USE DEF Flow
<1>1. CASE GenerateC
  BY <1>1 DEF GenerateC, DrawSeed, IndexDraw, StartValues, ValueDraw, AcceptC1, RejectC1,
              TakeC1, ErrorDraw
<1>2. CASE FillT \/ FillL \/ FillU
  BY <1>2 DEF FillT, FillL, FillU
<1>3. CASE Publish \/ (\E m \in Messages : SigGen(m)) \/ PrintSk
  BY <1>3 DEF Publish, SigGen, PrintSk, Redraw
<1>4. CASE Try \/ Finish \/ Open \/ PrintMatrices \/ SigParse
  BY <1>4 DEF Try, Finish, Open, PrintMatrices, SigParse
<1>5. CASE Returned \/ UNCHANGED vars
  BY <1>5 DEF Returned, vars
<1> QED BY <1>1, <1>2, <1>3, <1>4, <1>5 DEF Next

\* The first arrays satisfy the invariant of GenerateC.
LEMMA StartInvariant == GenP!Init => GenP!GenInv
BY GenAssumption, GenP!GenInit

\* So do arrays set up again.
LEMMA RestartInvariant == GenP!Init' => GenP!GenInv'
BY StartInvariant, PTL

\* A program that sets its arrays up starts GenerateC anew.
LEMMA SameRestart ==
  ASSUME AtStart', C' = ZeroMatrix(M, M + D)
  PROVE  GenP!Init'
BY DEF AtStart, GenP!Init, GenP!Rect!Init, Gen!Rect!Identity,
       GenP!Rect!Identity, Gen!Rect!NoMarks, GenP!Rect!NoMarks,
       Gen!Rect!Row, GenP!Rect!Row, Gen!Rect!Col, GenP!Rect!Col,
       ZeroMatrix, GenP!ZeroMatrix, Upto, GenP!Upto

\* The steps of the generation keep its invariant.
LEMMA GenUnchanged ==
  ASSUME GenP!GenInv, UNCHANGED generator
  PROVE  GenP!GenInv'
<1>1. GenP!GenInv /\ [GenP!Next]_(GenP!vars) => GenP!GenInv' BY GenAssumption, GenP!GenStep
<1> QED BY <1>1 DEF generator, GenP!vars

\* A call for a position keeps the invariant of GenerateC.
LEMMA GenIndexDraw ==
  ASSUME GenP!GenInv, IndexDraw
  PROVE  GenP!GenInv'
<1> DEFINE s == NIST_rng(M - i) + i
<1>1. Gen!IndexDraw(s) BY DEF IndexDraw
<1> HIDE DEF s
<1>2. GenP!IndexDraw(s) BY <1>1, SameIndexDraw
<1>3. s \in i .. M - 1 BY <1>1 DEF Gen!IndexDraw, Gen!Rect!Draw
<1>4. s \in GenP!Row BY <1>3, GenFacts, Dimensions DEF GenP!Row, GenP!Upto, Row, Upto
<1> QED BY <1>2, <1>4, GenAssumption, GenP!IndexDrawStep

\* So does the passage to the signs.
LEMMA GenStartValues ==
  ASSUME GenP!GenInv, StartValues
  PROVE  GenP!GenInv'
<1>1. GenP!StartValues BY SameStartValues DEF StartValues
<1> QED BY <1>1, GenAssumption, GenP!StartValuesStep

\* So does the draw of a sign: it is one the invariant expects.
LEMMA GenValueDraw ==
  ASSUME RandWords, DrbgOK, GenP!GenInv, ValueDraw
  PROVE  GenP!GenInv'
<1> DEFINE b == NIST_rng(2)
<1>1. Gen!ValueDraw(b) BY DEF ValueDraw
<1>2. b \in {0, 1}
  <2>1. Rand(drbg.seed, drbg.n) % 2 \in Upto(2) BY DrawBelow DEF DrbgOK
  <2>2. b = Rand(drbg.seed, drbg.n) % 2 BY NextDraw
  <2> HIDE DEF b
  <2> QED BY <2>1, <2>2 DEF Upto
<1> HIDE DEF b
<1>3. GenP!ValueDraw(b) BY <1>1, SameValueDraw
<1> QED BY <1>2, <1>3, GenAssumption, GenP!ValueDrawStep

\* So does the acceptance of C1.
LEMMA GenTest ==
  ASSUME GenP!GenInv, AcceptC1 \/ TakeC1
  PROVE  GenP!GenInv'
<1>1. GenP!AcceptUntested
  BY DEF AcceptC1, TakeC1, Gen!Accept, Gen!AcceptUntested, GenP!AcceptUntested, Gen!rectangle,
         GenP!rectangle
<1> QED BY <1>1, GenAssumption, GenP!UntestedStep

\* A rejection starts again.
LEMMA GenReject ==
  ASSUME GenP!GenInv, RejectC1
  PROVE  GenP!GenInv' /\ AtStart'
<1>1. /\ GenP!Rect!Retry /\ pc = "test" /\ pc' = "index"
      /\ C' = C /\ row' = row /\ k' = k
  BY SameRetry DEF RejectC1
<1>2. GenP!GenInv' BY <1>1, GenAssumption, GenP!RestartStep
<1>3. row = 0 /\ k = 0 BY <1>1, GenFacts
<1>4. AtStart'
  BY <1>1, <1>3 DEF AtStart, RejectC1, Gen!Retry, Gen!Rect!Retry
<1> QED BY <1>2, <1>4

\* A step of C2 keeps it: row and entry are ones the invariant expects.
LEMMA GenErrorDraw ==
  ASSUME RandWords, DrbgOK, GenP!GenInv, ErrorDraw
  PROVE  GenP!GenInv'
<1> DEFINE d == M + NIST_rng(D)
           b == IF C[row][d] = 0 THEN DrawAt(1, 2) ELSE 0
<1>1. Gen!ErrorDraw(d, b) BY DEF ErrorDraw
<1>2. drbg.seed \in Streams /\ drbg.n \in Nat /\ drbg.n + 1 \in Nat BY DEF DrbgOK
<1>3. b \in {0, 1}
  <2>1. Rand(drbg.seed, drbg.n + 1) % 2 \in Upto(2) BY <1>2, DrawBelow
  <2>2. DrawAt(1, 2) = Rand(drbg.seed, drbg.n + 1) % 2 BY DEF DrawAt
  <2> HIDE DEF d
  <2> QED BY <2>1, <2>2 DEF Upto
<1>4. d \in GenP!C2Col
  <2>1. D \in Nat /\ D > 0 /\ M \in Nat BY SchemeAssumption
  <2>2. Rand(drbg.seed, drbg.n) % D \in Upto(D) BY <1>2, <2>1, DrawBelow
  <2>3. d = M + (Rand(drbg.seed, drbg.n) % D) BY NextDraw
  <2> HIDE DEF d
  <2> QED BY <2>1, <2>2, <2>3 DEF Upto, GenP!C2Col
<1> HIDE DEF b, d
<1>5. GenP!ErrorDraw(d, b) BY <1>1, SameErrorDraw
<1> QED BY <1>3, <1>4, <1>5, GenAssumption, GenP!ErrorDrawStep

\* The first seed is not drawn yet.
LEMMA OnStreamInit == Init => OnStream
<1> SUFFICES ASSUME Init PROVE OnStream
  OBVIOUS
<1>1. Gen!Init BY DEF Init
<1>2. GenP!GenInv BY <1>1, SameInit, StartInvariant
<1>3. AtStart BY <1>1 DEF Gen!Init, Gen!Rect!Init, AtStart
<1>4. DrbgOK /\ sk \in [seed : Streams \cup {None}, cp : [Row -> Upto(Q)] \cup {None}]
  BY DEF Init, DrbgOK, Seeded, Streams
<1>5. phase = "seed" BY DEF Init
<1> QED BY <1>2, <1>3, <1>4, <1>5 DEF OnStream

\* DrawSeed starts the stream of the new seed from its beginning.
LEMMA DrawSeedStream ==
  ASSUME RandWords, OnStream, DrawSeed
  PROVE  OnStream'
<1> DEFINE s == [b \in 1 .. SEEDBYTES |-> DrawAt(b - 1, 256)]
<1>1. /\ phase = "seed" /\ phase' = "C" /\ sk' = [sk EXCEPT !.seed = s]
      /\ drbg' = Seeded(s)
      /\ UNCHANGED generator
  BY DEF DrawSeed
<1>2. s \in Streams
  <2>1. ASSUME NEW b \in 1 .. SEEDBYTES PROVE DrawAt(b - 1, 256) \in 0 .. 255
    <3>1. SEEDBYTES \in Nat BY SchemeAssumption
    <3>2. drbg.seed \in Streams /\ drbg.n \in Nat BY DEF OnStream, DrbgOK
    <3>3. drbg.n + (b - 1) \in Nat BY <3>1, <3>2
    <3>4. Rand(drbg.seed, drbg.n + (b - 1)) % 256 \in Upto(256) BY <3>2, <3>3, DrawBelow
    <3> QED BY <3>4 DEF DrawAt, Upto
  <2> QED BY <2>1 DEF Streams
<1> HIDE DEF s
<1>3. DrbgOK' BY <1>1, <1>2 DEF DrbgOK, Seeded
<1>4. /\ sk' \in [seed : Streams \cup {None}, cp : [Row -> Upto(Q)] \cup {None}]
      /\ sk'.seed = s
  BY <1>1, <1>2 DEF OnStream
<1>5. drbg'.seed = s /\ drbg'.n = 0 BY <1>1 DEF Seeded
<1>6. GenP!GenInv' BY <1>1, GenUnchanged DEF OnStream
<1>7. View' = Start
  BY <1>1, <1>5 DEF View, Start, OnStream, AtStart, generator
<1>8. Reached(sk'.seed, View') BY <1>7, ReachedStart
<1>9. Reached(sk.seed, View)' BY <1>8
<1> QED BY <1>1, <1>3, <1>4, <1>5, <1>6, <1>9 DEF OnStream

\* A pass of a loop of the generation.
LEMMA PassStream ==
  ASSUME OnStream, phase = "C", phase' = "C", DrbgOK', drbg'.seed = drbg.seed,
         sk' \in [seed : Streams \cup {None}, cp : [Row -> Upto(Q)] \cup {None}],
         sk'.seed = sk.seed, GenP!GenInv', View' = After(drbg.seed, View)
  PROVE  OnStream'
<1>1. sk.seed = drbg.seed /\ Reached(sk.seed, View) BY DEF OnStream
<1>2. Reached(sk.seed, After(sk.seed, View)) BY <1>1, ReachedAfter
<1>3. Reached(sk'.seed, View') BY <1>1, <1>2
<1>4. Reached(sk.seed, View)' BY <1>3
<1> QED BY <1>1, <1>4 DEF OnStream

\* A characteristic polynomial has residues as coefficients.
LEMMA CpType ==
  ASSUME GenP!GenInv
  PROVE  [d \in Row |-> CharPolyOf(M, C)[d]] \in [Row -> Upto(Q)]
<1>1. IntMatrix(M, M + D, C) BY GenFacts, MatrixInt
<1>2. \A c \in Upto(M) : c \in Upto(M + D) BY Dimensions DEF Upto
<1>3. \A r, c \in Upto(M) : C[r][c] \in Int BY <1>1, <1>2 DEF IntMatrix, IntVector
<1>4. CharPolyOf(M, C) \in [0 .. M -> Upto(Q)] BY <1>3, CharPolyLaw
<1>5. \A d \in Row : d \in 0 .. M BY Dimensions DEF Row, Upto
<1> QED BY <1>4, <1>5

\* While C is generated, the state is one reached from the seed.
LEMMA GenerateStream ==
  ASSUME RandWords, OnStream,
         IndexDraw \/ StartValues \/ ValueDraw \/ AcceptC1 \/ TakeC1 \/ ErrorDraw
  PROVE  OnStream'
<1> USE DEF OnStream
<1>1. CASE IndexDraw
  <2>1. phase = "C" /\ phase' = "C" /\ sk' = sk /\ Consume(1) BY <1>1 DEF IndexDraw
  <2>2. DrbgOK' /\ drbg'.seed = drbg.seed BY <2>1, Consumes
  <2>3. GenP!GenInv' BY <1>1, GenIndexDraw
  <2>4. View' = After(drbg.seed, View) BY <1>1, IndexDrawView
  <2> QED BY <2>1, <2>2, <2>3, <2>4, PassStream
<1>2. CASE StartValues
  <2>1. phase = "C" /\ phase' = "C" /\ sk' = sk /\ drbg' = drbg BY <1>2 DEF StartValues
  <2>2. DrbgOK' BY <2>1 DEF DrbgOK
  <2>3. GenP!GenInv' BY <1>2, GenStartValues
  <2>4. View' = After(drbg.seed, View) BY <1>2, StartValuesView
  <2> QED BY <2>1, <2>2, <2>3, <2>4, PassStream
<1>3. CASE ValueDraw
  <2>1. phase = "C" /\ phase' = "C" /\ sk' = sk /\ Consume(1) BY <1>3 DEF ValueDraw
  <2>2. DrbgOK' /\ drbg'.seed = drbg.seed BY <2>1, Consumes
  <2>3. GenP!GenInv' BY <1>3, GenValueDraw
  <2>4. View' = After(drbg.seed, View) BY <1>3, ValueDrawView
  <2> QED BY <2>1, <2>2, <2>3, <2>4, PassStream
<1>4. CASE AcceptC1 \/ TakeC1
  <2>1. phase = "C" /\ phase' = "C" /\ drbg' = drbg BY <1>4 DEF AcceptC1, TakeC1
  <2>2. DrbgOK' BY <2>1 DEF DrbgOK
  <2>3. GenP!GenInv' BY <1>4, GenTest
  <2>4. View' = After(drbg.seed, View) BY <1>4, TestView
  <2>5. /\ sk' \in [seed : Streams \cup {None}, cp : [Row -> Upto(Q)] \cup {None}]
        /\ sk'.seed = sk.seed
    <3>1. CASE TakeC1 BY <3>1 DEF TakeC1
    <3>2. CASE AcceptC1
      <4> DEFINE cp == [d \in Row |-> CharPolyOf(M, C)[d]]
      <4>1. sk' = [sk EXCEPT !.cp = cp] BY <3>2 DEF AcceptC1
      <4>2. cp \in [Row -> Upto(Q)] BY CpType
      <4> HIDE DEF cp
      <4> QED BY <4>1, <4>2
    <3> QED BY <1>4, <3>1, <3>2
  <2> QED BY <2>1, <2>2, <2>3, <2>4, <2>5, PassStream
<1>5. CASE ErrorDraw
  <2> DEFINE m == IF C[row][M + NIST_rng(D)] = 0 THEN 2 ELSE 1
  <2>1. phase = "C" /\ phase' = "C" /\ sk' = sk /\ Consume(m) BY <1>5 DEF ErrorDraw
  <2>2. m \in Nat OBVIOUS
  <2> HIDE DEF m
  <2>3. DrbgOK' /\ drbg'.seed = drbg.seed BY <2>1, <2>2, Consumes
  <2>4. GenP!GenInv' BY <1>5, GenErrorDraw
  <2>5. View' = After(drbg.seed, View) BY <1>5, ErrorDrawView
  <2> QED BY <2>1, <2>3, <2>4, <2>5, PassStream
<1> QED BY <1>1, <1>2, <1>3, <1>4, <1>5

\* After a rejection a new seed is waited for.
LEMMA RejectStream ==
  ASSUME OnStream, RejectC1
  PROVE  OnStream'
<1>1. phase' = "seed" /\ drbg' = drbg /\ sk' = sk BY DEF RejectC1
<1>2. GenP!GenInv' /\ AtStart' BY GenReject DEF OnStream
<1>3. DrbgOK' BY <1>1 DEF OnStream, DrbgOK
<1> QED BY <1>1, <1>2, <1>3 DEF OnStream

\* The last state of the generation is the one that its seed determines.
LEMMA FinalView ==
  ASSUME OnStream, phase = "C", pc = "done"
  PROVE  C = Final(sk.seed).C /\ drbg.n = Final(sk.seed).n
<1> DEFINE v == View
<1>1. v.pc = "done" /\ v.C = C /\ v.n = drbg.n BY ViewFields
<1>2. Reached(sk.seed, v) BY DEF OnStream
<1> HIDE DEF v
<1>3. v = Final(sk.seed) BY <1>1, <1>2, FinalIs
<1> QED BY <1>1, <1>3

\* The numbers of draws for T and for a triangular matrix.
LEMMA DrawCounts == DrawsT \in Nat /\ DrawsTri \in Nat
<1>1. K * N \in Nat /\ N \in Nat BY Dimensions
<1>2. DrawsT \in Nat BY <1>1, HalvesNat DEF DrawsT
<1>3. N * (N + 1) \in Nat BY <1>1
<1>4. DrawsTri \in Nat BY <1>3 DEF DrawsTri
<1> QED BY <1>2, <1>4

\* The order in which T, L and U are filled.
LEMMA FillPhases ==
  ASSUME Flow
  PROVE  /\ FillT => phase = "C" /\ phase' = "L"
         /\ FillL => phase = "L" /\ phase' = "U"
         /\ FillU => phase = "U" /\ phase' \in {"pk", "try", "print"}
<1>1. FillT => phase = "C" /\ phase' = "L" BY DEF FillT
<1>2. FillL => phase = "L" /\ phase' = "U" BY DEF FillL
<1>3. ASSUME FillU PROVE phase = "U" /\ phase' \in {"pk", "try", "print"}
  <2>1. phase = "U" /\ prog \in {"key_gen", "sig_gen", "print_sk"} BY <1>3 DEF FillU, Flow
  <2> QED BY <1>3, <2>1 DEF FillU
<1> QED BY <1>1, <1>2, <1>3

\* Each of them is drawn where the one before ended.
LEMMA FillStream ==
  ASSUME Flow, OnStream, FillT \/ FillL \/ FillU
  PROVE  OnStream'
<1>1. /\ UNCHANGED <<generator, sk>> /\ phase \in {"C", "L", "U"}
      /\ phase' \notin {"seed", "C"}
  <2>1. UNCHANGED <<generator, sk>> BY DEF FillT, FillL, FillU
  <2> QED BY <2>1, FillPhases
<1>2. GenP!GenInv' BY <1>1, GenUnchanged DEF OnStream
<1>3. pc' = "done" /\ C' = Final(sk'.seed).C
  <2>1. pc = "done" /\ C = Final(sk.seed).C
    BY <1>1, FinalView DEF OnStream, FillT, FillL, FillU
  <2> QED BY <1>1, <2>1 DEF generator
<1>4. /\ DrbgOK' /\ drbg'.seed = drbg.seed
      /\ phase' = "L" => drbg'.n = Final(sk.seed).n + DrawsT
      /\ phase' = "U" => drbg'.n = Final(sk.seed).n + DrawsT + DrawsTri
  <2>1. CASE FillT
    <3>1. Consume(DrawsT) /\ phase = "C" /\ pc = "done" /\ phase' = "L"
      BY <2>1 DEF FillT, DrawsT
    <3>2. drbg.n = Final(sk.seed).n BY <3>1, FinalView
    <3> QED BY <3>1, <3>2, Consumes, DrawCounts DEF OnStream
  <2>2. CASE FillL
    <3>1. Consume(DrawsTri) /\ phase = "L" /\ phase' = "U"
      BY <2>2 DEF FillL, DrawsTri
    <3> QED BY <3>1, Consumes, DrawCounts DEF OnStream
  <2>3. CASE FillU
    <3>1. Consume(DrawsTri) /\ phase' \notin {"L", "U"}
      BY <2>3, FillPhases DEF FillU, DrawsTri
    <3> QED BY <3>1, Consumes, DrawCounts DEF OnStream
  <2> QED BY <2>1, <2>2, <2>3
<1>5. sk' = sk BY <1>1
<1>6. C' = Final(sk.seed).C BY <1>3, <1>5
<1> QED BY <1>1, <1>2, <1>3, <1>4, <1>5, <1>6 DEF OnStream

\* A program that reseeds is at the beginning of the same stream.
LEMMA RedrawStream ==
  ASSUME OnStream, NEW program, Redraw(program)
  PROVE  OnStream'
<1>1. /\ phase = "idle" /\ phase' = "C" /\ drbg' = Seeded(sk.seed) /\ sk' = sk
      /\ AtStart' /\ C' = ZeroMatrix(M, M + D)
  BY DEF Redraw, AtStart
<1>2. GenP!GenInv' BY <1>1, SameRestart, RestartInvariant
<1>3. sk.seed \in Streams BY <1>1 DEF OnStream, DrbgOK
<1>4. DrbgOK' /\ drbg'.seed = sk'.seed /\ drbg'.n = 0 BY <1>1, <1>3 DEF DrbgOK, Seeded
<1>5. View' = Start BY <1>1, <1>4 DEF View, Start, AtStart
<1>6. Reached(sk'.seed, View') BY <1>5, ReachedStart
<1>7. Reached(sk.seed, View)' BY <1>6
<1> QED BY <1>1, <1>2, <1>4, <1>7 DEF OnStream

\* Every step keeps the position in the stream of the seed.
LEMMA OnStreamStep == RandWords /\ Flow /\ OnStream /\ [Next]_vars => OnStream'
<1> SUFFICES ASSUME RandWords, Flow, OnStream, [Next]_vars PROVE OnStream'
  OBVIOUS
<1>1. CASE GenerateC
  BY <1>1, DrawSeedStream, GenerateStream, RejectStream DEF GenerateC
<1>2. CASE FillT \/ FillL \/ FillU
  BY <1>2, FillStream
<1>3. CASE (\E m \in Messages : SigGen(m)) \/ PrintSk
  BY <1>3, RedrawStream DEF SigGen, PrintSk
<1>4. CASE Try
  <2>1. /\ UNCHANGED <<generator, sk>> /\ Consume(D) /\ phase = "try"
        /\ phase' \in {"try", "x"}
    BY <1>4 DEF Try
  <2>2. D \in Nat BY SchemeAssumption
  <2>3. DrbgOK' /\ drbg'.seed = drbg.seed BY <2>1, <2>2, Consumes DEF OnStream
  <2>4. GenP!GenInv' BY <2>1, GenUnchanged DEF OnStream
  <2>5. pc' = pc /\ C' = C BY <2>1 DEF generator
  <2> QED BY <2>1, <2>3, <2>4, <2>5 DEF OnStream
<1>5. CASE Publish \/ Finish \/ Open \/ PrintMatrices \/ SigParse
  <2>1. /\ UNCHANGED <<generator, sk, drbg>> /\ phase \notin {"seed", "C"}
        /\ phase' \notin {"seed", "C", "L", "U"}
    BY <1>5 DEF Publish, Finish, Open, PrintMatrices, SigParse
  <2>2. GenP!GenInv' BY <2>1, GenUnchanged DEF OnStream
  <2>3. pc' = pc /\ C' = C BY <2>1 DEF generator
  <2>4. DrbgOK' BY <2>1 DEF OnStream, DrbgOK
  <2> QED BY <2>1, <2>2, <2>3, <2>4 DEF OnStream
<1>6. CASE Returned \/ UNCHANGED vars
  <2>1. UNCHANGED <<generator, sk, drbg, phase>> BY <1>6 DEF Returned, vars
  <2>2. GenP!GenInv' BY <2>1, GenUnchanged DEF OnStream
  <2>3. View' = View BY <2>1 DEF View, generator
  <2>4. pc' = pc /\ C' = C /\ AtStart' = AtStart BY <2>1 DEF generator, AtStart
  <2>5. DrbgOK' BY <2>1 DEF OnStream, DrbgOK
  <2>6. Reached(sk.seed, View)' = Reached(sk.seed, View) BY <2>1, <2>3 DEF Reached
  <2> QED BY <2>1, <2>2, <2>4, <2>5, <2>6 DEF OnStream
<1> QED BY <1>1, <1>2, <1>3, <1>4, <1>5, <1>6 DEF Next

-----------------------------------------------------------------------------
(* The matrices and the keys *)

\* The definitions of Ehtv3's instance of the generator and Ehtv3's own.
LEMMA SameCardinality == ASSUME NEW X PROVE Gen!Cardinality(X) = Cardinality(X)
BY DEF Gen!Cardinality, Cardinality

\* GenerateC sums as this module does.
LEMMA SameSum == ASSUME NEW f PROVE Gen!SumFunction(f) = SumFunction(f)
BY DEF Gen!SumFunction, SumFunction, Gen!SumFunctionOnSet, SumFunctionOnSet,
       Gen!FoldFunctionOnSet, FoldFunctionOnSet, Gen!MapThenFoldSet, MapThenFoldSet

\* And multiplies as it does.
LEMMA SameProduct ==
  ASSUME NEW f
  PROVE  Gen!FoldFunction(LAMBDA u, v : u * v, 1, f)
           = FoldFunction(LAMBDA u, v : u * v, 1, f)
BY DEF Gen!FoldFunction, FoldFunction, Gen!FoldFunctionOnSet, FoldFunctionOnSet,
       Gen!MapThenFoldSet, MapThenFoldSet

\* And has the same determinant.
LEMMA SameDeterminant == ASSUME NEW A PROVE Gen!Determinant(M, A) = Determinant(M, A)
<1> DEFINE I == Upto(M)
           gen(p) == Gen!Sign(I, p) * Gen!FoldFunction(LAMBDA u, v : u * v, 1,
                                                       [s \in I |-> A[s][p[s]]])
           term(p) == Sign(I, p) * FoldFunction(LAMBDA u, v : u * v, 1,
                                                [s \in I |-> A[s][p[s]]])
<1>1. Gen!Upto(M) = I /\ Gen!Bijections(I) = Bijections(I)
  BY DEF Gen!Upto, Upto, Gen!Bijections, Bijections
<1>2. ASSUME NEW p \in Bijections(I) PROVE gen(p) = term(p)
  <2>1. Gen!Inversions(I, p) = Inversions(I, p) BY DEF Gen!Inversions, Inversions
  <2>2. Gen!Sign(I, p) = Sign(I, p) BY <2>1, SameCardinality DEF Gen!Sign, Sign
  <2> DEFINE f == [s \in I |-> A[s][p[s]]]
  <2> HIDE DEF f
  <2>3. Gen!FoldFunction(LAMBDA u, v : u * v, 1, f)
          = FoldFunction(LAMBDA u, v : u * v, 1, f)
    BY SameProduct
  <2> QED BY <2>2, <2>3 DEF f
<1> HIDE DEF I
<1>3. Gen!Leibniz(A, I) = Gen!SumFunction([p \in Gen!Bijections(I) |-> gen(p)])
  BY DEF Gen!Leibniz
<1>4. Leibniz(A, I) = SumFunction([p \in Bijections(I) |-> term(p)]) BY DEF Leibniz
<1> HIDE DEF gen, term
<1>5. [p \in Gen!Bijections(I) |-> gen(p)] = [p \in Bijections(I) |-> term(p)]
  BY <1>1, <1>2
<1>6. Gen!Minor(A, I) = Minor(A, I) BY <1>3, <1>4, <1>5, SameSum DEF Gen!Minor, Minor
<1> QED BY <1>1, <1>6 DEF Gen!Determinant, Determinant, I

HasT == phase \in {"L", "U", "pk", "try", "x", "open", "opened", "parsed", "print", "printed"}
HasL == phase \in {"U", "pk", "try", "x", "open", "opened", "parsed", "print"}
HasU == phase \in {"pk", "try", "x", "open", "opened", "parsed", "print"}

\* The matrices are those that the secret key determines.
MatricesOK ==
  /\ IF HasT THEN T = TOf(sk.seed) /\ Shape(T) ELSE T = None
  /\ IF HasL THEN LM = LOf(sk.seed) /\ Regular(LM) /\ Lower(LM) ELSE LM = None
  /\ IF HasU THEN UM = UOf(sk.seed) /\ Regular(UM) /\ Upper(UM) ELSE UM = None

\* At the start no matrix is claimed.
LEMMA MatricesInit == Init => MatricesOK
BY DEF Init, MatricesOK, HasT, HasL, HasU

\* What is filled into T, L and U is what the seed of the secret key gives.
LEMMA DrawnMatrices ==
  ASSUME RandWords, OnStream
  PROVE  /\ phase = "C" /\ pc = "done" => DrawnT = TOf(sk.seed) /\ Shape(DrawnT)
         /\ phase = "L" => /\ DrawnLower = LOf(sk.seed)
                           /\ Regular(DrawnLower) /\ Lower(DrawnLower)
         /\ phase = "U" => /\ DrawnUpper = UOf(sk.seed)
                           /\ Regular(DrawnUpper) /\ Upper(DrawnUpper)
<1>1. drbg.seed \in Streams /\ drbg.n \in Nat BY DEF OnStream, DrbgOK
<1>2. phase # "seed" => sk.seed = drbg.seed BY DEF OnStream
<1>3. phase = "C" /\ pc = "done" => drbg.n = Final(sk.seed).n BY FinalView
<1>4. /\ phase = "L" => drbg.n = Final(sk.seed).n + DrawsT
      /\ phase = "U" => drbg.n = Final(sk.seed).n + DrawsT + DrawsTri
  BY DEF OnStream
<1>5. phase = "C" /\ pc = "done" => DrawnT = TOf(sk.seed) /\ Shape(DrawnT)
  <2>1. Shape(TFrom(drbg.seed, drbg.n)) BY <1>1, TFromLaw
  <2> QED BY <1>2, <1>3, <2>1, DrawnAre DEF TOf
<1>6. phase = "L" => DrawnLower = LOf(sk.seed) /\ Regular(DrawnLower) /\ Lower(DrawnLower)
  <2>1. Regular(LowerFrom(drbg.seed, drbg.n)) /\ Lower(LowerFrom(drbg.seed, drbg.n))
    BY <1>1, LowerFromLaw
  <2> QED BY <1>2, <1>4, <2>1, DrawnAre DEF LOf
<1>7. phase = "U" => DrawnUpper = UOf(sk.seed) /\ Regular(DrawnUpper) /\ Upper(DrawnUpper)
  <2>1. Regular(UpperFrom(drbg.seed, drbg.n)) /\ Upper(UpperFrom(drbg.seed, drbg.n))
    BY <1>1, UpperFromLaw
  <2> QED BY <1>2, <1>4, <2>1, DrawnAre DEF UOf
<1> QED BY <1>5, <1>6, <1>7

\* Every step keeps the matrices those of the seed.
LEMMA MatricesStep ==
  RandWords /\ Flow /\ OnStream /\ MatricesOK /\ [Next]_vars => MatricesOK'
<1> SUFFICES ASSUME RandWords, Flow, OnStream, MatricesOK, [Next]_vars PROVE MatricesOK'
  OBVIOUS
<1>1. CASE GenerateC
  <2>1. T' = T /\ LM' = LM /\ UM' = UM /\ phase \in {"seed", "C"} /\ phase' \in {"seed", "C"}
    BY <1>1 DEF GenerateC, DrawSeed, IndexDraw, StartValues, ValueDraw, AcceptC1, RejectC1,
                TakeC1, ErrorDraw, matrices
  <2> QED BY <2>1 DEF MatricesOK, HasT, HasL, HasU
<1>2. CASE FillT
  <2>1. phase = "C" /\ pc = "done" /\ phase' = "L" /\ T' = DrawnT /\ LM' = LM /\ UM' = UM
        /\ sk' = sk
    BY <1>2 DEF FillT
  <2>2. T' = TOf(sk'.seed) /\ Shape(T') BY <2>1, DrawnMatrices
  <2> QED BY <2>1, <2>2 DEF MatricesOK, HasT, HasL, HasU
<1>3. CASE FillL
  <2>1. phase = "L" /\ phase' = "U" /\ LM' = DrawnLower /\ T' = T /\ UM' = UM /\ sk' = sk
    BY <1>3 DEF FillL
  <2>2. LM' = LOf(sk'.seed) /\ Regular(LM') /\ Lower(LM') BY <2>1, DrawnMatrices
  <2> QED BY <2>1, <2>2 DEF MatricesOK, HasT, HasL, HasU
<1>4. CASE FillU
  <2>1. UM' = DrawnUpper /\ T' = T /\ LM' = LM /\ sk' = sk
    BY <1>4 DEF FillU
  <2>2. phase = "U" /\ phase' \in {"pk", "try", "print"} BY <1>4, FillPhases
  <2>3. UM' = UOf(sk'.seed) /\ Regular(UM') /\ Upper(UM') BY <2>1, <2>2, DrawnMatrices
  <2> QED BY <2>1, <2>2, <2>3 DEF MatricesOK, HasT, HasL, HasU
<1>5. CASE Publish
  BY <1>5 DEF Publish, MatricesOK, HasT, HasL, HasU
<1>6. CASE (\E m \in Messages : SigGen(m)) \/ PrintSk
  <2>1. T' = T /\ LM' = LM /\ UM' = UM /\ phase = "idle" /\ phase' = "C"
    BY <1>6 DEF SigGen, PrintSk, Redraw, matrices
  <2> QED BY <2>1 DEF MatricesOK, HasT, HasL, HasU
<1>7. CASE Try \/ Finish \/ Open \/ SigParse
  <2>1. /\ T' = T /\ LM' = LM /\ UM' = UM /\ sk' = sk
        /\ phase \in {"try", "x", "open", "opened"}
        /\ phase' \in {"try", "x", "open", "opened", "parsed"}
    BY <1>7 DEF Try, Finish, Open, SigParse, matrices
  <2> QED BY <2>1 DEF MatricesOK, HasT, HasL, HasU
<1>8. CASE PrintMatrices
  BY <1>8 DEF PrintMatrices, MatricesOK, HasT, HasL, HasU
<1>9. CASE Returned \/ UNCHANGED vars
  <2>1. UNCHANGED <<T, LM, UM, sk, phase>> BY <1>9 DEF Returned, vars, matrices
  <2> QED BY <2>1 DEF MatricesOK, HasT, HasL, HasU
<1> QED BY <1>1, <1>2, <1>3, <1>4, <1>5, <1>6, <1>7, <1>8, <1>9 DEF Next

\* The public key that belongs to a secret key.
AOf(seed) ==
  Product(M, K * N, N, Final(seed).C,
          Product(K * N, N, N, TOf(seed),
                  Product(N, N, N, UpperInverse(UOf(seed)), LowerInverse(LOf(seed)))))

\* The secret key's polynomial is the one of an invertible C1.
CpFits(A) == sk.cp = [d \in Row |-> CharPolyOf(M, A)[d]] /\ Determinant(M, A) # 0

KeyOK ==
  /\ prog = "key_gen"  => /\ pk = None
                          /\ pc \in {"error", "done"} => CpFits(C)
  /\ prog # "key_gen" => /\ pk = AOf(sk.seed) /\ pk \in Matrix(M, N)
                         /\ CpFits(Final(sk.seed).C)

\* At the start no key is claimed.
LEMMA KeyInit == Init => KeyOK
BY DEF Init, KeyOK, Gen!Init

\* A step of C2 leaves C1 as it is.
LEMMA ErrorDrawC1 ==
  ASSUME RandWords, OnStream, ErrorDraw
  PROVE  \A r, c \in Upto(M) : C'[r][c] = C[r][c]
<1> DEFINE d == M + NIST_rng(D)
           b == IF C[row][d] = 0 THEN DrawAt(1, 2) ELSE 0
<1>1. C' = [C EXCEPT ![row][d] = Gen!Stepped(@, b)]
  BY DEF ErrorDraw, Gen!ErrorDraw
<1>2. \A c \in Upto(M) : c # d
  <2>1. D \in Nat /\ D > 0 /\ M \in Nat BY SchemeAssumption
  <2>2. drbg.seed \in Streams /\ drbg.n \in Nat BY DEF OnStream, DrbgOK
  <2>3. Rand(drbg.seed, drbg.n) % D \in Upto(D) BY <2>1, <2>2, DrawBelow
  <2>4. d = M + (Rand(drbg.seed, drbg.n) % D) BY NextDraw DEF OnStream
  <2> HIDE DEF d
  <2> QED BY <2>1, <2>3, <2>4 DEF Upto
<1> HIDE DEF d, b
<1>3. C \in Matrix(M, M + D) BY GenFacts DEF OnStream
<1> QED BY <1>1, <1>2, <1>3 DEF Matrix

\* Publish writes the public key that belongs to the seed.
LEMMA PublishedKey ==
  ASSUME OnStream, MatricesOK, Publish
  PROVE  pk' = AOf(sk.seed) /\ pk' \in Matrix(M, N)
<1>1. phase = "pk" /\ pk' = Product(M, K * N, N, C, Product(K * N, N, N, T, BInverse))
  BY DEF Publish
<1>2. /\ T = TOf(sk.seed) /\ Shape(T)
      /\ LM = LOf(sk.seed) /\ Regular(LM) /\ Lower(LM)
      /\ UM = UOf(sk.seed) /\ Regular(UM) /\ Upper(UM)
  BY <1>1 DEF MatricesOK, HasT, HasL, HasU
<1>3. C = Final(sk.seed).C BY <1>1 DEF OnStream
<1>4. pk' = AOf(sk.seed) BY <1>1, <1>2, <1>3 DEF AOf, BInverse
<1> DEFINE UI == UpperInverse(UM)
           EI == LowerInverse(LM)
           BI == Product(N, N, N, UI, EI)
           TB == Product(K * N, N, N, T, BI)
           n2 == K * N
<1>5. UI \in Matrix(N, N) BY <1>2, UpperInverts
<1>6. EI \in Matrix(N, N) BY <1>2, LowerInverts
<1>7. N \in Nat /\ n2 \in Nat BY Dimensions
<1>8. pk' = Product(M, n2, N, C, TB) /\ TB = Product(n2, N, N, T, BI)
  BY <1>1 DEF BInverse
<1> HIDE DEF UI, EI, TB, n2
<1>9. BI \in Matrix(N, N) BY <1>5, <1>6, <1>7, MatrixInt, ProductType
<1> HIDE DEF BI
<1>10. T \in Matrix(n2, N) BY <1>2 DEF Shape, n2
<1>11. TB \in Matrix(n2, N) BY <1>7, <1>8, <1>9, <1>10, MatrixInt, ProductType
<1>12. C \in Matrix(M, n2)
  <2>1. C \in Matrix(M, M + D) BY GenFacts DEF OnStream
  <2> QED BY <2>1, Dimensions DEF n2
<1>13. pk' \in Matrix(M, N) BY <1>7, <1>8, <1>11, <1>12, MatrixInt, ProductType
<1> QED BY <1>4, <1>13

\* Every step keeps the keys those of the seed.
LEMMA KeyStep ==
  RandWords /\ Flow /\ OnStream /\ MatricesOK /\ KeyOK /\ [Next]_vars => KeyOK'
<1> SUFFICES ASSUME RandWords, Flow, OnStream, MatricesOK, KeyOK, [Next]_vars PROVE KeyOK'
  OBVIOUS
\* A step that leaves the keys and the program alone, and C1 once it is tested.
<1>1. ASSUME sk' = sk, pk' = pk, prog' = prog,
             prog = "key_gen" => \/ pc' \notin {"error", "done"}
                                 \/ /\ pc \in {"error", "done"}
                                    /\ \A r, c \in Upto(M) : C'[r][c] = C[r][c]
      PROVE  KeyOK'
  <2>1. CASE prog # "key_gen" BY <1>1, <2>1 DEF KeyOK, CpFits
  <2>2. CASE prog = "key_gen" /\ pc' \notin {"error", "done"}
    BY <1>1, <2>2 DEF KeyOK
  <2>3. CASE /\ prog = "key_gen" /\ pc \in {"error", "done"}
             /\ \A r, c \in Upto(M) : C'[r][c] = C[r][c]
    <3>1. CharPolyOf(M, C') = CharPolyOf(M, C) /\ Determinant(M, C') = Determinant(M, C)
      BY <2>3, CharPolyLocal
    <3>2. CpFits(C) /\ pk = None BY <2>3 DEF KeyOK
    <3>3. CpFits(C)' BY <1>1, <3>1, <3>2 DEF CpFits
    <3> QED BY <1>1, <2>3, <3>2, <3>3 DEF KeyOK
  <2> QED BY <1>1, <2>1, <2>2, <2>3
<1>2. CASE DrawSeed
  <2>1. phase = "seed" /\ prog' = prog /\ pk' = pk /\ pc' = pc BY <1>2 DEF DrawSeed, generator
  <2>2. prog = "key_gen" /\ pc = "index" BY <2>1 DEF Flow, OnStream, AtStart
  <2> QED BY <2>1, <2>2 DEF KeyOK
<1>3. CASE IndexDraw
  <2>1. sk' = sk /\ pk' = pk /\ prog' = prog /\ pc' = "index"
    BY <1>3 DEF IndexDraw, Gen!IndexDraw
  <2> QED BY <1>1, <2>1
<1>4. CASE StartValues
  <2>1. sk' = sk /\ pk' = pk /\ prog' = prog /\ pc' = "value"
    BY <1>4 DEF StartValues, Gen!StartValues
  <2> QED BY <1>1, <2>1
<1>5. CASE ValueDraw
  <2>1. sk' = sk /\ pk' = pk /\ prog' = prog /\ pc' \in {"value", "test"}
    BY <1>5 DEF ValueDraw, Gen!ValueDraw, Gen!MoveOn
  <2> QED BY <1>1, <2>1
<1>6. CASE AcceptC1
  <2> DEFINE cp == [d \in Row |-> CharPolyOf(M, C)[d]]
  <2>1. /\ prog = "key_gen" /\ prog' = prog /\ pk' = pk /\ C' = C
        /\ Gen!Invertible /\ sk' = [sk EXCEPT !.cp = cp]
    BY <1>6 DEF AcceptC1, Gen!Accept
  <2>2. Determinant(M, C) # 0 BY <2>1, SameDeterminant DEF Gen!Invertible
  <2>3. sk'.cp = cp BY <2>1 DEF OnStream
  <2>4. CpFits(C)' BY <2>1, <2>2, <2>3 DEF CpFits
  <2> QED BY <2>1, <2>4 DEF KeyOK
<1>7. CASE RejectC1
  <2>1. sk' = sk /\ pk' = pk /\ prog' = prog /\ pc' = "index"
    BY <1>7 DEF RejectC1, Gen!Retry
  <2> QED BY <1>1, <2>1
<1>8. CASE TakeC1
  <2>1. sk' = sk /\ pk' = pk /\ prog' = prog /\ prog # "key_gen"
    BY <1>8 DEF TakeC1
  <2> QED BY <1>1, <2>1
<1>9. CASE ErrorDraw
  <2>1. sk' = sk /\ pk' = pk /\ prog' = prog /\ pc = "error"
    BY <1>9 DEF ErrorDraw, Gen!ErrorDraw
  <2>2. \A r, c \in Upto(M) : C'[r][c] = C[r][c] BY <1>9, ErrorDrawC1
  <2> QED BY <1>1, <2>1, <2>2
<1>10. CASE FillT \/ FillL \/ FillU
  <2>1. sk' = sk /\ pk' = pk /\ prog' = prog /\ C' = C /\ pc' = pc
    BY <1>10 DEF FillT, FillL, FillU, generator
  <2> QED BY <1>1, <2>1
<1>11. CASE Publish
  <2>1. sk' = sk /\ prog' = "idle" /\ C' = C /\ phase = "pk" /\ UNCHANGED generator
    BY <1>11 DEF Publish, generator
  <2>2. prog = "key_gen" BY <2>1 DEF Flow
  <2>3. pc = "done" /\ C = Final(sk.seed).C BY <2>1 DEF OnStream
  <2>4. CpFits(Final(sk.seed).C) BY <2>2, <2>3 DEF KeyOK
  <2>5. CpFits(Final(sk.seed).C)' BY <2>1, <2>4 DEF CpFits
  <2>6. pk' = AOf(sk.seed) /\ pk' \in Matrix(M, N) BY <1>11, PublishedKey
  <2> QED BY <2>1, <2>5, <2>6 DEF KeyOK
<1>12. CASE (\E m \in Messages : SigGen(m)) \/ PrintSk
  <2>1. sk' = sk /\ pk' = pk /\ phase = "idle" /\ prog' \in {"sig_gen", "print_sk"}
    BY <1>12 DEF SigGen, PrintSk, Redraw
  <2>2. prog # "key_gen" BY <2>1 DEF Flow
  <2> QED BY <2>1, <2>2 DEF KeyOK, CpFits
<1>13. CASE Try \/ Finish \/ Open \/ PrintMatrices \/ SigParse
  <2>1. sk' = sk /\ pk' = pk /\ prog' # "key_gen"
        /\ phase \in {"try", "x", "open", "print", "opened"}
    <3>1. sk' = sk /\ pk' = pk /\ phase \in {"try", "x", "open", "print", "opened"}
          /\ (prog' = prog \/ prog' \in {"sig_ver", "idle"})
      BY <1>13 DEF Try, Finish, Open, PrintMatrices, SigParse
    <3> QED BY <3>1 DEF Flow
  <2>2. prog # "key_gen" BY <2>1 DEF Flow
  <2> QED BY <2>1, <2>2 DEF KeyOK, CpFits
<1>14. CASE Returned \/ UNCHANGED vars
  <2>1. UNCHANGED <<sk, pk, prog, pc, C>> BY <1>14 DEF Returned, vars, generator
  <2> QED BY <1>1, <2>1
<1> QED BY <1>2, <1>3, <1>4, <1>5, <1>6, <1>7, <1>8, <1>9, <1>10, <1>11, <1>12, <1>13, <1>14
        DEF Next, GenerateC

-----------------------------------------------------------------------------
(* The signature *)

HasX     == phase \in {"open", "opened", "parsed"}
Accepted == phase = "x" \/ HasX

\* solve_z has split a into a lattice point and a small remainder.
Split ==
  /\ a \in [Upto(M + D) -> Upto(Q)]
  /\ y \in [Upto(N) -> Upto(Q)]
  /\ z \in [Upto(K * N) -> Upto(Q)]
  /\ \A e \in Upto(K * N) : /\ (Dot(N, T[e], y) + z[e]) % Q = a[e]
                            /\ Magnitude(z[e]) <= ZBOUND

SigOK ==
  /\ tries \in Nat
  /\ IF tries > 0 THEN (phase = "try" \/ Accepted) /\ Split
     ELSE a = None /\ y = None /\ z = None
  /\ Accepted => tries > 0 /\ Cardinality(Inside(Apply(M, M + D, C, z))) >= L
  /\ IF HasX THEN x = Apply(N, N, Product(N, N, N, LM, UM), y) ELSE x = None
  /\ prog = "sig_gen" \/ HasX => msg \in Messages

\* At the start no signature is claimed.
LEMMA SigInit == Init => SigOK
BY DEF Init, SigOK, HasX, Accepted

\* The coefficients in the secret key are those of the C at hand.
LEMMA PolynomialKept ==
  ASSUME GenP!GenInv, CpFits(C)
  PROVE  /\ C1cp = CharPolyOf(M, C)
         /\ C1cp \in [0 .. M -> Upto(Q)]
<1> DEFINE P == CharPolyOf(M, C)
<1>1. IntMatrix(M, M + D, C) BY GenFacts, MatrixInt
<1>2. \A c \in Upto(M) : c \in Upto(M + D) BY Dimensions DEF Upto
<1>3. \A r, c \in Upto(M) : C[r][c] \in Int BY <1>1, <1>2 DEF IntMatrix, IntVector
<1>4. P \in [0 .. M -> Upto(Q)] /\ P[M] = 1 BY <1>3, CharPolyLaw
<1>5. sk.cp = [d \in Row |-> P[d]] BY DEF CpFits
<1> HIDE DEF P
<1>6. \A d \in 0 .. M : d # M => d \in Row BY Dimensions DEF Row, Upto
<1>7. C1cp = [d \in 0 .. M |-> P[d]]
  <2>1. \A d \in 0 .. M : (IF d = M THEN 1 ELSE sk.cp[d]) = P[d] BY <1>4, <1>5, <1>6
  <2> QED BY <2>1 DEF C1cp
<1>8. C1cp = P BY <1>4, <1>7
<1> QED BY <1>4, <1>8 DEF P

\* The number of small errors is a number.
LEMMA InsideCount ==
  ASSUME NEW e
  PROVE  Cardinality(Inside(e)) \in Nat
<1>1. IsFiniteSet(Row) BY Dimensions, UptoIs DEF Row
<1>2. Inside(e) \subseteq Row BY DEF Inside
<1> QED BY <1>1, <1>2, FS_Subset, FS_CardinalityType

\* A try splits its target, and one that ends the loop has enough small errors.
LEMMA TryStep ==
  ASSUME RandWords, Flow, OnStream, MatricesOK, KeyOK, SigOK, Try
  PROVE  SigOK'
<1>1. /\ phase = "try" /\ a' = SolveA /\ y' = SolveZ(a').y /\ z' = SolveZ(a').z
      /\ tries' = tries + 1
      /\ phase' = IF Cardinality(Inside(Apply(M, M + D, C, z'))) < L THEN "try" ELSE "x"
      /\ UNCHANGED <<generator, prog, T, LM, UM, msg, x>>
  BY DEF Try, matrices
<1>2. prog = "sig_gen" /\ msg \in Messages
  <2>1. prog = "sig_gen" BY <1>1 DEF Flow
  <2> QED BY <2>1 DEF SigOK
<1>3. C1cp \in [0 .. M -> Upto(Q)]
  <2>1. CpFits(C) BY <1>1, <1>2 DEF KeyOK, OnStream
  <2> QED BY <2>1, PolynomialKept DEF OnStream
<1>4. a' \in [Upto(M + D) -> Upto(Q)] BY <1>1, <1>2, <1>3, SolveAType DEF OnStream
<1>5. K * N = M + D BY Dimensions
<1>6. TShape BY <1>1 DEF MatricesOK, HasT, TShape
<1>7. a' \in [Upto(K * N) -> Upto(Q)] BY <1>4, <1>5
<1> DEFINE b == a'
<1>8. b \in [Upto(K * N) -> Upto(Q)] BY <1>7
<1>9. y' = SolveZ(b).y /\ z' = SolveZ(b).z BY <1>1
<1> HIDE DEF b
<1>10. /\ SolveZ(b).y \in [Upto(N) -> Upto(Q)]
       /\ SolveZ(b).z \in [Upto(K * N) -> Upto(Q)]
       /\ \A r \in Upto(K * N) :
            /\ (Dot(N, T[r], SolveZ(b).y) + SolveZ(b).z[r]) % Q = b[r]
            /\ Magnitude(SolveZ(b).z[r]) <= ZBOUND
  BY <1>6, <1>8, SolveZLaw
<1>11. /\ y' \in [Upto(N) -> Upto(Q)]
       /\ z' \in [Upto(K * N) -> Upto(Q)]
       /\ \A r \in Upto(K * N) :
            /\ (Dot(N, T[r], y') + z'[r]) % Q = b[r]
            /\ Magnitude(z'[r]) <= ZBOUND
  BY <1>9, <1>10
<1>12. T' = T /\ C' = C /\ msg' = msg /\ x' = x /\ prog' = prog
  BY <1>1 DEF generator
<1>13. Split' BY <1>4, <1>11, <1>12 DEF Split, b
<1>14. tries' \in Nat /\ tries' > 0 BY <1>1 DEF SigOK
<1>15. phase' \in {"try", "x"}
       /\ (phase' = "x" => Cardinality(Inside(Apply(M, M + D, C, z'))) >= L)
  <2>1. Cardinality(Inside(Apply(M, M + D, C, z'))) \in Nat BY InsideCount
  <2>2. L \in Nat BY SchemeAssumption
  <2> QED BY <1>1, <2>1, <2>2
<1>16. (Cardinality(Inside(Apply(M, M + D, C, z))) >= L)'
         <=> Cardinality(Inside(Apply(M, M + D, C, z'))) >= L
  BY <1>12 DEF Inside, Row
<1>17. x = None BY <1>1 DEF SigOK, HasX
<1> QED BY <1>2, <1>12, <1>13, <1>14, <1>15, <1>16, <1>17 DEF SigOK, HasX, Accepted

\* A step that leaves the signature and what it depends on alone.
LEMMA SigKept ==
  ASSUME SigOK, UNCHANGED <<msg, a, y, z, x, tries>>, T' = T, C' = C, LM' = LM, UM' = UM,
         (phase' = "try" \/ Accepted') <=> (phase = "try" \/ Accepted),
         Accepted' <=> Accepted, HasX' <=> HasX,
         prog' = "sig_gen" => prog = "sig_gen"
  PROVE  SigOK'
<1>1. Split' = Split BY DEF Split
<1>2. (Cardinality(Inside(Apply(M, M + D, C, z))) >= L)'
        <=> Cardinality(Inside(Apply(M, M + D, C, z))) >= L
  BY DEF Inside, Row
<1> QED BY <1>1, <1>2 DEF SigOK

\* Before the first try only the message is there.
LEMMA SigAbsent ==
  ASSUME SigOK, phase # "try" /\ ~ Accepted, phase' # "try" \/ prog' = "sig_gen", ~ Accepted',
         UNCHANGED <<a, y, z, x, tries>>,
         prog' = "sig_gen" => msg' \in Messages
  PROVE  SigOK'
<1>1. tries = 0 /\ a = None /\ y = None /\ z = None /\ x = None
  BY DEF SigOK, Accepted
<1>2. ~ HasX' BY DEF Accepted
<1> QED BY <1>1, <1>2 DEF SigOK

\* Every step keeps what is said of a signature.
LEMMA SigStep ==
  RandWords /\ Flow /\ OnStream /\ MatricesOK /\ KeyOK /\ SigOK /\ [Next]_vars => SigOK'
<1> SUFFICES ASSUME RandWords, Flow, OnStream, MatricesOK, KeyOK, SigOK, [Next]_vars
             PROVE  SigOK'
  OBVIOUS
<1>1. CASE GenerateC
  <2>1. /\ prog' = prog /\ UNCHANGED <<msg, a, y, z, x, tries>>
        /\ phase \in {"seed", "C"} /\ phase' \in {"seed", "C"}
    BY <1>1 DEF GenerateC, DrawSeed, IndexDraw, StartValues, ValueDraw, AcceptC1, RejectC1,
                TakeC1, ErrorDraw, signature
  <2>2. prog' = "sig_gen" => msg' \in Messages BY <2>1 DEF SigOK
  <2> QED BY <2>1, <2>2, SigAbsent DEF Accepted, HasX
<1>2. CASE FillT \/ FillL \/ FillU
  <2>1. prog' = prog /\ UNCHANGED <<msg, a, y, z, x, tries>>
    BY <1>2 DEF FillT, FillL, FillU, signature
  <2>2. /\ phase \in {"C", "L", "U"} /\ phase' \in {"L", "U", "pk", "try", "print"}
        /\ phase' = "try" => prog' = "sig_gen"
    <3>1. phase \in {"C", "L", "U"} /\ phase' \in {"L", "U", "pk", "try", "print"}
      BY <1>2, FillPhases
    <3>2. phase' = "try" => FillU BY <1>2, FillPhases
    <3>3. FillU => prog \in {"key_gen", "sig_gen", "print_sk"} BY FillPhases DEF Flow
    <3>4. FillU => phase' = CASE prog = "key_gen" -> "pk" [] prog = "sig_gen" -> "try"
                              [] prog = "print_sk" -> "print"
      BY DEF FillU
    <3>5. phase' = "try" => prog = "sig_gen" BY <3>2, <3>3, <3>4
    <3> QED BY <2>1, <3>1, <3>5
  <2>3. prog' = "sig_gen" => msg' \in Messages BY <2>1 DEF SigOK
  <2> QED BY <2>1, <2>2, <2>3, SigAbsent DEF Accepted, HasX
<1>3. CASE Publish
  <2>1. /\ prog' = "idle" /\ UNCHANGED <<msg, a, y, z, x, tries>>
        /\ phase = "pk" /\ phase' = "idle"
    BY <1>3 DEF Publish, signature
  <2> QED BY <2>1, SigAbsent DEF Accepted, HasX
<1>4. CASE (\E m \in Messages : SigGen(m)) \/ PrintSk
  <2>1. /\ prog' = "sig_gen" => msg' \in Messages
        /\ UNCHANGED <<a, y, z, x, tries>>
        /\ phase = "idle" /\ phase' = "C"
    BY <1>4 DEF SigGen, PrintSk, Redraw
  <2> QED BY <2>1, SigAbsent DEF Accepted, HasX
<1>5. CASE Try BY <1>5, TryStep
<1>6. CASE Finish
  <2>1. /\ phase = "x" /\ phase' = "open" /\ x' = Apply(N, N, Product(N, N, N, LM, UM), y)
        /\ UNCHANGED <<msg, a, y, z, tries>> /\ T' = T /\ C' = C /\ LM' = LM /\ UM' = UM
    BY <1>6 DEF Finish, generator, matrices
  <2>2. tries \in Nat /\ tries > 0 /\ Split
        /\ Cardinality(Inside(Apply(M, M + D, C, z))) >= L
    BY <2>1 DEF SigOK, Accepted
  <2>3. prog = "sig_gen" /\ msg \in Messages
    <3>1. prog = "sig_gen" BY <2>1 DEF Flow
    <3> QED BY <3>1 DEF SigOK
  <2>4. Split' BY <2>1, <2>2 DEF Split
  <2>5. (Cardinality(Inside(Apply(M, M + D, C, z))) >= L)'
    BY <2>1, <2>2 DEF Inside, Row
  <2>6. HasX' /\ Accepted' /\ tries' = tries /\ msg' = msg BY <2>1 DEF HasX, Accepted
  <2>7. x' = Apply(N, N, Product(N, N, N, LM', UM'), y') BY <2>1
  <2> QED BY <2>2, <2>3, <2>4, <2>5, <2>6, <2>7 DEF SigOK
<1>7. CASE Open \/ SigParse
  <2>1. /\ UNCHANGED <<msg, a, y, z, x, tries>> /\ T' = T /\ C' = C /\ LM' = LM /\ UM' = UM
        /\ phase \in {"open", "opened"} /\ phase' \in {"opened", "parsed"} /\ prog' = "idle"
    BY <1>7 DEF Open, SigParse, generator, matrices, signature
  <2> QED BY <2>1, SigKept DEF Accepted, HasX
<1>8. CASE PrintMatrices
  <2>1. /\ prog' = "idle" /\ UNCHANGED <<msg, a, y, z, x, tries>>
        /\ phase = "print" /\ phase' = "printed"
    BY <1>8 DEF PrintMatrices, signature
  <2> QED BY <2>1, SigAbsent DEF Accepted, HasX
<1>9. CASE Returned \/ UNCHANGED vars
  <2>1. UNCHANGED <<msg, a, y, z, x, tries, T, C, LM, UM, phase, prog>>
    BY <1>9 DEF Returned, vars, generator, matrices, signature
  <2> QED BY <2>1, SigKept DEF Accepted, HasX
<1> QED BY <1>1, <1>2, <1>3, <1>4, <1>5, <1>6, <1>7, <1>8, <1>9 DEF Next

-----------------------------------------------------------------------------
(* The theorems *)

SchemeInv == Flow /\ OnStream /\ MatricesOK /\ KeyOK /\ SigOK

\* The invariant holds at the start.
LEMMA SchemeInit == Init => SchemeInv
BY FlowInit, OnStreamInit, MatricesInit, KeyInit, SigInit DEF SchemeInv

\* Every step keeps it.
LEMMA SchemeStep == RandWords /\ SchemeInv /\ [Next]_vars => SchemeInv'
BY FlowStep, OnStreamStep, MatricesStep, KeyStep, SigStep DEF SchemeInv

\* If the random generator returns numbers, everything that is drawn and
\* computed is what the secret key determines.
THEOREM SchemeTheorem == ASSUME RandWords PROVE Spec => []SchemeInv
BY SchemeInit, SchemeStep, PTL DEF Spec

\* The signature x = B*y is a vector of residues.
LEMMA XType ==
  ASSUME Regular(LM), Regular(UM), y \in [Upto(N) -> Upto(Q)]
  PROVE  /\ Product(N, N, N, LM, UM) \in Matrix(N, N)
         /\ Apply(N, N, Product(N, N, N, LM, UM), y) \in [Upto(N) -> Upto(Q)]
<1> DEFINE B == Product(N, N, N, LM, UM)
<1>1. N \in Nat BY Dimensions
<1>2. IntMatrix(N, N, LM) /\ IntMatrix(N, N, UM) BY MatrixInt DEF Regular
<1>3. B \in Matrix(N, N) BY <1>1, <1>2, ProductType
<1> HIDE DEF B
<1>4. IntMatrix(N, N, B) /\ IntVector(N, y) BY <1>3, MatrixInt, VectorInt
<1>5. Apply(N, N, B, y) \in [Upto(N) -> Upto(Q)] BY <1>1, <1>4, ApplyType
<1> QED BY <1>3, <1>5 DEF B

\* The invariant implies the types.
LEMMA TypeFromInv == SchemeInv => TypeOK
<1> SUFFICES ASSUME SchemeInv PROVE TypeOK
  OBVIOUS
<1>1. sk.seed \in Seeds \cup {None} \cup [1 .. SEEDBYTES -> 0 .. 255]
  BY DEF SchemeInv, OnStream, Streams
<1>2. pk = None \/ pk \in Matrix(M, N) BY DEF SchemeInv, KeyOK
<1>3. T = None \/ T \in Matrix(K * N, N) BY DEF SchemeInv, MatricesOK, Shape
<1>4. (LM = None \/ LM \in Matrix(N, N)) /\ (UM = None \/ UM \in Matrix(N, N))
  BY DEF SchemeInv, MatricesOK, Regular
<1>5. /\ a = None \/ a \in [Upto(M + D) -> Upto(Q)]
      /\ y = None \/ y \in [Upto(N) -> Upto(Q)]
      /\ z = None \/ z \in [Upto(K * N) -> Upto(Q)]
  BY DEF SchemeInv, SigOK, Split
<1>6. x = None \/ x \in [Upto(N) -> Upto(Q)]
  <2>1. CASE ~ HasX BY <2>1 DEF SchemeInv, SigOK
  <2>2. CASE HasX
    <3>1. y \in [Upto(N) -> Upto(Q)] /\ x = Apply(N, N, Product(N, N, N, LM, UM), y)
      BY <2>2 DEF SchemeInv, SigOK, Split, Accepted
    <3>2. Regular(LM) /\ Regular(UM)
      BY <2>2 DEF SchemeInv, MatricesOK, HasL, HasU, HasX
    <3> QED BY <3>1, <3>2, XType
  <2> QED BY <2>1, <2>2
<1> QED BY <1>1, <1>2, <1>3, <1>4, <1>5, <1>6 DEF TypeOK, SchemeInv, Flow

\* Every matrix, vector and key has its dimensions and entries modulo Q, and
\* a secret seed is a string of bytes.
THEOREM SchemeTypeTheorem == ASSUME RandWords PROVE Spec => []TypeOK
BY SchemeTheorem, TypeFromInv, PTL

\* It implies that C*T*y is near C*a.
LEMMA LatticeFromInv == SchemeInv => LatticeClose
BY DEF SchemeInv, SigOK, Split, LatticeClose

\* Whatever was drawn, solve_z splits a exactly into T*y and a remainder of
\* entries within ZBOUND of zero.
THEOREM LatticeTheorem == ASSUME RandWords PROVE Spec => []LatticeClose
BY SchemeTheorem, LatticeFromInv, PTL

\* It implies that the secret key has the characteristic polynomial.
LEMMA CharPolyFromInv == SchemeInv => CharPolyMatches
<1> SUFFICES ASSUME SchemeInv, Replayed
             PROVE  C1cp = CharPolyOf(M, C) /\ Determinant(M, C) # 0
  BY DEF CharPolyMatches
<1>1. prog # "key_gen" /\ phase \notin {"seed", "C"} BY DEF SchemeInv, Flow, Replayed
<1>2. CpFits(C) /\ GenP!GenInv BY <1>1 DEF SchemeInv, KeyOK, OnStream
<1> QED BY <1>2, PolynomialKept DEF CpFits

\* The signer's C1 is the one whose polynomial key_gen stored, and invertible.
THEOREM CharPolyTheorem == ASSUME RandWords PROVE Spec => []CharPolyMatches
BY SchemeTheorem, CharPolyFromInv, PTL

\* A*B = C*T for the matrices of a run that draws them again.
LEMMA KeyEquationNow ==
  ASSUME SchemeInv, phase \in {"try", "x", "open", "opened", "parsed", "print"}
  PROVE  Product(M, N, N, pk, Product(N, N, N, LM, UM)) = Product(M, K * N, N, C, T)
<1>1. prog # "key_gen" BY DEF SchemeInv, Flow
<1>2. /\ T = TOf(sk.seed) /\ T \in Matrix(K * N, N)
      /\ LM = LOf(sk.seed) /\ Regular(LM) /\ Lower(LM)
      /\ UM = UOf(sk.seed) /\ Regular(UM) /\ Upper(UM)
  BY DEF SchemeInv, MatricesOK, HasT, HasL, HasU, Shape
<1>3. C = Final(sk.seed).C BY DEF SchemeInv, OnStream
<1>4. pk = Product(M, K * N, N, C,
                   Product(K * N, N, N, T,
                           Product(N, N, N, UpperInverse(UM), LowerInverse(LM))))
  BY <1>1, <1>2, <1>3 DEF SchemeInv, KeyOK, AOf
<1>5. C \in Matrix(M, K * N)
  <2>1. C \in Matrix(M, M + D) BY GenFacts DEF SchemeInv, OnStream
  <2> QED BY <2>1, Dimensions
<1> QED BY <1>2, <1>4, <1>5, InverseCancels

ReplayEquation ==
  Replayed => Product(M, N, N, pk, Product(N, N, N, LM, UM)) = Product(M, K * N, N, C, T)

PrintEquation ==
  phase = "printed" => Product(M, N, N, pk, printed.B)
                         = Product(M, K * N, N, printed.C, printed.T)

\* It implies the key equation for the signer.
LEMMA ReplayFromInv == SchemeInv => ReplayEquation
BY KeyEquationNow DEF ReplayEquation, Replayed

\* At the start nothing has been printed.
LEMMA PrintInit == Init => PrintEquation
BY DEF Init, PrintEquation

\* eht_printsk prints what it has drawn, and nothing runs after it.
LEMMA PrintStep == SchemeInv /\ PrintEquation /\ [Next]_vars => PrintEquation'
<1> SUFFICES ASSUME SchemeInv, PrintEquation, [Next]_vars, phase' = "printed"
             PROVE  Product(M, N, N, pk', printed'.B)
                      = Product(M, K * N, N, printed'.C, printed'.T)
  BY DEF PrintEquation
<1>1. CASE PrintMatrices
  <2>1. /\ phase = "print" /\ pk' = pk
        /\ printed' = [C |-> C, T |-> T, B |-> Product(N, N, N, LM, UM)]
    BY <1>1 DEF PrintMatrices
  <2>2. Product(M, N, N, pk, Product(N, N, N, LM, UM)) = Product(M, K * N, N, C, T)
    BY <2>1, KeyEquationNow
  <2>3. printed'.C = C /\ printed'.T = T /\ printed'.B = Product(N, N, N, LM, UM)
    BY <2>1
  <2> QED BY <2>1, <2>2, <2>3
<1>2. CASE Returned \/ UNCHANGED vars
  BY <1>2 DEF Returned, vars, outputs, PrintEquation
<1>3. CASE GenerateC
  BY <1>3 DEF GenerateC, DrawSeed, IndexDraw, StartValues, ValueDraw, AcceptC1, RejectC1,
              TakeC1, ErrorDraw
<1>4. CASE FillT \/ FillL \/ FillU BY <1>4, FillPhases DEF SchemeInv
<1>5. CASE Publish \/ (\E m \in Messages : SigGen(m)) \/ PrintSk
  BY <1>5 DEF Publish, SigGen, PrintSk, Redraw
<1>6. CASE Try \/ Finish \/ Open \/ SigParse
  BY <1>6 DEF Try, Finish, Open, SigParse
<1> QED BY <1>1, <1>2, <1>3, <1>4, <1>5, <1>6 DEF Next

\* The matrices that the signer draws, and those that eht_printsk prints, are
\* the ones behind the public key: A*B = C*T for every seed, however many
\* seeds key_gen abandoned before it.
THEOREM KeyEquationTheorem == ASSUME RandWords PROVE Spec => []KeyEquation
<1>1. Spec => []PrintEquation BY SchemeTheorem, PrintInit, PrintStep, PTL DEF Spec
<1>2. ReplayEquation /\ PrintEquation => KeyEquation
  BY DEF ReplayEquation, PrintEquation, KeyEquation
<1> QED BY <1>1, <1>2, SchemeTheorem, ReplayFromInv, PTL

-----------------------------------------------------------------------------
(* a solves C*a = h *)

\* The theorem of Cayley and Hamilton modulo Q, for the coefficients that
\* CharPolyOf defines: a matrix is a root of its characteristic polynomial.
\* The powers p[e] of A are applied to a vector p[0].
THEOREM CayleyHamilton ==
  \A A \in Matrix(M, M) : \A p \in [Nat -> [Row -> Upto(Q)]] :
    (\A e \in Nat : p[e + 1] = Apply(M, M, A, p[e])) =>
      \A r \in Row :
        SumFunction([d \in 0 .. M |-> CharPolyOf(M, A)[d] * p[d][r]]) % Q = 0
<1> SUFFICES ASSUME NEW A \in Matrix(M, M), NEW p \in [Nat -> [Row -> Upto(Q)]],
                    \A e \in Nat : p[e + 1] = Apply(M, M, A, p[e]),
                    NEW r \in Row
             PROVE  SumFunction([d \in 0 .. M |-> CharPolyOf(M, A)[d] * p[d][r]]) % Q = 0
  OBVIOUS
<1> DEFINE P == CharPolyOf(M, A)
           g == [d \in 0 .. M |-> P[d] * p[d][r]]
           U == 0 .. M - 1
<1>1. M \in Nat /\ Q \in Nat /\ Q > 0 BY Dimensions, Modulus
<1>2. U = Upto(M) /\ U = Row /\ IsFiniteSet(U) BY <1>1, UptoFinite DEF Upto, Row
<1>3. \A s, c \in U : A[s][c] \in Int
  <2>1. \A s, c \in U : A[s][c] \in Upto(Q) BY <1>2 DEF Matrix
  <2> QED BY <2>1, SmallResidue
<1>4. Square(A, U) BY <1>3 DEF Square
<1>5. \A e \in Nat : \A s \in U : p[e][s] \in Int
  <2>1. \A e \in Nat : \A s \in U : p[e][s] \in Upto(Q) BY <1>2
  <2> QED BY <2>1, SmallResidue
<1>6. ASSUME NEW e \in Nat, NEW s \in U
      PROVE  Congruent(Q, p[e + 1][s], SumFunctionOnSet([w \in U |-> A[s][w] * p[e][w]], U))
  <2> DEFINE f == [w \in U |-> A[s][w] * p[e][w]]
  <2>1. p[e + 1][s] = Dot(M, A[s], p[e]) % Q BY <1>2 DEF Apply
  <2>2. Dot(M, A[s], p[e]) = SumFunctionOnSet(f, U)
    <3>1. Dot(M, A[s], p[e]) = SumFunction(f) BY <1>2 DEF Dot
    <3>2. DOMAIN f = U OBVIOUS
    <3> HIDE DEF f, U
    <3> QED BY <3>1, <3>2, SumIs
  <2>3. \A w \in U : f[w] \in Int
    <3>1. \A u, v \in Int : u * v \in Int OBVIOUS
    <3> QED BY <1>3, <1>5, <3>1
  <2> HIDE DEF f, U
  <2>4. SumFunctionOnSet(f, U) \in Int BY <1>2, <2>3, SumInt
  <2>5. Congruent(Q, SumFunctionOnSet(f, U) % Q, SumFunctionOnSet(f, U))
    BY <1>1, <2>4, CongruentMod
  <2> QED BY <2>1, <2>2, <2>5 DEF f
<1>7. Iterates(p, A, U, Q) BY <1>5, <1>6 DEF Iterates
<1>8. HasCoefficients(P, A, M, Q)
  <2> SUFFICES ASSUME NEW d \in 0 .. M
               PROVE  P[d] \in Int /\ Congruent(Q, P[d], CharCoeff(A, M, d))
    BY DEF HasCoefficients
  <2>1. \A s, c \in Upto(M) : A[s][c] \in Int BY <1>2, <1>3
  <2>2. CharCoeff(A, M, d) \in Int /\ P[d] = CharCoeff(A, M, d) % Q BY <2>1, CharPolyIs
  <2> HIDE DEF P
  <2> QED BY <1>1, <2>2, ModType, CongruentMod
<1>9. RootTerms(g, P, p, M, r) BY DEF RootTerms
<1>10. r \in 0 .. M - 1 BY <1>2
<1>11. DOMAIN g = 0 .. M OBVIOUS
<1> HIDE DEF P, g
<1>12. Congruent(Q, SumFunctionOnSet(g, 0 .. M), 0)
  BY <1>1, <1>4, <1>7, <1>8, <1>9, <1>10, RootOfCharPoly
<1>13. SumFunction(g) = SumFunctionOnSet(g, 0 .. M) BY <1>11, SumIs
<1>14. 0 % Q = 0 BY <1>1, ModSmall
<1> QED BY <1>12, <1>13, <1>14 DEF Congruent, g, P

\* The constant coefficient of an invertible C1 is not zero.
LEMMA ConstantCoefficient ==
  ASSUME NEW A, \A r, c \in Upto(M) : A[r][c] \in Int, Determinant(M, A) # 0
  PROVE  CharPolyOf(M, A)[0] \in 1 .. Q - 1
<1> DEFINE U == 0 .. M - 1
<1>1. M \in Nat /\ M - 0 = M /\ M % 2 = 0 BY Dimensions, SchemeAssumption
<1>2. /\ U \in SUBSET Int /\ IsFiniteSet(U) /\ Cardinality(U) = M
      /\ U = Upto(M) /\ Square(A, U)
  <2>1. U \in SUBSET Int /\ U = Upto(M) /\ Square(A, U) BY DEF Upto, Square
  <2>2. IsFiniteSet(U) BY <1>1, UptoFinite
  <2>3. Cardinality(U) = M BY <1>1, FS_Interval
  <2> QED BY <2>1, <2>2, <2>3
<1> HIDE DEF U
<1>3. Minor(A, U) \in Upto(Q) /\ Minor(A, U) # 0 BY <1>2, MinorType DEF Determinant
<1>4. MinorSum(A, U, M) = Leibniz(A, U) BY <1>2, MinorSumAll
<1>5. Leibniz(A, U) \in Int BY <1>2, LeibnizInt
<1>6. Alternate(M) = 1 BY <1>1 DEF Alternate
<1>7. CharCoeff(A, M, 0) = 1 * Leibniz(A, U) BY <1>1, <1>4, <1>6 DEF CharCoeff, U
<1>8. 0 \in 0 .. M BY <1>1
<1>9. CharPolyOf(M, A)[0] = CharCoeff(A, M, 0) % Q BY <1>8, CharPolyIs
<1>10. CharPolyOf(M, A)[0] = Minor(A, U)
  <2>1. 1 * Leibniz(A, U) = Leibniz(A, U) BY <1>5
  <2> QED BY <1>7, <1>9, <2>1 DEF Minor
<1>11. \A v \in Upto(Q) : v # 0 => v \in 1 .. Q - 1 BY Modulus DEF Upto
<1> QED BY <1>3, <1>10, <1>11

\* The product from the positions of C1 is the product with C1.
LEMMA SparseIsApply ==
  ASSUME GenP!GenInv, pc = "done", NEW v, \A r \in Row : v[r] \in Int
  PROVE  SparseApply(v) = Apply(M, M, C, v)
<1>1. ASSUME NEW r \in Row
      PROVE  SumFunction([c \in Upto(NORM1) |-> C[r][C1_index[r][c]] * v[C1_index[r][c]]])
               = Dot(M, C[r], v)
  <2> DEFINE b == C1_index[r]
             f == Terms(M, C[r], v)
             X == Upto(NORM1)
             Im == {b[s] : s \in X}
             g == [c \in X |-> C[r][b[c]] * v[b[c]]]
             U == Upto(M)
  <2>1. GenP!RectP!RectangleInv BY DEF GenP!GenInv
  <2>2. NORM1 \in Nat /\ j = NORM1 BY SchemeAssumption, GenFacts
  <2>3. /\ C1_index \in [GenP!Row -> [GenP!Col -> GenP!Row]]
        /\ j = NORM1 => \A s \in GenP!Row : \A c, d \in GenP!Col :
                          C1_index[s][c] = C1_index[s][d] => c = d
    BY <2>1, GenAssumption, GenP!RectFacts
  <2>4. GenP!Row = U /\ GenP!Col = X /\ GenP!C1Col = U /\ Row = U
    BY DEF GenP!Row, GenP!Col, GenP!C1Col, GenP!Upto, Upto, Row
  <2>5. b \in [X -> U] /\ \A c, d \in X : b[c] = b[d] => c = d BY <2>2, <2>3, <2>4
  <2>6. \A c \in U : C[r][c] # 0 => c \in Im
    <3>1. \A c \in U : C[r][c] # 0 => \E s \in X : C1_index[r][s] = c
      BY <2>4 DEF GenP!GenInv, GenP!Support
    <3> QED BY <3>1
  <2>7. \A s \in U : C[r][s] \in Int /\ v[s] \in Int
    <3>1. IntMatrix(M, M + D, C) BY GenFacts, MatrixInt
    <3>2. \A s \in U : s \in Upto(M + D) BY Dimensions DEF Upto
    <3>3. r \in U BY <2>4
    <3> QED BY <2>4, <3>1, <3>2, <3>3 DEF IntMatrix, IntVector
  <2>8. IsFiniteSet(X) /\ IsFiniteSet(U) BY <2>2, Dimensions, UptoIs
  <2>9. \A s \in U : f[s] = C[r][s] * v[s] BY DEF Terms
  <2>10. \A s \in U : f[s] \in Int
    <3>1. \A u, w \in Int : u * w \in Int OBVIOUS
    <3> HIDE DEF f, U
    <3> QED BY <2>7, <2>9, <3>1
  <2>11. \A s \in U : C[r][s] = 0 => f[s] = 0
    <3>1. \A w \in Int : 0 * w = 0 OBVIOUS
    <3> HIDE DEF f, U
    <3> QED BY <2>7, <2>9, <3>1
  <2>12. Im \in SUBSET U BY <2>5
  <2>13. \A s \in X : g[s] = f[b[s]]
    <3> HIDE DEF f, U, b, X
    <3> QED BY <2>5, <2>9
  <2>14. DOMAIN g = X OBVIOUS
  <2>15. \A s \in X : f[b[s]] \in Int BY <2>5, <2>10
  <2>16. \A s \in U \ Im : f[s] = 0 BY <2>6, <2>11
  <2>17. \A s \in Im : f[s] \in Int BY <2>10, <2>12
  <2>18. Dot(M, C[r], v) = SumFunctionOnSet(f, U) BY DotIs
  <2>0. Im = {b[s] : s \in X} OBVIOUS
  <2> HIDE DEF f, g, b, X, U, Im
  <2>19. SumFunction(g) = SumFunctionOnSet(g, X) BY <2>14, SumIs
  <2>20. SumFunctionOnSet(g, X) = SumFunctionOnSet(f, Im)
    <3>1. Renames(b, X, Im) BY <2>0, <2>5 DEF Renames
    <3>2. \A s \in X : f[b[s]] \in Int /\ g[s] = f[b[s]] BY <2>13, <2>15
    <3> QED BY <2>8, <3>1, <3>2, SumReindex
  <2>21. SumFunctionOnSet(f, U) = SumFunctionOnSet(f, Im) BY <2>8, <2>12, <2>16, <2>17, SumPad
  <2>22. SumFunction(g) = Dot(M, C[r], v)
    BY <2>18, <2>19, <2>20, <2>21
  <2> QED BY <2>22 DEF g, b, X
<1>2. ASSUME NEW r \in Row PROVE SparseApply(v)[r] = Dot(M, C[r], v) % Q
  BY <1>1 DEF SparseApply
<1>3. SparseApply(v) = [r \in Row |-> SparseApply(v)[r]] BY DEF SparseApply
<1>4. Apply(M, M, C, v) = [r \in Row |-> Dot(M, C[r], v) % Q] BY DEF Apply, Row
<1> QED BY <1>2, <1>3, <1>4

\* A factor of one vector is a factor of the product.
LEMMA DotTimes ==
  ASSUME NEW n \in Nat, NEW u, NEW v, NEW w, NEW b \in Int,
         IntVector(n, u), IntVector(n, v), \A s \in Upto(n) : w[s] = b * v[s]
  PROVE  Dot(n, u, w) = b * Dot(n, u, v)
<1> DEFINE f == Terms(n, u, v)
           g == Terms(n, u, w)
<1>1. IsFiniteSet(Upto(n)) BY UptoIs
<1>2. \A s \in Upto(n) : f[s] \in Int BY TermsInt
<1>3. ASSUME NEW s \in Upto(n) PROVE g[s] = b * f[s]
  <2>1. u[s] \in Int /\ v[s] \in Int BY DEF IntVector
  <2>2. \A a1, b1, c1 \in Int : a1 * (b1 * c1) = b1 * (a1 * c1) OBVIOUS
  <2>3. u[s] * (b * v[s]) = b * (u[s] * v[s]) BY <2>1, <2>2
  <2> QED BY <2>3 DEF Terms
<1> HIDE DEF f, g
<1>4. SumFunctionOnSet(g, Upto(n)) = b * SumFunctionOnSet(f, Upto(n))
  BY <1>1, <1>2, <1>3, SumTimes
<1> QED BY <1>4, DotIs DEF f, g

\* The powers of C1 under its polynomial add up to nothing, so the powers
\* from the first on add up to minus the constant term.
LEMMA PowersCancel ==
  ASSUME GenP!GenInv, pc = "done",
         NEW p \in [Nat -> [Row -> Upto(Q)]],
         \A e \in Nat : p[e + 1] = SparseApply(p[e]),
         NEW P, P = CharPolyOf(M, C), P \in [0 .. M -> Upto(Q)],
         NEW r \in Row,
         NEW q, q = [e \in Row |-> p[e + 1][r]],
         NEW v, v = [e \in Row |-> P[e + 1]]
  PROVE  /\ Dot(M, q, v) \in Int
         /\ Congruent(Q, Dot(M, q, v) + P[0] * p[0][r], 0)
<1> DEFINE A == [s \in Upto(M) |-> [c \in Upto(M) |-> C[s][c]]]
           g == [d \in 0 .. M |-> P[d] * p[d][r]]
           U == Upto(M)
<1>1. M \in Nat /\ M > 0 BY Dimensions
<1>2. C \in Matrix(M, M + D) BY GenFacts
<1>3. A \in Matrix(M, M)
  <2>1. \A c \in Upto(M) : c \in Upto(M + D) BY Dimensions DEF Upto
  <2>2. \A s, c \in Upto(M) : C[s][c] \in Upto(Q) BY <1>2, <2>1 DEF Matrix
  <2> QED BY <2>2 DEF Matrix
<1>4. ASSUME NEW e \in Nat PROVE p[e + 1] = Apply(M, M, A, p[e])
  <2>1. \A s \in Row : p[e][s] \in Int
    <3>1. \A w \in Upto(Q) : w \in Int BY SmallResidue
    <3> QED BY <3>1
  <2>2. SparseApply(p[e]) = Apply(M, M, C, p[e]) BY <2>1, SparseIsApply
  <2>3. ASSUME NEW s \in Upto(M) PROVE Dot(M, C[s], p[e]) = Dot(M, A[s], p[e])
    <3>1. [c \in Upto(M) |-> C[s][c] * p[e][c]] = [c \in Upto(M) |-> A[s][c] * p[e][c]]
      OBVIOUS
    <3> QED BY <3>1 DEF Dot
  <2>4. Apply(M, M, C, p[e]) = Apply(M, M, A, p[e])
    <3> HIDE DEF A
    <3> QED BY <2>3 DEF Apply
  <2> QED BY <2>2, <2>4
<1>5. CharPolyOf(M, A) = P
  <2>1. \A s, c \in Upto(M) : A[s][c] = C[s][c] OBVIOUS
  <2> HIDE DEF A
  <2> QED BY <2>1, CharPolyLocal
<1>6. SumFunction(g) % Q = 0
  <2> HIDE DEF A
  <2>1. SumFunction([d \in 0 .. M |-> CharPolyOf(M, A)[d] * p[d][r]]) % Q = 0
    BY <1>3, <1>4, CayleyHamilton
  <2> QED BY <1>5, <2>1
<1> HIDE DEF A
<1>7. \A d \in 0 .. M : d \in Nat BY <1>1
<1>8. \A d \in 0 .. M : P[d] \in Int /\ p[d][r] \in Int BY <1>7, SmallResidue
<1>9. \A d \in 0 .. M : g[d] \in Int
  <2>1. \A u, w \in Int : u * w \in Int OBVIOUS
  <2> QED BY <1>8, <2>1
<1>10. \A e \in U : Terms(M, q, v)[e] = g[e + 1]
  <2> SUFFICES ASSUME NEW e \in U PROVE Terms(M, q, v)[e] = g[e + 1]
    OBVIOUS
  <2>1. e + 1 \in 0 .. M BY <1>1 DEF Upto
  <2>2. g[e + 1] = P[e + 1] * p[e + 1][r] BY <2>1
  <2>3. Terms(M, q, v)[e] = p[e + 1][r] * P[e + 1] BY DEF Terms, Row
  <2>4. P[e + 1] \in Int /\ p[e + 1][r] \in Int BY <1>8, <2>1
  <2>5. \A u, w \in Int : u * w = w * u OBVIOUS
  <2> QED BY <2>2, <2>3, <2>4, <2>5
<1>11. g[0] = P[0] * p[0][r] /\ g[0] \in Int
  <2>1. 0 \in 0 .. M BY <1>1
  <2> QED BY <1>9, <2>1
<1>12. Dot(M, q, v) = SumFunctionOnSet(Terms(M, q, v), U) BY DotIs
<1>13. DOMAIN g = 0 .. M OBVIOUS
<1> HIDE DEF g
<1>14. /\ SumFunctionOnSet(Terms(M, q, v), U) \in Int
       /\ SumFunctionOnSet(g, 0 .. M) = g[0] + SumFunctionOnSet(Terms(M, q, v), U)
  <2> DEFINE f == Terms(M, q, v)
  <2>1. \A e \in 0 .. M - 1 : f[e] = g[e + 1] BY <1>10 DEF Upto
  <2> HIDE DEF f
  <2>2. /\ SumFunctionOnSet(f, 0 .. M - 1) \in Int
        /\ SumFunctionOnSet(g, 0 .. M) = g[0] + SumFunctionOnSet(f, 0 .. M - 1)
    BY <1>1, <1>9, <2>1, SumFirst
  <2> QED BY <2>2 DEF f, Upto
<1>15. SumFunction(g) = SumFunctionOnSet(g, 0 .. M) BY <1>13, SumIs
<1>16. 0 % Q = 0 BY Modulus, ModSmall
<1>17. SumFunction(g) = Dot(M, q, v) + P[0] * p[0][r]
  BY <1>11, <1>12, <1>14, <1>15
<1> QED BY <1>6, <1>12, <1>14, <1>16, <1>17 DEF Congruent

\* What is minus the constant term times h, times minus the inverse of the
\* constant coefficient, is h.
LEMMA CancelConstant ==
  ASSUME NEW u \in Int, NEW v \in Int, NEW b \in Int, NEW inv \in Int, NEW h \in Int,
         Congruent(Q, u, v), Congruent(Q, v + b * h, 0), Congruent(Q, b * inv, 1)
  PROVE  Congruent(Q, (- inv) * u, h)
<1> DEFINE e == b * h
           ni == - inv
<1>1. e \in Int /\ ni \in Int /\ - e \in Int /\ b * inv \in Int
  <2>1. \A u1, w1 \in Int : u1 * w1 \in Int OBVIOUS
  <2> QED BY <2>1
<1>2. Congruent(Q, v, - e)
  <2> HIDE DEF e
  <2>1. v + e \in Int BY <1>1
  <2>2. Congruent(Q, (v + e) - e, 0 - e)
    <3>1. Congruent(Q, v + e, 0) BY DEF e
    <3>2. Congruent(Q, e, e) BY CongruentSame
    <3>3. 0 \in Int OBVIOUS
    <3> QED BY <1>1, <2>1, <3>1, <3>2, <3>3, Modulus, CongruentMinus
  <2>3. (v + e) - e = v /\ 0 - e = - e BY <1>1
  <2> QED BY <2>2, <2>3
<1>3. Congruent(Q, u, - e) BY <1>2, CongruentChain
<1>4. Congruent(Q, ni * u, ni * (- e))
  <2> HIDE DEF e, ni
  <2>1. Congruent(Q, ni, ni) BY CongruentSame
  <2> QED BY <1>1, <1>3, <2>1, Modulus, CongruentTimes
<1>5. ni * (- e) = (b * inv) * h
  <2>1. \A b1, i1, h1 \in Int : (- i1) * (- (b1 * h1)) = (b1 * i1) * h1
    <3>1. \A i1, g1 \in Int : (- i1) * (- g1) = i1 * g1 OBVIOUS
    <3>2. \A b1, i1, h1 \in Int : i1 * (b1 * h1) = (b1 * i1) * h1 OBVIOUS
    <3>3. \A b1, h1 \in Int : b1 * h1 \in Int OBVIOUS
    <3> QED BY <3>1, <3>2, <3>3
  <2> QED BY <2>1
<1>6. Congruent(Q, (b * inv) * h, 1 * h)
  <2> DEFINE f == b * inv
  <2>1. f \in Int /\ Congruent(Q, f, 1) /\ 1 \in Int BY <1>1
  <2> HIDE DEF f
  <2>2. Congruent(Q, h, h) BY CongruentSame
  <2>3. Congruent(Q, f * h, 1 * h) BY <2>1, <2>2, Modulus, CongruentTimes
  <2> QED BY <2>3 DEF f
<1>7. 1 * h = h OBVIOUS
<1>8. Congruent(Q, ni * u, h)
  <2> HIDE DEF e, ni
  <2> QED BY <1>4, <1>5, <1>6, <1>7, CongruentChain
<1> QED BY <1>8

\* The head that solve_a computes solves C1*head = h.
LEMMA HeadSolves ==
  ASSUME GenP!GenInv, pc = "done", CpFits(C),
         NEW h \in [Row -> Upto(Q)], NEW r \in Row
  PROVE  Dot(M, C[r], HeadOfA(h)) % Q = h[r]
<1> DEFINE p == PowersOf(h)
           P == C1cp
           B == [s \in Row |-> [e \in Row |-> p[e][s]]]
           v == [e \in Row |-> P[e + 1]]
           w == [s \in Row |-> Dot(M, B[s], v)]
           q == [e \in Row |-> p[e + 1][r]]
           inv == Inverse_mod_q(P[0])
           u == HeadOfA(h)
           u1 == [s \in Row |-> (- inv) * w[s]]
           q1 == [e \in Row |-> Dot(M, C[r], Column(M, B, e))]
<1>1. M \in Nat /\ M > 0 /\ Row = Upto(M) BY Dimensions DEF Row
<1>2. P = CharPolyOf(M, C) /\ P \in [0 .. M -> Upto(Q)] BY PolynomialKept
<1>3. \A s, c \in Upto(M) : C[s][c] \in Int
  <2>1. IntMatrix(M, M + D, C) BY GenFacts, MatrixInt
  <2>2. \A c \in Upto(M) : c \in Upto(M + D) BY Dimensions DEF Upto
  <2> QED BY <2>1, <2>2 DEF IntMatrix, IntVector
<1>4. P[0] \in 1 .. Q - 1 BY <1>2, <1>3, ConstantCoefficient DEF CpFits
<1>5. inv \in 1 .. Q - 1 /\ (P[0] * inv) % Q = 1 BY <1>4, InverseIs
<1>6. SparseOK BY SparseIsOK
<1>7. Powers(p, h) BY <1>6, PowersExist DEF PowersOf
<1>8. HeadOfA(h) = [s \in Row |-> ((- inv) * SumFunction(HeadTerms(h, s))) % Q]
  BY <1>2, <1>6, HeadOfAIs
<1>8a. HeadOfA(h) \in [Row -> Upto(Q)] BY <1>2, <1>6, HeadOfAIs
<1>9. \A s \in Row : HeadTerms(h, s) = [e \in Row |-> P[e + 1] * p[e][s]] BY DEF HeadTerms
<1> HIDE DEF p, P, inv
<1>10. /\ \A e \in Nat : p[e] \in [Row -> Upto(Q)]
       /\ p[0] = h /\ \A e \in Nat : p[e + 1] = SparseApply(p[e])
  BY <1>6, <1>7, PowersType
<1>11. p \in [Nat -> [Row -> Upto(Q)]]
  <2>1. p = [e \in Nat |-> IF e = 0 THEN h ELSE SparseApply(p[e - 1])] BY <1>7 DEF Powers
  <2>2. p = [e \in Nat |-> p[e]] BY <2>1
  <2> QED BY <1>10, <2>2
<1>12. \A t \in Upto(Q) : t \in Int BY SmallResidue
<1>13. \A e \in Row : e \in Nat /\ e + 1 \in Nat /\ e + 1 \in 0 .. M BY <1>1 DEF Upto
<1>14. \A e \in Nat : \A s \in Row : p[e][s] \in Int BY <1>10, <1>12
<1>15. IntVector(M, C[r]) BY <1>1, <1>3 DEF IntVector
<1>16. IntMatrix(M, M, B) BY <1>1, <1>13, <1>14 DEF IntMatrix, IntVector
<1>17. IntVector(M, v) BY <1>1, <1>2, <1>12, <1>13 DEF IntVector
<1>18. IntVector(M, q) BY <1>1, <1>13, <1>14 DEF IntVector
<1>19. \A s \in Row : B[s] = [e \in Row |-> p[e][s]] OBVIOUS
<1>20. \A s \in Row : w[s] = Dot(M, B[s], v) OBVIOUS
<1>21. \A s \in Row : w[s] \in Int
  <2> HIDE DEF B, v, w
  <2>1. \A s \in Row : IntVector(M, B[s]) BY <1>1, <1>16 DEF IntMatrix
  <2> QED BY <1>1, <1>17, <1>20, <2>1, DotInt
<1>22. ASSUME NEW s \in Row PROVE SumFunction(HeadTerms(h, s)) = w[s]
  <2>1. HeadTerms(h, s) = [e \in Upto(M) |-> v[e] * B[s][e]] BY <1>1, <1>9
  <2>2. SumFunction(HeadTerms(h, s)) = Dot(M, v, B[s]) BY <2>1 DEF Dot
  <2> HIDE DEF B, v, w
  <2>3. IntVector(M, B[s]) BY <1>1, <1>16 DEF IntMatrix
  <2>4. Dot(M, v, B[s]) = Dot(M, B[s], v) BY <1>1, <1>17, <2>3, DotSwapped
  <2> QED BY <1>20, <2>2, <2>4
<1>23. \A e \in Row : Column(M, B, e) = p[e]
  <2> SUFFICES ASSUME NEW e \in Row PROVE Column(M, B, e) = p[e] OBVIOUS
  <2>1. Column(M, B, e) = [s \in Row |-> p[e][s]] BY <1>1 DEF Column
  <2>2. p[e] = [s \in Row |-> p[e][s]] BY <1>10, <1>13
  <2> QED BY <2>1, <2>2
<1>24. Dot(M, C[r], w) = Dot(M, q1, v)
  <2>1. w = [s \in Upto(M) |-> Dot(M, B[s], v)] BY <1>1
  <2>2. q1 = [e \in Upto(M) |-> Dot(M, C[r], Column(M, B, e))] BY <1>1
  <2> HIDE DEF B, v, w, q1
  <2>3. Dot(M, C[r], [s \in Upto(M) |-> Dot(M, B[s], v)])
          = Dot(M, [e \in Upto(M) |-> Dot(M, C[r], Column(M, B, e))], v)
    BY <1>1, <1>15, <1>16, <1>17, DotSwap
  <2> QED BY <2>1, <2>2, <2>3
<1>25. \A e \in Row : q1[e] = Dot(M, C[r], p[e]) /\ q[e] = p[e + 1][r]
  <2>1. \A e \in Row : q1[e] = Dot(M, C[r], Column(M, B, e)) OBVIOUS
  <2>2. \A e \in Row : q[e] = p[e + 1][r] OBVIOUS
  <2> HIDE DEF q1, B, q
  <2> QED BY <1>23, <2>1, <2>2
<1>26. q = [e \in Row |-> p[e + 1][r]] /\ v = [e \in Row |-> P[e + 1]] OBVIOUS
<1>27. \A s \in Row : u1[s] = (- inv) * w[s] OBVIOUS
<1>28. \A s \in Row : u[s] = ((- inv) * w[s]) % Q BY <1>8, <1>22
<1> HIDE DEF B, v, w, q, q1, u, u1
<1>29. \A e \in Row : q1[e] \in Int /\ Congruent(Q, q1[e], q[e])
  <2> SUFFICES ASSUME NEW e \in Row PROVE q1[e] \in Int /\ Congruent(Q, q1[e], q[e])
    OBVIOUS
  <2>1. IntVector(M, p[e]) BY <1>1, <1>13, <1>14 DEF IntVector
  <2>2. q1[e] \in Int BY <1>1, <1>15, <1>25, <2>1, DotInt
  <2>3. SparseApply(p[e]) = Apply(M, M, C, p[e]) BY <1>13, <1>14, SparseIsApply
  <2>4. p[e + 1] = Apply(M, M, C, p[e]) BY <1>10, <1>13, <2>3
  <2>5. q[e] = q1[e] % Q BY <1>1, <1>25, <2>4 DEF Apply
  <2> QED BY <2>2, <2>5, Modulus, CongruentMod
<1>30. Congruent(Q, Dot(M, q1, v), Dot(M, q, v))
  <2>1. IntVector(M, q1) BY <1>1, <1>29 DEF IntVector
  <2>2. \A e \in Upto(M) : Congruent(Q, q1[e], q[e]) /\ Congruent(Q, v[e], v[e])
    BY <1>1, <1>29, CongruentSame
  <2> QED BY <1>1, <1>17, <1>18, <2>1, <2>2, DotCongruent
<1>31. /\ Dot(M, q, v) \in Int
       /\ Congruent(Q, Dot(M, q, v) + P[0] * p[0][r], 0)
  BY <1>2, <1>10, <1>11, <1>26, PowersCancel
<1>32. Dot(M, C[r], w) \in Int
  <2>1. IntVector(M, w) BY <1>1, <1>21 DEF IntVector
  <2> QED BY <1>1, <1>15, <2>1, DotInt
<1>33. inv \in Int /\ - inv \in Int /\ P[0] \in Int /\ h[r] \in Int
  BY <1>4, <1>5, <1>12
<1>34. Dot(M, C[r], u1) = (- inv) * Dot(M, C[r], w)
  <2> DEFINE b == - inv
  <2>1. b \in Int BY <1>33
  <2>2. \A s \in Upto(M) : u1[s] = b * w[s] BY <1>1, <1>27
  <2> HIDE DEF b
  <2>3. IntVector(M, w) BY <1>1, <1>21 DEF IntVector
  <2>4. Dot(M, C[r], u1) = b * Dot(M, C[r], w) BY <1>1, <1>15, <2>1, <2>2, <2>3, DotTimes
  <2> QED BY <2>4 DEF b
<1>35. \A s \in Row : u1[s] \in Int
  <2>1. \A s1, t1 \in Int : s1 * t1 \in Int OBVIOUS
  <2> QED BY <1>21, <1>27, <1>33, <2>1
<1>36. Congruent(Q, Dot(M, C[r], u), Dot(M, C[r], u1))
  <2>1. IntVector(M, u1) BY <1>1, <1>35 DEF IntVector
  <2>2. IntVector(M, u) BY <1>1, <1>8a, <1>12 DEF IntVector, u
  <2>3. ASSUME NEW s \in Upto(M) PROVE Congruent(Q, u[s], u1[s])
    <3>1. u[s] = u1[s] % Q /\ u1[s] \in Int BY <1>1, <1>27, <1>28, <1>35
    <3> QED BY <3>1, Modulus, CongruentMod
  <2>4. \A s \in Upto(M) : Congruent(Q, C[r][s], C[r][s]) /\ Congruent(Q, u[s], u1[s])
    BY <2>3, CongruentSame
  <2> QED BY <1>1, <1>15, <2>1, <2>2, <2>4, DotCongruent
<1>37. Congruent(Q, P[0] * inv, 1)
  <2>1. 1 % Q = 1 BY Modulus, ModSmall
  <2> QED BY <1>5, <2>1 DEF Congruent
<1>38. Congruent(Q, (- inv) * Dot(M, C[r], w), h[r])
  <2>1. Congruent(Q, Dot(M, C[r], w), Dot(M, q, v)) BY <1>24, <1>30
  <2>2. Congruent(Q, Dot(M, q, v) + P[0] * h[r], 0) BY <1>10, <1>31
  <2> QED BY <1>31, <1>32, <1>33, <1>37, <2>1, <2>2, CancelConstant
<1>39. Congruent(Q, Dot(M, C[r], u), h[r]) BY <1>34, <1>36, <1>38, CongruentChain
<1>40. h[r] % Q = h[r] BY SmallResidue
<1> QED BY <1>39, <1>40 DEF Congruent, u

\* The a that solve_a returns is a preimage of the hash.
LEMMA SolvePreimage ==
  ASSUME RandWords, DrbgOK, GenP!GenInv, pc = "done", CpFits(C),
         msg \in Messages
  PROVE  Apply(M, M + D, C, SolveA) = Hash(msg)
<1> DEFINE b == SolveA
           X == M .. M + D - 1
           U == Upto(M)
           head == HeadOfA(Rest)
<1>1. M \in Nat /\ D \in Nat /\ M + D \in Nat /\ Row = U BY SchemeAssumption DEF Row
<1>2. C1cp \in [0 .. M -> Upto(Q)] BY PolynomialKept
<1>3. b \in [Upto(M + D) -> Upto(Q)] BY <1>2, SolveAType
<1>4. Rest \in [Row -> Upto(Q)] BY RestType
<1>5. head \in [Row -> Upto(Q)] BY <1>2, <1>4, SparseIsOK, HeadOfAIs
<1>6. /\ \A e \in U : e \in Upto(M + D) /\ b[e] = head[e]
      /\ \A e \in X : e \in Upto(M + D) /\ b[e] = DrawnTail[e]
  BY <1>1, SolveAIs DEF Upto
<1>7. Upto(M + D) = U \cup X /\ U \cap X = {} BY <1>1 DEF Upto
<1>8. IsFiniteSet(U) /\ IsFiniteSet(X) BY <1>1, UptoIs, FS_Interval
<1>9. IntMatrix(M, M + D, C) BY GenFacts, MatrixInt
<1>10. IntVector(M + D, b) BY <1>3, VectorInt
<1> HIDE DEF b, head, X
<1>11. ASSUME NEW r \in Row PROVE Dot(M + D, C[r], b) % Q = Hash(msg)[r]
  <2> DEFINE f == Terms(M + D, C[r], b)
             g == Terms(M, C[r], head)
             t == TailTerms(r)
             hh == Hash(msg)[r]
             s0 == Dot(M, C[r], head)
             s1 == SumFunction(t)
  <2>1. IntVector(M + D, C[r]) BY <1>1, <1>9 DEF IntMatrix
  <2>2. \A e \in Upto(M + D) : f[e] \in Int BY <1>1, <1>10, <2>1, TermsInt
  <2>3. \A e \in U : g[e] = f[e] BY <1>6 DEF Terms
  <2>4. /\ DOMAIN t = X /\ \A e \in X : t[e] \in Int
        /\ s1 \in Int /\ hh \in Upto(Q)
    BY RestType DEF X
  <2>5. \A e \in X : t[e] = f[e]
    <3>1. t = [d \in X |-> C[r][d] * DrawnTail[d]] BY DEF TailTerms, X
    <3> QED BY <1>6, <3>1 DEF Terms
  <2>6. Dot(M + D, C[r], b) = SumFunctionOnSet(f, U \cup X) BY <1>7, DotIs
  <2>7. s0 = SumFunctionOnSet(g, U) BY DotIs
  <2>8. s0 % Q = Rest[r] BY <1>4, HeadSolves DEF head
  <2>9. Rest[r] = (hh - s1) % Q BY DEF Rest
  <2> HIDE DEF f, g, t, hh
  <2>10. s1 = SumFunctionOnSet(t, X) BY <2>4, SumIs
  <2> HIDE DEF s0, s1
  <2>11. \A e \in U \cup X : f[e] \in Int BY <1>7, <2>2
  <2>12. SumFunctionOnSet(f, U \cup X)
           = SumFunctionOnSet(f, U) + SumFunctionOnSet(f, X)
    BY <1>7, <1>8, <2>11, SumUnion
  <2>13. SumFunctionOnSet(f, U) = SumFunctionOnSet(g, U) BY <1>8, <2>3, <2>11, SumEqual
  <2>14. SumFunctionOnSet(f, X) = SumFunctionOnSet(t, X) BY <1>8, <2>5, <2>11, SumEqual
  <2>15. Dot(M + D, C[r], b) = s0 + s1 BY <2>6, <2>7, <2>10, <2>12, <2>13, <2>14
  <2>16. s0 \in Int
    <3>1. \A e \in U : f[e] \in Int BY <2>11
    <3> QED BY <1>8, <2>7, <2>13, <3>1, SumInt
  <2>17. hh \in Int /\ hh % Q = hh BY <2>4, SmallResidue
  <2>18. Congruent(Q, s0, hh - s1)
    <3>1. s0 % Q = (hh - s1) % Q BY <2>8, <2>9
    <3> QED BY <3>1 DEF Congruent
  <2>19. Congruent(Q, s0 + s1, (hh - s1) + s1)
    <3>1. hh - s1 \in Int BY <2>4, <2>17
    <3>2. Congruent(Q, s1, s1) BY CongruentSame
    <3> QED BY <2>4, <2>16, <2>18, <3>1, <3>2, Modulus, CongruentPlus
  <2>20. (hh - s1) + s1 = hh BY <2>4, <2>17
  <2>21. (s0 + s1) % Q = hh BY <2>17, <2>19, <2>20 DEF Congruent
  <2> QED BY <2>15, <2>21 DEF hh
<1>12. Hash(msg) = [r \in U |-> Hash(msg)[r]]
  <2>1. Hash(msg) \in [U -> Upto(Q)] BY SchemeAssumption
  <2> QED BY <2>1
<1>13. Apply(M, M + D, C, b) = [r \in U |-> Dot(M + D, C[r], b) % Q] BY DEF Apply
<1>14. Apply(M, M + D, C, b) = Hash(msg) BY <1>1, <1>11, <1>12, <1>13
<1> QED BY <1>14 DEF b

\* At the start no a is claimed.
LEMMA PreimageInit == Init => PreimageExact
BY DEF Init, PreimageExact, Replayed

\* Every step keeps the claim: a is computed by a try, and read by the others.
LEMMA PreimageStep ==
  RandWords /\ SchemeInv /\ PreimageExact /\ [Next]_vars => PreimageExact'
<1> SUFFICES ASSUME RandWords, SchemeInv, PreimageExact, [Next]_vars,
                    phase' \in {"try", "x", "open"}, tries' > 0
             PROVE  Apply(M, M + D, C', a') = Hash(msg')
  BY DEF PreimageExact, Replayed
<1>1. CASE Try
  <2>1. phase = "try" /\ a' = SolveA /\ C' = C /\ msg' = msg
    BY <1>1 DEF Try, generator
  <2>2. prog = "sig_gen" BY <2>1 DEF SchemeInv, Flow
  <2>3. msg \in Messages BY <2>2 DEF SchemeInv, SigOK
  <2>4. DrbgOK /\ GenP!GenInv /\ pc = "done" BY <2>1 DEF SchemeInv, OnStream
  <2>5. CpFits(C) BY <2>1, <2>2 DEF SchemeInv, KeyOK, OnStream
  <2>6. Apply(M, M + D, C, SolveA) = Hash(msg) BY <2>3, <2>4, <2>5, SolvePreimage
  <2> QED BY <2>1, <2>6
<1>2. CASE Finish \/ Returned \/ UNCHANGED vars
  <2>1. /\ phase \in {"try", "x", "open"} /\ tries' = tries
        /\ UNCHANGED <<C, a, msg>>
    BY <1>2 DEF Finish, Returned, vars, generator, signature
  <2> QED BY <2>1 DEF PreimageExact, Replayed
<1>3. CASE FillT \/ FillL \/ FillU
  <2>1. tries' = tries BY <1>3 DEF FillT, FillL, FillU, signature
  <2>2. phase \in {"C", "L", "U"} BY <1>3, FillPhases DEF SchemeInv
  <2>3. tries > 0 => phase = "try" \/ Accepted
    BY DEF SchemeInv, SigOK
  <2> QED BY <2>1, <2>2, <2>3 DEF Accepted, HasX
<1>4. CASE GenerateC
  <2>1. phase' \in {"seed", "C"}
    BY <1>4 DEF GenerateC, DrawSeed, IndexDraw, StartValues, ValueDraw, AcceptC1, RejectC1,
                TakeC1, ErrorDraw
  <2> QED BY <2>1
<1>5. CASE \/ Publish \/ (\E m \in Messages : SigGen(m)) \/ PrintSk
           \/ Open \/ SigParse \/ PrintMatrices
  <2>1. phase' \notin {"try", "x", "open"}
    BY <1>5 DEF Publish, SigGen, PrintSk, Redraw, Open, SigParse, PrintMatrices
  <2> QED BY <2>1
<1> QED BY <1>1, <1>2, <1>3, <1>4, <1>5 DEF Next

\* Every try starts from an exact solution of C*a = h, whatever was drawn: the
\* tail of a is drawn and its head is the solution that the theorem of Cayley
\* and Hamilton promises for the stored polynomial.
THEOREM PreimageTheorem == ASSUME RandWords PROVE Spec => []PreimageExact
BY SchemeTheorem, PreimageInit, PreimageStep, PTL DEF Spec

-----------------------------------------------------------------------------
(* The signer and the verifier agree *)

\* s_mod_q reduces the difference of two residues.
LEMMA SmallDifference ==
  ASSUME NEW u \in Upto(Q), NEW v \in Upto(Q)
  PROVE  s_mod_q(u - v) \in Upto(Q) /\ Congruent(Q, s_mod_q(u - v), u - v)
<1>1. u \in Int /\ v \in Int /\ 0 <= u /\ u < Q /\ 0 <= v /\ v < Q BY Modulus DEF Upto
<1>2. CASE u - v < 0
  <2>1. s_mod_q(u - v) = (u - v) + Q BY <1>2 DEF s_mod_q
  <2>2. u - v \in Int /\ 1 \in Int /\ Q * 1 = Q BY <1>1, Modulus
  <2>3. ((u - v) + Q * 1) % Q = (u - v) % Q BY <2>2, Modulus, ModShift
  <2>4. Congruent(Q, (u - v) + Q, u - v) BY <2>2, <2>3 DEF Congruent
  <2>5. (u - v) + Q \in Upto(Q) BY <1>1, <1>2, Modulus DEF Upto
  <2> QED BY <2>1, <2>4, <2>5
<1>3. CASE ~ (u - v < 0)
  <2>1. s_mod_q(u - v) = u - v BY <1>3 DEF s_mod_q
  <2>2. u - v \in Upto(Q) BY <1>1, <1>3, Modulus DEF Upto
  <2> QED BY <2>1, <2>2, CongruentSame
<1> QED BY <1>2, <1>3

\* Two vectors that differ by a third modulo Q have images that do.
LEMMA ImageOfDifference ==
  ASSUME NEW n \in Nat, NEW u, IntVector(n, u), NEW s, IntVector(n, s),
         NEW w, IntVector(n, w), NEW e, IntVector(n, e),
         \A c \in Upto(n) : (w[c] + e[c]) % Q = s[c] % Q
  PROVE  Congruent(Q, Dot(n, u, s) - Dot(n, u, w), Dot(n, u, e))
<1> DEFINE t == [c \in Upto(n) |-> w[c] + e[c]]
<1>1. \A c \in Upto(n) : t[c] = w[c] + e[c] OBVIOUS
<1> HIDE DEF t
<1>2. IntVector(n, t) BY <1>1 DEF IntVector
<1>3. Dot(n, u, t) = Dot(n, u, w) + Dot(n, u, e) BY <1>1, DotPlus
<1>4. \A c \in Upto(n) : Congruent(Q, u[c], u[c]) /\ Congruent(Q, s[c], t[c])
  BY <1>1, CongruentSame DEF Congruent
<1>5. Congruent(Q, Dot(n, u, s), Dot(n, u, t)) BY <1>2, <1>4, DotCongruent
<1> DEFINE p == Dot(n, u, s)
           q == Dot(n, u, t)
           g == Dot(n, u, w)
           h == Dot(n, u, e)
<1>6. p \in Int /\ q \in Int /\ g \in Int /\ h \in Int BY <1>2, DotInt
<1>7. q = g + h BY <1>3
<1>8. Congruent(Q, p, q) BY <1>5
<1> HIDE DEF p, q, g, h
<1>9. Congruent(Q, g, g) BY CongruentSame
<1>10. Congruent(Q, p - g, q - g) BY <1>6, <1>8, <1>9, Modulus, CongruentMinus
<1>11. q - g = h BY <1>6, <1>7
<1> QED BY <1>10, <1>11 DEF p, g, h

\* What sig_ver computes, from the message and x alone, is the error on which
\* sig_gen decided.
LEMMA ErrorsAre ==
  ASSUME SchemeInv, HasX, Apply(M, M + D, C, a) = Hash(msg)
  PROVE  Errors = Apply(M, M + D, C, z)
<1> DEFINE B == Product(N, N, N, LM, UM)
           w == Apply(K * N, N, T, y)
           n2 == K * N
           p == Apply(M, N, pk, x)
<1>1. /\ y \in [Upto(N) -> Upto(Q)] /\ x = Apply(N, N, B, y)
      /\ a \in [Upto(n2) -> Upto(Q)] /\ z \in [Upto(n2) -> Upto(Q)]
      /\ \A e \in Upto(n2) : (Dot(N, T[e], y) + z[e]) % Q = a[e]
  BY Dimensions DEF SchemeInv, SigOK, Split, Accepted
<1>2. /\ T \in Matrix(n2, N) /\ Regular(LM) /\ Regular(UM)
  BY DEF SchemeInv, MatricesOK, HasT, HasL, HasU, HasX, Shape
<1>3. prog # "key_gen" BY DEF SchemeInv, Flow, HasX
<1>4. pk \in Matrix(M, N) BY <1>3 DEF SchemeInv, KeyOK
<1>5. C \in Matrix(M, n2)
  <2>1. C \in Matrix(M, M + D) BY GenFacts DEF SchemeInv, OnStream
  <2> QED BY <2>1, Dimensions
<1>6. B \in Matrix(N, N) BY <1>1, <1>2, XType
<1>7. Product(M, N, N, pk, B) = Product(M, n2, N, C, T) BY KeyEquationNow DEF HasX
<1>8. M \in Nat /\ N \in Nat /\ n2 \in Nat /\ n2 = M + D BY Dimensions
<1> HIDE DEF B, n2
<1>9. /\ IntMatrix(M, N, pk) /\ IntMatrix(N, N, B) /\ IntMatrix(M, n2, C)
      /\ IntMatrix(n2, N, T) /\ IntVector(N, y) /\ IntVector(n2, a) /\ IntVector(n2, z)
  BY <1>1, <1>2, <1>4, <1>5, <1>6, MatrixInt, VectorInt
<1>10. p = Apply(M, N, Product(M, N, N, pk, B), y)
  BY <1>1, <1>8, <1>9, ApplyProduct
<1>11. Apply(M, n2, C, Apply(n2, N, T, y)) = Apply(M, N, Product(M, n2, N, C, T), y)
  BY <1>8, <1>9, ApplyProduct
<1>12. w = Apply(n2, N, T, y) BY DEF n2
<1>13. p = Apply(M, n2, C, w) BY <1>7, <1>10, <1>11, <1>12
<1>14. /\ w \in [Upto(n2) -> Upto(Q)]
       /\ \A e \in Upto(n2) : w[e] = Dot(N, T[e], y) % Q
  BY <1>8, <1>9, <1>12, ApplyType
<1> HIDE DEF w, p
<1>15. IntVector(n2, w) BY <1>14, VectorInt
<1>16. ASSUME NEW e \in Upto(n2) PROVE (w[e] + z[e]) % Q = a[e] % Q
  <2> DEFINE d == Dot(N, T[e], y)
  <2>1. d \in Int BY <1>8, <1>9, DotInt DEF IntMatrix
  <2>2. (d + z[e]) % Q = a[e] /\ w[e] = d % Q BY <1>1, <1>14
  <2> HIDE DEF d
  <2>3. w[e] \in Int /\ z[e] \in Int BY <1>9, <1>15 DEF IntVector
  <2>4. Congruent(Q, w[e], d) BY <2>1, <2>2, Modulus, CongruentMod
  <2>5. Congruent(Q, z[e], z[e]) BY CongruentSame
  <2>6. Congruent(Q, w[e] + z[e], d + z[e]) BY <2>1, <2>3, <2>4, <2>5, Modulus, CongruentPlus
  <2>7. a[e] % Q = a[e] BY <1>1, SmallResidue
  <2> QED BY <2>2, <2>6, <2>7 DEF Congruent
<1> DEFINE cz == Apply(M, n2, C, z)
<1>17. /\ cz \in [Row -> Upto(Q)]
       /\ \A r \in Row : cz[r] = Dot(n2, C[r], z) % Q
  BY <1>8, <1>9, ApplyType DEF Row
<1>18. /\ p \in [Row -> Upto(Q)]
       /\ \A r \in Row : p[r] = Dot(n2, C[r], w) % Q
  BY <1>8, <1>9, <1>13, <1>15, ApplyType DEF Row
<1>19. /\ Hash(msg) \in [Row -> Upto(Q)]
       /\ \A r \in Row : Hash(msg)[r] = Dot(n2, C[r], a) % Q
  <2>1. Hash(msg) = Apply(M, n2, C, a) BY <1>8
  <2> QED BY <1>8, <1>9, <2>1, ApplyType DEF Row
<1>20. Errors = [r \in Row |-> s_mod_q(Hash(msg)[r] - p[r])] BY DEF Errors, p
<1> HIDE DEF cz
<1>21. ASSUME NEW r \in Row PROVE s_mod_q(Hash(msg)[r] - p[r]) = cz[r]
  <2> DEFINE da == Dot(n2, C[r], a)
             dw == Dot(n2, C[r], w)
             dz == Dot(n2, C[r], z)
             h == Hash(msg)[r]
             q == p[r]
  <2>1. IntVector(n2, C[r]) BY <1>9 DEF IntMatrix, Row
  <2>2. da \in Int /\ dw \in Int /\ dz \in Int BY <1>8, <1>9, <1>15, <2>1, DotInt
  <2>3. Congruent(Q, da - dw, dz) BY <1>8, <1>9, <1>15, <1>16, <2>1, ImageOfDifference
  <2>4. h \in Upto(Q) /\ q \in Upto(Q) /\ h = da % Q /\ q = dw % Q /\ cz[r] = dz % Q
        /\ cz[r] \in Upto(Q)
    BY <1>17, <1>18, <1>19
  <2> HIDE DEF da, dw, dz, h, q
  <2>5. s_mod_q(h - q) \in Upto(Q) /\ Congruent(Q, s_mod_q(h - q), h - q)
    BY <2>4, SmallDifference
  <2>6. h \in Int /\ q \in Int BY <2>4, SmallResidue
  <2>7. Congruent(Q, h, da) /\ Congruent(Q, q, dw) BY <2>2, <2>4, Modulus, CongruentMod
  <2>8. Congruent(Q, h - q, da - dw) BY <2>2, <2>6, <2>7, Modulus, CongruentMinus
  <2>9. Congruent(Q, dz, cz[r]) BY <2>2, <2>4, Modulus, CongruentMod
  <2>10. Congruent(Q, s_mod_q(h - q), cz[r])
    BY <2>3, <2>5, <2>8, <2>9, CongruentChain
  <2>11. s_mod_q(h - q) = cz[r] BY <2>4, <2>5, <2>10, Modulus, CongruentSmall DEF Upto
  <2> QED BY <2>11 DEF h, q
<1>22. Errors = [r \in Row |-> cz[r]] BY <1>20, <1>21
<1>23. Errors = cz BY <1>17, <1>22
<1> QED BY <1>8, <1>23 DEF cz

\* What sig_ver has seen, and what eht_sigparse prints.
Agreed ==
  /\ phase \in {"opened", "parsed"} => /\ Apply(M, M + D, C, a) = Hash(msg)
                                       /\ verdict.ret = 0
                                       /\ verdict.errors = Apply(M, M + D, C, z)
  /\ phase = "parsed" => sample = Apply(M, M + D, C, z)

\* At the start nothing has been verified.
LEMMA AgreedInit == Init => Agreed
BY DEF Init, Agreed

\* Every step keeps the agreement of signer and verifier.
LEMMA AgreedStep == SchemeInv /\ PreimageExact /\ Agreed /\ [Next]_vars => Agreed'
<1> SUFFICES ASSUME SchemeInv, PreimageExact, Agreed, [Next]_vars PROVE Agreed'
  OBVIOUS
<1>1. CASE Open
  <2>1. /\ phase = "open" /\ phase' = "opened"
        /\ verdict' = [ret |-> IF Cardinality(Inside(Errors)) >= L THEN 0 ELSE -1,
                       errors |-> Errors]
        /\ C' = C /\ a' = a /\ z' = z /\ msg' = msg
    BY <1>1 DEF Open, generator, signature
  <2>2. tries > 0 /\ Cardinality(Inside(Apply(M, M + D, C, z))) >= L
    BY <2>1 DEF SchemeInv, SigOK, Accepted, HasX
  <2>3. Apply(M, M + D, C, a) = Hash(msg) BY <2>1, <2>2 DEF PreimageExact, Replayed
  <2>4. Errors = Apply(M, M + D, C, z) BY <2>1, <2>3, ErrorsAre DEF HasX
  <2>5. verdict'.ret = 0 /\ verdict'.errors = Errors BY <2>1, <2>2, <2>4
  <2> QED BY <2>1, <2>3, <2>4, <2>5 DEF Agreed
<1>2. CASE SigParse
  <2>1. /\ phase = "opened" /\ sample' = Errors /\ verdict' = verdict
        /\ C' = C /\ a' = a /\ z' = z /\ msg' = msg
    BY <1>2 DEF SigParse, generator, signature
  <2>2. Apply(M, M + D, C, a) = Hash(msg) BY <2>1 DEF Agreed
  <2>3. Errors = Apply(M, M + D, C, z) BY <2>1, <2>2, ErrorsAre DEF HasX
  <2> QED BY <2>1, <2>2, <2>3 DEF Agreed
<1>3. CASE Returned \/ UNCHANGED vars
  <2>1. UNCHANGED <<phase, C, a, z, msg, verdict, sample>>
    BY <1>3 DEF Returned, vars, generator, signature, outputs
  <2> QED BY <2>1 DEF Agreed
<1>4. CASE GenerateC
  <2>1. phase' \in {"seed", "C"}
    BY <1>4 DEF GenerateC, DrawSeed, IndexDraw, StartValues, ValueDraw, AcceptC1, RejectC1,
                TakeC1, ErrorDraw
  <2> QED BY <2>1 DEF Agreed
<1>5. CASE FillT \/ FillL \/ FillU
  <2>1. phase' \notin {"opened", "parsed"} BY <1>5, FillPhases DEF SchemeInv
  <2> QED BY <2>1 DEF Agreed
<1>6. CASE \/ Publish \/ (\E m \in Messages : SigGen(m)) \/ PrintSk
           \/ Try \/ Finish \/ PrintMatrices
  <2>1. phase' \notin {"opened", "parsed"}
    BY <1>6 DEF Publish, SigGen, PrintSk, Redraw, Try, Finish, PrintMatrices
  <2> QED BY <2>1 DEF Agreed
<1> QED BY <1>1, <1>2, <1>3, <1>4, <1>5, <1>6 DEF Next

\* sig_ver accepts every signature that sig_gen returns, and sig_ver and
\* eht_sigparse see the very errors on which sig_gen decided.
THEOREM VerificationTheorem ==
  ASSUME RandWords
  PROVE  Spec => []SignatureVerifies
<1>1. Agreed => SignatureVerifies BY DEF Agreed, SignatureVerifies
<1>2. Spec => []PreimageExact BY PreimageTheorem
<1> QED BY <1>1, <1>2, SchemeTheorem, AgreedInit, AgreedStep, PTL DEF Spec
=============================================================================
