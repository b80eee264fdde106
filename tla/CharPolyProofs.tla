--------------------------- MODULE CharPolyProofs ---------------------------
(***************************************************************************)
(* Proofs about CharPoly, for every size of C1 and every prime modulus.    *)
(* The first two parts say what keeps the sums of principal minors, whose  *)
(* signed values are the coefficients of the characteristic polynomial,    *)
(* and how those of a Hessenberg matrix follow from those of its leading   *)
(* blocks: both over the integers and by the definition of a determinant.  *)
(* Then the steps of the code are shown to do, modulo Q, what these parts  *)
(* speak of.                                                               *)
(***************************************************************************)
EXTENDS CharPoly, NumberTheorems

-----------------------------------------------------------------------------
(* What leaves the sums of minors as they are *)

\* Two matrices with the same entries modulo q.
SameMod(q, A, B, I) == \A x, y \in I : Congruent(q, A[x][y], B[x][y])

\* Their determinants are the same modulo q.
LEMMA LeibnizCongruent ==
  ASSUME NEW I \in SUBSET Int, IsFiniteSet(I), NEW q \in Nat, q > 0,
         NEW A, Square(A, I), NEW B, Square(B, I), SameMod(q, A, B, I)
  PROVE  Congruent(q, Leibniz(A, I), Leibniz(B, I))
<1> DEFINE f == LeibnizTerms(A, I)
           g == LeibnizTerms(B, I)
<1>1. IsFiniteSet(Bijections(I)) BY BijectionsFinite
<1>2. \A p \in Bijections(I) : f[p] \in Int BY LeibnizTermsInt
<1>3. \A p \in Bijections(I) : g[p] \in Int BY LeibnizTermsInt
<1>4. ASSUME NEW p \in Bijections(I) PROVE Congruent(q, f[p], g[p])
  <2> DEFINE a == Entries(A, I, p)
             b == Entries(B, I, p)
  <2>1. \A x \in I : p[x] \in I BY DEF Bijections
  <2>2. \A x \in I : a[x] \in Int BY <2>1, EntriesInt
  <2>3. \A x \in I : b[x] \in Int BY <2>1, EntriesInt
  <2>4. \A x \in I : Congruent(q, a[x], b[x]) BY <2>1 DEF Entries, SameMod
  <2>5. f[p] = Sgn(p, I) * ProductOn(a, I) BY DEF LeibnizTerms, LeibnizTerm
  <2>6. g[p] = Sgn(p, I) * ProductOn(b, I) BY DEF LeibnizTerms, LeibnizTerm
  <2> HIDE DEF a, b, f, g
  <2>7. Congruent(q, ProductOn(a, I), ProductOn(b, I))
    BY <2>2, <2>3, <2>4, ProductCongruent
  <2>8. ProductOn(a, I) \in Int BY <2>2, ProductOnInt
  <2>9. ProductOn(b, I) \in Int BY <2>3, ProductOnInt
  <2>10. Sgn(p, I) \in Int BY SgnType
  <2>11. Congruent(q, Sgn(p, I), Sgn(p, I)) BY CongruentSame
  <2>12. Congruent(q, Sgn(p, I) * ProductOn(a, I), Sgn(p, I) * ProductOn(b, I))
    BY <2>7, <2>8, <2>9, <2>10, <2>11, CongruentTimes
  <2> QED BY <2>5, <2>6, <2>12
<1> HIDE DEF f, g
<1>5. Congruent(q, SumFunctionOnSet(f, Bijections(I)), SumFunctionOnSet(g, Bijections(I)))
  BY <1>1, <1>2, <1>3, <1>4, SumCongruent
<1> QED BY <1>5, LeibnizIs DEF f, g

\* So are the sums of their minors.
LEMMA MinorSumCongruent ==
  ASSUME NEW N \in SUBSET Int, IsFiniteSet(N), NEW q \in Nat, q > 0,
         NEW A, Square(A, N), NEW B, Square(B, N), SameMod(q, A, B, N), NEW k
  PROVE  Congruent(q, MinorSum(A, N, k), MinorSum(B, N, k))
<1> DEFINE X == kSubset(k, N)
           f == [K \in X |-> Leibniz(A, K)]
           g == [K \in X |-> Leibniz(B, K)]
<1>1. IsFiniteSet(X) BY KSubsets
<1>2. \A K \in X : f[K] \in Int BY MinorSumInt
<1>3. \A K \in X : g[K] \in Int BY MinorSumInt
<1>4. ASSUME NEW K \in X PROVE Congruent(q, f[K], g[K])
  <2>1. K \in SUBSET N /\ K \in SUBSET Int /\ IsFiniteSet(K) BY KSubsets
  <2>2. Square(A, K) /\ Square(B, K) /\ SameMod(q, A, B, K) BY <2>1 DEF Square, SameMod
  <2>3. Congruent(q, Leibniz(A, K), Leibniz(B, K)) BY <2>1, <2>2, LeibnizCongruent
  <2> QED BY <2>3
<1>5. /\ MinorSum(A, N, k) = SumFunctionOnSet(f, X)
      /\ MinorSum(B, N, k) = SumFunctionOnSet(g, X)
  BY DEF MinorSum
<1> HIDE DEF f, g, X
<1>6. Congruent(q, SumFunctionOnSet(f, X), SumFunctionOnSet(g, X))
  BY <1>1, <1>2, <1>3, <1>4, SumCongruent
<1> QED BY <1>5, <1>6

\* B is A with two rows, and the columns of the same numbers, exchanged.
Exchanged(B, A, N, v, w) ==
  \A x, y \in N : B[x][y] = A[Swap(v, w)[x]][Swap(v, w)[y]]

\* An exchange moves the minors around.
LEMMA MinorSumSwap ==
  ASSUME NEW N \in SUBSET Int, IsFiniteSet(N), NEW v \in N, NEW w \in N,
         NEW A, Square(A, N), NEW B, Exchanged(B, A, N, v, w), NEW k
  PROVE  MinorSum(B, N, k) = MinorSum(A, N, k)
<1> DEFINE s == Swap(v, w)
           X == kSubset(k, N)
           moved(K) == {s[x] : x \in K}
           b == [K \in X |-> moved(K)]
           f == [K \in X |-> Leibniz(A, K)]
           g == [K \in X |-> Leibniz(B, K)]
<1>1. IsFiniteSet(X) BY KSubsets
<1>2. \A x \in N : s[x] \in N /\ s[s[x]] = x BY SwapRenames DEF Renames
<1> HIDE DEF s
<1>3. ASSUME NEW K \in X
      PROVE  /\ K \in SUBSET N /\ K \in SUBSET Int /\ IsFiniteSet(K) /\ Cardinality(K) = k
             /\ moved(K) \in SUBSET N /\ Renames(s, K, moved(K))
             /\ moved(K) \in X /\ moved(moved(K)) = K
  <2>1. K \in SUBSET N /\ K \in SUBSET Int /\ IsFiniteSet(K) /\ Cardinality(K) = k
    BY KSubsets
  <2>2. moved(K) \in SUBSET N BY <1>2, <2>1
  <2>3. \A x, y \in K : s[x] = s[y] => x = y
    <3> SUFFICES ASSUME NEW x \in K, NEW y \in K, s[x] = s[y] PROVE x = y OBVIOUS
    <3>1. s[s[x]] = x /\ s[s[y]] = y BY <1>2, <2>1
    <3> QED BY <3>1
  <2>4. Renames(s, K, moved(K)) BY <2>3 DEF Renames
  <2>5. Cardinality(moved(K)) = k
    <3> DEFINE j == [x \in K |-> s[x]]
               Z == moved(K)
    <3>1. j \in [K -> Z] OBVIOUS
    <3>2. \A x, y \in K : j[x] = j[y] => x = y BY <2>3
    <3>3. \A z \in Z : \E x \in K : j[x] = z OBVIOUS
    <3>4. j \in Bijection(K, Z)
      BY <3>1, <3>2, <3>3 DEF Bijection, Injection, Surjection, IsInjective
    <3> HIDE DEF j, Z
    <3>5. ExistsBijection(K, Z) BY <3>4 DEF ExistsBijection
    <3>6. Cardinality(Z) = Cardinality(K) BY <2>1, <3>5, FS_Bijection
    <3> QED BY <2>1, <3>6 DEF Z
  <2>6. moved(K) \in X BY <2>2, <2>5 DEF kSubset
  <2>7. moved(moved(K)) = K
    <3>1. \A x \in K : s[s[x]] = x BY <1>2, <2>1
    <3>2. moved(moved(K)) = {s[s[x]] : x \in K} OBVIOUS
    <3> QED BY <3>1, <3>2
  <2> QED BY <2>1, <2>2, <2>4, <2>6, <2>7
<1>4. Renames(b, X, X)
  <2>1. \A K \in X : b[K] \in X BY <1>3
  <2>2. \A K \in X : b[b[K]] = K
    <3> SUFFICES ASSUME NEW K \in X PROVE b[b[K]] = K OBVIOUS
    <3>1. b[K] = moved(K) OBVIOUS
    <3>2. b[K] \in X BY <2>1
    <3>3. b[b[K]] = moved(b[K]) BY <3>2
    <3>4. moved(moved(K)) = K BY <1>3
    <3> HIDE DEF moved, b
    <3> QED BY <3>1, <3>3, <3>4
  <2> HIDE DEF b, X
  <2>3. \A K \in X : \E L \in X : b[L] = K BY <2>1, <2>2
  <2>4. \A K, L \in X : b[K] = b[L] => K = L
    <3> SUFFICES ASSUME NEW K \in X, NEW L \in X, b[K] = b[L] PROVE K = L OBVIOUS
    <3>1. b[b[K]] = K /\ b[b[L]] = L BY <2>2
    <3> QED BY <3>1
  <2> QED BY <2>1, <2>3, <2>4 DEF Renames
<1>5. Carries(g, f, b, X)
  <2> SUFFICES ASSUME NEW K \in X PROVE f[b[K]] \in Int /\ g[K] = f[b[K]] BY DEF Carries
  <2> DEFINE J == moved(K)
  <2>1. /\ K \in SUBSET N /\ K \in SUBSET Int /\ IsFiniteSet(K)
        /\ J \in SUBSET N /\ Renames(s, K, J) /\ J \in X
    BY <1>3
  <2>2. J \in SUBSET Int /\ IsFiniteSet(J) /\ Square(A, J) BY <2>1, KSubsets DEF Square
  <2>3. \A x, y \in K : B[x][y] = A[s[x]][s[y]] BY <2>1 DEF Exchanged, s
  <2>4. b[K] = J /\ f[J] = Leibniz(A, J) /\ g[K] = Leibniz(B, K) BY <2>1
  <2> HIDE DEF J, b, f, g, X
  <2>5. Leibniz(B, K) = Leibniz(A, J) BY <2>1, <2>2, <2>3, LeibnizRelabel
  <2>6. Leibniz(A, J) \in Int BY <2>2, LeibnizInt
  <2> QED BY <2>4, <2>5, <2>6
<1>6. /\ MinorSum(A, N, k) = SumFunctionOnSet(f, X)
      /\ MinorSum(B, N, k) = SumFunctionOnSet(g, X)
  BY DEF MinorSum
<1> HIDE DEF b, f, g, X
<1>7. SumFunctionOnSet(g, X) = SumFunctionOnSet(f, X) BY <1>1, <1>4, <1>5, SumCarried
<1> QED BY <1>6, <1>7

\* B is A transposed.
Transposed(B, A, N) == \A x, y \in N : B[x][y] = A[y][x]

\* A matrix has the minors of its transpose.
LEMMA MinorSumTranspose ==
  ASSUME NEW N \in SUBSET Int, IsFiniteSet(N), NEW A, Square(A, N),
         NEW B, Transposed(B, A, N), NEW k
  PROVE  MinorSum(B, N, k) = MinorSum(A, N, k)
<1> DEFINE X == kSubset(k, N)
           f == [K \in X |-> Leibniz(A, K)]
           g == [K \in X |-> Leibniz(B, K)]
<1>1. ASSUME NEW K \in X PROVE f[K] = g[K]
  <2>1. K \in SUBSET N /\ K \in SUBSET Int /\ IsFiniteSet(K) BY KSubsets
  <2>2. Square(A, K) BY <2>1 DEF Square
  <2>3. \A x, y \in K : B[x][y] = A[y][x] BY <2>1 DEF Transposed
  <2>4. Leibniz(B, K) = Leibniz(A, K) BY <2>1, <2>2, <2>3, LeibnizTranspose
  <2> QED BY <2>4
<1>2. f = g BY <1>1
<1> QED BY <1>2 DEF MinorSum

\* The minors depend on the rows and columns in N only, the fringes on the
\* rows in N and on v.
LEMMA MinorSumSame ==
  ASSUME NEW N, NEW A, NEW B, \A x, y \in N : A[x][y] = B[x][y], NEW k
  PROVE  MinorSum(A, N, k) = MinorSum(B, N, k)
<1> DEFINE X == kSubset(k, N)
           f == [K \in X |-> Leibniz(A, K)]
           g == [K \in X |-> Leibniz(B, K)]
<1>1. ASSUME NEW K \in X PROVE Leibniz(A, K) = Leibniz(B, K)
  <2>1. K \in SUBSET N BY DEF kSubset
  <2>2. \A x, y \in K : A[x][y] = B[x][y] BY <2>1
  <2> QED BY <2>2, LeibnizSame
<1>2. f = g BY <1>1
<1> QED BY <1>2 DEF MinorSum

\* So do the sums of fringes.
LEMMA FringeSumSame ==
  ASSUME NEW N, NEW s, NEW A, NEW B, \A x \in N : \A y \in N \cup {s} : A[x][y] = B[x][y],
         NEW v, NEW u, SameOn(v, u, N \cup {s}), NEW k
  PROVE  FringeSum(A, N, s, v, k) = FringeSum(B, N, s, u, k)
<1> DEFINE X == kSubset(k, N)
           f == [K \in X |-> Fringe(A, K, s, v)]
           g == [K \in X |-> Fringe(B, K, s, u)]
<1>1. ASSUME NEW K \in X PROVE Fringe(A, K, s, v) = Fringe(B, K, s, u)
  <2>1. K \in SUBSET N BY DEF kSubset
  <2>2. \A x \in K : \A y \in K \cup {s} : A[x][y] = B[x][y] BY <2>1
  <2>3. \A y \in K \cup {s} : v[y] = u[y] BY <2>1 DEF SameOn
  <2> QED BY <2>2, <2>3, FringeSame
<1>2. f = g BY <1>1
<1> QED BY <1>2 DEF FringeSum

\* v is a plus u times b.
Mixed(v, a, u, b, N) == \A y \in N : v[y] = a[y] + u * b[y]

\* Then its fringes are mixed in the same way.
LEMMA FringeSumMix ==
  ASSUME NEW N \in SUBSET Int, IsFiniteSet(N), NEW s \in N, NEW A, Square(A, N),
         NEW a, IntOn(a, N), NEW u \in Int, NEW b, IntOn(b, N),
         NEW v, Mixed(v, a, u, b, N), NEW k
  PROVE  /\ FringeSum(A, N \ {s}, s, b, k) \in Int
         /\ FringeSum(A, N \ {s}, s, v, k)
              = FringeSum(A, N \ {s}, s, a, k) + u * FringeSum(A, N \ {s}, s, b, k)
<1> DEFINE F(w) == FringeSum(A, N \ {s}, s, UnitRow(N, w), k)
           fv == [w \in N |-> v[w] * F(w)]
           fa == [w \in N |-> a[w] * F(w)]
           fb == [w \in N |-> b[w] * F(w)]
           fu == [w \in N |-> u * fb[w]]
<1>1. \A w \in N : F(w) \in Int
  <2> SUFFICES ASSUME NEW w \in N PROVE F(w) \in Int OBVIOUS
  <2>1. Adjoint(A, N, k, s, w) \in Int BY AdjointInt
  <2> QED BY <2>1 DEF Adjoint
<1>2. IntOn(v, N)
  <2>1. \A x, y, z \in Int : x + y * z \in Int OBVIOUS
  <2> QED BY <2>1 DEF IntOn, Mixed
<1>3. /\ FringeSumParts(fv, A, N, s, v, k) /\ FringeSumParts(fa, A, N, s, a, k)
      /\ FringeSumParts(fb, A, N, s, b, k)
  BY DEF FringeSumParts
<1>4. ASSUME NEW w \in N PROVE fv[w] = fa[w] + fu[w]
  <2>1. \A x, y, z, t \in Int : (x + y * z) * t = x * t + y * (z * t) OBVIOUS
  <2>2. v[w] = a[w] + u * b[w] BY DEF Mixed
  <2>3. a[w] \in Int /\ b[w] \in Int BY DEF IntOn
  <2>4. F(w) \in Int BY <1>1
  <2> HIDE DEF F
  <2>5. fv[w] = v[w] * F(w) /\ fa[w] = a[w] * F(w) /\ fu[w] = u * (b[w] * F(w)) OBVIOUS
  <2> HIDE DEF fv, fa, fb, fu
  <2> QED BY <2>1, <2>2, <2>3, <2>4, <2>5
<1>5. \A w \in N : fu[w] = u * fb[w] OBVIOUS
<1> HIDE DEF fv, fa, fb, fu, F
<1>6. (\A w \in N : fa[w] \in Int) /\ FringeSum(A, N \ {s}, s, a, k) = SumFunctionOnSet(fa, N)
  BY <1>3, FringeSumLinear
<1>7. (\A w \in N : fb[w] \in Int) /\ FringeSum(A, N \ {s}, s, b, k) = SumFunctionOnSet(fb, N)
  BY <1>3, FringeSumLinear
<1>8. FringeSum(A, N \ {s}, s, v, k) = SumFunctionOnSet(fv, N)
  BY <1>2, <1>3, FringeSumLinear
<1>9. \A w \in N : fb[w] \in Int /\ fu[w] = u * fb[w] BY <1>5, <1>7
<1>10. SumFunctionOnSet(fu, N) = u * SumFunctionOnSet(fb, N) BY <1>9, SumTimes
<1>11. \A w \in N : fa[w] \in Int /\ fu[w] \in Int /\ fv[w] = fa[w] + fu[w]
  <2>1. \A x, y \in Int : x * y \in Int OBVIOUS
  <2> QED BY <1>4, <1>6, <1>9, <2>1
<1>12. SumFunctionOnSet(fv, N) = SumFunctionOnSet(fa, N) + SumFunctionOnSet(fu, N)
  BY <1>11, SumPlus
<1>13. SumFunctionOnSet(fb, N) \in Int BY <1>7, SumInt
<1> QED BY <1>6, <1>7, <1>8, <1>10, <1>12, <1>13

\* B is A with u times row t added to row r.
RowAdded(B, A, N, r, t, u) ==
  \A x, y \in N : B[x][y] = IF x = r THEN A[r][y] + u * A[t][y] ELSE A[x][y]

\* The minors change by u times the fringes that row t has in the place of r.
LEMMA MinorSumRow ==
  ASSUME NEW N \in SUBSET Int, IsFiniteSet(N), NEW r \in N, NEW t \in N, r # t,
         NEW A, Square(A, N), NEW u \in Int, NEW B, RowAdded(B, A, N, r, t, u), NEW k \in Nat
  PROVE  /\ Square(B, N)
         /\ FringeSum(A, N \ {r, t}, r, A[t], k) \in Int
         /\ MinorSum(B, N, k + 1)
              = MinorSum(A, N, k + 1) + u * FringeSum(A, N \ {r, t}, r, A[t], k)
<1> DEFINE J == N \ {r}
<1>1. IsFiniteSet(J) /\ J \in SUBSET Int /\ r \notin J /\ J \cup {r} = N /\ r \in Int
  BY FS_Subset
<1>2. J \ {t} = N \ {r, t} /\ t \in J OBVIOUS
<1>3. Square(B, N)
  <2>1. \A x, y, z \in Int : x + y * z \in Int OBVIOUS
  <2>2. \A x, y \in N : A[x][y] \in Int BY DEF Square
  <2>3. \A x, y \in N : B[x][y] \in Int BY <2>1, <2>2 DEF RowAdded
  <2> QED BY <2>3 DEF Square
<1>4. \A x, y \in J : B[x][y] = A[x][y] BY DEF RowAdded
<1>5. \A x \in J : \A y \in J \cup {r} : B[x][y] = A[x][y] BY DEF RowAdded
<1>6. SameOn(B[r], B[r], J \cup {r}) BY DEF SameOn
<1>7. Mixed(B[r], A[r], u, A[t], N) BY DEF Mixed, RowAdded
<1>8. IntOn(A[r], N) /\ IntOn(A[t], N) BY DEF IntOn, Square
<1>9. Square(A, J \cup {r}) /\ Square(B, J \cup {r}) BY <1>1, <1>3
<1>10. Fringed(A, J, r) BY DEF Fringed, Square
<1>11. FringeSum(A, N \ {r}, r, A[t], k) \in Int BY <1>7, <1>8, FringeSumMix
<1>12. FringeSum(A, N \ {r}, r, B[r], k)
        = FringeSum(A, N \ {r}, r, A[r], k) + u * FringeSum(A, N \ {r}, r, A[t], k)
  BY <1>7, <1>8, FringeSumMix
<1>13. FringeSum(A, J, r, A[r], k) \in Int /\ MinorSum(A, J, k + 1) \in Int
  <2> HIDE DEF J
  <2> QED BY <1>1, <1>9, MinorSumLaw
<1>14. MinorSum(A, J \cup {r}, k + 1) = MinorSum(A, J, k + 1) + FringeSum(A, J, r, A[r], k)
  <2> HIDE DEF J
  <2> QED BY <1>1, <1>9, MinorSumLaw
<1>15. MinorSum(B, J \cup {r}, k + 1) = MinorSum(B, J, k + 1) + FringeSum(B, J, r, B[r], k)
  <2> HIDE DEF J
  <2> QED BY <1>1, <1>9, MinorSumLaw
<1>16. MinorSum(B, J, k + 1) = MinorSum(A, J, k + 1) BY <1>4, MinorSumSame
<1>17. FringeSum(B, J, r, B[r], k) = FringeSum(A, J, r, B[r], k)
  <2> HIDE DEF J
  <2> QED BY <1>5, <1>6, FringeSumSame
<1>18. FringeSum(A, J, r, A[t], k) = FringeSum(A, J \ {t}, r, A[t], k)
  <2> HIDE DEF J
  <2> QED BY <1>1, <1>2, <1>10, FringeDrop
<1>19. \A x, y, z \in Int : x + (y + z) = (x + y) + z OBVIOUS
<1>20. \A x, y \in Int : x * y \in Int OBVIOUS
<1> DEFINE E == MinorSum(A, J, k + 1)
           R == FringeSum(A, J, r, A[r], k)
           T == u * FringeSum(A, J, r, A[t], k)
<1>21. E \in Int /\ R \in Int /\ T \in Int BY <1>11, <1>13, <1>20
<1>22. MinorSum(A, N, k + 1) = E + R BY <1>1, <1>14
<1>23. MinorSum(B, N, k + 1) = E + (R + T) BY <1>1, <1>12, <1>15, <1>16, <1>17
<1>24. T = u * FringeSum(A, N \ {r, t}, r, A[t], k) BY <1>2, <1>18
<1>25. FringeSum(A, N \ {r, t}, r, A[t], k) \in Int BY <1>2, <1>11, <1>18
<1> HIDE DEF E, R, T
<1> QED BY <1>3, <1>19, <1>21, <1>22, <1>23, <1>24, <1>25

\* B is A transposed, but for the column r.
TransposedBut(B, A, N, r) == \A x \in N : \A y \in N \ {r} : B[x][y] = A[y][x]

\* Row t in the place of r, and column r in the place of t, make the same
\* fringes.
LEMMA CrossFringe ==
  ASSUME NEW N \in SUBSET Int, NEW r \in N, NEW t \in N, r # t,
         NEW A, Square(A, N), NEW B, TransposedBut(B, A, N, r),
         NEW K \in SUBSET (N \ {r, t}), IsFiniteSet(K)
  PROVE  Fringe(B, K, t, B[r]) = Fringe(A, K, r, A[t])
<1> DEFINE I == K \cup {t}
           J == K \cup {r}
           X == Put(B, I, t, B[r])
           Y == Put(A, J, r, A[t])
           Z == [x \in I |-> [y \in I |-> X[y][x]]]
           s == [x \in I |-> IF x = t THEN r ELSE x]
<1>1. /\ I \in SUBSET Int /\ IsFiniteSet(I) /\ J \in SUBSET Int /\ IsFiniteSet(J)
      /\ r \notin K /\ t \notin K /\ r \notin I
  BY FS_AddElement
<1>2. \A y \in I : y \in N /\ X[t][y] = A[y][r] BY DEF Put, TransposedBut
<1>3. \A x \in K : \A y \in I : X[x][y] = A[y][x] BY DEF Put, TransposedBut
<1>4. \A y \in J : Y[r][y] = A[t][y] BY DEF Put
<1>5. \A x \in K : \A y \in J : Y[x][y] = A[x][y] BY DEF Put
<1>6. \A x, y \in N : A[x][y] \in Int BY DEF Square
<1>7. Square(X, I)
  <2> SUFFICES ASSUME NEW x \in I, NEW y \in I PROVE X[x][y] \in Int BY DEF Square
  <2>1. CASE x = t BY <1>2, <1>6, <2>1
  <2>2. CASE x \in K BY <1>2, <1>3, <1>6, <2>2
  <2> QED BY <2>1, <2>2
<1>8. Square(Y, J)
  <2> SUFFICES ASSUME NEW x \in J, NEW y \in J PROVE Y[x][y] \in Int BY DEF Square
  <2>0. y \in N /\ x \in N OBVIOUS
  <2>1. CASE x = r BY <1>4, <1>6, <2>0, <2>1
  <2>2. CASE x \in K BY <1>5, <1>6, <2>0, <2>2
  <2> QED BY <2>1, <2>2
<1>9. Renames(s, I, J)
  <2>1. \A x \in I : s[x] \in J OBVIOUS
  <2>2. \A z \in J : \E x \in I : s[x] = z
    <3> SUFFICES ASSUME NEW z \in J PROVE \E x \in I : s[x] = z OBVIOUS
    <3>1. CASE z = r BY <3>1
    <3>2. CASE z \in K BY <1>1, <3>2
    <3> QED BY <3>1, <3>2
  <2>3. \A x, y \in I : s[x] = s[y] => x = y BY <1>1
  <2> QED BY <2>1, <2>2, <2>3 DEF Renames
<1>10. \A x, y \in I : Z[x][y] = Y[s[x]][s[y]]
  <2> SUFFICES ASSUME NEW x \in I, NEW y \in I PROVE X[y][x] = Y[s[x]][s[y]] OBVIOUS
  <2>0. s[x] = (IF x = t THEN r ELSE x) /\ s[y] = (IF y = t THEN r ELSE y)
        /\ s[x] \in J /\ s[y] \in J
    OBVIOUS
  <2> HIDE DEF X, Y, s, Z
  <2>1. CASE x = t /\ y = t BY <1>2, <1>4, <2>0, <2>1
  <2>2. CASE x \in K /\ y = t BY <1>1, <1>2, <1>5, <2>0, <2>2
  <2>3. CASE x = t /\ y \in K BY <1>1, <1>3, <1>4, <2>0, <2>3
  <2>4. CASE x \in K /\ y \in K BY <1>1, <1>3, <1>5, <2>0, <2>4
  <2> QED BY <2>1, <2>2, <2>3, <2>4
<1>11. \A x, y \in I : Z[x][y] = X[y][x] OBVIOUS
<1>12. Fringe(B, K, t, B[r]) = Leibniz(X, I) /\ Fringe(A, K, r, A[t]) = Leibniz(Y, J)
  BY DEF Fringe
<1> HIDE DEF X, Y, Z, I, J, s
<1>13. Leibniz(Z, I) = Leibniz(Y, J)
  <2>1. I \in SUBSET Int /\ IsFiniteSet(I) BY <1>1
  <2>2. J \in SUBSET Int /\ IsFiniteSet(J) BY <1>1
  <2> QED BY <2>1, <2>2, <1>8, <1>9, <1>10, LeibnizRelabel
<1>14. Leibniz(Z, I) = Leibniz(X, I) BY <1>1, <1>7, <1>11, LeibnizTranspose
<1> QED BY <1>12, <1>13, <1>14

\* C is B with u times column r added to column t.
ColumnAdded(C, B, N, t, r, u) ==
  \A x, y \in N : C[x][y] = IF y = t THEN B[x][t] + u * B[x][r] ELSE B[x][y]

\* A row operation undone by the operation on columns leaves the sums of the
\* minors as they were.
LEMMA MinorSumClear ==
  ASSUME NEW N \in SUBSET Int, IsFiniteSet(N), NEW r \in N, NEW t \in N, r # t,
         NEW A, Square(A, N), NEW u \in Int, NEW B, RowAdded(B, A, N, r, t, (-1) * u),
         NEW C, ColumnAdded(C, B, N, t, r, u), NEW k \in Nat
  PROVE  Square(C, N) /\ MinorSum(C, N, k) = MinorSum(A, N, k)
<1> DEFINE Bt == [x \in N |-> [y \in N |-> B[y][x]]]
           Ct == [x \in N |-> [y \in N |-> C[y][x]]]
           L == N \ {r, t}
<1>0. (-1) * u \in Int OBVIOUS
<1>1. Square(B, N) BY <1>0, MinorSumRow
<1>2. Square(Bt, N) /\ Transposed(Bt, B, N) BY <1>1 DEF Square, Transposed
<1>3. Square(C, N)
  <2>1. \A x, y, z \in Int : x + y * z \in Int OBVIOUS
  <2>2. \A x, y \in N : B[x][y] \in Int BY <1>1 DEF Square
  <2>3. \A x, y \in N : C[x][y] \in Int BY <2>1, <2>2 DEF ColumnAdded
  <2> QED BY <2>3 DEF Square
<1>4. Transposed(Ct, C, N) BY DEF Transposed
<1>5. RowAdded(Ct, Bt, N, t, r, u)
  <2> SUFFICES ASSUME NEW x \in N, NEW y \in N
               PROVE  Ct[x][y] = IF x = t THEN Bt[t][y] + u * Bt[r][y] ELSE Bt[x][y]
    BY DEF RowAdded
  <2>1. Ct[x][y] = C[y][x] OBVIOUS
  <2>2. Bt[x][y] = B[y][x] /\ Bt[t][y] = B[y][t] /\ Bt[r][y] = B[y][r] OBVIOUS
  <2>3. C[y][x] = IF x = t THEN B[y][t] + u * B[y][r] ELSE B[y][x] BY DEF ColumnAdded
  <2> HIDE DEF Bt, Ct
  <2> QED BY <2>1, <2>2, <2>3
<1>6. TransposedBut(Bt, A, N, r) BY DEF TransposedBut, RowAdded
<1> HIDE DEF Bt, Ct
<1>7. CASE k = 0
  <2>1. MinorSum(C, N, 0) = 1 BY MinorSumZero
  <2>2. MinorSum(A, N, 0) = 1 BY MinorSumZero
  <2> QED BY <1>3, <1>7, <2>1, <2>2
<1>8. CASE k > 0
  <2> DEFINE l == k - 1
             f == [K \in kSubset(l, L) |-> Fringe(Bt, K, t, Bt[r])]
             g == [K \in kSubset(l, L) |-> Fringe(A, K, r, A[t])]
  <2>1. l \in Nat /\ l + 1 = k BY <1>8
  <2>2. N \ {t, r} = L OBVIOUS
  <2>3. f = g
    <3> SUFFICES ASSUME NEW K \in kSubset(l, L)
                 PROVE  Fringe(Bt, K, t, Bt[r]) = Fringe(A, K, r, A[t])
      OBVIOUS
    <3>1. K \in SUBSET (N \ {r, t}) BY DEF kSubset
    <3>2. IsFiniteSet(K)
      <4>1. K \in SUBSET N BY <3>1
      <4> QED BY <4>1, FS_Subset
    <3> QED BY <1>6, <3>1, <3>2, CrossFringe
  <2>4. FringeSum(Bt, L, t, Bt[r], l) = FringeSum(A, L, r, A[t], l)
    BY <2>3 DEF FringeSum
  <2> HIDE DEF f, g, l
  <2>5. FringeSum(A, N \ {r, t}, r, A[t], l) \in Int BY <1>0, <2>1, MinorSumRow
  <2>6. MinorSum(B, N, l + 1)
          = MinorSum(A, N, l + 1) + ((-1) * u) * FringeSum(A, N \ {r, t}, r, A[t], l)
    BY <1>0, <2>1, MinorSumRow
  <2>7. MinorSum(Ct, N, l + 1)
          = MinorSum(Bt, N, l + 1) + u * FringeSum(Bt, N \ {t, r}, t, Bt[r], l)
    BY <1>2, <1>5, <2>1, MinorSumRow
  <2>8. MinorSum(Bt, N, l + 1) = MinorSum(B, N, l + 1) BY <1>1, <1>2, MinorSumTranspose
  <2>9. MinorSum(Ct, N, l + 1) = MinorSum(C, N, l + 1) BY <1>3, <1>4, MinorSumTranspose
  <2>10. MinorSum(A, N, l + 1) \in Int BY MinorSumInt
  <2>11. \A x, y, z \in Int : (x + ((-1) * y) * z) + y * z = x
    <3> SUFFICES ASSUME NEW x \in Int, NEW y \in Int, NEW z \in Int
                 PROVE  (x + ((-1) * y) * z) + y * z = x
      OBVIOUS
    <3>1. ((-1) * y) * z = - (y * z) /\ y * z \in Int OBVIOUS
    <3> QED BY <3>1
  <2>12. MinorSum(Ct, N, l + 1)
           = MinorSum(Bt, N, l + 1) + u * FringeSum(A, N \ {r, t}, r, A[t], l)
    BY <2>2, <2>4, <2>7
  <2>13. MinorSum(C, N, l + 1)
           = (MinorSum(A, N, l + 1) + ((-1) * u) * FringeSum(A, N \ {r, t}, r, A[t], l))
               + u * FringeSum(A, N \ {r, t}, r, A[t], l)
    BY <2>6, <2>8, <2>9, <2>12
  <2> HIDE DEF L
  <2>14. MinorSum(C, N, l + 1) = MinorSum(A, N, l + 1) BY <2>5, <2>10, <2>11, <2>13
  <2> QED BY <1>3, <2>1, <2>14
<1> QED BY <1>7, <1>8

-----------------------------------------------------------------------------
(* The characteristic polynomials of the leading blocks *)

\* There are no minors of more rows than there are, nor of fewer than none.
LEMMA KSubsetsOutside ==
  ASSUME NEW n \in Nat, NEW k \in Int, k < 0 \/ k > n
  PROVE  kSubset(k, 0 .. n - 1) = {}
<1> DEFINE N == 0 .. n - 1
<1>1. N \in SUBSET Int /\ IsFiniteSet(N) /\ Cardinality(N) = n
  <2>1. Cardinality(N) = n BY FS_Interval
  <2>2. IsFiniteSet(N) BY UptoFinite
  <2> QED BY <2>1, <2>2
<1> HIDE DEF N
<1>2. CASE k > n
  <2>1. kSubset(k, N) = {} BY <1>1, <1>2, KSubsetNone
  <2> QED BY <2>1 DEF N
<1>3. CASE k < 0
  <2>1. \A K \in kSubset(k, N) : IsFiniteSet(K) /\ Cardinality(K) = k BY <1>1, KSubsets
  <2>2. \A K \in kSubset(k, N) : Cardinality(K) \in Nat BY <2>1, FS_CardinalityType
  <2>3. kSubset(k, N) = {} BY <1>3, <2>1, <2>2
  <2> QED BY <2>3 DEF N
<1> QED BY <1>2, <1>3

\* The coefficients of too high and too low a degree are zero.
LEMMA CharCoeffOutside ==
  ASSUME NEW n \in Nat, NEW A, NEW d \in Int, d < 0 \/ d > n
  PROVE  CharCoeff(A, n, d) = 0
<1> DEFINE k == n - d
           f == [K \in kSubset(k, 0 .. n - 1) |-> Leibniz(A, K)]
<1>1. k \in Int /\ (k < 0 \/ k > n) OBVIOUS
<1> HIDE DEF k
<1>2. kSubset(k, 0 .. n - 1) = {} BY <1>1, KSubsetsOutside
<1>3. MinorSum(A, 0 .. n - 1, k) = SumFunctionOnSet(f, {}) BY <1>2 DEF MinorSum
<1> HIDE DEF f
<1>4. MinorSum(A, 0 .. n - 1, k) = 0 BY <1>3, SumEmpty
<1>5. Alternate(k) \in Int BY DEF Alternate
<1>6. \A u \in Int : u * 0 = 0 OBVIOUS
<1>7. CharCoeff(A, n, d) = Alternate(k) * MinorSum(A, 0 .. n - 1, k) BY DEF CharCoeff, k
<1> QED BY <1>4, <1>5, <1>6, <1>7

\* The leading one is 1.
LEMMA CharCoeffTop ==
  ASSUME NEW n \in Nat, NEW A PROVE CharCoeff(A, n, n) = 1
<1> DEFINE U == 0 .. n - 1
<1>1. U \in SUBSET Int /\ IsFiniteSet(U) BY UptoFinite
<1>2. n - n = 0 OBVIOUS
<1>3. Alternate(0) = 1 BY DEF Alternate
<1> HIDE DEF U
<1>4. MinorSum(A, U, 0) = 1 BY <1>1, MinorSumZero
<1> QED BY <1>2, <1>3, <1>4 DEF CharCoeff, U

\* What row a contributes to the polynomials from column e: the fringes of
\* the block before it.
Above(A, e, a, d) == Alternate(a - d) * FringeSum(A, 0 .. a - 1, e, A[a], a - d)

\* The contribution is an integer, and zero for a degree above a.
LEMMA AboveType ==
  ASSUME NEW e \in Nat, NEW A, Square(A, 0 .. e), NEW a \in 0 .. e, NEW d \in Nat
  PROVE  /\ FringeSum(A, 0 .. a - 1, e, A[a], a - d) \in Int
         /\ Above(A, e, a, d) \in Int
         /\ d > a => Above(A, e, a, d) = 0
<1> DEFINE N == 0 .. a - 1
           k == a - d
           f == [K \in kSubset(k, N) |-> Fringe(A, K, e, A[a])]
<1>1. N \in SUBSET Int /\ IsFiniteSet(N) /\ e \in Int /\ a \in Nat /\ k \in Int
  BY UptoFinite
<1>2. N \cup {e} \subseteq 0 .. e OBVIOUS
<1>3. Fringed(A, N, e) /\ \A y \in N \cup {e} : A[a][y] \in Int
  <2>1. \A x, y \in 0 .. e : A[x][y] \in Int BY DEF Square
  <2> HIDE DEF N
  <2> QED BY <1>2, <2>1 DEF Fringed
<1>4. FringeSum(A, N, e, A[a], k) \in Int
  <2> HIDE DEF N, k
  <2> QED BY <1>1, <1>3, FringeSumInt
<1>5. Alternate(k) \in Int BY DEF Alternate
<1>6. \A u, v \in Int : u * v \in Int OBVIOUS
<1>7. Above(A, e, a, d) = Alternate(k) * FringeSum(A, N, e, A[a], k) BY DEF Above
<1>8. ASSUME d > a PROVE FringeSum(A, N, e, A[a], k) = 0
  <2>1. k < 0 BY <1>8
  <2> HIDE DEF k
  <2>2. kSubset(k, N) = {} BY <1>1, <2>1, KSubsetsOutside
  <2>3. FringeSum(A, N, e, A[a], k) = SumFunctionOnSet(f, {}) BY <2>2 DEF FringeSum
  <2> HIDE DEF f, N
  <2> QED BY <2>3, SumEmpty
<1>9. \A u \in Int : u * 0 = 0 OBVIOUS
<1>10. d > a => Above(A, e, a, d) = 0 BY <1>5, <1>7, <1>8, <1>9
<1> HIDE DEF N, k
<1>11. Above(A, e, a, d) \in Int BY <1>4, <1>5, <1>6, <1>7
<1> QED BY <1>4, <1>10, <1>11 DEF N, k

\* No entry of the rows 0 to e is below the subdiagonal.
Hessenberg(A, e) == \A x, y \in 0 .. e : x > y + 1 => A[x][y] = 0

\* The law of the fringe for a size j that is not zero.
LEMMA FringeSumAt ==
  ASSUME NEW N \in SUBSET Int, IsFiniteSet(N), NEW s \in Int, s \notin N,
         NEW A, Fringed(A, N, s), NEW v, IntOn(v, N \cup {s}),
         NEW k \in Nat, NEW g, FringeSumTerms(g, A, N, s, v, k), NEW j, j = k + 1
  PROVE  FringeSum(A, N, s, v, j) = Expanded(v[s], MinorSum(A, N, j), SumFunctionOnSet(g, N))
BY FringeSumLaw

\* A row of such a matrix adds its entry in column e to what the row before
\* it contributes.
LEMMA AboveLaw ==
  ASSUME NEW e \in Nat, NEW A, Square(A, 0 .. e), Hessenberg(A, e),
         NEW a \in 0 .. e, NEW d \in Nat
  PROVE  Above(A, e, a, d)
           = A[a][e] * CharCoeff(A, a, d)
               + (IF a = 0 THEN 0 ELSE A[a][a - 1] * Above(A, e, a - 1, d))
<1>0. a \in Nat /\ e \in 0 .. e /\ a <= e OBVIOUS
<1>1. \A x, y \in 0 .. e : A[x][y] \in Int BY DEF Square
<1>2. A[a][e] \in Int BY <1>0, <1>1
<1>3. a > 0 => A[a][a - 1] \in Int /\ a - 1 \in 0 .. e
  <2> SUFFICES ASSUME a > 0 PROVE A[a][a - 1] \in Int /\ a - 1 \in 0 .. e OBVIOUS
  <2>1. a - 1 \in 0 .. e OBVIOUS
  <2> QED BY <1>1, <2>1
<1>4. \A u \in Int : u * 0 = 0 /\ u * 1 = u /\ u + 0 = u OBVIOUS
<1>5. a > 0 /\ d > a - 1 => Above(A, e, a - 1, d) = 0
  <2> SUFFICES ASSUME a > 0, d > a - 1 PROVE Above(A, e, a - 1, d) = 0 OBVIOUS
  <2>1. a - 1 \in 0 .. e BY <1>3
  <2> QED BY <2>1, AboveType
<1>6. CASE a < d
  <2>1. Above(A, e, a, d) = 0 BY <1>6, AboveType
  <2>2. CharCoeff(A, a, d) = 0 BY <1>0, <1>6, CharCoeffOutside
  <2>3. a > 0 => Above(A, e, a - 1, d) = 0 BY <1>5, <1>6
  <2> QED BY <1>0, <1>2, <1>3, <1>4, <2>1, <2>2, <2>3
<1>7. CASE a = d
  <2>1. a - d = 0 /\ Alternate(0) = 1 BY <1>7 DEF Alternate
  <2>2. FringeSum(A, 0 .. a - 1, e, A[a], 0) = A[a][e]
    <3> DEFINE N == 0 .. a - 1
    <3>1. N \in SUBSET Int /\ IsFiniteSet(N) /\ e \in Int BY <1>0, UptoFinite
    <3> HIDE DEF N
    <3>2. FringeSum(A, N, e, A[a], 0) = A[a][e] BY <1>2, <3>1, FringeSumZero
    <3> QED BY <3>2 DEF N
  <2>3. \A u \in Int : 1 * u = u OBVIOUS
  <2>4. Above(A, e, a, d) = A[a][e] BY <1>2, <2>1, <2>2, <2>3 DEF Above
  <2>5. CharCoeff(A, a, d) = 1 BY <1>0, <1>7, CharCoeffTop
  <2>6. a > 0 => Above(A, e, a - 1, d) = 0 BY <1>5, <1>7
  <2> QED BY <1>0, <1>2, <1>3, <1>4, <2>4, <2>5, <2>6
<1>8. CASE a > d
  <2> DEFINE N == 0 .. a - 1
             L == 0 .. (a - 1) - 1
             k == (a - 1) - d
             g == [w \in N |-> A[a][w] * FringeSum(A, N \ {w}, e, A[w], k)]
             j == k + 1
             E == MinorSum(A, N, j)
             T == FringeSum(A, L, e, A[a - 1], k)
  <2>1. a > 0 /\ a - 1 \in N /\ a - 1 \in 0 .. e /\ a \in 0 .. e BY <1>8
  <2>2. k + 1 = a - d BY <1>8
  <2>24. k \in Nat /\ k \in Int BY <1>8
  <2>3. N \in SUBSET Int /\ IsFiniteSet(N) /\ e \in Int /\ e \notin N BY <1>0, UptoFinite
  <2>4. N \cup {e} \subseteq 0 .. e /\ a - 1 \in Nat BY <1>0, <2>1
  <2>5. N \ {a - 1} = L BY <1>0
  <2>6. Fringed(A, N, e) /\ IntOn(A[a], N \cup {e}) /\ Square(A, N)
    <3> HIDE DEF N
    <3> QED BY <1>1, <2>1, <2>4 DEF Fringed, IntOn, Square
  <2>7. ASSUME NEW w \in N PROVE FringeSum(A, N \ {w}, e, A[w], k) \in Int
    <3>1. N \ {w} \in SUBSET Int /\ IsFiniteSet(N \ {w}) BY <2>3, FS_Subset
    <3>2. Fringed(A, N \ {w}, e) BY <2>6 DEF Fringed
    <3>3. \A y \in (N \ {w}) \cup {e} : A[w][y] \in Int BY <2>6 DEF Fringed
    <3> HIDE DEF N, k
    <3> QED BY <2>3, <3>1, <3>2, <3>3, FringeSumInt
  <2> DEFINE v == A[a]
  <2>8. FringeSumTerms(g, A, N, e, v, k) BY DEF FringeSumTerms
  <2>9. ASSUME NEW w \in N \ {a - 1} PROVE g[w] = 0
    <3>1. a > w + 1 /\ w \in 0 .. e BY <1>0
    <3>2. A[a][w] = 0 BY <3>1, <2>1 DEF Hessenberg
    <3>3. \A u \in Int : 0 * u = 0 OBVIOUS
    <3>4. g[w] = A[a][w] * FringeSum(A, N \ {w}, e, A[w], k) OBVIOUS
    <3> HIDE DEF g, k, N
    <3> QED BY <2>7, <3>2, <3>3, <3>4
  <2>10. g[a - 1] = A[a][a - 1] * T
    <3>1. g[a - 1] = A[a][a - 1] * FringeSum(A, N \ {a - 1}, e, A[a - 1], k) BY <2>1
    <3> HIDE DEF g, N, L, k
    <3> QED BY <2>5, <3>1
  <2>11. T \in Int
    <3>1. FringeSum(A, N \ {a - 1}, e, A[a - 1], k) \in Int BY <2>1, <2>7
    <3> HIDE DEF N, L, k
    <3> QED BY <2>5, <3>1
  <2>12. Above(A, e, a, d) = Alternate(a - d) * FringeSum(A, N, e, A[a], a - d)
    BY DEF Above
  <2>13. Above(A, e, a - 1, d) = Alternate(k) * T BY DEF Above
  <2>14. CharCoeff(A, a, d) = Alternate(a - d) * MinorSum(A, N, a - d) BY DEF CharCoeff
  <2> HIDE DEF g, N, L, k, E, T
  <2>26. N \in SUBSET Int /\ IsFiniteSet(N) BY <2>3
  <2>27. e \in Int /\ e \notin N BY <2>3
  <2>28. Fringed(A, N, e) BY <2>6
  <2>29. IntOn(v, N \cup {e}) BY <2>6
  <2> HIDE DEF v
  <2>15. \A w \in N : g[w] \in Int
    BY <2>8, <2>24, <2>26, <2>27, <2>28, <2>29, FringeSumLaw
  <2>31. j = k + 1 OBVIOUS
  <2> HIDE DEF j
  <2>30. FringeSum(A, N, e, v, j)
           = Expanded(v[e], MinorSum(A, N, j), SumFunctionOnSet(g, N))
    BY <2>24, <2>8, <2>26, <2>27, <2>28, <2>29, <2>31, FringeSumAt
  <2>16. SumFunctionOnSet(g, N) = g[a - 1] BY <2>1, <2>3, <2>9, <2>15, SumOnly
  <2>17. E \in Int BY <2>3, <2>6, MinorSumInt DEF E
  <2>18. Alternate(k + 1) = (-1) * Alternate(k) /\ Alternate(k) \in Int
    BY <2>24, AlternateType
  <2> DEFINE Law(x, y, z, t, u) ==
               ((-1) * u) * (x * y - z * t) = x * (((-1) * u) * y) + z * (u * t)
  <2>19. \A x, y, z, t, u \in Int : Law(x, y, z, t, u)
    <3> SUFFICES ASSUME NEW x \in Int, NEW y \in Int, NEW z \in Int, NEW t \in Int,
                        NEW u \in Int
                 PROVE  Law(x, y, z, t, u)
      OBVIOUS
    <3> DEFINE o == (-1) * u
               p == x * y
               r == z * t
    <3>1. o \in Int /\ p \in Int /\ r \in Int OBVIOUS
    <3>2. \A a0, b, c \in Int : a0 * (b - c) = a0 * b + ((-1) * a0) * c
      <4> SUFFICES ASSUME NEW a0 \in Int, NEW b \in Int, NEW c \in Int
                   PROVE  a0 * (b - c) = a0 * b + ((-1) * a0) * c
        OBVIOUS
      <4>1. a0 * (b - c) = a0 * b - a0 * c OBVIOUS
      <4>2. ((-1) * a0) * c = - (a0 * c) OBVIOUS
      <4> QED BY <4>1, <4>2
    <3>3. (-1) * o = u OBVIOUS
    <3>4. \A a0, b, c \in Int : a0 * (b * c) = b * (a0 * c) OBVIOUS
    <3>5. o * p = x * (o * y) BY <3>1, <3>4
    <3>6. u * r = z * (u * t) BY <3>4
    <3> HIDE DEF o
    <3>7. o * (p - r) = o * p + u * r BY <3>1, <3>2, <3>3
    <3> QED BY <3>5, <3>6, <3>7 DEF o
  <2>20. Above(A, e, a, d)
           = ((-1) * Alternate(k)) * (A[a][e] * E - A[a][a - 1] * T)
    BY <2>2, <2>10, <2>12, <2>16, <2>18, <2>30 DEF Expanded, E, v, j
  <2>21. CharCoeff(A, a, d) = ((-1) * Alternate(k)) * E BY <2>2, <2>14, <2>18 DEF E, j
  <2>22. A[a][a - 1] \in Int BY <1>3, <2>1
  <2> HIDE DEF Law
  <2>25. Law(A[a][e], E, A[a][a - 1], T, Alternate(k))
    BY <1>2, <2>11, <2>17, <2>18, <2>19, <2>22
  <2>23. Above(A, e, a, d) = A[a][e] * CharCoeff(A, a, d) + A[a][a - 1] * Above(A, e, a - 1, d)
    BY <2>13, <2>20, <2>21, <2>25 DEF Law
  <2> QED BY <2>1, <2>23
<1> QED BY <1>0, <1>6, <1>7, <1>8

\* One more row and column: the polynomial is multiplied by x and loses what
\* the new row contributes.
LEMMA CharCoeffNext ==
  ASSUME NEW e \in Nat, NEW A, Square(A, 0 .. e), NEW d \in Nat
  PROVE  CharCoeff(A, e + 1, d) = CharCoeff(A, e, d - 1) - Above(A, e, e, d)
<1>1. e \in 0 .. e /\ e + 1 \in Nat /\ d - 1 \in Int OBVIOUS
<1>2. CASE d > e
  <2>1. Above(A, e, e, d) = 0 BY <1>1, <1>2, AboveType
  <2>2. CASE d > e + 1
    <3>1. CharCoeff(A, e + 1, d) = 0 BY <1>1, <2>2, CharCoeffOutside
    <3>2. d - 1 > e BY <2>2
    <3>3. CharCoeff(A, e, d - 1) = 0 BY <1>1, <3>2, CharCoeffOutside
    <3> QED BY <2>1, <3>1, <3>3
  <2>3. CASE d = e + 1
    <3>1. CharCoeff(A, e + 1, e + 1) = 1 BY <1>1, CharCoeffTop
    <3>2. CharCoeff(A, e, e) = 1 BY CharCoeffTop
    <3>3. d - 1 = e BY <2>3
    <3> QED BY <2>1, <2>3, <3>1, <3>2, <3>3
  <2> QED BY <1>2, <2>2, <2>3
<1>3. CASE d <= e
  <2> DEFINE N == 0 .. e - 1
             k == e - d
             j == k + 1
             E == MinorSum(A, N, j)
             T == FringeSum(A, N, e, A[e], k)
  <2>1. k \in Nat /\ k \in Int BY <1>3
  <2>2. N \in SUBSET Int /\ IsFiniteSet(N) BY UptoFinite
  <2>3. e \in Int /\ e \notin N OBVIOUS
  <2>4. 0 .. e = N \cup {e} /\ 0 .. (e + 1) - 1 = N \cup {e} OBVIOUS
  <2>5. Square(A, N \cup {e}) BY <2>4
  <2>6. CharCoeff(A, e + 1, d) = Alternate((e + 1) - d) * MinorSum(A, 0 .. (e + 1) - 1, (e + 1) - d)
    BY DEF CharCoeff
  <2>7. CharCoeff(A, e, d - 1) = Alternate(e - (d - 1)) * MinorSum(A, 0 .. e - 1, e - (d - 1))
    BY DEF CharCoeff
  <2>8. Above(A, e, e, d) = Alternate(k) * T BY DEF Above
  <2>9. (e + 1) - d = j /\ e - (d - 1) = j OBVIOUS
  <2>10. CharCoeff(A, e, d - 1) = Alternate(j) * E BY <2>7, <2>9
  <2> HIDE DEF N, k
  <2>11. T \in Int BY <2>1, <2>2, <2>3, <2>5, MinorSumLaw
  <2>12. E \in Int BY <2>1, <2>2, <2>3, <2>5, MinorSumLaw
  <2>13. MinorSum(A, N \cup {e}, j) = E + T BY <2>1, <2>2, <2>3, <2>5, MinorSumLaw
  <2>14. Alternate(j) = (-1) * Alternate(k) /\ Alternate(k) \in Int BY <2>1, AlternateType
  <2> HIDE DEF j, E, T
  <2>15. CharCoeff(A, e + 1, d) = Alternate(j) * (E + T) BY <2>4, <2>6, <2>9, <2>13
  <2>16. \A x, y, z \in Int : ((-1) * x) * (y + z) = ((-1) * x) * y - x * z
    <3> SUFFICES ASSUME NEW x \in Int, NEW y \in Int, NEW z \in Int
                 PROVE  ((-1) * x) * (y + z) = ((-1) * x) * y - x * z
      OBVIOUS
    <3>1. ((-1) * x) * (y + z) = - (x * (y + z)) OBVIOUS
    <3>2. ((-1) * x) * y = - (x * y) OBVIOUS
    <3>3. x * (y + z) = x * y + x * z OBVIOUS
    <3> QED BY <3>1, <3>2, <3>3
  <2> QED BY <2>8, <2>10, <2>11, <2>12, <2>14, <2>15, <2>16
<1> QED BY <1>2, <1>3

\* t[q] is the product of the entries of the subdiagonal from row e up to e-q.
Subdiagonals(t, A, e) ==
  /\ \A q \in 0 .. e - 1 : t[q] \in Int
  /\ \A q \in 0 .. e - 1 :
       t[q] = IF q = 0 THEN A[e][e - 1] ELSE t[q - 1] * A[e - q][(e - q) - 1]

\* h collects what the rows before e contribute, each through the subdiagonal.
Contributions(h, t, A, e, d) ==
  \A q \in 0 .. e - 1 :
    h[q] = (t[q] * A[(e - q) - 1][e]) * CharCoeff(A, (e - q) - 1, d)

\* What row e contributes, with the law of the rows used for all of them.
LEMMA AboveUnrolled ==
  ASSUME NEW e \in Nat, NEW A, Square(A, 0 .. e), Hessenberg(A, e), NEW d \in Nat,
         NEW t, Subdiagonals(t, A, e), NEW h, Contributions(h, t, A, e, d)
  PROVE  /\ \A q \in 0 .. e - 1 : h[q] \in Int
         /\ Above(A, e, e, d) = A[e][e] * CharCoeff(A, e, d) + SumFunctionOnSet(h, 0 .. e - 1)
<1> DEFINE first == A[e][e] * CharCoeff(A, e, d)
           rest(n) == IF n < e THEN t[n] * Above(A, e, (e - n) - 1, d) ELSE 0
           P == {n \in 0 .. e :
                   Above(A, e, e, d) = (first + SumFunctionOnSet(h, 0 .. n - 1)) + rest(n)}
<1>1. \A u, v \in Int : u * v \in Int OBVIOUS
<1>2. \A x, y \in 0 .. e : A[x][y] \in Int BY DEF Square
<1>3. ASSUME NEW a \in 0 .. e PROVE CharCoeff(A, a, d) \in Int
  <2>1. 0 .. a - 1 \subseteq 0 .. e /\ a \in Nat /\ d \in Int OBVIOUS
  <2>2. Square(A, 0 .. a - 1) BY <1>2, <2>1 DEF Square
  <2> QED BY <2>1, <2>2, CharCoeffInt
<1>4. first \in Int
  <2>1. e \in 0 .. e OBVIOUS
  <2> QED BY <1>1, <1>2, <1>3, <2>1
<1>5. \A q \in 0 .. e - 1 : t[q] \in Int /\ (e - q) - 1 \in 0 .. e BY DEF Subdiagonals
<1>6. ASSUME NEW q \in 0 .. e - 1 PROVE h[q] \in Int
  <2> DEFINE a == (e - q) - 1
  <2>1. a \in 0 .. e /\ e \in 0 .. e BY <1>5
  <2>2. t[q] * A[a][e] \in Int BY <1>1, <1>2, <1>5, <2>1
  <2>3. CharCoeff(A, a, d) \in Int BY <1>3, <2>1
  <2>4. h[q] = (t[q] * A[a][e]) * CharCoeff(A, a, d) BY DEF Contributions
  <2> HIDE DEF a
  <2> QED BY <1>1, <2>2, <2>3, <2>4
<1>7. \A a \in 0 .. e : Above(A, e, a, d) \in Int BY AboveType
<1>8. \A u \in Int : u + 0 = u OBVIOUS
<1>9. 0 \in P
  <2>0. e \in 0 .. e /\ 0 \in 0 .. e /\ 0 .. 0 - 1 = {} OBVIOUS
  <2>1. SumFunctionOnSet(h, 0 .. 0 - 1) = 0 BY <2>0, SumEmpty
  <2>2. Above(A, e, e, d)
          = first + (IF e = 0 THEN 0 ELSE A[e][e - 1] * Above(A, e, e - 1, d))
    BY <2>0, AboveLaw
  <2>3. e > 0 => t[0] = A[e][e - 1] BY DEF Subdiagonals
  <2>4. e > 0 => (e - 0) - 1 = e - 1 /\ 0 < e OBVIOUS
  <2>5. rest(0) = IF e = 0 THEN 0 ELSE A[e][e - 1] * Above(A, e, e - 1, d)
    BY <2>3, <2>4
  <2>6. first + SumFunctionOnSet(h, 0 .. 0 - 1) = first BY <1>4, <1>8, <2>1
  <2> HIDE DEF first, rest
  <2> QED BY <2>0, <2>2, <2>5, <2>6
<1>10. ASSUME NEW n \in 0 .. e - 1, n \in P PROVE n + 1 \in P
  <2> DEFINE a == (e - n) - 1
             S == SumFunctionOnSet(h, 0 .. n - 1)
  <2>1. a \in 0 .. e /\ n < e /\ n \in Nat /\ e \in 0 .. e /\ n + 1 \in 0 .. e BY <1>5
  <2>2. Above(A, e, e, d) = (first + S) + t[n] * Above(A, e, a, d) BY <1>10, <2>1
  <2>3. Above(A, e, a, d)
          = A[a][e] * CharCoeff(A, a, d)
              + (IF a = 0 THEN 0 ELSE A[a][a - 1] * Above(A, e, a - 1, d))
    BY <2>1, AboveLaw
  <2>4. h[n] = (t[n] * A[a][e]) * CharCoeff(A, a, d) BY DEF Contributions
  <2>5. SumFunctionOnSet(h, 0 .. (n + 1) - 1) = h[n] + S
    <3>1. \A x \in 0 .. n : h[x] \in Int BY <1>6, <2>1
    <3>2. (n + 1) - 1 = n BY <2>1
    <3>3. SumFunctionOnSet(h, 0 .. n) = h[n] + S BY <2>1, <3>1, SumLast
    <3> QED BY <3>2, <3>3
  <2>6. S \in Int
    <3>1. \A x \in 0 .. n - 1 : h[x] \in Int BY <1>6, <2>1
    <3>2. IsFiniteSet(0 .. n - 1) BY <2>1, UptoFinite
    <3> QED BY <3>1, <3>2, SumInt
  <2>7. /\ t[n] \in Int /\ A[a][e] \in Int /\ CharCoeff(A, a, d) \in Int
        /\ h[n] \in Int
    BY <1>2, <1>3, <1>5, <1>6, <2>1
  <2>8. CASE a = 0
    <3>1. ~ (n + 1 < e) BY <2>8
    <3>2. rest(n + 1) = 0 BY <3>1
    <3> HIDE DEF a, S, first, rest
    <3>3. A[a][e] * CharCoeff(A, a, d) \in Int BY <1>1, <2>7
    <3>4. Above(A, e, a, d) = A[a][e] * CharCoeff(A, a, d) BY <1>8, <2>3, <2>8, <3>3
    <3>5. t[n] * (A[a][e] * CharCoeff(A, a, d)) = h[n]
      <4>1. \A u, v, w \in Int : u * (v * w) = (u * v) * w OBVIOUS
      <4> QED BY <2>4, <2>7, <4>1
    <3>6. Above(A, e, e, d) = (first + S) + h[n] BY <2>2, <3>4, <3>5
    <3>7. \A u, v, w \in Int : (u + v) + w = (u + (w + v)) + 0 OBVIOUS
    <3>8. Above(A, e, e, d) = (first + (h[n] + S)) + 0 BY <1>4, <2>6, <2>7, <3>6, <3>7
    <3> QED BY <2>1, <2>5, <3>2, <3>8
  <2>9. CASE a # 0
    <3> DEFINE b == (e - (n + 1)) - 1
               up == Above(A, e, b, d)
               s == A[a][a - 1]
    <3>1. b = a - 1 /\ b \in 0 .. e /\ n + 1 < e /\ n + 1 \in 0 .. e - 1 /\ e - (n + 1) = a
      BY <2>1, <2>9
    <3>2. t[n + 1] = t[n] * s
      <4>1. n + 1 # 0 /\ (n + 1) - 1 = n BY <2>1
      <4>2. t[n + 1] = t[(n + 1) - 1] * A[e - (n + 1)][(e - (n + 1)) - 1]
        BY <3>1, <4>1 DEF Subdiagonals
      <4> HIDE DEF a
      <4> QED BY <3>1, <4>1, <4>2
    <3>3. rest(n + 1) = t[n + 1] * up BY <3>1
    <3>4. up \in Int BY <1>7, <3>1
    <3>5. s \in Int BY <1>2, <2>1, <3>1
    <3> HIDE DEF a, S, first, rest
    <3>6. Above(A, e, a, d) = A[a][e] * CharCoeff(A, a, d) + s * up BY <2>3, <2>9, <3>1
    <3> HIDE DEF b, up, s
    <3>7. \A u, v, w, x, y \in Int : u * (v * w + x * y) = (u * v) * w + (u * x) * y
      <4> SUFFICES ASSUME NEW u \in Int, NEW v \in Int, NEW w \in Int, NEW x \in Int,
                          NEW y \in Int
                   PROVE  u * (v * w + x * y) = (u * v) * w + (u * x) * y
        OBVIOUS
      <4>1. \A i, j \in Int : u * (i + j) = u * i + u * j OBVIOUS
      <4>2. \A i, j \in Int : u * (i * j) = (u * i) * j OBVIOUS
      <4>3. v * w \in Int /\ x * y \in Int OBVIOUS
      <4> QED BY <4>1, <4>2, <4>3
    <3>8. t[n] * Above(A, e, a, d) = h[n] + t[n + 1] * up
      <4> DEFINE Law(u, v, w, x, y) == u * (v * w + x * y) = (u * v) * w + (u * x) * y
      <4>1. \A u, v, w, x, y \in Int : Law(u, v, w, x, y) BY <3>7
      <4> HIDE DEF Law
      <4>2. Law(t[n], A[a][e], CharCoeff(A, a, d), s, up) BY <2>7, <3>4, <3>5, <4>1
      <4> USE DEF Law
      <4> QED BY <2>4, <3>2, <3>6, <4>2
    <3>9. t[n + 1] * up \in Int BY <1>1, <2>7, <3>2, <3>4, <3>5
    <3>10. Above(A, e, e, d) = (first + (h[n] + S)) + t[n + 1] * up
      BY <1>4, <2>2, <2>6, <2>7, <3>8, <3>9
    <3> QED BY <2>1, <2>5, <3>3, <3>10
  <2> QED BY <2>8, <2>9
<1>11. e \in P
  <2>1. e \in Nat /\ e \in 0 .. e OBVIOUS
  <2> HIDE DEF P
  <2>2. \A n \in 0 .. e : n \in P BY <1>9, <1>10, UptoInduction
  <2> QED BY <2>1, <2>2
<1>12. rest(e) = 0 OBVIOUS
<1>13. Above(A, e, e, d) = (first + SumFunctionOnSet(h, 0 .. e - 1)) + 0
  <2> HIDE DEF first, rest
  <2> QED BY <1>11, <1>12
<1>14. SumFunctionOnSet(h, 0 .. e - 1) \in Int
  <2>1. IsFiniteSet(0 .. e - 1) BY UptoFinite
  <2> QED BY <1>6, <2>1, SumInt
<1> HIDE DEF P, rest
<1> QED BY <1>4, <1>6, <1>13, <1>14

\* The recurrence for the polynomials of the leading blocks.
LEMMA HessenbergRecurrence ==
  ASSUME NEW e \in Nat, NEW A, Square(A, 0 .. e), Hessenberg(A, e), NEW d \in Nat,
         NEW t, Subdiagonals(t, A, e), NEW h, Contributions(h, t, A, e, d)
  PROVE  /\ \A q \in 0 .. e - 1 : h[q] \in Int
         /\ CharCoeff(A, e + 1, d)
              = CharCoeff(A, e, d - 1)
                  - (A[e][e] * CharCoeff(A, e, d) + SumFunctionOnSet(h, 0 .. e - 1))
<1>1. \A q \in 0 .. e - 1 : h[q] \in Int BY AboveUnrolled
<1>2. Above(A, e, e, d) = A[e][e] * CharCoeff(A, e, d) + SumFunctionOnSet(h, 0 .. e - 1)
  BY AboveUnrolled
<1>3. CharCoeff(A, e + 1, d) = CharCoeff(A, e, d - 1) - Above(A, e, e, d) BY CharCoeffNext
<1> QED BY <1>1, <1>2, <1>3

-----------------------------------------------------------------------------
(* The reduction *)

\* Which values the control variables have together.
Control ==
  /\ C1 \in Matrix(M, M)
  /\ H \in Matrix(M, M)
  /\ m \in 0 .. M
  /\ row \in Upto(M)
  /\ pc \in {"pivot", "clear", "extend", "done"}
  /\ pc \in {"pivot", "clear"} => m \in 1 .. M - 2
  /\ pc = "clear" => row \in m + 1 .. M - 1
  /\ pc = "done" => m = M

\* The pivot of column m-1 is there, and the rows before `row' are cleared.
Reduced ==
  /\ HessenbergSoFar
  /\ pc = "clear" => /\ H[m][m - 1] # 0
                     /\ \A r \in m + 1 .. row - 1 : H[r][m - 1] = 0

\* The numbers of rows and of residues.
LEMMA Sizes == M \in Nat /\ M > 0 /\ Q \in Nat /\ Q > 0 /\ Q > 1
BY InputAssumption

\* A remainder modulo Q is a residue.
LEMMA ResidueType == \A v \in Int : v % Q \in Upto(Q)
<1> SUFFICES ASSUME NEW v \in Int PROVE v % Q \in Upto(Q) OBVIOUS
<1>1. v % Q \in 0 .. Q - 1 BY Sizes, ModType
<1> QED BY <1>1 DEF Upto

\* The table of inverses modulo Q.
LEMMA InverseIs ==
  ASSUME NEW v \in 1 .. Q - 1
  PROVE  /\ Inverse_mod_q(v) \in 1 .. Q - 1
         /\ (v * Inverse_mod_q(v)) % Q = 1
<1>1. \E w \in 1 .. Q - 1 : (v * w) % Q = 1 BY InputAssumption
<1>2. v # 0 BY Sizes
<1>3. Inverse_mod_q(v) = CHOOSE w \in 1 .. Q - 1 : (v * w) % Q = 1
  BY <1>2 DEF Inverse_mod_q
<1> QED BY <1>1, <1>3

\* The entries of a matrix.
LEMMA MatrixEntry ==
  ASSUME NEW A \in Matrix(M, M), NEW r \in Idx, NEW c \in Idx
  PROVE  A[r][c] \in Upto(Q) /\ A[r][c] \in Int
BY Sizes DEF Matrix, Idx, Upto

\* What is subtracted from the row, as a multiple of the pivot's.
Factor == (H[row][m - 1] * Inverse_mod_q(H[m][m - 1])) % Q

RowCleared ==
  [H EXCEPT ![row] = [c \in Idx |-> IF c < m - 1 THEN H[row][c]
                                    ELSE (H[row][c] - Factor * H[m][c]) % Q]]

\* The operation on rows and the one on columns, entry by entry.
LEMMA ClearedAt ==
  ASSUME Control, pc = "clear"
  PROVE  /\ Factor \in Int
         /\ \A r, c \in Idx :
              /\ RowCleared[r][c] \in Upto(Q)
              /\ RowCleared[r][c] = IF r # row \/ c < m - 1 THEN H[r][c]
                                    ELSE (H[row][c] - Factor * H[m][c]) % Q
              /\ Cleared[r][c] = IF c = m THEN (RowCleared[r][m] + Factor * RowCleared[r][row]) % Q
                                 ELSE RowCleared[r][c]
         /\ Cleared \in Matrix(M, M)
<1>1. m \in Idx /\ m - 1 \in Idx /\ row \in Idx /\ row # m /\ m \in Int
  BY Sizes DEF Control, Idx, Upto
<1>2. \A r, c \in Idx : H[r][c] \in Upto(Q) /\ H[r][c] \in Int BY MatrixEntry DEF Control
<1>3. H[m][m - 1] \in 1 .. Q - 1 \/ H[m][m - 1] = 0 BY <1>1, <1>2, Sizes DEF Upto
<1>4. Inverse_mod_q(H[m][m - 1]) \in Int BY <1>3, InverseIs DEF Inverse_mod_q
<1>5. \A u, v \in Int : u * v \in Int OBVIOUS
<1>6. Factor \in Upto(Q) /\ Factor \in Int
  <2>1. H[row][m - 1] * Inverse_mod_q(H[m][m - 1]) \in Int BY <1>1, <1>2, <1>4, <1>5
  <2>2. Factor \in Upto(Q) BY <2>1, ResidueType DEF Factor
  <2> QED BY <2>2, Sizes DEF Upto
<1> DEFINE A == RowCleared
           u == Factor
           line == [c \in Idx |-> IF c < m - 1 THEN H[row][c]
                                  ELSE (H[row][c] - u * H[m][c]) % Q]
<1>7. \A c \in Idx : (H[row][c] - u * H[m][c]) % Q \in Upto(Q)
  <2> SUFFICES ASSUME NEW c \in Idx PROVE (H[row][c] - u * H[m][c]) % Q \in Upto(Q)
    OBVIOUS
  <2>1. u * H[m][c] \in Int BY <1>1, <1>2, <1>5, <1>6
  <2> HIDE DEF u
  <2>2. H[row][c] - u * H[m][c] \in Int BY <1>1, <1>2, <2>1
  <2> QED BY <2>2, ResidueType
<1>8. H \in [Idx -> [Idx -> Upto(Q)]] BY DEF Control, Matrix, Idx
<1>9. A = [H EXCEPT ![row] = line] BY DEF RowCleared
<1> HIDE DEF A, u
<1>10. A \in [Idx -> [Idx -> Upto(Q)]]
  <2>1. line \in [Idx -> Upto(Q)] BY <1>1, <1>2, <1>7
  <2> HIDE DEF line
  <2> QED BY <1>1, <1>8, <1>9, <2>1
<1>11. \A r, c \in Idx : A[r][c] = IF r # row \/ c < m - 1 THEN H[r][c]
                                   ELSE (H[row][c] - u * H[m][c]) % Q
  <2> SUFFICES ASSUME NEW r \in Idx, NEW c \in Idx
               PROVE  A[r][c] = IF r # row \/ c < m - 1 THEN H[r][c]
                                ELSE (H[row][c] - u * H[m][c]) % Q
    OBVIOUS
  <2>1. A[r] = IF r = row THEN line ELSE H[r] BY <1>1, <1>8, <1>9
  <2> QED BY <2>1
<1>12. Cleared = [r \in Idx |-> [A[r] EXCEPT ![m] = (@ + u * A[r][row]) % Q]]
  BY DEF Cleared, A, u, RowCleared, Factor
<1>13. \A r, c \in Idx : A[r][c] \in Upto(Q) /\ A[r][c] \in Int
  BY <1>10, Sizes DEF Upto
<1>14. \A r \in Idx : (A[r][m] + u * A[r][row]) % Q \in Upto(Q)
  <2> SUFFICES ASSUME NEW r \in Idx PROVE (A[r][m] + u * A[r][row]) % Q \in Upto(Q)
    OBVIOUS
  <2>1. u * A[r][row] \in Int BY <1>1, <1>5, <1>6, <1>13 DEF u
  <2>2. A[r][m] + u * A[r][row] \in Int BY <1>1, <1>13, <2>1
  <2> QED BY <2>2, ResidueType
<1>15. ASSUME NEW r \in Idx, NEW c \in Idx
       PROVE  Cleared[r][c] = IF c = m THEN (A[r][m] + u * A[r][row]) % Q ELSE A[r][c]
  <2>1. A[r] \in [Idx -> Upto(Q)] BY <1>10
  <2> QED BY <1>1, <1>12, <2>1
<1>16. Cleared \in Matrix(M, M)
  <2>1. \A r \in Idx : [A[r] EXCEPT ![m] = (@ + u * A[r][row]) % Q] \in [Idx -> Upto(Q)]
    BY <1>1, <1>10, <1>14
  <2> QED BY <1>12, <2>1 DEF Matrix, Idx
<1> QED BY <1>6, <1>11, <1>13, <1>15, <1>16 DEF A, u

\* One exchange of rows and columns, entry by entry.
LEMMA SwappedAt ==
  ASSUME Control, pc = "pivot", NEW q \in Below
  PROVE  LET B == ColumnsSwapped(RowsSwapped(H, q), q)
         IN  /\ B \in Matrix(M, M)
             /\ \A r, c \in Idx :
                  B[r][c] = IF c < m - 1 THEN H[r][c]
                            ELSE H[Swap(q, m)[r]][Swap(q, m)[c]]
<1> DEFINE A == RowsSwapped(H, q)
           B == ColumnsSwapped(A, q)
           s == Swap(q, m)
<1>1. m \in Idx /\ m - 1 \in Idx /\ q \in Idx /\ m \in Int /\ q > m
  BY Sizes DEF Control, Idx, Upto, Below
<1>2. \A r, c \in Idx : H[r][c] \in Upto(Q) BY MatrixEntry DEF Control
<1>3. \A r \in Idx : r \in Int /\ s[r] \in Idx /\ s[r] = IF r = q THEN m ELSE IF r = m THEN q ELSE r
  BY <1>1, Sizes DEF Swap, Idx, Upto
<1>4. \A r, c \in Idx : A[r][c] = IF c < m - 1 THEN H[r][c] ELSE H[s[r]][c]
  BY <1>3 DEF RowsSwapped
<1>5. \A r, c \in Idx : B[r][c] = A[r][s[c]] BY <1>3 DEF ColumnsSwapped
<1>6. \A c \in Idx : s[c] < m - 1 <=> c < m - 1 BY <1>1, <1>3
<1>7. \A c \in Idx : c < m - 1 => s[c] = c BY <1>1, <1>3
<1>8. B = [r \in Idx |-> [c \in Idx |-> B[r][c]]] BY DEF ColumnsSwapped
<1> HIDE DEF A, B, s
<1>9. ASSUME NEW r \in Idx, NEW c \in Idx
      PROVE  B[r][c] = IF c < m - 1 THEN H[r][c] ELSE H[s[r]][s[c]]
  BY <1>3, <1>4, <1>5, <1>6, <1>7
<1>10. \A r, c \in Idx : B[r][c] \in Upto(Q) BY <1>2, <1>3, <1>9
<1>11. B \in Matrix(M, M)
  <2>1. [r \in Idx |-> [c \in Idx |-> B[r][c]]] \in [Idx -> [Idx -> Upto(Q)]] BY <1>10
  <2> QED BY <1>8, <2>1 DEF Matrix, Idx
<1> QED BY <1>9, <1>11 DEF A, B, s

\* A smallest row to exchange with exists.
LEMMA LeastBelow ==
  ASSUME Control, Below # {}
  PROVE  Min(Below) \in Below
<1>1. Below \in SUBSET Int BY Sizes DEF Below, Control
<1>3. \E x \in Below : \A y \in Below : x <= y
  <2> DEFINE P == {n \in Nat : \A x \in Below : x <= n => \E z \in Below : \A y \in Below : z <= y}
  <2>1. \A x \in Below : x \in Nat BY Sizes DEF Below, Control
  <2>2. 0 \in P BY <2>1
  <2>3. ASSUME NEW n \in Nat, n \in P PROVE n + 1 \in P
    <3>1. CASE \E y \in Below : y <= n BY <2>3, <3>1
    <3>2. CASE ~ \E y \in Below : y <= n
      <4> SUFFICES ASSUME NEW x \in Below, x <= n + 1
                   PROVE  \E z \in Below : \A y \in Below : z <= y
        OBVIOUS
      <4>1. \A y \in Below : y \in Nat /\ n < y BY <2>1, <3>2
      <4>2. \A y \in Below : x <= y BY <4>1
      <4> QED BY <4>2
    <3> QED BY <3>1, <3>2
  <2> HIDE DEF P
  <2>4. \A n \in Nat : n \in P BY <2>2, <2>3, NatSetInduction
  <2>5. PICK x \in Below : x \in Nat BY <2>1
  <2>6. x \in P /\ x <= x BY <2>4, <2>5
  <2> QED BY <2>6 DEF P
<1> QED BY <1>3 DEF Min

\* What follows a column holds again for the next.
LEMMA NextControl ==
  ASSUME m \in 1 .. M - 2, NextColumn
  PROVE  /\ m' \in 0 .. M
         /\ pc' \in {"pivot", "extend"}
         /\ pc' = "pivot" => m' \in 1 .. M - 2 /\ m' = m + 1
         /\ pc' = "extend" => m = M - 2
BY Sizes DEF NextColumn

\* The control starts as it should, also when there is nothing to reduce.
LEMMA ControlInit == Init => Control
<1> SUFFICES ASSUME Init PROVE Control OBVIOUS
<1>1. C1 \in Matrix(M, M) /\ H = C1 BY InputAssumption DEF Init
<1> QED BY <1>1, Sizes DEF Init, Control, Upto

\* Every step keeps the control variables together.
LEMMA ControlStep == Control /\ [Next]_vars => Control'
<1> SUFFICES ASSUME Control, [Next]_vars PROVE Control' OBVIOUS
<1>1. CASE Skip
  <2>1. m \in 1 .. M - 2 BY <1>1 DEF Control, Skip
  <2>2. NextColumn /\ C1' = C1 /\ H' = H /\ row' = row BY <1>1 DEF Skip
  <2> QED BY <2>1, <2>2, NextControl DEF Control
<1>2. CASE Pivot
  <2>1. m \in 1 .. M - 2 /\ pc = "pivot" /\ Below # {} BY <1>2 DEF Control, Pivot
  <2>2. H' \in Matrix(M, M)
    <3>1. Min(Below) \in Below BY <2>1, LeastBelow
    <3>2. ColumnsSwapped(RowsSwapped(H, Min(Below)), Min(Below)) \in Matrix(M, M)
      BY <2>1, <3>1, SwappedAt
    <3> QED BY <1>2, <3>2 DEF Pivot, Control
  <2>3. row' = m + 1 /\ pc' = "clear" /\ C1' = C1 /\ m' = m BY <1>2 DEF Pivot
  <2> QED BY <2>1, <2>2, <2>3, Sizes DEF Control, Upto
<1>3. CASE Clear
  <2>1. m \in 1 .. M - 2 /\ pc = "clear" /\ row \in m + 1 .. M - 1 BY <1>3 DEF Control, Clear
  <2>2. H' \in Matrix(M, M) /\ C1' = C1 BY <1>3, <2>1, ClearedAt DEF Clear
  <2>3. CASE row + 1 < M /\ row' = row + 1 /\ UNCHANGED <<m, pc>>
    BY <2>1, <2>2, <2>3, Sizes DEF Control, Upto
  <2>4. CASE row + 1 = M /\ row' = 0 /\ NextColumn
    <3>1. row' \in Upto(M) BY <2>4, Sizes DEF Upto
    <3> QED BY <2>1, <2>2, <2>4, <3>1, NextControl DEF Control
  <2> QED BY <1>3, <2>3, <2>4 DEF Clear
<1>4. CASE Extend BY <1>4, Sizes DEF Extend, Control
<1>5. CASE Decide BY <1>5, Sizes DEF Decide, Control
<1>6. CASE UNCHANGED vars BY <1>6 DEF vars, Control
<1> QED BY <1>1, <1>2, <1>3, <1>4, <1>5, <1>6 DEF Next

\* Nothing is cleared at the start, and a 2 by 2 matrix has nothing to clear.
LEMMA ReducedInit == Init => Reduced
<1> SUFFICES ASSUME Init PROVE Reduced OBVIOUS
<1>1. pc = "pivot" => m = 1 BY DEF Init
<1>2. pc = "extend" => M <= 2 BY Sizes DEF Init
<1>3. pc \in {"pivot", "extend"} BY DEF Init
<1>4. HessenbergSoFar BY <1>1, <1>2, <1>3, Sizes DEF HessenbergSoFar, Idx, Upto
<1> QED BY <1>3, <1>4 DEF Reduced

\* When a column is done, all columns up to it are.
LEMMA NextReduced ==
  ASSUME Control, m \in 1 .. M - 2, NextColumn, pc # "extend", pc # "done",
         \A r, c \in Idx : r > c + 1 /\ c < m => H'[r][c] = 0
  PROVE  Reduced'
<1>1. pc' # "clear" /\ pc' # "done" BY NextControl
<1>2. pc' = "extend" => m = M - 2 BY NextControl
<1>3. pc' = "pivot" => m' = m + 1 BY NextControl
<1>4. pc' \in {"pivot", "extend"} BY NextControl
<1>5. ASSUME NEW r \in Idx, NEW c \in Idx, r > c + 1,
             pc' \in {"extend", "done"} \/ c < m' - 1
      PROVE  H'[r][c] = 0
  <2>1. c < m BY <1>1, <1>2, <1>3, <1>4, <1>5, Sizes DEF Idx, Upto
  <2> QED BY <1>5, <2>1
<1> QED BY <1>1, <1>5 DEF Reduced, HessenbergSoFar

\* Every step keeps the cleared columns cleared and the pivot in place.
LEMMA ReducedStep == Control /\ Reduced /\ [Next]_vars => Reduced'
<1> SUFFICES ASSUME Control, Reduced, [Next]_vars PROVE Reduced' OBVIOUS
<1>0. /\ \A r, c \in Idx : r > c + 1 /\ c < m - 1 => H[r][c] = 0
      /\ \A r \in Idx : r \in Int
  BY DEF Reduced, HessenbergSoFar, Idx, Upto
<1>1. CASE Skip
  <2>1. m \in 1 .. M - 2 /\ pc = "pivot" /\ Below = {} /\ NextColumn /\ H' = H
    BY <1>1 DEF Control, Skip
  <2>2. \A r, c \in Idx : r > c + 1 /\ c < m => H'[r][c] = 0
    <3> SUFFICES ASSUME NEW r \in Idx, NEW c \in Idx, r > c + 1, c < m PROVE H[r][c] = 0
      BY <2>1
    <3>1. CASE c < m - 1 BY <1>0, <3>1
    <3>2. CASE c = m - 1
      <4>1. r \in m + 1 .. M - 1 BY <2>1, <3>2, Sizes DEF Idx, Upto
      <4> QED BY <2>1, <3>2, <4>1 DEF Below
    <3> QED BY <1>0, <2>1, <3>1, <3>2
  <2> QED BY <2>1, <2>2, NextReduced
<1>2. CASE Pivot
  <2>1. m \in 1 .. M - 2 /\ pc = "pivot" /\ Below # {} /\ row' = m + 1 /\ pc' = "clear" /\ m' = m
    BY <1>2 DEF Control, Pivot
  <2>2. \A r \in m' + 1 .. row' - 1 : H'[r][m' - 1] = 0 BY <2>1
  <2>3. CASE H[m][m - 1] # 0
    <3>1. H' = H BY <1>2, <2>3 DEF Pivot
    <3> QED BY <1>0, <2>1, <2>2, <2>3, <3>1 DEF Reduced, HessenbergSoFar
  <2>4. CASE H[m][m - 1] = 0
    <3> DEFINE q == Min(Below)
               B == ColumnsSwapped(RowsSwapped(H, q), q)
    <3>1. q \in Below BY <2>1, LeastBelow
    <3>2. H' = B BY <1>2, <2>4 DEF Pivot
    <3> HIDE DEF q
    <3>3. \A r, c \in Idx : B[r][c] = IF c < m - 1 THEN H[r][c]
                                      ELSE H[Swap(q, m)[r]][Swap(q, m)[c]]
      BY <2>1, <3>1, SwappedAt
    <3>4. H[q][m - 1] # 0 /\ q \in m + 1 .. M - 1 BY <3>1 DEF Below
    <3>5. Swap(q, m)[m] = q /\ Swap(q, m)[m - 1] = m - 1 BY <2>1, <3>4 DEF Swap
    <3>6. m \in Idx /\ m - 1 \in Idx BY <2>1, Sizes DEF Idx, Upto
    <3> HIDE DEF B
    <3>7. B[m][m - 1] # 0 BY <2>1, <3>3, <3>4, <3>5, <3>6
    <3>8. \A r, c \in Idx : r > c + 1 /\ c < m - 1 => B[r][c] = 0 BY <1>0, <3>3
    <3> QED BY <2>1, <2>2, <3>2, <3>7, <3>8 DEF Reduced, HessenbergSoFar
  <2> QED BY <2>3, <2>4
<1>3. CASE Clear
  <2>1. /\ m \in 1 .. M - 2 /\ pc = "clear" /\ row \in m + 1 .. M - 1 /\ H' = Cleared
        /\ m \in Idx /\ m - 1 \in Idx /\ row \in Idx
    BY <1>3, Sizes DEF Control, Clear, Idx, Upto
  <2>2. H[m][m - 1] # 0 /\ \A r \in m + 1 .. row - 1 : H[r][m - 1] = 0
    BY <2>1 DEF Reduced
  <2>3. \A r, c \in Idx : c < m - 1 => H'[r][c] = H[r][c] BY <2>1, ClearedAt
  <2>4. \A r \in Idx : r # row => H'[r][m - 1] = H[r][m - 1] BY <2>1, ClearedAt
  <2>5. H'[row][m - 1] = 0
    <3> DEFINE h == H[row][m - 1]
               g == H[m][m - 1]
               i == Inverse_mod_q(g)
    <3>1. h \in Int /\ g \in Int /\ g \in Upto(Q) BY <2>1, MatrixEntry DEF Control
    <3>2. g \in 1 .. Q - 1 BY <2>2, <3>1, Sizes DEF Upto
    <3>3. i \in Int /\ (g * i) % Q = 1 BY <3>2, InverseIs
    <3>4. H'[row][m - 1] = (h - Factor * g) % Q BY <2>1, ClearedAt
    <3>5. Factor = (h * i) % Q BY DEF Factor
    <3> HIDE DEF h, g, i
    <3>6. \A u, v \in Int : u * v \in Int OBVIOUS
    <3>7. Congruent(Q, Factor, h * i)
      BY <3>1, <3>3, <3>5, <3>6, CongruentMod, Sizes
    <3>8. Congruent(Q, Factor * g, (h * i) * g)
      BY <2>1, <3>1, <3>3, <3>6, <3>7, CongruentSame, CongruentTimes, ClearedAt, Sizes
    <3>9. (h * i) * g = h * (g * i)
      <4>1. \A u, v, w \in Int : (u * v) * w = u * (w * v) OBVIOUS
      <4> QED BY <3>1, <3>3, <4>1
    <3>10. Congruent(Q, g * i, 1) BY <3>3, Sizes, ModSmall DEF Congruent
    <3>11. Congruent(Q, h * (g * i), h * 1)
      <4>1. g * i \in Int BY <3>1, <3>3, <3>6
      <4>2. Congruent(Q, h, h) BY CongruentSame
      <4> DEFINE p == g * i
      <4> HIDE DEF p
      <4>3. Congruent(Q, h * p, h * 1)
        BY <3>1, <3>10, <4>1, <4>2, CongruentTimes, Sizes DEF p
      <4> QED BY <4>3 DEF p
    <3>12. h * 1 = h BY <3>1
    <3>13. Congruent(Q, Factor * g, h) BY <3>8, <3>9, <3>11, <3>12, CongruentChain
    <3>14. Factor * g \in Int BY <2>1, <3>1, <3>6, ClearedAt
    <3>15. Congruent(Q, h - Factor * g, h - h)
      BY <3>1, <3>13, <3>14, CongruentSame, CongruentMinus, Sizes
    <3>16. h - h = 0 BY <3>1
    <3>17. 0 % Q = 0 BY Sizes, ModSmall
    <3> QED BY <3>4, <3>15, <3>16, <3>17 DEF Congruent
  <2>6. CASE row + 1 < M /\ row' = row + 1 /\ UNCHANGED <<m, pc>>
    <3>1. H'[m'][m' - 1] # 0 BY <2>1, <2>2, <2>4, <2>6
    <3>2. \A r \in m' + 1 .. row' - 1 : H'[r][m' - 1] = 0
      <4> SUFFICES ASSUME NEW r \in m + 1 .. row PROVE H'[r][m - 1] = 0 BY <2>1, <2>6
      <4>1. r \in Idx /\ (r = row \/ r \in m + 1 .. row - 1) BY <2>1, Sizes DEF Idx, Upto
      <4> QED BY <2>2, <2>4, <2>5, <4>1
    <3>3. HessenbergSoFar' BY <1>0, <2>1, <2>3, <2>6 DEF HessenbergSoFar
    <3> QED BY <3>1, <3>2, <3>3 DEF Reduced
  <2>7. CASE row + 1 = M /\ row' = 0 /\ NextColumn
    <3>1. \A r, c \in Idx : r > c + 1 /\ c < m => H'[r][c] = 0
      <4> SUFFICES ASSUME NEW r \in Idx, NEW c \in Idx, r > c + 1, c < m PROVE H'[r][c] = 0
        OBVIOUS
      <4>1. CASE c < m - 1 BY <1>0, <2>3, <4>1
      <4>2. CASE c = m - 1
        <5>1. r = row \/ r \in m + 1 .. row - 1 BY <1>0, <2>1, <2>7, <4>2, Sizes DEF Idx, Upto
        <5> QED BY <2>2, <2>4, <2>5, <4>2, <5>1
      <4> QED BY <1>0, <2>1, <4>1, <4>2
    <3> QED BY <2>1, <2>7, <3>1, NextReduced
  <2> QED BY <1>3, <2>6, <2>7 DEF Clear
<1>4. CASE Extend BY <1>4 DEF Extend, Reduced, HessenbergSoFar
<1>5. CASE Decide BY <1>5 DEF Decide, Reduced, HessenbergSoFar
<1>6. CASE UNCHANGED vars BY <1>6 DEF vars, Reduced, HessenbergSoFar
<1> QED BY <1>1, <1>2, <1>3, <1>4, <1>5, <1>6 DEF Next

-----------------------------------------------------------------------------
(* The polynomial stays the same *)

\* The coefficients are those of det(xI - A), reduced.
LEMMA CharPolyIs ==
  ASSUME NEW n \in Nat, NEW A, Square(A, 0 .. n - 1), NEW d \in 0 .. n
  PROVE  /\ CharCoeff(A, n, d) \in Int
         /\ CharPolyOf(n, A)[d] = CharCoeff(A, n, d) % Q
<1> DEFINE U == Upto(n)
           f == [I \in kSubset(n - d, U) |-> Minor(A, I)]
           s == Alternate(n - d)
           ms == MinorSum(A, U, n - d)
<1>1. Q \in Nat /\ Q > 0 BY Sizes
<1>2. U = 0 .. n - 1 BY DEF Upto
<1>3. U \in SUBSET Int /\ IsFiniteSet(U) /\ Square(A, U) BY <1>2, UptoFinite
<1>4. CharCoeff(A, n, d) = s * ms BY <1>2 DEF CharCoeff
<1>5. CharPolyOf(n, A)[d] = (s * SumFunction(f)) % Q BY DEF CharPolyOf, Alternate
<1>6. f = [I \in kSubset(n - d, U) |-> Leibniz(A, I) % Q] BY DEF Minor
<1>7. s \in Int
  <2>1. n - d \in Int OBVIOUS
  <2> QED BY <2>1, AlternateType
<1> HIDE DEF f, U, s
<1>8. SumFunction(f) \in Int /\ Congruent(Q, SumFunction(f), ms)
  BY <1>1, <1>3, <1>6, MinorsReduced
<1>9. ms \in Int BY <1>3, MinorSumInt
<1> HIDE DEF ms
<1>10. Congruent(Q, s, s) BY CongruentSame
<1>11. Congruent(Q, s * SumFunction(f), s * ms) BY <1>1, <1>7, <1>8, <1>9, <1>10, CongruentTimes
<1>12. \A u, v \in Int : u * v \in Int OBVIOUS
<1> QED BY <1>4, <1>5, <1>7, <1>9, <1>11, <1>12 DEF Congruent

\* Matrices with the same sums of minors modulo Q have the same polynomial.
LEMMA SamePolynomial ==
  ASSUME NEW A, Square(A, Idx), NEW B, Square(B, Idx),
         \A k \in Nat : Congruent(Q, MinorSum(A, Idx, k), MinorSum(B, Idx, k))
  PROVE  CharPolyOf(M, A) = CharPolyOf(M, B)
<1> DEFINE P == CharPolyOf(M, A)
           R == CharPolyOf(M, B)
<1>1. P = [d \in 0 .. M |-> P[d]] /\ R = [d \in 0 .. M |-> R[d]] BY DEF CharPolyOf
<1>2. Idx = 0 .. M - 1 /\ M \in Nat /\ Q \in Nat /\ Q > 0 BY Sizes DEF Idx, Upto
<1>3. ASSUME NEW d \in 0 .. M PROVE P[d] = R[d]
  <2> DEFINE k == M - d
  <2>1. k \in Nat /\ k \in Int BY <1>2
  <2>2. CharCoeff(A, M, d) = Alternate(k) * MinorSum(A, Idx, k) BY <1>2 DEF CharCoeff
  <2>3. CharCoeff(B, M, d) = Alternate(k) * MinorSum(B, Idx, k) BY <1>2 DEF CharCoeff
  <2>4. P[d] = CharCoeff(A, M, d) % Q BY <1>2, CharPolyIs
  <2>5. R[d] = CharCoeff(B, M, d) % Q BY <1>2, CharPolyIs
  <2> HIDE DEF k, P, R
  <2>6. Idx \in SUBSET Int /\ IsFiniteSet(Idx) BY <1>2, UptoFinite
  <2>7. MinorSum(A, Idx, k) \in Int /\ MinorSum(B, Idx, k) \in Int BY <2>6, MinorSumInt
  <2>8. Alternate(k) \in Int BY <2>1, AlternateType
  <2>9. Congruent(Q, Alternate(k), Alternate(k)) BY CongruentSame
  <2>10. Congruent(Q, Alternate(k) * MinorSum(A, Idx, k), Alternate(k) * MinorSum(B, Idx, k))
    BY <1>2, <2>1, <2>7, <2>8, <2>9, CongruentTimes
  <2> QED BY <2>2, <2>3, <2>4, <2>5, <2>10 DEF Congruent
<1> HIDE DEF P, R
<1> QED BY <1>1, <1>3 DEF P, R

\* The matrix is square over the integers.
LEMMA SquareMatrix == ASSUME NEW A \in Matrix(M, M) PROVE Square(A, Idx)
BY MatrixEntry DEF Square

\* The exchange, which the code makes from column m-1 on, is a whole one.
LEMMA PivotSimilar ==
  ASSUME Control, Reduced, pc = "pivot", NEW q \in Below
  PROVE  CharPolyOf(M, ColumnsSwapped(RowsSwapped(H, q), q)) = CharPolyOf(M, H)
<1> DEFINE B == ColumnsSwapped(RowsSwapped(H, q), q)
           s == Swap(q, m)
<1>1. B \in Matrix(M, M) BY SwappedAt
<1>2. \A r, c \in Idx : B[r][c] = IF c < m - 1 THEN H[r][c] ELSE H[s[r]][s[c]]
  BY SwappedAt
<1>3. m \in Idx /\ q \in Idx /\ q > m /\ m \in Int
  BY Sizes DEF Control, Idx, Upto, Below
<1>4. Idx \in SUBSET Int /\ IsFiniteSet(Idx) BY Sizes, UptoFinite DEF Idx, Upto
<1>5. \A r \in Idx : s[r] = IF r = q THEN m ELSE IF r = m THEN q ELSE r
  BY <1>4 DEF Swap
<1>6. \A r, c \in Idx : r > c + 1 /\ c < m - 1 => H[r][c] = 0
  BY DEF Reduced, HessenbergSoFar
<1> HIDE DEF B, s
<1>7. ASSUME NEW r \in Idx, NEW c \in Idx, c < m - 1 PROVE H[r][c] = H[s[r]][s[c]]
  <2>1. s[c] = c BY <1>3, <1>4, <1>5, <1>7
  <2>2. CASE r \in {q, m}
    <3>1. r > c + 1 /\ s[r] > c + 1 /\ s[r] \in Idx BY <1>3, <1>4, <1>5, <1>7, <2>2
    <3> QED BY <1>6, <1>7, <2>1, <3>1
  <2>3. CASE r \notin {q, m} BY <1>5, <2>1, <2>3
  <2> QED BY <2>2, <2>3
<1>8. \A r, c \in Idx : B[r][c] = H[s[r]][s[c]] BY <1>2, <1>7
<1>9. Exchanged(B, H, Idx, q, m) BY <1>8 DEF Exchanged, s
<1>10. Square(H, Idx) /\ Square(B, Idx) BY <1>1, SquareMatrix DEF Control
<1>11. \A k \in Nat : MinorSum(B, Idx, k) = MinorSum(H, Idx, k)
  BY <1>3, <1>4, <1>9, <1>10, MinorSumSwap
<1>12. \A k \in Nat : Congruent(Q, MinorSum(B, Idx, k), MinorSum(H, Idx, k))
  BY <1>11, CongruentSame
<1> QED BY <1>10, <1>12, SamePolynomial DEF B

\* The operation on the row is undone by the one on the column.
LEMMA ClearSimilar ==
  ASSUME Control, Reduced, pc = "clear"
  PROVE  CharPolyOf(M, Cleared) = CharPolyOf(M, H)
<1> DEFINE u == Factor
           B == [x \in Idx |-> [y \in Idx |-> IF x = row THEN H[row][y] + ((-1) * u) * H[m][y]
                                              ELSE H[x][y]]]
           C == [x \in Idx |-> [y \in Idx |-> IF y = m THEN B[x][m] + u * B[x][row] ELSE B[x][y]]]
           A == RowCleared
<1>1. m \in Idx /\ row \in Idx /\ row # m /\ m \in Int /\ row > m
  BY Sizes DEF Control, Idx, Upto
<1>2. Idx \in SUBSET Int /\ IsFiniteSet(Idx) /\ Q \in Nat /\ Q > 0
  BY Sizes, UptoFinite DEF Idx, Upto
<1>3. Square(H, Idx) BY SquareMatrix DEF Control
<1>4. \A x, y \in Idx : H[x][y] \in Int BY <1>3 DEF Square
<1>5. u \in Int BY ClearedAt
<1>6. \A x, y \in Idx : A[x][y] \in Int
  <2>1. \A x, y \in Idx : A[x][y] \in Upto(Q) BY ClearedAt
  <2> QED BY <2>1 DEF Upto
<1>7. \A x, y \in Idx : A[x][y] = IF x # row \/ y < m - 1 THEN H[x][y]
                                  ELSE (H[row][y] - u * H[m][y]) % Q
  BY ClearedAt
<1>8. \A x, y \in Idx : Cleared[x][y] = IF y = m THEN (A[x][m] + u * A[x][row]) % Q ELSE A[x][y]
  BY ClearedAt
<1>9. Square(Cleared, Idx) BY ClearedAt, SquareMatrix
<1>10. RowAdded(B, H, Idx, row, m, (-1) * u) BY DEF RowAdded
<1>11. ColumnAdded(C, B, Idx, m, row, u) BY <1>1 DEF ColumnAdded
<1>12. \A v, w \in Int : v * w \in Int OBVIOUS
<1>13. \A v \in Int : ((-1) * u) * v = (-1) * (u * v) BY <1>5
<1>14. \A x, y \in Idx : B[x][y] = IF x = row THEN H[row][y] - u * H[m][y] ELSE H[x][y]
  <2> SUFFICES ASSUME NEW x \in Idx, NEW y \in Idx
               PROVE  B[x][y] = IF x = row THEN H[row][y] - u * H[m][y] ELSE H[x][y]
    OBVIOUS
  <2>1. ((-1) * u) * H[m][y] = (-1) * (u * H[m][y]) BY <1>1, <1>4, <1>13
  <2>2. u * H[m][y] \in Int BY <1>1, <1>4, <1>5, <1>12
  <2>3. B[x][y] = IF x = row THEN H[row][y] + ((-1) * u) * H[m][y] ELSE H[x][y] OBVIOUS
  <2> DEFINE o == u * H[m][y]
  <2>4. \A v, w \in Int : v + (-1) * w = v - w OBVIOUS
  <2> HIDE DEF o, B, u
  <2>5. H[row][y] + (-1) * o = H[row][y] - o BY <1>1, <1>4, <2>2, <2>4 DEF o
  <2> QED BY <2>1, <2>3, <2>5 DEF o
<1>15. \A x, y \in Idx : C[x][y] = IF y = m THEN B[x][m] + u * B[x][row] ELSE B[x][y]
  OBVIOUS
<1> HIDE DEF A, B, C, u
<1>16. ASSUME NEW y \in Idx
       PROVE  /\ u * H[m][y] \in Int /\ H[row][y] - u * H[m][y] \in Int
              /\ y < m - 1 => H[row][y] - u * H[m][y] = H[row][y]
  <2>1. u * H[m][y] \in Int BY <1>1, <1>4, <1>5, <1>12
  <2>2. H[row][y] - u * H[m][y] \in Int BY <1>1, <1>4, <2>1
  <2>3. y < m - 1 => H[m][y] = 0 BY <1>1, <1>2 DEF Reduced, HessenbergSoFar
  <2>4. u * 0 = 0 BY <1>5
  <2> QED BY <1>1, <1>4, <2>1, <2>2, <2>3, <2>4
<1>17. \A x, y \in Idx : B[x][y] \in Int /\ Congruent(Q, A[x][y], B[x][y])
  <2> SUFFICES ASSUME NEW x \in Idx, NEW y \in Idx
               PROVE  B[x][y] \in Int /\ Congruent(Q, A[x][y], B[x][y])
    OBVIOUS
  <2>1. CASE x # row
    <3>1. A[x][y] = B[x][y] BY <1>7, <1>14, <2>1
    <3> QED BY <1>4, <1>14, <2>1, <3>1, CongruentSame
  <2>2. CASE x = row /\ y < m - 1
    <3>1. A[x][y] = B[x][y] BY <1>7, <1>14, <1>16, <2>2
    <3> QED BY <1>1, <1>4, <1>14, <1>16, <2>2, <3>1, CongruentSame
  <2>3. CASE x = row /\ ~ (y < m - 1)
    <3> DEFINE v == H[row][y] - u * H[m][y]
    <3>1. A[x][y] = v % Q /\ B[x][y] = v BY <1>7, <1>14, <2>3
    <3>2. v \in Int BY <1>16
    <3> HIDE DEF v
    <3> QED BY <1>2, <3>1, <3>2, CongruentMod
  <2> QED BY <2>1, <2>2, <2>3
<1>18. ASSUME NEW x \in Idx, NEW y \in Idx PROVE Congruent(Q, Cleared[x][y], C[x][y])
  <2>1. CASE y # m BY <1>8, <1>15, <1>17, <2>1
  <2>2. CASE y = m
    <3> DEFINE a1 == A[x][m]
               a2 == A[x][row]
               b1 == B[x][m]
               b2 == B[x][row]
    <3>1. a1 \in Int /\ a2 \in Int BY <1>1, <1>6
    <3>2. b1 \in Int /\ b2 \in Int BY <1>1, <1>17
    <3>3. Congruent(Q, a1, b1) /\ Congruent(Q, a2, b2) BY <1>1, <1>17
    <3>4. Cleared[x][y] = (a1 + u * a2) % Q /\ C[x][y] = b1 + u * b2 BY <1>8, <1>15, <2>2
    <3> HIDE DEF a1, a2, b1, b2
    <3>5. u * a2 \in Int /\ u * b2 \in Int BY <1>5, <1>12, <3>1, <3>2
    <3>6. Congruent(Q, u, u) BY CongruentSame
    <3>7. Congruent(Q, u * a2, u * b2) BY <1>2, <1>5, <3>1, <3>2, <3>3, <3>6, CongruentTimes
    <3>8. Congruent(Q, a1 + u * a2, b1 + u * b2)
      BY <1>2, <3>1, <3>2, <3>3, <3>5, <3>7, CongruentPlus
    <3>9. a1 + u * a2 \in Int BY <3>1, <3>5
    <3>10. Congruent(Q, (a1 + u * a2) % Q, a1 + u * a2) BY <1>2, <3>9, CongruentMod
    <3> QED BY <3>4, <3>8, <3>10, CongruentChain
  <2> QED BY <2>1, <2>2
<1>19. (-1) * u \in Int BY <1>5
<1>20. ASSUME NEW k \in Nat
       PROVE  Square(C, Idx) /\ MinorSum(C, Idx, k) = MinorSum(H, Idx, k)
  BY <1>1, <1>2, <1>3, <1>5, <1>10, <1>11, MinorSumClear
<1>21. Square(C, Idx)
  <2>1. 0 \in Nat OBVIOUS
  <2> QED BY <1>20, <2>1
<1>22. SameMod(Q, Cleared, C, Idx) BY <1>18 DEF SameMod
<1>23. \A k \in Nat : Congruent(Q, MinorSum(Cleared, Idx, k), MinorSum(C, Idx, k))
  BY <1>2, <1>9, <1>21, <1>22, MinorSumCongruent
<1>24. \A k \in Nat : Congruent(Q, MinorSum(Cleared, Idx, k), MinorSum(H, Idx, k))
  BY <1>20, <1>23
<1> QED BY <1>3, <1>9, <1>24, SamePolynomial

\* The reduction starts from C1.
LEMMA SimilarInit == Init => StaysSimilar
BY DEF Init, StaysSimilar

\* Every step keeps the polynomial.
LEMMA SimilarStep == Control /\ Reduced /\ StaysSimilar /\ [Next]_vars => StaysSimilar'
<1> SUFFICES ASSUME Control, Reduced, StaysSimilar, [Next]_vars PROVE StaysSimilar'
  OBVIOUS
<1>1. C1' = C1 BY DEF Next, Skip, Pivot, Clear, Extend, Decide, vars
<1>2. CharPolyOf(M, H') = CharPolyOf(M, H)
  <2>1. CASE Pivot
    <3>1. pc = "pivot" /\ Below # {} BY <2>1 DEF Pivot
    <3>2. Min(Below) \in Below BY <3>1, LeastBelow
    <3>3. CharPolyOf(M, ColumnsSwapped(RowsSwapped(H, Min(Below)), Min(Below)))
            = CharPolyOf(M, H)
      BY <3>1, <3>2, PivotSimilar
    <3> QED BY <2>1, <3>3 DEF Pivot
  <2>2. CASE Clear BY <2>2, ClearSimilar DEF Clear
  <2>3. CASE ~ Pivot /\ ~ Clear
    <3>1. H' = H BY <2>3 DEF Next, Skip, Extend, Decide, vars
    <3> QED BY <3>1
  <2> QED BY <2>1, <2>2, <2>3
<1> QED BY <1>1, <1>2 DEF StaysSimilar

-----------------------------------------------------------------------------
(* The products of the subdiagonal *)

\* The function behind a product that is reduced after every factor.
MultipliesReduced(h, f, S) ==
  h = [T \in SUBSET S |-> IF T = {} THEN 1
                          ELSE (f[Pick(T)] * h[T \ {Pick(T)}]) % Q]

ProductMod(f) == FoldFunction(LAMBDA u, v : (u * v) % Q, 1, f)

\* The fold of SubDiagonal, unfolded to the table it chooses.
LEMMA ReducedIsChosen ==
  ASSUME NEW f, NEW S, DOMAIN f = S
  PROVE  ProductMod(f) = (CHOOSE h : MultipliesReduced(h, f, S))[S]
BY DEF ProductMod, FoldFunction, FoldFunctionOnSet, MapThenFoldSet, MultipliesReduced, Pick

\* It has the remainder of the product.
LEMMA ReducedProduct ==
  ASSUME NEW S, IsFiniteSet(S), NEW f, DOMAIN f = S, \A x \in S : f[x] \in Int
  PROVE  ProductMod(f) \in Int /\ Congruent(Q, ProductMod(f), ProductOn(f, S))
<1> DEFINE op == [e \in Int \X Int |-> (e[1] * e[2]) % Q]
<1>0. Q \in Nat /\ Q > 0 BY Sizes
<1>1. op \in [Int \X Int -> Int] /\ \A u, v \in Int : op[<<u, v>>] = (u * v) % Q
  <2>1. \A u, v \in Int : (u * v) % Q \in Int
    <3>1. \A u, v \in Int : u * v \in Int OBVIOUS
    <3>2. \A u \in Int : u % Q \in Int BY <1>0, ModType
    <3> QED BY <3>1, <3>2
  <2> QED BY <2>1
<1>2. 1 \in Int OBVIOUS
<1> HIDE DEF op
<1>3. PICK g \in [SUBSET S -> Int] : FoldsUp(g, f, op, 1, S) BY <1>1, <1>2, FoldsExists
<1>4. ASSUME NEW T \in SUBSET S, T # {}
      PROVE  op[<<f[Pick(T)], g[T \ {Pick(T)}]>>] = (f[Pick(T)] * g[T \ {Pick(T)}]) % Q
  <2>1. f[Pick(T)] \in Int BY <1>4, PickIn
  <2>2. g[T \ {Pick(T)}] \in Int OBVIOUS
  <2> QED BY <1>1, <2>1, <2>2
<1>5. g = [T \in SUBSET S |-> IF T = {} THEN 1
                              ELSE (f[Pick(T)] * g[T \ {Pick(T)}]) % Q]
  BY <1>3, <1>4 DEF FoldsUp
<1> DEFINE h == CHOOSE h : MultipliesReduced(h, f, S)
<1>6. MultipliesReduced(h, f, S) BY <1>5 DEF MultipliesReduced
<1> HIDE DEF h
<1>7. h[{}] = 1 BY <1>6 DEF MultipliesReduced
<1>8. \A T \in SUBSET S : T # {} => h[T] = (f[Pick(T)] * h[T \ {Pick(T)}]) % Q
  BY <1>6 DEF MultipliesReduced
<1> DEFINE P == {n \in Nat : \A T \in SUBSET S : Cardinality(T) = n =>
                               h[T] \in Int /\ Congruent(Q, h[T], ProductOn(f, T))}
<1>9. 0 \in P
  <2> SUFFICES ASSUME NEW T \in SUBSET S, Cardinality(T) = 0
               PROVE  h[T] \in Int /\ Congruent(Q, h[T], ProductOn(f, T))
    OBVIOUS
  <2>1. T = {} BY SubsetSizes
  <2>2. ProductOn(f, T) = 1 BY <2>1, ProductEmpty
  <2> QED BY <1>2, <1>7, <2>1, <2>2, CongruentSame
<1>10. ASSUME NEW n \in Nat, n \in P PROVE n + 1 \in P
  <2> SUFFICES ASSUME NEW T \in SUBSET S, Cardinality(T) = n + 1
               PROVE  h[T] \in Int /\ Congruent(Q, h[T], ProductOn(f, T))
    OBVIOUS
  <2>1. T # {} BY SubsetSizes
  <2> DEFINE x == Pick(T)
             U == T \ {x}
  <2>2. x \in T BY <2>1, PickIn
  <2>3. U \in SUBSET S /\ Cardinality(U) = n BY <2>2, SubsetSizes
  <2>4. h[U] \in Int /\ Congruent(Q, h[U], ProductOn(f, U)) BY <1>10, <2>3
  <2>5. f[x] \in Int BY <2>2
  <2>6. h[T] = (f[x] * h[U]) % Q BY <1>8, <2>1
  <2>7. \A y \in T : f[y] \in Int OBVIOUS
  <2>8. IsFiniteSet(T) BY FS_Subset
  <2> HIDE DEF x
  <2>9. ProductOn(f, T) = f[x] * ProductOn(f, U) BY <2>2, <2>7, <2>8, ProductTake
  <2>10. ProductOn(f, U) \in Int BY <2>3, ProductPart
  <2> HIDE DEF U
  <2>11. \A u, v \in Int : u * v \in Int OBVIOUS
  <2>12. f[x] * h[U] \in Int BY <2>4, <2>5, <2>11
  <2>13. Congruent(Q, f[x], f[x]) BY CongruentSame
  <2>14. Congruent(Q, f[x] * h[U], f[x] * ProductOn(f, U))
    BY <1>0, <2>4, <2>5, <2>10, <2>13, CongruentTimes
  <2>15. Congruent(Q, (f[x] * h[U]) % Q, f[x] * h[U]) BY <1>0, <2>12, CongruentMod
  <2>16. (f[x] * h[U]) % Q \in Int BY <1>0, <2>12, ModType
  <2> QED BY <2>6, <2>9, <2>14, <2>15, <2>16, CongruentChain
<1> HIDE DEF P
<1>11. \A n \in Nat : n \in P BY <1>9, <1>10, NatSetInduction
<1>12. h[S] \in Int /\ Congruent(Q, h[S], ProductOn(f, S))
  <2>1. Cardinality(S) \in P BY <1>11, FS_CardinalityType
  <2> QED BY <2>1 DEF P
<1> QED BY <1>12, ReducedIsChosen DEF h

\* The entries below the diagonal, and the products of the last q+1 of them.
SubEntries == [s \in 1 .. M - 1 |-> H[s][s - 1]]
Products(e) == [q \in 0 .. e - 1 |-> ProductOn(SubEntries, e - q .. e)]

\* They follow the recurrence of the code's variable t.
LEMMA ProductsLaw ==
  ASSUME Control, NEW e \in 0 .. M - 1
  PROVE  /\ Subdiagonals(Products(e), H, e)
         /\ \A q \in 0 .. e - 1 : /\ SubDiagonal(e, q) \in Int
                                  /\ Congruent(Q, SubDiagonal(e, q), Products(e)[q])
<1> DEFINE f == SubEntries
           t == Products(e)
<1>1. \A s \in 1 .. M - 1 : f[s] \in Int /\ f[s] = H[s][s - 1]
  <2>1. \A s \in 1 .. M - 1 : s \in Idx /\ s - 1 \in Idx BY Sizes DEF Idx, Upto
  <2> QED BY <2>1, MatrixEntry DEF Control, SubEntries
<1>2. \A q \in 0 .. e - 1 : e - q .. e \in SUBSET (1 .. M - 1) /\ IsFiniteSet(e - q .. e)
  <2> SUFFICES ASSUME NEW q \in 0 .. e - 1
               PROVE  e - q .. e \in SUBSET (1 .. M - 1) /\ IsFiniteSet(e - q .. e)
    OBVIOUS
  <2>1. e - q \in Int /\ e \in Int OBVIOUS
  <2> QED BY <2>1, Sizes, FS_Interval
<1>3. \A q \in 0 .. e - 1 : t[q] = ProductOn(f, e - q .. e) BY DEF Products
<1> HIDE DEF f, t
<1>4. \A q \in 0 .. e - 1 : t[q] \in Int
  <2> SUFFICES ASSUME NEW q \in 0 .. e - 1 PROVE t[q] \in Int OBVIOUS
  <2>1. \A x \in e - q .. e : f[x] \in Int BY <1>1, <1>2
  <2> QED BY <1>2, <1>3, <2>1, ProductOnInt
<1>5. ASSUME NEW q \in 0 .. e - 1
      PROVE  t[q] = IF q = 0 THEN H[e][e - 1] ELSE t[q - 1] * H[e - q][(e - q) - 1]
  <2> DEFINE W == e - q .. e
             x == e - q
  <2>1. \A y \in W : f[y] \in Int BY <1>1, <1>2
  <2>2. IsFiniteSet(W) /\ x \in W /\ x \in 1 .. M - 1 BY <1>2, Sizes
  <2>3. t[q] = ProductOn(f, W) BY <1>3
  <2>4. W \ {x} = (e - q) + 1 .. e OBVIOUS
  <2>5. f[x] = H[e - q][(e - q) - 1] BY <1>1, <2>2
  <2>6. f[x] \in Int BY <1>1, <2>2
  <2>7. e - 0 = e /\ 0 .. e \in SUBSET Int OBVIOUS
  <2> HIDE DEF W, x
  <2>8. t[q] = f[x] * ProductOn(f, W \ {x}) BY <2>1, <2>2, <2>3, ProductTake
  <2>9. CASE q = 0
    <3>1. (e - q) + 1 .. e = {} BY <2>9
    <3>2. ProductOn(f, W \ {x}) = 1 BY <2>4, <3>1, ProductEmpty
    <3>3. f[x] * 1 = f[x] BY <2>6
    <3> QED BY <2>5, <2>7, <2>8, <2>9, <3>2, <3>3
  <2>10. CASE q # 0
    <3>1. q - 1 \in 0 .. e - 1 /\ (e - q) + 1 = e - (q - 1) BY <2>10
    <3>2. t[q - 1] = ProductOn(f, W \ {x}) BY <1>3, <2>4, <3>1
    <3>3. t[q - 1] \in Int BY <1>4, <3>1
    <3>4. \A u, v \in Int : u * v = v * u OBVIOUS
    <3>5. f[x] * t[q - 1] = t[q - 1] * f[x] BY <2>6, <3>3, <3>4
    <3> QED BY <2>5, <2>8, <2>10, <3>2, <3>5
  <2> QED BY <2>9, <2>10
<1>6. Subdiagonals(t, H, e) BY <1>4, <1>5 DEF Subdiagonals
<1>7. ASSUME NEW q \in 0 .. e - 1
      PROVE  SubDiagonal(e, q) \in Int /\ Congruent(Q, SubDiagonal(e, q), t[q])
  <2> DEFINE W == e - q .. e
             g == [s \in W |-> H[s][s - 1]]
  <2>1. \A y \in W : f[y] \in Int /\ g[y] = f[y] BY <1>1, <1>2
  <2>2. IsFiniteSet(W) BY <1>2
  <2>3. SubDiagonal(e, q) = ProductMod(g) BY DEF SubDiagonal, ProductMod
  <2>4. DOMAIN g = W OBVIOUS
  <2>5. t[q] = ProductOn(f, W) BY <1>3
  <2> HIDE DEF W, g
  <2>6. ProductOn(f, W) = ProductOn(g, W) BY <2>1, <2>2, ProductEqual
  <2>7. \A y \in W : g[y] \in Int BY <2>1
  <2> QED BY <2>2, <2>3, <2>4, <2>5, <2>6, <2>7, ReducedProduct
<1> QED BY <1>6, <1>7 DEF t

-----------------------------------------------------------------------------
(* The recurrence of the code *)

\* There is a polynomial for each leading block up to the m by m one.
Blocks == /\ DOMAIN CP = 0 .. (IF pc \in {"extend", "done"} THEN m ELSE 0)
          /\ LeadingBlocks

\* The leading coefficient is the residue of (-1)^M.
LEMMA LeadIs ==
  /\ Lead \in Int /\ Lead \in Upto(Q)
  /\ Congruent(Q, Lead, Alternate(M))
  /\ M % 2 = 0 => Lead = 1
<1>1. M % 2 = 0 => Lead = 1 /\ Alternate(M) = 1 BY DEF Lead, Alternate
<1>2. M % 2 # 0 => Lead = Q - 1 /\ Alternate(M) = -1 BY DEF Lead, Alternate
<1>3. Congruent(Q, Q - 1, -1)
  <2>1. (-1) + Q * 1 = Q - 1 BY Sizes
  <2>2. ((-1) + Q * 1) % Q = (-1) % Q BY Sizes, ModShift
  <2> QED BY <2>1, <2>2 DEF Congruent
<1> QED BY <1>1, <1>2, <1>3, CongruentSame, Sizes DEF Upto

\* The part of a matrix that a leading block is.
LEMMA LeadingSquare ==
  ASSUME Control, NEW a \in 0 .. M
  PROVE  Square(H, 0 .. a - 1)
<1>1. 0 .. a - 1 \subseteq Idx BY Sizes DEF Idx, Upto
<1> QED BY <1>1, MatrixEntry DEF Control, Square

\* A stored coefficient, scaled, and its remainder.
LEMMA StoredCoefficient ==
  ASSUME Control, NEW a \in 0 .. M, NEW d \in 0 .. a
  PROVE  /\ CharCoeff(H, a, d) \in Int
         /\ (Lead * CharPolyOf(a, H)[d]) % Q \in Upto(Q)
         /\ Congruent(Q, (Lead * CharPolyOf(a, H)[d]) % Q, Lead * CharCoeff(H, a, d))
         /\ Lead * CharCoeff(H, a, d) \in Int
         /\ (Lead * CharPolyOf(a, H)[d]) % Q = (Lead * CharCoeff(H, a, d)) % Q
<1> DEFINE c == CharCoeff(H, a, d)
           p == CharPolyOf(a, H)[d]
<1>1. a \in Nat /\ Square(H, 0 .. a - 1) BY LeadingSquare
<1>2. c \in Int /\ p = c % Q BY <1>1, CharPolyIs
<1> HIDE DEF c, p
<1>3. Q \in Nat /\ Q > 0 /\ Lead \in Int BY Sizes, LeadIs
<1>4. p \in Int /\ Congruent(Q, p, c) BY <1>2, <1>3, ModType, CongruentMod
<1>5. \A u, v \in Int : u * v \in Int OBVIOUS
<1>6. Lead * p \in Int /\ Lead * c \in Int BY <1>2, <1>3, <1>4, <1>5
<1>7. Congruent(Q, Lead, Lead) BY CongruentSame
<1>8. Congruent(Q, Lead * p, Lead * c) BY <1>2, <1>3, <1>4, <1>7, CongruentTimes
<1>9. Congruent(Q, (Lead * p) % Q, Lead * p) BY <1>3, <1>6, CongruentMod
<1>10. Congruent(Q, (Lead * p) % Q, Lead * c) BY <1>8, <1>9, CongruentChain
<1>11. (Lead * p) % Q \in Upto(Q) BY <1>6, ResidueType
<1>12. (Lead * p) % Q = (Lead * c) % Q BY <1>8 DEF Congruent
<1> QED BY <1>2, <1>6, <1>10, <1>11, <1>12 DEF c, p

\* What the recurrence reads, also outside the polynomial.
LEMMA CoefficientLaw ==
  ASSUME Control, Blocks, pc = "extend", NEW a \in 0 .. m, NEW d \in Int
  PROVE  /\ CharCoeff(H, a, d) \in Int
         /\ Coefficient(CP[a], d) \in Int
         /\ Congruent(Q, Coefficient(CP[a], d), Lead * CharCoeff(H, a, d))
<1>1. a \in 0 .. M /\ a \in Nat BY Sizes DEF Control
<1>2. CP[a] = [x \in 0 .. a |-> (Lead * CharPolyOf(a, H)[x]) % Q]
  BY DEF Blocks, LeadingBlocks
<1>3. CASE d \in 0 .. a
  <2>1. Coefficient(CP[a], d) = (Lead * CharPolyOf(a, H)[d]) % Q
    BY <1>2, <1>3 DEF Coefficient
  <2>2. (Lead * CharPolyOf(a, H)[d]) % Q \in Int BY <1>1, <1>3, StoredCoefficient DEF Upto
  <2> QED BY <1>1, <1>3, <2>1, <2>2, StoredCoefficient
<1>4. CASE d \notin 0 .. a
  <2>1. Coefficient(CP[a], d) = 0 BY <1>2, <1>4 DEF Coefficient
  <2>2. d < 0 \/ d > a BY <1>1, <1>4
  <2>3. CharCoeff(H, a, d) = 0 BY <1>1, <2>2, CharCoeffOutside
  <2>4. Lead * 0 = 0 BY LeadIs
  <2> QED BY <2>1, <2>3, <2>4, CongruentSame
<1> QED BY <1>3, <1>4

\* The terms of the recurrence in the code, and those of the exact one.
CodeTerms(d) == [q \in Upto(m) |-> (SubDiagonal(m, q) * H[m - q - 1][m])
                                      * Coefficient(CP[m - q - 1], d)]
ExactTerms(d) == [q \in Upto(m) |-> (Products(m)[q] * H[(m - q) - 1][m])
                                       * CharCoeff(H, (m - q) - 1, d)]

\* The two sums agree modulo Q, up to the leading coefficient.
LEMMA TermsLaw ==
  ASSUME Control, Blocks, pc = "extend", m < M, NEW d \in Nat
  PROVE  /\ Contributions(ExactTerms(d), Products(m), H, m, d)
         /\ SumFunction(CodeTerms(d)) \in Int
         /\ SumFunctionOnSet(ExactTerms(d), 0 .. m - 1) \in Int
         /\ Congruent(Q, SumFunction(CodeTerms(d)),
                         Lead * SumFunctionOnSet(ExactTerms(d), 0 .. m - 1))
<1> DEFINE e == m
           U == 0 .. e - 1
           g == CodeTerms(d)
           h == ExactTerms(d)
           k == [q \in U |-> Lead * h[q]]
<1>1. e \in 0 .. M - 1 /\ e \in Nat /\ d \in Int BY Sizes DEF Control
<1>2. IsFiniteSet(U) /\ Upto(m) = U BY <1>1, UptoFinite DEF Upto
<1>3. \A q \in U : (e - q) - 1 \in 0 .. e /\ (e - q) - 1 \in Idx /\ e \in Idx
  BY <1>1, Sizes DEF Idx, Upto
<1>4. \A q \in U : h[q] = (Products(m)[q] * H[(e - q) - 1][e]) * CharCoeff(H, (e - q) - 1, d)
  BY <1>2 DEF ExactTerms
<1>5. \A q \in U : g[q] = (SubDiagonal(m, q) * H[(e - q) - 1][e]) * Coefficient(CP[(e - q) - 1], d)
  BY <1>2 DEF CodeTerms
<1>6. \A u, v \in Int : u * v \in Int OBVIOUS
<1>7. Q \in Nat /\ Q > 0 /\ Lead \in Int BY Sizes, LeadIs
<1>8. DOMAIN g = U BY <1>2 DEF CodeTerms
<1> HIDE DEF g, h
<1>9. ASSUME NEW q \in U
      PROVE  /\ g[q] \in Int /\ h[q] \in Int /\ Lead * h[q] \in Int
             /\ Congruent(Q, g[q], Lead * h[q])
  <2> DEFINE a == (e - q) - 1
             s == SubDiagonal(m, q)
             t == Products(m)[q]
             x == H[a][e]
             c == Coefficient(CP[a], d)
             z == CharCoeff(H, a, d)
  <2>1. a \in 0 .. m /\ x \in Int BY <1>3, MatrixEntry DEF Control
  <2>2. s \in Int /\ Congruent(Q, s, t) BY <1>1, ProductsLaw
  <2>3. t \in Int
    <3>1. Subdiagonals(Products(m), H, m) BY <1>1, ProductsLaw
    <3> QED BY <3>1 DEF Subdiagonals
  <2>4. z \in Int /\ c \in Int /\ Congruent(Q, c, Lead * z)
    BY <1>1, <2>1, CoefficientLaw
  <2>5. g[q] = (s * x) * c /\ h[q] = (t * x) * z BY <1>4, <1>5
  <2> HIDE DEF a, s, t, x, c, z
  <2>6. s * x \in Int /\ t * x \in Int /\ Lead * z \in Int BY <1>6, <1>7, <2>1, <2>2, <2>3, <2>4
  <2>7. Congruent(Q, x, x) BY CongruentSame
  <2>8. Congruent(Q, s * x, t * x) BY <1>7, <2>1, <2>2, <2>3, <2>7, CongruentTimes
  <2> DEFINE v == s * x
             w == t * x
             y == Lead * z
  <2> HIDE DEF v, w, y
  <2>9. Congruent(Q, v * c, w * y) BY <1>7, <2>4, <2>6, <2>8, CongruentTimes DEF v, w, y
  <2>10. w * y = Lead * (w * z)
    <3>1. \A i1, i2, i3 \in Int : i1 * (i2 * i3) = i2 * (i1 * i3) OBVIOUS
    <3>2. w * (Lead * z) = Lead * (w * z) BY <1>7, <2>4, <2>6, <3>1 DEF w
    <3> QED BY <3>2 DEF y
  <2>11. g[q] = v * c /\ h[q] = w * z BY <2>5 DEF v, w
  <2>12. v * c \in Int /\ w * z \in Int BY <1>6, <2>4, <2>6 DEF v, w
  <2> QED BY <1>6, <1>7, <2>9, <2>10, <2>11, <2>12
<1>10. Contributions(h, Products(m), H, m, d) BY <1>4 DEF Contributions
<1>11. SumFunction(g) = SumFunctionOnSet(g, U) BY <1>8, SumIs
<1>12. SumFunctionOnSet(g, U) \in Int BY <1>2, <1>9, SumInt
<1>13. SumFunctionOnSet(h, U) \in Int BY <1>2, <1>9, SumInt
<1>14. \A q \in U : k[q] = Lead * h[q] OBVIOUS
<1> HIDE DEF k, U, e
<1>15. SumFunctionOnSet(k, U) = Lead * SumFunctionOnSet(h, U)
  BY <1>2, <1>7, <1>9, <1>14, SumTimes
<1>16. Congruent(Q, SumFunctionOnSet(g, U), SumFunctionOnSet(k, U))
  BY <1>2, <1>7, <1>9, <1>14, SumCongruent
<1> QED BY <1>10, <1>11, <1>12, <1>13, <1>15, <1>16 DEF g, h, U, e

\* A step of the recurrence yields the polynomial of the next block.
LEMMA ExtendLaw ==
  ASSUME Control, Reduced, Blocks, pc = "extend", m < M
  PROVE  NextPolynomial = [d \in 0 .. m + 1 |-> (Lead * CharPolyOf(m + 1, H)[d]) % Q]
<1>1. m \in 0 .. M - 1 /\ m \in Nat /\ m \in 0 .. m /\ m + 1 \in 0 .. M /\ m \in Idx
  BY Sizes DEF Control, Idx, Upto
<1>2. Q \in Nat /\ Q > 0 /\ Lead \in Int BY Sizes, LeadIs
<1>3. Square(H, 0 .. m)
  <2>1. (m + 1) - 1 = m BY <1>1
  <2> QED BY <1>1, <2>1, LeadingSquare
<1>4. Hessenberg(H, m)
  <2>1. 0 .. m \subseteq Idx BY <1>1, Sizes DEF Idx, Upto
  <2> QED BY <2>1 DEF Reduced, HessenbergSoFar, Hessenberg
<1>5. ASSUME NEW d \in 0 .. m + 1
      PROVE  (Coefficient(CP[m], d - 1) - H[m][m] * Coefficient(CP[m], d)
                - SumFunction(CodeTerms(d))) % Q = (Lead * CharPolyOf(m + 1, H)[d]) % Q
  <2> DEFINE a1 == Coefficient(CP[m], d - 1)
             c1 == CharCoeff(H, m, d - 1)
             a2 == Coefficient(CP[m], d)
             c2 == CharCoeff(H, m, d)
             s  == SumFunction(CodeTerms(d))
             S  == SumFunctionOnSet(ExactTerms(d), 0 .. m - 1)
             x  == H[m][m]
             h  == ExactTerms(d)
             t  == Products(m)
  <2>1. d \in Nat /\ d \in Int /\ d - 1 \in Int BY <1>1
  <2>2. x \in Int BY <1>1, MatrixEntry DEF Control
  <2>3. a1 \in Int /\ c1 \in Int /\ Congruent(Q, a1, Lead * c1)
    BY <1>1, <2>1, CoefficientLaw
  <2>4. a2 \in Int /\ c2 \in Int /\ Congruent(Q, a2, Lead * c2)
    BY <1>1, <2>1, CoefficientLaw
  <2>5. s \in Int /\ S \in Int /\ Congruent(Q, s, Lead * S) BY <2>1, TermsLaw
  <2>6. Contributions(h, t, H, m, d) BY <2>1, TermsLaw
  <2>7. Subdiagonals(t, H, m) BY <1>1, ProductsLaw
  <2> HIDE DEF t, h
  <2>8. CharCoeff(H, m + 1, d) = c1 - (x * c2 + SumFunctionOnSet(h, 0 .. m - 1))
    BY <1>1, <1>3, <1>4, <2>1, <2>6, <2>7, HessenbergRecurrence
  <2>9. CharCoeff(H, m + 1, d) = c1 - (x * c2 + S) BY <2>8 DEF h
  <2>10. (Lead * CharPolyOf(m + 1, H)[d]) % Q = (Lead * CharCoeff(H, m + 1, d)) % Q
    BY <1>1, StoredCoefficient
  <2> HIDE DEF a1, a2, c1, c2, s, S, x
  <2>11. \A u, v \in Int : u * v \in Int OBVIOUS
  <2> DEFINE y1 == Lead * c1
             y2 == Lead * c2
             yS == Lead * S
  <2>12. y1 \in Int /\ y2 \in Int /\ yS \in Int BY <1>2, <2>3, <2>4, <2>5, <2>11
  <2>13. Congruent(Q, a1, y1) /\ Congruent(Q, a2, y2) /\ Congruent(Q, s, yS)
    BY <2>3, <2>4, <2>5
  <2> HIDE DEF y1, y2, yS
  <2>14. Congruent(Q, x, x) BY CongruentSame
  <2>15. Congruent(Q, x * a2, x * y2) BY <1>2, <2>2, <2>4, <2>12, <2>13, <2>14, CongruentTimes
  <2>16. x * a2 \in Int /\ x * y2 \in Int BY <2>2, <2>4, <2>11, <2>12
  <2> DEFINE p == x * a2
             r == x * y2
  <2>17. p \in Int /\ r \in Int /\ Congruent(Q, p, r) BY <2>15, <2>16
  <2> HIDE DEF p, r
  <2>18. Congruent(Q, a1 - p, y1 - r) BY <1>2, <2>3, <2>12, <2>13, <2>17, CongruentMinus
  <2>19. a1 - p \in Int /\ y1 - r \in Int BY <2>3, <2>12, <2>17
  <2>20. Congruent(Q, (a1 - p) - s, (y1 - r) - yS)
    BY <1>2, <2>5, <2>12, <2>13, <2>18, <2>19, CongruentMinus
  <2>21. (y1 - r) - yS = Lead * (c1 - (x * c2 + S))
    <3> DEFINE o == x * c2
    <3>1. o \in Int BY <2>2, <2>4, <2>11
    <3>2. \A u, v, w \in Int : u * (v * w) = v * (u * w) OBVIOUS
    <3>3. r = Lead * o BY <1>2, <2>2, <2>4, <3>2 DEF r, y2
    <3> DEFINE Law(l, u, v, w) == (l * u - l * v) - l * w = l * (u - (v + w))
    <3>4. \A l, u, v, w \in Int : Law(l, u, v, w)
      <4> SUFFICES ASSUME NEW l \in Int, NEW u \in Int, NEW v \in Int, NEW w \in Int
                   PROVE  (l * u - l * v) - l * w = l * (u - (v + w))
        OBVIOUS
      <4>1. l * (u - (v + w)) = l * u - l * (v + w) OBVIOUS
      <4>2. l * (v + w) = l * v + l * w OBVIOUS
      <4> QED BY <4>1, <4>2
    <3> HIDE DEF o, Law
    <3>5. Law(Lead, c1, o, S) BY <1>2, <2>3, <2>5, <3>1, <3>4
    <3> USE DEF Law
    <3> QED BY <3>3, <3>5 DEF y1, yS, o
  <2>22. ((a1 - p) - s) % Q = (Lead * CharCoeff(H, m + 1, d)) % Q
    BY <2>9, <2>20, <2>21 DEF Congruent
  <2> QED BY <2>10, <2>22 DEF a1, p, a2, x, s
<1>6. NextPolynomial = [d \in 0 .. m + 1 |->
                          (Coefficient(CP[m], d - 1) - H[m][m] * Coefficient(CP[m], d)
                             - SumFunction(CodeTerms(d))) % Q]
  BY DEF NextPolynomial, CodeTerms
<1> QED BY <1>5, <1>6

\* The polynomial of the empty block is 1.
LEMMA EmptyPolynomial ==
  ASSUME NEW A
  PROVE  CharPolyOf(0, A)[0] = 1 /\ (Lead * CharPolyOf(0, A)[0]) % Q = Lead
<1>1. 0 \in Nat /\ 0 .. 0 - 1 = {} /\ 0 \in 0 .. 0 OBVIOUS
<1>2. Square(A, 0 .. 0 - 1) BY <1>1 DEF Square
<1>3. CharPolyOf(0, A)[0] = CharCoeff(A, 0, 0) % Q BY <1>1, <1>2, CharPolyIs
<1>4. CharCoeff(A, 0, 0) = 1 BY <1>1, CharCoeffTop
<1>5. 1 % Q = 1 BY Sizes, ModSmall
<1>6. Lead * 1 = Lead BY LeadIs
<1>7. Lead % Q = Lead BY Sizes, LeadIs, ModSmall DEF Upto
<1> QED BY <1>3, <1>4, <1>5, <1>6, <1>7

\* Before the recurrence starts, there is the polynomial of the empty block.
LEMMA BlocksStart ==
  ASSUME DOMAIN CP = 0 .. 0, NEW A
  PROVE  LeadingBlocks <=> CP[0] = [d \in 0 .. 0 |-> (Lead * CharPolyOf(0, A)[d]) % Q]
<1>1. \A d \in 0 .. 0 : d = 0 OBVIOUS
<1>2. [d \in 0 .. 0 |-> (Lead * CharPolyOf(0, A)[d]) % Q] = [d \in 0 .. 0 |-> Lead]
  BY <1>1, EmptyPolynomial
<1>3. [d \in 0 .. 0 |-> (Lead * CharPolyOf(0, H)[d]) % Q] = [d \in 0 .. 0 |-> Lead]
  BY <1>1, EmptyPolynomial
<1>4. LeadingBlocks <=> CP[0] = [d \in 0 .. 0 |-> (Lead * CharPolyOf(0, H)[d]) % Q]
  BY <1>1 DEF LeadingBlocks
<1> QED BY <1>2, <1>3, <1>4

\* The polynomial of the empty block is there from the start.
LEMMA BlocksInit == Init => Blocks
<1> SUFFICES ASSUME Init PROVE Blocks OBVIOUS
<1>1. CP = [e \in {0} |-> [d \in {0} |-> Lead]] /\ (pc = "extend" => m = 0) /\ pc # "done"
  BY DEF Init
<1>2. 0 .. 0 = {0} OBVIOUS
<1>3. DOMAIN CP = 0 .. 0 /\ CP[0] = [d \in 0 .. 0 |-> Lead] BY <1>1, <1>2
<1>4. [d \in 0 .. 0 |-> (Lead * CharPolyOf(0, H)[d]) % Q] = [d \in 0 .. 0 |-> Lead]
  BY <1>2, EmptyPolynomial
<1>5. LeadingBlocks BY <1>3, <1>4, BlocksStart
<1> QED BY <1>1, <1>3, <1>5 DEF Blocks

\* Every step keeps the stored polynomials right.
LEMMA BlocksStep == Control /\ Reduced /\ Blocks /\ [Next]_vars => Blocks'
<1> SUFFICES ASSUME Control, Reduced, Blocks, [Next]_vars PROVE Blocks' OBVIOUS
<1>1. CASE pc \in {"pivot", "clear"} /\ ~ UNCHANGED vars
  <2>1. Skip \/ Pivot \/ Clear BY <1>1 DEF Next, Extend, Decide, vars
  <2>2. CP' = CP BY <2>1 DEF Skip, Pivot, Clear
  <2>3. DOMAIN CP = 0 .. 0 BY <1>1 DEF Blocks
  <2>4. (pc' \in {"extend", "done"} => m' = 0)
    BY <1>1, <2>1 DEF Skip, Pivot, Clear, NextColumn
  <2>5. CP[0] = [d \in 0 .. 0 |-> (Lead * CharPolyOf(0, H')[d]) % Q]
    BY <2>3, BlocksStart DEF Blocks
  <2>6. \A e \in DOMAIN CP : e = 0 BY <2>3
  <2>7. LeadingBlocks' BY <2>2, <2>5, <2>6 DEF LeadingBlocks
  <2> QED BY <2>2, <2>3, <2>4, <2>7 DEF Blocks
<1>2. CASE Extend
  <2>1. pc = "extend" /\ m < M /\ pc' = pc /\ H' = H /\ m' = m + 1 /\ m \in Nat
    BY <1>2, Sizes DEF Extend, Control
  <2>2. CP' = [e \in 0 .. m + 1 |-> IF e <= m THEN CP[e] ELSE NextPolynomial]
    BY <1>2 DEF Extend
  <2>3. DOMAIN CP' = 0 .. m' BY <2>1, <2>2
  <2>4. ASSUME NEW e \in 0 .. m + 1
        PROVE  CP'[e] = [d \in 0 .. e |-> (Lead * CharPolyOf(e, H)[d]) % Q]
    <3>1. CASE e <= m
      <4>1. e \in DOMAIN CP BY <2>1, <3>1 DEF Blocks
      <4> QED BY <2>2, <3>1, <4>1 DEF Blocks, LeadingBlocks
    <3>2. CASE ~ (e <= m)
      <4>1. e = m + 1 BY <2>1, <3>2
      <4>2. CP'[e] = NextPolynomial BY <2>2, <3>2
      <4> QED BY <2>1, <4>1, <4>2, ExtendLaw
    <3> QED BY <3>1, <3>2
  <2>5. LeadingBlocks' BY <2>1, <2>3, <2>4 DEF LeadingBlocks
  <2> QED BY <2>1, <2>3, <2>5 DEF Blocks
<1>3. CASE Decide
  <2>1. CP' = CP /\ H' = H /\ m' = m /\ pc' = "done" /\ pc = "extend" BY <1>3 DEF Decide
  <2> QED BY <2>1 DEF Blocks, LeadingBlocks
<1>4. CASE UNCHANGED vars BY <1>4 DEF vars, Blocks, LeadingBlocks
<1> QED BY <1>1, <1>2, <1>3, <1>4 DEF Next, Skip, Pivot, Clear

-----------------------------------------------------------------------------
(* The theorems *)

\* The verdict is the test of the constant coefficient.
Verdict == pc = "done" => (invertible <=> CP[M][0] # 0)

\* Only Decide sets the verdict.
LEMMA VerdictStep == Control /\ Verdict /\ [Next]_vars => Verdict'
<1> SUFFICES ASSUME Control, Verdict, [Next]_vars PROVE Verdict' OBVIOUS
<1>1. CASE Decide BY <1>1 DEF Decide, Verdict
<1>2. CASE UNCHANGED vars BY <1>2 DEF vars, Verdict
<1>3. CASE Skip \/ Pivot \/ Clear \/ Extend
  BY <1>3 DEF Skip, Pivot, Clear, Extend, NextColumn, Verdict
<1> QED BY <1>1, <1>2, <1>3 DEF Next

\* What all steps keep: the reduction has come as far as the control says, the
\* polynomial is still that of C1, and those of the blocks are the right ones.
CharPolyInv == Control /\ Reduced /\ Blocks /\ StaysSimilar /\ Verdict

\* All of it holds at the start.
LEMMA InvInit == Init => CharPolyInv
BY ControlInit, ReducedInit, BlocksInit, SimilarInit DEF CharPolyInv, Verdict, Init

\* And after every step.
LEMMA InvStep == CharPolyInv /\ [Next]_vars => CharPolyInv'
BY ControlStep, ReducedStep, BlocksStep, SimilarStep, VerdictStep DEF CharPolyInv

\* The invariant holds in every state that can be reached.
THEOREM CharPolyInvariance == Spec => []CharPolyInv
BY InvInit, InvStep, PTL DEF Spec

\* The stored polynomials are made of residues.
LEMMA TypeFromInv == CharPolyInv => TypeOK
<1> SUFFICES ASSUME CharPolyInv PROVE TypeOK OBVIOUS
<1>1. ASSUME NEW e \in DOMAIN CP PROVE CP[e] \in [0 .. e -> Upto(Q)]
  <2>1. e \in 0 .. M BY Sizes DEF CharPolyInv, Blocks, Control
  <2>2. CP[e] = [d \in 0 .. e |-> (Lead * CharPolyOf(e, H)[d]) % Q]
    BY DEF CharPolyInv, Blocks, LeadingBlocks
  <2>3. \A d \in 0 .. e : (Lead * CharPolyOf(e, H)[d]) % Q \in Upto(Q)
    BY <2>1, StoredCoefficient DEF CharPolyInv
  <2> QED BY <2>2, <2>3
<1> QED BY <1>1 DEF TypeOK, CharPolyInv, Control

\* TypeOK: every entry of the matrix and every coefficient is a residue, for
\* every size and every prime modulus.
THEOREM CharPolyTypeTheorem == Spec => []TypeOK
BY CharPolyInvariance, TypeFromInv, PTL

\* StaysSimilar: neither an exchange nor an operation of a row with its column
\* changes the characteristic polynomial, although the code touches some of
\* the columns only.
THEOREM SimilarTheorem == Spec => []StaysSimilar
<1>1. CharPolyInv => StaysSimilar BY DEF CharPolyInv
<1> QED BY <1>1, CharPolyInvariance, PTL

\* HessenbergSoFar: no later step undoes a cleared column.
THEOREM HessenbergTheorem == Spec => []HessenbergSoFar
<1>1. CharPolyInv => HessenbergSoFar BY DEF CharPolyInv, Reduced
<1> QED BY <1>1, CharPolyInvariance, PTL

\* LeadingBlocks: the recurrence of the code computes the characteristic
\* polynomials of the leading blocks, by their definition with determinants.
THEOREM LeadingBlocksTheorem == Spec => []LeadingBlocks
<1>1. CharPolyInv => LeadingBlocks BY DEF CharPolyInv, Blocks
<1> QED BY <1>1, CharPolyInvariance, PTL

\* The constant coefficient that the code tests is the determinant.
LEMMA ConstantTerm ==
  ASSUME NEW A \in Matrix(M, M),
         NEW c, c = (Lead * CharPolyOf(M, A)[0]) % Q
  PROVE  c = Determinant(M, A)
<1> DEFINE U == 0 .. M - 1
           a == Alternate(M)
           l == Leibniz(A, U)
<1>1. M \in Nat /\ M - 0 = M /\ 0 \in 0 .. M /\ Q \in Nat /\ Q > 0 BY Sizes
<1>2. U \in SUBSET Int /\ IsFiniteSet(U) /\ U = Upto(M) /\ U = Idx
  BY <1>1, UptoFinite DEF Upto, Idx
<1>3. Cardinality(U) = M BY <1>1, FS_Interval
<1>4. Square(A, U) BY <1>2, SquareMatrix
<1>5. CharPolyOf(M, A)[0] = CharCoeff(A, M, 0) % Q /\ CharCoeff(A, M, 0) \in Int
  BY <1>1, <1>4, CharPolyIs
<1>6. CharCoeff(A, M, 0) = a * MinorSum(A, U, M) BY <1>1 DEF CharCoeff
<1>7. Determinant(M, A) = l % Q BY <1>2 DEF Determinant, Minor
<1> HIDE DEF U
<1>8. MinorSum(A, U, M) = l BY <1>2, <1>3, <1>4, MinorSumAll
<1>9. l \in Int BY <1>2, <1>4, LeibnizInt
<1>10. a \in Int /\ a * a = 1
  <2>1. a = 1 \/ a = -1 BY DEF Alternate
  <2>2. 1 * 1 = 1 /\ (-1) * (-1) = 1 OBVIOUS
  <2> QED BY <2>1, <2>2
<1>11. Lead \in Int /\ Congruent(Q, Lead, a) BY LeadIs
<1> HIDE DEF a, l
<1>12. \A u, v \in Int : u * v \in Int OBVIOUS
<1>13. a * l \in Int BY <1>9, <1>10, <1>12
<1> DEFINE y == a * l
           p == y % Q
<1>14. y \in Int /\ p \in Int /\ Congruent(Q, p, y)
  BY <1>1, <1>13, CongruentMod, ModType
<1>15. c = (Lead * p) % Q BY <1>5, <1>6, <1>8
<1>16. a * y = l
  <2>1. \A u, v \in Int : u * (u * v) = (u * u) * v OBVIOUS
  <2>2. a * (a * l) = (a * a) * l BY <1>9, <1>10, <2>1
  <2>3. 1 * l = l BY <1>9
  <2> QED BY <1>10, <2>2, <2>3
<1> HIDE DEF y, p
<1>17. Congruent(Q, Lead * p, a * y) BY <1>1, <1>10, <1>11, <1>14, CongruentTimes
<1> QED BY <1>7, <1>15, <1>16, <1>17 DEF Congruent

\* The verdict and the stored polynomial follow from the invariant.
LEMMA VerdictFromInv == CharPolyInv => VerdictRight
<1> SUFFICES ASSUME CharPolyInv, pc = "done"
             PROVE  /\ invertible <=> Determinant(M, C1) # 0
                    /\ M % 2 = 0 => CP[M] = CharPolyOf(M, C1) /\ CP[M][M] = 1
  BY DEF VerdictRight
<1> DEFINE P == CharPolyOf(M, C1)
<1>1. m = M /\ M \in Nat /\ M \in 0 .. M /\ 0 \in 0 .. M /\ Q \in Nat /\ Q > 0
  BY Sizes DEF CharPolyInv, Control
<1>2. CharPolyOf(M, H) = P BY DEF CharPolyInv, StaysSimilar
<1>3. M \in DOMAIN CP BY <1>1 DEF CharPolyInv, Blocks
<1>4. CP[M] = [d \in 0 .. M |-> (Lead * CharPolyOf(M, H)[d]) % Q]
  BY <1>3 DEF CharPolyInv, Blocks, LeadingBlocks
<1>5. C1 \in Matrix(M, M) BY DEF CharPolyInv, Control
<1>6. P = [d \in 0 .. M |-> P[d]] BY DEF CharPolyOf
<1>7. \A d \in 0 .. M : CharCoeff(C1, M, d) \in Int /\ P[d] = CharCoeff(C1, M, d) % Q
  <2>1. Square(C1, 0 .. M - 1) BY <1>5, SquareMatrix DEF Idx, Upto
  <2> QED BY <1>1, <2>1, CharPolyIs
<1> HIDE DEF P
<1>8. \A d \in 0 .. M : CP[M][d] = (Lead * P[d]) % Q BY <1>2, <1>4
<1>9. CP[M][0] = Determinant(M, C1)
  <2>1. CP[M][0] = (Lead * CharPolyOf(M, C1)[0]) % Q BY <1>1, <1>8 DEF P
  <2> QED BY <1>5, <2>1, ConstantTerm
<1>10. invertible <=> Determinant(M, C1) # 0 BY <1>9 DEF CharPolyInv, Verdict
<1>11. ASSUME M % 2 = 0 PROVE CP[M] = P /\ CP[M][M] = 1
  <2>1. Lead = 1 BY <1>11, LeadIs
  <2>2. ASSUME NEW d \in 0 .. M PROVE (Lead * P[d]) % Q = P[d]
    <3>1. P[d] \in Int /\ P[d] % Q = P[d]
      <4>1. CharCoeff(C1, M, d) \in Int /\ P[d] = CharCoeff(C1, M, d) % Q BY <1>7
      <4> QED BY <1>1, <4>1, ModType, ModMod
    <3>2. 1 * P[d] = P[d] BY <3>1
    <3> QED BY <2>1, <3>1, <3>2
  <2>3. CP[M] = P BY <1>2, <1>4, <1>6, <2>2
  <2>4. P[M] = 1
    <3>1. P[M] = CharCoeff(C1, M, M) % Q BY <1>1, <1>7
    <3>2. CharCoeff(C1, M, M) = 1 BY <1>1, CharCoeffTop
    <3>3. 1 % Q = 1 BY Sizes, ModSmall
    <3> QED BY <3>1, <3>2, <3>3
  <2> QED BY <2>3, <2>4
<1> QED BY <1>10, <1>11 DEF P

\* VerdictRight: C1 is declared invertible exactly when its determinant is not
\* zero, and the polynomial stored for the signer is the one of C1.
THEOREM VerdictTheorem == Spec => []VerdictRight
BY CharPolyInvariance, VerdictFromInv, PTL
=============================================================================
