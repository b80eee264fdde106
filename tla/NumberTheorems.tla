--------------------------- MODULE NumberTheorems ---------------------------
(***************************************************************************)
(* What the proofs about the arithmetic of the scheme have in common.      *)
(*                                                                         *)
(* Induction and recursion: the theorems of the library take an operator   *)
(* as a parameter; here the induction hypothesis is a set, the set of      *)
(* numbers, or of subsets, for which it holds, and a recursion is given by *)
(* a function.  Remainders, and finite sums and products of integers: they *)
(* are SumFunctionOnSet and FoldFunction of the library, which take the    *)
(* elements in the order of CHOOSE; the lemmas say that the order is       *)
(* immaterial and that the laws of arithmetic hold.                        *)
(*                                                                         *)
(* Then the laws of determinants from their definition in Determinants:    *)
(* the sign of a permutation, exchanges of lines, expansion along the      *)
(* last row and column, and the theorem of Cayley and Hamilton.            *)
(***************************************************************************)
EXTENDS Determinants, FiniteSetTheorems, WellFoundedInduction, TLAPS

-----------------------------------------------------------------------------
(* Induction *)

\* A set of numbers that has 0 and with every number the next has them all:
\* else there would be a smallest one that it has not.
LEMMA NatSetInduction ==
  ASSUME NEW P, 0 \in P, \A n \in Nat : n \in P => n + 1 \in P
  PROVE  \A n \in Nat : n \in P
<1> DEFINE T == Nat \ P
           R == OpToRel(<, Nat)
<1> SUFFICES ASSUME T # {} PROVE FALSE OBVIOUS
<1>1. PICK x \in T : \A y \in T : ~ (<<y, x>> \in R)
  <2>1. IsWellFoundedOn(R, Nat) BY NatLessThanWellFounded
  <2> QED BY <2>1, WFMin
<1>2. x - 1 \in Nat /\ x - 1 < x /\ (x - 1) + 1 = x OBVIOUS
<1>3. <<x - 1, x>> \in R BY <1>2 DEF OpToRel
<1> QED BY <1>1, <1>2, <1>3

\* The same up to a bound.
LEMMA UptoInduction ==
  ASSUME NEW m \in Nat, NEW P, 0 \in P, \A n \in 0 .. m - 1 : n \in P => n + 1 \in P
  PROVE  \A n \in 0 .. m : n \in P
<1> DEFINE R == {n \in Nat : n <= m => n \in P}
<1>1. 0 \in R OBVIOUS
<1>2. \A n \in Nat : n \in R => n + 1 \in R OBVIOUS
<1> HIDE DEF R
<1>3. \A n \in Nat : n \in R BY <1>1, <1>2, NatSetInduction
<1> QED BY <1>3 DEF R

\* Course of values.
LEMMA StrongInduction ==
  ASSUME NEW P, \A n \in Nat : (\A l \in 0 .. n - 1 : l \in P) => n \in P
  PROVE  \A n \in Nat : n \in P
<1> DEFINE R == {n \in Nat : \A l \in 0 .. n - 1 : l \in P}
<1>1. 0 \in R OBVIOUS
<1>2. \A n \in Nat : n \in R => n + 1 \in R
  <2> SUFFICES ASSUME NEW n \in Nat, n \in R PROVE n + 1 \in R OBVIOUS
  <2>1. n \in P OBVIOUS
  <2>2. \A l \in 0 .. n : l = n \/ l \in 0 .. n - 1 OBVIOUS
  <2> QED BY <2>1, <2>2
<1> HIDE DEF R
<1>3. \A n \in Nat : n \in R BY <1>1, <1>2, NatSetInduction
<1> QED BY <1>3 DEF R

\* On the way from a number outside a set to one inside it there is a border.
LEMMA Border ==
  ASSUME NEW P, NEW n \in Nat, 0 \notin P, n \in P
  PROVE  \E s \in 1 .. n : s \in P /\ s - 1 \notin P
<1> SUFFICES ASSUME \A s \in 1 .. n : s \in P => s - 1 \in P PROVE FALSE
  OBVIOUS
<1> DEFINE R == {m \in Nat : m \notin P}
<1>1. 0 \in R OBVIOUS
<1>2. \A m \in 0 .. n - 1 : m \in R => m + 1 \in R
  <2> SUFFICES ASSUME NEW m \in 0 .. n - 1, m \in R, m + 1 \in P PROVE FALSE
    OBVIOUS
  <2>1. m + 1 \in 1 .. n /\ (m + 1) - 1 = m OBVIOUS
  <2> QED BY <2>1
<1> HIDE DEF R
<1>3. \A m \in 0 .. n : m \in R BY <1>1, <1>2, UptoInduction
<1>4. n \in 0 .. n OBVIOUS
<1> QED BY <1>3, <1>4 DEF R

\* The subsets of a finite set, by their number of elements.
LEMMA SubsetSizes ==
  ASSUME NEW S, IsFiniteSet(S), NEW T \in SUBSET S
  PROVE  /\ IsFiniteSet(T) /\ Cardinality(T) \in Nat
         /\ Cardinality(T) = 0 <=> T = {}
         /\ \A x \in T : /\ T \ {x} \in SUBSET S
                         /\ Cardinality(T \ {x}) = Cardinality(T) - 1
<1>1. IsFiniteSet(T) BY FS_Subset
<1>2. Cardinality(T) \in Nat BY <1>1, FS_CardinalityType
<1>3. Cardinality(T) = 0 <=> T = {} BY <1>1, FS_EmptySet
<1>4. ASSUME NEW x \in T
      PROVE  T \ {x} \in SUBSET S /\ Cardinality(T \ {x}) = Cardinality(T) - 1
  BY <1>1, FS_RemoveElement
<1> QED BY <1>1, <1>2, <1>3, <1>4

\* A set of subsets of S that has {} and with a subset every one that has one
\* element more has S.
LEMMA SubsetInduction ==
  ASSUME NEW S, IsFiniteSet(S), NEW P, {} \in P,
         \A T \in SUBSET S : T \in P => \A x \in S \ T : T \cup {x} \in P
  PROVE  \A T \in SUBSET S : T \in P
<1> DEFINE N == {n \in Nat : \A T \in SUBSET S : Cardinality(T) = n => T \in P}
<1>2. 0 \in N BY SubsetSizes
<1>3. \A n \in Nat : n \in N => n + 1 \in N
  <2> SUFFICES ASSUME NEW n \in Nat, n \in N,
                      NEW T \in SUBSET S, Cardinality(T) = n + 1
               PROVE  T \in P
    OBVIOUS
  <2>1. T # {} BY SubsetSizes
  <2>2. PICK x \in T : TRUE BY <2>1
  <2>3. T \ {x} \in SUBSET S /\ Cardinality(T \ {x}) = n
    BY SubsetSizes
  <2>4. (T \ {x}) \cup {x} = T OBVIOUS
  <2> QED BY <2>3, <2>4
<1> HIDE DEF N
<1>4. \A n \in Nat : n \in N BY <1>2, <1>3, NatSetInduction
<1> QED BY <1>4, SubsetSizes DEF N

\* Functions are equal when their values are.
LEMMA SameFunction ==
  ASSUME NEW A, NEW B, NEW f \in [A -> B], NEW g \in [A -> B], \A x \in A : f[x] = g[x]
  PROVE  f = g
OBVIOUS

-----------------------------------------------------------------------------
(* Recursion *)

\* p is what a recursion that G describes makes of the numbers below n: G[n]
\* maps the values for the numbers below n to the value for n.
Follows(p, G, n) ==
  \A l \in 0 .. n - 1 : p[l] = G[l][[e \in 0 .. l - 1 |-> p[e]]]

\* Two runs of one rule agree as far as both go.
LEMMA FollowsOnce ==
  ASSUME NEW G, NEW m \in Nat, NEW n \in Nat, m <= n, NEW p, NEW r,
         Follows(p, G, m), Follows(r, G, n)
  PROVE  \A l \in 0 .. m - 1 : p[l] = r[l]
<1> DEFINE P == {l \in Nat : l < m => p[l] = r[l]}
<1>1. \A l \in Nat : (\A e \in 0 .. l - 1 : e \in P) => l \in P
  <2> SUFFICES ASSUME NEW l \in Nat, \A e \in 0 .. l - 1 : e \in P, l < m
               PROVE  p[l] = r[l]
    OBVIOUS
  <2>1. [e \in 0 .. l - 1 |-> p[e]] = [e \in 0 .. l - 1 |-> r[e]] OBVIOUS
  <2>2. l \in 0 .. m - 1 /\ l \in 0 .. n - 1 OBVIOUS
  <2> QED BY <2>1, <2>2 DEF Follows
<1> HIDE DEF P
<1>2. \A l \in Nat : l \in P BY <1>1, StrongInduction
<1> QED BY <1>2 DEF P

\* Its values are in V if those for smaller numbers are.
Yields(G, V) == \A n \in Nat : \A p \in [0 .. n - 1 -> V] : G[n][p] \in V

\* A rule that always yields can be run to any length.
LEMMA FollowsExists ==
  ASSUME NEW V, NEW G, Yields(G, V)
  PROVE  \A n \in Nat : \E p \in [0 .. n - 1 -> V] : Follows(p, G, n)
<1> DEFINE P == {n \in Nat : \E p \in [0 .. n - 1 -> V] : Follows(p, G, n)}
<1>1. 0 \in P
  <2> DEFINE p == [l \in 0 .. 0 - 1 |-> l]
  <2>1. p \in [0 .. 0 - 1 -> V] OBVIOUS
  <2>2. Follows(p, G, 0) BY DEF Follows
  <2> HIDE DEF p
  <2> QED BY <2>1, <2>2
<1>2. \A n \in Nat : n \in P => n + 1 \in P
  <2> SUFFICES ASSUME NEW n \in Nat, n \in P PROVE n + 1 \in P OBVIOUS
  <2>1. PICK p \in [0 .. n - 1 -> V] : Follows(p, G, n) OBVIOUS
  <2> DEFINE r == [l \in 0 .. (n + 1) - 1 |-> IF l = n THEN G[n][p] ELSE p[l]]
  <2>2. r \in [0 .. (n + 1) - 1 -> V] BY DEF Yields
  <2>3. ASSUME NEW l \in 0 .. (n + 1) - 1
        PROVE  r[l] = G[l][[e \in 0 .. l - 1 |-> r[e]]]
    <3>1. [e \in 0 .. l - 1 |-> r[e]] = [e \in 0 .. l - 1 |-> p[e]] OBVIOUS
    <3>2. CASE l = n
      <4>1. [e \in 0 .. l - 1 |-> p[e]] = p BY <3>2
      <4> QED BY <3>1, <3>2, <4>1
    <3>3. CASE l # n
      <4>1. l \in 0 .. n - 1 /\ r[l] = p[l] BY <3>3
      <4> QED BY <2>1, <3>1, <4>1 DEF Follows
    <3> QED BY <3>2, <3>3
  <2> HIDE DEF r
  <2>4. Follows(r, G, n + 1) BY <2>3 DEF Follows
  <2> QED BY <2>2, <2>4
<1> HIDE DEF P
<1>3. \A n \in Nat : n \in P BY <1>1, <1>2, NatSetInduction
<1> QED BY <1>3 DEF P

\* Every recursion has a solution.
Initial(f, n) == [l \in 0 .. n - 1 |-> f[l]]

\* The beginning of an infinite run is a run.
LEMMA InitialType ==
  ASSUME NEW V, NEW f \in [Nat -> V], NEW n \in Nat
  PROVE  Initial(f, n) \in [0 .. n - 1 -> V]
BY DEF Initial

\* It has the same entries.
LEMMA InitialAt ==
  ASSUME NEW f, NEW n, NEW l \in 0 .. n - 1
  PROVE  Initial(f, n)[l] = f[l]
BY DEF Initial

Solves(f, G) == \A n \in Nat : f[n] = G[n][Initial(f, n)]

\* A rule that always yields has an infinite run: definition by recursion on
\* all that came before.
LEMMA Recursion ==
  ASSUME NEW V, NEW G, Yields(G, V)
  PROVE  \E f \in [Nat -> V] : Solves(f, G)
<1> DEFINE Part(n) == CHOOSE p \in [0 .. n - 1 -> V] : Follows(p, G, n)
           f == [n \in Nat |-> Part(n + 1)[n]]
<1>1. \A n \in Nat : Part(n) \in [0 .. n - 1 -> V] /\ Follows(Part(n), G, n)
  BY FollowsExists
<1>2. ASSUME NEW n \in Nat, NEW m \in Nat, n < m PROVE Part(m)[n] = f[n]
  <2>1. n + 1 \in Nat /\ n + 1 <= m /\ n \in 0 .. (n + 1) - 1 BY <1>2
  <2>2. Follows(Part(n + 1), G, n + 1) /\ Follows(Part(m), G, m) BY <1>1, <2>1
  <2> HIDE DEF Part
  <2>3. \A l \in 0 .. (n + 1) - 1 : Part(n + 1)[l] = Part(m)[l]
    BY <2>1, <2>2, FollowsOnce
  <2> QED BY <2>1, <2>3
<1>3. f \in [Nat -> V]
  <2>1. \A n \in Nat : Part(n + 1)[n] \in V
    <3> SUFFICES ASSUME NEW n \in Nat PROVE Part(n + 1)[n] \in V OBVIOUS
    <3>1. n + 1 \in Nat /\ n \in 0 .. (n + 1) - 1 OBVIOUS
    <3>2. Part(n + 1) \in [0 .. (n + 1) - 1 -> V] BY <1>1, <3>1
    <3> HIDE DEF Part
    <3> QED BY <3>1, <3>2
  <2> HIDE DEF Part
  <2> QED BY <2>1
<1>4. ASSUME NEW n \in Nat PROVE f[n] = G[n][[l \in 0 .. n - 1 |-> f[l]]]
  <2>1. n + 1 \in Nat /\ n \in 0 .. (n + 1) - 1 OBVIOUS
  <2>2. Follows(Part(n + 1), G, n + 1) BY <1>1, <2>1
  <2> HIDE DEF Part, f
  <2>3. Part(n + 1)[n] = G[n][[l \in 0 .. n - 1 |-> Part(n + 1)[l]]]
    BY <2>1, <2>2 DEF Follows
  <2>4. \A l \in 0 .. n : Part(n + 1)[l] = f[l] BY <1>2
  <2>5. [l \in 0 .. n - 1 |-> Part(n + 1)[l]] = [l \in 0 .. n - 1 |-> f[l]] BY <2>4
  <2> QED BY <2>1, <2>3, <2>4, <2>5
<1> HIDE DEF f
<1> QED BY <1>3, <1>4 DEF Solves, Initial

-----------------------------------------------------------------------------
(* Remainders *)

\* Division with remainder, and that it is the only one.
LEMMA ModType ==
  ASSUME NEW q \in Nat, q > 0, NEW a \in Int
  PROVE  a % q \in Int /\ 0 <= a % q /\ a % q < q /\ a % q \in 0 .. q - 1
OBVIOUS

\* A quotient is an integer.
LEMMA DivType ==
  ASSUME NEW q \in Nat, q > 0, NEW a \in Int
  PROVE  a \div q \in Int
OBVIOUS

\* Quotient and remainder make the number again.
LEMMA DivMod ==
  ASSUME NEW q \in Nat, q > 0, NEW a \in Int
  PROVE  a = q * (a \div q) + (a % q)
OBVIOUS

\* Only they do.
LEMMA ModUnique ==
  ASSUME NEW q \in Nat, q > 0, NEW l \in Int, NEW r \in Int, 0 <= r, r < q
  PROVE  (q * l + r) % q = r /\ (q * l + r) \div q = l
<1> DEFINE a == q * l + r
           m == a \div q
           s == a % q
<1>0. a \in Int OBVIOUS
<1>1. s \in Int /\ 0 <= s /\ s < q /\ m \in Int /\ a = q * m + s BY <1>0, ModType, DivType, DivMod
<1>2. q * l + r = q * m + s BY <1>1
<1> HIDE DEF a, m, s
<1>3. q * (l - m) = s - r BY <1>1, <1>2
<1>4. CASE l - m >= 1
  <2>1. q * (l - m) >= q BY <1>1, <1>4
  <2> QED BY <1>1, <1>3, <2>1
<1>5. CASE l - m <= -1
  <2>1. q * (l - m) <= - q BY <1>1, <1>5
  <2> QED BY <1>1, <1>3, <2>1
<1>6. CASE l - m = 0
  <2>1. q * 0 = 0 OBVIOUS
  <2>2. s = r BY <1>1, <1>3, <1>6, <2>1
  <2>3. m = l BY <1>1, <1>6
  <2> QED BY <2>2, <2>3 DEF s, a, m
<1> QED BY <1>1, <1>4, <1>5, <1>6

\* Numbers have one remainder if and only if they differ by a multiple.
LEMMA ModDiffer ==
  ASSUME NEW q \in Nat, q > 0, NEW a \in Int, NEW b \in Int, a % q = b % q
  PROVE  \E l \in Int : a = b + q * l
<1>1. /\ a % q \in Int /\ a \div q \in Int /\ a = q * (a \div q) + (a % q)
      /\ b % q \in Int /\ b \div q \in Int /\ b = q * (b \div q) + (b % q)
  BY ModType, DivType, DivMod
<1> DEFINE c == a \div q
           d == b \div q
<1>2. c - d \in Int BY <1>1
<1>3. \A r, u, v \in Int : q * u + r = (q * v + r) + q * (u - v) OBVIOUS
<1>4. a = b + q * (c - d) BY <1>1, <1>3
<1> HIDE DEF c, d
<1> QED BY <1>2, <1>4

\* A multiple of q leaves no trace.
LEMMA ModShift ==
  ASSUME NEW q \in Nat, q > 0, NEW b \in Int, NEW l \in Int
  PROVE  (b + q * l) % q = b % q
<1> DEFINE d == b \div q
           r == b % q
<1>1. d \in Int /\ r \in Int /\ 0 <= r /\ r < q /\ b = q * d + r BY ModType, DivType, DivMod
<1>2. \A u, v, t \in Int : (q * u + t) + q * v = q * (u + v) + t OBVIOUS
<1> HIDE DEF d, r
<1>3. b + q * l = q * (d + l) + r BY <1>1, <1>2
<1>4. d + l \in Int BY <1>1
<1>5. (q * (d + l) + r) % q = r BY <1>1, <1>4, ModUnique
<1> QED BY <1>3, <1>5 DEF r

\* A residue is its own remainder.
LEMMA ModSmall ==
  ASSUME NEW q \in Nat, q > 0, NEW a \in Int, 0 <= a, a < q
  PROVE  a % q = a
<1>1. a = q * 0 + a /\ 0 \in Int OBVIOUS
<1>2. (q * 0 + a) % q = a BY ModUnique
<1> QED BY <1>1, <1>2

\* Reducing twice is reducing once.
LEMMA ModMod ==
  ASSUME NEW q \in Nat, q > 0, NEW a \in Int
  PROVE  (a % q) % q = a % q
<1> DEFINE r == a % q
<1>1. r \in Int /\ 0 <= r /\ r < q BY ModType, DivType, DivMod
<1> HIDE DEF r
<1>2. r % q = r BY <1>1, ModSmall
<1> QED BY <1>2 DEF r

\* Equal remainders: sums, differences and products respect it.
Congruent(q, a, b) == a % q = b % q

\* Congruence is reflexive.
LEMMA CongruentSame == ASSUME NEW q, NEW a PROVE Congruent(q, a, a)
BY DEF Congruent

\* A number is congruent to its residue.
LEMMA CongruentMod ==
  ASSUME NEW q \in Nat, q > 0, NEW a \in Int
  PROVE  Congruent(q, a % q, a) /\ Congruent(q, a, a % q)
BY ModMod DEF Congruent

\* Congruence is symmetric.
LEMMA CongruentSwap ==
  ASSUME NEW q, NEW a, NEW b, Congruent(q, a, b)
  PROVE  Congruent(q, b, a)
BY DEF Congruent

\* Congruence is transitive.
LEMMA CongruentChain ==
  ASSUME NEW q, NEW a, NEW b, NEW c, Congruent(q, a, b), Congruent(q, b, c)
  PROVE  Congruent(q, a, c)
BY DEF Congruent

\* Congruent residues are equal.
LEMMA CongruentSmall ==
  ASSUME NEW q \in Nat, q > 0, NEW a \in 0 .. q - 1, NEW b \in 0 .. q - 1, Congruent(q, a, b)
  PROVE  a = b
BY ModSmall DEF Congruent

\* Sums of congruent numbers are congruent.
LEMMA CongruentPlus ==
  ASSUME NEW q \in Nat, q > 0, NEW a \in Int, NEW b \in Int, NEW c \in Int, NEW d \in Int,
         Congruent(q, a, c), Congruent(q, b, d)
  PROVE  Congruent(q, a + b, c + d)
<1>1. PICK l \in Int : a = c + q * l BY ModDiffer DEF Congruent
<1>2. PICK m \in Int : b = d + q * m BY ModDiffer DEF Congruent
<1>3. a + b = (c + d) + q * (l + m) BY <1>1, <1>2
<1>4. l + m \in Int /\ c + d \in Int OBVIOUS
<1>5. ((c + d) + q * (l + m)) % q = (c + d) % q BY <1>4, ModShift
<1> QED BY <1>3, <1>5 DEF Congruent

\* So are differences.
LEMMA CongruentMinus ==
  ASSUME NEW q \in Nat, q > 0, NEW a \in Int, NEW b \in Int, NEW c \in Int, NEW d \in Int,
         Congruent(q, a, c), Congruent(q, b, d)
  PROVE  Congruent(q, a - b, c - d)
<1>1. PICK l \in Int : a = c + q * l BY ModDiffer DEF Congruent
<1>2. PICK m \in Int : b = d + q * m BY ModDiffer DEF Congruent
<1>3. a - b = (c - d) + q * (l - m) BY <1>1, <1>2
<1>4. l - m \in Int /\ c - d \in Int OBVIOUS
<1>5. ((c - d) + q * (l - m)) % q = (c - d) % q BY <1>4, ModShift
<1> QED BY <1>3, <1>5 DEF Congruent

\* So are products.
LEMMA CongruentTimes ==
  ASSUME NEW q \in Nat, q > 0, NEW a \in Int, NEW b \in Int, NEW c \in Int, NEW d \in Int,
         Congruent(q, a, c), Congruent(q, b, d)
  PROVE  Congruent(q, a * b, c * d)
<1>1. PICK l \in Int : a = c + q * l BY ModDiffer DEF Congruent
<1>2. PICK m \in Int : b = d + q * m BY ModDiffer DEF Congruent
<1> DEFINE s == (c * m + l * d) + (q * l) * m
<1>3. (c + q * l) * (d + q * m) = (c * d) + q * s OBVIOUS
<1>4. s \in Int /\ c * d \in Int OBVIOUS
<1> HIDE DEF s
<1>5. ((c * d) + q * s) % q = (c * d) % q BY <1>4, ModShift
<1> QED BY <1>1, <1>2, <1>3, <1>5 DEF Congruent

-----------------------------------------------------------------------------
(* Sums *)

Pick(T) == CHOOSE x \in T : TRUE

\* The element a fold takes next is one of those left.
LEMMA PickIn == ASSUME NEW T, T # {} PROVE Pick(T) \in T
BY DEF Pick

\* The function behind a sum: f is added up, one element after another.
Adds(h, f, S) == h = [T \in SUBSET S |-> IF T = {} THEN 0
                                        ELSE f[Pick(T)] + h[T \ {Pick(T)}]]

\* The fold of SumFunctionOnSet, unfolded to the table it chooses.
LEMMA SumIsChosen ==
  ASSUME NEW f, NEW S
  PROVE  SumFunctionOnSet(f, S) = (CHOOSE h : Adds(h, f, S))[S]
BY DEF SumFunctionOnSet, FoldFunctionOnSet, MapThenFoldSet, Adds, Pick

\* The same for any operation that combines two integers into one.
FoldsUp(h, f, op, base, S) ==
  h = [T \in SUBSET S |-> IF T = {} THEN base
                          ELSE op[<<f[Pick(T)], h[T \ {Pick(T)}]>>]]

\* There is such a function: on subsets of at most n elements for every n.
LEMMA FoldsExists ==
  ASSUME NEW S, IsFiniteSet(S), NEW f, \A x \in S : f[x] \in Int,
         NEW op \in [Int \X Int -> Int], NEW base \in Int
  PROVE  \E h \in [SUBSET S -> Int] : FoldsUp(h, f, op, base, S)
<1> DEFINE Small(n) == {T \in SUBSET S : Cardinality(T) <= n}
           Sums(n, h) == \A T \in Small(n) :
                           h[T] = IF T = {} THEN base
                                  ELSE op[<<f[Pick(T)], h[T \ {Pick(T)}]>>]
           N == {n \in Nat : \E h \in [SUBSET S -> Int] : Sums(n, h)}
<1>1. \A T \in SUBSET S : Cardinality(T) \in Nat BY SubsetSizes
<1>2. \A T \in SUBSET S : T # {} => /\ Pick(T) \in T /\ f[Pick(T)] \in Int
                                    /\ T \ {Pick(T)} \in SUBSET S
                                    /\ Cardinality(T \ {Pick(T)}) = Cardinality(T) - 1
  <2> SUFFICES ASSUME NEW T \in SUBSET S, T # {}
               PROVE  /\ Pick(T) \in T /\ f[Pick(T)] \in Int
                      /\ T \ {Pick(T)} \in SUBSET S
                      /\ Cardinality(T \ {Pick(T)}) = Cardinality(T) - 1
    OBVIOUS
  <2>1. Pick(T) \in T BY PickIn
  <2> QED BY <2>1, SubsetSizes
<1>3. 0 \in N
  <2> DEFINE h == [T \in SUBSET S |-> base]
  <2>1. \A T \in Small(0) : T = {} BY SubsetSizes
  <2>2. Sums(0, h) BY <2>1
  <2>3. h \in [SUBSET S -> Int] OBVIOUS
  <2> QED BY <2>2, <2>3
<1>4. \A n \in Nat : n \in N => n + 1 \in N
  <2> SUFFICES ASSUME NEW n \in Nat, n \in N PROVE n + 1 \in N OBVIOUS
  <2>1. PICK h \in [SUBSET S -> Int] : Sums(n, h) OBVIOUS
  <2> DEFINE g == [T \in SUBSET S |-> IF T = {} THEN base
                                      ELSE op[<<f[Pick(T)], h[T \ {Pick(T)}]>>]]
  <2>2. g \in [SUBSET S -> Int]
    <3>1. ASSUME NEW T \in SUBSET S, T # {}
          PROVE  op[<<f[Pick(T)], h[T \ {Pick(T)}]>>] \in Int
      <4>1. f[Pick(T)] \in Int /\ T \ {Pick(T)} \in SUBSET S BY <1>2, <3>1
      <4>2. h[T \ {Pick(T)}] \in Int BY <4>1
      <4> QED BY <4>1, <4>2
    <3> QED BY <3>1
  <2>3. \A T \in Small(n) : g[T] = h[T] BY <2>1
  <2>4. \A T \in Small(n + 1) : T # {} => T \ {Pick(T)} \in Small(n)
    <3> SUFFICES ASSUME NEW T \in Small(n + 1), T # {}
                 PROVE  T \ {Pick(T)} \in Small(n)
      OBVIOUS
    <3>1. T \in SUBSET S /\ Cardinality(T) <= n + 1 OBVIOUS
    <3>2. Cardinality(T \ {Pick(T)}) <= n BY <1>1, <1>2, <3>1
    <3> QED BY <1>2, <3>1, <3>2
  <2>5. Sums(n + 1, g)
    <3> SUFFICES ASSUME NEW T \in Small(n + 1)
                 PROVE  g[T] = IF T = {} THEN base ELSE op[<<f[Pick(T)], g[T \ {Pick(T)}]>>]
      OBVIOUS
    <3>1. T # {} => g[T \ {Pick(T)}] = h[T \ {Pick(T)}] BY <2>3, <2>4
    <3> QED BY <3>1
  <2>6. \E e \in [SUBSET S -> Int] : Sums(n + 1, e)
    <3> HIDE DEF g
    <3> QED BY <2>2, <2>5
  <2>7. n + 1 \in Nat OBVIOUS
  <2> HIDE DEF Sums
  <2> QED BY <2>6, <2>7
<1> HIDE DEF N
<1>5. Cardinality(S) \in N
  <2>1. \A n \in Nat : n \in N BY <1>3, <1>4, NatSetInduction
  <2> QED BY <2>1, FS_CardinalityType
<1>6. PICK h \in [SUBSET S -> Int] : Sums(Cardinality(S), h) BY <1>5 DEF N
<1>7. \A T \in SUBSET S : T \in Small(Cardinality(S))
  BY FS_Subset, FS_CardinalityType
<1>8. h = [T \in SUBSET S |-> IF T = {} THEN base
                              ELSE op[<<f[Pick(T)], h[T \ {Pick(T)}]>>]]
  BY <1>6, <1>7
<1> QED BY <1>8 DEF FoldsUp

\* A table of the sums over all subsets exists: by induction on finite sets.
LEMMA AddsExists ==
  ASSUME NEW S, IsFiniteSet(S), NEW f, \A x \in S : f[x] \in Int
  PROVE  \E h \in [SUBSET S -> Int] : Adds(h, f, S)
<1> DEFINE op == [e \in Int \X Int |-> e[1] + e[2]]
<1>1. op \in [Int \X Int -> Int] /\ \A u, v \in Int : op[<<u, v>>] = u + v OBVIOUS
<1>2. 0 \in Int OBVIOUS
<1> HIDE DEF op
<1>3. PICK h \in [SUBSET S -> Int] : FoldsUp(h, f, op, 0, S) BY <1>1, <1>2, FoldsExists
<1>4. ASSUME NEW T \in SUBSET S, T # {}
      PROVE  op[<<f[Pick(T)], h[T \ {Pick(T)}]>>] = f[Pick(T)] + h[T \ {Pick(T)}]
  <2>1. f[Pick(T)] \in Int BY <1>4, PickIn
  <2>2. h[T \ {Pick(T)}] \in Int OBVIOUS
  <2> QED BY <1>1, <2>1, <2>2
<1>5. h = [T \in SUBSET S |-> IF T = {} THEN 0 ELSE f[Pick(T)] + h[T \ {Pick(T)}]]
  BY <1>3, <1>4 DEF FoldsUp
<1> QED BY <1>5 DEF Adds

\* The product of integers is one.
Multiplies(h, f, S) == h = [T \in SUBSET S |-> IF T = {} THEN 1
                                              ELSE f[Pick(T)] * h[T \ {Pick(T)}]]

ProductOf(f) == FoldFunction(LAMBDA u, v : u * v, 1, f)

\* The fold of a product, unfolded to the table it chooses.
LEMMA ProductIsChosen ==
  ASSUME NEW f, NEW S, DOMAIN f = S
  PROVE  ProductOf(f) = (CHOOSE h : Multiplies(h, f, S))[S]
BY DEF ProductOf, FoldFunction, FoldFunctionOnSet, MapThenFoldSet, Multiplies, Pick

\* The product of nothing is one.
LEMMA EmptyProduct == ASSUME NEW f, DOMAIN f = {} PROVE ProductOf(f) = 1
<1> DEFINE h == CHOOSE h : Multiplies(h, f, {})
<1>1. Multiplies([T \in SUBSET {} |-> 1], f, {})
  BY DEF Multiplies
<1>2. Multiplies(h, f, {}) BY <1>1
<1> HIDE DEF h
<1>3. h[{}] = 1 BY <1>2 DEF Multiplies
<1> QED BY <1>3, ProductIsChosen DEF h

\* The product of integers is an integer.
LEMMA ProductInt ==
  ASSUME NEW S, IsFiniteSet(S), NEW f, DOMAIN f = S, \A x \in S : f[x] \in Int
  PROVE  ProductOf(f) \in Int
<1> DEFINE op == [e \in Int \X Int |-> e[1] * e[2]]
<1>1. op \in [Int \X Int -> Int] /\ \A u, v \in Int : op[<<u, v>>] = u * v
  <2>1. \A u, v \in Int : u * v \in Int OBVIOUS
  <2> QED BY <2>1
<1>2. 1 \in Int OBVIOUS
<1> HIDE DEF op
<1>3. PICK g \in [SUBSET S -> Int] : FoldsUp(g, f, op, 1, S) BY <1>1, <1>2, FoldsExists
<1>4. ASSUME NEW T \in SUBSET S, T # {}
      PROVE  op[<<f[Pick(T)], g[T \ {Pick(T)}]>>] = f[Pick(T)] * g[T \ {Pick(T)}]
  <2>1. f[Pick(T)] \in Int BY <1>4, PickIn
  <2>2. g[T \ {Pick(T)}] \in Int OBVIOUS
  <2> QED BY <1>1, <2>1, <2>2
<1>5. g = [T \in SUBSET S |-> IF T = {} THEN 1 ELSE f[Pick(T)] * g[T \ {Pick(T)}]]
  BY <1>3, <1>4 DEF FoldsUp
<1> DEFINE h == CHOOSE h : Multiplies(h, f, S)
<1>6. Multiplies(h, f, S) BY <1>5 DEF Multiplies
<1> HIDE DEF h
<1>7. h[{}] = 1 BY <1>6 DEF Multiplies
<1>8. \A T \in SUBSET S : T # {} => h[T] = f[Pick(T)] * h[T \ {Pick(T)}]
  BY <1>6 DEF Multiplies
<1> DEFINE P == {n \in Nat : \A T \in SUBSET S : Cardinality(T) = n => h[T] \in Int}
<1>9. 0 \in P
  <2> SUFFICES ASSUME NEW T \in SUBSET S, Cardinality(T) = 0 PROVE h[T] \in Int
    OBVIOUS
  <2>1. T = {} BY SubsetSizes
  <2> QED BY <1>7, <2>1
<1>10. ASSUME NEW n \in Nat, n \in P PROVE n + 1 \in P
  <2> SUFFICES ASSUME NEW T \in SUBSET S, Cardinality(T) = n + 1 PROVE h[T] \in Int
    OBVIOUS
  <2>1. T # {} BY SubsetSizes
  <2>2. Pick(T) \in T BY <2>1, PickIn
  <2>3. T \ {Pick(T)} \in SUBSET S /\ Cardinality(T \ {Pick(T)}) = n
    BY <2>2, SubsetSizes
  <2>4. h[T \ {Pick(T)}] \in Int BY <1>10, <2>3
  <2>5. f[Pick(T)] \in Int BY <2>2
  <2>6. \A u, v \in Int : u * v \in Int OBVIOUS
  <2> QED BY <1>8, <2>1, <2>4, <2>5, <2>6
<1> HIDE DEF P
<1>11. \A n \in Nat : n \in P BY <1>9, <1>10, NatSetInduction
<1>12. h[S] \in Int
  <2>1. Cardinality(S) \in P BY <1>11, FS_CardinalityType
  <2> QED BY <2>1 DEF P
<1> QED BY <1>12, ProductIsChosen DEF h

\* There is one only, also when it is cut down to the subsets of a subset.
LEMMA AddsUnique ==
  ASSUME NEW S, IsFiniteSet(S), NEW f, NEW g, NEW h, NEW U \in SUBSET S,
         Adds(h, f, S), Adds(g, f, U)
  PROVE  \A T \in SUBSET U : g[T] = h[T]
<1> DEFINE N == {n \in Nat : \A T \in SUBSET U : Cardinality(T) = n => g[T] = h[T]}
<1>1. \A T \in SUBSET U : Cardinality(T) \in Nat
  <2>1. IsFiniteSet(U) BY FS_Subset
  <2> QED BY <2>1, SubsetSizes
<1>2. 0 \in N
  <2>1. \A T \in SUBSET U : Cardinality(T) = 0 => T = {}
    <3>1. IsFiniteSet(U) BY FS_Subset
    <3> QED BY <3>1, SubsetSizes
  <2> QED BY <2>1 DEF Adds
<1>3. \A n \in Nat : n \in N => n + 1 \in N
  <2> SUFFICES ASSUME NEW n \in Nat, n \in N,
                      NEW T \in SUBSET U, Cardinality(T) = n + 1
               PROVE  g[T] = h[T]
    OBVIOUS
  <2>0. IsFiniteSet(U) BY FS_Subset
  <2>1. T # {} BY <2>0, SubsetSizes
  <2>2. Pick(T) \in T BY <2>1, PickIn
  <2>3. T \ {Pick(T)} \in SUBSET U /\ Cardinality(T \ {Pick(T)}) = n
    BY <2>0, <2>2, SubsetSizes
  <2>4. g[T \ {Pick(T)}] = h[T \ {Pick(T)}] BY <2>3
  <2>5. T \in SUBSET S OBVIOUS
  <2> QED BY <2>1, <2>4, <2>5 DEF Adds
<1> HIDE DEF N
<1>4. \A n \in Nat : n \in N BY <1>2, <1>3, NatSetInduction
<1> QED BY <1>1, <1>4 DEF N

\* So the sums over the subsets of S are values of one function.
SumsOf(f, S) ==
  \E h \in [SUBSET S -> Int] :
    Adds(h, f, S) /\ \A T \in SUBSET S : SumFunctionOnSet(f, T) = h[T]

\* The sums over all subsets of a finite set satisfy the equations of a sum.
LEMMA SumIsAdds ==
  ASSUME NEW S, IsFiniteSet(S), NEW f, \A x \in S : f[x] \in Int
  PROVE  SumsOf(f, S)
<1>1. PICK h \in [SUBSET S -> Int] : Adds(h, f, S) BY AddsExists
<1>2. ASSUME NEW T \in SUBSET S PROVE SumFunctionOnSet(f, T) = h[T]
  <2>1. IsFiniteSet(T) BY FS_Subset
  <2>2. \E g : Adds(g, f, T) BY <2>1, AddsExists
  <2>3. Adds(CHOOSE g : Adds(g, f, T), f, T) BY <2>2
  <2>4. (CHOOSE g : Adds(g, f, T))[T] = h[T] BY <1>1, <2>3, AddsUnique
  <2> QED BY <2>4, SumIsChosen
<1> QED BY <1>1, <1>2 DEF SumsOf

\* A sum of nothing is 0.
LEMMA SumEmpty == ASSUME NEW f PROVE SumFunctionOnSet(f, {}) = 0
<1>1. IsFiniteSet({}) BY FS_EmptySet
<1>2. SumsOf(f, {}) BY <1>1, SumIsAdds
<1> QED BY <1>2 DEF Adds, SumsOf

\* A sum of integers is one.
LEMMA SumInt ==
  ASSUME NEW S, IsFiniteSet(S), NEW f, \A x \in S : f[x] \in Int
  PROVE  SumFunctionOnSet(f, S) \in Int
<1>1. SumsOf(f, S) BY SumIsAdds
<1> QED BY <1>1 DEF SumsOf

\* Any element can be taken out first.
LEMMA SumTake ==
  ASSUME NEW S, IsFiniteSet(S), NEW f, \A x \in S : f[x] \in Int, NEW x \in S
  PROVE  SumFunctionOnSet(f, S) = f[x] + SumFunctionOnSet(f, S \ {x})
<1>1. PICK h \in [SUBSET S -> Int] :
        Adds(h, f, S) /\ \A T \in SUBSET S : SumFunctionOnSet(f, T) = h[T]
  <2>1. SumsOf(f, S) BY SumIsAdds
  <2> QED BY <2>1 DEF SumsOf
<1> DEFINE N == {n \in Nat : \A T \in SUBSET S : Cardinality(T) = n =>
                               \A y \in T : h[T] = f[y] + h[T \ {y}]}
<1>2. \A T \in SUBSET S : Cardinality(T) \in Nat BY SubsetSizes
<1>3. 0 \in N BY SubsetSizes
<1>4. \A n \in Nat : n \in N => n + 1 \in N
  <2> SUFFICES ASSUME NEW n \in Nat, n \in N, NEW T \in SUBSET S,
                      Cardinality(T) = n + 1, NEW y \in T
               PROVE  h[T] = f[y] + h[T \ {y}]
    OBVIOUS
  <2> DEFINE p == Pick(T)
  <2>1. p \in T BY PickIn
  <2>2. h[T] = f[p] + h[T \ {p}] BY <1>1, <2>1 DEF Adds
  <2>3. CASE y = p BY <2>2, <2>3
  <2>4. CASE y # p
    <3>1. Cardinality(T \ {p}) = n /\ Cardinality(T \ {y}) = n
      BY <2>1, SubsetSizes
    <3> HIDE DEF p
    <3>2. h[T \ {p}] = f[y] + h[(T \ {p}) \ {y}] BY <2>4, <3>1
    <3>3. h[T \ {y}] = f[p] + h[(T \ {y}) \ {p}] BY <2>1, <2>4, <3>1
    <3>4. (T \ {p}) \ {y} = (T \ {y}) \ {p} OBVIOUS
    <3>5. /\ f[p] \in Int /\ f[y] \in Int /\ h[(T \ {y}) \ {p}] \in Int
      BY <2>1
    <3>6. \A a, b, c \in Int : a + (b + c) = b + (a + c) OBVIOUS
    <3>7. h[T] = f[p] + (f[y] + h[(T \ {y}) \ {p}]) BY <2>2, <3>2, <3>4
    <3> QED BY <3>3, <3>5, <3>6, <3>7
  <2> QED BY <2>3, <2>4
<1> HIDE DEF N
<1>5. \A n \in Nat : n \in N BY <1>3, <1>4, NatSetInduction
<1>6. h[S] = f[x] + h[S \ {x}] BY <1>2, <1>5 DEF N
<1> QED BY <1>1, <1>6

\* So is the sum over a part.
LEMMA SumPart ==
  ASSUME NEW S, IsFiniteSet(S), NEW f, \A x \in S : f[x] \in Int, NEW T \in SUBSET S
  PROVE  SumFunctionOnSet(f, T) \in Int
<1>1. IsFiniteSet(T) BY FS_Subset
<1>2. \A x \in T : f[x] \in Int OBVIOUS
<1> QED BY <1>1, <1>2, SumInt

\* An element can be added.
LEMMA SumAdd ==
  ASSUME NEW S, IsFiniteSet(S), NEW f, \A x \in S : f[x] \in Int,
         NEW T \in SUBSET S, NEW x \in S \ T
  PROVE  SumFunctionOnSet(f, T \cup {x}) = f[x] + SumFunctionOnSet(f, T)
<1>1. IsFiniteSet(T \cup {x}) BY FS_Subset
<1>2. (T \cup {x}) \ {x} = T OBVIOUS
<1>3. x \in T \cup {x} /\ \A y \in T \cup {x} : f[y] \in Int OBVIOUS
<1>4. SumFunctionOnSet(f, T \cup {x})
        = f[x] + SumFunctionOnSet(f, (T \cup {x}) \ {x})
  BY <1>1, <1>3, SumTake
<1> QED BY <1>2, <1>4

\* A sum of natural numbers is one.
LEMMA SumNat ==
  ASSUME NEW S, IsFiniteSet(S), NEW f, \A x \in S : f[x] \in Nat
  PROVE  SumFunctionOnSet(f, S) \in Nat
<1> DEFINE P == {T \in SUBSET S : SumFunctionOnSet(f, T) \in Nat}
<1>1. {} \in P BY SumEmpty
<1>2. ASSUME NEW T \in SUBSET S, T \in P, NEW x \in S \ T PROVE T \cup {x} \in P
  <2>1. SumFunctionOnSet(f, T \cup {x}) = f[x] + SumFunctionOnSet(f, T)
    <3>1. \A e \in S : f[e] \in Int OBVIOUS
    <3> QED BY <3>1, SumAdd
  <2> QED BY <1>2, <2>1
<1> HIDE DEF P
<1>3. \A T \in SUBSET S : T \in P BY <1>1, <1>2, SubsetInduction
<1> QED BY <1>3 DEF P

\* Equal terms have equal sums.
LEMMA SumEqual ==
  ASSUME NEW S, IsFiniteSet(S), NEW f, NEW g,
         \A x \in S : f[x] \in Int /\ g[x] = f[x]
  PROVE  SumFunctionOnSet(f, S) = SumFunctionOnSet(g, S)
<1> DEFINE P == {T \in SUBSET S : SumFunctionOnSet(f, T) = SumFunctionOnSet(g, T)}
<1>1. {} \in P BY SumEmpty
<1>2. ASSUME NEW T \in SUBSET S, T \in P, NEW x \in S \ T PROVE T \cup {x} \in P
  <2>1. SumFunctionOnSet(f, T \cup {x}) = f[x] + SumFunctionOnSet(f, T) BY SumAdd
  <2>2. SumFunctionOnSet(g, T \cup {x}) = g[x] + SumFunctionOnSet(g, T) BY SumAdd
  <2> QED BY <1>2, <2>1, <2>2
<1> HIDE DEF P
<1>3. S \in P BY <1>1, <1>2, SubsetInduction
<1> QED BY <1>3 DEF P

\* The sum of the sums.
LEMMA SumPlus ==
  ASSUME NEW S, IsFiniteSet(S), NEW f, NEW g, NEW h,
         \A x \in S : f[x] \in Int /\ g[x] \in Int /\ h[x] = f[x] + g[x]
  PROVE  SumFunctionOnSet(h, S) = SumFunctionOnSet(f, S) + SumFunctionOnSet(g, S)
<1> DEFINE P == {T \in SUBSET S : SumFunctionOnSet(h, T)
                   = SumFunctionOnSet(f, T) + SumFunctionOnSet(g, T)}
<1>1. {} \in P BY SumEmpty
<1>2. ASSUME NEW T \in SUBSET S, T \in P, NEW x \in S \ T PROVE T \cup {x} \in P
  <2>1. /\ SumFunctionOnSet(f, T) \in Int
        /\ SumFunctionOnSet(f, T \cup {x}) = f[x] + SumFunctionOnSet(f, T)
    <3>1. \A y \in S : f[y] \in Int OBVIOUS
    <3>2. SumFunctionOnSet(f, T) \in Int BY <3>1, SumPart
    <3>3. SumFunctionOnSet(f, T \cup {x}) = f[x] + SumFunctionOnSet(f, T) BY <3>1, SumAdd
    <3> QED BY <3>2, <3>3
  <2>2. /\ SumFunctionOnSet(g, T) \in Int
        /\ SumFunctionOnSet(g, T \cup {x}) = g[x] + SumFunctionOnSet(g, T)
    <3>1. \A y \in S : g[y] \in Int OBVIOUS
    <3>2. SumFunctionOnSet(g, T) \in Int BY <3>1, SumPart
    <3>3. SumFunctionOnSet(g, T \cup {x}) = g[x] + SumFunctionOnSet(g, T) BY <3>1, SumAdd
    <3> QED BY <3>2, <3>3
  <2>3. SumFunctionOnSet(h, T \cup {x}) = h[x] + SumFunctionOnSet(h, T)
    <3>1. \A y \in S : h[y] \in Int OBVIOUS
    <3> QED BY <3>1, SumAdd
  <2>4. h[x] = f[x] + g[x] /\ f[x] \in Int /\ g[x] \in Int OBVIOUS
  <2>5. SumFunctionOnSet(h, T)
          = SumFunctionOnSet(f, T) + SumFunctionOnSet(g, T)
    BY <1>2
  <2>6. \A a, b, c, d \in Int : (a + b) + (c + d) = (a + c) + (b + d) OBVIOUS
  <2>7. SumFunctionOnSet(h, T \cup {x})
          = SumFunctionOnSet(f, T \cup {x}) + SumFunctionOnSet(g, T \cup {x})
    BY <2>1, <2>2, <2>3, <2>4, <2>5, <2>6
  <2> QED BY <2>7
<1> HIDE DEF P
<1>3. S \in P BY <1>1, <1>2, SubsetInduction
<1> QED BY <1>3 DEF P

\* A common factor.
LEMMA SumTimes ==
  ASSUME NEW S, IsFiniteSet(S), NEW c \in Int, NEW f, NEW g,
         \A x \in S : f[x] \in Int /\ g[x] = c * f[x]
  PROVE  SumFunctionOnSet(g, S) = c * SumFunctionOnSet(f, S)
<1> DEFINE P == {T \in SUBSET S :
                   SumFunctionOnSet(g, T) = c * SumFunctionOnSet(f, T)}
<1>1. {} \in P
  <2>1. c * 0 = 0 OBVIOUS
  <2> QED BY <2>1, SumEmpty
<1>2. ASSUME NEW T \in SUBSET S, T \in P, NEW x \in S \ T PROVE T \cup {x} \in P
  <2>1. /\ SumFunctionOnSet(f, T) \in Int
        /\ SumFunctionOnSet(f, T \cup {x}) = f[x] + SumFunctionOnSet(f, T)
    <3>1. \A y \in S : f[y] \in Int OBVIOUS
    <3>2. SumFunctionOnSet(f, T) \in Int BY <3>1, SumPart
    <3>3. SumFunctionOnSet(f, T \cup {x}) = f[x] + SumFunctionOnSet(f, T) BY <3>1, SumAdd
    <3> QED BY <3>2, <3>3
  <2>2. SumFunctionOnSet(g, T \cup {x}) = g[x] + SumFunctionOnSet(g, T)
    <3>1. \A y \in S : g[y] \in Int OBVIOUS
    <3> QED BY <3>1, SumAdd
  <2>3. \A a, b \in Int : c * (a + b) = c * a + c * b OBVIOUS
  <2>4. SumFunctionOnSet(g, T \cup {x}) = c * SumFunctionOnSet(f, T \cup {x})
    BY <1>2, <2>1, <2>2, <2>3
  <2> QED BY <2>4
<1> HIDE DEF P
<1>3. S \in P BY <1>1, <1>2, SubsetInduction
<1> QED BY <1>3 DEF P

\* Nothing but zeros.
LEMMA SumZeros ==
  ASSUME NEW S, IsFiniteSet(S), NEW f, \A x \in S : f[x] = 0
  PROVE  SumFunctionOnSet(f, S) = 0
<1> DEFINE P == {T \in SUBSET S : SumFunctionOnSet(f, T) = 0}
<1>1. {} \in P BY SumEmpty
<1>2. ASSUME NEW T \in SUBSET S, T \in P, NEW x \in S \ T PROVE T \cup {x} \in P
  <2>1. SumFunctionOnSet(f, T \cup {x}) = f[x] + SumFunctionOnSet(f, T) BY SumAdd
  <2> QED BY <1>2, <2>1
<1> HIDE DEF P
<1>3. S \in P BY <1>1, <1>2, SubsetInduction
<1> QED BY <1>3 DEF P

\* Nothing but one term.
LEMMA SumOnly ==
  ASSUME NEW S, IsFiniteSet(S), NEW x \in S, NEW f, f[x] \in Int,
         \A y \in S \ {x} : f[y] = 0
  PROVE  SumFunctionOnSet(f, S) = f[x]
<1>1. SumFunctionOnSet(f, S) = f[x] + SumFunctionOnSet(f, S \ {x}) BY SumTake
<1>2. SumFunctionOnSet(f, S \ {x}) = 0
  <2>1. IsFiniteSet(S \ {x}) BY FS_Subset
  <2> QED BY <2>1, SumZeros
<1> QED BY <1>1, <1>2

\* The sum over two sets that have no element in common.
LEMMA SumUnion ==
  ASSUME NEW S, IsFiniteSet(S), NEW U, IsFiniteSet(U), S \cap U = {},
         NEW f, \A x \in S \cup U : f[x] \in Int
  PROVE  SumFunctionOnSet(f, S \cup U)
           = SumFunctionOnSet(f, S) + SumFunctionOnSet(f, U)
<1> DEFINE P == {T \in SUBSET U : SumFunctionOnSet(f, S \cup T)
                   = SumFunctionOnSet(f, S) + SumFunctionOnSet(f, T)}
<1>1. SumFunctionOnSet(f, S) \in Int BY SumInt
<1>2. {} \in P
  <2>1. S \cup {} = S OBVIOUS
  <2> QED BY <1>1, <2>1, SumEmpty
<1>3. ASSUME NEW T \in SUBSET U, T \in P, NEW x \in U \ T PROVE T \cup {x} \in P
  <2>1. /\ SumFunctionOnSet(f, T) \in Int
        /\ SumFunctionOnSet(f, T \cup {x}) = f[x] + SumFunctionOnSet(f, T)
    <3>1. \A y \in U : f[y] \in Int OBVIOUS
    <3>2. SumFunctionOnSet(f, T) \in Int BY <3>1, SumPart
    <3>3. SumFunctionOnSet(f, T \cup {x}) = f[x] + SumFunctionOnSet(f, T) BY <3>1, SumAdd
    <3> QED BY <3>2, <3>3
  <2>2. SumFunctionOnSet(f, (S \cup T) \cup {x}) = f[x] + SumFunctionOnSet(f, S \cup T)
    <3>1. IsFiniteSet(S \cup U) BY FS_Union
    <3> DEFINE W == S \cup U
               V == S \cup T
    <3>2. V \in SUBSET W /\ x \in W \ V /\ \A y \in W : f[y] \in Int OBVIOUS
    <3> HIDE DEF W, V
    <3>3. SumFunctionOnSet(f, V \cup {x}) = f[x] + SumFunctionOnSet(f, V)
      BY <3>1, <3>2, SumAdd DEF W
    <3> QED BY <3>3 DEF V
  <2>3. (S \cup T) \cup {x} = S \cup (T \cup {x}) OBVIOUS
  <2>4. \A a, b, c \in Int : a + (b + c) = b + (a + c) OBVIOUS
  <2>5. f[x] \in Int OBVIOUS
  <2>6. SumFunctionOnSet(f, S \cup T)
          = SumFunctionOnSet(f, S) + SumFunctionOnSet(f, T)
    BY <1>3
  <2>7. SumFunctionOnSet(f, S \cup (T \cup {x}))
          = SumFunctionOnSet(f, S) + SumFunctionOnSet(f, T \cup {x})
    <3> DEFINE a == f[x]
               b == SumFunctionOnSet(f, S)
               c == SumFunctionOnSet(f, T)
    <3>1. a \in Int /\ b \in Int /\ c \in Int BY <1>1, <2>1
    <3>2. SumFunctionOnSet(f, S \cup (T \cup {x})) = a + (b + c)
      BY <2>2, <2>3, <2>6
    <3>3. SumFunctionOnSet(f, T \cup {x}) = a + c BY <2>1
    <3> HIDE DEF a, b, c
    <3>4. SumFunctionOnSet(f, S \cup (T \cup {x})) = b + (a + c)
      BY <2>4, <3>1, <3>2
    <3> QED BY <3>3, <3>4 DEF b
  <2> QED BY <2>7
<1> HIDE DEF P
<1>4. U \in P BY <1>2, <1>3, SubsetInduction
<1> QED BY <1>4 DEF P

\* Row by row or column by column.
LEMMA SumSwap ==
  ASSUME NEW S, IsFiniteSet(S), NEW U, IsFiniteSet(U), NEW F,
         \A x \in S, y \in U : F[x][y] \in Int
  PROVE  SumFunctionOnSet([x \in S |-> SumFunctionOnSet([y \in U |-> F[x][y]], U)], S)
           = SumFunctionOnSet([y \in U |-> SumFunctionOnSet([x \in S |-> F[x][y]], S)], U)
<1> DEFINE Line(x) == [y \in U |-> F[x][y]]
           Rows == [x \in S |-> SumFunctionOnSet(Line(x), U)]
           Part(T, y) == SumFunctionOnSet([x \in S |-> F[x][y]], T)
           Columns(T) == [y \in U |-> Part(T, y)]
           P == {T \in SUBSET S :
                   SumFunctionOnSet(Rows, T) = SumFunctionOnSet(Columns(T), U)}
<1>1. \A x \in S : SumFunctionOnSet(Line(x), U) \in Int /\ Rows[x] \in Int
  <2> SUFFICES ASSUME NEW x \in S PROVE SumFunctionOnSet(Line(x), U) \in Int
    OBVIOUS
  <2>1. \A y \in U : Line(x)[y] \in Int OBVIOUS
  <2> HIDE DEF Line
  <2> QED BY <2>1, SumInt
<1>2. {} \in P
  <2>1. \A y \in U : Columns({})[y] = 0 BY SumEmpty
  <2> HIDE DEF Columns
  <2>2. SumFunctionOnSet(Columns({}), U) = 0 BY <2>1, SumZeros
  <2> QED BY <2>2, SumEmpty
<1>3. ASSUME NEW T \in SUBSET S, T \in P, NEW x \in S \ T PROVE T \cup {x} \in P
  <2>1. \A y \in U : /\ Part(T, y) \in Int
                     /\ Part(T \cup {x}, y) = F[x][y] + Part(T, y)
    <3> SUFFICES ASSUME NEW y \in U
                 PROVE  /\ Part(T, y) \in Int
                        /\ Part(T \cup {x}, y) = F[x][y] + Part(T, y)
      OBVIOUS
    <3> DEFINE f == [z \in S |-> F[z][y]]
    <3>1. \A z \in S : f[z] \in Int OBVIOUS
    <3>2. f[x] = F[x][y] OBVIOUS
    <3> HIDE DEF f
    <3>3. SumFunctionOnSet(f, T) \in Int BY <3>1, SumPart
    <3>4. SumFunctionOnSet(f, T \cup {x}) = f[x] + SumFunctionOnSet(f, T)
      BY <3>1, SumAdd
    <3> QED BY <3>2, <3>3, <3>4 DEF f
  <2>2. \A y \in U : /\ Line(x)[y] \in Int /\ Columns(T)[y] \in Int
                     /\ Columns(T \cup {x})[y] = Line(x)[y] + Columns(T)[y]
    BY <2>1
  <2>3. SumFunctionOnSet(Rows, T \cup {x}) = Rows[x] + SumFunctionOnSet(Rows, T)
    <3>1. \A y \in S : Rows[y] \in Int BY <1>1
    <3> HIDE DEF Rows
    <3> QED BY <3>1, SumAdd
  <2>4. Rows[x] = SumFunctionOnSet(Line(x), U) OBVIOUS
  <2>5. SumFunctionOnSet(Columns(T \cup {x}), U)
          = SumFunctionOnSet(Line(x), U) + SumFunctionOnSet(Columns(T), U)
    <3> HIDE DEF Line, Columns
    <3> QED BY <2>2, SumPlus
  <2>6. SumFunctionOnSet(Rows, T) = SumFunctionOnSet(Columns(T), U) BY <1>3
  <2> HIDE DEF Line, Columns, Rows
  <2>7. SumFunctionOnSet(Rows, T \cup {x}) = SumFunctionOnSet(Columns(T \cup {x}), U)
    BY <2>3, <2>4, <2>5, <2>6
  <2> QED BY <2>7
<1>4. S \in P
  <2> HIDE DEF P
  <2> QED BY <1>2, <1>3, SubsetInduction
<1> QED BY <1>4

\* Terms of 0 can be left out.
LEMMA SumPad ==
  ASSUME NEW S, IsFiniteSet(S), NEW T \in SUBSET S, NEW f, \A x \in T : f[x] \in Int,
         \A x \in S \ T : f[x] = 0
  PROVE  SumFunctionOnSet(f, S) = SumFunctionOnSet(f, T)
<1>1. IsFiniteSet(T) /\ IsFiniteSet(S \ T) BY FS_Subset
<1> DEFINE R == S \ T
<1>2. T \cap R = {} /\ T \cup R = S /\ \A x \in R : f[x] = 0 OBVIOUS
<1>3. \A x \in T \cup R : f[x] \in Int OBVIOUS
<1> HIDE DEF R
<1>4. SumFunctionOnSet(f, T \cup R) = SumFunctionOnSet(f, T) + SumFunctionOnSet(f, R)
  BY <1>1, <1>2, <1>3, SumUnion DEF R
<1>5. SumFunctionOnSet(f, R) = 0 BY <1>1, <1>2, SumZeros DEF R
<1>6. SumFunctionOnSet(f, T) \in Int BY <1>1, SumInt
<1> QED BY <1>2, <1>4, <1>5, <1>6

\* The sum of a function over its domain.
LEMMA SumIs ==
  ASSUME NEW f, NEW S, DOMAIN f = S
  PROVE  SumFunction(f) = SumFunctionOnSet(f, S)
BY DEF SumFunction

\* Congruent terms have congruent sums.
LEMMA SumCongruent ==
  ASSUME NEW S, IsFiniteSet(S), NEW q \in Nat, q > 0, NEW f, NEW g,
         \A x \in S : f[x] \in Int /\ g[x] \in Int /\ Congruent(q, f[x], g[x])
  PROVE  Congruent(q, SumFunctionOnSet(f, S), SumFunctionOnSet(g, S))
<1> DEFINE P == {T \in SUBSET S :
                   Congruent(q, SumFunctionOnSet(f, T), SumFunctionOnSet(g, T))}
<1>1. {} \in P BY SumEmpty, CongruentSame
<1>2. ASSUME NEW T \in SUBSET S, T \in P, NEW x \in S \ T PROVE T \cup {x} \in P
  <2>1. /\ SumFunctionOnSet(f, T) \in Int
        /\ SumFunctionOnSet(f, T \cup {x}) = f[x] + SumFunctionOnSet(f, T)
    <3>1. \A y \in S : f[y] \in Int OBVIOUS
    <3>2. SumFunctionOnSet(f, T) \in Int BY <3>1, SumPart
    <3>3. SumFunctionOnSet(f, T \cup {x}) = f[x] + SumFunctionOnSet(f, T) BY <3>1, SumAdd
    <3> QED BY <3>2, <3>3
  <2>2. /\ SumFunctionOnSet(g, T) \in Int
        /\ SumFunctionOnSet(g, T \cup {x}) = g[x] + SumFunctionOnSet(g, T)
    <3>1. \A y \in S : g[y] \in Int OBVIOUS
    <3>2. SumFunctionOnSet(g, T) \in Int BY <3>1, SumPart
    <3>3. SumFunctionOnSet(g, T \cup {x}) = g[x] + SumFunctionOnSet(g, T) BY <3>1, SumAdd
    <3> QED BY <3>2, <3>3
  <2>3. Congruent(q, SumFunctionOnSet(f, T), SumFunctionOnSet(g, T)) BY <1>2
  <2>4. f[x] \in Int /\ g[x] \in Int /\ Congruent(q, f[x], g[x]) OBVIOUS
  <2>5. Congruent(q, f[x] + SumFunctionOnSet(f, T), g[x] + SumFunctionOnSet(g, T))
    BY <2>1, <2>2, <2>3, <2>4, CongruentPlus
  <2> QED BY <2>1, <2>2, <2>5
<1> HIDE DEF P
<1>3. S \in P BY <1>1, <1>2, SubsetInduction
<1> QED BY <1>3 DEF P

\* A sum of ones counts.
LEMMA SumOnes ==
  ASSUME NEW S, IsFiniteSet(S), NEW f, NEW U \in SUBSET S,
         \A x \in S : f[x] = IF x \in U THEN 1 ELSE 0
  PROVE  SumFunctionOnSet(f, S) = Cardinality(U)
<1> DEFINE P == {T \in SUBSET S : SumFunctionOnSet(f, T) = Cardinality(U \cap T)}
<1>1. {} \in P
  <2>1. U \cap {} = {} OBVIOUS
  <2> QED BY <2>1, SumEmpty, FS_EmptySet
<1>2. ASSUME NEW T \in SUBSET S, T \in P, NEW x \in S \ T PROVE T \cup {x} \in P
  <2>1. SumFunctionOnSet(f, T \cup {x}) = f[x] + SumFunctionOnSet(f, T)
    <3>1. \A y \in S : f[y] \in Int OBVIOUS
    <3> QED BY <3>1, SumAdd
  <2>2. IsFiniteSet(U \cap T) BY FS_Subset
  <2>3. Cardinality(U \cap T) \in Nat BY <2>2, FS_CardinalityType
  <2>4. Cardinality(U \cap (T \cup {x})) = f[x] + Cardinality(U \cap T)
    <3>1. CASE x \in U
      <4>1. U \cap (T \cup {x}) = (U \cap T) \cup {x} /\ x \notin U \cap T BY <3>1
      <4>2. Cardinality((U \cap T) \cup {x}) = Cardinality(U \cap T) + 1
        BY <2>2, <4>1, FS_AddElement
      <4> QED BY <2>3, <3>1, <4>1, <4>2
    <3>2. CASE x \notin U
      <4>1. U \cap (T \cup {x}) = U \cap T BY <3>2
      <4>2. f[x] = 0 BY <3>2
      <4>3. Cardinality(U \cap (T \cup {x})) = Cardinality(U \cap T) BY <4>1, Zenon
      <4>4. 0 + Cardinality(U \cap T) = Cardinality(U \cap T) BY <2>3
      <4> QED BY <4>2, <4>3, <4>4
    <3> QED BY <3>1, <3>2
  <2>5. SumFunctionOnSet(f, T \cup {x}) = Cardinality(U \cap (T \cup {x}))
    BY <1>2, <2>1, <2>4
  <2> QED BY <2>5
<1> HIDE DEF P
<1>3. S \in P BY <1>1, <1>2, SubsetInduction
<1>4. U \cap S = U OBVIOUS
<1> QED BY <1>3, <1>4 DEF P

\* Intervals.
LEMMA UptoFinite == ASSUME NEW n \in Int PROVE IsFiniteSet(0 .. n - 1)
BY FS_Interval

\* The last term.
LEMMA SumLast ==
  ASSUME NEW n \in Nat, NEW f, \A x \in 0 .. n : f[x] \in Int
  PROVE  SumFunctionOnSet(f, 0 .. n) = f[n] + SumFunctionOnSet(f, 0 .. n - 1)
<1>1. IsFiniteSet(0 .. n) BY FS_Interval
<1>2. 0 .. n - 1 = (0 .. n) \ {n} /\ n \in 0 .. n OBVIOUS
<1>3. SumFunctionOnSet(f, 0 .. n) = f[n] + SumFunctionOnSet(f, (0 .. n) \ {n})
  BY <1>1, <1>2, SumTake
<1> QED BY <1>2, <1>3

\* b names every element of U once, by an element of S.
Renames(b, S, U) ==
  /\ \A x \in S : b[x] \in U
  /\ \A u \in U : \E x \in S : b[x] = u
  /\ \A x, y \in S : b[x] = b[y] => x = y

\* The sum does not depend on the names of the terms.
LEMMA SumReindex ==
  ASSUME NEW S, IsFiniteSet(S), NEW U, NEW b, Renames(b, S, U),
         NEW f, NEW g, \A x \in S : f[b[x]] \in Int /\ g[x] = f[b[x]]
  PROVE  SumFunctionOnSet(g, S) = SumFunctionOnSet(f, U)
<1>a. /\ \A x \in S : b[x] \in U
      /\ \A u \in U : \E x \in S : b[x] = u
      /\ \A x, y \in S : b[x] = b[y] => x = y
  BY DEF Renames
<1> DEFINE Im(T) == {b[x] : x \in T}
           P == {T \in SUBSET S : SumFunctionOnSet(g, T) = SumFunctionOnSet(f, Im(T))}
<1>0. IsFiniteSet(Im(S))
  <2> DEFINE W == Im(S)
             h == [x \in S |-> b[x]]
  <2>1. h \in Surjection(S, W) BY DEF Surjection
  <2> HIDE DEF W, h
  <2>2. IsFiniteSet(W) BY <2>1, FS_Surjection
  <2> QED BY <2>2 DEF W
<1>1. {} \in P
  <2>1. Im({}) = {} OBVIOUS
  <2> QED BY <2>1, SumEmpty
<1>2. ASSUME NEW T \in SUBSET S, T \in P, NEW x \in S \ T PROVE T \cup {x} \in P
  <2>1. SumFunctionOnSet(g, T \cup {x}) = g[x] + SumFunctionOnSet(g, T)
    <3>1. \A y \in S : g[y] \in Int OBVIOUS
    <3> QED BY <3>1, SumAdd
  <2>2. Im(T \cup {x}) = Im(T) \cup {b[x]} OBVIOUS
  <2>3. b[x] \in Im(S) \ Im(T) /\ Im(T) \in SUBSET Im(S) BY <1>a
  <2>4. \A y \in Im(S) : f[y] \in Int OBVIOUS
  <2> DEFINE W == Im(S)
             V == Im(T)
             w == b[x]
  <2>5. SumFunctionOnSet(f, V \cup {w}) = f[w] + SumFunctionOnSet(f, V)
    <3>1. w \in W \ V /\ V \in SUBSET W /\ IsFiniteSet(W) /\ \A y \in W : f[y] \in Int
      BY <1>0, <2>3, <2>4
    <3> HIDE DEF W, V, w
    <3> QED BY <3>1, SumAdd
  <2>6. g[x] = f[w] OBVIOUS
  <2> QED BY <1>2, <2>1, <2>2, <2>5, <2>6
<1>3. S \in P
  <2> HIDE DEF P
  <2> QED BY <1>1, <1>2, SubsetInduction
<1>4. Im(S) = U BY <1>a
<1> QED BY <1>3, <1>4

\* A sum read backwards.
LEMMA SumBackwards ==
  ASSUME NEW n \in Nat, NEW f, NEW g,
         \A d \in 0 .. n - 1 : f[d] \in Int /\ g[d] = f[n - 1 - d]
  PROVE  SumFunctionOnSet(g, 0 .. n - 1) = SumFunctionOnSet(f, 0 .. n - 1)
<1> DEFINE U == 0 .. n - 1
           b == [d \in U |-> n - 1 - d]
<1>1. IsFiniteSet(U) BY UptoFinite
<1>2. /\ \A d \in U : b[d] \in U
      /\ \A c, d \in U : b[c] = b[d] => c = d
  OBVIOUS
<1>3. \A e \in U : \E d \in U : b[d] = e
  <2>1. \A e \in U : n - 1 - e \in U /\ b[n - 1 - e] = e OBVIOUS
  <2> HIDE DEF b
  <2> QED BY <2>1
<1>4. \A d \in U : f[b[d]] \in Int /\ g[d] = f[b[d]] BY <1>2
<1> HIDE DEF U, b
<1>5. Renames(b, U, U) BY <1>2, <1>3 DEF Renames
<1>6. SumFunctionOnSet(g, U) = SumFunctionOnSet(f, U) BY <1>1, <1>4, <1>5, SumReindex
<1> QED BY <1>6 DEF U

\* The first term of a sum, and the others one place down.
LEMMA SumFirst ==
  ASSUME NEW m \in Nat, NEW g, \A d \in 0 .. m : g[d] \in Int,
         NEW f, \A e \in 0 .. m - 1 : f[e] = g[e + 1]
  PROVE  /\ SumFunctionOnSet(f, 0 .. m - 1) \in Int
         /\ SumFunctionOnSet(g, 0 .. m) = g[0] + SumFunctionOnSet(f, 0 .. m - 1)
<1> DEFINE U == 0 .. m - 1
           W == 1 .. m
           b == [e \in U |-> e + 1]
<1>1. IsFiniteSet(U) /\ IsFiniteSet(0 .. m) BY UptoFinite, FS_Interval
<1>2. /\ \A e \in U : b[e] \in W
      /\ \A c, d \in U : b[c] = b[d] => c = d
  OBVIOUS
<1>3. \A d \in W : \E e \in U : b[e] = d
  <2> SUFFICES ASSUME NEW d \in W PROVE \E e \in U : b[e] = d OBVIOUS
  <2>1. d - 1 \in U /\ b[d - 1] = d OBVIOUS
  <2> QED BY <2>1
<1>4. \A e \in U : g[b[e]] \in Int /\ f[e] = g[b[e]] OBVIOUS
<1>5. (0 .. m) \ {0} = W OBVIOUS
<1>6. 0 \in 0 .. m OBVIOUS
<1>7. SumFunctionOnSet(g, 0 .. m) = g[0] + SumFunctionOnSet(g, (0 .. m) \ {0})
  BY <1>1, <1>6, SumTake
<1> HIDE DEF U, W, b
<1>8. SumFunctionOnSet(f, U) = SumFunctionOnSet(g, W)
  <2>1. Renames(b, U, W) BY <1>2, <1>3 DEF Renames
  <2> QED BY <1>1, <1>4, <2>1, SumReindex
<1>9. SumFunctionOnSet(f, U) \in Int BY <1>1, <1>4, SumInt
<1> QED BY <1>5, <1>7, <1>8, <1>9 DEF U

-----------------------------------------------------------------------------
(* Products of integers *)

ProductOn(f, S) == FoldFunctionOnSet(LAMBDA u, v : u * v, 1, f, S)

\* A table of the products over all subsets exists: by induction on finite sets.
LEMMA MultipliesExists ==
  ASSUME NEW S, IsFiniteSet(S), NEW f, \A x \in S : f[x] \in Int
  PROVE  \E h \in [SUBSET S -> Int] : Multiplies(h, f, S)
<1> DEFINE op == [e \in Int \X Int |-> e[1] * e[2]]
<1>1. op \in [Int \X Int -> Int] /\ \A u, v \in Int : op[<<u, v>>] = u * v
  <2>1. \A u, v \in Int : u * v \in Int OBVIOUS
  <2> QED BY <2>1
<1>2. 1 \in Int OBVIOUS
<1> HIDE DEF op
<1>3. PICK h \in [SUBSET S -> Int] : FoldsUp(h, f, op, 1, S) BY <1>1, <1>2, FoldsExists
<1>4. ASSUME NEW T \in SUBSET S, T # {}
      PROVE  op[<<f[Pick(T)], h[T \ {Pick(T)}]>>] = f[Pick(T)] * h[T \ {Pick(T)}]
  <2>1. f[Pick(T)] \in Int BY <1>4, PickIn
  <2>2. h[T \ {Pick(T)}] \in Int OBVIOUS
  <2> QED BY <1>1, <2>1, <2>2
<1>5. h = [T \in SUBSET S |-> IF T = {} THEN 1 ELSE f[Pick(T)] * h[T \ {Pick(T)}]]
  BY <1>3, <1>4 DEF FoldsUp
<1> QED BY <1>5 DEF Multiplies

\* The fold of a product, unfolded to the table it chooses.
LEMMA ProductOnIsChosen ==
  ASSUME NEW f, NEW S
  PROVE  ProductOn(f, S) = (CHOOSE h : Multiplies(h, f, S))[S]
BY DEF ProductOn, FoldFunctionOnSet, MapThenFoldSet, Multiplies, Pick

\* There is one only, also when it is cut down to the subsets of a subset.
LEMMA MultipliesUnique ==
  ASSUME NEW S, IsFiniteSet(S), NEW f, NEW g, NEW h, NEW U \in SUBSET S,
         Multiplies(h, f, S), Multiplies(g, f, U)
  PROVE  \A T \in SUBSET U : g[T] = h[T]
<1> DEFINE N == {n \in Nat : \A T \in SUBSET U : Cardinality(T) = n => g[T] = h[T]}
<1>1. \A T \in SUBSET U : Cardinality(T) \in Nat
  <2>1. IsFiniteSet(U) BY FS_Subset
  <2> QED BY <2>1, SubsetSizes
<1>2. 0 \in N
  <2>1. \A T \in SUBSET U : Cardinality(T) = 0 => T = {}
    <3>1. IsFiniteSet(U) BY FS_Subset
    <3> QED BY <3>1, SubsetSizes
  <2> QED BY <2>1 DEF Multiplies
<1>3. \A n \in Nat : n \in N => n + 1 \in N
  <2> SUFFICES ASSUME NEW n \in Nat, n \in N,
                      NEW T \in SUBSET U, Cardinality(T) = n + 1
               PROVE  g[T] = h[T]
    OBVIOUS
  <2>0. IsFiniteSet(U) BY FS_Subset
  <2>1. T # {} BY <2>0, SubsetSizes
  <2>2. Pick(T) \in T BY <2>1, PickIn
  <2>3. T \ {Pick(T)} \in SUBSET U /\ Cardinality(T \ {Pick(T)}) = n
    BY <2>0, <2>2, SubsetSizes
  <2>4. g[T \ {Pick(T)}] = h[T \ {Pick(T)}] BY <2>3
  <2>5. T \in SUBSET S OBVIOUS
  <2> QED BY <2>1, <2>4, <2>5 DEF Multiplies
<1> HIDE DEF N
<1>4. \A n \in Nat : n \in N BY <1>2, <1>3, NatSetInduction
<1> QED BY <1>1, <1>4 DEF N

\* So the products over the subsets of S are values of one function.
ProductsOf(f, S) ==
  \E h \in [SUBSET S -> Int] :
    Multiplies(h, f, S) /\ \A T \in SUBSET S : ProductOn(f, T) = h[T]

\* The products over all subsets of a finite set satisfy the equations of a product.
LEMMA ProductIsMultiplies ==
  ASSUME NEW S, IsFiniteSet(S), NEW f, \A x \in S : f[x] \in Int
  PROVE  ProductsOf(f, S)
<1>1. PICK h \in [SUBSET S -> Int] : Multiplies(h, f, S) BY MultipliesExists
<1>2. ASSUME NEW T \in SUBSET S PROVE ProductOn(f, T) = h[T]
  <2>1. IsFiniteSet(T) BY FS_Subset
  <2>2. \E g : Multiplies(g, f, T) BY <2>1, MultipliesExists
  <2>3. Multiplies(CHOOSE g : Multiplies(g, f, T), f, T) BY <2>2
  <2>4. (CHOOSE g : Multiplies(g, f, T))[T] = h[T] BY <1>1, <2>3, MultipliesUnique
  <2> QED BY <2>4, ProductOnIsChosen
<1> QED BY <1>1, <1>2 DEF ProductsOf

\* A product of nothing is 1.
LEMMA ProductEmpty == ASSUME NEW f PROVE ProductOn(f, {}) = 1
<1>1. IsFiniteSet({}) BY FS_EmptySet
<1>2. ProductsOf(f, {}) BY <1>1, ProductIsMultiplies
<1> QED BY <1>2 DEF Multiplies, ProductsOf

\* A product of integers is an integer.
LEMMA ProductOnInt ==
  ASSUME NEW S, IsFiniteSet(S), NEW f, \A x \in S : f[x] \in Int
  PROVE  ProductOn(f, S) \in Int
<1>1. ProductsOf(f, S) BY ProductIsMultiplies
<1> QED BY <1>1 DEF ProductsOf

\* Any element can be taken out first.
LEMMA ProductTake ==
  ASSUME NEW S, IsFiniteSet(S), NEW f, \A x \in S : f[x] \in Int, NEW x \in S
  PROVE  ProductOn(f, S) = f[x] * ProductOn(f, S \ {x})
<1>1. PICK h \in [SUBSET S -> Int] :
        Multiplies(h, f, S) /\ \A T \in SUBSET S : ProductOn(f, T) = h[T]
  <2>1. ProductsOf(f, S) BY ProductIsMultiplies
  <2> QED BY <2>1 DEF ProductsOf
<1> DEFINE N == {n \in Nat : \A T \in SUBSET S : Cardinality(T) = n =>
                               \A y \in T : h[T] = f[y] * h[T \ {y}]}
<1>2. \A T \in SUBSET S : Cardinality(T) \in Nat BY SubsetSizes
<1>3. 0 \in N BY SubsetSizes
<1>4. \A n \in Nat : n \in N => n + 1 \in N
  <2>0. \A n \in Nat : n + 1 \in Nat OBVIOUS
  <2> SUFFICES ASSUME NEW n \in Nat, n \in N, NEW T \in SUBSET S,
                      Cardinality(T) = n + 1, NEW y \in T
               PROVE  h[T] = f[y] * h[T \ {y}]
    BY <2>0, Zenon
  <2> DEFINE p == Pick(T)
  <2>1. p \in T BY PickIn
  <2>2. h[T] = f[p] * h[T \ {p}] BY <1>1, <2>1 DEF Multiplies
  <2>3. CASE y = p BY <2>2, <2>3
  <2>4. CASE y # p
    <3>1. Cardinality(T \ {p}) = n /\ Cardinality(T \ {y}) = n
      BY <2>1, SubsetSizes
    <3> HIDE DEF p
    <3>2. h[T \ {p}] = f[y] * h[(T \ {p}) \ {y}] BY <2>4, <3>1
    <3>3. h[T \ {y}] = f[p] * h[(T \ {y}) \ {p}] BY <2>1, <2>4, <3>1
    <3>4. (T \ {p}) \ {y} = (T \ {y}) \ {p} OBVIOUS
    <3>5. /\ f[p] \in Int /\ f[y] \in Int /\ h[(T \ {y}) \ {p}] \in Int
      BY <2>1
    <3>6. \A a, b, c \in Int : a * (b * c) = b * (a * c) OBVIOUS
    <3>7. h[T] = f[p] * (f[y] * h[(T \ {y}) \ {p}]) BY <2>2, <3>2, <3>4
    <3>8. f[p] * (f[y] * h[(T \ {y}) \ {p}]) = f[y] * (f[p] * h[(T \ {y}) \ {p}])
      BY <3>5, <3>6
    <3> QED BY <3>3, <3>7, <3>8
  <2> QED BY <2>3, <2>4
<1> HIDE DEF N
<1>5. \A n \in Nat : n \in N BY <1>3, <1>4, NatSetInduction
<1>6. h[S] = f[x] * h[S \ {x}] BY <1>2, <1>5 DEF N
<1> QED BY <1>1, <1>6

\* So is the product over a part.
LEMMA ProductPart ==
  ASSUME NEW S, IsFiniteSet(S), NEW f, \A x \in S : f[x] \in Int, NEW T \in SUBSET S
  PROVE  ProductOn(f, T) \in Int
<1>1. IsFiniteSet(T) BY FS_Subset
<1>2. \A x \in T : f[x] \in Int OBVIOUS
<1> QED BY <1>1, <1>2, ProductOnInt

\* An element can be added.
LEMMA ProductAdd ==
  ASSUME NEW S, IsFiniteSet(S), NEW f, \A x \in S : f[x] \in Int,
         NEW T \in SUBSET S, NEW x \in S \ T
  PROVE  ProductOn(f, T \cup {x}) = f[x] * ProductOn(f, T)
<1>1. IsFiniteSet(T \cup {x}) BY FS_Subset
<1>2. (T \cup {x}) \ {x} = T OBVIOUS
<1>3. x \in T \cup {x} /\ \A y \in T \cup {x} : f[y] \in Int OBVIOUS
<1>4. ProductOn(f, T \cup {x})
        = f[x] * ProductOn(f, (T \cup {x}) \ {x})
  BY <1>1, <1>3, ProductTake
<1> QED BY <1>2, <1>4

\* Equal factors have equal products.
LEMMA ProductEqual ==
  ASSUME NEW S, IsFiniteSet(S), NEW f, NEW g,
         \A x \in S : f[x] \in Int /\ g[x] = f[x]
  PROVE  ProductOn(f, S) = ProductOn(g, S)
<1> DEFINE P == {T \in SUBSET S : ProductOn(f, T) = ProductOn(g, T)}
<1>1. {} \in P BY ProductEmpty
<1>2. ASSUME NEW T \in SUBSET S, T \in P, NEW x \in S \ T PROVE T \cup {x} \in P
  <2>1. ProductOn(f, T \cup {x}) = f[x] * ProductOn(f, T) BY ProductAdd
  <2>2. ProductOn(g, T \cup {x}) = g[x] * ProductOn(g, T) BY ProductAdd
  <2> QED BY <1>2, <2>1, <2>2
<1> HIDE DEF P
<1>3. S \in P BY <1>1, <1>2, SubsetInduction
<1> QED BY <1>3 DEF P

\* The product of the products.
LEMMA ProductTimes ==
  ASSUME NEW S, IsFiniteSet(S), NEW f, NEW g, NEW h,
         \A x \in S : f[x] \in Int /\ g[x] \in Int /\ h[x] = f[x] * g[x]
  PROVE  ProductOn(h, S) = ProductOn(f, S) * ProductOn(g, S)
<1> DEFINE P == {T \in SUBSET S : ProductOn(h, T)
                   = ProductOn(f, T) * ProductOn(g, T)}
<1>1. {} \in P BY ProductEmpty
<1>2. ASSUME NEW T \in SUBSET S, T \in P, NEW x \in S \ T PROVE T \cup {x} \in P
  <2>1. /\ ProductOn(f, T) \in Int
        /\ ProductOn(f, T \cup {x}) = f[x] * ProductOn(f, T)
    <3>1. \A y \in S : f[y] \in Int OBVIOUS
    <3>2. ProductOn(f, T) \in Int BY <3>1, ProductPart
    <3>3. ProductOn(f, T \cup {x}) = f[x] * ProductOn(f, T) BY <3>1, ProductAdd
    <3> QED BY <3>2, <3>3
  <2>2. /\ ProductOn(g, T) \in Int
        /\ ProductOn(g, T \cup {x}) = g[x] * ProductOn(g, T)
    <3>1. \A y \in S : g[y] \in Int OBVIOUS
    <3>2. ProductOn(g, T) \in Int BY <3>1, ProductPart
    <3>3. ProductOn(g, T \cup {x}) = g[x] * ProductOn(g, T) BY <3>1, ProductAdd
    <3> QED BY <3>2, <3>3
  <2>3. ProductOn(h, T \cup {x}) = h[x] * ProductOn(h, T)
    <3>1. \A y \in S : h[y] \in Int OBVIOUS
    <3> QED BY <3>1, ProductAdd
  <2>4. h[x] = f[x] * g[x] /\ f[x] \in Int /\ g[x] \in Int OBVIOUS
  <2>5. ProductOn(h, T)
          = ProductOn(f, T) * ProductOn(g, T)
    BY <1>2
  <2>6. \A a, b, c, d \in Int : (a * b) * (c * d) = (a * c) * (b * d) OBVIOUS
  <2>7. ProductOn(h, T \cup {x})
          = ProductOn(f, T \cup {x}) * ProductOn(g, T \cup {x})
    BY <2>1, <2>2, <2>3, <2>4, <2>5, <2>6
  <2> QED BY <2>7
<1> HIDE DEF P
<1>3. S \in P BY <1>1, <1>2, SubsetInduction
<1> QED BY <1>3 DEF P

\* The product over two sets that have no element in common.
LEMMA ProductUnion ==
  ASSUME NEW S, IsFiniteSet(S), NEW U, IsFiniteSet(U), S \cap U = {},
         NEW f, \A x \in S \cup U : f[x] \in Int
  PROVE  ProductOn(f, S \cup U)
           = ProductOn(f, S) * ProductOn(f, U)
<1> DEFINE P == {T \in SUBSET U : ProductOn(f, S \cup T)
                   = ProductOn(f, S) * ProductOn(f, T)}
<1>1. ProductOn(f, S) \in Int BY ProductOnInt
<1>2. {} \in P
  <2>1. S \cup {} = S OBVIOUS
  <2> QED BY <1>1, <2>1, ProductEmpty
<1>3. ASSUME NEW T \in SUBSET U, T \in P, NEW x \in U \ T PROVE T \cup {x} \in P
  <2>1. /\ ProductOn(f, T) \in Int
        /\ ProductOn(f, T \cup {x}) = f[x] * ProductOn(f, T)
    <3>1. \A y \in U : f[y] \in Int OBVIOUS
    <3>2. ProductOn(f, T) \in Int BY <3>1, ProductPart
    <3>3. ProductOn(f, T \cup {x}) = f[x] * ProductOn(f, T) BY <3>1, ProductAdd
    <3> QED BY <3>2, <3>3
  <2>2. ProductOn(f, (S \cup T) \cup {x}) = f[x] * ProductOn(f, S \cup T)
    <3>1. IsFiniteSet(S \cup U) BY FS_Union
    <3> DEFINE W == S \cup U
               V == S \cup T
    <3>2. V \in SUBSET W /\ x \in W \ V /\ \A y \in W : f[y] \in Int OBVIOUS
    <3> HIDE DEF W, V
    <3>3. ProductOn(f, V \cup {x}) = f[x] * ProductOn(f, V)
      BY <3>1, <3>2, ProductAdd DEF W
    <3> QED BY <3>3 DEF V
  <2>3. (S \cup T) \cup {x} = S \cup (T \cup {x}) OBVIOUS
  <2>4. \A a, b, c \in Int : a * (b * c) = b * (a * c) OBVIOUS
  <2>5. f[x] \in Int OBVIOUS
  <2>6. ProductOn(f, S \cup T)
          = ProductOn(f, S) * ProductOn(f, T)
    BY <1>3
  <2>7. ProductOn(f, S \cup (T \cup {x}))
          = ProductOn(f, S) * ProductOn(f, T \cup {x})
    <3> DEFINE a == f[x]
               b == ProductOn(f, S)
               c == ProductOn(f, T)
    <3>1. a \in Int /\ b \in Int /\ c \in Int BY <1>1, <2>1
    <3>2. ProductOn(f, S \cup (T \cup {x})) = a * (b * c)
      BY <2>2, <2>3, <2>6
    <3>3. ProductOn(f, T \cup {x}) = a * c BY <2>1
    <3> HIDE DEF a, b, c
    <3>4. ProductOn(f, S \cup (T \cup {x})) = b * (a * c)
      BY <2>4, <3>1, <3>2
    <3> QED BY <3>3, <3>4 DEF b
  <2> QED BY <2>7
<1> HIDE DEF P
<1>4. U \in P BY <1>2, <1>3, SubsetInduction
<1> QED BY <1>4 DEF P

\* The product does not depend on the names of the factors.
LEMMA ProductReindex ==
  ASSUME NEW S, IsFiniteSet(S), NEW U, NEW b, Renames(b, S, U),
         NEW f, NEW g, \A x \in S : f[b[x]] \in Int /\ g[x] = f[b[x]]
  PROVE  ProductOn(g, S) = ProductOn(f, U)
<1>a. /\ \A x \in S : b[x] \in U
      /\ \A u \in U : \E x \in S : b[x] = u
      /\ \A x, y \in S : b[x] = b[y] => x = y
  BY DEF Renames
<1> DEFINE Im(T) == {b[x] : x \in T}
           P == {T \in SUBSET S : ProductOn(g, T) = ProductOn(f, Im(T))}
<1>0. IsFiniteSet(Im(S))
  <2> DEFINE W == Im(S)
             h == [x \in S |-> b[x]]
  <2>1. h \in Surjection(S, W) BY DEF Surjection
  <2> HIDE DEF W, h
  <2>2. IsFiniteSet(W) BY <2>1, FS_Surjection
  <2> QED BY <2>2 DEF W
<1>1. {} \in P
  <2>1. Im({}) = {} OBVIOUS
  <2> QED BY <2>1, ProductEmpty
<1>2. ASSUME NEW T \in SUBSET S, T \in P, NEW x \in S \ T PROVE T \cup {x} \in P
  <2>1. ProductOn(g, T \cup {x}) = g[x] * ProductOn(g, T)
    <3>1. \A y \in S : g[y] \in Int OBVIOUS
    <3> QED BY <3>1, ProductAdd
  <2>2. Im(T \cup {x}) = Im(T) \cup {b[x]} OBVIOUS
  <2>3. b[x] \in Im(S) \ Im(T) /\ Im(T) \in SUBSET Im(S) BY <1>a
  <2>4. \A y \in Im(S) : f[y] \in Int OBVIOUS
  <2> DEFINE W == Im(S)
             V == Im(T)
             w == b[x]
  <2>5. ProductOn(f, V \cup {w}) = f[w] * ProductOn(f, V)
    <3>1. w \in W \ V /\ V \in SUBSET W /\ IsFiniteSet(W) /\ \A y \in W : f[y] \in Int
      BY <1>0, <2>3, <2>4
    <3> HIDE DEF W, V, w
    <3> QED BY <3>1, ProductAdd
  <2>6. g[x] = f[w] OBVIOUS
  <2> QED BY <1>2, <2>1, <2>2, <2>5, <2>6
<1>3. S \in P
  <2> HIDE DEF P
  <2> QED BY <1>1, <1>2, SubsetInduction
<1>4. Im(S) = U BY <1>a
<1> QED BY <1>3, <1>4
\* The product over the domain.
LEMMA ProductIs ==
  ASSUME NEW f, NEW S, DOMAIN f = S
  PROVE  FoldFunction(LAMBDA u, v : u * v, 1, f) = ProductOn(f, S)
BY DEF FoldFunction, ProductOn

\* One factor of 0 is enough.
LEMMA ProductZero ==
  ASSUME NEW S, IsFiniteSet(S), NEW f, \A x \in S : f[x] \in Int, NEW x \in S, f[x] = 0
  PROVE  ProductOn(f, S) = 0
<1>1. ProductOn(f, S) = f[x] * ProductOn(f, S \ {x}) BY ProductTake
<1>2. ProductOn(f, S \ {x}) \in Int
  <2>1. S \ {x} \in SUBSET S OBVIOUS
  <2> QED BY <2>1, ProductPart
<1>3. \A a \in Int : 0 * a = 0 OBVIOUS
<1> QED BY <1>1, <1>2, <1>3

\* Nothing but ones.
LEMMA ProductOnes ==
  ASSUME NEW S, IsFiniteSet(S), NEW f, \A x \in S : f[x] = 1
  PROVE  ProductOn(f, S) = 1
<1> DEFINE P == {T \in SUBSET S : ProductOn(f, T) = 1}
<1>1. {} \in P BY ProductEmpty
<1>2. ASSUME NEW T \in SUBSET S, T \in P, NEW x \in S \ T PROVE T \cup {x} \in P
  <2>1. ProductOn(f, T \cup {x}) = f[x] * ProductOn(f, T) BY ProductAdd
  <2>2. 1 * 1 = 1 OBVIOUS
  <2> QED BY <1>2, <2>1, <2>2
<1> HIDE DEF P
<1>3. S \in P BY <1>1, <1>2, SubsetInduction
<1> QED BY <1>3 DEF P

\* Nothing but ones, except one factor.
LEMMA ProductOnly ==
  ASSUME NEW S, IsFiniteSet(S), NEW f, NEW x \in S, f[x] \in Int,
         \A y \in S \ {x} : f[y] = 1
  PROVE  ProductOn(f, S) = f[x]
<1>1. \A y \in S : f[y] \in Int OBVIOUS
<1>2. ProductOn(f, S) = f[x] * ProductOn(f, S \ {x}) BY <1>1, ProductTake
<1>3. IsFiniteSet(S \ {x}) BY FS_Subset
<1>4. ProductOn(f, S \ {x}) = 1 BY <1>3, ProductOnes
<1>5. \A a \in Int : a * 1 = a OBVIOUS
<1> QED BY <1>2, <1>4, <1>5

\* Signs multiply: one for every element of U.
LEMMA ProductSigns ==
  ASSUME NEW S, IsFiniteSet(S), NEW U \in SUBSET S, NEW f,
         \A x \in S : f[x] = IF x \in U THEN -1 ELSE 1
  PROVE  ProductOn(f, S) = IF Cardinality(U) % 2 = 0 THEN 1 ELSE -1
<1> DEFINE P == {T \in SUBSET S :
                   ProductOn(f, T) = IF Cardinality(U \cap T) % 2 = 0 THEN 1 ELSE -1}
<1>1. {} \in P
  <2>1. U \cap {} = {} OBVIOUS
  <2>2. Cardinality(U \cap {}) = 0 BY <2>1, FS_EmptySet
  <2>3. 0 % 2 = 0 OBVIOUS
  <2> QED BY <2>2, <2>3, ProductEmpty
<1>2. ASSUME NEW T \in SUBSET S, T \in P, NEW x \in S \ T PROVE T \cup {x} \in P
  <2>1. ProductOn(f, T \cup {x}) = f[x] * ProductOn(f, T)
    <3>1. \A y \in S : f[y] \in Int OBVIOUS
    <3> QED BY <3>1, ProductAdd
  <2>2. IsFiniteSet(U \cap T) BY FS_Subset
  <2> DEFINE n == Cardinality(U \cap T)
             l == Cardinality(U \cap (T \cup {x}))
  <2>3. n \in Nat BY <2>2, FS_CardinalityType
  <2>4. CASE x \in U
    <3>1. U \cap (T \cup {x}) = (U \cap T) \cup {x} /\ x \notin U \cap T BY <2>4
    <3>2. l = n + 1
      <4>1. Cardinality((U \cap T) \cup {x}) = Cardinality(U \cap T) + 1
        BY <2>2, <3>1, FS_AddElement
      <4> QED BY <3>1, <4>1
    <3>3. f[x] = -1 BY <2>4
    <3>4. ProductOn(f, T) = IF n % 2 = 0 THEN 1 ELSE -1 BY <1>2
    <3> HIDE DEF n, l
    <3>5. n % 2 = 0 <=> (n + 1) % 2 # 0 BY <2>3
    <3>6. (-1) * 1 = -1 /\ (-1) * (-1) = 1 OBVIOUS
    <3>7. f[x] * ProductOn(f, T) = IF n % 2 = 0 THEN -1 ELSE 1 BY <3>3, <3>4, <3>6
    <3>8. ProductOn(f, T \cup {x}) = IF l % 2 = 0 THEN 1 ELSE -1
      BY <2>1, <3>2, <3>5, <3>7
    <3> QED BY <3>8 DEF l
  <2>5. CASE x \notin U
    <3>1. U \cap (T \cup {x}) = U \cap T BY <2>5
    <3>2. f[x] = 1 BY <2>5
    <3>3. 1 * 1 = 1 /\ 1 * (-1) = -1 OBVIOUS
    <3>4. ProductOn(f, T) = IF n % 2 = 0 THEN 1 ELSE -1 BY <1>2
    <3>5. ProductOn(f, T \cup {x}) = ProductOn(f, T) BY <2>1, <3>2, <3>3, <3>4
    <3> QED BY <3>1, <3>4, <3>5
  <2> QED BY <2>4, <2>5
<1> HIDE DEF P
<1>3. S \in P BY <1>1, <1>2, SubsetInduction
<1>4. U \cap S = U OBVIOUS
<1> QED BY <1>3, <1>4 DEF P

\* Congruent factors have congruent products.
LEMMA ProductCongruent ==
  ASSUME NEW S, IsFiniteSet(S), NEW q \in Nat, q > 0, NEW f, NEW g,
         \A x \in S : f[x] \in Int /\ g[x] \in Int /\ Congruent(q, f[x], g[x])
  PROVE  Congruent(q, ProductOn(f, S), ProductOn(g, S))
<1> DEFINE P == {T \in SUBSET S : Congruent(q, ProductOn(f, T), ProductOn(g, T))}
<1>1. {} \in P BY ProductEmpty, CongruentSame
<1>2. ASSUME NEW T \in SUBSET S, T \in P, NEW x \in S \ T PROVE T \cup {x} \in P
  <2>1. ProductOn(f, T) \in Int /\ ProductOn(f, T \cup {x}) = f[x] * ProductOn(f, T)
    <3>1. \A y \in S : f[y] \in Int OBVIOUS
    <3>2. ProductOn(f, T) \in Int BY <3>1, ProductPart
    <3>3. ProductOn(f, T \cup {x}) = f[x] * ProductOn(f, T) BY <3>1, ProductAdd
    <3> QED BY <3>2, <3>3
  <2>2. ProductOn(g, T) \in Int /\ ProductOn(g, T \cup {x}) = g[x] * ProductOn(g, T)
    <3>1. \A y \in S : g[y] \in Int OBVIOUS
    <3>2. ProductOn(g, T) \in Int BY <3>1, ProductPart
    <3>3. ProductOn(g, T \cup {x}) = g[x] * ProductOn(g, T) BY <3>1, ProductAdd
    <3> QED BY <3>2, <3>3
  <2>3. Congruent(q, ProductOn(f, T), ProductOn(g, T)) BY <1>2
  <2>4. f[x] \in Int /\ g[x] \in Int /\ Congruent(q, f[x], g[x]) OBVIOUS
  <2>5. Congruent(q, f[x] * ProductOn(f, T), g[x] * ProductOn(g, T))
    BY <2>1, <2>2, <2>3, <2>4, CongruentTimes
  <2> QED BY <2>1, <2>2, <2>5
<1> HIDE DEF P
<1>3. S \in P BY <1>1, <1>2, SubsetInduction
<1> QED BY <1>3 DEF P

-----------------------------------------------------------------------------
(* Signs *)

\* The pairs of a set of numbers, and what p does to their order.
Pairs(I) == {e \in I \X I : e[1] < e[2]}

Turns(p, I) == [e \in Pairs(I) |-> IF p[e[1]] < p[e[2]] THEN 1 ELSE -1]

\* The sign of a function that takes no value twice, on any set of numbers.
Sgn(p, I) == ProductOn(Turns(p, I), Pairs(I))

Injects(p, I) == /\ \A x \in I : p[x] \in Int
                 /\ \A x, y \in I : p[x] = p[y] => x = y

\* There are finitely many pairs.
LEMMA PairsFinite == ASSUME NEW I, IsFiniteSet(I) PROVE IsFiniteSet(Pairs(I))
<1>1. IsFiniteSet(I \X I) BY FS_Product
<1>2. Pairs(I) \subseteq I \X I BY DEF Pairs
<1> QED BY <1>1, <1>2, FS_Subset

\* Every pair is turned or not.
LEMMA TurnsType == ASSUME NEW I, NEW p PROVE \A e \in Pairs(I) : Turns(p, I)[e] \in {1, -1}
BY DEF Turns

\* A sign is 1 or -1.
LEMMA SgnType == ASSUME NEW I, IsFiniteSet(I), NEW p PROVE Sgn(p, I) \in {1, -1}
<1> DEFINE X == Pairs(I)
           f == Turns(p, I)
           P == {T \in SUBSET X : ProductOn(f, T) \in {1, -1}}
<1>1. IsFiniteSet(X) BY PairsFinite
<1>2. {} \in P BY ProductEmpty
<1>3. ASSUME NEW T \in SUBSET X, T \in P, NEW x \in X \ T PROVE T \cup {x} \in P
  <2>1. \A e \in X : f[e] \in {1, -1} BY TurnsType
  <2>2. \A e \in X : f[e] \in Int BY <2>1
  <2> HIDE DEF X, f
  <2>3. ProductOn(f, T \cup {x}) = f[x] * ProductOn(f, T) BY <1>1, <2>2, ProductAdd
  <2>4. \A a, b \in {1, -1} : a * b \in {1, -1} OBVIOUS
  <2>5. f[x] \in {1, -1} /\ ProductOn(f, T) \in {1, -1} BY <1>3, <2>1
  <2>6. ProductOn(f, T \cup {x}) \in {1, -1} BY <2>3, <2>4, <2>5
  <2> QED BY <2>6
<1> HIDE DEF P, X
<1>4. X \in P BY <1>1, <1>2, <1>3, SubsetInduction
<1> QED BY <1>4 DEF P, X, Sgn

\* The sign of a product of two functions is the product of their signs: a
\* pair is turned if exactly one of them turns it.
LEMMA SgnCompose ==
  ASSUME NEW I \in SUBSET Int, IsFiniteSet(I), NEW J \in SUBSET Int,
         NEW s, Renames(s, I, J), NEW t, Injects(t, J),
         NEW r, \A x \in I : r[x] = t[s[x]]
  PROVE  Sgn(r, I) = Sgn(t, J) * Sgn(s, I)
<1> DEFINE X == Pairs(I)
           Y == Pairs(J)
           b == [e \in X |-> IF s[e[1]] < s[e[2]] THEN <<s[e[1]], s[e[2]]>>
                             ELSE <<s[e[2]], s[e[1]]>>]
           g == [e \in X |-> Turns(t, J)[b[e]]]
<1>1. IsFiniteSet(X) BY PairsFinite
<1>2. /\ \A x \in I : s[x] \in J
      /\ \A u \in J : \E x \in I : s[x] = u
      /\ \A x, y \in I : s[x] = s[y] => x = y
  BY DEF Renames
<1>3. ASSUME NEW e \in X
      PROVE  /\ e[1] \in I /\ e[2] \in I /\ e[1] < e[2] /\ e = <<e[1], e[2]>>
             /\ s[e[1]] \in Int /\ s[e[2]] \in Int /\ s[e[1]] # s[e[2]]
             /\ s[e[1]] \in J /\ s[e[2]] \in J
             /\ b[e] \in Y
  <2>1. e[1] \in I /\ e[2] \in I /\ e[1] < e[2] /\ e = <<e[1], e[2]>> BY DEF Pairs
  <2>2. s[e[1]] \in J /\ s[e[2]] \in J BY <1>2, <2>1
  <2>3. s[e[1]] \in Int /\ s[e[2]] \in Int BY <2>2
  <2>4. e[1] # e[2] BY <2>1
  <2>5. s[e[1]] # s[e[2]] BY <1>2, <2>1, <2>4
  <2>6. s[e[1]] < s[e[2]] \/ s[e[2]] < s[e[1]] BY <2>3, <2>5
  <2>7. b[e] \in Y
    <3>1. b[e] = IF s[e[1]] < s[e[2]] THEN <<s[e[1]], s[e[2]]>>
                 ELSE <<s[e[2]], s[e[1]]>>
      OBVIOUS
    <3> QED BY <2>2, <2>6, <3>1 DEF Pairs
  <2> QED BY <2>1, <2>2, <2>3, <2>5, <2>7
<1>4. ASSUME NEW e \in X, NEW h \in X, b[e] = b[h] PROVE e = h
  <2>1. b[e] = IF s[e[1]] < s[e[2]] THEN <<s[e[1]], s[e[2]]>>
                 ELSE <<s[e[2]], s[e[1]]>>
    OBVIOUS
  <2>2. b[h] = IF s[h[1]] < s[h[2]] THEN <<s[h[1]], s[h[2]]>>
                 ELSE <<s[h[2]], s[h[1]]>>
    OBVIOUS
  <2>3. \/ s[e[1]] = s[h[1]] /\ s[e[2]] = s[h[2]]
        \/ s[e[1]] = s[h[2]] /\ s[e[2]] = s[h[1]]
    BY <1>4, <2>1, <2>2
  <2>4. /\ e[1] \in I /\ e[2] \in I /\ e[1] < e[2] /\ e = <<e[1], e[2]>>
        /\ h[1] \in I /\ h[2] \in I /\ h[1] < h[2] /\ h = <<h[1], h[2]>>
    BY <1>3
  <2>5. \/ e[1] = h[1] /\ e[2] = h[2]
        \/ e[1] = h[2] /\ e[2] = h[1]
    BY <1>2, <2>3, <2>4
  <2>6. e[1] \in Int /\ e[2] \in Int BY <2>4
  <2> QED BY <2>4, <2>5, <2>6
<1>5. ASSUME NEW u \in Y PROVE \E e \in X : b[e] = u
  <2>1. u[1] \in J /\ u[2] \in J /\ u[1] < u[2] /\ u = <<u[1], u[2]>> BY DEF Pairs
  <2>2. PICK x \in I : s[x] = u[1] BY <1>2, <2>1
  <2>3. PICK y \in I : s[y] = u[2] BY <1>2, <2>1
  <2>4. x \in Int /\ y \in Int /\ u[1] \in Int /\ u[2] \in Int BY <2>1
  <2>5. x # y BY <2>1, <2>2, <2>3, <2>4
  <2>6. CASE x < y
    <3>1. <<x, y>> \in X BY <2>6 DEF Pairs
    <3>2. b[<<x, y>>] = <<u[1], u[2]>> BY <2>1, <2>2, <2>3, <3>1
    <3> QED BY <2>1, <3>1, <3>2
  <2>7. CASE y < x
    <3>1. <<y, x>> \in X BY <2>7 DEF Pairs
    <3>2. ~ s[y] < s[x] BY <2>1, <2>2, <2>3, <2>4
    <3>3. b[<<y, x>>] = <<u[1], u[2]>> BY <2>1, <2>2, <2>3, <3>1, <3>2
    <3> QED BY <2>1, <3>1, <3>3
  <2> QED BY <2>4, <2>5, <2>6, <2>7
<1>6. Renames(b, X, Y) BY <1>3, <1>4, <1>5 DEF Renames
<1>7. \A e \in Y : Turns(t, J)[e] \in {1, -1} BY TurnsType
<1>8. \A e \in X : Turns(t, J)[b[e]] \in Int /\ g[e] = Turns(t, J)[b[e]]
  BY <1>3, <1>7
<1>9. ProductOn(g, X) = Sgn(t, J)
  <2> HIDE DEF X, Y, b, g
  <2>1. ProductOn(g, X) = ProductOn(Turns(t, J), Y) BY <1>1, <1>6, <1>8, ProductReindex
  <2> QED BY <2>1 DEF Sgn, Y
<1>10. ASSUME NEW e \in X
       PROVE  /\ g[e] \in Int /\ Turns(s, I)[e] \in Int
              /\ Turns(r, I)[e] = g[e] * Turns(s, I)[e]
  <2>1. /\ e[1] \in I /\ e[2] \in I /\ s[e[1]] # s[e[2]]
        /\ s[e[1]] \in J /\ s[e[2]] \in J
        /\ s[e[1]] \in Int /\ s[e[2]] \in Int /\ b[e] \in Y
    BY <1>3
  <2> DEFINE u == t[s[e[1]]]
             v == t[s[e[2]]]
  <2>2. u \in Int /\ v \in Int /\ u # v BY <2>1 DEF Injects
  <2>3. Turns(r, I)[e] = IF u < v THEN 1 ELSE -1 BY <2>1 DEF Turns
  <2>4. Turns(s, I)[e] = IF s[e[1]] < s[e[2]] THEN 1 ELSE -1 BY DEF Turns
  <2>5. g[e] = IF t[b[e][1]] < t[b[e][2]] THEN 1 ELSE -1 BY <2>1 DEF Turns
  <2>6. b[e] = IF s[e[1]] < s[e[2]] THEN <<s[e[1]], s[e[2]]>>
               ELSE <<s[e[2]], s[e[1]]>>
    OBVIOUS
  <2>7. 1 * 1 = 1 /\ (-1) * (-1) = 1 /\ 1 * (-1) = -1 /\ (-1) * 1 = -1 OBVIOUS
  <2>8. CASE s[e[1]] < s[e[2]]
    <3>1. g[e] = IF u < v THEN 1 ELSE -1 BY <2>5, <2>6, <2>8
    <3> HIDE DEF u, v, g, b
    <3> QED BY <2>3, <2>4, <2>7, <2>8, <3>1
  <2>9. CASE ~ s[e[1]] < s[e[2]]
    <3>1. g[e] = IF v < u THEN 1 ELSE -1 BY <2>5, <2>6, <2>9
    <3>2. v < u <=> ~ u < v BY <2>2
    <3> HIDE DEF u, v, g, b
    <3> QED BY <2>3, <2>4, <2>7, <2>9, <3>1, <3>2
  <2> QED BY <2>8, <2>9
<1> HIDE DEF X, g
<1>11. ProductOn(Turns(r, I), X) = ProductOn(g, X) * ProductOn(Turns(s, I), X)
  BY <1>1, <1>10, ProductTimes
<1> QED BY <1>9, <1>11 DEF Sgn, X

\* What turns no pair is even.
LEMMA SgnRising ==
  ASSUME NEW I, IsFiniteSet(I), NEW p,
         \A x, y \in I : x < y => p[x] < p[y]
  PROVE  Sgn(p, I) = 1
<1>1. IsFiniteSet(Pairs(I)) BY PairsFinite
<1>2. \A e \in Pairs(I) : Turns(p, I)[e] = 1 BY DEF Turns, Pairs
<1> QED BY <1>1, <1>2, ProductOnes DEF Sgn

\* The sign depends on the values only.
LEMMA SgnSame ==
  ASSUME NEW I, NEW p, NEW q, \A x \in I : p[x] = q[x]
  PROVE  Sgn(p, I) = Sgn(q, I)
<1>1. Turns(p, I) = Turns(q, I) BY DEF Turns, Pairs
<1> QED BY <1>1 DEF Sgn

\* The sign of the inverse.
LEMMA SgnInverse ==
  ASSUME NEW I \in SUBSET Int, IsFiniteSet(I), NEW J \in SUBSET Int,
         NEW s, Renames(s, I, J), NEW t, \A x \in I : t[s[x]] = x
  PROVE  Sgn(t, J) = Sgn(s, I)
<1> DEFINE r == [x \in I |-> x]
<1>1. Injects(t, J) BY DEF Injects, Renames
<1>2. \A x \in I : r[x] = t[s[x]] OBVIOUS
<1>3. Sgn(r, I) = 1
  <2>1. \A x, y \in I : x < y => r[x] < r[y] OBVIOUS
  <2> HIDE DEF r
  <2> QED BY <2>1, SgnRising
<1> HIDE DEF r
<1>4. 1 = Sgn(t, J) * Sgn(s, I) BY <1>1, <1>2, <1>3, SgnCompose
<1>5. Sgn(s, I) \in {1, -1} BY SgnType
<1>6. IsFiniteSet(J)
  <2> DEFINE h == [x \in I |-> s[x]]
  <2>1. h \in Surjection(I, J) BY DEF Surjection, Renames
  <2> HIDE DEF h
  <2> QED BY <2>1, FS_Surjection
<1>7. Sgn(t, J) \in {1, -1} BY <1>6, SgnType
<1> QED BY <1>4, <1>5, <1>7

\* Other names for the rows and columns do not change the sign.
LEMMA SgnRelabel ==
  ASSUME NEW I \in SUBSET Int, IsFiniteSet(I), NEW J \in SUBSET Int, IsFiniteSet(J),
         NEW s, Renames(s, I, J), NEW p, Renames(p, I, I), NEW q, Renames(q, J, J),
         \A x \in I : q[s[x]] = s[p[x]]
  PROVE  Sgn(q, J) = Sgn(p, I)
<1> DEFINE r == [x \in I |-> s[p[x]]]
<1>1. Injects(s, I) BY DEF Injects, Renames
<1>2. Injects(q, J) BY DEF Injects, Renames
<1>3. \A x \in I : r[x] = s[p[x]] /\ r[x] = q[s[x]] OBVIOUS
<1> HIDE DEF r
<1>4. Sgn(r, I) = Sgn(s, I) * Sgn(p, I) BY <1>1, <1>3, SgnCompose
<1>5. Sgn(r, I) = Sgn(q, J) * Sgn(s, I) BY <1>2, <1>3, SgnCompose
<1>6. Sgn(s, I) \in {1, -1} /\ Sgn(p, I) \in {1, -1} /\ Sgn(q, J) \in {1, -1}
  BY SgnType
<1> QED BY <1>4, <1>5, <1>6

-----------------------------------------------------------------------------
(* Permutations *)

\* A permutation of a finite set names every element of it once.
LEMMA BijectionRenames ==
  ASSUME NEW I, IsFiniteSet(I), NEW p \in Bijections(I)
  PROVE  Renames(p, I, I)
<1>1. p \in [I -> I] /\ \A x, y \in I : p[x] = p[y] => x = y BY DEF Bijections
<1>2. p \in Injection(I, I) BY <1>1 DEF Injection, IsInjective
<1>3. p \in Surjection(I, I) BY <1>2, FS_Injection
<1>4. \A u \in I : \E x \in I : p[x] = u BY <1>3 DEF Surjection
<1> QED BY <1>1, <1>4 DEF Renames

\* What names every element once is a permutation.
LEMMA RenamesBijection ==
  ASSUME NEW I, NEW p \in [I -> I], Renames(p, I, I)
  PROVE  p \in Bijections(I)
BY DEF Bijections, Renames

\* The sign counted in inversions is the product over the pairs.
LEMMA SignIs ==
  ASSUME NEW I \in SUBSET Int, IsFiniteSet(I), NEW p \in Bijections(I)
  PROVE  Sign(I, p) = Sgn(p, I)
<1> DEFINE X == Pairs(I)
           U == Inversions(I, p)
           f == Turns(p, I)
<1>1. IsFiniteSet(X) BY PairsFinite
<1>2. U \in SUBSET X BY DEF Inversions, Pairs
<1>3. \A e \in X : f[e] = IF e \in U THEN -1 ELSE 1
  <2> SUFFICES ASSUME NEW e \in X PROVE f[e] = IF e \in U THEN -1 ELSE 1 OBVIOUS
  <2>1. e[1] \in I /\ e[2] \in I /\ e[1] < e[2] /\ e \in I \X I BY DEF Pairs
  <2>0. e[1] \in Int /\ e[2] \in Int BY <2>1
  <2> HIDE DEF f, U, X
  <2>2. e[1] # e[2] BY <2>0, <2>1
  <2>3. p[e[1]] \in Int /\ p[e[2]] \in Int /\ p[e[1]] # p[e[2]]
    BY <2>1, <2>2 DEF Bijections
  <2>4. f[e] = IF p[e[1]] < p[e[2]] THEN 1 ELSE -1 BY DEF Turns, f, X
  <2>5. e \in U <=> p[e[1]] > p[e[2]] BY <2>1 DEF Inversions, U
  <2> HIDE DEF f, U, X
  <2> QED BY <2>3, <2>4, <2>5
<1> HIDE DEF X, U, f
<1>4. ProductOn(f, X) = IF Cardinality(U) % 2 = 0 THEN 1 ELSE -1
  BY <1>1, <1>2, <1>3, ProductSigns
<1> QED BY <1>4 DEF Sign, Sgn, X, U, f

\* A finite set of integers is bounded.
LEMMA FiniteBound ==
  ASSUME NEW I \in SUBSET Int, IsFiniteSet(I)
  PROVE  \E N \in Int : \A x \in I : x < N
<1> DEFINE P == {T \in SUBSET I : \E N \in Int : \A x \in T : x < N}
<1>1. {} \in P BY 0 \in Int
<1>2. ASSUME NEW T \in SUBSET I, T \in P, NEW x \in I \ T PROVE T \cup {x} \in P
  <2>1. PICK N \in Int : \A y \in T : y < N BY <1>2
  <2> DEFINE K == IF x < N THEN N ELSE x + 1
  <2>2. K \in Int /\ N <= K /\ x < K BY <2>1
  <2> HIDE DEF K
  <2>3. \A y \in T \cup {x} : y < K BY <2>1, <2>2
  <2> QED BY <2>2, <2>3
<1> HIDE DEF P
<1>3. I \in P BY <1>1, <1>2, SubsetInduction
<1> QED BY <1>3 DEF P

\* The sign of what rises except that it leaves one last element in place.
LEMMA SgnTop ==
  ASSUME NEW I \in SUBSET Int, IsFiniteSet(I), NEW N \in Int, \A x \in I : x < N,
         NEW p, \A x \in I : p[x] \in I, p[N] = N
  PROVE  Sgn(p, I \cup {N}) = Sgn(p, I)
<1> DEFINE J == I \cup {N}
           X == Pairs(I)
           Y == {e \in Pairs(J) : e[2] = N}
           f == Turns(p, J)
           g == Turns(p, I)
<1>0. IsFiniteSet(J)
  BY FS_AddElement
<1>1. Pairs(J) = X \cup Y
  <2>1. ASSUME NEW e \in Pairs(J) PROVE e \in X \cup Y
    <3>1. e \in J \X J /\ e[1] < e[2] BY DEF Pairs
    <3>2. e[1] \in J /\ e[2] \in J /\ e = <<e[1], e[2]>> BY <3>1
    <3>3. CASE e[2] = N BY <3>3
    <3>4. CASE e[2] # N
      <4>1. e[2] \in I BY <3>2, <3>4
      <4>0. e[1] < e[2] /\ e[2] < N /\ e[2] \in Int BY <3>1, <4>1
      <4>2. e[1] # N
        <5> HIDE DEF J, X, Y, f, g
        <5> QED BY <4>0
      <4>3. e[1] \in I BY <3>2, <4>2
      <4>4. e \in I \X I BY <3>2, <4>1, <4>3
      <4> QED BY <3>1, <4>4 DEF Pairs
    <3> QED BY <3>3, <3>4
  <2>2. X \subseteq Pairs(J) BY DEF Pairs
  <2> QED BY <2>1, <2>2
<1>2. X \cap Y = {} BY DEF Pairs
<1>3. IsFiniteSet(X) /\ IsFiniteSet(Y)
  <2>1. IsFiniteSet(X) BY PairsFinite
  <2>2. IsFiniteSet(Pairs(J)) BY <1>0, PairsFinite
  <2>3. Y \subseteq Pairs(J) OBVIOUS
  <2> QED BY <2>1, <2>2, <2>3, FS_Subset
<1>4. \A e \in Y : f[e] = 1
  <2> SUFFICES ASSUME NEW e \in Y PROVE f[e] = 1 OBVIOUS
  <2>1. e \in Pairs(J) /\ e[2] = N OBVIOUS
  <2>2. e[1] \in J /\ e[1] < N /\ e[1] # N BY <2>1 DEF Pairs
  <2>3. e[1] \in I BY <2>2
  <2>4. p[e[1]] < N BY <2>3
  <2> QED BY <2>1, <2>4 DEF Turns
<1>5. \A e \in X : f[e] \in {1, -1} /\ g[e] = f[e]
  <2>1. X \subseteq Pairs(J) BY DEF Pairs
  <2> QED BY <2>1 DEF Turns
<1>6. \A e \in X \cup Y : f[e] \in Int
  <2> HIDE DEF X, Y, f, g
  <2> QED BY <1>4, <1>5
<1>7. \A e \in X : f[e] \in Int /\ g[e] = f[e] BY <1>5
<1> HIDE DEF X, Y, f, g
<1>8. ProductOn(f, X \cup Y) = ProductOn(f, X) * ProductOn(f, Y)
  BY <1>2, <1>3, <1>6, ProductUnion
<1>9. ProductOn(f, Y) = 1 BY <1>3, <1>4, ProductOnes
<1>10. ProductOn(f, X) = ProductOn(g, X) BY <1>3, <1>7, ProductEqual
<1>11. ProductOn(f, X) \in Int BY <1>3, <1>7, ProductOnInt
<1>12. \A a \in Int : a * 1 = a OBVIOUS
<1>13. ProductOn(f, Pairs(J)) = ProductOn(g, X) BY <1>1, <1>8, <1>9, <1>10, <1>11, <1>12
<1> QED BY <1>13 DEF Sgn, f, g, X

\* An element left in place does not count.
LEMMA SgnFixed ==
  ASSUME NEW I \in SUBSET Int, IsFiniteSet(I), NEW p, Renames(p, I, I),
         NEW w \in I, p[w] = w
  PROVE  Sgn(p, I) = Sgn(p, I \ {w})
<1> DEFINE K == I \ {w}
<1>1. PICK N \in Int : \A x \in I : x < N BY FiniteBound
<1> DEFINE J == K \cup {N}
           s == [x \in I |-> IF x = w THEN N ELSE x]
           q == [y \in J |-> IF y = N THEN N ELSE p[y]]
<1>2. /\ \A x \in I : p[x] \in I
      /\ \A u \in I : \E x \in I : p[x] = u
      /\ \A x, y \in I : p[x] = p[y] => x = y
  BY DEF Renames
<1>3. N \notin I BY <1>1
<1>4. IsFiniteSet(K) /\ K \in SUBSET Int BY FS_Subset
<1>5. IsFiniteSet(J) /\ J \in SUBSET Int BY <1>4, FS_AddElement
<1>6. \A x \in K : p[x] \in K BY <1>2
<1>7. \A u \in K : \E x \in K : p[x] = u
  <2> TAKE u \in K
  <2>1. PICK x \in I : p[x] = u BY <1>2
  <2>2. x # w BY <2>1
  <2> QED BY <2>1, <2>2
<1>8. Renames(s, I, J)
  <2>1. \A x \in I : s[x] \in J OBVIOUS
  <2>2. \A u \in J : \E x \in I : s[x] = u
    <3> TAKE u \in J
    <3>1. CASE u = N
      <4>1. s[w] = u BY <3>1
      <4> QED BY <4>1
    <3>2. CASE u # N
      <4>1. u \in I /\ s[u] = u BY <3>2
      <4> QED BY <4>1
    <3> QED BY <3>1, <3>2
  <2>3. \A x, y \in I : s[x] = s[y] => x = y BY <1>3
  <2> HIDE DEF s, J
  <2> QED BY <2>1, <2>2, <2>3 DEF Renames
<1>9. q[N] = N /\ \A y \in K : q[y] = p[y] /\ q[y] \in K BY <1>3, <1>6
<1>10. Renames(q, J, J)
  <2>1. \A y \in J : q[y] \in J BY <1>9
  <2>2. \A u \in J : \E y \in J : q[y] = u
    <3> HIDE DEF q
    <3> QED BY <1>7, <1>9
  <2>3. \A y, z \in J : q[y] = q[z] => y = z
    <3> HIDE DEF q
    <3> SUFFICES ASSUME NEW y \in J, NEW z \in J, q[y] = q[z] PROVE y = z OBVIOUS
    <3>1. CASE y = N /\ z = N BY <3>1
    <3>2. CASE y = N /\ z \in K BY <1>3, <1>9, <3>2
    <3>3. CASE y \in K /\ z = N BY <1>3, <1>9, <3>3
    <3>4. CASE y \in K /\ z \in K BY <1>2, <1>9, <3>4
    <3> QED BY <3>1, <3>2, <3>3, <3>4
  <2> HIDE DEF q, J
  <2> QED BY <2>1, <2>2, <2>3 DEF Renames
<1>11. \A x \in I : q[s[x]] = s[p[x]]
  <2> SUFFICES ASSUME NEW x \in I PROVE q[s[x]] = s[p[x]] OBVIOUS
  <2>1. CASE x = w BY <1>9, <2>1
  <2>2. CASE x # w
    <3>1. x \in K /\ s[x] = x BY <2>2
    <3>2. p[x] \in K BY <1>6, <3>1
    <3>3. s[p[x]] = p[x] BY <3>2
    <3> QED BY <1>9, <3>1, <3>3
  <2> QED BY <2>1, <2>2
<1>12. \A x \in K : x < N BY <1>1
<1> HIDE DEF s
<1>13. Sgn(q, J) = Sgn(p, I)
  <2> HIDE DEF q, J, K
  <2> QED BY <1>5, <1>8, <1>10, <1>11, SgnRelabel
<1>14. Sgn(q, J) = Sgn(q, K)
  <2>1. \A x \in K : q[x] \in K BY <1>9
  <2> HIDE DEF q, K
  <2> QED BY <1>1, <1>4, <1>9, <1>12, <2>1, SgnTop
<1>15. Sgn(q, K) = Sgn(p, K)
  <2>1. \A x \in K : q[x] = p[x] BY <1>9
  <2> HIDE DEF q, K
  <2> QED BY <2>1, SgnSame
<1> QED BY <1>13, <1>14, <1>15

\* The exchange of two numbers.
Swap(a, b) == [x \in Int |-> IF x = a THEN b ELSE IF x = b THEN a ELSE x]

\* An exchange within a set names its elements anew.
LEMMA SwapRenames ==
  ASSUME NEW I \in SUBSET Int, NEW a \in I, NEW b \in I
  PROVE  /\ Renames(Swap(a, b), I, I)
         /\ \A x \in I : Swap(a, b)[Swap(a, b)[x]] = x
<1> DEFINE s == Swap(a, b)
<1>1. \A x \in I : s[x] = IF x = a THEN b ELSE IF x = b THEN a ELSE x BY DEF Swap
<1> HIDE DEF s
<1>2. \A x \in I : s[x] \in I BY <1>1
<1>3. \A x \in I : s[s[x]] = x
  <2> SUFFICES ASSUME NEW x \in I PROVE s[s[x]] = x OBVIOUS
  <2>1. CASE x = a BY <1>1, <2>1
  <2>2. CASE x = b BY <1>1, <2>2
  <2>3. CASE x # a /\ x # b BY <1>1, <2>3
  <2> QED BY <2>1, <2>2, <2>3
<1>4. Renames(s, I, I)
  <2>1. \A u \in I : \E x \in I : s[x] = u BY <1>2, <1>3
  <2>2. \A x, y \in I : s[x] = s[y] => x = y
    <3> SUFFICES ASSUME NEW x \in I, NEW y \in I, s[x] = s[y] PROVE x = y OBVIOUS
    <3>1. s[s[x]] = x /\ s[s[y]] = y BY <1>3
    <3> QED BY <3>1
  <2> QED BY <1>2, <2>1, <2>2 DEF Renames
<1> QED BY <1>3, <1>4 DEF s

\* An exchange is odd.
LEMMA SgnSwap ==
  ASSUME NEW I \in SUBSET Int, IsFiniteSet(I), NEW a \in I, NEW b \in I, a # b
  PROVE  Sgn(Swap(a, b), I) = -1
<1> DEFINE K == I \ {a, b}
<1>1. PICK N \in Int : \A x \in I : x < N BY FiniteBound
<1> DEFINE O == N + 1
           J == K \cup {N, O}
           s == [x \in I |-> IF x = a THEN N ELSE IF x = b THEN O ELSE x]
           t == Swap(a, b)
           q == Swap(N, O)
<1>2. N \notin I /\ O \notin I /\ O \in Int /\ N < O /\ N # O /\ \A x \in I : x < O BY <1>1
<1>3. J \in SUBSET Int /\ N \in J /\ O \in J BY <1>2
<1>4. IsFiniteSet(J)
  <2>1. IsFiniteSet(K) BY FS_Subset
  <2>2. IsFiniteSet(K \cup {N}) BY <2>1, FS_AddElement
  <2>3. IsFiniteSet((K \cup {N}) \cup {O}) BY <2>2, FS_AddElement
  <2>4. J = (K \cup {N}) \cup {O} OBVIOUS
  <2> QED BY <2>3, <2>4
<1>5. Renames(t, I, I) BY SwapRenames
<1>6. Renames(q, J, J)
  <2> HIDE DEF J, q, O
  <2> QED BY <1>3, SwapRenames DEF q
<1>7. Renames(s, I, J)
  <2>1. \A x \in I : s[x] \in J OBVIOUS
  <2>2. \A u \in J : \E x \in I : s[x] = u
    <3> TAKE u \in J
    <3>1. CASE u = N
      <4>1. s[a] = u BY <3>1
      <4> QED BY <4>1
    <3>2. CASE u = O
      <4>1. s[b] = u BY <3>2
      <4> QED BY <4>1
    <3>3. CASE u \in K
      <4>1. u \in I /\ s[u] = u BY <3>3
      <4> QED BY <4>1
    <3> QED BY <3>1, <3>2, <3>3
  <2>3. \A x, y \in I : s[x] = s[y] => x = y
    <3> HIDE DEF O
    <3> QED BY <1>2
  <2> HIDE DEF s, J
  <2> QED BY <2>1, <2>2, <2>3 DEF Renames
<1>8. \A x \in I : q[s[x]] = s[t[x]]
  <2>1. \A y \in Int : q[y] = IF y = N THEN O ELSE IF y = O THEN N ELSE y
    BY DEF Swap
  <2>2. \A x \in I : t[x] = IF x = a THEN b ELSE IF x = b THEN a ELSE x BY DEF Swap
  <2>3. \A x \in I : s[x] = IF x = a THEN N ELSE IF x = b THEN O ELSE x OBVIOUS
  <2> HIDE DEF q, t, s, O
  <2> SUFFICES ASSUME NEW x \in I PROVE q[s[x]] = s[t[x]] OBVIOUS
  <2>4. CASE x = a
    <3>1. s[x] = N /\ t[x] = b BY <2>2, <2>3, <2>4
    <3>2. s[b] = O BY <2>3
    <3> QED BY <1>1, <2>1, <3>1, <3>2
  <2>5. CASE x = b
    <3>1. s[x] = O /\ t[x] = a BY <2>2, <2>3, <2>5
    <3>2. s[a] = N BY <2>3
    <3>3. q[O] = N BY <1>2, <2>1
    <3> QED BY <3>1, <3>2, <3>3
  <2>6. CASE x # a /\ x # b
    <3>1. s[x] = x /\ t[x] = x BY <2>2, <2>3, <2>6
    <3>2. x # N /\ x # O /\ x \in Int BY <1>2
    <3> QED BY <2>1, <3>1, <3>2
  <2> QED BY <2>4, <2>5, <2>6
<1>9. Sgn(q, J) = Sgn(t, I)
  <2> HIDE DEF q, J, t, s
  <2> QED BY <1>3, <1>4, <1>5, <1>6, <1>7, <1>8, SgnRelabel
<1> DEFINE e == <<N, O>>
           f == Turns(q, J)
           X == Pairs(J)
<1>10. e \in X BY <1>2, <1>3 DEF Pairs
<1>11. q[N] = O /\ q[O] = N /\ \A y \in K : q[y] = y BY <1>1, <1>2 DEF Swap
<1>12. f[e] = -1
  <2>1. ~ O < N BY <1>2
  <2>2. e[1] = N /\ e[2] = O OBVIOUS
  <2> HIDE DEF q, O
  <2> QED BY <1>10, <1>11, <2>1, <2>2 DEF Turns
<1>13. \A h \in X \ {e} : f[h] = 1
  <2> SUFFICES ASSUME NEW h \in X \ {e} PROVE f[h] = 1 OBVIOUS
  <2>1. h[1] \in J /\ h[2] \in J /\ h[1] < h[2] /\ h = <<h[1], h[2]>> /\ h # e
    BY DEF Pairs
  <2>2. h[1] \in Int /\ h[2] \in Int BY <1>3, <2>1
  <2>3. \A y \in K : y \in Int /\ y < N /\ y < O BY <1>1, <1>2
  <2>4. q[h[1]] < q[h[2]]
    <3> HIDE DEF q, O, e
    <3>1. h[1] \in K
      <4>1. h[1] # O
        <5>1. \A y \in J : y <= O
          <6> HIDE DEF K
          <6> QED BY <1>1, <1>2, <2>3
        <5>2. h[2] <= O BY <2>1, <5>1
        <5> QED BY <1>2, <2>1, <2>2, <5>2
      <4>2. h[1] # N
        <5>1. ASSUME h[1] = N PROVE FALSE
          <6>1. h[2] \notin K BY <2>1, <2>3, <5>1, <2>2, <1>1
          <6>2. h[2] # N BY <2>1, <2>2, <5>1
          <6>3. h[2] = O BY <2>1, <6>1, <6>2
          <6> QED BY <2>1, <5>1, <6>3 DEF e
        <5> QED BY <5>1
      <4> QED BY <2>1, <4>1, <4>2
    <3>2. q[h[1]] = h[1] BY <1>11, <3>1
    <3>3. CASE h[2] \in K BY <1>11, <2>1, <3>2, <3>3
    <3>4. CASE h[2] = N BY <1>11, <2>3, <3>1, <3>2, <3>4
    <3>5. CASE h[2] = O BY <1>11, <2>3, <3>1, <3>2, <3>5
    <3> QED BY <2>1, <3>3, <3>4, <3>5
  <2> HIDE DEF q
  <2> QED BY <2>4 DEF Turns
<1>14. IsFiniteSet(X) BY <1>4, PairsFinite
<1> HIDE DEF f, e, X, q, J
<1>15. f[e] \in Int BY <1>12
<1>16. ProductOn(f, X) = f[e] BY <1>10, <1>13, <1>14, <1>15, ProductOnly
<1>17. Sgn(q, J) = -1 BY <1>12, <1>16 DEF Sgn, f, X
<1> QED BY <1>9, <1>17 DEF t

-----------------------------------------------------------------------------
(* The determinant *)

\* g is f under other names.
Carries(g, f, b, S) == \A x \in S : f[b[x]] \in Int /\ g[x] = f[b[x]]

\* The product under other names.
LEMMA ProductCarried ==
  ASSUME NEW S, IsFiniteSet(S), NEW U, NEW b, Renames(b, S, U),
         NEW f, NEW g, Carries(g, f, b, S)
  PROVE  ProductOn(g, S) = ProductOn(f, U)
BY ProductReindex DEF Carries

\* The sum under other names.
LEMMA SumCarried ==
  ASSUME NEW S, IsFiniteSet(S), NEW U, NEW b, Renames(b, S, U),
         NEW f, NEW g, Carries(g, f, b, S)
  PROVE  SumFunctionOnSet(g, S) = SumFunctionOnSet(f, U)
BY SumReindex DEF Carries

-----------------------------------------------------------------------------
(* Determinants *)

\* There are finitely many bijections.
LEMMA BijectionsFinite ==
  ASSUME NEW I, IsFiniteSet(I)
  PROVE  IsFiniteSet(Bijections(I))
<1> DEFINE F == [I -> I]
           G == SUBSET (I \X I)
           graph == [p \in F |-> {<<s, p[s]>> : s \in I}]
<1>1. IsFiniteSet(G)
  <2>1. IsFiniteSet(I \X I) BY FS_Product
  <2> QED BY <2>1, FS_SUBSET
<1>2. graph \in [F -> G] OBVIOUS
<1>3. ASSUME NEW p \in F, NEW q \in F, graph[p] = graph[q] PROVE p = q
  <2>1. ASSUME NEW s \in I PROVE p[s] = q[s]
    <3>1. <<s, p[s]>> \in graph[p] OBVIOUS
    <3>2. <<s, p[s]>> \in graph[q] BY <1>3, <3>1
    <3>3. PICK w \in I : <<s, p[s]>> = <<w, q[w]>> BY <3>2
    <3> QED BY <3>3
  <2>2. \A s \in I : p[s] = q[s] BY <2>1
  <2> QED BY <2>2, SameFunction
<1> HIDE DEF F, G, graph
<1>4. graph \in Injection(F, G) BY <1>2, <1>3 DEF Injection, IsInjective
<1>5. IsFiniteSet(F) BY <1>1, <1>4, FS_Injection DEF ExistsInjection
<1>6. Bijections(I) \subseteq F BY DEF Bijections, F
<1> QED BY <1>5, <1>6, FS_Subset

\* The entries that a permutation selects, and the terms of a determinant.
Square(A, I) == \A x, y \in I : A[x][y] \in Int

Entries(A, I, p) == [x \in I |-> A[x][p[x]]]

LeibnizTerm(A, I, p) == Sgn(p, I) * ProductOn(Entries(A, I, p), I)

LeibnizTerms(A, I) == [p \in Bijections(I) |-> LeibnizTerm(A, I, p)]

\* The selected entries are integers.
LEMMA EntriesInt ==
  ASSUME NEW I, NEW A, Square(A, I), NEW p, \A x \in I : p[x] \in I
  PROVE  \A x \in I : Entries(A, I, p)[x] \in Int
BY DEF Square, Entries

\* A term of a determinant is an integer.
LEMMA LeibnizTermInt ==
  ASSUME NEW I, IsFiniteSet(I), NEW A, Square(A, I), NEW p \in Bijections(I)
  PROVE  LeibnizTerm(A, I, p) \in Int
<1>1. \A x \in I : p[x] \in I BY DEF Bijections
<1>2. ProductOn(Entries(A, I, p), I) \in Int BY <1>1, EntriesInt, ProductOnInt
<1>3. Sgn(p, I) \in Int BY SgnType
<1>4. \A u, v \in Int : u * v \in Int OBVIOUS
<1> QED BY <1>2, <1>3, <1>4 DEF LeibnizTerm

\* A determinant is the sum of its terms.
LEMMA LeibnizIs ==
  ASSUME NEW I \in SUBSET Int, IsFiniteSet(I), NEW A
  PROVE  Leibniz(A, I) = SumFunctionOnSet(LeibnizTerms(A, I), Bijections(I))
<1> DEFINE f == [p \in Bijections(I) |->
                   Sign(I, p) * FoldFunction(LAMBDA u, v : u * v, 1, [x \in I |-> A[x][p[x]]])]
<1>1. ASSUME NEW p \in Bijections(I) PROVE f[p] = LeibnizTerms(A, I)[p]
  <2>1. Sign(I, p) = Sgn(p, I) BY SignIs
  <2>2. DOMAIN Entries(A, I, p) = I BY DEF Entries
  <2>3. FoldFunction(LAMBDA u, v : u * v, 1, Entries(A, I, p)) = ProductOn(Entries(A, I, p), I)
    BY <2>2, ProductIs
  <2>4. FoldFunction(LAMBDA u, v : u * v, 1, [x \in I |-> A[x][p[x]]])
          = ProductOn(Entries(A, I, p), I)
    BY <2>3 DEF Entries
  <2> QED BY <2>1, <2>4 DEF LeibnizTerms, LeibnizTerm
<1>2. f = LeibnizTerms(A, I) BY <1>1 DEF LeibnizTerms
<1>3. DOMAIN f = Bijections(I) OBVIOUS
<1>4. Leibniz(A, I) = SumFunction(f) BY DEF Leibniz
<1> HIDE DEF f
<1>5. SumFunction(f) = SumFunctionOnSet(f, Bijections(I)) BY <1>3, SumIs
<1> QED BY <1>2, <1>4, <1>5

\* The terms are integers.
LEMMA LeibnizTermsInt ==
  ASSUME NEW I, IsFiniteSet(I), NEW A, Square(A, I)
  PROVE  \A p \in Bijections(I) : LeibnizTerms(A, I)[p] \in Int
BY LeibnizTermInt DEF LeibnizTerms

\* So is the determinant.
LEMMA LeibnizInt ==
  ASSUME NEW I \in SUBSET Int, IsFiniteSet(I), NEW A, Square(A, I)
  PROVE  Leibniz(A, I) \in Int
<1>1. IsFiniteSet(Bijections(I)) BY BijectionsFinite
<1>2. \A p \in Bijections(I) : LeibnizTerms(A, I)[p] \in Int BY LeibnizTermsInt
<1>3. SumFunctionOnSet(LeibnizTerms(A, I), Bijections(I)) \in Int BY <1>1, <1>2, SumInt
<1> QED BY <1>3, LeibnizIs

\* It depends on the rows and columns in I only.
LEMMA LeibnizSame ==
  ASSUME NEW I, NEW A, NEW B, \A x, y \in I : A[x][y] = B[x][y]
  PROVE  Leibniz(A, I) = Leibniz(B, I)
<1> DEFINE f(X, p) == FoldFunction(LAMBDA u, v : u * v, 1, [x \in I |-> X[x][p[x]]])
<1>1. ASSUME NEW p \in Bijections(I) PROVE f(A, p) = f(B, p)
  <2>1. \A x \in I : p[x] \in I BY DEF Bijections
  <2>2. [x \in I |-> A[x][p[x]]] = [x \in I |-> B[x][p[x]]] BY <2>1
  <2> QED BY <2>2
<1>2. Leibniz(A, I) = SumFunction([p \in Bijections(I) |-> Sign(I, p) * f(A, p)])
  BY DEF Leibniz
<1>3. Leibniz(B, I) = SumFunction([p \in Bijections(I) |-> Sign(I, p) * f(B, p)])
  BY DEF Leibniz
<1> HIDE DEF f
<1>4. [p \in Bijections(I) |-> Sign(I, p) * f(A, p)]
        = [p \in Bijections(I) |-> Sign(I, p) * f(B, p)]
  BY <1>1
<1> QED BY <1>2, <1>3, <1>4

\* Rows and columns renamed, each in a way of its own: the determinant changes
\* by the signs of the two.
LEMMA LeibnizRename ==
  ASSUME NEW I \in SUBSET Int, IsFiniteSet(I), NEW J \in SUBSET Int, IsFiniteSet(J),
         NEW s, Renames(s, I, J), NEW t, Renames(t, I, J),
         NEW A, Square(A, J), NEW B, \A x, y \in I : B[x][y] = A[s[x]][t[y]]
  PROVE  Leibniz(B, I) = (Sgn(s, I) * Sgn(t, I)) * Leibniz(A, J)
<1> DEFINE back(y) == CHOOSE x \in I : s[x] = y
           b == [p \in Bijections(I) |-> [y \in J |-> t[p[back(y)]]]]
           c == Sgn(s, I) * Sgn(t, I)
           g == [p \in Bijections(I) |-> LeibnizTerms(A, J)[b[p]]]
<1>1. /\ \A x \in I : s[x] \in J
      /\ \A u \in J : \E x \in I : s[x] = u
      /\ \A x, y \in I : s[x] = s[y] => x = y
  BY DEF Renames
<1>2. /\ \A x \in I : t[x] \in J
      /\ \A u \in J : \E x \in I : t[x] = u
      /\ \A x, y \in I : t[x] = t[y] => x = y
  BY DEF Renames
<1>3. \A y \in J : back(y) \in I /\ s[back(y)] = y BY <1>1
<1>4. \A x \in I : back(s[x]) = x
  <2> SUFFICES ASSUME NEW x \in I PROVE back(s[x]) = x OBVIOUS
  <2>1. s[x] \in J BY <1>1
  <2>2. back(s[x]) \in I /\ s[back(s[x])] = s[x] BY <1>3, <2>1
  <2> HIDE DEF back
  <2> QED BY <1>1, <2>2
<1> HIDE DEF back
<1>5. ASSUME NEW p \in Bijections(I)
      PROVE  /\ b[p] \in Bijections(J)
             /\ \A x \in I : b[p][s[x]] = t[p[x]]
             /\ Renames(p, I, I) /\ Renames(b[p], J, J)
  <2> HIDE DEF c, g
  <2>1. Renames(p, I, I) BY BijectionRenames
  <2>2. /\ \A x \in I : p[x] \in I
        /\ \A x, y \in I : p[x] = p[y] => x = y
    BY <2>1 DEF Renames
  <2>3. \A y \in J : b[p][y] = t[p[back(y)]] OBVIOUS
  <2>4. \A y \in J : b[p][y] \in J BY <1>2, <1>3, <2>2, <2>3
  <2>5. DOMAIN b[p] = J /\ b[p] = [y \in J |-> b[p][y]] OBVIOUS
  <2>6. \A x \in I : b[p][s[x]] = t[p[x]] BY <1>1, <1>4, <2>3
  <2>7. \A y, z \in J : b[p][y] = b[p][z] => y = z
    <3> SUFFICES ASSUME NEW y \in J, NEW z \in J, b[p][y] = b[p][z] PROVE y = z
      OBVIOUS
    <3>1. t[p[back(y)]] = t[p[back(z)]] BY <2>3
    <3> HIDE DEF b, c, g
    <3>a. back(y) \in I /\ back(z) \in I BY <1>3
    <3>b. p[back(y)] \in I /\ p[back(z)] \in I BY <2>2, <3>a
    <3>c. p[back(y)] = p[back(z)] BY <1>2, <3>1, <3>b
    <3>2. back(y) = back(z) BY <2>2, <3>a, <3>c
    <3> QED BY <1>3, <3>2
  <2> HIDE DEF b
  <2>8. b[p] \in [J -> J] BY <2>4, <2>5
  <2>9. b[p] \in Bijections(J) BY <2>7, <2>8 DEF Bijections
  <2>10. Renames(b[p], J, J) BY <2>9, BijectionRenames
  <2> QED BY <2>1, <2>6, <2>9, <2>10
<1>6. ASSUME NEW p \in Bijections(I), NEW q \in Bijections(I), b[p] = b[q] PROVE p = q
  <2> HIDE DEF b, c, g
  <2>1. \A x \in I : t[p[x]] = t[q[x]] BY <1>5, <1>6
  <2>2. p \in [I -> I] BY DEF Bijections
  <2>b. q \in [I -> I] BY DEF Bijections
  <2>a. \A x \in I : p[x] \in I /\ q[x] \in I BY <2>2, <2>b
  <2>3. \A x \in I : p[x] = q[x] BY <1>2, <2>1, <2>a
  <2>4. p = [x \in I |-> p[x]] /\ q = [x \in I |-> q[x]] BY <2>2, <2>b
  <2>5. [x \in I |-> p[x]] = [x \in I |-> q[x]] BY <2>3
  <2> QED BY <2>4, <2>5
<1>7. ASSUME NEW q \in Bijections(J) PROVE \E p \in Bijections(I) : b[p] = q
  <2> DEFINE home(y) == CHOOSE x \in I : t[x] = y
             p == [x \in I |-> home(q[s[x]])]
  <2> HIDE DEF b, c, g
  <2>1. q \in [J -> J] /\ \A y, z \in J : q[y] = q[z] => y = z BY DEF Bijections
  <2>2. \A y \in J : home(y) \in I /\ t[home(y)] = y BY <1>2
  <2> HIDE DEF home
  <2>3. \A x \in I : p[x] \in I /\ t[p[x]] = q[s[x]] BY <1>1, <2>1, <2>2
  <2>4. p \in [I -> I] BY <2>3
  <2>5. \A x, y \in I : p[x] = p[y] => x = y
    <3> HIDE DEF p
    <3> SUFFICES ASSUME NEW x \in I, NEW y \in I, p[x] = p[y] PROVE x = y OBVIOUS
    <3>1. q[s[x]] = q[s[y]] BY <2>3
    <3>2. s[x] \in J /\ s[y] \in J BY <1>1
    <3>3. s[x] = s[y] BY <2>1, <3>1, <3>2
    <3> QED BY <1>1, <3>3
  <2> HIDE DEF p
  <2>6. p \in Bijections(I) BY <2>4, <2>5 DEF Bijections
  <2>7. b[p] \in [J -> J]
    <3>1. b[p] \in Bijections(J) BY <1>5, <2>6
    <3> QED BY <3>1 DEF Bijections
  <2>8. \A y \in J : b[p][y] = q[y]
    <3> SUFFICES ASSUME NEW y \in J PROVE b[p][y] = q[y] OBVIOUS
    <3>1. back(y) \in I /\ s[back(y)] = y BY <1>3
    <3>2. b[p][s[back(y)]] = t[p[back(y)]] BY <1>5, <2>6, <3>1
    <3>3. t[p[back(y)]] = q[s[back(y)]] BY <2>3, <3>1
    <3> QED BY <3>1, <3>2, <3>3
  <2>9. q \in [J -> J] BY <2>1
  <2>11. b[p] = [y \in J |-> b[p][y]] /\ q = [y \in J |-> q[y]] BY <2>7, <2>9
  <2>12. [y \in J |-> b[p][y]] = [y \in J |-> q[y]] BY <2>8
  <2>10. b[p] = q BY <2>11, <2>12
  <2> QED BY <2>6, <2>10
<1>8. Renames(b, Bijections(I), Bijections(J))
  <2> HIDE DEF b
  <2> QED BY <1>5, <1>6, <1>7 DEF Renames
<1>9. c \in Int
  <2>1. Sgn(s, I) \in {1, -1} /\ Sgn(t, I) \in {1, -1} BY SgnType
  <2> QED BY <2>1
<1>10. ASSUME NEW p \in Bijections(I)
       PROVE  /\ LeibnizTerms(A, J)[b[p]] \in Int
              /\ LeibnizTerms(B, I)[p] = c * LeibnizTerms(A, J)[b[p]]
  <2> HIDE DEF b, g
  <2> DEFINE q == b[p]
             f == Entries(A, J, q)
             h == Entries(B, I, p)
  <2>1. /\ q \in Bijections(J) /\ \A x \in I : q[s[x]] = t[p[x]]
        /\ Renames(p, I, I) /\ Renames(q, J, J)
    BY <1>5
  <2> HIDE DEF q
  <2>2. LeibnizTerms(A, J)[q] \in Int BY <2>1, LeibnizTermsInt
  <2>3. \A x \in I : f[s[x]] \in Int /\ h[x] = f[s[x]]
    <3> SUFFICES ASSUME NEW x \in I PROVE f[s[x]] \in Int /\ h[x] = f[s[x]] OBVIOUS
    <3>1. p[x] \in I BY <2>1 DEF Renames
    <3>2. h[x] = B[x][p[x]] BY DEF Entries
    <3>3. f[s[x]] = A[s[x]][q[s[x]]] BY <1>1 DEF Entries
    <3>4. A[s[x]][t[p[x]]] \in Int BY <1>1, <1>2, <3>1 DEF Square
    <3> QED BY <2>1, <3>1, <3>2, <3>3, <3>4
  <2> HIDE DEF f, h
  <2>4. ProductOn(h, I) = ProductOn(f, J)
    <3> HIDE DEF c
    <3>1. Carries(h, f, s, I) BY <2>3 DEF Carries
    <3> QED BY <3>1, ProductCarried
  <2> DEFINE r == [x \in I |-> t[p[x]]]
  <2>5. /\ \A x \in I : r[x] = t[p[x]] /\ r[x] = q[s[x]]
        /\ Injects(t, I) /\ Injects(q, J)
    <3>1. \A x \in I : r[x] = t[p[x]] /\ r[x] = q[s[x]] BY <2>1
    <3>2. Injects(t, I) BY <1>2 DEF Injects
    <3>3. Injects(q, J) BY <2>1 DEF Injects, Renames
    <3> QED BY <3>1, <3>2, <3>3
  <2> HIDE DEF r
  <2>6. Sgn(r, I) = Sgn(t, I) * Sgn(p, I) BY <2>1, <2>5, SgnCompose
  <2>7. Sgn(r, I) = Sgn(q, J) * Sgn(s, I) BY <2>5, SgnCompose
  <2>8. /\ Sgn(t, I) \in {1, -1} /\ Sgn(p, I) \in {1, -1}
        /\ Sgn(s, I) \in {1, -1} /\ Sgn(q, J) \in {1, -1}
    BY SgnType
  <2>9. Sgn(p, I) = c * Sgn(q, J) BY <2>6, <2>7, <2>8
  <2>10. ProductOn(f, J) \in Int
    <3>1. \A x \in J : q[x] \in J BY <2>1 DEF Renames
    <3> QED BY <3>1, EntriesInt, ProductOnInt DEF f
  <2>11. Sgn(q, J) \in Int BY <2>8
  <2>12. LeibnizTerms(B, I)[p] = Sgn(p, I) * ProductOn(h, I) BY DEF LeibnizTerms, LeibnizTerm, h
  <2>13. LeibnizTerms(A, J)[q] = Sgn(q, J) * ProductOn(f, J) BY <2>1 DEF LeibnizTerms, LeibnizTerm, f
  <2>14. \A u, v, w \in Int : (u * v) * w = u * (v * w) OBVIOUS
  <2> HIDE DEF c
  <2>15. (c * Sgn(q, J)) * ProductOn(f, J) = c * (Sgn(q, J) * ProductOn(f, J))
    BY <1>9, <2>10, <2>11, <2>14
  <2>16. LeibnizTerms(B, I)[p] = c * LeibnizTerms(A, J)[q] BY <2>4, <2>9, <2>12, <2>13, <2>15
  <2> QED BY <2>2, <2>16 DEF q
<1>11. IsFiniteSet(Bijections(I)) BY BijectionsFinite
<1>12. \A p \in Bijections(I) : LeibnizTerms(A, J)[b[p]] \in Int /\ g[p] = LeibnizTerms(A, J)[b[p]]
  BY <1>10
<1>13. \A p \in Bijections(I) : g[p] \in Int /\ LeibnizTerms(B, I)[p] = c * g[p] BY <1>10
<1> HIDE DEF b, g, c
<1>14. SumFunctionOnSet(g, Bijections(I)) = SumFunctionOnSet(LeibnizTerms(A, J), Bijections(J))
  BY <1>8, <1>11, <1>12, SumReindex
<1>15. SumFunctionOnSet(LeibnizTerms(B, I), Bijections(I)) = c * SumFunctionOnSet(g, Bijections(I))
  BY <1>9, <1>11, <1>13, SumTimes
<1>16. Leibniz(A, J) = SumFunctionOnSet(LeibnizTerms(A, J), Bijections(J)) BY LeibnizIs
<1>17. Leibniz(B, I) = SumFunctionOnSet(LeibnizTerms(B, I), Bijections(I)) BY LeibnizIs
<1> QED BY <1>14, <1>15, <1>16, <1>17 DEF c

\* Rows and columns renamed together: nothing changes.
LEMMA LeibnizRelabel ==
  ASSUME NEW I \in SUBSET Int, IsFiniteSet(I), NEW J \in SUBSET Int, IsFiniteSet(J),
         NEW s, Renames(s, I, J),
         NEW A, Square(A, J), NEW B, \A x, y \in I : B[x][y] = A[s[x]][s[y]]
  PROVE  Leibniz(B, I) = Leibniz(A, J)
<1>1. Leibniz(B, I) = (Sgn(s, I) * Sgn(s, I)) * Leibniz(A, J) BY LeibnizRename
<1>2. Sgn(s, I) \in {1, -1} BY SgnType
<1>3. Sgn(s, I) * Sgn(s, I) = 1 BY <1>2
<1>4. Leibniz(A, J) \in Int BY LeibnizInt
<1>5. \A v \in Int : 1 * v = v OBVIOUS
<1> QED BY <1>1, <1>3, <1>4, <1>5

\* Two rows exchanged: the sign changes.
LEMMA LeibnizSwap ==
  ASSUME NEW I \in SUBSET Int, IsFiniteSet(I), NEW a \in I, NEW b \in I, a # b,
         NEW A, Square(A, I), NEW B, \A x, y \in I : B[x][y] = A[Swap(a, b)[x]][y]
  PROVE  Leibniz(B, I) = - Leibniz(A, I)
<1> DEFINE s == Swap(a, b)
           t == [x \in I |-> x]
<1>1. Renames(s, I, I) BY SwapRenames
<1>2. Renames(t, I, I) BY DEF Renames
<1>3. Sgn(s, I) = -1 BY SgnSwap
<1>4. Sgn(t, I) = 1
  <2>1. \A x, y \in I : x < y => t[x] < t[y] OBVIOUS
  <2> HIDE DEF t
  <2> QED BY <2>1, SgnRising
<1>5. \A x, y \in I : B[x][y] = A[s[x]][t[y]] OBVIOUS
<1> HIDE DEF s, t
<1>6. Leibniz(B, I) = (Sgn(s, I) * Sgn(t, I)) * Leibniz(A, I)
  BY <1>1, <1>2, <1>5, LeibnizRename
<1>7. Leibniz(A, I) \in Int BY LeibnizInt
<1>8. \A v \in Int : ((-1) * 1) * v = -v OBVIOUS
<1> QED BY <1>3, <1>4, <1>6, <1>7, <1>8

\* Two equal rows: the determinant is zero.
LEMMA LeibnizTwice ==
  ASSUME NEW I \in SUBSET Int, IsFiniteSet(I), NEW a \in I, NEW b \in I, a # b,
         NEW A, Square(A, I), \A y \in I : A[a][y] = A[b][y]
  PROVE  Leibniz(A, I) = 0
<1>1. \A x, y \in I : A[x][y] = A[Swap(a, b)[x]][y]
  <2> SUFFICES ASSUME NEW x \in I, NEW y \in I PROVE A[x][y] = A[Swap(a, b)[x]][y] OBVIOUS
  <2>1. Swap(a, b)[x] = IF x = a THEN b ELSE IF x = b THEN a ELSE x BY DEF Swap
  <2>2. CASE x = a BY <2>1, <2>2
  <2>3. CASE x = b BY <2>1, <2>3
  <2>4. CASE x # a /\ x # b BY <2>1, <2>4
  <2> QED BY <2>2, <2>3, <2>4
<1>2. Leibniz(A, I) = - Leibniz(A, I) BY <1>1, LeibnizSwap
<1>3. Leibniz(A, I) \in Int BY LeibnizInt
<1> QED BY <1>2, <1>3

-----------------------------------------------------------------------------
(* Transposition *)

\* Rows for columns.
LEMMA LeibnizTranspose ==
  ASSUME NEW I \in SUBSET Int, IsFiniteSet(I),
         NEW A, Square(A, I), NEW B, \A x, y \in I : B[x][y] = A[y][x]
  PROVE  Leibniz(B, I) = Leibniz(A, I)
<1> DEFINE X == Bijections(I)
           back(p, y) == CHOOSE x \in I : p[x] = y
           b == [p \in X |-> [y \in I |-> back(p, y)]]
<1>1. ASSUME NEW p \in X
      PROVE  /\ p \in [I -> I] /\ Renames(p, I, I)
             /\ b[p] \in X /\ Renames(b[p], I, I)
             /\ \A y \in I : b[p][y] \in I /\ p[b[p][y]] = y
             /\ \A x \in I : b[p][p[x]] = x
  <2>1. p \in [I -> I] BY DEF Bijections
  <2>2. Renames(p, I, I) BY BijectionRenames
  <2>3. /\ \A x \in I : p[x] \in I
        /\ \A u \in I : \E x \in I : p[x] = u
        /\ \A x, y \in I : p[x] = p[y] => x = y
    BY <2>2 DEF Renames
  <2>4. \A y \in I : back(p, y) \in I /\ p[back(p, y)] = y BY <2>3
  <2>5. \A y \in I : b[p][y] = back(p, y) OBVIOUS
  <2>6. b[p] = [y \in I |-> b[p][y]] OBVIOUS
  <2> HIDE DEF b, back
  <2>7. \A y \in I : b[p][y] \in I /\ p[b[p][y]] = y BY <2>4, <2>5
  <2>8. b[p] \in [I -> I] BY <2>6, <2>7
  <2>9. \A y, z \in I : b[p][y] = b[p][z] => y = z BY <2>7
  <2>10. b[p] \in X BY <2>8, <2>9 DEF Bijections
  <2>11. Renames(b[p], I, I) BY <2>10, BijectionRenames
  <2>12. \A x \in I : b[p][p[x]] = x
    <3> SUFFICES ASSUME NEW x \in I PROVE b[p][p[x]] = x OBVIOUS
    <3>1. p[x] \in I BY <2>3
    <3>2. b[p][p[x]] \in I /\ p[b[p][p[x]]] = p[x] BY <2>7, <3>1
    <3> QED BY <2>3, <3>2
  <2> QED BY <2>1, <2>2, <2>7, <2>10, <2>11, <2>12
<1>2. ASSUME NEW p \in X, NEW q \in X, \A y \in I : b[p][y] = b[q][y]
      PROVE  p = q
  <2> HIDE DEF b
  <2>1. p = [x \in I |-> p[x]] /\ q = [x \in I |-> q[x]] BY <1>1
  <2>2. \A x \in I : p[x] = q[x]
    <3> SUFFICES ASSUME NEW x \in I PROVE p[x] = q[x] OBVIOUS
    <3>1. p[x] \in I /\ b[p][p[x]] = x BY <1>1
    <3>2. b[q][p[x]] = x BY <1>2, <3>1
    <3>3. q[b[q][p[x]]] = p[x] BY <1>1, <3>1
    <3> QED BY <3>2, <3>3
  <2>3. [x \in I |-> p[x]] = [x \in I |-> q[x]] BY <2>2
  <2> QED BY <2>1, <2>3
<1>3. ASSUME NEW q \in X PROVE \E p \in X : b[p] = q
  <2> HIDE DEF b
  <2>1. b[q] \in X BY <1>1
  <2>2. b[b[q]] \in X BY <1>1, <2>1
  <2>3. \A x \in I : b[b[q]][x] = q[x]
    <3> SUFFICES ASSUME NEW x \in I PROVE b[b[q]][x] = q[x] OBVIOUS
    <3>1. q[x] \in I /\ b[q][q[x]] = x BY <1>1
    <3>2. b[b[q]][b[q][q[x]]] = q[x] BY <1>1, <2>1, <3>1
    <3> QED BY <3>1, <3>2
  <2>4. b[b[q]] = [x \in I |-> b[b[q]][x]] /\ q = [x \in I |-> q[x]] BY <1>1, <2>2
  <2>5. [x \in I |-> b[b[q]][x]] = [x \in I |-> q[x]] BY <2>3
  <2>6. b[b[q]] = q BY <2>4, <2>5
  <2> QED BY <2>1, <2>6
<1>4. Renames(b, X, X)
  <2> HIDE DEF b, X
  <2>1. \A p \in X : b[p] \in X BY <1>1
  <2>2. \A p, q \in X : b[p] = b[q] => p = q BY <1>2
  <2> QED BY <1>3, <2>1, <2>2 DEF Renames
<1>5. ASSUME NEW p \in X
      PROVE  LeibnizTerms(A, I)[b[p]] \in Int /\ LeibnizTerms(B, I)[p] = LeibnizTerms(A, I)[b[p]]
  <2> DEFINE q == b[p]
             f == Entries(B, I, p)
             g == Entries(A, I, q)
  <2>1. /\ q \in X /\ Renames(q, I, I) /\ Renames(p, I, I)
        /\ \A x \in I : p[x] \in I /\ q[p[x]] = x
    BY <1>1
  <2> HIDE DEF q, b
  <2>2. LeibnizTerms(A, I)[q] \in Int BY <2>1, LeibnizTermsInt
  <2>3. Carries(f, g, p, I)
    <3> SUFFICES ASSUME NEW x \in I PROVE g[p[x]] \in Int /\ f[x] = g[p[x]] BY DEF Carries
    <3>1. p[x] \in I /\ q[p[x]] = x BY <2>1
    <3>2. f[x] = B[x][p[x]] BY DEF Entries
    <3>3. g[p[x]] = A[p[x]][q[p[x]]] BY <3>1 DEF Entries
    <3>4. A[p[x]][x] \in Int BY <3>1 DEF Square
    <3> QED BY <3>1, <3>2, <3>3, <3>4
  <2>4. ProductOn(f, I) = ProductOn(g, I)
    <3> HIDE DEF f, g
    <3> QED BY <2>1, <2>3, ProductCarried
  <2>5. \A x \in I : q[p[x]] = x BY <2>1
  <2>6. Sgn(q, I) = Sgn(p, I) BY <2>1, <2>5, SgnInverse
  <2>7. LeibnizTerms(B, I)[p] = Sgn(p, I) * ProductOn(f, I) BY DEF LeibnizTerms, LeibnizTerm
  <2>8. LeibnizTerms(A, I)[q] = Sgn(q, I) * ProductOn(g, I) BY <2>1 DEF LeibnizTerms, LeibnizTerm
  <2> HIDE DEF f, g
  <2>9. LeibnizTerms(B, I)[p] = LeibnizTerms(A, I)[q] BY <2>4, <2>6, <2>7, <2>8
  <2> QED BY <2>2, <2>9 DEF q
<1>6. IsFiniteSet(X) BY BijectionsFinite
<1>7. Carries(LeibnizTerms(B, I), LeibnizTerms(A, I), b, X)
  <2> HIDE DEF b, X
  <2> QED BY <1>5 DEF Carries
<1> HIDE DEF b, X
<1>8. SumFunctionOnSet(LeibnizTerms(B, I), X) = SumFunctionOnSet(LeibnizTerms(A, I), X)
  BY <1>4, <1>6, <1>7, SumCarried
<1>9. Leibniz(A, I) = SumFunctionOnSet(LeibnizTerms(A, I), X) BY LeibnizIs DEF X
<1>10. Leibniz(B, I) = SumFunctionOnSet(LeibnizTerms(B, I), X) BY LeibnizIs DEF X
<1> QED BY <1>8, <1>9, <1>10

-----------------------------------------------------------------------------
(* Expansion along a row *)

\* The rows of A in J, with v in the place of row s.
Put(A, J, s, v) == [x \in J |-> IF x = s THEN v ELSE A[x]]

UnitRow(J, w) == [y \in J |-> IF y = w THEN 1 ELSE 0]

Cofactor(A, I, s, w) == Leibniz(Put(A, I, s, UnitRow(I, w)), I)

\* The rows in place are integers.
LEMMA PutSquare ==
  ASSUME NEW I, NEW J, I \subseteq J, NEW A, NEW s, \A x \in I \ {s} : \A y \in I : A[x][y] \in Int,
         NEW v, \A y \in I : v[y] \in Int
  PROVE  Square(Put(A, J, s, v), I)
<1> SUFFICES ASSUME NEW x \in I, NEW y \in I PROVE Put(A, J, s, v)[x][y] \in Int
  BY DEF Square
<1>1. CASE x = s BY <1>1 DEF Put
<1>2. CASE x # s
  <2>1. Put(A, J, s, v)[x] = A[x] BY <1>2 DEF Put
  <2>2. x \in I \ {s} BY <1>2
  <2> QED BY <2>1, <2>2
<1> QED BY <1>1, <1>2

\* A cofactor is an integer.
LEMMA CofactorInt ==
  ASSUME NEW I \in SUBSET Int, IsFiniteSet(I), NEW s \in I, NEW w,
         NEW A, \A x \in I \ {s} : \A y \in I : A[x][y] \in Int
  PROVE  Cofactor(A, I, s, w) \in Int
<1>1. \A y \in I : UnitRow(I, w)[y] \in Int BY DEF UnitRow
<1>2. I \subseteq I OBVIOUS
<1>3. Square(Put(A, I, s, UnitRow(I, w)), I) BY <1>1, <1>2, PutSquare
<1> QED BY <1>3, LeibnizInt DEF Cofactor

\* Row s itself does not matter to a cofactor.
LEMMA CofactorSame ==
  ASSUME NEW I, NEW s \in I, NEW w, NEW A, NEW B,
         \A x \in I \ {s} : \A y \in I : A[x][y] = B[x][y]
  PROVE  Cofactor(A, I, s, w) = Cofactor(B, I, s, w)
<1> DEFINE C == Put(A, I, s, UnitRow(I, w))
           E == Put(B, I, s, UnitRow(I, w))
<1>1. \A x, y \in I : C[x][y] = E[x][y]
  <2> SUFFICES ASSUME NEW x \in I, NEW y \in I PROVE C[x][y] = E[x][y] OBVIOUS
  <2>1. CASE x = s BY <2>1 DEF Put
  <2>2. CASE x # s
    <3>1. C[x] = A[x] /\ E[x] = B[x] BY <2>2 DEF Put
    <3>2. x \in I \ {s} BY <2>2
    <3> QED BY <3>1, <3>2
  <2> QED BY <2>1, <2>2
<1> HIDE DEF C, E
<1>2. Leibniz(C, I) = Leibniz(E, I) BY <1>1, LeibnizSame
<1> QED BY <1>2 DEF Cofactor, C, E

\* The determinant is the sum of the entries of a row, each with its cofactor.
LEMMA Expansion ==
  ASSUME NEW I \in SUBSET Int, IsFiniteSet(I), NEW s \in I, NEW A, Square(A, I),
         NEW f, \A w \in I : f[w] = A[s][w] * Cofactor(A, I, s, w)
  PROVE  Leibniz(A, I) = SumFunctionOnSet(f, I)
<1> DEFINE X == Bijections(I)
           E(w) == Put(A, I, s, UnitRow(I, w))
           F == [p \in X |-> [w \in I |-> A[s][w] * LeibnizTerms(E(w), I)[p]]]
           lines == [p \in X |-> SumFunctionOnSet([w \in I |-> F[p][w]], I)]
           columns == [w \in I |-> SumFunctionOnSet([p \in X |-> F[p][w]], X)]
<1>1. \A w \in I : Square(E(w), I)
  <2> SUFFICES ASSUME NEW w \in I PROVE Square(E(w), I) OBVIOUS
  <2>1. \A y \in I : UnitRow(I, w)[y] \in Int BY DEF UnitRow
  <2>2. \A x \in I \ {s} : \A y \in I : A[x][y] \in Int BY DEF Square
  <2>3. I \subseteq I OBVIOUS
  <2> QED BY <2>1, <2>2, <2>3, PutSquare
<1>2. IsFiniteSet(X) BY BijectionsFinite
<1>3. \A w \in I : A[s][w] \in Int BY DEF Square
<1>4. \A u, v \in Int : u * v \in Int OBVIOUS
<1>5. ASSUME NEW p \in X, NEW w \in I
      PROVE  F[p][w] \in Int /\ LeibnizTerms(E(w), I)[p] \in Int /\ F[p][w] = A[s][w] * LeibnizTerms(E(w), I)[p]
  <2>1. LeibnizTerms(E(w), I)[p] \in Int
    <3> HIDE DEF E
    <3> QED BY <1>1, LeibnizTermsInt
  <2>2. F[p][w] = A[s][w] * LeibnizTerms(E(w), I)[p] OBVIOUS
  <2> HIDE DEF E, F
  <2> QED BY <1>3, <1>4, <2>1, <2>2
<1>6. ASSUME NEW p \in X
      PROVE  LeibnizTerms(A, I)[p] \in Int /\ lines[p] = LeibnizTerms(A, I)[p]
  <2> DEFINE c == p[s]
             K == I \ {s}
             g == Entries(A, I, p)
             rest == ProductOn(g, K)
             h(w) == Entries(E(w), I, p)
             line == [w \in I |-> F[p][w]]
  <2>1. \A x \in I : p[x] \in I BY DEF Bijections
  <2>2. c \in I BY <2>1
  <2>3. IsFiniteSet(K) /\ s \notin K BY FS_Subset
  <2>4. \A x \in I : g[x] \in Int BY <2>1, EntriesInt
  <2>5. g[s] = A[s][c] BY DEF Entries
  <2>6. ProductOn(g, I) = g[s] * rest
    <3> HIDE DEF g
    <3> QED BY <2>4, ProductTake
  <2>7. rest \in Int
    <3>1. \A x \in K : g[x] \in Int BY <2>4
    <3> HIDE DEF g, K
    <3> QED BY <2>3, <3>1, ProductOnInt
  <2>8. ASSUME NEW w \in I
        PROVE  /\ ProductOn(h(w), I) = h(w)[s] * rest
               /\ h(w)[s] = IF c = w THEN 1 ELSE 0
    <3> DEFINE k == h(w)
    <3>1. \A x \in I : k[x] \in Int
      <4>1. Square(E(w), I) BY <1>1
      <4> HIDE DEF E
      <4> QED BY <2>1, <4>1, EntriesInt
    <3>2. \A x \in K : g[x] \in Int /\ k[x] = g[x]
      <4> SUFFICES ASSUME NEW x \in K PROVE g[x] \in Int /\ k[x] = g[x] OBVIOUS
      <4>1. k[x] = E(w)[x][p[x]] BY DEF Entries
      <4>2. E(w)[x] = A[x] BY DEF Put
      <4>3. g[x] = A[x][p[x]] BY DEF Entries
      <4>4. g[x] \in Int BY <2>4
      <4> HIDE DEF g, k, E
      <4> QED BY <4>1, <4>2, <4>3, <4>4
    <3>3. k[s] = IF c = w THEN 1 ELSE 0
      <4>1. k[s] = E(w)[s][c] BY DEF Entries
      <4>2. E(w)[s] = UnitRow(I, w) BY DEF Put
      <4>3. UnitRow(I, w)[c] = IF c = w THEN 1 ELSE 0 BY <2>2 DEF UnitRow
      <4> HIDE DEF k, E, c
      <4> QED BY <4>1, <4>2, <4>3
    <3> HIDE DEF k, g, K
    <3>4. ProductOn(k, I) = k[s] * ProductOn(k, I \ {s}) BY <3>1, ProductTake
    <3>5. ProductOn(k, K) = ProductOn(g, K) BY <2>3, <3>2, ProductEqual
    <3>6. ProductOn(k, I) = k[s] * rest BY <3>4, <3>5 DEF K
    <3> QED BY <3>3, <3>6 DEF k
  <2> DEFINE z == Sgn(p, I)
  <2>9. z \in Int BY SgnType
  <2>10. LeibnizTerms(A, I)[p] = z * (A[s][c] * rest) BY <2>5, <2>6 DEF LeibnizTerms, LeibnizTerm
  <2>11. \A w \in I : LeibnizTerms(E(w), I)[p] = z * (h(w)[s] * rest)
    <3> SUFFICES ASSUME NEW w \in I PROVE LeibnizTerms(E(w), I)[p] = z * (h(w)[s] * rest) OBVIOUS
    <3>1. LeibnizTerms(E(w), I)[p] = z * ProductOn(h(w), I)
      <4> HIDE DEF E
      <4> QED BY DEF LeibnizTerms, LeibnizTerm
    <3> HIDE DEF z, h, rest, E
    <3> QED BY <2>8, <3>1
  <2> HIDE DEF g, rest, h, z, K, E
  <2>12. \A w \in I \ {c} : line[w] = 0
    <3> SUFFICES ASSUME NEW w \in I \ {c} PROVE line[w] = 0 OBVIOUS
    <3>1. line[w] = F[p][w] OBVIOUS
    <3> HIDE DEF line, F, c
    <3>2. h(w)[s] = 0 BY <2>8
    <3>3. LeibnizTerms(E(w), I)[p] = z * (h(w)[s] * rest) BY <2>11
    <3>4. \A u, v \in Int : u * (0 * v) = 0 OBVIOUS
    <3>5. LeibnizTerms(E(w), I)[p] = 0 BY <2>7, <2>9, <3>2, <3>3, <3>4
    <3>6. \A u \in Int : u * 0 = 0 OBVIOUS
    <3>7. F[p][w] = A[s][w] * 0 BY <1>5, <3>5
    <3> QED BY <1>3, <3>1, <3>6, <3>7
  <2>13. line[c] \in Int /\ line[c] = LeibnizTerms(A, I)[p]
    <3>1. line[c] = F[p][c] BY <2>2
    <3> HIDE DEF line, F, c
    <3>2. h(c)[s] = 1 BY <2>2, <2>8
    <3>3. LeibnizTerms(E(c), I)[p] = z * (h(c)[s] * rest) BY <2>2, <2>11
    <3>4. \A u, v, a \in Int : a * (u * (1 * v)) = u * (a * v) OBVIOUS
    <3>5. F[p][c] = A[s][c] * (z * (1 * rest)) BY <1>5, <2>2, <3>2, <3>3
    <3>6. A[s][c] \in Int BY <1>3, <2>2
    <3>7. F[p][c] = z * (A[s][c] * rest) BY <2>7, <2>9, <3>4, <3>5, <3>6
    <3>8. F[p][c] \in Int BY <1>5, <2>2
    <3> QED BY <2>10, <3>1, <3>7, <3>8
  <2>14. lines[p] = SumFunctionOnSet(line, I) OBVIOUS
  <2> HIDE DEF line, lines, c
  <2>15. SumFunctionOnSet(line, I) = line[c] BY <2>2, <2>12, <2>13, SumOnly
  <2> QED BY <2>13, <2>14, <2>15
<1>7. ASSUME NEW w \in I PROVE columns[w] \in Int /\ columns[w] = f[w]
  <2> DEFINE column == [p \in X |-> F[p][w]]
             g == LeibnizTerms(E(w), I)
  <2>1. \A p \in X : g[p] \in Int /\ column[p] = A[s][w] * g[p] BY <1>5
  <2>2. columns[w] = SumFunctionOnSet(column, X) OBVIOUS
  <2>3. Leibniz(E(w), I) = SumFunctionOnSet(g, X) BY LeibnizIs
  <2>4. Leibniz(E(w), I) = Cofactor(A, I, s, w) BY DEF Cofactor
  <2>5. A[s][w] \in Int BY <1>3
  <2> HIDE DEF column, g, X, columns, E
  <2>6. SumFunctionOnSet(column, X) = A[s][w] * SumFunctionOnSet(g, X)
    BY <1>2, <2>1, <2>5, SumTimes
  <2>7. \A p \in X : g[p] \in Int BY <2>1
  <2>8. SumFunctionOnSet(g, X) \in Int BY <1>2, <2>7, SumInt
  <2>9. columns[w] = f[w] BY <2>2, <2>3, <2>4, <2>6
  <2>10. columns[w] \in Int BY <1>4, <2>2, <2>5, <2>6, <2>8
  <2> QED BY <2>9, <2>10
<1>8. SumFunctionOnSet(lines, X) = SumFunctionOnSet(columns, I)
  <2>1. \A p \in X, w \in I : F[p][w] \in Int BY <1>5
  <2> HIDE DEF F, X
  <2> QED BY <1>2, <2>1, SumSwap
<1>9. \A p \in X : LeibnizTerms(A, I)[p] \in Int /\ lines[p] = LeibnizTerms(A, I)[p] BY <1>6
<1>10. \A w \in I : columns[w] \in Int /\ f[w] = columns[w] BY <1>7
<1>11. Leibniz(A, I) = SumFunctionOnSet(LeibnizTerms(A, I), X) BY LeibnizIs
<1> HIDE DEF lines, columns, X, F
<1>12. SumFunctionOnSet(LeibnizTerms(A, I), X) = SumFunctionOnSet(lines, X)
  BY <1>2, <1>9, SumEqual
<1>13. SumFunctionOnSet(columns, I) = SumFunctionOnSet(f, I) BY <1>10, SumEqual
<1> QED BY <1>8, <1>11, <1>12, <1>13

-----------------------------------------------------------------------------
(* Cofactors *)

\* The cofactor on the diagonal is the minor of the other rows and columns.
LEMMA CofactorMain ==
  ASSUME NEW I \in SUBSET Int, IsFiniteSet(I), NEW s \in I,
         NEW A, \A x \in I \ {s} : \A y \in I : A[x][y] \in Int
  PROVE  Cofactor(A, I, s, s) = Leibniz(A, I \ {s})
<1> DEFINE K == I \ {s}
           B == Put(A, I, s, UnitRow(I, s))
           X == Bijections(I)
           Y == Bijections(K)
           Fix == {p \in X : p[s] = s}
           b == [p \in Fix |-> [x \in K |-> p[x]]]
<1>1. IsFiniteSet(K) /\ K \in SUBSET Int /\ s \notin K BY FS_Subset
<1>2. IsFiniteSet(X) /\ IsFiniteSet(Y) BY <1>1, BijectionsFinite
<1>3. Square(B, I)
  <2>1. \A y \in I : UnitRow(I, s)[y] \in Int BY DEF UnitRow
  <2>2. I \subseteq I OBVIOUS
  <2> QED BY <2>1, <2>2, PutSquare
<1>4. Square(A, K) BY DEF Square
<1>5. /\ \A y \in I : B[s][y] = IF y = s THEN 1 ELSE 0
      /\ \A x \in K : B[x] = A[x]
  BY DEF Put, UnitRow
<1>6. ASSUME NEW p \in X PROVE p = [x \in I |-> p[x]] /\ Renames(p, I, I)
  <2>1. p \in [I -> I] BY DEF Bijections
  <2> QED BY <2>1, BijectionRenames
<1>7. \A p \in X : LeibnizTerms(B, I)[p] \in Int BY <1>3, LeibnizTermsInt
<1>8. ASSUME NEW p \in X \ Fix PROVE LeibnizTerms(B, I)[p] = 0
  <2> DEFINE f == Entries(B, I, p)
  <2>1. \A x \in I : p[x] \in I BY <1>6 DEF Renames
  <2>2. \A x \in I : f[x] \in Int BY <1>3, <2>1, EntriesInt
  <2>3. f[s] = 0
    <3>1. f[s] = B[s][p[s]] BY DEF Entries
    <3>2. p[s] \in I /\ p[s] # s BY <2>1
    <3> HIDE DEF f, B
    <3> QED BY <1>5, <3>1, <3>2
  <2>4. LeibnizTerms(B, I)[p] = Sgn(p, I) * ProductOn(f, I) BY DEF LeibnizTerms, LeibnizTerm
  <2> HIDE DEF f, B
  <2>5. ProductOn(f, I) = 0 BY <2>2, <2>3, ProductZero
  <2>6. Sgn(p, I) \in Int BY SgnType
  <2>7. \A u \in Int : u * 0 = 0 OBVIOUS
  <2> QED BY <2>4, <2>5, <2>6, <2>7
<1>9. ASSUME NEW p \in Fix
      PROVE  /\ b[p] \in Y /\ \A x \in K : b[p][x] = p[x]
             /\ \A x \in K : p[x] \in K
  <2>1. p \in X /\ p[s] = s OBVIOUS
  <2>2. /\ \A x \in I : p[x] \in I
        /\ \A x, y \in I : p[x] = p[y] => x = y
    BY <1>6, <2>1 DEF Renames
  <2>3. \A x \in K : p[x] \in K
    <3> SUFFICES ASSUME NEW x \in K PROVE p[x] \in K OBVIOUS
    <3>1. x \in I /\ x # s BY DEF K
    <3>2. p[x] # p[s] BY <2>2, <3>1
    <3>3. p[x] \in I BY <2>2, <3>1
    <3> QED BY <2>1, <3>2, <3>3
  <2>4. b[p] = [x \in K |-> p[x]] OBVIOUS
  <2> HIDE DEF b, Fix, X, B
  <2>5. b[p] \in [K -> K] BY <2>3, <2>4
  <2>6. \A x \in K : b[p][x] = p[x] BY <2>4
  <2>7. \A x, y \in K : b[p][x] = b[p][y] => x = y BY <2>2, <2>6
  <2>8. b[p] \in Y BY <2>5, <2>7 DEF Bijections
  <2> QED BY <2>3, <2>6, <2>8
<1>10. Renames(b, Fix, Y)
  <2>1. \A p \in Fix : b[p] \in Y BY <1>9
  <2>2. ASSUME NEW q \in Y PROVE \E p \in Fix : b[p] = q
    <3> DEFINE p == [x \in I |-> IF x = s THEN s ELSE q[x]]
    <3>1. q \in [K -> K] /\ \A x, y \in K : q[x] = q[y] => x = y BY DEF Bijections
    <3>2. \A x \in K : q[x] \in K BY <3>1
    <3>3. p[s] = s /\ \A x \in K : p[x] = q[x] OBVIOUS
    <3>4. p \in [I -> I] BY <3>2
    <3> HIDE DEF p, B
    <3>5. \A x, y \in I : p[x] = p[y] => x = y
      <4> SUFFICES ASSUME NEW x \in I, NEW y \in I, p[x] = p[y] PROVE x = y OBVIOUS
      <4>1. CASE x = s /\ y = s BY <4>1
      <4>2. CASE x = s /\ y \in K BY <1>1, <3>2, <3>3, <4>2
      <4>3. CASE x \in K /\ y = s BY <1>1, <3>2, <3>3, <4>3
      <4>4. CASE x \in K /\ y \in K BY <3>1, <3>3, <4>4
      <4> QED BY <4>1, <4>2, <4>3, <4>4
    <3>6. p \in X BY <3>4, <3>5 DEF Bijections
    <3>7. p \in Fix BY <3>3, <3>6
    <3>8. b[p] = [x \in K |-> p[x]] BY <3>7
    <3>9. [x \in K |-> p[x]] = [x \in K |-> q[x]] BY <3>3
    <3>10. q = [x \in K |-> q[x]] BY <3>1
    <3> QED BY <3>7, <3>8, <3>9, <3>10
  <2>3. ASSUME NEW p \in Fix, NEW r \in Fix, b[p] = b[r] PROVE p = r
    <3>1. p \in X /\ r \in X /\ p[s] = s /\ r[s] = s OBVIOUS
    <3>2. (\A x \in K : b[p][x] = p[x]) /\ (\A x \in K : b[r][x] = r[x]) BY <1>9
    <3> HIDE DEF b, B, Fix, X
    <3>3. \A x \in K : p[x] = r[x] BY <2>3, <3>2
    <3>4. \A x \in I : p[x] = r[x] BY <3>1, <3>3
    <3>5. p = [x \in I |-> p[x]] /\ r = [x \in I |-> r[x]] BY <1>6, <3>1
    <3>6. [x \in I |-> p[x]] = [x \in I |-> r[x]] BY <3>4
    <3> QED BY <3>5, <3>6
  <2>4. \A p, r \in Fix : b[p] = b[r] => p = r BY <2>3
  <2> HIDE DEF b, Fix, Y, B
  <2> QED BY <2>1, <2>2, <2>4 DEF Renames
<1>11. ASSUME NEW p \in Fix
       PROVE  LeibnizTerms(A, K)[b[p]] \in Int /\ LeibnizTerms(B, I)[p] = LeibnizTerms(A, K)[b[p]]
  <2> DEFINE q == b[p]
             f == Entries(B, I, p)
             g == Entries(A, K, q)
  <2>1. p \in X /\ p[s] = s /\ Renames(p, I, I) BY <1>6
  <2>2. q \in Y /\ (\A x \in K : q[x] = p[x]) /\ (\A x \in K : p[x] \in K) BY <1>9
  <2> HIDE DEF q, b, Fix
  <2>3. \A x \in I : p[x] \in I BY <2>1 DEF Renames
  <2>4. \A x \in I : f[x] \in Int BY <1>3, <2>3, EntriesInt
  <2>5. f[s] = 1
    <3>1. f[s] = B[s][p[s]] BY DEF Entries
    <3> HIDE DEF f, B
    <3> QED BY <1>5, <2>1, <3>1
  <2>6. \A x \in K : f[x] \in Int /\ g[x] = f[x]
    <3> SUFFICES ASSUME NEW x \in K PROVE f[x] \in Int /\ g[x] = f[x] OBVIOUS
    <3>1. f[x] = B[x][p[x]] BY DEF Entries
    <3>2. g[x] = A[x][q[x]] BY DEF Entries
    <3> HIDE DEF f, g, B
    <3> QED BY <1>5, <2>2, <2>4, <3>1, <3>2
  <2>7. LeibnizTerms(B, I)[p] = Sgn(p, I) * ProductOn(f, I) BY <2>1 DEF LeibnizTerms, LeibnizTerm
  <2>8. LeibnizTerms(A, K)[q] = Sgn(q, K) * ProductOn(g, K) BY <2>2 DEF LeibnizTerms, LeibnizTerm
  <2>9. Sgn(p, I) = Sgn(p, I \ {s}) BY <2>1, SgnFixed
  <2>10. Sgn(p, K) = Sgn(q, K)
    <3> HIDE DEF K
    <3> QED BY <2>2, SgnSame
  <2>11. LeibnizTerms(A, K)[q] \in Int BY <1>1, <1>4, <2>2, LeibnizTermsInt
  <2> HIDE DEF f, g, B
  <2>12. ProductOn(f, I) = f[s] * ProductOn(f, I \ {s}) BY <2>4, ProductTake
  <2> HIDE DEF K
  <2>13. ProductOn(f, K) = ProductOn(g, K) BY <1>1, <2>6, ProductEqual
  <2>14. ProductOn(f, K) \in Int
    <3>1. \A x \in K : f[x] \in Int BY <2>6
    <3> QED BY <1>1, <3>1, ProductOnInt
  <2>15. \A u \in Int : 1 * u = u OBVIOUS
  <2>16. ProductOn(f, I) = ProductOn(g, K) BY <2>5, <2>12, <2>13, <2>14, <2>15 DEF K
  <2>17. Sgn(p, I) = Sgn(q, K) BY <2>9, <2>10 DEF K
  <2>18. LeibnizTerms(B, I)[p] = LeibnizTerms(A, K)[q] BY <2>7, <2>8, <2>16, <2>17
  <2> QED BY <2>11, <2>18 DEF q
<1>12. Cofactor(A, I, s, s) = SumFunctionOnSet(LeibnizTerms(B, I), X)
  BY <1>3, LeibnizIs DEF Cofactor
<1>13. Leibniz(A, K) = SumFunctionOnSet(LeibnizTerms(A, K), Y) BY <1>1, <1>4, LeibnizIs
<1>14. Fix \in SUBSET X OBVIOUS
<1>15. IsFiniteSet(Fix) BY <1>2, <1>14, FS_Subset
<1>16. Carries(LeibnizTerms(B, I), LeibnizTerms(A, K), b, Fix)
  <2> HIDE DEF b, Fix, B, K
  <2> QED BY <1>11 DEF Carries
<1>17. \A p \in Fix : LeibnizTerms(B, I)[p] \in Int BY <1>7, <1>14
<1> HIDE DEF Fix, b, B, X, Y
<1>18. SumFunctionOnSet(LeibnizTerms(B, I), X) = SumFunctionOnSet(LeibnizTerms(B, I), Fix)
  BY <1>2, <1>8, <1>14, <1>17, SumPad
<1>19. SumFunctionOnSet(LeibnizTerms(B, I), Fix) = SumFunctionOnSet(LeibnizTerms(A, K), Y)
  BY <1>10, <1>15, <1>16, SumCarried
<1> QED BY <1>12, <1>13, <1>18, <1>19

\* The other cofactors: row s is replaced by row w.
LEMMA CofactorOther ==
  ASSUME NEW I \in SUBSET Int, IsFiniteSet(I), NEW s \in I, NEW w \in I, w # s,
         NEW A, \A x \in I \ {s} : \A y \in I : A[x][y] \in Int
  PROVE  Cofactor(A, I, s, w) = - Leibniz(Put(A, I \ {w}, s, A[w]), I \ {w})
<1> DEFINE B == Put(A, I, s, UnitRow(I, w))
           C == [x \in I |-> B[Swap(s, w)[x]]]
           E == Put(A, I \ {w}, s, A[w])
<1>1. Square(B, I)
  <2>1. \A y \in I : UnitRow(I, w)[y] \in Int BY DEF UnitRow
  <2>2. I \subseteq I OBVIOUS
  <2> QED BY <2>1, <2>2, PutSquare
<1>2. \A x, y \in I : C[x][y] = B[Swap(s, w)[x]][y] OBVIOUS
<1>3. Leibniz(C, I) = - Leibniz(B, I)
  <2> HIDE DEF B, C
  <2> QED BY <1>1, <1>2, LeibnizSwap
<1>4. Leibniz(B, I) \in Int BY <1>1, LeibnizInt
<1>5. /\ C[w] = UnitRow(I, w) /\ C[s] = A[w]
      /\ \A x \in I \ {s, w} : C[x] = A[x]
  <2>1. \A x \in I : Swap(s, w)[x] = IF x = s THEN w ELSE IF x = w THEN s ELSE x
    BY DEF Swap
  <2>2. /\ B[s] = UnitRow(I, w) /\ \A x \in I \ {s} : B[x] = A[x]
    BY DEF Put
  <2>3. \A x \in I : C[x] = B[Swap(s, w)[x]] OBVIOUS
  <2> HIDE DEF B, C
  <2>4. C[w] = B[s] /\ C[s] = B[w] BY <2>1, <2>3
  <2>5. \A x \in I \ {s, w} : C[x] = B[x] BY <2>1, <2>3
  <2> QED BY <2>2, <2>4, <2>5
<1>6. \A x \in I \ {w} : \A y \in I : C[x][y] \in Int
  <2> HIDE DEF C
  <2> SUFFICES ASSUME NEW x \in I \ {w}, NEW y \in I PROVE C[x][y] \in Int OBVIOUS
  <2>1. CASE x = s
    <3>1. w \in I \ {s} OBVIOUS
    <3>2. A[w][y] \in Int BY <3>1
    <3> QED BY <1>5, <2>1, <3>2
  <2>2. CASE x # s
    <3>1. x \in I \ {s} /\ x \in I \ {s, w} BY <2>2
    <3>2. A[x][y] \in Int BY <3>1
    <3> QED BY <1>5, <3>1, <3>2
  <2> QED BY <2>1, <2>2
<1>7. Leibniz(C, I) = Cofactor(C, I, w, w)
  <2> DEFINE P == Put(C, I, w, UnitRow(I, w))
  <2>1. \A x, y \in I : P[x][y] = C[x][y]
    <3> SUFFICES ASSUME NEW x \in I, NEW y \in I PROVE P[x][y] = C[x][y] OBVIOUS
    <3>1. P[x] = IF x = w THEN UnitRow(I, w) ELSE C[x] BY DEF Put
    <3> HIDE DEF P, C
    <3> QED BY <1>5, <3>1
  <2> HIDE DEF P, C
  <2>2. Leibniz(P, I) = Leibniz(C, I) BY <2>1, LeibnizSame
  <2> QED BY <2>2 DEF Cofactor, P
<1>8. Cofactor(C, I, w, w) = Leibniz(C, I \ {w})
  <2> HIDE DEF C
  <2> QED BY <1>6, CofactorMain
<1>9. Leibniz(C, I \ {w}) = Leibniz(E, I \ {w})
  <2>1. \A x \in I \ {w} : C[x] = E[x]
    <3> SUFFICES ASSUME NEW x \in I \ {w} PROVE C[x] = E[x] OBVIOUS
    <3>1. E[x] = IF x = s THEN A[w] ELSE A[x] BY DEF Put
    <3> HIDE DEF C, E
    <3> QED BY <1>5, <3>1
  <2>2. \A x, y \in I \ {w} : C[x][y] = E[x][y] BY <2>1
  <2> HIDE DEF C, E
  <2> QED BY <2>2, LeibnizSame
<1>10. Leibniz(B, I) = Cofactor(A, I, s, w) BY DEF Cofactor
<1> HIDE DEF B, C, E
<1>11. Leibniz(E, I \ {w}) = - Cofactor(A, I, s, w) BY <1>3, <1>4, <1>7, <1>8, <1>9, <1>10
<1>12. Cofactor(A, I, s, w) \in Int BY <1>4, <1>10
<1>13. Cofactor(A, I, s, w) = - Leibniz(E, I \ {w}) BY <1>11, <1>12
<1> QED BY <1>13 DEF E

-----------------------------------------------------------------------------
(* A row added at the fringe *)

\* The minor of K with v as an additional row, and the column s.
Fringe(A, K, s, v) == Leibniz(Put(A, K \cup {s}, s, v), K \cup {s})

\* It depends on the rows in K and on v only.
LEMMA FringeSame ==
  ASSUME NEW K, NEW s, NEW v, NEW u, \A y \in K \cup {s} : v[y] = u[y],
         NEW A, NEW B, \A x \in K : \A y \in K \cup {s} : A[x][y] = B[x][y]
  PROVE  Fringe(A, K, s, v) = Fringe(B, K, s, u)
<1> DEFINE J == K \cup {s}
           C == Put(A, J, s, v)
           E == Put(B, J, s, u)
<1>1. \A x, y \in J : C[x][y] = E[x][y]
  <2> SUFFICES ASSUME NEW x \in J, NEW y \in J PROVE C[x][y] = E[x][y] OBVIOUS
  <2>1. CASE x = s BY <2>1 DEF Put
  <2>2. CASE x # s
    <3>1. C[x] = A[x] /\ E[x] = B[x] /\ x \in K BY <2>2 DEF Put
    <3> QED BY <3>1
  <2> QED BY <2>1, <2>2
<1> HIDE DEF C, E, J
<1>2. Leibniz(C, J) = Leibniz(E, J) BY <1>1, LeibnizSame
<1> QED BY <1>2 DEF Fringe, C, E, J

\* It is an integer.
LEMMA FringeInt ==
  ASSUME NEW K \in SUBSET Int, IsFiniteSet(K), NEW s \in Int,
         NEW A, \A x \in K : \A y \in K \cup {s} : A[x][y] \in Int,
         NEW v, \A y \in K \cup {s} : v[y] \in Int
  PROVE  Fringe(A, K, s, v) \in Int
<1> DEFINE J == K \cup {s}
<1>1. IsFiniteSet(J) /\ J \in SUBSET Int BY FS_AddElement
<1>2. J \subseteq J /\ \A x \in J \ {s} : \A y \in J : A[x][y] \in Int OBVIOUS
<1>3. Square(Put(A, J, s, v), J)
  <2>1. \A y \in J : v[y] \in Int OBVIOUS
  <2> HIDE DEF J
  <2> QED BY <1>2, <2>1, PutSquare
<1> HIDE DEF J
<1>4. Leibniz(Put(A, J, s, v), J) \in Int BY <1>1, <1>3, LeibnizInt
<1> QED BY <1>4 DEF Fringe, J

\* A row of K as the additional one: two rows are equal.
LEMMA FringeTwice ==
  ASSUME NEW K \in SUBSET Int, IsFiniteSet(K), NEW s \in Int, s \notin K, NEW w \in K,
         NEW A, \A x \in K : \A y \in K \cup {s} : A[x][y] \in Int
  PROVE  Fringe(A, K, s, A[w]) = 0
<1> DEFINE J == K \cup {s}
           B == Put(A, J, s, A[w])
<1>1. IsFiniteSet(J) /\ J \in SUBSET Int BY FS_AddElement
<1>2. J \subseteq J /\ \A x \in J \ {s} : \A y \in J : A[x][y] \in Int OBVIOUS
<1>3. \A y \in J : A[w][y] \in Int OBVIOUS
<1>4. w \in J /\ s \in J /\ w # s OBVIOUS
<1>5. B[s] = A[w] /\ B[w] = A[w] BY <1>4 DEF Put
<1> HIDE DEF J
<1>6. Square(B, J) BY <1>2, <1>3, PutSquare
<1>7. \A y \in J : B[s][y] = B[w][y] BY <1>5
<1> HIDE DEF B
<1>8. Leibniz(B, J) = 0 BY <1>1, <1>4, <1>6, <1>7, LeibnizTwice
<1> QED BY <1>8 DEF Fringe, B, J

\* A is a matrix of integers on the rows K and the columns of K and s.
Fringed(A, K, s) == \A x \in K : \A y \in K \cup {s} : A[x][y] \in Int

IntOn(v, J) == \A y \in J : v[y] \in Int

\* g collects what the entries of v contribute.
FringeTerms(g, A, K, s, v) ==
  \A w \in K : g[w] = v[w] * Fringe(A, K \ {w}, s, A[w])

\* The diagonal term of an expansion, and the others.
Expanded(u, d, others) == u * d - others

\* The law of the fringe: the additional row is expanded, and every term but
\* one is a fringe again, with one row less.
LEMMA FringeLaw ==
  ASSUME NEW K \in SUBSET Int, IsFiniteSet(K), NEW s \in Int, s \notin K,
         NEW A, Fringed(A, K, s), NEW v, IntOn(v, K \cup {s}),
         NEW g, FringeTerms(g, A, K, s, v)
  PROVE  /\ \A w \in K : g[w] \in Int
         /\ SumFunctionOnSet(g, K) \in Int
         /\ Fringe(A, K, s, v) = Expanded(v[s], Leibniz(A, K), SumFunctionOnSet(g, K))
<1> USE DEF Fringed, IntOn, FringeTerms
<1> DEFINE J == K \cup {s}
           B == Put(A, J, s, v)
           f == [w \in J |-> B[s][w] * Cofactor(B, J, s, w)]
<1>1. IsFiniteSet(J) /\ J \in SUBSET Int /\ s \in J BY FS_AddElement
<1>2. J \subseteq J /\ \A x \in J \ {s} : \A y \in J : A[x][y] \in Int OBVIOUS
<1>3. \A y \in J : v[y] \in Int OBVIOUS
<1>4. J \ {s} = K OBVIOUS
<1>5. B[s] = v /\ \A x \in K : B[x] = A[x] BY DEF Put
<1>6. \A u, t \in Int : u * t \in Int /\ u * (-t) = -(u * t) OBVIOUS
<1>7. Square(B, J)
  <2> HIDE DEF J
  <2> QED BY <1>2, <1>3, PutSquare
<1>8. \A x \in J \ {s} : \A y \in J : B[x][y] \in Int BY <1>7 DEF Square
<1>9. \A x \in K : \A y \in K : A[x][y] = B[x][y] BY <1>5
<1>10. ASSUME NEW w \in K
       PROVE  g[w] \in Int /\ f[w] = (-1) * g[w] /\ f[w] \in Int
  <2> DEFINE L == K \ {w}
  <2>1. f[w] = v[w] * Cofactor(B, J, s, w) BY <1>5
  <2>2. w # s /\ w \in J OBVIOUS
  <2>3. (J \ {w}) = L \cup {s} BY <2>2
  <2>4. B[w] = A[w] BY <1>5
  <2>5. \A x \in L : \A y \in L \cup {s} : A[x][y] \in Int OBVIOUS
  <2>6. \A y \in L \cup {s} : A[w][y] \in Int OBVIOUS
  <2>7. \A x \in L : \A y \in L \cup {s} : B[x][y] = A[x][y] BY <1>5
  <2>8. L \in SUBSET Int /\ IsFiniteSet(L) BY FS_Subset
  <2>9. v[w] \in Int BY <1>3
  <2> HIDE DEF f, B, J, L
  <2>10. Cofactor(B, J, s, w) = - Leibniz(Put(B, J \ {w}, s, B[w]), J \ {w})
    BY <1>1, <1>8, <2>2, CofactorOther
  <2>11. Leibniz(Put(B, J \ {w}, s, B[w]), J \ {w}) = Fringe(B, L, s, A[w])
    BY <2>3, <2>4 DEF Fringe
  <2>12. Fringe(B, L, s, A[w]) = Fringe(A, L, s, A[w]) BY <2>7, FringeSame
  <2>13. Fringe(A, L, s, A[w]) \in Int BY <2>5, <2>6, <2>8, FringeInt
  <2>14. g[w] = v[w] * Fringe(A, L, s, A[w]) BY DEF L
  <2>15. Cofactor(B, J, s, w) = - Fringe(A, L, s, A[w]) BY <2>10, <2>11, <2>12
  <2>16. f[w] = - g[w] BY <1>6, <2>1, <2>9, <2>13, <2>14, <2>15
  <2>17. g[w] \in Int BY <1>6, <2>9, <2>13, <2>14
  <2> QED BY <2>16, <2>17
<1>11. f[s] = v[s] * Leibniz(A, K) /\ f[s] \in Int
  <2>1. f[s] = v[s] * Cofactor(B, J, s, s) BY <1>5
  <2>2. Square(A, K) BY DEF Square
  <2>3. v[s] \in Int BY <1>3
  <2> HIDE DEF f, B, J
  <2>4. Cofactor(B, J, s, s) = Leibniz(B, J \ {s}) BY <1>1, <1>8, CofactorMain
  <2>5. Leibniz(A, K) = Leibniz(B, K) BY <1>9, LeibnizSame
  <2>6. Leibniz(A, K) \in Int BY <2>2, LeibnizInt
  <2> QED BY <1>4, <1>6, <2>1, <2>3, <2>4, <2>5, <2>6
<1>12. Leibniz(B, J) = SumFunctionOnSet(f, J)
  <2>1. \A w \in J : f[w] = B[s][w] * Cofactor(B, J, s, w) OBVIOUS
  <2> HIDE DEF f, B, J
  <2> QED BY <1>1, <1>7, <2>1, Expansion
<1>13. \A w \in J : f[w] \in Int
  <2> HIDE DEF f, B
  <2> QED BY <1>10, <1>11
<1>14. \A w \in K : g[w] \in Int BY <1>10
<1>15. \A w \in K : g[w] \in Int /\ f[w] = (-1) * g[w] BY <1>10
<1>16. Fringe(A, K, s, v) = Leibniz(B, J) BY DEF Fringe
<1> HIDE DEF f, B, J
<1>17. SumFunctionOnSet(f, J) = f[s] + SumFunctionOnSet(f, J \ {s})
  BY <1>1, <1>13, SumTake
<1>18. SumFunctionOnSet(g, K) \in Int BY <1>14, SumInt
<1>19. -1 \in Int OBVIOUS
<1>20. SumFunctionOnSet(f, K) = (-1) * SumFunctionOnSet(g, K)
  BY <1>15, <1>19, SumTimes
<1>21. \A t \in Int : (-1) * t = -t OBVIOUS
<1>22. Fringe(A, K, s, v) = f[s] + ((-1) * SumFunctionOnSet(g, K))
  BY <1>4, <1>12, <1>16, <1>17, <1>20
<1>23. \A a, b \in Int : a + ((-1) * b) = a - b OBVIOUS
<1>24. Fringe(A, K, s, v) = f[s] - SumFunctionOnSet(g, K) BY <1>11, <1>18, <1>22, <1>23
<1> QED BY <1>11, <1>14, <1>18, <1>24 DEF Expanded

-----------------------------------------------------------------------------
(* Sums over the subsets of one size *)

\* Such subsets of a finite set are finite, and there are finitely many.
LEMMA KSubsets ==
  ASSUME NEW N \in SUBSET Int, IsFiniteSet(N), NEW k
  PROVE  /\ IsFiniteSet(kSubset(k, N))
         /\ \A K \in kSubset(k, N) : /\ K \in SUBSET N /\ K \in SUBSET Int
                                     /\ IsFiniteSet(K) /\ Cardinality(K) = k
<1>1. IsFiniteSet(SUBSET N) BY FS_SUBSET
<1>2. kSubset(k, N) \subseteq SUBSET N BY DEF kSubset
<1>3. IsFiniteSet(kSubset(k, N)) BY <1>1, <1>2, FS_Subset
<1>4. ASSUME NEW K \in kSubset(k, N)
      PROVE  K \in SUBSET N /\ K \in SUBSET Int /\ IsFiniteSet(K) /\ Cardinality(K) = k
  <2>1. K \in SUBSET N /\ Cardinality(K) = k BY DEF kSubset
  <2>2. IsFiniteSet(K) BY <2>1, FS_Subset
  <2> QED BY <2>1, <2>2
<1> QED BY <1>3, <1>4

\* The subsets of size k+1 that hold w are those of size k of the rest, with
\* w added.
LEMMA KSubsetsWith ==
  ASSUME NEW N \in SUBSET Int, IsFiniteSet(N), NEW w \in N, NEW k \in Nat,
         NEW b, \A K \in kSubset(k, N \ {w}) : b[K] = K \cup {w}
  PROVE  Renames(b, kSubset(k, N \ {w}), {K \in kSubset(k + 1, N) : w \in K})
<1> DEFINE X == kSubset(k, N \ {w})
           Y == {K \in kSubset(k + 1, N) : w \in K}
<1>1. ASSUME NEW K \in X PROVE b[K] \in Y /\ K = b[K] \ {w}
  <2>1. K \in SUBSET (N \ {w}) /\ Cardinality(K) = k BY DEF kSubset
  <2>2. IsFiniteSet(K)
    <3>1. K \in SUBSET N BY <2>1
    <3> QED BY <3>1, FS_Subset
  <2>3. w \notin K BY <2>1
  <2>4. Cardinality(K \cup {w}) = k + 1 BY <2>1, <2>2, <2>3, FS_AddElement
  <2>5. K \cup {w} \in kSubset(k + 1, N) BY <2>1, <2>4 DEF kSubset
  <2>6. b[K] = K \cup {w} OBVIOUS
  <2> QED BY <2>3, <2>5, <2>6
<1>2. ASSUME NEW K \in Y PROVE \E L \in X : b[L] = K
  <2>1. K \in SUBSET N /\ Cardinality(K) = k + 1 /\ w \in K BY DEF kSubset
  <2>2. IsFiniteSet(K) BY <2>1, FS_Subset
  <2>3. Cardinality(K \ {w}) = k
    <3>1. Cardinality(K \ {w}) = Cardinality(K) - 1 BY <2>1, <2>2, FS_RemoveElement
    <3>2. (k + 1) - 1 = k OBVIOUS
    <3> QED BY <2>1, <3>1, <3>2
  <2>4. K \ {w} \in SUBSET (N \ {w}) BY <2>1
  <2>5. K \ {w} \in X BY <2>3, <2>4 DEF kSubset
  <2>6. b[K \ {w}] = K BY <2>1, <2>5
  <2> QED BY <2>5, <2>6
<1> HIDE DEF X, Y
<1>3. \A K \in X : b[K] \in Y BY <1>1
<1>4. \A K, L \in X : b[K] = b[L] => K = L BY <1>1
<1>5. Renames(b, X, Y) BY <1>2, <1>3, <1>4 DEF Renames
<1> QED BY <1>5 DEF X, Y

\* The sum of the minors of size k.
MinorSum(A, N, k) ==
  SumFunctionOnSet([K \in kSubset(k, N) |-> Leibniz(A, K)], kSubset(k, N))

\* The sum of the fringes around the minors of size k.
FringeSum(A, N, s, v, k) ==
  SumFunctionOnSet([K \in kSubset(k, N) |-> Fringe(A, K, s, v)], kSubset(k, N))

\* The determinant of no rows.
LEMMA LeibnizEmpty == ASSUME NEW A PROVE Leibniz(A, {}) = 1
<1> DEFINE e == [x \in {} |-> 0]
           f == LeibnizTerms(A, {})
<1>1. Bijections({}) = {e}
  <2>1. \A p : p \in [{} -> {}] <=> p = e OBVIOUS
  <2> QED BY <2>1 DEF Bijections
<1>2. IsFiniteSet({}) BY FS_EmptySet
<1>3. Sgn(e, {}) = 1
  <2>1. \A x, y \in {} : x < y => e[x] < e[y] OBVIOUS
  <2> HIDE DEF e
  <2> QED BY <1>2, <2>1, SgnRising
<1>4. ProductOn(Entries(A, {}, e), {}) = 1 BY ProductEmpty
<1>5. f[e] = 1
  <2>1. f[e] = Sgn(e, {}) * ProductOn(Entries(A, {}, e), {})
    BY <1>1 DEF LeibnizTerms, LeibnizTerm
  <2>2. 1 * 1 = 1 OBVIOUS
  <2> QED BY <1>3, <1>4, <2>1, <2>2
<1>6. {} \in SUBSET Int OBVIOUS
<1>7. Leibniz(A, {}) = SumFunctionOnSet(f, {e}) BY <1>1, <1>2, <1>6, LeibnizIs
<1> HIDE DEF f, e
<1>8. IsFiniteSet({e}) /\ e \in {e} /\ \A y \in {e} \ {e} : f[y] = 0 BY FS_Singleton
<1>9. f[e] \in Int BY <1>5
<1>10. SumFunctionOnSet(f, {e}) = f[e] BY <1>8, <1>9, SumOnly
<1> QED BY <1>5, <1>7, <1>10

\* There is one subset of size 0.
LEMMA KSubsetZero ==
  ASSUME NEW N \in SUBSET Int, IsFiniteSet(N) PROVE kSubset(0, N) = {{}}
<1>1. \A K \in SUBSET N : Cardinality(K) = 0 <=> K = {} BY SubsetSizes
<1> QED BY <1>1 DEF kSubset

\* There is one subset of full size.
LEMMA KSubsetAll ==
  ASSUME NEW N \in SUBSET Int, IsFiniteSet(N) PROVE kSubset(Cardinality(N), N) = {N}
<1>1. \A K \in SUBSET N : Cardinality(K) = Cardinality(N) => K = N BY FS_Subset
<1> QED BY <1>1 DEF kSubset

\* There are none larger.
LEMMA KSubsetNone ==
  ASSUME NEW N \in SUBSET Int, IsFiniteSet(N), NEW k \in Int, k > Cardinality(N)
  PROVE  kSubset(k, N) = {}
<1>1. \A K \in SUBSET N : Cardinality(K) <= Cardinality(N) /\ Cardinality(K) \in Nat
  BY FS_Subset, FS_CardinalityType
<1>2. Cardinality(N) \in Nat BY FS_CardinalityType
<1> QED BY <1>1, <1>2 DEF kSubset

\* A sum with one term.
LEMMA SumSingle ==
  ASSUME NEW x, NEW f, f[x] \in Int
  PROVE  SumFunctionOnSet(f, {x}) = f[x]
<1>1. IsFiniteSet({x}) /\ x \in {x} /\ \A y \in {x} \ {x} : f[y] = 0 BY FS_Singleton
<1> QED BY <1>1, SumOnly

\* The minors, and so their sum, are integers.
LEMMA MinorSumInt ==
  ASSUME NEW N \in SUBSET Int, IsFiniteSet(N), NEW A, Square(A, N), NEW k
  PROVE  /\ \A K \in kSubset(k, N) : Leibniz(A, K) \in Int
         /\ MinorSum(A, N, k) \in Int
<1> DEFINE X == kSubset(k, N)
           f == [K \in X |-> Leibniz(A, K)]
<1>1. IsFiniteSet(X) BY KSubsets
<1>2. ASSUME NEW K \in X PROVE Leibniz(A, K) \in Int
  <2>1. K \in SUBSET N /\ K \in SUBSET Int /\ IsFiniteSet(K) BY KSubsets
  <2>2. Square(A, K) BY <2>1 DEF Square
  <2> QED BY <2>1, <2>2, LeibnizInt
<1>3. \A K \in X : f[K] \in Int BY <1>2
<1> HIDE DEF f, X
<1>4. SumFunctionOnSet(f, X) \in Int BY <1>1, <1>3, SumInt
<1> QED BY <1>2, <1>4 DEF f, X, MinorSum

\* So are the fringes and their sum.
LEMMA FringeSumInt ==
  ASSUME NEW N \in SUBSET Int, IsFiniteSet(N), NEW s \in Int, NEW A, Fringed(A, N, s),
         NEW v, \A y \in N \cup {s} : v[y] \in Int, NEW k
  PROVE  /\ \A K \in kSubset(k, N) : Fringe(A, K, s, v) \in Int
         /\ FringeSum(A, N, s, v, k) \in Int
<1> DEFINE X == kSubset(k, N)
           f == [K \in X |-> Fringe(A, K, s, v)]
<1>1. IsFiniteSet(X) BY KSubsets
<1>2. ASSUME NEW K \in X PROVE Fringe(A, K, s, v) \in Int
  <2>1. K \in SUBSET N /\ K \in SUBSET Int /\ IsFiniteSet(K) BY KSubsets
  <2>2. \A x \in K : \A y \in K \cup {s} : A[x][y] \in Int BY <2>1 DEF Fringed
  <2>3. \A y \in K \cup {s} : v[y] \in Int BY <2>1
  <2> QED BY <2>1, <2>2, <2>3, FringeInt
<1>3. \A K \in X : f[K] \in Int BY <1>2
<1> HIDE DEF f, X
<1>4. SumFunctionOnSet(f, X) \in Int BY <1>1, <1>3, SumInt
<1> QED BY <1>2, <1>4 DEF f, X, FringeSum

\* The fringe around nothing.
LEMMA FringeSumZero ==
  ASSUME NEW N \in SUBSET Int, IsFiniteSet(N), NEW s \in Int, NEW A,
         NEW v, v[s] \in Int
  PROVE  FringeSum(A, N, s, v, 0) = v[s]
<1> DEFINE f == [K \in kSubset(0, N) |-> Fringe(A, K, s, v)]
           g == [w \in {} |-> 0]
           e == {}
<1>1. Fringe(A, e, s, v) = Expanded(v[s], Leibniz(A, e), SumFunctionOnSet(g, e))
  <2>1. e \in SUBSET Int /\ IsFiniteSet(e) /\ s \notin e BY FS_EmptySet
  <2>2. Fringed(A, e, s) BY DEF Fringed
  <2>3. IntOn(v, e \cup {s}) BY DEF IntOn
  <2>4. FringeTerms(g, A, e, s, v) BY DEF FringeTerms
  <2> HIDE DEF e, g
  <2> QED BY <2>1, <2>2, <2>3, <2>4, FringeLaw
<1>2. SumFunctionOnSet(g, e) = 0 BY SumEmpty
<1>3. Leibniz(A, e) = 1 BY LeibnizEmpty
<1>4. \A t \in Int : t * 1 - 0 = t OBVIOUS
<1>5. Fringe(A, e, s, v) = v[s] BY <1>1, <1>2, <1>3, <1>4 DEF Expanded
<1>6. kSubset(0, N) = {e} BY KSubsetZero
<1>7. f[e] = v[s] BY <1>5, <1>6
<1>8. FringeSum(A, N, s, v, 0) = SumFunctionOnSet(f, {e}) BY <1>6 DEF FringeSum
<1> HIDE DEF f, e
<1>9. SumFunctionOnSet(f, {e}) = f[e] BY <1>7, SumSingle
<1> QED BY <1>7, <1>8, <1>9

\* g collects what the entries of v contribute to the sum.
FringeSumTerms(g, A, N, s, v, k) ==
  \A w \in N : g[w] = v[w] * FringeSum(A, N \ {w}, s, A[w], k)

\* The law of the fringe, summed up.
LEMMA FringeSumLaw ==
  ASSUME NEW N \in SUBSET Int, IsFiniteSet(N), NEW s \in Int, s \notin N,
         NEW A, Fringed(A, N, s), NEW v, IntOn(v, N \cup {s}),
         NEW k \in Nat, NEW g, FringeSumTerms(g, A, N, s, v, k)
  PROVE  /\ \A w \in N : g[w] \in Int
         /\ FringeSum(A, N, s, v, k + 1)
              = Expanded(v[s], MinorSum(A, N, k + 1), SumFunctionOnSet(g, N))
<1>0. /\ \A y \in N \cup {s} : v[y] \in Int
      /\ \A w \in N : g[w] = v[w] * FringeSum(A, N \ {w}, s, A[w], k)
  BY DEF IntOn, FringeSumTerms
<1> DEFINE X == kSubset(k + 1, N)
           F == [K \in X |-> [w \in N |->
                   IF w \in K THEN v[w] * Fringe(A, K \ {w}, s, A[w]) ELSE 0]]
           lines == [K \in X |-> SumFunctionOnSet([w \in N |-> F[K][w]], N)]
           columns == [w \in N |-> SumFunctionOnSet([K \in X |-> F[K][w]], X)]
           minors == [K \in X |-> Leibniz(A, K)]
           first == [K \in X |-> v[s] * Leibniz(A, K)]
           minus == [K \in X |-> (-1) * lines[K]]
           fringes == [K \in X |-> Fringe(A, K, s, v)]
<1>1. IsFiniteSet(X) BY KSubsets
<1>2. \A u, t \in Int : u * t \in Int OBVIOUS
<1>3. Square(A, N) BY DEF Square, Fringed
<1>4. ASSUME NEW K \in X
      PROVE  /\ \A w \in N : F[K][w] \in Int
             /\ lines[K] \in Int
             /\ Fringe(A, K, s, v) = v[s] * Leibniz(A, K) - lines[K]
  <2> DEFINE line == [w \in N |-> F[K][w]]
  <2>1. K \in SUBSET N /\ K \in SUBSET Int /\ IsFiniteSet(K) BY KSubsets
  <2>2. Fringed(A, K, s) BY <2>1 DEF Fringed
  <2>3. IntOn(v, K \cup {s}) BY <1>0, <2>1 DEF IntOn
  <2>4. s \notin K BY <2>1
  <2>5. FringeTerms(line, A, K, s, v) BY <2>1 DEF FringeTerms
  <2>6. \A w \in N \ K : line[w] = 0 OBVIOUS
  <2>7. lines[K] = SumFunctionOnSet(line, N) OBVIOUS
  <2>8. \A w \in N : F[K][w] = line[w] OBVIOUS
  <2> HIDE DEF line, lines, X, F
  <2>9. \A w \in K : line[w] \in Int BY <2>1, <2>2, <2>3, <2>4, <2>5, FringeLaw
  <2>10. Fringe(A, K, s, v) = Expanded(v[s], Leibniz(A, K), SumFunctionOnSet(line, K))
    BY <2>1, <2>2, <2>3, <2>4, <2>5, FringeLaw
  <2>11. SumFunctionOnSet(line, N) = SumFunctionOnSet(line, K)
    BY <2>1, <2>6, <2>9, SumPad
  <2>12. SumFunctionOnSet(line, K) \in Int BY <2>1, <2>9, SumInt
  <2>13. \A w \in N : line[w] \in Int BY <2>6, <2>9
  <2> QED BY <2>7, <2>8, <2>10, <2>11, <2>12, <2>13 DEF Expanded
<1>5. ASSUME NEW w \in N PROVE columns[w] \in Int /\ g[w] = columns[w]
  <2> DEFINE column == [K \in X |-> F[K][w]]
             Y == {K \in X : w \in K}
             Z == kSubset(k, N \ {w})
             b == [K \in Z |-> K \cup {w}]
             f == [K \in Z |-> Fringe(A, K, s, A[w])]
             h == [K \in Z |-> v[w] * f[K]]
  <2>1. columns[w] = SumFunctionOnSet(column, X) OBVIOUS
  <2>2. \A K \in X : column[K] \in Int BY <1>4
  <2>3. \A K \in X \ Y : column[K] = 0 OBVIOUS
  <2>4. \A K \in Y : column[K] = v[w] * Fringe(A, K \ {w}, s, A[w]) OBVIOUS
  <2>5. Y \in SUBSET X OBVIOUS
  <2>6. Renames(b, Z, Y)
    <3>1. \A K \in Z : b[K] = K \cup {w} OBVIOUS
    <3> HIDE DEF b
    <3> QED BY <3>1, KSubsetsWith
  <2>7. IsFiniteSet(N \ {w}) /\ N \ {w} \in SUBSET Int BY FS_Subset
  <2>8. IsFiniteSet(Z)
    <3> DEFINE L == N \ {w}
    <3> HIDE DEF L
    <3>1. IsFiniteSet(kSubset(k, L)) BY <2>7, KSubsets DEF L
    <3> QED BY <3>1 DEF L
  <2>9. \A K \in Z : f[K] \in Int
    <3> DEFINE L == N \ {w}
    <3>1. Fringed(A, L, s) BY DEF Fringed
    <3>2. \A y \in L \cup {s} : A[w][y] \in Int BY DEF Fringed
    <3> HIDE DEF L
    <3>3. \A K \in kSubset(k, L) : Fringe(A, K, s, A[w]) \in Int
      BY <2>7, <3>1, <3>2, FringeSumInt DEF L
    <3> QED BY <3>3 DEF L
  <2>10. v[w] \in Int BY <1>0
  <2>11. \A K \in Z : h[K] = column[b[K]]
    <3> SUFFICES ASSUME NEW K \in Z PROVE h[K] = column[b[K]] OBVIOUS
    <3>1. b[K] \in Y BY <2>6 DEF Renames
    <3>2. b[K] = K \cup {w} OBVIOUS
    <3>3. w \notin K BY DEF kSubset
    <3>4. b[K] \ {w} = K BY <3>2, <3>3
    <3>5. h[K] = v[w] * Fringe(A, K, s, A[w]) OBVIOUS
    <3> HIDE DEF b, h, column, Y
    <3> QED BY <2>4, <3>1, <3>4, <3>5
  <2>12. Carries(h, column, b, Z)
    <3>1. \A K \in Z : column[b[K]] \in Int
      <4>1. \A K \in Z : b[K] \in Y BY <2>6 DEF Renames
      <4> HIDE DEF column, b, Z
      <4> QED BY <2>2, <2>5, <4>1
    <3> HIDE DEF column, b, Z, h
    <3> QED BY <2>11, <3>1 DEF Carries
  <2>13. FringeSum(A, N \ {w}, s, A[w], k) = SumFunctionOnSet(f, Z) BY DEF FringeSum
  <2>14. \A K \in Z : f[K] \in Int /\ h[K] = v[w] * f[K] BY <2>9
  <2>15. \A K \in Y : column[K] \in Int BY <2>2, <2>5
  <2> HIDE DEF column, Y, Z, b, f, h, columns, X, F
  <2>16. SumFunctionOnSet(column, X) = SumFunctionOnSet(column, Y)
    BY <1>1, <2>3, <2>5, <2>15, SumPad
  <2>17. SumFunctionOnSet(h, Z) = SumFunctionOnSet(column, Y)
    BY <2>6, <2>8, <2>12, SumCarried
  <2>18. SumFunctionOnSet(h, Z) = v[w] * SumFunctionOnSet(f, Z)
    BY <2>8, <2>10, <2>14, SumTimes
  <2>19. SumFunctionOnSet(column, X) \in Int BY <1>1, <2>2, SumInt
  <2>20. g[w] = v[w] * FringeSum(A, N \ {w}, s, A[w], k) BY <1>0
  <2> QED BY <2>1, <2>13, <2>16, <2>17, <2>18, <2>19, <2>20
<1>6. SumFunctionOnSet(lines, X) = SumFunctionOnSet(columns, N)
  <2>1. \A K \in X, w \in N : F[K][w] \in Int BY <1>4
  <2> HIDE DEF F, X
  <2> QED BY <1>1, <2>1, SumSwap
<1>7. SumFunctionOnSet(columns, N) = SumFunctionOnSet(g, N)
  <2>1. \A w \in N : columns[w] \in Int /\ g[w] = columns[w] BY <1>5
  <2> HIDE DEF columns
  <2> QED BY <2>1, SumEqual
<1>8. v[s] \in Int BY <1>0
<1>9. \A K \in X : Leibniz(A, K) \in Int BY <1>3, MinorSumInt
<1>10. ASSUME NEW K \in X
       PROVE  /\ minors[K] \in Int /\ first[K] = v[s] * minors[K] /\ first[K] \in Int
              /\ lines[K] \in Int /\ minus[K] = (-1) * lines[K] /\ minus[K] \in Int
              /\ fringes[K] = first[K] + minus[K]
  <2>1. /\ minors[K] = Leibniz(A, K) /\ first[K] = v[s] * Leibniz(A, K)
        /\ minus[K] = (-1) * lines[K] /\ fringes[K] = Fringe(A, K, s, v)
    OBVIOUS
  <2>2. Leibniz(A, K) \in Int BY <1>9
  <2>3. lines[K] \in Int /\ Fringe(A, K, s, v) = v[s] * Leibniz(A, K) - lines[K] BY <1>4
  <2> HIDE DEF minors, first, minus, lines, fringes
  <2>4. v[s] * Leibniz(A, K) \in Int BY <1>2, <1>8, <2>2
  <2>5. \A a, l \in Int : (-1) * l \in Int /\ a - l = a + (-1) * l OBVIOUS
  <2> QED BY <2>1, <2>2, <2>3, <2>4, <2>5
<1>11. /\ FringeSum(A, N, s, v, k + 1) = SumFunctionOnSet(fringes, X)
       /\ MinorSum(A, N, k + 1) = SumFunctionOnSet(minors, X)
  BY DEF FringeSum, MinorSum
<1>12. \A K \in X : minors[K] \in Int /\ first[K] = v[s] * minors[K] BY <1>10
<1>13. \A K \in X : lines[K] \in Int /\ minus[K] = (-1) * lines[K] BY <1>10
<1>14. \A K \in X : first[K] \in Int /\ minus[K] \in Int /\ fringes[K] = first[K] + minus[K]
  BY <1>10
<1>15. \A K \in X : first[K] \in Int /\ lines[K] \in Int BY <1>10
<1> HIDE DEF X, F, lines, columns, minors, first, minus, fringes
<1>16. SumFunctionOnSet(fringes, X)
         = SumFunctionOnSet(first, X) + SumFunctionOnSet(minus, X)
  BY <1>1, <1>14, SumPlus
<1>17. SumFunctionOnSet(first, X) = v[s] * SumFunctionOnSet(minors, X)
  BY <1>1, <1>8, <1>12, SumTimes
<1>18. -1 \in Int OBVIOUS
<1>19. SumFunctionOnSet(minus, X) = (-1) * SumFunctionOnSet(lines, X)
  BY <1>1, <1>13, <1>18, SumTimes
<1>20. SumFunctionOnSet(lines, X) \in Int BY <1>1, <1>15, SumInt
<1>21. SumFunctionOnSet(first, X) \in Int BY <1>1, <1>15, SumInt
<1>22. \A a, l \in Int : a + (-1) * l = a - l OBVIOUS
<1>23. SumFunctionOnSet(fringes, X)
         = v[s] * SumFunctionOnSet(minors, X) - SumFunctionOnSet(lines, X)
  BY <1>16, <1>17, <1>19, <1>20, <1>21, <1>22
<1>24. \A w \in N : g[w] \in Int BY <1>5
<1> QED BY <1>6, <1>7, <1>11, <1>23, <1>24 DEF Expanded

\* A fringe with the row of A itself is a minor.
LEMMA FringeOwn ==
  ASSUME NEW A, NEW K, NEW s PROVE Fringe(A, K, s, A[s]) = Leibniz(A, K \cup {s})
<1> DEFINE J == K \cup {s}
           B == Put(A, J, s, A[s])
<1>1. \A x, y \in J : B[x][y] = A[x][y] BY DEF Put
<1> HIDE DEF B, J
<1>2. Leibniz(B, J) = Leibniz(A, J) BY <1>1, LeibnizSame
<1> QED BY <1>2 DEF B, J, Fringe

\* The minors of one more row are those without it and those with it.
LEMMA MinorSumLaw ==
  ASSUME NEW N \in SUBSET Int, IsFiniteSet(N), NEW s \in Int, s \notin N,
         NEW A, Square(A, N \cup {s}), NEW k \in Nat
  PROVE  /\ FringeSum(A, N, s, A[s], k) \in Int
         /\ MinorSum(A, N, k + 1) \in Int
         /\ MinorSum(A, N \cup {s}, k + 1)
              = MinorSum(A, N, k + 1) + FringeSum(A, N, s, A[s], k)
<1> DEFINE J == N \cup {s}
           X == kSubset(k + 1, J)
           Y == {K \in X : s \in K}
           U == kSubset(k + 1, N)
           Z == kSubset(k, N)
           b == [K \in Z |-> K \cup {s}]
           f == [K \in X |-> Leibniz(A, K)]
           g == [K \in U |-> Leibniz(A, K)]
           h == [K \in Z |-> Fringe(A, K, s, A[s])]
<1>1. IsFiniteSet(J) /\ J \in SUBSET Int /\ s \in J /\ J \ {s} = N BY FS_AddElement
<1>2. IsFiniteSet(Z) /\ IsFiniteSet(U) BY KSubsets
<1>3. IsFiniteSet(X)
  <2> HIDE DEF J
  <2> QED BY <1>1, KSubsets
<1>4. \A K \in X : f[K] \in Int
  <2> HIDE DEF J
  <2>1. \A K \in kSubset(k + 1, J) : Leibniz(A, K) \in Int BY <1>1, MinorSumInt DEF J
  <2> QED BY <2>1
<1>5. X = U \cup Y /\ U \cap Y = {}
  <2>1. U \subseteq X BY DEF kSubset
  <2>2. \A K \in X : s \notin K => K \in U BY DEF kSubset
  <2>3. \A K \in U : s \notin K BY DEF kSubset
  <2> QED BY <2>1, <2>2, <2>3
<1>6. Renames(b, Z, Y)
  <2>1. \A K \in kSubset(k, J \ {s}) : b[K] = K \cup {s} BY <1>1
  <2> HIDE DEF b, J
  <2>2. Renames(b, kSubset(k, J \ {s}), Y) BY <1>1, <2>1, KSubsetsWith
  <2> QED BY <1>1, <2>2
<1>7. Carries(h, f, b, Z)
  <2> SUFFICES ASSUME NEW K \in Z PROVE f[b[K]] \in Int /\ h[K] = f[b[K]] BY DEF Carries
  <2>1. b[K] = K \cup {s} /\ h[K] = Fringe(A, K, s, A[s]) OBVIOUS
  <2>2. b[K] \in X BY <1>6 DEF Renames
  <2>3. f[b[K]] = Leibniz(A, b[K]) BY <2>2
  <2>4. Fringe(A, K, s, A[s]) = Leibniz(A, K \cup {s}) BY FringeOwn
  <2>5. f[b[K]] \in Int BY <1>4, <2>2
  <2> HIDE DEF f, h, b, X
  <2> QED BY <2>1, <2>3, <2>4, <2>5
<1>8. \A K \in U : g[K] \in Int /\ f[K] = g[K]
  <2> SUFFICES ASSUME NEW K \in U PROVE g[K] \in Int /\ f[K] = g[K] OBVIOUS
  <2>1. K \in X BY <1>5
  <2>2. f[K] = Leibniz(A, K) /\ g[K] = Leibniz(A, K) BY <2>1
  <2> HIDE DEF f, g, X
  <2> QED BY <1>4, <2>1, <2>2
<1>9. \A K \in Z : h[K] \in Int
  <2> HIDE DEF h, f, b, Z
  <2> QED BY <1>7 DEF Carries
<1>10. IsFiniteSet(Y)
  <2>1. Y \subseteq X OBVIOUS
  <2> QED BY <1>3, <2>1, FS_Subset
<1>11. \A K \in U \cup Y : f[K] \in Int BY <1>4, <1>5
<1>12. /\ MinorSum(A, J, k + 1) = SumFunctionOnSet(f, X)
       /\ MinorSum(A, N, k + 1) = SumFunctionOnSet(g, U)
       /\ FringeSum(A, N, s, A[s], k) = SumFunctionOnSet(h, Z)
  BY DEF MinorSum, FringeSum
<1> HIDE DEF f, g, h, b, X, Y, Z, U, J
<1>13. SumFunctionOnSet(f, U \cup Y) = SumFunctionOnSet(f, U) + SumFunctionOnSet(f, Y)
  BY <1>2, <1>5, <1>10, <1>11, SumUnion
<1>14. SumFunctionOnSet(h, Z) = SumFunctionOnSet(f, Y) BY <1>2, <1>6, <1>7, SumCarried
<1>15. SumFunctionOnSet(g, U) = SumFunctionOnSet(f, U) BY <1>2, <1>8, SumEqual
<1>16. SumFunctionOnSet(h, Z) \in Int BY <1>2, <1>9, SumInt
<1>17. SumFunctionOnSet(g, U) \in Int
  <2>1. \A K \in U : g[K] \in Int BY <1>8
  <2> QED BY <1>2, <2>1, SumInt
<1>18. MinorSum(A, J, k + 1) = MinorSum(A, N, k + 1) + FringeSum(A, N, s, A[s], k)
  BY <1>5, <1>12, <1>13, <1>14, <1>15
<1> QED BY <1>12, <1>16, <1>17, <1>18 DEF J

\* Without minors of no rows: there is one, and it is 1.
LEMMA MinorSumZero ==
  ASSUME NEW N \in SUBSET Int, IsFiniteSet(N), NEW A PROVE MinorSum(A, N, 0) = 1
<1> DEFINE e == {}
           f == [K \in kSubset(0, N) |-> Leibniz(A, K)]
<1>1. kSubset(0, N) = {e} BY KSubsetZero
<1>2. f[e] = 1 BY <1>1, LeibnizEmpty
<1>3. MinorSum(A, N, 0) = SumFunctionOnSet(f, {e}) BY <1>1 DEF MinorSum
<1> HIDE DEF f, e
<1>4. SumFunctionOnSet(f, {e}) = f[e] BY <1>2, SumSingle
<1> QED BY <1>2, <1>3, <1>4

\* The only minor of full size is the determinant.
LEMMA MinorSumAll ==
  ASSUME NEW N \in SUBSET Int, IsFiniteSet(N), NEW A, Square(A, N)
  PROVE  MinorSum(A, N, Cardinality(N)) = Leibniz(A, N)
<1> DEFINE k == Cardinality(N)
           f == [K \in kSubset(k, N) |-> Leibniz(A, K)]
<1>1. kSubset(k, N) = {N} BY KSubsetAll
<1>2. f[N] = Leibniz(A, N) BY <1>1
<1>3. MinorSum(A, N, k) = SumFunctionOnSet(f, {N}) BY <1>1 DEF MinorSum
<1>4. f[N] \in Int BY <1>2, LeibnizInt
<1> HIDE DEF f, k
<1>5. SumFunctionOnSet(f, {N}) = f[N] BY <1>4, SumSingle
<1> QED BY <1>2, <1>3, <1>5 DEF k

\* A row of zeros: the determinant is zero.
LEMMA LeibnizZeroRow ==
  ASSUME NEW I \in SUBSET Int, IsFiniteSet(I), NEW s \in I, NEW A, Square(A, I),
         \A y \in I : A[s][y] = 0
  PROVE  Leibniz(A, I) = 0
<1> DEFINE f == [w \in I |-> A[s][w] * Cofactor(A, I, s, w)]
<1>1. \A w \in I : f[w] = A[s][w] * Cofactor(A, I, s, w) OBVIOUS
<1>2. \A w \in I : f[w] = 0
  <2> SUFFICES ASSUME NEW w \in I PROVE f[w] = 0 OBVIOUS
  <2>1. \A x \in I \ {s} : \A y \in I : A[x][y] \in Int BY DEF Square
  <2>2. Cofactor(A, I, s, w) \in Int BY <2>1, CofactorInt
  <2>3. \A t \in Int : 0 * t = 0 OBVIOUS
  <2> HIDE DEF f
  <2> QED BY <1>1, <2>2, <2>3
<1> HIDE DEF f
<1>3. Leibniz(A, I) = SumFunctionOnSet(f, I) BY <1>1, Expansion
<1>4. SumFunctionOnSet(f, I) = 0 BY <1>2, SumZeros
<1> QED BY <1>3, <1>4

\* Only the entries of the row that it has are read.
SameOn(v, u, J) == \A y \in J : v[y] = u[y]

\* Two rows with the same entries make the same fringe.
LEMMA FringeRow ==
  ASSUME NEW A, NEW K, NEW s, NEW v, NEW u, SameOn(v, u, K \cup {s})
  PROVE  Fringe(A, K, s, v) = Fringe(A, K, s, u)
<1>1. \A y \in K \cup {s} : v[y] = u[y] BY DEF SameOn
<1>2. \A x \in K : \A y \in K \cup {s} : A[x][y] = A[x][y] OBVIOUS
<1> QED BY <1>1, <1>2, FringeSame

\* g collects the fringes of the unit rows, each times the entry of v.
FringeParts(g, A, K, s, v, N) ==
  \A w \in N : g[w] = v[w] * Fringe(A, K, s, UnitRow(N, w))

FringeSumParts(g, A, N, s, v, k) ==
  \A w \in N : g[w] = v[w] * FringeSum(A, N \ {s}, s, UnitRow(N, w), k)

\* K lies in N, and so does s, outside K.
Beside(K, N, s) == K \in SUBSET N /\ s \in N /\ s \notin K

\* A fringe is a linear function of its row.
LEMMA FringeLinear ==
  ASSUME NEW N \in SUBSET Int, IsFiniteSet(N), NEW K, NEW s, Beside(K, N, s),
         NEW A, Fringed(A, K, s), NEW v, IntOn(v, N),
         NEW g, FringeParts(g, A, K, s, v, N)
  PROVE  /\ \A w \in N : Fringe(A, K, s, UnitRow(N, w)) \in Int
         /\ \A w \in N : g[w] \in Int
         /\ Fringe(A, K, s, v) = SumFunctionOnSet(g, N)
<1> DEFINE J == K \cup {s}
           B == Put(A, J, s, v)
           f == [w \in J |-> B[s][w] * Cofactor(B, J, s, w)]
<1>0. K \in SUBSET N /\ s \in N /\ s \notin K BY DEF Beside
<1>1. IsFiniteSet(K) /\ K \in SUBSET Int /\ s \in Int BY <1>0, FS_Subset
<1>2. IsFiniteSet(J) /\ J \in SUBSET Int /\ s \in J /\ J \in SUBSET N BY <1>0, <1>1, FS_AddElement
<1>3. \A x \in J \ {s} : \A y \in J : A[x][y] \in Int BY DEF Fringed
<1>4. \A w \in N : v[w] \in Int BY DEF IntOn
<1>5. Square(B, J)
  <2>1. J \subseteq J /\ \A y \in J : v[y] \in Int BY <1>2, <1>4
  <2> HIDE DEF J
  <2> QED BY <1>3, <2>1, PutSquare
<1>6. ASSUME NEW w \in N PROVE Fringe(A, K, s, UnitRow(N, w)) \in Int
  <2>1. \A y \in K \cup {s} : UnitRow(N, w)[y] \in Int BY <1>0 DEF UnitRow
  <2>2. \A x \in K : \A y \in K \cup {s} : A[x][y] \in Int BY DEF Fringed
  <2> QED BY <1>1, <2>1, <2>2, FringeInt
<1>7. ASSUME NEW w \in J PROVE g[w] = f[w]
  <2>1. w \in N BY <1>2
  <2>2. B[s] = v BY DEF Put
  <2>3. Cofactor(B, J, s, w) = Cofactor(A, J, s, w)
    <3>1. \A x \in J \ {s} : \A y \in J : B[x][y] = A[x][y] BY DEF Put
    <3> HIDE DEF J, B
    <3> QED BY <1>2, <3>1, CofactorSame
  <2>4. Cofactor(A, J, s, w) = Fringe(A, K, s, UnitRow(J, w)) BY DEF Cofactor, Fringe
  <2>5. Fringe(A, K, s, UnitRow(J, w)) = Fringe(A, K, s, UnitRow(N, w))
    <3>1. SameOn(UnitRow(J, w), UnitRow(N, w), K \cup {s}) BY <1>2 DEF UnitRow, SameOn
    <3> HIDE DEF J, B, f
    <3> QED BY <3>1, FringeRow
  <2>6. f[w] = B[s][w] * Cofactor(B, J, s, w) OBVIOUS
  <2>7. g[w] = v[w] * Fringe(A, K, s, UnitRow(N, w)) BY <2>1 DEF FringeParts
  <2> HIDE DEF f, B, J
  <2> QED BY <2>2, <2>3, <2>4, <2>5, <2>6, <2>7
<1>8. ASSUME NEW w \in N \ J PROVE g[w] = 0
  <2> DEFINE C == Put(A, J, s, UnitRow(N, w))
  <2>1. \A y \in J : C[s][y] = 0
    <3> SUFFICES ASSUME NEW y \in J PROVE C[s][y] = 0 OBVIOUS
    <3>1. C[s] = UnitRow(N, w) BY DEF Put
    <3>2. y \in N /\ y # w BY <1>2
    <3>3. UnitRow(N, w)[y] = 0 BY <3>2 DEF UnitRow
    <3> QED BY <3>1, <3>3
  <2>2. Square(C, J)
    <3>1. J \subseteq J /\ \A y \in J : UnitRow(N, w)[y] \in Int BY <1>2 DEF UnitRow
    <3> HIDE DEF J
    <3> QED BY <1>3, <3>1, PutSquare
  <2>3. Leibniz(C, J) = 0
    <3> HIDE DEF C, J
    <3> QED BY <1>2, <2>1, <2>2, LeibnizZeroRow
  <2>4. Fringe(A, K, s, UnitRow(N, w)) = 0 BY <2>3 DEF Fringe
  <2>5. \A t \in Int : t * 0 = 0 OBVIOUS
  <2>6. g[w] = v[w] * Fringe(A, K, s, UnitRow(N, w)) BY DEF FringeParts
  <2> HIDE DEF J
  <2> QED BY <1>4, <2>4, <2>5, <2>6
<1>9. Fringe(A, K, s, v) = Leibniz(B, J) BY DEF Fringe
<1>10. Leibniz(B, J) = SumFunctionOnSet(f, J)
  <2>1. \A w \in J : f[w] = B[s][w] * Cofactor(B, J, s, w) OBVIOUS
  <2> HIDE DEF f, B, J
  <2> QED BY <1>2, <1>5, <2>1, Expansion
<1>11. \A w \in N : g[w] \in Int
  <2>1. \A t, u \in Int : t * u \in Int OBVIOUS
  <2> HIDE DEF f, B, J
  <2> QED BY <1>4, <1>6, <2>1 DEF FringeParts
<1>12. \A w \in J : g[w] \in Int /\ f[w] = g[w] BY <1>2, <1>7, <1>11
<1> HIDE DEF f, B, J
<1>13. SumFunctionOnSet(g, J) = SumFunctionOnSet(f, J) BY <1>2, <1>12, SumEqual
<1>14. \A w \in J : g[w] \in Int BY <1>12
<1>15. SumFunctionOnSet(g, N) = SumFunctionOnSet(g, J) BY <1>2, <1>8, <1>14, SumPad
<1> QED BY <1>6, <1>9, <1>10, <1>11, <1>13, <1>15

\* So is the sum of fringes.
LEMMA FringeSumLinear ==
  ASSUME NEW N \in SUBSET Int, IsFiniteSet(N), NEW s \in N,
         NEW A, Square(A, N), NEW v, IntOn(v, N), NEW k,
         NEW g, FringeSumParts(g, A, N, s, v, k)
  PROVE  /\ \A w \in N : g[w] \in Int
         /\ FringeSum(A, N \ {s}, s, v, k) = SumFunctionOnSet(g, N)
<1> DEFINE M == N \ {s}
           X == kSubset(k, M)
           F == [K \in X |-> [w \in N |-> v[w] * Fringe(A, K, s, UnitRow(N, w))]]
           lines == [K \in X |-> SumFunctionOnSet([w \in N |-> F[K][w]], N)]
           columns == [w \in N |-> SumFunctionOnSet([K \in X |-> F[K][w]], X)]
           fringes == [K \in X |-> Fringe(A, K, s, v)]
<1>1. IsFiniteSet(M) /\ M \in SUBSET Int /\ s \notin M BY FS_Subset
<1>2. /\ IsFiniteSet(X)
      /\ \A K \in X : K \in SUBSET M
  <2> HIDE DEF M
  <2> QED BY <1>1, KSubsets
<1>3. ASSUME NEW K \in X
      PROVE  /\ \A w \in N : F[K][w] \in Int /\ Fringe(A, K, s, UnitRow(N, w)) \in Int
             /\ lines[K] = fringes[K] /\ lines[K] \in Int
  <2> DEFINE line == [w \in N |-> F[K][w]]
  <2>0. s \notin K /\ K \in SUBSET N BY <1>2
  <2>1. Beside(K, N, s) BY <2>0 DEF Beside
  <2>2. Fringed(A, K, s) BY <2>0 DEF Fringed, Square
  <2>3. FringeParts(line, A, K, s, v, N) BY DEF FringeParts
  <2>4. \A w \in N : line[w] = F[K][w] OBVIOUS
  <2>5. lines[K] = SumFunctionOnSet(line, N) /\ fringes[K] = Fringe(A, K, s, v) OBVIOUS
  <2> HIDE DEF line, lines, columns, fringes, F, X, M
  <2>6. \A w \in N : Fringe(A, K, s, UnitRow(N, w)) \in Int
    BY <2>1, <2>2, <2>3, FringeLinear
  <2>7. \A w \in N : line[w] \in Int BY <2>1, <2>2, <2>3, FringeLinear
  <2>8. Fringe(A, K, s, v) = SumFunctionOnSet(line, N)
    BY <2>1, <2>2, <2>3, FringeLinear
  <2>9. SumFunctionOnSet(line, N) \in Int BY <2>7, SumInt
  <2> QED BY <2>4, <2>5, <2>6, <2>7, <2>8, <2>9
<1>4. ASSUME NEW w \in N PROVE columns[w] \in Int /\ g[w] = columns[w]
  <2> DEFINE column == [K \in X |-> F[K][w]]
             f == [K \in X |-> Fringe(A, K, s, UnitRow(N, w))]
  <2>1. columns[w] = SumFunctionOnSet(column, X) OBVIOUS
  <2>2. FringeSum(A, M, s, UnitRow(N, w), k) = SumFunctionOnSet(f, X) BY DEF FringeSum
  <2>3. \A K \in X : f[K] \in Int /\ column[K] = v[w] * f[K] BY <1>3
  <2>4. v[w] \in Int BY DEF IntOn
  <2> HIDE DEF column, f, columns, X, F
  <2>5. SumFunctionOnSet(column, X) = v[w] * SumFunctionOnSet(f, X)
    BY <1>2, <2>3, <2>4, SumTimes
  <2>6. SumFunctionOnSet(f, X) \in Int
    <3>1. \A K \in X : f[K] \in Int BY <2>3
    <3> QED BY <1>2, <3>1, SumInt
  <2>7. \A t, u \in Int : t * u \in Int OBVIOUS
  <2>8. g[w] = v[w] * FringeSum(A, M, s, UnitRow(N, w), k) BY DEF FringeSumParts
  <2> HIDE DEF M
  <2> QED BY <2>1, <2>2, <2>4, <2>5, <2>6, <2>7, <2>8
<1>5. SumFunctionOnSet(lines, X) = SumFunctionOnSet(columns, N)
  <2>1. \A K \in X, w \in N : F[K][w] \in Int BY <1>3
  <2>2. IsFiniteSet(X) BY <1>2
  <2> HIDE DEF F, X, M, fringes
  <2> QED BY <2>1, <2>2, SumSwap
<1>6. FringeSum(A, M, s, v, k) = SumFunctionOnSet(fringes, X) BY DEF FringeSum
<1>7. \A K \in X : lines[K] \in Int /\ fringes[K] = lines[K] BY <1>3
<1>8. \A w \in N : columns[w] \in Int /\ g[w] = columns[w] BY <1>4
<1> HIDE DEF lines, columns, fringes, F, X
<1>9. SumFunctionOnSet(lines, X) = SumFunctionOnSet(fringes, X) BY <1>2, <1>7, SumEqual
<1>10. SumFunctionOnSet(columns, N) = SumFunctionOnSet(g, N) BY <1>8, SumEqual
<1> QED BY <1>5, <1>6, <1>8, <1>9, <1>10

\* The fringes of a row that the minor has already vanish.
LEMMA FringeDrop ==
  ASSUME NEW N \in SUBSET Int, IsFiniteSet(N), NEW s \in Int, s \notin N, NEW t \in N,
         NEW A, Fringed(A, N, s), NEW k
  PROVE  FringeSum(A, N, s, A[t], k) = FringeSum(A, N \ {t}, s, A[t], k)
<1> DEFINE X == kSubset(k, N)
           L == N \ {t}
           Z == kSubset(k, L)
           f == [K \in X |-> Fringe(A, K, s, A[t])]
           g == [K \in Z |-> Fringe(A, K, s, A[t])]
<1>1. IsFiniteSet(X) /\ \A K \in X : /\ K \in SUBSET N /\ K \in SUBSET Int
                                     /\ IsFiniteSet(K)
  BY KSubsets
<1>2. Z \in SUBSET X /\ \A K \in X \ Z : t \in K BY DEF kSubset
<1>3. IsFiniteSet(Z) BY <1>1, <1>2, FS_Subset
<1>4. \A K \in X : f[K] \in Int
  <2>1. \A y \in N \cup {s} : A[t][y] \in Int BY DEF Fringed
  <2>2. \A K \in kSubset(k, N) : Fringe(A, K, s, A[t]) \in Int BY <2>1, FringeSumInt
  <2> QED BY <2>2
<1>5. ASSUME NEW K \in X \ Z PROVE f[K] = 0
  <2>1. t \in K /\ K \in SUBSET Int /\ IsFiniteSet(K) /\ s \notin K BY <1>1, <1>2
  <2>2. \A x \in K : \A y \in K \cup {s} : A[x][y] \in Int BY <1>1 DEF Fringed
  <2>3. f[K] = Fringe(A, K, s, A[t]) OBVIOUS
  <2> HIDE DEF f, X, Z
  <2>4. Fringe(A, K, s, A[t]) = 0 BY <2>1, <2>2, FringeTwice
  <2> QED BY <2>3, <2>4
<1>6. \A K \in Z : f[K] \in Int /\ g[K] = f[K] BY <1>2, <1>4
<1>7. \A K \in Z : f[K] \in Int BY <1>6
<1>8. /\ FringeSum(A, N, s, A[t], k) = SumFunctionOnSet(f, X)
      /\ FringeSum(A, L, s, A[t], k) = SumFunctionOnSet(g, Z)
  BY DEF FringeSum
<1> HIDE DEF f, g, X, Z
<1>9. SumFunctionOnSet(f, X) = SumFunctionOnSet(f, Z) BY <1>1, <1>2, <1>5, <1>7, SumPad
<1>10. SumFunctionOnSet(f, Z) = SumFunctionOnSet(g, Z) BY <1>3, <1>6, SumEqual
<1> QED BY <1>8, <1>9, <1>10

-----------------------------------------------------------------------------
(* The adjoint *)

\* The entries of the adjoint of A - x, by powers of x: the sum of the fringes
\* of size k around row s with a one in column t.
Adjoint(A, N, k, s, t) == FringeSum(A, N \ {s}, s, UnitRow(N, t), k)

\* g collects row t of A times column s of the adjoint.
AdjointRow(g, A, N, k, s, t) == \A w \in N : g[w] = A[t][w] * Adjoint(A, N, k, s, w)

\* The first coefficient of the adjoint is the identity.
LEMMA AdjointZero ==
  ASSUME NEW N \in SUBSET Int, IsFiniteSet(N), NEW s \in N, NEW t \in N, NEW A
  PROVE  Adjoint(A, N, 0, s, t) = IF t = s THEN 1 ELSE 0
<1> DEFINE v == UnitRow(N, t)
           L == N \ {s}
<1>1. L \in SUBSET Int /\ IsFiniteSet(L) /\ s \in Int BY FS_Subset
<1>2. v[s] = IF t = s THEN 1 ELSE 0 BY DEF UnitRow
<1> HIDE DEF v, L
<1>3. v[s] \in Int BY <1>2
<1>4. FringeSum(A, L, s, v, 0) = v[s] BY <1>1, <1>3, FringeSumZero
<1> QED BY <1>2, <1>4 DEF Adjoint, v, L

\* The last is zero.
LEMMA AdjointLast ==
  ASSUME NEW N \in SUBSET Int, IsFiniteSet(N), NEW s \in N, NEW t \in N, NEW A
  PROVE  Adjoint(A, N, Cardinality(N), s, t) = 0
<1> DEFINE v == UnitRow(N, t)
           L == N \ {s}
           n == Cardinality(N)
           X == kSubset(n, L)
           f == [K \in X |-> Fringe(A, K, s, v)]
<1>1. L \in SUBSET Int /\ IsFiniteSet(L) BY FS_Subset
<1>2. n \in Nat /\ Cardinality(L) = n - 1 BY FS_CardinalityType, FS_RemoveElement
<1>3. n \in Int /\ n > Cardinality(L) BY <1>2
<1>4. X = {}
  <2> HIDE DEF L, n
  <2> QED BY <1>1, <1>3, KSubsetNone
<1>5. FringeSum(A, L, s, v, n) = SumFunctionOnSet(f, X) BY DEF FringeSum
<1> HIDE DEF f, X
<1>6. SumFunctionOnSet(f, X) = 0 BY <1>4, SumEmpty
<1> QED BY <1>5, <1>6 DEF Adjoint

\* The coefficients of the adjoint are integers.
LEMMA AdjointInt ==
  ASSUME NEW N \in SUBSET Int, IsFiniteSet(N), NEW s \in N, NEW t \in N, NEW A, Square(A, N),
         NEW k
  PROVE  Adjoint(A, N, k, s, t) \in Int
<1> DEFINE v == UnitRow(N, t)
           L == N \ {s}
<1>1. L \in SUBSET Int /\ IsFiniteSet(L) /\ s \in Int BY FS_Subset
<1>2. Fringed(A, L, s) BY DEF Fringed, Square
<1>3. \A y \in L \cup {s} : v[y] \in Int BY DEF UnitRow
<1> HIDE DEF v, L
<1>4. FringeSum(A, L, s, v, k) \in Int BY <1>1, <1>2, <1>3, FringeSumInt
<1> QED BY <1>4 DEF Adjoint, v, L

\* A times the adjoint, coefficient by coefficient: the minors on the
\* diagonal and nothing else.
LEMMA AdjointStep ==
  ASSUME NEW N \in SUBSET Int, IsFiniteSet(N), NEW s \in N, NEW t \in N,
         NEW A, Square(A, N), NEW k \in Nat, NEW g, AdjointRow(g, A, N, k, s, t)
  PROVE  /\ \A w \in N : g[w] \in Int
         /\ MinorSum(A, N, k + 1) \in Int
         /\ Adjoint(A, N, k + 1, s, t)
              = (IF t = s THEN MinorSum(A, N, k + 1) ELSE 0) - SumFunctionOnSet(g, N)
<1> DEFINE v == UnitRow(N, t)
           L == N \ {s}
           h == [w \in L |-> v[w] * FringeSum(A, L \ {w}, s, A[w], k)]
<1>1. L \in SUBSET Int /\ IsFiniteSet(L) /\ s \in Int /\ s \notin L BY FS_Subset
<1>0. L \cup {s} = N OBVIOUS
<1>2. Fringed(A, L, s) BY DEF Fringed, Square
<1>3. IntOn(v, L \cup {s}) BY DEF UnitRow, IntOn
<1>4. IntOn(A[t], N) BY DEF IntOn, Square
<1>5. FringeSumParts(g, A, N, s, A[t], k) BY DEF FringeSumParts, AdjointRow, Adjoint
<1>6. (\A w \in N : g[w] \in Int) /\ FringeSum(A, L, s, A[t], k) = SumFunctionOnSet(g, N)
  <2> HIDE DEF h, v
  <2>1. \A w \in N : g[w] \in Int BY <1>4, <1>5, FringeSumLinear
  <2>2. FringeSum(A, N \ {s}, s, A[t], k) = SumFunctionOnSet(g, N)
    BY <1>4, <1>5, FringeSumLinear
  <2> QED BY <2>1, <2>2
<1>7. SumFunctionOnSet(g, N) \in Int BY <1>6, SumInt
<1>8. FringeSumTerms(h, A, L, s, v, k) BY DEF FringeSumTerms
<1>9. v[t] = 1 /\ \A w \in N \ {t} : v[w] = 0 BY DEF UnitRow
<1>10. Square(A, L \cup {s}) BY <1>0
<1>11. Adjoint(A, N, k + 1, s, t) = FringeSum(A, L, s, v, k + 1) BY DEF Adjoint
<1> HIDE DEF v, h, L
<1>12. \A w \in L : h[w] \in Int BY <1>1, <1>2, <1>3, <1>8, FringeSumLaw
<1>13. FringeSum(A, L, s, v, k + 1)
         = Expanded(v[s], MinorSum(A, L, k + 1), SumFunctionOnSet(h, L))
  BY <1>1, <1>2, <1>3, <1>8, FringeSumLaw
<1>14. SumFunctionOnSet(h, L) \in Int BY <1>1, <1>12, SumInt
<1>15. /\ FringeSum(A, L, s, A[s], k) \in Int
       /\ MinorSum(A, L, k + 1) \in Int
       /\ MinorSum(A, L \cup {s}, k + 1)
            = MinorSum(A, L, k + 1) + FringeSum(A, L, s, A[s], k)
  BY <1>1, <1>10, MinorSumLaw
<1>16. MinorSum(A, N, k + 1) \in Int BY <1>0, <1>15
<1>17. L = N \ {s} BY DEF L
<1>18. \A u \in Int : 1 * u = u /\ 0 * u = 0 OBVIOUS
<1>19. CASE t = s
  <2>1. SumFunctionOnSet(h, L) = 0
    <3>1. \A w \in L : h[w] = 0
      <4> SUFFICES ASSUME NEW w \in L PROVE h[w] = 0 OBVIOUS
      <4>1. w \in N \ {t} BY <1>17, <1>19
      <4>2. h[w] = v[w] * FringeSum(A, L \ {w}, s, A[w], k) BY <1>8 DEF FringeSumTerms
      <4>3. FringeSum(A, L \ {w}, s, A[w], k) \in Int
        <5> DEFINE K == L \ {w}
        <5>1. K \in SUBSET Int /\ IsFiniteSet(K) BY <1>1, FS_Subset
        <5>2. Fringed(A, K, s) BY <1>2 DEF Fringed
        <5>3. \A y \in K \cup {s} : A[w][y] \in Int BY <1>2 DEF Fringed
        <5> HIDE DEF K
        <5>4. FringeSum(A, K, s, A[w], k) \in Int BY <1>1, <5>1, <5>2, <5>3, FringeSumInt
        <5> QED BY <5>4 DEF K
      <4> QED BY <1>9, <1>18, <4>1, <4>2, <4>3
    <3> QED BY <1>1, <3>1, SumZeros
  <2>2. v[s] = 1 BY <1>9, <1>19
  <2>3. FringeSum(A, L, s, v, k + 1) = MinorSum(A, L, k + 1)
    BY <1>13, <1>15, <1>18, <2>1, <2>2 DEF Expanded
  <2>4. FringeSum(A, L, s, A[s], k) = SumFunctionOnSet(g, N) BY <1>6, <1>19
  <2>5. MinorSum(A, N, k + 1) = MinorSum(A, L, k + 1) + SumFunctionOnSet(g, N)
    BY <1>0, <1>15, <2>4
  <2>6. MinorSum(A, L, k + 1) = MinorSum(A, N, k + 1) - SumFunctionOnSet(g, N)
    BY <1>7, <1>15, <2>5
  <2> QED BY <1>6, <1>11, <1>16, <1>19, <2>3, <2>6
<1>20. CASE t # s
  <2>1. t \in L /\ v[s] = 0 BY <1>9, <1>17, <1>20
  <2>2. \A w \in L \ {t} : h[w] = 0
    <3> SUFFICES ASSUME NEW w \in L, w # t PROVE h[w] = 0 OBVIOUS
    <3>1. w \in N \ {t} BY <1>17
    <3>2. h[w] = v[w] * FringeSum(A, L \ {w}, s, A[w], k) BY <1>8 DEF FringeSumTerms
    <3>3. FringeSum(A, L \ {w}, s, A[w], k) \in Int
      <4> DEFINE K == L \ {w}
      <4>1. K \in SUBSET Int /\ IsFiniteSet(K) BY <1>1, FS_Subset
      <4>2. Fringed(A, K, s) BY <1>2 DEF Fringed
      <4>3. \A y \in K \cup {s} : A[w][y] \in Int BY <1>2 DEF Fringed
      <4> HIDE DEF K
      <4>4. FringeSum(A, K, s, A[w], k) \in Int BY <1>1, <4>1, <4>2, <4>3, FringeSumInt
      <4> QED BY <4>4 DEF K
    <3> QED BY <1>9, <1>18, <3>1, <3>2, <3>3
  <2>3. h[t] \in Int BY <1>12, <2>1
  <2>4. SumFunctionOnSet(h, L) = h[t] BY <1>1, <2>1, <2>2, <2>3, SumOnly
  <2>5. FringeSum(A, L, s, A[t], k) = FringeSum(A, L \ {t}, s, A[t], k)
    BY <1>1, <1>2, <2>1, FringeDrop
  <2>6. h[t] = v[t] * FringeSum(A, L \ {t}, s, A[t], k) BY <1>8, <2>1 DEF FringeSumTerms
  <2>7. h[t] = SumFunctionOnSet(g, N) BY <1>6, <1>7, <1>9, <1>18, <2>5, <2>6
  <2>8. FringeSum(A, L, s, v, k + 1) = 0 - SumFunctionOnSet(g, N)
    BY <1>7, <1>13, <1>15, <1>18, <2>1, <2>4, <2>7 DEF Expanded
  <2> QED BY <1>6, <1>11, <1>16, <1>20, <2>8
<1> QED BY <1>19, <1>20

\* The adjoint's coefficient k, transposed, times the vector x: entry t.
Image(A, N, x, k, t) ==
  SumFunctionOnSet([s \in N |-> x[s] * Adjoint(A, N, k, s, t)], N)

\* The image of a vector of integers has integer entries.
LEMMA ImageInt ==
  ASSUME NEW N \in SUBSET Int, IsFiniteSet(N), NEW t \in N, NEW A, Square(A, N),
         NEW x, IntOn(x, N), NEW k
  PROVE  Image(A, N, x, k, t) \in Int
<1> DEFINE f == [s \in N |-> x[s] * Adjoint(A, N, k, s, t)]
<1>1. \A u, v \in Int : u * v \in Int OBVIOUS
<1>2. \A s \in N : Adjoint(A, N, k, s, t) \in Int BY AdjointInt
<1>3. \A s \in N : f[s] \in Int BY <1>1, <1>2 DEF IntOn
<1> HIDE DEF f
<1>4. SumFunctionOnSet(f, N) \in Int BY <1>3, SumInt
<1> QED BY <1>4 DEF Image, f

\* The first coefficient of the adjoint is the unit matrix.
LEMMA ImageZero ==
  ASSUME NEW N \in SUBSET Int, IsFiniteSet(N), NEW t \in N, NEW A, NEW x, IntOn(x, N)
  PROVE  Image(A, N, x, 0, t) = x[t]
<1> DEFINE f == [s \in N |-> x[s] * Adjoint(A, N, 0, s, t)]
<1>1. \A u \in Int : u * 1 = u /\ u * 0 = 0 OBVIOUS
<1>2. \A s \in N : Adjoint(A, N, 0, s, t) = IF t = s THEN 1 ELSE 0 BY AdjointZero
<1>3. \A s \in N : x[s] \in Int BY DEF IntOn
<1>4. f[t] = x[t] /\ f[t] \in Int BY <1>1, <1>2, <1>3
<1>5. \A s \in N \ {t} : f[s] = 0 BY <1>1, <1>2, <1>3
<1> HIDE DEF f
<1>6. SumFunctionOnSet(f, N) = f[t] BY <1>4, <1>5, SumOnly
<1> QED BY <1>4, <1>6 DEF Image, f

\* The adjoint has no more coefficients than N has members.
LEMMA ImageLast ==
  ASSUME NEW N \in SUBSET Int, IsFiniteSet(N), NEW t \in N, NEW A, NEW x, IntOn(x, N)
  PROVE  Image(A, N, x, Cardinality(N), t) = 0
<1> DEFINE f == [s \in N |-> x[s] * Adjoint(A, N, Cardinality(N), s, t)]
<1>1. \A u \in Int : u * 0 = 0 OBVIOUS
<1>2. \A s \in N : Adjoint(A, N, Cardinality(N), s, t) = 0 BY AdjointLast
<1>3. \A s \in N : f[s] = 0 BY <1>1, <1>2 DEF IntOn
<1> HIDE DEF f
<1>4. SumFunctionOnSet(f, N) = 0 BY <1>3, SumZeros
<1> QED BY <1>4 DEF Image, f

\* g collects row t of A times the image.
ImageRow(g, A, N, x, k, t) == \A w \in N : g[w] = A[t][w] * Image(A, N, x, k, w)

\* The next image: the vector times the sum of the minors, minus A times the
\* image before.
LEMMA ImageStep ==
  ASSUME NEW N \in SUBSET Int, IsFiniteSet(N), NEW t \in N, NEW A, Square(A, N),
         NEW x, IntOn(x, N), NEW k \in Nat, NEW g, ImageRow(g, A, N, x, k, t)
  PROVE  Image(A, N, x, k + 1, t)
           = Expanded(x[t], MinorSum(A, N, k + 1), SumFunctionOnSet(g, N))
<1> DEFINE F == [s \in N |-> [w \in N |-> x[s] * (A[t][w] * Adjoint(A, N, k, s, w))]]
           lines == [s \in N |-> SumFunctionOnSet([w \in N |-> F[s][w]], N)]
           columns == [w \in N |-> SumFunctionOnSet([s \in N |-> F[s][w]], N)]
           first == [s \in N |-> IF t = s THEN x[t] * MinorSum(A, N, k + 1) ELSE 0]
           minus == [s \in N |-> (-1) * lines[s]]
           f == [s \in N |-> x[s] * Adjoint(A, N, k + 1, s, t)]
<1>1. \A u, v \in Int : u * v \in Int OBVIOUS
<1>2. \A s \in N : x[s] \in Int BY DEF IntOn
<1>3. \A w \in N : A[t][w] \in Int BY DEF Square
<1>4. \A s, w \in N : Adjoint(A, N, k, s, w) \in Int BY AdjointInt
<1>5. \A s, w \in N : F[s][w] \in Int
  <2> SUFFICES ASSUME NEW s \in N, NEW w \in N PROVE F[s][w] \in Int OBVIOUS
  <2>1. F[s][w] = x[s] * (A[t][w] * Adjoint(A, N, k, s, w)) OBVIOUS
  <2> HIDE DEF F
  <2> QED BY <1>1, <1>2, <1>3, <1>4, <2>1
<1>6. MinorSum(A, N, k + 1) \in Int BY MinorSumInt
<1>7. ASSUME NEW s \in N
      PROVE  /\ lines[s] \in Int
             /\ f[s] = first[s] + minus[s]
  <2> DEFINE line == [w \in N |-> F[s][w]]
             r == [w \in N |-> A[t][w] * Adjoint(A, N, k, s, w)]
             ms == MinorSum(A, N, k + 1)
             sr == SumFunctionOnSet(r, N)
  <2>1. AdjointRow(r, A, N, k, s, t) BY DEF AdjointRow
  <2>2. \A w \in N : line[w] = x[s] * r[w] OBVIOUS
  <2>3. lines[s] = SumFunctionOnSet(line, N) OBVIOUS
  <2>4. /\ f[s] = x[s] * Adjoint(A, N, k + 1, s, t)
        /\ minus[s] = (-1) * lines[s]
        /\ first[s] = IF t = s THEN x[t] * ms ELSE 0
    OBVIOUS
  <2> HIDE DEF line, lines, F, r, f, first, minus, columns
  <2>5. \A w \in N : r[w] \in Int BY <2>1, AdjointStep
  <2>6. Adjoint(A, N, k + 1, s, t) = (IF t = s THEN ms ELSE 0) - sr BY <2>1, AdjointStep
  <2>7. \A w \in N : r[w] \in Int /\ line[w] = x[s] * r[w] BY <2>2, <2>5
  <2>8. SumFunctionOnSet(line, N) = x[s] * sr BY <1>2, <2>7, SumTimes
  <2>9. sr \in Int BY <2>5, SumInt
  <2>10. ms \in Int BY <1>6
  <2>11. x[s] \in Int BY <1>2
  <2> HIDE DEF sr, ms
  <2>12. \A u, v, z \in Int : /\ u * (v - z) = (u * v) + ((-1) * (u * z))
                              /\ u * (0 - z) = 0 + ((-1) * (u * z))
    OBVIOUS
  <2>13. lines[s] \in Int BY <1>1, <2>3, <2>8, <2>9, <2>11
  <2>14. CASE t = s
    <3>1. f[s] = x[s] * (ms - sr) BY <2>4, <2>6, <2>14
    <3>2. first[s] = x[s] * ms BY <2>4, <2>14
    <3>3. minus[s] = (-1) * (x[s] * sr) BY <2>3, <2>4, <2>8
    <3>4. x[s] * (ms - sr) = (x[s] * ms) + ((-1) * (x[s] * sr)) BY <2>9, <2>10, <2>11, <2>12
    <3> QED BY <2>13, <3>1, <3>2, <3>3, <3>4
  <2>15. CASE t # s
    <3>1. f[s] = x[s] * (0 - sr) BY <2>4, <2>6, <2>15
    <3>2. first[s] = 0 BY <2>4, <2>15
    <3>3. minus[s] = (-1) * (x[s] * sr) BY <2>3, <2>4, <2>8
    <3>4. x[s] * (0 - sr) = 0 + ((-1) * (x[s] * sr)) BY <2>9, <2>11, <2>12
    <3> QED BY <2>13, <3>1, <3>2, <3>3, <3>4
  <2> QED BY <2>14, <2>15
<1>8. ASSUME NEW w \in N PROVE columns[w] \in Int /\ columns[w] = g[w]
  <2> DEFINE column == [s \in N |-> F[s][w]]
             r == [s \in N |-> x[s] * Adjoint(A, N, k, s, w)]
             sr == SumFunctionOnSet(r, N)
  <2>1. columns[w] = SumFunctionOnSet(column, N) OBVIOUS
  <2>2. \A s \in N : r[s] \in Int /\ column[s] = A[t][w] * r[s]
    <3> SUFFICES ASSUME NEW s \in N PROVE r[s] \in Int /\ column[s] = A[t][w] * r[s] OBVIOUS
    <3>1. /\ r[s] = x[s] * Adjoint(A, N, k, s, w)
          /\ column[s] = x[s] * (A[t][w] * Adjoint(A, N, k, s, w))
      OBVIOUS
    <3> HIDE DEF r, column, F, columns, lines, f, first, minus
    <3>2. \A u, v, z \in Int : u * (v * z) = v * (u * z) OBVIOUS
    <3> QED BY <1>1, <1>2, <1>3, <1>4, <3>1, <3>2
  <2>3. \A s \in N : r[s] \in Int BY <2>2
  <2>4. sr = Image(A, N, x, k, w) BY DEF Image
  <2>5. A[t][w] \in Int BY <1>3
  <2> HIDE DEF r, column, F, columns, lines, f, first, minus
  <2>6. SumFunctionOnSet(column, N) = A[t][w] * sr BY <2>2, <2>5, SumTimes
  <2>7. sr \in Int BY <2>3, SumInt
  <2> HIDE DEF sr
  <2>8. g[w] = A[t][w] * Image(A, N, x, k, w) BY DEF ImageRow
  <2> QED BY <1>1, <2>1, <2>4, <2>5, <2>6, <2>7, <2>8
<1>9. first[t] = x[t] * MinorSum(A, N, k + 1) /\ \A s \in N \ {t} : first[s] = 0 OBVIOUS
<1>10. x[t] * MinorSum(A, N, k + 1) \in Int BY <1>1, <1>2, <1>6
<1>11. \A s \in N : minus[s] = (-1) * lines[s] OBVIOUS
<1>12. Image(A, N, x, k + 1, t) = SumFunctionOnSet(f, N) BY DEF Image
<1>13. SumFunctionOnSet(lines, N) = SumFunctionOnSet(columns, N)
  <2> HIDE DEF F
  <2> QED BY <1>5, SumSwap
<1>14. \A s \in N : lines[s] \in Int /\ minus[s] = (-1) * lines[s] BY <1>7, <1>11
<1> HIDE DEF F, lines, columns, f, first, minus
<1>15. \A s \in N : minus[s] \in Int
  <2>1. \A u \in Int : (-1) * u \in Int OBVIOUS
  <2> QED BY <1>14, <2>1
<1>16. \A s \in N : first[s] \in Int BY <1>9, <1>10
<1>17. \A s \in N : first[s] \in Int /\ minus[s] \in Int /\ f[s] = first[s] + minus[s]
  BY <1>7, <1>15, <1>16
<1>18. SumFunctionOnSet(f, N) = SumFunctionOnSet(first, N) + SumFunctionOnSet(minus, N)
  BY <1>17, SumPlus
<1>19. SumFunctionOnSet(first, N) = first[t]
  <2>1. first[t] \in Int BY <1>16
  <2> QED BY <1>9, <2>1, SumOnly
<1>20. -1 \in Int OBVIOUS
<1>21. SumFunctionOnSet(minus, N) = (-1) * SumFunctionOnSet(lines, N) BY <1>14, <1>20, SumTimes
<1>22. \A w \in N : columns[w] \in Int /\ g[w] = columns[w] BY <1>8
<1>23. SumFunctionOnSet(columns, N) = SumFunctionOnSet(g, N) BY <1>22, SumEqual
<1>24. SumFunctionOnSet(g, N) \in Int
  <2>1. \A w \in N : g[w] \in Int BY <1>22
  <2> QED BY <2>1, SumInt
<1>25. \A u, v \in Int : u + ((-1) * v) = u - v OBVIOUS
<1>26. SumFunctionOnSet(minus, N) = (-1) * SumFunctionOnSet(g, N) BY <1>13, <1>21, <1>23
<1> DEFINE a == x[t] * MinorSum(A, N, k + 1)
           b == SumFunctionOnSet(g, N)
<1>27. Image(A, N, x, k + 1, t) = a + ((-1) * b) BY <1>9, <1>12, <1>18, <1>19, <1>26
<1>28. a \in Int /\ b \in Int BY <1>10, <1>24
<1> HIDE DEF a, b
<1>29. Image(A, N, x, k + 1, t) = a - b BY <1>25, <1>27, <1>28
<1> QED BY <1>29 DEF a, b, Expanded

-----------------------------------------------------------------------------
(* The theorem of Cayley and Hamilton *)

\* 1 and -1 in turn.
Alternate(j) == IF j % 2 = 0 THEN 1 ELSE -1

\* The sign changes from one number to the next.
LEMMA AlternateType ==
  ASSUME NEW j \in Int
  PROVE  Alternate(j) \in Int /\ Alternate(j + 1) = (-1) * Alternate(j)
BY DEF Alternate

\* The vectors p[0], p[1], ... are integers, and each is A times the one
\* before it, modulo q.
Iterates(p, A, N, q) ==
  /\ \A e \in Nat : \A t \in N : p[e][t] \in Int
  /\ \A e \in Nat : \A t \in N :
       Congruent(q, p[e + 1][t], SumFunctionOnSet([w \in N |-> A[t][w] * p[e][w]], N))

\* The powers applied to the vector have integer entries.
LEMMA IteratesInt ==
  ASSUME NEW p, NEW A, NEW N, NEW q, Iterates(p, A, N, q), NEW e \in Nat, NEW t \in N
  PROVE  p[e][t] \in Int
BY DEF Iterates

\* The alternating sum of the powers with the sums of minors.
Chained(A, N, p, k, t) ==
  [j \in 0 .. k |-> Alternate(j) * (MinorSum(A, N, k - j) * p[j][t])]

Chain(A, N, p, k, t) == SumFunctionOnSet(Chained(A, N, p, k, t), 0 .. k)

\* The terms of the alternating sum and the sum are integers.
LEMMA ChainedInt ==
  ASSUME NEW N \in SUBSET Int, IsFiniteSet(N), NEW A, Square(A, N), NEW q, NEW p,
         Iterates(p, A, N, q), NEW k \in Nat, NEW t \in N
  PROVE  /\ \A j \in 0 .. k : Chained(A, N, p, k, t)[j] \in Int
         /\ Chain(A, N, p, k, t) \in Int
<1> DEFINE f == Chained(A, N, p, k, t)
<1>1. \A j \in 0 .. k : f[j] \in Int
  <2> SUFFICES ASSUME NEW j \in 0 .. k PROVE f[j] \in Int OBVIOUS
  <2>1. f[j] = Alternate(j) * (MinorSum(A, N, k - j) * p[j][t]) BY DEF Chained
  <2> HIDE DEF f
  <2>2. \A u, v \in Int : u * v \in Int OBVIOUS
  <2>3. MinorSum(A, N, k - j) \in Int BY MinorSumInt
  <2>4. Alternate(j) \in Int BY AlternateType
  <2>5. p[j][t] \in Int BY IteratesInt
  <2>6. MinorSum(A, N, k - j) * p[j][t] \in Int BY <2>2, <2>3, <2>5
  <2> QED BY <2>1, <2>2, <2>4, <2>6
<1>2. IsFiniteSet(0 .. k) BY FS_Interval
<1> HIDE DEF f
<1>3. SumFunctionOnSet(f, 0 .. k) \in Int BY <1>1, <1>2, SumInt
<1> QED BY <1>1, <1>3 DEF f, Chain

\* The terms of the next sum, one power later and without the sign.
Later(A, N, p, k, t) ==
  [j \in 0 .. k |-> Alternate(j) * (MinorSum(A, N, k - j) * p[j + 1][t])]

\* The alternating sum one longer: its first term, minus the one before with
\* every power one higher.
LEMMA ChainNext ==
  ASSUME NEW N \in SUBSET Int, IsFiniteSet(N), NEW A, Square(A, N), NEW q, NEW p,
         Iterates(p, A, N, q), NEW k \in Nat, NEW t \in N
  PROVE  /\ \A j \in 0 .. k : Later(A, N, p, k, t)[j] \in Int
         /\ Chain(A, N, p, k + 1, t)
              = Expanded(p[0][t], MinorSum(A, N, k + 1),
                         SumFunctionOnSet(Later(A, N, p, k, t), 0 .. k))
<1> DEFINE f == Chained(A, N, p, k + 1, t)
           h == Later(A, N, p, k, t)
           g == [j \in 0 .. k |-> (-1) * h[j]]
           l == k + 1
<1>1. \A u, v \in Int : u * v \in Int /\ u * v = v * u /\ ((-1) * u) * v = (-1) * (u * v) OBVIOUS
<1>2. l \in Nat /\ l - 1 = k /\ \A j \in 0 .. k : (j + 1) \in 0 .. l /\ l - (j + 1) = k - j
  OBVIOUS
<1>3. \A j \in 0 .. l : f[j] \in Int
  <2> HIDE DEF l
  <2> QED BY <1>2, ChainedInt DEF l
<1>4. ASSUME NEW j \in 0 .. k PROVE h[j] \in Int /\ g[j] = f[j + 1]
  <2> DEFINE s == MinorSum(A, N, k - j)
  <2>1. f[j + 1] = Alternate(j + 1) * (s * p[j + 1][t])
    <3>1. f[j + 1] = Alternate(j + 1) * (MinorSum(A, N, l - (j + 1)) * p[j + 1][t])
      BY <1>2 DEF Chained
    <3> HIDE DEF f, l
    <3> QED BY <1>2, <3>1
  <2>2. h[j] = Alternate(j) * (s * p[j + 1][t]) BY DEF Later
  <2>3. g[j] = (-1) * h[j] OBVIOUS
  <2>4. Alternate(j) \in Int /\ Alternate(j + 1) = (-1) * Alternate(j) BY AlternateType
  <2>5. s \in Int BY MinorSumInt
  <2>6. p[j + 1][t] \in Int BY IteratesInt
  <2> HIDE DEF f, g, h, l, s
  <2>7. s * p[j + 1][t] \in Int BY <1>1, <2>5, <2>6
  <2> QED BY <1>1, <2>1, <2>2, <2>3, <2>4, <2>7
<1>5. f[0] = p[0][t] * MinorSum(A, N, l)
  <2>1. f[0] = Alternate(0) * (MinorSum(A, N, l - 0) * p[0][t]) BY DEF Chained
  <2>2. l - 0 = l OBVIOUS
  <2>3. Alternate(0) = 1 BY DEF Alternate
  <2>4. MinorSum(A, N, l) \in Int BY MinorSumInt
  <2>5. p[0][t] \in Int BY IteratesInt
  <2>6. \A u \in Int : 1 * u = u OBVIOUS
  <2> HIDE DEF f, l
  <2> QED BY <1>1, <2>1, <2>2, <2>3, <2>4, <2>5, <2>6
<1>6. \A j \in 0 .. k : h[j] \in Int /\ g[j] = (-1) * h[j]
  <2>1. \A j \in 0 .. k : g[j] = (-1) * h[j] OBVIOUS
  <2> HIDE DEF h, g
  <2> QED BY <1>4, <2>1
<1>7. \A j \in 0 .. l - 1 : g[j] = f[j + 1]
  <2> HIDE DEF g, f, l
  <2> QED BY <1>2, <1>4
<1>8. IsFiniteSet(0 .. k) BY FS_Interval
<1> HIDE DEF f, g, h, l
<1>9. SumFunctionOnSet(f, 0 .. l) = f[0] + SumFunctionOnSet(g, 0 .. l - 1)
  BY <1>2, <1>3, <1>7, SumFirst
<1>10. -1 \in Int OBVIOUS
<1>11. SumFunctionOnSet(g, 0 .. k) = (-1) * SumFunctionOnSet(h, 0 .. k)
  BY <1>6, <1>8, <1>10, SumTimes
<1>12. \A j \in 0 .. k : h[j] \in Int BY <1>6
<1>13. SumFunctionOnSet(h, 0 .. k) \in Int BY <1>8, <1>12, SumInt
<1>14. f[0] \in Int BY <1>2, <1>3
<1>15. \A u, v \in Int : u + ((-1) * v) = u - v OBVIOUS
<1>16. SumFunctionOnSet(f, 0 .. l) = f[0] + ((-1) * SumFunctionOnSet(h, 0 .. k))
  BY <1>2, <1>9, <1>11
<1>17. SumFunctionOnSet(f, 0 .. l) = f[0] - SumFunctionOnSet(h, 0 .. k)
  BY <1>13, <1>14, <1>15, <1>16
<1>18. Chain(A, N, p, l, t) = SumFunctionOnSet(f, 0 .. l) BY DEF Chain, f, l
<1> QED BY <1>5, <1>12, <1>17, <1>18 DEF Expanded, h, l

\* The image of the first vector is the alternating sum, modulo q.
ChainAt(A, N, p, q, k) ==
  \A t \in N : Congruent(q, Image(A, N, p[0], k, t), Chain(A, N, p, k, t))

\* If the images are the alternating sums, A times an image is the sum with
\* every power one higher.
LEMMA ChainRow ==
  ASSUME NEW N \in SUBSET Int, IsFiniteSet(N), NEW A, Square(A, N), NEW q \in Nat, q > 0,
         NEW p, Iterates(p, A, N, q), NEW k \in Nat, ChainAt(A, N, p, q, k), NEW t \in N,
         NEW g, ImageRow(g, A, N, p[0], k, t)
  PROVE  Congruent(q, SumFunctionOnSet(g, N),
                      SumFunctionOnSet(Later(A, N, p, k, t), 0 .. k))
<1> DEFINE F == [w \in N |-> [j \in 0 .. k |-> A[t][w] * Chained(A, N, p, k, w)[j]]]
           lines == [w \in N |-> SumFunctionOnSet([j \in 0 .. k |-> F[w][j]], 0 .. k)]
           columns == [j \in 0 .. k |-> SumFunctionOnSet([w \in N |-> F[w][j]], N)]
           h == Later(A, N, p, k, t)
<1>1. \A u, v \in Int : u * v \in Int OBVIOUS
<1>2. \A w \in N : A[t][w] \in Int BY DEF Square
<1>3. IsFiniteSet(0 .. k) BY FS_Interval
<1>4. \A w \in N : \A j \in 0 .. k : Chained(A, N, p, k, w)[j] \in Int BY ChainedInt
<1>5. \A w \in N, j \in 0 .. k : F[w][j] \in Int
  <2> SUFFICES ASSUME NEW w \in N, NEW j \in 0 .. k PROVE F[w][j] \in Int OBVIOUS
  <2>1. F[w][j] = A[t][w] * Chained(A, N, p, k, w)[j] OBVIOUS
  <2> HIDE DEF F
  <2> QED BY <1>1, <1>2, <1>4, <2>1
<1>6. ASSUME NEW w \in N
      PROVE  g[w] \in Int /\ lines[w] \in Int /\ Congruent(q, g[w], lines[w])
  <2> DEFINE line == [j \in 0 .. k |-> F[w][j]]
             f == Chained(A, N, p, k, w)
             a == Image(A, N, p[0], k, w)
             c == Chain(A, N, p, k, w)
  <2>1. lines[w] = SumFunctionOnSet(line, 0 .. k) OBVIOUS
  <2>2. \A j \in 0 .. k : line[j] = A[t][w] * f[j] OBVIOUS
  <2>3. \A j \in 0 .. k : f[j] \in Int BY <1>4
  <2>4. c = SumFunctionOnSet(f, 0 .. k) BY DEF Chain
  <2>5. Congruent(q, a, c) BY DEF ChainAt
  <2>6. a \in Int
    <3>1. IntOn(p[0], N) BY DEF IntOn, Iterates
    <3> QED BY <3>1, ImageInt
  <2>7. c \in Int BY ChainedInt
  <2>8. A[t][w] \in Int BY <1>2
  <2>9. g[w] = A[t][w] * a BY DEF ImageRow
  <2>10. Congruent(q, A[t][w], A[t][w]) BY CongruentSame
  <2> HIDE DEF line, lines, F, columns, h, f, a, c
  <2>11. \A j \in 0 .. k : f[j] \in Int /\ line[j] = A[t][w] * f[j] BY <2>2, <2>3
  <2>12. SumFunctionOnSet(line, 0 .. k) = A[t][w] * SumFunctionOnSet(f, 0 .. k)
    BY <1>3, <2>8, <2>11, SumTimes
  <2>13. lines[w] = A[t][w] * c BY <2>1, <2>4, <2>12
  <2>14. Congruent(q, A[t][w] * a, A[t][w] * c) BY <2>5, <2>6, <2>7, <2>8, <2>10, CongruentTimes
  <2> QED BY <1>1, <2>6, <2>7, <2>8, <2>9, <2>13, <2>14
<1>7. ASSUME NEW j \in 0 .. k
      PROVE  columns[j] \in Int /\ h[j] \in Int /\ Congruent(q, columns[j], h[j])
  <2> DEFINE column == [w \in N |-> F[w][j]]
             s == Alternate(j) * MinorSum(A, N, k - j)
             r == [w \in N |-> A[t][w] * p[j][w]]
             sr == SumFunctionOnSet(r, N)
  <2>1. columns[j] = SumFunctionOnSet(column, N) OBVIOUS
  <2>2. MinorSum(A, N, k - j) \in Int BY MinorSumInt
  <2>3. Alternate(j) \in Int BY AlternateType
  <2>4. \A w \in N : p[j][w] \in Int BY IteratesInt
  <2>5. ASSUME NEW w \in N PROVE r[w] \in Int /\ column[w] = s * r[w]
    <3>1. column[w] = A[t][w] * (Alternate(j) * (MinorSum(A, N, k - j) * p[j][w]))
      BY DEF Chained
    <3>2. r[w] = A[t][w] * p[j][w] OBVIOUS
    <3> HIDE DEF column, columns, F, lines, h, r
    <3>3. \A x, y, u, v \in Int : x * (y * (u * v)) = (y * u) * (x * v) OBVIOUS
    <3> QED BY <1>1, <1>2, <2>2, <2>3, <2>4, <3>1, <3>2, <3>3
  <2>6. h[j] = Alternate(j) * (MinorSum(A, N, k - j) * p[j + 1][t]) BY DEF Later
  <2>7. \A u, v, x \in Int : u * (v * x) = (u * v) * x OBVIOUS
  <2>8. p[j + 1][t] \in Int BY IteratesInt
  <2>9. Congruent(q, p[j + 1][t], sr) BY DEF Iterates
  <2>10. s \in Int BY <1>1, <2>2, <2>3
  <2>11. h[j] = s * p[j + 1][t] BY <2>2, <2>3, <2>6, <2>7, <2>8
  <2>12. \A w \in N : r[w] \in Int /\ column[w] = s * r[w] BY <2>5
  <2>13. \A w \in N : r[w] \in Int BY <2>12
  <2> HIDE DEF column, columns, F, lines, h, r, s
  <2>14. SumFunctionOnSet(column, N) = s * sr BY <2>10, <2>12, SumTimes
  <2>15. sr \in Int BY <2>13, SumInt
  <2> HIDE DEF sr
  <2>16. Congruent(q, s, s) BY CongruentSame
  <2>17. Congruent(q, sr, p[j + 1][t]) BY <2>9, CongruentSwap
  <2>18. Congruent(q, s * sr, s * p[j + 1][t]) BY <2>8, <2>10, <2>15, <2>16, <2>17, CongruentTimes
  <2> QED BY <1>1, <2>1, <2>8, <2>10, <2>11, <2>14, <2>15, <2>18
<1>8. SumFunctionOnSet(lines, N) = SumFunctionOnSet(columns, 0 .. k)
  <2> HIDE DEF F
  <2> QED BY <1>3, <1>5, SumSwap
<1> HIDE DEF F, lines, columns, h
<1>9. Congruent(q, SumFunctionOnSet(g, N), SumFunctionOnSet(lines, N)) BY <1>6, SumCongruent
<1>10. Congruent(q, SumFunctionOnSet(columns, 0 .. k), SumFunctionOnSet(h, 0 .. k))
  BY <1>3, <1>7, SumCongruent
<1>11. Congruent(q, SumFunctionOnSet(g, N), SumFunctionOnSet(h, 0 .. k))
  BY <1>8, <1>9, <1>10, CongruentChain
<1> QED BY <1>11 DEF h

\* The image of the first vector is the alternating sum, for every k.
LEMMA ChainHolds ==
  ASSUME NEW N \in SUBSET Int, IsFiniteSet(N), NEW A, Square(A, N), NEW q \in Nat, q > 0,
         NEW p, Iterates(p, A, N, q)
  PROVE  \A k \in Nat : ChainAt(A, N, p, q, k)
<1>0. IntOn(p[0], N) BY DEF IntOn, Iterates
<1>1. ChainAt(A, N, p, q, 0)
  <2> SUFFICES ASSUME NEW t \in N
               PROVE  Congruent(q, Image(A, N, p[0], 0, t), Chain(A, N, p, 0, t))
    BY DEF ChainAt
  <2> DEFINE f == Chained(A, N, p, 0, t)
             zero == 0
  <2>1. Image(A, N, p[0], 0, t) = p[0][t] BY <1>0, ImageZero
  <2>2. f[zero] = p[0][t]
    <3>1. f[zero] = Alternate(0) * (MinorSum(A, N, 0 - 0) * p[0][t]) BY DEF Chained
    <3>2. MinorSum(A, N, 0 - 0) = 1 BY MinorSumZero
    <3>3. Alternate(0) = 1 BY DEF Alternate
    <3>4. p[0][t] \in Int BY IteratesInt
    <3>5. \A u \in Int : 1 * (1 * u) = u OBVIOUS
    <3> HIDE DEF f
    <3> QED BY <3>1, <3>2, <3>3, <3>4, <3>5
  <2>3. 0 .. 0 = {zero} OBVIOUS
  <2>4. p[0][t] \in Int BY IteratesInt
  <2>5. Chain(A, N, p, 0, t) = SumFunctionOnSet(f, {zero}) BY <2>3 DEF Chain
  <2> HIDE DEF f, zero
  <2>6. SumFunctionOnSet(f, {zero}) = f[zero] BY <2>2, <2>4, SumSingle
  <2>7. Chain(A, N, p, 0, t) = p[0][t] BY <2>2, <2>5, <2>6
  <2> QED BY <2>1, <2>7, CongruentSame
<1>2. ASSUME NEW k \in Nat, ChainAt(A, N, p, q, k) PROVE ChainAt(A, N, p, q, k + 1)
  <2> SUFFICES ASSUME NEW t \in N
               PROVE  Congruent(q, Image(A, N, p[0], k + 1, t), Chain(A, N, p, k + 1, t))
    BY DEF ChainAt
  <2> DEFINE g == [w \in N |-> A[t][w] * Image(A, N, p[0], k, w)]
             h == Later(A, N, p, k, t)
             ms == MinorSum(A, N, k + 1)
             sg == SumFunctionOnSet(g, N)
             sh == SumFunctionOnSet(h, 0 .. k)
  <2>1. ImageRow(g, A, N, p[0], k, t) BY DEF ImageRow
  <2>2. \A w \in N : g[w] \in Int
    <3>1. \A w \in N : Image(A, N, p[0], k, w) \in Int BY <1>0, ImageInt
    <3>2. \A u, v \in Int : u * v \in Int OBVIOUS
    <3>3. \A w \in N : A[t][w] \in Int BY DEF Square
    <3> QED BY <3>1, <3>2, <3>3
  <2> HIDE DEF g
  <2>3. Image(A, N, p[0], k + 1, t) = Expanded(p[0][t], ms, sg) BY <1>0, <2>1, ImageStep
  <2>4. Chain(A, N, p, k + 1, t) = Expanded(p[0][t], ms, sh) BY ChainNext
  <2>5. Congruent(q, sg, sh) BY <1>2, <2>1, ChainRow
  <2>6. sg \in Int BY <2>2, SumInt
  <2>7. \A j \in 0 .. k : h[j] \in Int BY ChainNext
  <2>8. IsFiniteSet(0 .. k) BY FS_Interval
  <2> HIDE DEF h
  <2>9. sh \in Int BY <2>7, <2>8, SumInt
  <2>10. ms \in Int BY MinorSumInt
  <2>11. p[0][t] \in Int BY IteratesInt
  <2> DEFINE a == p[0][t] * ms
  <2>12. a \in Int
    <3>1. \A u, v \in Int : u * v \in Int OBVIOUS
    <3> HIDE DEF ms, sg, sh
    <3> QED BY <2>10, <2>11, <3>1
  <2>13. Congruent(q, a, a) BY CongruentSame
  <2>14. /\ Image(A, N, p[0], k + 1, t) = a - sg
         /\ Chain(A, N, p, k + 1, t) = a - sh
    BY <2>3, <2>4 DEF Expanded
  <2> HIDE DEF a, ms, sg, sh
  <2>15. Congruent(q, a - sg, a - sh) BY <2>5, <2>6, <2>9, <2>12, <2>13, CongruentMinus
  <2> QED BY <2>14, <2>15
<1> DEFINE P == {k \in Nat : ChainAt(A, N, p, q, k)}
<1>3. 0 \in P BY <1>1
<1>4. \A k \in Nat : k \in P => k + 1 \in P BY <1>2
<1> HIDE DEF P
<1>5. \A k \in Nat : k \in P BY <1>3, <1>4, NatSetInduction
<1> QED BY <1>5 DEF P

\* The theorem of Cayley and Hamilton, modulo q: with as many powers as
\* there are rows the alternating sum vanishes.
LEMMA ChainVanishes ==
  ASSUME NEW N \in SUBSET Int, IsFiniteSet(N), NEW A, Square(A, N), NEW q \in Nat, q > 0,
         NEW p, Iterates(p, A, N, q), NEW t \in N
  PROVE  Congruent(q, Chain(A, N, p, Cardinality(N), t), 0)
<1> DEFINE n == Cardinality(N)
<1>1. n \in Nat BY FS_CardinalityType
<1>2. IntOn(p[0], N) BY DEF IntOn, Iterates
<1>3. Image(A, N, p[0], n, t) = 0 BY <1>2, ImageLast
<1> HIDE DEF n
<1>4. ChainAt(A, N, p, q, n) BY <1>1, ChainHolds
<1>5. Congruent(q, 0, Chain(A, N, p, n, t)) BY <1>3, <1>4 DEF ChainAt
<1>6. Congruent(q, Chain(A, N, p, n, t), 0) BY <1>5, CongruentSwap
<1> QED BY <1>6 DEF n

\* The sum of the minors that were reduced first.
LEMMA MinorsReduced ==
  ASSUME NEW N \in SUBSET Int, IsFiniteSet(N), NEW A, Square(A, N), NEW q \in Nat, q > 0,
         NEW k, NEW f, f = [K \in kSubset(k, N) |-> Leibniz(A, K) % q]
  PROVE  /\ SumFunction(f) \in Int
         /\ Congruent(q, SumFunction(f), MinorSum(A, N, k))
<1> DEFINE X == kSubset(k, N)
           g == [K \in X |-> Leibniz(A, K)]
<1>1. IsFiniteSet(X) BY KSubsets
<1>2. \A K \in X : Leibniz(A, K) \in Int BY MinorSumInt
<1>3. \A K \in X : f[K] \in Int /\ g[K] \in Int /\ Congruent(q, f[K], g[K])
  <2> SUFFICES ASSUME NEW K \in X
               PROVE  f[K] \in Int /\ g[K] \in Int /\ Congruent(q, f[K], g[K])
    OBVIOUS
  <2>1. f[K] = Leibniz(A, K) % q /\ g[K] = Leibniz(A, K) OBVIOUS
  <2>2. Leibniz(A, K) \in Int BY <1>2
  <2> HIDE DEF g
  <2>3. Leibniz(A, K) % q \in Int BY <2>2, ModType
  <2>4. Congruent(q, Leibniz(A, K) % q, Leibniz(A, K)) BY <2>2, CongruentMod
  <2> QED BY <2>1, <2>2, <2>3, <2>4
<1>4. MinorSum(A, N, k) = SumFunctionOnSet(g, X) BY DEF MinorSum
<1>5. DOMAIN f = X OBVIOUS
<1> HIDE DEF g, X
<1>6. SumFunction(f) = SumFunctionOnSet(f, X) BY <1>5, SumIs
<1>7. Congruent(q, SumFunctionOnSet(f, X), SumFunctionOnSet(g, X)) BY <1>1, <1>3, SumCongruent
<1>8. SumFunctionOnSet(f, X) \in Int
  <2>1. \A K \in X : f[K] \in Int BY <1>3
  <2> QED BY <1>1, <2>1, SumInt
<1> QED BY <1>4, <1>6, <1>7, <1>8

\* The sign of a difference is the product of the signs.
LEMMA AlternateMinus ==
  ASSUME NEW n \in Int, NEW d \in Int
  PROVE  Alternate(n - d) = Alternate(n) * Alternate(d)
<1>1. n % 2 = 0 /\ d % 2 = 0 => (n - d) % 2 = 0 OBVIOUS
<1>2. n % 2 = 0 /\ d % 2 # 0 => (n - d) % 2 # 0 OBVIOUS
<1>3. n % 2 # 0 /\ d % 2 = 0 => (n - d) % 2 # 0 OBVIOUS
<1>4. n % 2 # 0 /\ d % 2 # 0 => (n - d) % 2 = 0 OBVIOUS
<1>5. 1 * 1 = 1 /\ 1 * (-1) = -1 /\ (-1) * 1 = -1 /\ (-1) * (-1) = 1 OBVIOUS
<1> QED BY <1>1, <1>2, <1>3, <1>4, <1>5 DEF Alternate

\* The coefficient of x^d in det(xI - A), of n rows.
CharCoeff(A, n, d) == Alternate(n - d) * MinorSum(A, 0 .. n - 1, n - d)

\* The coefficients of the characteristic polynomial are integers.
LEMMA CharCoeffInt ==
  ASSUME NEW n \in Nat, NEW A, Square(A, 0 .. n - 1), NEW d \in Int
  PROVE  CharCoeff(A, n, d) \in Int
<1> DEFINE N == 0 .. n - 1
<1>1. N \in SUBSET Int /\ IsFiniteSet(N) BY UptoFinite
<1>2. MinorSum(A, N, n - d) \in Int
  <2> HIDE DEF N
  <2>1. Square(A, N) BY DEF N
  <2> QED BY <1>1, <2>1, MinorSumInt
<1>3. n - d \in Int OBVIOUS
<1>4. Alternate(n - d) \in Int BY <1>3, AlternateType
<1>5. \A u, v \in Int : u * v \in Int OBVIOUS
<1> HIDE DEF N
<1> QED BY <1>2, <1>4, <1>5 DEF CharCoeff, N

\* P has the coefficients of det(xI - A), modulo q.
HasCoefficients(P, A, n, q) ==
  \A d \in 0 .. n : P[d] \in Int /\ Congruent(q, P[d], CharCoeff(A, n, d))

\* g collects the terms of the polynomial, with the powers for x.
RootTerms(g, P, p, n, t) == \A d \in 0 .. n : g[d] = P[d] * p[d][t]

\* A matrix is a root of its characteristic polynomial.
LEMMA RootOfCharPoly ==
  ASSUME NEW n \in Nat, NEW A, Square(A, 0 .. n - 1), NEW q \in Nat, q > 0,
         NEW p, Iterates(p, A, 0 .. n - 1, q), NEW t \in 0 .. n - 1,
         NEW P, HasCoefficients(P, A, n, q),
         NEW g, RootTerms(g, P, p, n, t)
  PROVE  Congruent(q, SumFunctionOnSet(g, 0 .. n), 0)
<1> DEFINE N == 0 .. n - 1
           D == 0 .. n
           f == Chained(A, N, p, n, t)
           s == Alternate(n)
           h == [d \in D |-> s * f[d]]
<1>1. N \in SUBSET Int /\ IsFiniteSet(N) /\ IsFiniteSet(D) /\ Cardinality(N) = n
  BY UptoFinite, FS_Interval
<1>2. t \in N /\ Square(A, N) /\ Iterates(p, A, N, q) OBVIOUS
<1>3. \A d \in D : d \in Nat /\ n - d \in Int OBVIOUS
<1>4. s \in Int BY AlternateType
<1>5. \A u, v \in Int : u * v \in Int OBVIOUS
<1>6. \A d \in D : h[d] = s * f[d] OBVIOUS
<1>7. \A d \in D : f[d] = Alternate(d) * (MinorSum(A, N, n - d) * p[d][t]) BY DEF Chained
<1>8. \A d \in D : /\ P[d] \in Int /\ Congruent(q, P[d], CharCoeff(A, n, d))
                   /\ g[d] = P[d] * p[d][t]
  BY DEF HasCoefficients, RootTerms
<1>9. \A d \in D : CharCoeff(A, n, d) = Alternate(n - d) * MinorSum(A, N, n - d)
  BY DEF CharCoeff
<1> HIDE DEF f, h, s, N, D
<1>10. Congruent(q, Chain(A, N, p, n, t), 0) BY <1>1, <1>2, ChainVanishes
<1>11. /\ \A d \in D : f[d] \in Int
       /\ Chain(A, N, p, n, t) = SumFunctionOnSet(f, D)
  <2>1. \A d \in 0 .. n : Chained(A, N, p, n, t)[d] \in Int BY <1>1, <1>2, ChainedInt
  <2> QED BY <2>1 DEF f, D, Chain
<1>12. ASSUME NEW d \in D
       PROVE  g[d] \in Int /\ h[d] \in Int /\ Congruent(q, g[d], h[d])
  <2> DEFINE ms == MinorSum(A, N, n - d)
             c == CharCoeff(A, n, d)
  <2>1. ms \in Int BY <1>1, <1>2, MinorSumInt
  <2>2. p[d][t] \in Int BY <1>2, <1>3, IteratesInt
  <2>3. Alternate(d) \in Int BY <1>3, AlternateType
  <2>4. Alternate(n - d) = s * Alternate(d)
    <3>1. d \in Int BY <1>3
    <3> QED BY <3>1, AlternateMinus DEF s
  <2>5. c = (s * Alternate(d)) * ms BY <1>9, <2>4
  <2>6. h[d] = s * (Alternate(d) * (ms * p[d][t])) BY <1>6, <1>7
  <2>7. \A u, v, w, x \in Int : ((u * v) * w) * x = u * (v * (w * x)) OBVIOUS
  <2>8. Congruent(q, P[d], c) /\ P[d] \in Int /\ g[d] = P[d] * p[d][t] BY <1>8
  <2> HIDE DEF ms, c
  <2>9. c \in Int BY <1>4, <1>5, <2>1, <2>3, <2>5
  <2>10. h[d] = c * p[d][t] BY <1>4, <2>1, <2>2, <2>3, <2>5, <2>6, <2>7
  <2>11. Congruent(q, p[d][t], p[d][t]) BY CongruentSame
  <2>12. Congruent(q, P[d] * p[d][t], c * p[d][t])
    BY <2>2, <2>8, <2>9, <2>11, CongruentTimes
  <2> QED BY <1>5, <2>2, <2>8, <2>9, <2>10, <2>12
<1>13. Congruent(q, SumFunctionOnSet(g, D), SumFunctionOnSet(h, D)) BY <1>1, <1>12, SumCongruent
<1>14. \A d \in D : f[d] \in Int /\ h[d] = s * f[d] BY <1>6, <1>11
<1>15. SumFunctionOnSet(h, D) = s * SumFunctionOnSet(f, D) BY <1>1, <1>4, <1>14, SumTimes
<1>16. SumFunctionOnSet(f, D) \in Int BY <1>1, <1>11, SumInt
<1>17. Congruent(q, s * SumFunctionOnSet(f, D), s * 0)
  <2>1. Congruent(q, s, s) BY CongruentSame
  <2>2. 0 \in Int OBVIOUS
  <2> QED BY <1>4, <1>10, <1>11, <1>16, <2>1, <2>2, CongruentTimes
<1>18. s * 0 = 0 BY <1>4
<1>19. Congruent(q, SumFunctionOnSet(g, D), 0) BY <1>13, <1>15, <1>17, <1>18, CongruentChain
<1> QED BY <1>19 DEF D
=============================================================================
