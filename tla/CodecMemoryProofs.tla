-------------------------- MODULE CodecMemoryProofs --------------------------
(***************************************************************************)
(* The encodings are exact for every modulus, base and size.               *)
(*                                                                         *)
(* The last part is about Memory, for every dimension: the functions are   *)
(* lists, so the proof compares them with the lifetimes of their matrices. *)
(* What keeps the invariant is proved for any list that agrees with its    *)
(* lifetimes; that the three functions do is then a matter of looking at   *)
(* each statement.                                                         *)
(***************************************************************************)
EXTENDS Codec, Memory, NumberTheorems, SequenceTheorems

-----------------------------------------------------------------------------
(* Powers *)

\* The function behind Power exists: it is a recursion on the exponent.
IsPower(p, b) == p = [d \in Nat |-> IF d = 0 THEN 1 ELSE b * p[d - 1]]

\* A table of the powers of a base exists.
LEMMA PowerExists ==
  ASSUME NEW b \in Int
  PROVE  \E p : IsPower(p, b)
<1> DEFINE G == [n \in Nat |-> [p \in [0 .. n - 1 -> Int] |->
                   IF n = 0 THEN 1 ELSE b * p[n - 1]]]
<1>1. Yields(G, Int)
  <2> SUFFICES ASSUME NEW n \in Nat, NEW p \in [0 .. n - 1 -> Int]
               PROVE  G[n][p] \in Int
    BY DEF Yields
  <2>1. n # 0 => p[n - 1] \in Int OBVIOUS
  <2> QED BY <2>1
<1>2. \A n \in Nat : \A p \in [0 .. n - 1 -> Int] :
        G[n][p] = IF n = 0 THEN 1 ELSE b * p[n - 1]
  OBVIOUS
<1> HIDE DEF G
<1>3. PICK f \in [Nat -> Int] : Solves(f, G) BY <1>1, Recursion
<1>4. ASSUME NEW n \in Nat PROVE f[n] = IF n = 0 THEN 1 ELSE b * f[n - 1]
  <2>1. f[n] = G[n][Initial(f, n)] BY <1>3 DEF Solves
  <2>2. Initial(f, n) \in [0 .. n - 1 -> Int] BY InitialType
  <2>3. n # 0 => Initial(f, n)[n - 1] = f[n - 1] BY InitialAt
  <2> QED BY <1>2, <2>1, <2>2, <2>3
<1> QED BY <1>4 DEF IsPower

\* The two equations of exponentiation.
LEMMA PowerLaw ==
  ASSUME NEW b \in Int
  PROVE  /\ Power(b, 0) = 1
         /\ \A n \in Nat : Power(b, n + 1) = b * Power(b, n)
<1> DEFINE p == CHOOSE p : IsPower(p, b)
<1>1. IsPower(p, b) BY PowerExists
<1>2. \A n : Power(b, n) = p[n] BY DEF Power, IsPower
<1> HIDE DEF p
<1>3. p[0] = 1 /\ \A n \in Nat : p[n + 1] = b * p[n] BY <1>1 DEF IsPower
<1> QED BY <1>2, <1>3

\* Powers of a positive base are positive.
LEMMA PowerInt ==
  ASSUME NEW b \in Nat, b > 0
  PROVE  \A n \in Nat : Power(b, n) \in Nat /\ Power(b, n) > 0
<1> DEFINE P == {n \in Nat : Power(b, n) \in Nat /\ Power(b, n) > 0}
<1>1. 0 \in P BY PowerLaw
<1>2. \A n \in Nat : n \in P => n + 1 \in P
  <2> SUFFICES ASSUME NEW n \in Nat, n \in P PROVE n + 1 \in P OBVIOUS
  <2>1. Power(b, n + 1) = b * Power(b, n) BY PowerLaw
  <2>2. \A x \in Nat : x > 0 => b * x \in Nat /\ b * x > 0 OBVIOUS
  <2> QED BY <2>1, <2>2
<1> HIDE DEF P
<1>3. \A n \in Nat : n \in P BY <1>1, <1>2, NatSetInduction
<1> QED BY <1>3 DEF P

\* Powers of a larger exponent, or of a larger base, are no smaller.
LEMMA PowerGrows ==
  ASSUME NEW b \in Nat, b > 0, NEW m \in Nat, NEW n \in Nat, m <= n
  PROVE  Power(b, m) <= Power(b, n)
<1> DEFINE P == {d \in Nat : Power(b, m) <= Power(b, m + d)}
<1>1. 0 \in P BY PowerInt
<1>2. \A d \in Nat : d \in P => d + 1 \in P
  <2> SUFFICES ASSUME NEW d \in Nat, d \in P PROVE d + 1 \in P OBVIOUS
  <2>1. m + d \in Nat /\ m + (d + 1) = (m + d) + 1 OBVIOUS
  <2>2. Power(b, (m + d) + 1) = b * Power(b, m + d) BY <2>1, PowerLaw
  <2>3. \A x \in Nat : b * x >= x OBVIOUS
  <2>4. Power(b, m) \in Nat /\ Power(b, m + d) \in Nat BY <2>1, PowerInt
  <2>5. Power(b, m) <= Power(b, m + (d + 1)) BY <2>1, <2>2, <2>3, <2>4
  <2> QED BY <2>5
<1> HIDE DEF P
<1>3. \A d \in Nat : d \in P BY <1>1, <1>2, NatSetInduction
<1>4. n - m \in Nat /\ m + (n - m) = n OBVIOUS
<1> QED BY <1>3, <1>4 DEF P

\* A larger base has larger powers.
LEMMA PowerBases ==
  ASSUME NEW b \in Nat, b > 0, NEW c \in Nat, b <= c
  PROVE  \A n \in Nat : Power(b, n) <= Power(c, n)
<1> DEFINE P == {n \in Nat : Power(b, n) <= Power(c, n)}
<1>1. 0 \in P BY PowerLaw
<1>2. \A n \in Nat : n \in P => n + 1 \in P
  <2> SUFFICES ASSUME NEW n \in Nat, n \in P PROVE n + 1 \in P OBVIOUS
  <2>1. Power(b, n + 1) = b * Power(b, n) /\ Power(c, n + 1) = c * Power(c, n)
    BY PowerLaw
  <2>2. Power(b, n) \in Nat /\ Power(c, n) \in Nat
    <3>1. c > 0 OBVIOUS
    <3> QED BY <3>1, PowerInt
  <2>3. \A x, y \in Nat : x <= y => b * x <= c * y
    <3> SUFFICES ASSUME NEW x \in Nat, NEW y \in Nat, x <= y PROVE b * x <= c * y
      OBVIOUS
    <3>1. b * x <= c * x OBVIOUS
    <3>2. c * x <= c * y OBVIOUS
    <3> QED BY <3>1, <3>2
  <2> QED BY <2>1, <2>2, <2>3
<1> HIDE DEF P
<1>3. \A n \in Nat : n \in P BY <1>1, <1>2, NatSetInduction
<1> QED BY <1>3 DEF P

\* A power of two is larger than its exponent.
LEMMA PowerExceeds == ASSUME NEW n \in Nat PROVE Power(2, n) >= n + 1
<1> DEFINE P == {d \in Nat : Power(2, d) >= d + 1}
<1>1. 0 \in P BY PowerLaw
<1>2. \A d \in Nat : d \in P => d + 1 \in P
  <2> SUFFICES ASSUME NEW d \in Nat, d \in P PROVE d + 1 \in P OBVIOUS
  <2>1. Power(2, d + 1) = 2 * Power(2, d) BY PowerLaw
  <2>2. Power(2, d) \in Nat BY PowerInt
  <2> QED BY <2>1, <2>2
<1> HIDE DEF P
<1>3. \A d \in Nat : d \in P BY <1>1, <1>2, NatSetInduction
<1> QED BY <1>3 DEF P

-----------------------------------------------------------------------------
(* The sizes that the code computes with log() and ceil() *)

\* The assumptions as the steps below use them.
LEMMA Parameters ==
  /\ Q \in Nat /\ Q > 1 /\ Base \in Nat /\ Base > 1 /\ Q <= Base
  /\ Size \in Nat /\ Size > 0
BY CodecAssumption

\* size_char is the least number of bytes that has room for the vector.
LEMMA SizeChar ==
  /\ size_char \in 1 .. Size
  /\ Power(Q, Size) <= Power(Base, size_char)
<1> DEFINE P == {s \in Nat : Power(Base, s) >= Power(Q, Size)}
<1>1. Power(Q, Size) \in Nat /\ \A s \in Nat : Power(Base, s) \in Nat
  BY Parameters, PowerInt
<1>2. 0 \notin P
  <2>1. Power(Base, 0) = 1 /\ Power(Q, 0) = 1 /\ Power(Q, 0 + 1) = Q * Power(Q, 0)
    BY Parameters, PowerLaw
  <2>2. Power(Q, 1) <= Power(Q, Size) BY Parameters, PowerGrows
  <2>3. Power(Q, 1) = Q BY <2>1, Parameters
  <2> QED BY <1>1, <2>1, <2>2, <2>3, Parameters
<1>3. Size \in P BY <1>1, Parameters, PowerBases
<1>4. \E s \in 1 .. Size : s \in P /\ s - 1 \notin P
  <2> HIDE DEF P
  <2> QED BY <1>2, <1>3, Parameters, Border
<1>5. \E s \in 1 .. Size : /\ Power(Base, s) >= Power(Q, Size)
                           /\ Power(Base, s - 1) < Power(Q, Size)
  <2> SUFFICES ASSUME NEW s \in 1 .. Size, s \in P, s - 1 \notin P
               PROVE  /\ Power(Base, s) >= Power(Q, Size)
                      /\ Power(Base, s - 1) < Power(Q, Size)
    BY <1>4
  <2>1. s - 1 \in Nat BY Parameters
  <2> QED BY <1>1, <2>1
<1>6. /\ size_char \in 1 .. Size
      /\ Power(Base, size_char) >= Power(Q, Size)
  BY <1>5 DEF size_char
<1> QED BY <1>1, <1>6, Parameters

\* num_bits is the least number of bits that has room for an entry.
LEMMA NumBits == num_bits \in 1 .. Q /\ Q <= Power(2, num_bits)
<1> DEFINE P == {b \in Nat : Power(2, b) >= Q}
<1>1. \A b \in Nat : Power(2, b) \in Nat
  BY PowerInt
<1>2. 0 \notin P
  <2>1. Power(2, 0) = 1 BY PowerLaw
  <2> QED BY <2>1, Parameters
<1>3. Q \in P BY <1>1, Parameters, PowerExceeds
<1>4. \E b \in 1 .. Q : b \in P /\ b - 1 \notin P
  <2> HIDE DEF P
  <2> QED BY <1>2, <1>3, Parameters, Border
<1>5. \E b \in 1 .. Q : Power(2, b) >= Q /\ Power(2, b - 1) < Q
  <2> SUFFICES ASSUME NEW b \in 1 .. Q, b \in P, b - 1 \notin P
               PROVE  Power(2, b) >= Q /\ Power(2, b - 1) < Q
    BY <1>4
  <2>1. b - 1 \in Nat BY Parameters
  <2> QED BY <1>1, <2>1, Parameters
<1>6. num_bits \in 1 .. Q /\ Power(2, num_bits) >= Q
  BY <1>5 DEF num_bits
<1> QED BY <1>1, <1>6, Parameters

-----------------------------------------------------------------------------
(* Numbers and their digits *)

\* The terms of a number.
Place(u, n, b) == [d \in 0 .. n - 1 |-> u[d] * Power(b, n - 1 - d)]

\* The number that digits stand for, as a sum over their positions.
LEMMA ValueIsSum ==
  \A u, n, b : Value(u, n, b) = SumFunctionOnSet(Place(u, n, b), 0 .. n - 1)
BY SumIs DEF Value, Place

\* Every place of a number is an integer.
LEMMA PlaceInt ==
  ASSUME NEW b \in Nat, b > 0, NEW n \in Nat, NEW u, \A d \in 0 .. n - 1 : u[d] \in Int
  PROVE  \A d \in 0 .. n - 1 : Place(u, n, b)[d] \in Int
<1> SUFFICES ASSUME NEW d \in 0 .. n - 1 PROVE u[d] * Power(b, n - 1 - d) \in Int
  BY DEF Place
<1>1. n - 1 - d \in Nat OBVIOUS
<1>2. Power(b, n - 1 - d) \in Int BY <1>1, PowerInt
<1> QED BY <1>2

\* The number that digits stand for is an integer.
LEMMA ValueInt ==
  ASSUME NEW b \in Nat, b > 0, NEW n \in Nat, NEW u, \A d \in 0 .. n - 1 : u[d] \in Int
  PROVE  Value(u, n, b) \in Int
<1>1. \A d \in 0 .. n - 1 : Place(u, n, b)[d] \in Int BY PlaceInt
<1>2. IsFiniteSet(0 .. n - 1) BY UptoFinite
<1>3. SumFunctionOnSet(Place(u, n, b), 0 .. n - 1) \in Int BY <1>1, <1>2, SumInt
<1> QED BY <1>3, ValueIsSum

\* No digits stand for zero.
LEMMA ValueNone == ASSUME NEW u, NEW b PROVE Value(u, 0, b) = 0
<1>1. 0 .. 0 - 1 = {} OBVIOUS
<1> QED BY <1>1, ValueIsSum, SumEmpty

\* One more digit: Horner's rule.
LEMMA ValueNext ==
  ASSUME NEW b \in Nat, b > 0, NEW n \in Nat, NEW u, \A d \in 0 .. n : u[d] \in Int
  PROVE  Value(u, n + 1, b) = b * Value(u, n, b) + u[n]
<1> DEFINE f == Place(u, n, b)
           g == Place(u, n + 1, b)
           m == n + 1
<1>1. \A d \in 0 .. n - 1 : f[d] \in Int BY PlaceInt
<1>2. \A d \in 0 .. n : g[d] \in Int
  <2>1. m \in Nat /\ 0 .. m - 1 = 0 .. n OBVIOUS
  <2>2. \A d \in 0 .. m - 1 : u[d] \in Int BY <2>1
  <2> HIDE DEF m
  <2>3. \A d \in 0 .. m - 1 : Place(u, m, b)[d] \in Int BY <2>1, <2>2, PlaceInt
  <2> QED BY <2>1, <2>3 DEF m
<1>3. g[n] = u[n]
  <2>1. g[n] = u[n] * Power(b, (n + 1) - 1 - n) BY DEF Place
  <2>2. (n + 1) - 1 - n = 0 OBVIOUS
  <2>3. Power(b, 0) = 1 BY PowerLaw
  <2>4. u[n] \in Int OBVIOUS
  <2> HIDE DEF g
  <2> QED BY <2>1, <2>2, <2>3, <2>4
<1>4. \A d \in 0 .. n - 1 : f[d] \in Int /\ g[d] = b * f[d]
  <2> SUFFICES ASSUME NEW d \in 0 .. n - 1 PROVE g[d] = b * f[d]
    BY <1>1
  <2> DEFINE e == n - 1 - d
  <2>1. e \in Nat /\ (n + 1) - 1 - d = e + 1 /\ d \in 0 .. (n + 1) - 1 OBVIOUS
  <2>2. g[d] = u[d] * Power(b, e + 1) BY <2>1 DEF Place
  <2>3. f[d] = u[d] * Power(b, e) BY DEF Place
  <2> HIDE DEF e, f, g
  <2>4. Power(b, e + 1) = b * Power(b, e) BY <2>1, PowerLaw
  <2>5. Power(b, e) \in Int BY <2>1, PowerInt
  <2>6. u[d] \in Int OBVIOUS
  <2>7. \A x, y \in Int : x * (b * y) = b * (x * y) OBVIOUS
  <2> QED BY <2>2, <2>3, <2>4, <2>5, <2>6, <2>7
<1>5. Value(u, n, b) = SumFunctionOnSet(f, 0 .. n - 1) BY ValueIsSum
<1>6. Value(u, n + 1, b) = SumFunctionOnSet(g, 0 .. n)
  <2>1. 0 .. (n + 1) - 1 = 0 .. n OBVIOUS
  <2> HIDE DEF g
  <2>2. Value(u, n + 1, b) = SumFunctionOnSet(Place(u, n + 1, b), 0 .. (n + 1) - 1)
    BY ValueIsSum
  <2> QED BY <2>1, <2>2 DEF g
<1> HIDE DEF f, g
<1>7. SumFunctionOnSet(g, 0 .. n) = g[n] + SumFunctionOnSet(g, 0 .. n - 1)
  BY <1>2, SumLast
<1>8. IsFiniteSet(0 .. n - 1) BY UptoFinite
<1>9. SumFunctionOnSet(g, 0 .. n - 1) = b * SumFunctionOnSet(f, 0 .. n - 1)
  BY <1>4, <1>8, SumTimes
<1>10. SumFunctionOnSet(f, 0 .. n - 1) \in Int BY <1>1, <1>8, SumInt
<1>11. u[n] \in Int OBVIOUS
<1> QED BY <1>3, <1>5, <1>6, <1>7, <1>9, <1>10, <1>11

\* Digits below the base make a number below its power.
LEMMA ValueBound ==
  ASSUME NEW b \in Nat, b > 0, NEW u, NEW n \in Nat, \A d \in 0 .. n - 1 : u[d] \in 0 .. b - 1
  PROVE  \A m \in 0 .. n : Value(u, m, b) \in Nat /\ Value(u, m, b) < Power(b, m)
<1> DEFINE P == {m \in Nat : Value(u, m, b) \in Nat /\ Value(u, m, b) < Power(b, m)}
<1>1. 0 \in P BY ValueNone, PowerLaw
<1>2. \A m \in 0 .. n - 1 : m \in P => m + 1 \in P
  <2> SUFFICES ASSUME NEW m \in 0 .. n - 1, m \in P
               PROVE  m + 1 \in P
    OBVIOUS
  <2>1. \A d \in 0 .. m : u[d] \in Int OBVIOUS
  <2>2. Value(u, m + 1, b) = b * Value(u, m, b) + u[m] BY <2>1, ValueNext
  <2>3. Power(b, m + 1) = b * Power(b, m) /\ Power(b, m) \in Nat BY PowerLaw, PowerInt
  <2>4. u[m] \in 0 .. b - 1 OBVIOUS
  <2>5. \A x, y \in Nat : \A z \in 0 .. b - 1 :
          x < y => b * x + z \in Nat /\ b * x + z < b * y
    <3> SUFFICES ASSUME NEW x \in Nat, NEW y \in Nat, NEW z \in 0 .. b - 1, x < y
                 PROVE  b * x + z \in Nat /\ b * x + z < b * y
      OBVIOUS
    <3>1. b * (x + 1) <= b * y OBVIOUS
    <3>2. b * (x + 1) = b * x + b OBVIOUS
    <3>3. b * x \in Nat OBVIOUS
    <3>4. b * y \in Nat OBVIOUS
    <3> QED BY <3>1, <3>2, <3>3, <3>4
  <2>6. m + 1 \in Nat OBVIOUS
  <2> QED BY <2>2, <2>3, <2>4, <2>5, <2>6
<1> HIDE DEF P
<1>3. \A m \in 0 .. n : m \in P BY <1>1, <1>2, UptoInduction
<1> QED BY <1>3 DEF P

\* A number determines its digits.
LEMMA ValueUnique ==
  ASSUME NEW b \in Nat, b > 0, NEW n \in Nat, NEW u, NEW v,
         \A d \in 0 .. n - 1 : u[d] \in 0 .. b - 1 /\ v[d] \in 0 .. b - 1,
         Value(u, n, b) = Value(v, n, b)
  PROVE  \A d \in 0 .. n - 1 : u[d] = v[d]
<1> DEFINE P == {m \in Nat : m <= n /\ Value(u, m, b) = Value(v, m, b) =>
                               \A d \in 0 .. m - 1 : u[d] = v[d]}
<1>1. 0 \in P OBVIOUS
<1>2. \A m \in Nat : m \in P => m + 1 \in P
  <2> SUFFICES ASSUME NEW m \in Nat, m \in P, m + 1 <= n,
                      Value(u, m + 1, b) = Value(v, m + 1, b),
                      NEW d \in 0 .. (m + 1) - 1
               PROVE  u[d] = v[d]
    OBVIOUS
  <2>1. (\A e \in 0 .. m : u[e] \in Int) /\ (\A e \in 0 .. m : v[e] \in Int) OBVIOUS
  <2>2. Value(u, m + 1, b) = b * Value(u, m, b) + u[m] BY <2>1, ValueNext
  <2>3. Value(v, m + 1, b) = b * Value(v, m, b) + v[m] BY <2>1, ValueNext
  <2>4. Value(u, m, b) \in Int /\ Value(v, m, b) \in Int
    <3>1. \A e \in 0 .. m - 1 : u[e] \in Int BY <2>1
    <3>2. \A e \in 0 .. m - 1 : v[e] \in Int BY <2>1
    <3>3. Value(u, m, b) \in Int BY <3>1, ValueInt
    <3>4. Value(v, m, b) \in Int BY <3>2, ValueInt
    <3> QED BY <3>3, <3>4
  <2>5. u[m] \in Int /\ 0 <= u[m] /\ u[m] < b /\ v[m] \in Int /\ 0 <= v[m] /\ v[m] < b
    OBVIOUS
  <2> DEFINE x == Value(u, m, b)
             y == Value(v, m, b)
             r == u[m]
             s == v[m]
  <2>6. x = y /\ r = s
    <3>1. b * x + r = b * y + s BY <2>2, <2>3
    <3>2. x \in Int /\ y \in Int /\ r \in Int /\ s \in Int BY <2>4, <2>5
    <3>3. 0 <= r /\ r < b /\ 0 <= s /\ s < b BY <2>5
    <3> HIDE DEF x, y, r, s
    <3>4. (b * x + r) % b = r /\ (b * x + r) \div b = x BY <3>2, <3>3, ModUnique
    <3>5. (b * y + s) % b = s /\ (b * y + s) \div b = y BY <3>2, <3>3, ModUnique
    <3> QED BY <3>1, <3>4, <3>5
  <2>7. d = m \/ d \in 0 .. m - 1 OBVIOUS
  <2>8. \A e \in 0 .. m - 1 : u[e] = v[e] BY <2>6
  <2> QED BY <2>6, <2>7, <2>8
<1> HIDE DEF P
<1>3. \A m \in Nat : m \in P BY <1>1, <1>2, NatSetInduction
<1> QED BY <1>3 DEF P

\* A number is no smaller than its upper part.
LEMMA ValuePrefix ==
  ASSUME NEW b \in Nat, b > 0, NEW n \in Nat, NEW u, \A d \in 0 .. n - 1 : u[d] \in 0 .. b - 1,
         NEW l \in 0 .. n
  PROVE  Value(u, l, b) <= Value(u, n, b)
<1> DEFINE P == {d \in Nat : l + d <= n => Value(u, l, b) <= Value(u, l + d, b)}
<1>0. \A m \in 0 .. n : Value(u, m, b) \in Nat BY ValueBound
<1>1. 0 \in P
  <2>1. l + 0 = l /\ Value(u, l, b) \in Nat BY <1>0
  <2> QED BY <2>1
<1>2. \A d \in Nat : d \in P => d + 1 \in P
  <2> SUFFICES ASSUME NEW d \in Nat, d \in P, l + (d + 1) <= n
               PROVE  Value(u, l, b) <= Value(u, l + (d + 1), b)
    OBVIOUS
  <2> DEFINE m == l + d
  <2>1. m \in Nat /\ m \in 0 .. n - 1 /\ l + (d + 1) = m + 1 OBVIOUS
  <2>2. Value(u, l, b) <= Value(u, m, b) BY <2>1
  <2> HIDE DEF m
  <2>3. \A e \in 0 .. m : u[e] \in Int BY <2>1
  <2>4. Value(u, m + 1, b) = b * Value(u, m, b) + u[m] BY <2>1, <2>3, ValueNext
  <2>5. Value(u, m, b) \in Nat /\ Value(u, l, b) \in Nat /\ u[m] \in Nat BY <1>0, <2>1
  <2>6. \A x \in Nat : b * x >= x OBVIOUS
  <2>7. b * Value(u, m, b) >= Value(u, m, b) /\ b * Value(u, m, b) \in Nat
    BY <2>5, <2>6
  <2> QED BY <2>1, <2>2, <2>4, <2>5, <2>7
<1> HIDE DEF P
<1>3. \A d \in Nat : d \in P BY <1>1, <1>2, NatSetInduction
<1>4. n - l \in Nat /\ l + (n - l) = n OBVIOUS
<1> QED BY <1>3, <1>4 DEF P

-----------------------------------------------------------------------------
(* The inner loop *)

\* The carries exist: they are a recursion from the last digit to the first.
IsCarry(t, u, n, base, factor, c) ==
  t = [d \in -1 .. n - 1 |->
         IF d = n - 1 THEN c ELSE (u[d + 1] * factor + t[d + 1]) \div base]

\* Walking down the digits, the carries exist and are natural numbers.
LEMMA CarryExists ==
  ASSUME NEW base \in Nat, base > 0, NEW factor \in Nat, NEW n \in Nat, NEW c \in Nat,
         NEW u, \A d \in 0 .. n - 1 : u[d] \in 0 .. base - 1
  PROVE  \E t \in [-1 .. n - 1 -> Nat] : IsCarry(t, u, n, base, factor, c)
<1> DEFINE step(l, v) == IF l \in 1 .. n THEN (u[n - l] * factor + v) \div base ELSE c
           G == [l \in Nat |-> [p \in [0 .. l - 1 -> Nat] |->
                   IF l = 0 THEN c ELSE step(l, p[l - 1])]]
<1>1. \A l \in Nat, v \in Nat : step(l, v) \in Nat
  <2> SUFFICES ASSUME NEW l \in 1 .. n, NEW v \in Nat
               PROVE  (u[n - l] * factor + v) \div base \in Nat
    OBVIOUS
  <2>1. n - l \in 0 .. n - 1 OBVIOUS
  <2>2. u[n - l] \in Nat BY <2>1
  <2>3. \A x \in Nat : x * factor + v \in Nat OBVIOUS
  <2>4. \A x \in Nat : x \div base \in Nat OBVIOUS
  <2> QED BY <2>2, <2>3, <2>4
<1> HIDE DEF step
<1>2. Yields(G, Nat)
  <2> SUFFICES ASSUME NEW l \in Nat, NEW p \in [0 .. l - 1 -> Nat]
               PROVE  G[l][p] \in Nat
    BY DEF Yields
  <2>1. l # 0 => p[l - 1] \in Nat OBVIOUS
  <2> QED BY <1>1, <2>1
<1>3. \A l \in Nat : \A p \in [0 .. l - 1 -> Nat] :
        G[l][p] = IF l = 0 THEN c ELSE step(l, p[l - 1])
  OBVIOUS
<1> HIDE DEF G
<1>4. PICK f \in [Nat -> Nat] : Solves(f, G) BY <1>2, Recursion
<1>5. ASSUME NEW l \in Nat PROVE f[l] = IF l = 0 THEN c ELSE step(l, f[l - 1])
  <2>1. f[l] = G[l][Initial(f, l)] BY <1>4 DEF Solves
  <2>2. Initial(f, l) \in [0 .. l - 1 -> Nat] BY InitialType
  <2>3. l # 0 => Initial(f, l)[l - 1] = f[l - 1] BY InitialAt
  <2> QED BY <1>3, <2>1, <2>2, <2>3
<1> DEFINE t == [d \in -1 .. n - 1 |-> f[n - 1 - d]]
<1>6. t \in [-1 .. n - 1 -> Nat] OBVIOUS
<1>7. ASSUME NEW d \in -1 .. n - 1
      PROVE  t[d] = IF d = n - 1 THEN c ELSE (u[d + 1] * factor + t[d + 1]) \div base
  <2> DEFINE l == n - 1 - d
  <2>1. l \in Nat /\ t[d] = f[l] /\ (l = 0 <=> d = n - 1) OBVIOUS
  <2>2. CASE d # n - 1
    <3>1. /\ l \in 1 .. n /\ n - l = d + 1 /\ l - 1 = n - 1 - (d + 1)
          /\ d + 1 \in -1 .. n - 1
      BY <2>2
    <3>2. t[d + 1] = f[l - 1] BY <3>1
    <3> HIDE DEF l, t
    <3>3. t[d] = step(l, t[d + 1]) BY <1>5, <2>1, <2>2, <3>2
    <3> QED BY <2>2, <3>1, <3>3 DEF step
  <2>3. CASE d = n - 1 BY <1>5, <2>1, <2>3
  <2> QED BY <2>2, <2>3
<1> HIDE DEF t
<1>8. IsCarry(t, u, n, base, factor, c) BY <1>6, <1>7 DEF IsCarry
<1> QED BY <1>6, <1>8

\* The carries of the loop: what goes into a digit is the new digit and, in
\* units of the next one, the carry that leaves it.
TheCarry(u, n, base, factor, c) == CHOOSE t : IsCarry(t, u, n, base, factor, c)

\* The carry out of a digit is the quotient of what the digit and the carry
\* into it make.
LEMMA CarryLaw ==
  ASSUME NEW base \in Nat, base > 0, NEW factor \in Nat, NEW n \in Nat, NEW c \in Nat,
         NEW u, \A d \in 0 .. n - 1 : u[d] \in 0 .. base - 1
  PROVE  /\ \A d \in -1 .. n - 1 : TheCarry(u, n, base, factor, c)[d] \in Nat
         /\ TheCarry(u, n, base, factor, c)[n - 1] = c
         /\ \A d \in 0 .. n - 1 :
              TheCarry(u, n, base, factor, c)[d - 1]
                = (u[d] * factor + TheCarry(u, n, base, factor, c)[d]) \div base
<1> DEFINE t == TheCarry(u, n, base, factor, c)
<1>1. IsCarry(t, u, n, base, factor, c) BY CarryExists DEF TheCarry
<1> HIDE DEF t
<1>2. t[n - 1] = c BY <1>1 DEF IsCarry
<1>3. ASSUME NEW d \in 0 .. n - 1
      PROVE  t[d - 1] = (u[d] * factor + t[d]) \div base
  <2>1. d - 1 \in -1 .. n - 1 /\ d - 1 # n - 1 /\ (d - 1) + 1 = d OBVIOUS
  <2> QED BY <1>1, <2>1 DEF IsCarry
<1>4. \A d \in -1 .. n - 1 : t[d] \in Nat
  <2> DEFINE P == {l \in Nat : l <= n => t[n - 1 - l] \in Nat}
  <2>1. 0 \in P
    <3>1. n - 1 - 0 = n - 1 OBVIOUS
    <3> QED BY <1>2, <3>1
  <2>2. \A l \in Nat : l \in P => l + 1 \in P
    <3> SUFFICES ASSUME NEW l \in Nat, l \in P, l + 1 <= n
                 PROVE  t[n - 1 - (l + 1)] \in Nat
      OBVIOUS
    <3> DEFINE d == n - 1 - l
    <3>1. d \in 0 .. n - 1 /\ n - 1 - (l + 1) = d - 1 OBVIOUS
    <3>2. t[d] \in Nat OBVIOUS
    <3> HIDE DEF d
    <3>3. t[d - 1] = (u[d] * factor + t[d]) \div base BY <1>3, <3>1
    <3>4. u[d] \in Nat BY <3>1
    <3>5. u[d] * factor \in Nat BY <3>4
    <3>6. \A x \in Nat : x \div base \in Nat OBVIOUS
    <3>7. u[d] * factor + t[d] \in Nat BY <3>2, <3>5
    <3> QED BY <3>1, <3>3, <3>6, <3>7
  <2> HIDE DEF P
  <2>3. \A l \in Nat : l \in P BY <2>1, <2>2, NatSetInduction
  <2> SUFFICES ASSUME NEW d \in -1 .. n - 1 PROVE t[d] \in Nat OBVIOUS
  <2>4. n - 1 - d \in Nat /\ n - 1 - d <= n /\ n - 1 - (n - 1 - d) = d OBVIOUS
  <2> QED BY <2>3, <2>4 DEF P
<1> QED BY <1>2, <1>3, <1>4 DEF t

\* The inner loop of a conversion leaves the remainders and loses the last
\* carry.
LEMMA CarriedIs ==
  ASSUME NEW base, NEW factor, NEW n, NEW c, NEW u
  PROVE  Carried(u, n, base, factor, c)
           = [digits |-> [d \in 0 .. n - 1 |->
                            (u[d] * factor + TheCarry(u, n, base, factor, c)[d]) % base],
              lost   |-> TheCarry(u, n, base, factor, c)[-1]]
BY DEF Carried, TheCarry, IsCarry

\* Multiplication by factor and addition of c: digits and lost carry together
\* are the new number.
Exact(r, u, n, base, factor, c) ==
  /\ r.digits \in [0 .. n - 1 -> 0 .. base - 1]
  /\ r.lost \in Nat
  /\ r.lost * Power(base, n) + Value(r.digits, n, base) = factor * Value(u, n, base) + c

\* One pass multiplies the number by the factor and adds the digit, up to what
\* is lost.
LEMMA CarriedExact ==
  ASSUME NEW base \in Nat, base > 0, NEW factor \in Nat, NEW n \in Nat, NEW c \in Nat,
         NEW u, \A d \in 0 .. n - 1 : u[d] \in 0 .. base - 1
  PROVE  Exact(Carried(u, n, base, factor, c), u, n, base, factor, c)
<1> DEFINE t == TheCarry(u, n, base, factor, c)
           v == [d \in 0 .. n - 1 |-> (u[d] * factor + t[d]) % base]
           f == Place(u, n, base)
           g == Place(v, n, base)
           S == 0 .. n - 1
           U(m) == n - m .. n - 1
<1>1. /\ \A d \in -1 .. n - 1 : t[d] \in Nat
      /\ t[n - 1] = c
      /\ \A d \in S : t[d - 1] = (u[d] * factor + t[d]) \div base
  BY CarryLaw
<1>2. Carried(u, n, base, factor, c) = [digits |-> v, lost |-> t[-1]]
  BY CarriedIs
<1> HIDE DEF t
<1>3. \A d \in S : /\ v[d] \in 0 .. base - 1
                   /\ base * t[d - 1] + v[d] = u[d] * factor + t[d]
  <2> SUFFICES ASSUME NEW d \in S
               PROVE  /\ v[d] \in 0 .. base - 1
                      /\ base * t[d - 1] + v[d] = u[d] * factor + t[d]
    OBVIOUS
  <2> DEFINE w == u[d] * factor + t[d]
  <2>1. t[d] \in Nat /\ u[d] \in Nat BY <1>1
  <2>2. w \in Int BY <2>1
  <2>3. v[d] = w % base /\ t[d - 1] = w \div base BY <1>1
  <2> HIDE DEF w, v
  <2>4. w % base \in 0 .. base - 1 BY <2>2, ModType
  <2>5. w = base * (w \div base) + (w % base) BY <2>2, DivMod
  <2> QED BY <2>3, <2>4, <2>5 DEF w
<1>4. v \in [S -> 0 .. base - 1] BY <1>3
<1> HIDE DEF v
<1>5. (\A d \in S : f[d] \in Int) /\ (\A d \in S : g[d] \in Int)
  <2>1. \A d \in 0 .. n - 1 : u[d] \in Int OBVIOUS
  <2>2. \A d \in 0 .. n - 1 : v[d] \in Int BY <1>4
  <2>3. \A d \in S : f[d] \in Int BY <2>1, PlaceInt
  <2>4. \A d \in S : g[d] \in Int BY <2>2, PlaceInt
  <2> QED BY <2>3, <2>4
<1>6. IsFiniteSet(S) BY UptoFinite
<1> DEFINE Holds(m) == t[n - 1 - m] * Power(base, m) + SumFunctionOnSet(g, U(m))
                         = factor * SumFunctionOnSet(f, U(m)) + c
           P == {m \in Nat : Holds(m)}
<1>7. 0 \in P
  <2>1. U(0) = {} /\ n - 1 - 0 = n - 1 OBVIOUS
  <2>2. SumFunctionOnSet(g, {}) = 0 /\ SumFunctionOnSet(f, {}) = 0 BY SumEmpty
  <2>3. Power(base, 0) = 1 BY PowerLaw
  <2>4. c * 1 + 0 = factor * 0 + c OBVIOUS
  <2> HIDE DEF U, f, g
  <2> QED BY <1>1, <2>1, <2>2, <2>3, <2>4
<1>8. \A m \in 0 .. n - 1 : m \in P => m + 1 \in P
  <2> SUFFICES ASSUME NEW m \in 0 .. n - 1, m \in P
               PROVE  Holds(m + 1)
    OBVIOUS
  <2> DEFINE d == n - 1 - m
             p == Power(base, m)
  <2>1. /\ d \in S /\ n - 1 - (m + 1) = d - 1 /\ U(m) \in SUBSET S
        /\ d \in S \ U(m) /\ U(m + 1) = U(m) \cup {d} /\ d - 1 \in -1 .. n - 1
        /\ d \in -1 .. n - 1 /\ m \in Nat
    OBVIOUS
  <2>2. f[d] = u[d] * p /\ g[d] = v[d] * p
    <3>1. n - 1 - d = m OBVIOUS
    <3> HIDE DEF d
    <3> QED BY <2>1, <3>1 DEF Place
  <2>3. Power(base, m + 1) = base * p /\ p \in Int
    <3>1. base \in Int /\ m \in Nat BY <2>1
    <3>2. Power(base, m + 1) = base * Power(base, m) BY <3>1, PowerLaw
    <3>3. Power(base, m) \in Nat BY <3>1, PowerInt
    <3> QED BY <3>2, <3>3
  <2>4. t[d] * p + SumFunctionOnSet(g, U(m)) = factor * SumFunctionOnSet(f, U(m)) + c
    OBVIOUS
  <2> HIDE DEF U, d, f, g, S, p, Holds, P
  <2>5. SumFunctionOnSet(f, U(m + 1)) = f[d] + SumFunctionOnSet(f, U(m))
    <3>1. /\ \A e \in S : f[e] \in Int
          /\ U(m) \in SUBSET S /\ d \in S \ U(m)
      BY <1>5, <2>1
    <3>2. SumFunctionOnSet(f, U(m) \cup {d}) = f[d] + SumFunctionOnSet(f, U(m))
      BY <1>6, <3>1, SumAdd
    <3>3. U(m + 1) = U(m) \cup {d} BY <2>1
    <3> QED BY <3>2, <3>3, Zenon
  <2>6. SumFunctionOnSet(g, U(m + 1)) = g[d] + SumFunctionOnSet(g, U(m))
    <3>1. /\ \A e \in S : g[e] \in Int
          /\ U(m) \in SUBSET S /\ d \in S \ U(m)
      BY <1>5, <2>1
    <3>2. SumFunctionOnSet(g, U(m) \cup {d}) = g[d] + SumFunctionOnSet(g, U(m))
      BY <1>6, <3>1, SumAdd
    <3>3. U(m + 1) = U(m) \cup {d} BY <2>1
    <3> QED BY <3>2, <3>3, Zenon
  <2>7. SumFunctionOnSet(f, U(m)) \in Int /\ SumFunctionOnSet(g, U(m)) \in Int
    <3>1. /\ \A e \in S : f[e] \in Int
          /\ \A e \in S : g[e] \in Int
          /\ U(m) \in SUBSET S
      BY <1>5, <2>1
    <3>2. SumFunctionOnSet(f, U(m)) \in Int BY <1>6, <3>1, SumPart
    <3>3. SumFunctionOnSet(g, U(m)) \in Int BY <1>6, <3>1, SumPart
    <3> QED BY <3>2, <3>3
  <2>8. t[d] \in Int /\ t[d - 1] \in Int /\ u[d] \in Int /\ v[d] \in Int
    <3>1. t[d] \in Int /\ t[d - 1] \in Int BY <1>1, <2>1
    <3>2. v[d] \in Int BY <1>4, <2>1
    <3>3. u[d] \in Int BY <2>1 DEF S
    <3> QED BY <3>1, <3>2, <3>3
  <2>9. base * t[d - 1] + v[d] = u[d] * factor + t[d] BY <1>3, <2>1
  <2> DEFINE x == t[d - 1]
             y == v[d]
             z == u[d]
             w == t[d]
             F == SumFunctionOnSet(f, U(m))
             H == SumFunctionOnSet(g, U(m))
  <2>10. x * (base * p) + (y * p + H) = factor * (z * p + F) + c
    <3>1. x \in Int /\ y \in Int /\ z \in Int /\ w \in Int /\ F \in Int /\ H \in Int
      BY <2>7, <2>8
    <3>2. base * x + y = z * factor + w BY <2>9
    <3>3. w * p + H = factor * F + c BY <2>4
    <3> HIDE DEF x, y, z, w, F, H
    <3>4. (base * x + y) * p = x * (base * p) + y * p BY <2>3, <3>1
    <3>5. (z * factor + w) * p = factor * (z * p) + w * p BY <2>3, <3>1
    <3>6. factor * (z * p + F) = factor * (z * p) + factor * F BY <2>3, <3>1
    <3> DEFINE a1 == x * (base * p)
               a2 == y * p
               a3 == factor * (z * p)
               a4 == w * p
               a5 == factor * F
    <3>7. a1 \in Int /\ a2 \in Int /\ a3 \in Int /\ a4 \in Int /\ a5 \in Int
      BY <2>3, <3>1
    <3>8. a1 + a2 = a3 + a4 /\ a4 + H = a5 + c BY <3>2, <3>3, <3>4, <3>5
    <3> HIDE DEF a1, a2, a3, a4, a5
    <3>9. a1 + (a2 + H) = (a3 + a5) + c BY <3>1, <3>7, <3>8
    <3> QED BY <3>6, <3>9 DEF a1, a2, a3, a5
  <2> HIDE DEF x, y, z, w, F, H
  <2> QED BY <2>1, <2>2, <2>3, <2>5, <2>6, <2>10 DEF x, y, z, F, H, Holds
<1>9. Holds(n)
  <2> HIDE DEF Holds, P
  <2>1. \A m \in 0 .. n : m \in P BY <1>7, <1>8, UptoInduction
  <2>2. n \in P BY <2>1
  <2> QED BY <2>2 DEF P
<1>10. t[-1] * Power(base, n) + Value(v, n, base) = factor * Value(u, n, base) + c
  <2>1. n - 1 - n = -1 /\ U(n) = S OBVIOUS
  <2>2. Value(v, n, base) = SumFunctionOnSet(g, S) BY ValueIsSum
  <2>3. Value(u, n, base) = SumFunctionOnSet(f, S) BY ValueIsSum
  <2> HIDE DEF f, g, S, U
  <2> QED BY <1>9, <2>1, <2>2, <2>3
<1>11. t[-1] \in Nat BY <1>1
<1> HIDE DEF f, g, U
<1> QED BY <1>2, <1>4, <1>10, <1>11 DEF Exact

\* The carry is dropped only where the number outgrows its digits.
LEMMA NothingLost ==
  ASSUME NEW P \in Nat, NEW x \in Nat, NEW y \in Nat, x * P + y < P
  PROVE  x = 0
<1> SUFFICES ASSUME x >= 1 PROVE FALSE OBVIOUS
<1> DEFINE w == x - 1
<1>1. w \in Nat /\ x = w + 1 OBVIOUS
<1> HIDE DEF w
<1>2. (w + 1) * P = w * P + P BY <1>1
<1>3. w * P \in Nat BY <1>1
<1> QED BY <1>1, <1>2, <1>3

\* Nothing is lost when the result fits.
LEMMA CarriedSmall ==
  ASSUME NEW base \in Nat, base > 0, NEW factor \in Nat, NEW n \in Nat, NEW c \in Nat,
         NEW u \in [0 .. n - 1 -> 0 .. base - 1],
         factor * Value(u, n, base) + c < Power(base, n)
  PROVE  /\ Exact(Carried(u, n, base, factor, c), u, n, base, factor, c)
         /\ Carried(u, n, base, factor, c).lost = 0
<1> DEFINE r == Carried(u, n, base, factor, c)
           V == Value(r.digits, n, base)
           P == Power(base, n)
           W == factor * Value(u, n, base) + c
<1>1. \A d \in 0 .. n - 1 : u[d] \in 0 .. base - 1 OBVIOUS
<1>2. /\ r.digits \in [0 .. n - 1 -> 0 .. base - 1]
      /\ r.lost \in Nat
      /\ r.lost * P + V = W
  <2>1. Exact(Carried(u, n, base, factor, c), u, n, base, factor, c)
    BY <1>1, CarriedExact
  <2> QED BY <2>1 DEF Exact
<1>3. P \in Nat BY PowerInt
<1>4. V \in Nat
  <2>1. \A d \in 0 .. n - 1 : r.digits[d] \in 0 .. base - 1 BY <1>2
  <2>2. n \in 0 .. n OBVIOUS
  <2> HIDE DEF r
  <2> QED BY <2>1, <2>2, ValueBound
<1>5. W < P OBVIOUS
<1> HIDE DEF r, V, P, W
<1>6. r.lost * P + V < P BY <1>2, <1>5
<1>7. r.lost = 0 BY <1>2, <1>3, <1>4, <1>6, NothingLost
<1> QED BY <1>1, <1>7, CarriedExact DEF r

\* Without a loss the digits stand for exactly the new number.
LEMMA SmallExact ==
  ASSUME NEW base \in Nat, base > 0, NEW factor \in Nat, NEW n \in Nat, NEW c, NEW u, NEW r,
         Exact(r, u, n, base, factor, c), r.lost = 0
  PROVE  Value(r.digits, n, base) = factor * Value(u, n, base) + c
<1> DEFINE V == Value(r.digits, n, base)
<1>1. V \in Int
  <2>1. \A d \in 0 .. n - 1 : r.digits[d] \in Int BY DEF Exact
  <2> QED BY <2>1, ValueInt
<1>2. Power(base, n) \in Nat BY PowerInt
<1> HIDE DEF V
<1>3. 0 * Power(base, n) + V = V BY <1>1, <1>2
<1> QED BY <1>3 DEF Exact, V

\* Zeros stand for zero.
LEMMA ValueZeros ==
  ASSUME NEW n \in Nat, NEW b \in Nat, b > 0
  PROVE  Value(Zeros(n), n, b) = 0
<1> DEFINE f == Place(Zeros(n), n, b)
           S == 0 .. n - 1
<1>1. \A d \in S : f[d] = 0
  <2> SUFFICES ASSUME NEW d \in S PROVE f[d] = 0 OBVIOUS
  <2>1. Zeros(n)[d] = 0 BY DEF Zeros
  <2>2. n - 1 - d \in Nat OBVIOUS
  <2>3. Power(b, n - 1 - d) \in Nat BY <2>2, PowerInt
  <2>4. \A x \in Nat : 0 * x = 0 OBVIOUS
  <2> QED BY <2>1, <2>3, <2>4 DEF Place
<1>2. IsFiniteSet(S) BY UptoFinite
<1>3. Value(Zeros(n), n, b) = SumFunctionOnSet(f, S) BY ValueIsSum
<1> HIDE DEF f, S
<1> QED BY <1>1, <1>2, <1>3, SumZeros

-----------------------------------------------------------------------------
(* The invariant, loop by loop *)

\* C1cp_to_sk and mx_to_sm: the entries so far are in the bytes.
PackInv ==
  /\ pos \in 0 .. Size - 1 /\ bytes \in Bytes /\ back = Zeros(Size) /\ over = 0
  /\ Value(bytes, size_char, Base) = Value(vector, pos, Q)

\* sk_to_C1cp and sm_to_mx: the bytes so far are in the entries, and all bytes
\* together are the vector.
UnpackInv ==
  /\ pos \in 0 .. size_char - 1 /\ bytes \in Bytes /\ back \in Digits /\ over = 0
  /\ Value(bytes, size_char, Base) = Value(vector, Size, Q)
  /\ Value(back, Size, Q) = Value(bytes, pos, Base)

\* hash_of_message: the bytes so far, from the last, up to multiples of Q^Size.
Reversed == [d \in 0 .. size_char - 1 |-> bytes[size_char - 1 - d]]
HashInv ==
  /\ pos \in 0 .. size_char - 1 /\ bytes \in Bytes /\ back \in Digits
  /\ Congruent(Power(Q, Size), Value(back, Size, Q), Value(Reversed, pos, Base))

\* A pass of C1cp_to_sk keeps what it has read and what its bytes stand for.
LEMMA PackStep ==
  ASSUME vector \in Digits, PackInv, Pack
  PROVE  IF pos + 1 < Size THEN phase' = "pack" /\ PackInv'
         ELSE phase' = "unpack" /\ UnpackInv'
<1> DEFINE p == Carried(bytes, size_char, Base, Q, vector[pos])
           W == Q * Value(bytes, size_char, Base) + vector[pos]
<1>1. /\ Q \in Nat /\ Q > 0 /\ Base \in Nat /\ Base > 0 /\ Size \in Nat
      /\ size_char \in Nat /\ size_char > 0 /\ Power(Q, Size) <= Power(Base, size_char)
  BY Parameters, SizeChar
<1>2. \A d \in 0 .. Size - 1 : vector[d] \in 0 .. Q - 1 BY DEF Digits
<1>3. pos \in 0 .. Size - 1 /\ pos \in Nat /\ pos + 1 \in 0 .. Size /\ pos + 1 \in Nat
  BY <1>1 DEF PackInv
<1>4. W = Value(vector, pos + 1, Q)
  <2>1. \A d \in 0 .. pos : vector[d] \in Int BY <1>1, <1>2, <1>3
  <2>2. Value(vector, pos + 1, Q) = Q * Value(vector, pos, Q) + vector[pos]
    BY <1>1, <1>3, <2>1, ValueNext
  <2> QED BY <2>2 DEF PackInv
<1>5. W < Power(Base, size_char)
  <2>1. /\ Value(vector, pos + 1, Q) \in Nat
        /\ Value(vector, pos + 1, Q) < Power(Q, pos + 1)
    BY <1>1, <1>2, <1>3, ValueBound
  <2>2. Power(Q, pos + 1) <= Power(Q, Size) BY <1>1, <1>3, PowerGrows
  <2>3. Power(Q, pos + 1) \in Nat /\ Power(Q, Size) \in Nat BY <1>1, <1>3, PowerInt
  <2>4. Power(Base, size_char) \in Nat BY <1>1, PowerInt
  <2> HIDE DEF W
  <2> QED BY <1>1, <1>4, <2>1, <2>2, <2>3, <2>4
<1>6. vector[pos] \in Nat BY <1>1, <1>2, <1>3
<1>7. bytes \in [0 .. size_char - 1 -> 0 .. Base - 1] BY DEF PackInv, Bytes
<1>8. /\ p.digits \in [0 .. size_char - 1 -> 0 .. Base - 1]
      /\ p.lost = 0
      /\ Value(p.digits, size_char, Base) = W
  <2>1. /\ Exact(p, bytes, size_char, Base, Q, vector[pos])
        /\ p.lost = 0
    BY <1>1, <1>5, <1>6, <1>7, CarriedSmall
  <2>2. Value(p.digits, size_char, Base) = W
    BY <1>1, <2>1, SmallExact
  <2>3. p.digits \in [0 .. size_char - 1 -> 0 .. Base - 1] BY <2>1 DEF Exact
  <2> QED BY <2>1, <2>2, <2>3
<1>9. /\ bytes' = p.digits /\ over' = p.lost /\ vector' = vector /\ back' = back
      /\ \/ pos + 1 < Size /\ pos' = pos + 1 /\ phase' = "pack"
         \/ pos + 1 = Size /\ pos' = 0 /\ phase' = "unpack"
  BY DEF Pack
<1> HIDE DEF p, W
<1>10. bytes' \in Bytes /\ over' = 0 /\ Value(bytes', size_char, Base) = W
  BY <1>8, <1>9 DEF Bytes
<1>11. CASE pos + 1 < Size
  <2>1. pos' = pos + 1 /\ phase' = "pack" BY <1>1, <1>3, <1>9, <1>11
  <2>2. pos' \in 0 .. Size - 1 BY <1>1, <1>3, <1>11, <2>1
  <2>3. Value(bytes', size_char, Base) = Value(vector', pos', Q)
    BY <1>4, <1>9, <1>10, <2>1
  <2>4. back' = Zeros(Size) BY <1>9 DEF PackInv
  <2> QED BY <1>10, <1>11, <2>1, <2>2, <2>3, <2>4 DEF PackInv
<1>12. CASE ~ (pos + 1 < Size)
  <2>1. pos + 1 = Size /\ pos' = 0 /\ phase' = "unpack" BY <1>1, <1>3, <1>9, <1>12
  <2>2. pos' \in 0 .. size_char - 1 BY <1>1, <2>1
  <2>3. Value(bytes', size_char, Base) = Value(vector', Size, Q)
    BY <1>4, <1>9, <1>10, <2>1
  <2>4. back' = Zeros(Size) BY <1>9 DEF PackInv
  <2>5. back' \in Digits BY <1>1, <2>4 DEF Digits, Zeros
  <2>6. Value(back', Size, Q) = 0 BY <1>1, <2>4, ValueZeros
  <2>7. Value(bytes', pos', Base) = 0 BY <2>1, ValueNone
  <2> QED BY <1>10, <1>12, <2>1, <2>2, <2>3, <2>5, <2>6, <2>7 DEF UnpackInv
<1> QED BY <1>11, <1>12

\* A pass of sk_to_C1cp; after the last one the digits are those that were
\* packed.
LEMMA UnpackStep ==
  ASSUME vector \in Digits, UnpackInv, Unpack
  PROVE  /\ vector' = vector
         /\ IF pos + 1 < size_char THEN phase' = "unpack" /\ UnpackInv'
            ELSE phase' = "unpacked" /\ back' = vector /\ over' = 0
<1> DEFINE p == Carried(back, Size, Q, Base, bytes[pos])
           W == Base * Value(back, Size, Q) + bytes[pos]
<1>1. /\ Q \in Nat /\ Q > 0 /\ Base \in Nat /\ Base > 0 /\ Size \in Nat
      /\ size_char \in Nat /\ size_char > 0
  BY Parameters, SizeChar
<1>2. \A d \in 0 .. Size - 1 : vector[d] \in 0 .. Q - 1 BY DEF Digits
<1>3. /\ pos \in 0 .. size_char - 1 /\ pos \in Nat /\ pos + 1 \in 0 .. size_char
      /\ pos + 1 \in Nat
  BY <1>1 DEF UnpackInv
<1>4. \A d \in 0 .. size_char - 1 : bytes[d] \in 0 .. Base - 1 BY DEF UnpackInv, Bytes
<1>5. W = Value(bytes, pos + 1, Base)
  <2>1. \A d \in 0 .. pos : bytes[d] \in Int BY <1>1, <1>3, <1>4
  <2>2. Value(bytes, pos + 1, Base) = Base * Value(bytes, pos, Base) + bytes[pos]
    BY <1>1, <1>3, <2>1, ValueNext
  <2> QED BY <2>2 DEF UnpackInv
<1>6. W < Power(Q, Size)
  <2>1. Size \in 0 .. Size BY <1>1
  <2>2. Value(vector, Size, Q) \in Nat /\ Value(vector, Size, Q) < Power(Q, Size)
    BY <1>1, <1>2, <2>1, ValueBound
  <2>3. Value(bytes, pos + 1, Base) <= Value(bytes, size_char, Base)
    BY <1>1, <1>3, <1>4, ValuePrefix
  <2>4. Value(bytes, pos + 1, Base) \in Nat BY <1>1, <1>3, <1>4, ValueBound
  <2>5. Value(bytes, size_char, Base) = Value(vector, Size, Q) BY DEF UnpackInv
  <2>6. Power(Q, Size) \in Nat BY <1>1, PowerInt
  <2> HIDE DEF W
  <2> QED BY <1>5, <2>2, <2>3, <2>4, <2>5, <2>6
<1>7. bytes[pos] \in Nat BY <1>1, <1>3, <1>4
<1>8. back \in [0 .. Size - 1 -> 0 .. Q - 1] BY DEF UnpackInv, Digits
<1>9. /\ p.digits \in [0 .. Size - 1 -> 0 .. Q - 1]
      /\ p.lost = 0
      /\ Value(p.digits, Size, Q) = W
  <2>1. /\ Exact(p, back, Size, Q, Base, bytes[pos])
        /\ p.lost = 0
    BY <1>1, <1>6, <1>7, <1>8, CarriedSmall
  <2>2. Value(p.digits, Size, Q) = W BY <1>1, <2>1, SmallExact
  <2>3. p.digits \in [0 .. Size - 1 -> 0 .. Q - 1] BY <2>1 DEF Exact
  <2> QED BY <2>1, <2>2, <2>3
<1>10. /\ back' = p.digits /\ over' = p.lost /\ vector' = vector /\ bytes' = bytes
       /\ \/ pos + 1 < size_char /\ pos' = pos + 1 /\ phase' = "unpack"
          \/ pos + 1 = size_char /\ pos' = 0 /\ phase' = "unpacked"
  BY DEF Unpack
<1> HIDE DEF p, W
<1>11. back' \in Digits /\ over' = 0 /\ Value(back', Size, Q) = W
  BY <1>9, <1>10 DEF Digits
<1>12. CASE pos + 1 < size_char
  <2>1. pos' = pos + 1 /\ phase' = "unpack" BY <1>1, <1>3, <1>10, <1>12
  <2>2. pos' \in 0 .. size_char - 1 BY <1>1, <1>3, <1>12, <2>1
  <2>3. Value(back', Size, Q) = Value(bytes', pos', Base) BY <1>5, <1>10, <1>11, <2>1
  <2>4. Value(bytes', size_char, Base) = Value(vector', Size, Q) BY <1>10 DEF UnpackInv
  <2>5. bytes' \in Bytes BY <1>10 DEF UnpackInv
  <2> QED BY <1>10, <1>11, <1>12, <2>1, <2>2, <2>3, <2>4, <2>5 DEF UnpackInv
<1>13. CASE ~ (pos + 1 < size_char)
  <2>1. pos + 1 = size_char /\ phase' = "unpacked" BY <1>1, <1>3, <1>10, <1>13
  <2>2. Value(back', Size, Q) = Value(vector, Size, Q) BY <1>5, <1>11, <2>1 DEF UnpackInv
  <2>3. \A d \in 0 .. Size - 1 : back'[d] \in 0 .. Q - 1 /\ vector[d] \in 0 .. Q - 1
    BY <1>2, <1>11 DEF Digits
  <2>4. \A d \in 0 .. Size - 1 : back'[d] = vector[d]
    BY <1>1, <2>2, <2>3, ValueUnique
  <2>5. back' \in [0 .. Size - 1 -> 0 .. Q - 1] BY <1>11 DEF Digits
  <2>6. vector \in [0 .. Size - 1 -> 0 .. Q - 1] BY DEF Digits
  <2>7. back' = vector
    <3> DEFINE A == 0 .. Size - 1
               B == 0 .. Q - 1
               g == back'
    <3>1. g \in [A -> B] BY <2>5
    <3>2. vector \in [A -> B] BY <2>6
    <3>3. \A d \in A : g[d] = vector[d] BY <2>4
    <3> HIDE DEF A, B, g
    <3>4. g = vector BY <3>1, <3>2, <3>3, SameFunction
    <3> QED BY <3>4 DEF g
  <2> QED BY <1>10, <1>11, <1>13, <2>1, <2>7
<1> QED BY <1>10, <1>12, <1>13

\* A pass of hash_of_message; after the last one only multiples of Q^Size are
\* missing.
LEMMA HashStep ==
  ASSUME HashInv, HashByte
  PROVE  /\ vector' = vector
         /\ IF pos + 1 < size_char THEN phase' = "hash" /\ HashInv'
            ELSE phase' = "hashed" /\ back' \in Digits /\ bytes' \in Bytes
                 /\ Congruent(Power(Q, Size), Value(back', Size, Q),
                              Value(Reversed', size_char, Base))
<1> DEFINE c == bytes[size_char - 1 - pos]
           p == Carried(back, Size, Q, Base, c)
           q == Power(Q, Size)
           V == Value(p.digits, Size, Q)
           W == Base * Value(back, Size, Q) + c
           H == Base * Value(Reversed, pos, Base) + c
<1>1. /\ Q \in Nat /\ Q > 0 /\ Base \in Nat /\ Base > 0 /\ Size \in Nat
      /\ size_char \in Nat /\ size_char > 0
  BY Parameters, SizeChar
<1>2. /\ pos \in 0 .. size_char - 1 /\ pos \in Nat /\ pos + 1 \in 0 .. size_char
      /\ pos + 1 \in Nat
  BY <1>1 DEF HashInv
<1>3. \A d \in 0 .. size_char - 1 : bytes[d] \in 0 .. Base - 1 BY DEF HashInv, Bytes
<1>4. \A d \in 0 .. size_char - 1 : Reversed[d] \in 0 .. Base - 1
  BY <1>1, <1>3 DEF Reversed
<1>5. Reversed[pos] = c /\ c \in Nat BY <1>1, <1>2, <1>3 DEF Reversed
<1>6. H = Value(Reversed, pos + 1, Base)
  <2>1. \A d \in 0 .. pos : Reversed[d] \in Int BY <1>1, <1>2, <1>4
  <2>2. Value(Reversed, pos + 1, Base) = Base * Value(Reversed, pos, Base) + Reversed[pos]
    BY <1>1, <1>2, <2>1, ValueNext
  <2> QED BY <1>5, <2>2
<1>7. \A d \in 0 .. Size - 1 : back[d] \in 0 .. Q - 1 BY DEF HashInv, Digits
<1>8. Exact(p, back, Size, Q, Base, c) BY <1>1, <1>5, <1>7, CarriedExact
<1>9. q \in Nat /\ q > 0 BY <1>1, PowerInt
<1>10. V \in Int
  <2>1. \A d \in 0 .. Size - 1 : p.digits[d] \in Int BY <1>1, <1>8 DEF Exact
  <2> HIDE DEF p
  <2> QED BY <1>1, <2>1, ValueInt
<1>11. Congruent(q, V, W)
  <2>1. p.lost * q + V = W /\ p.lost \in Nat BY <1>8 DEF Exact
  <2> HIDE DEF p, q, V, W
  <2> DEFINE l == p.lost
  <2>2. V + q * l = W
    <3>1. l * q + V = W /\ l \in Nat BY <2>1
    <3> HIDE DEF l
    <3> QED BY <1>9, <1>10, <3>1
  <2>3. l \in Int BY <2>1
  <2> HIDE DEF l
  <2>4. (V + q * l) % q = V % q BY <1>9, <1>10, <2>3, ModShift
  <2> QED BY <2>2, <2>4 DEF Congruent
<1>12. Value(back, Size, Q) \in Int
  <2>1. \A d \in 0 .. Size - 1 : back[d] \in Int BY <1>1, <1>7
  <2> QED BY <1>1, <2>1, ValueInt
<1>13. Value(Reversed, pos, Base) \in Int
  <2>1. \A d \in 0 .. pos - 1 : Reversed[d] \in Int BY <1>1, <1>2, <1>4
  <2> QED BY <1>1, <1>2, <2>1, ValueInt
<1>14. Congruent(q, W, H)
  <2> DEFINE A == Value(back, Size, Q)
             B == Value(Reversed, pos, Base)
  <2>1. Congruent(q, A, B) BY DEF HashInv
  <2>2. A \in Int /\ B \in Int /\ Base \in Int /\ c \in Int BY <1>1, <1>5, <1>12, <1>13
  <2> HIDE DEF A, B, c, q
  <2>3. Congruent(q, Base, Base) /\ Congruent(q, c, c) BY CongruentSame
  <2>4. Congruent(q, Base * A, Base * B) BY <1>9, <2>1, <2>2, <2>3, CongruentTimes
  <2>5. Base * A \in Int /\ Base * B \in Int BY <2>2
  <2> DEFINE BA == Base * A
             BB == Base * B
  <2> HIDE DEF BA, BB
  <2>6. Congruent(q, BA + c, BB + c) BY <1>9, <2>2, <2>3, <2>4, <2>5, CongruentPlus DEF BA, BB
  <2> QED BY <2>6 DEF A, B, BA, BB
<1> HIDE DEF W, H, V
<1>15. Congruent(q, V, H) BY <1>11, <1>14, CongruentChain
<1>16. /\ back' = p.digits /\ vector' = vector /\ bytes' = bytes
       /\ \/ pos + 1 < size_char /\ pos' = pos + 1 /\ phase' = "hash"
          \/ pos + 1 = size_char /\ pos' = 0 /\ phase' = "hashed"
  BY DEF HashByte
<1>17. back' \in Digits /\ bytes' \in Bytes /\ Reversed' = Reversed
  BY <1>8, <1>16 DEF Exact, Digits, HashInv, Reversed
<1> HIDE DEF p, q, c
<1>18. Congruent(q, Value(back', Size, Q), Value(Reversed', pos + 1, Base))
  BY <1>6, <1>15, <1>16, <1>17 DEF V
<1>19. CASE pos + 1 < size_char
  <2>1. pos' = pos + 1 /\ phase' = "hash" BY <1>1, <1>2, <1>16, <1>19
  <2>2. pos' \in 0 .. size_char - 1 BY <1>1, <1>2, <1>19, <2>1
  <2>3. HashInv' BY <1>17, <1>18, <2>1, <2>2 DEF HashInv, q
  <2> QED BY <1>16, <1>19, <2>1, <2>3
<1>20. CASE ~ (pos + 1 < size_char)
  <2>1. pos + 1 = size_char /\ phase' = "hashed" BY <1>1, <1>2, <1>16, <1>20
  <2>2. Congruent(q, Value(back', Size, Q), Value(Reversed', size_char, Base))
    BY <1>18, <2>1
  <2> QED BY <1>16, <1>17, <1>20, <2>1, <2>2 DEF q
<1> QED BY <1>19, <1>20

\* What hash_of_message has then computed.
LEMMA HashEnd ==
  ASSUME back \in Digits, bytes \in Bytes,
         Congruent(Power(Q, Size), Value(back, Size, Q), Value(Reversed, size_char, Base))
  PROVE  Value(back, Size, Q) =
           SumFunction([d \in 0 .. size_char - 1 |-> bytes[d] * Power(Base, d)])
             % Power(Q, Size)
<1> DEFINE f == [d \in 0 .. size_char - 1 |-> bytes[d] * Power(Base, d)]
           n == size_char
           S == 0 .. n - 1
           b == [d \in S |-> n - 1 - d]
           g == [d \in S |-> f[b[d]]]
           q == Power(Q, Size)
<1>1. /\ Q \in Nat /\ Q > 0 /\ Base \in Nat /\ Base > 0 /\ Size \in Nat
      /\ n \in Nat /\ n > 0
  BY Parameters, SizeChar
<1>2. \A d \in S : bytes[d] \in 0 .. Base - 1 BY DEF Bytes
<1>3. IsFiniteSet(S) BY <1>1, UptoFinite
<1>4. \A d \in S : f[d] \in Int
  <2> SUFFICES ASSUME NEW d \in S PROVE f[d] \in Int OBVIOUS
  <2>1. bytes[d] \in Int /\ d \in Nat BY <1>1, <1>2
  <2>2. Power(Base, d) \in Int BY <1>1, <2>1, PowerInt
  <2> QED BY <2>1, <2>2
<1>5. \A d \in S : b[d] \in S BY <1>1
<1>6. \A d \in S : g[d] = f[n - 1 - d] OBVIOUS
<1>7. \A d \in S : Place(Reversed, n, Base)[d] \in Int /\ g[d] = Place(Reversed, n, Base)[d]
  <2> SUFFICES ASSUME NEW d \in S
               PROVE  /\ Place(Reversed, n, Base)[d] \in Int
                      /\ g[d] = Place(Reversed, n, Base)[d]
    OBVIOUS
  <2>1. b[d] = n - 1 - d /\ n - 1 - d \in S BY <1>1
  <2>2. g[d] = bytes[n - 1 - d] * Power(Base, n - 1 - d) BY <2>1
  <2>3. Reversed[d] = bytes[n - 1 - d] BY DEF Reversed
  <2>4. Place(Reversed, n, Base)[d] = Reversed[d] * Power(Base, n - 1 - d) BY DEF Place
  <2>5. f[b[d]] \in Int BY <1>4, <2>1
  <2>6. g[d] = f[b[d]] OBVIOUS
  <2> HIDE DEF f, g, b
  <2> QED BY <2>2, <2>3, <2>4, <2>5, <2>6
<1>8. SumFunctionOnSet(Place(Reversed, n, Base), S) = SumFunctionOnSet(g, S)
  <2> HIDE DEF g, S, n
  <2> QED BY <1>3, <1>7, SumEqual
<1>9. SumFunctionOnSet(g, S) = SumFunctionOnSet(f, S)
  <2> HIDE DEF f, g, n
  <2> QED BY <1>1, <1>4, <1>6, SumBackwards
<1>10. SumFunction(f) = SumFunctionOnSet(f, S)
  <2>1. DOMAIN f = S OBVIOUS
  <2> HIDE DEF f, S
  <2> QED BY <2>1, SumIs
<1>11. Value(Reversed, n, Base) = SumFunction(f)
  <2>1. Value(Reversed, n, Base) = SumFunctionOnSet(Place(Reversed, n, Base), S)
    BY ValueIsSum
  <2> HIDE DEF f, g, S, n
  <2> QED BY <1>8, <1>9, <1>10, <2>1
<1>12. q \in Nat /\ q > 0 BY <1>1, PowerInt
<1>13. Value(back, Size, Q) \in Nat /\ Value(back, Size, Q) < q
  <2>1. \A d \in 0 .. Size - 1 : back[d] \in 0 .. Q - 1 BY DEF Digits
  <2>2. Size \in 0 .. Size BY <1>1
  <2> QED BY <1>1, <2>1, <2>2, ValueBound
<1>14. Value(back, Size, Q) % q = Value(Reversed, n, Base) % q BY DEF Congruent
<1> HIDE DEF q, f
<1>15. Value(back, Size, Q) % q = Value(back, Size, Q) BY <1>12, <1>13, ModSmall
<1> QED BY <1>11, <1>14, <1>15 DEF q, f

-----------------------------------------------------------------------------
(* The bits of a public key *)

\* Halving once more.
LEMMA DivTwice ==
  ASSUME NEW w \in Nat, NEW p \in Nat, p > 0
  PROVE  w \div (2 * p) = (w \div p) \div 2
<1> DEFINE a == w \div p
           r == w % p
           b == a \div 2
           s == a % 2
<1>1. a \in Int /\ r \in 0 .. p - 1 /\ w = p * a + r BY ModType, DivType, DivMod
<1>2. b \in Int /\ s \in 0 .. 1 /\ a = 2 * b + s BY <1>1, ModType, DivType, DivMod
<1> HIDE DEF a, r, b, s
<1>3. p * (2 * b + s) = (2 * p) * b + p * s BY <1>2
<1>4. p * s \in 0 .. p
  <2>1. s = 0 \/ s = 1 BY <1>2
  <2> QED BY <2>1
<1>5. p * s + r < 2 * p /\ 0 <= p * s + r /\ p * s + r \in Int
  <2>1. s = 0 \/ s = 1 BY <1>2
  <2>2. p * 0 = 0 /\ p * 1 = p OBVIOUS
  <2> QED BY <1>1, <2>1, <2>2
<1> DEFINE e == p * s + r
           m == 2 * p
<1>6. w = m * b + e
  <2>1. w = ((2 * p) * b + p * s) + r BY <1>1, <1>2, <1>3
  <2>2. (2 * p) * b \in Int /\ p * s \in Int BY <1>2, <1>4
  <2> QED BY <1>1, <2>1, <2>2
<1>7. m \in Nat /\ m > 0 /\ 0 <= e /\ e < m /\ e \in Int BY <1>5
<1> HIDE DEF e, m
<1>8. (m * b + e) \div m = b BY <1>2, <1>7, ModUnique
<1> QED BY <1>6, <1>8 DEF m, b, a

\* The first j bits of an entry, read as a number, are its top.
LEMMA EntryTop ==
  ASSUME NEW v \in Nat, v < Power(2, num_bits),
         NEW u, \A l \in 0 .. num_bits - 1 : u[l] = decimal_to_binary(v, l)
  PROVE  Value(u, num_bits, 2) = v
<1> DEFINE m == num_bits
           Holds(j) == Value(u, j, 2) = v \div Power(2, m - j)
           P == {j \in Nat : Holds(j)}
<1>1. m \in Nat /\ m > 0 BY NumBits, Parameters
<1>2. 0 \in P
  <2>1. Power(2, m) \in Nat /\ Power(2, m) > 0 BY <1>1, PowerInt
  <2> DEFINE p == Power(2, m)
  <2>2. p * 0 + v = v BY <2>1
  <2> HIDE DEF p
  <2>3. (p * 0 + v) \div p = 0 BY <2>1, ModUnique DEF p
  <2>4. v \div p = 0 BY <2>2, <2>3
  <2>5. m - 0 = m BY <1>1
  <2>6. Value(u, 0, 2) = 0 BY ValueNone
  <2> QED BY <2>4, <2>5, <2>6 DEF p
<1>3. \A j \in 0 .. m - 1 : j \in P => j + 1 \in P
  <2> SUFFICES ASSUME NEW j \in 0 .. m - 1, j \in P PROVE Holds(j + 1)
    BY <1>1
  <2> DEFINE p == Power(2, m - 1 - j)
             w == v \div p
  <2>1. m - 1 - j \in Nat /\ m - (j + 1) = m - 1 - j /\ (m - 1 - j) + 1 = m - j /\ j \in Nat
    BY <1>1
  <2>2. p \in Nat /\ p > 0 BY <2>1, PowerInt
  <2>3. Power(2, m - j) = 2 * p
    <3>1. Power(2, (m - 1 - j) + 1) = 2 * p BY <2>1, PowerLaw
    <3> QED BY <2>1, <3>1
  <2>4. v \div Power(2, m - j) = w \div 2
    <3> HIDE DEF p
    <3>1. v \div (2 * p) = (v \div p) \div 2 BY <2>2, DivTwice
    <3> QED BY <2>3, <3>1
  <2>5. Value(u, j + 1, 2) = 2 * Value(u, j, 2) + u[j]
    <3>1. \A l \in 0 .. j : u[l] \in Int
      <4> SUFFICES ASSUME NEW l \in 0 .. j PROVE u[l] \in Int OBVIOUS
      <4>1. l \in 0 .. m - 1 /\ m - 1 - l \in Nat BY <1>1
      <4>2. Power(2, m - 1 - l) \in Nat /\ Power(2, m - 1 - l) > 0 BY <4>1, PowerInt
      <4>3. v \div Power(2, m - 1 - l) \in Int BY <4>2
      <4>4. u[l] = (v \div Power(2, m - 1 - l)) % 2 BY <4>1 DEF decimal_to_binary
      <4> QED BY <4>3, <4>4
    <3> QED BY <2>1, <3>1, ValueNext
  <2>6. u[j] = w % 2 BY DEF decimal_to_binary
  <2>7. w \in Int BY <2>2
  <2>8. w = 2 * (w \div 2) + (w % 2)
    <3> HIDE DEF w
    <3> QED BY <2>7, DivMod
  <2>9. Value(u, j, 2) = v \div Power(2, m - j) OBVIOUS
  <2>10. Value(u, j + 1, 2) = w BY <2>4, <2>5, <2>6, <2>8, <2>9
  <2> QED BY <2>1, <2>10
<1>4. \A j \in 0 .. m : j \in P
  <2> HIDE DEF P, m
  <2> QED BY <1>1, <1>2, <1>3, UptoInduction
<1>5. Holds(m) BY <1>1, <1>4
<1>6. v \div Power(2, m - m) = v
  <2>1. m - m = 0 BY <1>1
  <2>2. Power(2, 0) = 1 BY PowerLaw
  <2>3. v \div 1 = v OBVIOUS
  <2> QED BY <2>1, <2>2, <2>3
<1> QED BY <1>5, <1>6

\* An entry is the number its bits stand for.
LEMMA EntryValue ==
  ASSUME NEW e, NEW u, \A l \in 0 .. num_bits - 1 : u[l] = ByteBit(num_bits * e + l)
  PROVE  Entry(e) = Value(u, num_bits, 2)
<1>1. [l \in 0 .. num_bits - 1 |->
         ByteBit(num_bits * e + l) * Power(2, num_bits - 1 - l)]
        = [l \in 0 .. num_bits - 1 |-> u[l] * Power(2, num_bits - 1 - l)]
  OBVIOUS
<1> QED BY <1>1, Zenon DEF Entry, Value

\* The bits of the stream.
LEMMA StreamPlace ==
  ASSUME NEW e \in 0 .. Size - 1, NEW l \in 0 .. num_bits - 1
  PROVE  /\ num_bits * e + l \in 0 .. Size * num_bits - 1
         /\ StreamBit(num_bits * e + l) = decimal_to_binary(vector[e], l)
<1> DEFINE m == num_bits
<1>1. m \in Nat /\ m > 0 /\ Size \in Nat BY NumBits, Parameters
<1>2. e \in Int /\ l \in Int /\ 0 <= l /\ l < m BY <1>1
<1>3. (m * e + l) % m = l /\ (m * e + l) \div m = e
  <2> HIDE DEF m
  <2> QED BY <1>1, <1>2, ModUnique
<1>4. m * e + l \in 0 .. Size * m - 1
  <2> DEFINE d == Size - 1 - e
  <2>1. d \in Nat /\ Size = d + e + 1 BY <1>1
  <2> HIDE DEF d, m
  <2>2. (d + e + 1) * m = d * m + m * e + m BY <1>1, <1>2, <2>1
  <2>3. d * m \in Nat /\ m * e \in Nat BY <1>1, <2>1
  <2> QED BY <1>1, <1>2, <2>1, <2>2, <2>3
<1> QED BY <1>3, <1>4 DEF StreamBit

\* The stream of bits that A_to_pk writes has bits.
LEMMA StreamBits ==
  ASSUME vector \in Digits, NEW n \in 0 .. Size * num_bits - 1
  PROVE  StreamBit(n) \in 0 .. 1
<1> DEFINE m == num_bits
           e == n \div m
           l == n % m
<1>1. m \in Nat /\ m > 0 /\ Size \in Nat /\ Q \in Nat BY NumBits, Parameters
<1>2. Size * m \in Nat BY <1>1
<1>3. n \in Int /\ 0 <= n /\ n < Size * m BY <1>2
<1>4. e \in Int /\ l \in 0 .. m - 1 /\ n = m * e + l
  <2> HIDE DEF m
  <2> QED BY <1>1, <1>3, ModType, DivType, DivMod
<1> HIDE DEF e, l, m
<1>5. e >= 0
  <2>0. e \in Int BY <1>4
  <2> SUFFICES ASSUME e < 0 PROVE FALSE BY <2>0
  <2> DEFINE d == -1 - e
  <2>1. d \in Nat /\ e = -1 - d BY <2>0
  <2> HIDE DEF d
  <2>2. m * (-1 - d) = - m - m * d BY <1>1, <2>1
  <2>3. m * d \in Nat BY <1>1, <2>1
  <2> QED BY <1>1, <1>3, <1>4, <2>1, <2>2, <2>3
<1>6. e <= Size - 1
  <2>0. e \in Int BY <1>4
  <2> SUFFICES ASSUME e > Size - 1 PROVE FALSE BY <1>1, <2>0
  <2> DEFINE d == e - Size
  <2>1. d \in Nat /\ e = d + Size BY <1>1, <2>0
  <2> HIDE DEF d
  <2>2. m * (d + Size) = m * d + Size * m BY <1>1, <2>1
  <2>3. m * d \in Nat BY <1>1, <2>1
  <2> QED BY <1>1, <1>2, <1>3, <1>4, <2>1, <2>2, <2>3
<1>7. vector[e] \in Nat BY <1>1, <1>4, <1>5, <1>6 DEF Digits
<1>8. num_bits - 1 - l \in Nat BY <1>1, <1>4 DEF m
<1>9. Power(2, num_bits - 1 - l) \in Nat /\ Power(2, num_bits - 1 - l) > 0
  <2> DEFINE d == num_bits - 1 - l
  <2>1. d \in Nat BY <1>8
  <2> HIDE DEF d
  <2>2. \A b \in Nat : b > 0 => Power(b, d) \in Nat /\ Power(b, d) > 0
    BY <2>1, PowerInt
  <2>3. Power(2, d) \in Nat /\ Power(2, d) > 0 BY <2>2
  <2> QED BY <2>3 DEF d
<1> DEFINE w == vector[e] \div Power(2, num_bits - 1 - l)
<1>10. w \in Int BY <1>7, <1>9, DivType
<1>11. StreamBit(n) = w % 2 BY DEF StreamBit, decimal_to_binary, e, l, m
<1> HIDE DEF w
<1>12. w % 2 \in 0 .. 1 BY <1>10
<1> QED BY <1>11, <1>12

\* Eight bits make a byte, and are the bits of it.
LEMMA EightPowers ==
  /\ Power(2, 0) = 1 /\ Power(2, 1) = 2 /\ Power(2, 2) = 4 /\ Power(2, 3) = 8
  /\ Power(2, 4) = 16 /\ Power(2, 5) = 32 /\ Power(2, 6) = 64 /\ Power(2, 7) = 128
<1>0. 2 \in Int OBVIOUS
<1>1. Power(2, 0) = 1 /\ \A n \in Nat : Power(2, n + 1) = 2 * Power(2, n)
  BY <1>0, PowerLaw
<1>2. Power(2, 0 + 1) = 2 /\ 0 + 1 = 1 BY <1>1
<1>3. Power(2, 1 + 1) = 4 /\ 1 + 1 = 2 BY <1>1, <1>2
<1>4. Power(2, 2 + 1) = 8 /\ 2 + 1 = 3 BY <1>1, <1>3
<1>5. Power(2, 3 + 1) = 16 /\ 3 + 1 = 4 BY <1>1, <1>4
<1>6. Power(2, 4 + 1) = 32 /\ 4 + 1 = 5 BY <1>1, <1>5
<1>7. Power(2, 5 + 1) = 64 /\ 5 + 1 = 6 BY <1>1, <1>6
<1>8. Power(2, 6 + 1) = 128 /\ 6 + 1 = 7 BY <1>1, <1>7
<1> QED BY <1>1, <1>2, <1>3, <1>4, <1>5, <1>6, <1>7, <1>8

\* The bits of a byte are the bits it was summed from.
LEMMA EightBits ==
  ASSUME NEW s, \A e \in 0 .. 7 : s[e] \in 0 .. 1
  PROVE  /\ SumFunction([e \in 0 .. 7 |-> s[e] * Power(2, e)]) \in Nat
         /\ \A e \in 0 .. 7 :
              (SumFunction([d \in 0 .. 7 |-> s[d] * Power(2, d)]) \div Power(2, e)) % 2 = s[e]
<1> DEFINE f == [e \in 0 .. 7 |-> s[e] * Power(2, e)]
           V == SumFunction(f)
<1>1. V = SumFunctionOnSet(f, 0 .. 7)
  <2>1. DOMAIN f = 0 .. 7 OBVIOUS
  <2> HIDE DEF f
  <2> QED BY <2>1, SumIs
<1>2. /\ s[0] \in 0 .. 1 /\ s[1] \in 0 .. 1 /\ s[2] \in 0 .. 1 /\ s[3] \in 0 .. 1
      /\ s[4] \in 0 .. 1 /\ s[5] \in 0 .. 1 /\ s[6] \in 0 .. 1 /\ s[7] \in 0 .. 1
  OBVIOUS
<1>3. /\ f[0] = s[0] /\ f[1] = 2 * s[1] /\ f[2] = 4 * s[2] /\ f[3] = 8 * s[3]
      /\ f[4] = 16 * s[4] /\ f[5] = 32 * s[5] /\ f[6] = 64 * s[6] /\ f[7] = 128 * s[7]
  <2>1. /\ f[0] = s[0] * Power(2, 0) /\ f[1] = s[1] * Power(2, 1)
        /\ f[2] = s[2] * Power(2, 2) /\ f[3] = s[3] * Power(2, 3)
        /\ f[4] = s[4] * Power(2, 4) /\ f[5] = s[5] * Power(2, 5)
        /\ f[6] = s[6] * Power(2, 6) /\ f[7] = s[7] * Power(2, 7)
    OBVIOUS
  <2> HIDE DEF f
  <2> QED BY <1>2, <2>1, EightPowers
<1> HIDE DEF f
<1>4. \A e \in 0 .. 7 : f[e] \in Int
  <2>1. /\ f[0] \in Int /\ f[1] \in Int /\ f[2] \in Int /\ f[3] \in Int
        /\ f[4] \in Int /\ f[5] \in Int /\ f[6] \in Int /\ f[7] \in Int
    BY <1>2, <1>3
  <2> QED BY <2>1
<1> DEFINE U(n) == SumFunctionOnSet(f, 0 .. n)
           Z == SumFunctionOnSet(f, 0 .. 0 - 1)
<1>5. ASSUME NEW n \in 0 .. 7
      PROVE  SumFunctionOnSet(f, 0 .. n) = f[n] + SumFunctionOnSet(f, 0 .. n - 1)
  <2>1. \A x \in 0 .. n : f[x] \in Int BY <1>4
  <2> QED BY <2>1, SumLast
<1>6. /\ U(0) = f[0] + Z /\ U(1) = f[1] + U(0) /\ U(2) = f[2] + U(1)
      /\ U(3) = f[3] + U(2) /\ U(4) = f[4] + U(3) /\ U(5) = f[5] + U(4)
      /\ U(6) = f[6] + U(5) /\ U(7) = f[7] + U(6)
  <2>1. /\ 1 - 1 = 0 /\ 2 - 1 = 1 /\ 3 - 1 = 2 /\ 4 - 1 = 3 /\ 5 - 1 = 4 /\ 6 - 1 = 5
        /\ 7 - 1 = 6
    OBVIOUS
  <2>2. /\ 0 \in 0 .. 7 /\ 1 \in 0 .. 7 /\ 2 \in 0 .. 7 /\ 3 \in 0 .. 7 /\ 4 \in 0 .. 7
        /\ 5 \in 0 .. 7 /\ 6 \in 0 .. 7 /\ 7 \in 0 .. 7
    OBVIOUS
  <2> QED BY <1>5, <2>1, <2>2
<1>7. Z = 0
  <2>1. 0 .. 0 - 1 = {} OBVIOUS
  <2> QED BY <2>1, SumEmpty
<1> DEFINE a0 == s[0]
           a1 == s[1]
           a2 == s[2]
           a3 == s[3]
           a4 == s[4]
           a5 == s[5]
           a6 == s[6]
           a7 == s[7]
<1>8. V = a0 + 2 * a1 + 4 * a2 + 8 * a3 + 16 * a4 + 32 * a5 + 64 * a6 + 128 * a7
  <2>1. V = U(7) BY <1>1
  <2> HIDE DEF U, V, Z
  <2>2. U(0) = a0 BY <1>2, <1>3, <1>6, <1>7
  <2>3. U(1) = a0 + 2 * a1 BY <1>2, <1>3, <1>6, <2>2
  <2>4. U(2) = a0 + 2 * a1 + 4 * a2 BY <1>2, <1>3, <1>6, <2>3
  <2>5. U(3) = a0 + 2 * a1 + 4 * a2 + 8 * a3 BY <1>2, <1>3, <1>6, <2>4
  <2>6. U(4) = a0 + 2 * a1 + 4 * a2 + 8 * a3 + 16 * a4 BY <1>2, <1>3, <1>6, <2>5
  <2>7. U(5) = a0 + 2 * a1 + 4 * a2 + 8 * a3 + 16 * a4 + 32 * a5
    BY <1>2, <1>3, <1>6, <2>6
  <2>8. U(6) = a0 + 2 * a1 + 4 * a2 + 8 * a3 + 16 * a4 + 32 * a5 + 64 * a6
    BY <1>2, <1>3, <1>6, <2>7
  <2> QED BY <1>2, <1>3, <1>6, <2>1, <2>8
<1>9. /\ a0 \in 0 .. 1 /\ a1 \in 0 .. 1 /\ a2 \in 0 .. 1 /\ a3 \in 0 .. 1
      /\ a4 \in 0 .. 1 /\ a5 \in 0 .. 1 /\ a6 \in 0 .. 1 /\ a7 \in 0 .. 1
  BY <1>2
<1> HIDE DEF V, a0, a1, a2, a3, a4, a5, a6, a7
<1>10. V \in Nat BY <1>8, <1>9
<1>11. (V \div 1) % 2 = a0 /\ (V \div 2) % 2 = a1 /\ (V \div 4) % 2 = a2
  BY <1>8, <1>9
<1>12. (V \div 8) % 2 = a3 /\ (V \div 16) % 2 = a4 BY <1>8, <1>9
<1>13. (V \div 32) % 2 = a5 /\ (V \div 64) % 2 = a6 /\ (V \div 128) % 2 = a7
  BY <1>8, <1>9
<1>14. ASSUME NEW e \in 0 .. 7 PROVE (V \div Power(2, e)) % 2 = s[e]
  <2>1. \/ e = 0 \/ e = 1 \/ e = 2 \/ e = 3 \/ e = 4 \/ e = 5 \/ e = 6 \/ e = 7 OBVIOUS
  <2> QED BY <1>11, <1>12, <1>13, <2>1, EightPowers DEF a0, a1, a2, a3, a4, a5, a6, a7
<1> QED BY <1>10, <1>14 DEF V, f

\* The bits of a public key fill its bytes.
FullBytes == (Size * num_bits) % 8 = 0

\* A_to_pk: the bits so far are those of the stream.
BitsInv ==
  /\ FullBytes
  /\ pos \in 0 .. A_byte_size - 1 /\ back \in Digits /\ over = 0
  /\ bytes \in Seq(Nat) /\ Len(bytes) = pos
  /\ \A n \in 0 .. 8 * pos - 1 : ByteBit(n) = StreamBit(n)

\* pk_to_A: all of them are, and the entries so far are those of the vector.
EntriesInv ==
  /\ pos \in 0 .. Size - 1 /\ back \in Digits /\ over = 0
  /\ \A n \in 0 .. Size * num_bits - 1 : ByteBit(n) = StreamBit(n)
  /\ \A e \in 0 .. pos - 1 : back[e] = vector[e]

\* The bytes of a public key hold its bits and no more.
LEMMA ByteSize ==
  ASSUME FullBytes
  PROVE  /\ A_byte_size \in Nat /\ A_byte_size > 0 /\ 8 * A_byte_size = Size * num_bits
         /\ Size * num_bits \in Nat
<1> DEFINE w == Size * num_bits
<1>1. Size \in Nat /\ Size > 0 /\ num_bits \in Nat /\ num_bits > 0
  BY Parameters, NumBits
<1>2. w \in Nat /\ w > 0
  <2> DEFINE d == Size - 1
  <2>1. d \in Nat /\ Size = d + 1 BY <1>1
  <2> HIDE DEF d
  <2>2. (d + 1) * num_bits = d * num_bits + num_bits BY <1>1, <2>1
  <2>3. d * num_bits \in Nat BY <1>1, <2>1
  <2> QED BY <1>1, <2>1, <2>2, <2>3
<1>3. w % 8 = 0 BY DEF FullBytes
<1>4. A_byte_size = w \div 8 BY DEF A_byte_size
<1> HIDE DEF w
<1>5. w = 8 * (w \div 8) + (w % 8) BY <1>2, DivMod
<1>6. w \div 8 \in Int BY <1>2
<1>7. A_byte_size \in Nat /\ A_byte_size > 0 /\ 8 * A_byte_size = w
  BY <1>2, <1>3, <1>4, <1>5, <1>6
<1> QED BY <1>2, <1>7 DEF w

\* A pass of A_to_pk keeps the bytes equal to the bits of the entries.
LEMMA BitsStep ==
  ASSUME vector \in Digits, BitsInv, PackByte
  PROVE  /\ vector' = vector
         /\ IF pos + 1 < A_byte_size THEN phase' = "bits" /\ BitsInv'
            ELSE phase' = "entries" /\ EntriesInv'
<1> DEFINE s == [e \in 0 .. 7 |-> StreamBit(8 * pos + e)]
           V == SumFunction([e \in 0 .. 7 |-> StreamBit(8 * pos + e) * Power(2, e)])
<1>1. /\ A_byte_size \in Nat /\ 8 * A_byte_size = Size * num_bits /\ Size \in Nat
      /\ Size > 0 /\ A_byte_size > 0
  <2>1. FullBytes BY DEF BitsInv
  <2> QED BY <2>1, ByteSize, Parameters
<1>2. pos \in Nat /\ pos < A_byte_size /\ bytes \in Seq(Nat) /\ Len(bytes) = pos
  BY <1>1 DEF BitsInv
<1>3. \A e \in 0 .. 7 : s[e] \in 0 .. 1
  <2> SUFFICES ASSUME NEW e \in 0 .. 7 PROVE StreamBit(8 * pos + e) \in 0 .. 1
    OBVIOUS
  <2>1. 8 * pos + e \in 0 .. Size * num_bits - 1
    <3> DEFINE w == Size * num_bits
    <3>1. 8 * A_byte_size = w BY <1>1
    <3> HIDE DEF w
    <3>2. 8 * pos + e \in 0 .. w - 1 BY <1>1, <1>2, <3>1
    <3> QED BY <3>2 DEF w
  <2> QED BY <2>1, StreamBits
<1>4. V = SumFunction([e \in 0 .. 7 |-> s[e] * Power(2, e)])
  <2>1. [e \in 0 .. 7 |-> StreamBit(8 * pos + e) * Power(2, e)]
          = [e \in 0 .. 7 |-> s[e] * Power(2, e)]
    OBVIOUS
  <2> QED BY <2>1, Zenon
<1>5. V \in Nat /\ \A e \in 0 .. 7 : (V \div Power(2, e)) % 2 = StreamBit(8 * pos + e)
  <2>1. \A e \in 0 .. 7 : s[e] = StreamBit(8 * pos + e) OBVIOUS
  <2> HIDE DEF s, V
  <2>2. SumFunction([e \in 0 .. 7 |-> s[e] * Power(2, e)]) \in Nat BY <1>3, EightBits
  <2>3. \A e \in 0 .. 7 :
          (SumFunction([d \in 0 .. 7 |-> s[d] * Power(2, d)]) \div Power(2, e)) % 2 = s[e]
    BY <1>3, EightBits
  <2> QED BY <1>4, <2>1, <2>2, <2>3
<1>6. /\ bytes' = Append(bytes, V) /\ vector' = vector /\ back' = back /\ over' = over
      /\ \/ pos + 1 < A_byte_size /\ pos' = pos + 1 /\ phase' = "bits"
         \/ pos + 1 = A_byte_size /\ pos' = 0 /\ phase' = "entries"
  BY DEF PackByte
<1> HIDE DEF s, V
<1>7. /\ bytes' \in Seq(Nat) /\ Len(bytes') = pos + 1
      /\ \A l \in 1 .. pos : bytes'[l] = bytes[l]
      /\ bytes'[pos + 1] = V
  BY <1>2, <1>5, <1>6
<1>8. ASSUME NEW n \in 0 .. 8 * (pos + 1) - 1
      PROVE  ByteBit(n)' = StreamBit(n)'
  <2> DEFINE l == n \div 8
             e == n % 8
  <2>1. n \in Int /\ l \in Int /\ e \in 0 .. 7 /\ n = 8 * l + e BY <1>2
  <2>2. StreamBit(n)' = StreamBit(n) BY <1>6 DEF StreamBit
  <2>3. ByteBit(n) = (bytes[l + 1] \div Power(2, e)) % 2 BY DEF ByteBit
  <2>4. ByteBit(n)' = (bytes'[l + 1] \div Power(2, e)) % 2 BY DEF ByteBit
  <2> HIDE DEF l, e
  <2>5. CASE n <= 8 * pos - 1
    <3>1. l + 1 \in 1 .. pos BY <1>2, <2>1, <2>5
    <3>2. bytes'[l + 1] = bytes[l + 1] BY <1>7, <3>1
    <3>3. n \in 0 .. 8 * pos - 1 BY <1>2, <2>1, <2>5
    <3>4. ByteBit(n) = StreamBit(n) BY <3>3 DEF BitsInv
    <3> QED BY <2>2, <2>3, <2>4, <3>2, <3>4
  <2>6. CASE n >= 8 * pos
    <3>1. l = pos BY <1>2, <2>1, <2>6
    <3>2. ByteBit(n)' = (V \div Power(2, e)) % 2 BY <1>7, <2>4, <3>1
    <3>3. (V \div Power(2, e)) % 2 = StreamBit(8 * pos + e) BY <1>5, <2>1
    <3> QED BY <2>1, <2>2, <3>1, <3>2, <3>3
  <2> QED BY <1>2, <2>1, <2>5, <2>6
<1>9. back' \in Digits /\ over' = 0 /\ FullBytes BY <1>6 DEF BitsInv
<1>10. CASE pos + 1 < A_byte_size
  <2>1. pos' = pos + 1 /\ phase' = "bits" BY <1>1, <1>2, <1>6, <1>10
  <2>2. pos' \in 0 .. A_byte_size - 1 BY <1>1, <1>2, <1>10, <2>1
  <2>3. \A n \in 0 .. 8 * pos' - 1 : ByteBit(n)' = StreamBit(n)' BY <1>8, <2>1
  <2>4. Len(bytes') = pos' BY <1>7, <2>1
  <2> QED BY <1>6, <1>7, <1>9, <1>10, <2>1, <2>2, <2>3, <2>4 DEF BitsInv
<1>11. CASE ~ (pos + 1 < A_byte_size)
  <2>1. pos + 1 = A_byte_size /\ pos' = 0 /\ phase' = "entries" BY <1>1, <1>2, <1>6, <1>11
  <2>2. 8 * (pos + 1) - 1 = Size * num_bits - 1
    <3> DEFINE w == Size * num_bits
    <3>1. 8 * A_byte_size = w BY <1>1
    <3> HIDE DEF w
    <3>2. 8 * (pos + 1) - 1 = w - 1 BY <2>1, <3>1
    <3> QED BY <3>2 DEF w
  <2>3. \A n \in 0 .. Size * num_bits - 1 : ByteBit(n)' = StreamBit(n)' BY <1>8, <2>2, Zenon
  <2>4. pos' \in 0 .. Size - 1 BY <1>1, <2>1
  <2>5. \A e \in 0 .. pos' - 1 : back'[e] = vector'[e] BY <2>1
  <2>6. EntriesInv' BY <1>9, <2>3, <2>4, <2>5 DEF EntriesInv
  <2> QED BY <1>6, <1>11, <2>1, <2>6
<1> QED BY <1>10, <1>11

\* Every entry is read back as it was.
LEMMA EntryBack ==
  ASSUME vector \in Digits, NEW e \in 0 .. Size - 1,
         \A n \in 0 .. Size * num_bits - 1 : ByteBit(n) = StreamBit(n)
  PROVE  Entry(e) = vector[e]
<1> DEFINE u == [l \in 0 .. num_bits - 1 |-> decimal_to_binary(vector[e], l)]
<1>1. vector[e] \in 0 .. Q - 1 BY DEF Digits
<1>2. Q \in Nat /\ num_bits \in Nat /\ Q <= Power(2, num_bits) BY Parameters, NumBits
<1>3. Power(2, num_bits) \in Nat
  <2>1. \A b \in Nat : b > 0 => Power(b, num_bits) \in Nat BY <1>2, PowerInt
  <2> QED BY <2>1
<1>4. vector[e] \in Nat /\ vector[e] < Power(2, num_bits) BY <1>1, <1>2, <1>3
<1>5. \A l \in 0 .. num_bits - 1 : u[l] = decimal_to_binary(vector[e], l) OBVIOUS
<1>6. \A l \in 0 .. num_bits - 1 : u[l] = ByteBit(num_bits * e + l)
  <2> SUFFICES ASSUME NEW l \in 0 .. num_bits - 1 PROVE u[l] = ByteBit(num_bits * e + l)
    OBVIOUS
  <2>1. /\ num_bits * e + l \in 0 .. Size * num_bits - 1
        /\ StreamBit(num_bits * e + l) = decimal_to_binary(vector[e], l)
    BY StreamPlace
  <2>2. ByteBit(num_bits * e + l) = StreamBit(num_bits * e + l) BY <2>1
  <2> QED BY <1>5, <2>1, <2>2
<1> HIDE DEF u
<1>7. Value(u, num_bits, 2) = vector[e] BY <1>4, <1>5, EntryTop
<1>8. Entry(e) = Value(u, num_bits, 2) BY <1>6, EntryValue
<1> QED BY <1>7, <1>8

\* A pass of pk_to_A gives back the entry whose bits it reads.
LEMMA EntriesStep ==
  ASSUME vector \in Digits, EntriesInv, UnpackEntry
  PROVE  /\ vector' = vector
         /\ IF pos + 1 < Size THEN phase' = "entries" /\ EntriesInv'
            ELSE phase' = "unpacked" /\ back' = vector /\ over' = 0
<1>1. Size \in Nat /\ Size > 0 BY Parameters
<1>2. pos \in 0 .. Size - 1 /\ pos \in Nat BY <1>1 DEF EntriesInv
<1>3. Entry(pos) = vector[pos] BY <1>2, EntryBack DEF EntriesInv
<1>4. vector \in [0 .. Size - 1 -> 0 .. Q - 1] /\ back \in [0 .. Size - 1 -> 0 .. Q - 1]
  BY DEF Digits, EntriesInv
<1>5. /\ back' = [back EXCEPT ![pos] = vector[pos]] /\ vector' = vector
      /\ bytes' = bytes /\ over' = over
      /\ \/ pos + 1 < Size /\ pos' = pos + 1 /\ phase' = "entries"
         \/ pos + 1 = Size /\ pos' = 0 /\ phase' = "unpacked"
  BY <1>3 DEF UnpackEntry
<1>6. back' \in [0 .. Size - 1 -> 0 .. Q - 1] BY <1>2, <1>4, <1>5
<1>7. \A e \in 0 .. pos : back'[e] = vector[e]
  <2> SUFFICES ASSUME NEW e \in 0 .. pos PROVE back'[e] = vector[e] OBVIOUS
  <2>1. e \in 0 .. Size - 1 BY <1>1, <1>2
  <2>2. e # pos => e \in 0 .. pos - 1 BY <1>2
  <2>3. e # pos => back[e] = vector[e] BY <2>2 DEF EntriesInv
  <2> QED BY <1>4, <1>5, <2>1, <2>3
<1>8. over' = 0 BY <1>5 DEF EntriesInv
<1>9. \A n \in 0 .. Size * num_bits - 1 : ByteBit(n)' = StreamBit(n)'
  <2> SUFFICES ASSUME NEW n \in 0 .. Size * num_bits - 1 PROVE ByteBit(n)' = StreamBit(n)'
    OBVIOUS
  <2>1. ByteBit(n)' = ByteBit(n) BY <1>5 DEF ByteBit
  <2>2. StreamBit(n)' = StreamBit(n) BY <1>5 DEF StreamBit
  <2>3. ByteBit(n) = StreamBit(n) BY DEF EntriesInv
  <2> QED BY <2>1, <2>2, <2>3
<1>10. CASE pos + 1 < Size
  <2>1. pos' = pos + 1 /\ phase' = "entries" BY <1>1, <1>2, <1>5, <1>10
  <2>2. pos' \in 0 .. Size - 1 BY <1>1, <1>2, <1>10, <2>1
  <2>3. \A e \in 0 .. pos' - 1 : back'[e] = vector'[e]
    <3>1. pos' - 1 = pos BY <1>2, <2>1
    <3> QED BY <1>5, <1>7, <3>1
  <2>4. back' \in Digits BY <1>6 DEF Digits
  <2>5. EntriesInv' BY <1>8, <1>9, <2>2, <2>3, <2>4 DEF EntriesInv
  <2> QED BY <1>5, <1>10, <2>1, <2>5
<1>11. CASE ~ (pos + 1 < Size)
  <2>1. pos + 1 = Size /\ phase' = "unpacked" BY <1>1, <1>2, <1>5, <1>11
  <2>2. 0 .. pos = 0 .. Size - 1 BY <1>1, <1>2, <2>1
  <2>3. back' = vector
    <3> DEFINE A == 0 .. Size - 1
               B == 0 .. Q - 1
               g == back'
    <3>1. g \in [A -> B] BY <1>6
    <3>2. vector \in [A -> B] BY <1>4
    <3>3. \A d \in A : g[d] = vector[d] BY <1>7, <2>2
    <3> HIDE DEF A, B, g
    <3>4. g = vector BY <3>1, <3>2, <3>3, SameFunction
    <3> QED BY <3>4 DEF g
  <2> QED BY <1>5, <1>8, <1>11, <2>1, <2>3
<1> QED BY <1>10, <1>11

-----------------------------------------------------------------------------
(* The theorems *)

\* Each loop has its invariant, and what it leaves behind is what is promised.
CodecInv ==
  /\ vector \in Digits
  /\ \/ phase = "pack" /\ PackInv
     \/ phase = "unpack" /\ UnpackInv
     \/ phase = "hash" /\ HashInv
     \/ phase = "bits" /\ BitsInv
     \/ phase = "entries" /\ EntriesInv
     \/ phase = "unpacked" /\ back = vector /\ over = 0
     \/ /\ phase = "hashed" /\ back \in Digits /\ bytes \in Bytes
        /\ Congruent(Power(Q, Size), Value(back, Size, Q), Value(Reversed, size_char, Base))

\* The conversions start in their invariant.
LEMMA CodecInit == Init => CodecInv
<1> SUFFICES ASSUME Init PROVE CodecInv OBVIOUS
<1>1. /\ Q \in Nat /\ Q > 0 /\ Base \in Nat /\ Base > 0 /\ Size \in Nat /\ Size > 0
      /\ size_char \in Nat /\ size_char > 0
  BY Parameters, SizeChar
<1>2. Zeros(Size) \in Digits BY <1>1 DEF Zeros, Digits
<1>3. /\ back = Zeros(Size) /\ pos = 0 /\ over = 0 BY DEF Init
<1>4. vector \in Digits BY <1>2, CodecAssumption DEF Init
<1>5. CASE phase = "pack" /\ bytes = Zeros(size_char)
  <2>1. bytes \in Bytes BY <1>1, <1>5 DEF Zeros, Bytes
  <2>2. Value(bytes, size_char, Base) = 0 BY <1>1, <1>5, ValueZeros
  <2>3. Value(vector, 0, Q) = 0 BY ValueNone
  <2> QED BY <1>1, <1>3, <1>4, <1>5, <2>1, <2>2, <2>3 DEF CodecInv, PackInv
<1>6. CASE phase = "bits" /\ bytes = << >>
  <2>1. bytes \in Seq(Nat) /\ Len(bytes) = 0 BY <1>6
  <2>2. FullBytes
    <3>1. vector \in Matrices BY <1>6 DEF Init
    <3> QED BY <3>1, CodecAssumption DEF FullBytes
  <2>3. pos \in 0 .. A_byte_size - 1 BY <1>3, <2>2, ByteSize
  <2>4. \A n \in 0 .. 8 * pos - 1 : FALSE BY <1>3
  <2>5. BitsInv BY <1>2, <1>3, <2>1, <2>2, <2>3, <2>4 DEF BitsInv
  <2> QED BY <1>4, <1>6, <2>5 DEF CodecInv
<1>7. CASE phase = "hash" /\ bytes \in Hashes
  <2>1. bytes \in Bytes BY <1>7, CodecAssumption
  <2>2. Value(back, Size, Q) = 0 BY <1>1, <1>3, ValueZeros
  <2>3. Value(Reversed, pos, Base) = 0 BY <1>3, ValueNone
  <2>4. Congruent(Power(Q, Size), Value(back, Size, Q), Value(Reversed, pos, Base))
    BY <2>2, <2>3, CongruentSame
  <2>5. pos \in 0 .. size_char - 1 BY <1>1, <1>3
  <2>6. HashInv BY <1>2, <1>3, <2>1, <2>4, <2>5 DEF HashInv
  <2> QED BY <1>4, <1>7, <2>6 DEF CodecInv
<1> QED BY <1>5, <1>6, <1>7 DEF Init

\* Every pass of a loop, and every passage to the next, keeps the invariant.
LEMMA CodecNext == CodecInv /\ [Next]_vars => CodecInv'
<1> SUFFICES ASSUME CodecInv, [Next]_vars PROVE CodecInv' OBVIOUS
<1>1. vector \in Digits BY DEF CodecInv
<1>2. CASE Pack
  <2>1. PackInv /\ vector' = vector BY <1>2 DEF Pack, CodecInv
  <2>2. \/ phase' = "pack" /\ PackInv'
        \/ phase' = "unpack" /\ UnpackInv'
    BY <1>1, <1>2, <2>1, PackStep
  <2> QED BY <1>1, <2>1, <2>2 DEF CodecInv
<1>3. CASE Unpack
  <2>1. UnpackInv BY <1>3 DEF Unpack, CodecInv
  <2>2. /\ vector' = vector
        /\ \/ phase' = "unpack" /\ UnpackInv'
           \/ phase' = "unpacked" /\ back' = vector /\ over' = 0
    BY <1>1, <1>3, <2>1, UnpackStep
  <2> QED BY <1>1, <2>2 DEF CodecInv
<1>4. CASE HashByte
  <2>1. HashInv BY <1>4 DEF HashByte, CodecInv
  <2>2. /\ vector' = vector
        /\ \/ phase' = "hash" /\ HashInv'
           \/ /\ phase' = "hashed" /\ back' \in Digits /\ bytes' \in Bytes
              /\ Congruent(Power(Q, Size), Value(back', Size, Q),
                           Value(Reversed', size_char, Base))
    BY <1>4, <2>1, HashStep
  <2> QED BY <1>1, <2>2 DEF CodecInv
<1>5. CASE PackByte
  <2>1. BitsInv BY <1>5 DEF PackByte, CodecInv
  <2>2. /\ vector' = vector
        /\ \/ phase' = "bits" /\ BitsInv'
           \/ phase' = "entries" /\ EntriesInv'
    BY <1>1, <1>5, <2>1, BitsStep
  <2> QED BY <1>1, <2>2 DEF CodecInv
<1>6. CASE UnpackEntry
  <2>1. EntriesInv BY <1>6 DEF UnpackEntry, CodecInv
  <2>2. /\ vector' = vector
        /\ \/ phase' = "entries" /\ EntriesInv'
           \/ phase' = "unpacked" /\ back' = vector /\ over' = 0
    BY <1>1, <1>6, <2>1, EntriesStep
  <2> QED BY <1>1, <2>2 DEF CodecInv
<1>7. CASE UNCHANGED vars
  BY <1>7 DEF vars, CodecInv, PackInv, UnpackInv, HashInv, BitsInv, EntriesInv, Reversed,
              StreamBit, ByteBit
<1> QED BY <1>2, <1>3, <1>4, <1>5, <1>6, <1>7 DEF Next

\* The bytes of a secret key or a signature hold the entries packed so far,
\* as a number, exactly, from the first entry to the last: size_char bytes are
\* enough for any vector, whether or not its bits would fill bytes.
THEOREM PackTheorem == Spec => []PackExact
<1>1. CodecInv => PackExact
  BY DEF CodecInv, PackExact, PackInv, UnpackInv, packed
<1> QED BY <1>1, CodecInit, CodecNext, PTL DEF Spec

\* Decoding gives back what was encoded: C1cp_to_sk and sk_to_C1cp, mx_to_sm
\* and sm_to_mx, for every vector; A_to_pk and pk_to_A, for every public key
\* whose bits fill its bytes.
THEOREM RoundTripTheorem == Spec => []RoundTrip
<1>1. CodecInv => RoundTrip BY DEF CodecInv, RoundTrip
<1> QED BY <1>1, CodecInit, CodecNext, PTL DEF Spec

\* hash_of_message loses nothing but multiples of Q^Size.
THEOREM HashTheorem == Spec => []HashLow
<1>1. CodecInv => HashLow BY HashEnd DEF CodecInv, HashLow
<1> QED BY <1>1, CodecInit, CodecNext, PTL DEF Spec

-----------------------------------------------------------------------------
(* Lifetimes *)

\* A matrix of n rows is allocated by statement `born', known to be there
\* after statement `sure', a test, and freed by statement `gone'.
Life(n, born, sure, gone) == [n |-> n, born |-> born, sure |-> sure, gone |-> gone]

\* The lifetimes in the three functions, by the numbers of the statements in
\* KeyGen, SigGen and SigVer.
KeyGenLives ==
  [C     |-> Life(M, 1, 4, 31),        H    |-> Life(M, 2, 4, 6),
   CP    |-> Life(M + 1, 3, 4, 7),     T    |-> Life(K * N, 8, 9, 26),
   TM    |-> Life(N, 11, 14, 17),      Linv |-> Life(N, 12, 14, 21),
   Uinv  |-> Life(N, 13, 14, 22),      Binv |-> Life(N, 18, 19, 27),
   TBinv |-> Life(K * N, 23, 24, 32),  A    |-> Life(M, 28, 29, 34)]

SigGenLives ==
  [C        |-> Life(M, 1, 4, 29),       C1_index |-> Life(M, 2, 4, 30),
   C1_value |-> Life(M, 3, 4, 31),       T        |-> Life(K * N, 6, 7, 32),
   B        |-> Life(N, 9, 12, 40),      LM       |-> Life(N, 10, 12, 16),
   UM       |-> Life(N, 11, 12, 17),     h        |-> Life(M, 18, 19, 33),
   C1cp     |-> Life(1, 21, 22, 34),     y        |-> Life(N, 24, 27, 41),
   a        |-> Life(M + D, 25, 27, 35), z        |-> Life(K * N, 26, 27, 36),
   x        |-> Life(N, 37, 38, 43)]

SigVerLives ==
  [A  |-> Life(M, 1, 3, 9),          x |-> Life(N, 2, 3, 10),
   Ax |-> Life(M, 6, 7, 16),         h |-> Life(M, 11, 12, 15)]

Lives == [key_gen |-> KeyGenLives, sig_gen |-> SigGenLives, sig_ver |-> SigVerLives]

-----------------------------------------------------------------------------
(* What is planned *)

\* What the functions return but after cleanup, and what statements are.
Results == {0, -1, -2}
Kinds == {"alloc", "need", "use", "free", "freevector", "return"}
Statement == [do : Kinds, of : SUBSET (Pointer \cup Int), n : Int]

\* Statement k of the list L comes when the lifetimes T say, and uses a matrix
\* only while it is there.
Fits(L, T, k) ==
  /\ L[k].do \in {"alloc", "free", "freevector"} => L[k].of # {}
  /\ L[k].do # "return" =>
       \A p \in L[k].of :
         /\ p \in DOMAIN T
         /\ L[k].do = "alloc" => T[p].born = k
         /\ L[k].do = "need" => T[p].sure = k
         /\ L[k].do = "use" => T[p].sure < k /\ k < T[p].gone
         /\ L[k].do \in {"free", "freevector"} => T[p].gone = k
  /\ L[k].do = "return" => L[k].of \subseteq Results /\ k = Len(L)

\* The three statements in the life of p are where t says.
Lived(L, p, t) ==
  /\ t.n \in Int
  /\ t.born \in 1 .. Len(L) - 1 /\ t.sure \in t.born + 1 .. Len(L) - 1
  /\ t.gone \in t.sure + 1 .. Len(L) - 1
  /\ L[t.born] = Alloc(p, t.n)
  /\ L[t.sure].do = "need" /\ p \in L[t.sure].of
  /\ L[t.gone] \in {Free(p, t.n), FreeVector(p)}

\* L is a program with the lifetimes T.
Disciplined(L, T) ==
  /\ L \in Seq(Statement) /\ L # << >>
  /\ DOMAIN T \subseteq Pointer
  /\ \A k \in 1 .. Len(L) : Fits(L, T, k)
  /\ L[Len(L)].do = "return"
  /\ \A p \in DOMAIN T : Lived(L, p, T[p])

\* A list that frees and then returns -2.
Frees(L) ==
  /\ L \in Seq(Statement) /\ L # << >>
  /\ \A k \in 1 .. Len(L) : /\ L[k].do \in {"free", "freevector", "return"}
                            /\ L[k].do = "return" => L[k].of = {-2} /\ k = Len(L)
  /\ L[Len(L)].do = "return"

-----------------------------------------------------------------------------
(* The invariant *)

\* What p is after `at' statements of its function.
Stage(p, status, count) == ptr[p] = status /\ rows[p] = count

AsLived(p, t, at) ==
  /\ at < t.born => Stage(p, "uninit", 0)
  /\ t.born <= at /\ at < t.sure => Stage(p, "live", t.n) \/ Stage(p, "null", 0)
  /\ t.sure <= at /\ at < t.gone => Stage(p, "live", t.n)
  /\ t.gone <= at => Stage(p, "null", 0)

AsPlanned(T, at) ==
  \A p \in Pointer : IF p \in DOMAIN T THEN AsLived(p, T[p], at)
                     ELSE Stage(p, "uninit", 0)

\* The function f has executed `at' statements.
Executed(f, at) ==
  /\ at \in 0 .. Len(Body[f]) - 1
  /\ todo = SubSeq(Body[f], at + 1, Len(Body[f]))
  /\ AsPlanned(Lives[f], at)
  /\ lost = 0
  /\ heap = "sound"

\* The function that runs has met no failure that it has noticed.
Straight == \E at \in Int : Executed(fn, at)

\* The types that the updates rest on.
MemoryTypes == /\ ptr \in [Pointer -> {"uninit", "null", "live"}]
               /\ rows \in [Pointer -> Int]

\* A function that runs is on its way, with every matrix in its stage, or has
\* been sent to cleanup; and one that has returned an answer left nothing.
MemoryInv ==
  /\ fn \in DOMAIN Body
  /\ MemoryTypes
  /\ ret = Running => Straight \/ Frees(todo)
  /\ NothingLeft

\* All three functions are programs of this kind, and clean up like this.
Programs == \A f \in DOMAIN Body : Disciplined(Body[f], Lives[f]) /\ Frees(Cleanup[f])

-----------------------------------------------------------------------------
(* Statements *)

\* The statement that is next, and what remains after it.
LEMMA NextStatement ==
  ASSUME NEW L \in Seq(Statement), NEW k \in 0 .. Len(L) - 1
  PROVE  /\ Head(SubSeq(L, k + 1, Len(L))) = L[k + 1]
         /\ Tail(SubSeq(L, k + 1, Len(L))) = SubSeq(L, k + 2, Len(L))
<1>1. k + 1 \in 1 .. Len(L) /\ Len(L) \in k + 1 .. Len(L) OBVIOUS
<1>2. (k + 1) + 1 = k + 2 OBVIOUS
<1> QED BY <1>1, <1>2, HeadTailOfSubSeq

\* A list that frees goes on freeing until it returns.
LEMMA FreesOn ==
  ASSUME NEW L, Frees(L)
  PROVE  /\ Head(L).do \in {"free", "freevector", "return"}
         /\ Head(L).do = "return" => Head(L).of = {-2}
         /\ Head(L).do # "return" => Frees(Tail(L))
<1>1. L \in Seq(Statement) /\ L # << >> BY DEF Frees
<1>2. Head(L) = L[1] /\ Len(L) \in Nat /\ Len(L) > 0 BY <1>1
<1>3. 1 \in 1 .. Len(L) BY <1>2
<1>4. ASSUME Head(L).do # "return" PROVE Frees(Tail(L))
  <2>1. Len(L) # 1 BY <1>2, <1>4 DEF Frees
  <2>2. /\ Tail(L) \in Seq(Statement) /\ Len(Tail(L)) = Len(L) - 1
        /\ \A i \in 1 .. Len(Tail(L)) : Tail(L)[i] = L[i + 1]
    BY <1>1, HeadTailProperties
  <2>3. Len(Tail(L)) > 0 /\ Tail(L) # << >>
    <3>1. Len(Tail(L)) > 0 /\ Len(Tail(L)) # 0 BY <1>2, <2>1, <2>2
    <3>2. Len(<< >>) = 0 OBVIOUS
    <3> QED BY <3>1, <3>2, Zenon
  <2>4. Tail(L)[Len(Tail(L))] = L[Len(L)] BY <1>2, <2>2, <2>3
  <2>5. ASSUME NEW k \in 1 .. Len(Tail(L))
        PROVE  /\ Tail(L)[k].do \in {"free", "freevector", "return"}
               /\ Tail(L)[k].do = "return" => Tail(L)[k].of = {-2} /\ k = Len(Tail(L))
    <3>1. Tail(L)[k] = L[k + 1] /\ k + 1 \in 1 .. Len(L) BY <1>2, <2>2
    <3>2. k + 1 = Len(L) => k = Len(Tail(L))
      <4>1. Len(Tail(L)) = Len(L) - 1 /\ Len(L) \in Int /\ k \in Int BY <1>2, <2>2
      <4>2. \A n, l, c \in Int : n + 1 = l /\ c = l - 1 => n = c OBVIOUS
      <4>3. Len(Tail(L)) \in Int BY <4>1
      <4> QED BY <4>1, <4>2, <4>3
    <3> QED BY <3>1, <3>2 DEF Frees
  <2> QED BY <2>2, <2>3, <2>4, <2>5 DEF Frees
<1> QED BY <1>2, <1>3, <1>4 DEF Frees

\* What kind of statement a constructor makes.
LEMMA KindOf ==
  /\ \A p, n : Alloc(p, n).do = "alloc" /\ Alloc(p, n).of = {p} /\ Alloc(p, n).n = n
  /\ \A S : Need(S).do = "need" /\ Need(S).of = S
  /\ \A S : Use(S).do = "use" /\ Use(S).of = S
  /\ \A p, n : Free(p, n).do = "free" /\ Free(p, n).of = {p} /\ Free(p, n).n = n
  /\ \A p : FreeVector(p).do = "freevector" /\ FreeVector(p).of = {p}
  /\ \A R : Result(R).do = "return" /\ Result(R).of = R
BY DEF Alloc, Need, Use, Free, FreeVector, Result

\* The one that is released or allocated.
LEMMA TargetIs == ASSUME NEW p, Of = {p} PROVE Target = p
BY DEF Target

\* What the next statement is, in a function that has not gone to cleanup.
LEMMA AtHand ==
  ASSUME Programs, NEW f \in DOMAIN Body, NEW at \in Int, Executed(f, at)
  PROVE  /\ Head(todo) = Body[f][at + 1] /\ Tail(todo) = SubSeq(Body[f], at + 2, Len(Body[f]))
         /\ at + 1 \in 1 .. Len(Body[f]) /\ Len(Body[f]) \in Nat
         /\ Fits(Body[f], Lives[f], at + 1)
         /\ DOMAIN Lives[f] \subseteq Pointer
         /\ Body[f][Len(Body[f])].do = "return"
         /\ \A p \in DOMAIN Lives[f] : Lived(Body[f], p, Lives[f][p])
<1>1. Disciplined(Body[f], Lives[f]) BY DEF Programs
<1>2. Body[f] \in Seq(Statement) /\ Body[f] # << >> BY <1>1 DEF Disciplined
<1>3. Len(Body[f]) \in Nat BY <1>2
<1>4. at \in 0 .. Len(Body[f]) - 1 /\ todo = SubSeq(Body[f], at + 1, Len(Body[f]))
  BY DEF Executed
<1>5. at + 1 \in 1 .. Len(Body[f]) BY <1>3, <1>4
<1>6. Head(todo) = Body[f][at + 1] /\ Tail(todo) = SubSeq(Body[f], at + 2, Len(Body[f]))
  BY <1>2, <1>4, NextStatement
<1> QED BY <1>1, <1>3, <1>5, <1>6 DEF Disciplined

\* Which statement it is follows from what is done.
LEMMA HandIs ==
  ASSUME NEW L, NEW T, NEW k, Fits(L, T, k), L[k] = Head(todo),
         \A p \in DOMAIN T : Lived(L, p, T[p])
  PROVE  /\ Head(todo).do = "alloc" =>
              \E p \in DOMAIN T : L[k] = Alloc(p, T[p].n) /\ T[p].born = k /\ Target = p
         /\ Head(todo).do = "need" => \A p \in Of : p \in DOMAIN T /\ T[p].sure = k
         /\ Head(todo).do = "use" =>
              \A p \in Of : p \in DOMAIN T /\ T[p].sure < k /\ k < T[p].gone
         /\ Head(todo).do \in {"free", "freevector"} =>
              \E p \in DOMAIN T : /\ L[k] \in {Free(p, T[p].n), FreeVector(p)}
                                  /\ T[p].gone = k /\ Target = p
         /\ Head(todo).do = "return" => Of \subseteq Results /\ k = Len(L)
<1>1. L[k].of = Of BY DEF Of
<1>2. ASSUME Head(todo).do = "alloc"
      PROVE  \E p \in DOMAIN T : L[k] = Alloc(p, T[p].n) /\ T[p].born = k /\ Target = p
  <2>1. PICK p \in Of : TRUE BY <1>1, <1>2 DEF Fits
  <2>2. p \in DOMAIN T /\ T[p].born = k BY <1>1, <1>2 DEF Fits
  <2>3. L[k] = Alloc(p, T[p].n) BY <2>2 DEF Lived
  <2>4. Of = {p} BY <1>1, <2>3, KindOf
  <2> QED BY <2>2, <2>3, <2>4, TargetIs
<1>3. ASSUME Head(todo).do \in {"free", "freevector"}
      PROVE  \E p \in DOMAIN T : /\ L[k] \in {Free(p, T[p].n), FreeVector(p)}
                                 /\ T[p].gone = k /\ Target = p
  <2>1. PICK p \in Of : TRUE BY <1>1, <1>3 DEF Fits
  <2>2. p \in DOMAIN T /\ T[p].gone = k BY <1>1, <1>3 DEF Fits
  <2>3. L[k] \in {Free(p, T[p].n), FreeVector(p)} BY <2>2 DEF Lived
  <2>4. Of = {p} BY <1>1, <2>3, KindOf
  <2> QED BY <2>2, <2>3, <2>4, TargetIs
<1> QED BY <1>1, <1>2, <1>3 DEF Fits

\* A statement of another matrix, or of no matrix, is no point of the life of p.
LEMMA NotIts ==
  ASSUME NEW L, NEW p, NEW t, Lived(L, p, t), NEW k
  PROVE  /\ L[k].do # "alloc" \/ L[k].of # {p} => t.born # k
         /\ L[k].do # "need" \/ p \notin L[k].of => t.sure # k
         /\ L[k].do \notin {"free", "freevector"} \/ L[k].of # {p} => t.gone # k
BY KindOf DEF Lived

\* The numbers of a life.
LEMMA LifeType ==
  ASSUME NEW L, NEW p, NEW t, Lived(L, p, t), Len(L) \in Nat
  PROVE  /\ t.n \in Int /\ t.born \in Int /\ t.sure \in Int /\ t.gone \in Int
         /\ 0 < t.born /\ t.born < t.sure /\ t.sure < t.gone /\ t.gone < Len(L)
BY DEF Lived

-----------------------------------------------------------------------------
(* The steps *)

\* A statement that is no point of the life of p leaves it in its stage.
LEMMA StaysInStage ==
  ASSUME NEW p, NEW t, NEW at \in Int, t.born \in Int, t.sure \in Int, t.gone \in Int,
         t.born # at + 1, t.sure # at + 1, t.gone # at + 1,
         AsLived(p, t, at), ptr'[p] = ptr[p], rows'[p] = rows[p]
  PROVE  AsLived(p, t, at + 1)'
BY DEF AsLived, Stage

\* So does every statement for the other matrices.
LEMMA OthersStay ==
  ASSUME Programs, NEW f \in DOMAIN Body, NEW at \in Int, Executed(f, at), NEW q,
         \/ Head(todo).do \in {"alloc", "free", "freevector"} /\ Of = {q}
         \/ Head(todo).do \in {"need", "use"},
         NEW p \in DOMAIN Lives[f],
         Head(todo).do \in {"alloc", "free", "freevector"} => p # q,
         Head(todo).do = "need" => p \notin Of,
         ptr'[p] = ptr[p], rows'[p] = rows[p]
  PROVE  AsLived(p, Lives[f][p], at + 1)'
<1> DEFINE L == Body[f]
           t == Lives[f][p]
<1>1. /\ Head(todo) = L[at + 1] /\ Len(L) \in Nat /\ Lived(L, p, t) /\ p \in Pointer
  BY AtHand
<1>2. AsLived(p, t, at) BY <1>1 DEF Executed, AsPlanned
<1> HIDE DEF L, t
<1>3. t.born \in Int /\ t.sure \in Int /\ t.gone \in Int BY <1>1, LifeType
<1> DEFINE s == L[at + 1]
<1>8. /\ s.do # "alloc" \/ s.of # {p}
      /\ s.do # "need" \/ p \notin s.of
      /\ s.do \notin {"free", "freevector"} \/ s.of # {p}
  <2>1. s.do = Head(todo).do /\ s.of = Of BY <1>1 DEF Of
  <2>2. Head(todo).do \in {"alloc", "free", "freevector"} => Of # {p} OBVIOUS
  <2> QED BY <2>1, <2>2
<1> HIDE DEF s
<1>4. t.born # at + 1 BY <1>1, <1>8, NotIts DEF s
<1>5. t.sure # at + 1 BY <1>1, <1>8, NotIts DEF s
<1>6. t.gone # at + 1 BY <1>1, <1>8, NotIts DEF s
<1>7. AsLived(p, t, at + 1)' BY <1>2, <1>3, <1>4, <1>5, <1>6, StaysInStage
<1> QED BY <1>7 DEF t

\* A matrix that no statement is about stays as it was.
LEMMA NeverLived ==
  ASSUME Programs, NEW f \in DOMAIN Body, NEW at \in Int, Executed(f, at),
         NEW p \in Pointer, p \notin DOMAIN Lives[f], ptr'[p] = ptr[p], rows'[p] = rows[p]
  PROVE  Stage(p, "uninit", 0)'
BY DEF Executed, AsPlanned, Stage

\* When every matrix is as planned, one statement more has been executed.
LEMMA OneMore ==
  ASSUME Programs, NEW f \in DOMAIN Body, fn' = f, NEW at \in Int, Executed(f, at),
         Head(todo).do # "return", todo' = Tail(todo), lost' = 0, heap' = "sound",
         \A p \in DOMAIN Lives[f] : AsLived(p, Lives[f][p], at + 1)',
         \A p \in Pointer \ DOMAIN Lives[f] : Stage(p, "uninit", 0)'
  PROVE  Straight'
<1> DEFINE L == Body[f]
<1>1. /\ Head(todo) = L[at + 1] /\ Tail(todo) = SubSeq(L, at + 2, Len(L))
      /\ at + 1 \in 1 .. Len(L) /\ Len(L) \in Nat /\ L[Len(L)].do = "return"
  BY AtHand
<1> HIDE DEF L
<1>2. at + 1 # Len(L) BY <1>1
<1>3. at + 1 \in 0 .. Len(L) - 1 /\ (at + 1) + 1 = at + 2 BY <1>1, <1>2
<1>4. todo' = SubSeq(L, (at + 1) + 1, Len(L)) BY <1>1, <1>3
<1>5. AsPlanned(Lives[f], at + 1)' BY DEF AsPlanned
<1>6. Executed(f, at + 1)' BY <1>3, <1>4, <1>5 DEF Executed, L
<1>7. Executed(fn, at + 1)' BY <1>6
<1> QED BY <1>3, <1>7 DEF Straight

\* An allocation begins a life, or fails.
LEMMA AllocateStraight ==
  ASSUME Programs, MemoryTypes, NEW f \in DOMAIN Body, fn = f, NEW at \in Int,
         Executed(f, at), Allocate
  PROVE  Straight' /\ MemoryTypes'
<1> DEFINE L == Body[f]
           T == Lives[f]
<1>1. Head(todo).do = "alloc" /\ todo' = Tail(todo) /\ fn' = f /\ lost' = lost /\ heap' = heap
  BY DEF Allocate, Doing, GoOn
<1>2. /\ Head(todo) = L[at + 1] /\ Fits(L, T, at + 1) /\ DOMAIN T \subseteq Pointer
      /\ Len(L) \in Nat /\ \A p \in DOMAIN T : Lived(L, p, T[p])
  BY AtHand
<1> HIDE DEF L, T
<1>3. PICK q \in DOMAIN T : L[at + 1] = Alloc(q, T[q].n) /\ T[q].born = at + 1 /\ Target = q
  BY <1>1, <1>2, HandIs
<1>4. Of = {q} /\ Head(todo).n = T[q].n BY <1>2, <1>3, KindOf DEF Of
<1>5. q \in Pointer /\ Lived(L, q, T[q]) BY <1>2
<1>6. T[q].n \in Int /\ T[q].sure \in Int /\ T[q].gone \in Int /\ T[q].born < T[q].sure
      /\ T[q].sure < T[q].gone
  BY <1>2, <1>5, LifeType
<1>7. AsLived(q, T[q], at) BY <1>5 DEF Executed, AsPlanned, T
<1>8. ptr[q] = "uninit" /\ rows[q] = 0 BY <1>3, <1>7 DEF AsLived, Stage
<1>9. \/ ptr' = [ptr EXCEPT ![q] = "live"] /\ rows' = [rows EXCEPT ![q] = T[q].n]
      \/ ptr' = [ptr EXCEPT ![q] = "null"] /\ rows' = rows
  BY <1>3, <1>4 DEF Allocate
<1>10. MemoryTypes' BY <1>5, <1>6, <1>9 DEF MemoryTypes
<1>11. \A p \in Pointer : p # q => ptr'[p] = ptr[p] /\ rows'[p] = rows[p]
  BY <1>9 DEF MemoryTypes
<1>12. Stage(q, "live", T[q].n)' \/ Stage(q, "null", 0)'
  BY <1>5, <1>8, <1>9 DEF MemoryTypes, Stage
<1>13. AsLived(q, T[q], at + 1)' BY <1>3, <1>6, <1>12 DEF AsLived
<1>14. ASSUME NEW p \in DOMAIN T, p # q PROVE AsLived(p, T[p], at + 1)'
  <2>1. ptr'[p] = ptr[p] /\ rows'[p] = rows[p] BY <1>2, <1>11, <1>14
  <2>2. Head(todo).do \in {"alloc", "free", "freevector"} /\ Head(todo).do # "need" BY <1>1
  <2> QED BY <1>4, <1>14, <2>1, <2>2, OthersStay DEF T
<1>15. \A p \in DOMAIN T : AsLived(p, T[p], at + 1)' BY <1>13, <1>14
<1>16. \A p \in Pointer \ DOMAIN T : Stage(p, "uninit", 0)' BY <1>11, NeverLived DEF T
<1>17. lost' = 0 /\ heap' = "sound" BY <1>1 DEF Executed
<1>18. Straight' BY <1>1, <1>15, <1>16, <1>17, OneMore DEF T
<1> QED BY <1>10, <1>18

\* A test that finds no null pointer finds all its matrices, and one that does
\* goes to cleanup.
LEMMA CheckStraight ==
  ASSUME Programs, MemoryTypes, NEW f \in DOMAIN Body, fn = f, NEW at \in Int,
         Executed(f, at), Check
  PROVE  (Straight' \/ Frees(todo')) /\ MemoryTypes'
<1> DEFINE L == Body[f]
           T == Lives[f]
<1>1. /\ Head(todo).do = "need" /\ fn' = f /\ lost' = lost /\ heap' = heap
      /\ ptr' = ptr /\ rows' = rows
  BY DEF Check, Doing
<1>2. MemoryTypes' BY <1>1 DEF MemoryTypes
<1>3. CASE \E p \in Of : ptr[p] = "null"
  <2>1. todo' = Cleanup[f] BY <1>3 DEF Check
  <2> QED BY <1>2, <2>1 DEF Programs
<1>4. CASE \A p \in Of : ptr[p] # "null"
  <2>1. /\ Head(todo) = L[at + 1] /\ Fits(L, T, at + 1) /\ DOMAIN T \subseteq Pointer
        /\ Len(L) \in Nat /\ \A p \in DOMAIN T : Lived(L, p, T[p])
    BY AtHand
  <2>2. todo' = Tail(todo) BY <1>4 DEF Check
  <2> HIDE DEF L, T
  <2>3. \A p \in Of : p \in DOMAIN T /\ T[p].sure = at + 1 BY <1>1, <2>1, HandIs
  <2>4. ASSUME NEW p \in DOMAIN T PROVE AsLived(p, T[p], at + 1)'
    <3>1. CASE p \in Of
      <4>1. AsLived(p, T[p], at) /\ Lived(L, p, T[p]) /\ p \in Pointer
        BY <2>1 DEF Executed, AsPlanned, T
      <4>2. /\ T[p].sure = at + 1 /\ T[p].born \in Int /\ T[p].gone \in Int
            /\ T[p].born < T[p].sure /\ T[p].sure < T[p].gone
        BY <2>1, <2>3, <3>1, <4>1, LifeType
      <4>3. T[p].born <= at /\ at < T[p].sure BY <4>2
      <4>4. Stage(p, "live", T[p].n) BY <1>4, <3>1, <4>1, <4>3 DEF AsLived, Stage
      <4>5. Stage(p, "live", T[p].n)' BY <1>1, <4>4 DEF Stage
      <4> QED BY <4>2, <4>5 DEF AsLived
    <3>2. CASE p \notin Of
      <4>1. ptr'[p] = ptr[p] /\ rows'[p] = rows[p] BY <1>1
      <4> QED BY <1>1, <3>2, <4>1, OthersStay DEF T
    <3> QED BY <3>1, <3>2
  <2>5. \A p \in Pointer \ DOMAIN T : Stage(p, "uninit", 0)' BY <1>1, NeverLived DEF T
  <2>6. lost' = 0 /\ heap' = "sound" BY <1>1 DEF Executed
  <2>7. Straight' BY <1>1, <2>2, <2>4, <2>5, <2>6, OneMore DEF T
  <2> QED BY <1>2, <2>7
<1> QED BY <1>3, <1>4

\* A computation changes no pointer.
LEMMA ComputeStraight ==
  ASSUME Programs, MemoryTypes, NEW f \in DOMAIN Body, fn = f, NEW at \in Int,
         Executed(f, at), Compute
  PROVE  Straight' /\ MemoryTypes'
<1> DEFINE T == Lives[f]
<1>1. /\ Head(todo).do = "use" /\ fn' = f /\ lost' = lost /\ heap' = heap
      /\ ptr' = ptr /\ rows' = rows /\ todo' = Tail(todo)
  BY DEF Compute, Doing, GoOn
<1>2. MemoryTypes' BY <1>1 DEF MemoryTypes
<1>3. ASSUME NEW p \in DOMAIN T PROVE AsLived(p, T[p], at + 1)'
  <2>1. ptr'[p] = ptr[p] /\ rows'[p] = rows[p] BY <1>1
  <2> QED BY <1>1, <2>1, OthersStay
<1>4. \A p \in Pointer \ DOMAIN T : Stage(p, "uninit", 0)' BY <1>1, NeverLived
<1>5. lost' = 0 /\ heap' = "sound" BY <1>1 DEF Executed
<1> HIDE DEF T
<1>6. Straight' BY <1>1, <1>3, <1>4, <1>5, OneMore DEF T
<1> QED BY <1>2, <1>6

\* A matrix that is freed was there with all the rows that free_matrix is told.
LEMMA FreeStraight ==
  ASSUME Programs, MemoryTypes, NEW f \in DOMAIN Body, fn = f, NEW at \in Int,
         Executed(f, at), ret = Running, Release \/ ReleaseNull \/ ReleaseWild \/ ReleaseVector
  PROVE  Straight' /\ MemoryTypes' /\ ret' = Running
<1> DEFINE L == Body[f]
           T == Lives[f]
<1>1. Head(todo).do \in {"free", "freevector"}
  BY DEF Release, ReleaseNull, ReleaseWild, ReleaseVector, Doing
<1>2. /\ Head(todo) = L[at + 1] /\ Fits(L, T, at + 1) /\ DOMAIN T \subseteq Pointer
      /\ Len(L) \in Nat /\ \A p \in DOMAIN T : Lived(L, p, T[p])
  BY AtHand
<1> HIDE DEF L, T
<1>3. PICK q \in DOMAIN T : /\ L[at + 1] \in {Free(q, T[q].n), FreeVector(q)}
                            /\ T[q].gone = at + 1 /\ Target = q
  BY <1>1, <1>2, HandIs
<1>4. Of = {q} /\ (Head(todo).do = "free" => Head(todo).n = T[q].n)
  BY <1>2, <1>3, KindOf DEF Of
<1>5. q \in Pointer /\ Lived(L, q, T[q]) BY <1>2
<1>6. T[q].n \in Int /\ T[q].sure \in Int /\ T[q].gone \in Int /\ T[q].born \in Int
      /\ T[q].born < T[q].sure /\ T[q].sure < T[q].gone
  BY <1>2, <1>5, LifeType
<1>7. AsLived(q, T[q], at) BY <1>5 DEF Executed, AsPlanned, T
<1>8. T[q].sure <= at /\ at < T[q].gone BY <1>3, <1>6
<1>9. ptr[q] = "live" /\ rows[q] = T[q].n BY <1>7, <1>8 DEF AsLived, Stage
<1>10. lost = 0 /\ heap = "sound" BY DEF Executed
<1>11. /\ ptr' = [ptr EXCEPT ![q] = "null"] /\ rows' = [rows EXCEPT ![q] = 0]
       /\ todo' = Tail(todo) /\ fn' = f /\ heap' = "sound" /\ lost' = 0 /\ ret' = Running
  <2>1. CASE Release
    <3>1. Head(todo).do = "free" /\ lost' = lost + (rows[q] - Head(todo).n)
      BY <1>3, <2>1 DEF Release, Doing
    <3>2. lost' = 0 BY <1>4, <1>6, <1>9, <1>10, <3>1
    <3> QED BY <1>3, <1>10, <2>1, <3>2 DEF Release, GoOn
  <2>2. ~ ReleaseNull BY <1>3, <1>9 DEF ReleaseNull
  <2>3. ~ ReleaseWild
    <3>1. Head(todo).do = "free" => ~ (Head(todo).n > rows[q]) BY <1>4, <1>6, <1>9
    <3> QED BY <1>3, <3>1 DEF ReleaseWild, Doing
  <2>4. CASE ReleaseVector BY <1>3, <1>9, <1>10, <2>4 DEF ReleaseVector, GoOn
  <2> QED BY <2>1, <2>2, <2>3, <2>4
<1>12. MemoryTypes' BY <1>5, <1>11 DEF MemoryTypes
<1>13. \A p \in Pointer : p # q => ptr'[p] = ptr[p] /\ rows'[p] = rows[p]
  BY <1>11 DEF MemoryTypes
<1>14. Stage(q, "null", 0)' BY <1>5, <1>11 DEF MemoryTypes, Stage
<1>15. AsLived(q, T[q], at + 1)' BY <1>3, <1>6, <1>14 DEF AsLived
<1>16. ASSUME NEW p \in DOMAIN T, p # q PROVE AsLived(p, T[p], at + 1)'
  <2>1. ptr'[p] = ptr[p] /\ rows'[p] = rows[p] BY <1>2, <1>13, <1>16
  <2> QED BY <1>1, <1>4, <1>16, <2>1, OthersStay DEF T
<1>17. \A p \in DOMAIN T : AsLived(p, T[p], at + 1)' BY <1>15, <1>16
<1>18. \A p \in Pointer \ DOMAIN T : Stage(p, "uninit", 0)' BY <1>13, NeverLived DEF T
<1>19. Straight' BY <1>1, <1>11, <1>17, <1>18, OneMore DEF T
<1> QED BY <1>11, <1>12, <1>19

\* At the end of a function all its matrices are gone.
LEMMA ReturnStraight ==
  ASSUME Programs, MemoryTypes, NEW f \in DOMAIN Body, NEW at \in Int,
         Executed(f, at), Return
  PROVE  NothingLeft'
<1> DEFINE L == Body[f]
           T == Lives[f]
<1>1. /\ Head(todo).do = "return" /\ lost' = lost /\ heap' = heap /\ ptr' = ptr
  BY DEF Return, Doing
<1>2. /\ Head(todo) = L[at + 1] /\ Fits(L, T, at + 1)
      /\ Len(L) \in Nat /\ \A p \in DOMAIN T : Lived(L, p, T[p])
  BY AtHand
<1>3. lost = 0 /\ heap = "sound" /\ AsPlanned(T, at) BY DEF Executed
<1> HIDE DEF L, T
<1>4. at + 1 = Len(L) BY <1>1, <1>2, HandIs
<1>5. ASSUME NEW p \in Pointer PROVE ptr[p] # "live"
  <2>1. CASE p \in DOMAIN T
    <3>1. AsLived(p, T[p], at) /\ Lived(L, p, T[p]) BY <1>2, <1>3, <2>1 DEF AsPlanned
    <3>2. T[p].gone \in Int /\ T[p].gone < Len(L) BY <1>2, <3>1, LifeType
    <3>3. T[p].gone <= at BY <1>4, <3>2
    <3> QED BY <3>1, <3>3 DEF AsLived, Stage
  <2>2. CASE p \notin DOMAIN T BY <1>3, <2>2 DEF AsPlanned, Stage
  <2> QED BY <2>1, <2>2
<1> QED BY <1>1, <1>3, <1>5 DEF NothingLeft

\* After a failure nothing is done but to free; the process is killed by that,
\* or the function returns -2.
LEMMA FreesStep ==
  ASSUME MemoryTypes, Frees(todo), ret = Running, MemoryNext
  PROVE  /\ ret' = Running => Frees(todo')
         /\ ret' \in {Running, Faulted, -2}
         /\ fn' = fn
         /\ MemoryTypes'
<1>1. /\ Head(todo).do \in {"free", "freevector", "return"}
      /\ Head(todo).do = "return" => Head(todo).of = {-2}
      /\ Head(todo).do # "return" => Frees(Tail(todo))
  BY FreesOn
<1>2. ~ Allocate /\ ~ Check /\ ~ Compute BY <1>1 DEF Allocate, Check, Compute, Doing
<1>3. CASE Return
  <2>1. ret' \in Head(todo).of /\ Head(todo).do = "return"
        /\ ptr' = ptr /\ rows' = rows /\ fn' = fn
    BY <1>3 DEF Return, Of, Doing
  <2>2. ret' = -2 BY <1>1, <2>1
  <2> QED BY <2>1, <2>2 DEF MemoryTypes, Running
<1>4. CASE Fault /\ ~ Return
  <2>1. ret' = Faulted /\ ptr' = ptr /\ rows' = rows /\ fn' = fn BY <1>4 DEF Fault
  <2> QED BY <2>1 DEF MemoryTypes, Running, Faulted
<1>5. CASE (Release \/ ReleaseNull \/ ReleaseWild \/ ReleaseVector) /\ ~ Fault
  <2>1. /\ Head(todo).do # "return" /\ todo' = Tail(todo) /\ fn' = fn /\ ret' = ret
        /\ ptr' = [ptr EXCEPT ![Target] = "null"]
        /\ rows' = [rows EXCEPT ![Target] = 0]
    <3>1. CASE Release BY <3>1 DEF Release, Doing, GoOn
    <3>2. CASE ReleaseWild BY <1>5, <3>2 DEF ReleaseWild, Doing, GoOn
    <3>3. CASE ReleaseVector BY <3>3 DEF ReleaseVector, Doing, GoOn
    <3> QED BY <1>5, <3>1, <3>2, <3>3 DEF ReleaseNull
  <2>2. Frees(todo') BY <1>1, <2>1
  <2>3. MemoryTypes'
    <3> DEFINE q == Target
    <3>1. ptr' = [ptr EXCEPT ![q] = "null"] /\ rows' = [rows EXCEPT ![q] = 0] BY <2>1
    <3> HIDE DEF q
    <3>2. ptr' \in [Pointer -> {"uninit", "null", "live"}] BY <3>1 DEF MemoryTypes
    <3>3. q \notin Pointer => rows' = rows BY <3>1 DEF MemoryTypes
    <3>4. q \in Pointer => rows' \in [Pointer -> Int] BY <3>1 DEF MemoryTypes
    <3> QED BY <3>2, <3>3, <3>4 DEF MemoryTypes
  <2> QED BY <2>1, <2>2, <2>3
<1> QED BY <1>2, <1>3, <1>4, <1>5 DEF MemoryNext, ReleaseNull, ReleaseWild

\* The invariant holds at the start.
LEMMA MemoryStart == ASSUME Programs PROVE MemoryInit => MemoryInv
<1> SUFFICES ASSUME MemoryInit PROVE MemoryInv OBVIOUS
<1>1. PICK f \in DOMAIN Body : fn = f BY DEF MemoryInit
<1>2. /\ todo = Body[f] /\ lost = 0 /\ heap = "sound" /\ ret = Running
      /\ \A p \in Pointer : ptr[p] = "uninit" /\ rows[p] = 0
  BY <1>1 DEF MemoryInit
<1>3. MemoryTypes BY DEF MemoryInit, MemoryTypes
<1>4. Disciplined(Body[f], Lives[f]) BY DEF Programs
<1>5. Body[f] \in Seq(Statement) /\ Body[f] # << >> BY <1>4 DEF Disciplined
<1>6. Len(Body[f]) \in Nat /\ 0 \in 0 .. Len(Body[f]) - 1 BY <1>5
<1>7. todo = SubSeq(Body[f], 0 + 1, Len(Body[f])) BY <1>2, <1>5, SubSeqFull
<1>8. AsPlanned(Lives[f], 0)
  <2>1. ASSUME NEW p \in DOMAIN Lives[f] PROVE AsLived(p, Lives[f][p], 0)
    <3>1. Lived(Body[f], p, Lives[f][p]) /\ p \in Pointer BY <1>4 DEF Disciplined
    <3> DEFINE t == Lives[f][p]
    <3>2. t.born \in Int /\ t.sure \in Int /\ t.gone \in Int
          /\ 0 < t.born /\ t.born < t.sure /\ t.sure < t.gone
      BY <1>6, <3>1, LifeType
    <3>3. Stage(p, "uninit", 0) BY <1>2, <3>1 DEF Stage
    <3> HIDE DEF t
    <3>4. AsLived(p, t, 0) BY <3>2, <3>3 DEF AsLived
    <3> QED BY <3>4 DEF t
  <2> QED BY <1>2, <2>1 DEF AsPlanned, Stage
<1>9. Executed(f, 0) BY <1>2, <1>6, <1>7, <1>8 DEF Executed
<1>10. Straight BY <1>1, <1>9 DEF Straight
<1>11. NothingLeft BY <1>2 DEF NothingLeft, Running
<1> QED BY <1>1, <1>3, <1>10, <1>11 DEF MemoryInv

\* And after every step.
LEMMA MemoryStep == ASSUME Programs PROVE MemoryInv /\ [MemoryNext]_memoryVars => MemoryInv'
<1> SUFFICES ASSUME MemoryInv, [MemoryNext]_memoryVars PROVE MemoryInv' OBVIOUS
<1>1. CASE UNCHANGED memoryVars
  BY <1>1 DEF memoryVars, MemoryInv, MemoryTypes, Straight, Executed, AsPlanned, AsLived,
              Stage, NothingLeft
<1>2. CASE MemoryNext
  <2>1. ret = Running
    BY <1>2 DEF MemoryNext, Allocate, Check, Compute, Return, Release, ReleaseNull,
                ReleaseWild, ReleaseVector, Doing
  <2>2. MemoryTypes /\ fn \in DOMAIN Body BY DEF MemoryInv
  <2>3. CASE Frees(todo)
    <3>1. /\ ret' = Running => Frees(todo')
          /\ ret' \in {Running, Faulted, -2} /\ fn' = fn /\ MemoryTypes'
      BY <1>2, <2>1, <2>2, <2>3, FreesStep
    <3>2. NothingLeft' BY <3>1 DEF NothingLeft, Running, Faulted
    <3> QED BY <2>2, <3>1, <3>2 DEF MemoryInv
  <2>4. CASE Straight
    <3>1. PICK f \in DOMAIN Body, at \in Int : fn = f /\ Executed(f, at)
      BY <2>2, <2>4 DEF Straight
    <3>2. Running \notin {0, -1} BY DEF Running
    <3>3. CASE Allocate
      <4>1. Straight' /\ MemoryTypes' BY <2>2, <3>1, <3>3, AllocateStraight
      <4>2. ret' = Running /\ fn' = f BY <2>1, <3>1, <3>3 DEF Allocate
      <4> QED BY <3>2, <4>1, <4>2 DEF MemoryInv, NothingLeft
    <3>4. CASE Check
      <4>1. (Straight' \/ Frees(todo')) /\ MemoryTypes' BY <2>2, <3>1, <3>4, CheckStraight
      <4>2. ret' = Running /\ fn' = f BY <2>1, <3>1, <3>4 DEF Check
      <4> QED BY <3>2, <4>1, <4>2 DEF MemoryInv, NothingLeft
    <3>5. CASE Compute
      <4>1. Straight' /\ MemoryTypes' BY <2>2, <3>1, <3>5, ComputeStraight
      <4>2. ret' = Running /\ fn' = f BY <2>1, <3>1, <3>5 DEF Compute
      <4> QED BY <3>2, <4>1, <4>2 DEF MemoryInv, NothingLeft
    <3>6. CASE Release \/ ReleaseNull \/ ReleaseWild \/ ReleaseVector
      <4>1. Straight' /\ MemoryTypes' /\ ret' = Running
        BY <2>1, <2>2, <3>1, <3>6, FreeStraight
      <4>2. fn' = f
        BY <3>1, <3>6 DEF Release, ReleaseNull, ReleaseWild, ReleaseVector, Fault
      <4> QED BY <3>2, <4>1, <4>2 DEF MemoryInv, NothingLeft
    <3>7. CASE Return
      <4>1. NothingLeft' BY <2>2, <3>1, <3>7, ReturnStraight
      <4>2. fn' = f /\ ptr' = ptr /\ rows' = rows BY <3>1, <3>7 DEF Return
      <4>3. ret' # Running
        <5>1. Head(todo).do = "return" /\ ret' \in Head(todo).of
          BY <3>7 DEF Return, Doing, Of
        <5>2. Head(todo) = Body[f][at + 1] /\ Fits(Body[f], Lives[f], at + 1) BY <3>1, AtHand
        <5>3. Head(todo).of \subseteq Results BY <5>1, <5>2 DEF Fits
        <5> QED BY <5>1, <5>3 DEF Running, Results
      <4> QED BY <2>2, <4>1, <4>2, <4>3 DEF MemoryInv, MemoryTypes
    <3> QED BY <1>2, <3>3, <3>4, <3>5, <3>6, <3>7 DEF MemoryNext
  <2> QED BY <2>1, <2>3, <2>4 DEF MemoryInv
<1> QED BY <1>1, <1>2

\* What the invariant says of a computation.
LEMMA UsesFromInv == ASSUME Programs PROVE MemoryInv => UsesLive
<1> SUFFICES ASSUME MemoryInv, Doing("use"), NEW p \in Of PROVE ptr[p] = "live"
  BY DEF UsesLive
<1>1. Head(todo).do = "use" /\ ret = Running BY DEF Doing
<1>2. ~ Frees(todo) BY <1>1, FreesOn
<1>3. PICK f \in DOMAIN Body, at \in Int : Executed(f, at)
  BY <1>1, <1>2 DEF MemoryInv, Straight
<1> DEFINE L == Body[f]
           T == Lives[f]
<1>4. /\ Head(todo) = L[at + 1] /\ Fits(L, T, at + 1) /\ DOMAIN T \subseteq Pointer
      /\ Len(L) \in Nat /\ \A q \in DOMAIN T : Lived(L, q, T[q])
  BY <1>3, AtHand
<1>5. AsPlanned(T, at) BY <1>3 DEF Executed
<1> HIDE DEF L, T
<1>6. p \in DOMAIN T /\ T[p].sure < at + 1 /\ at + 1 < T[p].gone BY <1>1, <1>4, HandIs
<1>7. AsLived(p, T[p], at) /\ Lived(L, p, T[p]) BY <1>4, <1>5, <1>6 DEF AsPlanned
<1>8. T[p].sure \in Int /\ T[p].gone \in Int BY <1>4, <1>7, LifeType
<1>9. T[p].sure <= at /\ at < T[p].gone BY <1>6, <1>8
<1> QED BY <1>7, <1>9 DEF AsLived, Stage

-----------------------------------------------------------------------------
(* The three functions *)

\* The lifetimes in key_gen, one by one.
LEMMA KeyGenLivesAre ==
  /\ DOMAIN KeyGenLives = {"C", "H", "CP", "T", "TM", "Linv", "Uinv", "Binv", "TBinv",
                            "A"}
  /\ KeyGenLives["C"] = Life(M, 1, 4, 31)
  /\ KeyGenLives["H"] = Life(M, 2, 4, 6)
  /\ KeyGenLives["CP"] = Life(M + 1, 3, 4, 7)
  /\ KeyGenLives["T"] = Life(K * N, 8, 9, 26)
  /\ KeyGenLives["TM"] = Life(N, 11, 14, 17)
  /\ KeyGenLives["Linv"] = Life(N, 12, 14, 21)
  /\ KeyGenLives["Uinv"] = Life(N, 13, 14, 22)
  /\ KeyGenLives["Binv"] = Life(N, 18, 19, 27)
  /\ KeyGenLives["TBinv"] = Life(K * N, 23, 24, 32)
  /\ KeyGenLives["A"] = Life(M, 28, 29, 34)
BY DEF KeyGenLives

\* key_gen is a sequence of 35 statements, the last of which returns.
LEMMA KeyGenType ==
  /\ KeyGen \in Seq(Statement) /\ KeyGen # << >>
  /\ Len(KeyGen) = 35 /\ KeyGen[35].do = "return"
<1>1. Len(KeyGen) = 35 BY SMTT(60) DEF KeyGen
<1>2. KeyGen \in Seq(Statement)
  BY DimensionAssumption, SMTT(60)
     DEF KeyGen, Alloc, Need, Use, Free, FreeVector, Result, Statement, Pointer, Kinds
<1>3. Len(<< >>) # 35 OBVIOUS
<1>4. KeyGen # << >> BY <1>1, <1>3, Zenon
<1>5. KeyGen[35].do = "return" BY DEF KeyGen, Result
<1> QED BY <1>1, <1>2, <1>4, <1>5

\* The lives begin and end where the lifetimes say.
LEMMA KeyGenLived == \A p \in DOMAIN KeyGenLives : Lived(KeyGen, p, KeyGenLives[p])
<1> DEFINE At(p) == Lived(KeyGen, p, KeyGenLives[p])
<1>0. Len(KeyGen) = 35 BY KeyGenType
<1> USE <1>0, KeyGenLivesAre, DimensionAssumption
    DEF Lived, KeyGen, Life, Alloc, Need, Free, FreeVector
<1>1. At("C") OBVIOUS
<1>2. At("H") OBVIOUS
<1>3. At("CP") OBVIOUS
<1>4. At("T") OBVIOUS
<1>5. At("TM") OBVIOUS
<1>6. At("Linv") OBVIOUS
<1>7. At("Uinv") OBVIOUS
<1>8. At("Binv") OBVIOUS
<1>9. At("TBinv") OBVIOUS
<1>10. At("A") OBVIOUS
<1> HIDE DEF At
<1>11. \A p \in DOMAIN KeyGenLives : At(p)
  BY <1>1, <1>2, <1>3, <1>4, <1>5, <1>6, <1>7, <1>8, <1>9, <1>10
<1> QED BY <1>11 DEF At

\* Every statement comes at its time.
LEMMA KeyGenFits == \A k \in 1 .. Len(KeyGen) : Fits(KeyGen, KeyGenLives, k)
<1> DEFINE At(k) == Fits(KeyGen, KeyGenLives, k)
<1>0. Len(KeyGen) = 35 BY KeyGenType
<1> USE <1>0, KeyGenLivesAre
    DEF Fits, Life, KeyGen, Alloc, Need, Use, Free, FreeVector, Result, Results
<1>1. At(1) OBVIOUS      <1>2. At(2) OBVIOUS      <1>3. At(3) OBVIOUS
<1>4. At(4) OBVIOUS      <1>5. At(5) OBVIOUS      <1>6. At(6) OBVIOUS
<1>7. At(7) OBVIOUS      <1>8. At(8) OBVIOUS      <1>9. At(9) OBVIOUS
<1>10. At(10) OBVIOUS    <1>11. At(11) OBVIOUS    <1>12. At(12) OBVIOUS
<1>13. At(13) OBVIOUS    <1>14. At(14) OBVIOUS    <1>15. At(15) OBVIOUS
<1>16. At(16) OBVIOUS    <1>17. At(17) OBVIOUS    <1>18. At(18) OBVIOUS
<1>19. At(19) OBVIOUS    <1>20. At(20) OBVIOUS    <1>21. At(21) OBVIOUS
<1>22. At(22) OBVIOUS    <1>23. At(23) OBVIOUS    <1>24. At(24) OBVIOUS
<1>25. At(25) OBVIOUS    <1>26. At(26) OBVIOUS    <1>27. At(27) OBVIOUS
<1>28. At(28) OBVIOUS    <1>29. At(29) OBVIOUS    <1>30. At(30) OBVIOUS
<1>31. At(31) OBVIOUS    <1>32. At(32) OBVIOUS    <1>33. At(33) OBVIOUS
<1>34. At(34) OBVIOUS    <1>35. At(35) OBVIOUS
<1> HIDE DEF At, Fits
<1>36. \A k \in 1 .. 35 : At(k)
  BY <1>1, <1>2, <1>3, <1>4, <1>5, <1>6, <1>7, <1>8, <1>9, <1>10, <1>11, <1>12, <1>13,
     <1>14, <1>15, <1>16, <1>17, <1>18, <1>19, <1>20, <1>21, <1>22, <1>23, <1>24, <1>25,
     <1>26, <1>27, <1>28, <1>29, <1>30, <1>31, <1>32, <1>33, <1>34, <1>35
<1> QED BY <1>36 DEF At

\* key_gen uses no matrix but in its life.
LEMMA KeyGenDisciplined == Disciplined(KeyGen, KeyGenLives)
<1>1. DOMAIN KeyGenLives \subseteq Pointer BY KeyGenLivesAre DEF Pointer
<1> QED BY <1>1, KeyGenType, KeyGenFits, KeyGenLived DEF Disciplined

\* What key_gen does after `cleanup'.
LEMMA KeyGenCleanupFrees == Frees(KeyGenCleanup)
<1>1. KeyGenCleanup \in Seq(Statement) /\ Len(KeyGenCleanup) = 11
  BY DimensionAssumption, SMTT(60)
     DEF KeyGenCleanup, Free, FreeVector, Result, Statement, Pointer, Kinds
<1> QED BY <1>1, SMTT(60) DEF KeyGenCleanup, Free, FreeVector, Result, Frees

\* The lifetimes in sig_gen, one by one.
LEMMA SigGenLivesAre ==
  /\ DOMAIN SigGenLives = {"C", "C1_index", "C1_value", "T", "B", "LM", "UM", "h",
                            "C1cp", "y", "a", "z", "x"}
  /\ SigGenLives["C"] = Life(M, 1, 4, 29)
  /\ SigGenLives["C1_index"] = Life(M, 2, 4, 30)
  /\ SigGenLives["C1_value"] = Life(M, 3, 4, 31)
  /\ SigGenLives["T"] = Life(K * N, 6, 7, 32)
  /\ SigGenLives["B"] = Life(N, 9, 12, 40)
  /\ SigGenLives["LM"] = Life(N, 10, 12, 16)
  /\ SigGenLives["UM"] = Life(N, 11, 12, 17)
  /\ SigGenLives["h"] = Life(M, 18, 19, 33)
  /\ SigGenLives["C1cp"] = Life(1, 21, 22, 34)
  /\ SigGenLives["y"] = Life(N, 24, 27, 41)
  /\ SigGenLives["a"] = Life(M + D, 25, 27, 35)
  /\ SigGenLives["z"] = Life(K * N, 26, 27, 36)
  /\ SigGenLives["x"] = Life(N, 37, 38, 43)
BY DEF SigGenLives

\* sig_gen is a sequence of 44 statements, the last of which returns.
LEMMA SigGenType ==
  /\ SigGen \in Seq(Statement) /\ SigGen # << >>
  /\ Len(SigGen) = 44 /\ SigGen[44].do = "return"
<1>1. Len(SigGen) = 44 BY SMTT(60) DEF SigGen
<1>2. SigGen \in Seq(Statement)
  BY DimensionAssumption, SMTT(60)
     DEF SigGen, Alloc, Need, Use, Free, FreeVector, Result, Statement, Pointer, Kinds
<1>3. Len(<< >>) # 44 OBVIOUS
<1>4. SigGen # << >> BY <1>1, <1>3, Zenon
<1>5. SigGen[44].do = "return" BY DEF SigGen, Result
<1> QED BY <1>1, <1>2, <1>4, <1>5

\* The lives begin and end where the lifetimes say.
LEMMA SigGenLived == \A p \in DOMAIN SigGenLives : Lived(SigGen, p, SigGenLives[p])
<1> DEFINE At(p) == Lived(SigGen, p, SigGenLives[p])
<1>0. Len(SigGen) = 44 BY SigGenType
<1> USE <1>0, SigGenLivesAre, DimensionAssumption
    DEF Lived, SigGen, Life, Alloc, Need, Free, FreeVector
<1>1. At("C") OBVIOUS
<1>2. At("C1_index") OBVIOUS
<1>3. At("C1_value") OBVIOUS
<1>4. At("T") OBVIOUS
<1>5. At("B") OBVIOUS
<1>6. At("LM") OBVIOUS
<1>7. At("UM") OBVIOUS
<1>8. At("h") OBVIOUS
<1>9. At("C1cp") OBVIOUS
<1>10. At("y") OBVIOUS
<1>11. At("a") OBVIOUS
<1>12. At("z") OBVIOUS
<1>13. At("x") OBVIOUS
<1> HIDE DEF At
<1>14. \A p \in DOMAIN SigGenLives : At(p)
  BY <1>1, <1>2, <1>3, <1>4, <1>5, <1>6, <1>7, <1>8, <1>9, <1>10, <1>11, <1>12, <1>13
<1> QED BY <1>14 DEF At

\* Every statement comes at its time.
LEMMA SigGenFits == \A k \in 1 .. Len(SigGen) : Fits(SigGen, SigGenLives, k)
<1> DEFINE At(k) == Fits(SigGen, SigGenLives, k)
<1>0. Len(SigGen) = 44 BY SigGenType
<1> USE <1>0, SigGenLivesAre
    DEF Fits, Life, SigGen, Alloc, Need, Use, Free, FreeVector, Result, Results
<1>1. At(1) OBVIOUS      <1>2. At(2) OBVIOUS      <1>3. At(3) OBVIOUS
<1>4. At(4) OBVIOUS      <1>5. At(5) OBVIOUS      <1>6. At(6) OBVIOUS
<1>7. At(7) OBVIOUS      <1>8. At(8) OBVIOUS      <1>9. At(9) OBVIOUS
<1>10. At(10) OBVIOUS    <1>11. At(11) OBVIOUS    <1>12. At(12) OBVIOUS
<1>13. At(13) OBVIOUS    <1>14. At(14) OBVIOUS    <1>15. At(15) OBVIOUS
<1>16. At(16) OBVIOUS    <1>17. At(17) OBVIOUS    <1>18. At(18) OBVIOUS
<1>19. At(19) OBVIOUS    <1>20. At(20) OBVIOUS    <1>21. At(21) OBVIOUS
<1>22. At(22) OBVIOUS    <1>23. At(23) OBVIOUS    <1>24. At(24) OBVIOUS
<1>25. At(25) OBVIOUS    <1>26. At(26) OBVIOUS    <1>27. At(27) OBVIOUS
<1>28. At(28) OBVIOUS    <1>29. At(29) OBVIOUS    <1>30. At(30) OBVIOUS
<1>31. At(31) OBVIOUS    <1>32. At(32) OBVIOUS    <1>33. At(33) OBVIOUS
<1>34. At(34) OBVIOUS    <1>35. At(35) OBVIOUS    <1>36. At(36) OBVIOUS
<1>37. At(37) OBVIOUS    <1>38. At(38) OBVIOUS    <1>39. At(39) OBVIOUS
<1>40. At(40) OBVIOUS    <1>41. At(41) OBVIOUS    <1>42. At(42) OBVIOUS
<1>43. At(43) OBVIOUS    <1>44. At(44) OBVIOUS
<1> HIDE DEF At, Fits
<1>45. \A k \in 1 .. 44 : At(k)
  BY <1>1, <1>2, <1>3, <1>4, <1>5, <1>6, <1>7, <1>8, <1>9, <1>10, <1>11, <1>12, <1>13,
     <1>14, <1>15, <1>16, <1>17, <1>18, <1>19, <1>20, <1>21, <1>22, <1>23, <1>24, <1>25,
     <1>26, <1>27, <1>28, <1>29, <1>30, <1>31, <1>32, <1>33, <1>34, <1>35, <1>36, <1>37,
     <1>38, <1>39, <1>40, <1>41, <1>42, <1>43, <1>44
<1> QED BY <1>45 DEF At

\* sig_gen uses no matrix but in its life.
LEMMA SigGenDisciplined == Disciplined(SigGen, SigGenLives)
<1>1. DOMAIN SigGenLives \subseteq Pointer BY SigGenLivesAre DEF Pointer
<1> QED BY <1>1, SigGenType, SigGenFits, SigGenLived DEF Disciplined

\* What sig_gen does after `cleanup'.
LEMMA SigGenCleanupFrees == Frees(SigGenCleanup)
<1>1. SigGenCleanup \in Seq(Statement) /\ Len(SigGenCleanup) = 14
  BY DimensionAssumption, SMTT(60)
     DEF SigGenCleanup, Free, FreeVector, Result, Statement, Pointer, Kinds
<1> QED BY <1>1, SMTT(60) DEF SigGenCleanup, Free, FreeVector, Result, Frees

\* The lifetimes in sig_ver, one by one.
LEMMA SigVerLivesAre ==
  /\ DOMAIN SigVerLives = {"A", "x", "Ax", "h"}
  /\ SigVerLives["A"] = Life(M, 1, 3, 9)
  /\ SigVerLives["x"] = Life(N, 2, 3, 10)
  /\ SigVerLives["Ax"] = Life(M, 6, 7, 16)
  /\ SigVerLives["h"] = Life(M, 11, 12, 15)
BY DEF SigVerLives

\* sig_ver is a sequence of 17 statements, the last of which returns.
LEMMA SigVerType ==
  /\ SigVer \in Seq(Statement) /\ SigVer # << >>
  /\ Len(SigVer) = 17 /\ SigVer[17].do = "return"
<1>1. Len(SigVer) = 17 BY SMTT(60) DEF SigVer
<1>2. SigVer \in Seq(Statement)
  BY DimensionAssumption, SMTT(60)
     DEF SigVer, Alloc, Need, Use, Free, FreeVector, Result, Statement, Pointer, Kinds
<1>3. Len(<< >>) # 17 OBVIOUS
<1>4. SigVer # << >> BY <1>1, <1>3, Zenon
<1>5. SigVer[17].do = "return" BY DEF SigVer, Result
<1> QED BY <1>1, <1>2, <1>4, <1>5

\* The lives begin and end where the lifetimes say.
LEMMA SigVerLived == \A p \in DOMAIN SigVerLives : Lived(SigVer, p, SigVerLives[p])
<1> DEFINE At(p) == Lived(SigVer, p, SigVerLives[p])
<1>0. Len(SigVer) = 17 BY SigVerType
<1> USE <1>0, SigVerLivesAre, DimensionAssumption
    DEF Lived, SigVer, Life, Alloc, Need, Free, FreeVector
<1>1. At("A") OBVIOUS
<1>2. At("x") OBVIOUS
<1>3. At("Ax") OBVIOUS
<1>4. At("h") OBVIOUS
<1> HIDE DEF At
<1>5. \A p \in DOMAIN SigVerLives : At(p)
  BY <1>1, <1>2, <1>3, <1>4
<1> QED BY <1>5 DEF At

\* Every statement comes at its time.
LEMMA SigVerFits == \A k \in 1 .. Len(SigVer) : Fits(SigVer, SigVerLives, k)
<1> DEFINE At(k) == Fits(SigVer, SigVerLives, k)
<1>0. Len(SigVer) = 17 BY SigVerType
<1> USE <1>0, SigVerLivesAre
    DEF Fits, Life, SigVer, Alloc, Need, Use, Free, FreeVector, Result, Results
<1>1. At(1) OBVIOUS      <1>2. At(2) OBVIOUS      <1>3. At(3) OBVIOUS
<1>4. At(4) OBVIOUS      <1>5. At(5) OBVIOUS      <1>6. At(6) OBVIOUS
<1>7. At(7) OBVIOUS      <1>8. At(8) OBVIOUS      <1>9. At(9) OBVIOUS
<1>10. At(10) OBVIOUS    <1>11. At(11) OBVIOUS    <1>12. At(12) OBVIOUS
<1>13. At(13) OBVIOUS    <1>14. At(14) OBVIOUS    <1>15. At(15) OBVIOUS
<1>16. At(16) OBVIOUS    <1>17. At(17) OBVIOUS
<1> HIDE DEF At, Fits
<1>18. \A k \in 1 .. 17 : At(k)
  BY <1>1, <1>2, <1>3, <1>4, <1>5, <1>6, <1>7, <1>8, <1>9, <1>10, <1>11, <1>12, <1>13,
     <1>14, <1>15, <1>16, <1>17
<1> QED BY <1>18 DEF At

\* sig_ver uses no matrix but in its life.
LEMMA SigVerDisciplined == Disciplined(SigVer, SigVerLives)
<1>1. DOMAIN SigVerLives \subseteq Pointer BY SigVerLivesAre DEF Pointer
<1> QED BY <1>1, SigVerType, SigVerFits, SigVerLived DEF Disciplined

\* What sig_ver does after `cleanup'.
LEMMA SigVerCleanupFrees == Frees(SigVerCleanup)
<1>1. SigVerCleanup \in Seq(Statement) /\ Len(SigVerCleanup) = 5
  BY DimensionAssumption, SMTT(60)
     DEF SigVerCleanup, Free, FreeVector, Result, Statement, Pointer, Kinds
<1> QED BY <1>1, SMTT(60) DEF SigVerCleanup, Free, FreeVector, Result, Frees

\* All three functions are programs of this kind.
LEMMA ProgramsAre == Programs
<1>1. DOMAIN Body = {"key_gen", "sig_gen", "sig_ver"} BY DEF Body
<1>2. /\ Body["key_gen"] = KeyGen /\ Body["sig_gen"] = SigGen /\ Body["sig_ver"] = SigVer
  BY DEF Body
<1>3. /\ Lives["key_gen"] = KeyGenLives /\ Lives["sig_gen"] = SigGenLives
      /\ Lives["sig_ver"] = SigVerLives
  BY DEF Lives
<1>4. /\ Cleanup["key_gen"] = KeyGenCleanup /\ Cleanup["sig_gen"] = SigGenCleanup
      /\ Cleanup["sig_ver"] = SigVerCleanup
  BY DEF Cleanup
<1> QED
  BY <1>1, <1>2, <1>3, <1>4, KeyGenDisciplined, SigGenDisciplined, SigVerDisciplined,
     KeyGenCleanupFrees, SigGenCleanupFrees, SigVerCleanupFrees
  DEF Programs

-----------------------------------------------------------------------------
(* The theorems *)

\* The invariant holds in every state that can be reached.
THEOREM MemoryInvariance == MemorySpec => []MemoryInv
<1>1. MemoryInit => MemoryInv BY ProgramsAre, MemoryStart
<1>2. MemoryInv /\ [MemoryNext]_memoryVars => MemoryInv' BY ProgramsAre, MemoryStep
<1> QED BY <1>1, <1>2, PTL DEF MemorySpec

\* UsesLive: whatever allocation fails, no function reads or writes a matrix
\* before it is allocated or after it is freed.
THEOREM UsesLiveTheorem == MemorySpec => []UsesLive
<1>1. MemoryInv => UsesLive BY ProgramsAre, UsesFromInv
<1> QED BY <1>1, MemoryInvariance, PTL

\* NothingLeft: a function that returns an answer has freed all it allocated.
THEOREM NothingLeftTheorem == MemorySpec => []NothingLeft
<1>1. MemoryInv => NothingLeft BY DEF MemoryInv
<1> QED BY <1>1, MemoryInvariance, PTL
=============================================================================
