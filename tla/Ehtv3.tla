------------------------------- MODULE Ehtv3 -------------------------------
(***************************************************************************)
(* A key pair, a signature and its verification: key_gen, sig_gen and      *)
(* sig_ver.  The secret key is the seed of the generator from which        *)
(* key_gen drew its matrices, and sig_gen draws them again from that seed, *)
(* as does eht_printsk: the programs never exchange a matrix, so they have *)
(* to consume one random stream in the same order, although key_gen        *)
(* rejects matrices on its way and the others reject none.  sig_ver and    *)
(* eht_sigparse know no more than the public key and the signature.  C is  *)
(* drawn by GenerateC, one NIST_rng call at a time; the fill loops of T, L *)
(* and U, which have no branch, are one action each, as are the matrix     *)
(* computations between two draws.                                         *)
(***************************************************************************)
EXTENDS LinearAlgebra, Sequences

CONSTANTS M, D, NORM1, NORM2,   \* as in GenerateC
          N,           \* columns of T
          K,           \* rows of T per column, M + D = K * N
          TUPPLE,      \* the diagonal tuple <<t1, t2>> of T, indexed from 0
          ZBOUND,      \* the bound C of parameters.c on the entries of z
          S, L,        \* how far an error may be from zero, and how many must be
          SEEDBYTES,   \* random bytes in the secret key (48)
          Seeds,       \* generator seeds at the call of key_gen
          Messages,    \* messages to be signed
          Rand(_, _),  \* the n-th 32-bit draw after randombytes_init(seed)
          Hash(_),     \* hash_of_message: a vector over Upto(M), modulo Q
          MaxTries     \* bound on the rejection loop of sig_gen

\* Inverses modulo Q are those of tables.c.  Together the bounds on the tuple
\* make every residue a small pair: a remainder out of bounds is within them on
\* the other side, and no quotient is out of bounds.
ASSUME SchemeAssumption ==
  /\ M \in Nat \ {0} /\ D \in Nat \ {0} /\ N \in Nat \ {0} /\ M % 2 = 0
  /\ NORM1 \in Nat \ {0} /\ NORM2 \in Nat \ {0}
  /\ Q \in Nat /\ 2 * NORM2 < Q /\ 2 < Q /\ Q <= 256
  /\ \A v \in 1 .. Q - 1 : \E w \in 1 .. Q - 1 : (v * w) % Q = 1
  /\ K = 2 /\ K * N = M + D
  /\ ZBOUND \in Nat /\ 2 * ZBOUND + 1 < Q
  /\ TUPPLE[0] = 1 /\ TUPPLE[1] \in ZBOUND + 1 .. 2 * ZBOUND + 1
  /\ Q \div 2 <= (TUPPLE[1] + 1) * ZBOUND
  /\ S \in Nat /\ L \in Nat /\ SEEDBYTES \in Nat /\ MaxTries \in Nat
  /\ \A m \in Messages : Hash(m) \in [Upto(M) -> Upto(Q)]

VARIABLES C1_index, tracker, i, j, C, row, k, pc,   \* GenerateC, running
          prog,      \* what runs: key_gen, sig_gen, sig_ver or print_sk
          phase,     \* how far it is
          drbg,      \* the generator: its seed and the draws made since
          sk,        \* secret key: seed and characteristic polynomial
          pk,        \* public key: the matrix A
          T, LM, UM, \* the other matrices drawn
          msg, a, y, z, x, tries,   \* the signature under way
          verdict,   \* what sig_ver returned, and the errors it saw
          printed,   \* what print_sk has printed: C, T and B
          sample     \* what sigparse has printed

generator == <<C1_index, tracker, i, j, C, row, k, pc>>
matrices  == <<T, LM, UM>>
signature == <<msg, a, y, z, x, tries>>
outputs   == <<verdict, printed, sample>>
vars == <<generator, prog, phase, drbg, sk, pk, matrices, signature, outputs>>

Gen == INSTANCE GenerateC

Row == Upto(M)
None == << >>     \* not computed yet

Seeded(seed) == [seed |-> seed, n |-> 0]

\* The draw NIST_rng(bound) that is `ahead' calls away.
DrawAt(ahead, bound) == Rand(drbg.seed, drbg.n + ahead) % bound
NIST_rng(bound) == DrawAt(0, bound)
Consume(n) == drbg' = [drbg EXCEPT !.n = @ + n]

Init == /\ Gen!Init
        /\ prog = "key_gen"
        /\ phase = "seed"
        /\ drbg \in {Seeded(s) : s \in Seeds}
        /\ sk = [seed |-> None, cp |-> None]
        /\ pk = None
        /\ T = None /\ LM = None /\ UM = None
        /\ msg = None /\ a = None /\ y = None /\ z = None /\ x = None
        /\ tries = 0
        /\ verdict = None /\ printed = None /\ sample = None

-----------------------------------------------------------------------------
(* generate_C_sk and generate_C *)

\* sk[0..47] is drawn, and the generator starts again from it.
DrawSeed == /\ phase = "seed"
            /\ LET s == [b \in 1 .. SEEDBYTES |-> DrawAt(b - 1, 256)]
               IN  /\ sk' = [sk EXCEPT !.seed = s]
                   /\ drbg' = Seeded(s)
            /\ phase' = "C"
            /\ UNCHANGED <<generator, prog, pk, matrices, signature, outputs>>

IndexDraw == /\ phase = "C"
             /\ Gen!IndexDraw(NIST_rng(M - i) + i)
             /\ Consume(1)
             /\ UNCHANGED <<prog, phase, sk, pk, matrices, signature, outputs>>

StartValues == /\ phase = "C"
               /\ Gen!StartValues
               /\ UNCHANGED <<prog, phase, drbg, sk, pk, matrices, signature,
                              outputs>>

ValueDraw == /\ phase = "C"
             /\ Gen!ValueDraw(NIST_rng(2))
             /\ Consume(1)
             /\ UNCHANGED <<prog, phase, sk, pk, matrices, signature, outputs>>

\* key_gen keeps an invertible C1 and C1cp_to_sk stores its characteristic
\* polynomial, all but the leading coefficient.
AcceptC1 == /\ phase = "C" /\ prog = "key_gen"
            /\ Gen!Accept
            /\ sk' = [sk EXCEPT !.cp = [d \in Row |-> CharPolyOf(M, C)[d]]]
            /\ UNCHANGED <<prog, phase, drbg, pk, matrices, signature, outputs>>

\* MUTANT of RejectC1: the search goes on with the stream it has.
RejectOnStream == /\ phase = "C" /\ prog = "key_gen"
                  /\ Gen!Retry
                  /\ UNCHANGED <<prog, phase, drbg, sk, pk, matrices, signature,
                                 outputs>>

\* A singular C1: the while loop of generate_C_sk draws a new seed, from the
\* stream of the old one.
RejectC1 == /\ phase = "C" /\ prog = "key_gen"
            /\ Gen!Retry
            /\ phase' = "seed"
            /\ UNCHANGED <<prog, drbg, sk, pk, matrices, signature, outputs>>

\* generate_C relies on key_gen having rejected the singular ones.
TakeC1 == /\ phase = "C" /\ prog \in {"sig_gen", "print_sk"}
          /\ Gen!AcceptUntested
          /\ UNCHANGED <<prog, phase, drbg, sk, pk, matrices, signature, outputs>>

\* A second draw, for the sign, only where C is still zero.
ErrorDraw == /\ phase = "C"
             /\ LET d == M + NIST_rng(D)
                    fresh == C[row][d] = 0
                IN  /\ Gen!ErrorDraw(d, IF fresh THEN DrawAt(1, 2) ELSE 0)
                    /\ Consume(IF fresh THEN 2 ELSE 1)
             /\ UNCHANGED <<prog, phase, sk, pk, matrices, signature, outputs>>

GenerateC == \/ DrawSeed \/ IndexDraw \/ StartValues \/ ValueDraw
             \/ AcceptC1 \/ RejectC1 \/ TakeC1 \/ ErrorDraw

-----------------------------------------------------------------------------
(* The fill loops of T, L and U.  key_gen, sig_gen and print_sk.c hold the
   same text; `n' draws are made before the entry concerned. *)

\* Row r has r/2 random entries, then the tuple entry.
DrawnT == [r \in Upto(K * N) |-> [c \in Upto(N) |->
             LET n == SumFunction([q \in Upto(r) |-> q \div 2]) + c
             IN  IF c < r \div 2 THEN DrawAt(n, Q)
                 ELSE IF c = r \div 2 THEN TUPPLE[r % K] ELSE 0]]

\* MUTANT of DrawnLower: the diagonal can be zero modulo Q.
DrawnLowerWide == [r \in Upto(N) |-> [c \in Upto(N) |->
                     LET n == SumFunction([q \in Upto(c) |-> N - q]) + (r - c)
                     IN  IF r = c THEN 1 + DrawAt(n, Q)
                         ELSE IF r > c THEN DrawAt(n, Q) ELSE 0]]

\* Column c of the lower triangle: the diagonal entry, then those below.
DrawnLower == [r \in Upto(N) |-> [c \in Upto(N) |->
                 LET n == SumFunction([q \in Upto(c) |-> N - q]) + (r - c)
                 IN  IF r = c THEN 1 + DrawAt(n, Q - 1)
                     ELSE IF r > c THEN DrawAt(n, Q) ELSE 0]]

\* Column c of the upper triangle: the diagonal entry, then those above.
DrawnUpper == [r \in Upto(N) |-> [c \in Upto(N) |->
                 LET n == SumFunction([q \in Upto(c) |-> 1 + q])
                 IN  IF r = c THEN 1 + DrawAt(n, Q - 1)
                     ELSE IF r < c THEN DrawAt(n + 1 + r, Q) ELSE 0]]

FillT == /\ phase = "C"
         /\ pc = "done"
         /\ T' = DrawnT
         /\ Consume(SumFunction([q \in Upto(K * N) |-> q \div 2]))
         /\ phase' = "L"
         /\ UNCHANGED <<generator, prog, sk, pk, LM, UM, signature, outputs>>

FillL == /\ phase = "L"
         /\ LM' = DrawnLower
         /\ Consume((N * (N + 1)) \div 2)
         /\ phase' = "U"
         /\ UNCHANGED <<generator, prog, sk, pk, T, UM, signature, outputs>>

FillU == /\ phase = "U"
         /\ UM' = DrawnUpper
         /\ Consume((N * (N + 1)) \div 2)
         /\ phase' = CASE prog = "key_gen" -> "pk" [] prog = "sig_gen" -> "try"
                       [] prog = "print_sk" -> "print"
         /\ UNCHANGED <<generator, prog, sk, pk, T, LM, signature, outputs>>

-----------------------------------------------------------------------------
(* key_gen, the rest *)

\* triangular_matrix_inverse, by increasing distance from the diagonal: the
\* lower triangle row by row from the diagonal to the left, the upper one
\* column by column from the diagonal upwards.
LowerInverse(A) ==
  [r \in Upto(N) |->
     LET inv[c \in Upto(N)] ==
           IF r < c THEN 0 ELSE IF r = c THEN Inverse_mod_q(A[c][c])
           ELSE (- Inverse_mod_q(A[c][c])
                   * SumFunction([q \in c + 1 .. r |-> A[q][c] * inv[q]])) % Q
     IN  inv]

UpperInverse(A) ==
  LET column(c) ==
        LET inv[r \in Upto(N)] ==
              IF r > c THEN 0 ELSE IF r = c THEN Inverse_mod_q(A[r][r])
              ELSE (- Inverse_mod_q(A[r][r])
                      * SumFunction([q \in r + 1 .. c |-> A[r][q] * inv[q]])) % Q
        IN  inv
  IN  [r \in Upto(N) |-> [c \in Upto(N) |-> column(c)[r]]]

\* MUTANT of BInverse: the factors in the order in which B has them.
BInverseSwapped == Product(N, N, N, LowerInverse(LM), UpperInverse(UM))
BInverse == Product(N, N, N, UpperInverse(UM), LowerInverse(LM))

\* A = C*T*Binv goes into the public key, and the matrices are freed.
Publish == /\ phase = "pk"
           /\ pk' = Product(M, K * N, N, C, Product(K * N, N, N, T, BInverse))
           /\ prog' = "idle"
           /\ phase' = "idle"
           /\ T' = None /\ LM' = None /\ UM' = None
           /\ UNCHANGED <<generator, drbg, sk, signature, outputs>>

-----------------------------------------------------------------------------
(* sig_gen *)

\* The generator starts from the secret key, whatever was drawn since; the
\* arrays of generate_C are set up as in generate_C_sk.
Redraw(program) ==
  /\ phase = "idle"
  /\ prog' = program
  /\ phase' = "C"
  /\ drbg' = Seeded(sk.seed)
  /\ C1_index' = Gen!Rect!Identity
  /\ tracker' = Gen!Rect!NoMarks
  /\ i' = 0 /\ j' = 0 /\ row' = 0 /\ k' = 0 /\ pc' = "index"
  /\ C' = ZeroMatrix(M, M + D)
  /\ UNCHANGED <<sk, pk, matrices, a, y, z, x, tries, outputs>>

SigGen(m) == Redraw("sig_gen") /\ msg' = m

\* sk_to_C1cp: the leading coefficient is not stored, and taken to be 1.
C1cp == [d \in 0 .. M |-> IF d = M THEN 1 ELSE sk.cp[d]]

\* C1 times a vector, from the positions and the values of its entries.
SparseApply(v) ==
  [r \in Row |-> SumFunction([c \in Upto(NORM1) |->
                                C[r][C1_index[r][c]] * v[C1_index[r][c]]]) % Q]

\* MUTANT of HeadOfA: the coefficient of the wrong power.
HeadOfAShifted(h2) ==
  LET power[e \in Nat] == IF e = 0 THEN h2 ELSE SparseApply(power[e - 1])
      negInv == - Inverse_mod_q(C1cp[0])
  IN  [r \in Row |->
         (negInv * SumFunction([e \in Row |-> C1cp[e] * power[e][r]])) % Q]

\* a1 = C1^(-1) h2, by the theorem of Cayley and Hamilton.
HeadOfA(h2) ==
  LET power[e \in Nat] == IF e = 0 THEN h2 ELSE SparseApply(power[e - 1])
      negInv == - Inverse_mod_q(C1cp[0])
  IN  [r \in Row |->
         (negInv * SumFunction([e \in Row |-> C1cp[e + 1] * power[e][r]])) % Q]

\* solve_a: the tail is drawn, the head solves C1*a1 + C2*a2 = h.
SolveA ==
  LET tail == [d \in M .. M + D - 1 |-> DrawAt(d - M, Q)]
      h2 == [r \in Row |-> (Hash(msg)[r] - SumFunction([d \in M .. M + D - 1 |->
                                                         C[r][d] * tail[d]])) % Q]
      head == HeadOfA(h2)
  IN  [e \in Upto(M + D) |-> IF e < M THEN head[e] ELSE tail[e]]

\* C's division and remainder, which round towards zero.
Quot(u, v) == IF u >= 0 THEN u \div v ELSE - ((- u) \div v)
Rem(u, v)  == u - v * Quot(u, v)
Signum(u)  == IF u > 0 THEN 1 ELSE IF u < 0 THEN -1 ELSE 0

\* MUTANT of Reduce: a remainder out of bounds stays.
ReduceOnce(ax) == <<Rem(ax, TUPPLE[1]), - Quot(ax, TUPPLE[1])>>

\* The small pair (z1, z0) with z1 - t2*z0 = ax.
Reduce(ax) ==
  LET y1 == Quot(ax, TUPPLE[1])
      y2 == Rem(ax, TUPPLE[1])
  IN  IF y2 \in - ZBOUND .. ZBOUND
      THEN <<y2, - y1>>
      ELSE <<y2 - Signum(ax) * TUPPLE[1], - (y1 + Signum(ax))>>

\* solve_z: entry e of y and the entries K*e, K*e+1 of z, from the entries
\* of y before it.
SolveZ(target) ==
  LET sol[e \in Upto(N)] ==
        LET t0 == SumFunction([c \in Upto(e) |-> T[K * e][c] * sol[c].y])
            t1 == SumFunction([c \in Upto(e) |-> T[K * e + 1][c] * sol[c].y])
            ax == (target[K * e + 1] - t1 - TUPPLE[1] * (target[K * e] - t0)) % Q
            zz == Reduce(Centered(ax))
        IN  [z1 |-> s_mod_q(zz[1]), z0 |-> s_mod_q(zz[2]),
             y  |-> (target[K * e] - t0 - s_mod_q(zz[2])) % Q]
  IN  [y |-> [e \in Upto(N) |-> sol[e].y],
       z |-> [e \in Upto(K * N) |-> IF e % K = 0 THEN sol[e \div K].z0
                                    ELSE sol[e \div K].z1]]

Within(e) == e <= S \/ e >= Q - S
Inside(errors) == {r \in Row : Within(errors[r])}

\* One pass of the rejection loop.
Try == /\ phase = "try"
       /\ tries < MaxTries
       /\ a' = SolveA
       /\ LET s == SolveZ(a')
          IN  y' = s.y /\ z' = s.z
       /\ Consume(D)
       /\ tries' = tries + 1
       /\ phase' = IF Cardinality(Inside(Apply(M, M + D, C, z'))) < L
                   THEN "try" ELSE "x"
       /\ UNCHANGED <<generator, prog, sk, pk, matrices, msg, x, outputs>>

\* x = B*y with B = L*U.
Finish == /\ phase = "x"
          /\ x' = Apply(N, N, Product(N, N, N, LM, UM), y)
          /\ prog' = "sig_ver"
          /\ phase' = "open"
          /\ UNCHANGED <<generator, drbg, sk, pk, matrices, msg, a, y, z, tries,
                         outputs>>

-----------------------------------------------------------------------------
(* sig_ver, of the message and x alone *)

\* MUTANT of Errors: the reduction of a negative difference is left out.
ErrorsSigned == [r \in Row |-> Hash(msg)[r] - Apply(M, N, pk, x)[r]]
Errors == [r \in Row |-> s_mod_q(Hash(msg)[r] - Apply(M, N, pk, x)[r])]

Open == /\ phase = "open"
        /\ verdict' = [ret |-> IF Cardinality(Inside(Errors)) >= L THEN 0 ELSE -1,
                       errors |-> Errors]
        /\ prog' = "idle"
        /\ phase' = "opened"
        /\ UNCHANGED <<generator, drbg, sk, pk, matrices, signature, printed, sample>>

-----------------------------------------------------------------------------
(* The command line tools that look into a key or a signature *)

\* eht_printsk draws the matrices with text of its own.
PrintSk == Redraw("print_sk") /\ UNCHANGED msg

PrintMatrices == /\ phase = "print"
                 /\ printed' = [C |-> C, T |-> T, B |-> Product(N, N, N, LM, UM)]
                 /\ prog' = "idle"
                 /\ phase' = "printed"
                 /\ LM' = None /\ UM' = None
                 /\ UNCHANGED <<generator, drbg, sk, pk, T, signature, verdict, sample>>

\* eht_sigparse takes a line of eht_siggen's output, verifies nothing and
\* prints its errors.
SigParse == /\ phase = "opened"
            /\ sample' = Errors
            /\ prog' = "idle"
            /\ phase' = "parsed"
            /\ UNCHANGED <<generator, drbg, sk, pk, matrices, signature, verdict,
                           printed>>

\* The last program has returned.
Returned == phase \in {"parsed", "printed"} /\ UNCHANGED vars

Next == \/ GenerateC
        \/ FillT \/ FillL \/ FillU
        \/ Publish
        \/ \E m \in Messages : SigGen(m)
        \/ Try \/ Finish
        \/ Open
        \/ PrintSk \/ PrintMatrices
        \/ SigParse
        \/ Returned

Spec == Init /\ [][Next]_vars

-----------------------------------------------------------------------------
TypeOK == /\ prog \in {"idle", "key_gen", "sig_gen", "sig_ver", "print_sk"}
          /\ sk.seed \in Seeds \cup {None} \cup [1 .. SEEDBYTES -> 0 .. 255]
          /\ pk = None \/ pk \in Matrix(M, N)
          /\ T = None \/ T \in Matrix(K * N, N)
          /\ LM = None \/ LM \in Matrix(N, N)
          /\ UM = None \/ UM \in Matrix(N, N)
          /\ a = None \/ a \in [Upto(M + D) -> Upto(Q)]
          /\ y = None \/ y \in [Upto(N) -> Upto(Q)]
          /\ z = None \/ z \in [Upto(K * N) -> Upto(Q)]
          /\ x = None \/ x \in [Upto(N) -> Upto(Q)]

\* The signer has all its matrices, drawn from the secret key's seed.
Replayed == phase \in {"try", "x", "open"}

\* The matrices the signer draws, and those that eht_printsk prints, are
\* those behind the public key: A*B = C*T.  Nothing but the seed connects the
\* sides, and key_gen used its stream after it had abandoned others.
KeyEquation ==
  /\ Replayed => Product(M, N, N, pk, Product(N, N, N, LM, UM))
                   = Product(M, K * N, N, C, T)
  /\ phase = "printed" => Product(M, N, N, pk, printed.B)
                            = Product(M, K * N, N, printed.C, printed.T)

\* The polynomial in the secret key is the characteristic polynomial of the
\* C1 the signer draws, which is therefore invertible, untested as it is.
CharPolyMatches ==
  Replayed => C1cp = CharPolyOf(M, C) /\ Determinant(M, C) # 0

\* Every try starts from a solution of C*a = h, not only the accepted one.
PreimageExact ==
  Replayed /\ tries > 0 => Apply(M, M + D, C, a) = Hash(msg)

\* solve_z splits a exactly into a lattice point T*y and a remainder z of
\* entries within ZBOUND of zero.
LatticeClose ==
  Replayed /\ tries > 0 =>
    \A e \in Upto(K * N) : /\ (Dot(N, T[e], y) + z[e]) % Q = a[e]
                           /\ Magnitude(z[e]) <= ZBOUND

\* A signature that sig_gen returns is one that sig_ver accepts, and sig_ver
\* and eht_sigparse see the very errors C*z on which sig_gen decided.
SignatureVerifies ==
  /\ phase = "opened" => verdict.ret = 0 /\ verdict.errors = Apply(M, M + D, C, z)
  /\ phase = "parsed" => sample = Apply(M, M + D, C, z)
=============================================================================
