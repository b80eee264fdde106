------------------------------- MODULE Codec -------------------------------
(***************************************************************************)
(* How vectors over the integers modulo Q become bytes and back.           *)
(*   - C1cp_to_sk / sk_to_C1cp and mx_to_sm / sm_to_mx read the vector as  *)
(*     the digits of a number in base Q and write it in base 256;          *)
(*   - hash_of_message reads bytes as a number and keeps its low digits;   *)
(*   - A_to_pk / pk_to_A write every entry with a fixed number of bits,    *)
(*     highest bit first, and fill the bytes from the lowest bit up.       *)
(* One action is one pass of an outer loop.  The sizes computed with log() *)
(* and ceil() are modelled by the integers they stand for.                 *)
(***************************************************************************)
EXTENDS Integers, Sequences, FiniteSetsExt

CONSTANTS Q,         \* the modulus
          Base,      \* 256 in the code
          Size,      \* entries of the vector
          Vectors,   \* vectors to be encoded, functions over 0 .. Size-1
          Matrices,  \* public keys to be encoded, their entries row by row
          Hashes     \* byte strings to be turned into vectors

Power(b, e) == LET power[d \in Nat] == IF d = 0 THEN 1 ELSE b * power[d - 1]
               IN  power[e]

\* MUTANT of size_char: rounded down.
size_charFloor == CHOOSE s \in 1 .. Size : /\ Power(Base, s) <= Power(Q, Size)
                                           /\ Power(Base, s + 1) > Power(Q, Size)
\* size_char = ceil(size_Q*log(Q)/log(256)), and num_bits = ceil(log2(Q)).
size_char == CHOOSE s \in 1 .. Size : /\ Power(Base, s) >= Power(Q, Size)
                                      /\ Power(Base, s - 1) < Power(Q, Size)
num_bits == CHOOSE b \in 1 .. Q : Power(2, b) >= Q /\ Power(2, b - 1) < Q
A_byte_size == (Size * num_bits) \div 8

Digits == [0 .. Size - 1 -> 0 .. Q - 1]
Bytes  == [0 .. size_char - 1 -> 0 .. Base - 1]

\* A public key fills its last byte, because A_byte_size rounds down.  Nothing
\* of the kind is asked of a vector: a signature has 242 entries of 6 bits.
ASSUME CodecAssumption ==
  /\ Q \in Nat \ {0, 1} /\ Base \in Nat \ {0, 1} /\ Q <= Base
  /\ Size \in Nat \ {0}
  /\ Vectors \subseteq Digits /\ Matrices \subseteq Digits
  /\ Hashes \subseteq Bytes
  /\ Matrices # {} => (Size * num_bits) % 8 = 0

VARIABLES vector,   \* the vector to be encoded
          bytes,    \* its bytes
          back,     \* the vector decoded from them
          pos,      \* passes made of the current loop
          over,     \* the carry that the last pass dropped
          phase

vars == <<vector, bytes, back, pos, over, phase>>

Zeros(n) == [d \in 0 .. n - 1 |-> 0]

Init == /\ \/ vector \in Vectors /\ phase = "pack" /\ bytes = Zeros(size_char)
           \/ vector \in Matrices /\ phase = "bits" /\ bytes = << >>
           \/ vector = Zeros(Size) /\ phase = "hash" /\ bytes \in Hashes
        /\ back = Zeros(Size)
        /\ pos = 0
        /\ over = 0

-----------------------------------------------------------------------------
\* The inner loop: the number with n digits u, highest first, in the given
\* base, is multiplied by `factor' and increased by c.  `carry[d]' is the
\* carry into digit d; carry[-1] is lost.
Carried(u, n, base, factor, c) ==
  LET carry[d \in -1 .. n - 1] ==
        IF d = n - 1 THEN c ELSE (u[d + 1] * factor + carry[d + 1]) \div base
  IN  [digits |-> [d \in 0 .. n - 1 |-> (u[d] * factor + carry[d]) % base],
       lost   |-> carry[-1]]

\* C1cp_to_sk and mx_to_sm: one entry of the vector.
Pack ==
  /\ phase = "pack"
  /\ LET p == Carried(bytes, size_char, Base, Q, vector[pos])
     IN  bytes' = p.digits /\ over' = p.lost
  /\ \/ pos + 1 < Size /\ pos' = pos + 1 /\ UNCHANGED phase
     \/ pos + 1 = Size /\ pos' = 0 /\ phase' = "unpack"
  /\ UNCHANGED <<vector, back>>

\* sk_to_C1cp and sm_to_mx: one byte.
Unpack ==
  /\ phase = "unpack"
  /\ LET p == Carried(back, Size, Q, Base, bytes[pos])
     IN  back' = p.digits /\ over' = p.lost
  /\ \/ pos + 1 < size_char /\ pos' = pos + 1 /\ UNCHANGED phase
     \/ pos + 1 = size_char /\ pos' = 0 /\ phase' = "unpacked"
  /\ UNCHANGED <<vector, bytes>>

\* MUTANT of HashByte: from the first byte on.
HashByteForward ==
  /\ phase = "hash"
  /\ LET p == Carried(back, Size, Q, Base, bytes[pos])
     IN  back' = p.digits /\ over' = p.lost
  /\ \/ pos + 1 < size_char /\ pos' = pos + 1 /\ UNCHANGED phase
     \/ pos + 1 = size_char /\ pos' = 0 /\ phase' = "hashed"
  /\ UNCHANGED <<vector, bytes>>

\* hash_of_message: one byte of the hash, from the last to the first.
HashByte ==
  /\ phase = "hash"
  /\ LET p == Carried(back, Size, Q, Base, bytes[size_char - 1 - pos])
     IN  back' = p.digits /\ over' = p.lost
  /\ \/ pos + 1 < size_char /\ pos' = pos + 1 /\ UNCHANGED phase
     \/ pos + 1 = size_char /\ pos' = 0 /\ phase' = "hashed"
  /\ UNCHANGED <<vector, bytes>>

-----------------------------------------------------------------------------
\* Bit number k of an entry, as decimal_to_binary lays it out.
decimal_to_binary(v, k) == (v \div Power(2, num_bits - 1 - k)) % 2

\* The bit that comes n-th in the stream of all entries.
StreamBit(n) == decimal_to_binary(vector[n \div num_bits], n % num_bits)

\* A_to_pk: one byte.
PackByte ==
  /\ phase = "bits"
  /\ bytes' = Append(bytes, SumFunction(
                       [e \in 0 .. 7 |-> StreamBit(8 * pos + e) * Power(2, e)]))
  /\ \/ pos + 1 < A_byte_size /\ pos' = pos + 1 /\ UNCHANGED phase
     \/ pos + 1 = A_byte_size /\ pos' = 0 /\ phase' = "entries"
  /\ UNCHANGED <<vector, back, over>>

ByteBit(n) == (bytes[n \div 8 + 1] \div Power(2, n % 8)) % 2

\* MUTANT of Entry: the bits of an entry from the lowest up.
EntryLowFirst(e) == SumFunction(
  [k \in 0 .. num_bits - 1 |-> ByteBit(num_bits * e + k) * Power(2, k)])
Entry(e) == SumFunction(
  [k \in 0 .. num_bits - 1 |->
     ByteBit(num_bits * e + k) * Power(2, num_bits - 1 - k)])

\* pk_to_A: one entry.
UnpackEntry ==
  /\ phase = "entries"
  /\ back' = [back EXCEPT ![pos] = Entry(pos)]
  /\ \/ pos + 1 < Size /\ pos' = pos + 1 /\ UNCHANGED phase
     \/ pos + 1 = Size /\ pos' = 0 /\ phase' = "unpacked"
  /\ UNCHANGED <<vector, bytes, over>>

Next == Pack \/ Unpack \/ HashByte \/ PackByte \/ UnpackEntry

Spec == Init /\ [][Next]_vars

-----------------------------------------------------------------------------
\* The number that digits stand for, highest first.
Value(u, n, base) ==
  SumFunction([d \in 0 .. n - 1 |-> u[d] * Power(base, n - 1 - d)])

\* The entries that Pack has taken in: all of them once sk_to_C1cp or sm_to_mx
\* reads the bytes.
packed == IF phase = "pack" THEN pos ELSE Size

\* The loops keep the number: the bytes are, in base 256, the number whose
\* digits in base Q are the entries packed so far, up to the last one, when
\* size_char bytes must hold the whole vector, and no pass drops a carry.
PackExact ==
  phase \in {"pack", "unpack"} =>
    /\ over = 0
    /\ Value(bytes, size_char, Base) = Value(vector, packed, Q)

\* What was encoded is what comes back, of the secret key, of a signature
\* and of the public key.
RoundTrip == phase = "unpacked" => back = vector /\ over = 0

\* The vector of a hash is the number that its bytes are, lowest byte first,
\* modulo Q^Size: the top of the number is lost, and nothing else.
HashLow ==
  phase = "hashed" =>
    Value(back, Size, Q) =
      SumFunction([d \in 0 .. size_char - 1 |-> bytes[d] * Power(Base, d)])
        % Power(Q, Size)
=============================================================================
