-------------------------------- MODULE Rng --------------------------------
(***************************************************************************)
(* The deterministic generator of rng.c: AES in counter mode, whose key    *)
(* and counter are replaced after every request.  A block of 16 bytes is   *)
(* one number, highest byte first, below Wrap; a key is two blocks and a   *)
(* seed three.  The variable reseed_counter, which nothing reads, is left  *)
(* out, as is the personalization string, which is NULL in every call.     *)
(***************************************************************************)
EXTENDS Integers, Sequences

CONSTANTS Wrap,        \* 2^128
          BlockLen,    \* bytes in a block: 16
          Aes(_, _),   \* AES256_ECB: a block from a key and a block
          Xor(_, _)    \* of two blocks

Block == 0 .. Wrap - 1
Key   == Block \X Block
Seed  == Block \X Block \X Block

ASSUME RngAssumption ==
  /\ Wrap \in Nat \ {0} /\ BlockLen \in Nat \ {0}
  /\ \A key \in Key, v \in Block : Aes(key, v) \in Block
  /\ \A b, c \in Block : Xor(b, c) \in Block
  /\ \A b, c, d \in Block : Xor(d, b) = Xor(d, c) => b = c

Unseeded == [Key |-> <<0, 0>>, V |-> 0]

\* The counter after n increments, which carry from byte to byte and wrap.
Counter(v, n) == (v + n) % Wrap

\* AES256_CTR_DRBG_Update: the next key and counter.
AES256_CTR_DRBG_Update(provided, ctx) ==
  LET temp(n) == Xor(Aes(ctx.Key, Counter(ctx.V, n)), provided[n])
  IN  [Key |-> <<temp(1), temp(2)>>, V |-> temp(3)]

randombytes_init(entropy) == AES256_CTR_DRBG_Update(entropy, Unseeded)

\* The passes of the loop of randombytes that returns n bytes.
Blocks(n) == (n + BlockLen - 1) \div BlockLen

\* What randombytes returns, in blocks, of which the last may be cut short.
Drawn(ctx, n) == [b \in 1 .. Blocks(n) |-> Aes(ctx.Key, Counter(ctx.V, b))]

\* The generator when the last of them has been enciphered.
Advanced(ctx, n) == [ctx EXCEPT !.V = Counter(ctx.V, Blocks(n))]

\* The generator when randombytes(n) has returned.
After(ctx, n) == AES256_CTR_DRBG_Update(<<0, 0, 0>>, Advanced(ctx, n))
=============================================================================
