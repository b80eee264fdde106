------------------------------ MODULE MCTools ------------------------------
(***************************************************************************)
(* Tools with blocks of a few bits, so that the counters wrap within a     *)
(* run.  MCAes is a permutation of the blocks for every key, as AES is,    *)
(* with nothing else the checks could lean on; MCXor may be any operation  *)
(* that can be undone.                                                     *)
(***************************************************************************)
EXTENDS Tools

MCAes(k, v) == LET u == (v * (2 * k[1] + 1) + k[2]) % Wrap
               IN  (u * (4 * u + 2 * k[2] + 5) + 7 * k[1] + 3) % Wrap

MCXor(b, c) == (b + c) % Wrap
MCEntropy == <<1, 2, 3>>
MCKeyOf(c) == <<c.V, c.Key[2], c.Key[1]>>
MCWords(u, w) == u + 8 * w

\* A request of one block per draw, from the generator that the key seeds.
MCSpent(k, d) ==
  LET c[n \in Nat] == IF n = 0 THEN randombytes_init(k) ELSE After(c[n - 1], 1)
  IN  c[d]
=============================================================================
