------------------------------ MODULE MCEhtv3 ------------------------------
(***************************************************************************)
(* Ehtv3 on 4 by 6 matrices.  MCRand stands for the AES-CTR generator: a   *)
(* fixed stream per seed, with no regularity the checks could lean on; the *)
(* many seeds stand for its outcomes.                                      *)
(***************************************************************************)
EXTENDS Ehtv3, TLC

MCTuple == 0 :> 1 @@ 1 :> 3
MCSeeds == {<<s, 3 * s % 256>> : s \in 1 .. 100}
MCMessages == {1, 2}

MCRand(seed, n) ==
  LET u == (seed[1] * 181 + seed[2] * 97 + n * 1009 + 17) % 32749
      v == (u * u + 31 * n + seed[2]) % 32749
  IN  (v * v + 7 * u + seed[1]) % 32749

MCHash(m) == [r \in 0 .. M - 1 |-> (5 * m * m + 3 * r * m + r * r) % Q]
=============================================================================
