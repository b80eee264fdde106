------------------------------ MODULE MCCodec ------------------------------
(***************************************************************************)
(* Codec with vectors of eight entries modulo 5, which need five digits of *)
(* base 16 or three bytes of bits.  The entries are 0, 1 and the largest,  *)
(* so that carries run through all the digits.                             *)
(***************************************************************************)
EXTENDS Codec

MCVectors == [0 .. Size - 1 -> {0, 1, Q - 1}]
MCHashes  == [0 .. size_char - 1 -> {0, 1, Base - 1}]
=============================================================================
