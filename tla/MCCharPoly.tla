----------------------------- MODULE MCCharPoly -----------------------------
(***************************************************************************)
(* CharPoly on matrices as GenerateC makes them: two entries +1 or -1 in   *)
(* every row and every column, the first entry of three of the rows +1.    *)
(***************************************************************************)
EXTENDS CharPoly

Positions == {p \in [Idx -> kSubset(2, Idx)] :
                \A c \in Idx : Cardinality({r \in Idx : c \in p[r]}) = 2}

SignChoices == {s \in [Idx -> [{0, 1} -> {1, Q - 1}]] :
                  \A r \in 1 .. M - 1 : s[r][0] = 1}

MCInputs ==
  {[r \in Idx |-> [c \in Idx |-> IF c \notin p[r] THEN 0
                                 ELSE s[r][IF c = Min(p[r]) THEN 0 ELSE 1]]] :
     p \in Positions, s \in SignChoices}
=============================================================================
