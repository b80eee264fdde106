---------------------------- MODULE Determinants ----------------------------
(***************************************************************************)
(* The definition of the determinant: the sum over the permutations of the *)
(* rows of the products of entries, each with the sign of its permutation. *)
(* I is the set of the rows and columns of a square submatrix.             *)
(***************************************************************************)
EXTENDS Integers, FiniteSets, FiniteSetsExt

Bijections(I) == {p \in [I -> I] : \A x, y \in I : p[x] = p[y] => x = y}

Inversions(I, p) == {e \in I \X I : e[1] < e[2] /\ p[e[1]] > p[e[2]]}

Sign(I, p) == IF Cardinality(Inversions(I, p)) % 2 = 0 THEN 1 ELSE -1

Leibniz(A, I) ==
  SumFunction([p \in Bijections(I) |->
                 Sign(I, p) * FoldFunction(LAMBDA u, v : u * v, 1,
                                           [x \in I |-> A[x][p[x]]])])
=============================================================================
