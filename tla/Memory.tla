------------------------------- MODULE Memory -------------------------------
(***************************************************************************)
(* The matrices that key_gen, sig_gen and sig_ver allocate and free.  The  *)
(* three functions have no branch between allocations but `goto cleanup',  *)
(* so each is a list of what it does to its pointers, and one action       *)
(* executes one element.  Any allocation may fail.  free_matrix of         *)
(* general_functions.c reads its argument, so it faults on a null pointer; *)
(* on an uninitialised pointer, or on one with fewer rows than it is told, *)
(* it may fault or go on with a corrupt heap.                              *)
(***************************************************************************)
EXTENDS Integers, Sequences, FiniteSets

CONSTANTS M, D, N, K    \* parameters.c: 460, 24, 242 and 2

ASSUME DimensionAssumption == /\ M \in Nat /\ D \in Nat /\ N \in Nat /\ K = 2
                              /\ K * N = M + D

VARIABLES fn,       \* the function that runs
          todo,     \* the statements it has still to execute
          ptr,      \* [pointer -> uninit, null or live]
          rows,     \* [pointer -> rows of its matrix, 0 if it has none]
          lost,     \* rows that no pointer reaches any more
          failed,   \* an allocation has failed
          heap,     \* sound or corrupt
          ret       \* what was returned, if anything

memoryVars == <<fn, todo, ptr, rows, lost, failed, heap, ret>>

Pointer == {"C", "H", "CP", "T", "TM", "Linv", "Uinv", "Binv", "TBinv", "A",
            "C1_index", "C1_value", "B", "LM", "UM", "h", "C1cp", "y", "a", "z",
            "x", "Ax"}
Running == 1   \* not a return value of any function
Faulted == 2   \* nor is this: the process was killed

-----------------------------------------------------------------------------
Alloc(p, n) == [do |-> "alloc", of |-> {p}, n |-> n]
Need(S)     == [do |-> "need", of |-> S, n |-> 0]     \* else goto cleanup
Use(S)      == [do |-> "use", of |-> S, n |-> 0]
Free(p, n)  == [do |-> "free", of |-> {p}, n |-> n]   \* and p = NULL
FreeVector(p) == [do |-> "freevector", of |-> {p}, n |-> 0]
Result(R)   == [do |-> "return", of |-> R, n |-> 0]

\* MUTANT of KeyGen: T is freed before T*Binv is computed.
KeyGenEager ==
  << Alloc("C", M), Alloc("H", M), Alloc("CP", M + 1), Need({"C", "H", "CP"}),
     Use({"C", "H", "CP"}), Free("H", M), Free("CP", M + 1),
     Alloc("T", K * N), Need({"T"}), Use({"T"}), Free("T", K * N),
     Alloc("Binv", N), Need({"Binv"}), Alloc("TBinv", K * N), Need({"TBinv"}),
     Use({"T", "Binv", "TBinv"}), Result({0}) >>

KeyGen ==
  << Alloc("C", M), Alloc("H", M), Alloc("CP", M + 1), Need({"C", "H", "CP"}),
     Use({"C", "H", "CP"}),                              \* generate_C_sk
     Free("H", M), Free("CP", M + 1),
     Alloc("T", K * N), Need({"T"}), Use({"T"}),
     Alloc("TM", N), Alloc("Linv", N), Alloc("Uinv", N),
     Need({"TM", "Linv", "Uinv"}), Use({"TM", "Linv"}), Use({"TM", "Uinv"}),
     Free("TM", N),
     Alloc("Binv", N), Need({"Binv"}), Use({"Uinv", "Linv", "Binv"}),
     Free("Linv", N), Free("Uinv", N),
     Alloc("TBinv", K * N), Need({"TBinv"}), Use({"T", "Binv", "TBinv"}),
     Free("T", K * N), Free("Binv", N),
     Alloc("A", M), Need({"A"}), Use({"C", "TBinv", "A"}),
     Free("C", M), Free("TBinv", K * N),
     Use({"A"}),                                         \* A_to_pk
     Free("A", M),
     Result({0}) >>

KeyGenCleanup ==
  << Free("C", M), Free("H", M), Free("CP", M + 1), Free("T", K * N),
     Free("TM", N), Free("Linv", N), Free("Uinv", N), Free("Binv", N),
     Free("TBinv", K * N), Free("A", M), Result({-2}) >>

SigGen ==
  << Alloc("C", M), Alloc("C1_index", M), Alloc("C1_value", M),
     Need({"C", "C1_index", "C1_value"}),
     Use({"C", "C1_index", "C1_value"}),                 \* generate_C
     Alloc("T", K * N), Need({"T"}), Use({"T"}),
     Alloc("B", N), Alloc("LM", N), Alloc("UM", N), Need({"B", "LM", "UM"}),
     Use({"LM"}), Use({"UM"}), Use({"LM", "UM", "B"}),
     Free("LM", N), Free("UM", N),
     Alloc("h", M), Need({"h"}), Use({"h"}),             \* hash_of_message
     Alloc("C1cp", 1), Need({"C1cp"}), Use({"C1cp"}),    \* sk_to_C1cp
     Alloc("y", N), Alloc("a", M + D), Alloc("z", K * N), Need({"y", "a", "z"}),
     Use({"C", "C1_index", "C1_value", "C1cp", "h", "a", "T", "y", "z"}),
     Free("C", M), Free("C1_index", M), Free("C1_value", M), Free("T", K * N),
     Free("h", M), FreeVector("C1cp"), Free("a", M + D), Free("z", K * N),
     Alloc("x", N), Need({"x"}), Use({"B", "y", "x"}),
     Free("B", N), Free("y", N),
     Use({"x"}),                                         \* mx_to_sm
     Free("x", N),
     Result({0}) >>

SigGenCleanup ==
  << Free("C", M), Free("C1_index", M), Free("C1_value", M), Free("T", K * N),
     Free("B", N), Free("LM", N), Free("UM", N), Free("h", M),
     FreeVector("C1cp"), Free("y", N), Free("a", M + D), Free("z", K * N),
     Free("x", N), Result({-2}) >>

\* MUTANT of SigVer: A and x stay.
SigVerLeaky ==
  << Alloc("A", M), Alloc("x", N), Need({"A", "x"}), Use({"A"}), Use({"x"}),
     Alloc("Ax", M), Need({"Ax"}), Use({"A", "x", "Ax"}),
     Alloc("h", M), Need({"h"}), Use({"h"}), Use({"h", "Ax"}),
     Free("h", M), Free("Ax", M), Result({0, -1}) >>

SigVer ==
  << Alloc("A", M), Alloc("x", N), Need({"A", "x"}),
     Use({"A"}), Use({"x"}),                             \* pk_to_A, sm_to_mx
     Alloc("Ax", M), Need({"Ax"}), Use({"A", "x", "Ax"}),
     Free("A", M), Free("x", N),
     Alloc("h", M), Need({"h"}), Use({"h"}), Use({"h", "Ax"}),
     Free("h", M), Free("Ax", M),
     Result({0, -1}) >>

\* x has N rows, and is freed as if it had M.
SigVerCleanup ==
  << Free("A", M), Free("x", M), Free("Ax", M), Free("h", M), Result({-2}) >>

Body    == [key_gen |-> KeyGen, sig_gen |-> SigGen, sig_ver |-> SigVer]
Cleanup == [key_gen |-> KeyGenCleanup, sig_gen |-> SigGenCleanup,
            sig_ver |-> SigVerCleanup]

MemoryInit ==
  /\ fn \in DOMAIN Body
  /\ todo = Body[fn]
  /\ ptr = [p \in Pointer |-> "uninit"]
  /\ rows = [p \in Pointer |-> 0]
  /\ lost = 0
  /\ failed = FALSE
  /\ heap = "sound"
  /\ ret = Running

-----------------------------------------------------------------------------
Doing(what) == ret = Running /\ Head(todo).do = what
Of     == Head(todo).of
Target == CHOOSE p \in Of : TRUE
GoOn   == todo' = Tail(todo)

Fault == ret' = Faulted /\ UNCHANGED <<fn, todo, ptr, rows, lost, failed, heap>>

\* The allocators give all the rows or, having freed those they got, NULL.
Allocate ==
  /\ Doing("alloc")
  /\ \/ /\ ptr' = [ptr EXCEPT ![Target] = "live"]
        /\ rows' = [rows EXCEPT ![Target] = Head(todo).n]
        /\ UNCHANGED failed
     \/ /\ ptr' = [ptr EXCEPT ![Target] = "null"]
        /\ failed' = TRUE
        /\ UNCHANGED rows
  /\ GoOn
  /\ UNCHANGED <<fn, lost, heap, ret>>

Check ==
  /\ Doing("need")
  /\ todo' = IF \E p \in Of : ptr[p] = "null" THEN Cleanup[fn] ELSE Tail(todo)
  /\ UNCHANGED <<fn, ptr, rows, lost, failed, heap, ret>>

\* That the matrices are there is what UsesLive claims.
Compute ==
  /\ Doing("use")
  /\ GoOn
  /\ UNCHANGED <<fn, ptr, rows, lost, failed, heap, ret>>

\* All the rows of a live matrix, or those that it is told of.
Release ==
  /\ Doing("free") /\ ptr[Target] = "live" /\ Head(todo).n <= rows[Target]
  /\ ptr' = [ptr EXCEPT ![Target] = "null"]
  /\ lost' = lost + (rows[Target] - Head(todo).n)
  /\ rows' = [rows EXCEPT ![Target] = 0]
  /\ GoOn
  /\ UNCHANGED <<fn, failed, heap, ret>>

ReleaseNull == Doing("free") /\ ptr[Target] = "null" /\ Fault

ReleaseWild ==
  /\ Doing("free") /\ ptr[Target] # "null" /\ Head(todo).n > rows[Target]
  /\ \/ Fault
     \/ /\ ptr' = [ptr EXCEPT ![Target] = "null"]
        /\ rows' = [rows EXCEPT ![Target] = 0]
        /\ heap' = "corrupt"
        /\ GoOn
        /\ UNCHANGED <<fn, lost, failed, ret>>

\* free(C1cp) accepts NULL.
ReleaseVector ==
  /\ Doing("freevector")
  /\ ptr' = [ptr EXCEPT ![Target] = "null"]
  /\ rows' = [rows EXCEPT ![Target] = 0]
  /\ heap' = IF ptr[Target] = "uninit" THEN "corrupt" ELSE heap
  /\ GoOn
  /\ UNCHANGED <<fn, lost, failed, ret>>

Return ==
  /\ Doing("return")
  /\ ret' \in Of
  /\ todo' = << >>
  /\ UNCHANGED <<fn, ptr, rows, lost, failed, heap>>

MemoryNext == \/ Allocate \/ Check \/ Compute \/ Return
              \/ Release \/ ReleaseNull \/ ReleaseWild \/ ReleaseVector

MemorySpec == MemoryInit /\ [][MemoryNext]_memoryVars /\ WF_memoryVars(MemoryNext)

-----------------------------------------------------------------------------
\* No matrix is read or written before it is allocated, after it is freed or
\* when its allocation failed, whatever fails before: every `use' finds all
\* its matrices.
UsesLive == Doing("use") => \A p \in Of : ptr[p] = "live"

\* A function that returns an answer has freed every row it allocated, by
\* the pointer and with the row count it was allocated with.
NothingLeft == ret \in {0, -1} => /\ \A p \in Pointer : ptr[p] # "live"
                                  /\ lost = 0
                                  /\ heap = "sound"

\* "-2 if memory allocation fails": a failed allocation is reported by the
\* function's return value.
FailureReturned == failed ~> ret = -2
=============================================================================
