# A TLA+ model of the EHTv3 implementation and its scripts

The repository holds a reference implementation of the signature scheme EHTv3,
level 1, in C (`c_utils/ehtv3l1`), command line tools around it (`c_utils`),
shell scripts that produce and process signatures in bulk, and Python programs
that analyse them. This directory models the program logic of the C library, of
its random generator and the tools around it, and of the scripts that make and
process signatures, checks it with TLC and proves part of it with TLAPS. Nothing here is
about the strength of the scheme: the properties say that the programs compute
what they are meant to.

Paths are relative to the repository's root, with `L1/` for
`c_utils/ehtv3l1/`. `PROJECT.json` maps every definition to the lines it
models.

## 1. Inventory

| Component | State | Operations | Who calls it |
|---|---|---|---|
| Position search of C1 (`L1/eht_keygen.c` `generate_C_sk`, `L1/eht_siggen.c` `generate_C`, repeated in `print_sk.c`) | `C1_index`, `tracker`, loop variables | draw, exchange, mark, roll back, restart | key_gen, sig_gen |
| Generation of C (same functions) | `C`, and the state above | signs of C1, invertibility test, steps of C2 | key_gen, sig_gen |
| Characteristic polynomial (`C1_characteristic_polynomial`) | `H`, `CP` | pivot, clear, recurrence, verdict | `generate_C_sk` |
| Key generation, signing, verification (`key_gen`, `sig_gen`, `sig_ver`) | matrices, random stream, secret and public key | the three entry points | `sign.c`, the tools, the KAT generator |
| Encodings (`C1cp_to_sk`, `sk_to_C1cp`, `A_to_pk`, `pk_to_A`, `mx_to_sm`, `sm_to_mx`, `hash_of_message`) | byte and digit arrays | base conversion, bit packing | the entry points |
| Memory (`allocate_*`, `free_matrix`, `goto cleanup`) | the pointers of each entry point | allocate, use, free, clean up | the entry points |
| Random generator (`L1/rng.c`) | `DRBG_ctx` (key, counter V) | `randombytes_init`, `randombytes`, `AES256_CTR_DRBG_Update`; `seedexpander` is not called | `NIST_rng` in all the draws, the tools |
| SHAKE-256 (`L1/keccak.c`) | 25-word sponge | absorb, squeeze | `hash_of_message` |
| Parameters and tables (`L1/parameters.c`, `L1/tables.c`) | constants | look-up | everywhere |
| KAT generator (`L1/PQCgenKAT_sign.c`) | request and response files, generator | write requests, read them back, answer | by hand |
| Command line tools (`c_utils/*.c`) | key files, signature logs, generator | replay a request, sign, parse, print | the scripts |
| Pipeline (`00_setup.sh`, `01_signature_generation.sh`, `02_process_signatures.sh`) | `data/`: key files, `SIGS` logs, samples | begin, fork, exit, wait, concatenate | by hand, one script after the other |
| Worker pool (in `01` and `02`) | a pipe of tokens, child processes | take a token, fork, return a token, wait | the scripts |
| Analysis scripts (`03` to `06`, `99`) | files | run programs in sequence | by hand |
| Numerical analysis (`*.py`) | numpy arrays | statistics, descent, lattice reduction | the scripts |

How they interact. The C library is sequential; its parts share the *position in
one random stream*. The secret key is the 48-byte seed from which `key_gen`
drew its matrices, and `sig_gen` draws them again from that seed, so two
programs that exchange no matrix have to consume the same stream in the same
order. The KAT generator and `eht_keygen` are two more such programs: the second
recovers the seed of a request by drawing all the requests before it. The
scripts run many signing processes at once and let them communicate with the
parent through a pipe only; the scripts communicate with each other through the
files in `data/` only.

What is hard here:

* **Long legal sequences.** The position search abandons a column on a conflict
  and goes on with what it has. At the real size this happens hundreds of times
  in one key, and the undo works from marks that do not say who set them.
* **Reuse after rejection.** A singular C1 restarts the search in the same
  arrays, with a new seed drawn from the old stream.
* **Replay.** Any draw made on one side and not on the other changes every
  matrix after it.
* **Residues in unsigned bytes.** Signs, remainders and reductions that are
  right for part of the range only (`s_mod_q`, C's `%`, the direction of a step
  of C2).
* **Concurrency in the scripts.** Children return tokens in any order, a
  failure is noticed late, and the script may exit while children run.
* **Partial failure.** Any of the allocations of an entry point can fail; any
  program of a script can be killed, and its output, which is written in blocks,
  may end within a line; a block that could not be written is not noticed, and
  the program returns 0.
* **Files left over.** A script that exits early leaves programs behind, which
  go on writing while the next script reads; a script run again finds its own
  outputs; a setup run again finds the keys of the last one.

The full list, with lines and the properties aimed at each, is under `hazards`
in `PROJECT.json`.

## 2. Modules

```
RectanglePromise                     what the search promises
      ^ refined by
LatinRectangle ----------> LatinRectangleProofs
      ^ INSTANCE                     ^ INSTANCE
GenerateC  --------------> GenerateCProofs
      ^ INSTANCE                     ^ INSTANCE
Ehtv3 -------------------> Ehtv3Proofs         LinearAlgebra (on Determinants):
   <- MCEhtv3                                  extended by GenerateC, Ehtv3 and
Codec ------------+                            CharPoly
   <- MCCodec     |
Memory -----------+------> CodecMemoryProofs   NumberTheorems (on Determinants):
CharPoly ----------------> CharPolyProofs      extended by the Proofs modules
   <- MCCharPoly                               but ToolsPoolProofs

PoolPromise                          what the worker pool promises
   ^ refined by    ^ INSTANCE
JobPool          Pipeline <- MCPipeline        Rng <- Tools <- MCTools
   |                 |                                  |
   |             PipelineProofs                         |
   +---------------> ToolsPoolProofs <------------------+
```

**LatinRectangle** — one action is one call of `NIST_rng(M-i)` and the pass of
the innermost loop that follows. `Place` and `Conflict` are the two branches of
`tracker[i][C1_index[s][j]]`; the loop that clears marks and the reset of `i`
belong to `Conflict`. The exchange belongs
to `Place` only: a conflict leaves `C1_index` half shuffled, and the column is
shuffled again from that order. The first
column is not looked up in the tracker but is recorded in it. `Retry` is the
`while` loop around it all, in `generate_C_sk` only.

**RectanglePromise** — the abstract specification: columns are added one at a
time, each a permutation that agrees with no earlier column in any row, or the
complete rectangle is dropped.

**LinearAlgebra** — the residues and products of `general_functions.c`, and
determinant and characteristic polynomial *by definition*, to compare with. The
definition of the determinant, the sum over the permutations, is in
**Determinants**, which the lemmas about determinants in NumberTheorems share.

**GenerateC** — `generate_C_sk` as a whole. `pc` tells the loops apart:
`index` (LatinRectangle runs), `value`, `test`, `error`, `done`. Entries of `C`
are bytes, and stepping one is arithmetic modulo 256. `Invertible` uses the
determinant; that the code's own algorithm decides the same is checked in
CharPoly and proved in CharPolyProofs. `generate_C` of the signer differs in having no test
(`AcceptUntested`).

**CharPoly** — `C1_characteristic_polynomial`: `Skip`, `Pivot`, `Clear` are
passes of the reduction to Hessenberg form (with the ranges of columns as the
code has them), `Extend` one pass of the recurrence, `Decide` the return.

**Ehtv3** — `key_gen`, `sig_gen` and `sig_ver` in turn, then `eht_sigparse`; or
`eht_printsk` after `key_gen`. `drbg` is the seed and
the number of draws since `randombytes_init`; `Rand(seed, n)` is the n-th draw.
C is drawn by the actions of GenerateC through INSTANCE, which take their draw
from `drbg`; T, L and U are drawn by loops without a branch and filled in one
action each, with the position of every entry's draw computed from the loop
bounds. `Publish` is `A = C*T*Binv`; `Redraw` reseeds and sets the arrays up
again, for a signature (`SigGen`) or for printing (`PrintSk`); `Try` is one pass
of the rejection loop (`solve_a`, `solve_z`, the
count of small errors); `Finish` is `x = B*y`; `Open` is `sig_ver`, which sees
the public key, the message and x only, and so does `SigParse`. The three
programs hold the draws of T, L and U in texts of their own, which agree word
for word; the model has them once, so it shows what that text does when
replayed, and the mutants what a difference would do.

**Codec** — the encodings, one pass of the outer loop per action; the inner loop
over digits is `Carried`. `Base` is 256 in the code. `Vectors` are encoded in
digits (the polynomial of C1, a signature), `Matrices` in bits (the public key);
only of these it is asked that the bits fill bytes, which `A_byte_size` relies
on: a signature has 242 entries of 6 bits, which do not. `packed` counts the
entries that `Pack` has taken in, and is `Size` in the state in which the bytes
are handed over.

**Memory** — the three entry points as lists of what they do to their pointers.
Between allocations they branch only to `cleanup`, so the list is the program
and one action executes its next element. Matrix rows are counted. The real
allocators fail as a whole (`general_functions.c`): rows already obtained are
freed. `free_matrix` reads its argument, so it faults on NULL.

**JobPool** — the text that `01` and `02` share. `pipe` is file descriptor 3,
`Read` is `read -u 3` with the test `((0==x)) || exit $x`, `Fork` starts the
child, `Return` ends the command in it, `Push` is `printf '%.3d' $? >&3`, `Wait`
the last line. `late` is a history variable: forks since a failure entered the
pipe.

**PoolPromise** — the pool without its pipe: tasks are started in order, a
running or failed task holds one of NT places, an early exit comes only over a
failure, the end only when nothing runs. JobPool implements it
(`ImplementsPool`, through `Todo`, `FailedTasks` and `Status`), and Pipeline
uses it in JobPool's place.

**Pipeline** — the scripts 00, 01 and 02 and what they start. `Plan` is the order
in which the user runs them; `stage` counts the scripts started, and the key of
a setup is the number of its stage. `here` and `data` are the two key files in
the working directory and in `data/`: `OpenSk`, `OpenPk`, `SaveSk`, `SavePk` are
the file operations of `eht_keygen` in their order, each of which may be the
last (`KeygenFails`), `MoveSk` and `MovePk` the `mv` of the script, which does
not look at what happened. `proc`, `file` and `raw` are the programs of 01 and
02, the files they write and `data/raw_Cz.dat`. A file is a sequence of
signatures or samples by the index they were made for; `Torn` is a line without
its end, as a block boundary leaves it (`SignBlock`), `Garbage` a sample of no
signature, or a line joined of two. `Start` opens the output and reads the key
(`read_sk`, `read_pk` refuse a short file). `Sample` is a pass of the loop of
`eht_sigparse`, `SampleTorn` and `ParseShort` what it makes of half a line,
`SampleRaw` what it makes of samples read as lines. `Killed` ends any program
anywhere. A write that fails ends nothing: neither `eht_siggen` nor
`eht_sigparse` looks at the results of its output, so the block is lost, the
program goes on and returns 0. `SignLost` loses all from some place in one line
up to another place, and joins the two ends; the joined line is in the log at
once, although its second half may be written later, which makes no difference
to what is made of it. `SampleLost` loses samples that are not on the disk yet
and, as a block is no multiple of a sample, may leave what follows shifted
(`aligned`). `lost` is a history variable that names the files. `Sorted` is the
order in which the shell puts the names, a parameter of which nothing is assumed
but that it has every name once: the 50 batches of the script come as 1, 10, 11,
..., 19, 2, 20 and so on. `Listing` is what `ls` and `cat` find of it. `Fork`,
`Exit`, `End` and `Leave` move the pool through the actions of PoolPromise; a
program whose script has exited leaves without a token.
What is assumed: scripts are started one after the other, and not killed
themselves, and their own `cat` and `mv` do not fail; a script is not started again while programs of its earlier run
still write the same files; the user changes `KEYID` between two setups, which
makes their keys different (with the same KEYID there is nothing to mix up).

**Rng** — `rng.c` as operators on the state `[Key, V]`. A block is a number below
`Wrap`, so the increment from byte to byte is +1 modulo `Wrap`; `Advanced` is the
counter after the loop of `randombytes`, `After` the whole function with its
update. The cipher is the parameter `Aes`, of which nothing is assumed but
that it gives a block.

**Tools** — `PQCgenKAT_sign`, `eht_keygen` and `eht_siggen` as users of Rng.
`Request` is a pass of the request loop, `Answer`, `KatKeypair`, `KatSign`,
`KatOpen` the parts of a pass of the response loop, any of which may be the last
(`KatEnds`); `Replay` is a pass of the loop of `eht_keygen` with its `break`;
`Message` and `Signature` are the two halves of a pass of `eht_siggen`. `KeyOf`
and `Spent` stand for what `key_gen` and `sig_gen`, modelled in Ehtv3, do with
the generator. The programs run one at a time, in any order and each at any
time: nothing but files connects them, and each has a generator of its own.

A definition whose comment begins with `MUTANT of X` is a plausible slip in the
code that `X` models: another guard, another bound, a missing reset. No
specification uses it; each is listed in `PROJECT.json` with a property that
fails when it replaces `X`.

**NumberTheorems** holds no part of the system: it is the library of lemmas that
the proofs about sums, powers and residues rest on. See section 4.

`Rand` and `Hash` in Ehtv3 are parameters: the generator and SHAKE-256
are left open there, and the model only relies on their being functions. That
the stream is a function of the seed and the requests is what Rng makes of it.

## 3. What the runs check

| Run | Bounds | Properties | What it shows |
|---|---|---|---|
| `LatinRectangle` | M = NORM1 = 4, every draw | `ColumnsArePermutations`, `TrackerExact`, `RowsDistinct`, `FreshColumnFillable`, `ImplementsPromise` | the search keeps its books through any conflicts and restarts, implements the promise, and never gets to where no draws could complete a column |
| `GenerateC` | 3 rows, 2 columns in C2, two entries and two steps per row, Q = 7, every draw | `SparseC1`, `RowNorm`, `InvertibleKept`, `NeverBack` | C has the shape and the norms the scheme needs, whatever was rejected before |
| `MCCharPoly` | all 4 by 4 matrices with two entries ±1 per row and column (three leading signs fixed), Q = 5 | `StaysSimilar`, `HessenbergSoFar`, `LeadingBlocks`, `VerdictRight` | the algorithm computes the characteristic polynomial and decides invertibility |
| `MCEhtv3` | 4 by 6 matrices, Q = 7, 100 seeds, 2 messages | `KeyEquation`, `CharPolyMatches`, `PreimageExact`, `LatticeClose`, `SignatureVerifies` | signer, printer and key generator agree on all matrices; every signature verifies, on the errors the signer saw, and `eht_sigparse` prints them |
| `MCCodec` | 8 entries modulo 5, Base = 16 for the digits, all vectors and keys over {0, 1, 4}, all hashes over {0, 1, 15} | `PackExact`, `RoundTrip`, `HashLow` | `size_char` bytes hold a whole vector, and nothing is lost in an encoding but the high part of a hash |
| `JobPool` | 3 tokens, 7 tasks, any of them failing, all interleavings | `TokensConserved`, `SoonNoticed`, `UnnoticedAreLast`, `Ends`, `ImplementsPool` | tokens are conserved, the script ends, which failures it misses, and that it implements the promise |
| `JobPoolOneProcessor` | no token | `AllReturnOrOneFails` fails | finding 2 |
| `Memory` | the real parameters, any allocation failing | `UsesLive`, `NothingLeft` | nothing is used before it is allocated or after it is freed, nothing leaks |
| `MemoryFailure` | the same | `FailureReturned` fails | finding 1 |
| `MCPipeline` | 2 tokens, 3 batches of 2 signatures, sorted 1, 3, 2; two setups, one signing and two processing runs; one failure or lost write | `KeysMatch`, `DamageContained`, `RawExact`, `Delivered` | the keys in `data/` belong together; whatever fails, the samples of a batch are those of its first signatures and at most one item of garbage at the end, and a lost write does harm to its own batch only; without a failure every sample comes, each batch together and in order |
| `MCPipelineRerun` | 2 batches, no failure | `OneSamplePerSignature` fails | finding 3 |
| `MCTools` | blocks below 64 of 4 bytes, 4 requests, every index and one beyond, 2 batches of 3 messages | `KatKeyRegenerated`, `StartsDistinct` | the replay ends at the right seed; no two messages start from one state |

LatinRectangle, GenerateC, CharPoly, Ehtv3 and JobPool also have a type
invariant, `TypeOK`.

**Why the bounds are enough.** A square rectangle (M = NORM1) is the tightest:
its last column has one filling, so conflicts occur in every column and after
every placement. With Q = 7 and NORM2 = 2 an entry of C2 reaches the magnitude
at which `< NORM2` decides, from both signs; three rows are the fewest for which
a rejected C1 leaves an entry where the next one has none. 4 by 4 is the first
size at which the reduction has two columns to clear, so that a row operation
meets cleared columns, and at which exchanges happen at both. In MCEhtv3 both
singular and invertible first attempts occur among the seeds, tries are
rejected, and K = 2, TUPPLE = (1, 3), ZBOUND = 1 put remainders on both sides of
the bound; every seed is accepted within `MaxTries` = 12 tries (otherwise the
run would report a deadlock). The numbers in MCCodec make every carry run through all digits, and
8 entries of 3 bits fill 3 bytes with entries across byte borders; 5^8 is below
16^5 but not below 16^4, so that the five digits are needed. Seven tasks
let each of three tokens go round at least twice. Memory and its findings need
no bound: the real parameters are used. In MCPipeline three batches over two
tokens are the fewest with which a script notices a failure while another of
its programs still runs, and two signatures per batch the fewest with
a signature before and one after the point at which a batch breaks off; the second setup
finds the keys of the first in `data/`, and the second processing run finds the
outputs of the first while programs of it may still be running. The third batch
is sorted before the second, as text sorts 10 before 2. One failure is
enough to meet every failing operation, as the properties claim nothing of two
failures that they do not claim of each; `KeysMatch` and
`DamageContained` are proved for any number.
In MCTools counters wrap within a run, requests of 9 to 36 bytes end on blocks
of 4 and within them, and the cipher is a permutation with no other structure.

**Where a run may stop.** Deadlock is checked in `LatinRectangle`, `MCEhtv3`,
`JobPool`, `MCPipeline` and `MCTools`, all but the first with an explicit step for
"has returned". It is not
checked where the modelled function returns (GenerateC, CharPoly, Codec,
Memory) nor in `JobPoolOneProcessor`, where the block is the finding.

**Fairness.** JobPool assumes weak fairness of the parent and of each child
separately: the operating system runs every process, and writes to the pipe do
not block (it is opened for reading and writing, and holds far more than NT
tokens of three bytes). It includes that a task returns, which is an assumption
on the signing programs. No fairness is assumed between processes that compete
for a token, because only the parent reads. Memory assumes weak fairness of its
single thread. Pipeline assumes weak fairness of the script and of each program
it has started, and none of failures; a program that is run comes to its end
because its input does. It covers the user's next step too: `Delivered` says
that the samples come if the user goes on to the next script. No other specification needs fairness: they have safety
properties only. Termination of the search of C1 and of the rejection loop holds
with probability one, which TLC cannot express; `FreshColumnFillable` is its
part that can fail, the absence of dead ends, and is proved.

## 4. What is proved

For all values of the constants that satisfy the named assumptions:

* `LatinRectangleProofs` (`ShapeAssumption`: M and NORM1 positive).
  `RectangleCorrect`, and from it the types (`RectangleTypeTheorem`),
  `ColumnsArePermutations` (`PermutationTheorem`), `TrackerExact`
  (`TrackerTheorem`), `RowsDistinct` (`DistinctTheorem`) and the refinement
  `ImplementsPromise` (`RefinementTheorem`). The inductive invariant
  `RectangleInv` joins the three properties with the types. None is inductive
  alone: that rows
  have distinct values needs the tracker to be exact, and that a rollback leaves the
  tracker exact needs the rows to be distinct (the value whose mark is cleared
  occurs in no earlier column of the row), which in turn needs the abandoned
  column to be a permutation still.
  `FillableTheorem` (`FreshColumnFillable`, with the hypothesis `NORM1 <= M`;
  `parameters.c` has 4 and 460): whatever was placed before, a column that is
  begun can be filled, so the search has no dead end. By `RectangleInv` the
  tracker has j marks in every row, and each value is marked in j rows, so of the
  pairs of a row and a value M - j are free for every row and for every value
  (`FreeOfRow`, `FreeOfValue`). Such a relation has a perfect matching
  (`RegularMatched`): counting the pairs of a set of rows (`EqualParts`) gives
  Hall's condition, and `HallTheorem` is proved by strong induction on the number
  of rows, with `HallTight` and `HallSlack` for the two cases of its step.
* `GenerateCProofs` (`WeightAssumption`: positive sizes, 2*NORM2 < Q <= 256).
  `GenerationCorrect`, `GenTypeTheorem`, `SparseTheorem`, `RowNormTheorem`,
  `InvertibleTheorem` and `NeverBackTheorem`. The inductive
  invariant `GenInv` instantiates that of the rectangle, adds that the rectangle
  is complete in the later loops, describes C1 cell by cell while the signs are
  drawn (nonzero exactly at the positions already visited), and bounds an entry
  of C2 by the steps its row has made; the counts of nonzero entries then follow
  from bijections between positions and columns. That an entry stays on its
  side of zero needs the bound, and the bound needs the cursor. The norm of a
  row grows by one with each step, as a sum in which one term has changed; the
  determinant of C1 stays as it was tested because no step touches its columns.
* `CodecMemoryProofs` on Codec (`CodecAssumption`). The types and the three properties of the
  encodings for every size, modulus and base not below the modulus; that the
  bits of a vector fill bytes is assumed of public keys only, so the theorems
  hold for the secret key and the signature at the code's own sizes.
  `PackTheorem`: the invariant says
  that the bytes written so far are the number whose digits to the base Q are
  the entries read so far, and that it is below Q to the power of their count,
  so that `size_char` bytes hold it, up to the last entry and without a carry
  that is dropped. `RoundTripTheorem`: unpacking takes the bytes, one after
  another, into the number with digits to the base Q, which is the number that
  was packed, and its digits are unique. `HashTheorem`: the digits
  taken from a hash are the hash modulo Q to the power `Size`.
* `CharPolyProofs` (`InputAssumption`: a prime modulus and any matrices). The
  types and the four properties of the algorithm, for every size; see below.
* `CodecMemoryProofs` on Memory (`DimensionAssumption`, which says what the code
  relies on: K*N = M+D and K = 2). `UsesLiveTheorem` and `NothingLeftTheorem`, for all dimensions.
  `Lives` gives for every matrix the numbers of the statements that allocate it,
  test it and free it. The inductive invariant `MemoryInv` says that a function
  that has met no failure has every matrix in the stage of its life that the
  number of executed statements gives, with the rows it was allocated with;
  between allocation and test it may be null. After a test that fails only
  frees are left (`Frees`), which can kill the process and return -2 but neither
  use a matrix nor return an answer. What a step does to the invariant is proved
  for any list of statements that agrees with its lifetimes (`Disciplined`); `ProgramsAre` looks at
  the lists of the three functions, statement by statement.
* `Ehtv3Proofs` (`SchemeAssumption`). The key equation, the split of solve_z,
  the preimage of solve_a and the agreement of signer and verifier; see below.
* `PipelineProofs` (`PlanAssumption`: any plan, any number of failures and lost
  writes; `SortedAssumption`: any order of the names).
  `KeysMatchTheorem`. The inductive invariant `KeyInv` says for every point of
  `eht_keygen` and of the script what the files can hold; between the two moves
  the files in `data/` may disagree, and the invariant says that the second move
  then brings either the other half or a file that is no key.
  `DamageTheorem` has the hypothesis `SetupFirst`: every run of 00 comes before the
  first run of 01 or 02, as in the order of the README. The
  inductive invariant `DamageInv` joins to `KeyInv` what every file can hold: a
  log has signatures in order, made with the key in `data/`, and perhaps a line
  without its end after them; a working `eht_sigparse` has as many clean samples
  as it has read lines, and the key in `data/`. That the counts agree keeps the
  next sample in its place, that the key files belong together makes it clean.
  Of a log or an output of which a write was lost the counts are bounds only: it
  has at most as many items as its program has counted, so that a signature or a
  sample may have moved up but never down, or be garbage (`LogPlace`,
  `SamplePlace`).
  Without `SetupFirst` a log may be of an earlier key, and all its samples
  are garbage.
  `RawTheorem` has the hypothesis `InOrder`: besides, a 00 comes before every 01
  and 02, and a 01 before every 02; each may be run any number of times. Its
  invariant `RawInv` speaks of the states in which nothing has failed and no file
  of a second processing has been opened. There each file of the batches is
  either due, its program queued or in the pool, or complete (`SignInv` for the
  logs, `ProcessInv` for the samples), and no program is outside the pool, so
  that a pool that ends leaves every file complete; what `ls` and `cat` list then
  are the files that there are, each once, in the order of `Sorted`
  (`ListingHas`, `OutputsFirst`), which are as many as there are batches
  (`EachOnce`); as many blocks of one length are the whole (`FlattenBlocks`), in
  which every batch has its place (`AllTogether`). After that (`LaterInv`) the file stays: a script that
  processes again has a task whose first step opens a second file (`Awaits`), and
  it cannot come to its `cat` before.
* `ToolsPoolProofs` on JobPool (`PoolAssumption`: NT natural, so zero is included; at least
  one task). `PoolCorrect`, `PoolTypeTheorem`, `TokensTheorem`,
  `NoticeTheorem`, and `AtMostNT`: no
  more than NT tasks run at once. `PoolInv` adds to token conservation that
  tasks are forked in order and that `late` is bounded by the position of the
  first failure in the pipe: every fork since has taken a token before it.
  `PoolImplementsPromise`: every step of
  the pipe is a step of PoolPromise or a stutter; `UnnoticedTheorem`. `RefInv`
  (`FailuresTheorem`) adds to `PoolInv` that the nonzero tokens in the pipe, and
  the one that ended the script, are as many as the failed tasks that are gone:
  from that and token conservation a fork has a place, and an exit has a
  failure.
* `ToolsPoolProofs` on Tools (`RngAssumption`: a block cipher gives blocks, xor can be undone;
  `ToolsAssumption`: the words of a message's entropy input tell batches and
  indices apart). `StartsDistinctTheorem`: the entropy inputs
  differ, and an update from the unseeded state is injective in them, whatever
  the cipher; `StartsInv` says that all entries so far are of an earlier
  batch or an earlier index, and no two of the same batch and index.
  `KatKeyTheorem`: `ReplayInv` says that both loops, of two programs that share
  no state, walk along one chain of generators, given by the first and by
  `AfterPass`, and what the answers and the key hold of it.

**The scheme.** `Ehtv3Proofs` proves all properties that the run `MCEhtv3` checks,
for every dimension, modulus, seed, message and number of tries. The argument:

1. *Algebra.* Matrix products over the residues associate
   (`ProductAssociates`, `ApplyProduct`); what `LowerInverse` and
   `UpperInverse` compute row by row cancels (`InverseCancels`); an entry of
   solve_z is a difference that `Reduce` splits into two small numbers
   (`ReduceLaw`), and the entries before it are not changed by it
   (`SolveZLaw`); the head that solve_a sums up is `C1^(-1)` times its
   argument (`HeadSolves`).
2. *Generation is a function of the seed.* `After(seed, v)` is the state that
   follows state `v` of generate_C on the stream of `seed`; it covers the
   conflicts, the restarts of the search and the steps that are not taken.
   `Reached(seed, v)` says that it leads from the start to `v`. Two runs from one
   seed therefore end in the same C after the same number of draws
   (`FinalIs`), and T, L and U, drawn from there on, are the same too (`TOf`,
   `LOf`, `UOf`).
   A rejected C1 gives up its stream and starts a new one: the claim is only
   about the stream whose seed is in the secret key.
3. *The inductive invariant* `SchemeInv` (`SchemeTheorem`) is the
   conjunction of `Flow` (which program can be how far), `OnStream` (the draws
   so far are those of the secret key's seed, at the position the phase says),
   `MatricesOK` (each matrix that is there is the one of the seed, and
   triangular and regular as it should be), `KeyOK` (the public key is
   `C*T*Uinv*Linv` for the matrices of the seed; the polynomial is that of
   its C1, which is invertible) and `SigOK` (what a try leaves behind). Each part needs
   those before it. It uses CHOOSE over all streams and quantifies over all
   sequences of states, so TLC cannot evaluate it: TLC checks what follows
   from it.
4. *The theorems.* `KeyEquationTheorem` follows from 1 and 2,
   `CharPolyTheorem` from `KeyOK`, `LatticeTheorem` from `SigOK`,
   `SchemeTypeTheorem` from all parts. `PreimageTheorem` adds what a try
   computes from the polynomial. `VerificationTheorem` then follows by
   `h - A*x = C*a - C*T*y = C*z`: sig_ver, which sees neither C nor z, computes
   the errors on which sig_gen decided.

One fact is a hypothesis of these theorems, visible in their statements.
`RandWords` says that the generator returns numbers; the parameter `Rand` is an
operator, about which TLC cannot check an assumption that quantifies over all
positions of a stream. That the head found in solve_a is `C1^(-1)` times its
argument is the theorem of Cayley and Hamilton, and `CayleyHamilton` proves it
here, from the definition of the coefficients (`RootOfCharPoly` in
NumberTheorems is its form over the integers). It
needs no matrices of polynomials, only sums of minors. The coefficient of degree M-k is, but
for its sign, the sum of the principal minors of size k (`MinorSum`). A *fringe*
is such a minor with one row and one column more. Expansion of the added row (`FringeSumLaw`)
says how the adjoint of size k+1, made of sums of fringes, comes from the one of size k
(`ImageStep`); applied to a vector, the adjoint of size k is therefore an
alternating sum of its first powers (`ChainHolds`), and there is none of size M
(`ImageLast`): the sum over all powers is zero.
`SchemeAssumption`
requires of the moduli what the code's parameters satisfy: residues have
inverses (the code's Q = 47 is prime), `ZBOUND < TUPPLE[1] <= 2*ZBOUND + 1 < Q` and
`Q div 2 <= (TUPPLE[1] + 1)*ZBOUND`. The bounds are needed: with `TUPPLE[1] <=
ZBOUND` a remainder that `Reduce` leaves alone may still have a quotient beyond
the bound.

**The characteristic polynomial.** `CharPolyProofs` proves `TypeOK`, `StaysSimilar`,
`HessenbergSoFar`, `LeadingBlocks` and `VerdictRight` from one inductive
invariant (`CharPolyInvariance`), `CharPolyInv`, for every number of rows. Its parts need one another:

* `Control` has the ranges of the loop variables; `Reduced` says that the
  columns before `m-1` are zero below their subdiagonal entry and column `m-1`
  down to `row`, and that the pivot is not zero, so that it has an inverse.
* `StaysSimilar` needs `Reduced`. The code exchanges two rows from column `m-1`
  on only; this is an exchange of whole rows because both are zero before it.
  An exchange renames the minors (`MinorSumSwap`). The row operation adds to the sum
  of the minors what the column operation takes away again
  (`MinorSumClear`): both are the same factor times fringes of equal
  determinant (`CrossFringe`).
* `Blocks` says which polynomials are stored, and that they are those of the
  leading blocks. The step from e to e+1 rows is the expansion of the last
  column, unrolled along the subdiagonal (`HessenbergRecurrence`), and needs the
  matrix to be in Hessenberg form, by `Reduced`. All coefficients have the sign
  (-1)^M, because the code starts from it (`LeadIs`).
* `Verdict` says that `Decide` looks at the constant coefficient, which by
  `Blocks` is that of H, by `StaysSimilar` that of C1, and so its determinant.

**Induction.** The induction schemes of the library take an operator as a
parameter, which the provers cannot instantiate. NumberTheorems states
them with sets instead, which they can: `NatSetInduction` (a set that has
0 and, with each number, the next, has all numbers), `SubsetInduction` (the same
for the subsets of a finite set) and `Recursion` (a function that gives each
value from the earlier ones has a solution). From these it proves that a sum over a finite set does not
depend on the order (`SumTake`, `SumUnion`, `SumReindex`), is linear and
respects congruence, and what powers and digits are; then, from the sum over the permutations, the sign
of an exchange, that a matrix with two equal rows has no determinant, that a transpose has the same,
the expansion of a row, and the theorem of Cayley and Hamilton. With these schemes the recursive definitions of
the model (`Carried`, `SolveZ`, `LowerInverse`, the powers in `HeadOfA`) are open to proof.

Only model-checked: liveness (`Ends`, `Delivered`), and the three properties
that fail. Every invariant and every other action property of the passing runs is a theorem.

## 5. Findings

1. **-2 is never returned.** The comments of `key_gen`, `sig_gen` and `sig_ver`
   promise -2 "if memory allocation fails" (`L1/eht_keygen.c:466`). A failed
   allocation leaves a NULL pointer; the code goes to `cleanup`, whose
   `free_matrix` reads every pointer, so the process faults before it returns
   (run `memory_failure`). Pointers not yet assigned are also freed there, and
   `sig_ver` frees `x` with the row count of another matrix.
2. **One processor.** The pool starts with (number of processors - 1) tokens.
   With none, the first `read` blocks for ever, and no signature is generated
   (run `job_pool_one_processor`; README: "`01_signature_generation.sh`
   generates signatures.").
3. **Processing twice.** `ls data/SIGS*` in `02_process_signatures.sh` also
   matches the `SIGS*.raw_Cz.dat` files that an earlier run left. They are parsed
   as logs: `eht_sigparse` fails on them, which may end the script before it
   concatenates, or the result has items that are samples of no signature
   (run `pipeline_rerun`; README: "turn each signature `x_i` into a sample").

Observed without a run, as behaviour to know: a failure among the last NT tasks
to return is never read, and the script ends with status 0
(`UnnoticedAreLast` states exactly which). And a block of output that `eht_siggen`
or `eht_sigparse` could not write is noticed by nobody, neither the program nor
its script; `DamageContained` says how far the harm goes. The order of the
batches in `data/raw_Cz.dat` is that of the names as text.

## 6. Not modelled, and why

* AES and the tables' contents: arithmetic that TLC cannot
  treat at its width; they appear as the constants `Aes` and `Rand` and as the
  functions that the tables tabulate.
* `keccak.c`: reference code of the Keccak Team, taken over unchanged; it appears
  as the constant `Hash`.
* `seedexpander`: nothing calls it.
* `verify.c`, `print_pk.c`, `hash.c`: one call of a function that is modelled,
  with files and hexadecimal text around it. The last line of `00_setup.sh`,
  which runs `eht_print_pk`, is left out with it.
* The rejection loop's termination: a matter of probability.
* The Python programs: floating point and lattice reduction.
* Scripts 03 to 06 and 99: straight sequences of calls of those programs (04
  forks without limit and waits).

## 7. Plan

Done, in order of importance: the search and its promise, C, the scheme around
it, the polynomial, the encodings, memory, the worker pool and its promise, the
pipeline of scripts, the generator and the tools that use it; proofs of the
search and that it has no dead end, of C, of the scheme up to the agreement of signer and verifier, of the
polynomial, of the encodings, of memory, of the pool and its refinement, of the key files, of the logs and
samples under failures and without, and of the generator's uses.

Left, because this prover does not reach it: liveness (`Ends`, `Delivered`).
