------------------------------ MODULE Pipeline ------------------------------
(***************************************************************************)
(* The scripts 00_setup.sh, 01_signature_generation.sh and                 *)
(* 02_process_signatures.sh with the programs they start, eht_keygen,      *)
(* eht_siggen and eht_sigparse, over the files they share.  The scripts    *)
(* run one after the other; a script that exits early leaves its programs  *)
(* running, so that they meet the next script.  The pool of tasks is the   *)
(* one of PoolPromise, which JobPool implements.                           *)
(*                                                                         *)
(* A file is a sequence of items.  In data/SIGS_b an item is a line: a     *)
(* signature, <<batch, index, key>>, Torn, the line without its end, or    *)
(* Garbage, the parts of two lines that a lost write has joined.  In a     *)
(* .raw_Cz.dat file it is the sample of a signature, <<batch, index>>, or  *)
(* Garbage, M bytes or fewer that are the sample of none.  A file is named *)
(* by its batch and by how many times .raw_Cz.dat is appended.             *)
(***************************************************************************)
EXTENDS Naturals, Sequences, FiniteSets, SequencesExt

CONSTANTS NT,         \* tokens of the semaphore
          NBatches,   \* NBATCHES of 01_signature_generation.sh
          BatchSize,  \* its BATCHSIZE
          Plan,       \* the scripts, in the order in which they are run
          Sorted,     \* the names of the files, in the order of the shell
          MaxFaults,  \* bound: how many programs and writes fail by themselves
          NoFile, Short, Torn, Garbage

ASSUME PlanAssumption ==
  /\ NT \in Nat /\ NBatches \in Nat /\ BatchSize \in Nat
  /\ Plan \in Seq({"setup", "sign", "process"}) /\ MaxFaults \in Nat
  /\ NoFile \notin Nat /\ Short \notin Nat /\ NoFile # Short
  /\ Torn # Garbage /\ {Torn, Garbage} \cap (Nat \X Nat \X Nat) = {}
  /\ NoFile \notin Seq((Nat \X Nat \X Nat) \cup (Nat \X Nat) \cup {Torn, Garbage})

VARIABLES stage,      \* how many scripts of the plan have been started
          step,       \* of 00_setup.sh and eht_keygen, "off" when not running
          here,       \* private.sk and public.pk in the working directory
          data,       \* the same in data/
          todo, active, failed, status,   \* the pool of the running script
          proc,       \* [file -> the program that writes it]
          file,       \* [file -> contents]
          raw,        \* data/raw_Cz.dat
          lost,       \* history: the files that a write has been lost of
          faults      \* history: what has failed by itself

keyVars  == <<step, here, data>>
poolVars == <<todo, active, failed, status>>
fileVars == <<proc, file, raw, lost>>
vars     == <<stage, keyVars, poolVars, fileVars, faults>>

Pool == INSTANCE PoolPromise WITH Tasks <- << >>

Key   == DOMAIN Plan          \* the key that the n-th script extracts
Batch == 1 .. NBatches
Reruns == Cardinality({s \in DOMAIN Plan : Plan[s] = "process"})
Name  == Batch \X (0 .. Reruns)
Input(out) == <<out[1], out[2] - 1>>

\* Any order: data/SIGS_10000_1, then _10, _11, ... and _2 after _19.
ASSUME SortedAssumption ==
  /\ Sorted \in Seq(Name) /\ IsInjective(Sorted)
  /\ \A out \in Name : \E n \in DOMAIN Sorted : Sorted[n] = out

\* What a program is about: the key that it has read, the signatures it has
\* made or the lines it has read, and whether what it writes next begins
\* where a sample does.
Idle == [at |-> "none", key |-> NoFile, count |-> 0, aligned |-> TRUE]

Init == /\ stage = 0 /\ step = "off"
        /\ here = [k \in {"sk", "pk"} |-> NoFile]
        /\ data = [k \in {"sk", "pk"} |-> NoFile]
        /\ todo = << >> /\ active = {} /\ failed = {} /\ status = "ended"
        /\ proc = [out \in Name |-> Idle]
        /\ file = [out \in Name |-> NoFile]
        /\ raw = NoFile
        /\ lost = {}
        /\ faults = 0

\* A program is killed, fails over its memory, its arithmetic or a file that
\* it opens, or loses something that it writes.
Fault == faults < MaxFaults /\ faults' = faults + 1

-----------------------------------------------------------------------------
\* The user starts the next script when the last one is over.
ScriptOver == step = "off" /\ status # "runs"
Begin(script) == /\ ScriptOver /\ stage < Len(Plan) /\ Plan[stage + 1] = script
                 /\ stage' = stage + 1

BeginSetup == /\ Begin("setup")
              /\ step' = "openSk"
              /\ UNCHANGED <<here, data, poolVars, fileVars, faults>>

\* The pool of a script that starts on these tasks.  The user does not run a
\* script again while its programs still write.
StartPool(tasks) == /\ \A n \in DOMAIN tasks : proc[tasks[n]] = Idle
                    /\ todo' = tasks /\ active' = {} /\ failed' = {}
                    /\ status' = "runs"
                    /\ UNCHANGED <<keyVars, fileVars, faults>>

BeginSign == /\ Begin("sign")
             /\ StartPool([b \in Batch |-> <<b, 0>>])

\* ls data/SIGS*, and data/*.raw_Cz.dat as cat gets it: the files that there
\* are, as they are sorted.
Listing(from) ==
  LET upto[n \in 0 .. Len(Sorted)] ==
        IF n = 0 THEN << >>
        ELSE IF Sorted[n][2] >= from /\ file[Sorted[n]] # NoFile
        THEN Append(upto[n - 1], Sorted[n]) ELSE upto[n - 1]
  IN  upto[Len(Sorted)]

\* Each task of 02_process_signatures.sh is named by the file it writes.
Outputs == LET logs == Listing(0)
           IN  [n \in DOMAIN logs |-> <<logs[n][1], logs[n][2] + 1>>]

BeginProcess == /\ Begin("process")
                /\ StartPool(Outputs)

-----------------------------------------------------------------------------
\* 00_setup.sh.  eht_keygen opens both files, which empties them, before it
\* has a key for them, and the script moves whatever files there are.
Keygen(from, to) == /\ step = from /\ step' = to
                    /\ UNCHANGED <<stage, data, poolVars, fileVars>>

OpenSk == /\ Keygen("openSk", "openPk")
          /\ here' = [here EXCEPT !["sk"] = Short] /\ UNCHANGED faults

\* MUTANT of OpenPk: the file is opened when there is a key for it.
OpenPkLate == Keygen("openPk", "saveSk") /\ UNCHANGED <<here, faults>>

OpenPk == /\ Keygen("openPk", "saveSk")
          /\ here' = [here EXCEPT !["pk"] = Short] /\ UNCHANGED faults

\* What fwrite and fclose leave of a key, whose results nobody looks at.
Save(k, from, to) ==
  /\ Keygen(from, to)
  /\ \/ here' = [here EXCEPT ![k] = stage] /\ UNCHANGED faults
     \/ here' = [here EXCEPT ![k] = Short] /\ Fault

SaveSk == Save("sk", "saveSk", "savePk")
SavePk == Save("pk", "savePk", "moveSk")

\* eht_keygen returns early or is killed; the script goes on.
KeygenFails == /\ Fault /\ step \in {"openSk", "openPk", "saveSk", "savePk"}
               /\ Keygen(step, "moveSk")
               /\ UNCHANGED here

Move(k, from, to) ==
  /\ step = from /\ step' = to
  /\ IF here[k] = NoFile THEN UNCHANGED <<here, data>>
     ELSE /\ data' = [data EXCEPT ![k] = here[k]]
          /\ here' = [here EXCEPT ![k] = NoFile]
  /\ UNCHANGED <<stage, poolVars, fileVars, faults>>

MoveSk == Move("sk", "moveSk", "movePk")
MovePk == Move("pk", "movePk", "off")

Setup == OpenSk \/ OpenPk \/ SaveSk \/ SavePk \/ KeygenFails \/ MoveSk \/ MovePk

-----------------------------------------------------------------------------
\* The loop of either script, and the end of the first.
Fork == /\ Pool!Fork
        /\ proc' = [proc EXCEPT ![Head(todo)] = [Idle EXCEPT !.at = "forked"]]
        /\ UNCHANGED <<stage, keyVars, file, raw, lost, faults>>

Exit == Pool!Exit /\ UNCHANGED <<stage, keyVars, fileVars, faults>>

EndSign == /\ Pool!End /\ Plan[stage] = "sign"
           /\ UNCHANGED <<stage, keyVars, fileVars, faults>>

\* cat data/*.raw_Cz.dat > data/raw_Cz.dat, after the wait.
EndProcess ==
  /\ Pool!End /\ Plan[stage] = "process"
  /\ raw' = LET parts == Listing(1)
            IN  FlattenSeq([n \in DOMAIN parts |-> file[parts[n]]])
  /\ UNCHANGED <<stage, keyVars, proc, file, lost, faults>>

-----------------------------------------------------------------------------
\* MUTANT of Leave: a program that ends does not give its token back.
LeaveSilent(out, ok) == /\ proc' = [proc EXCEPT ![out] = Idle]
                        /\ UNCHANGED <<stage, keyVars, poolVars, raw, lost>>

\* A program ends, with its token if its script is still there.
Leave(out, ok) ==
  /\ proc' = [proc EXCEPT ![out] = Idle]
  /\ IF out \in active THEN Pool!Finish(out, ok) ELSE UNCHANGED poolVars
  /\ UNCHANGED <<stage, keyVars, raw, lost>>

Goes(out, p) == /\ proc' = [proc EXCEPT ![out] = p]
                /\ UNCHANGED <<stage, keyVars, poolVars, raw, lost, faults>>

\* Nobody looks at the result of a write: what stdio could not write it drops,
\* and the program goes on to return 0.
Loses(out, f, p) == /\ Fault
                    /\ file' = [file EXCEPT ![out] = f]
                    /\ proc' = [proc EXCEPT ![out] = p]
                    /\ lost' = lost \cup {out}
                    /\ UNCHANGED <<stage, keyVars, poolVars, raw>>

\* The shell creates or empties the file, and the program reads its key: all
\* of it, or it fails.
Start(out) ==
  LET key == data[IF out[2] = 0 THEN "sk" ELSE "pk"]
  IN  /\ proc[out].at = "forked"
      /\ file' = [file EXCEPT ![out] = << >>]
      /\ IF key \in Key
         THEN Goes(out, [Idle EXCEPT !.at = "works", !.key = key])
         ELSE Leave(out, FALSE) /\ UNCHANGED faults

Works(out)  == proc[out].at = "works"
Parses(out) == Works(out) /\ out[2] > 0

\* What may be on the disk of what eht_sigparse has printed when it breaks
\* off: the rest, and perhaps a part of a sample, were not yet written.
Remains(f) ==
  {SubSeq(f, 1, n) : n \in 0 .. Len(f)}
    \cup {Append(SubSeq(f, 1, n - 1), Garbage) : n \in DOMAIN f}

Killed(out) == /\ Fault /\ proc[out].at # "none"
               /\ \E f \in IF Parses(out) THEN Remains(file[out]) ELSE {file[out]} :
                    file' = [file EXCEPT ![out] = f]
               /\ Leave(out, FALSE)

EndsTorn(f) == f # << >> /\ Last(f) = Torn

\* The log up to the line that the next write goes on with, and the
\* signatures of the batch that come then, up to the n-th.
Logged(f) == SubSeq(f, 1, IF EndsTorn(f) THEN Len(f) - 1 ELSE Len(f))
Signed(out, n) == [i \in 1 .. n - proc[out].count |->
                     <<out[1], proc[out].count + i, proc[out].key>>]

Signs(out) == Works(out) /\ out[2] = 0
Counts(out, n) == [proc[out] EXCEPT !.count = n]

\* eht_siggen: its output is written in blocks, which end within a line.
SignBlock(out) ==
  /\ Signs(out)
  /\ \E n \in proc[out].count .. BatchSize - 1, torn \in BOOLEAN :
       /\ n = proc[out].count => torn /\ ~ EndsTorn(file[out])
       /\ file' = [file EXCEPT ![out] =
                     Logged(@) \o Signed(out, n) \o IF torn THEN <<Torn>> ELSE << >>]
       /\ Goes(out, Counts(out, n))

\* The rest of line count+1 is lost, and all up to line n or into it: the two
\* ends make one line, and if they are the ends of lines there is none.
SignLost(out) ==
  /\ Signs(out)
  /\ \E n \in proc[out].count + 1 .. BatchSize, joined \in BOOLEAN :
       /\ EndsTorn(file[out]) => joined
       /\ Loses(out, Logged(file[out]) \o IF joined THEN <<Garbage>> ELSE << >>,
                Counts(out, n))

SignDone(out) == /\ Signs(out)
                 /\ file' = [file EXCEPT ![out] = Logged(@) \o Signed(out, BatchSize)]
                 /\ Leave(out, TRUE) /\ UNCHANGED faults

\* crypto_sign fails: what has been signed is written, in whole lines.
SignFails(out) ==
  /\ Fault /\ Signs(out)
  /\ \E n \in proc[out].count .. BatchSize - 1 :
       /\ n = proc[out].count => ~ EndsTorn(file[out])
       /\ file' = [file EXCEPT ![out] = Logged(@) \o Signed(out, n)]
  /\ Leave(out, FALSE)

-----------------------------------------------------------------------------
\* eht_sigparse, reading a line at a time what cat finds in its input; of a
\* file that is not there it finds nothing.
Text(out)    == IF file[Input(out)] = NoFile THEN << >> ELSE file[Input(out)]
Line(out)    == Text(out)[proc[out].count + 1]
HasLine(out) == Parses(out) /\ proc[out].count < Len(Text(out))

Sampled(out, s) ==
  /\ file' = [file EXCEPT ![out] = Append(@, IF proc[out].aligned THEN s ELSE Garbage)]
  /\ Goes(out, Counts(out, proc[out].count + 1))

\* A line of a log: h - A*x is the sample if A is of the key that signed it.
Sample(out) ==
  /\ HasLine(out) /\ out[2] = 1 /\ Line(out) # Torn
  /\ Sampled(out, IF Line(out) # Garbage /\ Line(out)[3] = proc[out].key
                  THEN <<Line(out)[1], Line(out)[2]>> ELSE Garbage)

\* MUTANT of SampleTorn: the program waits for more after a line without end.
SampleTornOn(out) == /\ HasLine(out) /\ Line(out) = Torn
                     /\ Sampled(out, Garbage)

\* A line without end comes only at the end of the input.  If it holds the
\* 169 bytes of x its bytes are off by one or more digits.
SampleTorn(out) == /\ HasLine(out) /\ Line(out) = Torn
                   /\ file' = [file EXCEPT ![out] = Append(file[out], Garbage)]
                   /\ Leave(out, TRUE) /\ UNCHANGED faults

\* Samples read as if they were lines: a line break is one value of a byte.
SampleRaw(out) == /\ HasLine(out) /\ out[2] > 1
                  /\ \/ Sampled(out, Garbage)
                     \/ /\ Goes(out, Counts(out, proc[out].count + 1))
                        /\ UNCHANGED file

\* A line that is too short for x has a message length below zero, unsigned:
\* the copy of the message does not end before the program does.
ParseShort(out) ==
  /\ HasLine(out) /\ (Line(out) \in {Torn, Garbage} \/ out[2] > 1)
  /\ \E f \in Remains(file[out]) : file' = [file EXCEPT ![out] = f]
  /\ Leave(out, FALSE) /\ UNCHANGED faults

ParseDone(out) == /\ Parses(out) /\ ~ HasLine(out)
                  /\ Leave(out, TRUE) /\ UNCHANGED <<file, faults>>

\* A block of samples is lost.  A block is no multiple of a sample, so that
\* what is written after it no longer begins where a sample does.
SampleLost(out) ==
  /\ Parses(out)
  /\ \E f \in Remains(file[out]) \ {file[out]}, shifted \in BOOLEAN :
       Loses(out, f, [proc[out] EXCEPT !.aligned = @ /\ ~ shifted])

Program(out) ==
  \/ Start(out) \/ SignBlock(out) \/ SignDone(out) \/ SignFails(out)
  \/ Sample(out) \/ SampleTorn(out) \/ SampleRaw(out) \/ ParseShort(out)
  \/ ParseDone(out)

Script == \/ BeginSetup \/ BeginSign \/ BeginProcess
          \/ Setup \/ Fork \/ Exit \/ EndSign \/ EndProcess

Mishap(out) == Killed(out) \/ SignLost(out) \/ SampleLost(out)

AllOver == stage = Len(Plan) /\ ScriptOver /\ \A out \in Name : proc[out] = Idle

Next == \/ Script
        \/ \E out \in Name : Program(out) \/ Mishap(out)
        \/ AllOver /\ UNCHANGED vars

\* The operating system runs the script and every program.
Fairness == WF_vars(Script) /\ \A out \in Name : WF_vars(Program(out))

Spec == Init /\ [][Next]_vars /\ Fairness

-----------------------------------------------------------------------------
\* "extracts a keypair from the KAT" (README.md): between the scripts the two
\* key files in data/ never hold the halves of two keys, even if eht_keygen
\* was killed or could not write: both files are emptied before it has a key,
\* and the secret key is written first.
KeysMatch == step = "off" /\ data["sk"] \in Key /\ data["pk"] \in Key
               => data["sk"] = data["pk"]

\* No write of the samples of a batch, nor of their log, has been lost.
Intact(out) == out \notin lost /\ Input(out) \notin lost

\* Whatever fails, in 01_signature_generation.sh, in eht_keygen or in
\* eht_sigparse, and however the programs that an early exit leaves behind
\* meet 02_process_signatures.sh: the samples of a batch are those of its
\* first signatures in their order, and at most the last one is garbage.
\* Where a write was lost, which no program notices, some are missing and
\* some are garbage, but none comes after its place, or from another batch.
DamageContained ==
  \A out \in Name :
    LET f == file[out]
    IN  out[2] = 1 /\ f # NoFile =>
          \A n \in DOMAIN f :
            \/ f[n] = <<out[1], n>>
            \/ f[n] = Garbage /\ (n = Len(f) \/ ~ Intact(out))
            \/ ~ Intact(out) /\ \E i \in n + 1 .. BatchSize : f[n] = <<out[1], i>>

\* One sample for every signature, those of a batch together and in order,
\* and nothing else.
Complete(r) ==
  /\ r # NoFile /\ Len(r) = NBatches * BatchSize
  /\ \A b \in Batch : \E at \in 0 .. Len(r) - BatchSize :
       \A i \in 1 .. BatchSize : r[at + i] = <<b, i>>

Processed == ScriptOver /\ stage > 0 /\ Plan[stage] = "process"
FirstTime == \A f \in Name : f[2] > 1 => file[f] = NoFile

\* If no program and no write has failed, data/raw_Cz.dat is complete once
\* 02_process_signatures.sh has been run, however the shell sorts the names.
RawExact == Processed /\ FirstTime /\ faults = 0 => Complete(raw)

\* If no program and no write fails, the samples of all the signatures come.
Delivered == <>(faults > 0) \/ <>Complete(raw)

\* "turn each signature x_i into a sample C z_i mod 47" (README.md): run on
\* whatever the data directory holds, 02_process_signatures.sh goes through
\* it to the end and leaves one sample for every signature.
OneSamplePerSignature == Processed => status = "ended" /\ Complete(raw)
=============================================================================
