--------------------------- MODULE PipelineProofs ---------------------------
(***************************************************************************)
(* The two key files that 00_setup.sh leaves in data/ match, for any plan  *)
(* of scripts, any number of batches and any failures of eht_keygen: what  *)
(* it takes is that both files are emptied before either holds the key.    *)
(* And what a failure of any program, or a write that is lost, can do to   *)
(* the samples, for any number of batches, signatures, scripts and         *)
(* failures: the samples of a batch stay those of its first signatures,    *)
(* and where a write was lost they may be garbage, but none comes before   *)
(* its place.  That takes that the keys are made before anything is        *)
(* signed, which is the order of the README, and rests on the two key      *)
(* files belonging together.                                               *)
(*                                                                         *)
(* Last, what comes of the scripts when nothing fails: one sample for      *)
(* every signature, those of a batch together and in order, and the        *)
(* batches in whatever order the shell sorts their names.  There the files *)
(* of a batch are followed through the pools of the scripts: each is       *)
(* either due, its program waiting or running, or complete.                *)
(***************************************************************************)
EXTENDS Pipeline, NumberTheorems

Match == data["sk"] \in Key /\ data["pk"] \in Key => data["sk"] = data["pk"]

Halves == [{"sk", "pk"} -> Key \cup {NoFile, Short}]
Saved  == {Short, stage}

\* Where eht_keygen and the script stand, and what that says of the files.
KeyInv ==
  /\ stage \in Nat /\ here \in Halves /\ data \in Halves
  /\ step \in {"off", "openSk", "openPk", "saveSk", "savePk", "moveSk", "movePk"}
  /\ step # "off" => stage \in Key
  /\ step # "movePk" => Match
  /\ step \in {"off", "openSk"} => here["sk"] = NoFile /\ here["pk"] = NoFile
  /\ step = "openPk" => here["sk"] = Short /\ here["pk"] = NoFile
  /\ step = "saveSk" => here["sk"] = Short /\ here["pk"] = Short
  /\ step = "savePk" => here["sk"] \in Saved /\ here["pk"] = Short
  /\ step = "moveSk" => \/ here["sk"] \in {NoFile, Short} /\ here["pk"] = NoFile
                        \/ here["sk"] \in Saved /\ here["pk"] \in Saved
  /\ step = "movePk" => /\ here["sk"] = NoFile
                        /\ \/ here["pk"] = NoFile /\ Match
                           \/ here["pk"] \in Saved /\ data["sk"] \in Saved

\* Stages are numbers, so that neither an absent nor a short file is a key.
LEMMA KeysAreNumbers == Key \subseteq Nat /\ NoFile \notin Key /\ Short \notin Key
<1>1. DOMAIN Plan = 1 .. Len(Plan) /\ Len(Plan) \in Nat BY PlanAssumption
<1>2. Key \subseteq Nat BY <1>1 DEF Key
<1> QED BY <1>2, PlanAssumption

\* At first there is no key at all.
LEMMA KeyInit == Init => KeyInv
BY KeysAreNumbers DEF Init, KeyInv, Halves, Match

-----------------------------------------------------------------------------
\* A step that leaves the keys alone, and the stage while 00_setup.sh runs,
\* keeps the invariant.
LEMMA KeysUntouched ==
  ASSUME KeyInv, UNCHANGED keyVars, stage' \in Nat,
         step # "off" => stage' = stage
  PROVE  KeyInv'
BY DEF KeyInv, keyVars, Halves, Saved, Match

\* The programs of the other two scripts leave the keys alone.
LEMMA ProgramsLeaveKeys ==
  ASSUME NEW out \in Name, Program(out) \/ Mishap(out)
  PROVE  UNCHANGED <<keyVars, stage>>
<1>1. ASSUME NEW ok, Leave(out, ok) PROVE UNCHANGED <<keyVars, stage>>
  BY <1>1 DEF Leave
<1>2. ASSUME NEW p, Goes(out, p) PROVE UNCHANGED <<keyVars, stage>>
  BY <1>2 DEF Goes
<1>3. CASE Start(out) BY <1>1, <1>2, <1>3 DEF Start
<1>4. CASE SignBlock(out) BY <1>2, <1>4 DEF SignBlock
<1>5. CASE SignDone(out) BY <1>1, <1>5 DEF SignDone
<1>6. CASE SignFails(out) BY <1>1, <1>6 DEF SignFails
<1>7. CASE Sample(out) BY <1>2, <1>7 DEF Sample, Sampled
<1>8. CASE SampleTorn(out) BY <1>1, <1>8 DEF SampleTorn
<1>9. CASE SampleRaw(out) BY <1>2, <1>9 DEF SampleRaw, Sampled
<1>10. CASE ParseShort(out) BY <1>1, <1>10 DEF ParseShort
<1>11. CASE ParseDone(out) BY <1>1, <1>11 DEF ParseDone
<1>12. CASE Killed(out) BY <1>1, <1>12 DEF Killed
<1>13. CASE SignLost(out) BY <1>13 DEF SignLost, Loses
<1>14. CASE SampleLost(out) BY <1>14 DEF SampleLost, Loses
<1> QED BY <1>3, <1>4, <1>5, <1>6, <1>7, <1>8, <1>9, <1>10, <1>11, <1>12, <1>13, <1>14
        DEF Program, Mishap

\* The other two scripts leave the keys alone.
LEMMA PoolsLeaveKeys ==
  ASSUME BeginSign \/ BeginProcess \/ Fork \/ Exit \/ EndSign \/ EndProcess
  PROVE  UNCHANGED keyVars /\ (step = "off" \/ stage' = stage)
<1>1. CASE BeginSign \/ BeginProcess
  BY <1>1 DEF BeginSign, BeginProcess, StartPool, Begin, ScriptOver
<1>2. CASE Fork \/ Exit \/ EndSign \/ EndProcess
  BY <1>2 DEF Fork, Exit, EndSign, EndProcess
<1> QED BY <1>1, <1>2

-----------------------------------------------------------------------------
\* 00_setup.sh and eht_keygen, step by step.
LEMMA SetupStep == ASSUME KeyInv, Setup PROVE KeyInv'
<1> USE KeysAreNumbers, PlanAssumption DEF KeyInv, Halves, Saved, Match
<1>1. CASE OpenSk BY <1>1 DEF OpenSk, Keygen
<1>2. CASE OpenPk BY <1>2 DEF OpenPk, Keygen
<1>3. CASE SaveSk BY <1>3 DEF SaveSk, Save, Keygen
<1>4. CASE SavePk BY <1>4 DEF SavePk, Save, Keygen
<1>5. CASE KeygenFails BY <1>5 DEF KeygenFails, Keygen
<1>6. CASE MoveSk
  <2>1. /\ step = "moveSk" /\ step' = "movePk" /\ stage' = stage
        /\ \/ here["sk"] = NoFile /\ here' = here /\ data' = data
           \/ /\ here["sk"] # NoFile
              /\ data' = [data EXCEPT !["sk"] = here["sk"]]
              /\ here' = [here EXCEPT !["sk"] = NoFile]
    BY <1>6 DEF MoveSk, Move
  <2>2. CASE here["sk"] = NoFile
    <3>1. here' = here /\ data' = data BY <2>1, <2>2
    <3>2. here["pk"] = NoFile /\ Match BY <2>1, <2>2
    <3> QED BY <2>1, <2>2, <3>1, <3>2
  <2>3. CASE here["sk"] # NoFile
    <3>1. /\ data'["sk"] = here["sk"] /\ data'["pk"] = data["pk"]
          /\ here'["sk"] = NoFile /\ here'["pk"] = here["pk"]
          /\ data' \in Halves /\ here' \in Halves
      BY <2>1, <2>3
    <3>2. here["sk"] \in Saved
      BY <2>1, <2>3
    <3>3. here["pk"] \in Saved \/ (here["pk"] = NoFile /\ here["sk"] = Short)
      BY <2>1, <2>3
    <3>4. here["pk"] = NoFile => Match' BY <3>1, <3>3
    <3> QED BY <2>1, <3>1, <3>2, <3>3, <3>4
  <2> QED BY <2>1, <2>2, <2>3
<1>7. CASE MovePk
  <2>1. /\ step = "movePk" /\ step' = "off" /\ stage' = stage
        /\ \/ here["pk"] = NoFile /\ here' = here /\ data' = data
           \/ /\ here["pk"] # NoFile
              /\ data' = [data EXCEPT !["pk"] = here["pk"]]
              /\ here' = [here EXCEPT !["pk"] = NoFile]
    BY <1>7 DEF MovePk, Move
  <2>2. CASE here["pk"] = NoFile
    <3>1. here' = here /\ data' = data BY <2>1, <2>2
    <3>2. here["sk"] = NoFile /\ Match BY <2>1, <2>2
    <3> QED BY <2>1, <2>2, <3>1, <3>2
  <2>3. CASE here["pk"] # NoFile
    <3>1. /\ data'["pk"] = here["pk"] /\ data'["sk"] = data["sk"]
          /\ here'["pk"] = NoFile /\ here'["sk"] = NoFile
          /\ data' \in Halves /\ here' \in Halves
      BY <2>1, <2>3
    <3>2. here["pk"] \in Saved /\ data["sk"] \in Saved BY <2>1, <2>3
    <3>3. Match' BY <3>1, <3>2
    <3> QED BY <2>1, <3>1, <3>3
  <2> QED BY <2>1, <2>2, <2>3
<1> QED BY <1>1, <1>2, <1>3, <1>4, <1>5, <1>6, <1>7 DEF Setup

\* Starting 00_setup.sh: its number is the key that it will extract.
LEMMA BeginSetupStep == ASSUME KeyInv, BeginSetup PROVE KeyInv'
<1>1. /\ step = "off" /\ step' = "openSk" /\ UNCHANGED <<here, data>>
      /\ stage' = stage + 1 /\ stage < Len(Plan)
  BY DEF BeginSetup, Begin, ScriptOver
<1>2. stage' \in Key
  <2> stage \in Nat BY DEF KeyInv
  <2>1. DOMAIN Plan = 1 .. Len(Plan) /\ Len(Plan) \in Nat BY PlanAssumption
  <2> QED BY <1>1, <2>1 DEF Key
<1> QED BY <1>1, <1>2 DEF KeyInv, Halves, Match

\* Every step keeps the invariant.
LEMMA KeyStep == KeyInv /\ [Next]_vars => KeyInv'
<1> SUFFICES ASSUME KeyInv, [Next]_vars PROVE KeyInv' OBVIOUS
<1> stage \in Nat BY DEF KeyInv
<1>1. CASE BeginSetup BY <1>1, BeginSetupStep
<1>2. CASE Setup
  <2>1. stage' = stage
    BY <1>2 DEF Setup, OpenSk, OpenPk, SaveSk, SavePk, Save, KeygenFails,
                MoveSk, MovePk, Move, Keygen
  <2> QED BY <1>2, <2>1, SetupStep
<1>3. CASE BeginSign \/ BeginProcess \/ Fork \/ Exit \/ EndSign \/ EndProcess
  <2>1. stage' = stage \/ stage' = stage + 1
    BY <1>3 DEF BeginSign, BeginProcess, Begin, Fork, Exit, EndSign, EndProcess
  <2> QED BY <1>3, <2>1, PoolsLeaveKeys, KeysUntouched
<1>4. ASSUME NEW out \in Name, Program(out) \/ Mishap(out)
      PROVE  KeyInv'
  BY <1>4, ProgramsLeaveKeys, KeysUntouched
<1>5. CASE UNCHANGED vars BY <1>5, KeysUntouched DEF vars
<1> QED BY <1>1, <1>2, <1>3, <1>4, <1>5 DEF Next, Script

\* Between the scripts the key files in data/ never hold the halves of two
\* keys, whatever became of eht_keygen.
THEOREM KeysMatchTheorem == Spec => []KeysMatch
<1>1. KeyInv => KeysMatch BY DEF KeyInv, KeysMatch, Match
<1> QED BY <1>1, KeyInit, KeyStep, PTL DEF Spec

-----------------------------------------------------------------------------
(* Sequences *)

\* Two sequences, one after the other.
LEMMA ConcatAt ==
  ASSUME NEW X, NEW u \in Seq(X), NEW v \in Seq(X)
  PROVE  /\ u \o v \in Seq(X) /\ Len(u \o v) = Len(u) + Len(v)
         /\ \A k \in 1 .. Len(u) : (u \o v)[k] = u[k]
         /\ \A k \in Len(u) + 1 .. Len(u) + Len(v) : (u \o v)[k] = v[k - Len(u)]
OBVIOUS

\* A sequence is the function that has its items.
LEMMA SeqAt ==
  ASSUME NEW X, NEW u \in Seq(X), NEW n \in Nat, Len(u) = n
  PROVE  u = [k \in 1 .. n |-> u[k]]
OBVIOUS

\* Two sequences with the same items are the same.
LEMMA SameItems ==
  ASSUME NEW X, NEW u \in Seq(X), NEW v \in Seq(X), Len(u) = Len(v),
         \A n \in 1 .. Len(u) : u[n] = v[n]
  PROVE  u = v
OBVIOUS

-----------------------------------------------------------------------------
(* The samples *)

\* 00_setup.sh is run, as often as may be, before the two other scripts.
SetupFirst == \A s, t \in DOMAIN Plan :
                Plan[s] # "setup" /\ Plan[t] = "setup" => t < s

Preparing == \A s \in 1 .. stage : Plan[s] = "setup"

Item == (Batch \X Nat \X Key) \cup (Batch \X Nat) \cup {Torn, Garbage}

\* A line x of a log: signature i, made with the key in data/; and what there
\* may be in the n-th place of a log.
IsSigned(out, i, x) == /\ i \in 1 .. BatchSize /\ data["sk"] \in Key
                       /\ x = <<out[1], i, data["sk"]>>
LogPlace(out, n, x) ==
  \/ IsSigned(out, n, x)
  \/ out \in lost /\ (x = Garbage \/ \E i \in n + 1 .. BatchSize : IsSigned(out, i, x))

\* A log holds signatures in their order, and perhaps a line without end after
\* them.
Log(out, f) ==
  /\ f \in Seq(Item)
  /\ \A n \in DOMAIN f : LogPlace(out, n, f[n]) \/ (f[n] = Torn /\ n = Len(f))

\* What there may be in the n-th place of a file of samples.
SamplePlace(out, n, x) ==
  \/ x = <<out[1], n>>
  \/ ~ Intact(out) /\ (x = Garbage \/ \E i \in n + 1 .. BatchSize : x = <<out[1], i>>)

\* Samples are in the order of their signatures, with garbage at the end.
InPlace(out, f) ==
  f \in Seq(Item) /\ \A n \in DOMAIN f : SamplePlace(out, n, f[n])
Samples(out, f) ==
  /\ f \in Seq(Item)
  /\ \A n \in DOMAIN f : SamplePlace(out, n, f[n]) \/ (f[n] = Garbage /\ n = Len(f))

\* While eht_siggen works there are as many whole lines as it has made
\* signatures, less those that are lost.
LogOK(out, p, f) ==
  /\ f = NoFile \/ Log(out, f)
  /\ p.at = "works" => /\ Log(out, f) /\ p.key = data["sk"] /\ p.key \in Key
                       /\ p.count <= BatchSize /\ Len(Logged(f)) <= p.count
                       /\ out \notin lost => Len(Logged(f)) = p.count

\* While eht_sigparse works there is no garbage, and as many samples as it
\* has read lines, less those that are lost.
SampleOK(out, p, f) ==
  /\ f = NoFile \/ Samples(out, f)
  /\ p.at = "works" => /\ InPlace(out, f) /\ Len(f) <= p.count
                       /\ Intact(out) => Len(f) = p.count /\ p.aligned
                       /\ p.key = data["pk"] /\ p.key \in Key

OtherOK(p, f) == /\ f = NoFile \/ f \in Seq(Item)
                 /\ p.at = "works" => f \in Seq(Item)

Procs == [at : {"none", "forked", "works"}, key : Key \cup {NoFile}, count : Nat,
          aligned : BOOLEAN]

FileOK(out, p, f) == /\ p \in Procs
                     /\ out[2] = 0 => LogOK(out, p, f)
                     /\ out[2] = 1 => SampleOK(out, p, f)
                     /\ out[2] > 1 => OtherOK(p, f)

DamageInv ==
  /\ KeyInv
  /\ DOMAIN proc = Name /\ DOMAIN file = Name
  /\ Preparing => /\ status # "runs"
                  /\ \A out \in Name : proc[out].at = "none" /\ file[out] = NoFile
  /\ ~ Preparing => step = "off"
  /\ \A out \in Name : FileOK(out, proc[out], file[out])

-----------------------------------------------------------------------------
\* A name is a batch and a number.
LEMMA NameParts ==
  ASSUME NEW out \in Name PROVE out[1] \in Batch /\ out[2] \in 0 .. Reruns
BY DEF Name

\* A file is counted from 0, so that the log of a file of samples is a file.
LEMMA InputIsName ==
  ASSUME NEW out \in Name, out[2] = 1
  PROVE  Input(out) \in Name /\ Input(out)[1] = out[1] /\ Input(out)[2] = 0
<1>1. Reruns \in Nat
  <2>1. IsFiniteSet(DOMAIN Plan)
    <3>1. DOMAIN Plan = 1 .. Len(Plan) /\ Len(Plan) \in Nat BY PlanAssumption
    <3> QED BY <3>1, FS_Interval
  <2>2. IsFiniteSet({s \in DOMAIN Plan : Plan[s] = "process"})
    BY <2>1, FS_Subset
  <2> QED BY <2>2, FS_CardinalityType DEF Reruns
<1>2. out[1] \in Batch BY NameParts
<1>3. Input(out) = <<out[1], 0>> BY DEF Input
<1> QED BY <1>1, <1>2, <1>3 DEF Name

\* A program that does not run is a program.
LEMMA IdleIsProc == Idle \in Procs /\ Idle.at = "none"
BY DEF Idle, Procs

\* A file that is in order stays so when more is lost of some file.
LEMMA MoreLost ==
  ASSUME data' = data, lost \subseteq lost',
         NEW out, NEW p, NEW f, FileOK(out, p, f)
  PROVE  FileOK(out, p, f)'
<1>1. ASSUME NEW n, NEW x, LogPlace(out, n, x) PROVE LogPlace(out, n, x)'
  BY <1>1 DEF LogPlace, IsSigned
<1>2. Intact(out)' => Intact(out) BY DEF Intact
<1>3. ASSUME NEW n, NEW x, SamplePlace(out, n, x) PROVE SamplePlace(out, n, x)'
  BY <1>2, <1>3 DEF SamplePlace
<1>4. Log(out, f) => Log(out, f)' BY <1>1 DEF Log
<1>5. InPlace(out, f) => InPlace(out, f)' BY <1>3 DEF InPlace
<1>6. Samples(out, f) => Samples(out, f)' BY <1>3 DEF Samples
<1>7. LogOK(out, p, f) => LogOK(out, p, f)' BY <1>4 DEF LogOK, Logged, EndsTorn
<1>8. SampleOK(out, p, f) => SampleOK(out, p, f)' BY <1>2, <1>5, <1>6 DEF SampleOK
<1>9. OtherOK(p, f) => OtherOK(p, f)' BY DEF OtherOK
<1> QED BY <1>7, <1>8, <1>9 DEF FileOK

\* At first there is nothing.
LEMMA DamageInit == Init => DamageInv
<1> SUFFICES ASSUME Init PROVE DamageInv OBVIOUS
<1>1. /\ DOMAIN proc = Name /\ DOMAIN file = Name
      /\ \A out \in Name : proc[out] = Idle /\ file[out] = NoFile
  BY DEF Init
<1>2. \A out \in Name : FileOK(out, proc[out], file[out])
  BY <1>1, IdleIsProc DEF FileOK, LogOK, SampleOK, OtherOK, Idle
<1>3. step = "off" /\ status # "runs" BY DEF Init
<1> QED BY <1>1, <1>2, <1>3, KeyInit DEF DamageInv, Idle

-----------------------------------------------------------------------------
\* While 00_setup.sh is the only script that has been run, the files are not
\* there, so that no change of a key concerns them.
LEMMA WhilePreparing ==
  ASSUME DamageInv, Preparing, KeyInv', Preparing',
         UNCHANGED <<proc, file, status>>
  PROVE  DamageInv'
<1>1. \A out \in Name : proc[out].at = "none" /\ file[out] = NoFile
  BY DEF DamageInv
<1>2. \A out \in Name : FileOK(out, proc[out], file[out])'
  BY <1>1 DEF DamageInv, FileOK, LogOK, SampleOK, OtherOK
<1> QED BY <1>1, <1>2 DEF DamageInv

\* A step that leaves keys, files and programs alone.
LEMMA FilesUntouched ==
  ASSUME DamageInv, KeyInv', UNCHANGED <<keyVars, proc, file, lost>>, ~ Preparing',
         step = "off"
  PROVE  DamageInv'
<1>1. data' = data /\ step' = "off" BY DEF keyVars
<1>2. \A out \in Name : FileOK(out, proc[out], file[out])'
  <2> SUFFICES ASSUME NEW out \in Name PROVE FileOK(out, proc[out], file[out])' OBVIOUS
  <2>1. FileOK(out, proc'[out], file'[out]) BY DEF DamageInv
  <2> QED BY <1>1, <2>1, MoreLost
<1> QED BY <1>1, <1>2 DEF DamageInv

\* A step of one program, if what it makes of its file is in order.
LEMMA OneFile ==
  ASSUME DamageInv, KeyInv', ~ Preparing, UNCHANGED <<stage, keyVars>>,
         lost \subseteq lost', NEW out \in Name, NEW p, NEW f,
         proc' = [proc EXCEPT ![out] = p],
         file' = [file EXCEPT ![out] = f] \/ (file' = file /\ f = file[out]),
         FileOK(out, p, f)
  PROVE  DamageInv'
<1>1. data' = data /\ step' = "off" /\ stage' = stage BY DEF keyVars, DamageInv
<1>2. ~ Preparing' BY <1>1 DEF Preparing
<1>3. DOMAIN proc = Name /\ DOMAIN file = Name BY DEF DamageInv
<1>4. DOMAIN proc' = Name /\ DOMAIN file' = Name BY <1>3
<1>5. \A o \in Name : FileOK(o, proc'[o], file'[o])
  <2> SUFFICES ASSUME NEW o \in Name PROVE FileOK(o, proc'[o], file'[o]) OBVIOUS
  <2>1. CASE o = out
    <3>1. proc'[o] = p /\ file'[o] = f BY <1>3, <2>1
    <3> QED BY <2>1, <3>1
  <2>2. CASE o # out
    <3>1. proc'[o] = proc[o] /\ file'[o] = file[o] BY <1>3, <2>2
    <3> QED BY <3>1 DEF DamageInv
  <2> QED BY <2>1, <2>2
<1>6. \A o \in Name : FileOK(o, proc[o], file[o])' BY <1>1, <1>5, MoreLost
<1> QED BY <1>1, <1>2, <1>4, <1>6 DEF DamageInv

\* A program that ends, if its file is in order.
LEMMA OneLeaves ==
  ASSUME DamageInv, KeyInv', ~ Preparing, NEW out \in Name, NEW ok, NEW f,
         Leave(out, ok),
         file' = [file EXCEPT ![out] = f] \/ (file' = file /\ f = file[out]),
         f = NoFile \/ /\ out[2] = 0 => Log(out, f)
                       /\ out[2] = 1 => Samples(out, f)
                       /\ out[2] > 1 => f \in Seq(Item)
  PROVE  DamageInv'
<1>1. proc' = [proc EXCEPT ![out] = Idle] /\ UNCHANGED <<stage, keyVars, lost>>
  BY DEF Leave
<1>2. FileOK(out, Idle, f) BY IdleIsProc DEF FileOK, LogOK, SampleOK, OtherOK
<1> QED BY <1>1, <1>2, OneFile

\* A program that goes on, if its file is in order.
LEMMA OneGoes ==
  ASSUME DamageInv, KeyInv', ~ Preparing, NEW out \in Name, NEW p, NEW f,
         Goes(out, p),
         file' = [file EXCEPT ![out] = f] \/ (file' = file /\ f = file[out]),
         FileOK(out, p, f)
  PROVE  DamageInv'
BY OneFile DEF Goes

-----------------------------------------------------------------------------
\* A program that runs has been forked, so that the setup is over.
LEMMA NotPreparing ==
  ASSUME DamageInv, NEW out \in Name, proc[out].at # "none"
  PROVE  ~ Preparing /\ step = "off"
BY DEF DamageInv

\* The empty file is in order.
LEMMA EmptyOK ==
  ASSUME NEW out \in Name
  PROVE  /\ Log(out, << >>) /\ Logged(<< >>) = << >>
         /\ Samples(out, << >>) /\ InPlace(out, << >>) /\ << >> \in Seq(Item)
BY DEF Log, Logged, EndsTorn, Samples, InPlace

\* A program that starts.
LEMMA StartStep ==
  ASSUME DamageInv, KeyInv', NEW out \in Name, Start(out) PROVE DamageInv'
<1> DEFINE key == data[IF out[2] = 0 THEN "sk" ELSE "pk"]
           p == [Idle EXCEPT !.at = "works", !.key = key]
<1>1. ~ Preparing BY NotPreparing DEF Start
<1>2. file' = [file EXCEPT ![out] = << >>] BY DEF Start
<1>3. CASE key \in Key
  <2>1. Goes(out, p) BY <1>3 DEF Start
  <2>2. p \in Procs /\ p.at = "works" /\ p.key = key /\ p.count = 0 /\ p.aligned = TRUE
    BY <1>3, IdleIsProc DEF Idle, Procs
  <2>3. BatchSize \in Nat /\ Len(<< >>) = 0 BY PlanAssumption
  <2>4. out[2] = 0 => key = data["sk"] BY DEF key
  <2>5. out[2] # 0 => key = data["pk"] BY DEF key
  <2>6. out[2] \in Nat BY NameParts
  <2> HIDE DEF key, p
  <2>7. FileOK(out, p, << >>)
    BY <1>3, <2>2, <2>3, <2>4, <2>5, <2>6, EmptyOK DEF FileOK, LogOK, SampleOK, OtherOK
  <2> QED BY <1>1, <1>2, <2>1, <2>7, OneGoes
<1>4. CASE key \notin Key
  <2>1. Leave(out, FALSE) BY <1>4 DEF Start
  <2> QED BY <1>1, <1>2, <2>1, EmptyOK, OneLeaves
<1> QED BY <1>3, <1>4

-----------------------------------------------------------------------------
(* eht_siggen *)

\* A log without a torn line at its end.
Clean(out, h) == h \in Seq(Item) /\ \A n \in DOMAIN h : LogPlace(out, n, h[n])

\* What stands in its place is not a torn line.
LEMMA PlaceIsWhole ==
  ASSUME NEW out \in Name, NEW n \in Nat, NEW x, LogPlace(out, n, x)
  PROVE  x # Torn
<1>1. Batch \subseteq Nat /\ Key \subseteq Nat BY PlanAssumption, KeysAreNumbers DEF Batch
<1>2. out[1] \in Nat BY <1>1, NameParts
<1>3. ASSUME NEW i \in Nat, IsSigned(out, i, x) PROVE x # Torn
  <2> DEFINE e == data["sk"]
  <2>1. x = <<out[1], i, e>> /\ e \in Nat BY <1>1, <1>3 DEF IsSigned
  <2> HIDE DEF e
  <2>2. x \in Nat \X Nat \X Nat BY <1>2, <2>1
  <2> QED BY <2>2, PlanAssumption
<1>4. n + 1 .. BatchSize \subseteq Nat BY PlanAssumption
<1> QED BY <1>3, <1>4, PlanAssumption DEF LogPlace

\* The log up to where the next write goes on is clean.
LEMMA LoggedIsClean ==
  ASSUME NEW out \in Name, NEW f, Log(out, f)
  PROVE  Clean(out, Logged(f))
<1>1. f \in Seq(Item) /\ Len(f) \in Nat /\ DOMAIN f = 1 .. Len(f) BY DEF Log
<1> DEFINE l == IF EndsTorn(f) THEN Len(f) - 1 ELSE Len(f)
<1>2. l \in 0 .. Len(f)
  <2>1. EndsTorn(f) => Len(f) > 0 BY <1>1 DEF EndsTorn
  <2> QED BY <1>1, <2>1
<1>3. ASSUME NEW n \in 1 .. l PROVE LogPlace(out, n, f[n])
  <2>1. n \in DOMAIN f BY <1>1, <1>2
  <2>2. CASE EndsTorn(f)
    <3>1. l = Len(f) - 1 BY <2>2
    <3> HIDE DEF l
    <3>2. n < Len(f) /\ n \in Nat BY <1>1, <3>1
    <3>3. \A i, k \in Nat : i < k => i # k OBVIOUS
    <3> QED BY <1>1, <2>1, <3>2, <3>3 DEF Log
  <2>3. CASE ~ EndsTorn(f)
    <3>1. f # << >> BY <2>1
    <3>2. f[Len(f)] # Torn BY <2>3, <3>1 DEF EndsTorn, Last
    <3> QED BY <2>1, <3>2 DEF Log
  <2> QED BY <2>2, <2>3
<1>4. Logged(f) = SubSeq(f, 1, l) BY DEF Logged
<1> HIDE DEF l
<1>5. /\ SubSeq(f, 1, l) \in Seq(Item) /\ Len(SubSeq(f, 1, l)) = l
      /\ \A n \in 1 .. l : SubSeq(f, 1, l)[n] = f[n]
  BY <1>1, <1>2
<1>6. DOMAIN SubSeq(f, 1, l) = 1 .. l BY <1>5
<1> QED BY <1>3, <1>4, <1>5, <1>6 DEF Clean

\* Without a torn line a log is what the next write goes on with.
LEMMA LoggedIs ==
  ASSUME NEW f \in Seq(Item), \A n \in DOMAIN f : f[n] # Torn
  PROVE  Logged(f) = f
<1>1. ~ EndsTorn(f)
  <2> SUFFICES ASSUME f # << >> PROVE f[Len(f)] # Torn BY DEF EndsTorn, Last
  <2>1. Len(f) \in DOMAIN f OBVIOUS
  <2> QED BY <2>1
<1>2. Logged(f) = SubSeq(f, 1, Len(f)) BY <1>1 DEF Logged
<1> QED BY <1>2

\* A clean log is a log, and so it is with a torn line after it.
LEMMA CleanIsLog ==
  ASSUME NEW out \in Name, NEW h, Clean(out, h)
  PROVE  /\ Log(out, h) /\ Logged(h) = h
         /\ Log(out, h \o <<Torn>>) /\ Logged(h \o <<Torn>>) = h
<1> DEFINE g == h \o <<Torn>>
<1>1. h \in Seq(Item) /\ Len(h) \in Nat /\ DOMAIN h = 1 .. Len(h) BY DEF Clean
<1>2. Log(out, h) BY DEF Clean, Log
<1>3. \A n \in DOMAIN h : h[n] # Torn BY <1>1, PlaceIsWhole DEF Clean
<1>4. Logged(h) = h BY <1>1, <1>3, LoggedIs
<1>5. Torn \in Item BY DEF Item
<1>6. /\ g \in Seq(Item) /\ Len(g) = Len(h) + 1
      /\ \A m \in 1 .. Len(h) : g[m] = h[m]
      /\ g[Len(h) + 1] = Torn
  <2>1. <<Torn>> \in Seq(Item) /\ Len(<<Torn>>) = 1 /\ <<Torn>>[1] = Torn BY <1>5
  <2> QED BY <1>1, <2>1
<1> HIDE DEF g
<1>7. DOMAIN g = (1 .. Len(h)) \cup {Len(h) + 1} BY <1>1, <1>6
<1>8. Log(out, g) BY <1>1, <1>6, <1>7 DEF Clean, Log
<1>9. Logged(g) = h
  <2>1. EndsTorn(g) BY <1>1, <1>6 DEF EndsTorn, Last
  <2>2. Logged(g) = SubSeq(g, 1, Len(h)) BY <1>1, <1>6, <2>1 DEF Logged
  <2>3. /\ SubSeq(g, 1, Len(h)) \in Seq(Item) /\ Len(SubSeq(g, 1, Len(h))) = Len(h)
        /\ \A m \in 1 .. Len(h) : SubSeq(g, 1, Len(h))[m] = h[m]
    BY <1>1, <1>6
  <2> QED BY <1>1, <2>2, <2>3, SameItems
<1> QED BY <1>2, <1>4, <1>8, <1>9 DEF g

\* A signing program has the key in data/, and its log is in order.
LEMMA Signing ==
  ASSUME DamageInv, NEW out \in Name, Signs(out)
  PROVE  /\ out[2] = 0 /\ ~ Preparing
         /\ proc[out] \in Procs /\ proc[out].at = "works"
         /\ Clean(out, Logged(file[out]))
         /\ proc[out].key = data["sk"] /\ data["sk"] \in Key
         /\ proc[out].count \in 0 .. BatchSize
         /\ Len(Logged(file[out])) <= proc[out].count
         /\ out \notin lost => Len(Logged(file[out])) = proc[out].count
<1>1. proc[out].at = "works" /\ out[2] = 0 BY DEF Signs, Works
<1>2. LogOK(out, proc[out], file[out]) /\ proc[out] \in Procs
  BY <1>1 DEF DamageInv, FileOK
<1>3. proc[out].count \in Nat /\ BatchSize \in Nat BY <1>2, PlanAssumption DEF Procs
<1> QED BY <1>1, <1>2, <1>3, NotPreparing, LoggedIsClean DEF LogOK

\* A clean log of at most c lines, and the signatures from c+1 to n.
LEMMA CleanGoesOn ==
  ASSUME NEW out \in Name, NEW g, Clean(out, g), NEW c \in Nat, NEW n \in Nat,
         c <= n, n <= BatchSize, Len(g) <= c, out \notin lost => Len(g) = c,
         NEW t \in Seq(Item), Len(t) = n - c,
         \A i \in 1 .. n - c : IsSigned(out, c + i, t[i])
  PROVE  /\ Clean(out, g \o t) /\ Len(g \o t) <= n
         /\ out \notin lost => Len(g \o t) = n
<1> DEFINE l == Len(g)
           d == n - c
           h == g \o t
<1>1. /\ g \in Seq(Item) /\ l \in Nat /\ DOMAIN g = 1 .. l /\ l <= c
      /\ \A m \in 1 .. l : LogPlace(out, m, g[m])
  BY DEF Clean
<1>2. d \in Nat /\ BatchSize \in Nat /\ n = c + d BY PlanAssumption
<1>3. Len(t) = d /\ \A i \in 1 .. d : IsSigned(out, c + i, t[i]) OBVIOUS
<1> HIDE DEF d
<1>4. t \in Seq(Item) OBVIOUS
<1>5. /\ h \in Seq(Item) /\ Len(h) = l + d
      /\ \A m \in 1 .. l : h[m] = g[m]
      /\ \A m \in l + 1 .. l + d : h[m] = t[m - l]
  <2>1. /\ h \in Seq(Item) /\ Len(h) = Len(g) + Len(t)
        /\ \A m \in 1 .. Len(g) : h[m] = g[m]
        /\ \A m \in Len(g) + 1 .. Len(g) + Len(t) : h[m] = t[m - Len(g)]
    BY <1>1, <1>4, ConcatAt
  <2> HIDE DEF h
  <2> QED BY <1>3, <2>1
<1> HIDE DEF l, h
<1>6. DOMAIN h = 1 .. l + d BY <1>5
<1>7. ASSUME NEW m \in 1 .. l + d PROVE LogPlace(out, m, h[m])
  <2>1. CASE m <= l
    <3>1. m \in 1 .. l BY <1>1, <2>1
    <3> QED BY <1>1, <1>5, <3>1
  <2>2. CASE m > l
    <3> DEFINE i == m - l
    <3>1. m \in l + 1 .. l + d /\ i \in 1 .. d /\ m = l + i BY <1>1, <1>2, <2>2
    <3>2. h[m] = t[i] BY <1>5, <3>1
    <3> HIDE DEF i
    <3>3. IsSigned(out, c + i, h[m]) BY <1>3, <3>1, <3>2
    <3>4. c + i = m \/ c + i \in m + 1 .. BatchSize BY <1>1, <1>2, <3>1
    <3>5. out \notin lost => c + i = m BY <3>1 DEF l
    <3> QED BY <3>3, <3>4, <3>5 DEF LogPlace
  <2> QED BY <1>1, <1>2, <2>1, <2>2
<1>8. Clean(out, h) BY <1>5, <1>6, <1>7 DEF Clean
<1>9. Len(h) <= n /\ (out \notin lost => Len(h) = n)
  <2>1. out \notin lost => l = c BY DEF l
  <2> QED BY <1>1, <1>2, <1>5, <2>1
<1> QED BY <1>8, <1>9 DEF h

\* What a program that signs makes of its log when it counts up to n.
LEMMA SignedIsClean ==
  ASSUME DamageInv, NEW out \in Name, Signs(out),
         NEW n \in proc[out].count .. BatchSize
  PROVE  /\ Clean(out, Logged(file[out]) \o Signed(out, n))
         /\ Len(Logged(file[out]) \o Signed(out, n)) <= n
         /\ out \notin lost => Len(Logged(file[out]) \o Signed(out, n)) = n
<1>0. PICK g, c, t : g = Logged(file[out]) /\ c = proc[out].count /\ t = Signed(out, n)
  OBVIOUS
<1>1. /\ Clean(out, g) /\ Len(g) <= c /\ (out \notin lost => Len(g) = c)
      /\ c \in 0 .. BatchSize /\ BatchSize \in Nat
      /\ proc[out].key = data["sk"] /\ data["sk"] \in Key
  BY <1>0, Signing, PlanAssumption
<1>2. c \in Nat /\ n \in Nat /\ c <= n /\ n <= BatchSize BY <1>0, <1>1
<1>3. t \in Seq(Item) /\ Len(t) = n - c /\ \A i \in 1 .. n - c : IsSigned(out, c + i, t[i])
  <2> DEFINE d == n - c
  <2>1. t = [i \in 1 .. d |-> <<out[1], c + i, data["sk"]>>] BY <1>0, <1>1 DEF Signed
  <2>2. d \in Nat BY <1>2
  <2> HIDE DEF d
  <2>3. \A i \in 1 .. d : <<out[1], c + i, data["sk"]>> \in Item
    BY <1>1, <1>2, <2>2, NameParts DEF Item
  <2>4. t \in [1 .. d -> Item] BY <2>1, <2>3
  <2>5. t \in Seq(Item) BY <2>2, <2>4
  <2>6. Len(t) = d BY <2>1, <2>2
  <2>7. \A i \in 1 .. d : c + i \in 1 .. BatchSize BY <1>1, <1>2, <2>2 DEF d
  <2>8. \A i \in 1 .. d : IsSigned(out, c + i, t[i]) BY <1>1, <2>1, <2>7 DEF IsSigned
  <2> QED BY <2>5, <2>6, <2>8 DEF d
<1>4. /\ Clean(out, g \o t) /\ Len(g \o t) <= n
      /\ out \notin lost => Len(g \o t) = n
  BY <1>1, <1>2, <1>3, CleanGoesOn
<1> QED BY <1>0, <1>4

\* A program is what it was but for its count.
LEMMA CountsIs ==
  ASSUME NEW out, proc[out] \in Procs, NEW n \in Nat
  PROVE  /\ Counts(out, n) \in Procs /\ Counts(out, n).count = n
         /\ Counts(out, n).at = proc[out].at /\ Counts(out, n).key = proc[out].key
         /\ Counts(out, n).aligned = proc[out].aligned
BY DEF Procs, Counts

\* The three steps that write a log.
LEMMA SignSteps ==
  ASSUME DamageInv, KeyInv', NEW out \in Name,
         SignBlock(out) \/ SignDone(out) \/ SignFails(out)
  PROVE  DamageInv'
<1>1. Signs(out) BY DEF SignBlock, SignDone, SignFails
<1>2. /\ ~ Preparing /\ out[2] = 0 /\ proc[out] \in Procs
      /\ proc[out].key = data["sk"] /\ data["sk"] \in Key
      /\ proc[out].count \in 0 .. BatchSize /\ BatchSize \in Nat
  BY <1>1, Signing, PlanAssumption
<1> DEFINE h(n) == Logged(file[out]) \o Signed(out, n)
<1>3. ASSUME NEW n \in proc[out].count .. BatchSize
      PROVE  /\ Log(out, h(n)) /\ Logged(h(n)) = h(n)
             /\ Log(out, h(n) \o <<Torn>>) /\ Logged(h(n) \o <<Torn>>) = h(n)
             /\ Len(h(n)) <= n /\ (out \notin lost => Len(h(n)) = n)
             /\ h(n) \o << >> = h(n)
  <2>1. /\ Clean(out, h(n)) /\ Len(h(n)) <= n /\ (out \notin lost => Len(h(n)) = n)
    BY <1>1, SignedIsClean
  <2>2. h(n) \in Seq(Item) BY <2>1 DEF Clean
  <2> HIDE DEF h
  <2>3. h(n) \o << >> = h(n) BY <2>2
  <2> QED BY <2>1, <2>3, CleanIsLog
<1>4. file[out] = [file EXCEPT ![out] = file[out]][out] BY DEF DamageInv
<1>5. CASE SignBlock(out)
  <2>1. PICK n \in proc[out].count .. BatchSize - 1, torn \in BOOLEAN :
          /\ file' = [file EXCEPT ![out] = h(n) \o IF torn THEN <<Torn>> ELSE << >>]
          /\ Goes(out, Counts(out, n))
    BY <1>5 DEF SignBlock
  <2> DEFINE f == h(n) \o IF torn THEN <<Torn>> ELSE << >>
             p == Counts(out, n)
  <2>2. n \in proc[out].count .. BatchSize /\ n \in Nat /\ n <= BatchSize BY <1>2
  <2>3. f = h(n) \o <<Torn>> \/ f = h(n) BY <1>3, <2>2
  <2>4. Log(out, f) /\ Logged(f) = h(n) BY <1>3, <2>2, <2>3
  <2>5. p \in Procs /\ p.count = n /\ p.key = proc[out].key BY <1>2, <2>2, CountsIs
  <2>6. file' = [file EXCEPT ![out] = f] /\ Goes(out, p) BY <2>1
  <2>7. Len(h(n)) <= n /\ (out \notin lost => Len(h(n)) = n) BY <1>3, <2>2
  <2> HIDE DEF f, p, h
  <2>8. FileOK(out, p, f) BY <1>2, <2>2, <2>4, <2>5, <2>7 DEF FileOK, LogOK
  <2> QED BY <1>2, <2>6, <2>8, OneGoes
<1>6. CASE SignDone(out)
  <2> DEFINE f == h(BatchSize)
  <2>1. BatchSize \in proc[out].count .. BatchSize BY <1>2
  <2>2. Leave(out, TRUE) /\ file' = [file EXCEPT ![out] = f] BY <1>6 DEF SignDone
  <2>3. Log(out, f) BY <1>3, <2>1
  <2>4. /\ out[2] = 0 => Log(out, f)
        /\ out[2] = 1 => Samples(out, f)
        /\ out[2] > 1 => f \in Seq(Item)
    BY <1>2, <2>3
  <2> HIDE DEF f
  <2> QED BY <1>2, <2>2, <2>4, OneLeaves
<1>7. CASE SignFails(out)
  <2>1. PICK n \in proc[out].count .. BatchSize - 1 : file' = [file EXCEPT ![out] = h(n)]
    BY <1>7 DEF SignFails
  <2> DEFINE f == h(n)
  <2>2. n \in proc[out].count .. BatchSize BY <1>2
  <2>3. Leave(out, FALSE) /\ file' = [file EXCEPT ![out] = f] BY <1>7, <2>1 DEF SignFails
  <2>4. Log(out, f) BY <1>3, <2>2
  <2>5. /\ out[2] = 0 => Log(out, f)
        /\ out[2] = 1 => Samples(out, f)
        /\ out[2] > 1 => f \in Seq(Item)
    BY <1>2, <2>4
  <2> HIDE DEF f
  <2> QED BY <1>2, <2>3, <2>5, OneLeaves
<1> QED BY <1>5, <1>6, <1>7

\* A step of a program that has lost something, if its file is in order then.
LEMMA OneLoses ==
  ASSUME DamageInv, KeyInv', ~ Preparing, NEW out \in Name, NEW p, NEW f,
         Loses(out, f, p), FileOK(out, p, f)'
  PROVE  DamageInv'
<1>1. /\ proc' = [proc EXCEPT ![out] = p] /\ file' = [file EXCEPT ![out] = f]
      /\ lost \subseteq lost' /\ UNCHANGED <<stage, keyVars>>
  BY DEF Loses
<1>2. data' = data /\ step' = "off" /\ stage' = stage BY <1>1 DEF keyVars, DamageInv
<1>3. ~ Preparing' BY <1>2 DEF Preparing
<1>4. DOMAIN proc = Name /\ DOMAIN file = Name BY DEF DamageInv
<1>5. DOMAIN proc' = Name /\ DOMAIN file' = Name BY <1>1, <1>4
<1>6. ASSUME NEW o \in Name PROVE FileOK(o, proc[o], file[o])'
  <2>1. CASE o = out
    <3>1. proc'[o] = p /\ file'[o] = f BY <1>1, <1>4, <2>1
    <3> QED BY <2>1, <3>1
  <2>2. CASE o # out
    <3>1. proc'[o] = proc[o] /\ file'[o] = file[o] BY <1>1, <1>4, <2>2
    <3>2. FileOK(o, proc'[o], file'[o]) BY <3>1 DEF DamageInv
    <3> QED BY <1>1, <1>2, <3>2, MoreLost
  <2> QED BY <2>1, <2>2
<1> QED BY <1>2, <1>3, <1>5, <1>6 DEF DamageInv

\* A write of a log is lost.
LEMMA SignLostStep ==
  ASSUME DamageInv, KeyInv', NEW out \in Name, SignLost(out) PROVE DamageInv'
<1>1. Signs(out) BY DEF SignLost
<1>2. /\ ~ Preparing /\ out[2] = 0 /\ proc[out] \in Procs
      /\ proc[out].key = data["sk"] /\ data["sk"] \in Key
      /\ proc[out].count \in 0 .. BatchSize /\ BatchSize \in Nat
      /\ Clean(out, Logged(file[out])) /\ Len(Logged(file[out])) <= proc[out].count
  BY <1>1, Signing, PlanAssumption
<1>3. PICK n \in proc[out].count + 1 .. BatchSize, joined \in BOOLEAN :
        Loses(out, Logged(file[out]) \o IF joined THEN <<Garbage>> ELSE << >>,
              Counts(out, n))
  BY DEF SignLost
<1>4. n \in Nat /\ proc[out].count < n /\ n <= BatchSize BY <1>2, <1>3
<1>5. PICK g : g = Logged(file[out]) OBVIOUS
<1>6. PICK p : p = Counts(out, n) OBVIOUS
<1>7. PICK f : f = g \o IF joined THEN <<Garbage>> ELSE << >> OBVIOUS
<1>8. Loses(out, f, p) BY <1>3, <1>5, <1>6, <1>7
<1>9. data' = data /\ lost' = lost \cup {out} BY <1>8 DEF Loses, keyVars
<1>10. /\ g \in Seq(Item) /\ Len(g) \in Nat /\ Len(g) < n
       /\ \A m \in 1 .. Len(g) : LogPlace(out, m, g[m])
  <2>1. Clean(out, g) /\ Len(g) <= proc[out].count BY <1>2, <1>5
  <2>2. g \in Seq(Item) /\ \A m \in DOMAIN g : LogPlace(out, m, g[m])
    BY <2>1 DEF Clean
  <2>3. Len(g) \in Nat /\ DOMAIN g = 1 .. Len(g) BY <2>2
  <2> QED BY <1>2, <1>4, <2>1, <2>2, <2>3
<1>11. p \in Procs /\ p.count = n /\ p.key = proc[out].key BY <1>2, <1>4, <1>6, CountsIs
<1>12. /\ f \in Seq(Item) /\ Len(f) <= n
       /\ \A m \in 1 .. Len(f) : (m \in 1 .. Len(g) /\ f[m] = g[m]) \/ f[m] = Garbage
  <2>1. Garbage \in Item BY DEF Item
  <2>2. CASE joined = TRUE
    <3>1. <<Garbage>> \in Seq(Item) /\ Len(<<Garbage>>) = 1 /\ <<Garbage>>[1] = Garbage
      BY <2>1
    <3>2. f = g \o <<Garbage>> BY <1>7, <2>2
    <3>3. /\ f \in Seq(Item) /\ Len(f) = Len(g) + 1
          /\ \A m \in 1 .. Len(g) : f[m] = g[m]
          /\ f[Len(g) + 1] = Garbage
      BY <1>10, <3>1, <3>2
    <3>4. \A m \in 1 .. Len(g) + 1 : m \in 1 .. Len(g) \/ m = Len(g) + 1 BY <1>10
    <3>5. Len(f) <= n BY <1>4, <1>10, <3>3
    <3>6. 1 .. Len(f) = 1 .. Len(g) + 1 BY <3>3
    <3>7. ASSUME NEW m \in 1 .. Len(f)
          PROVE  (m \in 1 .. Len(g) /\ f[m] = g[m]) \/ f[m] = Garbage
      <4>1. m \in 1 .. Len(g) \/ m = Len(g) + 1 BY <3>4, <3>6
      <4> QED BY <3>3, <4>1
    <3> QED BY <3>3, <3>5, <3>7
  <2>3. CASE joined = FALSE
    <3>1. f = g BY <1>7, <1>10, <2>3
    <3> QED BY <1>4, <1>10, <3>1
  <2> QED BY <2>2, <2>3
<1>13. ASSUME NEW m \in 1 .. Len(f) PROVE LogPlace(out, m, f[m])' /\ f[m] # Torn
  <2>1. out \in lost' BY <1>9
  <2>2. CASE f[m] = Garbage BY <2>1, <2>2, PlanAssumption DEF LogPlace
  <2>3. CASE m \in 1 .. Len(g) /\ f[m] = g[m]
    <3>1. LogPlace(out, m, f[m]) /\ m \in Nat BY <1>10, <2>3
    <3>2. f[m] # Torn BY <3>1, PlaceIsWhole
    <3> QED BY <1>9, <2>1, <3>1, <3>2 DEF LogPlace, IsSigned
  <2> QED BY <1>12, <2>2, <2>3
<1>14. DOMAIN f = 1 .. Len(f) BY <1>12
<1>15. Log(out, f)' BY <1>12, <1>13, <1>14 DEF Log
<1>16. Logged(f) = f BY <1>12, <1>13, <1>14, LoggedIs
<1>17. Logged(f)' = f BY <1>16 DEF Logged, EndsTorn
<1>18. FileOK(out, p, f)'
  BY <1>2, <1>4, <1>9, <1>11, <1>12, <1>15, <1>17 DEF FileOK, LogOK
<1> QED BY <1>2, <1>8, <1>18, OneLoses
-----------------------------------------------------------------------------
(* eht_sigparse *)

\* A program that parses a log has the key in data/, and its samples are in
\* place, one for each line that it has read unless something is lost.
LEMMA Parsing ==
  ASSUME DamageInv, NEW out \in Name, Works(out), out[2] = 1
  PROVE  /\ InPlace(out, file[out]) /\ file[out] \in Seq(Item)
         /\ proc[out] \in Procs /\ proc[out].count \in Nat
         /\ Len(file[out]) <= proc[out].count
         /\ Intact(out) => Len(file[out]) = proc[out].count /\ proc[out].aligned
         /\ proc[out].key = data["pk"] /\ data["pk"] \in Key
         /\ ~ Preparing
<1>1. SampleOK(out, proc[out], file[out]) /\ proc[out] \in Procs
  BY DEF DamageInv, FileOK
<1>2. proc[out].count \in Nat BY <1>1 DEF Procs
<1> QED BY <1>1, <1>2, NotPreparing DEF SampleOK, Works, InPlace

\* One that goes through samples prints items.
LEMMA ParsingOther ==
  ASSUME DamageInv, NEW out \in Name, Works(out), out[2] > 1
  PROVE  file[out] \in Seq(Item) /\ Append(file[out], Garbage) \in Seq(Item)
<1>1. file[out] \in Seq(Item) BY DEF DamageInv, FileOK, OtherOK, Works
<1>2. Garbage \in Item BY DEF Item
<1> QED BY <1>1, <1>2

\* A line that it reads is the next signature, made with its key, unless it
\* has no end or something of the log is lost.
LEMMA NextLine ==
  ASSUME DamageInv, NEW out \in Name, HasLine(out), out[2] = 1
  PROVE  /\ data["sk"] \in Key => data["sk"] = proc[out].key
         /\ \/ Line(out) = Torn
            \/ IsSigned(out, proc[out].count + 1, Line(out))
            \/ /\ ~ Intact(out)
               /\ \/ Line(out) = Garbage
                  \/ \E i \in proc[out].count + 2 .. BatchSize :
                       IsSigned(out, i, Line(out))
<1> DEFINE n == proc[out].count + 1
<1>1. Works(out) BY DEF HasLine, Parses
<1>2. proc[out].count \in Nat /\ proc[out].key = data["pk"] /\ data["pk"] \in Key
  BY <1>1, Parsing
<1>3. Text(out) # << >>
  <2> SUFFICES ASSUME Text(out) = << >> PROVE FALSE OBVIOUS
  <2>1. Len(Text(out)) = 0 OBVIOUS
  <2> QED BY <1>2, <2>1 DEF HasLine
<1>4. Text(out) = file[Input(out)] /\ file[Input(out)] # NoFile BY <1>3 DEF Text
<1>5. Log(Input(out), Text(out))
  <2>1. Input(out) \in Name /\ Input(out)[2] = 0 BY InputIsName
  <2>2. LogOK(Input(out), proc[Input(out)], file[Input(out)])
    BY <2>1 DEF DamageInv, FileOK
  <2> QED BY <1>4, <2>2 DEF LogOK
<1>6. n \in DOMAIN Text(out)
  <2>1. Text(out) \in Seq(Item) BY <1>5 DEF Log
  <2>2. DOMAIN Text(out) = 1 .. Len(Text(out)) /\ Len(Text(out)) \in Nat BY <2>1
  <2> QED BY <1>2, <2>2 DEF HasLine
<1>7. LogPlace(Input(out), n, Line(out)) \/ Line(out) = Torn
  BY <1>5, <1>6 DEF Log, Line
<1>8. data["sk"] \in Key => data["sk"] = data["pk"]
  <2>1. step = "off" BY <1>1, NotPreparing DEF Works
  <2> QED BY <1>2, <2>1 DEF DamageInv, KeyInv, Match
<1>9. \A i : IsSigned(Input(out), i, Line(out)) => IsSigned(out, i, Line(out))
  BY InputIsName DEF IsSigned
<1>10. Input(out) \in lost => ~ Intact(out) BY DEF Intact
<1>11. n + 1 = proc[out].count + 2 BY <1>2
<1> QED BY <1>2, <1>7, <1>8, <1>9, <1>10, <1>11 DEF LogPlace

\* Samples in place stay so with one more that is, and with garbage they are
\* what breaks off.
LEMMA Appended ==
  ASSUME NEW out \in Name, NEW f, InPlace(out, f)
  PROVE  /\ Samples(out, f) /\ Samples(out, Append(f, Garbage))
         /\ \A e \in Item : SamplePlace(out, Len(f) + 1, e) =>
              InPlace(out, Append(f, e)) /\ Len(Append(f, e)) = Len(f) + 1
<1>1. Samples(out, f) BY DEF Samples, InPlace
<1>2. f \in Seq(Item) /\ Len(f) \in Nat /\ DOMAIN f = 1 .. Len(f) BY DEF InPlace
<1>3. ASSUME NEW e \in Item
      PROVE  /\ Append(f, e) \in Seq(Item) /\ Len(Append(f, e)) = Len(f) + 1
             /\ DOMAIN Append(f, e) = (1 .. Len(f)) \cup {Len(f) + 1}
             /\ \A n \in 1 .. Len(f) : Append(f, e)[n] = f[n]
             /\ Append(f, e)[Len(f) + 1] = e
  <2>1. /\ Append(f, e) \in Seq(Item) /\ Len(Append(f, e)) = Len(f) + 1
        /\ \A n \in 1 .. Len(f) : Append(f, e)[n] = f[n]
        /\ Append(f, e)[Len(f) + 1] = e
    BY <1>2, <1>3
  <2>2. DOMAIN Append(f, e) = 1 .. Len(f) + 1 BY <2>1
  <2> QED BY <1>2, <2>1, <2>2
<1>4. Garbage \in Item BY DEF Item
<1>5. Samples(out, Append(f, Garbage)) BY <1>2, <1>3, <1>4 DEF Samples, InPlace
<1>6. ASSUME NEW e \in Item, SamplePlace(out, Len(f) + 1, e)
      PROVE  InPlace(out, Append(f, e))
  BY <1>2, <1>3, <1>6 DEF InPlace
<1> QED BY <1>1, <1>3, <1>5, <1>6

\* What is left of items are no more items, each in its place or garbage.
LEMMA RemainsItems ==
  ASSUME NEW f \in Seq(Item), NEW g \in Remains(f)
  PROVE  /\ g \in Seq(Item) /\ Len(g) <= Len(f)
         /\ \A m \in DOMAIN g : (m \in DOMAIN f /\ g[m] = f[m])
                                 \/ (g[m] = Garbage /\ m = Len(g))
<1>1. Len(f) \in Nat /\ DOMAIN f = 1 .. Len(f) OBVIOUS
<1>2. ASSUME NEW n \in 0 .. Len(f)
      PROVE  /\ SubSeq(f, 1, n) \in Seq(Item) /\ Len(SubSeq(f, 1, n)) = n
             /\ DOMAIN SubSeq(f, 1, n) = 1 .. n
             /\ \A m \in 1 .. n : m \in DOMAIN f /\ SubSeq(f, 1, n)[m] = f[m]
  <2>1. /\ SubSeq(f, 1, n) \in Seq(Item) /\ Len(SubSeq(f, 1, n)) = n
        /\ \A m \in 1 .. n : SubSeq(f, 1, n)[m] = f[m]
    BY <1>1, <1>2
  <2>2. DOMAIN SubSeq(f, 1, n) = 1 .. n BY <2>1
  <2> QED BY <1>1, <2>1, <2>2
<1>3. CASE \E n \in 0 .. Len(f) : g = SubSeq(f, 1, n) BY <1>1, <1>2, <1>3
<1>4. CASE \E n \in DOMAIN f : g = Append(SubSeq(f, 1, n - 1), Garbage)
  <2>1. PICK n \in DOMAIN f : g = Append(SubSeq(f, 1, n - 1), Garbage) BY <1>4
  <2>2. PICK h : h = SubSeq(f, 1, n - 1) OBVIOUS
  <2>3. n - 1 \in 0 .. Len(f) /\ n \in Nat /\ n <= Len(f) BY <1>1
  <2>4. /\ h \in Seq(Item) /\ Len(h) = n - 1
        /\ \A m \in 1 .. n - 1 : m \in DOMAIN f /\ h[m] = f[m]
    BY <1>2, <2>2, <2>3
  <2>5. Garbage \in Item BY DEF Item
  <2>6. /\ g \in Seq(Item) /\ Len(g) = n
        /\ \A m \in 1 .. n - 1 : g[m] = h[m]
        /\ g[n] = Garbage
    BY <2>1, <2>2, <2>3, <2>4, <2>5
  <2>7. \A m \in DOMAIN g : m \in 1 .. n - 1 \/ m = n BY <2>3, <2>6
  <2> QED BY <2>3, <2>4, <2>6, <2>7
<1> QED BY <1>3, <1>4 DEF Remains

\* What is left of samples in place breaks off.
LEMMA RemainsInOrder ==
  ASSUME NEW out \in Name, NEW f, InPlace(out, f), NEW g \in Remains(f)
  PROVE  Samples(out, g)
<1>1. f \in Seq(Item) BY DEF InPlace
<1> QED BY <1>1, RemainsItems DEF InPlace, Samples

\* What it appends for the line is in place.
LEMMA SampleInPlace ==
  ASSUME DamageInv, NEW out \in Name, Sample(out),
         NEW e, e = IF /\ proc[out].aligned /\ Line(out) # Garbage
                       /\ Line(out)[3] = proc[out].key
                    THEN <<Line(out)[1], Line(out)[2]>> ELSE Garbage
  PROVE  e \in Item /\ SamplePlace(out, Len(file[out]) + 1, e)
<1>1. HasLine(out) /\ out[2] = 1 /\ Line(out) # Torn BY DEF Sample
<1>2. Works(out) BY <1>1 DEF HasLine, Parses
<1>3. PICK l, c, key : l = Len(file[out]) /\ c = proc[out].count /\ key = data["sk"]
  OBVIOUS
<1>4. /\ c \in Nat /\ l \in Nat /\ l <= c
      /\ Intact(out) => l = c /\ proc[out].aligned
  BY <1>1, <1>2, <1>3, Parsing
<1>5. BatchSize \in Nat /\ Garbage \in Item /\ out[1] \in Batch /\ Batch \subseteq Nat
  BY PlanAssumption, NameParts DEF Item, Batch
<1>6. CASE e = Garbage /\ ~ Intact(out) BY <1>5, <1>6 DEF SamplePlace
<1>7. ASSUME NEW i \in c + 1 .. BatchSize, IsSigned(out, i, Line(out)),
             ~ Intact(out) \/ i = c + 1
      PROVE  e \in Item /\ SamplePlace(out, Len(file[out]) + 1, e)
  <2>1. Line(out) = <<out[1], i, key>> /\ key \in Key BY <1>3, <1>7 DEF IsSigned
  <2>2. key \in Nat /\ i \in Nat BY <1>4, <1>5, <2>1, KeysAreNumbers
  <2>3. <<out[1], i, key>> \in Nat \X Nat \X Nat BY <1>5, <2>2
  <2>4. Line(out) # Garbage BY <2>1, <2>3, PlanAssumption
  <2>5. key = proc[out].key BY <1>1, <1>3, <2>1, NextLine
  <2>6. Line(out)[1] = out[1] /\ Line(out)[2] = i /\ Line(out)[3] = key BY <2>1
  <2>7. e = IF proc[out].aligned THEN <<out[1], i>> ELSE Garbage
    BY <2>4, <2>5, <2>6
  <2>8. CASE e = Garbage /\ ~ proc[out].aligned BY <1>4, <1>6, <2>8
  <2>9. CASE e = <<out[1], i>>
    <3>1. e \in Item BY <1>5, <2>2, <2>9 DEF Item
    <3>2. i = l + 1 \/ (~ Intact(out) /\ i \in (l + 1) + 1 .. BatchSize)
      BY <1>4, <1>5, <1>7
    <3> QED BY <1>3, <2>9, <3>1, <3>2 DEF SamplePlace
  <2> QED BY <2>7, <2>8, <2>9
<1>8. CASE IsSigned(out, c + 1, Line(out))
  <2>1. c + 1 \in c + 1 .. BatchSize BY <1>4, <1>5, <1>8 DEF IsSigned
  <2> QED BY <1>7, <1>8, <2>1
<1>9. CASE ~ Intact(out) /\ Line(out) = Garbage BY <1>6, <1>9
<1>10. CASE ~ Intact(out) /\ \E i \in c + 2 .. BatchSize : IsSigned(out, i, Line(out))
  <2>1. c + 2 .. BatchSize \subseteq c + 1 .. BatchSize BY <1>4, <1>5
  <2> QED BY <1>7, <1>10, <2>1
<1> QED BY <1>1, <1>3, <1>8, <1>9, <1>10, NextLine

\* The steps of a program that parses.
LEMMA ParseSteps ==
  ASSUME DamageInv, KeyInv', NEW out \in Name,
         Sample(out) \/ SampleTorn(out) \/ SampleRaw(out) \/ ParseShort(out)
           \/ ParseDone(out)
  PROVE  DamageInv'
<1>1. Works(out) /\ out[2] > 0
  BY DEF Sample, SampleTorn, SampleRaw, ParseShort, ParseDone, HasLine, Parses
<1>2. ~ Preparing BY <1>1, NotPreparing DEF Works
<1>3. out[2] # 0 BY <1>1
<1>4. out[2] = 1 => InPlace(out, file[out]) BY <1>1, Parsing
<1>5. proc[out] \in Procs /\ proc[out].count \in Nat BY DEF DamageInv, FileOK, Procs
<1>6. PICK c, p : c = proc[out].count + 1 /\ p = Counts(out, c) OBVIOUS
<1>7. /\ c \in Nat /\ p \in Procs /\ p.count = c /\ p.key = proc[out].key
      /\ p.aligned = proc[out].aligned
  BY <1>5, <1>6, CountsIs
<1>8. CASE Sample(out)
  <2>1. out[2] = 1 BY <1>8 DEF Sample
  <2>2. PICK e : e = IF /\ proc[out].aligned /\ Line(out) # Garbage
                        /\ Line(out)[3] = proc[out].key
                     THEN <<Line(out)[1], Line(out)[2]>> ELSE Garbage
    OBVIOUS
  <2>3. PICK f : f = Append(file[out], e) OBVIOUS
  <2>4. file' = [file EXCEPT ![out] = f] /\ Goes(out, p)
    BY <1>6, <1>8, <2>2, <2>3 DEF Sample, Sampled, DamageInv
  <2>5. e \in Item /\ SamplePlace(out, Len(file[out]) + 1, e)
    BY <1>8, <2>2, SampleInPlace
  <2>6. InPlace(out, f) /\ Len(f) = Len(file[out]) + 1 BY <1>4, <2>1, <2>3, <2>5, Appended
  <2>7. Samples(out, f) BY <2>6, Appended
  <2>8. /\ file[out] \in Seq(Item) /\ Len(file[out]) <= proc[out].count
        /\ Intact(out) => Len(file[out]) = proc[out].count /\ proc[out].aligned
        /\ proc[out].key = data["pk"] /\ data["pk"] \in Key
    BY <1>1, <2>1, Parsing
  <2>9. Len(f) <= c /\ (Intact(out) => Len(f) = c)
    <3>1. Len(file[out]) \in Nat BY <2>8
    <3> QED BY <1>5, <1>6, <2>6, <2>8, <3>1
  <2>10. FileOK(out, p, f)
    BY <1>7, <2>1, <2>6, <2>7, <2>8, <2>9 DEF FileOK, SampleOK
  <2> QED BY <1>2, <2>4, <2>10, OneGoes
<1>9. CASE SampleTorn(out)
  <2> DEFINE f == Append(file[out], Garbage)
  <2>1. file' = [file EXCEPT ![out] = f] /\ Leave(out, TRUE)
    BY <1>9 DEF SampleTorn
  <2>2. /\ out[2] = 0 => Log(out, f)
        /\ out[2] = 1 => Samples(out, f)
        /\ out[2] > 1 => f \in Seq(Item)
    BY <1>1, <1>3, <1>4, Appended, ParsingOther
  <2> HIDE DEF f
  <2> QED BY <1>2, <2>1, <2>2, OneLeaves
<1>10. CASE SampleRaw(out)
  <2>1. out[2] > 1 /\ out[2] # 1 BY <1>10 DEF SampleRaw
  <2>2. file[out] \in Seq(Item) /\ Append(file[out], Garbage) \in Seq(Item)
    BY <1>1, <2>1, ParsingOther
  <2>3. PICK f : /\ Goes(out, p)
                 /\ \/ /\ file' = [file EXCEPT ![out] = f]
                       /\ f = Append(file[out], Garbage)
                    \/ file' = file /\ f = file[out]
    BY <1>6, <1>10 DEF SampleRaw, Sampled
  <2>4. f \in Seq(Item) BY <2>2, <2>3
  <2>5. FileOK(out, p, f) BY <1>3, <1>7, <2>1, <2>4 DEF FileOK, OtherOK
  <2> QED BY <1>2, <2>3, <2>5, OneGoes
<1>11. CASE ParseShort(out)
  <2>1. PICK f \in Remains(file[out]) : file' = [file EXCEPT ![out] = f]
    BY <1>11 DEF ParseShort
  <2>2. Leave(out, FALSE) BY <1>11 DEF ParseShort
  <2>3. /\ out[2] = 0 => Log(out, f)
        /\ out[2] = 1 => Samples(out, f)
        /\ out[2] > 1 => f \in Seq(Item)
    BY <1>1, <1>3, <1>4, <2>1, RemainsInOrder, RemainsItems, ParsingOther
  <2> QED BY <1>2, <2>1, <2>2, <2>3, OneLeaves
<1>12. CASE ParseDone(out)
  <2> DEFINE f == file[out]
  <2>1. Leave(out, TRUE) /\ file' = file BY <1>12 DEF ParseDone
  <2>2. /\ out[2] = 0 => Log(out, f)
        /\ out[2] = 1 => Samples(out, f)
        /\ out[2] > 1 => f \in Seq(Item)
    BY <1>1, <1>3, <1>4, Appended, ParsingOther
  <2>3. f = file[out] OBVIOUS
  <2> HIDE DEF f
  <2> QED BY <1>2, <2>1, <2>2, <2>3, OneLeaves
<1> QED BY <1>8, <1>9, <1>10, <1>11, <1>12

\* A block of samples is lost.
LEMMA SampleLostStep ==
  ASSUME DamageInv, KeyInv', NEW out \in Name, SampleLost(out) PROVE DamageInv'
<1>1. Works(out) /\ out[2] > 0 BY DEF SampleLost, Parses
<1>2. ~ Preparing BY <1>1, NotPreparing DEF Works
<1>3. PICK f \in Remains(file[out]), shifted \in BOOLEAN :
        Loses(out, f, [proc[out] EXCEPT !.aligned = proc[out].aligned /\ ~ shifted])
  BY DEF SampleLost
<1>4. PICK p : p = [proc[out] EXCEPT !.aligned = proc[out].aligned /\ ~ shifted] OBVIOUS
<1>5. Loses(out, f, p) BY <1>3, <1>4
<1>6. data' = data /\ out \in lost' BY <1>5 DEF Loses, keyVars
<1>7. proc[out] \in Procs BY DEF DamageInv, FileOK
<1>8. p \in Procs /\ p.key = proc[out].key /\ p.count = proc[out].count
  BY <1>4, <1>7 DEF Procs
<1>9. CASE out[2] = 1
  <2>1. /\ InPlace(out, file[out]) /\ file[out] \in Seq(Item)
        /\ Len(file[out]) <= proc[out].count /\ proc[out].count \in Nat
        /\ proc[out].key = data["pk"] /\ data["pk"] \in Key
    BY <1>1, <1>9, Parsing
  <2>2. /\ f \in Seq(Item) /\ Len(f) <= Len(file[out])
        /\ \A m \in DOMAIN f : (m \in DOMAIN file[out] /\ f[m] = file[out][m])
                               \/ f[m] = Garbage
    BY <2>1, RemainsItems
  <2>3. ~ Intact(out)' BY <1>6 DEF Intact
  <2>4. ASSUME NEW m \in DOMAIN f PROVE SamplePlace(out, m, f[m])'
    <3>1. SamplePlace(out, m, f[m]) \/ f[m] = Garbage BY <2>1, <2>2 DEF InPlace
    <3> QED BY <2>3, <3>1 DEF SamplePlace
  <2>5. InPlace(out, f)' /\ Samples(out, f)' BY <2>2, <2>4 DEF InPlace, Samples
  <2>6. Len(f) <= p.count
    <3>1. Len(f) \in Nat /\ Len(file[out]) \in Nat BY <2>1, <2>2
    <3> QED BY <1>8, <2>1, <2>2, <3>1
  <2>7. FileOK(out, p, f)'
    BY <1>6, <1>8, <1>9, <2>1, <2>3, <2>5, <2>6 DEF FileOK, SampleOK
  <2> QED BY <1>2, <1>5, <2>7, OneLoses
<1>10. CASE out[2] # 1
  <2>1. out[2] > 1 /\ out[2] # 0 BY <1>1, <1>10, NameParts
  <2>2. file[out] \in Seq(Item) BY <1>1, <2>1, ParsingOther
  <2>3. f \in Seq(Item) BY <2>2, RemainsItems
  <2>4. FileOK(out, p, f)' BY <1>8, <1>10, <2>1, <2>3 DEF FileOK, OtherOK
  <2> QED BY <1>2, <1>5, <2>4, OneLoses
<1> QED BY <1>9, <1>10

\* A program that is killed, before it has started or after.
LEMMA KilledStep ==
  ASSUME DamageInv, KeyInv', NEW out \in Name, Killed(out) PROVE DamageInv'
<1>1. ~ Preparing BY NotPreparing DEF Killed
<1>2. PICK f \in IF Parses(out) THEN Remains(file[out]) ELSE {file[out]} :
        file' = [file EXCEPT ![out] = f]
  BY DEF Killed
<1>3. Leave(out, FALSE) BY DEF Killed
<1>4. f = NoFile \/ /\ out[2] = 0 => Log(out, f)
                    /\ out[2] = 1 => Samples(out, f)
                    /\ out[2] > 1 => f \in Seq(Item)
  <2>1. CASE Parses(out)
    <3>1. Works(out) /\ out[2] # 0 /\ f \in Remains(file[out])
      BY <1>2, <2>1 DEF Parses
    <3> QED BY <3>1, Parsing, ParsingOther, RemainsInOrder, RemainsItems
  <2>2. CASE ~ Parses(out)
    <3>1. f = file[out] BY <1>2, <2>2
    <3>2. FileOK(out, proc[out], f) BY <3>1 DEF DamageInv
    <3> QED BY <3>2 DEF FileOK, LogOK, SampleOK, OtherOK
  <2> QED BY <2>1, <2>2
<1> QED BY <1>1, <1>2, <1>3, <1>4, OneLeaves

-----------------------------------------------------------------------------
\* A script that starts.
LEMMA BeginSteps ==
  ASSUME SetupFirst, DamageInv, KeyInv', BeginSetup \/ BeginSign \/ BeginProcess
  PROVE  DamageInv'
<1>1. /\ stage' = stage + 1 /\ stage \in Nat /\ stage < Len(Plan) /\ Len(Plan) \in Nat
      /\ DOMAIN Plan = 1 .. Len(Plan) /\ step = "off"
  BY PlanAssumption
     DEF BeginSetup, BeginSign, BeginProcess, Begin, ScriptOver, DamageInv, KeyInv
<1>2. CASE BeginSetup
  <2>1. Plan[stage + 1] = "setup" /\ UNCHANGED <<proc, file, status>>
    BY <1>2 DEF BeginSetup, Begin, fileVars, poolVars
  <2>2. \A s \in 1 .. stage : s \in DOMAIN Plan /\ stage + 1 \in DOMAIN Plan /\ s < stage + 1
    BY <1>1
  <2>3. Preparing
    <3> SUFFICES ASSUME NEW s \in 1 .. stage, Plan[s] # "setup" PROVE FALSE
      BY DEF Preparing
    <3>1. stage + 1 < s BY <2>1, <2>2 DEF SetupFirst
    <3> QED BY <1>1, <2>2, <3>1
  <2>4. Preparing'
    <3>1. \A s \in 1 .. stage + 1 : s \in 1 .. stage \/ s = stage + 1 BY <1>1
    <3> QED BY <1>1, <2>1, <2>3, <3>1 DEF Preparing
  <2> QED BY <2>1, <2>3, <2>4, WhilePreparing
<1>3. CASE BeginSign \/ BeginProcess
  <2>1. /\ Plan[stage + 1] # "setup"
        /\ UNCHANGED <<keyVars, proc, file, lost>>
    BY <1>3 DEF BeginSign, BeginProcess, Begin, StartPool, fileVars
  <2>2. stage + 1 \in 1 .. stage' BY <1>1
  <2>3. ~ Preparing' BY <2>1, <2>2 DEF Preparing
  <2> QED BY <1>1, <2>1, <2>3, FilesUntouched
<1> QED BY <1>2, <1>3

\* 00_setup.sh at work.
LEMMA SetupSteps ==
  ASSUME DamageInv, KeyInv', Setup PROVE DamageInv'
<1>1. /\ step # "off" /\ stage' = stage
      /\ UNCHANGED <<poolVars, fileVars>>
  BY DEF Setup, OpenSk, OpenPk, SaveSk, SavePk, Save, KeygenFails, MoveSk, MovePk,
         Move, Keygen
<1>2. Preparing BY <1>1 DEF DamageInv
<1>3. Preparing' BY <1>1, <1>2 DEF Preparing
<1> QED BY <1>1, <1>2, <1>3, WhilePreparing DEF poolVars, fileVars

\* The loop of either other script.
LEMMA PoolSteps ==
  ASSUME DamageInv, KeyInv', Fork \/ Exit \/ EndSign \/ EndProcess
  PROVE  DamageInv'
<1>1. status = "runs" /\ stage' = stage /\ UNCHANGED <<keyVars, file, lost>>
  BY DEF Fork, Exit, EndSign, EndProcess, fileVars, Pool!Fork, Pool!Exit, Pool!End
<1>2. ~ Preparing /\ step = "off" BY <1>1 DEF DamageInv
<1>3. ~ Preparing' BY <1>1, <1>2 DEF Preparing
<1>4. CASE Exit \/ EndSign \/ EndProcess
  <2>1. proc' = proc BY <1>4 DEF Exit, EndSign, EndProcess, fileVars
  <2> QED BY <1>1, <1>2, <1>3, <2>1, FilesUntouched
<1>5. CASE Fork
  <2>1. proc' = [proc EXCEPT ![Head(todo)] = [Idle EXCEPT !.at = "forked"]]
    BY <1>5 DEF Fork
  <2>2. CASE Head(todo) \notin Name
    <3>1. \A out \in Name : proc'[out] = proc[out] BY <2>1, <2>2 DEF DamageInv
    <3>2. DOMAIN proc' = Name /\ data' = data /\ step' = "off" /\ file' = file
      BY <1>1, <1>2, <2>1 DEF DamageInv, keyVars
    <3>3. \A out \in Name : FileOK(out, proc'[out], file'[out])
      BY <3>1, <3>2 DEF DamageInv
    <3>4. \A out \in Name : FileOK(out, proc[out], file[out])'
      BY <1>1, <3>2, <3>3, MoreLost
    <3> QED BY <1>3, <3>2, <3>4 DEF DamageInv
  <2>3. CASE Head(todo) \in Name
    <3> DEFINE out == Head(todo)
               p == [Idle EXCEPT !.at = "forked"]
    <3>1. p.at # "works" /\ p \in Procs BY IdleIsProc DEF Idle, Procs
    <3>2. FileOK(out, proc[out], file[out]) BY <2>3 DEF DamageInv
    <3> HIDE DEF p
    <3>3. FileOK(out, p, file[out]) BY <3>1, <3>2 DEF FileOK, LogOK, SampleOK, OtherOK
    <3>4. proc' = [proc EXCEPT ![out] = p] BY <2>1 DEF p
    <3> HIDE DEF out
    <3> QED BY <1>1, <1>2, <2>3, <3>3, <3>4, OneFile DEF out
  <2> QED BY <2>2, <2>3
<1> QED BY <1>4, <1>5

\* Every step keeps the invariant.
LEMMA DamageStep == ASSUME SetupFirst PROVE DamageInv /\ [Next]_vars => DamageInv'
<1> SUFFICES ASSUME DamageInv, [Next]_vars PROVE DamageInv' OBVIOUS
<1>1. KeyInv' BY KeyStep DEF DamageInv
<1>2. CASE BeginSetup \/ BeginSign \/ BeginProcess BY <1>1, <1>2, BeginSteps
<1>3. CASE Setup BY <1>1, <1>3, SetupSteps
<1>4. CASE Fork \/ Exit \/ EndSign \/ EndProcess BY <1>1, <1>4, PoolSteps
<1>5. ASSUME NEW out \in Name, Program(out) \/ Mishap(out) PROVE DamageInv'
  BY <1>1, <1>5, StartStep, SignSteps, ParseSteps, KilledStep, SignLostStep, SampleLostStep
     DEF Program, Mishap
<1>6. CASE UNCHANGED vars
  <2>1. UNCHANGED <<keyVars, stage, proc, file, lost, status, step>>
    BY <1>6 DEF vars, poolVars, fileVars, keyVars
  <2>2. Preparing' = Preparing BY <2>1 DEF Preparing
  <2> QED BY <1>1, <2>1, <2>2, WhilePreparing, FilesUntouched DEF DamageInv
<1> QED BY <1>2, <1>3, <1>4, <1>5, <1>6 DEF Next, Script

\* If the keys are made first, then whatever fails, and wherever the programs
\* that an early exit has left behind may be, the samples of a batch are those
\* of its first signatures, with at most one item of garbage at the end; and
\* of a batch of which a write has been lost, unnoticed, no sample is before
\* its place or comes from another batch.
THEOREM DamageTheorem == ASSUME SetupFirst PROVE Spec => []DamageContained
<1>1. DamageInv => DamageContained
  BY DEF DamageInv, DamageContained, FileOK, SampleOK, Samples, SamplePlace
<1>2. DamageInv /\ [Next]_vars => DamageInv' BY DamageStep
<1> QED BY <1>1, <1>2, DamageInit, PTL DEF Spec
-----------------------------------------------------------------------------
(* Files one after another *)

\* F[n] is the concatenation of the first n sequences.
Concatenates(F, s) ==
  \A n \in 1 .. Len(s) : F[n] = IF n = 1 THEN s[1] ELSE F[n - 1] \o s[n]

\* What concatenates all of them is what FlattenSeq makes of them.
LEMMA FlattenIs ==
  ASSUME NEW s, Len(s) \in Nat, Len(s) > 0, NEW F, Concatenates(F, s)
  PROVE  FlattenSeq(s) = F[Len(s)]
<1> DEFINE Rule(h) == [i \in 1 .. Len(s) |-> IF i = 1 THEN s[i] ELSE h[i - 1] \o s[i]]
           g == CHOOSE h : h = Rule(h)
           F1 == [i \in 1 .. Len(s) |-> F[i]]
<1>1. FlattenSeq(s) = g[Len(s)] BY DEF FlattenSeq
<1>2. F1 = Rule(F1)
  <2>1. ASSUME NEW i \in 1 .. Len(s)
        PROVE  F[i] = IF i = 1 THEN s[i] ELSE F1[i - 1] \o s[i]
    <3>1. CASE i = 1 BY <3>1 DEF Concatenates
    <3>2. CASE i # 1
      <4>1. i - 1 \in 1 .. Len(s) BY <3>2
      <4>2. F1[i - 1] = F[i - 1] BY <4>1
      <4>3. F[i] = F[i - 1] \o s[i] BY <3>2 DEF Concatenates
      <4> QED BY <3>2, <4>2, <4>3
    <3> QED BY <3>1, <3>2
  <2> QED BY <2>1
<1>3. g = Rule(g) BY <1>2
<1> DEFINE P == {n \in Nat : n > 0 => g[n] = F[n]}
<1>4. \A n \in 0 .. Len(s) : n \in P
  <2>1. 0 \in P OBVIOUS
  <2>2. ASSUME NEW n \in 0 .. Len(s) - 1, n \in P PROVE n + 1 \in P
    <3>1. n + 1 \in 1 .. Len(s) OBVIOUS
    <3> HIDE DEF g
    <3>2. g[n + 1] = IF n + 1 = 1 THEN s[n + 1] ELSE g[(n + 1) - 1] \o s[n + 1]
      BY <1>3, <3>1
    <3>3. F[n + 1] = IF n + 1 = 1 THEN s[1] ELSE F[(n + 1) - 1] \o s[n + 1]
      BY <3>1 DEF Concatenates
    <3>4. CASE n = 0 BY <3>2, <3>3, <3>4
    <3>5. CASE n # 0
      <4>1. (n + 1) - 1 = n /\ n + 1 # 1 /\ g[n] = F[n] BY <2>2, <3>5
      <4>2. g[n + 1] = g[n] \o s[n + 1] BY <3>2, <4>1
      <4>3. F[n + 1] = F[n] \o s[n + 1] BY <3>3, <4>1
      <4>4. g[n + 1] = F[n + 1] BY <4>1, <4>2, <4>3
      <4>5. n + 1 \in Nat OBVIOUS
      <4> QED BY <4>4, <4>5
    <3> QED BY <3>4, <3>5
  <2> HIDE DEF P
  <2> QED BY <2>1, <2>2, UptoInduction
<1>5. g[Len(s)] = F[Len(s)]
  <2> HIDE DEF g
  <2>1. Len(s) \in 0 .. Len(s) OBVIOUS
  <2>2. Len(s) \in P BY <1>4, <2>1
  <2> QED BY <2>2
<1> QED BY <1>1, <1>5

\* s is g cut into m pieces of the length l.
Blocks(s, g, m, l) ==
  \A n \in 1 .. m : /\ Len(s[n]) = l
                    /\ \A k \in 1 .. l : s[n][k] = g[(n - 1) * l + k]

\* Sequences of one length l: the k-th item of the n-th is item (n-1)l + k.
LEMMA FlattenBlocks ==
  ASSUME NEW X, NEW l \in Nat, NEW m \in Nat, NEW s \in [1 .. m -> Seq(X)],
         NEW g \in [1 .. m * l -> X],
         Blocks(s, g, m, l)
  PROVE  FlattenSeq(s) = g
<1> DEFINE F == [n \in 1 .. m |-> [k \in 1 .. n * l |-> g[k]]]
<1>0. Len(s) = m OBVIOUS
<1>1. CASE m = 0
  <2>1. 1 .. m = {} /\ 1 .. m * l = {}
    <3>1. m * l = 0 BY <1>1
    <3> QED BY <1>1, <3>1
  <2>2. FlattenSeq(s) = s BY <1>0, <1>1 DEF FlattenSeq
  <2>3. s = [n \in {} |-> 0] /\ g = [n \in {} |-> 0] BY <2>1
  <2> QED BY <2>2, <2>3
<1>2. CASE m > 0
  <2>1. Concatenates(F, s)
    <3> SUFFICES ASSUME NEW n \in 1 .. m
                 PROVE  F[n] = IF n = 1 THEN s[1] ELSE F[n - 1] \o s[n]
      BY <1>0 DEF Concatenates
    <3>1. /\ s[n] \in Seq(X) /\ Len(s[n]) = l
          /\ \A k \in 1 .. l : s[n][k] = g[(n - 1) * l + k]
      BY DEF Blocks
    <3>2. n \in Nat /\ n - 1 \in Nat /\ n * l \in Nat /\ (n - 1) * l \in Nat
          /\ n * l = (n - 1) * l + l
      OBVIOUS
    <3>3. n * l <= m * l
      <4>1. m - n \in Nat OBVIOUS
      <4>2. (m - n) * l >= 0 BY <4>1
      <4>3. m * l = n * l + (m - n) * l OBVIOUS
      <4>4. (m - n) * l \in Int /\ m * l \in Int BY <4>1
      <4> QED BY <3>2, <4>2, <4>3, <4>4
    <3> DEFINE a == (n - 1) * l
               b == n * l
               e == m * l
    <3>4. a \in Nat /\ b \in Nat /\ b = a + l /\ b <= e /\ e \in Nat BY <3>2, <3>3
    <3>5. CASE n = 1
      <4>1. a = 0 BY <3>5
      <4>2. b = l /\ \A k \in 1 .. l : s[n][k] = g[k]
        <5> HIDE DEF b, e
        <5>1. b = l BY <3>4, <4>1
        <5>2. \A k \in 1 .. l : s[n][k] = g[a + k] BY <3>1
        <5> HIDE DEF a
        <5>3. \A k \in 1 .. l : a + k = k BY <4>1
        <5> QED BY <5>1, <5>2, <5>3
      <4>3. F[n] = [k \in 1 .. l |-> g[k]]
        <5>1. F[n] = [k \in 1 .. b |-> g[k]] OBVIOUS
        <5> QED BY <5>1, <4>2
      <4>4. s[n] = [k \in 1 .. l |-> s[n][k]] BY <3>1
      <4> HIDE DEF F
      <4> QED BY <3>5, <4>2, <4>3, <4>4
    <3>6. CASE n # 1
      <4>1. F[n - 1] = [k \in 1 .. a |-> g[k]]
        <5>1. n - 1 \in 1 .. m BY <3>6
        <5> QED BY <5>1
      <4>2. F[n] = [k \in 1 .. b |-> g[k]] OBVIOUS
      <4>3. \A k \in 1 .. l : s[n][k] = g[a + k] BY <3>1
      <4>4. 1 .. e = DOMAIN g /\ \A k \in 1 .. e : g[k] \in X OBVIOUS
      <4> HIDE DEF F, a, b, e
      <4> DEFINE p == [k \in 1 .. a |-> g[k]]
                 q == [k \in 1 .. b |-> g[k]]
      <4>5. p \in Seq(X) /\ Len(p) = a
        <5>1. \A k \in 1 .. a : g[k] \in X BY <3>4, <4>4
        <5> QED BY <3>4, <5>1
      <4>6. p \o s[n] = q
        <5>1. /\ p \o s[n] \in Seq(X) /\ Len(p \o s[n]) = a + l
              /\ \A k \in 1 .. a : (p \o s[n])[k] = p[k]
              /\ \A k \in a + 1 .. a + l : (p \o s[n])[k] = s[n][k - a]
          <6> DEFINE t == s[n]
          <6>1. t \in Seq(X) /\ Len(t) = l BY <3>1
          <6> HIDE DEF p, q, t
          <6>2. /\ p \o t \in Seq(X) /\ Len(p \o t) = Len(p) + Len(t)
                /\ \A k \in 1 .. Len(p) : (p \o t)[k] = p[k]
                /\ \A k \in Len(p) + 1 .. Len(p) + Len(t) :
                     (p \o t)[k] = t[k - Len(p)]
            BY <4>5, <6>1, ConcatAt
          <6>3. /\ p \o t \in Seq(X) /\ Len(p \o t) = a + l
                /\ \A k \in 1 .. a : (p \o t)[k] = p[k]
                /\ \A k \in a + 1 .. a + l : (p \o t)[k] = t[k - a]
            BY <4>5, <6>1, <6>2
          <6> QED BY <6>3 DEF t
        <5>2. ASSUME NEW k \in 1 .. b PROVE (p \o s[n])[k] = g[k]
          <6>1. CASE k <= a
            <7>1. k \in 1 .. a BY <3>4, <6>1
            <7> QED BY <5>1, <7>1
          <6>2. CASE k > a
            <7>1. k \in a + 1 .. a + l /\ k - a \in 1 .. l /\ a + (k - a) = k
              BY <3>4, <6>2
            <7>2. (p \o s[n])[k] = s[n][k - a] BY <5>1, <7>1
            <7>3. s[n][k - a] = g[a + (k - a)] BY <4>3, <7>1
            <7> QED BY <7>1, <7>2, <7>3
          <6>3. k \in Nat BY <3>4
          <6>4. k <= a \/ k > a BY <3>4, <6>3
          <6> QED BY <6>1, <6>2, <6>4
        <5>3. p \o s[n] = [k \in 1 .. b |-> (p \o s[n])[k]] BY <3>4, <5>1
        <5> QED BY <5>2, <5>3
      <4> QED BY <3>6, <4>1, <4>2, <4>6
    <3> QED BY <3>5, <3>6
  <2>2. FlattenSeq(s) = F[m]
    <3> HIDE DEF F
    <3> QED BY <1>0, <1>2, <2>1, FlattenIs
  <2>3. F[m] = [k \in 1 .. m * l |-> g[k]] BY <1>2
  <2>4. g = [k \in 1 .. m * l |-> g[k]] OBVIOUS
  <2> QED BY <2>2, <2>3, <2>4
<1> QED BY <1>1, <1>2
-----------------------------------------------------------------------------
(* What 02_process_signatures.sh leaves when nothing fails *)

\* The order of the README, in which each script may be run more than once.
InOrder == /\ SetupFirst
           /\ \A t \in DOMAIN Plan :
                /\ Plan[t] # "setup" => \E s \in 1 .. t - 1 : Plan[s] = "setup"
                /\ Plan[t] = "process" => \E s \in 1 .. t - 1 : Plan[s] = "sign"

\* When nothing fails nothing is lost, and a key pair takes this way.
FreshKeys ==
  /\ faults \in Nat
  /\ faults = 0 =>
       /\ lost = {}
       /\ step = "savePk" => here["sk"] = stage
       /\ step = "moveSk" => here["sk"] = stage /\ here["pk"] = stage
       /\ step = "movePk" => data["sk"] = stage /\ here["pk"] = stage
       /\ step = "off" /\ stage > 0 => data["sk"] = data["pk"] /\ data["sk"] \in Key

\* Nothing has failed, and no program has parsed samples.
Undisturbed == faults = 0 /\ FirstTime

FullLog(b)     == [n \in 1 .. BatchSize |-> <<b, n, data["sk"]>>]
FullSamples(b) == [n \in 1 .. BatchSize |-> <<b, n>>]

Queued(out) == \E n \in DOMAIN todo : todo[n] = out
Due(out)    == Queued(out) \/ out \in active

\* The programs that write the files of one kind are all there are.
Pooled(kind) ==
  /\ failed = {} /\ todo \in Seq(Name) /\ \A n \in DOMAIN todo : todo[n][2] = kind
  /\ \A out \in Name : proc[out].at # "none" => out \in active /\ out[2] = kind
  /\ status \in {"runs", "ended"}
  /\ status = "ended" => todo = << >> /\ active = {}

SignInv ==
  /\ Pooled(0)
  /\ \A b \in Batch : Due(<<b, 0>>) \/ file[<<b, 0>>] = FullLog(b)
  /\ \A out \in Name : out[2] > 0 => file[out] = NoFile

ProcessInv ==
  /\ Pooled(1)
  /\ \A b \in Batch : file[<<b, 0>>] = FullLog(b)
  /\ \A b \in Batch : Due(<<b, 1>>) \/ file[<<b, 1>>] = FullSamples(b)
  /\ \A b \in Batch : Works(<<b, 1>>) => proc[<<b, 1>>].count <= BatchSize
  /\ status = "ended" => Complete(raw)

\* Its output waits to be opened, which ends FirstTime.
Awaits(out) == Queued(out) \/ (out \in active /\ proc[out].at = "forked")

LaterInv ==
  /\ Complete(raw) /\ todo \in Seq(Batch \X Nat)
  /\ \A b \in Batch : file[<<b, 0>>] # NoFile /\ file[<<b, 1>>] # NoFile
  /\ Plan[stage] = "process" /\ status = "runs" => \A b \in Batch : Awaits(<<b, 2>>)
  /\ Plan[stage] = "process" /\ status = "ended" => NBatches = 0

ProcessedBefore == \E s \in 1 .. stage - 1 : Plan[s] = "process"

RawStage ==
  \/ ~ ProcessedBefore /\ Plan[stage] = "sign" /\ SignInv
  \/ ~ ProcessedBefore /\ Plan[stage] = "process" /\ ProcessInv
  \/ ProcessedBefore /\ LaterInv

RawInv == /\ DamageInv /\ FreshKeys /\ stage \in 0 .. Len(Plan)
          /\ Undisturbed /\ ~ Preparing => RawStage

-----------------------------------------------------------------------------
\* The keys of an undisturbed setup.
LEMMA FreshKeysInit == Init => FreshKeys
BY DEF Init, FreshKeys

\* A program ends or goes on.
LEMMA ProgramEnds ==
  ASSUME NEW out \in Name, Program(out)
  PROVE  (\E ok : Leave(out, ok)) \/ (\E p : Goes(out, p))
<1>1. CASE Start(out) BY <1>1 DEF Start
<1>2. CASE SignBlock(out) BY <1>2 DEF SignBlock
<1>3. CASE SignDone(out) BY <1>3 DEF SignDone
<1>4. CASE SignFails(out) BY <1>4 DEF SignFails
<1>5. CASE Sample(out) BY <1>5 DEF Sample, Sampled
<1>6. CASE SampleTorn(out) BY <1>6 DEF SampleTorn
<1>7. CASE SampleRaw(out) BY <1>7 DEF SampleRaw, Sampled
<1>8. CASE ParseShort(out) BY <1>8 DEF ParseShort
<1>9. CASE ParseDone(out) BY <1>9 DEF ParseDone
<1> QED BY <1>1, <1>2, <1>3, <1>4, <1>5, <1>6, <1>7, <1>8, <1>9 DEF Program

\* It loses nothing, and what it fails of itself is counted.
LEMMA ProgramKeeps ==
  ASSUME NEW out \in Name, Program(out)
  PROVE  lost' = lost /\ (faults' = faults \/ Fault)
<1>1. lost' = lost BY ProgramEnds DEF Leave, Goes
<1>2. faults' = faults \/ Fault
  BY DEF Program, Start, SignBlock, SignDone, SignFails, Sample, Sampled, SampleTorn,
         SampleRaw, ParseShort, ParseDone, Goes
<1> QED BY <1>1, <1>2

\* A mishap is a failure.
LEMMA MishapFails == ASSUME NEW out, Mishap(out) PROVE Fault
BY DEF Mishap, Killed, SignLost, SampleLost, Loses

\* A step without a failure passes the key on.
LEMMA FreshKeysStep ==
  ASSUME InOrder PROVE KeyInv /\ FreshKeys /\ [Next]_vars => FreshKeys'
<1> SUFFICES ASSUME KeyInv, FreshKeys, [Next]_vars PROVE FreshKeys' OBVIOUS
<1> stage \in Nat /\ faults \in Nat BY DEF KeyInv, FreshKeys
<1>0. here \in Halves /\ data \in Halves /\ Key \subseteq Nat /\ NoFile \notin Nat
  BY KeysAreNumbers, PlanAssumption DEF KeyInv
<1>1. CASE BeginSetup
  BY <1>1 DEF BeginSetup, Begin, FreshKeys, fileVars
<1>2. CASE BeginSign \/ BeginProcess
  <2>1. /\ stage' = stage + 1 /\ Plan[stage + 1] # "setup" /\ stage < Len(Plan)
        /\ UNCHANGED <<keyVars, faults, lost>> /\ step = "off"
    BY <1>2 DEF BeginSign, BeginProcess, Begin, StartPool, ScriptOver, fileVars
  <2>2. stage + 1 \in DOMAIN Plan
    <3>1. DOMAIN Plan = 1 .. Len(Plan) /\ Len(Plan) \in Nat BY PlanAssumption
    <3> QED BY <2>1, <3>1
  <2>3. PICK s \in 1 .. (stage + 1) - 1 : TRUE BY <2>1, <2>2 DEF InOrder
  <2>4. stage > 0 BY <2>3
  <2> QED BY <2>1, <2>4 DEF FreshKeys, keyVars
<1>3. CASE Setup
  <2> USE <1>0 DEF FreshKeys, KeyInv, Saved, Halves, fileVars
  <2>1. CASE OpenSk BY <2>1 DEF OpenSk, Keygen
  <2>2. CASE OpenPk BY <2>2 DEF OpenPk, Keygen
  <2>3. CASE SaveSk BY <2>3 DEF SaveSk, Save, Keygen, Fault
  <2>4. CASE SavePk BY <2>4 DEF SavePk, Save, Keygen, Fault
  <2>5. CASE KeygenFails BY <2>5 DEF KeygenFails, Keygen, Fault
  <2>6. CASE MoveSk BY <2>6 DEF MoveSk, Move
  <2>7. CASE MovePk
    <3>1. /\ step = "movePk" /\ step' = "off" /\ stage' = stage /\ faults' = faults
          /\ lost' = lost
          /\ \/ here["pk"] = NoFile
             \/ data' = [data EXCEPT !["pk"] = here["pk"]]
      BY <2>7 DEF MovePk, Move
    <3>2. SUFFICES ASSUME faults = 0
                   PROVE  data'["sk"] = data'["pk"] /\ data'["sk"] \in Key
      BY <3>1
    <3>3. data["sk"] = stage /\ here["pk"] = stage /\ stage \in Key BY <3>1, <3>2
    <3>4. data' = [data EXCEPT !["pk"] = here["pk"]] BY <1>0, <3>1, <3>3
    <3> QED BY <3>3, <3>4
  <2> QED BY <1>3, <2>1, <2>2, <2>3, <2>4, <2>5, <2>6, <2>7 DEF Setup
<1>4. CASE Fork \/ Exit \/ EndSign \/ EndProcess
  <2>1. UNCHANGED <<keyVars, stage, faults, lost>>
    BY <1>4 DEF Fork, Exit, EndSign, EndProcess, fileVars
  <2> QED BY <2>1 DEF FreshKeys, keyVars
<1>5. ASSUME NEW out \in Name, Program(out) \/ Mishap(out) PROVE FreshKeys'
  <2>1. UNCHANGED <<keyVars, stage>> BY <1>5, ProgramsLeaveKeys
  <2>2. (faults' = faults /\ lost' = lost) \/ Fault
    BY <1>5, ProgramKeeps, MishapFails
  <2> QED BY <2>1, <2>2 DEF FreshKeys, keyVars, Fault
<1>6. CASE UNCHANGED vars BY <1>6 DEF vars, keyVars, fileVars, FreshKeys
<1> QED BY <1>1, <1>2, <1>3, <1>4, <1>5, <1>6 DEF Next, Script

-----------------------------------------------------------------------------
\* There are as many numbers of files as runs of 02_process_signatures.sh.
LEMMA RerunsAre ==
  /\ Reruns \in Nat
  /\ \A s \in DOMAIN Plan : Plan[s] = "process" => Reruns >= 1
  /\ \A s, t \in DOMAIN Plan :
       s # t /\ Plan[s] = "process" /\ Plan[t] = "process" => Reruns >= 2
<1> DEFINE S == {s \in DOMAIN Plan : Plan[s] = "process"}
<1>1. IsFiniteSet(S)
  <2>1. DOMAIN Plan = 1 .. Len(Plan) /\ Len(Plan) \in Nat BY PlanAssumption
  <2>2. IsFiniteSet(DOMAIN Plan) BY <2>1, FS_Interval
  <2> QED BY <2>2, FS_Subset
<1>2. Reruns = Cardinality(S) BY DEF Reruns
<1>3. Cardinality(S) \in Nat BY <1>1, FS_CardinalityType
<1>5. ASSUME NEW s \in S PROVE Cardinality(S) >= 1
  <2> HIDE DEF S
  <2>1. S # {} BY <1>5
  <2> QED BY <1>1, <1>3, <2>1, FS_EmptySet
<1>6. ASSUME NEW s \in S, NEW t \in S, s # t PROVE Cardinality(S) >= 2
  <2> HIDE DEF S
  <2> DEFINE T == S \ {s}
  <2>1. IsFiniteSet(T) /\ Cardinality(T) = Cardinality(S) - 1
    BY <1>1, FS_RemoveElement
  <2>2. T # {} BY <1>6
  <2> HIDE DEF T
  <2>3. Cardinality(T) \in Nat /\ Cardinality(T) # 0
    BY <2>1, <2>2, FS_CardinalityType, FS_EmptySet
  <2> QED BY <1>3, <2>1, <2>3
<1> HIDE DEF S
<1>7. \A s \in DOMAIN Plan : Plan[s] = "process" => s \in S BY DEF S
<1> QED BY <1>2, <1>3, <1>5, <1>6, <1>7

\* A file numbered from 0 to Reruns has a name.
LEMMA NameOf ==
  ASSUME NEW b \in Batch, NEW k \in Nat, k <= Reruns PROVE <<b, k>> \in Name
BY RerunsAre DEF Name

\* F[n] is what there is to list of the first n names.
Kept(from, m) == Sorted[m][2] >= from /\ file[Sorted[m]] # NoFile
Lists(F, from) ==
  /\ F[0] = << >>
  /\ \A n \in 1 .. Len(Sorted) :
       F[n] = IF Kept(from, n) THEN Append(F[n - 1], Sorted[n]) ELSE F[n - 1]

\* There is such an F, and its last value is the listing.
LEMMA ListingIs ==
  ASSUME NEW from PROVE \E F : Lists(F, from) /\ Listing(from) = F[Len(Sorted)]
<1> DEFINE L == Len(Sorted)
           Rule(h) == [n \in 0 .. L |->
                         IF n = 0 THEN << >>
                         ELSE IF Sorted[n][2] >= from /\ file[Sorted[n]] # NoFile
                         THEN Append(h[n - 1], Sorted[n]) ELSE h[n - 1]]
           upto == CHOOSE h : h = Rule(h)
           V == Seq(Name)
           More(n, p) == IF n = 0 THEN << >>
                         ELSE IF n \in 1 .. L /\ Kept(from, n)
                         THEN Append(p[n - 1], Sorted[n]) ELSE p[n - 1]
           G == [n \in Nat |-> [p \in [0 .. n - 1 -> V] |-> More(n, p)]]
<1>1. L \in Nat /\ \A n \in 1 .. L : Sorted[n] \in Name BY SortedAssumption
<1>2. Listing(from) = upto[L] BY DEF Listing
<1>3. Yields(G, V)
  <2> SUFFICES ASSUME NEW n \in Nat, NEW p \in [0 .. n - 1 -> V] PROVE More(n, p) \in V
    BY DEF Yields
  <2>1. CASE n = 0 BY <2>1
  <2>2. CASE n # 0
    <3>1. n - 1 \in 0 .. n - 1 BY <2>2
    <3>2. p[n - 1] \in V BY <3>1
    <3>3. \A e \in Name : Append(p[n - 1], e) \in V BY <3>2
    <3> QED BY <1>1, <2>2, <3>2, <3>3
  <2> QED BY <2>1, <2>2
<1> HIDE DEF V
<1>4. PICK f \in [Nat -> V] : Solves(f, G)
  <2> HIDE DEF G
  <2> QED BY <1>3, Recursion
<1>5. ASSUME NEW n \in 0 .. L
      PROVE  f[n] = IF n = 0 THEN << >>
                    ELSE IF Kept(from, n) THEN Append(f[n - 1], Sorted[n]) ELSE f[n - 1]
  <2>1. n \in Nat BY <1>1
  <2>2. Initial(f, n) \in [0 .. n - 1 -> V] BY <2>1, InitialType
  <2>3. G[n][Initial(f, n)] = More(n, Initial(f, n)) BY <2>1, <2>2
  <2> HIDE DEF G
  <2>4. f[n] = More(n, Initial(f, n)) BY <1>4, <2>1, <2>3 DEF Solves
  <2>5. CASE n = 0 BY <2>4, <2>5
  <2>6. CASE n # 0
    <3>1. n - 1 \in 0 .. n - 1 /\ n \in 1 .. L BY <1>1, <2>1, <2>6
    <3>2. Initial(f, n)[n - 1] = f[n - 1] BY <2>1, <3>1, InitialAt
    <3> QED BY <2>4, <2>6, <3>1, <3>2
  <2> QED BY <2>5, <2>6
<1> DEFINE h == [n \in 0 .. L |-> f[n]]
<1>6. h = Rule(h)
  <2>1. \A n \in 0 .. L : n # 0 => n - 1 \in 0 .. L /\ h[n - 1] = f[n - 1] BY <1>1
  <2>2. \A n \in 0 .. L :
          h[n] = IF n = 0 THEN << >>
                 ELSE IF Sorted[n][2] >= from /\ file[Sorted[n]] # NoFile
                 THEN Append(h[n - 1], Sorted[n]) ELSE h[n - 1]
    BY <1>5, <2>1 DEF Kept
  <2> QED BY <2>2
<1>7. upto = Rule(upto)
  <2> HIDE DEF Rule, h
  <2> QED BY <1>6
<1>8. Lists(upto, from)
  <2> HIDE DEF upto
  <2>1. 0 \in 0 .. L /\ \A n \in 1 .. L : n \in 0 .. L /\ n # 0 BY <1>1
  <2>2. upto[0] = << >> BY <1>7, <2>1
  <2>3. \A n \in 1 .. L :
          upto[n] = IF Sorted[n][2] >= from /\ file[Sorted[n]] # NoFile
                    THEN Append(upto[n - 1], Sorted[n]) ELSE upto[n - 1]
    BY <1>7, <2>1
  <2> QED BY <2>2, <2>3 DEF Lists, Kept
<1> HIDE DEF upto
<1> QED BY <1>2, <1>8

\* s has the first n names that there is a file for, each once.
Collects(s, from, n) ==
  /\ s \in Seq(Name)
  /\ \A k \in DOMAIN s : \E m \in 1 .. n : s[k] = Sorted[m] /\ Kept(from, m)
  /\ \A m \in 1 .. n : Kept(from, m) => \E k \in DOMAIN s : s[k] = Sorted[m]
  /\ \A j, k \in DOMAIN s : s[j] = s[k] => j = k

\* One more name.
LEMMA CollectsOn ==
  ASSUME NEW from, NEW n \in Nat, n < Len(Sorted), NEW s, Collects(s, from, n)
  PROVE  Collects(IF Kept(from, n + 1) THEN Append(s, Sorted[n + 1]) ELSE s, from, n + 1)
<1>1. /\ n + 1 \in DOMAIN Sorted /\ Sorted[n + 1] \in Name
      /\ \A m \in 1 .. n : m \in DOMAIN Sorted /\ m # n + 1
      /\ \A m \in 1 .. n + 1 : m \in 1 .. n \/ m = n + 1
      /\ 1 .. n \subseteq 1 .. n + 1 /\ n + 1 \in 1 .. n + 1
  BY SortedAssumption
<1>2. CASE ~ Kept(from, n + 1) BY <1>1, <1>2 DEF Collects
<1>3. CASE Kept(from, n + 1)
  <2>1. PICK e : e = Sorted[n + 1] OBVIOUS
  <2>2. PICK t : t = Append(s, e) OBVIOUS
  <2>3. /\ s \in Seq(Name) /\ Len(s) \in Nat /\ DOMAIN s = 1 .. Len(s) /\ e \in Name
    BY <1>1, <2>1 DEF Collects
  <2>4. /\ t \in Seq(Name) /\ Len(t) = Len(s) + 1
        /\ \A k \in DOMAIN s : t[k] = s[k]
        /\ t[Len(s) + 1] = e
    BY <2>2, <2>3
  <2>5. DOMAIN t = DOMAIN s \cup {Len(s) + 1} BY <2>3, <2>4
  <2>6. \A k \in DOMAIN s : s[k] # e
    <3> SUFFICES ASSUME NEW k \in DOMAIN s, s[k] = e PROVE FALSE OBVIOUS
    <3>1. PICK m \in 1 .. n : s[k] = Sorted[m] BY DEF Collects
    <3> QED BY <1>1, <2>1, <3>1, SortedAssumption DEF IsInjective
  <2>7. \A k \in DOMAIN t : \E m \in 1 .. n + 1 : t[k] = Sorted[m] /\ Kept(from, m)
    BY <1>1, <1>3, <2>1, <2>4, <2>5 DEF Collects
  <2>8. \A m \in 1 .. n + 1 : Kept(from, m) => \E k \in DOMAIN t : t[k] = Sorted[m]
    <3> SUFFICES ASSUME NEW m \in 1 .. n + 1, Kept(from, m)
                 PROVE  \E k \in DOMAIN t : t[k] = Sorted[m]
      OBVIOUS
    <3>1. CASE m = n + 1
      <4>1. t[Len(s) + 1] = Sorted[m] /\ Len(s) + 1 \in DOMAIN t
        BY <2>1, <2>4, <2>5, <3>1
      <4> QED BY <4>1
    <3>2. CASE m \in 1 .. n
      <4>1. PICK k \in DOMAIN s : s[k] = Sorted[m] BY <3>2 DEF Collects
      <4>2. t[k] = Sorted[m] /\ k \in DOMAIN t BY <2>4, <2>5, <4>1
      <4> QED BY <4>2
    <3> QED BY <1>1, <3>1, <3>2
  <2>9. \A j, k \in DOMAIN t : t[j] = t[k] => j = k
    BY <2>4, <2>5, <2>6 DEF Collects
  <2>10. Collects(t, from, n + 1) BY <2>4, <2>7, <2>8, <2>9 DEF Collects
  <2> QED BY <1>3, <2>1, <2>2, <2>10
<1> QED BY <1>2, <1>3

\* A listing has the names of the files that there are, each once.
LEMMA ListingHas ==
  ASSUME NEW from
  PROVE  /\ Listing(from) \in Seq(Name)
         /\ \A k \in DOMAIN Listing(from) :
              Listing(from)[k][2] >= from /\ file[Listing(from)[k]] # NoFile
         /\ \A out \in Name : out[2] >= from /\ file[out] # NoFile =>
              \E k \in DOMAIN Listing(from) : Listing(from)[k] = out
         /\ \A j, k \in DOMAIN Listing(from) : Listing(from)[j] = Listing(from)[k] => j = k
<1>1. PICK F : Lists(F, from) /\ Listing(from) = F[Len(Sorted)] BY ListingIs
<1>2. PICK l : l = Len(Sorted) OBVIOUS
<1>3. l \in Nat BY <1>2, SortedAssumption
<1> DEFINE P == {n \in Nat : Collects(F[n], from, n)}
<1>4. \A n \in 0 .. l : n \in P
  <2>1. 0 \in P
    <3>1. F[0] = << >> /\ 1 .. 0 = {} BY <1>1 DEF Lists
    <3>2. << >> \in Seq(Name) /\ DOMAIN << >> = {} OBVIOUS
    <3> QED BY <3>1, <3>2 DEF Collects
  <2>2. ASSUME NEW n \in 0 .. l - 1, n \in P PROVE n + 1 \in P
    <3>1. n \in Nat /\ n < Len(Sorted) /\ n + 1 \in 1 .. Len(Sorted) /\ (n + 1) - 1 = n
      BY <1>2, <1>3
    <3>2. F[n + 1] = IF Kept(from, n + 1) THEN Append(F[n], Sorted[n + 1]) ELSE F[n]
      BY <1>1, <3>1 DEF Lists
    <3>3. Collects(F[n + 1], from, n + 1) BY <2>2, <3>1, <3>2, CollectsOn
    <3> QED BY <3>1, <3>3
  <2> HIDE DEF P
  <2> QED BY <1>3, <2>1, <2>2, UptoInduction
<1>5. Collects(Listing(from), from, l)
  <2>1. l \in 0 .. l BY <1>3
  <2> QED BY <1>1, <1>2, <1>4, <2>1
<1>6. \A out \in Name : \E m \in 1 .. l : Sorted[m] = out
  <2>1. DOMAIN Sorted = 1 .. l BY <1>2, SortedAssumption
  <2> QED BY <2>1, SortedAssumption
<1> QED BY <1>5, <1>6 DEF Collects, Kept

\* What is parsed of the files that there are.
LEMMA OutputsAre ==
  /\ Outputs \in Seq(Batch \X Nat)
  /\ \A n \in DOMAIN Outputs : \E out \in Name :
       file[out] # NoFile /\ Outputs[n] = <<out[1], out[2] + 1>>
  /\ \A out \in Name : file[out] # NoFile =>
       \E n \in DOMAIN Outputs : Outputs[n] = <<out[1], out[2] + 1>>
<1>1. PICK l : l = Listing(0) OBVIOUS
<1>2. \A out \in Name : out[2] >= 0 /\ out[1] \in Batch /\ out[2] \in Nat BY RerunsAre DEF Name
<1>3. /\ l \in Seq(Name)
      /\ \A k \in DOMAIN l : l[k] \in Name /\ file[l[k]] # NoFile
      /\ \A out \in Name : file[out] # NoFile => \E k \in DOMAIN l : l[k] = out
  BY <1>1, <1>2, ListingHas
<1>4. Outputs = [n \in DOMAIN l |-> <<l[n][1], l[n][2] + 1>>] BY <1>1 DEF Outputs
<1>5. \A n \in DOMAIN l : <<l[n][1], l[n][2] + 1>> \in Batch \X Nat BY <1>2, <1>3
<1>6. Outputs \in Seq(Batch \X Nat)
  <2>1. DOMAIN l = 1 .. Len(l) /\ Len(l) \in Nat BY <1>3
  <2>2. Outputs \in [1 .. Len(l) -> Batch \X Nat] BY <1>4, <1>5, <2>1
  <2> QED BY <2>1, <2>2
<1> QED BY <1>3, <1>4, <1>6

\* The logs that are processed at first.
LEMMA OutputsFirst ==
  ASSUME \A b \in Batch : file[<<b, 0>>] # NoFile,
         \A out \in Name : out[2] > 0 => file[out] = NoFile, Reruns >= 1
  PROVE  /\ Outputs \in Seq(Name) /\ \A n \in DOMAIN Outputs : Outputs[n][2] = 1
         /\ \A b \in Batch : \E n \in DOMAIN Outputs : Outputs[n] = <<b, 1>>
<1>1. \A b \in Batch : <<b, 0>> \in Name /\ <<b, 1>> \in Name
  <2>1. 0 \in Nat /\ 1 \in Nat /\ 0 <= Reruns /\ 1 <= Reruns BY RerunsAre
  <2> QED BY <2>1, NameOf
<1>2. ASSUME NEW n \in DOMAIN Outputs
      PROVE  Outputs[n] \in Name /\ Outputs[n][2] = 1
  <2>1. PICK out \in Name : file[out] # NoFile /\ Outputs[n] = <<out[1], out[2] + 1>>
    BY OutputsAre
  <2>2. out[2] \in Nat /\ out[1] \in Batch BY RerunsAre DEF Name
  <2>3. ~ (out[2] > 0) BY <2>1
  <2>4. out[2] + 1 = 1 BY <2>2, <2>3
  <2>5. Outputs[n] = <<out[1], 1>> BY <2>1, <2>4
  <2>6. <<out[1], 1>> \in Name /\ <<out[1], 1>>[2] = 1 BY <1>1, <2>2
  <2> QED BY <2>5, <2>6
<1>3. Outputs \in Seq(Name)
  <2>1. Outputs \in Seq(Batch \X Nat) BY OutputsAre
  <2>2. DOMAIN Outputs = 1 .. Len(Outputs) /\ Len(Outputs) \in Nat
        /\ Outputs = [n \in 1 .. Len(Outputs) |-> Outputs[n]]
    BY <2>1
  <2>3. Outputs \in [1 .. Len(Outputs) -> Name] BY <1>2, <2>2
  <2> QED BY <2>2, <2>3
<1>4. \A b \in Batch : \E n \in DOMAIN Outputs : Outputs[n] = <<b, 0 + 1>>
  BY <1>1, OutputsAre
<1> QED BY <1>2, <1>3, <1>4

\* The second time the samples of the first are parsed too.
LEMMA OutputsAgain ==
  ASSUME Reruns >= 1, \A e \in Batch : file[<<e, 1>>] # NoFile
  PROVE  /\ Outputs \in Seq(Batch \X Nat)
         /\ \A b \in Batch : \E n \in DOMAIN Outputs : Outputs[n] = <<b, 2>>
<1>1. \A b \in Batch : <<b, 1>> \in Name BY RerunsAre, NameOf
<1>2. \A b \in Batch : \E n \in DOMAIN Outputs : Outputs[n] = <<b, 1 + 1>>
  BY <1>1, OutputsAre
<1> QED BY <1>2, OutputsAre

\* A quotient of numbers is a number.
LEMMA DivNat ==
  ASSUME NEW q \in Nat, q > 0, NEW a \in Nat PROVE a \div q \in Nat
<1> DEFINE d == a \div q
           r == a % q
<1>1. d \in Int /\ r \in Int /\ r < q /\ a = q * d + r BY DivType, DivMod, ModType
<1> HIDE DEF d, r
<1>2. ASSUME d <= -1 PROVE FALSE
  <2>1. q * d <= - q BY <1>1, <1>2
  <2> QED BY <1>1, <2>1
<1> QED BY <1>1, <1>2 DEF d

\* One that is below m times q is below m.
LEMMA DivBelow ==
  ASSUME NEW q \in Nat, q > 0, NEW m \in Nat, NEW a \in Nat, a < m * q
  PROVE  a \div q \in 0 .. m - 1
<1> DEFINE d == a \div q
           r == a % q
<1>1. d \in Nat /\ r \in Int /\ 0 <= r /\ a = q * d + r
  BY DivNat, DivType, DivMod, ModType
<1> HIDE DEF d, r
<1>2. ASSUME d >= m PROVE FALSE
  <2>1. d - m \in Nat BY <1>1, <1>2
  <2>2. q * (d - m) >= 0 /\ q * d = m * q + q * (d - m) BY <1>1, <2>1
  <2>3. q * d \in Int /\ m * q \in Int /\ q * (d - m) \in Int BY <1>1, <2>1
  <2> QED BY <1>1, <2>2, <2>3
<1> QED BY <1>1, <1>2 DEF d

\* Item k of the e-th of m pieces of the length q.
LEMMA PieceAt ==
  ASSUME NEW m \in Nat, NEW q \in Nat, NEW e \in 1 .. m
  PROVE  /\ (e - 1) * q \in 0 .. m * q - q
         /\ \A k \in 1 .. q : /\ (e - 1) * q + k \in 1 .. m * q
                              /\ 1 + (((e - 1) * q + k) - 1) \div q = e
                              /\ 1 + ((((e - 1) * q + k) - 1) % q) = k
<1> DEFINE a == (e - 1) * q
           c == (m - e) * q
           f == m * q
<1>1. e - 1 \in Nat /\ m - e \in Nat OBVIOUS
<1>2. a \in Nat /\ c \in Nat /\ f \in Nat /\ f = a + q + c /\ a = q * (e - 1) BY <1>1
<1>3. ASSUME NEW k \in 1 .. q
      PROVE  /\ (a + k) - 1 = q * (e - 1) + (k - 1) /\ q > 0
             /\ k - 1 \in Int /\ 0 <= k - 1 /\ k - 1 < q /\ a + k \in 1 .. f
  <2> HIDE DEF a, c, f
  <2>1. (a + k) - 1 = a + (k - 1) BY <1>2
  <2> QED BY <1>2, <2>1
<1>4. ASSUME NEW k \in 1 .. q
      PROVE  1 + ((a + k) - 1) \div q = e /\ 1 + (((a + k) - 1) % q) = k
  <2>1. /\ (q * (e - 1) + (k - 1)) % q = k - 1
        /\ (q * (e - 1) + (k - 1)) \div q = e - 1
    BY <1>1, <1>3, ModUnique
  <2>2. 1 + (k - 1) = k /\ 1 + (e - 1) = e OBVIOUS
  <2> HIDE DEF a
  <2> QED BY <1>3, <2>1, <2>2
<1>5. a \in 0 .. f - q
  <2> HIDE DEF a, c, f
  <2> QED BY <1>2
<1> QED BY <1>3, <1>4, <1>5

\* The contents of a file are not what stands for no file.
LEMMA ItemsAreThere ==
  /\ \A f \in Seq(Item) : f # NoFile
  /\ \A b \in Batch : FullSamples(b) \in Seq(Item) /\ FullSamples(b) # NoFile
  /\ data["sk"] \in Key => \A b \in Batch : FullLog(b) # NoFile
<1> DEFINE X == (Nat \X Nat \X Nat) \cup (Nat \X Nat) \cup {Torn, Garbage}
<1>1. NoFile \notin Seq(X) BY PlanAssumption
<1>2. Key \subseteq Nat /\ Batch \subseteq Nat BY KeysAreNumbers DEF Batch
<1>3. Item \subseteq X BY <1>2 DEF Item
<1>4. ASSUME NEW f \in Seq(Item) PROVE f # NoFile
  <2>1. f \in Seq(X)
    <3> HIDE DEF X
    <3>1. Len(f) \in Nat /\ DOMAIN f = 1 .. Len(f) /\ \A n \in 1 .. Len(f) : f[n] \in X
      BY <1>3
    <3>2. f = [n \in 1 .. Len(f) |-> f[n]] BY SeqAt
    <3> QED BY <3>1, <3>2
  <2> QED BY <1>1, <2>1
<1> HIDE DEF X
<1>5. ASSUME NEW b \in Batch PROVE FullSamples(b) \in Seq(Item)
  <2>1. BatchSize \in Nat /\ \A n \in 1 .. BatchSize : <<b, n>> \in Item
    BY PlanAssumption DEF Item
  <2>2. FullSamples(b) \in [1 .. BatchSize -> Item] BY <2>1 DEF FullSamples
  <2> QED BY <2>1, <2>2
<1>6. ASSUME data["sk"] \in Key, NEW b \in Batch PROVE FullLog(b) \in Seq(Item)
  <2> DEFINE e == data["sk"]
  <2>1. BatchSize \in Nat /\ e \in Key BY <1>6, PlanAssumption
  <2>2. FullLog(b) = [n \in 1 .. BatchSize |-> <<b, n, e>>] BY DEF FullLog
  <2> HIDE DEF e
  <2>3. \A n \in 1 .. BatchSize : <<b, n, e>> \in Item BY <2>1 DEF Item
  <2>4. FullLog(b) \in [1 .. BatchSize -> Item] BY <2>2, <2>3
  <2> QED BY <2>1, <2>4
<1> QED BY <1>4, <1>5, <1>6

\* Each batch once, in whatever order: there are as many as batches.
LEMMA EachOnce ==
  ASSUME NEW l \in Seq(Name), \A n \in DOMAIN l : l[n][2] = 1,
         \A j, k \in DOMAIN l : l[j] = l[k] => j = k,
         \A b \in Batch : \E k \in DOMAIN l : l[k] = <<b, 1>>
  PROVE  Len(l) = NBatches
<1> DEFINE B == [n \in DOMAIN l |-> l[n][1]]
<1>1. /\ NBatches \in Nat /\ Batch = 1 .. NBatches
      /\ Len(l) \in Nat /\ DOMAIN l = 1 .. Len(l)
  BY PlanAssumption DEF Batch
<1>2. \A n \in DOMAIN l : l[n] = <<l[n][1], 1>> /\ l[n][1] \in Batch
  <2>1. \A n \in DOMAIN l : l[n] \in Name OBVIOUS
  <2> QED BY <2>1 DEF Name
<1>3. B \in Bijection(DOMAIN l, Batch)
  <2>1. B \in [DOMAIN l -> Batch] BY <1>2
  <2>2. \A j, k \in DOMAIN l : B[j] = B[k] => j = k BY <1>2
  <2>3. \A b \in Batch : \E k \in DOMAIN l : B[k] = b
    <3> SUFFICES ASSUME NEW b \in Batch PROVE \E k \in DOMAIN l : B[k] = b OBVIOUS
    <3>1. PICK k \in DOMAIN l : l[k] = <<b, 1>> OBVIOUS
    <3> QED BY <3>1
  <2> HIDE DEF B
  <2> QED BY <2>1, <2>2, <2>3 DEF Bijection, Injection, Surjection, IsInjective
<1>4. \A n \in Nat : IsFiniteSet(1 .. n) /\ Cardinality(1 .. n) = n
  <2> SUFFICES ASSUME NEW n \in Nat
               PROVE  IsFiniteSet(1 .. n) /\ Cardinality(1 .. n) = n
    OBVIOUS
  <2>1. 1 \in Int /\ n \in Int /\ (IF 1 > n THEN 0 ELSE n - 1 + 1) = n OBVIOUS
  <2> QED BY <2>1, FS_Interval
<1>5. IsFiniteSet(DOMAIN l) /\ Cardinality(DOMAIN l) = Len(l) BY <1>1, <1>4
<1>6. Cardinality(Batch) = NBatches BY <1>1, <1>4
<1>7. ExistsBijection(DOMAIN l, Batch) BY <1>3 DEF ExistsBijection
<1>8. Cardinality(Batch) = Cardinality(DOMAIN l) BY <1>5, <1>7, FS_Bijection
<1> QED BY <1>5, <1>6, <1>8

\* The files of samples, one after another in whatever order, are all there
\* should be.
LEMMA AllTogether ==
  ASSUME NEW l \in Seq(Name), \A n \in DOMAIN l : l[n][2] = 1,
         \A j, k \in DOMAIN l : l[j] = l[k] => j = k,
         \A b \in Batch : \E k \in DOMAIN l : l[k] = <<b, 1>>,
         \A b \in Batch : file[<<b, 1>>] = FullSamples(b)
  PROVE  Complete(FlattenSeq([n \in DOMAIN l |-> file[l[n]]]))
<1>0. /\ NBatches \in Nat /\ BatchSize \in Nat /\ DOMAIN l = 1 .. NBatches
      /\ Len(l) = NBatches
  BY EachOnce, PlanAssumption
<1>1. PICK q, m : q = BatchSize /\ m = NBatches OBVIOUS
<1>2. /\ q \in Nat /\ m \in Nat /\ m * q \in Nat
      /\ \A n \in 1 .. m : l[n] = <<l[n][1], 1>> /\ l[n][1] \in Batch
  <2>1. \A n \in 1 .. m : l[n] \in Name BY <1>0, <1>1
  <2> QED BY <1>0, <1>1, <2>1 DEF Name
<1>3. PICK s : s = [n \in 1 .. m |-> FullSamples(l[n][1])] OBVIOUS
<1>4. [n \in DOMAIN l |-> file[l[n]]] = s
  <2>1. \A n \in 1 .. m : file[l[n]] = FullSamples(l[n][1]) BY <1>2
  <2> QED BY <1>0, <1>1, <1>3, <2>1
<1>5. s \in [1 .. m -> Seq(Item)] BY <1>2, <1>3, ItemsAreThere
<1>6. PICK g : g = [k \in 1 .. m * q |-> <<l[1 + (k - 1) \div q][1], 1 + ((k - 1) % q)>>]
  OBVIOUS
<1>7. g \in [1 .. m * q -> Item]
  <2> SUFFICES ASSUME NEW k \in 1 .. m * q
               PROVE  <<l[1 + (k - 1) \div q][1], 1 + ((k - 1) % q)>> \in Item
    BY <1>6
  <2>1. q > 0
    <3>1. q = 0 => m * q = 0 BY <1>2
    <3> QED BY <1>2, <3>1
  <2>2. k - 1 \in Nat /\ k - 1 < m * q BY <1>2
  <2>3. (k - 1) \div q \in 0 .. m - 1 BY <1>2, <2>1, <2>2, DivBelow
  <2>4. (k - 1) % q \in Nat BY <1>2, <2>1, <2>2
  <2>5. 1 + (k - 1) \div q \in 1 .. m BY <1>2, <2>3
  <2>6. l[1 + (k - 1) \div q][1] \in Batch BY <1>2, <2>5
  <2> QED BY <2>4, <2>6 DEF Item
<1>8. ASSUME NEW e \in 1 .. m, NEW k \in 1 .. q
      PROVE  g[(e - 1) * q + k] = <<l[e][1], k>>
  <2>1. PICK j : j = (e - 1) * q + k OBVIOUS
  <2>2. j \in 1 .. m * q /\ 1 + (j - 1) \div q = e /\ 1 + ((j - 1) % q) = k
    BY <1>2, <2>1, PieceAt
  <2>3. g[j] = <<l[e][1], k>> BY <1>6, <2>2
  <2> QED BY <2>1, <2>3
<1>9. Blocks(s, g, m, q)
  <2> SUFFICES ASSUME NEW e \in 1 .. m
               PROVE  /\ Len(s[e]) = q
                      /\ \A k \in 1 .. q : s[e][k] = g[(e - 1) * q + k]
    BY DEF Blocks
  <2>1. s[e] = [k \in 1 .. q |-> <<l[e][1], k>>] BY <1>1, <1>3 DEF FullSamples
  <2>2. Len(s[e]) = q BY <1>2, <2>1
  <2> QED BY <1>8, <2>1, <2>2
<1>10. FlattenSeq(s) = g BY <1>2, <1>5, <1>7, <1>9, FlattenBlocks
<1>11. g \in Seq(Item) /\ Len(g) = m * q BY <1>2, <1>7
<1>12. g # NoFile BY <1>11, ItemsAreThere
<1>13. ASSUME NEW b \in Batch
       PROVE  \E at \in 0 .. Len(g) - q : \A i \in 1 .. q : g[at + i] = <<b, i>>
  <2>1. PICK e \in 1 .. m : l[e] = <<b, 1>> BY <1>0, <1>1
  <2>2. l[e][1] = b BY <2>1
  <2>3. (e - 1) * q \in 0 .. m * q - q BY <1>2, PieceAt
  <2>4. \A i \in 1 .. q : g[(e - 1) * q + i] = <<b, i>> BY <1>8, <2>2
  <2> QED BY <1>11, <2>3, <2>4
<1>14. Complete(g) BY <1>1, <1>11, <1>12, <1>13 DEF Complete
<1> QED BY <1>4, <1>10, <1>14

-----------------------------------------------------------------------------
\* A program that runs has been forked, and touches only its own file.
LEMMA ProgramEffect ==
  ASSUME NEW out \in Name, Program(out)
  PROVE  /\ proc[out].at # "none"
         /\ UNCHANGED <<stage, keyVars, todo, status, raw>>
         /\ \E p : proc' = [proc EXCEPT ![out] = p]
         /\ \E f : file' = [file EXCEPT ![out] = f] \/ file' = file
<1>0. ASSUME NEW ok, Leave(out, ok)
      PROVE  /\ UNCHANGED <<stage, keyVars, todo, status, raw>>
             /\ \E p : proc' = [proc EXCEPT ![out] = p]
  BY <1>0 DEF Leave, Pool!Finish, poolVars
<1>1. ASSUME NEW p, Goes(out, p)
      PROVE  /\ UNCHANGED <<stage, keyVars, todo, status, raw>>
             /\ \E q : proc' = [proc EXCEPT ![out] = q]
  BY <1>1 DEF Goes, poolVars
<1>2. proc[out].at # "none"
  BY DEF Program, Start, SignBlock, SignDone, SignFails, Sample, SampleTorn,
         SampleRaw, ParseShort, ParseDone, HasLine, Parses, Signs, Works
<1>3. \E f : file' = [file EXCEPT ![out] = f] \/ file' = file
  BY DEF Program, Start, SignBlock, SignDone, SignFails, Sample, SampleTorn,
         SampleRaw, ParseShort, ParseDone, Sampled
<1> QED BY <1>0, <1>1, <1>2, <1>3, ProgramEnds

\* A file of parsed samples stays.
LEMMA OthersStay ==
  ASSUME DamageInv, NEW out \in Name, Program(out), NEW g \in Name, g[2] > 1,
         file[g] # NoFile
  PROVE  file'[g] # NoFile
<1>1. DOMAIN file = Name BY DEF DamageInv
<1>2. PICK f : file' = [file EXCEPT ![out] = f] \/ file' = file BY ProgramEffect
<1>3. CASE g # out \/ file' = file BY <1>1, <1>2, <1>3
<1>4. CASE g = out /\ file' # file
  <2>1. out[2] # 0 /\ out[2] # 1 BY <1>4, NameParts, RerunsAre
  <2>2. Works(out) =>
          file[out] \in Seq(Item) /\ Append(file[out], Garbage) \in Seq(Item)
    BY <1>4, ParsingOther
  <2>3. << >> \in Seq(Item) OBVIOUS
  <2>4. \E h \in Seq(Item) : file' = [file EXCEPT ![out] = h]
    <3>1. CASE Start(out) BY <2>3, <3>1 DEF Start
    <3>2. CASE SignBlock(out) \/ SignDone(out) \/ SignFails(out) \/ Sample(out)
      BY <2>1, <3>2 DEF SignBlock, SignDone, SignFails, Signs, Sample
    <3>3. CASE SampleTorn(out) \/ SampleRaw(out)
      <4>1. Works(out) BY <3>3 DEF SampleTorn, SampleRaw, HasLine, Parses
      <4> QED BY <1>4, <2>2, <3>3, <4>1 DEF SampleTorn, SampleRaw, Sampled
    <3>4. CASE ParseShort(out)
      <4>1. Works(out) BY <3>4 DEF ParseShort, HasLine, Parses
      <4> QED BY <2>2, <3>4, <4>1, RemainsItems DEF ParseShort
    <3>5. CASE ParseDone(out) BY <1>4, <3>5 DEF ParseDone
    <3> QED BY <3>1, <3>2, <3>3, <3>4, <3>5 DEF Program
  <2> QED BY <1>1, <1>4, <2>4, ItemsAreThere
<1> QED BY <1>3, <1>4

\* What is undisturbed has been so.
LEMMA StaysDisturbed ==
  ASSUME DamageInv, FreshKeys, [Next]_vars, Undisturbed'
  PROVE  Undisturbed /\ ~ Fault
<1>1. faults \in Nat /\ faults' = 0 BY DEF FreshKeys, Undisturbed
<1>2. ~ Fault BY <1>1 DEF Fault
<1>3. faults' = faults /\ \A g \in Name : g[2] > 1 /\ file[g] # NoFile => file'[g] # NoFile
  <2>1. CASE BeginSetup \/ BeginSign \/ BeginProcess
    BY <2>1 DEF BeginSetup, BeginSign, BeginProcess, StartPool, fileVars
  <2>2. CASE Setup
    BY <1>2, <2>2 DEF Setup, OpenSk, OpenPk, SaveSk, SavePk, Save, KeygenFails,
                      MoveSk, MovePk, Move, Keygen, fileVars
  <2>3. CASE Fork \/ Exit \/ EndSign \/ EndProcess
    BY <2>3 DEF Fork, Exit, EndSign, EndProcess, fileVars
  <2>4. ASSUME NEW out \in Name, Program(out) \/ Mishap(out)
        PROVE  /\ faults' = faults
               /\ \A g \in Name : g[2] > 1 /\ file[g] # NoFile => file'[g] # NoFile
    <3>1. Program(out) BY <1>2, <2>4, MishapFails
    <3>2. faults' = faults \/ Fault BY <3>1, ProgramKeeps
    <3> QED BY <1>2, <3>1, <3>2, OthersStay
  <2>5. CASE UNCHANGED vars BY <2>5 DEF vars, fileVars
  <2> QED BY <2>1, <2>2, <2>3, <2>4, <2>5 DEF Next, Script
<1> QED BY <1>1, <1>2, <1>3 DEF Undisturbed, FirstTime

-----------------------------------------------------------------------------
\* A name is the pair of the two.
LEMMA NameIs ==
  ASSUME NEW out \in Name
  PROVE  out = <<out[1], out[2]>> /\ out[1] \in Batch /\ out[2] \in Nat
BY RerunsAre DEF Name

\* A program of the pool that goes on.
LEMMA PooledGoes ==
  ASSUME NEW kind, Pooled(kind), DOMAIN proc = Name, NEW out \in Name,
         proc[out].at # "none", NEW p, Goes(out, p)
  PROVE  /\ Pooled(kind)' /\ out \in active /\ out[2] = kind
         /\ \A o \in Name : Due(o)' <=> Due(o)
<1>1. out \in active /\ out[2] = kind BY DEF Pooled
<1>2. /\ proc' = [proc EXCEPT ![out] = p]
      /\ UNCHANGED <<todo, active, failed, status>>
  BY DEF Goes, poolVars
<1>3. Pooled(kind)' BY <1>1, <1>2 DEF Pooled
<1> QED BY <1>1, <1>2, <1>3 DEF Due, Queued

\* One that ends well.
LEMMA PooledEnds ==
  ASSUME NEW kind, Pooled(kind), DOMAIN proc = Name, NEW out \in Name,
         proc[out].at # "none", Leave(out, TRUE)
  PROVE  /\ Pooled(kind)' /\ out \in active /\ out[2] = kind /\ status = "runs"
         /\ \A o \in Name : o # out => (Due(o)' <=> Due(o))
<1>1. out \in active /\ out[2] = kind BY DEF Pooled
<1>2. /\ proc' = [proc EXCEPT ![out] = Idle]
      /\ todo' = todo /\ failed' = failed /\ status' = status
      /\ active' = active \ {out}
  BY <1>1 DEF Leave, Pool!Finish
<1>3. status = "runs" BY <1>1 DEF Pooled
<1>4. Pooled(kind)' BY <1>1, <1>2, <1>3 DEF Pooled, Idle
<1> QED BY <1>1, <1>2, <1>3, <1>4 DEF Due, Queued

\* A sequence is its first item and then the others.
LEMMA HeadAndTail ==
  ASSUME NEW X, NEW u \in Seq(X), u # << >>
  PROVE  /\ Head(u) = u[1] /\ 1 \in DOMAIN u /\ Head(u) \in X
         /\ Tail(u) \in Seq(X)
         /\ \A n \in DOMAIN Tail(u) : n + 1 \in DOMAIN u /\ Tail(u)[n] = u[n + 1]
         /\ \A n \in DOMAIN u : n # 1 => n - 1 \in DOMAIN Tail(u)
                                         /\ Tail(u)[n - 1] = u[n]
<1>1. Len(u) \in Nat /\ DOMAIN u = 1 .. Len(u) /\ Len(u) > 0 OBVIOUS
<1>2. /\ Tail(u) \in Seq(X) /\ Len(Tail(u)) = Len(u) - 1
      /\ \A n \in 1 .. Len(u) - 1 : Tail(u)[n] = u[n + 1]
  BY <1>1
<1>3. DOMAIN Tail(u) = 1 .. Len(u) - 1 BY <1>1, <1>2
<1>4. Head(u) = u[1] /\ 1 \in DOMAIN u /\ Head(u) \in X BY <1>1
<1>5. ASSUME NEW n \in DOMAIN u, n # 1
      PROVE  n - 1 \in 1 .. Len(u) - 1 /\ (n - 1) + 1 = n
  BY <1>1, <1>5
<1>6. \A n \in 1 .. Len(u) - 1 : n + 1 \in DOMAIN u BY <1>1
<1> QED BY <1>2, <1>3, <1>4, <1>5, <1>6

\* The loop of a script starts one more.
LEMMA PooledForks ==
  ASSUME NEW kind, Pooled(kind), DOMAIN proc = Name, Fork
  PROVE  /\ Pooled(kind)' /\ UNCHANGED <<file, raw, status, data, stage>>
         /\ \A o \in Name : Due(o) => Due(o)'
         /\ \A o \in Name : Works(o)' => Works(o) /\ proc'[o] = proc[o]
<1> DEFINE h == Head(todo)
<1>1. /\ status = "runs" /\ todo # << >> /\ todo' = Tail(todo)
      /\ active' = active \cup {h} /\ failed' = failed /\ status' = status
      /\ proc' = [proc EXCEPT ![h] = [Idle EXCEPT !.at = "forked"]]
      /\ UNCHANGED <<file, raw, data, stage>>
  BY DEF Fork, Pool!Fork, keyVars
<1>2. todo \in Seq(Name) /\ \A n \in DOMAIN todo : todo[n][2] = kind BY DEF Pooled
<1>3. /\ h = todo[1] /\ 1 \in DOMAIN todo /\ h \in Name /\ h[2] = kind
      /\ Tail(todo) \in Seq(Name)
      /\ \A n \in DOMAIN Tail(todo) : n + 1 \in DOMAIN todo /\ Tail(todo)[n] = todo[n + 1]
      /\ \A n \in DOMAIN todo : n # 1 => n - 1 \in DOMAIN Tail(todo)
                                         /\ Tail(todo)[n - 1] = todo[n]
  BY <1>1, <1>2, HeadAndTail
<1> DEFINE q == [Idle EXCEPT !.at = "forked"]
<1>4. q.at = "forked" BY DEF Idle
<1> HIDE DEF h, q
<1>5. proc' = [proc EXCEPT ![h] = q] BY <1>1 DEF q
<1>6. \A o \in Name : proc'[o] = IF o = h THEN q ELSE proc[o] BY <1>5
<1>7. ASSUME NEW o \in Name, proc'[o].at # "none"
      PROVE  o \in active' /\ o[2] = kind
  BY <1>1, <1>3, <1>6, <1>7 DEF Pooled
<1>8. Pooled(kind)'
  <2>1. failed' = {} /\ todo' \in Seq(Name) /\ status' = "runs"
    BY <1>1, <1>3 DEF Pooled
  <2>2. \A n \in DOMAIN todo' : todo'[n][2] = kind BY <1>1, <1>2, <1>3
  <2> QED BY <1>7, <2>1, <2>2 DEF Pooled
<1>9. ASSUME NEW o \in Name, Due(o) PROVE Due(o)'
  <2>1. CASE o \in active BY <1>1, <2>1 DEF Due
  <2>2. CASE Queued(o)
    <3>1. PICK n \in DOMAIN todo : todo[n] = o BY <2>2 DEF Queued
    <3>2. CASE n = 1 BY <1>1, <1>3, <3>1, <3>2 DEF Due
    <3>3. CASE n # 1 BY <1>1, <1>3, <3>1, <3>3 DEF Due, Queued
    <3> QED BY <3>2, <3>3
  <2> QED BY <1>9, <2>1, <2>2 DEF Due
<1>10. \A o \in Name : Works(o)' => Works(o) /\ proc'[o] = proc[o]
  BY <1>4, <1>6 DEF Works
<1> QED BY <1>1, <1>8, <1>9, <1>10
-----------------------------------------------------------------------------
(* The programs of an undisturbed script *)

\* Once anything but the setup has been started, the keys are there.
LEMMA KeysThere ==
  ASSUME DamageInv, FreshKeys, faults = 0, ~ Preparing
  PROVE  step = "off" /\ data["sk"] = data["pk"] /\ data["sk"] \in Key
<1>1. step = "off" BY DEF DamageInv
<1>2. stage \in Nat BY DEF DamageInv, KeyInv
<1>3. PICK s \in 1 .. stage : TRUE BY DEF Preparing
<1>4. stage > 0 BY <1>2, <1>3
<1> QED BY <1>1, <1>4 DEF FreshKeys

\* eht_siggen signs its batch.
LEMMA SignProgram ==
  ASSUME DamageInv, FreshKeys, faults = 0, ~ Fault, ~ Preparing, SignInv,
         NEW out \in Name, Program(out)
  PROVE  SignInv'
<1>0. /\ DOMAIN proc = Name /\ DOMAIN file = Name /\ Pooled(0)
      /\ data["sk"] \in Key /\ lost = {}
  BY KeysThere DEF DamageInv, SignInv, FreshKeys
<1>1. out \in active /\ out[2] = 0 /\ proc[out].at # "none"
  BY <1>0, ProgramEffect DEF Pooled
<1>2. out = <<out[1], 0>> /\ out[1] \in Batch BY <1>1, NameIs
<1>3. data' = data BY ProgramEffect DEF keyVars
<1>4. \A b \in Batch : FullLog(b)' = FullLog(b) BY <1>3 DEF FullLog
<1>5. \A o \in Name : file'[o] = file[o] \/ o = out
  BY <1>0, ProgramEffect
<1>6. \A o \in Name : o[2] > 0 => file'[o] = NoFile BY <1>1, <1>5 DEF SignInv
<1>7. \A b \in Batch : <<b, 0>> \in Name BY RerunsAre, NameOf
<1>8. ASSUME NEW p, Goes(out, p) PROVE SignInv'
  <2>1. Pooled(0)' /\ \A o \in Name : Due(o)' <=> Due(o) BY <1>0, <1>1, <1>8, PooledGoes
  <2>2. out \in active' BY <1>1, <1>8 DEF Goes, poolVars
  <2>3. ASSUME NEW b \in Batch PROVE Due(<<b, 0>>)' \/ file'[<<b, 0>>] = FullLog(b)
    <3>1. CASE <<b, 0>> = out BY <2>2, <3>1 DEF Due
    <3>2. CASE <<b, 0>> # out
      <4>1. file'[<<b, 0>>] = file[<<b, 0>>] BY <1>5, <1>7, <3>2
      <4>2. Due(<<b, 0>>) \/ file[<<b, 0>>] = FullLog(b) BY DEF SignInv
      <4> QED BY <1>7, <2>1, <4>1, <4>2
    <3> QED BY <3>1, <3>2
  <2> QED BY <1>4, <1>6, <2>1, <2>3 DEF SignInv
<1>9. CASE Start(out)
  <2>1. data[IF out[2] = 0 THEN "sk" ELSE "pk"] \in Key BY <1>0, <1>1
  <2>2. \E p : Goes(out, p) BY <1>9, <2>1 DEF Start
  <2> QED BY <1>8, <2>2
<1>10. CASE SignBlock(out)
  <2>1. \E p : Goes(out, p) BY <1>10 DEF SignBlock
  <2> QED BY <1>8, <2>1
<1>11. CASE SignDone(out)
  <2>1. Leave(out, TRUE) /\ Signs(out) BY <1>11 DEF SignDone
  <2>2. PICK f : f = Logged(file[out]) \o Signed(out, BatchSize) OBVIOUS
  <2>3. file' = [file EXCEPT ![out] = f] BY <1>11, <2>2 DEF SignDone
  <2>4. f = FullLog(out[1])
    <3>1. BatchSize \in proc[out].count .. BatchSize
      <4>1. proc[out].count \in 0 .. BatchSize /\ BatchSize \in Nat
        BY <2>1, Signing, PlanAssumption
      <4> QED BY <4>1
    <3>2. Clean(out, f) /\ Len(f) = BatchSize BY <1>0, <2>1, <2>2, <3>1, SignedIsClean
    <3>3. /\ f \in Seq(Item) /\ BatchSize \in Nat /\ DOMAIN f = 1 .. BatchSize
          /\ \A n \in DOMAIN f : LogPlace(out, n, f[n])
      BY <3>2, PlanAssumption DEF Clean
    <3>4. \A n \in 1 .. BatchSize : f[n] = <<out[1], n, data["sk"]>>
      BY <1>0, <3>3 DEF LogPlace, IsSigned
    <3>5. f = [n \in 1 .. BatchSize |-> f[n]] BY <3>2, <3>3, SeqAt
    <3> QED BY <3>4, <3>5 DEF FullLog
  <2>5. file'[out] = FullLog(out[1]) BY <1>0, <2>3, <2>4
  <2>6. Pooled(0)' /\ \A o \in Name : o # out => (Due(o)' <=> Due(o))
    BY <1>0, <1>1, <2>1, PooledEnds
  <2>7. ASSUME NEW b \in Batch PROVE Due(<<b, 0>>)' \/ file'[<<b, 0>>] = FullLog(b)
    <3>1. CASE <<b, 0>> = out
      <4>1. b = out[1] BY <3>1
      <4> QED BY <2>5, <3>1, <4>1
    <3>2. CASE <<b, 0>> # out
      <4>1. file'[<<b, 0>>] = file[<<b, 0>>] BY <1>5, <1>7, <3>2
      <4>2. Due(<<b, 0>>) \/ file[<<b, 0>>] = FullLog(b) BY DEF SignInv
      <4> QED BY <1>7, <2>6, <3>2, <4>1, <4>2
    <3> QED BY <3>1, <3>2
  <2> QED BY <1>4, <1>6, <2>6, <2>7 DEF SignInv
<1>12. CASE SignFails(out) BY <1>12 DEF SignFails
<1>13. CASE Sample(out) \/ SampleTorn(out) \/ SampleRaw(out) \/ ParseShort(out)
              \/ ParseDone(out)
  <2>1. out[2] > 0
    BY <1>13 DEF Sample, SampleTorn, SampleRaw, ParseShort, ParseDone, HasLine, Parses
  <2> QED BY <1>1, <2>1
<1> QED BY <1>9, <1>10, <1>11, <1>12, <1>13 DEF Program

\* What eht_sigparse reads is a whole log, without a torn or a joined line.
LEMMA ReadsFull ==
  ASSUME DamageInv, FreshKeys, faults = 0, ~ Preparing, ProcessInv,
         NEW out \in Name, Works(out), out[2] = 1
  PROVE  /\ Text(out) = FullLog(out[1]) /\ Len(Text(out)) = BatchSize
         /\ HasLine(out) => Line(out) \notin {Torn, Garbage}
         /\ proc[out].count \in Nat /\ proc[out].count <= BatchSize
<1>1. data["sk"] \in Key /\ BatchSize \in Nat BY KeysThere, PlanAssumption
<1>2. out = <<out[1], 1>> /\ out[1] \in Batch BY NameIs
<1>3. Input(out) = <<out[1], 0>> BY <1>2 DEF Input
<1>4. file[Input(out)] = FullLog(out[1]) BY <1>2, <1>3 DEF ProcessInv
<1>5. Text(out) = FullLog(out[1]) BY <1>1, <1>2, <1>4, ItemsAreThere DEF Text
<1>6. Len(Text(out)) = BatchSize BY <1>1, <1>5 DEF FullLog
<1>7. Works(<<out[1], 1>>) => proc[<<out[1], 1>>].count <= BatchSize
  BY <1>2 DEF ProcessInv
<1>8. proc[out].count <= BatchSize BY <1>2, <1>7
<1>10. proc[out].count \in Nat BY Parsing
<1>11. ASSUME HasLine(out) PROVE Line(out) \notin {Torn, Garbage}
  <2> DEFINE n == proc[out].count + 1
             e == data["sk"]
  <2>1. proc[out].count < Len(Text(out)) BY <1>11 DEF HasLine
  <2>2. n \in 1 .. BatchSize BY <1>1, <1>6, <1>10, <2>1
  <2>3. Line(out) = <<out[1], n, e>> BY <1>5, <2>2 DEF Line, FullLog
  <2>4. out[1] \in Nat /\ e \in Nat /\ n \in Nat
    BY <1>1, <1>2, <2>2, KeysAreNumbers DEF Batch
  <2> HIDE DEF n, e
  <2>5. <<out[1], n, e>> \in Nat \X Nat \X Nat BY <2>4
  <2> QED BY <2>3, <2>5, PlanAssumption
<1> QED BY <1>5, <1>6, <1>8, <1>10, <1>11

\* eht_sigparse parses it.
LEMMA ProcessProgram ==
  ASSUME DamageInv, FreshKeys, faults = 0, ~ Fault, ~ Preparing, ProcessInv,
         Reruns >= 1, NEW out \in Name, Program(out)
  PROVE  ProcessInv'
<1>0. /\ DOMAIN proc = Name /\ DOMAIN file = Name /\ Pooled(1)
      /\ data["sk"] = data["pk"] /\ data["sk"] \in Key /\ BatchSize \in Nat
      /\ lost = {}
  BY KeysThere, PlanAssumption DEF DamageInv, ProcessInv, FreshKeys
<1>1. out \in active /\ out[2] = 1 /\ proc[out].at # "none"
  BY <1>0, ProgramEffect DEF Pooled
<1>2. out = <<out[1], 1>> /\ out[1] \in Batch BY <1>1, NameIs
<1>3. data' = data /\ raw' = raw /\ status' = status BY ProgramEffect DEF keyVars
<1>4. \A b \in Batch : FullLog(b)' = FullLog(b) BY <1>3 DEF FullLog
<1>5. \A o \in Name : file'[o] = file[o] \/ o = out
  BY <1>0, ProgramEffect
<1>7. \A b \in Batch : <<b, 0>> \in Name /\ <<b, 1>> \in Name BY RerunsAre, NameOf
<1>6. \A b \in Batch : file'[<<b, 0>>] = FullLog(b)
  <2> SUFFICES ASSUME NEW b \in Batch PROVE file'[<<b, 0>>] = FullLog(b) OBVIOUS
  <2>1. <<b, 0>> # out BY <1>1
  <2> QED BY <1>5, <1>7, <2>1 DEF ProcessInv
<1>8. ASSUME NEW p, Goes(out, p), p.at = "works" => p.count <= BatchSize
      PROVE  ProcessInv'
  <2>1. Pooled(1)' /\ \A o \in Name : Due(o)' <=> Due(o) BY <1>0, <1>1, <1>8, PooledGoes
  <2>2. out \in active' BY <1>1, <1>8 DEF Goes, poolVars
  <2>3. ASSUME NEW b \in Batch
        PROVE  Due(<<b, 1>>)' \/ file'[<<b, 1>>] = FullSamples(b)
    <3>1. CASE <<b, 1>> = out BY <2>2, <3>1 DEF Due
    <3>2. CASE <<b, 1>> # out
      <4>1. file'[<<b, 1>>] = file[<<b, 1>>] BY <1>5, <1>7, <3>2
      <4>2. Due(<<b, 1>>) \/ file[<<b, 1>>] = FullSamples(b) BY DEF ProcessInv
      <4> QED BY <1>7, <2>1, <4>1, <4>2
    <3> QED BY <3>1, <3>2
  <2>4. ASSUME NEW b \in Batch, Works(<<b, 1>>)'
        PROVE  proc'[<<b, 1>>].count <= BatchSize
    <3>1. proc' = [proc EXCEPT ![out] = p] BY <1>8 DEF Goes
    <3>2. CASE <<b, 1>> = out
      <4>1. proc'[<<b, 1>>] = p BY <1>0, <3>1, <3>2
      <4> QED BY <1>8, <2>4, <4>1 DEF Works
    <3>3. CASE <<b, 1>> # out
      <4>1. proc'[<<b, 1>>] = proc[<<b, 1>>] BY <3>1, <3>3
      <4> QED BY <2>4, <4>1 DEF Works, ProcessInv
    <3> QED BY <3>2, <3>3
  <2>5. status' = "ended" => Complete(raw)' BY <1>3 DEF ProcessInv, Complete
  <2> QED BY <1>4, <1>6, <2>1, <2>3, <2>4, <2>5 DEF ProcessInv
<1>9. CASE Start(out)
  <2> DEFINE p == [Idle EXCEPT !.at = "works", !.key = data["pk"]]
  <2>1. data["pk"] \in Key BY <1>0
  <2>2. Goes(out, p) BY <1>1, <1>9, <2>1 DEF Start
  <2>3. p.at = "works" => p.count <= BatchSize BY <1>0 DEF Idle
  <2> HIDE DEF p
  <2> QED BY <1>8, <2>2, <2>3
<1>10. CASE SignBlock(out) \/ SignDone(out) \/ SignFails(out)
  BY <1>1, <1>10 DEF SignBlock, SignDone, SignFails, Signs
<1>11. CASE Sample(out)
  <2>1. PICK p : p = Counts(out, proc[out].count + 1) OBVIOUS
  <2>2. HasLine(out) /\ Works(out) /\ Goes(out, p)
    BY <1>11, <2>1 DEF Sample, Sampled, HasLine, Parses
  <2>3. proc[out].count + 1 <= BatchSize
    <3>1. /\ proc[out].count < Len(Text(out)) /\ Len(Text(out)) = BatchSize
          /\ proc[out].count \in Nat
      BY <1>1, <2>2, ReadsFull DEF HasLine
    <3> QED BY <1>0, <3>1
  <2>4. p.count = proc[out].count + 1 BY <1>1, <2>1, <2>2, Parsing, CountsIs
  <2> QED BY <1>8, <2>2, <2>3, <2>4
<1>12. CASE SampleTorn(out) \/ SampleRaw(out) \/ ParseShort(out)
  <2>1. HasLine(out) /\ Works(out) /\ (Line(out) \in {Torn, Garbage} \/ out[2] > 1)
    BY <1>12 DEF SampleTorn, SampleRaw, ParseShort, HasLine, Parses
  <2> QED BY <1>1, <2>1, ReadsFull
<1>13. CASE ParseDone(out)
  <2>1. Leave(out, TRUE) /\ Works(out) /\ ~ HasLine(out) /\ file' = file
    BY <1>13 DEF ParseDone, Parses
  <2>2. proc[out].count = BatchSize
    <3>1. /\ ~ (proc[out].count < Len(Text(out))) /\ Len(Text(out)) = BatchSize
          /\ proc[out].count \in Nat /\ proc[out].count <= BatchSize
      BY <1>1, <2>1, ReadsFull DEF HasLine, Parses
    <3> QED BY <1>0, <3>1
  <2>3. file[out] = FullSamples(out[1])
    <3>0. Intact(out) BY <1>0 DEF Intact
    <3>1. /\ file[out] \in Seq(Item) /\ Len(file[out]) = BatchSize
          /\ \A n \in DOMAIN file[out] : file[out][n] = <<out[1], n>>
      BY <1>1, <2>1, <2>2, <3>0, Parsing DEF InPlace, SamplePlace
    <3>2. file[out] = [n \in 1 .. BatchSize |-> file[out][n]] BY <1>0, <3>1, SeqAt
    <3>3. \A n \in 1 .. BatchSize : file[out][n] = <<out[1], n>> BY <3>1, <3>2
    <3> QED BY <3>2, <3>3 DEF FullSamples
  <2>4. Pooled(1)' /\ status = "runs" /\ \A o \in Name : o # out => (Due(o)' <=> Due(o))
    BY <1>0, <1>1, <2>1, PooledEnds
  <2>5. ASSUME NEW b \in Batch
        PROVE  Due(<<b, 1>>)' \/ file'[<<b, 1>>] = FullSamples(b)
    <3>1. CASE <<b, 1>> = out
      <4>1. b = out[1] BY <3>1
      <4> QED BY <2>1, <2>3, <3>1, <4>1
    <3>2. CASE <<b, 1>> # out
      <4>1. Due(<<b, 1>>) \/ file[<<b, 1>>] = FullSamples(b) BY DEF ProcessInv
      <4> QED BY <1>7, <2>1, <2>4, <3>2, <4>1
    <3> QED BY <3>1, <3>2
  <2>6. ASSUME NEW b \in Batch, Works(<<b, 1>>)'
        PROVE  proc'[<<b, 1>>].count <= BatchSize
    <3>1. proc' = [proc EXCEPT ![out] = Idle] BY <2>1 DEF Leave
    <3>2. <<b, 1>> # out BY <1>0, <2>6, <3>1 DEF Works, Idle
    <3>3. proc'[<<b, 1>>] = proc[<<b, 1>>] BY <3>1, <3>2
    <3> QED BY <2>6, <3>3 DEF Works, ProcessInv
  <2>7. status' # "ended" BY <1>3, <2>4
  <2> QED BY <1>4, <1>6, <2>4, <2>5, <2>6, <2>7 DEF ProcessInv
<1> QED BY <1>9, <1>10, <1>11, <1>12, <1>13 DEF Program

\* What a program writes are items.
LEMMA FileWritten ==
  ASSUME DamageInv, NEW out \in Name, Program(out)
  PROVE  file' = file \/ \E f \in Seq(Item) : file' = [file EXCEPT ![out] = f]
<1>1. << >> \in Seq(Item) /\ BatchSize \in Nat BY PlanAssumption
<1>2. CASE Start(out) BY <1>1, <1>2 DEF Start
<1>3. CASE SignBlock(out) \/ SignDone(out) \/ SignFails(out)
  <2>1. Signs(out) BY <1>3 DEF SignBlock, SignDone, SignFails
  <2> DEFINE h(n) == Logged(file[out]) \o Signed(out, n)
  <2>2. proc[out].count \in 0 .. BatchSize BY <2>1, Signing
  <2>3. ASSUME NEW n \in proc[out].count .. BatchSize
        PROVE  h(n) \in Seq(Item) /\ h(n) \o <<Torn>> \in Seq(Item) /\ h(n) \o << >> = h(n)
    <3>1. h(n) \in Seq(Item) BY <2>1, SignedIsClean DEF Clean
    <3>2. <<Torn>> \in Seq(Item) BY DEF Item
    <3> HIDE DEF h
    <3> QED BY <3>1, <3>2
  <2>4. CASE SignBlock(out)
    <3>1. PICK n \in proc[out].count .. BatchSize - 1, torn \in BOOLEAN :
            file' = [file EXCEPT ![out] = h(n) \o IF torn THEN <<Torn>> ELSE << >>]
      BY <2>4 DEF SignBlock
    <3>2. n \in proc[out].count .. BatchSize BY <1>1, <2>2
    <3> HIDE DEF h
    <3> QED BY <2>3, <3>1, <3>2
  <2>5. CASE SignDone(out)
    <3>1. BatchSize \in proc[out].count .. BatchSize BY <1>1, <2>2
    <3>2. file' = [file EXCEPT ![out] = h(BatchSize)] BY <2>5 DEF SignDone
    <3> HIDE DEF h
    <3> QED BY <2>3, <3>1, <3>2
  <2>6. CASE SignFails(out)
    <3>1. PICK n \in proc[out].count .. BatchSize - 1 : file' = [file EXCEPT ![out] = h(n)]
      BY <2>6 DEF SignFails
    <3>2. n \in proc[out].count .. BatchSize BY <1>1, <2>2
    <3> HIDE DEF h
    <3> QED BY <2>3, <3>1, <3>2
  <2> QED BY <1>3, <2>4, <2>5, <2>6
<1>4. CASE Sample(out) \/ SampleTorn(out) \/ SampleRaw(out) \/ ParseShort(out)
  <2>1. Works(out) /\ out[2] > 0 /\ HasLine(out)
    BY <1>4 DEF Sample, SampleTorn, SampleRaw, ParseShort, HasLine, Parses
  <2>2. file[out] \in Seq(Item)
    <3>1. out[2] = 1 \/ out[2] > 1 BY <2>1, NameIs
    <3> QED BY <2>1, <3>1, Parsing, ParsingOther
  <2>3. \A e \in Item : Append(file[out], e) \in Seq(Item) BY <2>2
  <2>4. Garbage \in Item BY DEF Item
  <2>5. CASE Sample(out)
    <3>1. PICK e : e = IF /\ proc[out].aligned /\ Line(out) # Garbage
                          /\ Line(out)[3] = proc[out].key
                       THEN <<Line(out)[1], Line(out)[2]>> ELSE Garbage
      OBVIOUS
    <3>2. file' = [file EXCEPT ![out] = Append(file[out], e)]
      BY <2>5, <3>1 DEF Sample, Sampled, DamageInv
    <3>3. e \in Item BY <2>5, <3>1, SampleInPlace
    <3> QED BY <2>3, <3>2, <3>3
  <2>6. CASE SampleTorn(out) BY <2>3, <2>4, <2>6 DEF SampleTorn
  <2>7. CASE SampleRaw(out) BY <2>3, <2>4, <2>7 DEF SampleRaw, Sampled
  <2>8. CASE ParseShort(out) BY <2>2, <2>8, RemainsItems DEF ParseShort
  <2> QED BY <1>4, <2>5, <2>6, <2>7, <2>8
<1>5. CASE ParseDone(out) BY <1>5 DEF ParseDone
<1> QED BY <1>2, <1>3, <1>4, <1>5 DEF Program

\* A program leaves the pool, or none does.
LEMMA ActiveAfter ==
  ASSUME NEW out \in Name, Program(out)
  PROVE  active' = active \/ active' = active \ {out}
<1>1. ASSUME NEW ok, Leave(out, ok)
      PROVE  active' = active \/ active' = active \ {out}
  BY <1>1 DEF Leave, Pool!Finish, poolVars
<1>2. ASSUME NEW p, Goes(out, p) PROVE active' = active
  BY <1>2 DEF Goes, poolVars
<1> QED BY <1>1, <1>2, ProgramEnds

\* Whatever runs once the samples are there leaves them there, and if it opens
\* the file of a second parsing it ends FirstTime.
LEMMA LaterProgram ==
  ASSUME DamageInv, LaterInv, Reruns >= 1,
         Plan[stage] = "process" => Reruns >= 2, FirstTime',
         DamageInv', NEW out \in Name, Program(out)
  PROVE  LaterInv'
<1>0. DOMAIN proc = Name /\ DOMAIN file = Name BY DEF DamageInv
<1>1. /\ proc[out].at # "none" /\ UNCHANGED <<stage, todo, status, raw>>
      /\ \E p : proc' = [proc EXCEPT ![out] = p]
      /\ \E f : file' = [file EXCEPT ![out] = f] \/ file' = file
  BY ProgramEffect
<1>2. \A b \in Batch : <<b, 0>> \in Name /\ <<b, 1>> \in Name BY RerunsAre, NameOf
<1>3. ASSUME NEW o \in Name, o[2] \in {0, 1}, file[o] # NoFile PROVE file'[o] # NoFile
  <2>1. CASE o # out
    <3>1. file'[o] = file[o] BY <1>0, <1>1, <2>1
    <3> QED BY <1>3, <3>1
  <2>2. CASE o = out
    <3>1. out[2] \in {0, 1} /\ file[out] # NoFile BY <1>3, <2>2
    <3> HIDE DEF Program
    <3>2. file' = file \/ \E f \in Seq(Item) : file' = [file EXCEPT ![out] = f]
      BY <3>1, FileWritten
    <3> QED BY <1>0, <1>3, <2>2, <3>2, ItemsAreThere
  <2> QED BY <2>1, <2>2
<1>4. \A b \in Batch : file'[<<b, 0>>] # NoFile /\ file'[<<b, 1>>] # NoFile
  BY <1>2, <1>3 DEF LaterInv
<1>5. ASSUME Plan[stage] = "process", status = "runs", NEW b \in Batch
      PROVE  Awaits(<<b, 2>>)'
  <2>1. Awaits(<<b, 2>>) BY <1>5 DEF LaterInv
  <2>2. CASE Queued(<<b, 2>>) BY <1>1, <2>2 DEF Awaits, Queued
  <2>3. CASE <<b, 2>> \in active /\ proc[<<b, 2>>].at = "forked"
    <3>1. <<b, 2>> \in Name BY <1>5, NameOf
    <3>2. CASE out = <<b, 2>>
      <4>1. Start(out)
        BY <2>3, <3>2 DEF Program, SignBlock, SignDone, SignFails, Sample, SampleTorn,
           SampleRaw, ParseShort, ParseDone, HasLine, Parses, Signs, Works
      <4>2. file' = [file EXCEPT ![out] = << >>] BY <4>1 DEF Start
      <4>3. file'[out] = << >> BY <1>0, <4>2
      <4>4. << >> \in Seq(Item) OBVIOUS
      <4>5. file'[out] # NoFile BY <4>3, <4>4, ItemsAreThere
      <4>6. out[2] > 1 BY <3>2
      <4> QED BY <4>5, <4>6 DEF FirstTime
    <3>3. CASE out # <<b, 2>>
      <4>1. proc'[<<b, 2>>] = proc[<<b, 2>>] BY <1>1, <3>3
      <4>2. <<b, 2>> \in active'
        <5>1. active' = active \/ active' = active \ {out}
          BY ActiveAfter
        <5> QED BY <2>3, <3>3, <5>1
      <4> QED BY <2>3, <4>1, <4>2 DEF Awaits
    <3> QED BY <3>2, <3>3
  <2> QED BY <2>1, <2>2, <2>3 DEF Awaits
<1> QED BY <1>1, <1>4, <1>5 DEF LaterInv
-----------------------------------------------------------------------------
(* The scripts, undisturbed *)

\* Once anything but the setup has been started, a stage is one of the plan,
\* and 02_process_signatures.sh has its file numbers.
LEMMA StageIs ==
  ASSUME stage \in 0 .. Len(Plan), ~ Preparing
  PROVE  /\ stage \in DOMAIN Plan /\ stage \in Nat /\ stage > 0
         /\ Plan[stage] = "process" => Reruns >= 1
         /\ ProcessedBefore => Reruns >= 1
         /\ ProcessedBefore /\ Plan[stage] = "process" => Reruns >= 2
<1>1. DOMAIN Plan = 1 .. Len(Plan) /\ Len(Plan) \in Nat BY PlanAssumption
<1>2. PICK t \in 1 .. stage : TRUE BY DEF Preparing
<1>3. stage \in DOMAIN Plan /\ stage \in Nat /\ stage > 0 BY <1>1, <1>2
<1>4. ASSUME ProcessedBefore
      PROVE  \E s \in DOMAIN Plan : s # stage /\ Plan[s] = "process"
  <2>1. PICK s \in 1 .. stage - 1 : Plan[s] = "process" BY <1>4 DEF ProcessedBefore
  <2>2. s \in DOMAIN Plan /\ s # stage BY <1>1, <1>3, <2>1
  <2> QED BY <2>1, <2>2
<1> QED BY <1>3, <1>4, RerunsAre

\* The next stage has those before it that this one has, and this one.
LEMMA BeforeNext ==
  ASSUME stage \in Nat, stage' = stage + 1
  PROVE  ProcessedBefore' <=> ProcessedBefore \/ (stage > 0 /\ Plan[stage] = "process")
<1>1. stage' - 1 = stage OBVIOUS
<1>2. ProcessedBefore' <=> \E s \in 1 .. stage : Plan[s] = "process"
  BY <1>1 DEF ProcessedBefore
<1>3. \A t \in 1 .. stage : t \in 1 .. stage - 1 \/ (t = stage /\ stage > 0) OBVIOUS
<1>4. 1 .. stage - 1 \subseteq 1 .. stage /\ (stage > 0 => stage \in 1 .. stage)
  OBVIOUS
<1> QED BY <1>2, <1>3, <1>4 DEF ProcessedBefore

\* A pool that has ended has nothing left to do.
LEMMA EndedPool ==
  ASSUME NEW kind, Pooled(kind), status # "runs"
  PROVE  /\ status = "ended" /\ todo = << >> /\ todo \in Seq(Name)
         /\ \A out \in Name : ~ Due(out) /\ proc[out].at = "none"
<1>1. status = "ended" /\ todo = << >> /\ active = {} /\ todo \in Seq(Name)
  BY DEF Pooled
<1>2. DOMAIN todo = {} BY <1>1
<1> QED BY <1>1, <1>2 DEF Pooled, Due, Queued

\* 01_signature_generation.sh, started while there are no samples.
LEMMA SignStarts ==
  ASSUME todo' = [b \in Batch |-> <<b, 0>>], active' = {}, failed' = {},
         status' = "runs", UNCHANGED fileVars,
         \A out \in Name : proc[out].at = "none",
         \A out \in Name : out[2] > 0 => file[out] = NoFile
  PROVE  SignInv'
<1>1. NBatches \in Nat /\ Batch = 1 .. NBatches BY PlanAssumption DEF Batch
<1>2. \A b \in Batch : <<b, 0>> \in Name BY RerunsAre, NameOf
<1>3. todo' \in Seq(Name)
  <2>1. todo' \in [1 .. NBatches -> Name] BY <1>1, <1>2
  <2> QED BY <1>1, <2>1
<1>4. \A n \in DOMAIN todo' : todo'[n][2] = 0 OBVIOUS
<1>5. proc' = proc /\ file' = file BY DEF fileVars
<1>6. Pooled(0)' BY <1>3, <1>4, <1>5 DEF Pooled
<1>7. \A b \in Batch : Due(<<b, 0>>)' BY DEF Due, Queued
<1> QED BY <1>5, <1>6, <1>7 DEF SignInv

\* It is started before, between and after.
LEMMA BeginSignStep ==
  ASSUME DamageInv, FreshKeys, stage \in 0 .. Len(Plan), faults = 0,
         ~ Preparing => RawStage, BeginSign
  PROVE  RawStage'
<1>1. /\ stage' = stage + 1 /\ Plan[stage'] = "sign" /\ status # "runs"
      /\ todo' = [b \in Batch |-> <<b, 0>>] /\ active' = {} /\ failed' = {}
      /\ status' = "runs" /\ UNCHANGED fileVars
  BY DEF BeginSign, Begin, ScriptOver, StartPool
<1>2. stage \in Nat BY DEF DamageInv, KeyInv
<1>3. ProcessedBefore' <=> ProcessedBefore \/ (stage > 0 /\ Plan[stage] = "process")
  BY <1>1, <1>2, BeforeNext
<1>4. file' = file /\ raw' = raw BY <1>1 DEF fileVars
<1>5. CASE Preparing
  <2>1. \A out \in Name : proc[out].at = "none" /\ file[out] = NoFile
    BY <1>5 DEF DamageInv
  <2>2. SignInv' BY <1>1, <2>1, SignStarts
  <2>3. ~ ProcessedBefore'
    <3>1. \A s \in 1 .. stage : Plan[s] # "process" BY <1>5 DEF Preparing
    <3>2. 1 .. stage - 1 \subseteq 1 .. stage /\ (stage > 0 => stage \in 1 .. stage)
      BY <1>2
    <3> QED BY <1>3, <3>1, <3>2 DEF ProcessedBefore
  <2> QED BY <1>1, <2>2, <2>3 DEF RawStage
<1>6. CASE ~ Preparing /\ ~ ProcessedBefore /\ Plan[stage] = "sign" /\ SignInv
  <2>1. \A out \in Name : proc[out].at = "none"
    BY <1>1, <1>6, EndedPool DEF SignInv
  <2>2. SignInv' BY <1>1, <1>6, <2>1, SignStarts DEF SignInv
  <2> QED BY <1>1, <1>3, <1>6, <2>2 DEF RawStage
<1>7. ASSUME ~ Preparing,
             Complete(raw),
             \A b \in Batch : file[<<b, 0>>] # NoFile /\ file[<<b, 1>>] # NoFile
      PROVE  LaterInv'
  <2>1. todo' \in Seq(Batch \X Nat)
    <3>1. NBatches \in Nat /\ Batch = 1 .. NBatches BY PlanAssumption DEF Batch
    <3>2. todo' \in [1 .. NBatches -> Batch \X Nat] BY <1>1, <3>1
    <3> QED BY <3>1, <3>2
  <2>2. Complete(raw)' BY <1>4, <1>7 DEF Complete
  <2> QED BY <1>1, <1>4, <1>7, <2>1, <2>2 DEF LaterInv
<1>8. CASE ~ Preparing /\ ~ ProcessedBefore /\ Plan[stage] = "process" /\ ProcessInv
  <2>1. stage > 0 BY <1>8, StageIs
  <2>2. status = "ended" /\ \A out \in Name : ~ Due(out)
    BY <1>1, <1>8, EndedPool DEF ProcessInv
  <2>3. Complete(raw) BY <1>8, <2>2 DEF ProcessInv
  <2>4. data["sk"] \in Key BY <1>8, KeysThere
  <2>5. ASSUME NEW b \in Batch PROVE file[<<b, 0>>] # NoFile /\ file[<<b, 1>>] # NoFile
    <3>1. <<b, 1>> \in Name BY <1>8, StageIs, NameOf
    <3>2. file[<<b, 0>>] = FullLog(b) /\ file[<<b, 1>>] = FullSamples(b)
      BY <1>8, <2>2, <3>1 DEF ProcessInv
    <3> QED BY <2>4, <3>2, ItemsAreThere
  <2>6. LaterInv' BY <1>7, <1>8, <2>3, <2>5
  <2> QED BY <1>3, <1>8, <2>1, <2>6 DEF RawStage
<1>9. CASE ~ Preparing /\ ProcessedBefore /\ LaterInv
  <2>1. LaterInv' BY <1>7, <1>9 DEF LaterInv
  <2> QED BY <1>3, <1>9, <2>1 DEF RawStage
<1> QED BY <1>5, <1>6, <1>8, <1>9 DEF RawStage

\* 02_process_signatures.sh, started once everything is signed.
LEMMA ProcessStarts ==
  ASSUME DamageInv, SignInv, Reruns >= 1, data["sk"] \in Key, status # "runs",
         todo' = Outputs, active' = {}, failed' = {}, status' = "runs",
         UNCHANGED <<fileVars, data>>
  PROVE  ProcessInv'
<1>1. NBatches \in Nat /\ Batch = 1 .. NBatches BY PlanAssumption DEF Batch
<1>2. \A b \in Batch : <<b, 0>> \in Name /\ <<b, 1>> \in Name BY RerunsAre, NameOf
<1>3. \A out \in Name : ~ Due(out) /\ proc[out].at = "none"
  BY EndedPool DEF SignInv
<1>4. \A b \in Batch : file[<<b, 0>>] = FullLog(b) BY <1>2, <1>3 DEF SignInv
<1>5. \A b \in Batch : file[<<b, 0>>] # NoFile BY <1>4, ItemsAreThere
<1>6. \A out \in Name : out[2] > 0 => file[out] = NoFile BY DEF SignInv
<1>7. \A b \in Batch : \E n \in DOMAIN todo' : todo'[n] = <<b, 1>>
  BY <1>5, <1>6, OutputsFirst
<1>8. todo' \in Seq(Name) BY <1>5, <1>6, OutputsFirst
<1>9. \A n \in DOMAIN todo' : todo'[n][2] = 1 BY <1>5, <1>6, OutputsFirst
<1>10. proc' = proc /\ file' = file BY DEF fileVars
<1>11. Pooled(1)' BY <1>3, <1>8, <1>9, <1>10 DEF Pooled
<1>12. \A b \in Batch : Due(<<b, 1>>)' BY <1>7 DEF Due, Queued
<1>13. \A b \in Batch : file'[<<b, 0>>] = FullLog(b)' BY <1>4, <1>10 DEF FullLog
<1>14. \A b \in Batch : ~ Works(<<b, 1>>)' BY <1>2, <1>3, <1>10 DEF Works
<1> QED BY <1>11, <1>12, <1>13, <1>14 DEF ProcessInv

\* It is started after the signing, and again.
LEMMA BeginProcessStep ==
  ASSUME InOrder, DamageInv, FreshKeys, stage \in 0 .. Len(Plan), Undisturbed,
         ~ Preparing => RawStage, BeginProcess
  PROVE  RawStage'
<1>1. /\ stage' = stage + 1 /\ Plan[stage'] = "process" /\ status # "runs"
      /\ todo' = Outputs /\ active' = {} /\ failed' = {} /\ stage < Len(Plan)
      /\ status' = "runs" /\ UNCHANGED <<fileVars, keyVars>>
  BY DEF BeginProcess, Begin, ScriptOver, StartPool
<1>2. stage \in Nat BY DEF DamageInv, KeyInv
<1>3. ProcessedBefore' <=> ProcessedBefore \/ (stage > 0 /\ Plan[stage] = "process")
  BY <1>1, <1>2, BeforeNext
<1>4. file' = file /\ raw' = raw /\ data' = data BY <1>1 DEF fileVars, keyVars
<1>5. stage + 1 \in DOMAIN Plan /\ Plan[stage + 1] = "process"
  <2>1. DOMAIN Plan = 1 .. Len(Plan) /\ Len(Plan) \in Nat BY PlanAssumption
  <2> QED BY <1>1, <1>2, <2>1
<1>6. Reruns >= 1 BY <1>5, RerunsAre
<1>7. ~ Preparing
  <2>1. PICK s \in 1 .. (stage + 1) - 1 : Plan[s] = "sign" BY <1>5 DEF InOrder
  <2>2. s \in 1 .. stage /\ Plan[s] # "setup" BY <1>2, <2>1
  <2> QED BY <2>2 DEF Preparing
<1>8. stage > 0 BY <1>7, StageIs
<1>9. data["sk"] \in Key BY <1>7, KeysThere DEF Undisturbed
<1>10. ASSUME Complete(raw),
              \A b \in Batch : file[<<b, 0>>] # NoFile /\ file[<<b, 1>>] # NoFile
      PROVE  LaterInv'
  <2>2. /\ Outputs \in Seq(Batch \X Nat)
        /\ \A b \in Batch : \E n \in DOMAIN Outputs : Outputs[n] = <<b, 2>>
    BY <1>6, <1>10, OutputsAgain
  <2>3. \A b \in Batch : Awaits(<<b, 2>>)' BY <1>1, <2>2 DEF Awaits, Queued
  <2>4. todo' \in Seq(Batch \X Nat) BY <1>1, <2>2
  <2>5. Complete(raw)' BY <1>4, <1>10 DEF Complete
  <2> QED BY <1>1, <1>4, <1>10, <2>3, <2>4, <2>5 DEF LaterInv
<1>11. CASE ~ ProcessedBefore /\ Plan[stage] = "sign" /\ SignInv
  <2>1. ProcessInv' BY <1>1, <1>4, <1>6, <1>9, <1>11, ProcessStarts
  <2> QED BY <1>1, <1>3, <1>11, <2>1 DEF RawStage
<1>12. CASE ~ ProcessedBefore /\ Plan[stage] = "process" /\ ProcessInv
  <2>2. status = "ended" /\ \A out \in Name : ~ Due(out)
    BY <1>1, <1>12, EndedPool DEF ProcessInv
  <2>3. Complete(raw) BY <1>12, <2>2 DEF ProcessInv
  <2>5. ASSUME NEW b \in Batch PROVE file[<<b, 0>>] # NoFile /\ file[<<b, 1>>] # NoFile
    <3>1. <<b, 1>> \in Name BY <1>6, NameOf
    <3>2. file[<<b, 0>>] = FullLog(b) /\ file[<<b, 1>>] = FullSamples(b)
      BY <1>12, <2>2, <3>1 DEF ProcessInv
    <3> QED BY <1>9, <3>2, ItemsAreThere
  <2>6. LaterInv' BY <1>10, <2>3, <2>5
  <2> QED BY <1>3, <1>8, <1>12, <2>6 DEF RawStage
<1>13. CASE ProcessedBefore /\ LaterInv
  <2>1. LaterInv' BY <1>10, <1>13 DEF LaterInv
  <2> QED BY <1>3, <1>13, <2>1 DEF RawStage
<1> QED BY <1>7, <1>11, <1>12, <1>13 DEF RawStage

\* The loop of a script forks.
LEMMA ForkStep ==
  ASSUME DamageInv, stage \in 0 .. Len(Plan), ~ Preparing, RawStage, Fork
  PROVE  RawStage'
<1>0. DOMAIN proc = Name BY DEF DamageInv
<1>1. UNCHANGED <<file, raw, status, data, stage>> /\ status = "runs"
  BY DEF Fork, Pool!Fork, keyVars
<1>2. ProcessedBefore' = ProcessedBefore BY <1>1 DEF ProcessedBefore
<1>3. CASE ~ ProcessedBefore /\ Plan[stage] = "sign" /\ SignInv
  <2>1. Pooled(0)' /\ \A o \in Name : Due(o) => Due(o)'
    BY <1>0, <1>3, PooledForks DEF SignInv
  <2>2. \A b \in Batch : <<b, 0>> \in Name BY RerunsAre, NameOf
  <2>3. \A b \in Batch : FullLog(b)' = FullLog(b) BY <1>1 DEF FullLog
  <2>4. SignInv' BY <1>1, <1>3, <2>1, <2>2, <2>3 DEF SignInv
  <2> QED BY <1>1, <1>2, <1>3, <2>4 DEF RawStage
<1>4. CASE ~ ProcessedBefore /\ Plan[stage] = "process" /\ ProcessInv
  <2>1. /\ Pooled(1)' /\ \A o \in Name : Due(o) => Due(o)'
        /\ \A o \in Name : Works(o)' => Works(o) /\ proc'[o] = proc[o]
    BY <1>0, <1>4, PooledForks DEF ProcessInv
  <2>2. \A b \in Batch : <<b, 1>> \in Name BY <1>4, StageIs, NameOf
  <2>3. \A b \in Batch : FullLog(b)' = FullLog(b) BY <1>1 DEF FullLog
  <2>4. \A b \in Batch : Works(<<b, 1>>)' => proc'[<<b, 1>>].count <= BatchSize
    BY <1>4, <2>1, <2>2 DEF ProcessInv
  <2>5. \A b \in Batch : Due(<<b, 1>>)' \/ file'[<<b, 1>>] = FullSamples(b)
    BY <1>1, <1>4, <2>1, <2>2 DEF ProcessInv
  <2>6. \A b \in Batch : file'[<<b, 0>>] = FullLog(b) BY <1>1, <1>4 DEF ProcessInv
  <2>7. status' # "ended" BY <1>1
  <2>8. ProcessInv' BY <2>1, <2>3, <2>4, <2>5, <2>6, <2>7 DEF ProcessInv
  <2> QED BY <1>1, <1>2, <1>4, <2>8 DEF RawStage
<1>5. CASE ProcessedBefore /\ LaterInv
  <2> DEFINE h == Head(todo)
             q == [Idle EXCEPT !.at = "forked"]
  <2>1. /\ todo # << >> /\ todo' = Tail(todo) /\ active' = active \cup {h}
        /\ proc' = [proc EXCEPT ![h] = q]
    BY DEF Fork, Pool!Fork
  <2>2. todo \in Seq(Batch \X Nat) BY <1>5 DEF LaterInv
  <2>3. /\ h = todo[1] /\ 1 \in DOMAIN todo
        /\ Tail(todo) \in Seq(Batch \X Nat)
        /\ \A n \in DOMAIN todo : n # 1 => n - 1 \in DOMAIN Tail(todo)
                                           /\ Tail(todo)[n - 1] = todo[n]
    BY <2>1, <2>2, HeadAndTail
  <2>4. q.at = "forked" BY DEF Idle
  <2> HIDE DEF h, q
  <2>5. ASSUME NEW o \in Name, Awaits(o) PROVE Awaits(o)'
    <3>1. CASE o = h
      <4>1. proc'[o] = q BY <1>0, <2>1, <3>1
      <4> QED BY <2>1, <2>4, <3>1, <4>1 DEF Awaits
    <3>2. CASE o # h /\ Queued(o)
      <4>1. PICK n \in DOMAIN todo : todo[n] = o BY <3>2 DEF Queued
      <4>2. n # 1 BY <2>3, <3>2, <4>1
      <4> QED BY <2>1, <2>3, <4>1, <4>2 DEF Awaits, Queued
    <3>3. CASE o # h /\ o \in active /\ proc[o].at = "forked"
      <4>1. proc'[o] = proc[o] BY <2>1, <3>3
      <4> QED BY <2>1, <3>3, <4>1 DEF Awaits
    <3> QED BY <2>5, <3>1, <3>2, <3>3 DEF Awaits
  <2>6. Plan[stage] = "process" => \A b \in Batch : Awaits(<<b, 2>>)'
    <3> SUFFICES ASSUME Plan[stage] = "process", NEW b \in Batch
                 PROVE  Awaits(<<b, 2>>)'
      OBVIOUS
    <3>1. <<b, 2>> \in Name BY <1>5, StageIs, NameOf
    <3>2. Awaits(<<b, 2>>) BY <1>1, <1>5 DEF LaterInv
    <3> QED BY <2>5, <3>1, <3>2
  <2>7. Complete(raw)' BY <1>1, <1>5 DEF LaterInv, Complete
  <2>8. LaterInv' BY <1>1, <1>5, <2>1, <2>3, <2>6, <2>7 DEF LaterInv
  <2> QED BY <1>2, <1>5, <2>8 DEF RawStage
<1> QED BY <1>3, <1>4, <1>5 DEF RawStage

\* The loop leaves off early only after a failure.
LEMMA ExitStep ==
  ASSUME RawStage, Exit PROVE RawStage'
<1>1. /\ failed # {} /\ status' = "exited"
      /\ UNCHANGED <<stage, todo, file, raw>>
  BY DEF Exit, Pool!Exit, fileVars
<1>2. ProcessedBefore /\ LaterInv BY <1>1 DEF RawStage, SignInv, ProcessInv, Pooled
<1>3. ProcessedBefore' BY <1>1, <1>2 DEF ProcessedBefore
<1>4. Complete(raw)' BY <1>1, <1>2 DEF LaterInv, Complete
<1>5. LaterInv' BY <1>1, <1>2, <1>4 DEF LaterInv
<1> QED BY <1>3, <1>5 DEF RawStage

\* 01_signature_generation.sh ends.
LEMMA EndSignStep ==
  ASSUME RawStage, EndSign PROVE RawStage'
<1>1. /\ todo = << >> /\ active = {} /\ status' = "ended"
      /\ UNCHANGED <<stage, todo, active, failed, data, proc, file, raw>>
      /\ Plan[stage] = "sign"
  BY DEF EndSign, Pool!End, fileVars, keyVars
<1>2. ProcessedBefore' = ProcessedBefore BY <1>1 DEF ProcessedBefore
<1>3. CASE ~ ProcessedBefore /\ SignInv
  <2>1. Pooled(0)' BY <1>1, <1>3 DEF SignInv, Pooled
  <2>2. \A o \in Name : Due(o)' = Due(o) BY <1>1 DEF Due, Queued
  <2>3. \A b \in Batch : FullLog(b)' = FullLog(b) BY <1>1 DEF FullLog
  <2>4. \A b \in Batch : <<b, 0>> \in Name BY RerunsAre, NameOf
  <2>5. SignInv' BY <1>1, <1>3, <2>1, <2>2, <2>3, <2>4 DEF SignInv
  <2> QED BY <1>1, <1>2, <1>3, <2>5 DEF RawStage
<1>4. CASE ProcessedBefore /\ LaterInv
  <2>1. Complete(raw)' BY <1>1, <1>4 DEF LaterInv, Complete
  <2>2. LaterInv' BY <1>1, <1>4, <2>1 DEF LaterInv
  <2> QED BY <1>2, <1>4, <2>2 DEF RawStage
<1> QED BY <1>1, <1>3, <1>4 DEF RawStage

\* What cat makes of the samples when all are there.
LEMMA CatAll ==
  ASSUME FirstTime, Reruns >= 1, \A b \in Batch : file[<<b, 1>>] = FullSamples(b)
  PROVE  Complete(FlattenSeq([n \in DOMAIN Listing(1) |-> file[Listing(1)[n]]]))
<1>1. PICK l : l = Listing(1) OBVIOUS
<1>2. \A b \in Batch : <<b, 1>> \in Name /\ file[<<b, 1>>] # NoFile
  BY RerunsAre, NameOf, ItemsAreThere
<1>3. /\ l \in Seq(Name) /\ \A k \in DOMAIN l : l[k][2] >= 1 /\ file[l[k]] # NoFile
      /\ \A j, k \in DOMAIN l : l[j] = l[k] => j = k
      /\ \A out \in Name : out[2] >= 1 /\ file[out] # NoFile =>
           \E k \in DOMAIN l : l[k] = out
  BY <1>1, ListingHas
<1>4. \A k \in DOMAIN l : l[k][2] = 1
  <2> SUFFICES ASSUME NEW k \in DOMAIN l PROVE l[k][2] = 1 OBVIOUS
  <2>1. l[k] \in Name BY <1>3
  <2>2. l[k][2] \in Nat BY <2>1, NameIs
  <2>3. ~ (l[k][2] > 1) BY <1>3, <2>1 DEF FirstTime
  <2> QED BY <1>3, <2>2, <2>3
<1>5. \A b \in Batch : \E k \in DOMAIN l : l[k] = <<b, 1>>
  <2> SUFFICES ASSUME NEW b \in Batch PROVE \E k \in DOMAIN l : l[k] = <<b, 1>> OBVIOUS
  <2>1. <<b, 1>>[2] >= 1 OBVIOUS
  <2> QED BY <1>2, <1>3, <2>1
<1>6. Complete(FlattenSeq([n \in DOMAIN l |-> file[l[n]]]))
  BY <1>3, <1>4, <1>5, AllTogether
<1> QED BY <1>1, <1>6

\* 02_process_signatures.sh ends.
LEMMA EndProcessStep ==
  ASSUME DamageInv, FreshKeys, stage \in 0 .. Len(Plan), Undisturbed, ~ Preparing,
         RawStage, EndProcess
  PROVE  RawStage'
<1>1. /\ todo = << >> /\ active = {} /\ status = "runs" /\ status' = "ended"
      /\ UNCHANGED <<stage, todo, active, failed, data, proc, file>>
      /\ raw' = FlattenSeq([n \in DOMAIN Listing(1) |-> file[Listing(1)[n]]])
      /\ Plan[stage] = "process"
  BY DEF EndProcess, Pool!End, keyVars
<1>2. ProcessedBefore' = ProcessedBefore BY <1>1 DEF ProcessedBefore
<1>3. Reruns >= 1 /\ data["sk"] \in Key /\ FirstTime
  BY <1>1, StageIs, KeysThere DEF Undisturbed
<1>4. \A o \in Name : ~ Due(o) /\ (Due(o)' = Due(o)) BY <1>1 DEF Due, Queued
<1>5. \A b \in Batch : <<b, 1>> \in Name BY <1>3, NameOf
<1>6. Complete(raw') => Complete(raw)' BY DEF Complete
<1>7. CASE ~ ProcessedBefore /\ ProcessInv
  <2>1. \A b \in Batch : file[<<b, 1>>] = FullSamples(b)
    BY <1>4, <1>5, <1>7 DEF ProcessInv
  <2>2. Complete(raw)' BY <1>1, <1>3, <1>6, <2>1, CatAll
  <2>3. Pooled(1)' BY <1>1, <1>7 DEF ProcessInv, Pooled
  <2>4. \A b \in Batch : FullLog(b)' = FullLog(b) BY <1>1 DEF FullLog
  <2>5. \A b \in Batch : Works(<<b, 1>>)' = Works(<<b, 1>>) BY <1>1 DEF Works
  <2>6. ProcessInv'
    BY <1>1, <1>7, <2>1, <2>2, <2>3, <2>4, <2>5 DEF ProcessInv, FullSamples
  <2> QED BY <1>1, <1>2, <1>7, <2>6 DEF RawStage
<1>8. CASE ProcessedBefore /\ LaterInv
  <2>1. \A b \in Batch : ~ Awaits(<<b, 2>>) BY <1>1 DEF Awaits, Queued
  <2>2. Batch = {} BY <1>1, <1>8, <2>1 DEF LaterInv
  <2>3. NBatches = 0
    <3>1. NBatches \in Nat /\ Batch = 1 .. NBatches BY PlanAssumption DEF Batch
    <3>2. NBatches > 0 => 1 \in Batch BY <3>1
    <3> QED BY <2>2, <3>1, <3>2
  <2>4. Complete(raw)' BY <1>1, <1>3, <1>6, <2>2, CatAll
  <2>5. LaterInv' BY <1>1, <1>8, <2>3, <2>4 DEF LaterInv
  <2> QED BY <1>2, <1>8, <2>5 DEF RawStage
<1> QED BY <1>1, <1>7, <1>8 DEF RawStage

-----------------------------------------------------------------------------
\* The plan is not exceeded.
LEMMA StageStep ==
  ASSUME stage \in 0 .. Len(Plan), [Next]_vars PROVE stage' \in 0 .. Len(Plan)
<1>1. Len(Plan) \in Nat BY PlanAssumption
<1>2. CASE BeginSetup \/ BeginSign \/ BeginProcess
  BY <1>1, <1>2 DEF BeginSetup, BeginSign, BeginProcess, Begin
<1>3. CASE Setup
  BY <1>3 DEF Setup, OpenSk, OpenPk, SaveSk, SavePk, Save, KeygenFails, MoveSk,
              MovePk, Move, Keygen
<1>4. CASE Fork \/ Exit \/ EndSign \/ EndProcess
  BY <1>4 DEF Fork, Exit, EndSign, EndProcess
<1>5. ASSUME NEW out \in Name, Program(out) \/ Mishap(out) PROVE stage' = stage
  BY <1>5, ProgramsLeaveKeys
<1>6. CASE UNCHANGED vars BY <1>6 DEF vars
<1> QED BY <1>2, <1>3, <1>4, <1>5, <1>6 DEF Next, Script

\* At first nothing has been run.
LEMMA RawInit == Init => RawInv
<1> SUFFICES ASSUME Init PROVE RawInv OBVIOUS
<1>1. stage = 0 /\ Len(Plan) \in Nat BY PlanAssumption DEF Init
<1>2. Preparing BY <1>1 DEF Preparing
<1>3. stage \in 0 .. Len(Plan) BY <1>1
<1> QED BY <1>2, <1>3, DamageInit, FreshKeysInit DEF RawInv

\* Every step keeps the invariant.
LEMMA RawStep == ASSUME InOrder PROVE RawInv /\ [Next]_vars => RawInv'
<1> SUFFICES ASSUME RawInv, [Next]_vars PROVE RawInv' OBVIOUS
<1>1. DamageInv /\ FreshKeys /\ stage \in 0 .. Len(Plan) /\ SetupFirst /\ KeyInv
  BY DEF RawInv, InOrder, DamageInv
<1>2. DamageInv' BY <1>1, DamageStep
<1>3. FreshKeys' BY <1>1, FreshKeysStep
<1>4. stage' \in 0 .. Len(Plan) BY <1>1, StageStep
<1>5. ASSUME Undisturbed', ~ Preparing' PROVE RawStage'
  <2>1. Undisturbed /\ ~ Fault BY <1>1, <1>5, StaysDisturbed
  <2>2. faults = 0 /\ FirstTime /\ FirstTime' BY <1>5, <2>1 DEF Undisturbed
  <2>3. ~ Preparing => RawStage BY <2>1 DEF RawInv
  <2>4. ASSUME stage' = stage PROVE ~ Preparing /\ RawStage
    BY <1>5, <2>3, <2>4 DEF Preparing
  <2>5. CASE BeginSetup
    <3>1. step' # "off" BY <2>5 DEF BeginSetup
    <3> QED BY <1>2, <1>5, <3>1 DEF DamageInv
  <2>6. CASE BeginSign BY <1>1, <2>2, <2>3, <2>6, BeginSignStep
  <2>7. CASE BeginProcess BY <1>1, <2>1, <2>3, <2>7, BeginProcessStep
  <2>8. CASE Setup
    <3>1. stage' = stage /\ step # "off"
      BY <2>8 DEF Setup, OpenSk, OpenPk, SaveSk, SavePk, Save, KeygenFails, MoveSk,
                  MovePk, Move, Keygen
    <3> QED BY <1>1, <2>4, <3>1 DEF DamageInv
  <2>9. CASE Fork
    <3>1. stage' = stage BY <2>9 DEF Fork
    <3> QED BY <1>1, <2>4, <2>9, <3>1, ForkStep
  <2>10. CASE Exit
    <3>1. stage' = stage BY <2>10 DEF Exit
    <3> QED BY <2>4, <2>10, <3>1, ExitStep
  <2>11. CASE EndSign
    <3>1. stage' = stage BY <2>11 DEF EndSign
    <3> QED BY <2>4, <2>11, <3>1, EndSignStep
  <2>12. CASE EndProcess
    <3>1. stage' = stage BY <2>12 DEF EndProcess
    <3> QED BY <1>1, <2>1, <2>4, <2>12, <3>1, EndProcessStep
  <2>13. ASSUME NEW out \in Name, Program(out) PROVE RawStage'
    <3>1. UNCHANGED <<stage, status>> BY <2>13, ProgramEffect
    <3>2. ~ Preparing /\ RawStage BY <2>4, <3>1
    <3>3. ProcessedBefore' = ProcessedBefore BY <3>1 DEF ProcessedBefore
    <3>4. /\ Plan[stage] = "process" => Reruns >= 1
          /\ ProcessedBefore => Reruns >= 1
          /\ ProcessedBefore /\ Plan[stage] = "process" => Reruns >= 2
      BY <1>1, <3>2, StageIs
    <3>5. CASE ~ ProcessedBefore /\ Plan[stage] = "sign" /\ SignInv
      <4>1. SignInv' BY <1>1, <2>1, <2>2, <2>13, <3>2, <3>5, SignProgram
      <4> QED BY <3>1, <3>3, <3>5, <4>1 DEF RawStage
    <3>6. CASE ~ ProcessedBefore /\ Plan[stage] = "process" /\ ProcessInv
      <4>1. ProcessInv' BY <1>1, <2>1, <2>2, <2>13, <3>2, <3>4, <3>6, ProcessProgram
      <4> QED BY <3>1, <3>3, <3>6, <4>1 DEF RawStage
    <3>7. CASE ProcessedBefore /\ LaterInv
      <4>1. LaterInv' BY <1>1, <1>2, <2>2, <2>13, <3>4, <3>7, LaterProgram
      <4> QED BY <3>3, <3>7, <4>1 DEF RawStage
    <3> QED BY <3>2, <3>5, <3>6, <3>7 DEF RawStage
  <2>14. \A out \in Name : ~ Mishap(out) BY <2>1, MishapFails
  <2>15. CASE UNCHANGED vars
    <3>1. /\ UNCHANGED <<stage, todo, active, failed, status, data, proc, file, raw>>
      BY <2>15 DEF vars, poolVars, fileVars, keyVars
    <3>2. RawStage BY <2>4, <3>1
    <3> QED BY <3>1, <3>2
      DEF RawStage, ProcessedBefore, SignInv, ProcessInv, LaterInv, Pooled, Due,
          Queued, Awaits, Works, FullLog, FullSamples, Complete
  <2> QED BY <2>5, <2>6, <2>7, <2>8, <2>9, <2>10, <2>11, <2>12, <2>13, <2>14, <2>15
          DEF Next, Script
<1> QED BY <1>2, <1>3, <1>4, <1>5 DEF RawInv

\* If the scripts are run in the order of the README, each as often as may be,
\* and no program and no write fails by itself, then for any number of
\* batches, signatures and tokens, in whatever order the programs of a pool run
\* and end and however the shell sorts the names, the file that
\* 02_process_signatures.sh leaves has one sample for every signature, those of
\* each batch together and in order, until it goes through samples a second
\* time.
THEOREM RawTheorem == ASSUME InOrder PROVE Spec => []RawExact
<1>1. RawInv => RawExact
  <2> SUFFICES ASSUME RawInv, Processed, FirstTime, faults = 0
               PROVE  Complete(raw)
    BY DEF RawExact
  <2>1. /\ Plan[stage] = "process" /\ status # "runs" /\ stage > 0
        /\ stage \in 0 .. Len(Plan)
    BY DEF Processed, ScriptOver, RawInv
  <2>2. ~ Preparing
    <3>1. stage \in 1 .. stage
      <4>1. Len(Plan) \in Nat BY PlanAssumption
      <4> QED BY <2>1, <4>1
    <3> QED BY <2>1, <3>1 DEF Preparing
  <2>3. RawStage BY <2>2 DEF RawInv, Undisturbed
  <2>4. CASE ProcessInv BY <2>1, <2>4, EndedPool DEF ProcessInv
  <2>5. CASE LaterInv BY <2>5 DEF LaterInv
  <2> QED BY <2>1, <2>3, <2>4, <2>5 DEF RawStage
<1>2. RawInv /\ [Next]_vars => RawInv' BY RawStep
<1> QED BY <1>1, <1>2, RawInit, PTL DEF Spec
=============================================================================
