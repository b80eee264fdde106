--------------------------- MODULE ToolsPoolProofs ---------------------------
(***************************************************************************)
(* The command line programs and the pool in which the scripts run them.   *)
(*                                                                         *)
(* Of JobPool, for any number of tokens, tasks and return codes: no token  *)
(* is lost or duplicated, no more than NT tasks run, and after a failure   *)
(* at most NT - 1 more tasks are forked.  And the pipe of tokens           *)
(* implements the pool of PoolPromise: the argument is a count, as every   *)
(* failed task has its own nonzero token, which is in the pipe or has      *)
(* ended the script, so that a failure never gives its place back.         *)
(*                                                                         *)
(* Of Tools, the generator and its users, for every cipher, every key      *)
(* generation and any number of requests, batches and signatures.          *)
(***************************************************************************)
EXTENDS Tools, JobPool, FiniteSetTheorems, FunctionTheorems, SequenceTheorems,
        TLAPS

\* A task has been forked exactly if the loop has passed it.
ForkedInOrder == /\ main = "fork" => thing <= NTasks
                 /\ main = "read" => thing <= NTasks
                 /\ \A t \in Task : t >= thing => task[t] = "none"

\* The first n tokens are all 000.
Zeros(n) == \A q \in 1 .. n : pipe[q] = 0

\* As long as a failure is in the pipe, the tokens before it and the one in
\* hand are all that the loop may still fork for.
LateBounded == /\ FailureInPipe \/ main = "exited" \/ late = 0
               /\ late > 0 => late <= NT - 1
               /\ main # "exited" /\ FailureInPipe =>
                    \A n \in 0 .. Len(pipe) :
                      Zeros(n) => late + n + InHand <= NT - 1

PoolInv == TypeOK /\ ForkedInOrder /\ TokensConserved /\ LateBounded

USE PoolAssumption

-----------------------------------------------------------------------------
\* The sets of tasks whose sizes are counted are finite.
LEMMA FiniteStages ==
  ASSUME TypeOK
  PROVE  /\ IsFiniteSet(Running) /\ IsFiniteSet(Returning)
         /\ Cardinality(Running) \in Nat /\ Cardinality(Returning) \in Nat
<1>1. IsFiniteSet(Task) BY FS_Interval DEF Task
<1>2. Running \subseteq Task /\ Returning \subseteq Task
  BY DEF Running, Returning
<1>3. IsFiniteSet(Running) /\ IsFiniteSet(Returning)
  BY <1>1, <1>2, FS_Subset
<1> QED BY <1>3, FS_CardinalityType

\* The initial pipe holds NT tokens, and no task has been forked.
LEMMA PoolInit == Init => PoolInv
<1> SUFFICES ASSUME Init PROVE PoolInv OBVIOUS
<1>1. TypeOK
  <2>1. pipe \in Seq(Codes) BY DEF Init, Codes
  <2> QED BY <2>1 DEF TypeOK, Init, Task, Codes
<1>2. ForkedInOrder BY DEF Init, ForkedInOrder
<1>3. TokensConserved
  <2>1. Running = {} /\ Returning = {} BY DEF Init, Running, Returning
  <2>2. Cardinality(Running) = 0 /\ Cardinality(Returning) = 0
    BY <2>1, FS_EmptySet
  <2>3. Len(pipe) = NT /\ InHand = 0 /\ Eaten = 0
    BY DEF Init, InHand, Eaten
  <2> QED BY <2>2, <2>3 DEF TokensConserved
<1>4. LateBounded BY DEF Init, LateBounded, FailureInPipe
<1> QED BY <1>1, <1>2, <1>3, <1>4 DEF PoolInv

-----------------------------------------------------------------------------
\* Reading a token: it goes into the loop's hand, or ends the script.
LEMMA ReadStep == ASSUME PoolInv, Read PROVE PoolInv'
<1> USE DEF PoolInv
<1>1. /\ pipe \in Seq(Codes) /\ pipe # << >> /\ main = "read"
      /\ pipe' = Tail(pipe) /\ Head(pipe) \in Codes
      /\ UNCHANGED <<thing, task, code, late>>
      /\ main' = IF Head(pipe) = 0 THEN "fork" ELSE "exited"
  BY DEF Read, TypeOK
<1>2. /\ Tail(pipe) \in Seq(Codes) /\ Len(Tail(pipe)) = Len(pipe) - 1
      /\ Len(pipe) \in Nat /\ Len(pipe) > 0
      /\ \A p \in 1 .. Len(pipe) - 1 : Tail(pipe)[p] = pipe[p + 1]
      /\ DOMAIN Tail(pipe) = 1 .. Len(pipe) - 1
      /\ DOMAIN pipe = 1 .. Len(pipe)
      /\ Head(pipe) = pipe[1]
  BY <1>1
<1>3. TypeOK' BY <1>1, <1>2 DEF TypeOK
<1>4. ForkedInOrder' BY <1>1 DEF ForkedInOrder
<1>5. TokensConserved'
  <2>1. Running' = Running /\ Returning' = Returning
    BY <1>1 DEF Running, Returning
  <2>2. InHand = 0 /\ Eaten = 0 BY <1>1 DEF InHand, Eaten
  <2>3. (InHand' = 1 /\ Eaten' = 0) \/ (InHand' = 0 /\ Eaten' = 1)
    BY <1>1 DEF InHand, Eaten
  <2>4. Cardinality(Running) \in Nat /\ Cardinality(Returning) \in Nat
    BY FiniteStages
  <2>5. /\ Cardinality(Running)' = Cardinality(Running)
        /\ Cardinality(Returning)' = Cardinality(Returning)
    BY <2>1
  <2>6. Len(pipe)' = Len(pipe) - 1 /\ Len(pipe) \in Nat BY <1>1, <1>2
  <2> QED BY <2>2, <2>3, <2>4, <2>5, <2>6 DEF TokensConserved
<1>6. LateBounded'
  <2>1. CASE Head(pipe) # 0
    BY <2>1, <1>1 DEF LateBounded
  <2>2. CASE Head(pipe) = 0
    <3>1. main' = "fork" /\ InHand' = 1 /\ InHand = 0
      BY <2>2, <1>1 DEF InHand
    <3>2. FailureInPipe => FailureInPipe'
      <4> SUFFICES ASSUME NEW p \in DOMAIN pipe, pipe[p] # 0
                   PROVE  FailureInPipe'
        BY DEF FailureInPipe
      <4>1. p # 1 BY <2>2, <1>2
      <4>2. p - 1 \in 1 .. Len(pipe) - 1 /\ (p - 1) + 1 = p BY <4>1, <1>2
      <4>3. pipe'[p - 1] = pipe[p] BY <4>2, <1>1, <1>2
      <4> QED BY <4>2, <4>3, <1>1, <1>2 DEF FailureInPipe
    <3>3. ASSUME FailureInPipe', NEW n \in 0 .. Len(pipe'), Zeros(n)'
          PROVE  late' + n + InHand' <= NT - 1
      <4>1. FailureInPipe
        <5> SUFFICES ASSUME NEW p \in 1 .. Len(pipe) - 1, pipe'[p] # 0
                     PROVE  FailureInPipe
          BY <3>3, <1>1, <1>2 DEF FailureInPipe
        <5>1. pipe[p + 1] # 0 /\ p + 1 \in DOMAIN pipe BY <1>1, <1>2
        <5> QED BY <5>1 DEF FailureInPipe
      <4>2. n \in 0 .. Len(pipe) - 1 BY <1>1, <1>2
      <4>3. ASSUME NEW q \in 1 .. n + 1 PROVE pipe[q] = 0
        <5>1. CASE q = 1 BY <5>1, <2>2, <1>2
        <5>2. CASE q # 1
          <6>1. q - 1 \in 1 .. n /\ q - 1 \in 1 .. Len(pipe) - 1
                /\ (q - 1) + 1 = q
            BY <5>2, <4>2, <1>2
          <6>2. pipe'[q - 1] = 0 BY <6>1, <3>3 DEF Zeros
          <6> QED BY <6>1, <6>2, <1>1, <1>2
        <5> QED BY <5>1, <5>2
      <4>4. Zeros(n + 1) BY <4>3 DEF Zeros
      <4>5. n + 1 \in 0 .. Len(pipe) BY <4>2, <1>2
      <4>6. late + (n + 1) + InHand <= NT - 1
        BY <4>1, <4>4, <4>5, <1>1 DEF LateBounded
      <4> QED BY <4>2, <4>6, <3>1, <1>1, <1>2 DEF TypeOK
    <3>4. late' > 0 => late' <= NT - 1 BY <1>1 DEF LateBounded
    <3> QED BY <3>1, <3>2, <3>3, <3>4, <1>1 DEF LateBounded
  <2> QED BY <2>1, <2>2
<1> QED BY <1>3, <1>4, <1>5, <1>6

-----------------------------------------------------------------------------
\* Forking: the token in hand goes to the child.
LEMMA ForkStep == ASSUME PoolInv, Fork PROVE PoolInv'
<1> USE DEF PoolInv
<1>1. /\ main = "fork" /\ thing \in Task /\ task[thing] = "none"
      /\ task' = [task EXCEPT ![thing] = "runs"]
      /\ thing' = thing + 1
      /\ main' = IF thing = NTasks THEN "wait" ELSE "read"
      /\ late' = IF FailureInPipe THEN late + 1 ELSE late
      /\ UNCHANGED <<pipe, code>>
  BY DEF Fork, TypeOK, ForkedInOrder, Task
<1>2. TypeOK' BY <1>1 DEF TypeOK, Task
<1>3. ForkedInOrder' BY <1>1 DEF ForkedInOrder, TypeOK, Task
<1>4. TokensConserved'
  <2>1. Running' = Running \cup {thing} /\ thing \notin Running
    BY <1>1 DEF Running, TypeOK
  <2>2. Returning' = Returning BY <1>1 DEF Returning, TypeOK
  <2>3. Cardinality(Running)' = Cardinality(Running) + 1
    BY <2>1, FiniteStages, FS_AddElement
  <2>4. Cardinality(Returning)' = Cardinality(Returning) BY <2>2
  <2>5. InHand = 1 /\ InHand' = 0 /\ Eaten = 0 /\ Eaten' = 0
    BY <1>1 DEF InHand, Eaten
  <2>6. Cardinality(Running) \in Nat /\ Cardinality(Returning) \in Nat
    BY FiniteStages
  <2>7. Len(pipe)' = Len(pipe) /\ Len(pipe) \in Nat BY <1>1 DEF TypeOK
  <2> QED BY <2>3, <2>4, <2>5, <2>6, <2>7 DEF TokensConserved
<1>5. LateBounded'
  <2>1. InHand = 1 /\ InHand' = 0 BY <1>1 DEF InHand
  <2>2. FailureInPipe' <=> FailureInPipe BY <1>1 DEF FailureInPipe
  <2>3. CASE ~ FailureInPipe BY <2>2, <2>3, <1>1 DEF LateBounded
  <2>4. CASE FailureInPipe
    <3>1. Len(pipe) \in Nat BY DEF TypeOK
    <3>2. 0 \in 0 .. Len(pipe) /\ Zeros(0) BY <3>1 DEF Zeros
    <3>3. late + 0 + 1 <= NT - 1
      BY <2>1, <2>4, <3>2, <1>1 DEF LateBounded
    <3>4. late' = late + 1 /\ late' <= NT - 1
      BY <2>4, <3>3, <1>1 DEF TypeOK
    <3>5. ASSUME NEW n \in 0 .. Len(pipe'), Zeros(n)'
          PROVE  late' + n + InHand' <= NT - 1
      <4>1. n \in 0 .. Len(pipe) /\ Zeros(n) BY <3>5, <1>1 DEF Zeros
      <4>2. late + n + 1 <= NT - 1
        BY <4>1, <2>1, <2>4, <1>1 DEF LateBounded
      <4> QED BY <4>1, <4>2, <3>1, <3>4, <2>1 DEF TypeOK
    <3> QED BY <3>4, <3>5, <2>2, <2>4 DEF LateBounded
  <2> QED BY <2>3, <2>4
<1> QED BY <1>2, <1>3, <1>4, <1>5

\* The wait at the end.
LEMMA WaitStep == ASSUME PoolInv, Wait PROVE PoolInv'
<1> USE DEF PoolInv
<1>1. /\ main = "wait" /\ main' = "ended"
      /\ UNCHANGED <<pipe, thing, task, code, late>>
  BY DEF Wait
<1>2. TypeOK' BY <1>1 DEF TypeOK
<1>3. ForkedInOrder' BY <1>1 DEF ForkedInOrder
<1>4. InHand' = InHand /\ Eaten' = Eaten BY <1>1 DEF InHand, Eaten
<1>5. TokensConserved'
  BY <1>1, <1>4 DEF TokensConserved, Running, Returning
<1>6. LateBounded'
  BY <1>1, <1>4 DEF LateBounded, FailureInPipe, Zeros
<1> QED BY <1>2, <1>3, <1>5, <1>6

-----------------------------------------------------------------------------
\* A task returns: it keeps its token until it pushes its code.
LEMMA ReturnStep ==
  ASSUME PoolInv, NEW t \in Task, NEW c \in Codes, Return(t, c)
  PROVE  PoolInv'
<1> USE DEF PoolInv
<1>1. /\ task[t] = "runs"
      /\ task' = [task EXCEPT ![t] = "returned"]
      /\ code' = [code EXCEPT ![t] = c]
      /\ UNCHANGED <<pipe, main, thing, late>>
  BY DEF Return
<1>2. TypeOK' BY <1>1 DEF TypeOK
<1>3. ForkedInOrder' BY <1>1 DEF ForkedInOrder, TypeOK
<1>4. InHand' = InHand /\ Eaten' = Eaten BY <1>1 DEF InHand, Eaten
<1>5. TokensConserved'
  <2>1. Running' = Running \ {t} /\ t \in Running
    BY <1>1 DEF Running, TypeOK
  <2>2. Returning' = Returning \cup {t} /\ t \notin Returning
    BY <1>1 DEF Returning, TypeOK
  <2>3. Cardinality(Running)' = Cardinality(Running) - 1
    BY <2>1, FiniteStages, FS_RemoveElement
  <2>4. Cardinality(Returning)' = Cardinality(Returning) + 1
    BY <2>2, FiniteStages, FS_AddElement
  <2>5. Cardinality(Running) \in Nat /\ Cardinality(Returning) \in Nat
    BY FiniteStages
  <2>6. InHand \in Nat /\ Eaten \in Nat BY DEF InHand, Eaten
  <2>7. Len(pipe)' = Len(pipe) /\ Len(pipe) \in Nat BY <1>1 DEF TypeOK
  <2> QED BY <2>3, <2>4, <2>5, <2>6, <2>7, <1>4 DEF TokensConserved
<1>6. LateBounded'
  BY <1>1, <1>4 DEF LateBounded, FailureInPipe, Zeros
<1> QED BY <1>2, <1>3, <1>5, <1>6

\* A task pushes its code and ends.  If the code is the first failure in the
\* pipe, all the other tokens are before it, in hand or with other tasks.
LEMMA PushStep ==
  ASSUME PoolInv, NEW t \in Task, Push(t)
  PROVE  PoolInv'
<1> USE DEF PoolInv
<1>1. /\ task[t] = "returned"
      /\ pipe' = Append(pipe, code[t])
      /\ task' = [task EXCEPT ![t] = "gone"]
      /\ UNCHANGED <<main, thing, code, late>>
      /\ code[t] \in Codes
  BY DEF Push, TypeOK
<1>2. /\ pipe' \in Seq(Codes)
      /\ Len(pipe) \in Nat
      /\ Len(pipe') = Len(pipe) + 1
      /\ \A p \in 1 .. Len(pipe) : pipe'[p] = pipe[p]
      /\ pipe'[Len(pipe) + 1] = code[t]
      /\ DOMAIN pipe = 1 .. Len(pipe)
      /\ DOMAIN pipe' = 1 .. Len(pipe) + 1
  BY <1>1 DEF TypeOK
<1>3. TypeOK' BY <1>1, <1>2 DEF TypeOK
<1>4. ForkedInOrder' BY <1>1 DEF ForkedInOrder, TypeOK
<1>5. InHand' = InHand /\ Eaten' = Eaten BY <1>1 DEF InHand, Eaten
<1>6. InHand \in Nat /\ Eaten \in Nat BY DEF InHand, Eaten
<1>7. Returning' = Returning \ {t} /\ t \in Returning /\ Running' = Running
  BY <1>1 DEF Returning, Running, TypeOK
<1>8. /\ Cardinality(Returning)' = Cardinality(Returning) - 1
      /\ Cardinality(Returning)' \in Nat
  <2>1. IsFiniteSet(Returning) /\ IsFiniteSet(Returning \ {t})
    BY FiniteStages, FS_Subset
  <2> QED BY <2>1, <1>7, FS_RemoveElement, FS_CardinalityType
<1>9. /\ Cardinality(Running)' = Cardinality(Running)
      /\ Cardinality(Running) \in Nat /\ Cardinality(Returning) \in Nat
  BY <1>7, FiniteStages
<1>10. TokensConserved'
  BY <1>2, <1>5, <1>6, <1>8, <1>9 DEF TokensConserved
<1>11. LateBounded'
  <2>1. FailureInPipe => FailureInPipe'
    BY <1>2 DEF FailureInPipe
  <2>2. ASSUME main' # "exited", FailureInPipe', NEW n \in 0 .. Len(pipe'),
               Zeros(n)'
        PROVE  late' + n + InHand' <= NT - 1
    <3>1. n \in 0 .. Len(pipe)
      <4>1. n # Len(pipe) + 1
        BY <2>2, <1>2 DEF Zeros, FailureInPipe
      <4> QED BY <4>1, <1>2
    <3>2. Zeros(n) BY <2>2, <3>1, <1>2 DEF Zeros
    <3>3. CASE FailureInPipe
      BY <3>1, <3>2, <3>3, <2>2, <1>1, <1>5 DEF LateBounded
    <3>4. CASE ~ FailureInPipe
      <4>1. late' = 0 BY <3>4, <2>2, <1>1 DEF LateBounded
      <4>2. Eaten = 0 BY <2>2, <1>1 DEF Eaten
      <4>3. Cardinality(Returning) >= 1 BY <1>8, <1>9
      <4>4. Len(pipe) + InHand <= NT - 1
        BY <4>2, <4>3, <1>2, <1>6, <1>9 DEF TokensConserved
      <4> QED BY <3>1, <4>1, <4>4, <1>2, <1>5, <1>6
    <3> QED BY <3>3, <3>4
  <2> QED BY <2>1, <2>2, <1>1 DEF LateBounded
<1> QED BY <1>3, <1>4, <1>10, <1>11

-----------------------------------------------------------------------------
\* Every step of the script and of its children keeps the invariant.
LEMMA PoolStep == PoolInv /\ [Next]_vars => PoolInv'
<1> SUFFICES ASSUME PoolInv, [Next]_vars PROVE PoolInv' OBVIOUS
<1>1. CASE Read BY <1>1, ReadStep
<1>2. CASE Fork BY <1>2, ForkStep
<1>3. CASE Wait BY <1>3, WaitStep
<1>4. ASSUME NEW t \in Task, NEW c \in Codes, Return(t, c) PROVE PoolInv'
  BY <1>4, ReturnStep
<1>5. ASSUME NEW t \in Task, Push(t) PROVE PoolInv' BY <1>5, PushStep
<1>6. CASE UNCHANGED vars
  BY <1>6 DEF vars, PoolInv, TypeOK, ForkedInOrder, TokensConserved,
              LateBounded, Zeros, FailureInPipe, InHand, Eaten,
              Running, Returning
<1> QED BY <1>1, <1>2, <1>3, <1>4, <1>5, <1>6 DEF Next, Over

\* The inductive invariant of the semaphore holds throughout.
THEOREM PoolCorrect == Spec => []PoolInv
BY PoolInit, PoolStep, PTL DEF Spec

\* Every token is in the pipe, in the loop's hand or with one child, but for
\* the one that ended the script.
THEOREM TokensTheorem == Spec => []TokensConserved
<1>1. PoolInv => TokensConserved BY DEF PoolInv
<1> QED BY <1>1, PoolCorrect, PTL

\* "Number of threads to use": at most NT tasks run at a time.
THEOREM AtMostNT == Spec => [](Cardinality(Running) <= NT)
<1>1. PoolInv => Cardinality(Running) <= NT
  <2> SUFFICES ASSUME PoolInv PROVE Cardinality(Running) <= NT OBVIOUS
  <2> USE DEF PoolInv
  <2>1. /\ Cardinality(Running) \in Nat /\ Cardinality(Returning) \in Nat
        /\ Len(pipe) \in Nat
    BY FiniteStages DEF TypeOK
  <2>2. InHand \in Nat /\ Eaten \in Nat BY DEF InHand, Eaten
  <2> QED BY <2>1, <2>2 DEF TokensConserved
<1> QED BY <1>1, PoolCorrect, PTL

\* At most NT - 1 tasks are forked after a failure has come into the pipe.
THEOREM NoticeTheorem == Spec => []SoonNoticed
<1>1. PoolInv => SoonNoticed BY DEF PoolInv, LateBounded, SoonNoticed
<1> QED BY <1>1, PoolCorrect, PTL

\* The variables of the script and of its children keep their types.
THEOREM PoolTypeTheorem == Spec => []TypeOK
<1>1. PoolInv => TypeOK BY DEF PoolInv
<1> QED BY <1>1, PoolCorrect, PTL

-----------------------------------------------------------------------------
(* The refinement: failures are counted by their tokens. *)

NonZero(s) == {p \in DOMAIN s : s[p] # 0}

FailuresCounted ==
  Cardinality(NonZero(pipe)) + Eaten = Cardinality(FailedTasks)

AllPassed == /\ main \in {"wait", "ended"} => thing = NTasks + 1
             /\ main = "ended" => Gone = Task

RefInv == PoolInv /\ FailuresCounted /\ AllPassed

-----------------------------------------------------------------------------
\* The nonzero tokens of a pipe are finitely many, at most as many as it has.
LEMMA NonZeroFinite ==
  ASSUME NEW s \in Seq(Codes)
  PROVE  /\ IsFiniteSet(NonZero(s)) /\ Cardinality(NonZero(s)) \in Nat
         /\ Cardinality(NonZero(s)) <= Len(s)
<1>1. Len(s) \in Nat /\ DOMAIN s = 1 .. Len(s) OBVIOUS
<1>2. IsFiniteSet(1 .. Len(s)) /\ Cardinality(1 .. Len(s)) = Len(s)
  BY <1>1, FS_Interval
<1>3. NonZero(s) \in SUBSET (1 .. Len(s)) BY <1>1 DEF NonZero
<1> QED BY <1>2, <1>3, FS_Subset, FS_CardinalityType

\* Reading a token takes one nonzero token from the pipe, or none.
LEMMA NonZeroTail ==
  ASSUME NEW s \in Seq(Codes), s # << >>
  PROVE  Cardinality(NonZero(s))
           = Cardinality(NonZero(Tail(s))) + IF Head(s) = 0 THEN 0 ELSE 1
<1> DEFINE Rest == NonZero(s) \ {1}
           f    == [p \in NonZero(Tail(s)) |-> p + 1]
<1>1. /\ Len(s) \in Nat /\ Len(s) > 0 /\ DOMAIN s = 1 .. Len(s)
      /\ Tail(s) \in Seq(Codes) /\ DOMAIN Tail(s) = 1 .. Len(s) - 1
      /\ \A p \in 1 .. Len(s) - 1 : Tail(s)[p] = s[p + 1]
      /\ Head(s) = s[1]
  OBVIOUS
<1>2. \A p \in NonZero(Tail(s)) : p \in Nat /\ p >= 1 /\ p + 1 \in Rest
  BY <1>1 DEF NonZero
<1>3. \A r \in Rest : r - 1 \in NonZero(Tail(s)) /\ (r - 1) + 1 = r
  <2> TAKE r \in Rest
  <2>1. r \in 2 .. Len(s) /\ s[r] # 0 BY <1>1 DEF NonZero
  <2>2. r - 1 \in 1 .. Len(s) - 1 /\ (r - 1) + 1 = r BY <1>1, <2>1
  <2>3. Tail(s)[r - 1] # 0 BY <1>1, <2>1, <2>2
  <2> QED BY <1>1, <2>2, <2>3 DEF NonZero
<1>4. f \in [NonZero(Tail(s)) -> Rest] BY <1>2
<1>5. \A p, q \in NonZero(Tail(s)) : f[p] = f[q] => p = q BY <1>2
<1>6. \A r \in Rest : \E p \in NonZero(Tail(s)) : f[p] = r BY <1>3
<1> HIDE DEF f
<1>7. f \in Bijection(NonZero(Tail(s)), Rest)
  BY <1>4, <1>5, <1>6 DEF Bijection, Injection, Surjection, IsInjective
<1>8. Cardinality(Rest) = Cardinality(NonZero(Tail(s)))
  BY <1>1, <1>7, NonZeroFinite, FS_Bijection DEF ExistsBijection
<1>9. 1 \in NonZero(s) <=> Head(s) # 0 BY <1>1 DEF NonZero
<1>10. Cardinality(NonZero(s)) \in Nat /\ Cardinality(NonZero(Tail(s))) \in Nat
  BY <1>1, NonZeroFinite
<1>11. Cardinality(Rest) = IF Head(s) = 0 THEN Cardinality(NonZero(s))
                                          ELSE Cardinality(NonZero(s)) - 1
  BY <1>9, NonZeroFinite, FS_RemoveElement
<1> QED BY <1>8, <1>10, <1>11

\* Pushing a token adds one nonzero token to the pipe, or none.
LEMMA NonZeroAppend ==
  ASSUME NEW s \in Seq(Codes), NEW c \in Codes
  PROVE  Cardinality(NonZero(Append(s, c)))
           = Cardinality(NonZero(s)) + IF c = 0 THEN 0 ELSE 1
<1>1. /\ Len(s) \in Nat /\ DOMAIN s = 1 .. Len(s)
      /\ DOMAIN Append(s, c) = 1 .. Len(s) + 1
      /\ \A p \in 1 .. Len(s) : Append(s, c)[p] = s[p]
      /\ Append(s, c)[Len(s) + 1] = c
  OBVIOUS
<1>2. Len(s) + 1 \notin NonZero(s) BY <1>1 DEF NonZero
<1>3. CASE c = 0
  <2>1. NonZero(Append(s, c)) = NonZero(s) BY <1>1, <1>3 DEF NonZero
  <2> QED BY <2>1, <1>3, NonZeroFinite
<1>4. CASE c # 0
  <2>1. NonZero(Append(s, c)) = NonZero(s) \cup {Len(s) + 1}
    BY <1>1, <1>4 DEF NonZero
  <2> QED BY <2>1, <1>2, <1>4, NonZeroFinite, FS_AddElement
<1> QED BY <1>3, <1>4

\* The failed tasks are finitely many.
LEMMA FailedFinite ==
  ASSUME TypeOK
  PROVE  IsFiniteSet(FailedTasks) /\ Cardinality(FailedTasks) \in Nat
<1>1. IsFiniteSet(Task) BY FS_Interval DEF Task
<1>2. FailedTasks \subseteq Task BY DEF FailedTasks, Gone
<1> QED BY <1>1, <1>2, FS_Subset, FS_CardinalityType

-----------------------------------------------------------------------------
\* At first no token is nonzero and no task has failed.
LEMMA RefInit == Init => RefInv
<1> SUFFICES ASSUME Init PROVE RefInv OBVIOUS
<1>1. PoolInv BY PoolInit
<1>2. NonZero(pipe) = {} /\ FailedTasks = {} /\ Eaten = 0
  BY DEF Init, NonZero, FailedTasks, Gone, Eaten
<1>3. FailuresCounted BY <1>2, FS_EmptySet DEF FailuresCounted
<1>4. AllPassed BY DEF Init, AllPassed
<1> QED BY <1>1, <1>3, <1>4 DEF RefInv

\* Every step keeps the count of the failures.
LEMMA RefStep == RefInv /\ [Next]_vars => RefInv'
<1> SUFFICES ASSUME RefInv, [Next]_vars PROVE RefInv' OBVIOUS
<1>1. PoolInv' BY PoolStep DEF RefInv
<1>2. TypeOK BY DEF RefInv, PoolInv
<1>3. pipe \in Seq(Codes) BY <1>2 DEF TypeOK
<1>4. CASE Read
  <2>1. /\ main = "read" /\ pipe # << >> /\ pipe' = Tail(pipe)
        /\ main' = IF Head(pipe) = 0 THEN "fork" ELSE "exited"
        /\ UNCHANGED <<thing, task, code>>
    BY <1>4 DEF Read
  <2>2. FailedTasks' = FailedTasks BY <2>1 DEF FailedTasks, Gone
  <2>3. Eaten = 0 /\ Eaten' = IF Head(pipe) = 0 THEN 0 ELSE 1
    BY <2>1 DEF Eaten
  <2>4. Cardinality(NonZero(pipe))
          = Cardinality(NonZero(pipe')) + IF Head(pipe) = 0 THEN 0 ELSE 1
    BY <1>3, <2>1, NonZeroTail
  <2>5. pipe' \in Seq(Codes) BY <1>3, <2>1
  <2>6. Cardinality(NonZero(pipe')) \in Nat BY <2>5, NonZeroFinite
  <2>7. NonZero(pipe)' = NonZero(pipe') BY DEF NonZero
  <2>8. FailuresCounted'
    BY <2>2, <2>3, <2>4, <2>6, <2>7 DEF RefInv, FailuresCounted
  <2>9. AllPassed' BY <2>1 DEF AllPassed
  <2> QED BY <1>1, <2>8, <2>9 DEF RefInv
<1>5. CASE Fork
  <2>1. /\ main = "fork" /\ thing \in Task /\ task[thing] = "none"
        /\ task' = [task EXCEPT ![thing] = "runs"] /\ thing' = thing + 1
        /\ main' = IF thing = NTasks THEN "wait" ELSE "read"
        /\ UNCHANGED <<pipe, code>>
    BY <1>2, <1>5 DEF Fork, TypeOK, RefInv, PoolInv, ForkedInOrder, Task
  <2>2. FailedTasks' = FailedTasks
    BY <1>2, <2>1 DEF FailedTasks, Gone, TypeOK
  <2>3. Eaten = 0 /\ Eaten' = 0 BY <2>1 DEF Eaten
  <2>4. FailuresCounted' BY <2>1, <2>2, <2>3 DEF RefInv, FailuresCounted, NonZero
  <2>5. AllPassed' BY <2>1 DEF AllPassed
  <2> QED BY <1>1, <2>4, <2>5 DEF RefInv
<1>6. CASE Wait
  <2>1. /\ main = "wait" /\ main' = "ended"
        /\ \A t \in Task : task[t] = "gone"
        /\ UNCHANGED <<pipe, thing, task, code>>
    BY <1>6 DEF Wait
  <2>2. FailuresCounted'
    BY <2>1 DEF RefInv, FailuresCounted, NonZero, FailedTasks, Gone, Eaten
  <2>3. AllPassed' BY <2>1 DEF RefInv, AllPassed, Gone
  <2> QED BY <1>1, <2>2, <2>3 DEF RefInv
<1>7. ASSUME NEW t \in Task, NEW c \in Codes, Return(t, c) PROVE RefInv'
  <2>1. /\ task[t] = "runs" /\ task' = [task EXCEPT ![t] = "returned"]
        /\ code' = [code EXCEPT ![t] = c] /\ UNCHANGED <<pipe, main, thing>>
    BY <1>7 DEF Return
  <2>2. FailedTasks' = FailedTasks
    BY <1>2, <2>1 DEF FailedTasks, Gone, TypeOK
  <2>3. FailuresCounted'
    BY <2>1, <2>2 DEF RefInv, FailuresCounted, NonZero, Eaten
  <2>4. AllPassed' BY <2>1 DEF RefInv, AllPassed, Gone
  <2> QED BY <1>1, <2>3, <2>4 DEF RefInv
<1>8. ASSUME NEW t \in Task, Push(t) PROVE RefInv'
  <2>1. /\ task[t] = "returned" /\ pipe' = Append(pipe, code[t])
        /\ task' = [task EXCEPT ![t] = "gone"] /\ code[t] \in Codes
        /\ UNCHANGED <<main, thing, code>>
    BY <1>2, <1>8 DEF Push, TypeOK
  <2>2. /\ t \notin FailedTasks
        /\ FailedTasks' = IF code[t] = 0 THEN FailedTasks
                                         ELSE FailedTasks \cup {t}
    BY <1>2, <2>1 DEF FailedTasks, Gone, TypeOK
  <2>3. Cardinality(FailedTasks') = Cardinality(FailedTasks)
                                      + IF code[t] = 0 THEN 0 ELSE 1
    <3>1. IsFiniteSet(FailedTasks) /\ Cardinality(FailedTasks) \in Nat
      BY <1>2, FailedFinite
    <3>2. Cardinality(FailedTasks \cup {t}) = Cardinality(FailedTasks) + 1
      BY <2>2, <3>1, FS_AddElement
    <3> QED BY <2>2, <3>1, <3>2
  <2>4. Cardinality(NonZero(pipe')) = Cardinality(NonZero(pipe))
                                        + IF code[t] = 0 THEN 0 ELSE 1
    BY <1>3, <2>1, NonZeroAppend
  <2>5. Eaten' = Eaten /\ Eaten \in Nat BY <2>1 DEF Eaten
  <2>6. Cardinality(NonZero(pipe)) \in Nat BY <1>3, NonZeroFinite
  <2>7. NonZero(pipe)' = NonZero(pipe') BY DEF NonZero
  <2>8. Cardinality(FailedTasks)' = Cardinality(FailedTasks') OBVIOUS
  <2>9. FailuresCounted'
    BY <2>3, <2>4, <2>5, <2>6, <2>7, <2>8 DEF RefInv, FailuresCounted
  <2>10. AllPassed' BY <1>2, <2>1 DEF RefInv, AllPassed, Gone, TypeOK
  <2> QED BY <1>1, <2>9, <2>10 DEF RefInv
<1>9. CASE UNCHANGED vars
  BY <1>1, <1>9 DEF vars, RefInv, FailuresCounted, AllPassed, NonZero,
                    FailedTasks, Gone, Eaten
<1> QED BY <1>4, <1>5, <1>6, <1>7, <1>8, <1>9 DEF Next, Over

\* Every failed task has a nonzero token of its own, and an ended script has
\* gone through all its tasks.
THEOREM FailuresTheorem == Spec => []RefInv
BY RefInit, RefStep, PTL DEF Spec

-----------------------------------------------------------------------------
From(a) == [n \in 1 .. NTasks + 1 - a |-> a + n - 1]

\* What is left to do is a sequence; its head is the loop variable, and the
\* next pass of the loop leaves the tail.
LEMMA FromSteps ==
  ASSUME NEW a \in Task
  PROVE  From(a) # << >> /\ Head(From(a)) = a /\ Tail(From(a)) = From(a + 1)
<1>1. a \in Nat /\ a >= 1 /\ a <= NTasks BY DEF Task
<1>2. NTasks + 1 - a \in Nat /\ NTasks + 1 - a >= 1 BY <1>1
<1>3. From(a) \in Seq(Nat) /\ Len(From(a)) = NTasks + 1 - a
  BY <1>1, <1>2 DEF From
<1>4. From(a) # << >> BY <1>2, <1>3
<1>5. From(a)[1] = a BY <1>1, <1>2 DEF From
<1>6. Tail(From(a)) = From(a + 1)
  <2>1. /\ Tail(From(a)) \in Seq(Nat) /\ Len(Tail(From(a))) = NTasks - a
        /\ \A n \in 1 .. NTasks - a : Tail(From(a))[n] = From(a)[n + 1]
    BY <1>1, <1>2, <1>3, <1>4
  <2>2. \A n \in 1 .. NTasks - a : From(a)[n + 1] = (a + 1) + n - 1
    BY <1>1, <1>2 DEF From
  <2>3. From(a + 1) = [n \in 1 .. NTasks - a |-> (a + 1) + n - 1]
    <3>1. NTasks + 1 - (a + 1) = NTasks - a BY <1>1
    <3> QED BY <3>1 DEF From
  <2>4. From(a + 1) \in Seq(Nat) /\ Len(From(a + 1)) = NTasks - a
    BY <1>1, <2>3
  <2> QED BY <1>1, <2>1, <2>2, <2>3, <2>4, SeqEqual
<1> QED BY <1>3, <1>4, <1>5, <1>6

\* The script starts as a fresh pool.
LEMMA PromiseInit == Init => Promise!Init
<1> SUFFICES ASSUME Init PROVE Promise!Init OBVIOUS
<1>1. Running = {} /\ Returning = {} /\ Gone = {}
  BY DEF Init, Running, Returning, Gone
<1>2. thing = 1 /\ main = "read" BY DEF Init
<1>3. Todo = [t \in Task |-> t]
  <2>1. NTasks + 1 - thing = NTasks BY <1>2
  <2>2. \A n \in 1 .. NTasks : thing + n - 1 = n BY <1>2
  <2> QED BY <2>1, <2>2 DEF Task, Todo
<1> QED BY <1>1, <1>2, <1>3 DEF Promise!Init, FailedTasks, Status

\* The promise counts with the same Cardinality.
LEMMA SameCardinality == \A S : Promise!Cardinality(S) = Cardinality(S)
BY DEF Promise!Cardinality, Cardinality

\* A task holds a place while it runs and for good when it has failed, so
\* that the token in the loop's hand is a free place.
LEMMA PlaceFree ==
  ASSUME RefInv, main = "fork"
  PROVE  Cardinality(Running \cup Returning) + Cardinality(FailedTasks) < NT
<1>1. TypeOK BY DEF RefInv, PoolInv
<1>2. /\ IsFiniteSet(Running) /\ IsFiniteSet(Returning)
      /\ Cardinality(Running) \in Nat /\ Cardinality(Returning) \in Nat
  BY <1>1, FiniteStages
<1>3. Running \cap Returning = {} BY DEF Running, Returning
<1>4. Cardinality(Running \cup Returning)
        = Cardinality(Running) + Cardinality(Returning)
  <2>1. Cardinality(Running \cup Returning)
          = Cardinality(Running) + Cardinality(Returning)
              - Cardinality(Running \cap Returning)
    BY <1>2, FS_Union
  <2> QED BY <2>1, <1>2, <1>3, FS_EmptySet
<1>5. InHand = 1 /\ Eaten = 0 BY DEF InHand, Eaten
<1>6. /\ Cardinality(NonZero(pipe)) <= Len(pipe) /\ Len(pipe) \in Nat
      /\ Cardinality(NonZero(pipe)) \in Nat
  BY <1>1, NonZeroFinite DEF TypeOK
<1>7. Cardinality(FailedTasks) = Cardinality(NonZero(pipe))
  BY <1>5, <1>6 DEF RefInv, FailuresCounted
<1>8. Len(pipe) + 1 + Cardinality(Running) + Cardinality(Returning) = NT
  BY <1>2, <1>5, <1>6 DEF RefInv, PoolInv, TokensConserved
<1> QED BY <1>2, <1>4, <1>6, <1>7, <1>8

\* Every step of the script and its children is a step of the pool, or none:
\* a token taken, and a code not yet pushed, do not show.
LEMMA PromiseStep == RefInv /\ [Next]_vars => [Promise!Next]_(Promise!pool)
<1> SUFFICES ASSUME RefInv, [Next]_vars PROVE [Promise!Next]_(Promise!pool)
  OBVIOUS
<1>1. TypeOK /\ ForkedInOrder BY DEF RefInv, PoolInv
<1>2. Todo = From(thing) /\ Todo' = From(thing') BY DEF Todo, From
<1> USE DEF Promise!Next, Promise!pool
<1>3. CASE Read
  <2>1. /\ main = "read" /\ pipe # << >> /\ thing \in Task
        /\ main' = IF Head(pipe) = 0 THEN "fork" ELSE "exited"
        /\ UNCHANGED <<thing, task, code>>
    BY <1>1, <1>3 DEF Read, TypeOK, ForkedInOrder, Task
  <2>2. FailedTasks' = FailedTasks /\ Running' = Running /\ Returning' = Returning
    BY <2>1 DEF FailedTasks, Gone, Running, Returning
  <2>3. Todo' = Todo BY <1>2, <2>1
  <2>4. CASE Head(pipe) = 0
    <3>1. Status' = Status BY <2>1, <2>4 DEF Status
    <3> QED BY <2>2, <2>3, <3>1
  <2>5. CASE Head(pipe) # 0
    <3>1. FailedTasks # {}
      <4>1. pipe \in Seq(Codes) BY <1>1 DEF TypeOK
      <4>2. 1 \in NonZero(pipe) BY <2>1, <2>5, <4>1 DEF NonZero
      <4>3. Cardinality(NonZero(pipe)) # 0
        BY <4>1, <4>2, NonZeroFinite, FS_EmptySet
      <4>4. Eaten = 0 BY <2>1 DEF Eaten
      <4>5. Cardinality(FailedTasks) # 0
        BY <4>1, <4>3, <4>4, NonZeroFinite DEF RefInv, FailuresCounted
      <4> QED BY <4>5, FS_EmptySet
    <3>2. Status = "runs" /\ Status' = "exited" BY <2>1, <2>5 DEF Status
    <3>3. Todo # << >> BY <1>2, <2>1, FromSteps
    <3>4. Promise!Exit BY <2>2, <2>3, <3>1, <3>2, <3>3 DEF Promise!Exit
    <3> QED BY <3>4
  <2> QED BY <2>4, <2>5
<1>4. CASE Fork
  <2>1. /\ main = "fork" /\ thing \in Task /\ task[thing] = "none"
        /\ task' = [task EXCEPT ![thing] = "runs"] /\ thing' = thing + 1
        /\ main' = IF thing = NTasks THEN "wait" ELSE "read"
        /\ UNCHANGED <<pipe, code>>
    BY <1>1, <1>4 DEF Fork, TypeOK, ForkedInOrder, Task
  <2>2. /\ Running' = Running \cup {thing} /\ Returning' = Returning
        /\ FailedTasks' = FailedTasks
    BY <1>1, <2>1 DEF FailedTasks, Gone, Running, Returning, TypeOK
  <2>3. Todo # << >> /\ Head(Todo) = thing /\ Todo' = Tail(Todo)
    BY <1>2, <2>1, FromSteps
  <2>4. Status = "runs" /\ Status' = Status BY <2>1 DEF Status
  <2>5. Promise!Cardinality(Running \cup Returning)
          + Promise!Cardinality(FailedTasks) < NT
    BY <2>1, PlaceFree, SameCardinality
  <2>6. Promise!Fork BY <2>2, <2>3, <2>4, <2>5 DEF Promise!Fork
  <2> QED BY <2>6
<1>5. CASE Wait
  <2>1. /\ main = "wait" /\ main' = "ended" /\ thing = NTasks + 1
        /\ \A t \in Task : task[t] = "gone"
        /\ UNCHANGED <<pipe, thing, task, code>>
    BY <1>5 DEF Wait, RefInv, AllPassed
  <2>2. /\ Running = {} /\ Returning = {} /\ Running' = {} /\ Returning' = {}
        /\ FailedTasks' = FailedTasks
    BY <2>1 DEF FailedTasks, Gone, Running, Returning
  <2>3. Todo = << >> /\ Todo' = Todo
    <3>1. NTasks + 1 - thing = 0 BY <2>1
    <3> QED BY <2>1, <3>1 DEF Todo
  <2>4. Status = "runs" /\ Status' = "ended" BY <2>1 DEF Status
  <2>5. Promise!End BY <2>2, <2>3, <2>4 DEF Promise!End
  <2> QED BY <2>5
<1>6. ASSUME NEW t \in Task, NEW c \in Codes, Return(t, c)
      PROVE  UNCHANGED Promise!pool
  <2>1. /\ task[t] = "runs" /\ task' = [task EXCEPT ![t] = "returned"]
        /\ code' = [code EXCEPT ![t] = c] /\ UNCHANGED <<main, thing>>
    BY <1>6 DEF Return
  <2>2. /\ FailedTasks' = FailedTasks
        /\ (Running \cup Returning)' = Running \cup Returning
    BY <1>1, <2>1 DEF FailedTasks, Gone, Running, Returning, TypeOK
  <2>3. Todo' = Todo /\ Status' = Status BY <1>2, <2>1 DEF Status
  <2> QED BY <2>2, <2>3
<1>7. ASSUME NEW t \in Task, Push(t) PROVE Promise!Next
  <2>1. /\ task[t] = "returned" /\ task' = [task EXCEPT ![t] = "gone"]
        /\ UNCHANGED <<main, thing, code>>
    BY <1>7 DEF Push
  <2>2. /\ t \in Running \cup Returning
        /\ (Running \cup Returning)' = (Running \cup Returning) \ {t}
        /\ FailedTasks' = IF code[t] = 0 THEN FailedTasks
                                         ELSE FailedTasks \cup {t}
    BY <1>1, <2>1 DEF FailedTasks, Gone, Running, Returning, TypeOK
  <2>3. Todo' = Todo /\ Status' = Status BY <1>2, <2>1 DEF Status
  <2>4. CASE code[t] = 0
    <3>1. Promise!Finish(t, TRUE)
      BY <2>2, <2>3, <2>4 DEF Promise!Finish
    <3> QED BY <2>2, <3>1
  <2>5. CASE code[t] # 0
    <3>1. Promise!Finish(t, FALSE)
      BY <2>2, <2>3, <2>5 DEF Promise!Finish
    <3> QED BY <2>2, <3>1
  <2> QED BY <2>4, <2>5
<1>8. CASE UNCHANGED vars
  BY <1>8 DEF vars, FailedTasks, Gone, Running, Returning, Todo, Status
<1> QED BY <1>3, <1>4, <1>5, <1>6, <1>7, <1>8 DEF Next, Over

\* The pipe implements the pool: tasks in order, NT places of which a failed
\* task gives none back, an early exit only over a failure, and an end only
\* when every task has finished.
THEOREM PoolImplementsPromise == Spec => ImplementsPool
<1>1. Init => Promise!Init BY PromiseInit
<1>2. RefInv /\ [Next]_vars => [Promise!Next]_(Promise!pool) BY PromiseStep
<1>3. Spec => []RefInv BY FailuresTheorem
<1> QED BY <1>1, <1>2, <1>3, PTL DEF Spec, ImplementsPool, Promise!Spec

\* When the wait has returned, the failures that were not noticed are all in
\* the pipe: no more than NT of them.
THEOREM UnnoticedTheorem == Spec => []UnnoticedAreLast
<1>1. RefInv => UnnoticedAreLast
  <2> SUFFICES ASSUME RefInv, main = "ended"
               PROVE  /\ Gone = Task /\ Len(pipe) = NT
                      /\ Cardinality({t \in Task : code[t] # 0})
                           = Cardinality({p \in DOMAIN pipe : pipe[p] # 0})
    BY DEF UnnoticedAreLast
  <2>1. TypeOK /\ TokensConserved BY DEF RefInv, PoolInv
  <2>2. Gone = Task BY DEF RefInv, AllPassed
  <2>3. Running = {} /\ Returning = {}
    BY <2>2 DEF Running, Returning, Gone
  <2>4. InHand = 0 /\ Eaten = 0 BY DEF InHand, Eaten
  <2>5. Len(pipe) = NT
    BY <2>1, <2>3, <2>4, FS_EmptySet DEF TokensConserved, TypeOK
  <2>6. Cardinality(NonZero(pipe)) \in Nat
    BY <2>1, NonZeroFinite DEF TypeOK
  <2>7. {t \in Task : code[t] # 0} = FailedTasks BY <2>2 DEF FailedTasks
  <2>8. Cardinality(NonZero(pipe)) = Cardinality(FailedTasks)
    BY <2>4, <2>6 DEF RefInv, FailuresCounted
  <2> QED BY <2>2, <2>5, <2>7, <2>8 DEF NonZero
<1> QED BY <1>1, FailuresTheorem, PTL

-----------------------------------------------------------------------------
(* The programs *)

\* Quotient and remainder.
LEMMA Division ==
  ASSUME NEW x \in Nat, NEW w \in Nat \ {0}
  PROVE  /\ x \div w \in Nat /\ x % w \in 0 .. w - 1
         /\ x = w * (x \div w) + (x % w)
OBVIOUS

\* A counter is a block after any number of increments.
LEMMA CounterIsBlock ==
  ASSUME NEW v \in Block, NEW n \in Nat
  PROVE  Counter(v, n) \in Block
<1>1. v + n \in Nat /\ Wrap \in Nat \ {0} BY RngAssumption DEF Block
<1> QED BY <1>1, Division DEF Counter, Block

\* A seed takes three blocks.
LEMMA BlocksOfSeed == Blocks(SeedLen) = 3
BY RngAssumption DEF Blocks, SeedLen

-----------------------------------------------------------------------------
(* The states of the generator *)

\* A request takes a whole number of blocks.
LEMMA BlocksAreNat == ASSUME NEW n \in Nat PROVE Blocks(n) \in Nat
<1>1. n + BlockLen - 1 \in Nat /\ BlockLen \in Nat \ {0} BY RngAssumption
<1> QED BY <1>1, Division DEF Blocks

\* An update leaves a state of the generator.
LEMMA UpdateIsState ==
  ASSUME NEW c \in State, NEW p \in Seed
  PROVE  AES256_CTR_DRBG_Update(p, c) \in State
<1>1. c.Key \in Key /\ c.V \in Block BY DEF State
<1>2. p[1] \in Block /\ p[2] \in Block /\ p[3] \in Block BY DEF Seed
<1>3. \A n \in 1 .. 3 : Aes(c.Key, Counter(c.V, n)) \in Block
  BY <1>1, CounterIsBlock, RngAssumption
<1>4. \A n \in 1 .. 3 : Xor(Aes(c.Key, Counter(c.V, n)), p[n]) \in Block
  BY <1>2, <1>3, RngAssumption
<1> QED BY <1>4 DEF AES256_CTR_DRBG_Update, State, Key

\* Zero is a block.
LEMMA ZeroIsBlock == 0 \in Block
BY RngAssumption DEF Block

\* The generator before it is seeded is a state.
LEMMA UnseededIsState == Unseeded \in State
BY ZeroIsBlock DEF Unseeded, State, Key

\* Seeding leaves a state.
LEMMA InitIsState ==
  ASSUME NEW e \in Seed PROVE randombytes_init(e) \in State
BY UnseededIsState, UpdateIsState DEF randombytes_init

\* A request leaves a state.
LEMMA AfterIsState ==
  ASSUME NEW c \in State, NEW n \in Nat PROVE After(c, n) \in State
<1>1. Counter(c.V, Blocks(n)) \in Block BY BlocksAreNat, CounterIsBlock DEF State
<1>2. Advanced(c, n) \in State BY <1>1 DEF Advanced, State
<1>3. <<0, 0, 0>> \in Seed BY ZeroIsBlock DEF Seed
<1> QED BY <1>2, <1>3, UpdateIsState DEF After

\* A request for a seed gives one, and reading it back gives the same.
LEMMA DrawnIsSeed ==
  ASSUME NEW c \in State
  PROVE  Drawn(c, SeedLen) \in Seed /\ ReadHex(Drawn(c, SeedLen), 3) = Drawn(c, SeedLen)
<1> DEFINE B(b) == Aes(c.Key, Counter(c.V, b))
<1>1. c.Key \in Key /\ c.V \in Block BY DEF State
<1>2. \A b \in 1 .. 3 : B(b) \in Block
  BY <1>1, CounterIsBlock, RngAssumption
<1>3. Drawn(c, SeedLen) = [b \in 1 .. 3 |-> B(b)] BY BlocksOfSeed DEF Drawn
<1> HIDE DEF B
<1>4. [b \in 1 .. 3 |-> B(b)] = <<B(1), B(2), B(3)>> OBVIOUS
<1>5. Drawn(c, SeedLen) \in Seed BY <1>2, <1>3, <1>4 DEF Seed
<1>6. Len(Drawn(c, SeedLen)) = 3 BY <1>3, <1>4
<1>7. ReadHex(Drawn(c, SeedLen), 3) = [b \in 1 .. 3 |-> Drawn(c, SeedLen)[b]]
  BY <1>6 DEF ReadHex
<1>8. [b \in 1 .. 3 |-> Drawn(c, SeedLen)[b]] = Drawn(c, SeedLen) BY <1>3
<1> QED BY <1>5, <1>7, <1>8

\* A request gives blocks.
LEMMA DrawnIsBlocks ==
  ASSUME NEW c \in State, NEW n \in Nat PROVE Drawn(c, n) \in Seq(Block)
<1>1. c.Key \in Key /\ c.V \in Block BY DEF State
<1>2. \A b \in Nat : Aes(c.Key, Counter(c.V, b)) \in Block
  BY <1>1, CounterIsBlock, RngAssumption
<1>3. Blocks(n) \in Nat BY BlocksAreNat
<1> QED BY <1>2, <1>3 DEF Drawn

\* A pass of the request loop leaves a state.
LEMMA PassIsState ==
  ASSUME NEW c \in State, NEW n \in Nat PROVE AfterPass(c, n) \in State
<1>1. SeedLen \in Nat /\ mlen(n) \in Nat
  BY RngAssumption, ToolsAssumption DEF SeedLen, mlen
<1> QED BY <1>1, AfterIsState DEF AfterPass

\* Two seeds that differ put the generator into two states.
LEMMA InitInjective ==
  ASSUME NEW d \in Seed, NEW e \in Seed, randombytes_init(d) = randombytes_init(e)
  PROVE  d[1] = e[1]
<1>1. Unseeded.Key \in Key /\ Unseeded.V \in Block BY UnseededIsState DEF State
<1>2. Aes(Unseeded.Key, Counter(Unseeded.V, 1)) \in Block
  BY <1>1, CounterIsBlock, RngAssumption
<1>3. d[1] \in Block /\ e[1] \in Block BY DEF Seed
<1>4. randombytes_init(d).Key[1] = randombytes_init(e).Key[1] OBVIOUS
<1>5. Xor(Aes(Unseeded.Key, Counter(Unseeded.V, 1)), d[1])
        = Xor(Aes(Unseeded.Key, Counter(Unseeded.V, 1)), e[1])
  BY <1>4 DEF randombytes_init, AES256_CTR_DRBG_Update
<1> QED BY <1>2, <1>3, <1>5, RngAssumption

-----------------------------------------------------------------------------
(* Every generator is a generator *)

Asked   == [seed : Seed, mlen : Nat, msg : Seq(Block)]
Answers == [count : Nat, key : Seed \cup {NoKey}, signed : BOOLEAN]

\* Generators are generators, and the response file has one answer per
\* request that has been read, with a key once key_gen has made it.
StateInv ==
  /\ ctx \in State /\ seed \in Seed /\ i \in Nat /\ arg \in Nat
  /\ asked \in Seq(State) /\ replayed \in Seq(State)
  /\ request \in Seq(Asked) /\ Len(request) = Len(asked)
  /\ \A n \in 1 .. Len(asked) : request[n].seed = Drawn(asked[n], SeedLen)
  /\ response \in Seq(Answers)
  /\ sk \in Seed \cup {NoKey}
  /\ batch \in 0 .. NBatches
  /\ pc \in {"message", "signature"} => sk # NoKey
  /\ Len(response) <= Len(request) /\ (pc = "request" => response = << >>)
  /\ pc = "count" => Len(response) = i
  /\ pc \in {"keypair", "sign", "open"} => Len(response) = i + 1 /\ i < Len(request)
  /\ pc \in {"sign", "open"} => response[i + 1].key # NoKey

\* The programs start with generators in a state.
LEMMA StateInit == ToolsInit => StateInv
<1>1. Entropy \in Seed /\ <<0, 0, 0>> \in Seed /\ NBatches \in Nat
  BY ToolsAssumption, ZeroIsBlock DEF Seed
<1> QED BY <1>1, UnseededIsState DEF ToolsInit, StateInv

\* Every step leaves the generators in a state.
LEMMA StateStep == StateInv /\ [ToolsNext]_toolVars => StateInv'
<1> SUFFICES ASSUME StateInv, [ToolsNext]_toolVars PROVE StateInv' OBVIOUS
<1> USE DEF StateInv
<1>0. SeedLen \in Nat /\ (\A n \in Nat : mlen(n) \in Nat) /\ Entropy \in Seed
      /\ Args \subseteq Nat /\ NBatches \in Nat /\ NumSigs \in Nat
  BY RngAssumption, ToolsAssumption DEF SeedLen, mlen
<1>1. CASE BeginKat BY <1>0, <1>1, InitIsState DEF BeginKat, kat, key, sign
<1>2. CASE Request
  <2>1. ctx' \in State BY <1>2, PassIsState DEF Request
  <2>2. seed' \in Seed BY <1>2, DrawnIsSeed DEF Request
  <2>3. /\ asked' = Append(asked, ctx) /\ Len(asked') = Len(asked) + 1
        /\ asked' \in Seq(State)
    BY <1>2 DEF Request
  <2> DEFINE r == [seed |-> seed', mlen |-> mlen(i),
                   msg |-> Drawn(After(ctx, SeedLen), mlen(i))]
  <2>4. request' = Append(request, r) /\ r.seed = Drawn(ctx, SeedLen)
    BY <1>2 DEF Request
  <2>5. r \in Asked
    <3>1. After(ctx, SeedLen) \in State /\ mlen(i) \in Nat BY <1>0, AfterIsState
    <3>2. Drawn(After(ctx, SeedLen), mlen(i)) \in Seq(Block) BY <3>1, DrawnIsBlocks
    <3> QED BY <2>2, <3>1, <3>2 DEF Asked
  <2> HIDE DEF r
  <2>6. request' \in Seq(Asked) /\ Len(request') = Len(asked')
    BY <2>3, <2>4, <2>5
  <2>7. \A n \in 1 .. Len(asked') : request'[n].seed = Drawn(asked'[n], SeedLen)
    BY <2>3, <2>4
  <2> QED BY <1>2, <2>1, <2>2, <2>3, <2>6, <2>7 DEF Request, key, sign
<1>3. CASE Reopen BY <1>3 DEF Reopen, kat, key, sign
<1>4. CASE Answer
  <2>1. i + 1 \in 1 .. Len(asked) /\ asked[i + 1] \in State BY <1>4 DEF Answer
  <2>2. seed' = Drawn(asked[i + 1], SeedLen) /\ seed' \in Seed
    BY <1>4, <2>1, DrawnIsSeed DEF Answer
  <2>3. ctx' \in State BY <1>4, <2>2, InitIsState DEF Answer
  <2>4. [count |-> i, key |-> NoKey, signed |-> FALSE] \in Answers BY DEF Answers
  <2>5. response' \in Seq(Answers) /\ Len(response') = i + 1
    BY <1>4, <2>4 DEF Answer
  <2> QED BY <1>4, <2>2, <2>3, <2>5 DEF Answer, key, sign
<1>5. CASE KatKeypair
  <2>1. KeyOf(ctx) \in Seed /\ KeyOf(ctx) # NoKey BY ToolsAssumption
  <2>2. ctx' \in State BY <1>5, <2>1, InitIsState DEF KatKeypair
  <2>3. Len(response) = i + 1 /\ response[i + 1] \in Answers BY <1>5 DEF KatKeypair
  <2>4. [response[i + 1] EXCEPT !.key = KeyOf(ctx)] \in Answers
    BY <2>1, <2>3 DEF Answers
  <2>5. /\ response' \in Seq(Answers) /\ Len(response') = i + 1
        /\ response'[i + 1].key = KeyOf(ctx)
    BY <1>5, <2>3, <2>4 DEF KatKeypair, Answers
  <2> QED BY <1>5, <2>1, <2>2, <2>5 DEF KatKeypair, key, sign
<1>6. CASE KatSign
  <2>1. Len(response) = i + 1 /\ response[i + 1] \in Answers BY <1>6 DEF KatSign
  <2>2. response[i + 1].key \in Seed BY <1>6, <2>1 DEF KatSign, Answers
  <2>3. ctx' \in State BY <1>6, <2>2, ToolsAssumption DEF KatSign
  <2>4. [response[i + 1] EXCEPT !.signed = TRUE] \in Answers BY <2>1 DEF Answers
  <2>5. /\ response' \in Seq(Answers) /\ Len(response') = i + 1
        /\ response'[i + 1].key = response[i + 1].key
    BY <1>6, <2>1, <2>4 DEF KatSign, Answers
  <2> QED BY <1>6, <2>3, <2>5 DEF KatSign, key, sign
<1>7. CASE KatOpen BY <1>7 DEF KatOpen, kat, key, sign
<1>8. CASE KatEnds BY <1>8 DEF KatEnds, kat, key, sign
<1>9. ASSUME NEW given \in Args, BeginKeygen(given) PROVE StateInv'
  BY <1>0, <1>9, InitIsState DEF BeginKeygen, kat, sign
<1>10. CASE Replay
  <2>1. ctx' \in State BY <1>10, PassIsState DEF Replay
  <2>2. seed' \in Seed BY <1>10, DrawnIsSeed DEF Replay
  <2>3. replayed' \in Seq(State) /\ i' \in Nat BY <1>10 DEF Replay
  <2> QED BY <1>10, <2>1, <2>2, <2>3 DEF Replay, kat, sign
<1>11. CASE Keygen
  BY <1>11, InitIsState, ToolsAssumption DEF Keygen, kat, sign
<1>12. CASE BeginSiggen BY <1>0, <1>12, UnseededIsState DEF BeginSiggen, kat, key
<1>13. CASE Message
  <2>0. batch \in 0 .. NBatches + NumSigs /\ i \in 0 .. NBatches + NumSigs
    BY <1>0, <1>13 DEF Message
  <2>1. MessageEntropy(batch, i) \in Seed
    BY <2>0, <1>13, ToolsAssumption DEF Message, MessageEntropy, Seed
  <2>2. After(randombytes_init(MessageEntropy(batch, i)), MsgUnit) \in State
    BY <2>1, InitIsState, AfterIsState, ToolsAssumption
  <2> QED BY <1>13, <2>2 DEF Message, kat, key
<1>14. CASE Signature
  <2>1. ctx' \in State BY <1>14, ToolsAssumption DEF Signature
  <2> QED BY <1>14, <2>1 DEF Signature, kat, key, sign
<1>15. CASE SiggenEnds BY <1>15 DEF SiggenEnds, kat, key, sign
<1>16. CASE UNCHANGED toolVars BY <1>16 DEF toolVars, kat, key, sign
<1> QED BY <1>1, <1>2, <1>3, <1>4, <1>5, <1>6, <1>7, <1>8, <1>9, <1>10, <1>11,
           <1>12, <1>13, <1>14, <1>15, <1>16 DEF ToolsNext, Kat, AllOver

\* The generators of all programs are always in a state.
LEMMA StateHolds == ToolsSpec => []StateInv
BY StateInit, StateStep, PTL DEF ToolsSpec

-----------------------------------------------------------------------------
(* Every message has a generator state of its own *)

Drawings == [batch : 0 .. NBatches, i : 0 .. NumSigs, from : State]

\* The messages drawn so far, each from the seed of its batch and index, no
\* two of the same, and all of them before the next.
StartsInv ==
  /\ starts \in Seq(Drawings)
  /\ \A n \in DOMAIN starts :
       /\ starts[n].from
            = randombytes_init(MessageEntropy(starts[n].batch, starts[n].i))
       /\ starts[n].batch <= batch
       /\ pc = "message" /\ starts[n].batch = batch => starts[n].i < i
       /\ pc = "signature" /\ starts[n].batch = batch => starts[n].i <= i
  /\ \A m, n \in DOMAIN starts :
       m # n => starts[m].batch # starts[n].batch \/ starts[m].i # starts[n].i

\* The entropy inputs recorded are of a batch and an index.
LEMMA StartsTyped ==
  ASSUME StartsInv, NEW n \in DOMAIN starts
  PROVE  starts[n].batch \in 0 .. NBatches /\ starts[n].i \in 0 .. NumSigs
<1>1. starts[n] \in Drawings BY DEF StartsInv
<1> QED BY <1>1 DEF Drawings

\* Every new entropy input is of a later batch or a later index.
LEMMA StartsStep == StateInv /\ StartsInv /\ [ToolsNext]_toolVars => StartsInv'
<1> SUFFICES ASSUME StateInv, StartsInv, [ToolsNext]_toolVars PROVE StartsInv' OBVIOUS
<1>0. i \in Nat /\ batch \in Nat /\ NBatches \in Nat /\ NumSigs \in Nat
      /\ batch \in 0 .. NBatches
  BY ToolsAssumption DEF StateInv
<1>1. ASSUME UNCHANGED starts, UNCHANGED batch, pc' \notin {"message", "signature"}
      PROVE  StartsInv'
  BY <1>1 DEF StartsInv
<1>2. CASE BeginSiggen
  <2>1. /\ starts' = starts /\ batch' = batch + 1 /\ pc' = "message"
    BY <1>2 DEF BeginSiggen
  <2>2. \A n \in DOMAIN starts : starts[n].batch < batch + 1
    BY <1>0, StartsTyped DEF StartsInv
  <2>3. \A n \in DOMAIN starts : starts[n].batch <= batch + 1 /\ starts[n].batch # batch + 1
    BY <1>0, <2>2, StartsTyped
  <2> QED BY <2>1, <2>3 DEF StartsInv
<1>3. CASE Message
  <2> DEFINE e == MessageEntropy(batch, i)
             r == [batch |-> batch, i |-> i, from |-> randombytes_init(e)]
  <2>0. batch \in 0 .. NBatches + NumSigs /\ i \in 0 .. NBatches + NumSigs
        /\ i \in 0 .. NumSigs
    BY <1>0, <1>3 DEF Message
  <2>1. e \in Seed BY <2>0, ToolsAssumption DEF MessageEntropy, Seed
  <2>2. r \in Drawings
    BY <1>0, <2>0, <2>1, InitIsState DEF Drawings
  <2>3. starts' = Append(starts, r) /\ batch' = batch /\ i' = i /\ pc' = "signature"
    BY <1>3 DEF Message, key, kat
  <2>4. r.batch = batch /\ r.i = i /\ r.from = randombytes_init(MessageEntropy(r.batch, r.i))
    OBVIOUS
  <2>5. pc = "message" BY <1>3 DEF Message
  <2> HIDE DEF r
  <2>6. /\ starts' \in Seq(Drawings)
        /\ DOMAIN starts' = 1 .. Len(starts) + 1
        /\ \A n \in 1 .. Len(starts) : starts'[n] = starts[n]
        /\ starts'[Len(starts) + 1] = r
        /\ DOMAIN starts = 1 .. Len(starts) /\ Len(starts) \in Nat
    BY <2>2, <2>3 DEF StartsInv
  <2>7. ASSUME NEW n \in 1 .. Len(starts)
        PROVE  starts[n].batch # r.batch \/ starts[n].i # r.i
    <3>1. starts[n].i \in 0 .. NumSigs BY <2>6, StartsTyped
    <3>2. starts[n].batch = batch => starts[n].i < i BY <2>5, <2>6 DEF StartsInv
    <3> QED BY <1>0, <2>4, <3>1, <3>2
  <2>8. ASSUME NEW n \in 1 .. Len(starts) + 1
        PROVE  /\ starts'[n].from
                    = randombytes_init(MessageEntropy(starts'[n].batch, starts'[n].i))
               /\ starts'[n].batch <= batch
               /\ starts'[n].batch = batch => starts'[n].i <= i
    <3>1. CASE n = Len(starts) + 1 BY <1>0, <2>4, <2>6, <3>1
    <3>2. CASE n \in 1 .. Len(starts)
      <4>1. starts[n].i \in 0 .. NumSigs /\ starts[n].batch \in 0 .. NBatches
        BY <2>6, <3>2, StartsTyped
      <4> QED BY <1>0, <2>5, <2>6, <3>2, <4>1 DEF StartsInv
    <3> QED BY <2>6, <3>1, <3>2
  <2>9. ASSUME NEW m \in 1 .. Len(starts) + 1, NEW n \in 1 .. Len(starts) + 1, m # n
        PROVE  starts'[m].batch # starts'[n].batch \/ starts'[m].i # starts'[n].i
    <3>1. CASE m = Len(starts) + 1 BY <2>6, <2>7, <2>9, <3>1
    <3>2. CASE n = Len(starts) + 1 BY <2>6, <2>7, <2>9, <3>2
    <3>3. CASE m \in 1 .. Len(starts) /\ n \in 1 .. Len(starts)
      BY <2>6, <2>9, <3>3 DEF StartsInv
    <3> QED BY <2>6, <3>1, <3>2, <3>3
  <2> QED BY <2>3, <2>6, <2>8, <2>9 DEF StartsInv
<1>4. CASE Signature
  <2>1. /\ starts' = starts /\ batch' = batch /\ pc = "signature" /\ pc' = "message"
        /\ i' = i + 1
    BY <1>4 DEF Signature, sign
  <2>2. \A n \in DOMAIN starts : starts[n].batch = batch => starts[n].i < i + 1
    BY <1>0, <2>1, StartsTyped DEF StartsInv
  <2> QED BY <2>1, <2>2 DEF StartsInv
<1>5. CASE SiggenEnds BY <1>1, <1>5 DEF SiggenEnds, sign
<1>6. CASE Kat
  <2>1. UNCHANGED sign /\ pc' \notin {"message", "signature"}
    BY <1>6 DEF Kat, BeginKat, Request, Reopen, Answer, KatKeypair, KatSign,
                    KatOpen, KatEnds
  <2> QED BY <1>1, <2>1 DEF sign
<1>7. ASSUME NEW given \in Args, BeginKeygen(given) PROVE StartsInv'
  BY <1>1, <1>7 DEF BeginKeygen, sign
<1>8. CASE Replay
  <2>1. UNCHANGED sign /\ pc' \notin {"message", "signature"} BY <1>8 DEF Replay
  <2> QED BY <1>1, <2>1 DEF sign
<1>9. CASE Keygen BY <1>1, <1>9 DEF Keygen, sign
<1>10. CASE UNCHANGED toolVars BY <1>10 DEF toolVars, sign, StartsInv
<1> QED BY <1>2, <1>3, <1>4, <1>5, <1>6, <1>7, <1>8, <1>9, <1>10 DEF ToolsNext, AllOver

\* No two messages of a campaign are drawn from the same generator, for any
\* cipher and any behaviour of key_gen and sig_gen.
THEOREM StartsDistinctTheorem == ToolsSpec => []StartsDistinct
<1>1. ToolsInit => StartsInv BY DEF ToolsInit, StartsInv
<1>2. StartsInv => StartsDistinct
  <2> SUFFICES ASSUME StartsInv, NEW m \in DOMAIN starts, NEW n \in DOMAIN starts, m # n,
                      starts[m].from = starts[n].from
               PROVE  FALSE
    BY DEF StartsDistinct
  <2> DEFINE W == 0 .. NBatches + NumSigs
  <2>1. /\ starts[m].batch \in W /\ starts[m].i \in W
        /\ starts[n].batch \in W /\ starts[n].i \in W
    <3>1. starts[m].batch \in 0 .. NBatches /\ starts[m].i \in 0 .. NumSigs
      BY StartsTyped
    <3>2. starts[n].batch \in 0 .. NBatches /\ starts[n].i \in 0 .. NumSigs
      BY StartsTyped
    <3> QED BY <3>1, <3>2, ToolsAssumption
  <2>2. /\ MessageEntropy(starts[m].batch, starts[m].i) \in Seed
        /\ MessageEntropy(starts[n].batch, starts[n].i) \in Seed
    BY <2>1, ToolsAssumption DEF MessageEntropy, Seed
  <2>3. randombytes_init(MessageEntropy(starts[m].batch, starts[m].i))
          = randombytes_init(MessageEntropy(starts[n].batch, starts[n].i))
    BY DEF StartsInv
  <2>4. MessageEntropy(starts[m].batch, starts[m].i)[1]
          = MessageEntropy(starts[n].batch, starts[n].i)[1]
    BY <2>2, <2>3, InitInjective
  <2>5. Words(starts[m].batch, starts[m].i) = Words(starts[n].batch, starts[n].i)
    BY <2>4 DEF MessageEntropy
  <2>6. starts[m].batch = starts[n].batch /\ starts[m].i = starts[n].i
    BY <2>1, <2>5, ToolsAssumption
  <2> QED BY <2>6 DEF StartsInv
<1> QED BY <1>1, <1>2, StateHolds, StartsStep, PTL DEF ToolsSpec

-----------------------------------------------------------------------------
(* eht_keygen makes the keys of PQCgenKAT_sign *)

\* The generator of the pass that follows the passes s.
Following(s) == IF Len(s) = 0 THEN randombytes_init(Entropy)
                ELSE AfterPass(s[Len(s)], Len(s) - 1)

\* Every pass begins where the one before has left the generator.
Chain(s) == \A n \in 1 .. Len(s) :
              s[n] = IF n = 1 THEN randombytes_init(Entropy)
                     ELSE AfterPass(s[n - 1], n - 2)

Agree(s, t) == \A n \in 1 .. Len(s) : n <= Len(t) => s[n] = t[n]

\* Two walks along one chain agree, and go on agreeing.
LEMMA ChainGrows ==
  ASSUME NEW s \in Seq(State), NEW t \in Seq(State), Chain(s), Chain(t), Agree(s, t),
         NEW c \in State, c = Following(s)
  PROVE  Chain(Append(s, c)) /\ Agree(Append(s, c), t) /\ Agree(t, Append(s, c))
<1>1. /\ Len(Append(s, c)) = Len(s) + 1 /\ Append(s, c)[Len(s) + 1] = c
      /\ \A n \in 1 .. Len(s) : Append(s, c)[n] = s[n]
      /\ Len(s) \in Nat /\ Len(t) \in Nat
  OBVIOUS
<1>2. ASSUME NEW n \in 1 .. Len(s) + 1
      PROVE  Append(s, c)[n] = IF n = 1 THEN randombytes_init(Entropy)
                               ELSE AfterPass(Append(s, c)[n - 1], n - 2)
  <2>1. CASE n \in 1 .. Len(s) BY <1>1, <2>1 DEF Chain
  <2>2. CASE n = Len(s) + 1 /\ Len(s) = 0 BY <1>1, <2>2 DEF Following
  <2>3. CASE n = Len(s) + 1 /\ Len(s) > 0
    <3>1. n - 1 = Len(s) /\ n - 2 = Len(s) - 1 /\ n # 1 /\ Len(s) # 0
          /\ n - 1 \in 1 .. Len(s)
      BY <1>1, <2>3
    <3> QED BY <1>1, <2>3, <3>1 DEF Following
  <2> QED BY <1>1, <2>1, <2>2, <2>3
<1>3. ASSUME NEW n \in 1 .. Len(s) + 1, n <= Len(t)
      PROVE  Append(s, c)[n] = t[n]
  <2>1. CASE n \in 1 .. Len(s) BY <1>1, <1>3, <2>1 DEF Agree
  <2>2. CASE n = Len(s) + 1 /\ Len(s) = 0 BY <1>1, <1>3, <2>2 DEF Following, Chain
  <2>3. CASE n = Len(s) + 1 /\ Len(s) > 0
    <3>1. n - 1 = Len(s) /\ n - 2 = Len(s) - 1 /\ n # 1 /\ Len(s) # 0
          /\ n - 1 \in 1 .. Len(s) /\ n \in 1 .. Len(t) /\ n - 1 <= Len(t)
      BY <1>1, <1>3, <2>3
    <3>2. t[n] = AfterPass(t[n - 1], n - 2) BY <3>1 DEF Chain
    <3>3. s[n - 1] = t[n - 1] BY <3>1 DEF Agree
    <3>4. c = AfterPass(s[n - 1], n - 2) BY <3>1 DEF Following
    <3> QED BY <1>1, <2>3, <3>2, <3>3, <3>4
  <2> QED BY <1>1, <2>1, <2>2, <2>3
<1> QED BY <1>1, <1>2, <1>3 DEF Chain, Agree

\* Where the loops of the two programs are, what is left of them in the
\* response file and in private.sk, and that they agree as far as both went.
ReplayInv ==
  /\ Chain(asked) /\ Chain(replayed) /\ Agree(asked, replayed)
  /\ pc = "request" => i = Len(asked) /\ ctx = Following(asked)
  /\ pc = "replay" => i = Len(replayed) /\ ctx = Following(replayed) /\ i <= key_idx
  /\ pc = "reseed" => /\ Len(replayed) = key_idx + 1
                      /\ seed = Drawn(replayed[key_idx + 1], SeedLen)
  /\ sk # NoKey =>
       /\ Len(replayed) = key_idx + 1 /\ pc \notin {"replay", "reseed"}
       /\ sk = KeyOf(randombytes_init(Drawn(replayed[key_idx + 1], SeedLen)))
  /\ pc = "keypair" => ctx = randombytes_init(Drawn(asked[i + 1], SeedLen))
  /\ \A n \in 1 .. Len(response) :
       /\ response[n].count = n - 1
       /\ response[n].key # NoKey =>
            response[n].key = KeyOf(randombytes_init(Drawn(asked[n], SeedLen)))

\* Both loops start at the beginning of the chain.
LEMMA ReplayInit == ToolsInit => ReplayInv
BY DEF ToolsInit, ReplayInv, Chain, Agree

\* Every pass of either loop is a step along the chain.
LEMMA ReplayStep == StateInv /\ ReplayInv /\ [ToolsNext]_toolVars => ReplayInv'
<1> SUFFICES ASSUME StateInv, ReplayInv, [ToolsNext]_toolVars PROVE ReplayInv' OBVIOUS
<1>0. /\ asked \in Seq(State) /\ replayed \in Seq(State) /\ ctx \in State /\ i \in Nat
      /\ Len(request) = Len(asked) /\ Len(response) \in Nat
      /\ Len(response) <= Len(asked) /\ Count \in Nat \ {0} /\ arg \in Nat
      /\ Args \subseteq Nat
  BY ToolsAssumption DEF StateInv
<1>1. ASSUME UNCHANGED <<asked, replayed, response, arg, sk>>,
             pc' \notin {"request", "replay", "reseed", "keypair"}
      PROVE  ReplayInv'
  BY <1>1 DEF ReplayInv, key_idx
<1>2. CASE BeginKat
  <2>1. Len(asked) = 0 /\ i' = 0 /\ ctx' = randombytes_init(Entropy)
    BY <1>0, <1>2 DEF BeginKat
  <2> QED BY <1>2, <2>1 DEF BeginKat, kat, key, ReplayInv, Following, key_idx
<1>3. CASE Request
  <2>1. asked' = Append(asked, ctx) /\ i' = i + 1 /\ ctx' = AfterPass(ctx, i)
        /\ pc = "request" /\ pc' = "request"
        /\ UNCHANGED <<replayed, arg, sk, response>>
    BY <1>3 DEF Request, key
  <2>2. Chain(asked') /\ Agree(asked', replayed)
    BY <1>0, <2>1, ChainGrows DEF ReplayInv
  <2>3. i = Len(asked) BY <2>1 DEF ReplayInv
  <2>4. /\ Len(asked') = i + 1 /\ asked'[Len(asked')] = ctx
        /\ \A n \in 1 .. Len(response) : asked'[n] = asked[n]
    BY <1>0, <2>1, <2>3
  <2>5. ctx' = Following(asked')
    <3>1. Len(asked') # 0 /\ Len(asked') - 1 = i BY <1>0, <2>4
    <3> QED BY <2>1, <2>4, <3>1 DEF Following
  <2> QED BY <2>1, <2>2, <2>4, <2>5 DEF ReplayInv, key_idx
<1>4. CASE Reopen BY <1>1, <1>4 DEF Reopen, kat, key
<1>5. CASE Answer
  <2>1. i + 1 \in 1 .. Len(asked) /\ Len(response) = i /\ asked[i + 1] \in State
        /\ request[i + 1].seed = Drawn(asked[i + 1], SeedLen)
    BY <1>5 DEF Answer, StateInv
  <2>2. ctx' = randombytes_init(Drawn(asked[i + 1], SeedLen))
    BY <1>5, <2>1, DrawnIsSeed DEF Answer
  <2> DEFINE r == [count |-> i, key |-> NoKey, signed |-> FALSE]
  <2>3. response' = Append(response, r) /\ response \in Seq(Answers)
        /\ i' = i /\ pc' = "keypair" /\ UNCHANGED <<asked, replayed, arg, sk>>
    BY <1>5 DEF Answer, key, StateInv
  <2>4. /\ Len(response') = i + 1 /\ response'[i + 1] = r
        /\ \A n \in 1 .. Len(response) : response'[n] = response[n]
    BY <1>0, <2>1, <2>3
  <2> QED BY <1>0, <2>1, <2>2, <2>3, <2>4 DEF ReplayInv, key_idx
<1>6. CASE KatKeypair
  <2>1. Len(response) = i + 1 /\ response \in Seq(Answers) /\ response[i + 1] \in Answers
        /\ ctx = randombytes_init(Drawn(asked[i + 1], SeedLen))
    BY <1>6 DEF KatKeypair, StateInv, ReplayInv
  <2>2. /\ response' = [response EXCEPT ![i + 1].key = KeyOf(ctx)]
        /\ pc' = "sign" /\ UNCHANGED <<asked, replayed, arg, sk>>
    BY <1>6 DEF KatKeypair, key
  <2>3. /\ Len(response') = i + 1 /\ response'[i + 1].key = KeyOf(ctx)
        /\ response'[i + 1].count = response[i + 1].count
        /\ \A n \in 1 .. i : response'[n] = response[n]
    BY <1>0, <2>1, <2>2 DEF Answers
  <2>4. \A n \in 1 .. i + 1 : n = i + 1 \/ n \in 1 .. i BY <1>0
  <2> QED BY <1>0, <2>1, <2>2, <2>3, <2>4 DEF ReplayInv, key_idx
<1>7. CASE KatSign
  <2>1. Len(response) = i + 1 /\ response \in Seq(Answers) /\ response[i + 1] \in Answers
    BY <1>7 DEF KatSign, StateInv
  <2>2. /\ response' = [response EXCEPT ![i + 1].signed = TRUE]
        /\ pc' = "open" /\ UNCHANGED <<asked, replayed, arg, sk>>
    BY <1>7 DEF KatSign, key
  <2>3. /\ Len(response') = Len(response)
        /\ \A n \in 1 .. Len(response) : /\ response'[n].count = response[n].count
                                        /\ response'[n].key = response[n].key
    BY <1>0, <2>1, <2>2 DEF Answers
  <2> QED BY <2>2, <2>3 DEF ReplayInv, key_idx
<1>8. CASE KatOpen BY <1>1, <1>8 DEF KatOpen, kat, key
<1>9. CASE KatEnds BY <1>1, <1>9 DEF KatEnds, kat, key
<1>10. ASSUME NEW given \in Args, BeginKeygen(given) PROVE ReplayInv'
  <2>1. /\ Len(replayed) = 0 /\ i' = 0 /\ arg' = given /\ pc' = "replay"
        /\ ctx' = randombytes_init(Entropy)
        /\ UNCHANGED <<asked, replayed, response, sk>>
    BY <1>0, <1>10 DEF BeginKeygen, kat
  <2>2. key_idx \in Nat /\ key_idx' \in Nat BY <1>0, <1>10, <2>1 DEF key_idx
  <2>3. sk = NoKey BY <2>1, <2>2 DEF ReplayInv
  <2> QED BY <2>1, <2>2, <2>3 DEF ReplayInv, Following
<1>11. CASE Replay
  <2>1. /\ replayed' = Append(replayed, ctx) /\ seed' = Drawn(ctx, SeedLen)
        /\ ctx' = AfterPass(ctx, i) /\ pc = "replay"
        /\ UNCHANGED <<asked, response, arg, sk>>
    BY <1>11 DEF Replay, kat
  <2>2. Agree(replayed, asked) BY <1>0 DEF ReplayInv, Agree
  <2>3. Chain(replayed') /\ Agree(asked, replayed')
    BY <1>0, <2>1, <2>2, ChainGrows DEF ReplayInv
  <2>4. i = Len(replayed) /\ i <= key_idx /\ sk = NoKey BY <2>1 DEF ReplayInv
  <2>5. /\ Len(replayed') = i + 1 /\ replayed'[i + 1] = ctx /\ key_idx' = key_idx
        /\ key_idx \in Nat
    BY <1>0, <2>1, <2>4 DEF key_idx
  <2>6. ctx' = Following(replayed')
    <3>1. Len(replayed') # 0 /\ Len(replayed') - 1 = i BY <1>0, <2>5
    <3> QED BY <2>1, <2>5, <3>1 DEF Following
  <2>7. CASE i = key_idx
    <3>1. pc' = "reseed" BY <1>11, <2>7 DEF Replay
    <3> QED BY <2>1, <2>3, <2>4, <2>5, <2>7, <3>1 DEF ReplayInv
  <2>8. CASE i # key_idx
    <3>1. pc' = "replay" /\ i' = i + 1 /\ i + 1 <= key_idx
      BY <1>0, <1>11, <2>4, <2>5, <2>8 DEF Replay
    <3> QED BY <2>1, <2>3, <2>4, <2>5, <2>6, <3>1 DEF ReplayInv
  <2> QED BY <2>7, <2>8
<1>12. CASE Keygen
  <2>1. /\ ctx' = randombytes_init(seed) /\ sk' \in {KeyOf(ctx'), NoKey}
        /\ pc' = "idle" /\ pc = "reseed"
        /\ UNCHANGED <<asked, replayed, response, arg>>
    BY <1>12 DEF Keygen, kat
  <2> QED BY <2>1 DEF ReplayInv, key_idx
<1>13. CASE BeginSiggen BY <1>1, <1>13 DEF BeginSiggen, kat, key
<1>14. CASE Message BY <1>1, <1>14 DEF Message, kat, key
<1>15. CASE Signature BY <1>1, <1>15 DEF Signature, kat, key
<1>16. CASE SiggenEnds BY <1>1, <1>16 DEF SiggenEnds, kat, key
<1>17. CASE UNCHANGED toolVars BY <1>17 DEF toolVars, kat, key, ReplayInv, key_idx
<1> QED BY <1>2, <1>3, <1>4, <1>5, <1>6, <1>7, <1>8, <1>9, <1>10, <1>11, <1>12,
           <1>13, <1>14, <1>15, <1>16, <1>17 DEF ToolsNext, Kat, AllOver

\* eht_keygen makes the key with the index it was asked for, for any number
\* of requests, any argument, and whichever of the two programs runs first.
THEOREM KatKeyTheorem == ToolsSpec => []KatKeyRegenerated
<1>1. StateInv /\ ReplayInv => KatKeyRegenerated
  <2> SUFFICES ASSUME StateInv, ReplayInv, sk # NoKey, NEW n \in DOMAIN response,
                      response[n].count = key_idx, response[n].key # NoKey
               PROVE  response[n].key = sk
    BY DEF KatKeyRegenerated
  <2>1. n \in 1 .. Len(response) /\ Len(response) <= Len(asked) /\ Len(asked) \in Nat
    BY DEF StateInv
  <2>2. n - 1 = key_idx BY <2>1 DEF ReplayInv
  <2>3. n \in 1 .. Len(asked) /\ n = key_idx + 1 BY <2>1, <2>2
  <2>4. Len(replayed) = n BY <2>3 DEF ReplayInv
  <2>5. asked[n] = replayed[n] BY <2>1, <2>3, <2>4 DEF ReplayInv, Agree
  <2> QED BY <2>1, <2>3, <2>5 DEF ReplayInv
<1> QED BY <1>1, ReplayInit, ReplayStep, StateHolds, PTL DEF ToolsSpec
=============================================================================
