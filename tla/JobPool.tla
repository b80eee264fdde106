------------------------------ MODULE JobPool ------------------------------
(***************************************************************************)
(* The semaphore of 01_signature_generation.sh and                         *)
(* 02_process_signatures.sh, which hold the same text: a pipe with one     *)
(* three-digit token per worker.  The loop takes a token before it forks a *)
(* task, and the fork puts the task's return code back as the token; a     *)
(* token that is not 000 makes the script exit, without waiting for the    *)
(* tasks that still run.  The pipe is open for reading and writing in all  *)
(* the processes, so a read of the empty pipe blocks and no write fails.   *)
(***************************************************************************)
EXTENDS Naturals, Sequences, FiniteSets

CONSTANTS NT,       \* tokens: the number of processors minus one
          NTasks,   \* batches or files: passes of the for loop
          Failed    \* nonzero return codes of a task

ASSUME PoolAssumption == /\ NT \in Nat
                         /\ NTasks \in Nat \ {0}
                         /\ 0 \notin Failed

VARIABLES pipe,     \* tokens in fd 3, oldest first
          main,     \* what the script does
          thing,    \* the loop variable: the next task to be forked
          task,     \* [task -> what its process does]
          code,     \* [task -> return code, 0 until it has one]
          late      \* history: tasks forked since a failure came into the pipe

vars == <<pipe, main, thing, task, code, late>>

Task  == 1 .. NTasks
Codes == {0} \cup Failed

FailureInPipe == \E p \in DOMAIN pipe : pipe[p] # 0

Init == /\ pipe = [p \in 1 .. NT |-> 0]
        /\ main = "read"
        /\ thing = 1
        /\ task = [t \in Task |-> "none"]
        /\ code = [t \in Task |-> 0]
        /\ late = 0

-----------------------------------------------------------------------------
\* MUTANT of Read: the test of the token is left out.
ReadUntested == /\ main = "read"
                /\ pipe # << >>
                /\ pipe' = Tail(pipe)
                /\ main' = "fork"
                /\ UNCHANGED <<thing, task, code, late>>

\* MUTANT of Read: on a full pipe the loop goes on without its token.
ReadPeek == /\ main = "read"
            /\ pipe # << >>
            /\ pipe' = IF Len(pipe) = NT THEN pipe ELSE Tail(pipe)
            /\ main' = IF Head(pipe) = 0 THEN "fork" ELSE "exited"
            /\ UNCHANGED <<thing, task, code, late>>

\* MUTANT of Read: && and || the wrong way round.
ReadInverted == /\ main = "read"
                /\ pipe # << >>
                /\ pipe' = Tail(pipe)
                /\ main' = IF Head(pipe) = 0 THEN "exited" ELSE "fork"
                /\ UNCHANGED <<thing, task, code, late>>

\* read -u 3 -n 3 x && ((0==x)) || exit $x
Read == /\ main = "read"
        /\ pipe # << >>
        /\ pipe' = Tail(pipe)
        /\ main' = IF Head(pipe) = 0 THEN "fork" ELSE "exited"
        /\ UNCHANGED <<thing, task, code, late>>

\* MUTANT of Fork: the loop goes round once too often.
ForkOneMore == /\ main = "fork"
               /\ task' = [task EXCEPT ![thing] = "runs"]
               /\ thing' = thing + 1
               /\ main' = IF thing > NTasks THEN "wait" ELSE "read"
               /\ late' = IF FailureInPipe THEN late + 1 ELSE late
               /\ UNCHANGED <<pipe, code>>

Fork == /\ main = "fork"
        /\ task' = [task EXCEPT ![thing] = "runs"]
        /\ thing' = thing + 1
        /\ main' = IF thing = NTasks THEN "wait" ELSE "read"
        /\ late' = IF FailureInPipe THEN late + 1 ELSE late
        /\ UNCHANGED <<pipe, code>>

\* MUTANT of Wait: the script does not wait for its children.
WaitNot == /\ main = "wait"
           /\ main' = "ended"
           /\ UNCHANGED <<pipe, thing, task, code, late>>

\* The wait of the last line: all children have gone.
Wait == /\ main = "wait"
        /\ \A t \in Task : task[t] = "gone"
        /\ main' = "ended"
        /\ UNCHANGED <<pipe, thing, task, code, late>>

\* ( "$@"; ) returns.
Return(t, c) == /\ task[t] = "runs"
                /\ task' = [task EXCEPT ![t] = "returned"]
                /\ code' = [code EXCEPT ![t] = c]
                /\ UNCHANGED <<pipe, main, thing, late>>

\* MUTANT of Push: only a success gives the token back.
PushSuccess(t) == /\ task[t] = "returned"
                  /\ pipe' = IF code[t] = 0 THEN Append(pipe, 0) ELSE pipe
                  /\ task' = [task EXCEPT ![t] = "gone"]
                  /\ UNCHANGED <<main, thing, code, late>>

\* printf '%.3d' $? >&3, after which the child ends.
Push(t) == /\ task[t] = "returned"
           /\ pipe' = Append(pipe, code[t])
           /\ task' = [task EXCEPT ![t] = "gone"]
           /\ UNCHANGED <<main, thing, code, late>>

\* The script has ended, and so have its children.
Over == /\ main \in {"ended", "exited"}
        /\ \A t \in Task : task[t] \in {"none", "gone"}
        /\ UNCHANGED vars

Next == \/ Read \/ Fork \/ Wait
        \/ \E t \in Task : Push(t) \/ \E c \in Codes : Return(t, c)
        \/ Over

\* The operating system runs every process; a task is assumed to return.
Fairness == /\ WF_vars(Read \/ Fork \/ Wait)
            /\ \A t \in Task : WF_vars(Push(t) \/ \E c \in Codes : Return(t, c))

Spec == Init /\ [][Next]_vars /\ Fairness

-----------------------------------------------------------------------------
Running   == {t \in Task : task[t] = "runs"}
Returning == {t \in Task : task[t] = "returned"}
Gone      == {t \in Task : task[t] = "gone"}

TypeOK == /\ pipe \in Seq(Codes)
          /\ main \in {"read", "fork", "wait", "ended", "exited"}
          /\ thing \in 1 .. NTasks + 1
          /\ task \in [Task -> {"none", "runs", "returned", "gone"}]
          /\ code \in [Task -> Codes]
          /\ late \in Nat

InHand == IF main = "fork" THEN 1 ELSE 0
Eaten  == IF main = "exited" THEN 1 ELSE 0

\* The tokens are neither lost nor multiplied, whatever the children return
\* and in whatever order: each is in the pipe, in the loop's hand or with
\* one child, and the token that ended the script is the only one gone.
TokensConserved ==
  Len(pipe) + InHand + Eaten + Cardinality(Running) + Cardinality(Returning) = NT

\* After a failure has come into the pipe the loop forks at most NT - 1 more
\* tasks: the tokens before the failure are all it can take.
SoonNoticed == late > 0 => late <= NT - 1

\* Once `wait' has returned every task has returned, and a failure that was
\* not noticed is still in the pipe: it was among the last NT tasks to
\* return.  The script's own status is 0 all the same.
UnnoticedAreLast ==
  main = "ended" =>
    /\ Gone = Task
    /\ Len(pipe) = NT
    /\ Cardinality({t \in Task : code[t] # 0})
         = Cardinality({p \in DOMAIN pipe : pipe[p] # 0})

\* The script ends: nobody waits for a token that nobody will put back.
Ends == <>(main \in {"ended", "exited"})

\* The pool as its users see it, without the pipe.
Todo        == [n \in 1 .. NTasks + 1 - thing |-> thing + n - 1]
FailedTasks == {t \in Gone : code[t] # 0}
Status      == IF main \in {"ended", "exited"} THEN main ELSE "runs"

Promise == INSTANCE PoolPromise WITH
             Tasks <- [t \in Task |-> t], todo <- Todo,
             active <- Running \cup Returning, failed <- FailedTasks,
             status <- Status

\* The pipe of three-digit tokens does what the pool promises: tasks in
\* order, NT places of which a failed task gives none back, an early exit only
\* over a failure, and an end only when every task has finished.
ImplementsPool == Promise!Spec

\* "generates signatures" (README.md): every task returns, or one fails.  It
\* takes a token to begin with, and on one processor there is none.
AllReturnOrOneFails == <>(Gone = Task) \/ <>(\E t \in Task : code[t] # 0)
=============================================================================
