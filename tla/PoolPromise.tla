---------------------------- MODULE PoolPromise ----------------------------
(***************************************************************************)
(* What the semaphore of 01_signature_generation.sh and                    *)
(* 02_process_signatures.sh promises, without its pipe: the tasks are      *)
(* started in their order; one that runs, or has failed unnoticed, holds   *)
(* one of NT places; the script exits early only over a failure, leaving   *)
(* its tasks behind, and ends only when they have all finished.            *)
(***************************************************************************)
EXTENDS Naturals, Sequences, FiniteSets

CONSTANTS NT,       \* tokens of the semaphore
          Tasks     \* what the for loop goes through

VARIABLES todo,     \* tasks not yet started, in order
          active,   \* tasks that run
          failed,   \* tasks that have returned a nonzero code
          status    \* of the script: "runs", "ended" or "exited"

pool == <<todo, active, failed, status>>

Init == todo = Tasks /\ active = {} /\ failed = {} /\ status = "runs"

Fork == /\ status = "runs" /\ todo # << >>
        /\ Cardinality(active) + Cardinality(failed) < NT
        /\ todo' = Tail(todo)
        /\ active' = active \cup {Head(todo)}
        /\ UNCHANGED <<failed, status>>

Finish(t, ok) == /\ t \in active
                 /\ active' = active \ {t}
                 /\ failed' = IF ok THEN failed ELSE failed \cup {t}
                 /\ UNCHANGED <<todo, status>>

Exit == /\ status = "runs" /\ todo # << >> /\ failed # {}
        /\ status' = "exited"
        /\ UNCHANGED <<todo, active, failed>>

\* MUTANT of End: the script does not wait for its children.
EndEarly == /\ status = "runs" /\ todo = << >>
            /\ status' = "ended"
            /\ UNCHANGED <<todo, active, failed>>

End == /\ status = "runs" /\ todo = << >> /\ active = {}
       /\ status' = "ended"
       /\ UNCHANGED <<todo, active, failed>>

Next == \/ Fork \/ Exit \/ End
        \/ \E t \in active, ok \in BOOLEAN : Finish(t, ok)

Spec == Init /\ [][Next]_pool
=============================================================================
