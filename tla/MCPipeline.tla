----------------------------- MODULE MCPipeline -----------------------------
(***************************************************************************)
(* The scripts in the order of the README, once with a second key and a    *)
(* second processing, and once with a second processing alone.  The names  *)
(* are sorted as text is: batch 3 is in the place that 10 has before 2.    *)
(***************************************************************************)
EXTENDS Pipeline

AllTwice == <<"setup", "setup", "sign", "process", "process">>
ProcessTwice == <<"setup", "sign", "process", "process">>

MCSorted ==
  FlattenSeq([n \in Batch |->
    LET b == IF n = 1 THEN 1 ELSE NBatches + 2 - n
    IN  [r \in 1 .. Reruns + 1 |-> <<b, r - 1>>]])
=============================================================================
