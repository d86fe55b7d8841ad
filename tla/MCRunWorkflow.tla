--------------------------- MODULE MCRunWorkflow ----------------------------
(***************************************************************************)
(* Instances of RunWorkflow with up to three tasks.  The third waits for   *)
(* the first and may touch the files of the second; the first two belong   *)
(* to different batches.                                                   *)
(***************************************************************************)
EXTENDS RunWorkflow

MCDependsOn == [t \in Task |-> IF t = 3 THEN {1} ELSE {}]
MCBatchKey == [t \in Task |-> IF t = 1 THEN 2 ELSE 1]
MCOverlap == {<<2, 3>>, <<3, 2>>} \intersect (Task \X Task)
=============================================================================
