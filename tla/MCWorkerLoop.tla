---------------------------- MODULE MCWorkerLoop ----------------------------
(* WorkerLoop with the worker's own intervals, for TLC.                    *)
EXTENDS WorkerLoop

WorkerIntervals == [j \in Jobs |-> IF j = "expire" THEN 300 ELSE 1]
=============================================================================
