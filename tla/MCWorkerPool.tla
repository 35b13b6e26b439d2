---------------------------- MODULE MCWorkerPool ----------------------------
(* A small pool for TLC: two goroutines submit, two workers, a queue that   *)
(* is full with one event, and one more event than the pool can hold in the *)
(* queue and in one worker's hands.                                         *)
EXTENDS WorkerPool
=============================================================================
