---------------------------- MODULE MCWorkerPool ----------------------------
(* WorkerPool on two threads.  The sizes of WorkerPool.cfg hold a job below *)
(* the threshold, one that splits evenly, one whose bands differ, and one   *)
(* too large for the scratch.                                               *)
EXTENDS WorkerPool
=============================================================================
