------------------------------ MODULE MCWorker ------------------------------
(* Worker and the promise it implements.                                   *)
EXTENDS WorkerRefines
=============================================================================
