----------------------------- MODULE MC_WorkerApi -----------------------------
(* Three requests against a worker that may answer, crash, restart or     *)
(* hang, so that every kind of request meets every fate.                  *)
EXTENDS WorkerApi
=============================================================================
