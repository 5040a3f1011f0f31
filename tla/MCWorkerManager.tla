--------------------------- MODULE MCWorkerManager ---------------------------
(***************************************************************************)
(* Small instances of WorkerManager.                                       *)
(***************************************************************************)
EXTENDS WorkerManager
=============================================================================
