----------------------------- MODULE MCJSWorker -----------------------------
(* Small instances of JSWorker for TLC.                                    *)
EXTENDS JSWorker

ASSUME WorkerAssumption
=============================================================================
