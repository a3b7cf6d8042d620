----------------------------- MODULE MCDenoWorker -----------------------------
(* Small instances of DenoWorker for TLC. *)
EXTENDS DenoWorker, TLC

===============================================================================
