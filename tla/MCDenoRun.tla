------------------------------- MODULE MCDenoRun -------------------------------
(* Small instances of DenoRun for TLC. *)
EXTENDS DenoRun, TLC

===============================================================================
