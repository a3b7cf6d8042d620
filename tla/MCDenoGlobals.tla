------------------------------ MODULE MCDenoGlobals -----------------------------
(* A small instance of DenoGlobals for TLC. *)
EXTENDS DenoGlobals

================================================================================
