----------------------------- MODULE MCCliSessions -----------------------------
(* A small instance of CliSessions for TLC. *)
EXTENDS CliSessions, TLC

Symmetry == Permutations(Processes)

BothLanguages == {"python", "typescript"}

===============================================================================
