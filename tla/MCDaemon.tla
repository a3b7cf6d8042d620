-------------------------------- MODULE MCDaemon -------------------------------
(* A small instance of Sdk and Daemon for TLC. *)
EXTENDS Daemon, TLC

Symmetry == Permutations(Clients)

================================================================================
