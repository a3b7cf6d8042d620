---------------------------- MODULE MCMontySessions ----------------------------
(* Small instances of MontySessions for TLC. *)
EXTENDS MontySessions, TLC

NoLimits == {}
NoTimeouts == {}
SmallLimits == [memory_mb |-> 1, wall_ms |-> 1]
AskedLimits == {[memory_mb |-> 2, wall_ms |-> 2]}
AskedTimeouts == {3}

===============================================================================
