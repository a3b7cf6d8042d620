------------------------------ MODULE MCMontyRun ------------------------------
(* Small instances of MontyRun for TLC. *)
EXTENDS MontyRun, TLC

OneOrphan == {<<0, "orphan">>}

===============================================================================
