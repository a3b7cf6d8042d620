------------------------------ MODULE SessionApi ------------------------------
(***************************************************************************)
(* The vocabulary every session backend shares: who calls, which sessions  *)
(* there are, what a call may answer and what a session remembers.         *)
(*                                                                         *)
(* A session's globals are abstracted to the set of runs whose effects     *)
(* they hold.  A run is named by a token: the session it was addressed to  *)
(* and a number no other call has.                                         *)
(***************************************************************************)
EXTENDS Naturals

CONSTANTS
    Clients,     \* tasks that call the runtime (SDK callers, daemon connections)
    SessionIds,  \* valid session ids
    MaxCalls,    \* bound of the model: how many calls are made in all
    None         \* the absent option

Token == SessionIds \X Nat

Memory == SUBSET Token

ASSUME ApiAssumption ==
    /\ MaxCalls \in Nat
    /\ None \notin SessionIds \cup Token

(* The operations of the LanguageRuntime trait that name or change sessions. *)
Ops == {"create", "run", "destroy", "list", "snapshot", "restore"}

(* What a call answers: Ok(()), a RunResult, Ok(true), Ok(false), a        *)
(* snapshot, a listing, SESSION_NOT_FOUND or another ErrorObject.          *)
Tags == {"none", "ok", "validated", "error", "removed", "absent",
         "not_found", "snapshot", "list"}

Result == [tag : Tags, memory : Memory, ids : SUBSET SessionIds]

Reply(tag) == [tag |-> tag, memory |-> {}, ids |-> {}]

SnapshotReply(memory) == [tag |-> "snapshot", memory |-> memory, ids |-> {}]

ListReply(ids) == [tag |-> "list", memory |-> {}, ids |-> ids]

NoReply == Reply("none")

===============================================================================
