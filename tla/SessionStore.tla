----------------------------- MODULE SessionStore -----------------------------
(***************************************************************************)
(* What a LanguageRuntime promises its callers, whatever the backend: a    *)
(* linearizable store of sessions.  Every call takes effect at one moment  *)
(* between its invocation and its return, and its answer is that of the    *)
(* store at that moment.                                                   *)
(***************************************************************************)
EXTENDS SessionApi

VARIABLES
    live,     \* the sessions that exist
    memory,   \* [SessionIds -> Memory], what each remembers; {} if it does not exist
    call      \* [Clients -> Call], the call each client has in progress

vars == <<live, memory, call>>

(* arg is what a restore's snapshot holds. *)
Call ==
    [st : {"idle", "pending", "replied"}, op : Ops \cup {None},
     sid : SessionIds \cup {None}, tok : Token \cup {None},
     arg : Memory, res : Result]

IdleCall ==
    [st |-> "idle", op |-> None, sid |-> None, tok |-> None,
     arg |-> {}, res |-> NoReply]

TypeOK ==
    /\ live \subseteq SessionIds
    /\ memory \in [SessionIds -> Memory]
    /\ call \in [Clients -> Call]

Init ==
    /\ live = {}
    /\ memory = [s \in SessionIds |-> {}]
    /\ call = [c \in Clients |-> IdleCall]

(* Any call may be made at any time, on any session and with any snapshot; *)
(* a runtime that is gone refuses it at once.                              *)
Invoke(c) ==
    /\ call[c].st = "idle"
    /\ call' = [call EXCEPT ![c] = call'[c]]
    /\ \/ call'[c].st = "pending" /\ call'[c].res = NoReply
       \/ call'[c].st = "replied" /\ call'[c].res = Reply("error")
    /\ UNCHANGED <<live, memory>>

Pending(c, op) == call[c].st = "pending" /\ call[c].op = op

Answer(c, res) ==
    call' = [call EXCEPT ![c].st = "replied", ![c].res = res]

(* Session s exists from now on and remembers m. *)
Write(s, m) ==
    /\ live' = live \cup {s}
    /\ memory' = [memory EXCEPT ![s] = m]

Create(c) ==
    /\ Pending(c, "create")
    /\ Write(call[c].sid, memory[call[c].sid])
    /\ Answer(c, Reply("ok"))

(* A run that succeeds has all its effects; one that fails may have left   *)
(* them or not, but the session exists afterwards either way.              *)
Run(c) ==
    /\ Pending(c, "run")
    /\ LET before == memory[call[c].sid]
           after  == before \cup {call[c].tok}
       IN \/ Write(call[c].sid, after) /\ Answer(c, Reply("ok"))
          \/ Write(call[c].sid, after) /\ Answer(c, Reply("error"))
          \/ Write(call[c].sid, before) /\ Answer(c, Reply("error"))

Validate(c) ==
    /\ Pending(c, "run")
    /\ Answer(c, Reply("validated"))
    /\ UNCHANGED <<live, memory>>

Destroy(c) ==
    /\ Pending(c, "destroy")
    /\ live' = live \ {call[c].sid}
    /\ memory' = [memory EXCEPT ![call[c].sid] = {}]
    /\ Answer(c, Reply(IF call[c].sid \in live THEN "removed" ELSE "absent"))

List(c) ==
    /\ Pending(c, "list")
    /\ Answer(c, ListReply(live))
    /\ UNCHANGED <<live, memory>>

Snapshot(c) ==
    /\ Pending(c, "snapshot")
    /\ Answer(c, IF call[c].sid \in live
                 THEN SnapshotReply(memory[call[c].sid])
                 ELSE Reply("not_found"))
    /\ UNCHANGED <<live, memory>>

Restore(c) ==
    /\ Pending(c, "restore")
    /\ Write(call[c].sid, call[c].arg)
    /\ Answer(c, Reply("ok"))

(* Any call may be refused, and then it has no effect. *)
Refuse(c) ==
    /\ call[c].st = "pending"
    /\ Answer(c, Reply("error"))
    /\ UNCHANGED <<live, memory>>

Return(c) ==
    /\ call[c].st = "replied"
    /\ call' = [call EXCEPT ![c] = IdleCall]
    /\ UNCHANGED <<live, memory>>

(* The runtime goes away with every session; nobody is left waiting. *)
Lose ==
    /\ live' = {}
    /\ memory' = [s \in SessionIds |-> {}]
    /\ call' = [c \in Clients |->
                  IF call[c].st = "pending"
                  THEN [call[c] EXCEPT !.st = "replied", !.res = Reply("error")]
                  ELSE call[c]]

Next ==
    \/ \E c \in Clients :
         \/ Invoke(c)
         \/ Create(c)
         \/ Run(c)
         \/ Validate(c)
         \/ Destroy(c)
         \/ List(c)
         \/ Snapshot(c)
         \/ Restore(c)
         \/ Refuse(c)
         \/ Return(c)
    \/ Lose

Spec == Init /\ [][Next]_vars

===============================================================================
