----------------------------- MODULE MontySessions -----------------------------
(***************************************************************************)
(* The session table of the Python backend (MontyRuntime): a HashMap under *)
(* an async Mutex that any number of tasks call concurrently.              *)
(*                                                                         *)
(* The mutex is never held across an await, so what happens under it is    *)
(* one step.  A run is three: it removes the session from the table,       *)
(* executes the code on the session it now owns, and inserts the session   *)
(* back.  Other calls run in between.                                      *)
(***************************************************************************)
EXTENDS SessionApi

CONSTANTS
    Limits,         \* resource limits a caller may ask for
    Timeouts,       \* values of a request's timeout_ms
    DefaultLimits,  \* the runtime's default_limits
    MayDrop         \* may a caller drop the future of a call it has made?

(* SessionLimits: the fields that reach the interpreter's tracker. *)
LimitRecord == [memory_mb : Nat, wall_ms : Nat]

(* MontySession: its limits, the limits its interpreter enforces (fixed    *)
(* when the interpreter is made, except for the run's duration) and the    *)
(* interpreter's globals.                                                  *)
Session == [limits : LimitRecord, tracker : LimitRecord, memory : Memory]

(* SnapshotEnvelope: good stands for the checks of magic, version,         *)
(* capability digest and encoding, all of which pass or the envelope is    *)
(* refused.                                                                *)
Envelope == [good : BOOLEAN, sid : SessionIds \cup {None}, session : Session \cup {None}]

(* run: execute it, only validate it, or a language Monty does not speak. *)
Modes == {"execute", "validate", "wrong_language"}

Request ==
    [op : Ops, sid : SessionIds \cup {None}, mode : Modes \cup {None},
     limits : LimitRecord \cup {None}, timeout : Nat \cup {None},
     snap : Envelope \cup {None}]

ASSUME MontyAssumption ==
    /\ Limits \subseteq LimitRecord
    /\ Timeouts \subseteq Nat
    /\ DefaultLimits \in LimitRecord
    /\ MayDrop \in BOOLEAN
    /\ None \notin LimitRecord \cup Nat \cup Modes \cup Session \cup Envelope \cup Request

VARIABLES
    sessions,   \* [SessionIds -> Session \cup {None}], the table
    call,       \* [Clients -> Call], the progress of each client's call
    owned,      \* [Clients -> Session \cup {None}], the session a run has taken out
    nextTok,    \* how many calls have been made
    snaps,      \* the snapshots callers have been given
    promised    \* history: the runs each session was said to have completed

vars == <<sessions, call, owned, nextTok, snaps, promised>>

Stages == {"idle", "pending", "exec", "put", "replied"}

Call == [st : Stages, req : Request \cup {None}, tok : Token \cup {None}, res : Result]

IdleCall == [st |-> "idle", req |-> None, tok |-> None, res |-> NoReply]

TypeOK ==
    /\ sessions \in [SessionIds -> Session \cup {None}]
    /\ call \in [Clients -> Call]
    /\ owned \in [Clients -> Session \cup {None}]
    /\ nextTok \in Nat
    /\ snaps \subseteq Envelope
    /\ promised \in [SessionIds -> Memory]

--------------------------------------------------------------------------------
(* Requests *)

PlainRequest(op, sid) ==
    [op |-> op, sid |-> sid, mode |-> None, limits |-> None, timeout |-> None, snap |-> None]

CreateRequest(sid, limits) == [PlainRequest("create", sid) EXCEPT !.limits = limits]

RunRequest(sid, mode, limits, timeout) ==
    [PlainRequest("run", sid) EXCEPT !.mode = mode, !.limits = limits, !.timeout = timeout]

RestoreRequest(sid, snap) == [PlainRequest("restore", sid) EXCEPT !.snap = snap]

BadEnvelope == [good |-> FALSE, sid |-> None, session |-> None]

CreateRequests == {CreateRequest(s, l) : s \in SessionIds, l \in Limits \cup {None}}

RunRequests ==
    {RunRequest(s, m, l, t) : s \in SessionIds, m \in Modes,
                              l \in Limits \cup {None}, t \in Timeouts \cup {None}}

RestoreRequests ==
    {RestoreRequest(s, e) : s \in SessionIds \cup {None}, e \in snaps \cup {BadEnvelope}}

Requests ==
    CreateRequests \cup RunRequests \cup RestoreRequests
        \cup {PlainRequest(op, s) : op \in {"destroy", "snapshot"}, s \in SessionIds}
        \cup {PlainRequest("list", None)}

(* The session a request is about: a restore without an id goes to the id  *)
(* in the envelope.                                                        *)
Target(req) ==
    IF req.op = "restore" /\ req.sid = None THEN req.snap.sid ELSE req.sid

Subject(c) == Target(call[c].req)

--------------------------------------------------------------------------------
(* MontySession::new and effective_limits *)

NewSession(limits) == [limits |-> limits, tracker |-> limits, memory |-> {}]

EffectiveLimits(req) ==
    LET limits == IF req.limits = None THEN DefaultLimits ELSE req.limits
    IN IF req.timeout = None THEN limits ELSE [limits EXCEPT !.wall_ms = req.timeout]

--------------------------------------------------------------------------------
Init ==
    /\ sessions = [s \in SessionIds |-> None]
    /\ call = [c \in Clients |-> IdleCall]
    /\ owned = [c \in Clients |-> None]
    /\ nextTok = 0
    /\ snaps = {}
    /\ promised = [s \in SessionIds |-> {}]

Invoke(c) ==
    /\ call[c].st = "idle"
    /\ nextTok < MaxCalls
    /\ \E req \in Requests :
         call' = [call EXCEPT ![c] =
                    [st |-> "pending", req |-> req, res |-> NoReply,
                     tok |-> IF req.op = "run" THEN <<req.sid, nextTok>> ELSE None]]
    /\ nextTok' = nextTok + 1
    /\ UNCHANGED <<sessions, owned, snaps, promised>>

Pending(c, op) == call[c].st = "pending" /\ call[c].req.op = op

Answer(c, res) == call' = [call EXCEPT ![c].st = "replied", ![c].res = res]

(* Mutant: insert without looking whether the session is there. *)
CreateSessionAnew(c) ==
    /\ Pending(c, "create")
    /\ sessions' = [sessions EXCEPT ![Subject(c)] = NewSession(DefaultLimits)]
    /\ Answer(c, Reply("ok"))
    /\ UNCHANGED <<owned, nextTok, snaps, promised>>

(* Mutant: limits the caller left out stay left out. *)
CreateSessionUnlimited(c) ==
    /\ Pending(c, "create")
    /\ sessions' = IF sessions[Subject(c)] = None
                   THEN [sessions EXCEPT ![Subject(c)] = NewSession(call[c].req.limits)]
                   ELSE sessions
    /\ Answer(c, Reply("ok"))
    /\ UNCHANGED <<owned, nextTok, snaps, promised>>

CreateSession(c) ==
    /\ Pending(c, "create")
    /\ LET s == Subject(c)
           asked == call[c].req.limits
           limits == IF asked = None THEN DefaultLimits ELSE asked
       IN sessions' = IF sessions[s] = None
                      THEN [sessions EXCEPT ![s] = NewSession(limits)]
                      ELSE sessions
    /\ Answer(c, Reply("ok"))
    /\ UNCHANGED <<owned, nextTok, snaps, promised>>

(* Another language is refused; validate_only looks at the code alone. *)
RejectRun(c) ==
    /\ Pending(c, "run")
    /\ \/ call[c].req.mode = "wrong_language" /\ Answer(c, Reply("error"))
       \/ call[c].req.mode = "validate" /\ Answer(c, Reply("validated"))
       \/ call[c].req.mode = "validate" /\ Answer(c, Reply("error"))
    /\ UNCHANGED <<sessions, owned, nextTok, snaps, promised>>

(* Mutant: the run works on a copy; the session stays in the table. *)
TakeSessionCopy(c) ==
    /\ Pending(c, "run")
    /\ call[c].req.mode = "execute"
    /\ owned' = [owned EXCEPT ![c] = sessions[Subject(c)]]
    /\ call' = [call EXCEPT ![c].st = "exec"]
    /\ UNCHANGED <<sessions, nextTok, snaps, promised>>

(* The first lock of a run: sessions.remove(id). *)
TakeSession(c) ==
    /\ Pending(c, "run")
    /\ call[c].req.mode = "execute"
    /\ owned' = [owned EXCEPT ![c] = sessions[Subject(c)]]
    /\ sessions' = [sessions EXCEPT ![Subject(c)] = None]
    /\ call' = [call EXCEPT ![c].st = "exec"]
    /\ UNCHANGED <<nextTok, snaps, promised>>

(* The session a run executes on: the one removed, or a new one, in both   *)
(* cases with the run's limits.                                            *)
Opened(c) ==
    LET limits == EffectiveLimits(call[c].req)
    IN [IF owned[c] = None THEN NewSession(limits) ELSE owned[c] EXCEPT !.limits = limits]

(* Mutant: the session goes back into the table before its run is over. *)
RunCodeInPlace(c) ==
    /\ call[c].st = "exec"
    /\ LET done == [Opened(c) EXCEPT !.memory = @ \cup {call[c].tok}]
       IN /\ sessions' = [sessions EXCEPT ![Subject(c)] = done]
          /\ owned' = [owned EXCEPT ![c] = done]
    /\ call' = [call EXCEPT ![c].st = "put", ![c].res = Reply("ok")]
    /\ UNCHANGED <<nextTok, snaps, promised>>

(* run_session.  Static validation may refuse the code before the tracker  *)
(* is touched; afterwards the code succeeds, or fails having had its       *)
(* effects or not.                                                         *)
RunCode(c) ==
    /\ call[c].st = "exec"
    /\ LET opened == Opened(c)
           timed == [opened EXCEPT !.tracker.wall_ms = opened.limits.wall_ms]
           done == [timed EXCEPT !.memory = @ \cup {call[c].tok}]
           Ends(session, tag) ==
               /\ owned' = [owned EXCEPT ![c] = session]
               /\ call' = [call EXCEPT ![c].st = "put", ![c].res = Reply(tag)]
       IN \/ Ends(done, "ok")
          \/ \E session \in {opened, timed, done} : Ends(session, "error")
    /\ UNCHANGED <<sessions, nextTok, snaps, promised>>

(* Mutant: a session whose run failed is not put back. *)
PutSessionOnSuccess(c) ==
    /\ call[c].st = "put"
    /\ sessions' = IF call[c].res.tag = "ok"
                   THEN [sessions EXCEPT ![Subject(c)] = owned[c]] ELSE sessions
    /\ owned' = [owned EXCEPT ![c] = None]
    /\ call' = [call EXCEPT ![c].st = "replied"]
    /\ promised' = IF call[c].res.tag = "ok"
                   THEN [promised EXCEPT ![Subject(c)] = @ \cup {call[c].tok}]
                   ELSE promised
    /\ UNCHANGED <<nextTok, snaps>>

(* Mutant: a run waits for the place of its session to be free. *)
PutSessionWhenVacant(c) ==
    /\ call[c].st = "put"
    /\ sessions[Subject(c)] = None
    /\ sessions' = [sessions EXCEPT ![Subject(c)] = owned[c]]
    /\ owned' = [owned EXCEPT ![c] = None]
    /\ call' = [call EXCEPT ![c].st = "replied"]
    /\ UNCHANGED <<nextTok, snaps, promised>>

(* The second lock of a run: sessions.insert(id, session). *)
PutSession(c) ==
    /\ call[c].st = "put"
    /\ sessions' = [sessions EXCEPT ![Subject(c)] = owned[c]]
    /\ owned' = [owned EXCEPT ![c] = None]
    /\ call' = [call EXCEPT ![c].st = "replied"]
    /\ promised' = IF call[c].res.tag = "ok"
                   THEN [promised EXCEPT ![Subject(c)] = @ \cup {call[c].tok}]
                   ELSE promised
    /\ UNCHANGED <<nextTok, snaps>>

DestroySession(c) ==
    /\ Pending(c, "destroy")
    /\ sessions' = [sessions EXCEPT ![Subject(c)] = None]
    /\ Answer(c, Reply(IF sessions[Subject(c)] = None THEN "absent" ELSE "removed"))
    /\ promised' = [promised EXCEPT ![Subject(c)] = {}]
    /\ UNCHANGED <<owned, nextTok, snaps>>

ListSessions(c) ==
    /\ Pending(c, "list")
    /\ Answer(c, ListReply({s \in SessionIds : sessions[s] # None}))
    /\ UNCHANGED <<sessions, owned, nextTok, snaps, promised>>

(* The interpreter's dump, or its encoding, may fail. *)
SnapshotSession(c) ==
    /\ Pending(c, "snapshot")
    /\ LET s == Subject(c)
       IN \/ sessions[s] = None /\ Answer(c, Reply("not_found")) /\ UNCHANGED snaps
          \/ sessions[s] # None /\ Answer(c, Reply("error")) /\ UNCHANGED snaps
          \/ /\ sessions[s] # None
             /\ Answer(c, SnapshotReply(sessions[s].memory))
             /\ snaps' = snaps \cup {[good |-> TRUE, sid |-> s, session |-> sessions[s]]}
    /\ UNCHANGED <<sessions, owned, nextTok, promised>>

RestoreSession(c) ==
    /\ Pending(c, "restore")
    /\ LET e == call[c].req.snap
       IN IF e.good
          THEN /\ sessions' = [sessions EXCEPT ![Subject(c)] = e.session]
               /\ promised' = [promised EXCEPT ![Subject(c)] = e.session.memory]
               /\ Answer(c, Reply("ok"))
          ELSE Answer(c, Reply("error")) /\ UNCHANGED <<sessions, promised>>
    /\ UNCHANGED <<owned, nextTok, snaps>>

Return(c) ==
    /\ call[c].st = "replied"
    /\ call' = [call EXCEPT ![c] = IdleCall]
    /\ UNCHANGED <<sessions, owned, nextTok, snaps, promised>>

(* The caller drops the future at an await: before the first lock, while   *)
(* the code waits for a tool, or before the second lock.                   *)
Drop(c) ==
    /\ MayDrop
    /\ call[c].st \in {"pending", "exec", "put"}
    /\ call' = [call EXCEPT ![c] = IdleCall]
    /\ owned' = [owned EXCEPT ![c] = None]
    /\ UNCHANGED <<sessions, nextTok, snaps, promised>>

(* What the runtime does for a call once it is made. *)
Serve(c) ==
    \/ CreateSession(c)
    \/ RejectRun(c)
    \/ TakeSession(c)
    \/ RunCode(c)
    \/ PutSession(c)
    \/ DestroySession(c)
    \/ ListSessions(c)
    \/ SnapshotSession(c)
    \/ RestoreSession(c)

Step(c) == Invoke(c) \/ Serve(c) \/ Return(c) \/ Drop(c)

Next == \E c \in Clients : Step(c)

Spec == Init /\ [][Next]_vars

(* Callers that wait for one call on a session before they make the next,  *)
(* and do not list while anything else is under way.                       *)
Overlap(c, d) ==
    /\ call[c].st # "idle"
    /\ call[d].st # "idle"
    /\ \/ "list" \in {call[c].req.op, call[d].req.op}
       \/ Subject(c) = Subject(d)

Serial == \A c, d \in Clients : c # d => ~Overlap(c, d)

SerialSpec == Init /\ [][Next /\ Serial']_vars

(* The runtime's tasks are polled as long as they are ready, the mutex is  *)
(* fair and never held across an await, and code ends: its duration is     *)
(* limited and the tools it waits for are assumed to answer.               *)
FairSpec == Spec /\ \A c \in Clients : WF_vars(Serve(c))

--------------------------------------------------------------------------------
(* Every run that was said to have succeeded stays in the session's        *)
(* globals until the session is destroyed or replaced by a restore.  (run  *)
(* takes the session out of the table and puts it back: what happens to    *)
(* the table in between must not be lost, nor overwrite it.)               *)
InFlight(s) == {c \in Clients : call[c].st \in {"exec", "put"} /\ Subject(c) = s}

Keeps(session, tokens) == session # None /\ tokens \subseteq session.memory

RunsPersist ==
    \A s \in SessionIds : promised[s] # {} =>
        IF InFlight(s) = {}
        THEN Keeps(sessions[s], promised[s])
        ELSE \E c \in InFlight(s) : Keeps(owned[c], promised[s])

(* No session in the table and no snapshot ever shows a run that is still  *)
(* executing, whatever else is called meanwhile: the executing session is  *)
(* reachable by its run alone.                                             *)
Unfinished == {call[c].tok : c \in {d \in Clients : call[d].st \in {"exec", "put"}}}

NoTornState ==
    /\ \A s \in SessionIds : sessions[s] # None =>
         sessions[s].memory \cap Unfinished = {}
    /\ \A e \in snaps : e.session.memory \cap Unfinished = {}

(* An interpreter is moved between the table and the runs, never copied:   *)
(* two sessions, or a session and one a run has in hand, share the effects *)
(* of a run only if a snapshot showed them.  (So sessions are isolated     *)
(* from each other, even when calls overlap and a second session is made   *)
(* under the id of one that is executing.)                                 *)
Snapshotted == UNION {e.session.memory : e \in snaps}

Disjoint(a, b) ==
    a # None /\ b # None => a.memory \cap b.memory \subseteq Snapshotted

MovedNotCopied ==
    /\ \A s, r \in SessionIds : s # r => Disjoint(sessions[s], sessions[r])
    /\ \A s \in SessionIds, c \in Clients : Disjoint(sessions[s], owned[c])
    /\ \A c, d \in Clients : c # d => Disjoint(owned[c], owned[d])

(* Every call gets an answer. *)
EveryCallReturns ==
    \A c \in Clients : call[c].st = "pending" ~> call[c].st \in {"replied", "idle"}

--------------------------------------------------------------------------------
(* The abstract store a caller sees.  A run takes effect when its code     *)
(* ends: from then on its session is the one it is about to put back.      *)
StoredSession(s) ==
    IF InFlight(s) = {} THEN sessions[s] ELSE owned[CHOOSE c \in InFlight(s) : TRUE]

StoreStage(st) ==
    CASE st = "exec" -> "pending"
      [] st = "put" -> "replied"
      [] OTHER -> st

StoreCall(c) ==
    IF call[c].st = "idle"
    THEN [st |-> "idle", op |-> None, sid |-> None, tok |-> None, arg |-> {}, res |-> NoReply]
    ELSE [st |-> StoreStage(call[c].st), op |-> call[c].req.op, sid |-> Subject(c),
          tok |-> call[c].tok, res |-> call[c].res,
          arg |-> IF call[c].req.op = "restore" /\ call[c].req.snap.good
                  THEN call[c].req.snap.session.memory ELSE {}]

Store == INSTANCE SessionStore WITH
    live <- {s \in SessionIds : StoredSession(s) # None},
    memory <- [s \in SessionIds |->
                 IF StoredSession(s) = None THEN {} ELSE StoredSession(s).memory],
    call <- [c \in Clients |-> StoreCall(c)]

(* Seen by callers that do not overlap on a session, the table implements  *)
(* the abstract session store.                                             *)
ImplementsStore == Store!Spec

===============================================================================
