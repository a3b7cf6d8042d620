------------------------------ MODULE DenoWorker ------------------------------
(***************************************************************************)
(* The TypeScript backend (DenoRuntime): isolates cannot leave their       *)
(* thread, so one worker thread owns every session and serves commands one *)
(* at a time from an unbounded channel.  A caller sends a command with a   *)
(* oneshot channel for the reply and waits for it; a caller that stops     *)
(* waiting does not take its command back.  Dropping the last handle sends *)
(* Shutdown and joins the thread.                                          *)
(***************************************************************************)
EXTENDS SessionApi, Sequences

CONSTANTS
    Shutdown,  \* the command that stops the worker
    MayDie     \* may the worker thread panic?

ASSUME WorkerAssumption == Shutdown \notin Clients /\ None \notin Clients /\ MayDie \in BOOLEAN

(* A DenoSession is its globals; an envelope is good if it passes every    *)
(* check of restore_session.                                               *)
Session == [memory : Memory]

Envelope == [good : BOOLEAN, sid : SessionIds \cup {None}, memory : Memory]

Modes == {"execute", "validate", "wrong_language"}

Request ==
    [op : Ops, sid : SessionIds \cup {None}, mode : Modes \cup {None},
     snap : Envelope \cup {None}]

ASSUME DenoAssumption == None \notin Modes \cup Session \cup Envelope \cup Request

VARIABLES
    sessions,  \* [SessionIds -> Session \cup {None}], the worker's map
    call,      \* [Clients -> Call], what each client waits for
    gone,      \* the clients that dropped the future of their call
    queue,     \* the channel: the clients whose commands wait, and Shutdown
    busy,      \* the client whose run the worker executes, or None
    owned,     \* what sessions.remove returned for that run
    worker,    \* the thread: "up", "stopped" or "dead"
    handle,    \* the last DenoRuntime handle: "open", "dropped" or "joined"
    nextTok,   \* how many calls have been made
    snaps      \* the snapshots callers have been given

vars == <<sessions, call, gone, queue, busy, owned, worker, handle, nextTok, snaps>>

(* seq is the place of a call among all calls, in the order they are sent. *)
Call ==
    [st : {"idle", "pending", "replied"}, req : Request \cup {None},
     seq : Nat, res : Result]

IdleCall == [st |-> "idle", req |-> None, seq |-> 0, res |-> NoReply]

TypeOK ==
    /\ sessions \in [SessionIds -> Session \cup {None}]
    /\ call \in [Clients -> Call]
    /\ gone \subseteq Clients
    /\ queue \in Seq(Clients \cup {Shutdown})
    /\ busy \in Clients \cup {None}
    /\ owned \in Session \cup {None}
    /\ worker \in {"up", "stopped", "dead"}
    /\ handle \in {"open", "dropped", "joined"}
    /\ nextTok \in Nat
    /\ snaps \subseteq Envelope

--------------------------------------------------------------------------------
PlainRequest(op, sid) == [op |-> op, sid |-> sid, mode |-> None, snap |-> None]

BadEnvelope == [good |-> FALSE, sid |-> None, memory |-> {}]

Requests ==
    {PlainRequest(op, s) : op \in {"create", "destroy", "snapshot"}, s \in SessionIds}
        \cup {PlainRequest("list", None)}
        \cup {[PlainRequest("run", s) EXCEPT !.mode = m] : s \in SessionIds, m \in Modes}
        \cup {[PlainRequest("restore", s) EXCEPT !.snap = e] :
                s \in SessionIds \cup {None}, e \in snaps \cup {BadEnvelope}}

Target(req) ==
    IF req.op = "restore" /\ req.sid = None THEN req.snap.sid ELSE req.sid

Subject(c) == Target(call[c].req)

Tok(c) == <<Subject(c), call[c].seq>>

NewSession == [memory |-> {}]

--------------------------------------------------------------------------------
Init ==
    /\ sessions = [s \in SessionIds |-> None]
    /\ call = [c \in Clients |-> IdleCall]
    /\ gone = {}
    /\ queue = <<>>
    /\ busy = None
    /\ owned = None
    /\ worker = "up"
    /\ handle = "open"
    /\ nextTok = 0
    /\ snaps = {}

(* The caller's half of every method: send the command and wait.  Sending  *)
(* fails, and the call with it, once the worker has dropped its receiver.  *)
Send(c) ==
    /\ handle = "open"
    /\ call[c].st = "idle" /\ c \notin gone
    /\ nextTok < MaxCalls
    /\ \E req \in Requests :
         call' = [call EXCEPT ![c] =
                    [st |-> IF worker = "up" THEN "pending" ELSE "replied",
                     req |-> req, seq |-> nextTok,
                     res |-> IF worker = "up" THEN NoReply ELSE Reply("error")]]
    /\ queue' = IF worker = "up" THEN Append(queue, c) ELSE queue
    /\ nextTok' = nextTok + 1
    /\ UNCHANGED <<sessions, gone, busy, owned, worker, handle, snaps>>

(* The caller drops the future; the command stays where it is. *)
Leave(c) ==
    /\ call[c].st = "pending" /\ c \notin gone
    /\ gone' = gone \cup {c}
    /\ UNCHANGED <<sessions, call, queue, busy, owned, worker, handle, nextTok, snaps>>

Return(c) ==
    /\ call[c].st = "replied" /\ c \notin gone
    /\ call' = [call EXCEPT ![c] = IdleCall]
    /\ UNCHANGED <<sessions, gone, queue, busy, owned, worker, handle, nextTok, snaps>>

--------------------------------------------------------------------------------
(* The worker *)

(* Mutant: the command is looked at and left in the channel. *)
ReceivedPeek(c, op) ==
    /\ worker = "up" /\ busy = None
    /\ queue # <<>> /\ Head(queue) = c
    /\ call[c].req.op = op
    /\ UNCHANGED queue

(* Mutant: the latest command is served first. *)
ReceivedLatest(c, op) ==
    /\ worker = "up" /\ busy = None
    /\ queue # <<>> /\ queue[Len(queue)] = c
    /\ call[c].req.op = op
    /\ queue' = SubSeq(queue, 1, Len(queue) - 1)

(* rx.recv() yields c's command of this kind. *)
Received(c, op) ==
    /\ worker = "up" /\ busy = None
    /\ queue # <<>> /\ Head(queue) = c
    /\ call[c].req.op = op
    /\ queue' = Tail(queue)

(* reply.send(result); the error of a caller that has gone is ignored. *)
Answer(c, res) == call' = [call EXCEPT ![c].st = "replied", ![c].res = res]

Idling == UNCHANGED <<gone, busy, owned, worker, handle, nextTok>>

(* The isolate of a new session may fail to start. *)
CreateSession(c) ==
    /\ Received(c, "create")
    /\ LET s == Subject(c)
       IN \/ /\ sessions' = IF sessions[s] = None
                            THEN [sessions EXCEPT ![s] = NewSession] ELSE sessions
             /\ Answer(c, Reply("ok"))
          \/ /\ sessions[s] = None
             /\ Answer(c, Reply("error"))
             /\ UNCHANGED sessions
    /\ Idling /\ UNCHANGED snaps

(* Another language is refused, validate_only looks at the code alone, and *)
(* the isolate of a new session may fail to start.                         *)
RejectRun(c) ==
    /\ Received(c, "run")
    /\ LET mode == call[c].req.mode
       IN \/ mode = "wrong_language" /\ Answer(c, Reply("error"))
          \/ mode = "validate" /\ Answer(c, Reply("validated"))
          \/ mode = "validate" /\ Answer(c, Reply("error"))
          \/ mode = "execute" /\ sessions[Subject(c)] = None /\ Answer(c, Reply("error"))
    /\ Idling /\ UNCHANGED <<sessions, snaps>>

(* The worker takes the session out of its map and awaits its run. *)
StartRun(c) ==
    /\ Received(c, "run")
    /\ call[c].req.mode = "execute"
    /\ busy' = c
    /\ owned' = sessions[Subject(c)]
    /\ sessions' = [sessions EXCEPT ![Subject(c)] = None]
    /\ UNCHANGED <<call, gone, worker, handle, nextTok, snaps>>

(* Mutant: the session of a failed run is not put back. *)
FinishRunOnSuccess(c) ==
    /\ worker = "up" /\ busy = c
    /\ LET before == IF owned = None THEN NewSession ELSE owned
           after == [memory |-> before.memory \cup {Tok(c)}]
       IN \/ sessions' = [sessions EXCEPT ![Subject(c)] = after] /\ Answer(c, Reply("ok"))
          \/ UNCHANGED sessions /\ Answer(c, Reply("error"))
    /\ busy' = None /\ owned' = None
    /\ UNCHANGED <<gone, queue, worker, handle, nextTok, snaps>>

(* The run ends, having had its effects or (when it failed) perhaps not;   *)
(* the session goes back and the reply out.                                *)
FinishRun(c) ==
    /\ worker = "up" /\ busy = c
    /\ LET before == IF owned = None THEN NewSession ELSE owned
           after == [memory |-> before.memory \cup {Tok(c)}]
           Put(session) == sessions' = [sessions EXCEPT ![Subject(c)] = session]
       IN \/ Put(after) /\ Answer(c, Reply("ok"))
          \/ (Put(before) \/ Put(after)) /\ Answer(c, Reply("error"))
    /\ busy' = None /\ owned' = None
    /\ UNCHANGED <<gone, queue, worker, handle, nextTok, snaps>>

DestroySession(c) ==
    /\ Received(c, "destroy")
    /\ sessions' = [sessions EXCEPT ![Subject(c)] = None]
    /\ Answer(c, Reply(IF sessions[Subject(c)] = None THEN "absent" ELSE "removed"))
    /\ Idling /\ UNCHANGED snaps

ListSessions(c) ==
    /\ Received(c, "list")
    /\ Answer(c, ListReply({s \in SessionIds : sessions[s] # None}))
    /\ Idling /\ UNCHANGED <<sessions, snaps>>

(* Reading the globals out of the isolate may fail.  Which of them it      *)
(* leaves out is DenoGlobals' and CliSessions' business.                   *)
SnapshotSession(c) ==
    /\ Received(c, "snapshot")
    /\ LET s == Subject(c)
       IN \/ sessions[s] = None /\ Answer(c, Reply("not_found")) /\ UNCHANGED snaps
          \/ sessions[s] # None /\ Answer(c, Reply("error")) /\ UNCHANGED snaps
          \/ /\ sessions[s] # None
             /\ Answer(c, SnapshotReply(sessions[s].memory))
             /\ snaps' = snaps \cup
                  {[good |-> TRUE, sid |-> s, memory |-> sessions[s].memory]}
    /\ Idling /\ UNCHANGED sessions

(* A refused envelope, an isolate that does not start or globals that do   *)
(* not load leave the session of that id as it was.                        *)
RestoreSession(c) ==
    /\ Received(c, "restore")
    /\ LET e == call[c].req.snap
       IN \/ /\ e.good
             /\ sessions' = [sessions EXCEPT ![Subject(c)] = [memory |-> e.memory]]
             /\ Answer(c, Reply("ok"))
          \/ Answer(c, Reply("error")) /\ UNCHANGED sessions
    /\ Idling /\ UNCHANGED snaps

(* Mutant: the dying thread leaks the reply channels. *)
WorkerDiesSilently ==
    /\ MayDie
    /\ worker = "up" /\ (busy # None \/ queue # <<>>)
    /\ worker' = "dead"
    /\ sessions' = [s \in SessionIds |-> None]
    /\ queue' = <<>> /\ busy' = None /\ owned' = None
    /\ UNCHANGED <<call, gone, handle, nextTok, snaps>>

(* The thread panics while it serves a command: its receiver, its sessions *)
(* and the reply channels of the commands it had not answered are dropped. *)
WorkerDies ==
    /\ MayDie
    /\ worker = "up" /\ (busy # None \/ queue # <<>>)
    /\ worker' = "dead"
    /\ sessions' = [s \in SessionIds |-> None]
    /\ queue' = <<>> /\ busy' = None /\ owned' = None
    /\ call' = [c \in Clients |->
                  IF call[c].st = "pending"
                  THEN [call[c] EXCEPT !.st = "replied", !.res = Reply("error")]
                  ELSE call[c]]
    /\ UNCHANGED <<gone, handle, nextTok, snaps>>

--------------------------------------------------------------------------------
(* Mutant: Shutdown overtakes the commands in the channel. *)
DropRuntimeAtOnce ==
    /\ handle = "open"
    /\ \A c \in Clients : call[c].st = "idle" \/ c \in gone
    /\ handle' = "dropped"
    /\ queue' = IF worker = "up" THEN <<Shutdown>> \o queue ELSE queue
    /\ UNCHANGED <<sessions, call, gone, busy, owned, worker, nextTok, snaps>>

(* DenoRuntimeInner::drop.  Every call borrows the handle, so none is      *)
(* waited for any more; those that were abandoned may still be queued.     *)
DropRuntime ==
    /\ handle = "open"
    /\ \A c \in Clients : call[c].st = "idle" \/ c \in gone
    /\ handle' = "dropped"
    /\ queue' = IF worker = "up" THEN Append(queue, Shutdown) ELSE queue
    /\ UNCHANGED <<sessions, call, gone, busy, owned, worker, nextTok, snaps>>

(* The worker answers and leaves its loop; its sessions go with it. *)
ServeShutdown ==
    /\ worker = "up" /\ busy = None
    /\ queue # <<>> /\ Head(queue) = Shutdown
    /\ worker' = "stopped"
    /\ sessions' = [s \in SessionIds |-> None]
    /\ queue' = <<>>
    /\ UNCHANGED <<call, gone, busy, owned, handle, nextTok, snaps>>

(* Mutant: join only a worker that answered. *)
JoinStopped ==
    /\ handle = "dropped" /\ worker = "stopped"
    /\ handle' = "joined"
    /\ UNCHANGED <<sessions, call, gone, queue, busy, owned, worker, nextTok, snaps>>

(* recv_timeout returns (with the answer, without the worker, or after its *)
(* five seconds) and join waits for the thread in any case.                *)
Join ==
    /\ handle = "dropped" /\ worker # "up"
    /\ handle' = "joined"
    /\ UNCHANGED <<sessions, call, gone, queue, busy, owned, worker, nextTok, snaps>>

--------------------------------------------------------------------------------
Serve ==
    \/ \E c \in Clients :
         \/ CreateSession(c)
         \/ RejectRun(c)
         \/ StartRun(c)
         \/ FinishRun(c)
         \/ DestroySession(c)
         \/ ListSessions(c)
         \/ SnapshotSession(c)
         \/ RestoreSession(c)
    \/ ServeShutdown

Next ==
    \/ \E c \in Clients : Send(c) \/ Leave(c) \/ Return(c)
    \/ Serve
    \/ WorkerDies
    \/ DropRuntime
    \/ Join

Spec == Init /\ [][Next]_vars

(* The worker thread runs, a run ends (its timer terminates the isolate,   *)
(* its tools are assumed to answer, and so is code without a timer assumed *)
(* to end, see DenoRun), and join returns once it may.                     *)
FairSpec == Spec /\ WF_vars(Serve) /\ WF_vars(Join)

--------------------------------------------------------------------------------
(* Where the command of c waits. *)
QueuedAt(c) == {i \in 1..Len(queue) : queue[i] = c}

(* While the worker lives, a call that waits for an answer has one command *)
(* in the channel or is the run under way, never both and never twice: no  *)
(* caller waits for a command that is lost or has been served.  (The type  *)
(* invariant goes with it.)                                                *)
PendingIsQueued ==
    TypeOK /\ \A c \in Clients :
        /\ call[c].st = "pending" => worker = "up"
        /\ call[c].st = "pending" /\ busy # c => \E i \in QueuedAt(c) : QueuedAt(c) = {i}
        /\ call[c].st # "pending" \/ busy = c => QueuedAt(c) = {}

(* Calls are answered in the order they were sent, an abandoned one in its *)
(* turn, unless the worker dies.                                           *)
AnsweredInOrder ==
    [][\A c, d \in Clients :
         /\ call[c].st = "pending" /\ call'[c].st = "replied"
         /\ call[d].st = "pending"
         /\ worker' # "dead"
         => call[c].seq <= call[d].seq]_vars

(* A worker that was told to stop has served every command sent before. *)
DrainedAtStop ==
    worker = "stopped" => \A c \in Clients : call[c].st # "pending"

(* Every call is answered, abandoned ones and the worker's death included. *)
EveryCallReturns ==
    \A c \in Clients : call[c].st = "pending" ~> call[c].st # "pending"

(* Dropping the runtime ends: the thread stops and is joined. *)
ShutdownCompletes == handle = "dropped" ~> handle = "joined"

--------------------------------------------------------------------------------
(* The store a caller sees: a run takes effect when it finishes, and until *)
(* then its session is what it was when the worker took it.                *)
StoredSession(s) ==
    IF busy # None /\ Subject(busy) = s THEN owned ELSE sessions[s]

StoreCall(c) ==
    IF call[c].st = "idle"
    THEN [st |-> "idle", op |-> None, sid |-> None, tok |-> None, arg |-> {}, res |-> NoReply]
    ELSE [st |-> call[c].st, op |-> call[c].req.op, sid |-> Subject(c),
          tok |-> IF call[c].req.op = "run" THEN Tok(c) ELSE None, res |-> call[c].res,
          arg |-> IF call[c].req.op = "restore" THEN call[c].req.snap.memory ELSE {}]

Store == INSTANCE SessionStore WITH
    live <- {s \in SessionIds : StoredSession(s) # None},
    memory <- [s \in SessionIds |->
                 IF StoredSession(s) = None THEN {} ELSE StoredSession(s).memory],
    call <- [c \in Clients |-> StoreCall(c)]

(* However its callers overlap, the worker implements the abstract store. *)
ImplementsStore == Store!Spec

===============================================================================
