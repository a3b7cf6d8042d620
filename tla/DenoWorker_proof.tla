--------------------------- MODULE DenoWorker_proof ----------------------------
(***************************************************************************)
(* Proofs about the TypeScript worker: no command is lost or served twice, *)
(* commands are served in order and after a bounded number of steps,       *)
(* nothing is left when the worker stops, and the worker is the abstract   *)
(* store of sessions, however its callers overlap, leave and outlive it.   *)
(***************************************************************************)
EXTENDS DenoWorker, TLAPS

(* The parts of TypeOK. *)
CallerTyped ==
    /\ call \in [Clients -> Call]
    /\ gone \subseteq Clients
    /\ handle \in {"open", "dropped", "joined"}
    /\ nextTok \in Nat

ChannelTyped ==
    /\ queue \in Seq(Clients \cup {Shutdown})
    /\ busy \in Clients \cup {None}
    /\ worker \in {"up", "stopped", "dead"}

TableTyped ==
    /\ sessions \in [SessionIds -> Session \cup {None}]
    /\ owned \in Session \cup {None}
    /\ snaps \subseteq Envelope

(* TypeOK is the conjunction of its parts. *)
LEMMA TypeParts == TypeOK <=> CallerTyped /\ ChannelTyped /\ TableTyped
BY DEF TypeOK, CallerTyped, ChannelTyped, TableTyped

(* A call under way has a request that could be made and a place among the *)
(* calls.                                                                  *)
CallOK(c) ==
    call[c].st # "idle" =>
        /\ call[c].req \in Request
        /\ call[c].req.op \notin {"list", "restore"} => call[c].req.sid \in SessionIds
        /\ call[c].req.op = "restore" => call[c].req.snap \in snaps \cup {BadEnvelope}
        /\ call[c].seq < nextTok

CallsOK == \A c \in Clients : CallOK(c)

(* Snapshots that were handed out are good. *)
SnapsOK == \A e \in snaps : e.good /\ e.sid \in SessionIds

(* Is the command of c in the channel? *)
InQueue(c) == \E i \in 1..Len(queue) : queue[i] = c

(* The channel holds the commands of the calls that wait, but for the run  *)
(* under way, each once.                                                   *)
QueueOK ==
    /\ \A c \in Clients : InQueue(c) <=> call[c].st = "pending" /\ busy # c
    /\ \A i, j \in 1..Len(queue) : queue[i] = queue[j] => i = j
    /\ worker # "up" => queue = <<>> /\ busy = None
    /\ busy # None => call[busy].st = "pending" /\ call[busy].req.op = "run"

(* Commands lie in the channel in the order of their calls; the run under  *)
(* way came before them, and Shutdown, if it is there, comes last.         *)
OrderOK ==
    /\ \A i, j \in 1..Len(queue) :
         i < j /\ queue[i] \in Clients /\ queue[j] \in Clients =>
            call[queue[i]].seq < call[queue[j]].seq
    /\ busy # None => \A i \in 1..Len(queue) :
         queue[i] \in Clients => call[busy].seq < call[queue[i]].seq
    /\ \A i \in 1..Len(queue) :
         queue[i] = Shutdown => i = Len(queue) /\ handle # "open"

(* The inductive invariant. *)
IInv == TypeOK /\ CallsOK /\ SnapsOK /\ QueueOK /\ OrderOK

--------------------------------------------------------------------------------
(* Every initial state satisfies the invariant. *)
LEMMA InitIInv == Init => IInv
<1> SUFFICES ASSUME Init PROVE IInv
  OBVIOUS
<1>1. IdleCall \in Call
  BY ApiAssumption DEF IdleCall, Call, NoReply, Reply, Result, Tags, Memory
<1>2. queue \in Seq(Clients \cup {Shutdown}) /\ Len(queue) = 0
  BY DEF Init
<1>3. TypeOK
  BY <1>1, <1>2 DEF Init, TypeOK
<1>4. CallsOK /\ SnapsOK
  BY DEF Init, CallsOK, CallOK, SnapsOK, IdleCall
<1>5. QueueOK /\ OrderOK
  BY <1>2, WorkerAssumption DEF Init, QueueOK, InQueue, OrderOK, IdleCall
<1>6. QED
  BY <1>3, <1>4, <1>5 DEF IInv

(* A reply without data is a result. *)
LEMMA ReplyTyped ==
    ASSUME NEW tag \in Tags
    PROVE  Reply(tag) \in Result
BY DEF Reply, Result, Memory

(* What Answer does to the calls. *)
LEMMA AnswerFacts ==
    ASSUME call \in [Clients -> Call], NEW c \in Clients, NEW res \in Result, Answer(c, res)
    PROVE  /\ call' \in [Clients -> Call]
           /\ \A d \in Clients \ {c} : call'[d] = call[d]
           /\ call'[c].st = "replied" /\ call'[c].res = res
           /\ call'[c].req = call[c].req /\ call'[c].seq = call[c].seq
BY DEF Answer, Call

(* A request that can be made is well formed. *)
LEMMA RequestsTyped ==
    ASSUME snaps \subseteq Envelope, NEW req \in Requests
    PROVE  /\ req \in Request
           /\ req.op \notin {"list", "restore"} => req.sid \in SessionIds
           /\ req.op = "restore" => req.snap \in snaps \cup {BadEnvelope}
<1>1. BadEnvelope \in Envelope
  BY DEF BadEnvelope, Envelope, Memory
<1>2. CASE req \in {PlainRequest(op, s) : op \in {"create", "destroy", "snapshot"}, s \in SessionIds}
  BY <1>2 DEF PlainRequest, Request, Ops
<1>3. CASE req = PlainRequest("list", None)
  BY <1>3 DEF PlainRequest, Request, Ops
<1>4. CASE req \in {[PlainRequest("run", s) EXCEPT !.mode = m] : s \in SessionIds, m \in Modes}
  <2>1. PICK s \in SessionIds, m \in Modes : req = [PlainRequest("run", s) EXCEPT !.mode = m]
    BY <1>4
  <2>2. QED
    BY <2>1 DEF PlainRequest, Request, Ops
<1>5. CASE req \in {[PlainRequest("restore", s) EXCEPT !.snap = e] :
                      s \in SessionIds \cup {None}, e \in snaps \cup {BadEnvelope}}
  <2>1. PICK s \in SessionIds \cup {None}, e \in snaps \cup {BadEnvelope} :
          req = [PlainRequest("restore", s) EXCEPT !.snap = e]
    BY <1>5
  <2>2. e \in Envelope
    BY <1>1
  <2>3. QED
    BY <2>1, <2>2 DEF PlainRequest, Request, Ops
<1>6. QED
  BY <1>2, <1>3, <1>4, <1>5 DEF Requests

(* What the head of the channel leaves behind. *)
LEMMA TailFacts ==
    ASSUME queue \in Seq(Clients \cup {Shutdown}), queue # <<>>, queue' = Tail(queue)
    PROVE  /\ queue' \in Seq(Clients \cup {Shutdown})
           /\ Len(queue) \in Nat /\ Len(queue') = Len(queue) - 1 /\ Len(queue) > 0
           /\ \A i \in 1..Len(queue') : queue'[i] = queue[i + 1] /\ i + 1 \in 1..Len(queue)
           /\ \A i \in 1..Len(queue) : i # 1 => queue[i] = queue'[i - 1] /\ i - 1 \in 1..Len(queue')
           /\ Head(queue) = queue[1]
OBVIOUS

(* What a command that is sent does to it. *)
LEMMA AppendFacts ==
    ASSUME queue \in Seq(Clients \cup {Shutdown}), NEW x \in Clients \cup {Shutdown},
           queue' = Append(queue, x)
    PROVE  /\ queue' \in Seq(Clients \cup {Shutdown})
           /\ Len(queue) \in Nat /\ Len(queue') = Len(queue) + 1
           /\ \A i \in 1..Len(queue) : queue'[i] = queue[i]
           /\ queue'[Len(queue')] = x
OBVIOUS

(* Calls keep their requests and places when they are answered, all or one *)
(* or none.                                                                *)
KeepRequests ==
    \A c \in Clients :
        /\ call'[c].req = call[c].req /\ call'[c].seq = call[c].seq
        /\ call[c].st = "idle" => call'[c].st = "idle"

LEMMA CallsKept ==
    ASSUME CallsOK, KeepRequests, snaps \subseteq snaps', nextTok' = nextTok
    PROVE  CallsOK'
<1> SUFFICES ASSUME NEW c \in Clients PROVE CallOK(c)'
  BY DEF CallsOK
<1>1. CallOK(c)
  BY DEF CallsOK
<1>2. QED
  BY <1>1 DEF CallOK, KeepRequests

(* A call whose command has come to the head of the channel waits. *)
LEMMA HeadWaits ==
    ASSUME IInv, NEW c \in Clients, NEW op, Received(c, op)
    PROVE  /\ call[c].st = "pending" /\ call[c].req.op = op /\ CallOK(c)
           /\ worker = "up" /\ busy = None /\ queue[1] = c /\ 1 \in 1..Len(queue)
<1>1. queue \in Seq(Clients \cup {Shutdown}) /\ queue # <<>> /\ queue[1] = c /\ call[c].req.op = op
  BY DEF IInv, TypeOK, Received
<1>2. 1 \in 1..Len(queue)
  BY <1>1
<1>3. InQueue(c)
  BY <1>1, <1>2 DEF InQueue
<1>4. QED
  BY <1>1, <1>2, <1>3 DEF IInv, QueueOK, CallsOK, Received

(* The head of the channel is taken out, and answered or begun. *)
LEMMA ChannelAfterHead ==
    ASSUME IInv, NEW c \in Clients, NEW op, Received(c, op), KeepRequests,
           \A d \in Clients \ {c} : call'[d] = call[d],
           UNCHANGED <<worker, handle>>,
           \/ busy' = None /\ call'[c].st = "replied"
           \/ busy' = c /\ call'[c].st = "pending" /\ op = "run"
    PROVE  queue' \in Seq(Clients \cup {Shutdown}) /\ QueueOK' /\ OrderOK'
<1>1. /\ queue \in Seq(Clients \cup {Shutdown}) /\ queue # <<>> /\ queue' = Tail(queue)
      /\ QueueOK /\ OrderOK
      /\ call[c].st = "pending" /\ call[c].req.op = op
      /\ worker = "up" /\ busy = None /\ queue[1] = c /\ 1 \in 1..Len(queue)
  BY HeadWaits DEF IInv, TypeOK, Received
<1>2. /\ queue' \in Seq(Clients \cup {Shutdown})
      /\ Len(queue) \in Nat /\ Len(queue') = Len(queue) - 1 /\ Len(queue) > 0
      /\ \A i \in 1..Len(queue') : queue'[i] = queue[i + 1] /\ i + 1 \in 1..Len(queue)
      /\ \A i \in 1..Len(queue) : i # 1 => queue[i] = queue'[i - 1] /\ i - 1 \in 1..Len(queue')
  BY <1>1, TailFacts
<1>3. None \notin Clients
  BY WorkerAssumption
<1>4. ~InQueue(c)'
  <2>1. ASSUME NEW i \in 1..Len(queue'), queue'[i] = c PROVE FALSE
    <3>1. queue[i + 1] = c /\ i + 1 \in 1..Len(queue) /\ i + 1 # 1
      BY <1>2, <2>1
    <3>2. QED
      BY <1>1, <3>1 DEF QueueOK
  <2>2. QED
    BY <2>1 DEF InQueue
<1>5. ASSUME NEW d \in Clients \ {c} PROVE InQueue(d)' <=> InQueue(d)
  <2>1. InQueue(d) => InQueue(d)'
    BY <1>1, <1>2 DEF InQueue
  <2>2. InQueue(d)' => InQueue(d)
    BY <1>2 DEF InQueue
  <2>3. QED
    BY <2>1, <2>2
<1>6. QueueOK'
  <2>1. ASSUME NEW d \in Clients PROVE InQueue(d)' <=> call'[d].st = "pending" /\ busy' # d
    BY <1>1, <1>3, <1>4, <1>5 DEF QueueOK
  <2>2. ASSUME NEW i \in 1..Len(queue'), NEW j \in 1..Len(queue'), queue'[i] = queue'[j]
        PROVE  i = j
    <3>1. queue[i + 1] = queue[j + 1] /\ i + 1 \in 1..Len(queue) /\ j + 1 \in 1..Len(queue)
      BY <1>2, <2>2
    <3>2. i + 1 = j + 1
      BY <1>1, <3>1 DEF QueueOK
    <3>3. QED
      BY <3>2
  <2>3. busy' # None => call'[busy'].st = "pending" /\ call'[busy'].req.op = "run"
    BY <1>1 DEF KeepRequests
  <2>4. worker' = "up"
    BY <1>1
  <2>5. QED
    BY <2>1, <2>2, <2>3, <2>4 DEF QueueOK
<1>7. OrderOK'
  <2>1. ASSUME NEW i \in 1..Len(queue'), NEW j \in 1..Len(queue'), i < j,
               queue'[i] \in Clients, queue'[j] \in Clients
        PROVE  call'[queue'[i]].seq < call'[queue'[j]].seq
    <3>1. /\ queue'[i] = queue[i + 1] /\ queue'[j] = queue[j + 1]
          /\ i + 1 \in 1..Len(queue) /\ j + 1 \in 1..Len(queue) /\ i + 1 < j + 1
      BY <1>2, <2>1
    <3>2. call[queue[i + 1]].seq < call[queue[j + 1]].seq
      BY <1>1, <2>1, <3>1 DEF OrderOK
    <3>3. QED
      BY <2>1, <3>1, <3>2 DEF KeepRequests
  <2>2. ASSUME NEW i \in 1..Len(queue'), queue'[i] \in Clients, busy' # None
        PROVE  call'[busy'].seq < call'[queue'[i]].seq
    <3>1. queue'[i] = queue[i + 1] /\ i + 1 \in 1..Len(queue) /\ 1 < i + 1
      BY <1>2, <2>2
    <3>2. call[c].seq < call[queue[i + 1]].seq
      BY <1>1, <2>2, <3>1 DEF OrderOK
    <3>3. QED
      BY <2>2, <3>1, <3>2 DEF KeepRequests
  <2>3. ASSUME NEW i \in 1..Len(queue'), queue'[i] = Shutdown
        PROVE  i = Len(queue') /\ handle' # "open"
    <3>1. queue[i + 1] = Shutdown /\ i + 1 \in 1..Len(queue)
      BY <1>2, <2>3
    <3>2. i + 1 = Len(queue) /\ handle # "open"
      BY <1>1, <3>1 DEF OrderOK
    <3>3. QED
      BY <1>2, <3>2
  <2>4. QED
    BY <2>1, <2>2, <2>3 DEF OrderOK
<1>8. QED
  BY <1>2, <1>6, <1>7

(* A command that is answered as soon as it is received. *)
LEMMA AnsweredStep ==
    ASSUME IInv, NEW c \in Clients, NEW op, Received(c, op), Idling,
           NEW res \in Result, Answer(c, res),
           sessions' \in [SessionIds -> Session \cup {None}],
           snaps \subseteq snaps', snaps' \subseteq Envelope, SnapsOK'
    PROVE  IInv'
<1>1. /\ CallerTyped /\ ChannelTyped /\ TableTyped
      /\ call[c].st = "pending" /\ busy = None /\ CallsOK
  BY HeadWaits, TypeParts DEF IInv
<1>2. /\ call' \in [Clients -> Call]
      /\ \A d \in Clients \ {c} : call'[d] = call[d]
      /\ call'[c].st = "replied"
      /\ call'[c].req = call[c].req /\ call'[c].seq = call[c].seq
  BY <1>1, AnswerFacts DEF CallerTyped
<1>3. KeepRequests
  BY <1>1, <1>2 DEF KeepRequests
<1>4. queue' \in Seq(Clients \cup {Shutdown}) /\ QueueOK' /\ OrderOK'
  BY <1>1, <1>2, <1>3, ChannelAfterHead DEF Idling
<1>5. CallerTyped' /\ ChannelTyped' /\ TableTyped'
  BY <1>1, <1>2, <1>4 DEF Idling, CallerTyped, ChannelTyped, TableTyped
<1>6. CallsOK'
  BY <1>1, <1>3, CallsKept DEF Idling
<1>7. TypeOK'
  BY <1>5 DEF TypeOK, CallerTyped, ChannelTyped, TableTyped
<1>8. QED
  BY <1>4, <1>6, <1>7 DEF IInv

--------------------------------------------------------------------------------
(* The session a command is about. *)
LEMMA SubjectTyped ==
    ASSUME IInv, NEW c \in Clients, call[c].st = "pending"
    PROVE  /\ call[c].req.op \notin {"list", "restore"} => Subject(c) \in SessionIds
           /\ call[c].req.op = "restore" =>
                /\ call[c].req.snap \in Envelope
                /\ call[c].req.snap.good => Subject(c) \in SessionIds
<1>1. CallOK(c) /\ SnapsOK /\ snaps \subseteq Envelope
  BY DEF IInv, CallsOK, TypeOK
<1>2. BadEnvelope \in Envelope /\ ~BadEnvelope.good
  BY DEF BadEnvelope, Envelope, Memory
<1>3. CASE call[c].req.op \notin {"list", "restore"}
  BY <1>1, <1>3 DEF CallOK, Subject, Target
<1>4. CASE call[c].req.op = "restore"
  <2>1. call[c].req.snap \in snaps \cup {BadEnvelope} /\ call[c].req.sid \in SessionIds \cup {None}
    BY <1>1, <1>4 DEF CallOK, Request
  <2>2. call[c].req.snap.good => call[c].req.snap.sid \in SessionIds
    BY <1>1, <1>2, <2>1 DEF SnapsOK
  <2>3. QED
    BY <1>1, <1>2, <1>4, <2>1, <2>2 DEF Subject, Target
<1>5. QED
  BY <1>3, <1>4

LEMMA CreateSessionStep ==
    ASSUME IInv, NEW c \in Clients, CreateSession(c)
    PROVE  IInv'
<1>1. Received(c, "create") /\ Idling /\ snaps' = snaps
  BY DEF CreateSession
<1>2. Subject(c) \in SessionIds
  BY <1>1, HeadWaits, SubjectTyped
<1>3. sessions' \in [SessionIds -> Session \cup {None}]
  BY <1>2 DEF CreateSession, IInv, TypeOK, NewSession, Session, Memory
<1>4. \E res \in Result : Answer(c, res)
  BY ReplyTyped DEF CreateSession, Tags
<1>5. snaps' \subseteq Envelope /\ SnapsOK'
  BY <1>1 DEF IInv, TypeOK, SnapsOK
<1>6. QED
  BY <1>1, <1>3, <1>4, <1>5, AnsweredStep

LEMMA RejectRunStep ==
    ASSUME IInv, NEW c \in Clients, RejectRun(c)
    PROVE  IInv'
<1>1. Received(c, "run") /\ Idling /\ snaps' = snaps /\ sessions' = sessions
  BY DEF RejectRun
<1>2. \E res \in Result : Answer(c, res)
  BY ReplyTyped DEF RejectRun, Tags
<1>3. /\ snaps' \subseteq Envelope /\ SnapsOK'
      /\ sessions' \in [SessionIds -> Session \cup {None}]
  BY <1>1 DEF IInv, TypeOK, SnapsOK
<1>4. QED
  BY <1>1, <1>2, <1>3, AnsweredStep

LEMMA DestroySessionStep ==
    ASSUME IInv, NEW c \in Clients, DestroySession(c)
    PROVE  IInv'
<1>1. Received(c, "destroy") /\ Idling /\ snaps' = snaps
  BY DEF DestroySession
<1>2. sessions' \in [SessionIds -> Session \cup {None}]
  BY DEF DestroySession, IInv, TypeOK
<1>3. \E res \in Result : Answer(c, res)
  BY ReplyTyped DEF DestroySession, Tags
<1>4. snaps' \subseteq Envelope /\ SnapsOK'
  BY <1>1 DEF IInv, TypeOK, SnapsOK
<1>5. QED
  BY <1>1, <1>2, <1>3, <1>4, AnsweredStep

LEMMA ListSessionsStep ==
    ASSUME IInv, NEW c \in Clients, ListSessions(c)
    PROVE  IInv'
<1>1. Received(c, "list") /\ Idling /\ snaps' = snaps /\ sessions' = sessions
  BY DEF ListSessions
<1>2. \E res \in Result : Answer(c, res)
  BY DEF ListSessions, ListReply, Result, Tags, Memory
<1>3. /\ snaps' \subseteq Envelope /\ SnapsOK'
      /\ sessions' \in [SessionIds -> Session \cup {None}]
  BY <1>1 DEF IInv, TypeOK, SnapsOK
<1>4. QED
  BY <1>1, <1>2, <1>3, AnsweredStep

LEMMA SnapshotSessionStep ==
    ASSUME IInv, NEW c \in Clients, SnapshotSession(c)
    PROVE  IInv'
<1>1. Received(c, "snapshot") /\ Idling /\ sessions' = sessions
  BY DEF SnapshotSession
<1>2. Subject(c) \in SessionIds
  BY <1>1, HeadWaits, SubjectTyped
<1>3. sessions \in [SessionIds -> Session \cup {None}] /\ snaps \subseteq Envelope /\ SnapsOK
  BY DEF IInv, TypeOK
<1>4. sessions[Subject(c)] # None => sessions[Subject(c)].memory \in Memory
  BY <1>2, <1>3 DEF Session
<1>5. \E res \in Result : Answer(c, res)
  <2>1. sessions[Subject(c)] # None => SnapshotReply(sessions[Subject(c)].memory) \in Result
    BY <1>4 DEF SnapshotReply, Result, Tags
  <2>2. QED
    BY <2>1, ReplyTyped DEF SnapshotSession, Tags
<1>6. snaps' = snaps \/
        /\ sessions[Subject(c)] # None
        /\ snaps' = snaps \cup
             {[good |-> TRUE, sid |-> Subject(c), memory |-> sessions[Subject(c)].memory]}
  BY DEF SnapshotSession
<1>7. snaps \subseteq snaps' /\ snaps' \subseteq Envelope /\ SnapsOK'
  <2>1. CASE snaps' = snaps
    BY <1>3, <2>1 DEF SnapsOK
  <2>2. CASE snaps' # snaps
    <3>1. PICK e : /\ e = [good |-> TRUE, sid |-> Subject(c), memory |-> sessions[Subject(c)].memory]
                   /\ snaps' = snaps \cup {e}
      BY <1>6, <2>2
    <3>2. e \in Envelope /\ e.good /\ e.sid \in SessionIds
      BY <1>2, <1>4, <1>6, <2>2, <3>1 DEF Envelope
    <3>3. QED
      BY <1>3, <3>1, <3>2 DEF SnapsOK
  <2>3. QED
    BY <2>1, <2>2
<1>8. QED
  BY <1>1, <1>3, <1>5, <1>7, AnsweredStep

LEMMA RestoreSessionStep ==
    ASSUME IInv, NEW c \in Clients, RestoreSession(c)
    PROVE  IInv'
<1>1. Received(c, "restore") /\ Idling /\ snaps' = snaps
  BY DEF RestoreSession
<1>2. /\ call[c].req.snap \in Envelope
      /\ call[c].req.snap.good => Subject(c) \in SessionIds
  BY <1>1, HeadWaits, SubjectTyped
<1>3. sessions' \in [SessionIds -> Session \cup {None}]
  BY <1>2 DEF RestoreSession, IInv, TypeOK, Session, Envelope
<1>4. \E res \in Result : Answer(c, res)
  BY ReplyTyped DEF RestoreSession, Tags
<1>5. snaps' \subseteq Envelope /\ SnapsOK'
  BY <1>1 DEF IInv, TypeOK, SnapsOK
<1>6. QED
  BY <1>1, <1>3, <1>4, <1>5, AnsweredStep

LEMMA StartRunStep ==
    ASSUME IInv, NEW c \in Clients, StartRun(c)
    PROVE  IInv'
<1>1. /\ Received(c, "run") /\ busy' = c /\ owned' = sessions[Subject(c)]
      /\ sessions' = [sessions EXCEPT ![Subject(c)] = None]
      /\ UNCHANGED <<call, gone, worker, handle, nextTok, snaps>>
  BY DEF StartRun
<1>2. /\ call[c].st = "pending" /\ Subject(c) \in SessionIds
      /\ CallerTyped /\ ChannelTyped /\ TableTyped /\ CallsOK /\ SnapsOK
  BY <1>1, HeadWaits, SubjectTyped, TypeParts DEF IInv
<1>3. KeepRequests
  BY <1>1 DEF KeepRequests
<1>4. queue' \in Seq(Clients \cup {Shutdown}) /\ QueueOK' /\ OrderOK'
  BY <1>1, <1>2, <1>3, ChannelAfterHead
<1>5. CallerTyped' /\ ChannelTyped' /\ TableTyped'
  BY <1>1, <1>2, <1>4 DEF CallerTyped, ChannelTyped, TableTyped
<1>6. CallsOK' /\ SnapsOK'
  BY <1>1, <1>2, <1>3, CallsKept DEF SnapsOK
<1>7. TypeOK'
  BY <1>5 DEF TypeOK, CallerTyped, ChannelTyped, TableTyped
<1>8. QED
  BY <1>4, <1>6, <1>7 DEF IInv

(* The run under way is the call of a client, on a session. *)
LEMMA BusyFacts ==
    ASSUME IInv, NEW c \in Clients, busy = c
    PROVE  /\ call[c].st = "pending" /\ call[c].req.op = "run" /\ Subject(c) \in SessionIds
           /\ Tok(c) \in Token
<1>1. c # None
  BY WorkerAssumption
<1>2. call[c].st = "pending" /\ call[c].req.op = "run"
  BY <1>1 DEF IInv, QueueOK
<1>3. Subject(c) \in SessionIds
  BY <1>2, SubjectTyped
<1>4. call[c].seq \in Nat
  BY DEF IInv, TypeOK, Call
<1>5. QED
  BY <1>2, <1>3, <1>4 DEF Tok, Token

(* What a run finds, and what it leaves. *)
Found == IF owned = None THEN NewSession ELSE owned
Left(c) == [memory |-> Found.memory \cup {Tok(c)}]

LEMMA FinishRunFacts ==
    ASSUME IInv, NEW c \in Clients, FinishRun(c)
    PROVE  /\ busy = c /\ Found \in Session /\ Left(c) \in Session
           /\ busy' = None /\ owned' = None
           /\ UNCHANGED <<gone, queue, worker, handle, nextTok, snaps>>
           /\ \E session \in {Found, Left(c)}, tag \in {"ok", "error"} :
                /\ sessions' = [sessions EXCEPT ![Subject(c)] = session]
                /\ Answer(c, Reply(tag))
                /\ tag = "ok" => session = Left(c)
<1>1. Found \in Session
  BY DEF IInv, TypeOK, Found, NewSession, Session, Memory
<1>2. Tok(c) \in Token
  BY BusyFacts DEF FinishRun
<1>3. Left(c) \in Session
  BY <1>1, <1>2 DEF Left, Session, Memory
<1>4. QED
  BY <1>1, <1>3 DEF FinishRun, Found, Left

LEMMA FinishRunStep ==
    ASSUME IInv, NEW c \in Clients, FinishRun(c)
    PROVE  IInv'
<1>1. /\ busy = c /\ Found \in Session /\ Left(c) \in Session
      /\ busy' = None /\ owned' = None
      /\ UNCHANGED <<gone, queue, worker, handle, nextTok, snaps>>
  BY FinishRunFacts
<1>2. PICK session \in {Found, Left(c)}, tag \in {"ok", "error"} :
        /\ sessions' = [sessions EXCEPT ![Subject(c)] = session]
        /\ Answer(c, Reply(tag))
  BY FinishRunFacts
<1>3. /\ CallerTyped /\ ChannelTyped /\ TableTyped /\ CallsOK /\ SnapsOK /\ QueueOK /\ OrderOK
      /\ call[c].st = "pending"
  BY <1>1, BusyFacts, TypeParts DEF IInv
<1>4. /\ call' \in [Clients -> Call]
      /\ \A d \in Clients \ {c} : call'[d] = call[d]
      /\ call'[c].st = "replied"
      /\ call'[c].req = call[c].req /\ call'[c].seq = call[c].seq
  BY <1>2, <1>3, AnswerFacts, ReplyTyped DEF CallerTyped, Tags
<1>5. KeepRequests
  BY <1>3, <1>4 DEF KeepRequests
<1>6. CallerTyped' /\ ChannelTyped' /\ TableTyped'
  BY <1>1, <1>2, <1>3, <1>4 DEF CallerTyped, ChannelTyped, TableTyped
<1>7. QueueOK'
  <2>1. None \notin Clients
    BY WorkerAssumption
  <2>2. ASSUME NEW d \in Clients PROVE InQueue(d)' <=> call'[d].st = "pending" /\ busy' # d
    <3>1. InQueue(d)' <=> InQueue(d)
      BY <1>1 DEF InQueue
    <3>2. InQueue(d) <=> call[d].st = "pending" /\ busy # d
      BY <1>3 DEF QueueOK
    <3>3. QED
      BY <1>1, <1>4, <2>1, <3>1, <3>2
  <2>3. /\ \A i, j \in 1..Len(queue') : queue'[i] = queue'[j] => i = j
        /\ worker' # "up" => queue' = <<>> /\ busy' = None
    BY <1>1, <1>3 DEF QueueOK
  <2>4. QED
    BY <1>1, <2>2, <2>3 DEF QueueOK
<1>8. OrderOK'
  BY <1>1, <1>3, <1>5 DEF OrderOK, KeepRequests
<1>9. CallsOK' /\ SnapsOK'
  BY <1>1, <1>3, <1>5, CallsKept DEF SnapsOK
<1>10. TypeOK'
  BY <1>6 DEF TypeOK, CallerTyped, ChannelTyped, TableTyped
<1>11. QED
  BY <1>7, <1>8, <1>9, <1>10 DEF IInv

--------------------------------------------------------------------------------
(* A call that is made goes to the end of the channel. *)
LEMMA SendStep ==
    ASSUME IInv, NEW c \in Clients, Send(c)
    PROVE  IInv'
<1>1. /\ CallerTyped /\ ChannelTyped /\ TableTyped /\ CallsOK /\ SnapsOK /\ QueueOK /\ OrderOK
      /\ handle = "open" /\ call[c].st = "idle"
      /\ nextTok' = nextTok + 1
      /\ UNCHANGED <<sessions, gone, busy, owned, worker, handle, snaps>>
      /\ queue' = IF worker = "up" THEN Append(queue, c) ELSE queue
  BY TypeParts DEF IInv, Send
<1>2. PICK req \in Requests :
        call' = [call EXCEPT ![c] =
                    [st |-> IF worker = "up" THEN "pending" ELSE "replied",
                     req |-> req, seq |-> nextTok,
                     res |-> IF worker = "up" THEN NoReply ELSE Reply("error")]]
  BY DEF Send
<1>3. /\ req \in Request
      /\ req.op \notin {"list", "restore"} => req.sid \in SessionIds
      /\ req.op = "restore" => req.snap \in snaps \cup {BadEnvelope}
  BY <1>1, RequestsTyped DEF TableTyped
<1>4. /\ call' \in [Clients -> Call]
      /\ \A d \in Clients \ {c} : call'[d] = call[d]
      /\ call'[c].st = IF worker = "up" THEN "pending" ELSE "replied"
      /\ call'[c].req = req /\ call'[c].seq = nextTok
  <2>1. NoReply \in Result /\ Reply("error") \in Result
    BY ReplyTyped DEF NoReply, Tags
  <2>2. [st |-> IF worker = "up" THEN "pending" ELSE "replied",
         req |-> req, seq |-> nextTok,
         res |-> IF worker = "up" THEN NoReply ELSE Reply("error")] \in Call
    BY <1>1, <1>3, <2>1 DEF CallerTyped, Call
  <2>3. QED
    BY <1>1, <1>2, <2>2 DEF CallerTyped
<1>5. /\ Len(queue) \in Nat
      /\ worker = "up" =>
           /\ queue' \in Seq(Clients \cup {Shutdown})
           /\ Len(queue') = Len(queue) + 1
           /\ \A i \in 1..Len(queue) : queue'[i] = queue[i]
           /\ queue'[Len(queue')] = c
  BY <1>1, AppendFacts DEF ChannelTyped
<1>6. CallerTyped' /\ ChannelTyped' /\ TableTyped'
  BY <1>1, <1>4, <1>5 DEF CallerTyped, ChannelTyped, TableTyped
<1>7. CallsOK'
  <2> SUFFICES ASSUME NEW d \in Clients PROVE CallOK(d)'
    BY DEF CallsOK
  <2>1. CASE d = c
    BY <1>1, <1>3, <1>4, <2>1 DEF CallOK, CallerTyped
  <2>2. CASE d # c
    <3>1. call[d].seq < nextTok => call[d].seq < nextTok'
      BY <1>1 DEF CallerTyped, Call
    <3>2. CallOK(d)
      BY <1>1 DEF CallsOK
    <3>3. QED
      BY <1>1, <1>4, <2>2, <3>1, <3>2 DEF CallOK
  <2>3. QED
    BY <2>1, <2>2
<1>8. QueueOK' /\ OrderOK'
  <2>1. CASE worker # "up"
    <3>1. queue = <<>> /\ queue' = queue /\ busy = None /\ busy' = None /\ Len(queue') = 0
      BY <1>1, <2>1 DEF QueueOK
    <3>2. \A d \in Clients : call'[d].st # "pending"
      <4>1. \A d \in Clients : ~InQueue(d)
        BY <3>1 DEF InQueue
      <4>2. None \notin Clients
        BY WorkerAssumption
      <4>3. QED
        BY <1>1, <1>4, <2>1, <3>1, <4>1, <4>2 DEF QueueOK
    <3>3. \A d \in Clients : ~InQueue(d)'
      BY <3>1 DEF InQueue
    <3>4. QED
      BY <3>1, <3>2, <3>3 DEF QueueOK, OrderOK
  <2>2. CASE worker = "up"
    <3> DEFINE n == Len(queue)
    <3>1. /\ n \in Nat /\ Len(queue') = n + 1 /\ queue'[n + 1] = c
          /\ \A i \in 1..n : queue'[i] = queue[i]
          /\ \A i \in 1..(n + 1) : i # n + 1 => i \in 1..n
          /\ \A i \in 1..n : i \in 1..(n + 1) /\ i < n + 1
      BY <1>5, <2>2
    <3>2. \A i \in 1..n : queue[i] # c /\ queue[i] # Shutdown
      <4>1. ~InQueue(c)
        BY <1>1 DEF QueueOK
      <4>2. QED
        BY <1>1, <4>1 DEF InQueue, OrderOK
    <3>3. busy # c /\ c # None
      BY <1>1, WorkerAssumption DEF QueueOK
    <3>4. \A i \in 1..n : queue[i] \in Clients => call'[queue[i]] = call[queue[i]]
      BY <1>4, <3>2
    <3>5. QueueOK'
      <4>1. ASSUME NEW d \in Clients PROVE InQueue(d)' <=> call'[d].st = "pending" /\ busy' # d
        <5>1. CASE d = c
          <6>1. n + 1 \in 1..Len(queue')
            BY <3>1
          <6>2. InQueue(c)'
            BY <3>1, <6>1 DEF InQueue
          <6>3. QED
            BY <1>1, <1>4, <2>2, <3>3, <5>1, <6>2
        <5>2. CASE d # c
          <6>1. InQueue(d)' <=> InQueue(d)
            BY <3>1, <5>2 DEF InQueue
          <6>2. QED
            BY <1>1, <1>4, <5>2, <6>1 DEF QueueOK
        <5>3. QED
          BY <5>1, <5>2
      <4>2. ASSUME NEW i \in 1..Len(queue'), NEW j \in 1..Len(queue'), queue'[i] = queue'[j]
            PROVE  i = j
        <5>1. CASE i \in 1..n /\ j \in 1..n
          BY <1>1, <3>1, <4>2, <5>1 DEF QueueOK
        <5>2. QED
          BY <3>1, <3>2, <4>2, <5>1
      <4>3. busy' # None => call'[busy'].st = "pending" /\ call'[busy'].req.op = "run"
        <5>1. busy \in Clients \cup {None}
          BY <1>1 DEF ChannelTyped
        <5>2. QED
          BY <1>1, <1>4, <3>3, <5>1 DEF QueueOK
      <4>4. QED
        BY <1>1, <2>2, <4>1, <4>2, <4>3 DEF QueueOK
    <3>6. OrderOK'
      <4>1. ASSUME NEW i \in 1..Len(queue'), NEW j \in 1..Len(queue'), i < j,
                   queue'[i] \in Clients, queue'[j] \in Clients
            PROVE  call'[queue'[i]].seq < call'[queue'[j]].seq
        <5>1. i \in 1..n /\ queue'[i] = queue[i] /\ queue[i] \in Clients
          BY <3>1, <4>1
        <5>2. CASE j \in 1..n
          BY <1>1, <3>1, <3>4, <4>1, <5>1, <5>2 DEF OrderOK
        <5>3. CASE j = n + 1
          <6>1. call[queue[i]].st = "pending"
            BY <1>1, <5>1 DEF QueueOK, InQueue
          <6>2. call[queue[i]].seq < nextTok
            BY <1>1, <5>1, <6>1 DEF CallsOK, CallOK
          <6>3. QED
            BY <1>4, <3>1, <3>4, <5>1, <5>3, <6>2
        <5>4. QED
          BY <3>1, <5>2, <5>3
      <4>2. ASSUME NEW i \in 1..Len(queue'), queue'[i] \in Clients, busy' # None
            PROVE  call'[busy'].seq < call'[queue'[i]].seq
        <5>1. busy \in Clients /\ busy # c /\ busy' = busy /\ call[busy].st = "pending"
          BY <1>1, <3>3, <4>2 DEF ChannelTyped, QueueOK
        <5>2. CASE i \in 1..n
          BY <1>1, <1>4, <3>1, <3>4, <4>2, <5>1, <5>2 DEF OrderOK
        <5>3. CASE i = n + 1
          <6>1. call[busy].seq < nextTok
            BY <1>1, <5>1 DEF CallsOK, CallOK
          <6>2. QED
            BY <1>4, <3>1, <5>1, <5>3, <6>1
        <5>4. QED
          BY <3>1, <5>2, <5>3
      <4>3. ASSUME NEW i \in 1..Len(queue'), queue'[i] = Shutdown PROVE FALSE
        <5>1. i \notin 1..n
          BY <3>1, <3>2, <4>3
        <5>2. i = n + 1
          BY <3>1, <5>1
        <5>3. QED
          BY <3>1, <4>3, <5>2, WorkerAssumption
      <4>4. QED
        BY <4>1, <4>2, <4>3 DEF OrderOK
    <3>7. QED
      BY <3>5, <3>6
  <2>3. QED
    BY <2>1, <2>2
<1>9. SnapsOK'
  BY <1>1 DEF SnapsOK
<1>10. TypeOK'
  BY <1>6 DEF TypeOK, CallerTyped, ChannelTyped, TableTyped
<1>11. QED
  BY <1>7, <1>8, <1>9, <1>10 DEF IInv

LEMMA LeaveStep ==
    ASSUME IInv, NEW c \in Clients, Leave(c)
    PROVE  IInv'
BY DEF IInv, Leave, TypeOK, CallsOK, CallOK, SnapsOK, QueueOK, InQueue, OrderOK

(* A call that was answered goes back to its caller. *)
LEMMA ReturnStep ==
    ASSUME IInv, NEW c \in Clients, Return(c)
    PROVE  IInv'
<1>1. /\ CallerTyped /\ ChannelTyped /\ TableTyped /\ CallsOK /\ SnapsOK /\ QueueOK /\ OrderOK
      /\ call[c].st = "replied" /\ call' = [call EXCEPT ![c] = IdleCall]
      /\ UNCHANGED <<sessions, gone, queue, busy, owned, worker, handle, nextTok, snaps>>
  BY TypeParts DEF IInv, Return
<1>2. IdleCall \in Call
  BY ReplyTyped DEF IdleCall, Call, NoReply, Tags
<1>3. /\ call' \in [Clients -> Call] /\ call'[c].st = "idle"
      /\ \A d \in Clients \ {c} : call'[d] = call[d]
  BY <1>1, <1>2 DEF CallerTyped, IdleCall
<1>4. ~InQueue(c) /\ busy # c
  BY <1>1, WorkerAssumption DEF QueueOK
<1>5. \A d \in Clients : InQueue(d)' <=> InQueue(d)
  BY <1>1 DEF InQueue
<1>6. QueueOK'
  <2>1. ASSUME NEW d \in Clients PROVE InQueue(d)' <=> call'[d].st = "pending" /\ busy' # d
    BY <1>1, <1>3, <1>4, <1>5 DEF QueueOK
  <2>2. busy' # None => call'[busy'].st = "pending" /\ call'[busy'].req.op = "run"
    BY <1>1, <1>3, <1>4 DEF QueueOK, ChannelTyped
  <2>3. QED
    BY <1>1, <2>1, <2>2 DEF QueueOK
<1>7. OrderOK'
  <2>1. \A i \in 1..Len(queue) : queue[i] \in Clients => call'[queue[i]] = call[queue[i]]
    BY <1>3, <1>4 DEF InQueue
  <2>2. busy # None => call'[busy] = call[busy]
    BY <1>1, <1>3, <1>4 DEF ChannelTyped
  <2>3. QED
    BY <1>1, <2>1, <2>2 DEF OrderOK
<1>8. CallsOK' /\ SnapsOK'
  BY <1>1, <1>3 DEF CallsOK, CallOK, SnapsOK
<1>9. CallerTyped' /\ ChannelTyped' /\ TableTyped'
  BY <1>1, <1>3 DEF CallerTyped, ChannelTyped, TableTyped
<1>10. TypeOK'
  BY <1>9 DEF TypeOK, CallerTyped, ChannelTyped, TableTyped
<1>11. QED
  BY <1>6, <1>7, <1>8, <1>10 DEF IInv

(* The thread dies: every call that waits is answered. *)
LEMMA WorkerDiesStep ==
    ASSUME IInv, WorkerDies
    PROVE  IInv'
<1>1. /\ CallerTyped /\ ChannelTyped /\ TableTyped /\ CallsOK /\ SnapsOK
      /\ worker' = "dead"
      /\ sessions' = [s \in SessionIds |-> None]
      /\ queue' = <<>> /\ busy' = None /\ owned' = None
      /\ call' = [c \in Clients |->
                    IF call[c].st = "pending"
                    THEN [call[c] EXCEPT !.st = "replied", !.res = Reply("error")]
                    ELSE call[c]]
      /\ UNCHANGED <<gone, handle, nextTok, snaps>>
  BY TypeParts DEF IInv, WorkerDies
<1>2. /\ call' \in [Clients -> Call]
      /\ \A c \in Clients :
           /\ call'[c].st # "pending"
           /\ call'[c].req = call[c].req /\ call'[c].seq = call[c].seq
           /\ call[c].st = "idle" => call'[c].st = "idle"
  <2>1. Reply("error") \in Result
    BY ReplyTyped DEF Tags
  <2>2. QED
    BY <1>1, <2>1 DEF CallerTyped, Call
<1>3. KeepRequests
  BY <1>2 DEF KeepRequests
<1>4. CallsOK' /\ SnapsOK'
  BY <1>1, <1>3, CallsKept DEF SnapsOK
<1>5. Len(queue') = 0 /\ queue' \in Seq(Clients \cup {Shutdown})
  <2>1. queue' = <<>>
    BY <1>1
  <2>2. QED
    BY <2>1
<1>6. QueueOK' /\ OrderOK'
  <2>1. queue' = <<>> /\ busy' = None
    BY <1>1
  <2>2. \A c \in Clients : call'[c].st # "pending"
    BY <1>2
  <2>3. QueueOK'
    BY <1>5, <2>1, <2>2 DEF QueueOK, InQueue
  <2>4. OrderOK'
    BY <1>5, <2>1 DEF OrderOK
  <2>5. QED
    BY <2>3, <2>4
<1>7. CallerTyped' /\ ChannelTyped' /\ TableTyped'
  BY <1>1, <1>2, <1>5 DEF CallerTyped, ChannelTyped, TableTyped
<1>8. TypeOK'
  BY <1>7 DEF TypeOK, CallerTyped, ChannelTyped, TableTyped
<1>9. QED
  BY <1>4, <1>6, <1>8 DEF IInv

(* Shutdown goes to the end of the channel. *)
LEMMA DropRuntimeStep ==
    ASSUME IInv, DropRuntime
    PROVE  IInv'
<1>1. /\ CallerTyped /\ ChannelTyped /\ TableTyped /\ CallsOK /\ SnapsOK /\ QueueOK /\ OrderOK
      /\ handle = "open" /\ handle' = "dropped"
      /\ queue' = IF worker = "up" THEN Append(queue, Shutdown) ELSE queue
      /\ UNCHANGED <<sessions, call, gone, busy, owned, worker, nextTok, snaps>>
  BY TypeParts DEF IInv, DropRuntime
<1>2. CallsOK' /\ SnapsOK'
  BY <1>1 DEF CallsOK, CallOK, SnapsOK
<1>3. CASE worker # "up"
  <2>1. QueueOK' /\ OrderOK'
    BY <1>1, <1>3 DEF QueueOK, InQueue, OrderOK
  <2>2. TypeOK'
    BY <1>1, <1>3 DEF TypeOK, CallerTyped, ChannelTyped, TableTyped
  <2>3. QED
    BY <1>2, <2>1, <2>2 DEF IInv
<1>4. CASE worker = "up"
  <2> DEFINE n == Len(queue)
  <2>1. /\ queue' \in Seq(Clients \cup {Shutdown})
        /\ n \in Nat /\ Len(queue') = n + 1
        /\ \A i \in 1..n : queue'[i] = queue[i]
        /\ queue'[Len(queue')] = Shutdown
    BY <1>1, <1>4, AppendFacts DEF ChannelTyped
  <2>2. /\ queue'[n + 1] = Shutdown
        /\ \A i \in 1..(n + 1) : i # n + 1 => i \in 1..n
        /\ \A i \in 1..n : i \in 1..(n + 1)
    BY <2>1
  <2>3. \A i \in 1..n : queue[i] # Shutdown
    BY <1>1 DEF OrderOK
  <2>4. \A c \in Clients : InQueue(c)' <=> InQueue(c)
    BY <2>1, <2>2, WorkerAssumption DEF InQueue
  <2>5. \A i, j \in 1..Len(queue') : queue'[i] = queue'[j] => i = j
    <3>1. \A i, j \in 1..n : queue'[i] = queue'[j] => i = j
      BY <1>1, <2>1 DEF QueueOK
    <3>2. \A i \in 1..n : queue'[i] # Shutdown
      BY <2>1, <2>3
    <3>3. QED
      BY <2>1, <2>2, <3>1, <3>2
  <2>6. QueueOK'
    BY <1>1, <1>4, <2>4, <2>5 DEF QueueOK
  <2>7. OrderOK'
    <3>1. \A i \in 1..Len(queue') : queue'[i] \in Clients => i \in 1..n /\ queue'[i] = queue[i]
      BY <2>1, <2>2, WorkerAssumption
    <3>2. \A i \in 1..Len(queue') : queue'[i] = Shutdown => i = Len(queue')
      BY <2>1, <2>2, <2>3
    <3>3. \A i, j \in 1..Len(queue') :
            i < j /\ queue'[i] \in Clients /\ queue'[j] \in Clients =>
               call'[queue'[i]].seq < call'[queue'[j]].seq
      BY <1>1, <3>1 DEF OrderOK
    <3>4. busy' # None => \A i \in 1..Len(queue') :
            queue'[i] \in Clients => call'[busy'].seq < call'[queue'[i]].seq
      BY <1>1, <3>1 DEF OrderOK
    <3>5. QED
      BY <1>1, <3>2, <3>3, <3>4 DEF OrderOK
  <2>8. TypeOK'
    BY <1>1, <2>1 DEF TypeOK, CallerTyped, ChannelTyped, TableTyped
  <2>9. QED
    BY <1>2, <2>6, <2>7, <2>8 DEF IInv
<1>5. QED
  BY <1>3, <1>4

(* When the worker comes to Shutdown, nothing is left behind it. *)
LEMMA ServeShutdownFacts ==
    ASSUME IInv, ServeShutdown
    PROVE  \A c \in Clients : call[c].st # "pending"
<1>1. /\ queue \in Seq(Clients \cup {Shutdown}) /\ queue # <<>> /\ queue[1] = Shutdown
      /\ busy = None /\ QueueOK /\ OrderOK
  BY DEF ServeShutdown, IInv, TypeOK
<1>2. 1 \in 1..Len(queue) /\ Len(queue) \in Nat
  BY <1>1
<1>3. Len(queue) = 1
  BY <1>1, <1>2 DEF OrderOK
<1>4. \A c \in Clients : ~InQueue(c)
  BY <1>1, <1>3, WorkerAssumption DEF InQueue
<1>5. QED
  BY <1>1, <1>4, WorkerAssumption DEF QueueOK

LEMMA ServeShutdownStep ==
    ASSUME IInv, ServeShutdown
    PROVE  IInv'
<1>1. /\ CallerTyped /\ ChannelTyped /\ TableTyped /\ CallsOK /\ SnapsOK
      /\ worker' = "stopped" /\ busy = None
      /\ sessions' = [s \in SessionIds |-> None]
      /\ queue' = <<>>
      /\ UNCHANGED <<call, gone, busy, owned, handle, nextTok, snaps>>
  BY TypeParts DEF IInv, ServeShutdown
<1>2. CallsOK' /\ SnapsOK'
  BY <1>1 DEF CallsOK, CallOK, SnapsOK
<1>3. Len(queue') = 0 /\ queue' \in Seq(Clients \cup {Shutdown})
  BY <1>1
<1>4. QueueOK' /\ OrderOK'
  BY <1>1, <1>3, ServeShutdownFacts DEF QueueOK, InQueue, OrderOK
<1>5. TypeOK'
  BY <1>1, <1>3 DEF TypeOK, CallerTyped, ChannelTyped, TableTyped
<1>6. QED
  BY <1>2, <1>4, <1>5 DEF IInv

LEMMA JoinStep ==
    ASSUME IInv, Join
    PROVE  IInv'
BY DEF IInv, Join, TypeOK, CallsOK, CallOK, SnapsOK, QueueOK, InQueue, OrderOK

(* Every step keeps the invariant. *)
LEMMA NextIInv ==
    ASSUME IInv, [Next]_vars
    PROVE  IInv'
<1>1. CASE UNCHANGED vars
  BY <1>1 DEF vars, IInv, TypeOK, CallsOK, CallOK, SnapsOK, QueueOK, InQueue, OrderOK
<1>2. ASSUME NEW c \in Clients, Send(c) \/ Leave(c) \/ Return(c) PROVE IInv'
  BY <1>2, SendStep, LeaveStep, ReturnStep
<1>3. ASSUME NEW c \in Clients,
             \/ CreateSession(c) \/ RejectRun(c) \/ StartRun(c) \/ FinishRun(c)
             \/ DestroySession(c) \/ ListSessions(c) \/ SnapshotSession(c) \/ RestoreSession(c)
      PROVE  IInv'
  BY <1>3, CreateSessionStep, RejectRunStep, StartRunStep, FinishRunStep,
     DestroySessionStep, ListSessionsStep, SnapshotSessionStep, RestoreSessionStep
<1>4. CASE ServeShutdown \/ WorkerDies \/ DropRuntime \/ Join
  BY <1>4, ServeShutdownStep, WorkerDiesStep, DropRuntimeStep, JoinStep
<1>5. QED
  BY <1>1, <1>2, <1>3, <1>4 DEF Next, Serve

LEMMA Invariant == Spec => []IInv
<1>1. Init => IInv
  BY InitIInv
<1>2. IInv /\ [Next]_vars => IInv'
  BY NextIInv
<1>3. QED
  BY <1>1, <1>2, PTL DEF Spec

(* Every state of the worker and its callers has the shape TypeOK gives it. *)
THEOREM TypeCorrect == Spec => []TypeOK
BY Invariant, PTL DEF IInv

(* However callers leave and the worker dies, a call that waits has its    *)
(* command in the channel exactly once, or is the run under way.           *)
THEOREM PendingIsQueuedHolds == Spec => []PendingIsQueued
<1>1. IInv => PendingIsQueued
  <2> SUFFICES ASSUME IInv PROVE PendingIsQueued
    OBVIOUS
  <2>1. TypeOK /\ QueueOK
    BY DEF IInv
  <2>2. ASSUME NEW c \in Clients
        PROVE  /\ call[c].st = "pending" => worker = "up"
               /\ call[c].st = "pending" /\ busy # c =>
                    \E i \in QueuedAt(c) : QueuedAt(c) = {i}
               /\ call[c].st # "pending" \/ busy = c => QueuedAt(c) = {}
    <3>1. worker # "up" => ~InQueue(c) /\ busy # c
      <4>1. queue = <<>> => Len(queue) = 0
        OBVIOUS
      <4>2. QED
        BY <2>1, <4>1, WorkerAssumption DEF QueueOK, InQueue
    <3>2. call[c].st = "pending" => worker = "up"
      BY <2>1, <3>1 DEF QueueOK
    <3>3. InQueue(c) => \E i \in QueuedAt(c) : QueuedAt(c) = {i}
      BY <2>1 DEF QueueOK, InQueue, QueuedAt
    <3>4. ~InQueue(c) => QueuedAt(c) = {}
      BY DEF InQueue, QueuedAt
    <3>5. QED
      BY <2>1, <3>2, <3>3, <3>4 DEF QueueOK
  <2>3. QED
    BY <2>1, <2>2 DEF PendingIsQueued
<1>2. QED
  BY <1>1, Invariant, PTL

(* A worker that has stopped has answered every call. *)
THEOREM DrainedAtStopHolds == Spec => []DrainedAtStop
<1>1. IInv => DrainedAtStop
  <2> SUFFICES ASSUME IInv, worker = "stopped", NEW c \in Clients
               PROVE  call[c].st # "pending"
    BY DEF DrainedAtStop
  <2>1. Len(queue) = 0 /\ busy = None
    BY DEF IInv, QueueOK
  <2>2. QED
    BY <2>1, WorkerAssumption DEF IInv, QueueOK, InQueue
<1>2. QED
  BY <1>1, Invariant, PTL

--------------------------------------------------------------------------------
(* The command at the head of the channel was sent first. *)
LEMMA HeadFirst ==
    ASSUME IInv, NEW c \in Clients, NEW op, Received(c, op),
           NEW d \in Clients, call[d].st = "pending"
    PROVE  call[c].seq <= call[d].seq
<1>1. queue[1] = c /\ 1 \in 1..Len(queue) /\ busy = None
  BY HeadWaits
<1>2. InQueue(d)
  BY <1>1, WorkerAssumption DEF IInv, QueueOK
<1>3. PICK i \in 1..Len(queue) : queue[i] = d
  BY <1>2 DEF InQueue
<1>4. call \in [Clients -> Call]
  BY DEF IInv, TypeOK
<1>5. call[c].seq \in Nat /\ call[d].seq \in Nat
  BY <1>4 DEF Call
<1>6. CASE i = 1
  BY <1>1, <1>3, <1>5, <1>6
<1>7. CASE i # 1
  <2>1. 1 < i
    BY <1>1, <1>7
  <2>2. call[queue[1]].seq < call[queue[i]].seq
    BY <1>1, <1>3, <2>1 DEF IInv, OrderOK
  <2>3. QED
    BY <1>1, <1>3, <1>5, <2>2
<1>8. QED
  BY <1>6, <1>7

(* The run under way was sent before every command in the channel. *)
LEMMA BusyFirst ==
    ASSUME IInv, NEW c \in Clients, busy = c,
           NEW d \in Clients, call[d].st = "pending"
    PROVE  call[c].seq <= call[d].seq
<1>1. call \in [Clients -> Call] /\ QueueOK /\ OrderOK /\ busy # None
  BY WorkerAssumption DEF IInv, TypeOK
<1>2. call[c].seq \in Nat /\ call[d].seq \in Nat
  BY <1>1 DEF Call
<1>3. CASE d = c
  BY <1>2, <1>3
<1>4. CASE d # c
  <2>1. PICK i \in 1..Len(queue) : queue[i] = d
    BY <1>1, <1>4 DEF QueueOK, InQueue
  <2>2. call[busy].seq < call[queue[i]].seq
    BY <1>1, <2>1 DEF OrderOK
  <2>3. QED
    BY <1>2, <2>1, <2>2
<1>5. QED
  BY <1>3, <1>4

(* A served command answers one call, or none. *)
LEMMA ServedAnswers ==
    ASSUME IInv, NEW c \in Clients,
           \/ CreateSession(c) \/ RejectRun(c) \/ StartRun(c) \/ FinishRun(c)
           \/ DestroySession(c) \/ ListSessions(c) \/ SnapshotSession(c) \/ RestoreSession(c)
    PROVE  /\ \A d \in Clients \ {c} : call'[d] = call[d]
           /\ busy = c \/ \E op : Received(c, op)
<1>1. call \in [Clients -> Call]
  BY DEF IInv, TypeOK
<1>2. UNCHANGED call \/ \E res : Answer(c, res)
  BY DEF CreateSession, RejectRun, StartRun, FinishRun, DestroySession, ListSessions,
         SnapshotSession, RestoreSession
<1>3. busy = c \/ \E op : Received(c, op)
  BY DEF CreateSession, RejectRun, StartRun, FinishRun, DestroySession, ListSessions,
         SnapshotSession, RestoreSession
<1>4. QED
  BY <1>1, <1>2, <1>3 DEF Answer

(* Unless the worker dies, no call is answered before one that was sent    *)
(* earlier and still waits, whoever sent it and whether or not its caller  *)
(* has gone.                                                               *)
THEOREM AnsweredInOrderHolds == Spec => AnsweredInOrder
<1> DEFINE InOrder ==
      \A c, d \in Clients :
         /\ call[c].st = "pending" /\ call'[c].st = "replied"
         /\ call[d].st = "pending"
         /\ worker' # "dead"
         => call[c].seq <= call[d].seq
<1>1. IInv /\ [Next]_vars => InOrder
  <2> SUFFICES ASSUME IInv, [Next]_vars, NEW c \in Clients, NEW d \in Clients,
                      call[c].st = "pending", call'[c].st = "replied",
                      call[d].st = "pending", worker' # "dead"
               PROVE  call[c].seq <= call[d].seq
    OBVIOUS
  <2>1. call \in [Clients -> Call] /\ call' # call
    BY DEF IInv, TypeOK
  <2>2. ASSUME NEW e \in Clients, Send(e) \/ Leave(e) \/ Return(e) PROVE FALSE
    BY <2>1, <2>2 DEF Send, Leave, Return, IdleCall
  <2>3. ASSUME NEW e \in Clients,
               \/ CreateSession(e) \/ RejectRun(e) \/ StartRun(e) \/ FinishRun(e)
               \/ DestroySession(e) \/ ListSessions(e) \/ SnapshotSession(e)
               \/ RestoreSession(e)
        PROVE  call[c].seq <= call[d].seq
    <3>1. /\ \A f \in Clients \ {e} : call'[f] = call[f]
          /\ busy = e \/ \E op : Received(e, op)
      BY <2>3, ServedAnswers
    <3>2. c = e
      BY <3>1
    <3>3. QED
      BY <3>1, <3>2, HeadFirst, BusyFirst
  <2>4. CASE ServeShutdown \/ WorkerDies \/ DropRuntime \/ Join \/ UNCHANGED vars
    BY <2>1, <2>4 DEF ServeShutdown, WorkerDies, DropRuntime, Join, vars
  <2>5. QED
    BY <2>2, <2>3, <2>4 DEF Next, Serve
<1>2. IInv /\ [Next]_vars => [InOrder]_vars
  BY <1>1
<1>3. QED
  BY <1>2, Invariant, PTL DEF Spec, AnsweredInOrder

--------------------------------------------------------------------------------
(* Calls wait for a bounded number of the worker's steps.  A run under way *)
(* has one to go, a command in the channel two for each command before it  *)
(* and for itself, the first of which may be done already.                 *)
UnderWay == IF busy = None THEN 0 ELSE 1

Turns(c, n) ==
    \/ busy = c /\ n = 1
    \/ \E i \in 1..Len(queue) : queue[i] = c /\ n = 2 * i + UnderWay

(* The worker serves a command, or ends the run under way. *)
HeadServed(c) ==
    /\ worker = "up" /\ busy = None
    /\ queue # <<>> /\ queue[1] = c /\ queue' = Tail(queue)
    /\ (busy' = None /\ call'[c].st = "replied") \/ busy' = c
    /\ UNCHANGED <<worker, handle>>

RunServed(c) ==
    /\ worker = "up" /\ busy = c
    /\ busy' = None /\ call'[c].st = "replied"
    /\ UNCHANGED <<queue, worker, handle>>

LEMMA ServeMoves ==
    ASSUME IInv, Serve
    PROVE  ServeShutdown \/ \E c \in Clients : HeadServed(c) \/ RunServed(c)
<1> SUFFICES ASSUME ~ServeShutdown
             PROVE  \E c \in Clients : HeadServed(c) \/ RunServed(c)
  OBVIOUS
<1>1. call \in [Clients -> Call]
  BY DEF IInv, TypeOK
<1>2. \A c \in Clients : \A res : Answer(c, res) => call'[c].st = "replied"
  BY <1>1 DEF Answer, Call
<1>3. ASSUME NEW c \in Clients,
             \/ CreateSession(c) \/ RejectRun(c) \/ DestroySession(c) \/ ListSessions(c)
             \/ SnapshotSession(c) \/ RestoreSession(c)
      PROVE  HeadServed(c)
  <2>1. /\ \E op : Received(c, op)
        /\ \E res : Answer(c, res)
        /\ UNCHANGED <<busy, worker, handle>>
    BY <1>3 DEF CreateSession, RejectRun, DestroySession, ListSessions, SnapshotSession,
       RestoreSession, Idling
  <2>2. /\ worker = "up" /\ busy = None
        /\ queue # <<>> /\ queue[1] = c /\ queue' = Tail(queue)
    BY <2>1, HeadWaits DEF Received
  <2>3. QED
    BY <1>2, <2>1, <2>2 DEF HeadServed
<1>4. ASSUME NEW c \in Clients, StartRun(c)
      PROVE  HeadServed(c)
  <2>1. Received(c, "run") /\ busy' = c /\ UNCHANGED <<worker, handle>>
    BY <1>4 DEF StartRun
  <2>2. QED
    BY <2>1, HeadWaits DEF Received, HeadServed
<1>5. ASSUME NEW c \in Clients, FinishRun(c)
      PROVE  RunServed(c)
  BY <1>2, <1>5 DEF FinishRun, RunServed
<1>6. QED
  BY <1>3, <1>4, <1>5 DEF Serve

(* Whatever else happens leaves the channel as it is, puts a command at    *)
(* its end, or is the death of the worker.                                 *)
LEMMA OthersMove ==
    ASSUME [Next]_vars, ~Serve
    PROVE  \/ UNCHANGED busy /\ (queue' = queue \/ \E x : queue' = Append(queue, x))
           \/ WorkerDies
BY DEF Next, vars, Send, Leave, Return, DropRuntime, Join

(* A call that waits has its turn, and the worker is there to serve it.    *)
LEMMA HasTurn ==
    ASSUME IInv, NEW c \in Clients, call[c].st = "pending"
    PROVE  worker = "up" /\ \E n \in Nat : Turns(c, n)
<1>1. QueueOK /\ UnderWay \in Nat /\ queue \in Seq(Clients \cup {Shutdown})
  BY DEF IInv, UnderWay, TypeOK
<1>2. CASE busy = c
  <2>1. worker = "up"
    BY <1>1, <1>2, WorkerAssumption DEF QueueOK
  <2>2. QED
    BY <1>2, <2>1 DEF Turns
<1>3. CASE busy # c
  <2>1. PICK i \in 1..Len(queue) : queue[i] = c
    BY <1>1, <1>3 DEF QueueOK, InQueue
  <2>2. 2 * i + UnderWay \in Nat
    BY <1>1
  <2>3. Turns(c, 2 * i + UnderWay)
    BY <2>1 DEF Turns
  <2>4. worker = "up"
    BY <1>1, <2>1 DEF QueueOK
  <2>5. QED
    BY <2>2, <2>3, <2>4
<1>4. QED
  BY <1>2, <1>3

(* The worker can take what comes next: a command it knows, or Shutdown.   *)
LEMMA CanServe ==
    ASSUME IInv, worker = "up", busy = None, queue # <<>>
    PROVE  \/ Head(queue) = Shutdown
           \/ Head(queue) \in Clients /\ call[Head(queue)].req.op \in Ops
<1>1. queue \in Seq(Clients \cup {Shutdown}) /\ QueueOK /\ CallsOK
  BY DEF IInv, TypeOK
<1>2. 1 \in 1..Len(queue) /\ queue[1] \in Clients \cup {Shutdown} /\ Head(queue) = queue[1]
  BY <1>1
<1>3. CASE queue[1] \in Clients
  <2>1. PICK c \in Clients : c = queue[1]
    BY <1>3
  <2>2. InQueue(c)
    BY <1>2, <2>1 DEF InQueue
  <2>3. call[c].req \in Request
    BY <1>1, <2>2 DEF QueueOK, CallsOK, CallOK
  <2>4. QED
    BY <1>2, <2>1, <2>3 DEF Request
<1>4. QED
  BY <1>2, <1>3

LEMMA ServingShortens ==
    ASSUME IInv, Serve, NEW c \in Clients, NEW n \in Nat, Turns(c, n),
           call[c].st = "pending", call'[c].st = "pending"
    PROVE  \E m \in Nat : Turns(c, m)' /\ m < n
<1>1. queue \in Seq(Clients \cup {Shutdown}) /\ QueueOK
  BY DEF IInv, TypeOK
<1>2. CASE ServeShutdown
  <2>1. call[c].st # "pending"
    BY <1>2, ServeShutdownFacts
  <2>2. QED
    BY <2>1
<1>3. ASSUME NEW d \in Clients, HeadServed(d)
      PROVE  \E m \in Nat : Turns(c, m)' /\ m < n
  <2>1. /\ busy = None /\ queue # <<>> /\ queue[1] = d /\ queue' = Tail(queue)
        /\ (busy' = None /\ call'[d].st = "replied") \/ busy' = d
    BY <1>3 DEF HeadServed
  <2>2. PICK i \in 1..Len(queue) : queue[i] = c /\ n = 2 * i
    BY <2>1, WorkerAssumption DEF Turns, UnderWay
  <2>3. CASE i = 1
    <3>1. busy' = c
      BY <2>1, <2>2, <2>3
    <3>2. Turns(c, 1)'
      BY <3>1 DEF Turns
    <3>3. QED
      BY <2>2, <2>3, <3>2
  <2>4. CASE i # 1
    <3>1. i - 1 \in 1..Len(queue') /\ queue'[i - 1] = c
      BY <1>1, <2>1, <2>2, <2>4, TailFacts
    <3>2. PICK m : m = 2 * (i - 1) + UnderWay'
      OBVIOUS
    <3>3. m \in Nat /\ m < n
      BY <2>2, <2>4, <3>2 DEF UnderWay
    <3>4. Turns(c, m)'
      BY <3>1, <3>2 DEF Turns
    <3>5. QED
      BY <3>3, <3>4
  <2>5. QED
    BY <2>3, <2>4
<1>4. ASSUME NEW d \in Clients, RunServed(d)
      PROVE  \E m \in Nat : Turns(c, m)' /\ m < n
  <2>1. /\ busy = d /\ d # None /\ busy' = None /\ queue' = queue
        /\ call'[d].st = "replied"
    BY <1>4, WorkerAssumption DEF RunServed
  <2>2. c # d
    BY <2>1
  <2>3. PICK i \in 1..Len(queue) : queue[i] = c /\ n = 2 * i + 1
    BY <2>1, <2>2 DEF Turns, UnderWay
  <2>4. PICK m \in Nat : m = 2 * i
    OBVIOUS
  <2>5. Turns(c, m)'
    BY <2>1, <2>3, <2>4 DEF Turns, UnderWay
  <2>6. QED
    BY <2>3, <2>4, <2>5
<1>5. QED
  BY <1>2, <1>3, <1>4, ServeMoves

LEMMA OthersWait ==
    ASSUME IInv, [Next]_vars, ~Serve, NEW c \in Clients, NEW n \in Nat, Turns(c, n),
           call[c].st = "pending", call'[c].st = "pending"
    PROVE  Turns(c, n)'
<1>1. queue \in Seq(Clients \cup {Shutdown}) /\ call \in [Clients -> Call]
  BY DEF IInv, TypeOK
<1>2. CASE WorkerDies
  <2>1. call'[c].st = "replied"
    BY <1>1, <1>2 DEF WorkerDies, Call
  <2>2. QED
    BY <2>1
<1>3. CASE UNCHANGED <<busy, queue>>
  BY <1>3 DEF Turns, UnderWay
<1>4. ASSUME busy' = busy, NEW x, queue' = Append(queue, x)
      PROVE  Turns(c, n)'
  <2>1. Len(queue') = Len(queue) + 1 /\ Len(queue) \in Nat
        /\ \A i \in 1..Len(queue) : queue'[i] = queue[i]
    BY <1>1, <1>4
  <2>2. \A i \in 1..Len(queue) : i \in 1..Len(queue')
    BY <2>1
  <2>3. UnderWay' = UnderWay
    BY <1>4 DEF UnderWay
  <2>4. QED
    BY <1>4, <2>1, <2>2, <2>3 DEF Turns
<1>5. QED
  BY <1>2, <1>3, <1>4, OthersMove

(* A call that waits is answered after a bounded number of the worker's    *)
(* steps, which nothing that callers do makes more: its turn never recedes *)
(* and comes nearer whenever the worker does anything; and until then the  *)
(* worker is up and always has something it can do.                        *)
ServedInTurn ==
    /\ [](\A c \in Clients : call[c].st = "pending" =>
            /\ worker = "up"
            /\ \E n \in Nat : Turns(c, n)
            /\ busy = None =>
                 \/ Head(queue) = Shutdown
                 \/ Head(queue) \in Clients /\ call[Head(queue)].req.op \in Ops)
    /\ [][\A c \in Clients, n \in Nat :
            call[c].st = "pending" /\ Turns(c, n) /\ call'[c].st = "pending" =>
               \E m \in Nat : Turns(c, m)' /\ m <= n /\ (Serve => m < n)]_vars

THEOREM ServedInTurnHolds == Spec => ServedInTurn
<1> DEFINE Waiting ==
      \A c \in Clients : call[c].st = "pending" =>
         /\ worker = "up"
         /\ \E n \in Nat : Turns(c, n)
         /\ busy = None =>
              \/ Head(queue) = Shutdown
              \/ Head(queue) \in Clients /\ call[Head(queue)].req.op \in Ops
<1> DEFINE Nearer ==
      \A c \in Clients, n \in Nat :
         call[c].st = "pending" /\ Turns(c, n) /\ call'[c].st = "pending" =>
            \E m \in Nat : Turns(c, m)' /\ m <= n /\ (Serve => m < n)
<1>1. IInv => Waiting
  <2> SUFFICES ASSUME IInv, NEW c \in Clients, call[c].st = "pending"
               PROVE  /\ worker = "up"
                      /\ \E n \in Nat : Turns(c, n)
                      /\ busy = None =>
                           \/ Head(queue) = Shutdown
                           \/ Head(queue) \in Clients /\ call[Head(queue)].req.op \in Ops
    OBVIOUS
  <2>1. worker = "up" /\ \E n \in Nat : Turns(c, n)
    BY HasTurn
  <2>2. CASE busy = None
    <3>1. InQueue(c)
      BY <2>2, WorkerAssumption DEF IInv, QueueOK
    <3>2. queue # <<>>
      BY <3>1 DEF InQueue
    <3>3. QED
      BY <2>1, <2>2, <3>2, CanServe
  <2>3. QED
    BY <2>1, <2>2
<1>2. IInv /\ [Next]_vars => [Nearer]_vars
  <2> SUFFICES ASSUME IInv, [Next]_vars, NEW c \in Clients, NEW n \in Nat,
                      call[c].st = "pending", Turns(c, n), call'[c].st = "pending"
               PROVE  \E m \in Nat : Turns(c, m)' /\ m <= n /\ (Serve => m < n)
    OBVIOUS
  <2>1. CASE Serve
    <3>1. PICK m \in Nat : Turns(c, m)' /\ m < n
      BY <2>1, ServingShortens
    <3>2. QED
      BY <3>1
  <2>2. CASE ~Serve
    <3>1. Turns(c, n)'
      BY <2>2, OthersWait
    <3>2. QED
      BY <2>2, <3>1
  <2>3. QED
    BY <2>1, <2>2
<1> HIDE DEF Waiting, Nearer
<1>3. Spec => []Waiting
  BY <1>1, Invariant, PTL
<1>4. Spec => [][Nearer]_vars
  BY <1>2, Invariant, PTL DEF Spec
<1>5. QED
  BY <1>3, <1>4 DEF Waiting, Nearer, ServedInTurn

(* What the worker has before it.                                          *)
Backlog == 2 * Len(queue) + UnderWay

Stopping == handle = "dropped" /\ worker = "up"

(* Once the runtime is dropped, Shutdown is the last thing in the channel. *)
StopIsComing ==
    /\ Stopping => queue # <<>> /\ queue[Len(queue)] = Shutdown
    /\ handle = "joined" => worker # "up"

LEMMA StopIsComingStep ==
    ASSUME IInv, StopIsComing, [Next]_vars
    PROVE  StopIsComing'
<1>1. queue \in Seq(Clients \cup {Shutdown})
  BY DEF IInv, TypeOK
<1>2. CASE UNCHANGED <<queue, handle, worker>>
  BY <1>2 DEF StopIsComing, Stopping
<1>3. ASSUME NEW c \in Clients, Send(c) \/ Leave(c) \/ Return(c)
      PROVE  StopIsComing'
  <2>1. handle' = handle /\ worker' = worker /\ (handle = "open" \/ queue' = queue)
    BY <1>3 DEF Send, Leave, Return
  <2>2. QED
    BY <2>1 DEF StopIsComing, Stopping
<1>4. CASE Serve
  <2>1. CASE ServeShutdown
    BY <2>1 DEF ServeShutdown, StopIsComing, Stopping
  <2>2. ASSUME NEW c \in Clients, RunServed(c)
        PROVE  StopIsComing'
    BY <2>2 DEF RunServed, StopIsComing, Stopping
  <2>3. ASSUME NEW c \in Clients, HeadServed(c)
        PROVE  StopIsComing'
    <3>1. /\ queue # <<>> /\ queue[1] = c /\ queue' = Tail(queue) /\ worker = "up"
          /\ UNCHANGED <<worker, handle>>
      BY <2>3 DEF HeadServed
    <3>2. CASE handle = "dropped"
      <4>1. queue[Len(queue)] = Shutdown /\ Len(queue) # 1
        BY <3>1, <3>2, WorkerAssumption DEF StopIsComing, Stopping
      <4>2. /\ Len(queue) \in Nat /\ Len(queue') = Len(queue) - 1 /\ Len(queue) > 1
            /\ \A i \in 1..Len(queue') : queue'[i] = queue[i + 1]
        BY <1>1, <3>1, <4>1, TailFacts
      <4>3. Len(queue') \in 1..Len(queue') /\ Len(queue') + 1 = Len(queue)
        BY <4>2
      <4>4. queue'[Len(queue')] = Shutdown
        BY <4>1, <4>2, <4>3
      <4>5. queue' # <<>>
        BY <4>3
      <4>6. QED
        BY <3>1, <3>2, <4>4, <4>5 DEF StopIsComing, Stopping
    <3>3. CASE handle # "dropped"
      BY <3>1, <3>3 DEF StopIsComing, Stopping
    <3>4. QED
      BY <3>2, <3>3
  <2>4. QED
    BY <1>4, <2>1, <2>2, <2>3, ServeMoves
<1>5. CASE WorkerDies
  BY <1>5 DEF WorkerDies, StopIsComing, Stopping
<1>6. CASE DropRuntime
  <2>1. CASE worker = "up"
    <3>1. queue' = Append(queue, Shutdown) /\ handle' = "dropped"
      BY <1>6, <2>1 DEF DropRuntime
    <3>2. queue' # <<>> /\ queue'[Len(queue')] = Shutdown
      BY <1>1, <3>1
    <3>3. QED
      BY <3>1, <3>2 DEF StopIsComing, Stopping
  <2>2. CASE worker # "up"
    BY <1>6, <2>2 DEF DropRuntime, StopIsComing, Stopping
  <2>3. QED
    BY <2>1, <2>2
<1>7. CASE Join
  BY <1>7 DEF Join, StopIsComing, Stopping
<1>8. QED
  BY <1>2, <1>3, <1>4, <1>5, <1>6, <1>7 DEF Next, vars

LEMMA BacklogShrinks ==
    ASSUME IInv, [Next]_vars, Stopping, Stopping'
    PROVE  /\ Backlog' <= Backlog
           /\ Serve => Backlog' < Backlog
<1>1. queue \in Seq(Clients \cup {Shutdown}) /\ handle = "dropped" /\ worker' = "up"
  BY DEF IInv, TypeOK, Stopping
<1>2. Len(queue) \in Nat /\ UnderWay \in {0, 1} /\ UnderWay' \in {0, 1}
  BY <1>1 DEF UnderWay
<1>3. CASE Serve
  <2>1. ~ServeShutdown
    BY <1>1 DEF ServeShutdown
  <2>2. ASSUME NEW c \in Clients, RunServed(c)
        PROVE  Backlog' < Backlog
    <3>1. UnderWay = 1 /\ UnderWay' = 0 /\ queue' = queue
      BY <2>2, WorkerAssumption DEF RunServed, UnderWay
    <3>2. QED
      BY <1>2, <3>1 DEF Backlog
  <2>3. ASSUME NEW c \in Clients, HeadServed(c)
        PROVE  Backlog' < Backlog
    <3>1. queue' = Tail(queue) /\ queue # <<>> /\ UnderWay = 0
      BY <2>3 DEF HeadServed, UnderWay
    <3>2. Len(queue') = Len(queue) - 1
      BY <1>1, <3>1
    <3>3. QED
      BY <1>2, <3>1, <3>2 DEF Backlog
  <2>4. Backlog' < Backlog
    BY <1>3, <2>1, <2>2, <2>3, ServeMoves
  <2>5. Backlog \in Nat /\ Backlog' \in Nat
    <3>1. Len(queue') \in Nat
      BY <1>3, NextIInv DEF IInv, TypeOK
    <3>2. QED
      BY <1>2, <3>1 DEF Backlog
  <2>6. QED
    BY <2>4, <2>5
<1>4. CASE ~Serve
  <2>1. UNCHANGED <<queue, busy>>
    BY <1>1, <1>4 DEF Next, vars, Send, Leave, Return, DropRuntime, Join, WorkerDies
  <2>2. Backlog' = Backlog /\ Backlog \in Nat
    BY <1>2, <2>1 DEF Backlog, UnderWay
  <2>3. QED
    BY <1>4, <2>2
<1>5. QED
  BY <1>3, <1>4

(* Once the runtime is dropped, the worker has ever less before it, with   *)
(* each of its steps, and Shutdown is the last of it: the thread that drop *)
(* joins stops after a bounded number of its own steps, and until then     *)
(* there is something for it to serve.                                     *)
DropDrains ==
    /\ [](/\ Stopping =>
               /\ queue # <<>> /\ queue[Len(queue)] = Shutdown
               /\ Backlog \in Nat
          /\ handle = "joined" => worker # "up")
    /\ [][Stopping /\ Stopping' =>
            Backlog' <= Backlog /\ (Serve => Backlog' < Backlog)]_vars

THEOREM DropDrainsHolds == Spec => DropDrains
<1> DEFINE Coming ==
      /\ Stopping =>
           /\ queue # <<>> /\ queue[Len(queue)] = Shutdown
           /\ Backlog \in Nat
      /\ handle = "joined" => worker # "up"
<1> DEFINE Less ==
      Stopping /\ Stopping' => Backlog' <= Backlog /\ (Serve => Backlog' < Backlog)
<1>1. Init => StopIsComing
  BY DEF Init, StopIsComing, Stopping
<1>2. Spec => []StopIsComing
  BY <1>1, StopIsComingStep, Invariant, PTL DEF Spec
<1>3. IInv /\ StopIsComing => Coming
  BY DEF IInv, TypeOK, StopIsComing, Backlog, UnderWay
<1>4. IInv /\ [Next]_vars => [Less]_vars
  BY BacklogShrinks
<1> HIDE DEF Coming, Less
<1>5. Spec => []Coming
  BY <1>2, <1>3, Invariant, PTL
<1>6. Spec => [][Less]_vars
  BY <1>4, Invariant, PTL DEF Spec
<1>7. QED
  BY <1>5, <1>6 DEF Coming, Less, DropDrains

--------------------------------------------------------------------------------
(* The worker is the abstract store.  Live, Remembered and Calls are what  *)
(* the refinement mapping gives the store for its variables.               *)
Live == {s \in SessionIds : StoredSession(s) # None}

Remembered ==
    [s \in SessionIds |-> IF StoredSession(s) = None THEN {} ELSE StoredSession(s).memory]

Calls == [c \in Clients |-> StoreCall(c)]

(* The initial states of the worker are initial states of the store. *)
LEMMA StoreInit == Init => Store!Init
<1> SUFFICES ASSUME Init PROVE Store!Init
  OBVIOUS
<1>1. \A s \in SessionIds : StoredSession(s) = None
  BY DEF Init, StoredSession
<1>2. \A c \in Clients : StoreCall(c) = Store!IdleCall
  <2>1. \A c \in Clients : call[c].st = "idle"
    BY DEF Init, IdleCall
  <2>2. QED
    BY <2>1 DEF StoreCall, Store!IdleCall, NoReply, Reply, Store!NoReply, Store!Reply
<1>3. QED
  BY <1>1, <1>2 DEF Store!Init

(* A step that changes nothing the store sees is a stutter. *)
LEMMA StoreStutter ==
    ASSUME Live' = Live, Remembered' = Remembered, Calls' = Calls
    PROVE  [Store!Next]_(Store!vars)
BY DEF Store!vars, Live, Remembered, Calls

(* What the store sees of the answer to a call that waits. *)
LEMMA AnsweredCall ==
    ASSUME NEW c \in Clients, call[c].st = "pending", NEW res,
           call'[c].st = "replied", call'[c].res = res,
           call'[c].req = call[c].req, call'[c].seq = call[c].seq
    PROVE  StoreCall(c)' = [StoreCall(c) EXCEPT !.st = "replied", !.res = res]
<1> DEFINE Record(st, op, sid, tok, arg, r) ==
      [st |-> st, op |-> op, sid |-> sid, tok |-> tok, arg |-> arg, res |-> r]
<1>1. Subject(c)' = Subject(c) /\ Tok(c)' = Tok(c)
  BY DEF Subject, Tok
<1>2. PICK op, sid, tok, arg :
        /\ StoreCall(c) = Record("pending", op, sid, tok, arg, call[c].res)
        /\ StoreCall(c)' = Record("replied", op, sid, tok, arg, res)
  BY <1>1 DEF StoreCall
<1>3. PICK old : old = call[c].res
  OBVIOUS
<1>4. [Record("pending", op, sid, tok, arg, old) EXCEPT !.st = "replied", !.res = res]
      = Record("replied", op, sid, tok, arg, res)
  <2>1. [Record("pending", op, sid, tok, arg, old) EXCEPT !.st = "replied"]
        = Record("replied", op, sid, tok, arg, old)
    OBVIOUS
  <2>2. [Record("replied", op, sid, tok, arg, old) EXCEPT !.res = res]
        = Record("replied", op, sid, tok, arg, res)
    OBVIOUS
  <2> HIDE DEF Record
  <2>3. QED
    BY <2>1, <2>2, Zenon
<1> HIDE DEF Record
<1>5. QED
  BY <1>2, <1>3, <1>4, Zenon

(* An answer changes the state and the result of its call, nothing else. *)
LEMMA AnswerMaps ==
    ASSUME IInv, NEW c \in Clients, call[c].st = "pending", NEW res \in Result, Answer(c, res)
    PROVE  /\ Calls' = [Calls EXCEPT ![c].st = "replied", ![c].res = res]
           /\ Store!Answer(c, res)
<1>1. /\ \A d \in Clients \ {c} : call'[d] = call[d]
      /\ call'[c].st = "replied" /\ call'[c].res = res
      /\ call'[c].req = call[c].req /\ call'[c].seq = call[c].seq
  BY AnswerFacts DEF IInv, TypeOK
<1>2. \A d \in Clients \ {c} : StoreCall(d)' = StoreCall(d)
  BY <1>1 DEF StoreCall, Subject, Tok
<1>3. StoreCall(c)' = [StoreCall(c) EXCEPT !.st = "replied", !.res = res]
  BY <1>1, AnsweredCall
<1>4. Calls' = [Calls EXCEPT ![c].st = "replied", ![c].res = res]
  BY <1>2, <1>3 DEF Calls
<1>5. QED
  BY <1>4 DEF Calls, Store!Answer

(* What the store sees of a call that waits. *)
LEMMA CallSeen ==
    ASSUME NEW c \in Clients, call[c].st = "pending"
    PROVE  /\ Calls[c].st = "pending" /\ Calls[c].op = call[c].req.op
           /\ Calls[c].sid = Subject(c)
           /\ call[c].req.op = "run" => Calls[c].tok = Tok(c)
           /\ call[c].req.op = "restore" => Calls[c].arg = call[c].req.snap.memory
BY DEF Calls, StoreCall

(* A session is written, removed or left alone. *)
LEMMA SessionWritten ==
    ASSUME NEW s \in SessionIds, NEW x \in Session,
           \A t \in SessionIds : StoredSession(t)' = IF t = s THEN x ELSE StoredSession(t)
    PROVE  /\ Live' = Live \cup {s}
           /\ Remembered' = [Remembered EXCEPT ![s] = x.memory]
<1>1. x # None
  BY DenoAssumption
<1>2. Live' = Live \cup {s}
  BY <1>1 DEF Live
<1>3. Remembered' = [Remembered EXCEPT ![s] = x.memory]
  BY <1>1 DEF Remembered
<1>4. QED
  BY <1>2, <1>3

LEMMA SessionRemoved ==
    ASSUME NEW s \in SessionIds,
           \A t \in SessionIds : StoredSession(t)' = IF t = s THEN None ELSE StoredSession(t)
    PROVE  /\ Live' = Live \ {s}
           /\ Remembered' = [Remembered EXCEPT ![s] = {}]
BY DEF Live, Remembered

LEMMA SessionsLeft ==
    ASSUME \A t \in SessionIds : StoredSession(t)' = StoredSession(t)
    PROVE  Live' = Live /\ Remembered' = Remembered
BY DEF Live, Remembered

(* While no run is under way, the store is the map of the worker. *)
LEMMA IdleStore ==
    ASSUME busy = None, NEW s \in SessionIds
    PROVE  StoredSession(s) = sessions[s]
BY DEF StoredSession

(* A refusal that touches no session. *)
LEMMA StoreRefuses ==
    ASSUME IInv, NEW c \in Clients, call[c].st = "pending", Answer(c, Reply("error")),
           Live' = Live, Remembered' = Remembered
    PROVE  Store!Next
<1>1. Calls[c].st = "pending" /\ Store!Answer(c, Reply("error"))
  BY CallSeen, AnswerMaps, ReplyTyped DEF Tags
<1>2. Store!Refuse(c)
  BY <1>1 DEF Store!Refuse, Store!Reply, Reply, Calls, Live, Remembered
<1>3. QED
  BY <1>2 DEF Store!Next

LEMMA CreateImplements ==
    ASSUME IInv, NEW c \in Clients, CreateSession(c)
    PROVE  Store!Next
<1> DEFINE s == Subject(c)
<1>1. /\ call[c].st = "pending" /\ call[c].req.op = "create" /\ s \in SessionIds
      /\ busy = None /\ busy' = None
      /\ sessions \in [SessionIds -> Session \cup {None}]
  BY HeadWaits, SubjectTyped DEF CreateSession, Idling, IInv, TypeOK
<1>2. CASE Answer(c, Reply("error")) /\ UNCHANGED sessions
  <2>1. \A t \in SessionIds : StoredSession(t)' = StoredSession(t)
    BY <1>1, <1>2 DEF StoredSession
  <2>2. QED
    BY <1>1, <1>2, <2>1, SessionsLeft, StoreRefuses
<1>3. CASE /\ sessions' = IF sessions[s] = None
                          THEN [sessions EXCEPT ![s] = NewSession] ELSE sessions
           /\ Answer(c, Reply("ok"))
  <2>1. PICK x : x = IF sessions[s] = None THEN NewSession ELSE sessions[s]
    OBVIOUS
  <2>2. x \in Session
    BY <1>1, <2>1 DEF NewSession, Session, Memory
  <2>3. \A t \in SessionIds : StoredSession(t)' = IF t = s THEN x ELSE StoredSession(t)
    BY <1>1, <1>3, <2>1 DEF StoredSession
  <2>4. Live' = Live \cup {s} /\ Remembered' = [Remembered EXCEPT ![s] = x.memory]
    BY <1>1, <2>2, <2>3, SessionWritten
  <2>5. x.memory = Remembered[s]
    BY <1>1, <2>1, IdleStore DEF Remembered, NewSession
  <2>6. Calls[c].st = "pending" /\ Calls[c].op = "create" /\ Calls[c].sid = s
    BY <1>1, CallSeen
  <2>7. Store!Answer(c, Reply("ok"))
    BY <1>1, <1>3, AnswerMaps, ReplyTyped DEF Tags
  <2>8. Store!Create(c)
    BY <2>4, <2>5, <2>6, <2>7
       DEF Store!Create, Store!Pending, Store!Write, Store!Reply, Reply, Calls, Live, Remembered
  <2>9. QED
    BY <2>8 DEF Store!Next
<1>4. QED
  BY <1>2, <1>3 DEF CreateSession

LEMMA RejectImplements ==
    ASSUME IInv, NEW c \in Clients, RejectRun(c)
    PROVE  Store!Next
<1>1. /\ call[c].st = "pending" /\ call[c].req.op = "run"
      /\ busy = None /\ busy' = None /\ sessions' = sessions
      /\ Answer(c, Reply("error")) \/ Answer(c, Reply("validated"))
  BY HeadWaits DEF RejectRun, Idling
<1>2. Live' = Live /\ Remembered' = Remembered
  BY <1>1, SessionsLeft DEF StoredSession
<1>3. CASE Answer(c, Reply("error"))
  BY <1>1, <1>2, <1>3, StoreRefuses
<1>4. CASE Answer(c, Reply("validated"))
  <2>1. Calls[c].st = "pending" /\ Calls[c].op = "run"
    BY <1>1, CallSeen
  <2>2. Store!Answer(c, Reply("validated"))
    BY <1>1, <1>4, AnswerMaps, ReplyTyped DEF Tags
  <2>3. Store!Validate(c)
    BY <1>2, <2>1, <2>2
       DEF Store!Validate, Store!Pending, Store!Reply, Reply, Calls, Live, Remembered
  <2>4. QED
    BY <2>3 DEF Store!Next
<1>5. QED
  BY <1>1, <1>3, <1>4

LEMMA DestroyImplements ==
    ASSUME IInv, NEW c \in Clients, DestroySession(c)
    PROVE  Store!Next
<1> DEFINE s == Subject(c)
<1>1. /\ call[c].st = "pending" /\ call[c].req.op = "destroy" /\ s \in SessionIds
      /\ busy = None /\ busy' = None
      /\ sessions \in [SessionIds -> Session \cup {None}]
      /\ sessions' = [sessions EXCEPT ![s] = None]
      /\ Answer(c, Reply(IF sessions[s] = None THEN "absent" ELSE "removed"))
  BY HeadWaits, SubjectTyped DEF DestroySession, Idling, IInv, TypeOK
<1>2. \A t \in SessionIds : StoredSession(t)' = IF t = s THEN None ELSE StoredSession(t)
  BY <1>1 DEF StoredSession
<1>3. Live' = Live \ {s} /\ Remembered' = [Remembered EXCEPT ![s] = {}]
  BY <1>1, <1>2, SessionRemoved
<1>4. PICK tag : tag = IF sessions[s] = None THEN "absent" ELSE "removed"
  OBVIOUS
<1>5. tag = IF s \in Live THEN "removed" ELSE "absent"
  BY <1>1, <1>4, IdleStore DEF Live
<1>6. Calls[c].st = "pending" /\ Calls[c].op = "destroy" /\ Calls[c].sid = s
  BY <1>1, CallSeen
<1>7. Store!Answer(c, Reply(tag))
  <2>1. Reply(tag) \in Result
    BY <1>4, ReplyTyped DEF Tags
  <2>2. QED
    BY <1>1, <1>4, <2>1, AnswerMaps
<1>8. Store!Destroy(c)
  BY <1>3, <1>5, <1>6, <1>7
     DEF Store!Destroy, Store!Pending, Store!Reply, Reply, Calls, Live, Remembered
<1>9. QED
  BY <1>8 DEF Store!Next

LEMMA ListImplements ==
    ASSUME IInv, NEW c \in Clients, ListSessions(c)
    PROVE  Store!Next
<1>1. /\ call[c].st = "pending" /\ call[c].req.op = "list"
      /\ busy = None /\ busy' = None /\ sessions' = sessions
      /\ Answer(c, ListReply({s \in SessionIds : sessions[s] # None}))
  BY HeadWaits DEF ListSessions, Idling
<1>2. Live' = Live /\ Remembered' = Remembered
  BY <1>1, SessionsLeft DEF StoredSession
<1>3. Live = {s \in SessionIds : sessions[s] # None}
  BY <1>1, IdleStore DEF Live
<1>4. PICK ids \in SUBSET SessionIds : ids = Live
  BY DEF Live
<1>5. ListReply(ids) \in Result /\ Answer(c, ListReply(ids))
  BY <1>1, <1>3, <1>4 DEF ListReply, Result, Tags, Memory
<1>6. Store!Answer(c, ListReply(ids)) /\ Calls[c].st = "pending" /\ Calls[c].op = "list"
  BY <1>1, <1>5, AnswerMaps, CallSeen
<1>7. Store!List(c)
  BY <1>2, <1>4, <1>6
     DEF Store!List, Store!Pending, Store!ListReply, ListReply, Calls, Live, Remembered
<1>8. QED
  BY <1>7 DEF Store!Next

LEMMA SnapshotImplements ==
    ASSUME IInv, NEW c \in Clients, SnapshotSession(c)
    PROVE  Store!Next
<1> DEFINE s == Subject(c)
<1>1. /\ call[c].st = "pending" /\ call[c].req.op = "snapshot" /\ s \in SessionIds
      /\ busy = None /\ busy' = None /\ sessions' = sessions
      /\ sessions \in [SessionIds -> Session \cup {None}]
      /\ \/ sessions[s] = None /\ Answer(c, Reply("not_found"))
         \/ Answer(c, Reply("error"))
         \/ sessions[s] # None /\ Answer(c, SnapshotReply(sessions[s].memory))
  BY HeadWaits, SubjectTyped DEF SnapshotSession, Idling, IInv, TypeOK
<1>2. Live' = Live /\ Remembered' = Remembered
  BY <1>1, SessionsLeft DEF StoredSession
<1>3. CASE Answer(c, Reply("error"))
  BY <1>1, <1>2, <1>3, StoreRefuses
<1>4. ASSUME NEW res \in Result, Answer(c, res),
             res = IF s \in Live THEN SnapshotReply(Remembered[s]) ELSE Reply("not_found")
      PROVE  Store!Next
  <2>1. Store!Answer(c, res)
    BY <1>1, <1>4, AnswerMaps
  <2>2. Calls[c].st = "pending" /\ Calls[c].op = "snapshot" /\ Calls[c].sid = s
    BY <1>1, CallSeen
  <2>3. Store!Snapshot(c)
    BY <1>2, <1>4, <2>1, <2>2
       DEF Store!Snapshot, Store!Pending, Store!Reply, Reply, Store!SnapshotReply,
           SnapshotReply, Calls, Live, Remembered
  <2>4. QED
    BY <2>3 DEF Store!Next
<1>5. CASE sessions[s] = None /\ Answer(c, Reply("not_found"))
  <2>1. s \notin Live
    BY <1>1, <1>5, IdleStore DEF Live
  <2>2. Reply("not_found") \in Result
    BY ReplyTyped DEF Tags
  <2>3. QED
    BY <1>4, <1>5, <2>1, <2>2
<1>6. CASE sessions[s] # None /\ Answer(c, SnapshotReply(sessions[s].memory))
  <2>1. s \in Live /\ Remembered[s] = sessions[s].memory
    BY <1>1, <1>6, IdleStore DEF Live, Remembered
  <2>2. SnapshotReply(sessions[s].memory) \in Result
    BY <1>1, <1>6 DEF Session, SnapshotReply, Result, Tags
  <2>3. QED
    BY <1>4, <1>6, <2>1, <2>2
<1>7. QED
  BY <1>1, <1>3, <1>5, <1>6

LEMMA RestoreImplements ==
    ASSUME IInv, NEW c \in Clients, RestoreSession(c)
    PROVE  Store!Next
<1> DEFINE s == Subject(c)
           e == call[c].req.snap
<1>1. /\ call[c].st = "pending" /\ call[c].req.op = "restore"
      /\ e \in Envelope
      /\ e.good => s \in SessionIds
      /\ busy = None /\ busy' = None
      /\ sessions \in [SessionIds -> Session \cup {None}]
  BY HeadWaits, SubjectTyped DEF RestoreSession, Idling, IInv, TypeOK
<1>2. CASE Answer(c, Reply("error")) /\ UNCHANGED sessions
  <2>1. Live' = Live /\ Remembered' = Remembered
    BY <1>1, <1>2, SessionsLeft DEF StoredSession
  <2>2. QED
    BY <1>1, <1>2, <2>1, StoreRefuses
<1>3. CASE /\ e.good
           /\ sessions' = [sessions EXCEPT ![s] = [memory |-> e.memory]]
           /\ Answer(c, Reply("ok"))
  <2>1. PICK x : x = [memory |-> e.memory]
    OBVIOUS
  <2>2. x \in Session /\ x.memory = e.memory
    BY <1>1, <2>1 DEF Session, Envelope
  <2>3. \A t \in SessionIds : StoredSession(t)' = IF t = s THEN x ELSE StoredSession(t)
    BY <1>1, <1>3, <2>1 DEF StoredSession
  <2>4. Live' = Live \cup {s} /\ Remembered' = [Remembered EXCEPT ![s] = x.memory]
    BY <1>1, <1>3, <2>2, <2>3, SessionWritten
  <2>5. /\ Calls[c].st = "pending" /\ Calls[c].op = "restore" /\ Calls[c].sid = s
        /\ Calls[c].arg = x.memory
    BY <1>1, <2>2, CallSeen
  <2>6. Store!Answer(c, Reply("ok"))
    BY <1>1, <1>3, AnswerMaps, ReplyTyped DEF Tags
  <2>7. Store!Restore(c)
    BY <2>4, <2>5, <2>6
       DEF Store!Restore, Store!Pending, Store!Write, Store!Reply, Reply, Calls, Live, Remembered
  <2>8. QED
    BY <2>7 DEF Store!Next
<1>4. QED
  BY <1>2, <1>3 DEF RestoreSession

(* Taking a session out of the map for a run is not seen: the store keeps  *)
(* it until the run ends.                                                  *)
LEMMA StartImplements ==
    ASSUME IInv, NEW c \in Clients, StartRun(c)
    PROVE  [Store!Next]_(Store!vars)
<1> DEFINE s == Subject(c)
<1>1. /\ s \in SessionIds /\ busy = None /\ busy' = c /\ c # None
      /\ owned' = sessions[s] /\ call' = call
      /\ sessions' = [sessions EXCEPT ![s] = None]
      /\ sessions \in [SessionIds -> Session \cup {None}]
  BY HeadWaits, SubjectTyped, WorkerAssumption DEF StartRun, IInv, TypeOK
<1>2. Subject(c)' = s
  BY <1>1 DEF Subject
<1>3. \A t \in SessionIds : StoredSession(t)' = StoredSession(t)
  <2>1. Subject(busy)' = s
    BY <1>1 DEF Subject
  <2>2. QED
    BY <1>1, <2>1 DEF StoredSession
<1>4. Calls' = Calls
  BY <1>1 DEF Calls, StoreCall, Subject, Tok
<1>5. QED
  BY <1>3, <1>4, SessionsLeft, StoreStutter

LEMMA FinishImplements ==
    ASSUME IInv, NEW c \in Clients, FinishRun(c)
    PROVE  Store!Next
<1> DEFINE s == Subject(c)
<1>1. /\ busy = c /\ c # None /\ Found \in Session /\ Left(c) \in Session
      /\ busy' = None
      /\ call[c].st = "pending" /\ call[c].req.op = "run" /\ s \in SessionIds
      /\ sessions \in [SessionIds -> Session \cup {None}]
  BY FinishRunFacts, BusyFacts, WorkerAssumption DEF IInv, TypeOK
<1>2. PICK x \in {Found, Left(c)}, tag \in {"ok", "error"} :
        /\ sessions' = [sessions EXCEPT ![s] = x]
        /\ Answer(c, Reply(tag))
        /\ tag = "ok" => x = Left(c)
  BY FinishRunFacts
<1>3. /\ x \in Session
      /\ \A t \in SessionIds : StoredSession(t)' = IF t = s THEN x ELSE StoredSession(t)
  BY <1>1, <1>2 DEF StoredSession
<1>4. Live' = Live \cup {s} /\ Remembered' = [Remembered EXCEPT ![s] = x.memory]
  BY <1>1, <1>3, SessionWritten
<1>5. StoredSession(s) = owned
  BY <1>1 DEF StoredSession
<1>6. Found.memory = Remembered[s]
  BY <1>1, <1>5 DEF Found, Remembered, NewSession
<1>7. Left(c).memory = Remembered[s] \cup {Tok(c)}
  BY <1>6 DEF Left
<1>8. /\ Calls[c].st = "pending" /\ Calls[c].op = "run" /\ Calls[c].sid = s
      /\ Calls[c].tok = Tok(c)
  BY <1>1, CallSeen
<1>9. Store!Answer(c, Reply(tag))
  BY <1>1, <1>2, AnswerMaps, ReplyTyped DEF Tags
<1>10. \/ x.memory = Remembered[s] \cup {Tok(c)}
       \/ x.memory = Remembered[s] /\ tag = "error"
  BY <1>2, <1>6, <1>7
<1>11. Store!Run(c)
  BY <1>4, <1>8, <1>9, <1>10
     DEF Store!Run, Store!Pending, Store!Write, Store!Reply, Reply, Calls, Live, Remembered
<1>12. QED
  BY <1>11 DEF Store!Next

(* A call that is made, or given back, is not the run under way. *)
LEMMA OtherCallsSeen ==
    ASSUME IInv, NEW c \in Clients, call[c].st # "pending",
           \A d \in Clients \ {c} : call'[d] = call[d],
           UNCHANGED <<sessions, busy, owned>>
    PROVE  /\ Live' = Live /\ Remembered' = Remembered
           /\ Calls' = [Calls EXCEPT ![c] = Calls'[c]]
<1>1. busy # None => busy \in Clients /\ call[busy].st = "pending"
  BY DEF IInv, TypeOK, QueueOK
<1>2. busy # None => call'[busy] = call[busy]
  BY <1>1
<1>3. busy # None => Subject(busy)' = Subject(busy)
  BY <1>2 DEF Subject
<1>4. \A t \in SessionIds : StoredSession(t)' = StoredSession(t)
  BY <1>3 DEF StoredSession
<1>5. \A d \in Clients \ {c} : StoreCall(d)' = StoreCall(d)
  BY DEF StoreCall, Subject, Tok
<1>6. Calls' = [Calls EXCEPT ![c] = Calls'[c]]
  BY <1>5 DEF Calls
<1>7. QED
  BY <1>4, <1>6, SessionsLeft

LEMMA SendImplements ==
    ASSUME IInv, NEW c \in Clients, Send(c)
    PROVE  Store!Next
<1>1. /\ call \in [Clients -> Call] /\ call[c].st = "idle"
      /\ UNCHANGED <<sessions, busy, owned>>
      /\ \A d \in Clients \ {c} : call'[d] = call[d]
      /\ \/ call'[c].st = "pending" /\ call'[c].res = NoReply
         \/ call'[c].st = "replied" /\ call'[c].res = Reply("error")
  BY DEF Send, IInv, TypeOK
<1>2. /\ Live' = Live /\ Remembered' = Remembered
      /\ Calls' = [Calls EXCEPT ![c] = Calls'[c]]
  BY <1>1, OtherCallsSeen
<1>3. Calls[c].st = "idle"
  BY <1>1 DEF Calls, StoreCall
<1>4. \/ Calls'[c].st = "pending" /\ Calls'[c].res = NoReply
      \/ Calls'[c].st = "replied" /\ Calls'[c].res = Reply("error")
  BY <1>1 DEF Calls, StoreCall
<1>5. Store!Invoke(c)
  BY <1>2, <1>3, <1>4
     DEF Store!Invoke, Store!NoReply, NoReply, Store!Reply, Reply, Calls, Live, Remembered
<1>6. QED
  BY <1>5 DEF Store!Next

LEMMA ReturnImplements ==
    ASSUME IInv, NEW c \in Clients, Return(c)
    PROVE  Store!Next
<1>1. /\ call \in [Clients -> Call] /\ call[c].st = "replied"
      /\ UNCHANGED <<sessions, busy, owned>>
      /\ \A d \in Clients \ {c} : call'[d] = call[d]
      /\ call'[c].st = "idle"
  BY DEF Return, IdleCall, IInv, TypeOK
<1>2. /\ Live' = Live /\ Remembered' = Remembered
      /\ Calls' = [Calls EXCEPT ![c] = Calls'[c]]
  BY <1>1, OtherCallsSeen
<1>3. Calls[c].st = "replied"
  BY <1>1 DEF Calls, StoreCall
<1>4. Calls'[c] = Store!IdleCall
  BY <1>1 DEF Calls, StoreCall, Store!IdleCall, NoReply, Reply, Store!NoReply, Store!Reply
<1>5. Store!Return(c)
  BY <1>2, <1>3, <1>4 DEF Store!Return, Calls, Live, Remembered
<1>6. QED
  BY <1>5 DEF Store!Next

(* The worker goes away with every session and answers whoever waits. *)
LEMMA LossImplements ==
    ASSUME busy' = None, sessions' = [s \in SessionIds |-> None],
           \A c \in Clients :
             StoreCall(c)' = IF call[c].st = "pending"
                             THEN [StoreCall(c) EXCEPT !.st = "replied", !.res = Reply("error")]
                             ELSE StoreCall(c)
    PROVE  Store!Next
<1>1. \A s \in SessionIds : StoredSession(s)' = None
  BY DEF StoredSession
<1>2. Live' = {} /\ Remembered' = [s \in SessionIds |-> {}]
  BY <1>1 DEF Live, Remembered
<1>3. \A c \in Clients : Calls[c] = StoreCall(c) /\ (Calls[c].st = "pending" <=> call[c].st = "pending")
  BY DEF Calls, StoreCall
<1>4. Calls' = [c \in Clients |->
                  IF Calls[c].st = "pending"
                  THEN [Calls[c] EXCEPT !.st = "replied", !.res = Reply("error")]
                  ELSE Calls[c]]
  BY <1>3 DEF Calls
<1>5. Store!Lose
  BY <1>2, <1>4 DEF Store!Lose, Store!Reply, Reply, Calls, Live, Remembered
<1>6. QED
  BY <1>5 DEF Store!Next

LEMMA DeathImplements ==
    ASSUME IInv, WorkerDies
    PROVE  Store!Next
<1>1. /\ call \in [Clients -> Call]
      /\ busy' = None /\ sessions' = [s \in SessionIds |-> None]
      /\ \A c \in Clients : call'[c] =
           IF call[c].st = "pending"
           THEN [call[c] EXCEPT !.st = "replied", !.res = Reply("error")]
           ELSE call[c]
  BY DEF WorkerDies, IInv, TypeOK
<1>2. ASSUME NEW c \in Clients
      PROVE  StoreCall(c)' = IF call[c].st = "pending"
                             THEN [StoreCall(c) EXCEPT !.st = "replied", !.res = Reply("error")]
                             ELSE StoreCall(c)
  <2>1. CASE call[c].st # "pending"
    BY <1>1, <2>1 DEF StoreCall, Subject, Tok
  <2>2. CASE call[c].st = "pending"
    <3>1. /\ call'[c].st = "replied" /\ call'[c].res = Reply("error")
          /\ call'[c].req = call[c].req /\ call'[c].seq = call[c].seq
      BY <1>1, <2>2 DEF Call
    <3>2. StoreCall(c)' = [StoreCall(c) EXCEPT !.st = "replied", !.res = Reply("error")]
      BY <2>2, <3>1, AnsweredCall
    <3>3. QED
      BY <2>2, <3>2, Zenon
  <2>3. QED
    BY <2>1, <2>2
<1>3. QED
  BY <1>1, <1>2, LossImplements

LEMMA ShutdownImplements ==
    ASSUME IInv, ServeShutdown
    PROVE  Store!Next
<1>1. /\ busy' = None /\ sessions' = [s \in SessionIds |-> None]
      /\ call' = call /\ \A c \in Clients : call[c].st # "pending"
  BY ServeShutdownFacts DEF ServeShutdown
<1>2. \A c \in Clients : StoreCall(c)' = StoreCall(c)
  BY <1>1 DEF StoreCall, Subject, Tok
<1>3. QED
  BY <1>1, <1>2, LossImplements

(* Leaving, dropping the last handle and joining change nothing of that. *)
LEMMA UnseenImplements ==
    ASSUME \/ \E c \in Clients : Leave(c)
           \/ DropRuntime \/ Join \/ UNCHANGED vars
    PROVE  [Store!Next]_(Store!vars)
<1>1. UNCHANGED <<sessions, call, busy, owned>>
  BY DEF Leave, DropRuntime, Join, vars
<1>2. \A t \in SessionIds : StoredSession(t)' = StoredSession(t)
  BY <1>1 DEF StoredSession, Subject
<1>3. Calls' = Calls
  BY <1>1 DEF Calls, StoreCall, Subject, Tok
<1>4. QED
  BY <1>2, <1>3, SessionsLeft, StoreStutter

(* Every step of the worker and its callers is a step of the store, or     *)
(* nothing it can see.                                                     *)
LEMMA StepImplements ==
    ASSUME IInv, [Next]_vars
    PROVE  [Store!Next]_(Store!vars)
<1>1. ASSUME NEW c \in Clients, Send(c) \/ Return(c) PROVE Store!Next
  BY <1>1, SendImplements, ReturnImplements
<1>2. ASSUME NEW c \in Clients,
             \/ CreateSession(c) \/ RejectRun(c) \/ FinishRun(c) \/ DestroySession(c)
             \/ ListSessions(c) \/ SnapshotSession(c) \/ RestoreSession(c)
      PROVE  Store!Next
  BY <1>2, CreateImplements, RejectImplements, FinishImplements, DestroyImplements,
     ListImplements, SnapshotImplements, RestoreImplements
<1>3. ASSUME NEW c \in Clients, StartRun(c) PROVE [Store!Next]_(Store!vars)
  BY <1>3, StartImplements
<1>4. CASE ServeShutdown \/ WorkerDies
  BY <1>4, ShutdownImplements, DeathImplements
<1>5. CASE (\E c \in Clients : Leave(c)) \/ DropRuntime \/ Join \/ UNCHANGED vars
  BY <1>5, UnseenImplements
<1>6. QED
  BY <1>1, <1>2, <1>3, <1>4, <1>5 DEF Next, Serve

(* However its callers overlap, leave or drop the runtime, and whether or  *)
(* not its thread dies, the worker implements the abstract store: every    *)
(* call takes effect at once, between its being sent and its answer.       *)
THEOREM ImplementsStoreHolds == Spec => ImplementsStore
<1>1. Init => Store!Init
  BY StoreInit
<1>2. IInv /\ [Next]_vars => [Store!Next]_(Store!vars)
  BY StepImplements
<1>3. QED
  BY <1>1, <1>2, Invariant, PTL DEF Spec, ImplementsStore, Store!Spec

================================================================================
