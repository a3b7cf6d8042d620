-------------------------- MODULE MontySessions_proof --------------------------
(***************************************************************************)
(* Proofs about the session table of the Python backend: its invariants,   *)
(* whatever the callers do; that runs persist, and that the table          *)
(* implements the abstract store, for callers that take turns on a session *)
(* and cancel no call.                                                     *)
(***************************************************************************)
EXTENDS MontySessions, TLAPS

(* What a slot of the table, or a run, has in memory. *)
Mem(x) == IF x = None THEN {} ELSE x.memory

(* The run of c has not put its session back. *)
Underway(c) == call[c].st \in {"pending", "exec", "put"} /\ call[c].req.op = "run"

(* The progress of a call fits its request. *)
CallsOK ==
    \A c \in Clients :
        /\ call[c].st # "idle" =>
             /\ call[c].req \in Request
             /\ call[c].req.op \notin {"list", "restore"} => call[c].req.sid \in SessionIds
        /\ call[c].st # "idle" /\ call[c].req.op = "run" =>
             /\ call[c].tok \in Token
             /\ call[c].tok[2] < nextTok
        /\ call[c].st # "idle" /\ call[c].req.op = "restore" =>
             call[c].req.snap \in snaps \cup {BadEnvelope}
        /\ call[c].st \in {"exec", "put"} => call[c].req.op = "run"
        /\ call[c].st = "put" => owned[c] # None
        /\ call[c].st \notin {"exec", "put"} => owned[c] = None

(* Snapshots that were handed out are good. *)
SnapsOK == \A e \in snaps : e.good /\ e.session \in Session

(* No two runs have the same token. *)
TokensDiffer ==
    \A c, d \in Clients : c # d /\ Underway(c) /\ Underway(d) => call[c].tok # call[d].tok

(* Every token that is in some memory belongs to a call made already. *)
TokensOld ==
    /\ \A s \in SessionIds : \A t \in Mem(sessions[s]) : t[2] < nextTok
    /\ \A c \in Clients : \A t \in Mem(owned[c]) : t[2] < nextTok
    /\ \A e \in snaps : \A t \in Mem(e.session) : t[2] < nextTok

(* A run's effects are nowhere but in the session it owns, and not even    *)
(* there before its code has ended.                                        *)
Hidden ==
    \A c \in Clients : Underway(c) =>
        /\ \A s \in SessionIds : call[c].tok \notin Mem(sessions[s])
        /\ \A e \in snaps : call[c].tok \notin Mem(e.session)
        /\ \A d \in Clients : d # c => call[c].tok \notin Mem(owned[d])
        /\ call[c].st # "put" => call[c].tok \notin Mem(owned[c])

(* The inductive invariant. *)
IInv ==
    /\ TypeOK
    /\ CallsOK
    /\ SnapsOK
    /\ TokensDiffer
    /\ TokensOld
    /\ Hidden
    /\ MovedNotCopied

--------------------------------------------------------------------------------
(* Types of the operators the actions are built from. *)

(* A reply without data is a result. *)
LEMMA ReplyTyped ==
    ASSUME NEW tag \in Tags
    PROVE  Reply(tag) \in Result
BY DEF Reply, Result, Memory

(* The limits of a run are limits. *)
LEMMA EffectiveLimitsTyped ==
    ASSUME NEW req \in Request
    PROVE  EffectiveLimits(req) \in LimitRecord
BY MontyAssumption DEF EffectiveLimits, Request, LimitRecord

(* A new session is a session, and an empty one. *)
LEMMA NewSessionTyped ==
    ASSUME NEW limits \in LimitRecord
    PROVE  /\ NewSession(limits) \in Session
           /\ NewSession(limits).memory = {}
           /\ NewSession(limits) # None
<1>1. NewSession(limits) \in Session
  BY DEF NewSession, Session, Memory
<1>2. QED
  BY <1>1, MontyAssumption DEF NewSession

(* The session a run executes on has the memory of the one it owns. *)
LEMMA OpenedTyped ==
    ASSUME NEW c \in Clients, TypeOK, call[c].req \in Request
    PROVE  /\ Opened(c) \in Session
           /\ Opened(c).memory = Mem(owned[c])
<1> DEFINE limits == EffectiveLimits(call[c].req)
           base == IF owned[c] = None THEN NewSession(limits) ELSE owned[c]
<1>1. limits \in LimitRecord
  BY EffectiveLimitsTyped
<1>2. base \in Session /\ base.memory = Mem(owned[c])
  BY <1>1, NewSessionTyped DEF TypeOK, Mem
<1>3. Opened(c) = [base EXCEPT !.limits = limits]
  BY DEF Opened
<1> HIDE DEF limits, base
<1>4. QED
  BY <1>1, <1>2, <1>3 DEF Session

(* A request that can be made is well formed. *)
LEMMA RequestsTyped ==
    ASSUME SnapsOK, TypeOK, NEW req \in Requests
    PROVE  /\ req \in Request
           /\ req.op \notin {"list", "restore"} => req.sid \in SessionIds
           /\ req.op = "restore" => req.snap \in snaps \cup {BadEnvelope}
<1>1. BadEnvelope \in Envelope
  BY DEF BadEnvelope, Envelope
<1>2. CASE req \in CreateRequests
  <2>1. PICK s \in SessionIds, l \in Limits \cup {None} :
          req = CreateRequest(s, l)
    BY <1>2 DEF CreateRequests
  <2>2. QED
    BY <2>1, MontyAssumption DEF CreateRequest, PlainRequest, Request, Ops
<1>3. CASE req \in RunRequests
  <2>1. PICK s \in SessionIds, m \in Modes, l \in Limits \cup {None}, t \in Timeouts \cup {None} :
          req = RunRequest(s, m, l, t)
    BY <1>3 DEF RunRequests
  <2>2. QED
    BY <2>1, MontyAssumption DEF RunRequest, PlainRequest, Request, Ops, Modes
<1>4. CASE req \in RestoreRequests
  <2>1. PICK s \in SessionIds \cup {None}, e \in snaps \cup {BadEnvelope} :
          req = RestoreRequest(s, e)
    BY <1>4 DEF RestoreRequests
  <2>2. QED
    BY <1>1, <2>1 DEF RestoreRequest, PlainRequest, Request, Ops, TypeOK
<1>5. CASE req \in {PlainRequest(op, s) : op \in {"destroy", "snapshot"}, s \in SessionIds}
  BY <1>5 DEF PlainRequest, Request, Ops
<1>6. CASE req = PlainRequest("list", None)
  BY <1>6 DEF PlainRequest, Request, Ops
<1>7. QED
  BY <1>2, <1>3, <1>4, <1>5, <1>6 DEF Requests

--------------------------------------------------------------------------------
(* What a step leaves alone: every call but c's, and of c's the request    *)
(* and the token.                                                          *)
Moves(c, st) ==
    /\ call' \in [Clients -> Call]
    /\ \A d \in Clients : d # c => call'[d] = call[d]
    /\ \A d \in Clients : call'[d].req = call[d].req /\ call'[d].tok = call[d].tok
    /\ call'[c].st = st

(* Answering a call moves that call alone. *)
LEMMA AnswerMoves ==
    ASSUME TypeOK, NEW c \in Clients, NEW res \in Result, Answer(c, res)
    PROVE  Moves(c, "replied")
BY DEF Answer, Moves, TypeOK, Call, Stages

(* A call that is answered under the lock: memory may only shrink, move    *)
(* from a snapshot into the table or from the table into a snapshot.       *)
LEMMA AnsweredStep ==
    ASSUME IInv, NEW c \in Clients, Moves(c, "replied"),
           call[c].st = "pending",
           sessions' \in [SessionIds -> Session \cup {None}],
           snaps' \subseteq Envelope,
           promised' \in [SessionIds -> Memory],
           UNCHANGED <<owned, nextTok>>,
           snaps \subseteq snaps',
           \A e \in snaps' : e \in snaps \/
               (e.good /\ e.session \in Session /\ \E s \in SessionIds : e.session = sessions[s]),
           \A s \in SessionIds : \/ sessions'[s] = sessions[s]
                                 \/ Mem(sessions'[s]) = {}
                                 \/ \E e \in snaps : sessions'[s] = e.session
    PROVE  IInv'
<1>1. TypeOK'
  BY DEF IInv, TypeOK, Moves
<1>2. CallsOK'
  BY DEF IInv, CallsOK, Moves, TypeOK
<1>3. SnapsOK'
  BY DEF IInv, SnapsOK
<1>4. TokensDiffer'
  BY DEF IInv, TokensDiffer, Moves, Underway
<1>5. TokensOld'
  BY DEF IInv, TokensOld, Mem
<1>6. Hidden'
  BY DEF IInv, Hidden, Moves, Underway, Mem
<1>7. MovedNotCopied'
  BY DEF IInv, MovedNotCopied, Disjoint, Snapshotted, Mem
<1>8. QED
  BY <1>1, <1>2, <1>3, <1>4, <1>5, <1>6, <1>7 DEF IInv

--------------------------------------------------------------------------------
(* One lemma per action. *)

(* Every initial state satisfies the invariant. *)
LEMMA InitIInv == Init => IInv
<1> SUFFICES ASSUME Init PROVE IInv
  OBVIOUS
<1>1. TypeOK
  BY DEF Init, TypeOK, Call, IdleCall, Stages, NoReply, Reply, Result, Tags, Memory
<1>2. CallsOK /\ SnapsOK /\ TokensDiffer /\ Hidden
  BY DEF Init, CallsOK, SnapsOK, TokensDiffer, Hidden, Underway, IdleCall
<1>3. TokensOld /\ MovedNotCopied
  BY DEF Init, TokensOld, Mem, MovedNotCopied, Disjoint
<1>4. QED
  BY <1>1, <1>2, <1>3 DEF IInv

(* A new call: its token is one no memory and no other run has. *)
LEMMA InvokeStep ==
    ASSUME IInv, NEW c \in Clients, Invoke(c)
    PROVE  IInv'
<1>1. PICK req \in Requests :
        call' = [call EXCEPT ![c] =
                   [st |-> "pending", req |-> req, res |-> NoReply,
                    tok |-> IF req.op = "run" THEN <<req.sid, nextTok>> ELSE None]]
  BY DEF Invoke
<1>2. /\ req \in Request
      /\ req.op \notin {"list", "restore"} => req.sid \in SessionIds
      /\ req.op = "restore" => req.snap \in snaps \cup {BadEnvelope}
  BY RequestsTyped DEF IInv
<1> DEFINE new == [st |-> "pending", req |-> req, res |-> NoReply,
                   tok |-> IF req.op = "run" THEN <<req.sid, nextTok>> ELSE None]
<1>3. new \in Call
  <2>1. NoReply \in Result
    BY ReplyTyped DEF NoReply, Tags
  <2>2. req.op = "run" => <<req.sid, nextTok>> \in Token
    BY <1>2 DEF IInv, TypeOK, Token
  <2>3. QED
    BY <1>2, <2>1, <2>2 DEF Call, Stages
<1>4. /\ new.req = req /\ new.st = "pending"
      /\ req.op = "run" => new.tok = <<req.sid, nextTok>>
  OBVIOUS
<1> HIDE DEF new
<1>5. /\ call' = [call EXCEPT ![c] = new]
      /\ call[c].st = "idle"
      /\ nextTok' = nextTok + 1
      /\ UNCHANGED <<sessions, owned, snaps, promised>>
  BY <1>1 DEF Invoke, new
<1>6. /\ call'[c] = new
      /\ \A d \in Clients : d # c => call'[d] = call[d]
      /\ nextTok \in Nat
  BY <1>5 DEF IInv, TypeOK
<1>7. TypeOK'
  BY <1>3, <1>5 DEF IInv, TypeOK
<1>8. CallsOK'
  <2>1. \A d \in Clients : d # c /\ call[d].tok \in Token => call[d].tok[2] \in Nat
    BY DEF Token
  <2>2. req.op = "run" => new.tok \in Token /\ new.tok[2] < nextTok + 1
    BY <1>2, <1>4, <1>6 DEF Token
  <2>3. QED
    BY <1>2, <1>4, <1>5, <1>6, <2>1, <2>2 DEF IInv, CallsOK
<1>9. SnapsOK'
  BY <1>5 DEF IInv, SnapsOK
<1>10. \A d \in Clients : d # c /\ Underway(d) => call[d].tok[2] < nextTok
  BY DEF IInv, CallsOK, Underway
<1>11. TokensDiffer'
  BY <1>4, <1>5, <1>6, <1>10 DEF IInv, TokensDiffer, Underway
<1>12. TokensOld'
  <2>1. \A m \in Memory : \A t \in m : t[2] \in Nat
    BY DEF Memory, Token
  <2>2. /\ \A s \in SessionIds : Mem(sessions[s]) \in Memory
        /\ \A d \in Clients : Mem(owned[d]) \in Memory
        /\ \A e \in snaps : Mem(e.session) \in Memory
    BY DEF IInv, TypeOK, SnapsOK, Session, Mem, Memory
  <2>3. QED
    BY <1>5, <1>6, <2>1, <2>2 DEF IInv, TokensOld, Mem
<1>13. Hidden'
  <2>1. Underway(c)' => req.op = "run" /\ call'[c].tok[2] = nextTok
    BY <1>4, <1>6 DEF Underway
  <2>2. Underway(c)' =>
          /\ \A s \in SessionIds : call'[c].tok \notin Mem(sessions[s])
          /\ \A e \in snaps : call'[c].tok \notin Mem(e.session)
          /\ \A d \in Clients : call'[c].tok \notin Mem(owned[d])
    BY <2>1, <1>6 DEF IInv, TokensOld
  <2>3. QED
    BY <1>5, <1>6, <2>2 DEF IInv, Hidden, Underway, Mem
<1>14. MovedNotCopied'
  BY <1>5 DEF IInv, MovedNotCopied, Disjoint, Snapshotted
<1>15. QED
  BY <1>7, <1>8, <1>9, <1>11, <1>12, <1>13, <1>14 DEF IInv

(* create_session puts an empty session where there was none. *)
LEMMA CreateSessionStep ==
    ASSUME IInv, NEW c \in Clients, CreateSession(c)
    PROVE  IInv'
<1> DEFINE asked == call[c].req.limits
           limits == IF asked = None THEN DefaultLimits ELSE asked
<1>1. call[c].req \in Request
  BY DEF IInv, CallsOK, CreateSession, Pending
<1>2. limits \in LimitRecord
  BY <1>1, MontyAssumption DEF Request
<1>3. NewSession(limits) \in Session /\ Mem(NewSession(limits)) = {}
  BY <1>2, NewSessionTyped DEF Mem
<1> HIDE DEF limits
<1>4. /\ sessions' \in [SessionIds -> Session \cup {None}]
      /\ \A s \in SessionIds : sessions'[s] = sessions[s] \/ Mem(sessions'[s]) = {}
  BY <1>3 DEF CreateSession, IInv, TypeOK, limits
<1>5. Moves(c, "replied") /\ call[c].st = "pending"
  BY AnswerMoves, ReplyTyped DEF CreateSession, Pending, IInv, Tags
<1>6. QED
  BY <1>4, <1>5, AnsweredStep DEF CreateSession, IInv, TypeOK, SnapsOK

(* A run that is refused touches no session. *)
LEMMA RejectRunStep ==
    ASSUME IInv, NEW c \in Clients, RejectRun(c)
    PROVE  IInv'
<1>1. Moves(c, "replied") /\ call[c].st = "pending"
  BY AnswerMoves, ReplyTyped DEF RejectRun, Pending, IInv, Tags
<1>2. QED
  BY <1>1, AnsweredStep DEF RejectRun, IInv, TypeOK, SnapsOK

(* destroy_session only takes memory away. *)
LEMMA DestroySessionStep ==
    ASSUME IInv, NEW c \in Clients, DestroySession(c)
    PROVE  IInv'
<1>1. Moves(c, "replied") /\ call[c].st = "pending"
  BY AnswerMoves, ReplyTyped DEF DestroySession, Pending, IInv, Tags
<1>2. /\ sessions' \in [SessionIds -> Session \cup {None}]
      /\ \A s \in SessionIds : sessions'[s] = sessions[s] \/ Mem(sessions'[s]) = {}
      /\ promised' \in [SessionIds -> Memory]
  BY DEF DestroySession, IInv, TypeOK, Mem, Memory
<1>3. QED
  BY <1>1, <1>2, AnsweredStep DEF DestroySession, IInv, TypeOK, SnapsOK

(* list_sessions only reads. *)
LEMMA ListSessionsStep ==
    ASSUME IInv, NEW c \in Clients, ListSessions(c)
    PROVE  IInv'
<1>1. ListReply({s \in SessionIds : sessions[s] # None}) \in Result
  BY DEF ListReply, Result, Tags, Memory
<1>2. Moves(c, "replied") /\ call[c].st = "pending"
  BY <1>1, AnswerMoves DEF ListSessions, Pending, IInv
<1>3. QED
  BY <1>2, AnsweredStep DEF ListSessions, IInv, TypeOK, SnapsOK

(* A snapshot holds what the table holds: no run under way is in it. *)
LEMMA SnapshotSessionStep ==
    ASSUME IInv, NEW c \in Clients, SnapshotSession(c)
    PROVE  IInv'
<1> DEFINE s == Subject(c)
           new == [good |-> TRUE, sid |-> s, session |-> sessions[s]]
<1>1. call[c].st = "pending" /\ call[c].req \in Request /\ call[c].req.op = "snapshot"
  BY DEF SnapshotSession, Pending, IInv, CallsOK
<1>2. CASE /\ Answer(c, Reply("not_found")) \/ Answer(c, Reply("error"))
           /\ UNCHANGED snaps
  <2>1. Moves(c, "replied")
    BY <1>2, AnswerMoves, ReplyTyped DEF IInv, Tags
  <2>2. QED
    BY <1>1, <1>2, <2>1, AnsweredStep DEF SnapshotSession, IInv, TypeOK, SnapsOK
<1>3. CASE /\ sessions[s] # None /\ Answer(c, SnapshotReply(sessions[s].memory))
           /\ snaps' = snaps \cup {new}
  <2>1. s \in SessionIds /\ sessions[s] \in Session
    BY <1>1, <1>3 DEF IInv, TypeOK, CallsOK, Subject, Target
  <2>2. SnapshotReply(sessions[s].memory) \in Result
    BY <2>1 DEF SnapshotReply, Result, Session, Tags
  <2>3. Moves(c, "replied")
    BY <1>3, <2>2, AnswerMoves DEF IInv
  <2>4. snaps' = snaps \cup {new} /\ new \in Envelope /\ new.good /\ new.session = sessions[s]
    BY <1>3, <2>1 DEF Envelope
  <2> HIDE DEF new
  <2>5. QED
    BY <1>1, <2>1, <2>3, <2>4, AnsweredStep DEF SnapshotSession, IInv, TypeOK, SnapsOK
<1>4. QED
  BY <1>2, <1>3 DEF SnapshotSession

(* A restored session holds what a snapshot holds. *)
LEMMA RestoreSessionStep ==
    ASSUME IInv, NEW c \in Clients, RestoreSession(c)
    PROVE  IInv'
<1> DEFINE e == call[c].req.snap
<1>1. /\ call[c].st = "pending"
      /\ e \in snaps \cup {BadEnvelope}
  BY DEF RestoreSession, Pending, IInv, CallsOK
<1>2. Moves(c, "replied")
  BY AnswerMoves, ReplyTyped DEF RestoreSession, IInv, Tags
<1>3. CASE e.good
  <2>1. e \in snaps /\ e.session \in Session
    BY <1>1, <1>3 DEF BadEnvelope, IInv, SnapsOK
  <2>2. e.session.memory \in Memory
    BY <2>1 DEF Session
  <2>3. /\ sessions' = [sessions EXCEPT ![Subject(c)] = e.session]
        /\ promised' = [promised EXCEPT ![Subject(c)] = e.session.memory]
    BY <1>3 DEF RestoreSession
  <2> HIDE DEF e
  <2>4. /\ sessions' \in [SessionIds -> Session \cup {None}]
        /\ promised' \in [SessionIds -> Memory]
        /\ \A s \in SessionIds : sessions'[s] = sessions[s] \/ sessions'[s] = e.session
    BY <2>1, <2>2, <2>3 DEF IInv, TypeOK
  <2>5. QED
    BY <1>1, <1>2, <2>1, <2>4, AnsweredStep DEF RestoreSession, IInv, TypeOK, SnapsOK
<1>4. CASE ~e.good
  BY <1>1, <1>2, <1>4, AnsweredStep DEF RestoreSession, IInv, TypeOK, SnapsOK
<1>5. QED
  BY <1>3, <1>4

(* A run takes its session out of the table: moved, not copied. *)
LEMMA TakeSessionStep ==
    ASSUME IInv, NEW c \in Clients, TakeSession(c)
    PROVE  IInv'
<1>1. /\ call[c].st = "pending" /\ call[c].req.op = "run"
      /\ Moves(c, "exec")
  BY DEF TakeSession, Pending, Moves, IInv, TypeOK, Call, Stages
<1>2. Subject(c) \in SessionIds
  BY <1>1 DEF IInv, CallsOK, Subject, Target
<1>3. /\ sessions \in [SessionIds -> Session \cup {None}]
      /\ owned \in [Clients -> Session \cup {None}]
      /\ owned' = [owned EXCEPT ![c] = sessions[Subject(c)]]
      /\ sessions' = [sessions EXCEPT ![Subject(c)] = None]
      /\ UNCHANGED <<nextTok, snaps, promised>>
  BY DEF TakeSession, IInv, TypeOK
<1>4. TypeOK'
  BY <1>1, <1>2, <1>3 DEF IInv, TypeOK, Moves
<1>5. CallsOK'
  BY <1>1, <1>3 DEF IInv, CallsOK, Moves
<1>6. SnapsOK' /\ TokensDiffer'
  BY <1>1, <1>3 DEF IInv, SnapsOK, TokensDiffer, Moves, Underway
<1>7. TokensOld'
  BY <1>2, <1>3 DEF IInv, TokensOld, Mem
<1>8. Hidden'
  BY <1>1, <1>2, <1>3 DEF IInv, Hidden, Moves, Underway, Mem
<1>9. MovedNotCopied'
  BY <1>2, <1>3 DEF IInv, MovedNotCopied, Disjoint, Snapshotted
<1>10. QED
  BY <1>4, <1>5, <1>6, <1>7, <1>8, <1>9 DEF IInv

(* While its code runs, a session gains the run's token or nothing, and it *)
(* gains the token if the code succeeds.                                   *)
LEMMA RunCodeEnds ==
    ASSUME IInv, NEW c \in Clients, RunCode(c)
    PROVE  \E tag \in {"ok", "error"}, session \in Session :
             /\ session.memory \in {Mem(owned[c]), Mem(owned[c]) \cup {call[c].tok}}
             /\ tag = "ok" => call[c].tok \in session.memory
             /\ owned' = [owned EXCEPT ![c] = session]
             /\ call' = [call EXCEPT ![c].st = "put", ![c].res = Reply(tag)]
<1> DEFINE opened == Opened(c)
           timed == [opened EXCEPT !.tracker.wall_ms = opened.limits.wall_ms]
           done == [timed EXCEPT !.memory = @ \cup {call[c].tok}]
           Ends(session, tag) ==
             /\ owned' = [owned EXCEPT ![c] = session]
             /\ call' = [call EXCEPT ![c].st = "put", ![c].res = Reply(tag)]
<1>1. call[c].req \in Request /\ call[c].tok \in Token
  BY DEF RunCode, IInv, CallsOK
<1>2. opened \in Session /\ opened.memory = Mem(owned[c])
  BY <1>1, OpenedTyped DEF IInv
<1>3. Ends(done, "ok") \/ \E session \in {opened, timed, done} : Ends(session, "error")
  BY DEF RunCode
<1> HIDE DEF opened
<1>4. timed \in Session /\ timed.memory = Mem(owned[c])
  BY <1>2 DEF Session, LimitRecord
<1> HIDE DEF timed
<1>5. done \in Session /\ done.memory = Mem(owned[c]) \cup {call[c].tok}
  BY <1>1, <1>4 DEF Session, Memory
<1> HIDE DEF done
<1>6. QED
  BY <1>2, <1>3, <1>4, <1>5

(* The code executes on the session the run owns, unseen by the others. *)
LEMMA RunCodeStep ==
    ASSUME IInv, NEW c \in Clients, RunCode(c)
    PROVE  IInv'
<1>1. /\ call[c].st = "exec" /\ call[c].req.op = "run"
      /\ call[c].req \in Request
      /\ call[c].tok \in Token /\ call[c].tok[2] < nextTok
  BY DEF RunCode, IInv, CallsOK
<1>2. PICK tag \in {"ok", "error"}, session \in Session :
        /\ session.memory \in {Mem(owned[c]), Mem(owned[c]) \cup {call[c].tok}}
        /\ owned' = [owned EXCEPT ![c] = session]
        /\ call' = [call EXCEPT ![c].st = "put", ![c].res = Reply(tag)]
  BY RunCodeEnds
<1>3. Moves(c, "put")
  <2>1. Reply(tag) \in Result
    BY ReplyTyped DEF Tags
  <2>2. QED
    BY <1>2, <2>1 DEF Moves, IInv, TypeOK, Call, Stages
<1>4. /\ owned' \in [Clients -> Session \cup {None}]
      /\ owned'[c] = session
      /\ \A d \in Clients : d # c => owned'[d] = owned[d]
      /\ UNCHANGED <<sessions, nextTok, snaps, promised>>
      /\ session # None
      /\ Mem(session) \subseteq Mem(owned[c]) \cup {call[c].tok}
  BY <1>2, MontyAssumption DEF RunCode, IInv, TypeOK, Mem
<1> HIDE DEF Moves
<1>5. TypeOK'
  BY <1>3, <1>4 DEF IInv, TypeOK, Moves
<1>6. CallsOK'
  BY <1>1, <1>3, <1>4 DEF IInv, CallsOK, Moves
<1>7. SnapsOK' /\ TokensDiffer'
  BY <1>1, <1>3, <1>4 DEF IInv, SnapsOK, TokensDiffer, Moves, Underway
<1>8. TokensOld'
  BY <1>1, <1>4 DEF IInv, TokensOld
<1>9. Hidden'
  BY <1>1, <1>3, <1>4 DEF IInv, Hidden, TokensDiffer, Moves, Underway
<1>10. MovedNotCopied'
  <2>1. \A d \in Clients : d # c => Disjoint(session, owned[d])
    BY <1>1, <1>4 DEF IInv, MovedNotCopied, Disjoint, Hidden, Underway, Mem
  <2>2. \A s \in SessionIds : Disjoint(sessions[s], session)
    BY <1>1, <1>4 DEF IInv, MovedNotCopied, Disjoint, Hidden, Underway, Mem
  <2>3. QED
    BY <1>4, <2>1, <2>2 DEF IInv, MovedNotCopied, Disjoint, Snapshotted
<1>11. QED
  BY <1>5, <1>6, <1>7, <1>8, <1>9, <1>10 DEF IInv

(* A run that has ended puts its session, effects included, back. *)
LEMMA PutSessionStep ==
    ASSUME IInv, NEW c \in Clients, PutSession(c)
    PROVE  IInv'
<1>1. /\ call[c].st = "put" /\ call[c].req.op = "run"
      /\ call[c].tok \in Token
      /\ owned[c] # None
      /\ Subject(c) \in SessionIds
  BY DEF PutSession, IInv, CallsOK, Subject, Target
<1>2. Moves(c, "replied")
  BY DEF PutSession, Moves, IInv, TypeOK, Call, Stages
<1>3. /\ sessions \in [SessionIds -> Session \cup {None}]
      /\ owned \in [Clients -> Session \cup {None}]
      /\ sessions' = [sessions EXCEPT ![Subject(c)] = owned[c]]
      /\ owned' = [owned EXCEPT ![c] = None]
      /\ UNCHANGED <<nextTok, snaps>>
  BY DEF PutSession, IInv, TypeOK
<1>4. promised' \in [SessionIds -> Memory]
  BY <1>1 DEF PutSession, IInv, TypeOK, Memory
<1>5. TypeOK'
  BY <1>2, <1>3, <1>4 DEF IInv, TypeOK, Moves
<1>6. CallsOK'
  <2>1. call'[c].st = "replied" /\ owned'[c] = None
    BY <1>2, <1>3 DEF Moves
  <2>2. \A d \in Clients : d # c => call'[d] = call[d] /\ owned'[d] = owned[d]
    BY <1>2, <1>3 DEF Moves
  <2>3. call'[c].req = call[c].req /\ call'[c].tok = call[c].tok
    BY <1>2 DEF Moves
  <2>4. QED
    BY <1>1, <1>3, <2>1, <2>2, <2>3 DEF IInv, CallsOK
<1>7. SnapsOK' /\ TokensDiffer'
  BY <1>2, <1>3 DEF IInv, SnapsOK, TokensDiffer, Moves, Underway
<1>8. TokensOld'
  BY <1>3 DEF IInv, TokensOld, Mem
<1>9. Hidden'
  BY <1>1, <1>2, <1>3 DEF IInv, Hidden, Moves, Underway, Mem
<1>10. MovedNotCopied'
  BY <1>1, <1>3 DEF IInv, MovedNotCopied, Disjoint, Snapshotted
<1>11. QED
  BY <1>5, <1>6, <1>7, <1>8, <1>9, <1>10 DEF IInv

(* Returning and dropping a call end in an idle client that owns nothing. *)
LEMMA LeaveStep ==
    ASSUME IInv, NEW c \in Clients, Return(c) \/ Drop(c)
    PROVE  IInv'
<1>1. /\ call' = [call EXCEPT ![c] = IdleCall]
      /\ owned' = [owned EXCEPT ![c] = None]
      /\ UNCHANGED <<sessions, nextTok, snaps, promised>>
  BY DEF Return, Drop, IInv, TypeOK, CallsOK
<1>2. IdleCall \in Call /\ IdleCall.st = "idle"
  BY ReplyTyped DEF IdleCall, Call, Stages, NoReply, Tags
<1>3. TypeOK'
  BY <1>1, <1>2 DEF IInv, TypeOK
<1>4. /\ call'[c] = IdleCall /\ owned'[c] = None
      /\ \A d \in Clients : d # c => call'[d] = call[d] /\ owned'[d] = owned[d]
  BY <1>1 DEF IInv, TypeOK
<1>5. SnapsOK' /\ TokensDiffer'
  BY <1>1, <1>2, <1>4 DEF IInv, SnapsOK, TokensDiffer, Underway
<1>6. TokensOld' /\ Hidden'
  BY <1>1, <1>2, <1>4 DEF IInv, TokensOld, Hidden, Underway, Mem
<1>7. MovedNotCopied'
  BY <1>1, <1>4 DEF IInv, MovedNotCopied, Disjoint, Snapshotted
<1>8. CallsOK'
  <2>1. UNCHANGED <<nextTok, snaps>> /\ call'[c].st = "idle" /\ owned'[c] = None
    BY <1>1, <1>2, <1>4
  <2>2. \A d \in Clients : d # c => call'[d] = call[d] /\ owned'[d] = owned[d]
    BY <1>4
  <2>3. QED
    BY <2>1, <2>2 DEF IInv, CallsOK
<1>9. QED
  BY <1>3, <1>5, <1>6, <1>7, <1>8 DEF IInv

(* Every step preserves the invariant. *)
LEMMA NextIInv ==
    ASSUME IInv, [Next]_vars
    PROVE  IInv'
<1>1. CASE Next
  <2>1. PICK c \in Clients : Step(c)
    BY <1>1 DEF Next
  <2>2. QED
    BY <2>1, InvokeStep, CreateSessionStep, RejectRunStep, TakeSessionStep, RunCodeStep,
       PutSessionStep, DestroySessionStep, ListSessionsStep, SnapshotSessionStep,
       RestoreSessionStep, LeaveStep DEF Step, Serve
<1>2. CASE UNCHANGED vars
  BY <1>2 DEF vars, IInv, TypeOK, CallsOK, SnapsOK, TokensDiffer, TokensOld, Hidden,
     Underway, Mem, MovedNotCopied, Disjoint, Snapshotted
<1>3. QED
  BY <1>1, <1>2

(* The invariant holds in every behaviour of MontyRuntime's table. *)
THEOREM InvariantHolds == Spec => []IInv
<1>1. QED
  BY InitIInv, NextIInv, PTL DEF Spec

(* Every state has the shape TypeOK gives it. *)
THEOREM TypeCorrect == Spec => []TypeOK
<1>1. IInv => TypeOK
  BY DEF IInv
<1>2. QED
  BY <1>1, InvariantHolds, PTL

(* However calls overlap and are cancelled, no table entry and no snapshot *)
(* shows a run that has not ended.                                         *)
THEOREM NoTornStateHolds == Spec => []NoTornState
<1>1. IInv => NoTornState
  <2>1. SUFFICES ASSUME IInv PROVE NoTornState
    OBVIOUS
  <2>2. \A c \in Clients : call[c].st \in {"exec", "put"} => Underway(c)
    BY <2>1 DEF IInv, CallsOK, Underway
  <2>3. \A e \in snaps : e.session # None
    BY <2>1, MontyAssumption DEF IInv, SnapsOK
  <2>4. QED
    BY <2>1, <2>2, <2>3 DEF IInv, Hidden, NoTornState, Unfinished, Mem
<1>2. QED
  BY <1>1, InvariantHolds, PTL

(* However calls overlap and are cancelled, no two sessions share the      *)
(* effects of a run that no snapshot showed.                               *)
THEOREM MovedNotCopiedHolds == Spec => []MovedNotCopied
<1>1. IInv => MovedNotCopied
  BY DEF IInv
<1>2. QED
  BY <1>1, InvariantHolds, PTL

--------------------------------------------------------------------------------
(* RunsPersist, for callers that take turns and cancel nothing. *)

(* A run that succeeded has left its token in the session it owns. *)
EffectsIn ==
    \A c \in Clients :
        call[c].st = "put" /\ call[c].res.tag = "ok" => call[c].tok \in Mem(owned[c])

(* A run that has ended well owns its effects until it puts them back. *)
LEMMA EffectsStep ==
    ASSUME IInv, EffectsIn, NEW c \in Clients, Step(c)
    PROVE  EffectsIn'
<1>1. call \in [Clients -> Call] /\ owned \in [Clients -> Session \cup {None}]
  BY DEF IInv, TypeOK
<1>2. CASE RunCode(c)
  <2>1. PICK tag \in {"ok", "error"}, session \in Session :
          /\ tag = "ok" => call[c].tok \in session.memory
          /\ owned' = [owned EXCEPT ![c] = session]
          /\ call' = [call EXCEPT ![c].st = "put", ![c].res = Reply(tag)]
    BY <1>2, RunCodeEnds
  <2>2. /\ \A d \in Clients : d # c => call'[d] = call[d] /\ owned'[d] = owned[d]
        /\ call'[c].tok = call[c].tok /\ call'[c].res.tag = tag /\ owned'[c] = session
    BY <1>1, <2>1 DEF Call, Reply
  <2>3. session # None
    BY MontyAssumption
  <2>4. QED
    BY <2>1, <2>2, <2>3 DEF EffectsIn, Mem
<1>3. CASE ~RunCode(c)
  <2>1. call'[c].st # "put"
    BY <1>1, <1>3 DEF Step, Serve, Invoke, CreateSession, RejectRun, TakeSession, PutSession,
       DestroySession, ListSessions, SnapshotSession, RestoreSession, Return, Drop, Answer,
       Call, IdleCall
  <2>2. \A d \in Clients : d # c => call'[d] = call[d] /\ owned'[d] = owned[d]
    BY <1>1, <1>3 DEF Step, Serve, Invoke, CreateSession, RejectRun, TakeSession, PutSession,
       DestroySession, ListSessions, SnapshotSession, RestoreSession, Return, Drop, Answer
  <2>3. QED
    BY <2>1, <2>2 DEF EffectsIn, Mem
<1>4. QED
  BY <1>2, <1>3

(* A call that is still to be served has its session for itself. *)
LEMMA AloneOnSession ==
    ASSUME IInv, Serial, NEW c \in Clients, call[c].st = "pending", call[c].req.op # "list"
    PROVE  InFlight(Subject(c)) = {}
BY DEF Serial, Overlap, InFlight

(* A run in flight is the only one on its session. *)
LEMMA OneRunInFlight ==
    ASSUME IInv, Serial, NEW c \in Clients, call[c].st \in {"exec", "put"}
    PROVE  InFlight(Subject(c)) = {c}
BY DEF Serial, Overlap, InFlight

(* A step that neither starts nor ends a run's hold of its session leaves  *)
(* the runs in flight as they are.                                         *)
LEMMA SameInFlight ==
    ASSUME NEW c \in Clients,
           \A d \in Clients : d # c => call'[d] = call[d],
           call[c].st \in {"exec", "put"} <=> call'[c].st \in {"exec", "put"},
           call[c].st \in {"exec", "put"} => call'[c].req = call[c].req
    PROVE  \A s \in SessionIds : InFlight(s)' = InFlight(s)
BY DEF InFlight, Subject

(* While callers take turns and cancel nothing, a step keeps every         *)
(* successful run.                                                         *)
LEMMA PersistStep ==
    ASSUME ~MayDrop, IInv, Serial, EffectsIn, RunsPersist, NEW c \in Clients, Step(c)
    PROVE  RunsPersist'
<1>0. PICK s : s = Subject(c)
  OBVIOUS
<1> USE <1>0
<1>1. /\ call \in [Clients -> Call]
      /\ sessions \in [SessionIds -> Session \cup {None}]
      /\ owned \in [Clients -> Session \cup {None}]
      /\ promised \in [SessionIds -> Memory]
  BY DEF IInv, TypeOK
<1>2. CASE Invoke(c)
  <2>1. \A r \in SessionIds : InFlight(r)' = InFlight(r)
    <3>1. /\ call[c].st = "idle" /\ call'[c].st = "pending"
          /\ \A d \in Clients : d # c => call'[d] = call[d]
      BY <1>1, <1>2 DEF Invoke
    <3>2. QED
      BY <3>1, SameInFlight
  <2>2. QED
    BY <1>2, <2>1 DEF Invoke, RunsPersist, Keeps
<1>3. CASE CreateSession(c)
  <2>1. call[c].st = "pending" /\ call[c].req.op = "create" /\ s \in SessionIds
    BY <1>3 DEF CreateSession, Pending, IInv, CallsOK, Subject, Target
  <2>2. InFlight(s) = {}
    BY <2>1, AloneOnSession
  <2>3. \A r \in SessionIds : InFlight(r)' = InFlight(r)
    BY <1>1, <1>3, <2>1, SameInFlight DEF CreateSession, Answer
  <2>4. promised[s] # {} => sessions' = sessions
    BY <1>3, <2>1, <2>2 DEF CreateSession, RunsPersist, Keeps
  <2>5. \A r \in SessionIds : r # s => sessions'[r] = sessions[r]
    BY <1>1, <1>3 DEF CreateSession
  <2>6. QED
    BY <1>3, <2>1, <2>3, <2>4, <2>5 DEF CreateSession, RunsPersist, Keeps
<1>4. CASE RejectRun(c) \/ ListSessions(c) \/ SnapshotSession(c)
  <2>1. /\ call[c].st = "pending" /\ call'[c].st = "replied"
        /\ \A d \in Clients : d # c => call'[d] = call[d]
        /\ UNCHANGED <<sessions, owned, promised>>
    <3>1. /\ call[c].st = "pending"
          /\ \E res : Answer(c, res)
          /\ UNCHANGED <<sessions, owned, promised>>
      <4>1. CASE RejectRun(c)
        BY <4>1 DEF RejectRun, Pending
      <4>2. CASE ListSessions(c)
        BY <4>2 DEF ListSessions, Pending
      <4>3. CASE SnapshotSession(c)
        BY <4>3 DEF SnapshotSession, Pending
      <4>4. QED
        BY <1>4, <4>1, <4>2, <4>3
    <3>2. PICK res : Answer(c, res)
      BY <3>1
    <3>3. QED
      BY <1>1, <3>1, <3>2 DEF Answer, Call
  <2>2. \A r \in SessionIds : InFlight(r)' = InFlight(r)
    BY <2>1, SameInFlight
  <2>3. QED
    BY <2>1, <2>2 DEF RunsPersist, Keeps
<1>5. CASE TakeSession(c)
  <2>1. call[c].st = "pending" /\ call[c].req.op = "run" /\ s \in SessionIds
    BY <1>5 DEF TakeSession, Pending, IInv, CallsOK, Subject, Target
  <2>2. InFlight(s) = {}
    BY <2>1, AloneOnSession
  <2>3. /\ call'[c].st = "exec" /\ call'[c].req = call[c].req
        /\ \A d \in Clients : d # c => call'[d] = call[d] /\ owned'[d] = owned[d]
        /\ owned'[c] = sessions[s]
        /\ \A r \in SessionIds : r # s => sessions'[r] = sessions[r]
        /\ promised' = promised
    BY <1>1, <1>5 DEF TakeSession
  <2>4. /\ InFlight(s)' = {c}
        /\ \A r \in SessionIds : r # s => InFlight(r)' = InFlight(r)
    BY <2>1, <2>2, <2>3 DEF InFlight, Subject
  <2>5. \A r \in SessionIds : c \notin InFlight(r)
    BY <2>1 DEF InFlight
  <2>6. QED
    <3>1. SUFFICES ASSUME NEW r \in SessionIds, promised'[r] # {}
                   PROVE  IF InFlight(r)' = {}
                          THEN Keeps(sessions'[r], promised'[r])
                          ELSE \E d \in InFlight(r)' : Keeps(owned'[d], promised'[r])
      BY DEF RunsPersist, Keeps
    <3>2. CASE r = s
      <4>1. Keeps(sessions[s], promised[s])
        BY <2>2, <2>3, <3>1, <3>2 DEF RunsPersist
      <4>2. QED
        BY <2>3, <2>4, <3>2, <4>1
    <3>3. CASE r # s
      <4>1. InFlight(r)' = InFlight(r)
        BY <2>4, <3>3
      <4>2. sessions'[r] = sessions[r] /\ promised'[r] = promised[r]
        BY <2>3, <3>3
      <4>3. \A d \in InFlight(r) : owned'[d] = owned[d]
        BY <2>3, <2>5 DEF InFlight
      <4>4. IF InFlight(r) = {}
            THEN Keeps(sessions[r], promised[r])
            ELSE \E d \in InFlight(r) : Keeps(owned[d], promised[r])
        BY <3>1, <4>2 DEF RunsPersist
      <4>5. QED
        BY <4>1, <4>2, <4>3, <4>4
    <3>4. QED
      BY <3>2, <3>3
<1>6. CASE RunCode(c)
  <2>1. PICK tag \in {"ok", "error"}, session \in Session :
          /\ Mem(owned[c]) \subseteq session.memory
          /\ owned' = [owned EXCEPT ![c] = session]
          /\ call' = [call EXCEPT ![c].st = "put", ![c].res = Reply(tag)]
          /\ session # None
    BY <1>6, RunCodeEnds, MontyAssumption
  <2>2. /\ call[c].st = "exec" /\ call'[c].st = "put" /\ call'[c].req = call[c].req
        /\ \A d \in Clients : d # c => call'[d] = call[d]
        /\ UNCHANGED <<sessions, promised>>
    <3>1. call[c].st = "exec" /\ UNCHANGED <<sessions, promised>>
      BY <1>6 DEF RunCode
    <3>2. QED
      BY <1>1, <2>1, <3>1 DEF Call
  <2>3. \A r \in SessionIds : InFlight(r)' = InFlight(r)
    BY <2>2, SameInFlight
  <2>4. /\ \A d \in Clients : d # c => owned'[d] = owned[d]
        /\ owned'[c] = session
    BY <1>1, <2>1
  <2>5. \A d \in Clients : \A tokens : Keeps(owned[d], tokens) => Keeps(owned'[d], tokens)
    BY <2>1, <2>4 DEF Keeps, Mem
  <2>6. QED
    BY <2>2, <2>3, <2>5 DEF RunsPersist, Keeps, InFlight
<1>7. CASE PutSession(c)
  <2>1. /\ call[c].st = "put" /\ s \in SessionIds /\ owned[c] # None
        /\ call[c].req.op = "run"
    BY <1>7 DEF PutSession, IInv, CallsOK, Subject, Target
  <2>2. InFlight(s) = {c}
    BY <2>1, OneRunInFlight
  <2>3. /\ call'[c].st = "replied"
        /\ \A d \in Clients : d # c => call'[d] = call[d] /\ owned'[d] = owned[d]
        /\ sessions'[s] = owned[c]
        /\ \A r \in SessionIds : r # s => sessions'[r] = sessions[r] /\ promised'[r] = promised[r]
        /\ promised'[s] = IF call[c].res.tag = "ok" THEN promised[s] \cup {call[c].tok}
                          ELSE promised[s]
    BY <1>1, <1>7, <2>1 DEF PutSession
  <2>4. InFlight(s)' = {} /\ \A r \in SessionIds : r # s => InFlight(r)' = InFlight(r)
    <3>1. c \notin InFlight(s)'
      BY <2>3 DEF InFlight
    <3>2. \A d \in Clients, r \in SessionIds : d # c => (d \in InFlight(r)' <=> d \in InFlight(r))
      BY <2>3 DEF InFlight, Subject
    <3>3. \A r \in SessionIds : r # s => c \notin InFlight(r) /\ c \notin InFlight(r)'
      BY <2>3 DEF InFlight
    <3>4. \A r \in SessionIds : InFlight(r) \subseteq Clients /\ InFlight(r)' \subseteq Clients
      BY DEF InFlight
    <3>5. QED
      BY <2>1, <2>2, <3>1, <3>2, <3>3, <3>4
  <2>5. \A r \in SessionIds : r # s => c \notin InFlight(r)
    BY DEF InFlight
  <2>6. call[c].res.tag = "ok" => call[c].tok \in owned[c].memory
    BY <1>7, <2>1 DEF EffectsIn, Mem
  <2>7. QED
    <3>1. SUFFICES ASSUME NEW r \in SessionIds, promised'[r] # {}
                   PROVE  IF InFlight(r)' = {}
                          THEN Keeps(sessions'[r], promised'[r])
                          ELSE \E d \in InFlight(r)' : Keeps(owned'[d], promised'[r])
      BY DEF RunsPersist, Keeps
    <3>2. CASE r = s
      <4>1. promised[s] \subseteq owned[c].memory
        BY <2>1, <2>2 DEF RunsPersist, Keeps
      <4>2. Keeps(owned[c], promised'[s])
        BY <2>1, <2>3, <2>6, <4>1 DEF Keeps
      <4>3. QED
        BY <2>3, <2>4, <3>2, <4>2
    <3>3. CASE r # s
      <4>1. InFlight(r)' = InFlight(r)
        BY <2>4, <3>3
      <4>2. sessions'[r] = sessions[r] /\ promised'[r] = promised[r]
        BY <2>3, <3>3
      <4>3. \A d \in InFlight(r) : owned'[d] = owned[d]
        BY <2>3, <2>5, <3>3 DEF InFlight
      <4>4. IF InFlight(r) = {}
            THEN Keeps(sessions[r], promised[r])
            ELSE \E d \in InFlight(r) : Keeps(owned[d], promised[r])
        BY <3>1, <4>2 DEF RunsPersist
      <4>5. QED
        BY <4>1, <4>2, <4>3, <4>4
    <3>4. QED
      BY <3>2, <3>3
<1>8. CASE DestroySession(c)
  <2>1. call[c].st = "pending" /\ call[c].req.op = "destroy" /\ s \in SessionIds
    BY <1>8 DEF DestroySession, Pending, IInv, CallsOK, Subject, Target
  <2>2. \A r \in SessionIds : InFlight(r)' = InFlight(r)
    BY <1>1, <1>8, <2>1, SameInFlight DEF DestroySession, Answer
  <2>3. /\ promised'[s] = {} /\ owned' = owned
        /\ \A r \in SessionIds : r # s => sessions'[r] = sessions[r] /\ promised'[r] = promised[r]
    BY <1>1, <1>8, <2>1 DEF DestroySession
  <2>4. QED
    BY <2>2, <2>3 DEF RunsPersist, Keeps
<1>9. CASE RestoreSession(c)
  <2> DEFINE e == call[c].req.snap
  <2>1. /\ call[c].st = "pending" /\ call[c].req.op = "restore"
        /\ e \in snaps \cup {BadEnvelope}
    BY <1>9 DEF RestoreSession, Pending, IInv, CallsOK
  <2>2. InFlight(s) = {}
    BY <2>1, AloneOnSession
  <2>3. \A r \in SessionIds : InFlight(r)' = InFlight(r)
    <3>1. call'[c].st = "replied" /\ \A d \in Clients : d # c => call'[d] = call[d]
      <4>1. PICK res : Answer(c, res)
        BY <1>9 DEF RestoreSession
      <4>2. QED
        BY <1>1, <4>1 DEF Answer, Call
    <3>2. QED
      BY <2>1, <3>1, SameInFlight
  <2>4. CASE e.good
    <3>1. e.session \in Session /\ e.session # None
      BY <2>1, <2>4, MontyAssumption DEF IInv, SnapsOK, BadEnvelope
    <3>2. /\ sessions' = [sessions EXCEPT ![s] = e.session]
          /\ promised' = [promised EXCEPT ![s] = e.session.memory]
          /\ owned' = owned
      BY <1>9, <2>4 DEF RestoreSession
    <3> HIDE DEF e
    <3>3. /\ s \in SessionIds => sessions'[s] = e.session /\ promised'[s] = e.session.memory
          /\ \A r \in SessionIds : r # s => sessions'[r] = sessions[r] /\ promised'[r] = promised[r]
      BY <1>1, <3>2
    <3>4. QED
      BY <2>2, <2>3, <3>1, <3>2, <3>3 DEF RunsPersist, Keeps
  <2>5. CASE ~e.good
    <3>1. UNCHANGED <<sessions, promised, owned>>
      BY <1>9, <2>5 DEF RestoreSession
    <3>2. QED
      BY <2>3, <3>1 DEF RunsPersist, Keeps
  <2>6. QED
    BY <2>4, <2>5
<1>10. CASE Return(c)
  <2>1. /\ call[c].st = "replied" /\ call'[c].st = "idle"
        /\ \A d \in Clients : d # c => call'[d] = call[d]
        /\ UNCHANGED <<sessions, owned, promised>>
    BY <1>1, <1>10 DEF Return, IdleCall
  <2>2. \A r \in SessionIds : InFlight(r)' = InFlight(r)
    BY <2>1, SameInFlight
  <2>3. QED
    BY <2>1, <2>2 DEF RunsPersist, Keeps
<1>11. QED
  BY <1>2, <1>3, <1>4, <1>5, <1>6, <1>7, <1>8, <1>9, <1>10 DEF Step, Serve, Drop

(* If callers take turns on a session and cancel no call, every run that   *)
(* was said to have succeeded stays in its session until the session is    *)
(* destroyed or replaced.                                                  *)
THEOREM RunsPersistHolds == ~MayDrop => (SerialSpec => []RunsPersist)
<1> DEFINE PInv == IInv /\ Serial /\ EffectsIn /\ RunsPersist
<1> SUFFICES ASSUME ~MayDrop PROVE SerialSpec => []RunsPersist
  OBVIOUS
<1>1. Init => PInv
  <2>1. SUFFICES ASSUME Init PROVE PInv
    OBVIOUS
  <2>2. IInv
    BY <2>1, InitIInv
  <2>3. \A c \in Clients : call[c].st = "idle"
    BY <2>1 DEF Init, IdleCall
  <2>4. Serial /\ EffectsIn /\ RunsPersist
    BY <2>1, <2>3 DEF Init, Serial, Overlap, EffectsIn, RunsPersist
  <2>5. QED
    BY <2>2, <2>4
<1>2. PInv /\ [Next /\ Serial']_vars => PInv'
  <2>1. SUFFICES ASSUME PInv, [Next /\ Serial']_vars PROVE PInv'
    OBVIOUS
  <2>2. IInv'
    BY <2>1, NextIInv
  <2>3. CASE Next /\ Serial'
    <3>1. PICK c \in Clients : Step(c)
      BY <2>3 DEF Next
    <3>2. EffectsIn' /\ RunsPersist'
      BY <2>1, <3>1, EffectsStep, PersistStep
    <3>3. QED
      BY <2>2, <2>3, <3>2
  <2>4. CASE UNCHANGED vars
    <3>1. Serial' /\ EffectsIn' /\ RunsPersist'
      BY <2>1, <2>4 DEF vars, Serial, Overlap, Subject, EffectsIn, Mem, RunsPersist, InFlight, Keeps
    <3>2. QED
      BY <2>2, <3>1
  <2>5. QED
    BY <2>1, <2>3, <2>4
<1>3. PInv => RunsPersist
  OBVIOUS
<1> HIDE DEF PInv
<1>4. QED
  BY <1>1, <1>2, <1>3, PTL DEF SerialSpec

--------------------------------------------------------------------------------
(***************************************************************************)
(* The table implements the abstract store                                 *)
(***************************************************************************)
(* A snapshot names the session it was taken of. *)
NamesOK == \A e \in snaps : e.sid \in SessionIds

LEMMA NamesStep ==
    ASSUME IInv, NamesOK, NEW c \in Clients, Step(c)
    PROVE  NamesOK'
<1>1. CASE SnapshotSession(c)
  <2>1. PICK s : s = Subject(c)
    OBVIOUS
  <2>2. s \in SessionIds
    BY <1>1, <2>1 DEF SnapshotSession, Pending, IInv, CallsOK, Subject, Target
  <2>3. snaps' \subseteq snaps \cup {[good |-> TRUE, sid |-> s, session |-> sessions[s]]}
    BY <1>1, <2>1 DEF SnapshotSession
  <2>4. QED
    BY <2>2, <2>3 DEF NamesOK
<1>2. CASE ~SnapshotSession(c)
  <2>1. snaps' = snaps
    BY <1>2 DEF Step, Serve, Invoke, CreateSession, RejectRun, TakeSession, RunCode, PutSession,
       DestroySession, ListSessions, RestoreSession, Return, Drop
  <2>2. QED
    BY <2>1 DEF NamesOK
<1>3. QED
  BY <1>1, <1>2

(* What the refinement mapping gives the store for its variables. *)
Live == {s \in SessionIds : StoredSession(s) # None}

Remembered ==
    [s \in SessionIds |-> IF StoredSession(s) = None THEN {} ELSE StoredSession(s).memory]

Calls == [c \in Clients |-> StoreCall(c)]

(* The initial states of the table are initial states of the store. *)
LEMMA StoreInit == Init => Store!Init
<1> SUFFICES ASSUME Init PROVE Store!Init
  OBVIOUS
<1>1. \A c \in Clients : call[c].st = "idle"
  BY DEF Init, IdleCall
<1>2. \A s \in SessionIds : StoredSession(s) = None
  BY <1>1 DEF Init, StoredSession, InFlight
<1>3. \A c \in Clients : StoreCall(c) = Store!IdleCall
  BY <1>1 DEF StoreCall, Store!IdleCall, NoReply, Reply, Store!NoReply, Store!Reply
<1>4. QED
  BY <1>2, <1>3 DEF Store!Init

(* A step that changes nothing the store sees is a stutter. *)
LEMMA StoreStutter ==
    ASSUME Live' = Live, Remembered' = Remembered, Calls' = Calls
    PROVE  [Store!Next]_(Store!vars)
BY DEF Store!vars, Live, Remembered, Calls

(* The store sees a session where it is: in the table, or with the only    *)
(* run that has it.                                                        *)
LEMMA StoredWhere ==
    ASSUME NEW s \in SessionIds
    PROVE  /\ InFlight(s) = {} => StoredSession(s) = sessions[s]
           /\ \A c : InFlight(s) = {c} => StoredSession(s) = owned[c]
<1>1. InFlight(s) = {} => StoredSession(s) = sessions[s]
  BY DEF StoredSession
<1>2. ASSUME NEW c, InFlight(s) = {c}
      PROVE  StoredSession(s) = owned[c]
  <2>1. (CHOOSE d \in InFlight(s) : TRUE) = c
    BY <1>2
  <2>2. QED
    BY <1>2, <2>1 DEF StoredSession
<1>3. QED
  BY <1>1, <1>2

(* It does not see what happens to other sessions. *)
LEMMA StoredLeft ==
    ASSUME NEW s \in SessionIds,
           InFlight(s)' = InFlight(s), sessions'[s] = sessions[s],
           \A c \in InFlight(s) : owned'[c] = owned[c]
    PROVE  StoredSession(s)' = StoredSession(s)
<1>1. CASE InFlight(s) = {}
  BY <1>1 DEF StoredSession
<1>2. CASE InFlight(s) # {}
  <2>1. PICK c : c = CHOOSE d \in InFlight(s) : TRUE
    OBVIOUS
  <2>2. c \in InFlight(s)
    BY <1>2, <2>1
  <2>3. StoredSession(s) = owned[c]
    BY <1>2, <2>1 DEF StoredSession
  <2>4. StoredSession(s)' = owned'[c]
    BY <1>2, <2>1 DEF StoredSession
  <2>5. QED
    BY <2>2, <2>3, <2>4
<1>3. QED
  BY <1>1, <1>2

(* A call is answered, or its code ends, and nothing else happens to calls. *)
Ended(c, res) ==
    /\ call[c].st \in {"pending", "exec"}
    /\ call'[c].st \in {"put", "replied"} /\ call'[c].res = res
    /\ call'[c].req = call[c].req /\ call'[c].tok = call[c].tok
    /\ \A d \in Clients \ {c} : call'[d] = call[d]

(* What the store sees of a call that is answered, or whose code ends. *)
LEMMA AnsweredCall ==
    ASSUME NEW c \in Clients, NEW res, Ended(c, res)
    PROVE  StoreCall(c)' = [StoreCall(c) EXCEPT !.st = "replied", !.res = res]
<1> DEFINE Record(st, op, sid, tok, arg, r) ==
      [st |-> st, op |-> op, sid |-> sid, tok |-> tok, arg |-> arg, res |-> r]
<1>1. Subject(c)' = Subject(c)
  BY DEF Subject, Ended
<1>2. StoreStage(call[c].st) = "pending" /\ StoreStage(call'[c].st) = "replied"
  BY DEF StoreStage, Ended
<1>3. PICK op, sid, tok, arg :
        /\ StoreCall(c) = Record("pending", op, sid, tok, arg, call[c].res)
        /\ StoreCall(c)' = Record("replied", op, sid, tok, arg, res)
  BY <1>1, <1>2 DEF StoreCall, Ended
<1>4. PICK old : old = call[c].res
  OBVIOUS
<1>5. [Record("pending", op, sid, tok, arg, old) EXCEPT !.st = "replied", !.res = res]
      = Record("replied", op, sid, tok, arg, res)
  <2>1. [Record("pending", op, sid, tok, arg, old) EXCEPT !.st = "replied"]
        = Record("replied", op, sid, tok, arg, old)
    OBVIOUS
  <2>2. [Record("replied", op, sid, tok, arg, old) EXCEPT !.res = res]
        = Record("replied", op, sid, tok, arg, res)
    OBVIOUS
  <2> HIDE DEF Record
  <2>3. QED
    BY <2>1, <2>2, Zenon
<1> HIDE DEF Record
<1>6. QED
  BY <1>3, <1>4, <1>5, Zenon

LEMMA AnswerEnds ==
    ASSUME IInv, NEW c \in Clients, call[c].st = "pending", NEW res, Answer(c, res)
    PROVE  Ended(c, res) /\ call'[c].st = "replied"
BY DEF Answer, Ended, IInv, TypeOK, Call

(* The store sees such a step as the answer to the call. *)
LEMMA AnswerMaps ==
    ASSUME NEW c \in Clients, NEW res, Ended(c, res)
    PROVE  Store!Answer(c, res)
<1>1. \A d \in Clients \ {c} : StoreCall(d)' = StoreCall(d)
  BY DEF StoreCall, Subject, Ended
<1>2. StoreCall(c)' = [StoreCall(c) EXCEPT !.st = "replied", !.res = res]
  BY AnsweredCall
<1>3. Calls' = [Calls EXCEPT ![c].st = "replied", ![c].res = res]
  BY <1>1, <1>2 DEF Calls
<1>4. QED
  BY <1>3 DEF Calls, Store!Answer

(* What the store sees of a call that waits or whose code executes. *)
LEMMA CallSeen ==
    ASSUME NEW c \in Clients, call[c].st \in {"pending", "exec"}
    PROVE  /\ Calls[c].st = "pending" /\ Calls[c].op = call[c].req.op
           /\ Calls[c].sid = Subject(c) /\ Calls[c].tok = call[c].tok
           /\ call[c].req.op = "restore" /\ call[c].req.snap.good =>
                Calls[c].arg = call[c].req.snap.session.memory
BY DEF Calls, StoreCall, StoreStage

(* A session is written, removed or left alone. *)
LEMMA SessionWritten ==
    ASSUME NEW s \in SessionIds, NEW x \in Session,
           \A t \in SessionIds : StoredSession(t)' = IF t = s THEN x ELSE StoredSession(t)
    PROVE  /\ Live' = Live \cup {s}
           /\ Remembered' = [Remembered EXCEPT ![s] = x.memory]
<1>1. x # None
  BY MontyAssumption
<1>2. Live' = Live \cup {s}
  BY <1>1 DEF Live
<1>3. Remembered' = [Remembered EXCEPT ![s] = x.memory]
  BY <1>1 DEF Remembered
<1>4. QED
  BY <1>2, <1>3

LEMMA SessionRemoved ==
    ASSUME NEW s \in SessionIds,
           \A t \in SessionIds : StoredSession(t)' = IF t = s THEN None ELSE StoredSession(t)
    PROVE  /\ Live' = Live \ {s}
           /\ Remembered' = [Remembered EXCEPT ![s] = {}]
BY DEF Live, Remembered

LEMMA SessionsLeft ==
    ASSUME \A t \in SessionIds : StoredSession(t)' = StoredSession(t)
    PROVE  Live' = Live /\ Remembered' = Remembered
BY DEF Live, Remembered

(* A call that is answered under the lock changes the store only where it  *)
(* changes the table.                                                      *)
LEMMA ServedStored ==
    ASSUME NEW c \in Clients, NEW res, Ended(c, res),
           call[c].st = "pending", call'[c].st = "replied", owned' = owned,
           NEW t \in SessionIds
    PROVE  /\ sessions'[t] = sessions[t] => StoredSession(t)' = StoredSession(t)
           /\ InFlight(t) = {} => /\ StoredSession(t)' = sessions'[t]
                                  /\ StoredSession(t) = sessions[t]
<1>1. InFlight(t)' = InFlight(t)
  BY SameInFlight DEF Ended
<1>2. ASSUME sessions'[t] = sessions[t]
      PROVE  StoredSession(t)' = StoredSession(t)
  BY <1>1, <1>2, StoredLeft
<1>3. ASSUME InFlight(t) = {}
      PROVE  /\ StoredSession(t)' = sessions'[t]
             /\ StoredSession(t) = sessions[t]
  BY <1>1, <1>3 DEF StoredSession
<1>4. QED
  BY <1>2, <1>3

(* A refusal that touches no session. *)
LEMMA StoreRefuses ==
    ASSUME IInv, NEW c \in Clients, call[c].st = "pending", Answer(c, Reply("error")),
           UNCHANGED <<sessions, owned>>
    PROVE  Store!Next
<1>1. Ended(c, Reply("error")) /\ call'[c].st = "replied"
  BY AnswerEnds
<1>2. Live' = Live /\ Remembered' = Remembered
  BY <1>1, ServedStored, SessionsLeft
<1>3. Calls[c].st = "pending" /\ Store!Answer(c, Reply("error"))
  BY <1>1, CallSeen, AnswerMaps
<1>4. Store!Refuse(c)
  BY <1>2, <1>3 DEF Store!Refuse, Store!Reply, Reply, Calls, Live, Remembered
<1>5. QED
  BY <1>4 DEF Store!Next

--------------------------------------------------------------------------------
(* One lemma per action: the step of the store it is, or the stutter. *)

LEMMA CreateImplements ==
    ASSUME IInv, Serial, NEW c \in Clients, CreateSession(c)
    PROVE  Store!Next
<1>0. PICK s : s = Subject(c)
  OBVIOUS
<1> USE <1>0
<1>1. /\ call[c].st = "pending" /\ call[c].req.op = "create" /\ s \in SessionIds
      /\ sessions \in [SessionIds -> Session \cup {None}]
      /\ owned' = owned
      /\ Ended(c, Reply("ok")) /\ call'[c].st = "replied"
  BY AnswerEnds DEF CreateSession, Pending, IInv, TypeOK, CallsOK, Subject, Target
<1>2. InFlight(s) = {}
  BY <1>1, AloneOnSession
<1>3. PICK limits \in LimitRecord :
        sessions' = IF sessions[s] = None
                    THEN [sessions EXCEPT ![s] = NewSession(limits)] ELSE sessions
  <2>1. call[c].req \in Request
    BY <1>1 DEF IInv, CallsOK
  <2>2. (IF call[c].req.limits = None THEN DefaultLimits ELSE call[c].req.limits) \in LimitRecord
    BY <2>1, MontyAssumption DEF Request
  <2>3. QED
    BY <2>2 DEF CreateSession
<1>4. PICK x : x = IF sessions[s] = None THEN NewSession(limits) ELSE sessions[s]
  OBVIOUS
<1>5. x \in Session
  BY <1>1, <1>4, NewSessionTyped
<1>6. \A t \in SessionIds : StoredSession(t)' = IF t = s THEN x ELSE StoredSession(t)
  <2>1. sessions'[s] = x /\ \A t \in SessionIds : t # s => sessions'[t] = sessions[t]
    BY <1>1, <1>3, <1>4
  <2>2. QED
    BY <1>1, <1>2, <2>1, ServedStored
<1>7. Live' = Live \cup {s} /\ Remembered' = [Remembered EXCEPT ![s] = x.memory]
  BY <1>1, <1>5, <1>6, SessionWritten
<1>8. x.memory = Remembered[s]
  <2>1. StoredSession(s) = sessions[s]
    BY <1>1, <1>2, StoredWhere
  <2>2. QED
    BY <1>1, <1>4, <2>1, NewSessionTyped DEF Remembered
<1>9. Calls[c].st = "pending" /\ Calls[c].op = "create" /\ Calls[c].sid = s
  BY <1>1, CallSeen
<1>10. Store!Answer(c, Reply("ok"))
  BY <1>1, AnswerMaps
<1>11. Store!Create(c)
  BY <1>7, <1>8, <1>9, <1>10
     DEF Store!Create, Store!Pending, Store!Write, Store!Reply, Reply, Calls, Live, Remembered
<1>12. QED
  BY <1>11 DEF Store!Next

LEMMA RejectImplements ==
    ASSUME IInv, NEW c \in Clients, RejectRun(c)
    PROVE  Store!Next
<1>1. /\ call[c].st = "pending" /\ call[c].req.op = "run"
      /\ UNCHANGED <<sessions, owned>>
      /\ Answer(c, Reply("error")) \/ Answer(c, Reply("validated"))
  BY DEF RejectRun, Pending
<1>2. CASE Answer(c, Reply("error"))
  BY <1>1, <1>2, StoreRefuses
<1>3. CASE Answer(c, Reply("validated"))
  <2>1. Ended(c, Reply("validated")) /\ call'[c].st = "replied"
    BY <1>1, <1>3, AnswerEnds
  <2>2. Live' = Live /\ Remembered' = Remembered
    BY <1>1, <2>1, ServedStored, SessionsLeft
  <2>3. Calls[c].st = "pending" /\ Calls[c].op = "run"
    BY <1>1, CallSeen
  <2>4. Store!Answer(c, Reply("validated"))
    BY <2>1, AnswerMaps
  <2>5. Store!Validate(c)
    BY <2>2, <2>3, <2>4
       DEF Store!Validate, Store!Pending, Store!Reply, Reply, Calls, Live, Remembered
  <2>6. QED
    BY <2>5 DEF Store!Next
<1>4. QED
  BY <1>1, <1>2, <1>3

LEMMA DestroyImplements ==
    ASSUME IInv, Serial, NEW c \in Clients, DestroySession(c)
    PROVE  Store!Next
<1>0. PICK s : s = Subject(c)
  OBVIOUS
<1> USE <1>0
<1>1. /\ call[c].st = "pending" /\ call[c].req.op = "destroy" /\ s \in SessionIds
      /\ sessions \in [SessionIds -> Session \cup {None}]
      /\ owned' = owned
      /\ sessions' = [sessions EXCEPT ![s] = None]
  BY DEF DestroySession, Pending, IInv, TypeOK, CallsOK, Subject, Target
<1>2. PICK tag : tag = IF sessions[s] = None THEN "absent" ELSE "removed"
  OBVIOUS
<1>3. Ended(c, Reply(tag)) /\ call'[c].st = "replied"
  <2>1. Answer(c, Reply(tag))
    BY <1>2 DEF DestroySession
  <2>2. QED
    BY <1>1, <2>1, AnswerEnds
<1>4. InFlight(s) = {}
  BY <1>1, AloneOnSession
<1>5. \A t \in SessionIds : StoredSession(t)' = IF t = s THEN None ELSE StoredSession(t)
  BY <1>1, <1>3, <1>4, ServedStored
<1>6. Live' = Live \ {s} /\ Remembered' = [Remembered EXCEPT ![s] = {}]
  BY <1>1, <1>5, SessionRemoved
<1>7. tag = IF s \in Live THEN "removed" ELSE "absent"
  BY <1>1, <1>2, <1>4, StoredWhere DEF Live
<1>8. Calls[c].st = "pending" /\ Calls[c].op = "destroy" /\ Calls[c].sid = s
  BY <1>1, CallSeen
<1>9. Store!Answer(c, Reply(tag))
  BY <1>3, AnswerMaps
<1>10. Store!Destroy(c)
  BY <1>6, <1>7, <1>8, <1>9
     DEF Store!Destroy, Store!Pending, Store!Reply, Reply, Calls, Live, Remembered
<1>11. QED
  BY <1>10 DEF Store!Next

LEMMA ListImplements ==
    ASSUME IInv, Serial, NEW c \in Clients, ListSessions(c)
    PROVE  Store!Next
<1>1. /\ call[c].st = "pending" /\ call[c].req.op = "list"
      /\ UNCHANGED <<sessions, owned>>
  BY DEF ListSessions, Pending
<1>2. \A t \in SessionIds : InFlight(t) = {}
  BY <1>1 DEF Serial, Overlap, InFlight
<1>3. Live = {s \in SessionIds : sessions[s] # None}
  BY <1>2, StoredWhere DEF Live
<1>4. PICK ids : ids = Live
  OBVIOUS
<1>5. Ended(c, ListReply(ids)) /\ call'[c].st = "replied"
  <2>1. Answer(c, ListReply(ids))
    BY <1>3, <1>4 DEF ListSessions
  <2>2. QED
    BY <1>1, <2>1, AnswerEnds
<1>6. Live' = Live /\ Remembered' = Remembered
  BY <1>1, <1>5, ServedStored, SessionsLeft
<1>7. Store!Answer(c, ListReply(ids)) /\ Calls[c].st = "pending" /\ Calls[c].op = "list"
  BY <1>1, <1>5, AnswerMaps, CallSeen
<1>8. Store!List(c)
  BY <1>4, <1>6, <1>7
     DEF Store!List, Store!Pending, Store!ListReply, ListReply, Calls, Live, Remembered
<1>9. QED
  BY <1>8 DEF Store!Next

LEMMA SnapshotImplements ==
    ASSUME IInv, Serial, NEW c \in Clients, SnapshotSession(c)
    PROVE  Store!Next
<1>0. PICK s : s = Subject(c)
  OBVIOUS
<1> USE <1>0
<1>1. /\ call[c].st = "pending" /\ call[c].req.op = "snapshot" /\ s \in SessionIds
      /\ UNCHANGED <<sessions, owned>>
  BY DEF SnapshotSession, Pending, IInv, CallsOK, Subject, Target
<1>2. CASE Answer(c, Reply("error"))
  BY <1>1, <1>2, StoreRefuses
<1> SUFFICES ASSUME ~Answer(c, Reply("error"))
             PROVE  Store!Next
  BY <1>2
<1> PICK res : res = IF sessions[s] = None THEN Reply("not_found")
                     ELSE SnapshotReply(sessions[s].memory)
  OBVIOUS
<1>3. Answer(c, res) /\ Ended(c, res) /\ call'[c].st = "replied"
  <2>1. Answer(c, res)
    BY DEF SnapshotSession
  <2>2. QED
    BY <1>1, <2>1, AnswerEnds
<1>4. StoredSession(s) = sessions[s]
  BY <1>1, AloneOnSession, StoredWhere
<1>5. res = IF s \in Live THEN SnapshotReply(Remembered[s]) ELSE Reply("not_found")
  BY <1>1, <1>4 DEF Live, Remembered
<1>6. Live' = Live /\ Remembered' = Remembered
  BY <1>1, <1>3, ServedStored, SessionsLeft
<1>7. Calls[c].st = "pending" /\ Calls[c].op = "snapshot" /\ Calls[c].sid = s
  BY <1>1, CallSeen
<1>8. Store!Answer(c, res)
  BY <1>3, AnswerMaps
<1>9. Store!Snapshot(c)
  BY <1>5, <1>6, <1>7, <1>8
     DEF Store!Snapshot, Store!Pending, Store!Reply, Reply, Store!SnapshotReply,
         SnapshotReply, Calls, Live, Remembered
<1>10. QED
  BY <1>9 DEF Store!Next

LEMMA RestoreImplements ==
    ASSUME IInv, NamesOK, Serial, NEW c \in Clients, RestoreSession(c)
    PROVE  Store!Next
<1>0. PICK s, e : s = Subject(c) /\ e = call[c].req.snap
  OBVIOUS
<1> USE <1>0
<1>1. /\ call[c].st = "pending" /\ call[c].req.op = "restore"
      /\ e \in snaps \cup {BadEnvelope}
      /\ call[c].req \in Request
      /\ sessions \in [SessionIds -> Session \cup {None}]
      /\ owned' = owned
  BY DEF RestoreSession, Pending, IInv, TypeOK, CallsOK
<1>2. CASE ~e.good
  <2>1. Answer(c, Reply("error")) /\ UNCHANGED sessions
    BY <1>2 DEF RestoreSession
  <2>2. QED
    BY <1>1, <2>1, StoreRefuses
<1>3. CASE e.good
  <2>1. /\ sessions' = [sessions EXCEPT ![s] = e.session]
        /\ Answer(c, Reply("ok"))
    BY <1>3 DEF RestoreSession
  <2>2. e \in snaps /\ e.session \in Session
    BY <1>1, <1>3 DEF IInv, SnapsOK, BadEnvelope
  <2>3. s \in SessionIds
    <3>1. call[c].req.sid \in SessionIds \cup {None} /\ e.sid \in SessionIds
      BY <1>1, <2>2 DEF Request, NamesOK
    <3>2. QED
      BY <1>1, <3>1 DEF Subject, Target
  <2>4. Ended(c, Reply("ok")) /\ call'[c].st = "replied"
    BY <1>1, <2>1, AnswerEnds
  <2>5. PICK x : x = e.session
    OBVIOUS
  <2>6. \A t \in SessionIds : StoredSession(t)' = IF t = s THEN x ELSE StoredSession(t)
    <3>1. sessions'[s] = x /\ \A t \in SessionIds : t # s => sessions'[t] = sessions[t]
      BY <1>1, <2>1, <2>3, <2>5
    <3>2. InFlight(s) = {}
      BY <1>1, AloneOnSession
    <3>3. QED
      BY <1>1, <2>4, <3>1, <3>2, ServedStored
  <2>7. Live' = Live \cup {s} /\ Remembered' = [Remembered EXCEPT ![s] = x.memory]
    BY <2>2, <2>3, <2>5, <2>6, SessionWritten
  <2>8. /\ Calls[c].st = "pending" /\ Calls[c].op = "restore" /\ Calls[c].sid = s
        /\ Calls[c].arg = x.memory
    BY <1>1, <1>3, <2>5, CallSeen
  <2>9. Store!Answer(c, Reply("ok"))
    BY <2>4, AnswerMaps
  <2>10. Store!Restore(c)
    BY <2>7, <2>8, <2>9
       DEF Store!Restore, Store!Pending, Store!Write, Store!Reply, Reply, Calls, Live, Remembered
  <2>11. QED
    BY <2>10 DEF Store!Next
<1>4. QED
  BY <1>2, <1>3

(* Taking a session out of the table for a run is not seen: from now on    *)
(* the store's session is the one the run has.                             *)
LEMMA TakeImplements ==
    ASSUME IInv, Serial, NEW c \in Clients, TakeSession(c)
    PROVE  [Store!Next]_(Store!vars)
<1>0. PICK s : s = Subject(c)
  OBVIOUS
<1> USE <1>0
<1>1. /\ call[c].st = "pending" /\ call[c].req.op = "run" /\ s \in SessionIds
      /\ call \in [Clients -> Call]
      /\ sessions \in [SessionIds -> Session \cup {None}]
      /\ owned \in [Clients -> Session \cup {None}]
  BY DEF TakeSession, Pending, IInv, TypeOK, CallsOK, Subject, Target
<1>2. /\ call'[c].st = "exec" /\ call'[c].req = call[c].req
      /\ call'[c].tok = call[c].tok /\ call'[c].res = call[c].res
      /\ \A d \in Clients \ {c} : call'[d] = call[d] /\ owned'[d] = owned[d]
      /\ owned'[c] = sessions[s]
      /\ \A t \in SessionIds : t # s => sessions'[t] = sessions[t]
  BY <1>1 DEF TakeSession, Call
<1>3. InFlight(s) = {} /\ \A t \in SessionIds : c \notin InFlight(t)
  BY <1>1, AloneOnSession DEF InFlight
<1>4. /\ InFlight(s)' = {c}
      /\ \A t \in SessionIds : t # s => InFlight(t)' = InFlight(t)
  BY <1>1, <1>2, <1>3 DEF InFlight, Subject
<1>5. ASSUME NEW t \in SessionIds
      PROVE  StoredSession(t)' = StoredSession(t)
  <2>1. CASE t = s
    <3>1. StoredSession(s) = sessions[s]
      BY <1>1, <1>3, StoredWhere
    <3>2. StoredSession(s)' = owned'[c]
      <4>1. (CHOOSE d \in InFlight(s)' : TRUE) = c
        BY <1>4
      <4>2. QED
        BY <1>4, <4>1 DEF StoredSession
    <3>3. QED
      BY <1>2, <2>1, <3>1, <3>2
  <2>2. CASE t # s
    <3>1. \A d \in InFlight(t) : owned'[d] = owned[d]
      BY <1>2, <1>3 DEF InFlight
    <3>2. QED
      BY <1>2, <1>4, <2>2, <3>1, StoredLeft
  <2>3. QED
    BY <2>1, <2>2
<1>6. Calls' = Calls
  <2>1. StoreCall(c)' = StoreCall(c)
    BY <1>1, <1>2 DEF StoreCall, StoreStage, Subject
  <2>2. \A d \in Clients \ {c} : StoreCall(d)' = StoreCall(d)
    BY <1>2 DEF StoreCall, Subject
  <2>3. QED
    BY <2>1, <2>2 DEF Calls
<1>7. QED
  BY <1>5, <1>6, SessionsLeft, StoreStutter

(* The end of a run's code is its moment: the store's session has its      *)
(* effects, and the run its answer.                                        *)
LEMMA RunImplements ==
    ASSUME IInv, Serial, NEW c \in Clients, RunCode(c)
    PROVE  Store!Next
<1>0. PICK s : s = Subject(c)
  OBVIOUS
<1> USE <1>0
<1>1. /\ call[c].st = "exec" /\ call[c].req.op = "run" /\ s \in SessionIds
      /\ call \in [Clients -> Call]
      /\ owned \in [Clients -> Session \cup {None}]
      /\ sessions' = sessions
  BY DEF RunCode, IInv, TypeOK, CallsOK, Subject, Target
<1>2. PICK tag \in {"ok", "error"}, x \in Session :
        /\ x.memory \in {Mem(owned[c]), Mem(owned[c]) \cup {call[c].tok}}
        /\ tag = "ok" => call[c].tok \in x.memory
        /\ owned' = [owned EXCEPT ![c] = x]
        /\ call' = [call EXCEPT ![c].st = "put", ![c].res = Reply(tag)]
  BY RunCodeEnds
<1>3. Ended(c, Reply(tag)) /\ call'[c].st = "put"
  BY <1>1, <1>2 DEF Ended, Call
<1>4. InFlight(s) = {c} /\ \A t \in SessionIds : t # s => c \notin InFlight(t)
  BY <1>1, OneRunInFlight DEF InFlight
<1>5. \A t \in SessionIds : InFlight(t)' = InFlight(t)
  BY <1>1, <1>3, SameInFlight DEF Ended
<1>6. ASSUME NEW t \in SessionIds
      PROVE  StoredSession(t)' = IF t = s THEN x ELSE StoredSession(t)
  <2>1. CASE t = s
    <3>1. StoredSession(s)' = owned'[c]
      <4>1. (CHOOSE d \in InFlight(s)' : TRUE) = c /\ InFlight(s)' # {}
        BY <1>1, <1>4, <1>5
      <4>2. QED
        BY <4>1 DEF StoredSession
    <3>2. QED
      BY <1>1, <1>2, <2>1, <3>1
  <2>2. CASE t # s
    <3>1. \A d \in InFlight(t) : owned'[d] = owned[d]
      BY <1>1, <1>2, <1>4, <2>2 DEF InFlight
    <3>2. QED
      BY <1>1, <1>5, <2>2, <3>1, StoredLeft
  <2>3. QED
    BY <2>1, <2>2
<1>7. Live' = Live \cup {s} /\ Remembered' = [Remembered EXCEPT ![s] = x.memory]
  BY <1>1, <1>2, <1>6, SessionWritten
<1>8. Mem(owned[c]) = Remembered[s]
  BY <1>1, <1>4, StoredWhere DEF Mem, Remembered
<1>9. /\ Calls[c].st = "pending" /\ Calls[c].op = "run" /\ Calls[c].sid = s
      /\ Calls[c].tok = call[c].tok
  BY <1>1, CallSeen
<1>10. Store!Answer(c, Reply(tag))
  BY <1>3, AnswerMaps
<1>11. \/ x.memory = Remembered[s] \cup {call[c].tok}
       \/ x.memory = Remembered[s] /\ tag = "error"
  BY <1>2, <1>8
<1>12. Store!Run(c)
  BY <1>7, <1>9, <1>10, <1>11
     DEF Store!Run, Store!Pending, Store!Write, Store!Reply, Reply, Calls, Live, Remembered
<1>13. QED
  BY <1>12 DEF Store!Next

(* Putting the session back is not seen: the store has it already. *)
LEMMA PutImplements ==
    ASSUME IInv, Serial, NEW c \in Clients, PutSession(c)
    PROVE  [Store!Next]_(Store!vars)
<1>0. PICK s : s = Subject(c)
  OBVIOUS
<1> USE <1>0
<1>1. /\ call[c].st = "put" /\ call[c].req.op = "run" /\ s \in SessionIds
      /\ call \in [Clients -> Call]
      /\ sessions \in [SessionIds -> Session \cup {None}]
      /\ owned \in [Clients -> Session \cup {None}]
  BY DEF PutSession, IInv, TypeOK, CallsOK, Subject, Target
<1>2. /\ call'[c].st = "replied" /\ call'[c].req = call[c].req
      /\ call'[c].tok = call[c].tok /\ call'[c].res = call[c].res
      /\ \A d \in Clients \ {c} : call'[d] = call[d] /\ owned'[d] = owned[d]
      /\ sessions'[s] = owned[c]
      /\ \A t \in SessionIds : t # s => sessions'[t] = sessions[t]
  BY <1>1 DEF PutSession, Call
<1>3. InFlight(s) = {c} /\ \A t \in SessionIds : t # s => c \notin InFlight(t)
  BY <1>1, OneRunInFlight DEF InFlight
<1>4. InFlight(s)' = {} /\ \A t \in SessionIds : t # s => InFlight(t)' = InFlight(t)
  <2>1. \A t \in SessionIds : c \notin InFlight(t)' /\ InFlight(t)' \subseteq Clients
    BY <1>2 DEF InFlight
  <2>2. \A d \in Clients \ {c}, t \in SessionIds : d \in InFlight(t)' <=> d \in InFlight(t)
    BY <1>2 DEF InFlight, Subject
  <2>3. \A t \in SessionIds : InFlight(t) \subseteq Clients
    BY DEF InFlight
  <2>4. \A d \in Clients : d \in InFlight(s) => d = c
    BY <1>3
  <2>5. InFlight(s)' = {}
    BY <1>1, <2>1, <2>2, <2>4
  <2>6. \A t \in SessionIds : t # s => InFlight(t)' = InFlight(t)
    <3>1. SUFFICES ASSUME NEW t \in SessionIds, t # s PROVE InFlight(t)' = InFlight(t)
      OBVIOUS
    <3>2. \A d \in Clients : d \in InFlight(t)' <=> d \in InFlight(t)
      BY <1>3, <2>1, <2>2, <3>1
    <3>3. QED
      BY <2>1, <2>3, <3>2
  <2>7. QED
    BY <2>5, <2>6
<1>5. ASSUME NEW t \in SessionIds
      PROVE  StoredSession(t)' = StoredSession(t)
  <2>1. CASE t = s
    <3>1. StoredSession(s) = owned[c]
      BY <1>1, <1>3, StoredWhere
    <3>2. StoredSession(s)' = sessions'[s]
      BY <1>4 DEF StoredSession
    <3>3. QED
      BY <1>2, <2>1, <3>1, <3>2
  <2>2. CASE t # s
    <3>1. \A d \in InFlight(t) : owned'[d] = owned[d]
      BY <1>2, <1>3, <2>2 DEF InFlight
    <3>2. QED
      BY <1>2, <1>4, <2>2, <3>1, StoredLeft
  <2>3. QED
    BY <2>1, <2>2
<1>6. Calls' = Calls
  <2>1. StoreCall(c)' = StoreCall(c)
    BY <1>1, <1>2 DEF StoreCall, StoreStage, Subject
  <2>2. \A d \in Clients \ {c} : StoreCall(d)' = StoreCall(d)
    BY <1>2 DEF StoreCall, Subject
  <2>3. QED
    BY <2>1, <2>2 DEF Calls
<1>7. QED
  BY <1>5, <1>6, SessionsLeft, StoreStutter

(* A call that is made, or given back, has no session in hand. *)
LEMMA OtherCallsSeen ==
    ASSUME NEW c \in Clients,
           call[c].st \notin {"exec", "put"}, call'[c].st \notin {"exec", "put"},
           \A d \in Clients \ {c} : call'[d] = call[d],
           UNCHANGED <<sessions, owned>>
    PROVE  /\ Live' = Live /\ Remembered' = Remembered
           /\ Calls' = [Calls EXCEPT ![c] = Calls'[c]]
<1>1. \A s \in SessionIds : InFlight(s)' = InFlight(s)
  BY DEF InFlight, Subject
<1>2. \A s \in SessionIds : StoredSession(s)' = StoredSession(s)
  BY <1>1, StoredLeft
<1>3. \A d \in Clients \ {c} : StoreCall(d)' = StoreCall(d)
  BY DEF StoreCall, Subject
<1>4. Calls' = [Calls EXCEPT ![c] = Calls'[c]]
  BY <1>3 DEF Calls
<1>5. QED
  BY <1>2, <1>4, SessionsLeft

LEMMA InvokeImplements ==
    ASSUME IInv, NEW c \in Clients, Invoke(c)
    PROVE  Store!Next
<1>1. /\ call \in [Clients -> Call] /\ call[c].st = "idle"
      /\ UNCHANGED <<sessions, owned>>
      /\ \A d \in Clients \ {c} : call'[d] = call[d]
      /\ call'[c].st = "pending" /\ call'[c].res = NoReply
  BY DEF Invoke, IInv, TypeOK
<1>2. /\ Live' = Live /\ Remembered' = Remembered
      /\ Calls' = [Calls EXCEPT ![c] = Calls'[c]]
  BY <1>1, OtherCallsSeen
<1>3. Calls[c].st = "idle"
  BY <1>1 DEF Calls, StoreCall
<1>4. Calls'[c].st = "pending" /\ Calls'[c].res = NoReply
  BY <1>1 DEF Calls, StoreCall, StoreStage
<1>5. Store!Invoke(c)
  BY <1>2, <1>3, <1>4
     DEF Store!Invoke, Store!NoReply, NoReply, Store!Reply, Reply, Calls, Live, Remembered
<1>6. QED
  BY <1>5 DEF Store!Next

LEMMA ReturnImplements ==
    ASSUME IInv, NEW c \in Clients, Return(c)
    PROVE  Store!Next
<1>1. /\ call \in [Clients -> Call] /\ call[c].st = "replied"
      /\ UNCHANGED <<sessions, owned>>
      /\ \A d \in Clients \ {c} : call'[d] = call[d]
      /\ call'[c].st = "idle"
  BY DEF Return, IdleCall, IInv, TypeOK
<1>2. /\ Live' = Live /\ Remembered' = Remembered
      /\ Calls' = [Calls EXCEPT ![c] = Calls'[c]]
  BY <1>1, OtherCallsSeen
<1>3. Calls[c].st = "replied"
  BY <1>1 DEF Calls, StoreCall, StoreStage
<1>4. Calls'[c] = Store!IdleCall
  BY <1>1 DEF Calls, StoreCall, Store!IdleCall, NoReply, Reply, Store!NoReply, Store!Reply
<1>5. Store!Return(c)
  BY <1>2, <1>3, <1>4 DEF Store!Return, Calls, Live, Remembered
<1>6. QED
  BY <1>5 DEF Store!Next

(* A step of callers that take turns and cancel nothing is a step of the   *)
(* store, or nothing it can see.                                           *)
LEMMA StepImplements ==
    ASSUME ~MayDrop, IInv, NamesOK, Serial, NEW c \in Clients, Step(c)
    PROVE  [Store!Next]_(Store!vars)
<1>1. CASE Invoke(c) \/ Return(c)
  BY <1>1, InvokeImplements, ReturnImplements
<1>2. CASE CreateSession(c) \/ RejectRun(c) \/ DestroySession(c)
  BY <1>2, CreateImplements, RejectImplements, DestroyImplements
<1>3. CASE ListSessions(c) \/ SnapshotSession(c) \/ RestoreSession(c)
  BY <1>3, ListImplements, SnapshotImplements, RestoreImplements
<1>4. CASE TakeSession(c) \/ PutSession(c)
  BY <1>4, TakeImplements, PutImplements
<1>5. CASE RunCode(c)
  BY <1>5, RunImplements
<1>6. QED
  BY <1>1, <1>2, <1>3, <1>4, <1>5 DEF Step, Serve, Drop

(* If callers take turns on a session, do not list meanwhile and cancel no *)
(* call, the table implements the abstract store: what they see is a store *)
(* in which every call takes effect at once, although a run takes its      *)
(* session out of the table and puts it back later.                        *)
THEOREM ImplementsStoreHolds == ~MayDrop => (SerialSpec => ImplementsStore)
<1> DEFINE SInv == IInv /\ NamesOK /\ Serial
<1> SUFFICES ASSUME ~MayDrop PROVE SerialSpec => ImplementsStore
  OBVIOUS
<1>1. Init => SInv
  <2>1. SUFFICES ASSUME Init PROVE SInv
    OBVIOUS
  <2>2. IInv
    BY <2>1, InitIInv
  <2>3. \A c \in Clients : call[c].st = "idle"
    BY <2>1 DEF Init, IdleCall
  <2>4. NamesOK /\ Serial
    BY <2>1, <2>3 DEF Init, NamesOK, Serial, Overlap
  <2>5. QED
    BY <2>2, <2>4
<1>2. SInv /\ [Next /\ Serial']_vars => SInv'
  <2>1. SUFFICES ASSUME SInv, [Next /\ Serial']_vars PROVE SInv'
    OBVIOUS
  <2>2. IInv'
    BY <2>1, NextIInv
  <2>3. CASE Next /\ Serial'
    BY <2>1, <2>2, <2>3, NamesStep DEF Next
  <2>4. CASE UNCHANGED vars
    <3>1. NamesOK' /\ Serial'
      BY <2>1, <2>4 DEF vars, NamesOK, Serial, Overlap, Subject
    <3>2. QED
      BY <2>2, <3>1
  <2>5. QED
    BY <2>1, <2>3, <2>4
<1>3. SInv /\ [Next /\ Serial']_vars => [Store!Next]_(Store!vars)
  <2>1. SUFFICES ASSUME SInv, [Next /\ Serial']_vars PROVE [Store!Next]_(Store!vars)
    OBVIOUS
  <2>2. CASE Next /\ Serial'
    BY <2>1, <2>2, StepImplements DEF Next
  <2>3. CASE UNCHANGED vars
    <3>1. \A t \in SessionIds : StoredSession(t)' = StoredSession(t)
      <4>1. \A t \in SessionIds : InFlight(t)' = InFlight(t)
        BY <2>3 DEF vars, InFlight, Subject
      <4>2. QED
        BY <2>3, <4>1, StoredLeft DEF vars
    <3>2. Calls' = Calls
      BY <2>3 DEF vars, Calls, StoreCall, Subject
    <3>3. QED
      BY <3>1, <3>2, SessionsLeft, StoreStutter
  <2>4. QED
    BY <2>1, <2>2, <2>3
<1> HIDE DEF SInv
<1>4. QED
  BY <1>1, <1>2, <1>3, StoreInit, PTL DEF SerialSpec, ImplementsStore, Store!Spec

================================================================================
