----------------------------- MODULE SdkStore_proof ----------------------------
(***************************************************************************)
(* Proof that the SDK, behind either front, uses the TypeScript runtime as *)
(* the abstract store of sessions that the runtime implements.             *)
(***************************************************************************)
EXTENDS Daemon_proof

(* What the runtime has answered to a call that is not over is behind it:  *)
(* the SDK asks each runtime once.                                         *)
ToldOK(c) ==
    told[c] # NoReply =>
        /\ call[c].at # "idle"
        /\ call[c].at \in {"ask", "taken"} =>
             \E i \in DOMAIN runtimes : i < call[c].next /\ runtimes[i] = "typescript"

StoreInv == IInv /\ \A c \in Clients : ToldOK(c)

(* The variables of the store under the refinement mapping. *)
Live == Sessions("typescript")

Remembered == [s \in Ids |-> Before(table["typescript"][s])]

Calls == [c \in Clients |-> RuntimeCall(c)]

(* The call of c as the store has it. *)
Open(c) == call[c].at = "ask" /\ Asked(c) = "typescript"

Record(c, st, res) ==
    [st |-> st, op |-> IF call[c].op = "snapshot_with" THEN "snapshot" ELSE call[c].op,
     sid |-> Subject(c), tok |-> call[c].tok, res |-> res,
     arg |-> IF call[c].op = "restore" THEN call[c].snap.memory ELSE {}]

Nothing == [st |-> "idle", op |-> None, sid |-> None, tok |-> None, arg |-> {}, res |-> NoReply]

LEMMA NothingIsIdle == TypeScript!IdleCall = Nothing
BY DEF TypeScript!IdleCall, Nothing, NoReply, Reply, TypeScript!NoReply, TypeScript!Reply

LEMMA CallSeen ==
    ASSUME NEW c
    PROVE  /\ Open(c) /\ Alive(c) => RuntimeCall(c) = Record(c, "pending", NoReply)
           /\ Open(c) /\ ~Alive(c) => RuntimeCall(c) = Record(c, "replied", Reply("error"))
           /\ ~Open(c) /\ told[c] # NoReply => RuntimeCall(c) = Record(c, "replied", told[c])
           /\ ~Open(c) /\ told[c] = NoReply => RuntimeCall(c) = Nothing
BY DEF RuntimeCall, Open, Record, Nothing

LEMMA StoreInit == Init => TypeScript!Init
<1> SUFFICES ASSUME Init PROVE TypeScript!Init
  OBVIOUS
<1>1. Sessions("typescript") = {} /\ \A s \in Ids : Before(table["typescript"][s]) = {}
  BY DEF Init, Sessions, Before, Languages
<1>2. ASSUME NEW c \in Clients PROVE RuntimeCall(c) = TypeScript!IdleCall
  <2>1. ~Open(c) /\ told[c] = NoReply
    BY DEF Init, NoCall, Open
  <2>2. QED
    BY <2>1, CallSeen, NothingIsIdle
<1>3. QED
  BY <1>1, <1>2 DEF TypeScript!Init

(* A step that changes nothing the store sees is a stutter. *)
LEMMA StoreStutter ==
    ASSUME Live' = Live, Remembered' = Remembered, Calls' = Calls
    PROVE  [TypeScript!Next]_(TypeScript!vars)
BY DEF TypeScript!vars, Live, Remembered, Calls

LEMMA TableSeen ==
    ASSUME table'["typescript"] = table["typescript"]
    PROVE  Live' = Live /\ Remembered' = Remembered
<1>1. PICK sessions : sessions = table["typescript"] /\ sessions = table'["typescript"]
  OBVIOUS
<1>2. Live' = Live
  BY <1>1 DEF Live, Sessions
<1>3. Remembered' = Remembered
  BY <1>1 DEF Remembered, Before
<1>4. QED
  BY <1>2, <1>3

(* A session is written, or taken away. *)
LEMMA TableWritten ==
    ASSUME TypeOK, NEW s \in Ids, NEW globals \in Globals \cup {None},
           table' = [table EXCEPT !["typescript"][s] = globals]
    PROVE  /\ Live' = IF globals = None THEN Live \ {s} ELSE Live \cup {s}
           /\ Remembered' = [Remembered EXCEPT ![s] = Before(globals)]
<1>1. PICK sessions : sessions = table["typescript"] /\ sessions \in [Ids -> Globals \cup {None}]
  BY DEF TypeOK, Languages
<1>2. table'["typescript"] = [sessions EXCEPT ![s] = globals]
  BY <1>1 DEF TypeOK, Languages
<1>3. \A r \in Ids : table'["typescript"][r] = IF r = s THEN globals ELSE sessions[r]
  BY <1>1, <1>2
<1>4. Live = {r \in Ids : sessions[r] # None} /\ Remembered = [r \in Ids |-> Before(sessions[r])]
  BY <1>1 DEF Live, Sessions, Remembered
<1>5. Live' = {r \in Ids : table'["typescript"][r] # None}
  BY DEF Live, Sessions
<1>6. Live' = IF globals = None THEN Live \ {s} ELSE Live \cup {s}
  BY <1>3, <1>4, <1>5
<1>7. Remembered' = [r \in Ids |-> Before(IF r = s THEN globals ELSE sessions[r])]
  BY <1>3 DEF Remembered, Before
<1>8. Remembered' = [Remembered EXCEPT ![s] = Before(globals)]
  BY <1>4, <1>7
<1>9. QED
  BY <1>6, <1>8

--------------------------------------------------------------------------------
(* The calls that c leaves alone *)
LEMMA OtherSeen ==
    ASSUME NEW d, call'[d] = call[d], told'[d] = told[d], UNCHANGED <<runtimes, dead>>
    PROVE  RuntimeCall(d)' = RuntimeCall(d)
BY DEF RuntimeCall, Asked, Alive, Subject

LEMMA CallsSeen ==
    ASSUME NEW c \in Clients, NEW it, RuntimeCall(c)' = it,
           \A d \in Clients \ {c} : RuntimeCall(d)' = RuntimeCall(d)
    PROVE  Calls' = [Calls EXCEPT ![c] = it]
BY DEF Calls

(* An answer changes the state and the result of its call, nothing else. *)
LEMMA RecordKept ==
    ASSUME NEW c, Aside(c), NEW st, NEW res
    PROVE  Record(c, st, res)' = Record(c, st, res)
BY DEF Aside, Record, Subject

LEMMA RecordAnswered ==
    ASSUME NEW c, NEW res
    PROVE  [Record(c, "pending", NoReply) EXCEPT !.st = "replied", !.res = res]
           = Record(c, "replied", res)
<1> DEFINE Row(st, op, sid, tok, r, arg) ==
      [st |-> st, op |-> op, sid |-> sid, tok |-> tok, res |-> r, arg |-> arg]
<1>1. PICK op, sid, tok, arg :
        \A st, r : Record(c, st, r) = Row(st, op, sid, tok, r, arg)
  BY DEF Record
<1>2. PICK none : none = NoReply
  OBVIOUS
<1>3. [Row("pending", op, sid, tok, none, arg) EXCEPT !.st = "replied"]
      = Row("replied", op, sid, tok, none, arg)
  OBVIOUS
<1>4. [Row("replied", op, sid, tok, none, arg) EXCEPT !.res = res]
      = Row("replied", op, sid, tok, res, arg)
  OBVIOUS
<1> HIDE DEF Row
<1>5. [Row("pending", op, sid, tok, none, arg) EXCEPT !.st = "replied", !.res = res]
      = Row("replied", op, sid, tok, res, arg)
  BY <1>3, <1>4, Zenon
<1>6. QED
  BY <1>1, <1>2, <1>5, Zenon

--------------------------------------------------------------------------------
(* What the SDK does with an answer: it turns to the next runtime or tells *)
(* its caller, unless the call is a Python run that begins.                *)
Proceeds(c) ==
    /\ Aside(c) /\ UNCHANGED <<runtimes, dead>>
    /\ \A d \in Clients \ {c} : told'[d] = told[d]
    /\ \/ call'[c].at = "replied"
       \/ /\ call'[c].at = "ask" /\ call'[c].next = call[c].next + 1
          /\ call'[c].next \in DOMAIN runtimes
       \/ /\ call'[c].at = "taken" /\ call'[c].next = call[c].next
          /\ Asked(c) = "python"

(* The TypeScript runtime answers c. *)
Answering(c, res) ==
    /\ call[c].at = "ask" /\ Asked(c) = "typescript"
    /\ res \in AllTold /\ res.tag # "none" /\ told'[c] = res

(* Another runtime does, and TypeScript's sessions are as they were. *)
Elsewhere(c) ==
    /\ call[c].at \in {"ask", "taken"} /\ Asked(c) # "typescript"
    /\ told' = told /\ table'["typescript"] = table["typescript"]

LEMMA NextAsked ==
    ASSUME IInv, NEW c \in Clients, call[c].at \in {"ask", "taken"}, Proceeds(c), Open(c)',
           NEW i \in DOMAIN runtimes, i <= call[c].next, runtimes[i] = "typescript"
    PROVE  FALSE
<1>1. RuntimesTyped /\ call[c].next \in DOMAIN runtimes
  BY AskedFacts, TypeParts DEF IInv
<1>2. PICK next \in DOMAIN runtimes : next = call[c].next
  BY <1>1
<1>3. call'[c].at = "ask" /\ call'[c].next = next + 1 /\ next + 1 \in DOMAIN runtimes
  BY <1>2 DEF Open, Proceeds
<1>4. runtimes[next + 1] = "typescript"
  BY <1>3 DEF Open, Asked, Proceeds
<1>5. i \in Nat /\ next \in Nat
  BY <1>1 DEF RuntimesTyped
<1>6. i = next + 1
  BY <1>1, <1>3, <1>4 DEF RuntimesTyped
<1>7. QED
  BY <1>2, <1>5, <1>6

LEMMA ClosedSeen ==
    ASSUME NEW c, NEW res, ~Open(c)', told'[c] = res, res # NoReply, Aside(c)
    PROVE  RuntimeCall(c)' = Record(c, "replied", res)
BY DEF RuntimeCall, Open, Record, Aside, Subject

LEMMA OthersSeen ==
    ASSUME NEW c \in Clients, Proceeds(c)
    PROVE  \A d \in Clients \ {c} : RuntimeCall(d)' = RuntimeCall(d)
BY OtherSeen DEF Proceeds, Aside

(* The answer of a runtime that lives is the store's answer, and that of   *)
(* one that is gone has been seen before.                                  *)
LEMMA AnswerSeen ==
    ASSUME IInv, NEW c \in Clients, NEW res, Proceeds(c), Answering(c, res)
    PROVE  /\ Alive(c) => /\ Calls[c] = Record(c, "pending", NoReply)
                          /\ TypeScript!Answer(c, res)
           /\ ~Alive(c) /\ res = Reply("error") => Calls' = Calls
<1>1. call[c].at = "ask" /\ Asked(c) = "typescript" /\ told'[c] = res
  BY DEF Answering
<1>2. res # NoReply
  BY DEF Answering, NoReply, Reply
<1>3. ~Open(c)'
  <2>1. call[c].next \in DOMAIN runtimes /\ runtimes[call[c].next] = "typescript"
    BY <1>1 DEF IInv, TypeOK, Asked
  <2>2. call[c].next <= call[c].next
    BY DEF IInv, TypeOK, Call
  <2>3. QED
    BY <1>1, <2>1, <2>2, NextAsked
<1>4. RuntimeCall(c)' = Record(c, "replied", res)
  BY <1>1, <1>2, <1>3, ClosedSeen DEF Proceeds
<1>5. Calls' = [Calls EXCEPT ![c] = Record(c, "replied", res)]
  BY <1>4, OthersSeen, CallsSeen
<1>6. Open(c) /\ Calls[c] = RuntimeCall(c)
  BY <1>1 DEF Open, Calls
<1>7. ASSUME Alive(c)
      PROVE  Calls[c] = Record(c, "pending", NoReply) /\ TypeScript!Answer(c, res)
  <2>1. Calls[c] = Record(c, "pending", NoReply)
    BY <1>6, <1>7, CallSeen
  <2>2. [Calls[c] EXCEPT !.st = "replied", !.res = res] = Record(c, "replied", res)
    BY <2>1, RecordAnswered
  <2>3. Calls' = [Calls EXCEPT ![c] = [Calls[c] EXCEPT !.st = "replied", !.res = res]]
    BY <1>5, <2>2
  <2>4. QED
    BY <2>1, <2>3 DEF TypeScript!Answer, Calls
<1>8. ASSUME ~Alive(c), res = Reply("error")
      PROVE  Calls' = Calls
  <2>1. Calls[c] = Record(c, "replied", res)
    BY <1>6, <1>8, CallSeen
  <2>2. QED
    BY <1>5, <2>1 DEF Calls
<1>9. QED
  BY <1>7, <1>8

(* A call comes to the runtime. *)
LEMMA InvokeSeen ==
    ASSUME NEW c \in Clients, RuntimeCall(c) = Nothing, told'[c] = NoReply,
           \A d \in Clients \ {c} : RuntimeCall(d)' = RuntimeCall(d),
           table'["typescript"] = table["typescript"]
    PROVE  [TypeScript!Next]_(TypeScript!vars)
<1>1. Live' = Live /\ Remembered' = Remembered
  BY TableSeen
<1>2. PICK it : it = RuntimeCall(c)'
  OBVIOUS
<1>3. Calls' = [Calls EXCEPT ![c] = it]
  BY <1>2, CallsSeen
<1>4. \/ it = Nothing
      \/ it.st = "pending" /\ it.res = NoReply
      \/ it.st = "replied" /\ it.res = Reply("error")
  BY <1>2 DEF RuntimeCall, Nothing
<1>5. CASE it = Nothing
  <2>1. Calls' = Calls
    BY <1>3, <1>5 DEF Calls
  <2>2. QED
    BY <1>1, <2>1, StoreStutter
<1>6. CASE it # Nothing
  <2>1. Calls[c].st = "idle" /\ Calls'[c] = it
    BY <1>3 DEF Calls, Nothing
  <2>2. TypeScript!Invoke(c)
    BY <1>1, <1>3, <1>4, <1>6, <2>1
       DEF TypeScript!Invoke, TypeScript!NoReply, TypeScript!Reply, NoReply, Reply, Calls, Live,
           Remembered
  <2>3. QED
    BY <2>2 DEF TypeScript!Next
<1>7. QED
  BY <1>5, <1>6

(* A step at another runtime: the call may now come to this one. *)
LEMMA ElsewhereImplements ==
    ASSUME StoreInv, NEW c \in Clients, Proceeds(c), Elsewhere(c)
    PROVE  [TypeScript!Next]_(TypeScript!vars)
<1>1. ~Open(c) /\ told'[c] = told[c]
  BY DEF Elsewhere, Open
<1>2. CASE told[c] = NoReply
  <2>1. RuntimeCall(c) = Nothing
    BY <1>1, <1>2, CallSeen
  <2>2. QED
    BY <1>1, <1>2, <2>1, OthersSeen, InvokeSeen DEF Elsewhere
<1>3. CASE told[c] # NoReply
  <2>1. PICK i \in DOMAIN runtimes : i < call[c].next /\ runtimes[i] = "typescript"
    BY <1>3 DEF StoreInv, ToldOK, Elsewhere
  <2>2. i <= call[c].next
    <3>1. RuntimesTyped /\ call[c].next \in Nat
      BY TypeParts DEF StoreInv, IInv, TypeOK, Call
    <3>2. i \in Nat
      BY <3>1 DEF RuntimesTyped
    <3>3. QED
      BY <2>1, <3>1, <3>2
  <2>3. ~Open(c)'
    BY <2>1, <2>2, NextAsked DEF StoreInv, Elsewhere
  <2>4. PICK res : res = told[c]
    OBVIOUS
  <2>5. RuntimeCall(c)' = Record(c, "replied", res)
    BY <1>1, <1>3, <2>3, <2>4, ClosedSeen DEF Proceeds
  <2>6. RuntimeCall(c) = Record(c, "replied", res)
    BY <1>1, <1>3, <2>4, CallSeen
  <2>7. Calls' = Calls
    BY <2>5, <2>6, OthersSeen DEF Calls
  <2>8. QED
    BY <2>7, TableSeen, StoreStutter DEF Elsewhere
<1>4. QED
  BY <1>2, <1>3

--------------------------------------------------------------------------------
(* What the runtime, alive, does when it answers c: the effects of the     *)
(* store's operations, in the words of the SDK's tables.                   *)
Was(c) == table["typescript"][Subject(c)]

Writes(c, globals) == table' = [table EXCEPT !["typescript"][Subject(c)] = globals]

Effect(c, res) ==
    \/ res = Reply("error") /\ UNCHANGED table
    \/ call[c].op = "create" /\ Writes(c, Before(Was(c))) /\ res = Reply("ok")
    \/ /\ call[c].op = "run"
       /\ \/ Writes(c, Before(Was(c)) \cup {call[c].tok}) /\ res \in {Reply("ok"), Reply("error")}
          \/ Writes(c, Before(Was(c))) /\ res = Reply("error")
    \/ call[c].op = "restore" /\ Writes(c, call[c].snap.memory) /\ res = Reply("ok")
    \/ /\ call[c].op = "destroy" /\ Writes(c, None)
       /\ res = Reply(IF Subject(c) \in Live THEN "removed" ELSE "absent")
    \/ call[c].op = "list" /\ UNCHANGED table /\ res = ListReply(Live)
    \/ /\ call[c].op \in {"snapshot", "snapshot_with"} /\ UNCHANGED table
       /\ res = IF Subject(c) \in Live THEN SnapshotReply(Was(c)) ELSE Reply("not_found")

LEMMA Subjects ==
    ASSUME IInv, NEW c \in Clients, call[c].op \notin {None, "list"}
    PROVE  /\ Subject(c) \in Ids /\ Was(c) \in Globals \cup {None}
           /\ Remembered[Subject(c)] = Before(Was(c))
           /\ Before(Was(c)) \in Globals
           /\ Subject(c) \in Live <=> Was(c) # None
<1>1. Subject(c) \in Ids
  BY DEF IInv, CallOK, Subject
<1>2. Was(c) \in Globals \cup {None}
  BY <1>1, TypeParts DEF IInv, TablesTyped, Languages, Was
<1>3. QED
  BY <1>1, <1>2 DEF Was, Before, Globals, Remembered, Live, Sessions

LEMMA Written ==
    ASSUME IInv, NEW c \in Clients, call[c].op \notin {None, "list"},
           NEW globals \in Globals, Writes(c, globals)
    PROVE  /\ Live' = Live \cup {Subject(c)}
           /\ Remembered' = [Remembered EXCEPT ![Subject(c)] = globals]
<1>1. PICK s \in Ids : s = Subject(c)
  BY Subjects
<1>2. globals # None /\ Before(globals) = globals
  BY SdkAssumption DEF Before
<1>3. table' = [table EXCEPT !["typescript"][s] = globals]
  BY <1>1 DEF Writes
<1>4. QED
  BY <1>1, <1>2, <1>3, TableWritten DEF IInv

LEMMA EffectImplements ==
    ASSUME IInv, NEW c \in Clients, NEW res, Proceeds(c), Answering(c, res), Alive(c),
           Effect(c, res)
    PROVE  TypeScript!Next
<1>1. Calls[c] = Record(c, "pending", NoReply) /\ TypeScript!Answer(c, res)
  BY AnswerSeen
<1>2. /\ Calls[c].st = "pending" /\ Calls[c].sid = Subject(c) /\ Calls[c].tok = call[c].tok
      /\ Calls[c].op = IF call[c].op = "snapshot_with" THEN "snapshot" ELSE call[c].op
      /\ call[c].op = "restore" => Calls[c].arg = call[c].snap.memory
  BY <1>1 DEF Record
<1>3. ASSUME UNCHANGED table PROVE Live' = Live /\ Remembered' = Remembered
  BY <1>3, TableSeen
<1>4. CASE res = Reply("error") /\ UNCHANGED table
  <2>1. TypeScript!Refuse(c)
    BY <1>1, <1>2, <1>3, <1>4
       DEF TypeScript!Refuse, TypeScript!Reply, Reply, Calls, Live, Remembered
  <2>2. QED
    BY <2>1 DEF TypeScript!Next
<1>5. CASE call[c].op = "create" /\ Writes(c, Before(Was(c))) /\ res = Reply("ok")
  <2>1. /\ Live' = Live \cup {Subject(c)}
        /\ Remembered' = [Remembered EXCEPT ![Subject(c)] = Remembered[Subject(c)]]
    BY <1>5, Subjects, Written, NoneApart
  <2>2. TypeScript!Create(c)
    BY <1>1, <1>2, <1>5, <2>1
       DEF TypeScript!Create, TypeScript!Pending, TypeScript!Write, TypeScript!Reply, Reply,
           Calls, Live, Remembered
  <2>3. QED
    BY <2>2 DEF TypeScript!Next
<1>6. ASSUME call[c].op = "run", NEW globals \in Globals, Writes(c, globals),
             \/ globals = Before(Was(c)) \cup {call[c].tok} /\ res \in {Reply("ok"), Reply("error")}
             \/ globals = Before(Was(c)) /\ res = Reply("error")
      PROVE  TypeScript!Next
  <2>1. /\ Live' = Live \cup {Subject(c)}
        /\ Remembered' = [Remembered EXCEPT ![Subject(c)] = globals]
        /\ Remembered[Subject(c)] = Before(Was(c))
    BY <1>6, Subjects, Written, NoneApart
  <2>2. TypeScript!Pending(c, "run") /\ TypeScript!Write(Subject(c), globals)
    BY <1>2, <1>6, <2>1 DEF TypeScript!Pending, TypeScript!Write, Calls, Live, Remembered
  <2>3. /\ Calls[c].sid = Subject(c) /\ Calls[c].tok = call[c].tok
        /\ \/ /\ globals = Remembered[Subject(c)] \cup {call[c].tok}
              /\ res \in {Reply("ok"), Reply("error")}
           \/ globals = Remembered[Subject(c)] /\ res = Reply("error")
    BY <1>2, <1>6, <2>1
  <2>4. TypeScript!Run(c)
    BY <1>1, <2>2, <2>3 DEF TypeScript!Run, TypeScript!Reply, Reply, Calls, Remembered
  <2>5. QED
    BY <2>4 DEF TypeScript!Next
<1>7. CASE /\ call[c].op = "run"
           /\ \/ /\ Writes(c, Before(Was(c)) \cup {call[c].tok})
                 /\ res \in {Reply("ok"), Reply("error")}
              \/ Writes(c, Before(Was(c))) /\ res = Reply("error")
  <2>1. call[c].tok \in Runs
    BY <1>7 DEF IInv, CallOK
  <2>2. Before(Was(c)) \in Globals /\ Before(Was(c)) \cup {call[c].tok} \in Globals
    BY <1>7, <2>1, Subjects, NoneApart DEF Globals
  <2>3. QED
    BY <1>6, <1>7, <2>2
<1>8. CASE call[c].op = "restore" /\ Writes(c, call[c].snap.memory) /\ res = Reply("ok")
  <2>1. call[c].snap.memory \in Globals
    BY <1>8 DEF IInv, CallOK, Snapshot
  <2>2. /\ Live' = Live \cup {Subject(c)}
        /\ Remembered' = [Remembered EXCEPT ![Subject(c)] = call[c].snap.memory]
    BY <1>8, <2>1, Written, NoneApart
  <2>3. TypeScript!Restore(c)
    BY <1>1, <1>2, <1>8, <2>2
       DEF TypeScript!Restore, TypeScript!Pending, TypeScript!Write, TypeScript!Reply, Reply,
           Calls, Live, Remembered
  <2>4. QED
    BY <2>3 DEF TypeScript!Next
<1>9. CASE /\ call[c].op = "destroy" /\ Writes(c, None)
           /\ res = Reply(IF Subject(c) \in Live THEN "removed" ELSE "absent")
  <2>1. PICK s \in Ids : s = Subject(c)
    BY <1>9, Subjects, NoneApart
  <2>2. table' = [table EXCEPT !["typescript"][s] = None]
    BY <1>9, <2>1 DEF Writes
  <2>3. Live' = Live \ {s} /\ Remembered' = [Remembered EXCEPT ![s] = Before(None)]
    BY <2>2, TableWritten DEF IInv
  <2>4. PICK tag : tag = (IF s \in Live THEN "removed" ELSE "absent") /\ res = Reply(tag)
    BY <1>9, <2>1
  <2>5. TypeScript!Destroy(c)
    BY <1>1, <1>2, <1>9, <2>1, <2>3, <2>4
       DEF TypeScript!Destroy, TypeScript!Pending, TypeScript!Reply, Reply, Before,
           Calls, Live, Remembered
  <2>6. QED
    BY <2>5 DEF TypeScript!Next
<1>10. CASE call[c].op = "list" /\ UNCHANGED table /\ res = ListReply(Live)
  <2>1. TypeScript!List(c)
    BY <1>1, <1>2, <1>3, <1>10
       DEF TypeScript!List, TypeScript!Pending, TypeScript!ListReply, ListReply,
           Calls, Live, Remembered
  <2>2. QED
    BY <2>1 DEF TypeScript!Next
<1>11. CASE /\ call[c].op \in {"snapshot", "snapshot_with"} /\ UNCHANGED table
            /\ res = IF Subject(c) \in Live THEN SnapshotReply(Was(c)) ELSE Reply("not_found")
  <2>1. Subject(c) \in Live => Remembered[Subject(c)] = Was(c)
    BY <1>11, Subjects, NoneApart DEF Before
  <2>2. TypeScript!Snapshot(c)
    BY <1>1, <1>2, <1>3, <1>11, <2>1
       DEF TypeScript!Snapshot, TypeScript!Pending, TypeScript!Reply, Reply,
           TypeScript!SnapshotReply, SnapshotReply, Calls, Live, Remembered
  <2>3. QED
    BY <2>2 DEF TypeScript!Next
<1>12. QED
  BY <1>4, <1>5, <1>7, <1>8, <1>9, <1>10, <1>11 DEF Effect

(* A runtime answers. *)
LEMMA AnswerImplements ==
    ASSUME IInv, NEW c \in Clients, NEW res, Proceeds(c), Answering(c, res),
           IF Alive(c) THEN Effect(c, res) ELSE res = Reply("error") /\ UNCHANGED table
    PROVE  [TypeScript!Next]_(TypeScript!vars)
<1>1. CASE Alive(c)
  BY <1>1, EffectImplements
<1>2. CASE ~Alive(c)
  BY <1>2, AnswerSeen, TableSeen, StoreStutter
<1>3. QED
  BY <1>1, <1>2

--------------------------------------------------------------------------------
(* The SDK's steps, seen from the runtime *)
Served(c) ==
    /\ Proceeds(c)
    /\ \/ Elsewhere(c)
       \/ \E res \in AllTold :
            /\ Answering(c, res)
            /\ IF Alive(c) THEN Effect(c, res) ELSE res = Reply("error") /\ UNCHANGED table

LEMMA StoresSeen ==
    ASSUME IInv, NEW c \in Clients, NEW globals, Stores(c, globals)
    PROVE  /\ Asked(c) = "typescript" => Writes(c, globals)
           /\ Asked(c) # "typescript" => table'["typescript"] = table["typescript"]
BY DEF IInv, TypeOK, Stores, Writes, Languages

LEMMA TellsServed ==
    ASSUME IInv, NEW c \in Clients, call[c].at = "ask", Aside(c), UNCHANGED <<runtimes, dead>>,
           \/ call'[c].at = "replied"
           \/ /\ call'[c].at = "ask" /\ call'[c].next = call[c].next + 1
              /\ call'[c].next \in DOMAIN runtimes,
           NEW res \in AllTold, res.tag # "none", Tells(c, res),
           Asked(c) = "typescript" =>
             IF Alive(c) THEN Effect(c, res) ELSE res = Reply("error") /\ UNCHANGED table,
           Asked(c) # "typescript" => table'["typescript"] = table["typescript"]
    PROVE  Served(c)
<1>1. Proceeds(c)
  <2>1. \A d \in Clients \ {c} : told'[d] = told[d]
    BY TellsFacts, TypeParts DEF IInv, AllTold
  <2>2. QED
    BY <2>1 DEF Proceeds
<1>2. CASE Asked(c) = "typescript"
  <2>1. told'[c] = res
    BY <1>2, TellsFacts, TypeParts DEF IInv, AllTold
  <2>2. QED
    BY <1>1, <1>2, <2>1 DEF Served, Answering
<1>3. CASE Asked(c) # "typescript"
  BY <1>1, <1>3 DEF Served, Elsewhere, Tells
<1>4. QED
  BY <1>2, <1>3

LEMMA RepliesTold ==
    ASSUME NEW tag \in Tags \ {"none"}
    PROVE  Reply(tag) \in AllTold /\ Reply(tag).tag # "none"
BY ReplyTyped DEF AllTold

LEMMA FailsServed ==
    ASSUME IInv, NEW c \in Clients, call[c].at = "ask", Fails(c), UNCHANGED <<runtimes, dead>>
    PROVE  Served(c)
<1>1. Reply("error") \in AllTold /\ Reply("error").tag # "none"
  BY RepliesTold DEF Tags
<1>2. Aside(c) /\ call'[c].at = "replied"
  <2>1. Says("error") \in Answers
    BY SaysTyped DEF Tags
  <2>2. QED
    BY <2>1, ReturnsFacts, TypeParts DEF IInv, Fails
<1>3. Tells(c, Reply("error")) /\ UNCHANGED table
  BY DEF Fails
<1>4. Effect(c, Reply("error"))
  BY <1>3 DEF Effect
<1>5. QED
  BY <1>1, <1>2, <1>3, <1>4, TellsServed

(* A runtime that lives answers at once what its caller is told. *)
LEMMA ReturnsServed ==
    ASSUME IInv, NEW c \in Clients, call[c].at = "ask", Alive(c), UNCHANGED <<runtimes, dead>>,
           NEW said \in Answers, Returns(c, said),
           NEW res \in AllTold, res.tag # "none", Tells(c, res),
           Asked(c) = "typescript" => Effect(c, res),
           Asked(c) # "typescript" => table'["typescript"] = table["typescript"]
    PROVE  Served(c)
<1>1. Aside(c) /\ call'[c].at = "replied"
  BY ReturnsFacts, TypeParts DEF IInv
<1>2. QED
  BY <1>1, TellsServed

LEMMA GoesOnServed ==
    ASSUME IInv, NEW c \in Clients, call[c].at = "ask", UNCHANGED <<runtimes, dead>>,
           NEW said \in Answers, GoesOn(c, said),
           NEW res \in AllTold, res.tag # "none", Tells(c, res),
           Asked(c) = "typescript" =>
             IF Alive(c) THEN Effect(c, res) ELSE res = Reply("error") /\ UNCHANGED table,
           Asked(c) # "typescript" => table'["typescript"] = table["typescript"]
    PROVE  Served(c)
<1>1. /\ Aside(c)
      /\ \/ call'[c].at = "replied"
         \/ /\ call'[c].at = "ask" /\ call'[c].next = call[c].next + 1
            /\ call'[c].next \in DOMAIN runtimes
  BY GoesOnFacts, TypeParts DEF IInv
<1>2. QED
  BY <1>1, TellsServed

LEMMA CreateServed == ASSUME IInv, NEW c \in Clients, Create(c) PROVE Served(c)
<1>1. call[c].at = "ask" /\ call[c].op = "create" /\ UNCHANGED <<runtimes, dead>>
  BY DEF Create, Asks
<1>2. CASE Fails(c)
  BY <1>1, <1>2, FailsServed
<1>3. CASE ~Fails(c)
  <2>1. PICK globals : globals = IF Subject(c) \in Sessions(Asked(c))
                                 THEN table[Asked(c)][Subject(c)] ELSE {}
    OBVIOUS
  <2>2. Alive(c) /\ Stores(c, globals) /\ Tells(c, Reply("ok")) /\ Returns(c, Says("ok"))
    BY <1>3, <2>1 DEF Create
  <2>3. Reply("ok") \in AllTold /\ Reply("ok").tag # "none" /\ Says("ok") \in Answers
    BY RepliesTold, SaysTyped DEF Tags
  <2>4. ASSUME Asked(c) = "typescript" PROVE Effect(c, Reply("ok"))
    <3>1. globals = Before(Was(c))
      BY <1>1, <2>1, <2>4, Subjects, NoneApart DEF Live, Was, Before
    <3>2. QED
      BY <1>1, <2>2, <2>4, <3>1, StoresSeen DEF Effect
  <2>5. QED
    BY <1>1, <2>2, <2>3, <2>4, StoresSeen, ReturnsServed
<1>4. QED
  BY <1>2, <1>3

LEMMA RunServed == ASSUME IInv, NEW c \in Clients, RunTypeScript(c) PROVE Served(c)
<1>1. /\ call[c].at = "ask" /\ call[c].op = "run" /\ Asked(c) = "typescript"
      /\ UNCHANGED <<runtimes, dead>>
  BY DEF RunTypeScript, Asks
<1>2. CASE Fails(c)
  BY <1>1, <1>2, FailsServed
<1>3. CASE ~Fails(c)
  <2>1. PICK before, after :
          before = Before(Was(c)) /\ after = Before(Was(c)) \cup {call[c].tok}
    OBVIOUS
  <2>2. /\ Alive(c)
        /\ \E outcome \in {<<after, "ok">>, <<after, "error">>, <<before, "error">>} :
             /\ Stores(c, outcome[1]) /\ Tells(c, Reply(outcome[2])) /\ Returns(c, Says("ran"))
    BY <1>3, <2>1 DEF RunTypeScript, Was
  <2>3. PICK outcome \in {<<after, "ok">>, <<after, "error">>, <<before, "error">>} :
          Stores(c, outcome[1]) /\ Tells(c, Reply(outcome[2])) /\ Returns(c, Says("ran"))
    BY <2>2
  <2>4. PICK globals, tag : globals = outcome[1] /\ tag = outcome[2]
    OBVIOUS
  <2>5. Stores(c, globals) /\ Tells(c, Reply(tag)) /\ Returns(c, Says("ran"))
    BY <2>3, <2>4
  <2>6. tag \in {"ok", "error"} /\ (globals = after \/ (globals = before /\ tag = "error"))
    BY <2>4
  <2>7. Reply(tag) \in AllTold /\ Reply(tag).tag # "none" /\ Says("ran") \in Answers
    BY <2>6, RepliesTold, SaysTyped DEF Tags
  <2>8. Effect(c, Reply(tag))
    BY <1>1, <2>1, <2>5, <2>6, StoresSeen DEF Effect
  <2>9. QED
    BY <1>1, <2>2, <2>5, <2>7, <2>8, ReturnsServed
<1>4. QED
  BY <1>2, <1>3

LEMMA TakePythonServed == ASSUME IInv, NEW c \in Clients, TakePython(c) PROVE Served(c)
<1>1. /\ call[c].at = "ask" /\ Asked(c) = "python"
      /\ UNCHANGED <<runtimes, dead, told>> /\ Stores(c, None)
      /\ call' = [call EXCEPT ![c].at = "taken"]
  BY DEF TakePython, Asks
<1>2. PICK it \in Call : it = call[c]
  BY DEF IInv, TypeOK
<1>3. call' = [call EXCEPT ![c] = [it EXCEPT !.at = "taken"]]
  BY <1>1, <1>2 DEF IInv, TypeOK
<1>4. [it EXCEPT !.at = "taken"] \in Call
  BY DEF Call
<1>5. /\ call' \in [Clients -> Call] /\ call'[c] = [it EXCEPT !.at = "taken"]
      /\ \A d \in Clients \ {c} : call'[d] = call[d]
  BY <1>3, <1>4 DEF IInv, TypeOK
<1>6. Aside(c) /\ call'[c].at = "taken" /\ call'[c].next = call[c].next
  BY <1>2, <1>5 DEF Aside, Call
<1>7. QED
  BY <1>1, <1>6, StoresSeen DEF Served, Proceeds, Elsewhere

LEMMA PutPythonServed == ASSUME IInv, NEW c \in Clients, PutPython(c) PROVE Served(c)
<1>1. /\ call[c].at = "taken" /\ Asked(c) = "python"
      /\ UNCHANGED <<runtimes, dead, told>>
  BY DEF PutPython, IInv, CallOK, Asked
<1>2. PICK globals : Stores(c, globals) /\ Returns(c, Says("ran"))
  BY DEF PutPython
<1>3. Aside(c) /\ call'[c].at = "replied"
  <2>1. Says("ran") \in Answers
    BY SaysTyped
  <2>2. QED
    BY <1>2, <2>1, ReturnsFacts, TypeParts DEF IInv
<1>4. QED
  BY <1>1, <1>2, <1>3, StoresSeen DEF Served, Proceeds, Elsewhere

LEMMA RestoreServed == ASSUME IInv, NEW c \in Clients, Restore(c) PROVE Served(c)
<1>1. call[c].at = "ask" /\ call[c].op = "restore" /\ UNCHANGED <<runtimes, dead>>
  BY DEF Restore, Asks
<1>2. CASE Fails(c)
  BY <1>1, <1>2, FailsServed
<1>3. CASE ~Fails(c)
  <2>1. /\ Alive(c) /\ Stores(c, call[c].snap.memory)
        /\ Tells(c, Reply("ok")) /\ Returns(c, Says("ok"))
    BY <1>3 DEF Restore
  <2>2. Reply("ok") \in AllTold /\ Reply("ok").tag # "none" /\ Says("ok") \in Answers
    BY RepliesTold, SaysTyped DEF Tags
  <2>3. Asked(c) = "typescript" => Effect(c, Reply("ok"))
    BY <1>1, <2>1, StoresSeen DEF Effect
  <2>4. QED
    BY <1>1, <2>1, <2>2, <2>3, StoresSeen, ReturnsServed
<1>4. QED
  BY <1>2, <1>3

LEMMA DestroyServed == ASSUME IInv, NEW c \in Clients, Destroy(c) PROVE Served(c)
<1>1. call[c].at = "ask" /\ call[c].op = "destroy" /\ UNCHANGED <<runtimes, dead>>
  BY DEF Destroy, Asks
<1>2. CASE Fails(c)
  BY <1>1, <1>2, FailsServed
<1>3. CASE ~Fails(c)
  <2>1. PICK found, tag, said :
          /\ found = (Subject(c) \in Sessions(Asked(c)))
          /\ tag = IF found THEN "removed" ELSE "absent"
          /\ said = IF found \/ call[c].res.tag = "removed" THEN "removed" ELSE "absent"
    OBVIOUS
  <2>2. Alive(c) /\ Stores(c, None) /\ Tells(c, Reply(tag)) /\ GoesOn(c, Says(said))
    BY <1>3, <2>1 DEF Destroy
  <2>3. Reply(tag) \in AllTold /\ Reply(tag).tag # "none"
    BY <2>1, RepliesTold DEF Tags
  <2>4. Says(said) \in Answers
    BY <2>1, SaysTyped DEF Tags
  <2>5. Asked(c) = "typescript" => Effect(c, Reply(tag))
    BY <1>1, <2>1, <2>2, StoresSeen DEF Effect, Live
  <2>6. QED
    BY <1>1, <2>2, <2>3, <2>4, <2>5, StoresSeen, GoesOnServed
<1>4. QED
  BY <1>2, <1>3

LEMMA ListServed == ASSUME IInv, NEW c \in Clients, List(c) PROVE Served(c)
<1>1. /\ call[c].at = "ask" /\ call[c].op = "list"
      /\ UNCHANGED <<runtimes, table, dead>>
  BY DEF List, Asks
<1>2. PICK before \in SUBSET Ids : before = call[c].res.ids
  BY DEF IInv, TypeOK, Call, Answers
<1>3. PICK soFar : soFar = [Says("list") EXCEPT !.ids = before]
  OBVIOUS
<1>4. soFar \in Answers
  BY <1>3 DEF Says, Answers, Tags
<1>5. CASE Alive(c)
  <2>1. PICK said, res :
          /\ said = [soFar EXCEPT !.ids = @ \cup Sessions(Asked(c))]
          /\ res = ListReply(Sessions(Asked(c)))
    OBVIOUS
  <2>2. GoesOn(c, said) /\ Tells(c, res)
    BY <1>2, <1>3, <1>5, <2>1 DEF List
  <2>3. said \in Answers
    BY <1>4, <2>1 DEF Answers, Sessions
  <2>4. res \in AllTold /\ res.tag # "none"
    BY <2>1 DEF ListReply, AllTold, Tags, Globals, Sessions
  <2>5. Asked(c) = "typescript" => Effect(c, res)
    BY <1>1, <2>1 DEF Effect, Live
  <2>6. QED
    BY <1>1, <1>5, <2>2, <2>3, <2>4, <2>5, GoesOnServed
<1>6. CASE ~Alive(c)
  <2>1. GoesOn(c, soFar) /\ Tells(c, Reply("error"))
    BY <1>2, <1>3, <1>6 DEF List
  <2>2. Reply("error") \in AllTold /\ Reply("error").tag # "none"
    BY RepliesTold DEF Tags
  <2>3. QED
    BY <1>1, <1>4, <1>6, <2>1, <2>2, GoesOnServed
<1>7. QED
  BY <1>5, <1>6

LEMMA SnapshotServed == ASSUME IInv, NEW c \in Clients, TakeSnapshot(c) PROVE Served(c)
<1> DEFINE l == Asked(c)
           s == Subject(c)
           snapshot == [lang |-> l, sid |-> s, memory |-> table[l][s]]
<1>1. /\ call[c].at = "ask" /\ call[c].op \in {"snapshot", "snapshot_with"}
      /\ UNCHANGED <<runtimes, dead>>
  BY DEF TakeSnapshot, Asks
<1>2. CASE Fails(c)
  BY <1>1, <1>2, FailsServed
<1>3. CASE /\ Alive(c) /\ s \in Sessions(l)
           /\ Tells(c, SnapshotReply(table[l][s]))
           /\ Returns(c, [Says("snapshot") EXCEPT !.snap = snapshot])
           /\ snaps' = snaps \cup {snapshot} /\ UNCHANGED table
  <2>1. /\ l \in Languages /\ s \in SessionIds /\ s \in Ids
        /\ table[l][s] \in Globals
    <3>1. l \in Languages /\ s \in SessionIds /\ s \in Ids
      BY <1>1, AskedFacts DEF IInv, CallOK, Subject, Ids
    <3>2. table[l][s] \in Globals \cup {None} /\ table[l][s] # None
      BY <1>3, <3>1, TypeParts DEF IInv, TablesTyped, Sessions
    <3>3. QED
      BY <3>1, <3>2
  <2>2. PICK said, res :
          /\ said = [Says("snapshot") EXCEPT !.snap = snapshot]
          /\ res = SnapshotReply(table[l][s])
    OBVIOUS
  <2>3. said \in Answers
    <3>1. snapshot \in Snapshot
      BY <2>1 DEF Snapshot
    <3>2. QED
      BY <2>2, <3>1 DEF Says, Answers, Tags
  <2>4. res \in AllTold /\ res.tag # "none"
    BY <2>1, <2>2 DEF SnapshotReply, AllTold, Tags
  <2>5. l = "typescript" => Effect(c, res)
    BY <1>1, <1>3, <2>2 DEF Effect, Live, Was
  <2>6. QED
    BY <1>1, <1>3, <2>2, <2>3, <2>4, <2>5, ReturnsServed
<1>4. CASE /\ Alive(c) /\ s \notin Sessions(l)
           /\ Tells(c, Reply("not_found"))
           /\ IF call[c].op = "snapshot"
              THEN GoesOn(c, Says("not_found")) ELSE Returns(c, Says("not_found"))
           /\ UNCHANGED <<table, snaps>>
  <2>1. /\ Reply("not_found") \in AllTold /\ Reply("not_found").tag # "none"
        /\ Says("not_found") \in Answers
    BY RepliesTold, SaysTyped DEF Tags
  <2>2. l = "typescript" => Effect(c, Reply("not_found"))
    BY <1>1, <1>4 DEF Effect, Live
  <2>3. QED
    BY <1>1, <1>4, <2>1, <2>2, ReturnsServed, GoesOnServed
<1>5. QED
  BY <1>2, <1>3, <1>4 DEF TakeSnapshot

(* Every answer of a runtime is a step of the store or unseen by it. *)
LEMMA ServeImplements ==
    ASSUME StoreInv, NEW c \in Clients, Serve(c)
    PROVE  Served(c) /\ [TypeScript!Next]_(TypeScript!vars)
<1>1. IInv
  BY DEF StoreInv
<1>2. Served(c)
  BY <1>1, CreateServed, RunServed, TakePythonServed, PutPythonServed, DestroyServed, ListServed,
     SnapshotServed, RestoreServed DEF Serve
<1>3. [TypeScript!Next]_(TypeScript!vars)
  BY <1>1, <1>2, ElsewhereImplements, AnswerImplements DEF Served
<1>4. QED
  BY <1>2, <1>3

(* The SDK asks each runtime once. *)
LEMMA ServedTold ==
    ASSUME StoreInv, NEW c \in Clients, Served(c), NEW d \in Clients
    PROVE  ToldOK(d)'
<1>1. IInv /\ ToldOK(d) /\ Proceeds(c)
  BY DEF StoreInv, Served
<1>2. CASE d # c
  BY <1>1, <1>2 DEF ToldOK, Proceeds, Aside
<1>3. CASE d = c
  <2>1. call'[c].at # "idle"
    BY <1>1 DEF Proceeds
  <2>2. ASSUME told'[c] # NoReply, call'[c].at \in {"ask", "taken"}
        PROVE  \E i \in DOMAIN runtimes : i < call'[c].next /\ runtimes[i] = "typescript"
    <3>1. RuntimesTyped /\ call[c].at \in {"ask", "taken"}
      BY <1>1, TypeParts DEF IInv, Served, Elsewhere, Answering
    <3>2. PICK next \in DOMAIN runtimes : next = call[c].next
      BY <1>1, <3>1, AskedFacts DEF RuntimesTyped
    <3>3. next \in Nat /\ \A i \in DOMAIN runtimes : i \in Nat
      BY <3>1 DEF RuntimesTyped
    <3>4. CASE Elsewhere(c)
      <4>1. PICK i \in DOMAIN runtimes : i < next /\ runtimes[i] = "typescript"
        BY <1>1, <1>3, <2>2, <3>1, <3>2, <3>4 DEF ToldOK, Elsewhere
      <4>2. call'[c].next \in {next, next + 1}
        BY <1>1, <2>2, <3>2 DEF Proceeds
      <4>3. QED
        BY <3>3, <4>1, <4>2
    <3>5. CASE ~Elsewhere(c)
      <4>1. Asked(c) = "typescript"
        BY <3>5 DEF Served, Answering
      <4>2. call'[c].next = next + 1 /\ runtimes[next] = "typescript"
        BY <1>1, <2>2, <3>2, <4>1 DEF Proceeds, Asked
      <4>3. QED
        BY <3>2, <3>3, <4>2
    <3>6. QED
      BY <3>4, <3>5
  <2>3. runtimes' = runtimes
    BY <1>1 DEF Proceeds
  <2>4. QED
    BY <1>3, <2>1, <2>2, <2>3 DEF ToldOK
<1>4. QED
  BY <1>2, <1>3

(* A call is made, or refused before any runtime sees it. *)
LEMMA FreshImplements ==
    ASSUME StoreInv, NEW c \in Clients, call[c].at = "idle",
           \A d \in Clients \ {c} : call'[d] = call[d],
           UNCHANGED <<runtimes, table, dead, told>>
    PROVE  [TypeScript!Next]_(TypeScript!vars) /\ \A d \in Clients : ToldOK(d)'
<1>1. told[c] = NoReply /\ ~Open(c)
  BY DEF StoreInv, ToldOK, Open
<1>2. RuntimeCall(c) = Nothing
  BY <1>1, CallSeen
<1>3. \A d \in Clients \ {c} : RuntimeCall(d)' = RuntimeCall(d)
  BY OtherSeen
<1>4. [TypeScript!Next]_(TypeScript!vars)
  BY <1>1, <1>2, <1>3, InvokeSeen
<1>5. ASSUME NEW d \in Clients PROVE ToldOK(d)'
  <2>1. ToldOK(d)
    BY DEF StoreInv
  <2>2. QED
    BY <1>1, <2>1 DEF ToldOK, NoReply, Reply
<1>6. QED
  BY <1>4, <1>5

(* The caller has its answer, and with it the runtime's call is over. *)
LEMMA ReturnImplements ==
    ASSUME StoreInv, NEW c \in Clients, Return(c)
    PROVE  [TypeScript!Next]_(TypeScript!vars) /\ \A d \in Clients : ToldOK(d)'
<1>1. /\ call[c].at = "replied" /\ UNCHANGED <<runtimes, table, dead>>
      /\ call' = [call EXCEPT ![c] = NoCall] /\ told' = [told EXCEPT ![c] = NoReply]
  BY DEF Return
<1>2. TypeOK
  BY DEF StoreInv, IInv
<1>3. /\ call'[c] = NoCall /\ told'[c] = NoReply
      /\ \A d \in Clients \ {c} : call'[d] = call[d] /\ told'[d] = told[d]
  BY <1>1, <1>2 DEF TypeOK
<1>4. \A d \in Clients \ {c} : RuntimeCall(d)' = RuntimeCall(d)
  BY <1>1, <1>3, OtherSeen
<1>5. RuntimeCall(c)' = Nothing
  BY <1>3 DEF RuntimeCall, NoCall, Nothing
<1>6. Live' = Live /\ Remembered' = Remembered
  BY <1>1, TableSeen
<1>7. ~Open(c)
  BY <1>1 DEF Open
<1>8. ASSUME NEW d \in Clients PROVE ToldOK(d)'
  <2>1. ToldOK(d)
    BY DEF StoreInv
  <2>2. QED
    BY <1>1, <1>3, <2>1 DEF ToldOK
<1>9. CASE told[c] = NoReply
  <2>1. RuntimeCall(c) = Nothing
    BY <1>7, <1>9, CallSeen
  <2>2. Calls' = Calls
    BY <1>4, <1>5, <2>1 DEF Calls
  <2>3. QED
    BY <1>6, <1>8, <2>2, StoreStutter
<1>10. CASE told[c] # NoReply
  <2>1. RuntimeCall(c) = Record(c, "replied", told[c])
    BY <1>7, <1>10, CallSeen
  <2>2. Calls[c].st = "replied"
    BY <2>1 DEF Calls, Record
  <2>3. Calls' = [Calls EXCEPT ![c] = TypeScript!IdleCall]
    BY <1>4, <1>5, CallsSeen, NothingIsIdle
  <2>4. TypeScript!Return(c)
    BY <1>6, <2>2, <2>3 DEF TypeScript!Return, Calls, Live, Remembered
  <2>5. QED
    BY <1>8, <2>4 DEF TypeScript!Next
<1>11. QED
  BY <1>9, <1>10

(* The runtime dies, and is lost to the store. *)
LEMMA DieImplements ==
    ASSUME StoreInv, Die
    PROVE  [TypeScript!Next]_(TypeScript!vars) /\ \A d \in Clients : ToldOK(d)'
<1>1. /\ UNCHANGED <<runtimes, call, told>> /\ dead' = {"typescript"} /\ "typescript" \notin dead
      /\ table' = [table EXCEPT !["typescript"] = [s \in Ids |-> None]]
  BY DEF Die
<1>2. table'["typescript"] = [s \in Ids |-> None]
  BY <1>1 DEF StoreInv, IInv, TypeOK, Languages
<1>3. Live' = {}
  BY <1>2 DEF Live, Sessions
<1>4. Remembered' = [s \in Ids |-> {}]
  BY <1>2 DEF Remembered, Before
<1>5. ASSUME NEW c \in Clients
      PROVE  RuntimeCall(c)' = IF RuntimeCall(c).st = "pending"
                               THEN [RuntimeCall(c) EXCEPT !.st = "replied", !.res = Reply("error")]
                               ELSE RuntimeCall(c)
  <2>1. CASE Open(c)
    <3>1. Alive(c)
      BY <1>1, <2>1 DEF Open, Alive
    <3>2. RuntimeCall(c) = Record(c, "pending", NoReply)
      BY <2>1, <3>1, CallSeen
    <3>3. RuntimeCall(c)' = Record(c, "replied", Reply("error"))
      BY <1>1, <2>1 DEF RuntimeCall, Open, Record, Asked, Alive, Subject
    <3>4. RuntimeCall(c).st = "pending"
      BY <3>2 DEF Record
    <3>5. [Record(c, "pending", NoReply) EXCEPT !.st = "replied", !.res = Reply("error")]
          = Record(c, "replied", Reply("error"))
      BY RecordAnswered
    <3>6. QED
      BY <3>2, <3>3, <3>4, <3>5, Zenon
  <2>2. CASE ~Open(c)
    <3>1. RuntimeCall(c)' = RuntimeCall(c)
      BY <1>1, <2>2 DEF RuntimeCall, Open, Asked, Subject
    <3>2. RuntimeCall(c).st # "pending"
      BY <2>2 DEF RuntimeCall, Open
    <3>3. QED
      BY <3>1, <3>2
  <2>3. QED
    BY <2>1, <2>2
<1>6. TypeScript!Lose
  BY <1>3, <1>4, <1>5 DEF TypeScript!Lose, TypeScript!Reply, Reply, Live, Remembered
<1>7. ASSUME NEW d \in Clients PROVE ToldOK(d)'
  <2>1. ToldOK(d)
    BY DEF StoreInv
  <2>2. QED
    BY <1>1, <2>1 DEF ToldOK
<1>8. QED
  BY <1>6, <1>7 DEF TypeScript!Next

(* Nothing is asked before there are runtimes. *)
LEMMA BuildImplements ==
    ASSUME StoreInv, UNCHANGED <<table, dead, call, told>>, runtimes = <<>> \/ UNCHANGED runtimes
    PROVE  [TypeScript!Next]_(TypeScript!vars) /\ \A d \in Clients : ToldOK(d)'
<1>1. ASSUME NEW c \in Clients, runtimes = <<>> PROVE call[c].at \notin {"ask", "taken"}
  BY <1>1 DEF StoreInv, IInv, CallOK
<1>2. ASSUME NEW c \in Clients PROVE RuntimeCall(c)' = RuntimeCall(c)
  BY <1>1 DEF RuntimeCall, Asked, Alive, Subject
<1>3. Calls' = Calls
  BY <1>2 DEF Calls
<1>4. ASSUME NEW d \in Clients PROVE ToldOK(d)'
  <2>1. ToldOK(d)
    BY DEF StoreInv
  <2>2. QED
    BY <1>1, <2>1 DEF ToldOK
<1>5. QED
  BY <1>3, <1>4, TableSeen, StoreStutter

(* Every step of either front preserves the invariant, and is a step of    *)
(* the store or unseen by it.                                              *)
LEMMA StepImplements ==
    ASSUME StoreInv, [DaemonNext]_daemonVars
    PROVE  StoreInv' /\ [TypeScript!Next]_(TypeScript!vars)
<1>1. IInv /\ IInv'
  BY NextIInv DEF StoreInv
<1>2. [TypeScript!Next]_(TypeScript!vars) /\ \A d \in Clients : ToldOK(d)'
  <2>1. CASE UNCHANGED vars
    <3>1. UNCHANGED <<runtimes, table, dead, call, told>>
      BY <2>1 DEF vars
    <3>2. QED
      BY <3>1, BuildImplements
  <2>2. CASE Build
    <3>1. runtimes = <<>> /\ UNCHANGED <<table, dead, call, told>>
      BY <2>2 DEF Build
    <3>2. QED
      BY <3>1, BuildImplements
  <2>3. CASE Die
    BY <2>3, DieImplements
  <2>4. ASSUME NEW c \in Clients, Serve(c)
        PROVE  [TypeScript!Next]_(TypeScript!vars) /\ \A d \in Clients : ToldOK(d)'
    BY <2>4, ServeImplements, ServedTold
  <2>5. ASSUME NEW c \in Clients, Return(c)
        PROVE  [TypeScript!Next]_(TypeScript!vars) /\ \A d \in Clients : ToldOK(d)'
    BY <2>5, ReturnImplements
  <2>6. ASSUME NEW c \in Clients, Refuse(c)
        PROVE  [TypeScript!Next]_(TypeScript!vars) /\ \A d \in Clients : ToldOK(d)'
    <3>1. /\ call[c].at = "idle" /\ \A d \in Clients \ {c} : call'[d] = call[d]
          /\ UNCHANGED <<runtimes, table, dead, told>>
      BY <1>1, <2>6 DEF Refuse, IInv, TypeOK
    <3>2. QED
      BY <3>1, FreshImplements
  <2>7. ASSUME NEW c \in Clients, NEW req, Start(c, req)
        PROVE  [TypeScript!Next]_(TypeScript!vars) /\ \A d \in Clients : ToldOK(d)'
    <3>1. PICK it : call' = [call EXCEPT ![c] = it]
      BY <2>7 DEF Start
    <3>2. /\ call[c].at = "idle" /\ \A d \in Clients \ {c} : call'[d] = call[d]
          /\ UNCHANGED <<runtimes, table, dead, told>>
      BY <1>1, <2>7, <3>1 DEF Start, IInv, TypeOK
    <3>3. QED
      BY <3>2, FreshImplements
  <2>8. QED
    BY <1>1, <2>1, <2>2, <2>3, <2>4, <2>5, <2>6, <2>7, StepsOfSdk
<1>3. QED
  BY <1>1, <1>2 DEF StoreInv

(* What the SDK and the daemon take the TypeScript runtime to do is what   *)
(* its contract says, for any number of callers, sessions and calls.       *)
THEOREM UsesStoreHolds == DaemonSpec => UsesStore
<1>1. DaemonInit => StoreInv /\ TypeScript!Init
  <2>1. Init => \A c \in Clients : ToldOK(c)
    BY DEF Init, ToldOK
  <2>2. QED
    BY <2>1, InitIInv, StoreInit DEF DaemonInit, StoreInv
<1>2. StoreInv /\ [DaemonNext]_daemonVars => StoreInv' /\ [TypeScript!Next]_(TypeScript!vars)
  BY StepImplements
<1>3. QED
  BY <1>1, <1>2, PTL DEF DaemonSpec, UsesStore, TypeScript!Spec

================================================================================
