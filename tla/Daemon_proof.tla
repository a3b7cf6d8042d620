------------------------------ MODULE Daemon_proof -----------------------------
(***************************************************************************)
(* Proofs about the SDK and the daemon over it: what list, destroy and     *)
(* snapshot answer is true of the whole call, snapshots go back where they *)
(* came from, and sessions do not go away with a connection.               *)
(***************************************************************************)
EXTENDS Daemon, TLAPS

(* The languages that have a runtime. *)
Registered == {runtimes[i] : i \in DOMAIN runtimes}

(* The parts of TypeOK. *)
RuntimesTyped ==
    /\ runtimes \in Seq(Languages)
    /\ \A i, j \in DOMAIN runtimes : runtimes[i] = runtimes[j] => i = j
    /\ dead \subseteq {"typescript"}

TablesTyped ==
    /\ table \in [Languages -> [Ids -> Globals \cup {None}]]
    /\ owned \in [Clients -> Globals \cup {None}]
    /\ snaps \subseteq Snapshot

CallsTyped ==
    /\ call \in [Clients -> Call]
    /\ \A c \in Clients : call[c].at = "ask" => call[c].next \in DOMAIN runtimes
    /\ made \in Nat

HistoryTyped ==
    /\ told \in [Clients -> [tag : Tags, memory : Globals, ids : SUBSET Ids]]
    /\ always \in [Clients -> SUBSET (Languages \X Ids)]
    /\ ever \in [Clients -> SUBSET (Languages \X Ids)]

(* TypeOK is the conjunction of its parts. *)
LEMMA TypeParts == TypeOK <=> RuntimesTyped /\ TablesTyped /\ CallsTyped /\ HistoryTyped
BY DEF TypeOK, RuntimesTyped, TablesTyped, CallsTyped, HistoryTyped

(* None is none of what it stands beside. *)
LEMMA NoneApart ==
    /\ None \notin Ids /\ None \notin Languages
    /\ None \notin Operations
    /\ None \notin {"create", "run", "destroy", "list", "snapshot", "snapshot_with", "restore"}
    /\ None \notin Globals
BY SdkAssumption DEF Operations, Ops

(* What is known of a call: it has what its operation needs, a Python run  *)
(* is at the Python runtime, and what is restored is at home.              *)
CallOK(c) ==
    LET it == call[c] IN
    /\ it.op # None => runtimes # <<>>
    /\ it.at \in {"ask", "taken"} => it.op # None
    /\ it.at = "taken" =>
         it.op = "run" /\ it.next \in DOMAIN runtimes /\ runtimes[it.next] = "python"
    /\ it.op \notin {None, "list"} => it.sid \in Ids
    /\ it.op \in {"snapshot", "snapshot_with"} => it.sid \in SessionIds
    /\ it.op = "run" => it.tok \in Runs
    /\ it.op = "restore" => it.snap \in Snapshot

HomeOK(c) ==
    call[c].op = "restore" /\ call[c].snap.lang # None =>
        /\ call[c].at = "ask" => runtimes[call[c].next] = call[c].snap.lang
        /\ call[c].at = "replied" =>
             \/ call[c].res.tag = "ok"
             \/ call[c].snap.lang = "typescript" /\ told[c].tag = "error"

(* Snapshots handed out are of languages that have a runtime, and so are   *)
(* sessions; a runtime that is dead has none.                              *)
TablesOK ==
    /\ \A e \in snaps : e.lang \in Registered
    /\ \A l \in Languages, s \in Ids : table[l][s] # None => l \in Registered \ dead

(* Session s was in the table of one of the first n runtimes throughout    *)
(* the call of c, or in some table for a while.                            *)
Stayed(c, n, s) == \E i \in 1..n : i \in DOMAIN runtimes /\ <<runtimes[i], s>> \in always[c]

Seen(c, s) == \E l \in Languages : <<l, s>> \in ever[c]

(* What a call that asks all runtimes has been told so far, and what it    *)
(* answers in the end.                                                     *)
ListOK(c) ==
    /\ Asks(c, {"list"}) =>
         /\ \A s \in Ids : Stayed(c, call[c].next - 1, s) => s \in call[c].res.ids
         /\ \A s \in call[c].res.ids : Seen(c, s)
    /\ Answered(c, "list", {"list"}) =>
         /\ \A l \in Languages, s \in Ids : <<l, s>> \in always[c] => s \in call[c].res.ids
         /\ \A s \in call[c].res.ids : Seen(c, s)

DestroyOK(c) ==
    /\ Asks(c, {"destroy"}) =>
         /\ ~Stayed(c, call[c].next - 1, call[c].sid)
         /\ call[c].res.tag = "removed" => Seen(c, call[c].sid)
    /\ Answered(c, "destroy", {"removed", "absent"}) =>
         \A l \in Languages : <<l, call[c].sid>> \notin always[c]
    /\ Answered(c, "destroy", {"removed"}) => Seen(c, call[c].sid)
    /\ Answered(c, "destroy", {"error"}) => dead # {}

SnapshotOK(c) ==
    /\ Asks(c, {"snapshot"}) => ~Stayed(c, call[c].next - 1, call[c].sid)
    /\ Answered(c, "snapshot", {"not_found"}) => ~Stayed(c, Len(runtimes), call[c].sid)
    /\ Answered(c, "snapshot", {"snapshot"}) =>
         \E i \in DOMAIN runtimes :
            /\ call[c].res.snap.lang = runtimes[i] /\ <<runtimes[i], call[c].sid>> \in ever[c]
            /\ ~Stayed(c, i - 1, call[c].sid)

InquiryOK(c) == ListOK(c) /\ DestroyOK(c) /\ SnapshotOK(c)

(* The inductive invariant. *)
IInv == TypeOK /\ TablesOK /\ \A c \in Clients : CallOK(c) /\ HomeOK(c) /\ InquiryOK(c)

--------------------------------------------------------------------------------
(* Every initial state satisfies the invariant. *)
LEMMA InitIInv == Init => IInv
<1> SUFFICES ASSUME Init PROVE IInv
  OBVIOUS
<1>1. NoCall \in Call /\ NoCall.op = None /\ NoCall.at = "idle"
  BY DEF NoCall, Call, Says, Answers, Tags
<1>2. NoReply \in [tag : Tags, memory : Globals, ids : SUBSET Ids]
  BY DEF NoReply, Reply, Tags, Globals
<1>3. TypeOK
  <2>1. RuntimesTyped
    BY DEF Init, RuntimesTyped
  <2>2. TablesTyped
    BY DEF Init, TablesTyped
  <2>3. CallsTyped
    BY <1>1 DEF Init, CallsTyped
  <2>4. HistoryTyped
    BY <1>2 DEF Init, HistoryTyped
  <2>5. QED
    BY <2>1, <2>2, <2>3, <2>4, TypeParts
<1>4. TablesOK
  BY DEF Init, TablesOK
<1>5. ASSUME NEW c \in Clients PROVE CallOK(c) /\ HomeOK(c) /\ InquiryOK(c)
  <2>1. call[c].at = "idle" /\ call[c].op = None
    BY <1>1 DEF Init
  <2>2. CallOK(c) /\ HomeOK(c)
    BY <2>1, SdkAssumption, NoneApart DEF CallOK, HomeOK
  <2>3. InquiryOK(c)
    BY <2>1 DEF InquiryOK, ListOK, DestroyOK, SnapshotOK, Asks, Answered
  <2>4. QED
    BY <2>2, <2>3
<1>6. QED
  BY <1>3, <1>4, <1>5 DEF IInv

--------------------------------------------------------------------------------
(* What the pieces of an action do *)

LEMMA SaysTyped ==
    ASSUME NEW tag \in Tags \cup {"ran", "invalid_id", "unsupported", "corrupt"}
    PROVE  Says(tag) \in Answers /\ Says(tag).tag = tag /\ Says(tag).ids = {}
BY DEF Says, Answers

LEMMA ReplyTyped ==
    ASSUME NEW tag \in Tags
    PROVE  /\ Reply(tag) \in [tag : Tags, memory : Globals, ids : SUBSET Ids]
           /\ Reply(tag).tag = tag
BY DEF Reply, Globals

LEMMA TokenOld == ASSUME NEW n \in Nat, n < MaxCalls, NEW s \in Ids PROVE <<s, n>> \in Runs
BY ApiAssumption DEF Runs

(* What c is about stays; the others' calls are as they were. *)
Aside(c) ==
    /\ call' \in [Clients -> Call]
    /\ \A d \in Clients \ {c} : call'[d] = call[d]
    /\ call'[c].op = call[c].op /\ call'[c].sid = call[c].sid
    /\ call'[c].snap = call[c].snap /\ call'[c].tok = call[c].tok

LEMMA ReturnsFacts ==
    ASSUME CallsTyped, NEW c \in Clients, NEW res \in Answers, Returns(c, res)
    PROVE  Aside(c) /\ call'[c].at = "replied" /\ call'[c].res = res
<1>1. PICK it \in Call : it = call[c]
  BY DEF CallsTyped
<1>2. [it EXCEPT !.at = "replied", !.res = res] \in Call
  BY <1>1 DEF Call
<1>3. call' = [call EXCEPT ![c] = [it EXCEPT !.at = "replied", !.res = res]]
  BY <1>1 DEF Returns, CallsTyped
<1>4. call' \in [Clients -> Call] /\ call'[c] = [it EXCEPT !.at = "replied", !.res = res]
  BY <1>2, <1>3 DEF CallsTyped
<1>5. \A d \in Clients \ {c} : call'[d] = call[d]
  BY <1>3 DEF CallsTyped
<1>6. QED
  BY <1>1, <1>4, <1>5 DEF Aside, Call

(* A question goes to the next runtime, if there is one. *)
LEMMA GoesOnFacts ==
    ASSUME CallsTyped, RuntimesTyped, NEW c \in Clients, call[c].at = "ask",
           NEW res \in Answers, GoesOn(c, res)
    PROVE  /\ Aside(c) /\ call'[c].res = res
           /\ \/ /\ call'[c].at = "ask" /\ call'[c].next = call[c].next + 1
                 /\ call'[c].next \in DOMAIN runtimes
              \/ call'[c].at = "replied" /\ call[c].next = Len(runtimes)
<1>1. call[c].next \in 1..Len(runtimes) /\ Len(runtimes) \in Nat
  BY DEF CallsTyped, RuntimesTyped
<1>2. CASE call[c].next < Len(runtimes)
  <2>1. PICK it \in Call : it = call[c]
    BY DEF CallsTyped
  <2>2. [it EXCEPT !.next = it.next + 1, !.res = res] \in Call
    <3>1. PICK next \in Nat : next = it.next + 1
      BY <1>1, <2>1
    <3>2. [it EXCEPT !.next = next, !.res = res] \in Call
      BY DEF Call
    <3>3. QED
      BY <3>1, <3>2
  <2>3. call' = [call EXCEPT ![c] = [it EXCEPT !.next = it.next + 1, !.res = res]]
    BY <1>2, <2>1 DEF GoesOn, CallsTyped
  <2>4. /\ call' \in [Clients -> Call]
        /\ call'[c] = [it EXCEPT !.next = it.next + 1, !.res = res]
    BY <2>2, <2>3 DEF CallsTyped
  <2>5. \A d \in Clients \ {c} : call'[d] = call[d]
    BY <2>3 DEF CallsTyped
  <2>6. it.next + 1 \in DOMAIN runtimes
    BY <1>1, <1>2, <2>1 DEF RuntimesTyped
  <2>7. QED
    BY <2>1, <2>4, <2>5, <2>6 DEF Aside, Call
<1>3. CASE ~(call[c].next < Len(runtimes))
  <2>1. Returns(c, res)
    BY <1>3 DEF GoesOn
  <2>2. QED
    BY <1>1, <1>3, <2>1, ReturnsFacts
<1>4. QED
  BY <1>2, <1>3

LEMMA StoresFacts ==
    ASSUME TablesTyped, NEW c \in Clients, NEW s \in Ids, s = Subject(c),
           NEW l \in Languages, l = Asked(c),
           NEW globals \in Globals \cup {None}, Stores(c, globals)
    PROVE  /\ table' \in [Languages -> [Ids -> Globals \cup {None}]]
           /\ table'[l][s] = globals
           /\ \A k \in Languages, r \in Ids : k # l \/ r # s => table'[k][r] = table[k][r]
<1>1. PICK held : held = table[l] /\ held \in [Ids -> Globals \cup {None}]
  BY DEF TablesTyped
<1>2. table' = [table EXCEPT ![l] = [held EXCEPT ![s] = globals]]
  BY <1>1 DEF Stores, TablesTyped
<1>3. [held EXCEPT ![s] = globals] \in [Ids -> Globals \cup {None}]
  BY <1>1
<1>4. table' \in [Languages -> [Ids -> Globals \cup {None}]]
  BY <1>2, <1>3 DEF TablesTyped
<1>5. table'[l] = [held EXCEPT ![s] = globals]
  BY <1>2 DEF TablesTyped
<1>6. \A k \in Languages \ {l} : table'[k] = table[k]
  BY <1>2 DEF TablesTyped
<1>7. \A r \in Ids \ {s} : table'[l][r] = table[l][r]
  BY <1>1, <1>5
<1>8. table'[l][s] = globals
  BY <1>1, <1>5
<1>9. QED
  BY <1>4, <1>6, <1>7, <1>8

LEMMA TellsFacts ==
    ASSUME HistoryTyped, NEW c \in Clients,
           NEW res \in [tag : Tags, memory : Globals, ids : SUBSET Ids], Tells(c, res)
    PROVE  /\ told' \in [Clients -> [tag : Tags, memory : Globals, ids : SUBSET Ids]]
           /\ \A d \in Clients \ {c} : told'[d] = told[d]
           /\ Asked(c) = "typescript" => told'[c] = res
BY DEF HistoryTyped, Tells

--------------------------------------------------------------------------------
(* What a call sees of the tables *)

(* A call that asks has seen what is in the tables; what stayed is there.  *)
LEMMA WatchAsking ==
    ASSUME TypeOK, Watch, NEW c \in Clients, call'[c].at # "idle", Asking(c)
    PROVE  /\ always'[c] \subseteq Held'
           /\ call[c].at # "idle" => always'[c] \subseteq always[c]
           /\ ever[c] \cup Held \cup Held' \subseteq ever'[c]
BY DEF TypeOK, Watch

LEMMA WatchQuiet ==
    ASSUME TypeOK, Watch, NEW c \in Clients, call'[c].at # "idle", ~Asking(c)
    PROVE  always'[c] = always[c] /\ ever'[c] = ever[c]
BY DEF TypeOK, Watch

LEMMA WatchTyped ==
    ASSUME TypeOK, Watch
    PROVE  /\ always' \in [Clients -> SUBSET (Languages \X Ids)]
           /\ ever' \in [Clients -> SUBSET (Languages \X Ids)]
<1>1. PICK before \in SUBSET (Languages \X Ids) : before = Held
  BY DEF Held
<1>2. PICK after \in SUBSET (Languages \X Ids) : after = Held'
  BY DEF Held
<1>3. QED
  BY <1>1, <1>2 DEF TypeOK, Watch

LEMMA HeldFacts ==
    ASSUME NEW l \in Languages, NEW s \in Ids
    PROVE  /\ <<l, s>> \in Held <=> table[l][s] # None
           /\ <<l, s>> \in Held' <=> table'[l][s] # None
BY DEF Held

(* What is known of a call stays known while others take their steps.      *)
LEMMA OthersInquiry ==
    ASSUME TypeOK, Watch, NEW c \in Clients, CallOK(c), InquiryOK(c),
           call'[c] = call[c], runtimes # <<>> => runtimes' = runtimes,
           dead \subseteq dead'
    PROVE  InquiryOK(c)'
<1>1. CASE call[c].at = "idle"
  BY <1>1 DEF InquiryOK, ListOK, DestroyOK, SnapshotOK, Asks, Answered
<1>2. CASE call[c].op \notin {"list", "destroy", "snapshot"}
  BY <1>2 DEF InquiryOK, ListOK, DestroyOK, SnapshotOK, Asks, Answered
<1>3. CASE call[c].at # "idle" /\ call[c].op \in {"list", "destroy", "snapshot"}
  <2>1. always'[c] \subseteq always[c] /\ ever[c] \subseteq ever'[c]
    BY <1>3, WatchAsking, WatchQuiet
  <2>2. runtimes' = runtimes
    BY <1>3, NoneApart DEF CallOK
  <2>3. ASSUME NEW n, NEW s PROVE Stayed(c, n, s)' => Stayed(c, n, s)
    BY <2>1, <2>2 DEF Stayed
  <2>4. ASSUME NEW s PROVE Seen(c, s) => Seen(c, s)'
    BY <2>1 DEF Seen
  <2>5. ListOK(c)'
    <3>1. CASE Asks(c, {"list"})
      <4>1. \A s \in Ids : Stayed(c, call[c].next - 1, s)' => s \in call[c].res.ids
        BY <2>3, <3>1 DEF InquiryOK, ListOK
      <4>2. \A s \in call[c].res.ids : Seen(c, s)'
        BY <2>4, <3>1 DEF InquiryOK, ListOK
      <4>3. QED
        BY <3>1, <4>1, <4>2 DEF ListOK, Asks, Answered, Stayed, Seen
    <3>2. CASE Answered(c, "list", {"list"})
      <4>1. \A l \in Languages, s \in Ids : <<l, s>> \in always'[c] => s \in call[c].res.ids
        BY <2>1, <3>2 DEF InquiryOK, ListOK
      <4>2. \A s \in call[c].res.ids : Seen(c, s)'
        BY <2>4, <3>2 DEF InquiryOK, ListOK
      <4>3. QED
        BY <3>2, <4>1, <4>2 DEF ListOK, Asks, Answered, Seen
    <3>3. CASE ~Asks(c, {"list"}) /\ ~Answered(c, "list", {"list"})
      BY <3>3 DEF ListOK, Asks, Answered
    <3>4. QED
      BY <3>1, <3>2, <3>3
  <2>6. DestroyOK(c)'
    <3>1. Asks(c, {"destroy"}) =>
            ~Stayed(c, call[c].next - 1, call[c].sid)' /\ (call[c].res.tag = "removed" => Seen(c, call[c].sid)')
      BY <2>3, <2>4 DEF InquiryOK, DestroyOK
    <3>2. Answered(c, "destroy", {"removed", "absent"}) =>
            \A l \in Languages : <<l, call[c].sid>> \notin always'[c]
      BY <2>1 DEF InquiryOK, DestroyOK
    <3>3. Answered(c, "destroy", {"removed"}) => Seen(c, call[c].sid)'
      BY <2>4 DEF InquiryOK, DestroyOK
    <3>4. Answered(c, "destroy", {"error"}) => dead' # {}
      BY DEF InquiryOK, DestroyOK
    <3>5. QED
      BY <3>1, <3>2, <3>3, <3>4 DEF DestroyOK, Asks, Answered, Stayed, Seen
  <2>7. SnapshotOK(c)'
    <3>1. Asks(c, {"snapshot"}) => ~Stayed(c, call[c].next - 1, call[c].sid)'
      BY <2>3 DEF InquiryOK, SnapshotOK
    <3>2. Answered(c, "snapshot", {"not_found"}) => ~Stayed(c, Len(runtimes), call[c].sid)'
      BY <2>1, <2>2 DEF InquiryOK, SnapshotOK, Stayed
    <3>3. ASSUME Answered(c, "snapshot", {"snapshot"})
          PROVE  \E i \in DOMAIN runtimes :
                   /\ call[c].res.snap.lang = runtimes[i] /\ <<runtimes[i], call[c].sid>> \in ever'[c]
                   /\ ~Stayed(c, i - 1, call[c].sid)'
      BY <2>1, <2>3, <3>3 DEF InquiryOK, SnapshotOK
    <3>4. QED
      BY <2>2, <3>1, <3>2, <3>3 DEF SnapshotOK, Asks, Answered, Stayed
  <2>8. QED
    BY <2>5, <2>6, <2>7 DEF InquiryOK
<1>4. QED
  BY <1>1, <1>2, <1>3

--------------------------------------------------------------------------------
(* What a step of one call does to the others *)

AllTold == [tag : Tags, memory : Globals, ids : SUBSET Ids]

(* A step of c between two runtimes' answers. *)
Moves(c) ==
    /\ UNCHANGED <<runtimes, dead>>
    /\ TablesTyped' /\ TablesOK'
    /\ made' \in Nat
    /\ call' \in [Clients -> Call] /\ told' \in [Clients -> AllTold]
    /\ \A d \in Clients \ {c} : call'[d] = call[d] /\ told'[d] = told[d]
    /\ call'[c].at = "ask" => call'[c].next \in DOMAIN runtimes

LEMMA MovesStep ==
    ASSUME IInv, Watch, NEW c \in Clients, Moves(c),
           CallOK(c)', HomeOK(c)', InquiryOK(c)'
    PROVE  IInv'
<1>1. TypeOK'
  <2>1. RuntimesTyped'
    BY TypeParts DEF IInv, Moves, RuntimesTyped
  <2>2. CallsTyped'
    BY TypeParts DEF IInv, Moves, CallsTyped
  <2>3. HistoryTyped'
    BY WatchTyped DEF IInv, Moves, AllTold, HistoryTyped
  <2>4. QED
    BY <2>1, <2>2, <2>3 DEF Moves, TypeOK, RuntimesTyped, TablesTyped, CallsTyped, HistoryTyped
<1>2. ASSUME NEW d \in Clients \ {c} PROVE CallOK(d)' /\ HomeOK(d)' /\ InquiryOK(d)'
  <2>1. call'[d] = call[d] /\ told'[d] = told[d] /\ runtimes' = runtimes /\ dead' = dead
    BY DEF Moves
  <2>2. CallOK(d) /\ HomeOK(d) /\ InquiryOK(d)
    BY DEF IInv
  <2>3. CallOK(d)' /\ HomeOK(d)'
    BY <2>1, <2>2 DEF CallOK, HomeOK
  <2>4. InquiryOK(d)'
    BY <2>1, <2>2, OthersInquiry DEF IInv
  <2>5. QED
    BY <2>3, <2>4
<1>3. QED
  BY <1>1, <1>2 DEF IInv, Moves

LEMMA AskedFacts ==
    ASSUME IInv, NEW c \in Clients, call[c].at \in {"ask", "taken"}
    PROVE  /\ Asked(c) \in Languages /\ Asked(c) \in Registered
           /\ call[c].next \in 1..Len(runtimes) /\ Len(runtimes) \in Nat
           /\ call[c].op \in Operations /\ runtimes # <<>>
<1>1. call[c].next \in DOMAIN runtimes
  BY DEF IInv, TypeOK, CallOK
<1>2. call[c].op # None /\ runtimes # <<>>
  BY DEF IInv, CallOK
<1>3. call[c].op \in Operations
  BY <1>2 DEF IInv, TypeOK, Call
<1>4. QED
  BY <1>1, <1>2, <1>3 DEF IInv, TypeOK, Asked, Registered

(* A session that is stored belongs to a runtime that is there. *)
LEMMA StoresTables ==
    ASSUME IInv, NEW c \in Clients, call[c].at \in {"ask", "taken"}, Asked(c) \notin dead,
           Subject(c) \in Ids, NEW globals \in Globals \cup {None}, Stores(c, globals),
           UNCHANGED <<runtimes, dead, snaps>>, owned' \in [Clients -> Globals \cup {None}]
    PROVE  TablesTyped' /\ TablesOK'
<1>1. PICK l \in Languages : l = Asked(c) /\ l \in Registered
  BY AskedFacts
<1>2. PICK s \in Ids : s = Subject(c)
  OBVIOUS
<1>3. /\ table' \in [Languages -> [Ids -> Globals \cup {None}]]
      /\ \A k \in Languages, r \in Ids : k # l \/ r # s => table'[k][r] = table[k][r]
  BY <1>1, <1>2, StoresFacts, TypeParts DEF IInv
<1>4. TablesTyped'
  BY <1>3, TypeParts DEF IInv, TablesTyped
<1>5. TablesOK'
  BY <1>1, <1>2, <1>3 DEF IInv, TablesOK, Registered
<1>6. QED
  BY <1>4, <1>5

(* A runtime answers, and the SDK goes on or returns. *)
LEMMA AnswerMoves ==
    ASSUME IInv, NEW c \in Clients, call[c].at = "ask", Aside(c),
           call'[c].at \in {"ask", "replied"},
           call'[c].at = "ask" => call'[c].next \in DOMAIN runtimes,
           NEW res \in AllTold, Tells(c, res),
           UNCHANGED <<runtimes, dead, made>>, TablesTyped', TablesOK'
    PROVE  /\ Moves(c) /\ CallOK(c)'
           /\ Asked(c) = "typescript" => told'[c] = res
<1>1. /\ told' \in [Clients -> AllTold]
      /\ \A d \in Clients \ {c} : told'[d] = told[d]
      /\ Asked(c) = "typescript" => told'[c] = res
  BY TellsFacts, TypeParts DEF IInv, AllTold
<1>2. Moves(c)
  BY <1>1 DEF Moves, Aside, IInv, TypeOK
<1>3. CallOK(c)'
  BY DEF IInv, CallOK, Aside
<1>4. QED
  BY <1>1, <1>2, <1>3

LEMMA FailsMoves ==
    ASSUME IInv, NEW c \in Clients, call[c].at = "ask", Fails(c),
           UNCHANGED <<runtimes, dead, owned, made>>
    PROVE  /\ Moves(c) /\ CallOK(c)' /\ Aside(c)
           /\ call'[c].at = "replied" /\ call'[c].res.tag = "error"
           /\ Asked(c) = "typescript" => told'[c].tag = "error"
<1>1. /\ Says("error") \in Answers /\ Says("error").tag = "error"
      /\ Reply("error") \in AllTold /\ Reply("error").tag = "error"
  BY SaysTyped, ReplyTyped DEF Tags, AllTold
<1>2. Aside(c) /\ call'[c].at = "replied" /\ call'[c].res = Says("error")
  BY <1>1, ReturnsFacts, TypeParts DEF IInv, Fails
<1>3. TablesTyped' /\ TablesOK'
  BY TypeParts DEF IInv, Fails, TablesTyped, TablesOK, Registered
<1>4. Tells(c, Reply("error"))
  BY DEF Fails
<1>5. QED
  BY <1>1, <1>2, <1>3, <1>4, AnswerMoves

(* A call that asks one runtime only. *)
LEMMA OneQuestion ==
    ASSUME NEW c \in Clients, call'[c].op \notin {"list", "destroy", "snapshot"}
    PROVE  InquiryOK(c)'
BY DEF InquiryOK, ListOK, DestroyOK, SnapshotOK, Asks, Answered

LEMMA NotHome == ASSUME NEW c \in Clients, call'[c].op # "restore" PROVE HomeOK(c)'
BY DEF HomeOK

--------------------------------------------------------------------------------
(* The questions to one runtime *)

LEMMA CreateStep == ASSUME IInv, Watch, NEW c \in Clients, Create(c) PROVE IInv'
<1>1. call[c].at = "ask" /\ call[c].op = "create" /\ UNCHANGED <<runtimes, dead, owned, made>>
  BY DEF Create, Asks
<1>2. Subject(c) \in Ids
  BY <1>1, NoneApart DEF IInv, CallOK, Subject
<1>3. Moves(c) /\ CallOK(c)' /\ Aside(c)
  <2>1. CASE Fails(c)
    BY <1>1, <2>1, FailsMoves
  <2>2. CASE /\ Alive(c)
             /\ Stores(c, IF Subject(c) \in Sessions(Asked(c)) THEN table[Asked(c)][Subject(c)] ELSE {})
             /\ Tells(c, Reply("ok")) /\ Returns(c, Says("ok")) /\ UNCHANGED snaps
    <3>1. Says("ok") \in Answers /\ Reply("ok") \in AllTold
      BY SaysTyped, ReplyTyped DEF Tags, AllTold
    <3>2. Aside(c) /\ call'[c].at = "replied"
      BY <2>2, <3>1, ReturnsFacts, TypeParts DEF IInv
    <3>3. PICK globals \in Globals \cup {None} :
            globals = IF Subject(c) \in Sessions(Asked(c)) THEN table[Asked(c)][Subject(c)] ELSE {}
      BY <1>1, <1>2, AskedFacts, TypeParts DEF IInv, TablesTyped, Globals
    <3>4. Stores(c, globals)
      BY <2>2, <3>3
    <3>5. TablesTyped' /\ TablesOK'
      BY <1>1, <1>2, <2>2, <3>4, StoresTables, TypeParts DEF IInv, TablesTyped, Alive
    <3>6. QED
      BY <1>1, <2>2, <3>1, <3>2, <3>5, AnswerMoves
  <2>3. QED
    BY <2>1, <2>2 DEF Create
<1>4. call'[c].op = "create"
  BY <1>1, <1>3 DEF Aside
<1>5. QED
  BY <1>3, <1>4, MovesStep, OneQuestion, NotHome

(* The globals a run starts from and those it may leave. *)
LEMMA RunGlobals ==
    ASSUME NEW held \in Globals \cup {None}, NEW tok \in Runs
    PROVE  Before(held) \in Globals /\ Before(held) \cup {tok} \in Globals
BY DEF Before, Globals

LEMMA RunTypeScriptStep == ASSUME IInv, Watch, NEW c \in Clients, RunTypeScript(c) PROVE IInv'
<1>1. /\ call[c].at = "ask" /\ call[c].op = "run" /\ Asked(c) = "typescript"
      /\ UNCHANGED <<runtimes, dead, owned, made>>
  BY DEF RunTypeScript, Asks
<1>2. Subject(c) \in Ids /\ call[c].tok \in Runs
  BY <1>1, NoneApart DEF IInv, CallOK, Subject
<1>3. Moves(c) /\ CallOK(c)' /\ Aside(c)
  <2>1. CASE Fails(c)
    BY <1>1, <2>1, FailsMoves
  <2>2. CASE ~Fails(c)
    <3>1. PICK held \in Globals \cup {None} : held = table["typescript"][Subject(c)]
      BY <1>2, TypeParts DEF IInv, TablesTyped, Languages
    <3>2. PICK globals \in Globals, tag \in {"ok", "error"} :
            /\ Alive(c) /\ Stores(c, globals) /\ Tells(c, Reply(tag))
            /\ Returns(c, Says("ran")) /\ UNCHANGED snaps
      <4>1. /\ Before(held) \in Globals /\ Before(held) \cup {call[c].tok} \in Globals
        BY <1>2, <3>1, RunGlobals
      <4>2. /\ Alive(c) /\ UNCHANGED snaps
            /\ \E outcome \in {<<Before(held) \cup {call[c].tok}, "ok">>,
                               <<Before(held) \cup {call[c].tok}, "error">>, <<Before(held), "error">>} :
                 /\ Stores(c, outcome[1])
                 /\ Tells(c, Reply(outcome[2]))
                 /\ Returns(c, Says("ran"))
        BY <2>2, <3>1 DEF RunTypeScript
      <4>3. QED
        BY <4>1, <4>2
    <3>3. Says("ran") \in Answers /\ Reply(tag) \in AllTold
      BY SaysTyped, ReplyTyped DEF Tags, AllTold
    <3>4. Aside(c) /\ call'[c].at = "replied"
      BY <3>2, <3>3, ReturnsFacts, TypeParts DEF IInv
    <3>5. TablesTyped' /\ TablesOK'
      BY <1>1, <1>2, <3>2, StoresTables, TypeParts DEF IInv, TablesTyped, Alive
    <3>6. QED
      BY <1>1, <3>2, <3>3, <3>4, <3>5, AnswerMoves
  <2>3. QED
    BY <2>1, <2>2
<1>4. call'[c].op = "run"
  BY <1>1, <1>3 DEF Aside
<1>5. QED
  BY <1>3, <1>4, MovesStep, OneQuestion, NotHome

LEMMA PythonLives == ASSUME IInv PROVE "python" \notin dead
BY DEF IInv, TypeOK

LEMMA TakePythonStep == ASSUME IInv, Watch, NEW c \in Clients, TakePython(c) PROVE IInv'
<1>1. /\ call[c].at = "ask" /\ call[c].op = "run" /\ Asked(c) = "python"
      /\ UNCHANGED <<runtimes, dead, snaps, made, told>>
      /\ Stores(c, None)
  BY DEF TakePython, Asks
<1>2. Subject(c) \in Ids
  BY <1>1, NoneApart DEF IInv, CallOK, Subject
<1>3. PICK it \in Call : it = call[c]
  BY DEF IInv, TypeOK
<1>4. [it EXCEPT !.at = "taken"] \in Call
  BY DEF Call
<1>5. call' = [call EXCEPT ![c] = [it EXCEPT !.at = "taken"]]
  BY <1>3 DEF TakePython, IInv, TypeOK
<1>6. call' \in [Clients -> Call] /\ call'[c] = [it EXCEPT !.at = "taken"]
  BY <1>4, <1>5 DEF IInv, TypeOK
<1>7. \A d \in Clients \ {c} : call'[d] = call[d]
  BY <1>5 DEF IInv, TypeOK
<1>8. /\ call'[c].at = "taken" /\ call'[c].op = call[c].op /\ call'[c].sid = call[c].sid
      /\ call'[c].tok = call[c].tok /\ call'[c].next = call[c].next
  BY <1>3, <1>6 DEF Call
<1>9. owned' \in [Clients -> Globals \cup {None}]
  <2>1. PICK held \in Globals \cup {None} : held = table["python"][Subject(c)]
    BY <1>2, TypeParts DEF IInv, TablesTyped, Languages
  <2>2. owned' = [owned EXCEPT ![c] = held]
    BY <2>1 DEF TakePython
  <2>3. QED
    BY <2>2 DEF IInv, TypeOK
<1>10. TablesTyped' /\ TablesOK'
  BY <1>1, <1>2, <1>9, StoresTables, PythonLives
<1>11. Moves(c)
  BY <1>1, <1>6, <1>7, <1>8, <1>10 DEF Moves, IInv, TypeOK, AllTold
<1>12. CallOK(c)'
  <2>1. CallOK(c) /\ call[c].next \in DOMAIN runtimes
    BY <1>1 DEF IInv, TypeOK
  <2>2. QED
    BY <1>1, <1>8, <2>1, NoneApart DEF CallOK, Asked
<1>13. call'[c].op = "run"
  BY <1>1, <1>8
<1>14. QED
  BY <1>11, <1>12, <1>13, MovesStep, OneQuestion, NotHome

LEMMA PutPythonStep == ASSUME IInv, Watch, NEW c \in Clients, PutPython(c) PROVE IInv'
<1>1. /\ call[c].at = "taken" /\ call[c].op = "run" /\ Asked(c) = "python"
      /\ UNCHANGED <<runtimes, dead, snaps, made, told>>
      /\ owned' = [owned EXCEPT ![c] = None]
  BY DEF PutPython, IInv, CallOK, Asked
<1>2. Subject(c) \in Ids /\ call[c].tok \in Runs
  BY <1>1, NoneApart DEF IInv, CallOK, Subject
<1>3. PICK globals \in Globals : Stores(c, globals) /\ Returns(c, Says("ran"))
  <2>1. PICK held \in Globals \cup {None} : held = owned[c]
    BY DEF IInv, TypeOK
  <2>2. QED
    BY <1>2, <2>1, RunGlobals DEF PutPython
<1>4. Says("ran") \in Answers
  BY SaysTyped
<1>5. Aside(c) /\ call'[c].at = "replied"
  BY <1>3, <1>4, ReturnsFacts, TypeParts DEF IInv
<1>6. owned' \in [Clients -> Globals \cup {None}]
  BY <1>1 DEF IInv, TypeOK
<1>7. TablesTyped' /\ TablesOK'
  BY <1>1, <1>2, <1>3, <1>6, StoresTables, PythonLives
<1>8. Moves(c)
  BY <1>1, <1>5, <1>7 DEF Moves, Aside, IInv, TypeOK, AllTold
<1>9. CallOK(c)'
  BY <1>1, <1>5 DEF IInv, CallOK, Aside
<1>10. call'[c].op = "run"
  BY <1>1, <1>5 DEF Aside
<1>11. QED
  BY <1>8, <1>9, <1>10, MovesStep, OneQuestion, NotHome

LEMMA RestoreStep == ASSUME IInv, Watch, NEW c \in Clients, Restore(c) PROVE IInv'
<1>1. call[c].at = "ask" /\ call[c].op = "restore" /\ UNCHANGED <<runtimes, dead, owned, made>>
  BY DEF Restore, Asks
<1>2. Subject(c) \in Ids /\ call[c].snap \in Snapshot
  BY <1>1, NoneApart DEF IInv, CallOK, Subject
<1>3. call[c].snap.lang # None => Asked(c) = call[c].snap.lang
  BY <1>1 DEF IInv, HomeOK, Asked
<1>4. /\ Moves(c) /\ CallOK(c)' /\ Aside(c) /\ call'[c].at = "replied"
      /\ \/ call'[c].res.tag = "ok"
         \/ call[c].snap.lang = Asked(c) => Asked(c) = "typescript" /\ told'[c].tag = "error"
  <2>1. CASE (call[c].snap.lang = Asked(c) => Asked(c) = "typescript") /\ Fails(c)
    BY <1>1, <2>1, FailsMoves
  <2>2. CASE /\ Alive(c) /\ call[c].snap.lang = Asked(c)
             /\ Stores(c, call[c].snap.memory)
             /\ Tells(c, Reply("ok")) /\ Returns(c, Says("ok")) /\ UNCHANGED snaps
    <3>1. Says("ok") \in Answers /\ Says("ok").tag = "ok" /\ Reply("ok") \in AllTold
      BY SaysTyped, ReplyTyped DEF Tags, AllTold
    <3>2. Aside(c) /\ call'[c].at = "replied" /\ call'[c].res = Says("ok")
      BY <2>2, <3>1, ReturnsFacts, TypeParts DEF IInv
    <3>3. PICK globals \in Globals : globals = call[c].snap.memory
      BY <1>2 DEF Snapshot
    <3>4. TablesTyped' /\ TablesOK'
      BY <1>1, <1>2, <2>2, <3>3, StoresTables, TypeParts DEF IInv, TablesTyped, Alive
    <3>5. QED
      BY <1>1, <2>2, <3>1, <3>2, <3>4, AnswerMoves
  <2>3. QED
    BY <2>1, <2>2 DEF Restore
<1>5. HomeOK(c)'
  <2>1. call'[c].snap = call[c].snap /\ call'[c].at = "replied"
    BY <1>4 DEF Aside
  <2>2. CASE call'[c].res.tag = "ok"
    BY <2>1, <2>2 DEF HomeOK
  <2>3. CASE call'[c].res.tag # "ok" /\ call[c].snap.lang # None
    <3>1. call[c].snap.lang = "typescript" /\ told'[c].tag = "error"
      BY <1>3, <1>4, <2>3
    <3>2. QED
      BY <2>1, <3>1 DEF HomeOK
  <2>4. CASE call[c].snap.lang = None
    BY <2>1, <2>4 DEF HomeOK
  <2>5. QED
    BY <2>2, <2>3, <2>4
<1>6. call'[c].op = "restore"
  BY <1>1, <1>4 DEF Aside
<1>7. QED
  BY <1>4, <1>5, <1>6, MovesStep, OneQuestion

--------------------------------------------------------------------------------
(* The questions to every runtime *)

(* When the next runtime has been asked, or the last. *)
LEMMA StayedNext ==
    ASSUME TypeOK, Watch, NEW c \in Clients, call[c].at = "ask", call'[c].at # "idle",
           call'[c].op \in {"list", "destroy", "snapshot"}, runtimes' = runtimes,
           call[c].next \in 1..Len(runtimes), Len(runtimes) \in Nat,
           NEW s \in Ids, ~Stayed(c, call[c].next - 1, s), table'[Asked(c)][s] = None
    PROVE  \A n \in Nat : n <= call[c].next => ~Stayed(c, n, s)'
<1>1. always'[c] \subseteq always[c] /\ always'[c] \subseteq Held'
  BY WatchAsking DEF Asking
<1>2. PICK next \in Nat : next = call[c].next /\ next \in DOMAIN runtimes
  BY DEF TypeOK
<1>3. Asked(c) = runtimes[next] /\ runtimes[next] \in Languages
  BY <1>2 DEF Asked, TypeOK
<1>4. <<runtimes[next], s>> \notin always'[c]
  BY <1>1, <1>3, HeldFacts
<1>5. ASSUME NEW n \in Nat, n <= next, NEW i \in 1..n, i \in DOMAIN runtimes,
             <<runtimes[i], s>> \in always'[c]
      PROVE  FALSE
  <2>1. i # next
    BY <1>4, <1>5
  <2>2. i \in 1..(next - 1)
    BY <1>5, <2>1
  <2>3. QED
    BY <1>1, <1>2, <1>5, <2>2 DEF Stayed
<1>6. QED
  BY <1>2, <1>5 DEF Stayed

(* What stayed is in the table of a runtime that is there. *)
LEMMA AlwaysRegistered ==
    ASSUME TypeOK, Watch, TablesOK', NEW c \in Clients, call[c].at = "ask", call'[c].at # "idle",
           call'[c].op \in {"list", "destroy", "snapshot"}, runtimes' = runtimes,
           NEW l \in Languages, NEW s \in Ids, <<l, s>> \in always'[c]
    PROVE  Stayed(c, Len(runtimes), s)'
<1>1. <<l, s>> \in Held'
  BY WatchAsking DEF Asking
<1>2. table'[l][s] # None
  BY <1>1, HeldFacts
<1>3. l \in Registered'
  BY <1>2 DEF TablesOK
<1>4. PICK i \in DOMAIN runtimes' : runtimes'[i] = l
  BY <1>3 DEF Registered
<1>5. i \in 1..Len(runtimes')
  BY <1>4 DEF TypeOK
<1>6. <<runtimes'[i], s>> \in always'[c]
  BY <1>4
<1>7. QED
  BY <1>4, <1>5, <1>6 DEF Stayed

LEMMA ListStep == ASSUME IInv, Watch, NEW c \in Clients, List(c) PROVE IInv'
<1>1. /\ call[c].at = "ask" /\ call[c].op = "list"
      /\ UNCHANGED <<runtimes, table, dead, owned, snaps, made>>
  BY DEF List, Asks
<1>2. PICK l \in Languages : l = Asked(c)
  BY <1>1, AskedFacts
<1>3. PICK before \in SUBSET Ids : before = call[c].res.ids
  BY DEF IInv, TypeOK, Call, Answers
<1>4. PICK res \in Answers, reply \in AllTold :
        /\ GoesOn(c, res) /\ Tells(c, reply)
        /\ res.ids = before \cup {s \in Ids : l \notin dead /\ table[l][s] # None}
  <2>1. /\ [Says("list") EXCEPT !.ids = before] \in Answers
        /\ [Says("list") EXCEPT !.ids = before].ids = before
    BY DEF Says, Answers, Tags
  <2>2. CASE Alive(c)
    <3>1. PICK res : res = [[Says("list") EXCEPT !.ids = before] EXCEPT !.ids = @ \cup Sessions(l)]
      OBVIOUS
    <3>2. res \in Answers /\ res.ids = before \cup Sessions(l)
      BY <3>1 DEF Says, Answers, Tags, Sessions
    <3>3. ListReply(Sessions(l)) \in AllTold
      BY DEF ListReply, AllTold, Tags, Globals, Sessions
    <3>4. GoesOn(c, res) /\ Tells(c, ListReply(Sessions(l)))
      BY <1>2, <1>3, <2>2, <3>1 DEF List
    <3>5. QED
      BY <1>2, <2>2, <3>2, <3>3, <3>4 DEF Sessions, Alive
  <2>3. CASE ~Alive(c)
    <3>1. GoesOn(c, [Says("list") EXCEPT !.ids = before]) /\ Tells(c, Reply("error"))
      BY <1>3, <2>3 DEF List
    <3>2. Reply("error") \in AllTold
      BY ReplyTyped DEF Tags, AllTold
    <3>3. QED
      BY <1>2, <2>1, <2>3, <3>1, <3>2 DEF Alive
  <2>4. QED
    BY <2>2, <2>3
<1>5. /\ Aside(c) /\ call'[c].res = res
      /\ \/ /\ call'[c].at = "ask" /\ call'[c].next = call[c].next + 1
            /\ call'[c].next \in DOMAIN runtimes
         \/ call'[c].at = "replied" /\ call[c].next = Len(runtimes)
  BY <1>1, <1>4, GoesOnFacts, TypeParts DEF IInv
<1>6. TablesTyped' /\ TablesOK'
  BY <1>1, TypeParts DEF IInv, TablesTyped, TablesOK, Registered
<1>7. Moves(c) /\ CallOK(c)'
  BY <1>1, <1>4, <1>5, <1>6, AnswerMoves
<1>8. call'[c].op = "list"
  BY <1>1, <1>5 DEF Aside
<1>9. call[c].next \in 1..Len(runtimes) /\ Len(runtimes) \in Nat
  BY <1>1, AskedFacts
<1>10. ASSUME NEW s \in Ids, s \notin res.ids, NEW n \in Nat, n <= call[c].next
       PROVE  ~Stayed(c, n, s)'
  <2>1. table'[l][s] = None
    <3>1. l \in dead => table[l][s] = None
      BY DEF IInv, TablesOK
    <3>2. QED
      BY <1>1, <1>4, <1>10, <3>1
  <2>2. ~Stayed(c, call[c].next - 1, s)
    BY <1>1, <1>3, <1>4, <1>10 DEF IInv, InquiryOK, ListOK, Asks
  <2>3. QED
    BY <1>1, <1>2, <1>5, <1>8, <1>9, <1>10, <2>1, <2>2, StayedNext DEF IInv
<1>11. ASSUME NEW s \in res.ids PROVE Seen(c, s)'
  <2>1. ever[c] \cup Held \subseteq ever'[c]
    BY <1>1, <1>5, <1>8, WatchAsking DEF Asking, IInv
  <2>2. s \in before => Seen(c, s)
    BY <1>1, <1>3 DEF IInv, InquiryOK, ListOK, Asks
  <2>3. s \notin before => s \in Ids /\ table[l][s] # None
    BY <1>4, <1>11
  <2>4. QED
    BY <2>1, <2>2, <2>3, HeldFacts DEF Seen
<1>12. ListOK(c)'
  <2>1. ASSUME Asks(c, {"list"})'
        PROVE  \A s \in Ids : Stayed(c, call[c].next - 1, s)' => s \in res.ids
    <3>1. call'[c].next - 1 = call[c].next /\ call[c].next \in Nat
      BY <1>5, <1>9, <2>1 DEF Asks
    <3>2. QED
      BY <1>10, <3>1
  <2>2. ASSUME Answered(c, "list", {"list"})', NEW k \in Languages, NEW s \in Ids, <<k, s>> \in always'[c]
        PROVE  s \in res.ids
    <3>1. Stayed(c, Len(runtimes), s)'
      BY <1>1, <1>5, <1>6, <1>8, <2>2, AlwaysRegistered DEF IInv
    <3>2. PICK n \in Nat : n = Len(runtimes) /\ n = call[c].next
      BY <1>5, <1>9, <2>2 DEF Answered
    <3>3. Stayed(c, n, s)'
      BY <1>1, <3>1, <3>2
    <3>4. QED
      BY <1>10, <3>2, <3>3
  <2>3. QED
    BY <1>5, <1>11, <2>1, <2>2 DEF ListOK
<1>13. InquiryOK(c)' /\ HomeOK(c)'
  BY <1>8, <1>12, NotHome DEF InquiryOK, DestroyOK, SnapshotOK, Asks, Answered
<1>14. QED
  BY <1>7, <1>13, MovesStep

LEMMA DestroyStep == ASSUME IInv, Watch, NEW c \in Clients, Destroy(c) PROVE IInv'
<1>1. call[c].at = "ask" /\ call[c].op = "destroy" /\ UNCHANGED <<runtimes, dead, owned, made>>
  BY DEF Destroy, Asks
<1>2. PICK s \in Ids : s = Subject(c) /\ s = call[c].sid
  BY <1>1, NoneApart DEF IInv, CallOK, Subject
<1>3. PICK l \in Languages : l = Asked(c)
  BY <1>1, AskedFacts
<1>4. CASE ~Alive(c) /\ Fails(c)
  <2>1. /\ Moves(c) /\ CallOK(c)' /\ Aside(c)
        /\ call'[c].at = "replied" /\ call'[c].res.tag = "error"
    BY <1>1, <1>4, FailsMoves
  <2>2. dead' # {}
    BY <1>1, <1>4 DEF Alive
  <2>3. InquiryOK(c)' /\ HomeOK(c)'
    BY <1>1, <2>1, <2>2, NotHome
       DEF Aside, InquiryOK, ListOK, DestroyOK, SnapshotOK, Asks, Answered
  <2>4. QED
    BY <2>1, <2>3, MovesStep
<1>5. CASE /\ Alive(c)
           /\ LET found == Subject(c) \in Sessions(Asked(c))
              IN /\ Tells(c, Reply(IF found THEN "removed" ELSE "absent"))
                 /\ GoesOn(c, Says(IF found \/ call[c].res.tag = "removed"
                                   THEN "removed" ELSE "absent"))
           /\ Stores(c, None)
           /\ UNCHANGED snaps
  <2>1. PICK tag \in {"removed", "absent"}, told_tag \in {"removed", "absent"} :
          /\ Tells(c, Reply(told_tag)) /\ GoesOn(c, Says(tag))
          /\ tag = "removed" => table[l][s] # None \/ call[c].res.tag = "removed"
    BY <1>2, <1>3, <1>5 DEF Sessions
  <2>2. /\ Says(tag) \in Answers /\ Says(tag).tag = tag
        /\ Reply(told_tag) \in AllTold
    BY SaysTyped, ReplyTyped DEF Tags, AllTold
  <2>3. /\ Aside(c) /\ call'[c].res = Says(tag)
        /\ \/ /\ call'[c].at = "ask" /\ call'[c].next = call[c].next + 1
              /\ call'[c].next \in DOMAIN runtimes
           \/ call'[c].at = "replied" /\ call[c].next = Len(runtimes)
    BY <1>1, <2>1, <2>2, GoesOnFacts, TypeParts DEF IInv
  <2>4. TablesTyped' /\ TablesOK'
    BY <1>1, <1>2, <1>5, StoresTables, TypeParts DEF IInv, TablesTyped, Alive
  <2>5. Moves(c) /\ CallOK(c)'
    BY <1>1, <2>1, <2>2, <2>3, <2>4, AnswerMoves
  <2>6. call'[c].op = "destroy" /\ call'[c].sid = s /\ call'[c].res.tag = tag
    BY <1>1, <1>2, <2>2, <2>3 DEF Aside
  <2>7. call[c].next \in 1..Len(runtimes) /\ Len(runtimes) \in Nat
    BY <1>1, AskedFacts
  <2>8. ASSUME NEW n \in Nat, n <= call[c].next PROVE ~Stayed(c, n, s)'
    <3>1. table'[l][s] = None
      <4>1. PICK globals \in Globals \cup {None} : globals = None /\ Stores(c, globals)
        BY <1>5
      <4>2. TablesTyped
        BY TypeParts DEF IInv
      <4>3. s = Subject(c) /\ l = Asked(c)
        BY <1>2, <1>3
      <4>4. /\ table' \in [Languages -> [Ids -> Globals \cup {None}]]
            /\ table'[l][s] = globals
        BY <4>1, <4>2, <4>3, StoresFacts
      <4>5. QED
        BY <4>1, <4>4
    <3>2. ~Stayed(c, call[c].next - 1, s)
      BY <1>1, <1>2 DEF IInv, InquiryOK, DestroyOK, Asks
    <3>3. QED
      BY <1>1, <1>3, <2>3, <2>6, <2>7, <2>8, <3>1, <3>2, StayedNext DEF IInv
  <2>9. ASSUME tag = "removed" PROVE Seen(c, s)'
    <3>1. ever[c] \cup Held \subseteq ever'[c]
      BY <1>1, <2>3, <2>6, WatchAsking DEF Asking, IInv
    <3>2. call[c].res.tag = "removed" => Seen(c, s)
      BY <1>1, <1>2 DEF IInv, InquiryOK, DestroyOK, Asks
    <3>3. QED
      BY <2>1, <2>9, <3>1, <3>2, HeldFacts DEF Seen
  <2>10. DestroyOK(c)'
    <3>1. ASSUME Asks(c, {"destroy"})' PROVE ~Stayed(c, call[c].next - 1, s)'
      <4>1. call'[c].next - 1 = call[c].next /\ call[c].next \in Nat
        BY <2>3, <2>7, <3>1 DEF Asks
      <4>2. QED
        BY <2>8, <4>1
    <3>2. ASSUME Answered(c, "destroy", {"removed", "absent"})', NEW k \in Languages,
                 <<k, s>> \in always'[c]
          PROVE  FALSE
      <4>1. Stayed(c, Len(runtimes), s)'
        BY <1>1, <2>3, <2>4, <2>6, <3>2, AlwaysRegistered DEF IInv
      <4>2. PICK n \in Nat : n = Len(runtimes) /\ n = call[c].next
        BY <2>3, <2>7, <3>2 DEF Answered
      <4>3. QED
        BY <1>1, <2>8, <4>1, <4>2
    <3>3. call'[c].res.tag # "error"
      BY <2>6
    <3>4. QED
      BY <2>6, <2>9, <3>1, <3>2, <3>3 DEF DestroyOK, Answered
  <2>11. InquiryOK(c)' /\ HomeOK(c)'
    BY <2>6, <2>10, NotHome DEF InquiryOK, ListOK, SnapshotOK, Asks, Answered
  <2>12. QED
    BY <2>5, <2>11, MovesStep
<1>6. QED
  BY <1>4, <1>5 DEF Destroy

LEMMA TakeSnapshotStep == ASSUME IInv, Watch, NEW c \in Clients, TakeSnapshot(c) PROVE IInv'
<1>1. /\ call[c].at = "ask" /\ call[c].op \in {"snapshot", "snapshot_with"}
      /\ UNCHANGED <<runtimes, dead, owned, made>>
  BY DEF TakeSnapshot, Asks
<1>2. PICK s \in SessionIds : s = Subject(c) /\ s = call[c].sid
  BY <1>1 DEF IInv, CallOK, Subject
<1>3. PICK l \in Languages : l = Asked(c) /\ l \in Registered
  BY <1>1, AskedFacts
<1>4. s \in Ids
  BY DEF Ids
<1>5. CASE Fails(c)
  <2>1. /\ Moves(c) /\ CallOK(c)' /\ Aside(c)
        /\ call'[c].at = "replied" /\ call'[c].res.tag = "error"
    BY <1>1, <1>5, FailsMoves
  <2>2. InquiryOK(c)' /\ HomeOK(c)'
    BY <1>1, <2>1, NotHome DEF Aside, InquiryOK, ListOK, DestroyOK, SnapshotOK, Asks, Answered
  <2>3. QED
    BY <2>1, <2>2, MovesStep
<1>6. CASE /\ Alive(c) /\ s \in Sessions(l)
           /\ Tells(c, SnapshotReply(table[l][s]))
           /\ Returns(c, [Says("snapshot") EXCEPT
                            !.snap = [lang |-> l, sid |-> s, memory |-> table[l][s]]])
           /\ snaps' = snaps \cup {[lang |-> l, sid |-> s, memory |-> table[l][s]]}
           /\ UNCHANGED table
  <2>1. PICK globals \in Globals : globals = table[l][s] /\ table[l][s] # None
    BY <1>4, <1>6, TypeParts DEF IInv, TablesTyped, Sessions
  <2>2. PICK e \in Snapshot : e = [lang |-> l, sid |-> s, memory |-> globals]
    BY DEF Snapshot
  <2>3. e.lang = l
    BY <2>2
  <2>4. PICK res \in Answers :
          res = [Says("snapshot") EXCEPT !.snap = e] /\ res.snap = e /\ res.tag = "snapshot"
    <3>1. Says("snapshot") \in Answers /\ Says("snapshot").tag = "snapshot"
      BY SaysTyped DEF Tags
    <3>2. PICK res : res = [Says("snapshot") EXCEPT !.snap = e]
      OBVIOUS
    <3>3. res \in Answers /\ res.snap = e /\ res.tag = "snapshot"
      BY <3>1, <3>2 DEF Answers
    <3>4. QED
      BY <3>2, <3>3
  <2>5. SnapshotReply(globals) \in AllTold
    BY DEF SnapshotReply, AllTold, Tags
  <2>6. Tells(c, SnapshotReply(globals)) /\ Returns(c, res)
    BY <1>6, <2>1, <2>2, <2>4
  <2>7. Aside(c) /\ call'[c].at = "replied" /\ call'[c].res = res
    BY <2>6, ReturnsFacts, TypeParts DEF IInv
  <2>8. TablesTyped' /\ TablesOK'
    <3>1. snaps' = snaps \cup {e}
      BY <1>6, <2>1, <2>2
    <3>2. QED
      BY <1>1, <1>3, <1>6, <2>3, <3>1, TypeParts DEF IInv, TablesTyped, TablesOK, Registered
  <2>9. Moves(c) /\ CallOK(c)'
    BY <1>1, <2>5, <2>6, <2>7, <2>8, AnswerMoves
  <2>10. call'[c].op = call[c].op /\ call'[c].sid = s
    BY <1>2, <2>7 DEF Aside
  <2>11. ASSUME call[c].op = "snapshot" PROVE SnapshotOK(c)'
    <3>1. ever[c] \cup Held \subseteq ever'[c] /\ always'[c] \subseteq always[c]
      BY <1>1, <2>7, <2>10, <2>11, WatchAsking DEF Asking, IInv
    <3>2. PICK i \in DOMAIN runtimes : i = call[c].next /\ runtimes[i] = l
      BY <1>1, <1>3 DEF IInv, TypeOK, Asked
    <3>3. <<runtimes[i], s>> \in ever'[c]
      BY <1>4, <2>1, <3>1, <3>2, HeldFacts
    <3>4. ~Stayed(c, i - 1, s)
      BY <1>1, <1>2, <2>11, <3>2 DEF IInv, InquiryOK, SnapshotOK, Asks
    <3>5. ~Stayed(c, i - 1, s)'
      BY <1>1, <3>1, <3>4 DEF Stayed
    <3>6. call'[c].res.snap.lang = runtimes'[i] /\ i \in DOMAIN runtimes'
      BY <1>1, <2>3, <2>4, <2>7, <3>2
    <3>7. call'[c].at = "replied" /\ call'[c].res.tag = "snapshot" /\ call'[c].sid = s
      BY <2>4, <2>7, <2>10
    <3>8. QED
      BY <1>1, <3>3, <3>5, <3>6, <3>7 DEF SnapshotOK, Asks, Answered
  <2>12. InquiryOK(c)' /\ HomeOK(c)'
    BY <1>1, <2>10, <2>11, NotHome DEF InquiryOK, ListOK, DestroyOK, SnapshotOK, Asks, Answered
  <2>13. QED
    BY <2>9, <2>12, MovesStep
<1>7. CASE /\ Alive(c) /\ s \notin Sessions(l)
           /\ Tells(c, Reply("not_found"))
           /\ IF call[c].op = "snapshot"
              THEN GoesOn(c, Says("not_found")) ELSE Returns(c, Says("not_found"))
           /\ UNCHANGED <<table, snaps>>
  <2>1. /\ Says("not_found") \in Answers /\ Says("not_found").tag = "not_found"
        /\ Reply("not_found") \in AllTold
    BY SaysTyped, ReplyTyped DEF Tags, AllTold
  <2>2. /\ Aside(c) /\ call'[c].res = Says("not_found")
        /\ \/ /\ call'[c].at = "ask" /\ call'[c].next = call[c].next + 1
              /\ call'[c].next \in DOMAIN runtimes
           \/ call'[c].at = "replied" /\ (call[c].op = "snapshot" => call[c].next = Len(runtimes))
    <3>1. CASE call[c].op = "snapshot"
      BY <1>1, <1>7, <2>1, <3>1, GoesOnFacts, TypeParts DEF IInv
    <3>2. CASE call[c].op # "snapshot"
      BY <1>7, <2>1, <3>2, ReturnsFacts, TypeParts DEF IInv
    <3>3. QED
      BY <3>1, <3>2
  <2>3. TablesTyped' /\ TablesOK'
    BY <1>1, <1>7, TypeParts DEF IInv, TablesTyped, TablesOK, Registered
  <2>4. Moves(c) /\ CallOK(c)'
    BY <1>1, <1>7, <2>1, <2>2, <2>3, AnswerMoves
  <2>5. call'[c].op = call[c].op /\ call'[c].sid = s /\ call'[c].res.tag = "not_found"
    BY <1>2, <2>1, <2>2 DEF Aside
  <2>6. ASSUME call[c].op = "snapshot" PROVE SnapshotOK(c)'
    <3>1. call[c].next \in 1..Len(runtimes) /\ Len(runtimes) \in Nat
      BY <1>1, AskedFacts
    <3>2. ASSUME NEW n \in Nat, n <= call[c].next PROVE ~Stayed(c, n, s)'
      <4>1. table'[l][s] = None
        BY <1>4, <1>7 DEF Sessions
      <4>2. ~Stayed(c, call[c].next - 1, s)
        BY <1>1, <1>2, <2>6 DEF IInv, InquiryOK, SnapshotOK, Asks
      <4>3. call'[c].at # "idle" /\ call'[c].op = "snapshot"
        BY <2>2, <2>5, <2>6
      <4>4. QED
        BY <1>1, <1>3, <1>4, <3>1, <3>2, <4>1, <4>2, <4>3, StayedNext DEF IInv
    <3>3. ASSUME Asks(c, {"snapshot"})' PROVE ~Stayed(c, call[c].next - 1, s)'
      <4>1. call'[c].next - 1 = call[c].next /\ call[c].next \in Nat
        BY <2>2, <3>1, <3>3 DEF Asks
      <4>2. QED
        BY <3>2, <4>1
    <3>4. ASSUME call'[c].at = "replied" PROVE ~Stayed(c, Len(runtimes), s)'
      <4>1. PICK n \in Nat : n = Len(runtimes) /\ n = call[c].next
        BY <2>2, <2>6, <3>1, <3>4
      <4>2. QED
        BY <1>1, <3>2, <4>1
    <3>5. QED
      BY <2>5, <3>3, <3>4 DEF SnapshotOK, Answered
  <2>7. InquiryOK(c)' /\ HomeOK(c)'
    BY <1>1, <2>5, <2>6, NotHome DEF InquiryOK, ListOK, DestroyOK, SnapshotOK, Asks, Answered
  <2>8. QED
    BY <2>4, <2>7, MovesStep
<1>8. QED
  BY <1>2, <1>3, <1>5, <1>6, <1>7 DEF TakeSnapshot

--------------------------------------------------------------------------------
(* The beginning and the end of a call *)

LEMMA SpeakerFacts ==
    ASSUME RuntimesTyped, NEW l
    PROVE  /\ Speaker(l) \in {0} \cup DOMAIN runtimes
           /\ Speaker(l) # 0 => runtimes[Speaker(l)] = l
           /\ l \in Registered => Speaker(l) # 0
<1> DEFINE speakers == {i \in DOMAIN runtimes : runtimes[i] = l}
<1>1. DOMAIN runtimes = 1..Len(runtimes) /\ Len(runtimes) \in Nat
  BY DEF RuntimesTyped
<1>2. CASE speakers = {}
  BY <1>2 DEF Speaker, Registered
<1>3. CASE speakers # {}
  <2>1. PICK i : i = Speaker(l) /\ i \in speakers
    BY <1>3 DEF Speaker
  <2>2. QED
    BY <1>1, <2>1
<1>4. QED
  BY <1>2, <1>3

(* The requests that are made of the SDK. *)
MadeRequests == Requests \cup RpcRequests

LEMMA RequestsTyped ==
    ASSUME IInv, NEW req \in MadeRequests
    PROVE  /\ req.op \in Operations
           /\ req.sid \in Ids \cup {None}
           /\ req.op \notin {"list", "restore"} => req.sid \in Ids
           /\ req.op \in {"snapshot", "snapshot_with"} => req.checked
           /\ IF req.op = "restore"
              THEN req.snap \in Snapshot /\ (req.snap.lang # None => req.snap.lang \in Registered)
              ELSE req.snap = None
<1>1. ASSUME NEW op, NEW s, NEW l
      PROVE  /\ WithLanguage(op, s, l).op = op /\ WithLanguage(op, s, l).sid = s
             /\ WithLanguage(op, s, l).snap = None /\ WithLanguage(op, s, l).checked
  BY DEF WithLanguage, Plain
<1>2. ASSUME NEW op \in {"create", "run", "snapshot_with"}, NEW s \in Ids, NEW l \in Languages,
             req = WithLanguage(op, s, l)
      PROVE  /\ req.op \in {"create", "run", "snapshot_with"} /\ req.sid \in Ids
             /\ req.snap = None /\ req.checked
  BY <1>1, <1>2
<1>3. ASSUME NEW s \in Ids, NEW l \in Languages,
             req = [WithLanguage("run", s, l) EXCEPT !.checked = FALSE]
      PROVE  req.op = "run" /\ req.sid \in Ids /\ req.snap = None
  BY <1>3 DEF WithLanguage, Plain
<1>4. ASSUME NEW op \in {"destroy", "snapshot"}, NEW s \in Ids, req = Plain(op, s)
      PROVE  req.op \in {"destroy", "snapshot"} /\ req.sid \in Ids /\ req.snap = None /\ req.checked
  BY <1>4 DEF Plain
<1>5. ASSUME req = Plain("list", None)
      PROVE  req.op = "list" /\ req.sid = None /\ req.snap = None
  BY <1>5 DEF Plain
<1>6. ASSUME NEW s \in Ids \cup {None}, NEW e \in snaps \cup Foreign,
             req = [Plain("restore", s) EXCEPT !.snap = e]
      PROVE  /\ req.op = "restore" /\ req.sid \in Ids \cup {None}
             /\ req.snap \in Snapshot /\ (req.snap.lang # None => req.snap.lang \in Registered)
  <2>1. req.op = "restore" /\ req.sid = s /\ req.snap = e
    BY <1>6 DEF Plain
  <2>2. e \in snaps => e \in Snapshot /\ e.lang \in Registered
    BY DEF IInv, TypeOK, TablesOK
  <2>3. e \in Foreign => e \in Snapshot /\ e.lang = None
    BY DEF Foreign, Snapshot, Globals
  <2>4. QED
    BY <2>1, <2>2, <2>3
<1>7. BadIds \subseteq Ids
  BY DEF Ids
<1>8. QED
  BY <1>2, <1>3, <1>4, <1>5, <1>6, <1>7 DEF MadeRequests, Requests, RpcRequests, Operations, Ops, Languages

(* A call that the SDK refuses, or answers, before any runtime is asked. *)
LEMMA RefusedStep ==
    ASSUME IInv, Watch, NEW c \in Clients, call[c].at = "idle", NEW tag,
           tag \in Tags \cup {"ran", "invalid_id", "unsupported", "corrupt"},
           call' = [call EXCEPT ![c] = [NoCall EXCEPT !.at = "replied", !.res = Says(tag)]],
           made' \in Nat, UNCHANGED <<runtimes, table, dead, owned, snaps, told>>
    PROVE  IInv'
<1>1. PICK res \in Answers : res = Says(tag)
  BY SaysTyped
<1>2. PICK it \in Call : /\ it = [NoCall EXCEPT !.at = "replied", !.res = res]
                         /\ it.at = "replied" /\ it.op = None
  <2>1. NoCall \in Call /\ NoCall.op = None
    BY DEF NoCall, Call, Says, Answers, Tags
  <2>2. PICK it : it = [NoCall EXCEPT !.at = "replied", !.res = res]
    OBVIOUS
  <2>3. it \in Call /\ it.at = "replied" /\ it.op = None
    BY <2>1, <2>2 DEF Call
  <2>4. QED
    BY <2>2, <2>3
<1>3. call' = [call EXCEPT ![c] = it]
  BY <1>1, <1>2
<1>4. call' \in [Clients -> Call] /\ call'[c] = it /\ \A d \in Clients \ {c} : call'[d] = call[d]
  BY <1>3 DEF IInv, TypeOK
<1>5. TablesTyped' /\ TablesOK'
  BY TypeParts DEF IInv, TablesTyped, TablesOK, Registered
<1>6. Moves(c)
  BY <1>2, <1>4, <1>5 DEF Moves, IInv, TypeOK, AllTold
<1>7. CallOK(c)'
  BY <1>2, <1>4, NoneApart DEF CallOK
<1>8. call'[c].op = None
  BY <1>2, <1>4
<1>9. QED
  BY <1>6, <1>7, <1>8, MovesStep, OneQuestion, NotHome, NoneApart

LEMMA ReturnStep == ASSUME IInv, Watch, NEW c \in Clients, Return(c) PROVE IInv'
<1>1. NoCall \in Call /\ NoCall.op = None /\ NoCall.at = "idle"
  BY DEF NoCall, Call, Says, Answers, Tags
<1>2. /\ call' \in [Clients -> Call] /\ call'[c] = NoCall
      /\ \A d \in Clients \ {c} : call'[d] = call[d]
  BY <1>1 DEF Return, IInv, TypeOK
<1>3. NoReply \in AllTold
  BY ReplyTyped DEF NoReply, Tags, AllTold
<1>4. told' \in [Clients -> AllTold] /\ \A d \in Clients \ {c} : told'[d] = told[d]
  BY <1>3 DEF Return, IInv, TypeOK, AllTold
<1>5. TablesTyped' /\ TablesOK'
  BY TypeParts DEF IInv, Return, TablesTyped, TablesOK, Registered
<1>6. Moves(c)
  BY <1>1, <1>2, <1>4, <1>5 DEF Moves, Return, IInv, TypeOK
<1>7. CallOK(c)'
  BY <1>1, <1>2, NoneApart DEF CallOK
<1>8. call'[c].op = None
  BY <1>1, <1>2
<1>9. QED
  BY <1>6, <1>7, <1>8, MovesStep, OneQuestion, NotHome, NoneApart

LEMMA StartStep ==
    ASSUME IInv, Watch, NEW c \in Clients, NEW req \in MadeRequests, Start(c, req)
    PROVE  IInv'
<1>1. /\ runtimes # <<>> /\ call[c].at = "idle" /\ made < MaxCalls /\ made \in Nat
      /\ made' = made + 1 /\ UNCHANGED <<runtimes, table, dead, owned, snaps, told>>
  BY DEF Start, IInv, TypeOK
<1>2. CASE Refusal(req) # "none"
  <2>1. Refusal(req) \in {"invalid_id", "unsupported", "corrupt"}
    BY <1>2 DEF Refusal
  <2>2. PICK tag \in {"invalid_id", "unsupported", "corrupt"} :
          call' = [call EXCEPT ![c] = [NoCall EXCEPT !.at = "replied", !.res = Says(tag)]]
    BY <1>2, <2>1 DEF Start
  <2>3. made' \in Nat /\ tag \in Tags \cup {"ran", "invalid_id", "unsupported", "corrupt"}
    BY <1>1
  <2>4. QED
    BY <1>1, <2>2, <2>3, RefusedStep
<1>3. CASE Refusal(req) = "none"
  <2>1. PICK first : first = FirstAsked(req)
    OBVIOUS
  <2>2. first # 0 /\ (req.checked => req.sid \notin BadIds)
    BY <1>3, <2>1 DEF Refusal
  <2>3. /\ first \in DOMAIN runtimes
        /\ req.op = "restore" /\ req.snap.lang # None => runtimes[first] = req.snap.lang
    <3>1. 1 \in DOMAIN runtimes
      BY <1>1 DEF IInv, TypeOK
    <3>2. PICK named : named = Speaker(IF req.op = "restore" THEN req.snap.lang ELSE req.lang)
      OBVIOUS
    <3>3. first \in {1, named}
      BY <2>1, <3>2 DEF FirstAsked
    <3>4. named \in {0} \cup DOMAIN runtimes
      BY <3>2, SpeakerFacts, TypeParts DEF IInv
    <3>5. ASSUME req.op = "restore", req.snap.lang # None PROVE runtimes[first] = req.snap.lang
      <4>1. req.snap.lang \in Registered
        BY <3>5, RequestsTyped
      <4>2. named # 0 /\ runtimes[named] = req.snap.lang
        BY <3>2, <3>5, <4>1, SpeakerFacts, TypeParts DEF IInv
      <4>3. first = named
        BY <2>1, <3>2, <3>5, <4>2 DEF FirstAsked
      <4>4. QED
        BY <4>2, <4>3
    <3>6. QED
      BY <2>2, <3>1, <3>3, <3>4, <3>5
  <2>4. first \in Nat
    BY <2>3 DEF IInv, TypeOK
  <2>5. PICK sid : sid = Target(req)
    OBVIOUS
  <2>6. /\ sid \in Ids \cup {None}
        /\ req.op # "list" => sid \in Ids
        /\ req.op \in {"snapshot", "snapshot_with"} => sid \in SessionIds
    <3>1. req.op = "restore" => req.snap.sid \in Ids
      BY RequestsTyped DEF Snapshot, Ids
    <3>2. req.op # "restore" => sid = req.sid
      BY <2>5 DEF Target
    <3>3. req.op = "restore" => sid \in Ids
      BY <2>5, <3>1, RequestsTyped DEF Target
    <3>4. req.op \in {"snapshot", "snapshot_with"} => req.sid \in SessionIds
      <4>1. ASSUME req.op \in {"snapshot", "snapshot_with"} PROVE req.sid \in Ids /\ req.checked
        BY <4>1, RequestsTyped
      <4>2. QED
        BY <2>2, <4>1 DEF Ids
    <3>5. QED
      BY <3>2, <3>3, <3>4, RequestsTyped
  <2>7. PICK tok : tok = IF req.op = "run" THEN <<req.sid, made>> ELSE None
    OBVIOUS
  <2>8. tok \in Runs \cup {None} /\ (req.op = "run" => tok \in Runs)
    <3>1. ASSUME req.op = "run" PROVE <<req.sid, made>> \in Runs
      BY <1>1, <3>1, RequestsTyped, TokenOld
    <3>2. QED
      BY <2>7, <3>1
  <2>9. /\ req.op \in Operations /\ req.snap \in Snapshot \cup {None}
        /\ req.op = "restore" => req.snap \in Snapshot
    BY RequestsTyped
  <2>10. PICK it \in Call :
           /\ it = [at |-> "ask", op |-> req.op, sid |-> sid, snap |-> req.snap,
                    tok |-> tok, next |-> first, res |-> Says("none")]
           /\ it.at = "ask" /\ it.op = req.op /\ it.sid = sid /\ it.snap = req.snap
           /\ it.tok = tok /\ it.next = first /\ it.res = Says("none")
    <3>1. Says("none") \in Answers
      BY SaysTyped DEF Tags
    <3>2. PICK it : it = [at |-> "ask", op |-> req.op, sid |-> sid, snap |-> req.snap,
                          tok |-> tok, next |-> first, res |-> Says("none")]
      OBVIOUS
    <3>3. it \in Call
      BY <2>4, <2>6, <2>8, <2>9, <3>1, <3>2 DEF Call
    <3>4. QED
      BY <3>2, <3>3
  <2>11. call' = [call EXCEPT ![c] = it]
    BY <1>3, <2>1, <2>5, <2>7, <2>10 DEF Start
  <2>12. call' \in [Clients -> Call] /\ call'[c] = it /\ \A d \in Clients \ {c} : call'[d] = call[d]
    BY <2>11 DEF IInv, TypeOK
  <2>13. TablesTyped' /\ TablesOK'
    BY <1>1, TypeParts DEF IInv, TablesTyped, TablesOK, Registered
  <2>14. Moves(c)
    BY <1>1, <2>3, <2>10, <2>12, <2>13 DEF Moves, IInv, TypeOK, AllTold
  <2>15. CallOK(c)'
    BY <1>1, <2>6, <2>8, <2>9, <2>10, <2>12, NoneApart DEF CallOK
  <2>16. HomeOK(c)'
    BY <1>1, <2>3, <2>10, <2>12 DEF HomeOK
  <2>17. InquiryOK(c)'
    <3>1. call'[c].at = "ask" /\ call'[c].res.ids = {} /\ call'[c].res.tag = "none"
      BY <2>10, <2>12, SaysTyped DEF Tags
    <3>2. ASSUME call'[c].op \in {"list", "destroy", "snapshot"}
          PROVE  call'[c].next = 1
      BY <2>1, <2>10, <2>12, <3>2 DEF FirstAsked
    <3>3. ASSUME call'[c].op \in {"list", "destroy", "snapshot"}, NEW s
          PROVE  ~Stayed(c, call[c].next - 1, s)'
      <4>1. 1..(call'[c].next - 1) = {}
        BY <3>2, <3>3
      <4>2. QED
        BY <4>1 DEF Stayed
    <3>4. QED
      BY <3>1, <3>3 DEF InquiryOK, ListOK, DestroyOK, SnapshotOK, Asks, Answered
  <2>18. QED
    BY <2>14, <2>15, <2>16, <2>17, MovesStep
<1>4. QED
  BY <1>2, <1>3

--------------------------------------------------------------------------------
(* Steps of no call *)

(* No call is under way before there are runtimes, and no session exists.  *)
LEMMA BuildStep == ASSUME IInv, Watch, Build PROVE IInv'
<1>1. /\ runtimes = <<>>
      /\ UNCHANGED <<table, dead, call, owned, snaps, made, told>>
  BY DEF Build
<1>2. PICK n \in 1..MaxRuntimes :
        \E factories \in [1..n -> Languages] :
          /\ \A i, j \in 1..n : factories[i] = factories[j] => i = j
          /\ runtimes' = factories
  BY DEF Build
<1>3. n \in Nat /\ runtimes' \in Seq(Languages) /\ DOMAIN runtimes' = 1..n
  BY <1>2, SdkAssumption
<1>4. RuntimesTyped'
  BY <1>1, <1>2, <1>3, TypeParts DEF IInv, RuntimesTyped
<1>5. Registered = {}
  BY <1>1 DEF Registered
<1>6. snaps = {} /\ \A l \in Languages, s \in Ids : table[l][s] = None
  BY <1>5 DEF IInv, TablesOK
<1>7. TablesTyped' /\ TablesOK'
  BY <1>1, <1>6, TypeParts DEF IInv, TablesTyped, TablesOK
<1>8. \A c \in Clients : call[c].op = None /\ call[c].at \notin {"ask", "taken"}
  BY <1>1 DEF IInv, CallOK
<1>9. CallsTyped'
  BY <1>1, <1>8 DEF IInv, TypeOK, CallsTyped
<1>10. HistoryTyped'
  BY <1>1, WatchTyped DEF IInv, TypeOK, HistoryTyped
<1>11. ASSUME NEW c \in Clients PROVE CallOK(c)' /\ HomeOK(c)' /\ InquiryOK(c)'
  <2>1. call'[c] = call[c] /\ call'[c].op = None /\ call'[c].at \notin {"ask", "taken"}
    BY <1>1, <1>8
  <2>2. CallOK(c)' /\ HomeOK(c)'
    BY <2>1, NoneApart DEF CallOK, HomeOK
  <2>3. InquiryOK(c)'
    BY <2>1, OneQuestion, NoneApart
  <2>4. QED
    BY <2>2, <2>3
<1>12. TypeOK'
  BY <1>4, <1>7, <1>9, <1>10 DEF TypeOK, RuntimesTyped, TablesTyped, CallsTyped, HistoryTyped
<1>13. QED
  BY <1>7, <1>11, <1>12 DEF IInv

LEMMA DieStep == ASSUME IInv, Watch, Die PROVE IInv'
<1>1. /\ dead' = {"typescript"} /\ UNCHANGED <<runtimes, call, owned, snaps, made, told>>
      /\ table' = [table EXCEPT !["typescript"] = [s \in Ids |-> None]]
  BY DEF Die
<1>2. table' \in [Languages -> [Ids -> Globals \cup {None}]]
  BY <1>1 DEF IInv, TypeOK
<1>3. \A s \in Ids : table'["typescript"][s] = None /\ table'["python"][s] = table["python"][s]
  BY <1>1 DEF IInv, TypeOK, Languages
<1>4. TablesTyped'
  BY <1>1, <1>2, TypeParts DEF IInv, TablesTyped
<1>5. TablesOK'
  BY <1>1, <1>3 DEF IInv, TablesOK, Registered, Languages
<1>6. TypeOK'
  BY <1>1, <1>2, WatchTyped DEF IInv, TypeOK
<1>7. ASSUME NEW c \in Clients PROVE CallOK(c)' /\ HomeOK(c)' /\ InquiryOK(c)'
  <2>1. call'[c] = call[c] /\ told'[c] = told[c] /\ runtimes' = runtimes
    BY <1>1
  <2>2. CallOK(c) /\ HomeOK(c) /\ InquiryOK(c)
    BY DEF IInv
  <2>3. CallOK(c)' /\ HomeOK(c)'
    BY <2>1, <2>2 DEF CallOK, HomeOK
  <2>4. dead \subseteq dead'
    BY <1>1 DEF IInv, TypeOK
  <2>5. InquiryOK(c)'
    BY <2>1, <2>2, <2>4, OthersInquiry DEF IInv
  <2>6. QED
    BY <2>3, <2>5
<1>8. QED
  BY <1>5, <1>6, <1>7 DEF IInv

--------------------------------------------------------------------------------
(* Either front takes steps of the SDK, or leaves it alone. *)
LEMMA StepsOfSdk ==
    ASSUME IInv, [DaemonNext]_daemonVars
    PROVE  \/ UNCHANGED vars
           \/ Watch /\ (Build \/ Die)
           \/ Watch /\ \E c \in Clients :
                \/ Serve(c)
                \/ Return(c)
                \/ Refuse(c)
                \/ \E req \in MadeRequests : Start(c, req)
<1>1. CASE UNCHANGED daemonVars
  BY <1>1 DEF daemonVars
<1>2. CASE DaemonNext /\ front = "sdk"
  BY <1>2 DEF DaemonNext, SdkStep, Invoke, MadeRequests
<1>3. CASE DaemonNext /\ front = "daemon"
  <2>1. DaemonStep /\ Watch
    BY <1>3 DEF DaemonNext
  <2>2. QED
    BY <2>1 DEF DaemonStep, Listen, Connect, HangUp, ReadLine, ReadGarbage, WriteAnswer, MadeRequests
<1>4. QED
  BY <1>1, <1>2, <1>3 DEF DaemonNext

(* Every step preserves the invariant. *)
LEMMA NextIInv == IInv /\ [DaemonNext]_daemonVars => IInv'
<1> SUFFICES ASSUME IInv, [DaemonNext]_daemonVars PROVE IInv'
  OBVIOUS
<1>1. CASE UNCHANGED vars
  <2>1. /\ UNCHANGED <<runtimes, table, dead, call, owned, snaps, made, told>>
        /\ always' = always /\ ever' = ever
    BY <1>1 DEF vars
  <2>2. TypeOK' /\ TablesOK'
    BY <2>1 DEF IInv, TypeOK, TablesOK, Registered
  <2>3. ASSUME NEW c \in Clients PROVE CallOK(c)' /\ HomeOK(c)' /\ InquiryOK(c)'
    <3>1. CallOK(c)' /\ HomeOK(c)'
      BY <2>1 DEF IInv, CallOK, HomeOK
    <3>2. ListOK(c)'
      BY <2>1 DEF IInv, InquiryOK, ListOK, Stayed, Seen, Asks, Answered
    <3>3. DestroyOK(c)'
      BY <2>1 DEF IInv, InquiryOK, DestroyOK, Stayed, Seen, Asks, Answered
    <3>4. SnapshotOK(c)'
      BY <2>1 DEF IInv, InquiryOK, SnapshotOK, Stayed, Asks, Answered
    <3>5. QED
      BY <3>1, <3>2, <3>3, <3>4 DEF InquiryOK
  <2>4. QED
    BY <2>2, <2>3 DEF IInv
<1>2. CASE Watch /\ Build
  BY <1>2, BuildStep
<1>3. CASE Watch /\ Die
  BY <1>3, DieStep
<1>4. ASSUME Watch, NEW c \in Clients, Serve(c) PROVE IInv'
  BY <1>4, CreateStep, RunTypeScriptStep, TakePythonStep, PutPythonStep, DestroyStep, ListStep,
     TakeSnapshotStep, RestoreStep DEF Serve
<1>5. ASSUME Watch, NEW c \in Clients, Return(c) PROVE IInv'
  BY <1>5, ReturnStep
<1>6. ASSUME Watch, NEW c \in Clients, Refuse(c) PROVE IInv'
  <2>1. made' \in Nat
    BY <1>6 DEF Refuse, IInv, TypeOK
  <2>2. PICK tag \in Tags : tag = "error"
    BY DEF Tags
  <2>3. QED
    BY <1>6, <2>1, <2>2, RefusedStep DEF Refuse
<1>7. ASSUME Watch, NEW c \in Clients, NEW req \in MadeRequests, Start(c, req) PROVE IInv'
  BY <1>7, StartStep
<1>8. QED
  BY <1>1, <1>2, <1>3, <1>4, <1>5, <1>6, <1>7, StepsOfSdk

LEMMA Invariant == DaemonSpec => []IInv
<1>1. DaemonInit => IInv
  BY InitIInv DEF DaemonInit
<1>2. QED
  BY <1>1, NextIInv, PTL DEF DaemonSpec

(* list_sessions names every session that a runtime had throughout the     *)
(* call and none that no runtime had, for any number of callers and of     *)
(* sessions, in both fronts.                                               *)
THEOREM ListCompleteHolds == DaemonSpec => []ListComplete
<1>1. IInv => ListComplete
  <2> SUFFICES ASSUME IInv, NEW c \in Clients, Answered(c, "list", {"list"})
               PROVE  /\ {x[2] : x \in always[c]} \subseteq call[c].res.ids
                      /\ call[c].res.ids \subseteq {x[2] : x \in ever[c]}
    BY DEF ListComplete
  <2>1. ListOK(c) /\ always[c] \subseteq Languages \X Ids
    BY DEF IInv, InquiryOK, TypeOK
  <2>2. ASSUME NEW x \in always[c] PROVE x[2] \in call[c].res.ids
    <3>1. PICK l \in Languages, s \in Ids : x = <<l, s>>
      BY <2>1
    <3>2. QED
      BY <2>1, <3>1 DEF ListOK
  <2>3. ASSUME NEW s \in call[c].res.ids PROVE s \in {x[2] : x \in ever[c]}
    <3>1. PICK l \in Languages : <<l, s>> \in ever[c]
      BY <2>1 DEF ListOK, Seen
    <3>2. PICK x \in ever[c] : x = <<l, s>>
      BY <3>1
    <3>3. x[2] = s
      BY <3>2
    <3>4. QED
      BY <3>3
  <2>4. QED
    BY <2>2, <2>3
<1>2. QED
  BY <1>1, Invariant, PTL

(* destroy_session that is answered with no error has taken the session    *)
(* from every runtime that had it, says whether there was one, and fails   *)
(* only if a runtime does.                                                 *)
THEOREM DestroyHonestHolds == DaemonSpec => []DestroyHonest
<1>1. IInv => DestroyHonest
  <2> SUFFICES ASSUME IInv, NEW c \in Clients
               PROVE  /\ Answered(c, "destroy", {"removed", "absent"}) =>
                            \A l \in Languages : <<l, call[c].sid>> \notin always[c]
                      /\ Answered(c, "destroy", {"removed"}) =>
                            \E l \in Languages : <<l, call[c].sid>> \in ever[c]
                      /\ Answered(c, "destroy", {"error"}) => dead # {}
    BY DEF DestroyHonest
  <2>1. DestroyOK(c)
    BY DEF IInv, InquiryOK
  <2>2. QED
    BY <2>1 DEF DestroyOK, Seen
<1>2. QED
  BY <1>1, Invariant, PTL

(* snapshot_session finds a session that a runtime had throughout the      *)
(* call, and of two languages the one registered first.                    *)
THEOREM SnapshotHonestHolds == DaemonSpec => []SnapshotHonest
<1>1. IInv => SnapshotHonest
  <2> SUFFICES ASSUME IInv, NEW c \in Clients
               PROVE  /\ Answered(c, "snapshot", {"not_found"}) =>
                            \A i \in DOMAIN runtimes : <<runtimes[i], call[c].sid>> \notin always[c]
                      /\ Answered(c, "snapshot", {"snapshot"}) =>
                            \E i \in DOMAIN runtimes :
                              /\ call[c].res.snap.lang = runtimes[i]
                              /\ <<runtimes[i], call[c].sid>> \in ever[c]
                              /\ \A j \in 1..(i - 1) : <<runtimes[j], call[c].sid>> \notin always[c]
    BY DEF SnapshotHonest
  <2>1. SnapshotOK(c) /\ DOMAIN runtimes = 1..Len(runtimes) /\ Len(runtimes) \in Nat
    BY DEF IInv, InquiryOK, TypeOK
  <2>2. ASSUME NEW i \in DOMAIN runtimes, NEW j \in 1..(i - 1) PROVE j \in DOMAIN runtimes
    BY <2>1
  <2>3. QED
    BY <2>1, <2>2 DEF SnapshotOK, Stayed
<1>2. QED
  BY <1>1, Invariant, PTL

(* A snapshot this process has given is restored by the runtime that gave  *)
(* it, or refused by TypeScript itself, however runtimes are ordered.      *)
THEOREM SnapshotsGoHomeHolds == DaemonSpec => []SnapshotsGoHome
<1>1. IInv => SnapshotsGoHome
  <2> SUFFICES ASSUME IInv, NEW c \in Clients, call[c].at = "replied", call[c].op = "restore",
                      call[c].snap \in snaps
               PROVE  \/ call[c].res.tag = "ok"
                      \/ call[c].snap.lang = "typescript" /\ told[c].tag = "error"
    BY DEF SnapshotsGoHome, IInv
  <2>1. HomeOK(c) /\ call[c].snap.lang \in Registered
    BY DEF IInv, TablesOK
  <2>2. Registered \subseteq Languages
    BY DEF IInv, TypeOK, Registered
  <2>3. QED
    BY <2>1, <2>2, NoneApart DEF HomeOK
<1>2. QED
  BY <1>1, Invariant, PTL

--------------------------------------------------------------------------------
(* Sessions stay *)

DaemonInv == IInv /\ DaemonTypeOK

LEMMA ConnectionsTyped ==
    ASSUME DaemonInv, [DaemonNext]_daemonVars
    PROVE  DaemonTypeOK'
<1>1. TypeOK'
  BY NextIInv DEF DaemonInv, IInv
<1>2. front' \in {"sdk", "daemon"}
  BY DEF DaemonInv, DaemonTypeOK, DaemonNext, daemonVars
<1>3. peers' \subseteq Clients /\ unread' \in [Clients -> Nat]
  <2>1. CASE UNCHANGED connections
    BY <2>1 DEF DaemonInv, DaemonTypeOK, connections
  <2>2. ASSUME NEW c \in Clients, Connect(c) PROVE peers' \subseteq Clients /\ unread' \in [Clients -> Nat]
    <3>1. PICK n \in 1..MaxCalls : unread' = [unread EXCEPT ![c] = n]
      BY <2>2 DEF Connect
    <3>2. n \in Nat
      BY <3>1, ApiAssumption
    <3>3. QED
      BY <2>2, <3>1, <3>2 DEF Connect, DaemonInv, DaemonTypeOK
  <2>3. ASSUME NEW c \in Clients, HangUp(c) PROVE peers' \subseteq Clients /\ unread' \in [Clients -> Nat]
    BY <2>3 DEF HangUp, DaemonInv, DaemonTypeOK
  <2>4. ASSUME NEW c \in Clients, ReadLine(c) PROVE peers' \subseteq Clients /\ unread' \in [Clients -> Nat]
    <3>1. PICK n \in Nat : n = unread[c]
      BY DEF DaemonInv, DaemonTypeOK
    <3>2. n - 1 \in Nat /\ unread' = [unread EXCEPT ![c] = n - 1] /\ peers' = peers
      BY <2>4, <3>1 DEF ReadLine, DaemonInv, DaemonTypeOK
    <3>3. QED
      BY <3>2 DEF DaemonInv, DaemonTypeOK
  <2>5. ASSUME NEW c \in Clients, WriteAnswer(c) PROVE peers' \subseteq Clients /\ unread' \in [Clients -> Nat]
    BY <2>5 DEF WriteAnswer, DaemonInv, DaemonTypeOK
  <2>6. ASSUME NEW c \in Clients, ReadGarbage(c) PROVE peers' \subseteq Clients /\ unread' \in [Clients -> Nat]
    BY <2>6 DEF ReadGarbage, DaemonInv, DaemonTypeOK
  <2>7. QED
    BY <2>1, <2>2, <2>3, <2>4, <2>5, <2>6 DEF DaemonNext, DaemonStep, Listen, daemonVars
<1>4. QED
  BY <1>1, <1>2, <1>3 DEF DaemonTypeOK

(* The sessions that exist, but for the moment between a run's two steps   *)
(* in the table.                                                           *)
LEMMA TablesKeep ==
    ASSUME NEW l \in Languages, NEW s \in Ids, Exists(l, s),
           \A d \in Clients : call[d].at = "taken" => call'[d].at = "taken" /\ call'[d].sid = call[d].sid,
           table[l][s] # None => table'[l][s] # None
    PROVE  Exists(l, s)'
BY DEF Exists, Subject

(* One step of a call in its runtime takes away no session, unless it is a *)
(* destroy.                                                                *)
LEMMA ServeKeeps ==
    ASSUME IInv, IInv', NEW c \in Clients, Serve(c), NEW l \in Languages, NEW s \in Ids,
           Exists(l, s), ~(Asks(c, {"destroy"}) /\ Subject(c) = s)
    PROVE  Exists(l, s)'
<1>1. call[c].at \in {"ask", "taken"}
  BY DEF Serve, Create, RunTypeScript, TakePython, PutPython, Destroy, List, TakeSnapshot, Restore, Asks
<1>2. PICK k \in Languages : k = Asked(c)
  BY <1>1, AskedFacts
<1>3. Exists(l, s) /\ None \notin Globals
  BY NoneApart
<1>4. ASSUME NEW d \in Clients \ {c} PROVE call'[d] = call[d]
  BY DEF Serve, Create, RunTypeScript, TakePython, PutPython, Destroy, List, TakeSnapshot, Restore,
     Fails, Returns, GoesOn, IInv, TypeOK
<1>5. CASE call[c].at = "ask" /\ UNCHANGED table
  BY <1>4, <1>5, TablesKeep
<1>6. ASSUME call[c].at = "ask", Subject(c) \in Ids, NEW globals \in Globals, Stores(c, globals)
      PROVE  Exists(l, s)'
  <2>1. PICK r \in Ids : r = Subject(c)
    BY <1>6
  <2>2. /\ table'[k][r] = globals
        /\ \A j \in Languages, q \in Ids : j # k \/ q # r => table'[j][q] = table[j][q]
    BY <1>2, <1>6, <2>1, StoresFacts, TypeParts DEF IInv
  <2>3. table[l][s] # None => table'[l][s] # None
    BY <1>3, <2>2
  <2>4. QED
    BY <1>4, <1>6, <2>3, TablesKeep
<1>7. ASSUME Asks(c, {"create", "run", "restore", "destroy"}) PROVE Subject(c) \in Ids
  BY <1>7, NoneApart DEF IInv, CallOK, Asks, Subject
<1>8. CASE Create(c)
  <2>1. CASE UNCHANGED table
    BY <1>5, <1>8, <2>1 DEF Create, Asks
  <2>2. CASE Alive(c) /\ Stores(c, IF Subject(c) \in Sessions(Asked(c)) THEN table[Asked(c)][Subject(c)] ELSE {})
    <3>1. Subject(c) \in Ids /\ call[c].at = "ask"
      BY <1>7, <1>8 DEF Create, Asks
    <3>2. PICK globals \in Globals :
            globals = IF Subject(c) \in Sessions(Asked(c)) THEN table[Asked(c)][Subject(c)] ELSE {}
      BY <1>2, <3>1, TypeParts DEF IInv, TablesTyped, Globals, Sessions
    <3>3. QED
      BY <1>6, <2>2, <3>1, <3>2
  <2>3. QED
    BY <1>8, <2>1, <2>2 DEF Create, Fails
<1>9. CASE RunTypeScript(c)
  <2>1. CASE UNCHANGED table
    BY <1>5, <1>9, <2>1 DEF RunTypeScript, Asks
  <2>2. CASE ~UNCHANGED table
    <3>1. Subject(c) \in Ids /\ call[c].tok \in Runs /\ call[c].at = "ask"
      BY <1>7, <1>9 DEF RunTypeScript, Asks, IInv, CallOK
    <3>2. PICK held \in Globals \cup {None} : held = table["typescript"][Subject(c)]
      BY <3>1, TypeParts DEF IInv, TablesTyped, Languages
    <3>3. Before(held) \in Globals /\ Before(held) \cup {call[c].tok} \in Globals
      BY <3>1, <3>2, RunGlobals
    <3>4. \E outcome \in {<<Before(held) \cup {call[c].tok}, "ok">>,
                          <<Before(held) \cup {call[c].tok}, "error">>, <<Before(held), "error">>} :
            Stores(c, outcome[1])
      BY <1>9, <2>2, <3>2 DEF RunTypeScript, Fails
    <3>5. PICK globals \in Globals : Stores(c, globals)
      BY <3>3, <3>4
    <3>6. QED
      BY <1>6, <3>1, <3>5
  <2>3. QED
    BY <2>1, <2>2
<1>10. CASE TakePython(c)
  <2>1. /\ call[c].at = "ask" /\ Asked(c) = "python" /\ Stores(c, None)
        /\ call' = [call EXCEPT ![c].at = "taken"]
    BY <1>10 DEF TakePython, Asks
  <2>2. call'[c].at = "taken" /\ call'[c].sid = call[c].sid
    BY <2>1 DEF IInv, TypeOK, Call
  <2>3. PICK r \in Ids : r = Subject(c)
    BY <1>7, <1>10 DEF TakePython, Asks
  <2>4. PICK globals \in Globals \cup {None} : globals = None /\ Stores(c, globals)
    BY <2>1
  <2>5. \A j \in Languages, q \in Ids : j # k \/ q # r => table'[j][q] = table[j][q]
    BY <1>2, <2>3, <2>4, StoresFacts, TypeParts DEF IInv
  <2>6. CASE l = "python" /\ s = r
    BY <2>2, <2>3, <2>6 DEF Exists, Subject
  <2>7. CASE ~(l = "python" /\ s = r)
    <3>1. table'[l][s] = table[l][s]
      BY <1>2, <2>1, <2>5, <2>7
    <3>2. QED
      BY <1>4, <2>1, <3>1, TablesKeep
  <2>8. QED
    BY <2>6, <2>7
<1>11. CASE PutPython(c)
  <2>1. call[c].at = "taken" /\ call[c].op = "run" /\ Asked(c) = "python"
    BY <1>11 DEF PutPython, IInv, CallOK, Asked
  <2>2. PICK r \in Ids : r = Subject(c)
    BY <2>1, NoneApart DEF IInv, CallOK, Subject
  <2>3. PICK globals \in Globals : Stores(c, globals)
    <3>1. PICK held \in Globals \cup {None} : held = owned[c]
      BY DEF IInv, TypeOK
    <3>2. call[c].tok \in Runs
      BY <2>1 DEF IInv, CallOK
    <3>3. QED
      BY <1>11, <3>1, <3>2, RunGlobals DEF PutPython
  <2>4. /\ table'[k][r] = globals
        /\ \A j \in Languages, q \in Ids : j # k \/ q # r => table'[j][q] = table[j][q]
    BY <1>2, <2>2, <2>3, StoresFacts, TypeParts DEF IInv
  <2>5. CASE l = "python" /\ s = r
    BY <1>2, <1>3, <2>1, <2>4, <2>5 DEF Exists
  <2>6. CASE ~(l = "python" /\ s = r)
    <3>1. table'[l][s] = table[l][s]
      BY <1>2, <2>1, <2>4, <2>6
    <3>2. CASE table[l][s] # None
      BY <3>1, <3>2 DEF Exists
    <3>3. CASE l = "python" /\ \E d \in Clients : call[d].at = "taken" /\ Subject(d) = s
      <4>1. PICK d \in Clients : call[d].at = "taken" /\ Subject(d) = s
        BY <3>3
      <4>2. d # c
        BY <2>2, <2>6, <3>3, <4>1
      <4>3. call'[d] = call[d]
        BY <1>4, <4>2
      <4>4. QED
        BY <3>3, <4>1, <4>3 DEF Exists, Subject
    <3>4. QED
      BY <3>2, <3>3 DEF Exists
  <2>7. QED
    BY <2>5, <2>6
<1>12. CASE Destroy(c)
  <2>1. CASE UNCHANGED table
    BY <1>5, <1>12, <2>1 DEF Destroy, Asks
  <2>2. CASE Stores(c, None)
    <3>1. PICK r \in Ids : r = Subject(c) /\ r # s
      BY <1>7, <1>12 DEF Destroy, Asks
    <3>2. PICK globals \in Globals \cup {None} : Stores(c, globals)
      BY <2>2
    <3>3. table'[l][s] = table[l][s]
      BY <1>2, <3>1, <3>2, StoresFacts, TypeParts DEF IInv
    <3>4. QED
      BY <1>4, <1>12, <3>3, TablesKeep DEF Destroy, Asks
  <2>3. QED
    BY <1>12, <2>1, <2>2 DEF Destroy, Fails
<1>13. CASE List(c) \/ TakeSnapshot(c)
  BY <1>5, <1>13 DEF List, TakeSnapshot, Fails, Asks
<1>14. CASE Restore(c)
  <2>1. CASE UNCHANGED table
    BY <1>5, <1>14, <2>1 DEF Restore, Asks
  <2>2. CASE Stores(c, call[c].snap.memory)
    <3>1. Subject(c) \in Ids /\ call[c].at = "ask" /\ call[c].snap \in Snapshot
      BY <1>7, <1>14 DEF Restore, Asks, IInv, CallOK
    <3>2. PICK globals \in Globals : globals = call[c].snap.memory
      BY <3>1 DEF Snapshot
    <3>3. QED
      BY <1>6, <2>2, <3>1, <3>2
  <2>3. QED
    BY <1>14, <2>1, <2>2 DEF Restore, Fails
<1>15. QED
  BY <1>8, <1>9, <1>10, <1>11, <1>12, <1>13, <1>14 DEF Serve

LEMMA SessionStays ==
    ASSUME IInv, [DaemonNext]_daemonVars, NEW l \in Languages, NEW s \in Ids,
           Exists(l, s), ~Exists(l, s)'
    PROVE  \/ \E c \in Clients : Asks(c, {"destroy"}) /\ Subject(c) = s
           \/ l \in dead'
<1>1. CASE UNCHANGED <<call, table>>
  BY <1>1 DEF Exists, Subject
<1>2. CASE Build \/ UNCHANGED vars
  BY <1>1, <1>2 DEF Build, vars
<1>3. CASE Die
  <2>1. l = "typescript" \/ table'[l][s] = table[l][s]
    BY <1>3 DEF Die, IInv, TypeOK
  <2>2. call' = call /\ dead' = {"typescript"}
    BY <1>3 DEF Die
  <2>3. QED
    BY <2>1, <2>2 DEF Exists, Subject
<1>4. ASSUME NEW c \in Clients, Serve(c)
      PROVE  Asks(c, {"destroy"}) /\ Subject(c) = s
  BY <1>4, NextIInv, ServeKeeps
<1>5. ASSUME NEW c \in Clients, table' = table, call[c].at # "taken",
             \A d \in Clients \ {c} : call'[d] = call[d]
      PROVE  FALSE
  <2>1. \A d \in Clients : call[d].at = "taken" => call'[d].at = "taken" /\ call'[d].sid = call[d].sid
    BY <1>5
  <2>2. QED
    BY <1>5, <2>1, TablesKeep
<1>6. ASSUME NEW c \in Clients,
             Return(c) \/ Refuse(c) \/ \E req \in MadeRequests : Start(c, req)
      PROVE  FALSE
  <2>1. table' = table /\ call[c].at # "taken"
    BY <1>6 DEF Return, Refuse, Start
  <2>2. \A d \in Clients \ {c} : call'[d] = call[d]
    BY <1>6 DEF Return, Refuse, Start, IInv, TypeOK
  <2>3. QED
    BY <1>5, <2>1, <2>2
<1>7. QED
  BY <1>2, <1>3, <1>4, <1>6, StepsOfSdk

(* A session stays until it is destroyed by name or its runtime dies,      *)
(* whatever connections come, send ahead and hang up.                      *)
THEOREM SessionsStayHolds == DaemonSpec => SessionsStay
<1>1. DaemonInit => DaemonInv
  BY InitIInv DEF DaemonInit, DaemonInv, IInv, DaemonTypeOK
<1>2. DaemonInv /\ [DaemonNext]_daemonVars => DaemonInv'
  BY NextIInv, ConnectionsTyped DEF DaemonInv
<1>3. DaemonInv /\ [DaemonNext]_daemonVars =>
        [/\ DaemonTypeOK'
         /\ \A l \in Languages, s \in Ids :
              Exists(l, s) /\ ~Exists(l, s)' =>
                 \/ \E c \in Clients : Asks(c, {"destroy"}) /\ Subject(c) = s
                 \/ l \in dead']_daemonVars
  BY ConnectionsTyped, SessionStays DEF DaemonInv
<1>4. QED
  BY <1>1, <1>2, <1>3, PTL DEF DaemonSpec, SessionsStay

================================================================================
