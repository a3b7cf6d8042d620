---------------------------------- MODULE Sdk ----------------------------------
(***************************************************************************)
(* The SDK (LangShell): a list of runtimes, one per language, and calls    *)
(* that go to one of them or to each in the order of registration.  A call *)
(* that asks several runtimes is interleaved with other calls between any  *)
(* two of them, and a runtime may fail while others answer.                *)
(*                                                                         *)
(* A runtime answers a call at one moment (DenoWorker and MontySessions    *)
(* show it), but for a Python run, whose session is in no table while its  *)
(* code executes.  validate, which touches no session, is left out, and so *)
(* are callers that drop their futures.                                    *)
(***************************************************************************)
EXTENDS SessionApi, Sequences

CONSTANTS
    BadIds,       \* session ids that SessionId::new refuses
    MaxRuntimes,  \* bound of the model: how many runtimes the builder is given
    MayDie        \* may the thread of the TypeScript runtime end?

Languages == {"python", "typescript"}
Ids == SessionIds \cup BadIds

(* The runs whose effects a session holds, as in SessionApi. *)
Runs == Ids \X (0..(MaxCalls - 1))
Globals == SUBSET Runs

(* A snapshot: its magic names the language, or nothing any runtime reads. *)
Snapshot == [lang : Languages \cup {None}, sid : SessionIds, memory : Globals]

Operations == Ops \cup {"snapshot_with"}

ASSUME SdkAssumption ==
    /\ SessionIds \cap BadIds = {}
    /\ MaxRuntimes \in Nat
    /\ MayDie \in BOOLEAN
    /\ None \notin Ids \cup Languages \cup Operations \cup Snapshot
    /\ \A globals \in Globals : globals # None

(* checked: is the id put through SessionId::new?  A SessionHandle's is not. *)
Request ==
    [op : Operations, sid : Ids \cup {None}, lang : Languages \cup {None},
     snap : Snapshot \cup {None}, checked : BOOLEAN]

(* ran: a RunResult, which the SDK passes on as it is. *)
Answers == [tag : Tags \cup {"ran", "invalid_id", "unsupported", "corrupt"},
            ids : SUBSET Ids, snap : Snapshot \cup {None}]

Says(tag) == [tag |-> tag, ids |-> {}, snap |-> None]

(* A call under way: the session and the snapshot it is about, the runtime *)
(* that is asked next and what is known so far.                            *)
Call == [at : {"idle", "ask", "taken", "replied"}, op : Operations \cup {None},
         sid : Ids \cup {None}, snap : Snapshot \cup {None}, tok : Runs \cup {None},
         next : Nat, res : Answers]

NoCall == [at |-> "idle", op |-> None, sid |-> None, snap |-> None, tok |-> None,
           next |-> 0, res |-> Says("none")]

VARIABLES
    runtimes,  \* the languages of the registered runtimes, in order; none before build
    table,     \* [Languages -> [Ids -> Globals \cup {None}]], the sessions of each runtime
    dead,      \* the runtimes that answer nothing but errors
    call,      \* [Clients -> Call], the call each client has in progress
    owned,     \* [Clients -> Globals \cup {None}], the session a Python run has taken out
    snaps,     \* the snapshots callers have been given
    made,      \* how many calls have been made
    told,      \* history: what the TypeScript runtime has answered to each client's call
    always,    \* history: the sessions that were in a table throughout each client's call
    ever       \* history: the sessions that were in a table at some moment of it

vars == <<runtimes, table, dead, call, owned, snaps, made, told, always, ever>>

TypeOK ==
    /\ runtimes \in Seq(Languages)
    /\ \A i, j \in DOMAIN runtimes : runtimes[i] = runtimes[j] => i = j
    /\ table \in [Languages -> [Ids -> Globals \cup {None}]]
    /\ dead \subseteq {"typescript"}
    /\ call \in [Clients -> Call]
    /\ \A c \in Clients : call[c].at = "ask" => call[c].next \in DOMAIN runtimes
    /\ owned \in [Clients -> Globals \cup {None}]
    /\ snaps \subseteq Snapshot
    /\ made \in Nat
    /\ told \in [Clients -> [tag : Tags, memory : Globals, ids : SUBSET Ids]]
    /\ always \in [Clients -> SUBSET (Languages \X Ids)]
    /\ ever \in [Clients -> SUBSET (Languages \X Ids)]

Init ==
    /\ runtimes = <<>>
    /\ table = [l \in Languages |-> [s \in Ids |-> None]]
    /\ dead = {}
    /\ call = [c \in Clients |-> NoCall]
    /\ owned = [c \in Clients |-> None]
    /\ snaps = {}
    /\ made = 0
    /\ told = [c \in Clients |-> NoReply]
    /\ always = [c \in Clients |-> {}]
    /\ ever = [c \in Clients |-> {}]

--------------------------------------------------------------------------------
(* LangShellBuilder::build: two runtimes of one language, or none at all,  *)
(* are refused; there is no LangShell then.                                *)

Build ==
    /\ runtimes = <<>>
    /\ \E n \in 1..MaxRuntimes : \E factories \in [1..n -> Languages] :
         /\ \A i, j \in 1..n : factories[i] = factories[j] => i = j
         /\ runtimes' = factories
    /\ UNCHANGED <<table, dead, call, owned, snaps, made, told>>

(* The runtime that is asked first (0: none): for most calls with a        *)
(* language the one of that language, for a snapshot the one that knows    *)
(* its magic, or the only one there is.                                    *)
Speaker(lang) ==
    LET speakers == {i \in DOMAIN runtimes : runtimes[i] = lang}
    IN IF speakers = {} THEN 0 ELSE CHOOSE i \in speakers : TRUE

(* Mutant: the first runtime has to restore whatever there is. *)
FirstAskedFirst(req) ==
    IF req.op \in {"create", "run", "snapshot_with"} THEN Speaker(req.lang) ELSE 1

FirstAsked(req) ==
    LET named == Speaker(IF req.op = "restore" THEN req.snap.lang ELSE req.lang)
    IN IF \/ req.op \in {"destroy", "list", "snapshot"}
          \/ req.op = "restore" /\ named = 0 /\ Len(runtimes) = 1
       THEN 1 ELSE named

(* What the SDK refuses by itself. *)
Refusal(req) ==
    IF req.checked /\ req.sid \in BadIds THEN "invalid_id"
    ELSE IF FirstAsked(req) # 0 THEN "none"
    ELSE IF req.op = "restore" THEN "corrupt" ELSE "unsupported"

(* A restore without an id goes to the id in the snapshot. *)
Target(req) == IF req.op = "restore" /\ req.sid = None THEN req.snap.sid ELSE req.sid

(* The first thing a method does. *)
Start(c, req) ==
    /\ runtimes # <<>>
    /\ call[c].at = "idle"
    /\ made < MaxCalls
    /\ made' = made + 1
    /\ call' = [call EXCEPT ![c] =
          IF Refusal(req) = "none"
          THEN [at |-> "ask", op |-> req.op, sid |-> Target(req), snap |-> req.snap,
                tok |-> IF req.op = "run" THEN <<req.sid, made>> ELSE None,
                next |-> FirstAsked(req), res |-> Says("none")]
          ELSE [NoCall EXCEPT !.at = "replied", !.res = Says(Refusal(req))]]
    /\ UNCHANGED <<runtimes, table, dead, owned, snaps, told>>

(* The calls of the SDK's methods.  A snapshot may be garbage, or of a     *)
(* language nobody speaks here, which is the same to the SDK.              *)
Plain(op, s) == [op |-> op, sid |-> s, lang |-> None, snap |-> None, checked |-> TRUE]

WithLanguage(op, s, l) == [Plain(op, s) EXCEPT !.lang = l]

Foreign == [lang : {None}, sid : SessionIds, memory : {{}}]

Requests ==
    {WithLanguage(op, s, l) : op \in {"create", "run", "snapshot_with"}, s \in Ids, l \in Languages}
        \cup {[WithLanguage("run", s, l) EXCEPT !.checked = FALSE] : s \in BadIds, l \in Languages}
        \cup {Plain(op, s) : op \in {"destroy", "snapshot"}, s \in Ids}
        \cup {Plain("list", None)}
        \cup {[Plain("restore", s) EXCEPT !.snap = e] : s \in Ids \cup {None}, e \in snaps \cup Foreign}

Invoke(c) == \E req \in Requests : Start(c, req)

--------------------------------------------------------------------------------
(* One runtime is asked *)

Asks(c, ops) == call[c].at = "ask" /\ call[c].op \in ops

Asked(c) == runtimes[call[c].next]

Alive(c) == Asked(c) \notin dead

Subject(c) == call[c].sid

Sessions(l) == {s \in Ids : table[l][s] # None}

(* What the runtime says, as its contract words it. *)
Tells(c, res) ==
    told' = IF Asked(c) = "typescript" THEN [told EXCEPT ![c] = res] ELSE told

(* What the SDK makes of it: an answer, or a question to the next runtime. *)
Returns(c, res) == call' = [call EXCEPT ![c].at = "replied", ![c].res = res]

GoesOn(c, res) ==
    IF call[c].next < Len(runtimes)
    THEN call' = [call EXCEPT ![c].next = @ + 1, ![c].res = res]
    ELSE Returns(c, res)

Fails(c) == Tells(c, Reply("error")) /\ Returns(c, Says("error")) /\ UNCHANGED <<table, snaps>>

Stores(c, globals) == table' = [table EXCEPT ![Asked(c)][Subject(c)] = globals]

(* Mutant: the session is made anew. *)
CreateAnew(c) ==
    /\ Asks(c, {"create"})
    /\ Alive(c) /\ Stores(c, {}) /\ Tells(c, Reply("ok"))
    /\ Returns(c, Says("ok"))
    /\ UNCHANGED <<runtimes, dead, owned, snaps, made>>

(* The isolate of a TypeScript session may not start. *)
Create(c) ==
    /\ Asks(c, {"create"})
    /\ \/ /\ Alive(c)
          /\ Stores(c, IF Subject(c) \in Sessions(Asked(c)) THEN table[Asked(c)][Subject(c)] ELSE {})
          /\ Tells(c, Reply("ok")) /\ Returns(c, Says("ok")) /\ UNCHANGED snaps
       \/ Asked(c) = "typescript" /\ Fails(c)
    /\ UNCHANGED <<runtimes, dead, owned, made>>

(* The globals a run starts from, and those it leaves if it succeeds. *)
Before(globals) == IF globals = None THEN {} ELSE globals

RunTypeScript(c) ==
    /\ Asks(c, {"run"}) /\ Asked(c) = "typescript"
    /\ LET before == Before(table["typescript"][Subject(c)])
           after == before \cup {call[c].tok}
       IN \/ /\ Alive(c)
             /\ \E outcome \in {<<after, "ok">>, <<after, "error">>, <<before, "error">>} :
                  /\ Stores(c, outcome[1])
                  /\ Tells(c, Reply(outcome[2]))
                  /\ Returns(c, Says("ran"))
             /\ UNCHANGED snaps
          \/ Fails(c)
    /\ UNCHANGED <<runtimes, dead, owned, made>>

(* A Python run removes its session, executes, and inserts it again.  It   *)
(* would be rejected before that if it were not Python, which Speaker      *)
(* rules out, or were to be validated alone.                               *)
TakePython(c) ==
    /\ Asks(c, {"run"}) /\ Asked(c) = "python"
    /\ owned' = [owned EXCEPT ![c] = table["python"][Subject(c)]]
    /\ Stores(c, None)
    /\ call' = [call EXCEPT ![c].at = "taken"]
    /\ UNCHANGED <<runtimes, dead, snaps, made, told>>

PutPython(c) ==
    /\ call[c].at = "taken"
    /\ LET before == Before(owned[c])
           after == before \cup {call[c].tok}
       IN \E globals \in {before, after} : Stores(c, globals) /\ Returns(c, Says("ran"))
    /\ owned' = [owned EXCEPT ![c] = None]
    /\ UNCHANGED <<runtimes, dead, snaps, made, told>>

--------------------------------------------------------------------------------
(* Mutant: the first runtime that had the session is the last one asked. *)
DestroyFirst(c) ==
    /\ Asks(c, {"destroy"})
    /\ \/ /\ Alive(c)
          /\ LET found == Subject(c) \in Sessions(Asked(c))
             IN /\ Tells(c, Reply(IF found THEN "removed" ELSE "absent"))
                /\ IF found THEN Returns(c, Says("removed")) ELSE GoesOn(c, Says("absent"))
          /\ Stores(c, None)
          /\ UNCHANGED snaps
       \/ ~Alive(c) /\ Fails(c)
    /\ UNCHANGED <<runtimes, dead, owned, made>>

(* destroy_session: every runtime, until one fails. *)
Destroy(c) ==
    /\ Asks(c, {"destroy"})
    /\ \/ /\ Alive(c)
          /\ LET found == Subject(c) \in Sessions(Asked(c))
             IN /\ Tells(c, Reply(IF found THEN "removed" ELSE "absent"))
                /\ GoesOn(c, Says(IF found \/ call[c].res.tag = "removed"
                                  THEN "removed" ELSE "absent"))
          /\ Stores(c, None)
          /\ UNCHANGED snaps
       \/ ~Alive(c) /\ Fails(c)
    /\ UNCHANGED <<runtimes, dead, owned, made>>

(* Mutant: a runtime that cannot list ends the listing. *)
ListUntilError(c) ==
    /\ Asks(c, {"list"})
    /\ LET soFar == [Says("list") EXCEPT !.ids = call[c].res.ids]
       IN IF Alive(c)
          THEN /\ GoesOn(c, [soFar EXCEPT !.ids = @ \cup Sessions(Asked(c))])
               /\ Tells(c, ListReply(Sessions(Asked(c))))
          ELSE Returns(c, soFar) /\ Tells(c, Reply("error"))
    /\ UNCHANGED <<runtimes, table, dead, owned, snaps, made>>

(* list_sessions: every runtime, those that fail are left out; each id     *)
(* once.                                                                   *)
List(c) ==
    /\ Asks(c, {"list"})
    /\ LET soFar == [Says("list") EXCEPT !.ids = call[c].res.ids]
       IN IF Alive(c)
          THEN /\ GoesOn(c, [soFar EXCEPT !.ids = @ \cup Sessions(Asked(c))])
               /\ Tells(c, ListReply(Sessions(Asked(c))))
          ELSE GoesOn(c, soFar) /\ Tells(c, Reply("error"))
    /\ UNCHANGED <<runtimes, table, dead, owned, snaps, made>>

(* Mutant: a runtime without the session settles the question. *)
TakeSnapshotOnce(c) ==
    /\ Asks(c, {"snapshot", "snapshot_with"})
    /\ LET l == Asked(c)
           s == Subject(c)
           snapshot == [lang |-> l, sid |-> s, memory |-> table[l][s]]
       IN IF Alive(c) /\ s \in Sessions(l)
          THEN /\ Tells(c, SnapshotReply(table[l][s]))
               /\ Returns(c, [Says("snapshot") EXCEPT !.snap = snapshot])
               /\ snaps' = snaps \cup {snapshot} /\ UNCHANGED table
          ELSE /\ Tells(c, Reply(IF Alive(c) THEN "not_found" ELSE "error"))
               /\ Returns(c, Says(IF Alive(c) THEN "not_found" ELSE "error"))
               /\ UNCHANGED <<table, snaps>>
    /\ UNCHANGED <<runtimes, dead, owned, made>>

(* snapshot_session: the first runtime that has the session, until one     *)
(* fails; snapshot_session_with_language: that of the language alone.      *)
(* Globals may have no encoding; those a TypeScript snapshot leaves out are *)
(* CliSessions' and DenoGlobals' business.                                 *)
TakeSnapshot(c) ==
    /\ Asks(c, {"snapshot", "snapshot_with"})
    /\ LET l == Asked(c)
           s == Subject(c)
           snapshot == [lang |-> l, sid |-> s, memory |-> table[l][s]]
       IN \/ /\ Alive(c) /\ s \in Sessions(l)
             /\ Tells(c, SnapshotReply(table[l][s]))
             /\ Returns(c, [Says("snapshot") EXCEPT !.snap = snapshot])
             /\ snaps' = snaps \cup {snapshot} /\ UNCHANGED table
          \/ /\ Alive(c) /\ s \notin Sessions(l)
             /\ Tells(c, Reply("not_found"))
             /\ IF call[c].op = "snapshot"
                THEN GoesOn(c, Says("not_found")) ELSE Returns(c, Says("not_found"))
             /\ UNCHANGED <<table, snaps>>
          \/ (Alive(c) => s \in Sessions(l)) /\ Fails(c)
    /\ UNCHANGED <<runtimes, dead, owned, made>>

(* The runtime reads the magic again.  TypeScript needs an isolate and     *)
(* globals it can rebuild; Python can load what it has dumped.             *)
Restore(c) ==
    /\ Asks(c, {"restore"})
    /\ \/ /\ Alive(c) /\ call[c].snap.lang = Asked(c)
          /\ Stores(c, call[c].snap.memory)
          /\ Tells(c, Reply("ok")) /\ Returns(c, Says("ok")) /\ UNCHANGED snaps
       \/ (call[c].snap.lang = Asked(c) => Asked(c) = "typescript") /\ Fails(c)
    /\ UNCHANGED <<runtimes, dead, owned, made>>

Return(c) ==
    /\ call[c].at = "replied"
    /\ call' = [call EXCEPT ![c] = NoCall]
    /\ told' = [told EXCEPT ![c] = NoReply]
    /\ UNCHANGED <<runtimes, table, dead, owned, snaps, made>>

(* The worker thread of the TypeScript runtime ends, with every session. *)
Die ==
    /\ MayDie
    /\ "typescript" \in {runtimes[i] : i \in DOMAIN runtimes} \ dead
    /\ dead' = {"typescript"}
    /\ table' = [table EXCEPT !["typescript"] = [s \in Ids |-> None]]
    /\ UNCHANGED <<runtimes, call, owned, snaps, made, told>>

Serve(c) ==
    \/ Create(c)
    \/ RunTypeScript(c)
    \/ TakePython(c)
    \/ PutPython(c)
    \/ Destroy(c)
    \/ List(c)
    \/ TakeSnapshot(c)
    \/ Restore(c)

--------------------------------------------------------------------------------
(* What is remembered of a call that asks every runtime: the sessions that *)
(* were there from its first step to its answer, and those that were there *)
(* for a while.                                                            *)
Held == {x \in Languages \X Ids : table[x[1]][x[2]] # None}

Asking(c) ==
    /\ call[c].at = "ask" \/ call'[c].at = "ask"
    /\ call'[c].op \in {"list", "destroy", "snapshot"}

Watch ==
    /\ always' = [c \in Clients |->
         CASE call'[c].at = "idle" -> {}
           [] call'[c].at # "idle" /\ Asking(c) ->
                (IF call[c].at = "idle" THEN Held ELSE always[c]) \cap Held'
           [] OTHER -> always[c]]
    /\ ever' = [c \in Clients |->
         CASE call'[c].at = "idle" -> {}
           [] call'[c].at # "idle" /\ Asking(c) -> ever[c] \cup Held \cup Held'
           [] OTHER -> ever[c]]

SdkStep == Build \/ Die \/ \E c \in Clients : Invoke(c) \/ Serve(c) \/ Return(c)

Next == SdkStep /\ Watch

Spec == Init /\ [][Next]_vars

--------------------------------------------------------------------------------
Answered(c, op, tags) ==
    call[c].at = "replied" /\ call[c].op = op /\ call[c].res.tag \in tags

(* list_sessions names every session that a runtime had throughout the     *)
(* call, whatever is made, destroyed, run or lost meanwhile and in         *)
(* whichever order the runtimes are asked, and none that no runtime had.   *)
ListComplete ==
    \A c \in Clients : Answered(c, "list", {"list"}) =>
        /\ {x[2] : x \in always[c]} \subseteq call[c].res.ids
        /\ call[c].res.ids \subseteq {x[2] : x \in ever[c]}

(* destroy_session that is answered with no error has taken the session    *)
(* from every runtime that had it, and says whether there was one; it      *)
(* fails only if a runtime does.                                           *)
DestroyHonest ==
    \A c \in Clients : LET at(l) == <<l, call[c].sid>> IN
        /\ Answered(c, "destroy", {"removed", "absent"}) =>
              \A l \in Languages : at(l) \notin always[c]
        /\ Answered(c, "destroy", {"removed"}) => \E l \in Languages : at(l) \in ever[c]
        /\ Answered(c, "destroy", {"error"}) => dead # {}

(* A session that a runtime had throughout the call is found, and of two   *)
(* languages the one registered first is the one in the snapshot.          *)
SnapshotHonest ==
    \A c \in Clients : LET at(i) == <<runtimes[i], call[c].sid>> IN
        /\ Answered(c, "snapshot", {"not_found"}) =>
              \A i \in DOMAIN runtimes : at(i) \notin always[c]
        /\ Answered(c, "snapshot", {"snapshot"}) =>
              \E i \in DOMAIN runtimes :
                /\ call[c].res.snap.lang = runtimes[i] /\ at(i) \in ever[c]
                /\ \A j \in 1..(i - 1) : at(j) \notin always[c]

(* A snapshot this shell has given goes back to where it came from,        *)
(* whatever other runtimes there are, in whichever order: it is restored,  *)
(* unless TypeScript itself finds fault with it.  (The type invariant goes *)
(* with it.)                                                               *)
SnapshotsGoHome ==
    TypeOK /\ \A c \in Clients :
        call[c].at = "replied" /\ call[c].op = "restore" /\ call[c].snap \in snaps =>
            \/ call[c].res.tag = "ok"
            \/ call[c].snap.lang = "typescript" /\ told[c].tag = "error"

--------------------------------------------------------------------------------
(* The calls the TypeScript runtime sees; one that is gone has answered.   *)
RuntimeCall(c) ==
    LET asking == call[c].at = "ask" /\ Asked(c) = "typescript"
        seen(st, res) ==
            [st |-> st, op |-> IF call[c].op = "snapshot_with" THEN "snapshot" ELSE call[c].op,
             sid |-> Subject(c), tok |-> call[c].tok, res |-> res,
             arg |-> IF call[c].op = "restore" THEN call[c].snap.memory ELSE {}]
    IN CASE asking /\ Alive(c) -> seen("pending", NoReply)
         [] asking /\ ~Alive(c) -> seen("replied", Reply("error"))
         [] ~asking /\ told[c] # NoReply -> seen("replied", told[c])
         [] OTHER -> [st |-> "idle", op |-> None, sid |-> None, tok |-> None,
                      arg |-> {}, res |-> NoReply]

TypeScript == INSTANCE SessionStore WITH
    SessionIds <- Ids,
    live <- Sessions("typescript"),
    memory <- [s \in Ids |-> Before(table["typescript"][s])],
    call <- [c \in Clients |-> RuntimeCall(c)]

(* What the SDK takes the TypeScript runtime to do is what its contract    *)
(* says, which DenoWorker implements: the two modules fit together.        *)
UsesStore == TypeScript!Spec

================================================================================
