--------------------------------- MODULE Daemon --------------------------------
(***************************************************************************)
(* The JSON-RPC daemon over the SDK: one task per connection reads a line, *)
(* calls the SDK, writes the answer and reads the next line.  The peer may *)
(* send lines ahead and hang up at any time; the task hears of it when it  *)
(* writes or when nothing is left to read.                                 *)
(*                                                                         *)
(* The clients of Sdk are connections here; under the other front they are *)
(* tasks of a host that calls the SDK itself.  What a line says is chosen  *)
(* when it is read.                                                        *)
(***************************************************************************)
EXTENDS Sdk, FiniteSetsExt

VARIABLES
    front,   \* who calls the SDK in this process: "sdk" or "daemon"
    peers,   \* the connections whose peer is there
    unread   \* [Clients -> Nat], the lines each connection has received and not read

connections == <<peers, unread>>
daemonVars == <<vars, front, connections>>

DaemonTypeOK ==
    /\ TypeOK
    /\ front \in {"sdk", "daemon"}
    /\ peers \subseteq Clients
    /\ unread \in [Clients -> Nat]

DaemonInit ==
    /\ Init
    /\ front \in {"sdk", "daemon"}
    /\ peers = {}
    /\ unread = [c \in Clients |-> 0]

--------------------------------------------------------------------------------
(* default_shell *)
Listen ==
    /\ Build /\ runtimes' = <<"python", "typescript">>
    /\ UNCHANGED connections

(* A peer sends its lines ahead; one that waits for an answer before it    *)
(* sends more is as good as a new one, for a connection has no memory.     *)
(* An accept that fails ends the process and its sessions: a behaviour     *)
(* that stops, as any may, there being no fairness here.                   *)
Connect(c) ==
    /\ runtimes # <<>> /\ call[c].at = "idle" /\ unread[c] = 0
    /\ \E n \in 1..MaxCalls :
         /\ made + MapThenSumSet(LAMBDA d : unread[d], Clients) + n <= MaxCalls
         /\ unread' = [unread EXCEPT ![c] = n]
    /\ peers' = peers \cup {c}
    /\ UNCHANGED vars

(* Mutant: what a connection has under way is cancelled with it. *)
HangUpCancels(c) ==
    /\ c \in peers
    /\ peers' = peers \ {c}
    /\ call' = [call EXCEPT ![c] = NoCall]
    /\ owned' = [owned EXCEPT ![c] = None]
    /\ told' = [told EXCEPT ![c] = NoReply]
    /\ unread' = [unread EXCEPT ![c] = 0]
    /\ UNCHANGED <<runtimes, table, dead, snaps, made, always, ever>>

HangUp(c) ==
    /\ c \in peers
    /\ call[c].at # "idle" \/ unread[c] > 0
    /\ peers' = peers \ {c}
    /\ UNCHANGED <<vars, unread>>

(* The methods: create makes Python sessions only; tools.list,             *)
(* tools.describe and policy.get run Python under whatever id they get.    *)
RpcRequests ==
    {WithLanguage("create", s, "python") : s \in Ids}
        \cup {WithLanguage("run", s, l) : s \in Ids, l \in Languages}
        \cup {[WithLanguage("run", s, "python") EXCEPT !.checked = FALSE] : s \in Ids}
        \cup {Plain(op, s) : op \in {"destroy", "snapshot"}, s \in Ids}
        \cup {[Plain("restore", s) EXCEPT !.snap = e] : s \in Ids \cup {None}, e \in snaps \cup Foreign}

(* A line that is no request, names no method or lacks a parameter is      *)
(* answered with an error.                                                 *)
Refuse(c) ==
    /\ call[c].at = "idle"
    /\ made' = made + 1
    /\ call' = [call EXCEPT ![c] = [NoCall EXCEPT !.at = "replied", !.res = Says("error")]]
    /\ UNCHANGED <<runtimes, table, dead, owned, snaps, told>>

ReadLine(c) ==
    /\ unread[c] > 0
    /\ Refuse(c) \/ \E req \in RpcRequests : Start(c, req)
    /\ unread' = [unread EXCEPT ![c] = @ - 1]
    /\ UNCHANGED peers

(* A line that is not UTF-8 ends the connection without an answer, and     *)
(* what came after it is not read.                                         *)
ReadGarbage(c) ==
    /\ unread[c] > 0 /\ call[c].at = "idle"
    /\ unread' = [unread EXCEPT ![c] = 0]
    /\ peers' = peers \ {c}
    /\ UNCHANGED vars

(* Write the answer; when that fails the connection is over, and what has  *)
(* not been read never will be.                                            *)
WriteAnswer(c) ==
    /\ Return(c)
    /\ unread' = IF c \in peers THEN unread ELSE [unread EXCEPT ![c] = 0]
    /\ peers' = IF unread'[c] = 0 THEN peers \ {c} ELSE peers

DaemonStep ==
    \/ Listen
    \/ Die /\ UNCHANGED connections
    \/ \E c \in Clients :
         \/ Connect(c)
         \/ HangUp(c)
         \/ ReadLine(c)
         \/ ReadGarbage(c)
         \/ Serve(c) /\ UNCHANGED connections
         \/ WriteAnswer(c)

DaemonNext ==
    /\ \/ front = "sdk" /\ SdkStep /\ UNCHANGED connections
       \/ front = "daemon" /\ DaemonStep
    /\ UNCHANGED front
    /\ Watch

DaemonSpec == DaemonInit /\ [][DaemonNext]_daemonVars

--------------------------------------------------------------------------------
(* A session, in its table or in the hands of a run, stays until it is     *)
(* destroyed by name or its runtime dies: nothing a connection does or     *)
(* leaves undone, and no other call, makes it go away.  (The type          *)
(* invariant goes with it.)                                                *)
Exists(l, s) ==
    \/ table[l][s] # None
    \/ l = "python" /\ \E c \in Clients : call[c].at = "taken" /\ Subject(c) = s

SessionsStay ==
    [][/\ DaemonTypeOK'
       /\ \A l \in Languages, s \in Ids :
            Exists(l, s) /\ ~Exists(l, s)' =>
               \/ \E c \in Clients : Asks(c, {"destroy"}) /\ Subject(c) = s
               \/ l \in dead']_daemonVars

================================================================================
