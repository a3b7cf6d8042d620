------------------------------- MODULE MontyRun -------------------------------
(***************************************************************************)
(* One run on a Python session (run_session and run_repl_snippet): the     *)
(* host drives the interpreter from one request to the next, calls the     *)
(* host tools the code asks for, records them, and when the code is done   *)
(* evaluates the global `result` to find out what the run returns.         *)
(*                                                                         *)
(* A synchronous tool is awaited at once.  An asynchronous one becomes a   *)
(* future of `pending`, a FuturesUnordered that is polled only while the   *)
(* interpreter waits for results; what it yields too early waits in        *)
(* `ready`.                                                                *)
(*                                                                         *)
(* The interpreter is external: it may ask for anything its own state      *)
(* allows.  A call is <<its number, the tool it names>>.                   *)
(***************************************************************************)
EXTENDS Naturals, Sequences, FiniteSets

CONSTANTS
    Tools,             \* registered tools
    AsyncTools,        \* those with async_mode
    UnknownTool,       \* a name that is not registered
    Orphans,           \* futures earlier snippets of the session left unresolved
    MaxExternalCalls,  \* limits.max_external_calls
    MaxStdoutBytes,    \* limits.max_stdout_bytes
    MaxSteps           \* bound of the model: requests of the interpreter per run

ASSUME ToolAssumption ==
    /\ AsyncTools \subseteq Tools
    /\ UnknownTool \notin Tools

ASSUME BoundAssumption ==
    /\ MaxExternalCalls \in Nat /\ MaxStdoutBytes \in Nat /\ MaxSteps \in Nat

ToolCall == (Nat \ {0}) \X Tools

ASSUME OrphanAssumption == Orphans \cap ToolCall = {}

(* What an expression or the global `result` may be: not there, Python's   *)
(* None, a value JSON can express, or one it cannot.                       *)
Values == {"absent", "none", "json", "nonjson"}

Serializable == {"none", "json"}

(* How a run ends.  "soft" errors of the interpreter are UNKNOWN_TOOL and  *)
(* RUNTIME_ERROR, "hard" ones the others (limits, types, permissions).     *)
Endings == {"none", "ok", "rejected", "unserializable", "soft", "hard",
            "exceeded", "unknown_tool", "bad_arguments", "no_host_futures"}

VARIABLES
    phase,      \* what the host does: "start", "step", "call", "resolve", "ended"
    snippet,    \* the snippet it feeds: the run's "code", or the "probe" for result
    steps,      \* how many requests the interpreter has made
    result,     \* external: the interpreter's global `result`
    started,    \* started_calls
    calling,    \* the synchronous calls being awaited: none or one
    pending,    \* the futures in `pending`
    begun,      \* history: the calls whose handler has begun
    ready,      \* results that were yielded before they were asked for
    awaited,    \* pending_call_ids of the request being served
    records,    \* external_calls
    issued,     \* external: calls the interpreter holds a future of
    delivered,  \* external: calls the interpreter has the result of
    stdout,     \* bytes printed
    expression, \* expression_result, the value of the code's last expression
    outcome     \* the RunResult: how it ended, its value and stdout

vars == <<phase, snippet, steps, result, started, calling, pending, begun, ready,
          awaited, records, issued, delivered, stdout, expression, outcome>>

host == <<started, calling, pending, begun, ready, awaited, records>>
vm == <<result, issued, delivered, stdout>>

Outcome == [ending : Endings, value : Values, stdout : Nat]

NoOutcome == [ending |-> "none", value |-> "absent", stdout |-> 0]

TypeOK ==
    /\ phase \in {"start", "step", "call", "resolve", "ended"}
    /\ snippet \in {"code", "probe"}
    /\ steps \in Nat
    /\ result \in Values
    /\ started \in Nat
    /\ calling \subseteq ToolCall
    /\ pending \subseteq ToolCall
    /\ begun \subseteq ToolCall
    /\ ready \in Seq(ToolCall)
    /\ awaited \subseteq ToolCall \cup Orphans
    /\ records \in Seq(ToolCall)
    /\ issued \subseteq ToolCall
    /\ delivered \subseteq ToolCall
    /\ stdout \in Nat
    /\ expression \in Values
    /\ outcome \in Outcome

Recorded == {records[i] : i \in 1..Len(records)}

--------------------------------------------------------------------------------
(* The session may have a `result` from an earlier run. *)
Init ==
    /\ phase = "start" /\ snippet = "code" /\ steps = 0
    /\ result \in Values
    /\ started = 0
    /\ calling = {} /\ pending = {} /\ begun = {} /\ ready = <<>> /\ awaited = {}
    /\ records = <<>>
    /\ issued = {} /\ delivered = {}
    /\ stdout = 0
    /\ expression = "absent"
    /\ outcome = NoOutcome

(* A snippet's futures and early results are dropped with it. *)
DropFutures == pending' = {} /\ ready' = <<>> /\ awaited' = {} /\ calling' = {}

Ends(ending, value, bytes) ==
    /\ phase' = "ended"
    /\ outcome' = [ending |-> ending, value |-> value, stdout |-> bytes]
    /\ DropFutures

(* truncate_stdout *)
Truncated(bytes) == IF bytes <= MaxStdoutBytes THEN bytes ELSE MaxStdoutBytes

(* Static validation or the conversion of the inputs refuses the run, or   *)
(* the code is fed to the interpreter.                                     *)
Start ==
    /\ phase = "start"
    /\ \/ Ends("rejected", "absent", 0) /\ UNCHANGED <<snippet, expression, started, begun, records>>
       \/ phase' = "step" /\ UNCHANGED <<snippet, expression, outcome, host>>
    /\ UNCHANGED <<steps, vm>>

(* Mutant: the output of code that fails is not cut. *)
SnippetFailsUntruncated(ending) ==
    /\ IF snippet = "probe" /\ ending = "soft"
       THEN Ends("ok", expression, Truncated(stdout))
       ELSE Ends(ending, "absent", stdout)
    /\ UNCHANGED <<snippet, expression, started, begun, records>>

(* A snippet fails.  That of the code fails the run; the probe's soft      *)
(* failure means there is no `result`, its hard one fails the run, this    *)
(* time without truncation.                                                *)
SnippetFails(ending) ==
    /\ CASE snippet = "code" -> Ends(ending, "absent", Truncated(stdout))
         [] snippet = "probe" /\ ending = "soft" ->
              Ends("ok", expression, Truncated(stdout))
         [] OTHER -> Ends(ending, "absent", stdout)
    /\ UNCHANGED <<snippet, expression, started, begun, records>>

--------------------------------------------------------------------------------
(* The interpreter's requests *)

Requests == phase = "step" /\ steps < MaxSteps /\ steps' = steps + 1

(* The code runs on: it prints, assigns `result`, or looks up a name or    *)
(* makes a system call, which the host answers without further effect.     *)
Progress ==
    /\ Requests /\ snippet = "code"
    /\ \/ stdout' = stdout + 1 /\ UNCHANGED result
       \/ result' \in Values \ {"absent"} /\ UNCHANGED stdout
       \/ UNCHANGED <<result, stdout>>
    /\ UNCHANGED <<phase, snippet, issued, delivered, expression, outcome, host>>

(* The code raises, or a limit of the interpreter is exceeded. *)
Raise ==
    /\ phase = "step"
    /\ \/ snippet = "code" /\ SnippetFails("soft")
       \/ snippet = "probe" /\ result = "absent" /\ SnippetFails("soft")
       \/ SnippetFails("hard")
    /\ UNCHANGED <<steps, vm>>

(* Mutant: the limit is compared before this call is counted. *)
VerdictOffByOne(n, name) ==
    IF n > MaxExternalCalls + 1 THEN "exceeded"
    ELSE IF name = UnknownTool THEN "unknown_tool" ELSE "none"

(* The checks of the n-th call of a run, to a function of that name, before *)
(* anything is done about it.                                              *)
Verdict(n, name) ==
    IF n > MaxExternalCalls THEN "exceeded"
    ELSE IF name = UnknownTool THEN "unknown_tool" ELSE "none"

(* The code calls a function the interpreter does not define.  Every call  *)
(* counts, the one that is refused too; arguments may have no JSON form.   *)
FunctionCall(name) ==
    /\ Requests /\ snippet = "code"
    /\ started' = started + 1
    /\ LET call == <<started', name>>
           verdict == Verdict(started', name)
       IN \/ /\ verdict # "none"
             /\ Ends(verdict, "absent", Truncated(stdout))
             /\ UNCHANGED <<begun, issued>>
          \/ /\ verdict = "none"
             /\ Ends("bad_arguments", "absent", Truncated(stdout))
             /\ UNCHANGED <<begun, issued>>
          \/ /\ verdict = "none" /\ name \in AsyncTools
             /\ pending' = pending \cup {call}
             /\ issued' = issued \cup {call}
             /\ UNCHANGED <<phase, calling, begun, ready, awaited, outcome>>
          \/ /\ verdict = "none" /\ name \notin AsyncTools
             /\ phase' = "call"
             /\ calling' = {call}
             /\ begun' = begun \cup {call}
             /\ UNCHANGED <<pending, issued, ready, awaited, outcome>>
    /\ UNCHANGED <<snippet, result, delivered, stdout, records, expression>>

(* The synchronous tool answers; nothing in `pending` was polled meanwhile. *)
SyncAnswer(call) ==
    /\ phase = "call" /\ call \in calling
    /\ records' = Append(records, call)
    /\ delivered' = delivered \cup {call}
    /\ calling' = {}
    /\ phase' = "step"
    /\ UNCHANGED <<snippet, steps, result, started, pending, begun, ready, awaited,
                   issued, stdout, expression, outcome>>

--------------------------------------------------------------------------------
(* The interpreter asks for the results of some of its futures. *)

(* What the interpreter may wait for. *)
Futures == (issued \ delivered) \cup Orphans

Deliver(calls) ==
    /\ records' = records \o calls
    /\ delivered' = delivered \cup {calls[i] : i \in 1..Len(calls)}
    /\ phase' = "step"
    /\ awaited' = {}

(* Mutant: results that came early are not looked at. *)
ResolveFuturesUndrained(calls) ==
    /\ Requests /\ snippet = "code"
    /\ calls # {} /\ calls \subseteq Futures
    /\ phase' = "resolve"
    /\ awaited' = calls
    /\ UNCHANGED <<snippet, result, started, calling, pending, begun, ready, issued,
                   records, delivered, stdout, expression, outcome>>

(* The items of s that are in S, in order, found in one pass. *)
Picked(s, S) ==
    LET upTo[i \in 0..Len(s)] ==
          IF i = 0 THEN <<>>
          ELSE IF s[i] \in S THEN Append(upTo[i - 1], s[i]) ELSE upTo[i - 1]
    IN upTo[Len(s)]

(* drain_ready_for: results that came early are handed over at once;       *)
(* otherwise the host polls `pending`.                                     *)
ResolveFutures(calls) ==
    /\ Requests /\ snippet = "code"
    /\ calls # {} /\ calls \subseteq Futures
    /\ LET early == Picked(ready, calls)
       IN /\ ready' = Picked(ready, ToolCall \ calls)
          /\ IF early # <<>>
             THEN Deliver(early)
             ELSE /\ phase' = "resolve"
                  /\ awaited' = calls
                  /\ UNCHANGED <<records, delivered>>
    /\ UNCHANGED <<snippet, result, started, calling, pending, begun, issued,
                   stdout, expression, outcome>>

(* pending.next() polls a future for the first time. *)
Begin(call) ==
    /\ phase = "resolve"
    /\ call \in pending \ begun
    /\ begun' = begun \cup {call}
    /\ UNCHANGED <<phase, snippet, steps, started, calling, pending, ready, awaited,
                   records, expression, outcome, vm>>

(* Mutant: every result is kept for the next request too. *)
YieldKept(call) ==
    /\ phase = "resolve"
    /\ call \in pending \cap begun
    /\ pending' = pending \ {call}
    /\ ready' = Append(ready, call)
    /\ IF call \in awaited
       THEN records' = Append(records, call) /\ phase' = "step" /\ awaited' = {}
       ELSE UNCHANGED <<records, phase, awaited>>
    /\ UNCHANGED <<snippet, steps, result, started, calling, begun, issued, delivered,
                   stdout, expression, outcome>>

(* Mutant: a result nobody asked for yet is dropped. *)
YieldDropped(call) ==
    /\ phase = "resolve"
    /\ call \in pending \cap begun
    /\ pending' = pending \ {call}
    /\ IF call \in awaited
       THEN Deliver(<<call>>)
       ELSE UNCHANGED <<records, delivered, phase, awaited>>
    /\ UNCHANGED <<snippet, steps, result, started, calling, begun, ready, issued,
                   stdout, expression, outcome>>

(* pending.next() yields a result: one that is asked for goes to the       *)
(* interpreter, one that is not is kept.                                   *)
Yield(call) ==
    /\ phase = "resolve"
    /\ call \in pending \cap begun
    /\ pending' = pending \ {call}
    /\ IF call \in awaited
       THEN Deliver(<<call>>) /\ UNCHANGED ready
       ELSE ready' = Append(ready, call) /\ UNCHANGED <<records, delivered, phase, awaited>>
    /\ UNCHANGED <<snippet, steps, result, started, calling, begun, issued,
                   stdout, expression, outcome>>

(* Mutant: the host keeps polling when nothing is pending. *)
NothingPendingSpins ==
    /\ phase = "resolve" /\ pending = {}
    /\ UNCHANGED vars

(* pending.next() has nothing left to yield. *)
NothingPending ==
    /\ phase = "resolve" /\ pending = {}
    /\ SnippetFails("no_host_futures")
    /\ UNCHANGED <<steps, vm>>

--------------------------------------------------------------------------------
(* The code ends with a value.  One that is not JSON fails the run without *)
(* a look at `result`; otherwise the probe is fed.                         *)
CodeCompletes(value) ==
    /\ phase = "step" /\ snippet = "code"
    /\ IF value = "nonjson"
       THEN /\ Ends("unserializable", "absent", stdout)
            /\ UNCHANGED <<snippet, expression>>
       ELSE /\ snippet' = "probe"
            /\ expression' = IF value = "none" THEN "absent" ELSE value
            /\ DropFutures
            /\ UNCHANGED <<phase, outcome>>
    /\ UNCHANGED <<steps, started, begun, records, vm>>

(* The probe finds `result`. *)
ProbeCompletes ==
    /\ phase = "step" /\ snippet = "probe"
    /\ result # "absent"
    /\ IF result = "nonjson"
       THEN Ends("unserializable", "absent", stdout)
       ELSE Ends("ok", result, Truncated(stdout))
    /\ UNCHANGED <<snippet, steps, expression, started, begun, records, vm>>

(* The handler of a tool answers: the steps the host has to wait for. *)
ToolAnswers ==
    \/ \E call \in calling : SyncAnswer(call)
    \/ \E call \in pending : Yield(call)

(* The interpreter and the host go on. *)
Host ==
    \/ Start
    \/ Progress
    \/ Raise
    \/ \E name \in Tools \cup {UnknownTool} : FunctionCall(name)
    \/ \E calls \in SUBSET Futures : ResolveFutures(calls)
    \/ \E call \in pending : Begin(call)
    \/ NothingPending
    \/ \E value \in Values \ {"absent"} : CodeCompletes(value)
    \/ ProbeCompletes

Next == Host \/ ToolAnswers

Spec == Init /\ [][Next]_vars

(* The host goes on as long as it can: the interpreter is bounded in time  *)
(* by the run's duration (here by MaxSteps).                               *)
FairSpec == Spec /\ WF_vars(Host)

(* Moreover every tool answers. *)
FairToolsSpec == FairSpec /\ WF_vars(ToolAnswers)

--------------------------------------------------------------------------------
(* A result reaches the interpreter if and only if it reaches the audit    *)
(* records, and once: neither the early results nor those of synchronous   *)
(* calls are dropped from the records or told twice.                       *)
RecordedOnce ==
    /\ Recorded = delivered
    /\ \A i, j \in 1..Len(records) : records[i] = records[j] => i = j

(* The host never sleeps on `pending` while a result the interpreter waits *)
(* for lies in `ready`.                                                    *)
NeverSleepsOnReady ==
    phase = "resolve" => \A i \in 1..Len(ready) : ready[i] \notin awaited

(* Until the snippet ends, every future the interpreter holds is still     *)
(* going to be resolved: its call is pending or its result is kept.  So    *)
(* the host has nothing left to poll only if the interpreter waits for     *)
(* nothing but futures another snippet left behind.  (The type invariant   *)
(* goes with it.)                                                          *)
FuturesBacked ==
    /\ TypeOK
    /\ phase \in {"step", "call", "resolve"} /\ snippet = "code" =>
         issued \ delivered \subseteq pending \cup {ready[i] : i \in 1..Len(ready)}
    /\ phase = "resolve" /\ pending = {} => awaited \subseteq Orphans

(* No more handlers begin than the run may make external calls. *)
CallsWithinLimit == Cardinality(begun) <= MaxExternalCalls

(* Whatever path a run ends on, what it printed is cut to the limit, but   *)
(* for the two endings that report before the cut: a value without JSON    *)
(* form, and a hard failure of the probe.                                  *)
StdoutBounded ==
    outcome.stdout > MaxStdoutBytes =>
        \/ outcome.ending = "unserializable"
        \/ outcome.ending = "hard" /\ snippet = "probe"

(* Every run ends. *)
RunEnds == <>(phase = "ended")

================================================================================
