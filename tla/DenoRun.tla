-------------------------------- MODULE DenoRun --------------------------------
(***************************************************************************)
(* The runs of one TypeScript session (DenoSession::run), one after the    *)
(* other on the worker thread, each with a timer thread that terminates    *)
(* the isolate when the run's time is over.                                *)
(*                                                                         *)
(* A run injects its inputs, executes its script, then polls the isolate's *)
(* event loop until the promise of the script settles or tokio's timeout   *)
(* elapses, and reads `result`.  The operations of asynchronous tools      *)
(* belong to the isolate, not to the run: those that are under way when a  *)
(* run ends go on in the event loop of the next one.  What tools report is *)
(* collected in DenoOpState, which a run resets when it begins and copies  *)
(* when its code has ended.                                                *)
(*                                                                         *)
(* The isolate executes JavaScript of the user at three more moments: when *)
(* inputs are injected (built-in functions the code has replaced), when    *)
(* `result` is read, and when a snapshot is taken between two runs         *)
(* (getters).  Tools are called there as well; no timer is set.            *)
(***************************************************************************)
EXTENDS Naturals, Sequences, FiniteSets

CONSTANTS
    MaxExternalCalls,  \* limits.max_external_calls
    MaxRuns,           \* bound of the model: runs
    MaxToolCalls       \* bound of the model: tool calls, over all runs

ASSUME RunAssumption ==
    /\ MaxExternalCalls \in Nat /\ MaxRuns \in Nat /\ MaxToolCalls \in Nat

(* A tool call: the run whose code made it, and its number. *)
ToolCall == Nat \X Nat

Statuses == {"ok", "rejected", "timeout", "threw", "tool_error", "unserializable"}

(* A RunResult. *)
Outcome == [status : Statuses, records : Seq(ToolCall)]

VARIABLES
    run,          \* how many runs have begun
    phase,        \* where the worker is, see Phases
    back,         \* the phase a synchronous tool returns to
    ended,        \* how the code ended: "none", "done", "threw" or "elapsed"
    timer,        \* the timer thread: "none", "waiting", "firing" or "exited"
    stopped,      \* timer_done, the flag that tells the timer to stop
    timedOut,     \* timed_out, the flag the timer sets
    terminating,  \* is a terminate_execution pending on the isolate?
    calls,        \* how many tool calls have been made
    calling,      \* the synchronous call being awaited: none or one
    queued,       \* asynchronous operations never polled
    running,      \* asynchronous operations whose tool has begun
    started,      \* DenoOpState.started_calls
    records,      \* DenoOpState.records
    error,        \* is DenoOpState.error set?
    kept,         \* RunStateSnapshot.records, copied when the code has ended
    answered,     \* history: the calls whose tool has answered
    aside,        \* history: those answered while no timer was set
    results       \* the results of the runs so far

timerVars == <<timer, stopped, timedOut, terminating>>
opState == <<started, records, error, answered, aside>>
ops == <<calls, calling, queued, running>>
vars == <<run, phase, back, ended, timerVars, ops, opState, kept, results>>

(* JavaScript runs under a timer in the first two, without one in the last. *)
TimedCode == {"script", "loop"}
UntimedCode == {"inject", "read", "snapshot"}
Code == TimedCode \cup UntimedCode

Phases == Code \cup {"idle", "tool", "stop", "join", "collect"}

(* Where the worker is, a synchronous tool being a part of the code. *)
Place == IF phase = "tool" THEN back ELSE phase

TypeOK ==
    /\ run \in Nat
    /\ phase \in Phases /\ back \in Code
    /\ ended \in {"none", "done", "threw", "elapsed"}
    /\ timer \in {"none", "waiting", "firing", "exited"}
    /\ stopped \in BOOLEAN /\ timedOut \in BOOLEAN /\ terminating \in BOOLEAN
    /\ calls \in Nat
    /\ calling \subseteq ToolCall /\ queued \subseteq ToolCall /\ running \subseteq ToolCall
    /\ started \in Nat
    /\ records \in Seq(ToolCall)
    /\ error \in BOOLEAN
    /\ kept \in Seq(ToolCall)
    /\ answered \subseteq ToolCall /\ aside \subseteq ToolCall
    /\ results \in Seq(Outcome)

Init ==
    /\ run = 0 /\ phase = "idle" /\ back = "script" /\ ended = "none"
    /\ timer = "none" /\ stopped = FALSE /\ timedOut = FALSE /\ terminating = FALSE
    /\ calls = 0 /\ calling = {} /\ queued = {} /\ running = {}
    /\ started = 0 /\ records = <<>> /\ error = FALSE /\ kept = <<>>
    /\ answered = {} /\ aside = {}
    /\ results = <<>>

--------------------------------------------------------------------------------
(* Beginning a run *)

(* The run ends with a result. *)
Close(status, entries) ==
    /\ phase' = "idle"
    /\ results' = Append(results, [status |-> status, records |-> entries])

(* Mutant: the records of the run before are still there. *)
ResetRunStateKeepsRecords ==
    started' = 0 /\ error' = FALSE /\ UNCHANGED <<records, answered, aside>>

ResetRunState ==
    started' = 0 /\ records' = <<>> /\ error' = FALSE /\ UNCHANGED <<answered, aside>>

(* Static validation or transpiling refuses the code. *)
RejectRun ==
    /\ phase = "idle" /\ run < MaxRuns
    /\ run' = run + 1
    /\ Close("rejected", <<>>)
    /\ UNCHANGED <<back, ended, timerVars, ops, opState, kept>>

(* The op state is reset and the inputs are injected. *)
BeginRun ==
    /\ phase = "idle" /\ run < MaxRuns
    /\ run' = run + 1
    /\ phase' = "inject"
    /\ ResetRunState
    /\ UNCHANGED <<back, ended, timerVars, ops, kept, results>>

(* Injecting the inputs fails: the result has no records, whatever tools   *)
(* were called.                                                            *)
InjectFails ==
    /\ phase = "inject"
    /\ Close("rejected", <<>>)
    /\ UNCHANGED <<run, back, ended, timerVars, ops, opState, kept>>

(* The timer starts and the script executes. *)
StartScript ==
    /\ phase = "inject" /\ phase' = "script" /\ ended' = "none"
    /\ timer' = "waiting" /\ stopped' = FALSE /\ timedOut' = FALSE
    /\ UNCHANGED <<run, back, terminating, ops, opState, kept, results>>

--------------------------------------------------------------------------------
(* Tool calls: JavaScript runs unless it is being terminated.              *)

Calling ==
    /\ phase \in Code /\ ~terminating
    /\ calls < MaxToolCalls
    /\ calls' = calls + 1

(* Mutant: the limit is compared before this call is counted. *)
CountedLate == started <= MaxExternalCalls

(* prepare_tool_call: every call counts; is this one within the limit? *)
Counted == started' <= MaxExternalCalls

(* A call over the limit, of an unknown tool or (synchronously) of an      *)
(* asynchronous tool is refused, and the refusal is kept in the op state.  *)
CallSync ==
    /\ Calling
    /\ started' = started + 1
    /\ \/ error' = TRUE /\ UNCHANGED <<phase, back, calling>>
       \/ /\ Counted
          /\ phase' = "tool" /\ back' = phase
          /\ calling' = {<<run, calls'>>}
          /\ UNCHANGED error
    /\ UNCHANGED <<run, ended, timerVars, queued, running, records, answered, aside, kept,
                   results>>

(* finish_tool_call; a tool that fails leaves its error in the op state. *)
Finish(call) ==
    /\ records' = Append(records, call)
    /\ answered' = answered \cup {call}
    /\ error' \in {error, TRUE}
    /\ UNCHANGED started

(* block_on(run_tool) returns. *)
AnswerSync(call) ==
    /\ phase = "tool" /\ call \in calling
    /\ Finish(call)
    /\ aside' = IF back \in UntimedCode THEN aside \cup {call} ELSE aside
    /\ phase' = back /\ calling' = {}
    /\ UNCHANGED <<run, back, ended, timerVars, calls, queued, running, kept, results>>

(* The operation is lazy: nothing is prepared until it is polled. *)
CallAsync ==
    /\ Calling
    /\ queued' = queued \cup {<<run, calls'>>}
    /\ UNCHANGED <<run, phase, back, ended, timerVars, calling, running, opState, kept, results>>

(* The event loop polls an operation for the first time. *)
PollOp(call) ==
    /\ phase = "loop" /\ call \in queued
    /\ started' = started + 1
    /\ queued' = queued \ {call}
    /\ \/ error' = TRUE /\ UNCHANGED running
       \/ Counted /\ running' = running \cup {call} /\ UNCHANGED error
    /\ UNCHANGED <<run, phase, back, ended, timerVars, calls, calling, records, answered, aside,
                   kept, results>>

(* The event loop finds that the tool of an operation has answered. *)
AnswerAsync(call) ==
    /\ phase = "loop" /\ call \in running
    /\ Finish(call)
    /\ running' = running \ {call}
    /\ UNCHANGED <<run, phase, back, ended, timerVars, calls, calling, queued, aside, kept, results>>

--------------------------------------------------------------------------------
(* The end of the code *)

ScriptReturns ==
    /\ phase = "script" /\ phase' = "loop"
    /\ UNCHANGED <<run, back, ended, timerVars, ops, opState, kept, results>>

(* The script throws or is terminated. *)
ScriptThrows ==
    /\ phase = "script" /\ phase' = "stop" /\ ended' = "threw"
    /\ UNCHANGED <<run, back, timerVars, ops, opState, kept, results>>

(* The promise is resolved or rejected, or tokio's timeout elapses first. *)
LoopEnds ==
    /\ phase = "loop" /\ phase' = "stop"
    /\ ended' \in {"done", "threw", "elapsed"}
    /\ UNCHANGED <<run, back, timerVars, ops, opState, kept, results>>

--------------------------------------------------------------------------------
(* The timer thread: it holds timer_done's lock from its timeout on. *)

TimerFires ==
    /\ timer = "waiting" /\ ~stopped
    /\ timer' = "firing" /\ timedOut' = TRUE
    /\ UNCHANGED <<run, phase, back, ended, stopped, terminating, ops, opState, kept, results>>

TimerTerminates ==
    /\ timer = "firing"
    /\ timer' = "exited" /\ terminating' = TRUE
    /\ UNCHANGED <<run, phase, back, ended, stopped, timedOut, ops, opState, kept, results>>

TimerStops ==
    /\ timer = "waiting" /\ stopped
    /\ timer' = "exited"
    /\ UNCHANGED <<run, phase, back, ended, stopped, timedOut, terminating, ops, opState, kept, results>>

(* Mutant: the timer is told to stop and not waited for. *)
DetachTimer ==
    /\ phase = "stop"
    /\ phase' = "collect"
    /\ UNCHANGED <<run, back, ended, timerVars, ops, opState, kept, results>>

(* stop_timer: take the lock, set the flag, ... *)
StopTimer ==
    /\ phase = "stop" /\ timer # "firing"
    /\ stopped' = TRUE
    /\ phase' = "join"
    /\ UNCHANGED <<run, back, ended, timer, timedOut, terminating, ops, opState, kept, results>>

(* Mutant: a timer that fired is not waited for, ever. *)
JoinTimerUnfired ==
    /\ phase = "join" /\ timer = "exited" /\ ~timedOut
    /\ phase' = "collect"
    /\ UNCHANGED <<run, back, ended, timerVars, ops, opState, kept, results>>

(* ... and join the thread. *)
JoinTimer ==
    /\ phase = "join" /\ timer = "exited"
    /\ phase' = "collect"
    /\ UNCHANGED <<run, back, ended, timerVars, ops, opState, kept, results>>

--------------------------------------------------------------------------------
(* Mutant: the code's own error is looked at first. *)
FailureOfCode ==
    IF ended = "threw" THEN "threw"
    ELSE IF timedOut \/ ended = "elapsed" THEN "timeout"
    ELSE IF error THEN "tool_error" ELSE "none"

(* Mutant: the result says how the code ended. *)
FailureRaw == ended

(* What became of the code: a timeout is reported before the code's own    *)
(* error, that before the error in the op state.                           *)
Failure ==
    IF timedOut \/ ended = "elapsed" THEN "timeout"
    ELSE IF ended = "threw" THEN "threw"
    ELSE IF error THEN "tool_error" ELSE "none"

(* A timeout cancels a pending termination.  Only a run without an error   *)
(* goes on to read `result`.                                               *)
Collect ==
    /\ phase = "collect"
    /\ terminating' = (terminating /\ Failure # "timeout")
    /\ kept' = records
    /\ \/ Failure # "none" /\ Close(Failure, records)
       \/ Failure = "none" /\ phase' = "read" /\ UNCHANGED results
    /\ UNCHANGED <<run, back, ended, timer, stopped, timedOut, ops, opState>>

(* Reading `result` may throw, and what it holds may have no JSON form. *)
ReadResult ==
    /\ phase = "read"
    /\ \E status \in {"ok", "unserializable"} : Close(status, kept)
    /\ UNCHANGED <<run, back, ended, timerVars, ops, opState, kept>>

(* A snapshot between two runs of the isolate's code; what it returns is   *)
(* DenoGlobals'.                                                           *)
BeginSnapshot ==
    /\ phase = "idle" /\ phase' = "snapshot" /\ run > 0
    /\ UNCHANGED <<run, back, ended, timerVars, ops, opState, kept, results>>

EndSnapshot ==
    /\ phase = "snapshot" /\ phase' = "idle"
    /\ UNCHANGED <<run, back, ended, timerVars, ops, opState, kept, results>>

--------------------------------------------------------------------------------
(* A synchronous tool answers: the only step the host has to wait for. *)
ToolAnswers == \E call \in calling : AnswerSync(call)

(* What else happens, whatever the code does. *)
Host ==
    \/ CallSync
    \/ CallAsync
    \/ \E call \in queued : PollOp(call)
    \/ \E call \in running : AnswerAsync(call)
    \/ ScriptReturns
    \/ ScriptThrows
    \/ LoopEnds
    \/ TimerFires
    \/ TimerTerminates
    \/ TimerStops
    \/ StopTimer
    \/ JoinTimer
    \/ Collect

(* The ends of code that nothing stops. *)
UntimedEnds == InjectFails \/ StartScript \/ ReadResult \/ EndSnapshot

Next == RejectRun \/ BeginRun \/ BeginSnapshot \/ Host \/ ToolAnswers \/ UntimedEnds

Spec == Init /\ [][Next]_vars

(* The worker and the timer thread go on: the script is terminated and the *)
(* event loop left when their time is over.  Asynchronous tools need never *)
(* answer, and code without a timer need never end.                        *)
FairSpec == Spec /\ WF_vars(Host)

(* Moreover every synchronous tool answers. *)
FairToolsSpec == FairSpec /\ WF_vars(ToolAnswers)

--------------------------------------------------------------------------------
(* Nothing of a run's timer reaches the next run: when its code has ended  *)
(* its timer thread is gone and no termination is pending on the isolate,  *)
(* so neither a later run nor code without a timer is killed by it.        *)
NoStaleTermination ==
    /\ Place \in UntimedCode \cup {"idle"} => timer \in {"none", "exited"} /\ ~terminating
    /\ Place \in TimedCode /\ timer = "waiting" => ~terminating

(* A run whose isolate was told to terminate says so, even when its code   *)
(* was done at the same moment.                                            *)
TerminationReported ==
    phase = "idle" /\ timedOut /\ results[run].status # "rejected" =>
        results[run].status = "timeout"

(* The entries of the results' records. *)
Told ==
    UNION {{r} \X (1..Len(results[r].records)) : r \in 1..Len(results)}

(* No call is in the records of two runs, or twice in those of one; each   *)
(* of them was answered; and none that was answered under a run's timer is *)
(* missing when the run has ended.  (A call answered while `result` is     *)
(* read, during a snapshot, or before an injection fails is in no records.)*)
AuditedOnce ==
    /\ \A p, q \in Told :
         results[p[1]].records[p[2]] = results[q[1]].records[q[2]] => p = q
    /\ LET recorded == {results[p[1]].records[p[2]] : p \in Told}
       IN /\ recorded \subseteq answered
          /\ phase = "idle" => answered \ aside \subseteq recorded

(* Whatever is left over from run to run, no more tools have begun than    *)
(* the limits of the runs so far allow.                                    *)
BegunWithinLimit ==
    Cardinality(answered \cup running \cup calling) <= run * MaxExternalCalls

(* Code under a timer ends, and with it the run, or all of it but reading  *)
(* `result`.                                                               *)
TimedCodeEnds ==
    Place \in TimedCode \cup {"stop", "join", "collect"} ~> Place \in {"idle", "read"}

================================================================================
