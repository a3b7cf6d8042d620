----------------------------- MODULE DenoRun_proof -----------------------------
(***************************************************************************)
(* Proofs about the runs of a TypeScript session: what the timer thread of *)
(* a run may do to that run and to the next, how many tools may begin,     *)
(* where answered calls are recorded, and that every step of a run brings  *)
(* it closer to its end.                                                   *)
(***************************************************************************)
EXTENDS DenoRun, FiniteSetTheorems, TLAPS

Running == {"script", "loop", "stop"}

(* No timer belongs to the worker there. *)
Untimed == UntimedCode \cup {"idle"}

(* The run that has begun last has its result. *)
Closed == Place \in {"idle", "snapshot"}

(* The parts of TypeOK. *)
PlaceTyped ==
    /\ run \in Nat
    /\ phase \in Phases /\ back \in Code
    /\ ended \in {"none", "done", "threw", "elapsed"}

TimerTyped ==
    /\ timer \in {"none", "waiting", "firing", "exited"}
    /\ stopped \in BOOLEAN /\ timedOut \in BOOLEAN /\ terminating \in BOOLEAN

OpsTyped ==
    /\ calls \in Nat
    /\ calling \subseteq ToolCall /\ queued \subseteq ToolCall /\ running \subseteq ToolCall

OpStateTyped ==
    /\ started \in Nat /\ error \in BOOLEAN
    /\ records \in Seq(ToolCall)
    /\ answered \subseteq ToolCall /\ aside \subseteq ToolCall

ResultsTyped == kept \in Seq(ToolCall) /\ results \in Seq(Outcome)

(* TypeOK is the conjunction of its parts, *)
LEMMA TypeParts ==
    TypeOK <=> PlaceTyped /\ TimerTyped /\ OpsTyped /\ OpStateTyped /\ ResultsTyped
BY DEF TypeOK, PlaceTyped, TimerTyped, OpsTyped, OpStateTyped, ResultsTyped

(* and so it is after a step. *)
LEMMA TypePartsNext ==
    ASSUME PlaceTyped', TimerTyped', OpsTyped', OpStateTyped', ResultsTyped'
    PROVE  TypeOK'
BY DEF TypeOK, PlaceTyped, TimerTyped, OpsTyped, OpStateTyped, ResultsTyped

(* The place of the worker is its phase, or that of the code that awaits a *)
(* tool.                                                                   *)
LEMMA PlacePhase ==
    /\ phase # "tool" => Place = phase
    /\ phase = "tool" => Place = back
BY DEF Place

LEMMA PlacePhaseNext ==
    /\ phase' # "tool" => Place' = phase'
    /\ phase' = "tool" => Place' = back'
BY DEF Place

(* The op state keeps its type when it is reset and when a call finishes. *)
LEMMA ResetTyped ==
    ASSUME OpStateTyped, ResetRunState
    PROVE  OpStateTyped'
<1>1. started' \in Nat /\ error' \in BOOLEAN
  BY DEF ResetRunState
<1>2. records' \in Seq(ToolCall)
  BY DEF ResetRunState
<1>3. answered' \subseteq ToolCall /\ aside' \subseteq ToolCall
  BY DEF ResetRunState, OpStateTyped
<1>4. QED
  BY <1>1, <1>2, <1>3 DEF OpStateTyped

(* A call that finishes keeps the type of the op state. *)
LEMMA FinishTyped ==
    ASSUME OpStateTyped, NEW tool \in ToolCall, Finish(tool),
           aside' \in {aside, aside \cup {tool}}
    PROVE  OpStateTyped'
<1>1. started' \in Nat /\ error' \in BOOLEAN
  BY DEF Finish, OpStateTyped
<1>2. records' \in Seq(ToolCall)
  BY DEF Finish, OpStateTyped
<1>3. answered' \subseteq ToolCall /\ aside' \subseteq ToolCall
  BY DEF Finish, OpStateTyped
<1>4. QED
  BY <1>1, <1>2, <1>3 DEF OpStateTyped

(* A synchronous tool is awaited in its phase, and there is just one. *)
CallingOK == phase # "tool" => calling = {}

(* Where the timer thread is, seen from the run it belongs to. *)
TimerOK ==
    /\ Place \in Untimed => timer \in {"none", "exited"}
    /\ Place \in Running => timer # "none" /\ ~stopped
    /\ Place = "join" => stopped /\ timer \in {"waiting", "exited"}
    /\ Place = "collect" => timer = "exited"
    /\ Place = "read" => ~timedOut
    /\ timer \in {"none", "waiting"} => ~timedOut
    /\ timer = "firing" => timedOut

(* Only the timer of the run under way terminates the isolate. *)
TerminationOwned == terminating => timedOut /\ timer = "exited" /\ Place \notin Untimed

(* A run that has ended has its result; the flag of its timer is in it. *)
ResultsOK ==
    /\ Len(results) = IF Closed THEN run ELSE run - 1
    /\ Place # "idle" => run > 0
    /\ run = 0 => ~timedOut
    /\ Closed /\ timedOut /\ run > 0 => results[run].status \in {"timeout", "rejected"}

(* The inductive invariant. *)
IInv ==
    /\ TypeOK
    /\ CallingOK
    /\ TimerOK
    /\ TerminationOwned
    /\ ResultsOK

--------------------------------------------------------------------------------
(* Every initial state satisfies the invariant. *)
LEMMA InitIInv == Init => IInv
<1> SUFFICES ASSUME Init PROVE IInv
  OBVIOUS
<1>1. records \in Seq(ToolCall) /\ results \in Seq(Outcome) /\ Len(results) = 0
  BY DEF Init
<1>2. TypeOK
  BY <1>1 DEF Init, TypeOK, Phases, Code, TimedCode, UntimedCode
<1>3. Place = "idle"
  BY PlacePhase DEF Init
<1>4. CallingOK /\ TimerOK /\ TerminationOwned /\ ResultsOK
  BY <1>1, <1>3 DEF Init, CallingOK, TimerOK, TerminationOwned, ResultsOK, Running, Closed
<1>5. QED
  BY <1>2, <1>4 DEF IInv

(* A result put after those of earlier runs leaves them as they were. *)
LEMMA ResultAppended ==
    ASSUME results \in Seq(Outcome), NEW o \in Outcome, results' = Append(results, o)
    PROVE  /\ results' \in Seq(Outcome)
           /\ Len(results') = Len(results) + 1
           /\ results'[Len(results) + 1] = o
OBVIOUS

(* A run that ends has one result more, and is in no phase of its own. *)
LEMMA Closing ==
    ASSUME IInv, NEW status \in Statuses, NEW entries \in Seq(ToolCall), Close(status, entries)
    PROVE  /\ Place' = "idle" /\ Closed'
           /\ results' \in Seq(Outcome)
           /\ Len(results') = Len(results) + 1
           /\ results'[Len(results) + 1].status = status
           /\ phase' \in Phases
<1>1. [status |-> status, records |-> entries] \in Outcome
  BY DEF Outcome
<1>2. results' = Append(results, [status |-> status, records |-> entries]) /\ phase' = "idle"
  BY DEF Close
<1>3. /\ results' \in Seq(Outcome)
      /\ Len(results') = Len(results) + 1
      /\ results'[Len(results) + 1] = [status |-> status, records |-> entries]
  BY <1>1, <1>2, ResultAppended DEF IInv, TypeOK
<1>4. Place' = "idle"
  BY <1>2, PlacePhaseNext
<1>5. QED
  BY <1>2, <1>3, <1>4 DEF Closed, Phases

(* A run that is rejected touches no timer. *)
LEMMA RejectStep ==
    ASSUME IInv, RejectRun \/ InjectFails
    PROVE  IInv'
<1>1. /\ "rejected" \in Statuses /\ <<>> \in Seq(ToolCall) /\ Close("rejected", <<>>)
      /\ UNCHANGED <<back, ended, timerVars, ops, opState, kept>>
  BY DEF RejectRun, InjectFails, Statuses
<1>2. /\ Place' = "idle" /\ Closed'
      /\ results' \in Seq(Outcome)
      /\ Len(results') = Len(results) + 1
      /\ results'[Len(results) + 1].status = "rejected"
      /\ phase' \in Phases
  BY <1>1, Closing
<1>3. run \in Nat /\ run' \in Nat /\ run' = Len(results) + 1 /\ Place \in Untimed
  <2>1. CASE RejectRun
    <3>1. Place = "idle" /\ run' = run + 1
      BY <2>1, PlacePhase DEF RejectRun
    <3>2. QED
      BY <3>1 DEF IInv, TypeOK, ResultsOK, Closed, Untimed
  <2>2. CASE InjectFails
    <3>1. Place = "inject" /\ run' = run
      BY <2>2, PlacePhase DEF InjectFails
    <3>2. QED
      BY <3>1 DEF IInv, TypeOK, ResultsOK, Closed, Untimed, UntimedCode
  <2>3. QED
    BY <2>1, <2>2
<1>4. TypeOK'
  BY <1>1, <1>2, <1>3 DEF IInv, TypeOK, timerVars, ops, opState
<1>5. CallingOK'
  BY <1>1, <1>3, PlacePhase DEF IInv, CallingOK, ops, TypeOK, RejectRun, InjectFails
<1>6. TimerOK' /\ TerminationOwned'
  BY <1>1, <1>2, <1>3
     DEF IInv, TypeOK, TimerOK, TerminationOwned, Running, Untimed, UntimedCode, timerVars
<1>7. ResultsOK'
  BY <1>1, <1>2, <1>3 DEF IInv, TypeOK, ResultsOK, timerVars
<1>8. QED
  BY <1>4, <1>5, <1>6, <1>7 DEF IInv

(* A run that begins has no timer yet, *)
LEMMA BeginRunStep ==
    ASSUME IInv, BeginRun
    PROVE  IInv'
<1>1. /\ phase = "idle" /\ run' = run + 1 /\ phase' = "inject" /\ ResetRunState
      /\ UNCHANGED <<back, ended, timerVars, ops, kept, results>>
  BY DEF BeginRun
<1>2. Place = "idle" /\ Place' = "inject"
  BY <1>1, PlacePhase, PlacePhaseNext
<1>3. TypeOK'
  <2>1. OpStateTyped' /\ OpsTyped' /\ TimerTyped' /\ ResultsTyped'
    BY <1>1, TypeParts, ResetTyped DEF IInv, OpsTyped, TimerTyped, ResultsTyped, ops, timerVars
  <2>2. PlaceTyped'
    BY <1>1, TypeParts DEF IInv, PlaceTyped, Phases, Code, UntimedCode
  <2>3. QED
    BY <2>1, <2>2, TypePartsNext
<1>4. CallingOK'
  BY <1>1 DEF IInv, CallingOK, ops
<1>5. TimerOK' /\ TerminationOwned' /\ ResultsOK'
  BY <1>1, <1>2 DEF IInv, TypeOK, TimerOK, TerminationOwned, ResultsOK, Running, Untimed,
     UntimedCode, Closed, timerVars
<1>6. QED
  BY <1>3, <1>4, <1>5 DEF IInv

(* and its script has a new one. *)
LEMMA StartScriptStep ==
    ASSUME IInv, StartScript
    PROVE  IInv'
<1>1. /\ phase = "inject" /\ phase' = "script" /\ ended' = "none"
      /\ timer' = "waiting" /\ stopped' = FALSE /\ timedOut' = FALSE
      /\ UNCHANGED <<run, back, terminating, ops, opState, kept, results>>
  BY DEF StartScript
<1>2. Place = "inject" /\ Place' = "script"
  BY <1>1, PlacePhase, PlacePhaseNext
<1>3. TypeOK'
  <2>1. OpStateTyped' /\ OpsTyped' /\ TimerTyped' /\ ResultsTyped'
    BY <1>1, TypeParts
       DEF IInv, OpsTyped, OpStateTyped, TimerTyped, ResultsTyped, ops, opState
  <2>2. PlaceTyped'
    BY <1>1, TypeParts DEF IInv, PlaceTyped, Phases, Code, TimedCode
  <2>3. QED
    BY <2>1, <2>2, TypePartsNext
<1>4. CallingOK'
  BY <1>1 DEF IInv, CallingOK, ops
<1>5. TimerOK' /\ TerminationOwned' /\ ResultsOK'
  BY <1>1, <1>2 DEF IInv, TypeOK, TimerOK, TerminationOwned, ResultsOK, Running, Untimed,
     UntimedCode, Closed
<1>6. QED
  BY <1>3, <1>4, <1>5 DEF IInv

(* A snapshot comes between two runs. *)
LEMMA SnapshotStep ==
    ASSUME IInv, BeginSnapshot \/ EndSnapshot
    PROVE  IInv'
<1>1. /\ phase' \in {"idle", "snapshot"} /\ phase \in {"idle", "snapshot"} /\ run > 0
      /\ UNCHANGED <<run, back, ended, timerVars, ops, opState, kept, results>>
  BY PlacePhase DEF BeginSnapshot, EndSnapshot, IInv, ResultsOK
<1>2. Place \in {"idle", "snapshot"} /\ Place' \in {"idle", "snapshot"}
  BY <1>1, PlacePhase, PlacePhaseNext
<1>3. TypeOK'
  BY <1>1 DEF IInv, TypeOK, Phases, Code, UntimedCode, timerVars, ops, opState
<1>4. CallingOK'
  BY <1>1 DEF IInv, CallingOK, ops
<1>5. TimerOK' /\ TerminationOwned' /\ ResultsOK'
  BY <1>1, <1>2 DEF IInv, TypeOK, TimerOK, TerminationOwned, ResultsOK, Running, Untimed,
     UntimedCode, Closed, timerVars
<1>6. QED
  BY <1>3, <1>4, <1>5 DEF IInv

--------------------------------------------------------------------------------
(* What the code's steps leave alone: the timer thread, the results, and   *)
(* the run's place before its end.                                         *)
LEMMA CodeStep ==
    ASSUME IInv, TypeOK', CallingOK',
           Place' = Place \/ (Place \in Running /\ Place' \in Running),
           UNCHANGED <<run, timerVars, results>>
    PROVE  IInv'
<1>1. Closed' = Closed
  BY DEF Closed, Running
<1>2. QED
  BY <1>1 DEF IInv, TimerOK, TerminationOwned, ResultsOK, Running, Untimed, UntimedCode, timerVars

(* The steps of the code: tool calls, their answers, its end. *)
LEMMA CallStep ==
    ASSUME IInv, CallSync \/ CallAsync
    PROVE  IInv'
<1>1. <<run, calls'>> \in ToolCall /\ calls' \in Nat
  BY DEF IInv, TypeOK, CallSync, CallAsync, Calling, ToolCall
<1>2. phase \in Code /\ phase # "tool"
  BY DEF CallSync, CallAsync, Calling, Code, TimedCode, UntimedCode
<1>3. phase' = phase \/ (phase' = "tool" /\ back' = phase)
  BY DEF CallSync, CallAsync
<1>4. Place' = Place
  BY <1>2, <1>3, PlacePhase, PlacePhaseNext
<1>5. TypeOK'
  <2>1. PlaceTyped' /\ OpsTyped'
    BY <1>1, <1>2, TypeParts
       DEF IInv, PlaceTyped, OpsTyped, CallSync, CallAsync, Calling, Phases
  <2>2. error' \in BOOLEAN /\ UNCHANGED <<records, answered, aside>>
    BY TypeParts, Zenon DEF IInv, OpStateTyped, CallSync, CallAsync, opState
  <2>3. started' \in Nat
    BY TypeParts DEF IInv, OpStateTyped, CallSync, CallAsync, opState
  <2>4. OpStateTyped' /\ TimerTyped' /\ ResultsTyped'
    BY <2>2, <2>3, TypeParts
       DEF IInv, OpStateTyped, TimerTyped, ResultsTyped, CallSync, CallAsync, timerVars
  <2>5. QED
    BY <2>1, <2>4, TypePartsNext
<1>6. CallingOK'
  BY <1>2 DEF IInv, CallingOK, CallSync, CallAsync, Calling
<1>7. UNCHANGED <<run, timerVars, results>>
  BY DEF CallSync, CallAsync
<1>8. QED
  BY <1>4, <1>5, <1>6, <1>7, CodeStep

(* The answers to tool calls, and the first poll of an operation. *)
LEMMA AnswerStep ==
    ASSUME IInv, NEW tool,
           \/ tool \in calling /\ AnswerSync(tool)
           \/ tool \in queued /\ PollOp(tool)
           \/ tool \in running /\ AnswerAsync(tool)
    PROVE  IInv'
<1>1. tool \in ToolCall
  BY DEF IInv, TypeOK
<1>2. OpStateTyped'
  <2>1. CASE Finish(tool) /\ aside' \in {aside, aside \cup {tool}}
    BY <1>1, <2>1, TypeParts, FinishTyped DEF IInv
  <2>2. CASE PollOp(tool)
    <3>1. error' \in BOOLEAN /\ UNCHANGED <<records, answered, aside>>
      BY <2>2, TypeParts, Zenon DEF IInv, OpStateTyped, PollOp
    <3>2. started' \in Nat
      BY <2>2, TypeParts DEF IInv, OpStateTyped, PollOp
    <3>3. QED
      BY <3>1, <3>2, TypeParts DEF IInv, OpStateTyped
  <2>3. QED
    BY <2>1, <2>2 DEF AnswerSync, AnswerAsync
<1>3. back \in Code /\ back # "tool"
  BY DEF IInv, TypeOK, Code, TimedCode, UntimedCode
<1>4. TypeOK'
  <2>1. PlaceTyped' /\ OpsTyped'
    BY <1>1, <1>3, TypeParts
       DEF IInv, PlaceTyped, OpsTyped, AnswerSync, PollOp, AnswerAsync, Phases
  <2>2. TimerTyped' /\ ResultsTyped'
    BY TypeParts DEF IInv, TimerTyped, ResultsTyped, AnswerSync, PollOp, AnswerAsync, timerVars
  <2>3. QED
    BY <1>2, <2>1, <2>2, TypePartsNext
<1>5. CallingOK'
  BY DEF IInv, CallingOK, AnswerSync, PollOp, AnswerAsync
<1>6. Place' = Place
  <2>1. \/ phase = "tool" /\ phase' = back
        \/ phase = "loop" /\ phase' = phase
    BY DEF AnswerSync, PollOp, AnswerAsync
  <2>2. QED
    BY <1>3, <2>1, PlacePhase, PlacePhaseNext
<1>7. UNCHANGED <<run, timerVars, results>>
  BY DEF AnswerSync, PollOp, AnswerAsync
<1>8. QED
  BY <1>4, <1>5, <1>6, <1>7, CodeStep

(* The end of the script and of the event loop. *)
LEMMA EndStep ==
    ASSUME IInv, ScriptReturns \/ ScriptThrows \/ LoopEnds
    PROVE  IInv'
<1>1. TypeOK'
  BY DEF IInv, TypeOK, ScriptReturns, ScriptThrows, LoopEnds, timerVars, ops, opState, Phases,
     Code, TimedCode
<1>2. CallingOK'
  BY DEF IInv, CallingOK, ScriptReturns, ScriptThrows, LoopEnds, ops
<1>3. phase \in Running /\ phase' \in Running /\ phase # "tool" /\ phase' # "tool"
  BY DEF ScriptReturns, ScriptThrows, LoopEnds, Running
<1>4. Place \in Running /\ Place' \in Running
  BY <1>3, PlacePhase, PlacePhaseNext
<1>5. UNCHANGED <<run, timerVars, results>>
  BY DEF ScriptReturns, ScriptThrows, LoopEnds
<1>6. QED
  BY <1>1, <1>2, <1>4, <1>5, CodeStep

--------------------------------------------------------------------------------
(* The timer thread goes on by itself. *)
LEMMA TimerThreadStep ==
    ASSUME IInv, TimerFires \/ TimerTerminates \/ TimerStops
    PROVE  IInv'
<1>1. UNCHANGED <<run, phase, back, ended, stopped, ops, opState, kept, results>>
  BY DEF TimerFires, TimerTerminates, TimerStops
<1>2. Place' = Place /\ Closed' = Closed
  BY <1>1 DEF Place, Closed
<1>3. TypeOK'
  BY <1>1 DEF IInv, TypeOK, TimerFires, TimerTerminates, TimerStops, ops, opState
<1>4. CallingOK'
  BY <1>1 DEF IInv, CallingOK, ops
<1>5. timer \notin {"none", "exited"}
  BY DEF TimerFires, TimerTerminates, TimerStops
<1>6. Place \notin Untimed /\ ~Closed
  BY <1>5 DEF IInv, TimerOK, Untimed, UntimedCode, Closed
<1>7. TimerOK'
  BY <1>1, <1>2, <1>6 DEF IInv, TypeOK, TimerOK, Running, Untimed, UntimedCode, TimerFires,
     TimerTerminates, TimerStops
<1>8. TerminationOwned'
  BY <1>1, <1>2, <1>5, <1>6 DEF IInv, TypeOK, TimerOK, TerminationOwned, TimerFires,
     TimerTerminates, TimerStops
<1>9. ResultsOK'
  BY <1>1, <1>2, <1>6 DEF IInv, TypeOK, ResultsOK, Closed
<1>10. QED
  BY <1>3, <1>4, <1>7, <1>8, <1>9 DEF IInv

(* The worker stops it and waits for it. *)
LEMMA StopTimerStep ==
    ASSUME IInv, StopTimer \/ JoinTimer
    PROVE  IInv'
<1>1. /\ UNCHANGED <<run, back, ended, timer, timedOut, terminating, ops, opState, kept, results>>
      /\ phase # "tool" /\ phase' # "tool"
  BY DEF StopTimer, JoinTimer, timerVars
<1>2. Place = phase /\ Place' = phase'
  BY <1>1, PlacePhase, PlacePhaseNext
<1>3. TypeOK'
  BY <1>1 DEF IInv, TypeOK, StopTimer, JoinTimer, Phases, timerVars, ops, opState
<1>4. CallingOK'
  BY <1>1 DEF IInv, CallingOK, ops
<1>5. TimerOK' /\ TerminationOwned'
  BY <1>1, <1>2 DEF IInv, TypeOK, TimerOK, TerminationOwned, Running, Untimed, UntimedCode,
     StopTimer, JoinTimer, timerVars
<1>6. ~Closed /\ ~Closed'
  BY <1>2 DEF Closed, StopTimer, JoinTimer
<1>7. ResultsOK'
  BY <1>1, <1>2, <1>6 DEF IInv, TypeOK, ResultsOK, StopTimer, JoinTimer
<1>8. QED
  BY <1>3, <1>4, <1>5, <1>7 DEF IInv

(* What became of the code is a status, if it is a failure; a pending      *)
(* termination is the run's own, so it is a timeout.                       *)
LEMMA FailureTyped ==
    ASSUME IInv
    PROVE  /\ Failure \in Statuses \cup {"none"}
           /\ timedOut => Failure = "timeout"
           /\ Failure = "none" => ~timedOut
BY DEF IInv, TypeOK, Failure, Statuses

(* The end of the code: a timeout cancels a pending termination. *)
LEMMA CollectStep ==
    ASSUME IInv, Collect
    PROVE  IInv'
<1>1. /\ phase = "collect" /\ kept' = records
      /\ UNCHANGED <<run, back, ended, timer, stopped, timedOut, ops, opState>>
  BY DEF Collect
<1>2. Place = "collect"
  BY <1>1, PlacePhase
<1>3. ~terminating'
  <2>1. terminating => timedOut
    BY DEF IInv, TerminationOwned
  <2>2. terminating' => terminating /\ Failure # "timeout"
    BY Zenon DEF Collect
  <2>3. QED
    BY <2>1, <2>2, FailureTyped
<1>4. records \in Seq(ToolCall) /\ run \in Nat /\ run > 0 /\ Len(results) = run - 1
  BY <1>2 DEF IInv, TypeOK, ResultsOK, Closed
<1>5. terminating' \in BOOLEAN
  BY Zenon DEF Collect
<1>6. /\ phase' \in Phases /\ phase' # "tool" /\ results' \in Seq(Outcome)
      /\ \/ /\ Place' = "idle" /\ Len(results') = run
            /\ results'[run].status = Failure
         \/ Place' = "read" /\ results' = results /\ ~timedOut
  <2>1. CASE Failure # "none" /\ Close(Failure, records)
    BY <1>4, <2>1, FailureTyped, Closing DEF Close
  <2>2. CASE Failure = "none" /\ phase' = "read" /\ UNCHANGED results
    BY <2>2, FailureTyped, PlacePhaseNext DEF IInv, TypeOK, Phases, Code, UntimedCode
  <2>3. QED
    BY <2>1, <2>2 DEF Collect
<1>7. TypeOK'
  BY <1>1, <1>4, <1>5, <1>6 DEF IInv, TypeOK, ops, opState
<1>8. CallingOK'
  BY <1>1 DEF IInv, CallingOK, ops
<1>9. TimerOK'
  BY <1>1, <1>2, <1>6 DEF IInv, TimerOK, Running, Untimed, UntimedCode
<1>10. TerminationOwned'
  BY <1>3 DEF TerminationOwned
<1>11. ResultsOK'
  <2>1. Closed' <=> Place' = "idle"
    BY <1>6 DEF Closed
  <2>2. QED
    BY <1>1, <1>4, <1>6, <2>1, FailureTyped DEF ResultsOK
<1>12. QED
  BY <1>7, <1>8, <1>9, <1>10, <1>11 DEF IInv

(* The end of a run whose result was read: its timer had not fired. *)
LEMMA ReadStep ==
    ASSUME IInv, ReadResult
    PROVE  IInv'
<1>1. /\ phase = "read"
      /\ UNCHANGED <<run, back, ended, timerVars, ops, opState, kept>>
  BY DEF ReadResult
<1>2. PICK status \in {"ok", "unserializable"} : Close(status, kept)
  BY DEF ReadResult
<1>3. Place = "read" /\ ~timedOut
  BY <1>1, PlacePhase DEF IInv, TimerOK
<1>4. run \in Nat /\ run > 0 /\ Len(results) = run - 1
  BY <1>3 DEF IInv, TypeOK, ResultsOK, Closed
<1>5. kept \in Seq(ToolCall) /\ status \in Statuses
  BY DEF IInv, TypeOK, Statuses
<1>6. /\ Place' = "idle" /\ Closed'
      /\ results' \in Seq(Outcome) /\ Len(results') = run /\ phase' \in Phases
  BY <1>2, <1>4, <1>5, Closing
<1>7. TypeOK'
  BY <1>1, <1>6 DEF IInv, TypeOK, timerVars, ops, opState
<1>8. CallingOK'
  BY <1>1 DEF IInv, CallingOK, ops
<1>9. TimerOK' /\ TerminationOwned'
  BY <1>1, <1>3, <1>6
     DEF IInv, TimerOK, TerminationOwned, Running, Untimed, UntimedCode, timerVars
<1>10. ResultsOK'
  BY <1>1, <1>3, <1>4, <1>6 DEF ResultsOK, timerVars
<1>11. QED
  BY <1>7, <1>8, <1>9, <1>10 DEF IInv

--------------------------------------------------------------------------------
(* Every step preserves the invariant. *)
LEMMA NextIInv ==
    ASSUME IInv, [Next]_vars
    PROVE  IInv'
<1>1. CASE RejectRun \/ BeginRun \/ BeginSnapshot
  BY <1>1, RejectStep, BeginRunStep, SnapshotStep
<1>2. CASE Host
  BY <1>2, CallStep, AnswerStep, EndStep, TimerThreadStep, StopTimerStep, CollectStep DEF Host
<1>3. CASE ToolAnswers
  BY <1>3, AnswerStep DEF ToolAnswers
<1>4. CASE UntimedEnds
  BY <1>4, RejectStep, StartScriptStep, ReadStep, SnapshotStep DEF UntimedEnds
<1>5. CASE UNCHANGED vars
  <2>1. Place' = Place
    BY <1>5 DEF vars, Place
  <2>2. QED
    BY <1>5, <2>1 DEF vars, timerVars, ops, opState, IInv, TypeOK, CallingOK, TimerOK,
       TerminationOwned, ResultsOK, Closed
<1>6. QED
  BY <1>1, <1>2, <1>3, <1>4, <1>5 DEF Next

(* The invariant holds in every run. *)
THEOREM InvariantHolds == Spec => []IInv
<1>1. QED
  BY InitIInv, NextIInv, PTL DEF Spec

(* Every state of DenoSession, its op state and its timer thread has the   *)
(* shape TypeOK gives it.                                                  *)
THEOREM TypeCorrect == Spec => []TypeOK
<1>1. IInv => TypeOK
  BY DEF IInv
<1>2. QED
  BY <1>1, InvariantHolds, PTL

(* The timer of a run never terminates the isolate under a later run, nor  *)
(* under code that has no timer: stop_timer waits for the thread, and      *)
(* execute_user_code cancels what it did.                                  *)
THEOREM NoStaleTerminationHolds == Spec => []NoStaleTermination
<1>1. IInv => NoStaleTermination
  BY DEF IInv, TypeOK, TimerOK, TerminationOwned, NoStaleTermination, Untimed
<1>2. QED
  BY <1>1, InvariantHolds, PTL

(* A run whose isolate was told to terminate is reported as a timeout,     *)
(* however late in the run the timer fired.                                *)
THEOREM TerminationReportedHolds == Spec => []TerminationReported
<1>1. IInv => TerminationReported
  <2> SUFFICES ASSUME IInv, phase = "idle" PROVE TerminationReported
    BY DEF TerminationReported
  <2>1. Closed
    BY PlacePhase DEF Closed
  <2>2. QED
    BY <2>1 DEF IInv, TypeOK, ResultsOK, TerminationReported
<1>2. QED
  BY <1>1, InvariantHolds, PTL

--------------------------------------------------------------------------------
(* How many tools may begin.                                               *)

(* The calls whose tool has begun. *)
Begun == answered \cup running \cup calling

(* What the runs before the last one were allowed, and what it has used. *)
Allowed ==
    IF run = 0 THEN 0
    ELSE (run - 1) * MaxExternalCalls
            + (IF started <= MaxExternalCalls THEN started ELSE MaxExternalCalls)

BegunBounded == IsFiniteSet(Begun) /\ Cardinality(Begun) <= Allowed

(* The products with the limit on calls are numbers. *)
LEMMA Products ==
    ASSUME NEW r \in Nat
    PROVE  /\ r * MaxExternalCalls \in Nat
           /\ (r + 1) * MaxExternalCalls = r * MaxExternalCalls + MaxExternalCalls
BY RunAssumption

(* What is allowed is a number, *)
LEMMA AllowedTyped == IInv => Allowed \in Nat
<1> SUFFICES ASSUME IInv PROVE Allowed \in Nat
  OBVIOUS
<1>1. run \in Nat /\ (run # 0 => run - 1 \in Nat) /\ started \in Nat
  BY TypeParts DEF IInv, PlaceTyped, OpStateTyped
<1>2. run # 0 => (run - 1) * MaxExternalCalls \in Nat
  BY <1>1, Products
<1>3. QED
  BY <1>1, <1>2, RunAssumption DEF Allowed

(* and so it is after a step. *)
LEMMA AllowedTypedNext == IInv' => (Allowed \in Nat)'
BY AllowedTyped, PTL

(* A step after which no more tools have begun and no less is allowed. *)
LEMMA BegunShrinks ==
    ASSUME IInv, IInv', BegunBounded, Begun' \subseteq Begun, Allowed <= Allowed'
    PROVE  BegunBounded'
<1>1. IsFiniteSet(Begun') /\ Cardinality(Begun') <= Cardinality(Begun)
  BY FS_Subset DEF BegunBounded
<1>2. Cardinality(Begun) \in Nat /\ Cardinality(Begun') \in Nat
  BY <1>1, FS_CardinalityType DEF BegunBounded
<1>3. Cardinality(Begun') <= Allowed'
  BY <1>1, <1>2, AllowedTyped, AllowedTypedNext DEF BegunBounded
<1>4. QED
  BY <1>1, <1>3 DEF BegunBounded

(* A step that begins a tool has counted it, within the limit. *)
LEMMA BegunGrows ==
    ASSUME IInv, IInv', BegunBounded, NEW tool, Begun' = Begun \cup {tool},
           Allowed' = Allowed + 1
    PROVE  BegunBounded'
<1>1. IsFiniteSet(Begun') /\ Cardinality(Begun') <= Cardinality(Begun) + 1
  <2>1. Cardinality(Begun) \in Nat
    BY FS_CardinalityType DEF BegunBounded
  <2>2. QED
    BY <2>1, FS_AddElement DEF BegunBounded
<1>2. Cardinality(Begun) \in Nat /\ Cardinality(Begun') \in Nat
  BY <1>1, FS_CardinalityType DEF BegunBounded
<1>3. Cardinality(Begun') <= Allowed'
  BY <1>1, <1>2, AllowedTyped, AllowedTypedNext DEF BegunBounded
<1>4. QED
  BY <1>1, <1>3 DEF BegunBounded

(* Within a run, counting a call takes from what is left. *)
LEMMA CountingStep ==
    ASSUME IInv, IInv', Place # "idle", run' = run, started' = started + 1
    PROVE  /\ Allowed <= Allowed'
           /\ Counted => Allowed' = Allowed + 1
<1>1. started \in Nat /\ run - 1 \in Nat /\ run # 0
  BY TypeParts DEF IInv, PlaceTyped, OpStateTyped, ResultsOK
<1>2. (run - 1) * MaxExternalCalls \in Nat
  BY <1>1, Products
<1> DEFINE before == (run - 1) * MaxExternalCalls
<1>3. /\ Allowed = before + (IF started <= MaxExternalCalls THEN started ELSE MaxExternalCalls)
      /\ Allowed' = before + (IF started' <= MaxExternalCalls THEN started' ELSE MaxExternalCalls)
  BY <1>1 DEF Allowed
<1> HIDE DEF before
<1>4. before \in Nat
  BY <1>2 DEF before
<1>5. QED
  BY <1>1, <1>3, <1>4, RunAssumption DEF Counted

(* Beginning a run, or rejecting one. *)
LEMMA RunBoundStep ==
    ASSUME IInv, IInv', BegunBounded, RejectRun \/ BeginRun
    PROVE  BegunBounded'
<1>1. Begun' = Begun
  BY DEF Begun, RejectRun, BeginRun, ResetRunState, ops, opState
<1>2. /\ run \in Nat /\ started \in Nat /\ started' \in Nat
      /\ run' = run + 1 /\ started' \in {0, started}
  BY TypeParts DEF IInv, PlaceTyped, OpStateTyped, RejectRun, BeginRun, ResetRunState, opState
<1>3. run' # 0 /\ run' - 1 = run
  BY <1>2
<1>4. Allowed <= run * MaxExternalCalls /\ run * MaxExternalCalls \in Nat
  <2>1. run * MaxExternalCalls \in Nat
    BY <1>2, Products
  <2>2. CASE run = 0
    BY <2>1, <2>2 DEF Allowed
  <2>3. CASE run # 0
    <3>1. run - 1 \in Nat /\ run = (run - 1) + 1
      BY <1>2, <2>3
    <3>2. /\ (run - 1) * MaxExternalCalls \in Nat
          /\ run * MaxExternalCalls = (run - 1) * MaxExternalCalls + MaxExternalCalls
      BY <3>1, Products
    <3>3. QED
      BY <1>2, <2>1, <2>3, <3>2, RunAssumption DEF Allowed
  <2>4. QED
    BY <2>2, <2>3
<1>5. Allowed' = run * MaxExternalCalls
                   + (IF started' <= MaxExternalCalls THEN started' ELSE MaxExternalCalls)
  BY <1>3 DEF Allowed
<1>6. Allowed <= Allowed'
  BY <1>2, <1>4, <1>5, AllowedTyped, RunAssumption
<1>7. QED
  BY <1>1, <1>6, BegunShrinks

(* Tool calls. *)
LEMMA CallBoundStep ==
    ASSUME IInv, IInv', BegunBounded, CallSync \/ CallAsync
    PROVE  BegunBounded'
<1>1. run' = run
  BY DEF CallSync, CallAsync
<1>2. Place # "idle"
  BY PlacePhase DEF CallSync, CallAsync, Calling, Code, TimedCode, UntimedCode
<1>3. CASE CallSync
  <2>1. started' = started + 1
    BY <1>3 DEF CallSync
  <2>2. CASE UNCHANGED <<phase, back, calling>>
    BY <1>1, <1>2, <1>3, <2>1, <2>2, CountingStep, BegunShrinks DEF CallSync, Begun
  <2>3. CASE Counted /\ phase' = "tool" /\ calling' = {<<run, calls'>>}
    <3>1. calling = {}
      BY <1>3 DEF CallSync, Calling, IInv, CallingOK, Code, TimedCode, UntimedCode
    <3>2. Begun' = Begun \cup {<<run, calls'>>}
      BY <1>3, <2>3, <3>1 DEF CallSync, Begun
    <3>3. QED
      BY <1>1, <1>2, <2>1, <2>3, <3>2, CountingStep, BegunGrows
  <2>4. QED
    BY <1>3, <2>2, <2>3 DEF CallSync
<1>4. CASE CallAsync
  <2>1. Begun' = Begun /\ Allowed' = Allowed
    BY <1>1, <1>4 DEF CallAsync, Calling, Begun, Allowed, opState
  <2>2. QED
    BY <2>1, AllowedTyped, BegunShrinks
<1>5. QED
  BY <1>3, <1>4

(* Answers to tool calls, and the first poll of an operation. *)
LEMMA AnswerBoundStep ==
    ASSUME IInv, IInv', BegunBounded, NEW tool,
           \/ tool \in calling /\ AnswerSync(tool)
           \/ tool \in queued /\ PollOp(tool)
           \/ tool \in running /\ AnswerAsync(tool)
    PROVE  BegunBounded'
<1>1. CASE tool \in queued /\ PollOp(tool)
  <2>1. /\ Place # "idle" /\ run' = run /\ started' = started + 1
        /\ UNCHANGED <<answered, calling>>
    BY <1>1, PlacePhase DEF PollOp
  <2>2. CASE UNCHANGED running
    BY <2>1, <2>2, CountingStep, BegunShrinks DEF Begun
  <2>3. CASE Counted /\ running' = running \cup {tool}
    <3>1. Begun' = Begun \cup {tool}
      BY <2>1, <2>3 DEF Begun
    <3>2. QED
      BY <2>1, <2>3, <3>1, CountingStep, BegunGrows
  <2>4. QED
    BY <1>1, <2>2, <2>3 DEF PollOp
<1>2. CASE (tool \in calling /\ AnswerSync(tool)) \/ (tool \in running /\ AnswerAsync(tool))
  <2>1. answered' = answered \cup {tool} /\ started' = started /\ run' = run
    BY <1>2 DEF AnswerSync, AnswerAsync, Finish
  <2>2. calling' \subseteq calling /\ running' \subseteq running /\ tool \in Begun
    BY <1>2 DEF AnswerSync, AnswerAsync, Begun
  <2>4. Begun' \subseteq Begun
    BY <2>1, <2>2 DEF Begun
  <2>5. Allowed' = Allowed
    BY <2>1 DEF Allowed
  <2>6. QED
    BY <2>4, <2>5, AllowedTyped, BegunShrinks
<1>3. QED
  BY <1>1, <1>2

(* Steps that neither begin nor count anything. *)
LEMMA OtherBoundStep ==
    ASSUME IInv, IInv', BegunBounded,
           \/ ScriptReturns \/ ScriptThrows \/ LoopEnds \/ TimerFires \/ TimerTerminates
           \/ TimerStops \/ StopTimer \/ JoinTimer \/ Collect \/ BeginSnapshot \/ UntimedEnds
           \/ UNCHANGED vars
    PROVE  BegunBounded'
<1>1. UNCHANGED <<run, opState, ops>>
  BY DEF ScriptReturns, ScriptThrows, LoopEnds, TimerFires, TimerTerminates, TimerStops,
     StopTimer, JoinTimer, Collect, BeginSnapshot, UntimedEnds, InjectFails, StartScript,
     ReadResult, EndSnapshot, vars
<1>2. Begun' = Begun /\ Allowed' = Allowed
  BY <1>1 DEF Begun, Allowed, opState, ops
<1>3. QED
  BY <1>2, AllowedTyped, BegunShrinks

(* The limit on external calls bounds the tools that begin, over all runs  *)
(* and whichever run an asynchronous call is left over from: every call is *)
(* counted before it is compared with the limit, in the run that begins it.*)
THEOREM BegunWithinLimitHolds == Spec => []BegunWithinLimit
<1>1. Init => BegunBounded
  <2> SUFFICES ASSUME Init PROVE BegunBounded
    OBVIOUS
  <2>1. Begun = {} /\ Allowed = 0
    BY RunAssumption DEF Init, Begun, Allowed
  <2>2. QED
    BY <2>1, FS_EmptySet DEF BegunBounded
<1>2. ASSUME IInv, IInv', BegunBounded, [Next]_vars PROVE BegunBounded'
  <2>1. CASE RejectRun \/ BeginRun \/ BeginSnapshot \/ UntimedEnds
    BY <1>2, <2>1, RunBoundStep, OtherBoundStep
  <2>2. CASE Host
    BY <1>2, <2>2, CallBoundStep, AnswerBoundStep, OtherBoundStep DEF Host
  <2>3. CASE ToolAnswers
    BY <1>2, <2>3, AnswerBoundStep DEF ToolAnswers
  <2>4. CASE UNCHANGED vars
    BY <1>2, <2>4, OtherBoundStep
  <2>5. QED
    BY <1>2, <2>1, <2>2, <2>3, <2>4 DEF Next
<1>3. IInv /\ BegunBounded => BegunWithinLimit
  <2> SUFFICES ASSUME IInv, BegunBounded PROVE Cardinality(Begun) <= run * MaxExternalCalls
    BY DEF BegunWithinLimit, Begun
  <2>1. run \in Nat /\ started \in Nat /\ Cardinality(Begun) \in Nat
    BY TypeParts, FS_CardinalityType DEF IInv, PlaceTyped, OpStateTyped, BegunBounded
  <2>2. Allowed <= run * MaxExternalCalls
    <3>1. CASE run = 0
      BY <2>1, <3>1, Products DEF Allowed
    <3>2. CASE run # 0
      <4>1. run - 1 \in Nat /\ run = (run - 1) + 1
        BY <2>1, <3>2
      <4>2. /\ (run - 1) * MaxExternalCalls \in Nat
            /\ run * MaxExternalCalls = (run - 1) * MaxExternalCalls + MaxExternalCalls
        BY <4>1, Products
      <4>3. QED
        BY <2>1, <3>2, <4>2, RunAssumption DEF Allowed
    <3>3. QED
      BY <3>1, <3>2
  <2>3. run * MaxExternalCalls \in Nat
    BY <2>1, Products
  <2>4. QED
    BY <2>1, <2>2, <2>3, AllowedTyped DEF BegunBounded
<1>4. QED
  BY <1>1, <1>2, <1>3, InvariantHolds, PTL DEF Spec

--------------------------------------------------------------------------------
(* The audit trail.                                                        *)

(* The records of each run so far: those in its result, or, while it is    *)
(* under way, those in the op state or those copied from it.               *)
Open == IF Place = "read" THEN kept ELSE records

Books == [r \in 1..run |-> IF r <= Len(results) THEN results[r].records ELSE Open]

(* Every call that was answered under a timer is in one place of one run's *)
(* records.                                                                *)
Audited ==
    /\ \A r, q \in 1..run : \A i \in 1..Len(Books[r]), j \in 1..Len(Books[q]) :
         Books[r][i] = Books[q][j] => r = q /\ i = j
    /\ \A call \in answered \ aside :
         \E r \in 1..run : \E i \in 1..Len(Books[r]) : Books[r][i] = call
    /\ \A r \in 1..run : \A i \in 1..Len(Books[r]) : Books[r][i] \in answered

(* A call is in one stage at a time, and has a number no later call gets. *)
Staged ==
    /\ answered \cap (calling \cup queued \cup running) = {}
    /\ calling \cap (queued \cup running) = {}
    /\ queued \cap running = {}
    /\ \A call \in answered \cup calling \cup queued \cup running : call[2] <= calls

(* Before the timer is set nothing was answered under it. *)
Injected == Place = "inject" => \A i \in 1..Len(records) : records[i] \in aside

AInv == Staged /\ Audited /\ Injected

(* What the books are made of. *)
LEMMA BooksTyped ==
    ASSUME IInv
    PROVE  /\ run \in Nat
           /\ Len(results) \in Nat
           /\ Len(results) = IF Closed THEN run ELSE run - 1
           /\ Place # "idle" => run > 0
           /\ records \in Seq(ToolCall) /\ Open \in Seq(ToolCall)
           /\ \A r \in 1..Len(results) : results[r].records \in Seq(ToolCall)
           /\ \A r \in 1..run : Books[r] \in Seq(ToolCall)
<1>1. /\ run \in Nat /\ results \in Seq(Outcome) /\ records \in Seq(ToolCall)
      /\ Len(results) = IF Closed THEN run ELSE run - 1
      /\ Place # "idle" => run > 0
      /\ Open \in Seq(ToolCall)
  BY DEF IInv, TypeOK, ResultsOK, Open
<1>2. Len(results) \in Nat /\ \A r \in 1..Len(results) : results[r] \in Outcome
  BY <1>1
<1>3. \A r \in 1..Len(results) : results[r].records \in Seq(ToolCall)
  BY <1>2 DEF Outcome
<1>4. \A r \in 1..run : Books[r] \in Seq(ToolCall)
  BY <1>1, <1>2, <1>3 DEF Books
<1>5. QED
  BY <1>1, <1>2, <1>3, <1>4

(* A step after which the books and the answers are the same. *)
LEMMA BooksSame ==
    ASSUME Audited, Books' = Books, run' = run, answered \subseteq answered',
           answered' \ aside' \subseteq answered \ aside
    PROVE  Audited'
BY DEF Audited

(* A run that begins, or is rejected, opens an empty book. *)
LEMMA BookOpened ==
    ASSUME Audited, run \in Nat, run' = run + 1, UNCHANGED <<answered, aside>>,
           \A r \in 1..run : Books'[r] = Books[r], Books'[run + 1] = <<>>
    PROVE  Audited'
<1>1. 1..run' = (1..run) \cup {run + 1} /\ Len(Books'[run + 1]) = 0
  OBVIOUS
<1>2. 1..Len(Books'[run + 1]) = {}
  BY <1>1
<1>3. \A r \in 1..run' : \A i \in 1..Len(Books'[r]) : r \in 1..run /\ Books'[r] = Books[r]
  BY <1>1, <1>2
<1>4. ASSUME NEW r \in 1..run', NEW q \in 1..run',
             NEW i \in 1..Len(Books'[r]), NEW j \in 1..Len(Books'[q]),
             Books'[r][i] = Books'[q][j]
      PROVE  r = q /\ i = j
  BY <1>3, <1>4 DEF Audited
<1>5. ASSUME NEW tool \in answered' \ aside'
      PROVE  \E r \in 1..run' : \E i \in 1..Len(Books'[r]) : Books'[r][i] = tool
  BY <1>1 DEF Audited
<1>6. ASSUME NEW r \in 1..run', NEW i \in 1..Len(Books'[r])
      PROVE  Books'[r][i] \in answered'
  BY <1>3 DEF Audited
<1>7. QED
  BY <1>4, <1>5, <1>6 DEF Audited

(* A call that is answered enters the book of the run under way. *)
LEMMA BookEntered ==
    ASSUME Audited, NEW tool, tool \notin answered, answered' = answered \cup {tool},
           aside \subseteq aside',
           run \in Nat, run > 0, run' = run,
           \A r \in 1..run : Books[r] \in Seq(ToolCall), tool \in ToolCall,
           \A r \in 1..run : Books'[r] = IF r = run THEN Append(Books[r], tool) ELSE Books[r]
    PROVE  Audited'
<1>1. /\ run \in 1..run
      /\ Len(Books[run]) \in Nat
      /\ Len(Books'[run]) = Len(Books[run]) + 1
      /\ Books'[run][Len(Books[run]) + 1] = tool
      /\ \A i \in 1..Len(Books[run]) : Books'[run][i] = Books[run][i]
  <2>1. run \in 1..run
    OBVIOUS
  <2>2. PICK before, after : before = Books[run] /\ after = Books'[run]
    OBVIOUS
  <2>3. before \in Seq(ToolCall) /\ after = Append(before, tool)
    BY <2>1, <2>2
  <2>4. /\ Len(before) \in Nat /\ Len(after) = Len(before) + 1
        /\ after[Len(before) + 1] = tool
        /\ \A i \in 1..Len(before) : after[i] = before[i]
    BY <2>3
  <2>5. QED
    BY <2>1, <2>2, <2>4
<1>2. ASSUME NEW r \in 1..run, NEW i \in 1..Len(Books'[r])
      PROVE  \/ r = run /\ i = Len(Books[run]) + 1 /\ Books'[r][i] = tool
             \/ i \in 1..Len(Books[r]) /\ Books'[r][i] = Books[r][i]
  BY <1>1
<1>3. ASSUME NEW r \in 1..run, NEW q \in 1..run,
             NEW i \in 1..Len(Books'[r]), NEW j \in 1..Len(Books'[q]),
             Books'[r][i] = Books'[q][j]
      PROVE  r = q /\ i = j
  BY <1>2, <1>3 DEF Audited
<1>4. ASSUME NEW call \in answered' \ aside'
      PROVE  \E r \in 1..run : \E i \in 1..Len(Books'[r]) : Books'[r][i] = call
  <2>1. CASE call = tool
    <3>1. Len(Books[run]) + 1 \in 1..Len(Books'[run])
      BY <1>1
    <3>2. QED
      BY <1>1, <2>1, <3>1
  <2>2. CASE call \in answered \ aside
    <3>0. PICK r \in 1..run : \E i \in 1..Len(Books[r]) : Books[r][i] = call
      BY <2>2 DEF Audited
    <3>1. PICK i \in 1..Len(Books[r]) : Books[r][i] = call
      BY <3>0
    <3>2. i \in 1..Len(Books'[r]) /\ Books'[r][i] = call
      <4>1. CASE r = run
        BY <1>1, <3>1, <4>1
      <4>2. CASE r # run
        BY <3>1, <4>2
      <4>3. QED
        BY <4>1, <4>2
    <3>3. QED
      BY <3>2
  <2>3. QED
    BY <2>1, <2>2
<1>5. ASSUME NEW r \in 1..run, NEW i \in 1..Len(Books'[r])
      PROVE  Books'[r][i] \in answered'
  BY <1>2 DEF Audited
<1>6. QED
  BY <1>3, <1>4, <1>5 DEF Audited

(* What is in the books of the runs before the last. *)
LEMMA ClosedBooks ==
    ASSUME IInv
    PROVE  \A r \in 1..Len(results) : r \in 1..run /\ Books[r] = results[r].records
BY BooksTyped DEF Books

(* Beginning a run, and rejecting it. *)
LEMMA BeginAudited ==
    ASSUME IInv, AInv, RejectRun \/ BeginRun
    PROVE  AInv'
<1>1. Staged'
  BY DEF AInv, Staged, RejectRun, BeginRun, ResetRunState, ops, opState
<1>2. /\ run' = run + 1 /\ phase = "idle" /\ UNCHANGED <<answered, aside>>
      /\ \/ results' = Append(results, [status |-> "rejected", records |-> <<>>]) /\ Place' = "idle"
         \/ results' = results /\ records' = <<>> /\ Place' = "inject"
  BY PlacePhaseNext DEF RejectRun, Close, BeginRun, ResetRunState, opState
<1>3. run \in Nat /\ Len(results) = run /\ results \in Seq(Outcome)
  BY <1>2, BooksTyped, PlacePhase DEF IInv, TypeOK, Closed
<1>4. /\ \A r \in 1..run : r <= Len(results) /\ results'[r] = results[r] /\ r <= Len(results')
      /\ \/ Len(results') = run + 1 /\ results'[run + 1].records = <<>>
         \/ Len(results') = run /\ records' = <<>> /\ Place' = "inject"
  BY <1>2, <1>3
<1>5. /\ \A r \in 1..run : Books'[r] = Books[r]
      /\ Books'[run + 1] = <<>>
  BY <1>2, <1>3, <1>4 DEF Books, Open
<1>6. Injected'
  BY <1>2 DEF Injected
<1>7. QED
  BY <1>1, <1>2, <1>3, <1>5, <1>6, BookOpened DEF AInv

(* The answer to a tool call: it enters the book of the run under way,     *)
(* unless that is closed or its records are copied.                        *)
LEMMA FinishAudited ==
    ASSUME IInv, AInv, NEW tool,
           \/ tool \in calling /\ AnswerSync(tool)
           \/ tool \in running /\ AnswerAsync(tool)
    PROVE  AInv'
<1>1. /\ tool \in ToolCall
      /\ UNCHANGED <<run, calls, kept, results>>
      /\ records' = Append(records, tool) /\ answered' = answered \cup {tool}
  BY DEF AnswerSync, AnswerAsync, Finish, IInv, TypeOK
<1>2. /\ Place' = Place /\ Place \in Code
      /\ aside' = IF Place \in UntimedCode THEN aside \cup {tool} ELSE aside
  <2>1. back \in Code /\ back # "tool"
    BY DEF IInv, TypeOK, Code, TimedCode, UntimedCode
  <2>2. \/ /\ phase = "tool" /\ phase' = back
           /\ aside' = IF back \in UntimedCode THEN aside \cup {tool} ELSE aside
        \/ phase = "loop" /\ phase' = phase /\ aside' = aside
    BY DEF AnswerSync, AnswerAsync
  <2>3. QED
    BY <2>1, <2>2, PlacePhase, PlacePhaseNext DEF Code, TimedCode, UntimedCode
<1>3. Staged'
  <2>1. /\ calling' \cup queued' \cup running' \subseteq (calling \cup queued \cup running) \ {tool}
        /\ calling' \subseteq calling /\ queued' \subseteq queued /\ running' \subseteq running
    BY DEF AnswerSync, AnswerAsync, AInv, Staged
  <2>2. answered \cup calling \cup queued \cup running
          = answered \cup {tool} \cup calling \cup queued \cup running
    BY DEF AnswerSync, AnswerAsync
  <2>3. QED
    BY <1>1, <2>1, <2>2 DEF AInv, Staged
<1>4. tool \notin answered
  BY DEF AInv, Staged
<1>5. run \in Nat /\ run > 0
  BY <1>2, BooksTyped DEF Code, TimedCode, UntimedCode
<1>6. Injected'
  <2> SUFFICES ASSUME Place = "inject", NEW i \in 1..Len(records')
               PROVE  records'[i] \in aside'
    BY <1>2 DEF Injected
  <2>1. aside' = aside \cup {tool}
    BY <1>2 DEF UntimedCode
  <2>2. records'[i] = tool \/ (i \in 1..Len(records) /\ records'[i] = records[i])
    BY <1>1, BooksTyped
  <2>3. QED
    BY <2>1, <2>2 DEF AInv, Injected
<1>7. CASE Closed \/ Place = "read"
  <2>1. Place \in UntimedCode
    BY <1>2, <1>7 DEF Closed, UntimedCode, Code, TimedCode
  <2>2. Books' = Books
    <3>1. CASE Closed
      <4>1. Len(results) = run /\ Len(results') = run
        BY <1>1, <3>1, BooksTyped
      <4>2. \A r \in 1..run : r <= Len(results) /\ r <= Len(results')
        BY <1>5, <4>1
      <4>3. QED
        BY <1>1, <4>2 DEF Books
    <3>2. CASE Place = "read"
      BY <1>1, <1>2, <3>2 DEF Books, Open
    <3>3. QED
      BY <1>7, <3>1, <3>2
  <2>3. Audited'
    BY <1>1, <1>2, <2>1, <2>2, BooksSame DEF AInv
  <2>4. QED
    BY <1>3, <1>6, <2>3 DEF AInv
<1>8. CASE ~(Closed \/ Place = "read")
  <2>1. Len(results) = run - 1
    BY <1>8, BooksTyped
  <2>2. \A r \in 1..run : Books'[r] = IF r = run THEN Append(Books[r], tool) ELSE Books[r]
    BY <1>1, <1>2, <1>5, <1>8, <2>1 DEF Books, Open
  <2>3. aside \subseteq aside'
    BY <1>2
  <2>4. Audited'
    BY <1>1, <1>4, <1>5, <2>2, <2>3, BooksTyped, BookEntered DEF AInv
  <2>5. QED
    BY <1>3, <1>6, <2>4 DEF AInv
<1>9. QED
  BY <1>7, <1>8

(* Making a call and beginning its tool are not in the books. *)
LEMMA CallAudited ==
    ASSUME IInv, AInv,
           CallSync \/ CallAsync \/ \E call \in queued : PollOp(call)
    PROVE  AInv'
<1>1. UNCHANGED <<run, records, answered, aside, kept, results>>
  BY DEF CallSync, CallAsync, PollOp, opState
<1>2. Audited' /\ Injected'
  <2>1. Place' = Place
    <3>1. /\ phase \in Code /\ phase # "tool"
          /\ phase' = phase \/ (phase' = "tool" /\ back' = phase)
      BY DEF CallSync, CallAsync, Calling, PollOp, Code, TimedCode, UntimedCode
    <3>2. QED
      BY <3>1, PlacePhase, PlacePhaseNext
  <2>2. Books' = Books
    BY <1>1, <2>1 DEF Books, Open
  <2>3. QED
    BY <1>1, <2>1, <2>2, BooksSame DEF AInv, Injected
<1>3. Staged'
  <2>1. calls \in Nat /\ calls' \in {calls, calls + 1}
    BY DEF CallSync, CallAsync, PollOp, Calling, IInv, TypeOK
  <2>2. CASE CallSync
    <3>1. calling = {}
      BY <2>2 DEF CallSync, Calling, IInv, CallingOK, Code, TimedCode, UntimedCode
    <3>2. /\ calls' = calls + 1 /\ UNCHANGED <<queued, running, answered>>
          /\ calling' \in {{}, {<<run, calls'>>}}
      BY <2>2, <3>1 DEF CallSync, Calling
    <3>3. QED
      BY <2>1, <3>1, <3>2 DEF AInv, Staged, IInv, TypeOK, ToolCall
  <2>3. CASE CallAsync
    <3>1. /\ calls' = calls + 1 /\ UNCHANGED <<calling, running, answered>>
          /\ queued' = queued \cup {<<run, calls'>>}
      BY <2>3 DEF CallAsync, Calling, opState
    <3>2. QED
      BY <2>1, <3>1 DEF AInv, Staged, IInv, TypeOK, ToolCall
  <2>4. CASE \E call \in queued : PollOp(call)
    <3>1. PICK tool \in queued : PollOp(tool)
      BY <2>4
    <3>2. /\ UNCHANGED <<calls, calling, answered>> /\ queued' = queued \ {tool}
          /\ running' \in {running, running \cup {tool}}
      BY <3>1 DEF PollOp
    <3>3. QED
      BY <3>1, <3>2 DEF AInv, Staged
  <2>5. QED
    BY <2>2, <2>3, <2>4
<1>4. QED
  BY <1>2, <1>3 DEF AInv

(* The result of a run takes over its book, or an empty one for a book     *)
(* with no call that was answered under a timer.                           *)
LEMMA BookClosed ==
    ASSUME IInv, AInv, NEW status, NEW entries, Close(status, entries), ~Closed,
           UNCHANGED <<run, ops, opState>>,
           \/ entries = Open
           \/ entries = <<>> /\ Place = "inject"
    PROVE  AInv'
<1>1. /\ run \in Nat /\ run > 0 /\ Len(results) = run - 1 /\ results \in Seq(Outcome)
      /\ run' = run
  BY BooksTyped DEF IInv, TypeOK, Closed
<1>2. /\ Len(results') = run
      /\ results'[run].records = entries
      /\ \A r \in 1..(run - 1) : results'[r] = results[r]
  <2>1. results' = Append(results, [status |-> status, records |-> entries])
    BY DEF Close
  <2>2. QED
    BY <1>1, <2>1
<1>3. /\ \A r \in 1..run : Books'[r] = IF r = run THEN entries ELSE Books[r]
      /\ Books[run] = Open
  BY <1>1, <1>2 DEF Books
<1>4. Staged' /\ Injected'
  BY PlacePhaseNext DEF AInv, Staged, Injected, Close, ops, opState
<1>5. CASE entries = Open
  <2>1. \A r \in 1..run : Books'[r] = Books[r]
    BY <1>3, <1>5
  <2>2. DOMAIN Books = 1..run /\ DOMAIN Books' = 1..run
    BY <1>1 DEF Books
  <2>3. Books' = Books
    BY <2>1, <2>2 DEF Books
  <2>4. Audited'
    BY <1>1, <2>3, BooksSame DEF AInv, opState
  <2>5. QED
    BY <1>4, <2>4 DEF AInv
<1>6. CASE entries = <<>> /\ Place = "inject"
  <2>1. Open = records /\ \A i \in 1..Len(Books[run]) : Books[run][i] \in aside
    BY <1>3, <1>6 DEF AInv, Injected, Open
  <2>2. Len(Books'[run]) = 0 /\ run \in 1..run
    BY <1>1, <1>3, <1>6
  <2>3. ASSUME NEW r \in 1..run, NEW i \in 1..Len(Books'[r])
        PROVE  r # run /\ Books'[r] = Books[r]
    BY <1>3, <2>2
  <2>4. \A r, q \in 1..run : \A i \in 1..Len(Books'[r]), j \in 1..Len(Books'[q]) :
          Books'[r][i] = Books'[q][j] => r = q /\ i = j
    BY <2>3 DEF AInv, Audited
  <2>5. ASSUME NEW call \in answered \ aside
        PROVE  \E r \in 1..run : \E i \in 1..Len(Books'[r]) : Books'[r][i] = call
    <3>1. PICK r \in 1..run : \E i \in 1..Len(Books[r]) : Books[r][i] = call
      BY DEF AInv, Audited
    <3>2. r # run
      BY <2>1, <3>1
    <3>3. QED
      BY <1>3, <3>1, <3>2
  <2>6. \A r \in 1..run : \A i \in 1..Len(Books'[r]) : Books'[r][i] \in answered
    BY <2>3 DEF AInv, Audited
  <2>7. Audited'
    BY <1>1, <2>4, <2>5, <2>6 DEF Audited, opState
  <2>8. QED
    BY <1>4, <2>7 DEF AInv
<1>7. QED
  BY <1>5, <1>6

(* The end of the code, and that of a run whose result was read, *)
LEMMA CollectAudited ==
    ASSUME IInv, AInv, Collect
    PROVE  AInv'
<1>1. UNCHANGED <<run, ops, opState>> /\ phase = "collect" /\ kept' = records
  BY DEF Collect
<1>2. Place = "collect" /\ ~Closed /\ Open = records
  BY <1>1, PlacePhase DEF Closed, Open
<1>3. CASE Close(Failure, records)
  BY <1>1, <1>2, <1>3, BookClosed
<1>4. CASE phase' = "read" /\ UNCHANGED results
  <2>1. Place' = "read"
    BY <1>4, PlacePhaseNext
  <2>2. Books' = Books
    BY <1>1, <1>2, <1>4, <2>1 DEF Books, Open
  <2>3. Audited'
    BY <1>1, <2>2, BooksSame DEF AInv, opState
  <2>4. Staged' /\ Injected'
    BY <1>1, <2>1 DEF AInv, Staged, Injected, ops, opState
  <2>5. QED
    BY <2>3, <2>4 DEF AInv
<1>5. QED
  BY <1>3, <1>4 DEF Collect

LEMMA ReadAudited ==
    ASSUME IInv, AInv, ReadResult
    PROVE  AInv'
<1>1. PICK status \in {"ok", "unserializable"} : Close(status, kept)
  BY DEF ReadResult
<1>2. UNCHANGED <<run, ops, opState>> /\ phase = "read"
  BY DEF ReadResult
<1>3. ~Closed /\ Open = kept
  BY <1>2, PlacePhase DEF Closed, Open
<1>4. QED
  BY <1>1, <1>2, <1>3, BookClosed

(* and that of a run without a script. *)
LEMMA InjectFailsAudited ==
    ASSUME IInv, AInv, InjectFails
    PROVE  AInv'
<1>1. Close("rejected", <<>>) /\ UNCHANGED <<run, ops, opState>> /\ phase = "inject"
  BY DEF InjectFails
<1>2. ~Closed /\ Place = "inject"
  BY <1>1, PlacePhase DEF Closed
<1>3. QED
  BY <1>1, <1>2, BookClosed

(* The other steps touch neither calls nor records. *)
LEMMA OtherAudited ==
    ASSUME IInv, AInv,
           \/ ScriptReturns \/ ScriptThrows \/ LoopEnds \/ TimerFires \/ TimerTerminates
           \/ TimerStops \/ StopTimer \/ JoinTimer \/ BeginSnapshot \/ StartScript
           \/ EndSnapshot \/ UNCHANGED vars
    PROVE  AInv'
<1>1. UNCHANGED <<run, ops, opState, kept, results>>
  BY DEF ScriptReturns, ScriptThrows, LoopEnds, TimerFires, TimerTerminates, TimerStops,
     StopTimer, JoinTimer, BeginSnapshot, StartScript, EndSnapshot, vars
<1>2. (Place' = "read" <=> Place = "read") /\ (Place' = "inject" => Place = "inject")
  <2>1. \/ UNCHANGED <<phase, back>>
        \/ {phase, phase'} \cap {"tool", "read"} = {} /\ phase' # "inject"
    BY DEF ScriptReturns, ScriptThrows, LoopEnds, TimerFires, TimerTerminates, TimerStops,
       StopTimer, JoinTimer, BeginSnapshot, StartScript, EndSnapshot, vars
  <2>2. CASE UNCHANGED <<phase, back>>
    BY <2>2 DEF Place
  <2>3. CASE {phase, phase'} \cap {"tool", "read"} = {} /\ phase' # "inject"
    BY <2>3, PlacePhase, PlacePhaseNext
  <2>4. QED
    BY <2>1, <2>2, <2>3
<1>3. Books' = Books
  BY <1>1, <1>2 DEF Books, Open, opState
<1>4. Audited'
  BY <1>1, <1>3, BooksSame DEF AInv, opState
<1>5. Staged' /\ Injected'
  BY <1>1, <1>2 DEF AInv, Staged, Injected, ops, opState
<1>6. QED
  BY <1>4, <1>5 DEF AInv

(* No tool call is in the records of two runs, or twice in those of one,   *)
(* although asynchronous calls are left over from run to run               *)
(* (finish_tool_call writes to the op state of the run under way); and no  *)
(* call answered under a run's timer is missing when that run has ended.   *)
THEOREM AuditedOnceHolds == Spec => []AuditedOnce
<1>1. Init => AInv
  <2>1. SUFFICES ASSUME Init PROVE AInv
    OBVIOUS
  <2>2. Staged
    BY <2>1 DEF Init, Staged
  <2>3. run = 0 /\ answered = {} /\ 1..run = {}
    BY <2>1 DEF Init
  <2>4. Audited
    BY <2>3 DEF Audited
  <2>5. Injected
    BY <2>1, PlacePhase DEF Init, Injected
  <2>6. QED
    BY <2>2, <2>4, <2>5 DEF AInv
<1>2. ASSUME IInv, AInv, [Next]_vars PROVE AInv'
  <2>1. CASE RejectRun \/ BeginRun \/ BeginSnapshot
    BY <1>2, <2>1, BeginAudited, OtherAudited
  <2>2. CASE Host
    BY <1>2, <2>2, FinishAudited, CallAudited, CollectAudited, OtherAudited DEF Host
  <2>3. CASE ToolAnswers
    BY <1>2, <2>3, FinishAudited DEF ToolAnswers
  <2>4. CASE UNCHANGED vars
    BY <1>2, <2>4, OtherAudited
  <2>5. CASE UntimedEnds
    BY <1>2, <2>5, InjectFailsAudited, ReadAudited, OtherAudited DEF UntimedEnds
  <2>6. QED
    BY <1>2, <2>1, <2>2, <2>3, <2>4, <2>5 DEF Next
<1>3. IInv /\ AInv => AuditedOnce
  <2> SUFFICES ASSUME IInv, AInv PROVE AuditedOnce
    OBVIOUS
  <2>1. /\ Len(results) \in Nat /\ run \in Nat /\ Len(results) <= run
        /\ phase = "idle" => Len(results) = run
    BY BooksTyped, PlacePhase DEF Closed
  <2>2. \A r \in 1..Len(results) : r \in 1..run /\ Books[r] = results[r].records
    BY <2>1 DEF Books
  <2>3. ASSUME NEW p \in Told
        PROVE  \E r \in 1..Len(results) : \E i \in 1..Len(results[r].records) : p = <<r, i>>
    BY DEF Told
  <2>4. ASSUME NEW r \in 1..Len(results), NEW i \in 1..Len(results[r].records)
        PROVE  <<r, i>> \in Told
    BY DEF Told
  <2>5. ASSUME NEW p \in Told, NEW q \in Told,
               results[p[1]].records[p[2]] = results[q[1]].records[q[2]]
        PROVE  p = q
    <3>1. PICK r \in 1..Len(results), i \in Nat :
            i \in 1..Len(results[r].records) /\ p = <<r, i>>
      BY <2>3
    <3>2. PICK t \in 1..Len(results), j \in Nat :
            j \in 1..Len(results[t].records) /\ q = <<t, j>>
      BY <2>3
    <3>3. results[r].records[i] = results[t].records[j]
      BY <2>5, <3>1, <3>2
    <3>4. /\ r \in 1..run /\ i \in 1..Len(Books[r])
          /\ t \in 1..run /\ j \in 1..Len(Books[t])
          /\ Books[r][i] = Books[t][j]
      BY <2>2, <3>1, <3>2, <3>3
    <3>5. r = t /\ i = j
      BY <3>4 DEF AInv, Audited
    <3>6. QED
      BY <3>1, <3>2, <3>5
  <2>6. ASSUME NEW p \in Told
        PROVE  results[p[1]].records[p[2]] \in answered
    <3>1. PICK r \in 1..Len(results), i \in Nat :
            i \in 1..Len(results[r].records) /\ p = <<r, i>>
      BY <2>3
    <3>2. results[r].records[i] \in answered
      BY <2>2, <3>1 DEF AInv, Audited
    <3>3. QED
      BY <3>1, <3>2
  <2>7. ASSUME phase = "idle", NEW tool \in answered \ aside
        PROVE  \E p \in Told : tool = results[p[1]].records[p[2]]
    <3>1. PICK r \in 1..run, i \in Nat : i \in 1..Len(Books[r]) /\ Books[r][i] = tool
      BY <2>7 DEF AInv, Audited
    <3>2. r \in 1..Len(results) /\ i \in 1..Len(results[r].records)
      BY <2>1, <2>2, <2>7, <3>1
    <3>3. <<r, i>> \in Told /\ results[r].records[i] = tool
      BY <2>2, <2>4, <3>1, <3>2
    <3>4. QED
      BY <3>3
  <2>8. QED
    BY <2>5, <2>6, <2>7 DEF AuditedOnce
<1>4. QED
  BY <1>1, <1>2, <1>3, InvariantHolds, PTL DEF Spec

--------------------------------------------------------------------------------
(* Every step of a run brings it closer to its end: there are fewer calls  *)
(* left to make, or the run is further, or there is less to do for the     *)
(* operations and for the timer thread.                                    *)
Stage ==
    CASE phase = "tool" -> 0
      [] phase = "inject" -> 1
      [] phase = "script" -> 2
      [] phase = "loop" -> 3
      [] phase = "stop" -> 4
      [] phase = "join" -> 5
      [] phase = "collect" -> 6
      [] OTHER -> 7

TimerToCome == CASE timer = "waiting" -> 2 [] timer = "firing" -> 1 [] OTHER -> 0

(* An operation is polled, and then it may answer. *)
ToCome == 2 * Cardinality(queued) + Cardinality(running) + TimerToCome

Closer ==
    \/ calls' > calls
    \/ calls' = calls /\ Stage' > Stage
    \/ calls' = calls /\ Stage' = Stage /\ ToCome' < ToCome

(* There are finitely many operations, and a synchronous one if the run    *)
(* waits for it.                                                           *)
OpsOK ==
    /\ IsFiniteSet(queued) /\ IsFiniteSet(running)
    /\ phase = "tool" => calling # {}
    /\ calls \in 0..MaxToolCalls

LEMMA OpsOKInit == Init => OpsOK
BY FS_EmptySet, RunAssumption DEF Init, OpsOK

(* The ends of code leave its operations alone. *)
LEMMA EndsFrame ==
    ASSUME Collect \/ UntimedEnds
    PROVE  /\ UNCHANGED ops /\ phase' # "tool"
           /\ phase' # "idle" => Stage' > Stage
BY DEF Collect, UntimedEnds, InjectFails, StartScript, ReadResult, EndSnapshot, Close, Stage

LEMMA OpsOKStep ==
    ASSUME IInv, OpsOK, [Next]_vars
    PROVE  OpsOK'
<1>1. IsFiniteSet(queued')
  <2>1. \/ queued' = queued
        \/ queued' = queued \cup {<<run, calls'>>}
        \/ \E call : queued' = queued \ {call}
    BY EndsFrame
    DEF Next, Host, ToolAnswers, vars, ops, RejectRun, BeginRun, BeginSnapshot, Close, CallSync, CallAsync, PollOp,
       AnswerAsync, AnswerSync, ScriptReturns, ScriptThrows, LoopEnds, TimerFires, TimerTerminates,
       TimerStops, StopTimer, JoinTimer
  <2>2. QED
    BY <2>1, FS_AddElement, FS_RemoveElement DEF OpsOK
<1>2. IsFiniteSet(running')
  <2>1. \/ running' = running
        \/ \E call : running' = running \cup {call}
        \/ \E call : running' = running \ {call}
    BY EndsFrame
    DEF Next, Host, ToolAnswers, vars, ops, RejectRun, BeginRun, BeginSnapshot, Close, CallSync, CallAsync, PollOp,
       AnswerAsync, AnswerSync, ScriptReturns, ScriptThrows, LoopEnds, TimerFires, TimerTerminates,
       TimerStops, StopTimer, JoinTimer
  <2>2. QED
    BY <2>1, FS_AddElement, FS_RemoveElement DEF OpsOK
<1>3. phase' = "tool" => calling' # {}
  <2>1. back \in Code /\ back # "tool"
    BY DEF IInv, TypeOK, Code, TimedCode, UntimedCode
  <2>2. phase' # "tool" \/ UNCHANGED <<phase, calling>> \/ CallSync
    BY <2>1, EndsFrame
    DEF Next, Host, ToolAnswers, vars, ops, RejectRun, BeginRun, BeginSnapshot, Close,
       CallAsync, PollOp, AnswerAsync, AnswerSync, ScriptReturns, ScriptThrows, LoopEnds,
       TimerFires, TimerTerminates, TimerStops, StopTimer, JoinTimer
  <2>3. CallSync /\ phase' = "tool" => calling' # {}
    BY DEF CallSync, Calling, Code, TimedCode, UntimedCode
  <2>4. QED
    BY <2>2, <2>3 DEF OpsOK
<1>4. calls' \in 0..MaxToolCalls
  <2>1. calls' = calls \/ Calling
    BY EndsFrame
    DEF Next, Host, ToolAnswers, vars, ops, RejectRun, BeginRun, BeginSnapshot, Close, CallSync, CallAsync, PollOp,
       AnswerAsync, AnswerSync, ScriptReturns, ScriptThrows, LoopEnds, TimerFires, TimerTerminates,
       TimerStops, StopTimer, JoinTimer
  <2>2. QED
    BY <2>1, RunAssumption DEF OpsOK, Calling
<1>5. QED
  BY <1>1, <1>2, <1>3, <1>4 DEF OpsOK

LEMMA ToComeTyped ==
    ASSUME OpsOK
    PROVE  /\ Cardinality(queued) \in Nat /\ Cardinality(running) \in Nat
           /\ TimerToCome \in {0, 1, 2} /\ ToCome \in Nat
<1>1. Cardinality(queued) \in Nat /\ Cardinality(running) \in Nat
  BY FS_CardinalityType DEF OpsOK
<1>2. TimerToCome \in {0, 1, 2}
  BY DEF TimerToCome
<1>3. QED
  BY <1>1, <1>2 DEF ToCome

LEMMA PollCloser ==
    ASSUME OpsOK, NEW tool, PollOp(tool)
    PROVE  Closer
<1>1. /\ tool \in queued /\ queued' = queued \ {tool}
      /\ running' = running \/ running' = running \cup {tool}
      /\ UNCHANGED <<calls, phase, timer>>
  BY DEF PollOp, timerVars
<1>2. PICK Q, R : Q = queued /\ R = running
  OBVIOUS
<1>3. IsFiniteSet(Q) /\ IsFiniteSet(R) /\ Cardinality(Q) \in Nat /\ Cardinality(R) \in Nat
  BY <1>2, ToComeTyped DEF OpsOK
<1>4. Cardinality(Q \ {tool}) = Cardinality(Q) - 1
  BY <1>1, <1>2, <1>3, FS_RemoveElement
<1>5. Cardinality(running') \in {Cardinality(R), Cardinality(R) + 1}
  BY <1>1, <1>2, <1>3, FS_AddElement
<1>6. Cardinality(queued') = Cardinality(Q) - 1
  BY <1>1, <1>2, <1>4
<1>7. TimerToCome' = TimerToCome /\ TimerToCome \in {0, 1, 2} /\ Stage' = Stage
  BY <1>1, ToComeTyped DEF TimerToCome, Stage
<1>8. ToCome' < ToCome
  BY <1>2, <1>3, <1>5, <1>6, <1>7 DEF ToCome
<1>9. QED
  BY <1>1, <1>7, <1>8 DEF Closer

LEMMA AnswerCloser ==
    ASSUME OpsOK, NEW tool, AnswerAsync(tool)
    PROVE  Closer
<1>1. /\ tool \in running /\ running' = running \ {tool}
      /\ UNCHANGED <<calls, phase, timer, queued>>
  BY DEF AnswerAsync, timerVars
<1>2. PICK R : R = running
  OBVIOUS
<1>3. IsFiniteSet(R) /\ Cardinality(R) \in Nat /\ Cardinality(queued) \in Nat
  BY <1>2, ToComeTyped DEF OpsOK
<1>4. Cardinality(R \ {tool}) = Cardinality(R) - 1
  BY <1>1, <1>2, <1>3, FS_RemoveElement
<1>5. Cardinality(running') = Cardinality(R) - 1 /\ Cardinality(queued') = Cardinality(queued)
  BY <1>1, <1>2, <1>4
<1>6. TimerToCome' = TimerToCome /\ TimerToCome \in {0, 1, 2} /\ Stage' = Stage
  BY <1>1, ToComeTyped DEF TimerToCome, Stage
<1>7. ToCome' < ToCome
  BY <1>2, <1>3, <1>5, <1>6 DEF ToCome
<1>8. QED
  BY <1>1, <1>6, <1>7 DEF Closer

LEMMA TimerCloser ==
    ASSUME OpsOK, TimerFires \/ TimerTerminates \/ TimerStops
    PROVE  Closer
<1>1. /\ UNCHANGED <<calls, phase, queued, running>>
      /\ TimerToCome' < TimerToCome /\ TimerToCome' \in {0, 1, 2}
  BY DEF TimerFires, TimerTerminates, TimerStops, ops, TimerToCome
<1>2. Cardinality(queued') = Cardinality(queued) /\ Cardinality(running') = Cardinality(running)
  BY <1>1
<1>3. Stage' = Stage
  BY <1>1 DEF Stage
<1>4. ToCome' < ToCome
  BY <1>1, <1>2, ToComeTyped DEF ToCome
<1>5. QED
  BY <1>1, <1>3, <1>4 DEF Closer

LEMMA StepsCloser ==
    ASSUME IInv, OpsOK, Next, phase # "idle", phase' # "idle"
    PROVE  Closer
<1>1. calls \in Nat /\ back \in Code
  BY DEF IInv, TypeOK
<1>2. CASE CallSync \/ CallAsync
  BY <1>1, <1>2 DEF CallSync, CallAsync, Calling, Closer
<1>3. CASE ScriptReturns \/ ScriptThrows \/ LoopEnds \/ StopTimer \/ JoinTimer
  BY <1>3 DEF ScriptReturns, ScriptThrows, LoopEnds, StopTimer, JoinTimer, ops, Stage, Closer
<1>4. ASSUME NEW tool, AnswerSync(tool)
      PROVE  Closer
  BY <1>1, <1>4 DEF AnswerSync, Stage, Closer, Code, TimedCode, UntimedCode
<1>5. CASE Collect \/ UntimedEnds
  BY <1>5, EndsFrame DEF ops, Closer
<1>6. ~(RejectRun \/ BeginRun \/ BeginSnapshot)
  BY DEF RejectRun, BeginRun, BeginSnapshot
<1>7. QED
  BY <1>2, <1>3, <1>4, <1>5, <1>6, PollCloser, AnswerCloser, TimerCloser
     DEF Next, Host, ToolAnswers

(* Between two tool calls a run cannot go round in circles: each of its    *)
(* steps makes one call more (MaxToolCalls bounds them here), or takes the *)
(* run further, or leaves less to do for the operations and the timer.     *)
(* Nor does the worker block without need: a synchronous tool it waits for *)
(* is there to answer, and the timer thread it joins has exited or has     *)
(* been told to stop.  So a run goes on for ever only where a piece of     *)
(* JavaScript does, which under a timer the timer ends.                    *)
RunsClose ==
    /\ [](/\ calls \in 0..MaxToolCalls /\ Stage \in 0..7 /\ ToCome \in Nat
          /\ phase = "tool" => calling # {}
          /\ phase = "join" => timer = "exited" \/ (timer = "waiting" /\ stopped))
    /\ [][phase # "idle" /\ phase' # "idle" => Closer]_vars

THEOREM RunsCloseHolds == Spec => RunsClose
<1> DEFINE Ranked ==
      /\ calls \in 0..MaxToolCalls /\ Stage \in 0..7 /\ ToCome \in Nat
      /\ phase = "tool" => calling # {}
      /\ phase = "join" => timer = "exited" \/ (timer = "waiting" /\ stopped)
<1> DEFINE Shrinks == phase # "idle" /\ phase' # "idle" => Closer
<1>1. IInv /\ OpsOK => Ranked
  BY ToComeTyped, PlacePhase DEF IInv, TimerOK, OpsOK, Stage
<1>2. IInv /\ OpsOK /\ [Next]_vars => [Shrinks]_vars
  BY StepsCloser
<1> HIDE DEF Ranked, Shrinks
<1>3. Spec => []OpsOK
  BY OpsOKInit, OpsOKStep, InvariantHolds, PTL DEF Spec
<1>4. Spec => []Ranked
  BY <1>1, <1>3, InvariantHolds, PTL
<1>5. Spec => [][Shrinks]_vars
  BY <1>2, <1>3, InvariantHolds, PTL DEF Spec
<1>6. QED
  BY <1>4, <1>5 DEF Ranked, Shrinks, RunsClose

================================================================================
