# A TLA+ model of LangShell

LangShell runs Python and TypeScript code of agents in persistent sessions and
lets that code reach the outside only through functions the host registers.
This directory holds TLA+ modules of its runtime, small instances of them for
TLC, and proofs for TLAPS. Paths below are relative to `src/`.

## 1. The system

| Component | Code | State | Operations | Hard to get right | What makes it correct |
|---|---|---|---|---|---|
| Session contract | `crates/langshell-core/src/lib.rs` (`LanguageRuntime`) | – | create, run, validate, destroy, list, snapshot, restore | it is a trait: every backend is called concurrently through an `Arc` | a linearizable store of sessions (`SessionStore`) |
| Python session table | `crates/langshell-monty/src/lib.rs` (`MontyRuntime`) | `HashMap` of `MontySession` under an async mutex | the trait's methods | a run removes its session, executes without the lock and inserts it again; its future may be dropped | sessions persist and are isolated; no call sees half a run; limits apply |
| Python run | same file (`run_session`, `run_repl_snippet`) | `pending` and `ready` futures, `records`, `started_calls`, stdout | drive the interpreter, call tools, deliver futures, find the result | answers in any order, futures of earlier snippets, errors in the middle | every delivered result recorded once, no sleeping on what is ready, limits, the run ends |
| TypeScript worker | `crates/langshell-deno/src/lib.rs` (`DenoRuntime`, `DenoWorker`) | command channel, worker thread, map of sessions | one command per trait method, `Shutdown`, `Drop` | abandoned calls, a worker that dies, shutdown with a full channel | in-order service, every call answered, drained at stop, `Drop` ends |
| TypeScript run | same file (`DenoSession::run`, the tool ops) | `DenoOpState`, the isolate's event loop, the timer thread | script, event loop, tool calls, timer, result | the timer races the end of the code; operations outlive the run that began them; the isolate also executes code of the user when no timer is set | no termination leaks into another run; timeouts are reported; every answer under a timer is in one run's records |
| CLI | `crates/langshell-cli/src/lib.rs` | one file per session id | run, repl, tools, session snapshot / restore / destroy | processes share files without locks; `fs::write` is two steps | what anybody holds is one consistent past; saved runs stay |
| JSON-RPC daemon | same file | what each connection has received and not read | one task per connection: read a line, call the SDK, write the answer | overlapping calls, peers that hang up in the middle | a connection that goes away takes no session with it |
| SDK | `crates/langshell/src/lib.rs` | the list of runtimes | build; routes each call to a runtime, or to each in turn | partial failure, sessions that move while the runtimes are asked one after the other | answers are true of the whole call; snapshots go back where they came from |
| Registry, built-in tools | `langshell-core`, `crates/langshell-tools/src/lib.rs` | map from names to tools, what each discovery tool has captured | register, build, look up, describe | order of registration | what a name reaches is what is described |
| Virtual files | `langshell-tools` | the mounts, the host's files | resolve a path, read, write, list | mounts inside one another, prefixes, a write in two steps | changes stay in the mounts; what is written is read; what is listed is reachable |
| Snapshot encoding | `langshell-deno` (`__langshell_tag_value` and its kin) | the globals of an isolate | tag, untag, snapshot, restore, inject inputs | sharing, cycles, values JSON has no word for | plain data survives, and nothing is lost by and by |
| Error codes | `langshell-monty`, `langshell-deno` | – | tool error to exception to error to status | codes that fall together | a failure is never a success, a denial stays one |
| Validation | `langshell-monty`, `langshell-deno` | – | walks over syntax trees | – | appears as a run that may be refused |

How they interact: the CLI and the daemon call the SDK; the SDK calls a
`LanguageRuntime` chosen by language (or asks each in turn); a Python run calls
tools on the caller's task, a TypeScript run on the worker's thread; snapshots
are bytes that leave one runtime and may enter another process.

## 2. The modules

| Module | Models | State and actions |
|---|---|---|
| `SessionApi` | the vocabulary of the trait | constants, calls and answers |
| `SessionStore` | the trait's promise, abstractly | `live`, `memory`, `call`; each operation is one atomic action; `Refuse`, `Lose` |
| `MontySessions` | `MontyRuntime` | `sessions` is the HashMap, `owned` the session a run has in hand, `call` what each caller waits for; a run is `TakeSession` (first lock), `RunCode`, `PutSession` (second lock), every other method one action because it holds the mutex and does not await under it; `Drop` is a cancelled future |
| `MontyRun` | one run in it | the variables of `run_repl_snippet` under their names; one action per branch of its `match` on the interpreter's progress (`FunctionCall`, `ResolveFutures`, `Yield`, ...) and per ending; the interpreter is external and may ask for anything its own state allows |
| `DenoWorker` | `DenoRuntime`, the channel, `DenoWorker` | `queue` is the channel, `worker` the thread, `handle` the last handle; one action per command, a run is `StartRun` and `FinishRun`; `Leave`, `WorkerDies`, `DropRuntime`, `ServeShutdown`, `Join` |
| `DenoRun` | consecutive runs of one session | `phase` is where `DenoSession::run` is; the timer thread is `TimerFires`, `TimerTerminates`, `TimerStops`; `CallSync`, `CallAsync`, `PollOp` and the answers are the tool ops; `Collect` is the end of `execute_user_code` and the copy of the op state, `ReadResult` is `read_result`; code executes in the phases `script` and `loop`, under the timer, and in `inject`, `read` and `snapshot`, without one |
| `CliSessions` | the commands that touch the session directory | every command is a process: `Look`, `Read`, `Execute`, `TakeSnapshot`, `OpenFile` and `WriteFile` are its steps, and `Dies` may come between any two; a session is its past, the runs it is made of, and what of it TypeScript snapshots have lost (`missing`, `lost`) |
| `Sdk` | `LangShell` over its runtimes | `runtimes` is the list, `table` the sessions each runtime has, `call` which runtime a call asks next and what it knows; `Start` is the first step of a method, then one action per question to one runtime (`Create`, `RunTypeScript`, `TakePython` and `PutPython`, `Destroy`, `List`, `TakeSnapshot`, `Restore`); `Build`; `Die` is the end of the TypeScript thread |
| `Daemon` | `run_daemon`, `handle_rpc_stream`, over `Sdk` | `unread` is what a connection has received; `Connect`, `HangUp` are the peer, `ReadLine` reads and dispatches a line, `ReadGarbage` meets one that is not UTF-8, `WriteAnswer` is the write and what follows when it fails |
| `ToolRegistry` | the builder's registry, `register_builtin_tools` | `tools` is the registry, `reports` what each discovery tool has captured; `RegisterHostTool`, `BuildTools` |
| `VirtualFiles` | `resolve_virtual_path` and the file tools | `files` and `dirs` are the host's, `op` the tool each caller is in; resolving a path, opening the file, each read of it and the write are steps of their own |
| `ErrorCodes` | the translation of tool errors: every code either language gives a status of its own, and the two texts `error_from_js` looks for in what was thrown | operators only |
| `HostTools` | the three together: what a session's call reaches | `Call` looks a name up and goes where the registry says, `EndRun` is how a failing tool's run ends |
| `DenoGlobals` | snapshots of a TypeScript session's globals | `heap` and `globals` are the isolate's; `Assign`, `Make`, `PutItem` are what code does, `InjectInputs`, `TakeSnapshot`, `RestoreSession` the host |
| `MC...` | instances for TLC | symmetry sets and values of constants |
| `..._proof` | theorems | see section 5 |

How they are composed: `MontySessions` and `DenoWorker` each instantiate
`SessionStore` with a refinement mapping; `Sdk` takes its runtimes to be such
stores and instantiates `SessionStore` once more, for the TypeScript runtime as
the SDK sees it, so that the two levels are known to fit. `Daemon` extends `Sdk`,
`HostTools` extends `ToolRegistry`, `VirtualFiles` and `ErrorCodes`. A session's globals are abstracted to the set of runs whose
effects they hold: enough to tell a lost, torn, shared or stale session from a
good one. A TypeScript snapshot leaves globals out without a word (functions, and
values it cannot encode): `DenoGlobals` says which, `CliSessions` lets a snapshot
lose the effects of any runs and remembers which, and in `DenoWorker` and `Sdk`,
which are about the order of calls and where they go, a snapshot is what the
session was told when it was taken. A tool, a limit or a snapshot's encoding is a model value or a small
record. Operators called "Mutant" state a plausible bug in the definition that
follows them; no specification uses them.

## 3. The runs

Every run that is expected to pass:

| Run | Question |
|---|---|
| `MontyOverlap` | Two clients, two sessions, three calls of any kind that overlap and may be cancelled: does any session or snapshot show a run that is under way, or share an interpreter? No. Is every call answered, cancelled ones aside? Yes. |
| `MontySerial` | Callers that take turns on each session: do successful runs stay, and is the table the abstract store? Yes. |
| `MontyRunLoop` | Is every result that reaches the interpreter recorded once, does the host never sleep on a result it has, is every future the interpreter holds backed by a call, do no more handlers begin than allowed, is what is printed cut to its limit? And does the run end if its tools answer, when it awaits a future of an earlier snippet too? Yes. |
| `DenoWorkerQueue` | Calls that are abandoned, a worker that dies, a runtime that is dropped: is every waiting call queued once, answered in order, and served before the worker stops? Is the worker the abstract store for callers that overlap in every way? Is every call answered, and does `Drop` end? Yes. |
| `DenoRunSequence` | Two runs, three tool calls, limit one, in code that has a timer and in code that has none: does a termination ever leak, is a timeout always reported, is every answer that came under a timer in exactly one result, does the limit bound the tools that begin? All hold. And code under a timer ends if synchronous tools answer, asynchronous ones never. |
| `CliFiles` | Two commands on one file, in both languages, that overlap, fail and die: can anyone hold a run without those it was built on, or miss an effect that no TypeScript snapshot has left out? No. Does a session that one command at a time has used, in one language, keep every run it was said to hold? Yes, or its file is torn by a write that did not complete. |
| `SdkDaemon` | One or two runtimes in either order, two callers of the SDK or two connections of the daemon, a TypeScript runtime that dies at any moment: does `list_sessions` name what was there all the time, does `destroy_session` tell the truth, does `snapshot_session` find what is there and prefer the runtime registered first, does every snapshot go home? Yes. Does a session vanish with a connection? No. Is the TypeScript runtime, as the SDK uses it, the abstract store? Yes. |
| `HostTools` | A host that registers a tool (perhaps under a built-in's name), mounts directories inside one another and allows HTTP hosts, and two sessions: do the reports agree with what a call reaches, does anything change outside a writable mount, does a read give what was written last, does every listed name lead somewhere, is a tool's failure told, whatever its code? Yes. |
| `DenoGlobals` | Two objects of any kind under two names, shared, cyclic, nested, with values JSON does not have: does plain data survive a snapshot whatever else there is, and does every further snapshot say the same? Yes. |

Runs that end in a violation, each a disagreement of the code with what its
documentation says:

| Run | What TLC shows |
|---|---|
| `MontyLostUpdate` | two overlapping runs on one session: the second starts from nothing and one overwrites the other |
| `ToolDenied` | a TypeScript run that a denied tool call ends is told RUNTIME_ERROR, one that catches the denial PERMISSION_DENIED |
| `DenoShared` | an object held twice by one value keeps that value out of the snapshot, silently, as if it were cyclic |

Surprising behaviour that the models exhibit without a run of its own:

- Python sessions: dropping the future of a run loses the whole session (`Drop`);
  a run without limits replaces those of its session by the defaults, and a memory
  limit does not reach an interpreter that exists (`RunCode`); a session that is
  executing is `SESSION_NOT_FOUND` to every other call (`SnapshotSession`).
- Python runs: calls under way when a run ends are in no record (`DropFutures`),
  and a tool that hangs keeps the run for ever; three endings do not cut stdout: a
  last expression or a `result` without JSON form, and a probe for `result` that
  fails hard (the exceptions in `StdoutBounded`); a last expression without JSON form fails a run
  whose `result` is fine (`CodeCompletes`).
- TypeScript runs: a synchronous tool that never answers blocks the worker, no
  timeout applies (`AnswerSync`); a call left unawaited is recorded in the next run
  (`AnswerAsync`); a tool error the code has caught fails the run (`Failure`); a run
  that sets no `result` returns that of an earlier run. `read_result` executes code
  of the user, a getter on `result`, after the timer was joined and the records were
  copied; a snapshot executes getters on any global, and inputs are injected with
  built-in functions the code may have replaced. Such code may loop for ever, and
  every session waits behind it, although README.md:59 promises "Resource controls
  for wall-clock timeout"; the tools it calls are in no result, although skill.md:125
  says "Treat every external function call as an audited capability call."
  (`UntimedCode`, `aside`).
- Error codes: a thrown text is taken for a syntax error or a timeout if it reads
  like one, whatever the tool's code was (`ErrorFromJs`).
- TypeScript globals: inputs stay in the session, may replace a tool, and those
  before a faulty one stay even when the run is refused (`InjectInputs`); an object
  of the code with a `__lang` key of its own makes a snapshot that cannot be
  restored (`lookalike`); NaN becomes null, so that items of a map or a set may
  fall together (`Collides`); a function in an array becomes null, elsewhere it
  disappears (`Collected`).
- SDK: a session id that `create_session` refuses can be run through a
  `SessionHandle`, and then be neither snapshotted nor destroyed (`BadIds`);
  `destroy_session` that fails may have destroyed the session in another language.
- Tools: `fetch_text` and `fetch_json` of a host are silently replaced when a host
  is allowed, although README.md:68 advises to register one's own
  (`WithHttpTools` after `RegisterHostTool`); a mount at "/" covers "/" and paths
  that begin with "//" only (`NormalizeVirtualRoot`, `Covers`); `write_text` never
  makes a directory, because the path is refused before (`Resolve`); in Python a
  TYPE_ERROR of a tool, and every code with no exception of its own, ends the run as a
  runtime error, `TIMEOUT_TOOL` as `TIMEOUT_WALL` (`ErrorFromException`); a mount
  may be of a file, which none of its virtual paths then reaches (`RootExists`).
- CLI: the two languages of a session id overwrite each other's file (`Replaces`); a
  TypeScript run is reported ok and saved although its functions are not in the
  file (`Losses`).
- Daemon: an `accept` that fails ends the process, and every session with it (the
  behaviour just stops: no property speaks of what comes after); a line that is not
  UTF-8 ends its connection without an answer (`ReadGarbage`).

Where a run does not list `TypeOK`, its type invariant is a conjunct of one of its
properties.

**Bounds.** `MaxCalls` and `MaxRuns` bound how many calls or runs are made in
all, `MaxToolCalls` and `MaxSteps` how much code does in a run. The hazards need
few actors: two callers on one session for every lost update, a second session
for isolation, two clients with a call that is abandoned and made again for the
order in the channel, two runs for what one leaves to the next. Three calls are
enough to make a session, use it and look at it from outside; `MontySerial` has
four so that one can be made, changed, snapshotted and restored. `MaxExternalCalls`
is smaller than the calls code may make, so that the limit is met, and
`MaxStdoutBytes` than what it may print. `SdkDaemon` has one valid and one invalid
id: what two sessions do to each other is the business of the runtimes' own
modules, what the SDK adds is routing. Three calls are one to make a session, one
to take it away or run it, and one that asks the runtimes one by one meanwhile.
`HostTools` has a table of nested mounts and one with a mount at the root, one of
a file and one of a directory that is gone, and paths of every form
`resolve_virtual_path` tells apart; three calls write, overwrite and read; host
tools answer with a code neither language knows, one that Python has an exception
for and one that it has not. `MaxExported` is the number of snapshots written to
files of the user's choice before no further `session snapshot` starts: one to
restore from; one that is under way may add its own. In `DenoGlobals` two objects of two items are
enough for sharing, cycles of one and two objects, items that fall together, and
four edits to build each of them and assign it to both names. `CHECK_DEADLOCK FALSE` stands in every
configuration because a behaviour ends when its bound is used up. `MayDrop`,
`MayDie` and `MayFail` switch cancelled futures, the worker's death and crashes;
the serial run of `MontySessions` has no cancelled futures because the code does
not survive them. Symmetry, of processes, clients, callers and HTTP hosts, is used
in `CliFiles`, `SdkDaemon` and `HostTools`, which check safety only.

**Fairness.** `MontySessions`: each client's call goes on while it can
(`WF_vars(Serve(c))`): tasks are polled while ready, tokio's mutex is fair and
held for no await, and the interpreter's code has a limited duration.
`MontyRun` and `DenoRun`: the host's loop and the timer thread go on
(`WF_vars(Host)`), in `DenoRun` but for code without a timer (`UntimedEnds`), which
nothing in LangShell ends; only `FairToolsSpec` adds that the awaited tools answer,
which the code does not guarantee (`block_on` of a tool, `pending.next()`).
`DenoWorker`: the
worker thread serves its channel and `join` returns once the thread has ended; its
runs and snapshots are assumed to end, which `DenoRun` shows of code under a timer
only, so that `EveryCallReturns` and `ShutdownCompletes` speak of sessions whose
reading of `result`, injected inputs and snapshots do not loop.
Nothing makes clients call, the worker die or the runtime be dropped.

## 4. Reading the properties

- `RunsPersist`: a run that was answered ok stays in its session until the
  session is destroyed or replaced. `NoTornState`, `MovedNotCopied`: what others
  see while runs are between their two locks, and that sessions stay apart.
- `ImplementsStore`: every behaviour is one of the abstract store. For Python a
  run takes effect when its code ends, before it is put back; hence callers must
  not overlap. For TypeScript it takes effect when it finishes, and callers may.
- `RecordedOnce`: the audit records and the interpreter agree on which calls
  were answered, whatever the order.
- `NeverSleepsOnReady`, `FuturesBacked`: the two ways a loop over futures
  deadlocks.
- `PendingIsQueued`, `AnsweredInOrder`, `DrainedAtStop`: a caller that waits is
  going to be served, in its turn, before the worker stops.
- `NoStaleTermination`, `TerminationReported`: the timer thread decides and
  terminates in two steps, and code may end between them.
- `AuditedOnce`, `BegunWithinLimit`: records and counters across runs that leave
  operations behind. `AuditedOnce` claims a record for calls answered under a timer,
  because the code makes none of the others that lasts. `TimedCodeEnds`: so with
  the end of a run.
- `Causal`: processes that overwrite each other lose runs, but what is left is
  always one consistent past, which misses only what TypeScript snapshots have left
  out of it. It is the most that holds without a lock.
  `RunsStored`: what holds of sessions whose commands do take turns.
- `ListComplete`, `DestroyHonest`, `SnapshotHonest`: an answer that is put
  together from several runtimes, asked one after the other, is compared with
  what was there during the whole call (`always`) or at some time in it
  (`ever`): no snapshot of all runtimes at one instant is promised, or taken.
  `SnapshotsGoHome`: the magic of a snapshot decides which runtime gets it.
- `SessionsStay`: a session disappears only if it is destroyed by name or its
  runtime dies, never because a peer did. `UsesStore`: the SDK uses the
  TypeScript runtime as the store its own module is shown to implement.
- `DiscoveryFaithful`: what the discovery tools say, which they know since
  they were registered, agrees with what a call by that name reaches.
- `Confined`, `ReadsLast`, `ListedReachable`: of mounts inside one another, the
  three file tools agree on which one a path means.
- `ErrorsTold`: an error code goes through an exception's type and text and
  back; a failure stays one, a denial stays a denial, and no other cause is told
  than the tool named, but for a TypeScript error whose text reads like one.
- `Faithful`, `Stable`: what must survive a snapshot, and that nothing is lost
  by taking another one of the session it was restored to.

## 5. The proofs

Each proof module extends the module it is about. The proofs hold for all
values of the constants that satisfy the named assumptions of the modules:
`ApiAssumption` and `MontyAssumption` (Python table), `WorkerAssumption` and
`DenoAssumption` (worker), `RunAssumption` (TypeScript run), `ToolAssumption`,
`BoundAssumption` and `OrphanAssumption` (Python run), `SdkAssumption` (SDK and
daemon), `CliAssumption` and `ValueAssumption` (session files), `FilesAssumption`
and `MountsAssumption` (built-in tools). They say that limits are natural numbers,
that `None` and the like are none of the values they are compared with, that the
host's directories and files form a tree without names the operating system
reserves, and that the roots of mounts have been normalized, as `FileMount` does
with each (`NormalizedOnce` proves that it does); TLC evaluates them in every run. Few of the invariants are inductive alone; what follows says
what had to be added, and why.

**`MontySessions_proof`**: `TypeOK`, `NoTornState` and `MovedNotCopied` of
`Spec`, and, if no future is dropped, `RunsPersist` of
`SerialSpec`. `IInv` adds `CallsOK` (a call's progress fits its request, and only
a run between its locks owns a session), `SnapsOK` (snapshots handed out are
good), `TokensDiffer` and `TokensOld` (no two runs have one token, and none is in
any memory before it is given out), and `Hidden`: the token of a run that is
under way is in no memory but the one it owns, and not even there before its
code has ended. `Hidden` is what makes `NoTornState` and `MovedNotCopied`
inductive: a run adds its token to one memory only, and nobody can have it
already. `RunsPersistHolds` adds `EffectsIn` (a run that ended well owns its
effects) and follows one case per action; `Serial` enters through
`AloneOnSession` and `OneRunInFlight`.

Its second half shows that `SerialSpec` implements `SessionStore` if no future is
dropped (`ImplementsStoreHolds`). `StoredWhere` says where the store sees a session: in the table, or
with the one run that has it. Then there is one lemma for each action
(`CreateImplements`, ...): taking a session out and putting it back are stutters,
`RunCode` is the store's `Run`, every other method the operation of its name.

**`DenoWorker_proof`**: `PendingIsQueued`, `DrainedAtStop`, `AnsweredInOrder` and
`ImplementsStore` of `Spec`. `QueueOK` says that the channel holds the commands of
the calls that wait, but for the run under way, each once; `OrderOK` that they
lie in the order of their calls, that the run under way came first, and that
`Shutdown` comes last. The refinement follows as for Python, with the death of the
worker as the store's `Lose`, and needs no turns: the run under way owns what the
store still sees as it was. Two theorems bound how long callers wait.
`ServedInTurnHolds`: the `Turns` a waiting call has before it, its place in the
channel and the run under way, never grow, whatever other callers do, and shrink
with each step of the worker, which has one to take. `DropDrainsHolds`: once the
runtime is dropped `Shutdown` is the last command, and every step shrinks the
`Backlog`.

**`DenoRun_proof`**: `TypeOK`, `NoStaleTermination`, `TerminationReported`,
`BegunWithinLimit` and `AuditedOnce` of `Spec`. `TimerOK` says where the timer
thread can be in each phase, `TerminationOwned` that a pending termination
belongs to the run under way and that this run's flag is set, `ResultsOK` that a
run that has ended has its result. `BegunWithinLimit` counts with sets and
products: `BegunBounded` says that the runs before this one took what they were
allowed, and this one as much as it has counted; a step that begins a tool has
counted it first (`CountingStep`). For `AuditedOnce`, `Staged` says that a tool call
is in one stage of its life only, and `Audited` that the ones answered under a timer
are in the `Books`: the records of all runs, the open one's included, which from
`Collect` on are the copy it made. What is answered elsewhere is `aside`:
`Injected` says that before the script starts it is all there is in the records,
so that a run whose inputs are refused loses no more. `RunsCloseHolds`: each step
of a run, its tools and its timer makes one tool call more, or moves the run to a
later `Stage`, or leaves less `ToCome`; and when the run waits, for a synchronous
tool or for the timer thread, what it waits for can happen.

**`MontyRun_proof`**: `RecordedOnce`, `NeverSleepsOnReady`, `FuturesBacked`,
`CallsWithinLimit` and `StdoutBounded` of `Spec`. `Numbered` says that calls have
numbers of their own within the limit, `Placed` that each is in one place and
in the records exactly when it was delivered, `Waiting` that nothing the
interpreter awaits is there already, `Backed` that each of its futures is
pending or ready. What `Picked`, the pass over `ready`, returns (`PickedFacts`) is
proved by looking at the least number of items for which it would fail
(`LeastNat`), because induction theorems cannot be instantiated. `RunClosesHolds`
is the measure of a run: one request more, or further at the one it serves
(`Stage`), or fewer steps of the tools `ToCome`.

**`Daemon_proof`**: `ListComplete`, `DestroyHonest`, `SnapshotHonest`,
`SnapshotsGoHome` and `SessionsStay` of `DaemonSpec`, for both fronts at once:
`StepsOfSdk` shows that each of their steps is a step of the SDK or leaves it alone.
`TablesOK` says that sessions and snapshots belong to runtimes that are there,
`CallOK` that a call has what its operation needs, `HomeOK` that a restore asks the
runtime of its snapshot's language. The honesty of the answers needs, of a call
that is still asking, that `always` and `ever` enclose what the runtimes before
the next one have said: `ListOK`, `DestroyOK` and `SnapshotOK`. A runtime that was
asked and has no session cannot have had it throughout (`StayedNext`), and one
that was not asked yet has said nothing. `SessionsStay` follows from what one call
does to the tables (`ServeKeeps`): it writes its own session only.

**`SdkStore_proof`**: `DaemonSpec` implements `SessionStore` through the mapping of
`UsesStore`. `ToldOK` adds that a call which goes on after TypeScript has answered
has TypeScript behind it, so that the store sees no call twice. A step at another
runtime may bring the call to this one, which is the store's `Invoke`; a step at
this one is the store's operation (`EffectImplements`) and its death is `Lose`.

**`CliSessions_proof`**: `Causal` and `RunsStored` of `Spec`. `CausalInv` says that
every file, snapshot, session in memory and snapshot about to be written is one
of the `Pasts`, the sets of runs that contain with each run those it was built
on, and that a memory that is a past stays one when another run is made
(`PastsGrow`). Its second part follows what snapshots leave out: whoever holds a
past misses no more of it than TypeScript snapshots have lost (`LostFairly`), and
in Python nothing. `StoredInv` says what the one command that uses a session may
hold and what it still has to write.

**`HostTools_proof`**: `DiscoveryFaithful`, `ListedReachable`, `ErrorsTold`,
`Confined` and `ReadsLast` of `Spec`, for every tree of directories and every table
of mounts. The first part is about paths: what `Named` leaves of one
(`NamedFacts`, `NamedSkips`, `NamedAppends`, by counting the names before each),
that `Nearest` is a mount that covers the path and has the longest root of those
(`NearestCovers`), found by the greatest length there is (`GreatestNat`), and hence that a
path leads to one file, for reading and for writing (`LeadsOne`), below the
mount's directory (`LeadsBelow`). `ListedLeads` is the heart of `ListedReachable`: a
name below a listed directory is covered by the same mount, unless it is the root
of another. The inductive invariant `IInv` has four parts. `Setup`: the registry
sessions meet is the one the reports were made of, but for the discovery tools'
own names (`DiscoveryTold` follows what each of the three has captured). `Tree`:
directories stay as they were, each file lies in one. `CallFacts`: a tool between
two of its steps holds the file its path still leads to, a file opened by one
writer alone is empty, a reader no writer has met holds the beginning of its file
(`ReadFacts`), and an answer says what the reports or the directory say.
`History`: what was written last is in its file and nobody is writing to it; this
is what makes `ReadsLast` a property of one step. `Confined` follows from what one
step touches (`StepsTouch`): one file, to which a writable mount leads.

**Only model-checked**: liveness under fairness (`EveryCallReturns`,
`ShutdownCompletes`, `RunEnds`, `TimedCodeEnds`), which is beyond the prover. For the
worker and for the runs, `ServedInTurn`, `DropDrains`, `RunCloses` and `RunsClose`
prove what the arguments rest on, a measure that cannot shrink for ever; that the
steps which shrink it are taken, which is fairness, is left to TLC. (A call on the
Python table needs no measure: it takes at most three steps of its own, for which it
waits for no other call.) So is
`DenoGlobals`, whose trees are built by recursive operators that the prover
cannot expand. Every other property of a run that passes is proved.

## 6. What is not modelled

- The interpreters, parsers, transpilers, CBOR and hashing are external: the
  models let them do what their interfaces allow. So is static validation, walks
  over the syntax trees of those parsers: it appears as a run that may be refused.
- Conversion of Python values, but for the outcome that matters to a run: a value
  that has no JSON form.
- Limits of a session other than calls and time in `DenoRun`, its streams and their
  truncation. That the duration of a Python run reaches the interpreter is modelled
  (`RunCode`) and no property's subject. Memory exhaustion appears only as a worker that dies.
- The bytes of a file: a mixture of two writers is a torn file.
- Symbolic links below a mount, and changes that others on the host make to
  mounted files.
- Parsing: what a line of the daemon or the arguments of a command say is chosen
  freely, and how a host is cut out of a URL is left out. The HTTP tools have no
  transport in this build; what is modelled is which host a call may name.
- The printing of the CLI, and its commands that touch no session (`validate`) or
  only list the directory (`session list`).

## 7. Plan

Done, in the order of importance: the contract and the Python table; the Python
run; the TypeScript worker; the TypeScript run; the session files; the SDK and
the daemon over it; the registry, the virtual files and the error codes, composed
in `HostTools`; the snapshots of TypeScript globals; the proofs of section 5.

Left: symbolic links in `VirtualFiles`.

## 8. Running it

    tlc -config MontyOverlap.cfg MCMontySessions
    tlapm MontySessions_proof.tla

The configuration of a run has the run's name; `PROJECT.json` lists each with
its module, its properties and what it shows.
