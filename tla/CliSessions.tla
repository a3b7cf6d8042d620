------------------------------ MODULE CliSessions ------------------------------
(***************************************************************************)
(* The command line: every command is a process with a LangShell of its    *)
(* own.  It loads the session's file if there is one, does its work in     *)
(* memory and writes the file back.  Processes share the session directory *)
(* and nothing else, and take no lock.                                     *)
(*                                                                         *)
(* Commands that read no more than a file (validate, list) are left out.   *)
(***************************************************************************)
EXTENDS Naturals, FiniteSets

CONSTANTS
    Processes,   \* places for processes: a new command may start where one has ended
    SessionIds,  \* valid session ids
    Languages,   \* the languages in use
    MaxRuns,     \* bound of the model: pieces of code executed
    MaxExported, \* bound of the model: no snapshot command starts with more snapshots written
    MayFail,     \* may writes fail half way and processes be killed?
    None,        \* no file, no session
    Torn         \* what a reader finds in a file that was truncated and not written

ASSUME CliAssumption ==
    /\ "python" \in Languages /\ Languages \subseteq {"python", "typescript"}
    /\ MaxRuns \in Nat /\ MaxExported \in Nat
    /\ MayFail \in BOOLEAN

(* Runs are numbered; a session's past is the runs it is made of. *)
Past == SUBSET (0..(MaxRuns - 1))

(* A snapshot: its magic names the language.  It holds the effects of the  *)
(* runs of its past but for those that were lost, on its way here, to a    *)
(* TypeScript snapshot that left a global out.                             *)
Snapshot == [lang : Languages, past : Past, lost : Past]

ASSUME ValueAssumption ==
    /\ None \notin SessionIds /\ None # Torn
    /\ \A past \in Past : past # None
    /\ {None, Torn} \cap Snapshot = {}

Commands == {"run", "repl", "tools", "snapshot", "restore", "destroy"}

Stages == {"idle", "look", "read", "from", "prompt", "exec", "snapshot", "open", "write", "remove"}

VARIABLES
    files,     \* [SessionIds -> Snapshot \cup {None, Torn}], the session directory
    exported,  \* the snapshots written to files of the user's choice
    proc,      \* [Processes -> Process], the commands under way
    shell,     \* the past of each process' session, per language
    missing,   \* what of it was lost
    attached,  \* the writing processes whose file still has its name
    runs,      \* how many runs have been made
    base,      \* history: what a run was executed on
    promised,  \* history: the runs each session was said to hold
    damaged,   \* history: sessions whose last write did not complete
    contended  \* history: sessions used by two commands at once, or in both languages

vars == <<files, exported, proc, shell, missing, attached, runs, base, promised, damaged,
          contended>>
history == <<base, promised, damaged, contended>>

Process ==
    [at : Stages, cmd : Commands \cup {None}, sid : SessionIds \cup {None},
     lang : Languages, run : Nat, bytes : Snapshot \cup {None}]

Gone == [at |-> "idle", cmd |-> None, sid |-> None, lang |-> "python", run |-> 0, bytes |-> None]

EmptyShell == [l \in Languages |-> None]
NothingMissing == [l \in Languages |-> {}]

TypeOK ==
    /\ files \in [SessionIds -> Snapshot \cup {None, Torn}]
    /\ exported \subseteq Snapshot
    /\ proc \in [Processes -> Process]
    /\ shell \in [Processes -> [Languages -> Past \cup {None}]]
    /\ missing \in [Processes -> [Languages -> Past]]
    /\ attached \subseteq {p \in Processes : proc[p].at = "write"}
    /\ runs \in Nat
    /\ base \in [0..(MaxRuns - 1) -> Past]
    /\ promised \in [SessionIds -> Past]
    /\ damaged \subseteq SessionIds
    /\ contended \subseteq SessionIds

Init ==
    /\ files = [s \in SessionIds |-> None]
    /\ exported = {}
    /\ proc = [p \in Processes |-> Gone]
    /\ shell = [p \in Processes |-> EmptyShell]
    /\ missing = [p \in Processes |-> NothingMissing]
    /\ attached = {}
    /\ runs = 0
    /\ base = [r \in 0..(MaxRuns - 1) |-> {}]
    /\ promised = [s \in SessionIds |-> {}]
    /\ damaged = {}
    /\ contended = {}

--------------------------------------------------------------------------------
Goes(p, stage) == proc' = [proc EXCEPT ![p].at = stage]

(* The process ends, well or with an error, and its LangShell with it. *)
Exits(p) ==
    /\ proc' = [proc EXCEPT ![p] = Gone]
    /\ shell' = [shell EXCEPT ![p] = EmptyShell]
    /\ missing' = [missing EXCEPT ![p] = NothingMissing]

(* tools always works in Python. *)
Start(p) ==
    /\ proc[p].at = "idle" /\ runs < MaxRuns
    /\ \E cmd \in Commands, s \in SessionIds, l \in Languages :
         /\ cmd \notin {"run", "repl"} => l = "python"
         /\ cmd = "snapshot" => Cardinality(exported) < MaxExported
         /\ proc' = [proc EXCEPT ![p] =
                [Gone EXCEPT !.cmd = cmd, !.sid = s, !.lang = l,
                             !.at = CASE cmd = "destroy" -> "remove"
                                      [] cmd = "restore" -> "from"
                                      [] OTHER -> "look"]]
         /\ contended' = IF \E q \in Processes : proc[q].sid = s
                         THEN contended \cup {s} ELSE contended
    /\ UNCHANGED <<files, exported, shell, missing, attached, runs, base, promised, damaged>>

(* What a command does once its session is loaded. *)
Loaded(p) ==
    CASE proc[p].cmd \in {"run", "tools"} -> "exec"
      [] proc[p].cmd = "repl" -> "prompt"
      [] OTHER -> "snapshot"

(* Mutant: a session that is there is not loaded. *)
LookAside(p) ==
    /\ proc[p].at = "look"
    /\ Goes(p, Loaded(p))
    /\ UNCHANGED <<files, exported, shell, missing, attached, runs, history>>

(* load_session_if_exists: is there a file? *)
Look(p) ==
    /\ proc[p].at = "look"
    /\ Goes(p, IF files[proc[p].sid] = None THEN Loaded(p) ELSE "read")
    /\ UNCHANGED <<files, exported, shell, missing, attached, runs, history>>

(* Put a snapshot into the runtime of its language. *)
Restored(p, snapshot) ==
    /\ shell' = [shell EXCEPT ![p][snapshot.lang] = snapshot.past]
    /\ missing' = [missing EXCEPT ![p][snapshot.lang] = snapshot.lost]

(* Read the file and restore it.  By now it may be gone or torn, and the   *)
(* isolate may not start: the command fails.                               *)
Read(p) ==
    /\ proc[p].at = "read"
    /\ \/ /\ files[proc[p].sid] \in Snapshot
          /\ Restored(p, files[proc[p].sid])
          /\ Goes(p, Loaded(p))
       \/ Exits(p)
    /\ UNCHANGED <<files, exported, attached, runs, history>>

(* session restore: a snapshot the user names, or the command fails. *)
RestoreFrom(p) ==
    /\ proc[p].at = "from"
    /\ \/ \E snapshot \in exported : Restored(p, snapshot) /\ Goes(p, "snapshot")
       \/ Exits(p)
    /\ UNCHANGED <<files, exported, attached, runs, history>>

--------------------------------------------------------------------------------
(* The code is run in the session of the chosen language, made if need be. *)
(* It has its effects, or fails with or without them.  Only after success  *)
(* do run and the repl save; a failed run ends the command, the repl goes  *)
(* back to its prompt.                                                     *)
Execute(p) ==
    /\ proc[p].at \in {"exec", "prompt"} /\ runs < MaxRuns
    /\ runs' = runs + 1
    /\ LET l == proc[p].lang
           before == IF shell[p][l] = None THEN {} ELSE shell[p][l]
           after == before \cup {runs}
       IN /\ base' = [base EXCEPT ![runs] = before]
          /\ \/ /\ proc[p].cmd \in {"run", "repl"}
                /\ shell' = [shell EXCEPT ![p][l] = after]
                /\ proc' = [proc EXCEPT ![p].at = "snapshot", ![p].run = runs]
                /\ UNCHANGED missing
             \/ /\ proc[p].cmd = "repl"
                /\ \E past \in {before, after} : shell' = [shell EXCEPT ![p][l] = past]
                /\ Goes(p, "prompt")
                /\ UNCHANGED missing
             \/ proc[p].cmd \in {"run", "tools"} /\ Exits(p)
    /\ UNCHANGED <<files, exported, attached, promised, damaged, contended>>

Quit(p) ==
    /\ proc[p].at = "prompt"
    /\ Exits(p)
    /\ UNCHANGED <<files, exported, attached, runs, history>>

--------------------------------------------------------------------------------
(* The languages whose session a command may snapshot: the one it ran, or  *)
(* whichever runtime has the session, asked in the order of registration.  *)
Sources(p) ==
    LET here == {l \in Languages : shell[p][l] # None}
    IN IF proc[p].cmd \in {"run", "repl"} THEN here \cap {proc[p].lang}
       ELSE IF "python" \in here THEN {"python"} ELSE here

(* What a snapshot may lose: JSON.stringify of the globals leaves out      *)
(* those it cannot encode, functions and shared values among them, and     *)
(* says nothing; Python's dump encodes the whole heap or fails.            *)
Losses(p, l) ==
    IF l = "python" THEN {{}}
    ELSE {lost \in SUBSET shell[p][l] : missing[p][l] \subseteq lost}

(* The snapshot is written to a file of the user's choice, or is about to  *)
(* be written to the session's.                                            *)
Take(p, snapshot) ==
    IF proc[p].cmd = "snapshot"
    THEN exported' = exported \cup {snapshot} /\ Exits(p)
    ELSE /\ proc' = [proc EXCEPT ![p].at = "open", ![p].bytes = snapshot]
         /\ UNCHANGED <<exported, shell, missing>>

(* Mutant: globals that were restored are not part of the next snapshot. *)
SnapshotSince(p) ==
    /\ proc[p].at = "snapshot"
    /\ \/ \E l \in Sources(p) : \E lost \in Losses(p, l) :
            Take(p, [lang |-> l, past |-> shell[p][l] \cap {proc[p].run},
                     lost |-> lost \cap {proc[p].run}])
       \/ Exits(p) /\ UNCHANGED exported
    /\ UNCHANGED <<files, attached, runs, history>>

(* snapshot_session(_with_language).  It fails without a session, and may  *)
(* fail on globals it cannot encode.                                       *)
TakeSnapshot(p) ==
    /\ proc[p].at = "snapshot"
    /\ \/ \E l \in Sources(p) : \E lost \in Losses(p, l) :
            Take(p, [lang |-> l, past |-> shell[p][l], lost |-> lost])
       \/ Exits(p) /\ UNCHANGED exported
    /\ UNCHANGED <<files, attached, runs, history>>

(* Does the file hold the session's other language?  There is one file for *)
(* both.                                                                   *)
Replaces(p) ==
    /\ proc[p].cmd # "restore"
    /\ files[proc[p].sid] \in Snapshot
    /\ files[proc[p].sid].lang # proc[p].bytes.lang

(* The first half of fs::write: open the file and truncate it. *)
OpenFile(p) ==
    /\ proc[p].at = "open"
    /\ \/ /\ files' = [files EXCEPT ![proc[p].sid] = Torn]
          /\ attached' = attached \cup {p}
          /\ contended' = IF Replaces(p) THEN contended \cup {proc[p].sid} ELSE contended
          /\ Goes(p, "write") /\ UNCHANGED <<shell, missing>>
       \/ Exits(p) /\ UNCHANGED <<files, attached, contended>>
    /\ UNCHANGED <<exported, runs, base, promised, damaged>>

(* The second half: write, into a file that may have lost its name.  What  *)
(* is left of a longer file another process has written meanwhile is not   *)
(* read: the decoder stops at the end of the value.  run and restore       *)
(* report success now; the repl (which has reported it) waits for the next *)
(* line.                                                                   *)
WriteFile(p) ==
    /\ proc[p].at = "write"
    /\ LET s == proc[p].sid
       IN /\ files' = IF p \in attached THEN [files EXCEPT ![s] = proc[p].bytes] ELSE files
          /\ promised' = [promised EXCEPT ![s] =
                IF proc[p].cmd = "restore" THEN proc[p].bytes.past ELSE @ \cup {proc[p].run}]
          /\ damaged' = IF p \in attached THEN damaged \ {s} ELSE damaged
    /\ attached' = attached \ {p}
    /\ IF proc[p].cmd = "repl" THEN Goes(p, "prompt") /\ UNCHANGED <<shell, missing>>
       ELSE Exits(p)
    /\ UNCHANGED <<exported, runs, base, contended>>

(* The disk is full, or the process is killed at any time; a file another  *)
(* process has written meanwhile may be overwritten in part.               *)
Dies(p) ==
    /\ MayFail
    /\ proc[p].at # "idle"
    /\ Exits(p)
    /\ files' \in {files} \cup {[files EXCEPT ![proc[q].sid] = Torn] : q \in attached \cap {p}}
    /\ attached' = attached \ {p}
    /\ damaged' = IF p \in attached THEN damaged \cup {proc[p].sid} ELSE damaged
    /\ UNCHANGED <<exported, runs, base, promised, contended>>

(* session destroy: remove the file if it is there. *)
Destroy(p) ==
    /\ proc[p].at = "remove"
    /\ LET s == proc[p].sid
       IN /\ files' = [files EXCEPT ![s] = None]
          /\ attached' = {q \in attached : proc[q].sid # s}
          /\ promised' = [promised EXCEPT ![s] = {}]
          /\ damaged' = damaged \ {s}
    /\ contended' = IF \E q \in Processes \ {p} : proc[q].sid = proc[p].sid
                    THEN contended ELSE contended \ {proc[p].sid}
    /\ Exits(p)
    /\ UNCHANGED <<exported, runs, base>>

Step(p) ==
    \/ Start(p)
    \/ Look(p)
    \/ Read(p)
    \/ RestoreFrom(p)
    \/ Execute(p)
    \/ Quit(p)
    \/ TakeSnapshot(p)
    \/ OpenFile(p)
    \/ WriteFile(p)
    \/ Dies(p)
    \/ Destroy(p)

Next == \E p \in Processes : Step(p)

Spec == Init /\ [][Next]_vars

--------------------------------------------------------------------------------
(* Every place that holds the globals of a session. *)
Held ==
    {files[s] : s \in {r \in SessionIds : files[r] \in Snapshot}}
        \cup exported
        \cup {[lang |-> x[2], past |-> shell[x[1]][x[2]], lost |-> missing[x[1]][x[2]]] :
                x \in {y \in Processes \X Languages : shell[y[1]][y[2]] # None}}

(* Nothing is missing but what TypeScript's snapshots left out. *)
LostFairly(held) ==
    /\ held.lost \subseteq held.past
    /\ held.lang = "python" => held.lost = {}

(* Whatever processes overlap, overwrite each other and die, nobody ever   *)
(* has the effects of a run without those of the runs it was built on: a   *)
(* file, a snapshot or a session in memory is one consistent past, whole   *)
(* in Python; in TypeScript what is missing of it was left out by a        *)
(* snapshot of that past.  (The type invariant goes with it.)              *)
Causal ==
    /\ TypeOK
    /\ \A held \in Held :
         LostFairly(held) /\ \A r \in held.past : base[r] \subseteq held.past

(* A session whose commands wait for each other and speak one language     *)
(* holds every run that was said to have succeeded, until it is destroyed  *)
(* or replaced by a restore: with its effects in Python, and in TypeScript *)
(* but for what snapshots left out.  A write that did not complete may     *)
(* leave a torn file, never an older session.  (Commands that overlap, or  *)
(* another language of the same id, do lose runs: save_session takes no    *)
(* lock and session_file has one name for both.)                           *)
Holds(s) ==
    files[s] \in Snapshot /\ LostFairly(files[s]) /\ promised[s] \subseteq files[s].past

AtRest(s) == \A p \in Processes : proc[p].sid # s

RunsStored ==
    \A s \in SessionIds \ contended :
        AtRest(s) /\ promised[s] # {} =>
            Holds(s) \/ (s \in damaged /\ files[s] = Torn)

===============================================================================
