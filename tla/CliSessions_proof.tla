--------------------------- MODULE CliSessions_proof ---------------------------
(***************************************************************************)
(* Proofs about the session files of the command line: whatever processes  *)
(* overlap and die, each file, snapshot and session is one consistent      *)
(* past, and a session that commands use in turn keeps what it was said to *)
(* hold.                                                                   *)
(***************************************************************************)
EXTENDS CliSessions, TLAPS

(* The parts of TypeOK. *)
FilesTyped ==
    /\ files \in [SessionIds -> Snapshot \cup {None, Torn}]
    /\ exported \subseteq Snapshot

ProcessesTyped ==
    /\ proc \in [Processes -> Process]
    /\ shell \in [Processes -> [Languages -> Past \cup {None}]]
    /\ attached \subseteq {p \in Processes : proc[p].at = "write"}

HistoryTyped ==
    /\ runs \in Nat
    /\ base \in [0..(MaxRuns - 1) -> Past]
    /\ promised \in [SessionIds -> Past]
    /\ damaged \subseteq SessionIds
    /\ contended \subseteq SessionIds

MissingTyped == missing \in [Processes -> [Languages -> Past]]

(* The type invariant but for what is missing, which no past depends on. *)
Typed == FilesTyped /\ ProcessesTyped /\ HistoryTyped

LEMMA TypeParts == Typed <=> FilesTyped /\ ProcessesTyped /\ HistoryTyped
BY DEF Typed

(* The commands a process may be executing in a stage. *)
CommandsAt(stage) ==
    CASE stage \in {"look", "read"} -> {"run", "repl", "tools", "snapshot"}
      [] stage = "from" -> {"restore"}
      [] stage = "exec" -> {"run", "tools"}
      [] stage = "prompt" -> {"repl"}
      [] stage = "snapshot" -> {"run", "repl", "snapshot", "restore"}
      [] stage \in {"open", "write"} -> {"run", "repl", "restore"}
      [] stage = "remove" -> {"destroy"}
      [] OTHER -> {None}

(* What a process is doing fits the stage it is in; what it is about to    *)
(* write is a snapshot, of a run that has been made.                       *)
ProcessAt(p) ==
    /\ proc[p].cmd \in CommandsAt(proc[p].at)
    /\ IF proc[p].at = "idle" THEN proc[p].sid = None ELSE proc[p].sid \in SessionIds
    /\ proc[p].at \in {"open", "write"} => proc[p].bytes \in Snapshot
    /\ proc[p].at \in {"snapshot", "open", "write"} /\ proc[p].cmd \in {"run", "repl"} =>
         proc[p].run < runs

ProcessesOK == \A p \in Processes : ProcessAt(p)

RunsOK == runs <= MaxRuns

(* The pasts that are consistent. *)
Pasts == {past \in SUBSET (0..(runs - 1)) : \A r \in past : base[r] \subseteq past}

FilesConsistent == \A s \in SessionIds : files[s] \in Snapshot => files[s].past \in Pasts
ExportsConsistent == \A snapshot \in exported : snapshot.past \in Pasts
ShellConsistent(p) == \A l \in Languages : shell[p][l] # None => shell[p][l] \in Pasts
BytesConsistent(p) == proc[p].at \in {"open", "write"} => proc[p].bytes.past \in Pasts

ConsistentOK ==
    /\ FilesConsistent
    /\ ExportsConsistent
    /\ \A p \in Processes : ShellConsistent(p) /\ BytesConsistent(p)

(* The invariant that makes the pasts consistent. *)
CausalInv == Typed /\ ProcessesOK /\ RunsOK /\ ConsistentOK

--------------------------------------------------------------------------------
(* What a step to another stage does to the processes. *)
LEMMA GoesFacts ==
    ASSUME proc \in [Processes -> Process], NEW p \in Processes,
           NEW stage \in Stages, Goes(p, stage)
    PROVE  /\ proc' \in [Processes -> Process]
           /\ \A q \in Processes \ {p} : proc'[q] = proc[q]
           /\ proc'[p].at = stage
           /\ proc'[p].cmd = proc[p].cmd /\ proc'[p].sid = proc[p].sid
           /\ proc'[p].lang = proc[p].lang /\ proc'[p].run = proc[p].run
           /\ proc'[p].bytes = proc[p].bytes
BY DEF Goes, Process

(* An empty place is a process, and an empty shell has no sessions. *)
LEMMA GoneFacts ==
    /\ Gone \in Process
    /\ EmptyShell \in [Languages -> Past \cup {None}]
BY CliAssumption DEF Gone, Process, Stages, EmptyShell

(* What the end of a process does. *)
LEMMA ExitsFacts ==
    ASSUME proc \in [Processes -> Process],
           shell \in [Processes -> [Languages -> Past \cup {None}]],
           NEW p \in Processes, Exits(p)
    PROVE  /\ proc' \in [Processes -> Process]
           /\ shell' \in [Processes -> [Languages -> Past \cup {None}]]
           /\ \A q \in Processes \ {p} : proc'[q] = proc[q] /\ shell'[q] = shell[q]
           /\ proc'[p].at = "idle" /\ proc'[p].cmd = None /\ proc'[p].sid = None
           /\ \A l \in Languages : shell'[p][l] = None
BY GoneFacts DEF Exits, Gone, EmptyShell

(* The processes that do not take part in a step are as they were. *)
LEMMA OthersKeep ==
    ASSUME CausalInv, NEW p \in Processes, Pasts \subseteq Pasts', runs' \in Nat, runs <= runs',
           \A q \in Processes \ {p} : proc'[q] = proc[q] /\ shell'[q] = shell[q]
    PROVE  \A q \in Processes \ {p} :
             ProcessAt(q)' /\ ShellConsistent(q)' /\ BytesConsistent(q)'
<1> TAKE q \in Processes \ {p}
<1>1. runs \in Nat /\ proc[q] \in Process
  BY DEF CausalInv, Typed, FilesTyped, ProcessesTyped, HistoryTyped
<1>2. ProcessAt(q) /\ ShellConsistent(q) /\ BytesConsistent(q)
  BY DEF CausalInv, ProcessesOK, ConsistentOK
<1>3. ProcessAt(q)'
  <2>1. proc[q].run < runs => proc[q].run < runs'
    BY <1>1 DEF Process
  <2>2. QED
    BY <1>2, <2>1 DEF ProcessAt
<1>4. ShellConsistent(q)' /\ BytesConsistent(q)'
  BY <1>2 DEF ShellConsistent, BytesConsistent
<1>5. QED
  BY <1>3, <1>4

(* A step that makes no run changes no past. *)
LEMMA PastsSame ==
    ASSUME runs' = runs, base' = base
    PROVE  Pasts' = Pasts
BY DEF Pasts

(* What is needed of a step for CausalInv to go on. *)
LEMMA CausalStep ==
    ASSUME CausalInv, NEW p \in Processes, Pasts \subseteq Pasts', runs' \in Nat, runs <= runs',
           \A q \in Processes \ {p} : proc'[q] = proc[q] /\ shell'[q] = shell[q],
           FilesTyped', ProcessesTyped', HistoryTyped', RunsOK',
           FilesConsistent', ExportsConsistent',
           ProcessAt(p)', ShellConsistent(p)', BytesConsistent(p)'
    PROVE  CausalInv'
<1>1. \A q \in Processes : ProcessAt(q)' /\ ShellConsistent(q)' /\ BytesConsistent(q)'
  BY OthersKeep
<1>2. Typed'
  BY DEF Typed, FilesTyped, ProcessesTyped, HistoryTyped, FilesTyped, ProcessesTyped, HistoryTyped
<1>3. QED
  BY <1>1, <1>2 DEF CausalInv, ProcessesOK, ConsistentOK

(* The same for a step that touches only its process and its shell. *)
LEMMA LocalStep ==
    ASSUME CausalInv, NEW p \in Processes,
           UNCHANGED <<files, exported, attached, runs, base, promised, damaged>>,
           contended' \subseteq SessionIds,
           proc' \in [Processes -> Process],
           shell' \in [Processes -> [Languages -> Past \cup {None}]],
           \A q \in Processes \ {p} : proc'[q] = proc[q] /\ shell'[q] = shell[q],
           proc[p].at # "write",
           ProcessAt(p)', ShellConsistent(p)', BytesConsistent(p)'
    PROVE  CausalInv'
<1>1. FilesTyped /\ ProcessesTyped /\ HistoryTyped /\ RunsOK /\ FilesConsistent /\ ExportsConsistent
  BY TypeParts DEF CausalInv, ConsistentOK
<1>2. Pasts' = Pasts
  BY PastsSame
<1>3. FilesTyped'
  BY <1>1 DEF FilesTyped
<1>4. ProcessesTyped'
  BY <1>1 DEF ProcessesTyped
<1>5. HistoryTyped' /\ RunsOK'
  BY <1>1 DEF HistoryTyped, RunsOK
<1>6. FilesConsistent' /\ ExportsConsistent'
  BY <1>1, <1>2 DEF FilesConsistent, ExportsConsistent
<1>7. runs' \in Nat /\ runs <= runs'
  BY <1>1 DEF HistoryTyped
<1>8. QED
  BY <1>2, <1>3, <1>4, <1>5, <1>6, <1>7, CausalStep

(* An idle process makes no claim. *)
LEMMA IdleProcess ==
    ASSUME NEW p \in Processes, proc'[p].at = "idle", proc'[p].cmd = None, proc'[p].sid = None,
           \A l \in Languages : shell'[p][l] = None
    PROVE  ProcessAt(p)' /\ ShellConsistent(p)' /\ BytesConsistent(p)'
BY DEF ProcessAt, CommandsAt, ShellConsistent, BytesConsistent

(* A process may end in any stage but the second half of a write. *)
LEMMA ExitsCausal ==
    ASSUME CausalInv, NEW p \in Processes, Exits(p), proc[p].at # "write",
           UNCHANGED <<files, exported, attached, runs, base, promised, damaged, contended>>
    PROVE  CausalInv'
<1>1. ProcessesTyped /\ HistoryTyped
  BY TypeParts DEF CausalInv
<1>2. /\ proc' \in [Processes -> Process]
      /\ shell' \in [Processes -> [Languages -> Past \cup {None}]]
      /\ \A q \in Processes \ {p} : proc'[q] = proc[q] /\ shell'[q] = shell[q]
      /\ proc'[p].at = "idle" /\ proc'[p].cmd = None /\ proc'[p].sid = None
      /\ \A l \in Languages : shell'[p][l] = None
  BY <1>1, ExitsFacts DEF ProcessesTyped
<1>3. ProcessAt(p)' /\ ShellConsistent(p)' /\ BytesConsistent(p)'
  BY <1>2, IdleProcess
<1>4. contended' \subseteq SessionIds
  BY <1>1 DEF HistoryTyped
<1>5. QED
  BY <1>2, <1>3, <1>4, LocalStep

(* A process may go to a stage where it holds no snapshot and has made no  *)
(* run that it is about to save.                                           *)
LEMMA GoesCausal ==
    ASSUME CausalInv, NEW p \in Processes, NEW stage \in Stages, Goes(p, stage),
           UNCHANGED <<files, exported, attached, runs, base, promised, damaged, contended>>,
           shell' \in [Processes -> [Languages -> Past \cup {None}]],
           \A q \in Processes \ {p} : shell'[q] = shell[q],
           ShellConsistent(p)',
           proc[p].at \notin {"idle", "write"}, stage \notin {"idle", "open", "write"},
           proc[p].cmd \in CommandsAt(stage),
           stage = "snapshot" => proc[p].cmd \notin {"run", "repl"}
    PROVE  CausalInv'
<1>1. ProcessesTyped /\ HistoryTyped /\ ProcessAt(p)
  BY TypeParts DEF CausalInv, ProcessesOK
<1>2. /\ proc' \in [Processes -> Process]
      /\ \A q \in Processes \ {p} : proc'[q] = proc[q]
      /\ proc'[p].at = stage /\ proc'[p].cmd = proc[p].cmd /\ proc'[p].sid = proc[p].sid
  BY <1>1, GoesFacts DEF ProcessesTyped
<1>3. ProcessAt(p)'
  <2>1. proc'[p].cmd \in CommandsAt(stage) /\ proc'[p].sid \in SessionIds
    BY <1>1, <1>2 DEF ProcessAt
  <2>2. QED
    BY <1>2, <2>1 DEF ProcessAt, CommandsAt
<1>4. BytesConsistent(p)'
  BY <1>2 DEF BytesConsistent
<1>5. contended' \subseteq SessionIds
  BY <1>1 DEF HistoryTyped
<1>6. QED
  BY <1>2, <1>3, <1>4, <1>5, LocalStep

(* Whatever has been loaded, the command goes on to a stage it knows. *)
LEMMA LoadedFacts ==
    ASSUME NEW p \in Processes, proc[p].cmd \in CommandsAt("look") \cup {"restore"}
    PROVE  /\ Loaded(p) \in {"exec", "prompt", "snapshot"}
           /\ proc[p].cmd \in CommandsAt(Loaded(p))
           /\ Loaded(p) = "snapshot" => proc[p].cmd \in {"snapshot", "restore"}
           /\ Loaded(p) # "snapshot" => proc[p].cmd \in {"run", "repl", "tools"}
BY DEF Loaded, CommandsAt

(* A restored snapshot is as consistent as the snapshot. *)
LEMMA RestoredFacts ==
    ASSUME CausalInv, NEW p \in Processes, NEW snapshot \in Snapshot, Restored(p, snapshot),
           snapshot.past \in Pasts, Pasts' = Pasts
    PROVE  /\ shell' \in [Processes -> [Languages -> Past \cup {None}]]
           /\ \A q \in Processes \ {p} : shell'[q] = shell[q]
           /\ ShellConsistent(p)'
           /\ shell'[p][snapshot.lang] = snapshot.past
<1>1. /\ shell \in [Processes -> [Languages -> Past \cup {None}]]
      /\ snapshot.lang \in Languages /\ snapshot.past \in Past
  BY DEF CausalInv, Typed, FilesTyped, ProcessesTyped, HistoryTyped, Snapshot
<1>2. ShellConsistent(p)
  BY DEF CausalInv, ConsistentOK
<1>3. shell'[p] = [shell[p] EXCEPT ![snapshot.lang] = snapshot.past]
  BY <1>1 DEF Restored
<1>4. QED
  BY <1>1, <1>2, <1>3 DEF Restored, ShellConsistent

--------------------------------------------------------------------------------
(* A new command. *)
LEMMA StartCausal ==
    ASSUME CausalInv, NEW p \in Processes, Start(p)
    PROVE  CausalInv'
<1>1. PICK cmd \in Commands, s \in SessionIds, l \in Languages :
        /\ proc' = [proc EXCEPT ![p] =
                [Gone EXCEPT !.cmd = cmd, !.sid = s, !.lang = l,
                             !.at = CASE cmd = "destroy" -> "remove"
                                      [] cmd = "restore" -> "from"
                                      [] OTHER -> "look"]]
        /\ contended' = IF \E q \in Processes : proc[q].sid = s
                        THEN contended \cup {s} ELSE contended
  BY DEF Start
<1>2. /\ ProcessesTyped /\ HistoryTyped /\ ProcessAt(p) /\ ShellConsistent(p)
      /\ proc[p].at = "idle"
      /\ UNCHANGED <<files, exported, shell, attached, runs, base, promised, damaged>>
  BY TypeParts DEF CausalInv, ProcessesOK, ConsistentOK, Start
<1>3. /\ proc'[p].cmd = cmd /\ proc'[p].sid = s
      /\ proc'[p].at = CASE cmd = "destroy" -> "remove"
                         [] cmd = "restore" -> "from"
                         [] OTHER -> "look"
      /\ proc'[p] \in Process
  BY <1>1, <1>2, GoneFacts DEF ProcessesTyped, Gone, Process, Stages
<1>4. /\ proc' \in [Processes -> Process]
      /\ \A q \in Processes \ {p} : proc'[q] = proc[q] /\ shell'[q] = shell[q]
  BY <1>1, <1>2, <1>3 DEF ProcessesTyped
<1>5. ProcessAt(p)' /\ BytesConsistent(p)'
  BY <1>3 DEF ProcessAt, CommandsAt, Commands, BytesConsistent
<1>6. ShellConsistent(p)'
  BY <1>2, PastsSame DEF ShellConsistent
<1>7. contended' \subseteq SessionIds /\ shell' \in [Processes -> [Languages -> Past \cup {None}]]
  BY <1>1, <1>2 DEF HistoryTyped, ProcessesTyped
<1>8. QED
  BY <1>2, <1>4, <1>5, <1>6, <1>7, LocalStep

(* The look at the session's file. *)
LEMMA LookCausal ==
    ASSUME CausalInv, NEW p \in Processes, Look(p)
    PROVE  CausalInv'
<1>1. /\ ProcessesTyped /\ ProcessAt(p) /\ ShellConsistent(p) /\ proc[p].at = "look"
      /\ UNCHANGED <<files, exported, attached, runs, base, promised, damaged, contended>>
      /\ UNCHANGED shell
  BY TypeParts DEF CausalInv, ProcessesOK, ConsistentOK, Look, history
<1>2. proc[p].cmd \in CommandsAt("look")
  BY <1>1 DEF ProcessAt
<1>3. PICK stage : /\ Goes(p, stage)
                   /\ stage \in {"read", "exec", "prompt", "snapshot"}
                   /\ proc[p].cmd \in CommandsAt(stage)
                   /\ stage = "snapshot" => proc[p].cmd \notin {"run", "repl"}
  <2>1. CASE files[proc[p].sid] = None
    BY <1>2, <2>1, LoadedFacts DEF Look
  <2>2. CASE files[proc[p].sid] # None
    <3>1. Goes(p, "read")
      BY <2>2 DEF Look
    <3>2. proc[p].cmd \in CommandsAt("read")
      BY <1>2 DEF CommandsAt
    <3>3. QED
      BY <3>1, <3>2
  <2>3. QED
    BY <2>1, <2>2
<1>4. ShellConsistent(p)' /\ shell' \in [Processes -> [Languages -> Past \cup {None}]]
  BY <1>1, PastsSame DEF ShellConsistent, ProcessesTyped
<1>5. stage \in Stages
  BY <1>3 DEF Stages
<1>6. QED
  BY <1>1, <1>3, <1>4, <1>5, GoesCausal

(* A snapshot is loaded, from the session's file or from one the user names. *)
LEMMA LoadCausal ==
    ASSUME CausalInv, NEW p \in Processes, NEW snapshot \in Snapshot, NEW stage,
           snapshot.past \in Pasts, Restored(p, snapshot), Goes(p, stage),
           stage \in {"exec", "prompt", "snapshot"}, proc[p].at \notin {"idle", "write"},
           proc[p].cmd \in CommandsAt(stage),
           stage = "snapshot" => proc[p].cmd \notin {"run", "repl"},
           UNCHANGED <<files, exported, attached, runs, base, promised, damaged, contended>>
    PROVE  CausalInv'
<1>1. Pasts' = Pasts
  BY PastsSame
<1>2. /\ shell' \in [Processes -> [Languages -> Past \cup {None}]]
      /\ \A q \in Processes \ {p} : shell'[q] = shell[q]
      /\ ShellConsistent(p)'
  BY <1>1, RestoredFacts
<1>3. stage \in Stages /\ stage \notin {"idle", "open", "write"}
  BY DEF Stages
<1>4. QED
  BY <1>2, <1>3, GoesCausal

LEMMA ReadCausal ==
    ASSUME CausalInv, NEW p \in Processes, Read(p)
    PROVE  CausalInv'
<1>1. /\ ProcessAt(p) /\ FilesConsistent /\ proc[p].at = "read"
      /\ UNCHANGED <<files, exported, attached, runs, base, promised, damaged, contended>>
  BY DEF CausalInv, ProcessesOK, ConsistentOK, Read, history
<1>2. CASE Exits(p)
  BY <1>1, <1>2, ExitsCausal
<1>3. CASE /\ files[proc[p].sid] \in Snapshot
           /\ Restored(p, files[proc[p].sid])
           /\ Goes(p, Loaded(p))
  <2>1. proc[p].cmd \in CommandsAt("look") /\ proc[p].sid \in SessionIds
    BY <1>1 DEF ProcessAt, CommandsAt
  <2>2. files[proc[p].sid].past \in Pasts
    BY <1>1, <1>3, <2>1 DEF FilesConsistent
  <2>3. /\ Loaded(p) \in {"exec", "prompt", "snapshot"}
        /\ proc[p].cmd \in CommandsAt(Loaded(p))
        /\ Loaded(p) = "snapshot" => proc[p].cmd \notin {"run", "repl"}
    BY <2>1, LoadedFacts
  <2>4. QED
    BY <1>1, <1>3, <2>2, <2>3, LoadCausal
<1>4. QED
  BY <1>2, <1>3 DEF Read

LEMMA RestoreFromCausal ==
    ASSUME CausalInv, NEW p \in Processes, RestoreFrom(p)
    PROVE  CausalInv'
<1>1. /\ ProcessAt(p) /\ ExportsConsistent /\ FilesTyped /\ proc[p].at = "from"
      /\ UNCHANGED <<files, exported, attached, runs, base, promised, damaged, contended>>
  BY TypeParts DEF CausalInv, ProcessesOK, ConsistentOK, RestoreFrom, history
<1>2. CASE Exits(p)
  BY <1>1, <1>2, ExitsCausal
<1>3. CASE \E snapshot \in exported : Restored(p, snapshot) /\ Goes(p, "snapshot")
  <2>1. PICK snapshot \in exported : Restored(p, snapshot) /\ Goes(p, "snapshot")
    BY <1>3
  <2>2. snapshot \in Snapshot /\ snapshot.past \in Pasts
    BY <1>1 DEF FilesTyped, ExportsConsistent
  <2>3. proc[p].cmd = "restore" /\ proc[p].cmd \in CommandsAt("snapshot")
    BY <1>1 DEF ProcessAt, CommandsAt
  <2>4. QED
    BY <1>1, <2>1, <2>2, <2>3, LoadCausal
<1>4. QED
  BY <1>2, <1>3 DEF RestoreFrom

--------------------------------------------------------------------------------
(* A new run extends the past it was executed on and leaves the others.    *)
LEMMA PastsGrow ==
    ASSUME runs \in Nat, runs < MaxRuns, MaxRuns \in Nat, base \in [0..(MaxRuns - 1) -> Past],
           NEW before \in Pasts, runs' = runs + 1, base' = [base EXCEPT ![runs] = before]
    PROVE  /\ Pasts \subseteq Pasts'
           /\ before \cup {runs} \in Pasts'
           /\ before \in Past /\ before \cup {runs} \in Past
           /\ base' \in [0..(MaxRuns - 1) -> Past]
<1>1. before \subseteq 0..(runs - 1) /\ \A r \in before : base[r] \subseteq before
  BY DEF Pasts
<1>2. 0..(runs - 1) \subseteq 0..(MaxRuns - 1) /\ runs \in 0..(MaxRuns - 1)
  OBVIOUS
<1>3. before \in Past /\ before \cup {runs} \in Past
  BY <1>1, <1>2 DEF Past
<1>4. base' \in [0..(MaxRuns - 1) -> Past]
  BY <1>2, <1>3
<1>5. \A r \in 0..(runs - 1) : base'[r] = base[r]
  BY <1>2
<1>6. base'[runs] = before
  BY <1>2
<1>7. 0..(runs - 1) \subseteq 0..(runs' - 1) /\ runs \in 0..(runs' - 1)
  OBVIOUS
<1>8. Pasts \subseteq Pasts'
  <2> SUFFICES ASSUME NEW past \in Pasts PROVE past \in Pasts'
    OBVIOUS
  <2>1. past \subseteq 0..(runs - 1) /\ \A r \in past : base[r] \subseteq past
    BY DEF Pasts
  <2>2. \A r \in past : base'[r] \subseteq past
    BY <1>5, <2>1
  <2>3. past \subseteq 0..(runs' - 1)
    BY <1>7, <2>1
  <2>4. QED
    BY <2>2, <2>3 DEF Pasts
<1>9. before \cup {runs} \in Pasts'
  <2>1. before \cup {runs} \subseteq 0..(runs' - 1)
    BY <1>1, <1>7
  <2>2. \A r \in before \cup {runs} : base'[r] \subseteq before \cup {runs}
    BY <1>1, <1>5, <1>6
  <2>3. QED
    BY <2>1, <2>2 DEF Pasts
<1>10. QED
  BY <1>3, <1>4, <1>8, <1>9

(* The globals a run finds. *)
Before(p) == IF shell[p][proc[p].lang] = None THEN {} ELSE shell[p][proc[p].lang]

LEMMA ExecuteCausal ==
    ASSUME CausalInv, NEW p \in Processes, Execute(p)
    PROVE  CausalInv'
<1>1. /\ FilesTyped /\ ProcessesTyped /\ HistoryTyped /\ RunsOK /\ ProcessAt(p)
      /\ FilesConsistent /\ ExportsConsistent /\ ShellConsistent(p)
  BY TypeParts DEF CausalInv, ProcessesOK, ConsistentOK
<1>2. /\ proc[p].at \in {"exec", "prompt"} /\ runs < MaxRuns /\ runs' = runs + 1
      /\ base' = [base EXCEPT ![runs] = Before(p)]
      /\ UNCHANGED <<files, exported, attached, promised, damaged, contended>>
  BY DEF Execute, Before
<1>3. /\ shell \in [Processes -> [Languages -> Past \cup {None}]]
      /\ proc \in [Processes -> Process] /\ proc[p].lang \in Languages
      /\ runs \in Nat /\ MaxRuns \in Nat /\ base \in [0..(MaxRuns - 1) -> Past]
  BY <1>1, CliAssumption DEF ProcessesTyped, HistoryTyped, Process
<1>4. Before(p) \in Pasts
  BY <1>1, <1>3 DEF Before, ShellConsistent, Pasts
<1>5. /\ Pasts \subseteq Pasts'
      /\ Before(p) \cup {runs} \in Pasts'
      /\ Before(p) \in Past /\ Before(p) \cup {runs} \in Past
      /\ base' \in [0..(MaxRuns - 1) -> Past]
  BY <1>2, <1>3, <1>4, PastsGrow
<1>6. FilesTyped' /\ HistoryTyped' /\ RunsOK' /\ runs' \in Nat /\ runs <= runs'
  BY <1>1, <1>2, <1>3, <1>5 DEF FilesTyped, HistoryTyped, RunsOK
<1>7. FilesConsistent' /\ ExportsConsistent'
  BY <1>1, <1>2, <1>5 DEF FilesConsistent, ExportsConsistent
<1>8. attached' \subseteq {q \in Processes \ {p} : proc[q].at = "write"}
  BY <1>1, <1>2 DEF ProcessesTyped
<1>9. ASSUME NEW past \in {Before(p), Before(p) \cup {runs}},
             shell' = [shell EXCEPT ![p][proc[p].lang] = past]
      PROVE  /\ shell' \in [Processes -> [Languages -> Past \cup {None}]]
             /\ \A q \in Processes \ {p} : shell'[q] = shell[q]
             /\ ShellConsistent(p)'
  <2>1. shell'[p] = [shell[p] EXCEPT ![proc[p].lang] = past]
    BY <1>3, <1>9
  <2>2. past \in Pasts' /\ past \in Past
    BY <1>4, <1>5, <1>9
  <2>3. QED
    BY <1>1, <1>3, <1>5, <1>9, <2>1, <2>2 DEF ShellConsistent
<1>10. CASE /\ proc[p].cmd \in {"run", "repl"}
            /\ shell' = [shell EXCEPT ![p][proc[p].lang] = Before(p) \cup {runs}]
            /\ proc' = [proc EXCEPT ![p].at = "snapshot", ![p].run = runs]
  <2>1. /\ proc' \in [Processes -> Process]
        /\ \A q \in Processes \ {p} : proc'[q] = proc[q]
        /\ proc'[p].at = "snapshot" /\ proc'[p].cmd = proc[p].cmd
        /\ proc'[p].sid = proc[p].sid /\ proc'[p].run = runs
    BY <1>3, <1>10 DEF Process, Stages
  <2>2. ProcessAt(p)' /\ BytesConsistent(p)'
    BY <1>1, <1>2, <1>3, <1>10, <2>1 DEF ProcessAt, CommandsAt, BytesConsistent
  <2>3. /\ shell' \in [Processes -> [Languages -> Past \cup {None}]]
        /\ \A q \in Processes \ {p} : shell'[q] = shell[q]
        /\ ShellConsistent(p)'
    BY <1>9, <1>10
  <2>4. ProcessesTyped'
    BY <1>8, <2>1, <2>3 DEF ProcessesTyped
  <2>5. QED
    BY <1>5, <1>6, <1>7, <2>1, <2>2, <2>3, <2>4, CausalStep
<1>11. CASE /\ proc[p].cmd = "repl" /\ Goes(p, "prompt")
            /\ \E past \in {Before(p), Before(p) \cup {runs}} :
                 shell' = [shell EXCEPT ![p][proc[p].lang] = past]
  <2>1. "prompt" \in Stages
    BY DEF Stages
  <2>2. /\ proc' \in [Processes -> Process]
        /\ \A q \in Processes \ {p} : proc'[q] = proc[q]
        /\ proc'[p].at = "prompt" /\ proc'[p].cmd = "repl" /\ proc'[p].sid = proc[p].sid
    BY <1>3, <1>11, <2>1, GoesFacts
  <2>3. ProcessAt(p)' /\ BytesConsistent(p)'
    BY <1>1, <1>2, <2>2 DEF ProcessAt, CommandsAt, BytesConsistent
  <2>4. /\ shell' \in [Processes -> [Languages -> Past \cup {None}]]
        /\ \A q \in Processes \ {p} : shell'[q] = shell[q]
        /\ ShellConsistent(p)'
    BY <1>9, <1>11
  <2>5. ProcessesTyped'
    BY <1>8, <2>2, <2>4 DEF ProcessesTyped
  <2>6. QED
    BY <1>5, <1>6, <1>7, <2>2, <2>3, <2>4, <2>5, CausalStep
<1>12. CASE Exits(p)
  <2>1. /\ proc' \in [Processes -> Process]
        /\ shell' \in [Processes -> [Languages -> Past \cup {None}]]
        /\ \A q \in Processes \ {p} : proc'[q] = proc[q] /\ shell'[q] = shell[q]
        /\ proc'[p].at = "idle" /\ proc'[p].cmd = None /\ proc'[p].sid = None
        /\ \A l \in Languages : shell'[p][l] = None
    BY <1>3, <1>12, ExitsFacts
  <2>2. ProcessAt(p)' /\ ShellConsistent(p)' /\ BytesConsistent(p)'
    BY <2>1, IdleProcess
  <2>3. ProcessesTyped'
    BY <1>8, <2>1 DEF ProcessesTyped
  <2>4. QED
    BY <1>5, <1>6, <1>7, <2>1, <2>2, <2>3, CausalStep
<1>13. QED
  BY <1>10, <1>11, <1>12 DEF Execute, Before

LEMMA QuitCausal ==
    ASSUME CausalInv, NEW p \in Processes, Quit(p)
    PROVE  CausalInv'
BY ExitsCausal DEF Quit, history

--------------------------------------------------------------------------------
(* A snapshot is taken of a session that is there. *)
LEMMA SourcesFacts ==
    ASSUME CausalInv, NEW p \in Processes, NEW l \in Sources(p), NEW lost \in Losses(p, l)
    PROVE  /\ l \in Languages /\ shell[p][l] # None
           /\ shell[p][l] \in Past /\ shell[p][l] \in Pasts
           /\ [lang |-> l, past |-> shell[p][l], lost |-> lost] \in Snapshot
           /\ proc[p].cmd \in {"run", "repl"} => l = proc[p].lang
<1>1. shell \in [Processes -> [Languages -> Past \cup {None}]] /\ ShellConsistent(p)
  BY DEF CausalInv, Typed, FilesTyped, ProcessesTyped, HistoryTyped, ConsistentOK
<1>2. l \in Languages /\ shell[p][l] # None /\ (proc[p].cmd \in {"run", "repl"} => l = proc[p].lang)
  BY DEF Sources
<1>3. shell[p][l] \in Past /\ shell[p][l] \in Pasts
  BY <1>1, <1>2 DEF ShellConsistent
<1>4. lost \in Past
  BY <1>3 DEF Losses, Past
<1>5. QED
  BY <1>2, <1>3, <1>4 DEF Snapshot

(* A command that is going to save keeps its snapshot. *)
LEMMA KeepFacts ==
    ASSUME proc \in [Processes -> Process], NEW p \in Processes, NEW snapshot \in Snapshot,
           proc' = [proc EXCEPT ![p].at = "open", ![p].bytes = snapshot]
    PROVE  /\ proc' \in [Processes -> Process]
           /\ \A q \in Processes \ {p} : proc'[q] = proc[q]
           /\ proc'[p].at = "open" /\ proc'[p].bytes = snapshot
           /\ proc'[p].cmd = proc[p].cmd /\ proc'[p].sid = proc[p].sid
           /\ proc'[p].lang = proc[p].lang /\ proc'[p].run = proc[p].run
BY DEF Process, Stages

LEMMA TakeSnapshotCausal ==
    ASSUME CausalInv, NEW p \in Processes, TakeSnapshot(p)
    PROVE  CausalInv'
<1>1. /\ FilesTyped /\ ProcessesTyped /\ HistoryTyped /\ RunsOK /\ ProcessAt(p)
      /\ FilesConsistent /\ ExportsConsistent /\ ShellConsistent(p)
  BY TypeParts DEF CausalInv, ProcessesOK, ConsistentOK
<1>2. /\ proc[p].at = "snapshot"
      /\ UNCHANGED <<files, attached, runs, base, promised, damaged, contended>>
  BY DEF TakeSnapshot, history
<1>3. Pasts' = Pasts /\ HistoryTyped' /\ RunsOK' /\ FilesConsistent' /\ runs' \in Nat /\ runs <= runs'
  BY <1>1, <1>2, PastsSame DEF HistoryTyped, RunsOK, FilesConsistent
<1>4. attached' \subseteq {q \in Processes \ {p} : proc[q].at = "write"}
  BY <1>1, <1>2 DEF ProcessesTyped
<1>5. CASE Exits(p) /\ UNCHANGED exported
  BY <1>2, <1>5, ExitsCausal
<1>6. CASE /\ proc[p].cmd = "snapshot" /\ Exits(p)
           /\ \E snapshot \in Snapshot :
                exported' = exported \cup {snapshot} /\ snapshot.past \in Pasts
  <2>2. PICK snapshot \in Snapshot :
          exported' = exported \cup {snapshot} /\ snapshot.past \in Pasts
    BY <1>6
  <2>3. FilesTyped'
    BY <1>1, <1>2, <2>2 DEF FilesTyped
  <2>4. ExportsConsistent'
    BY <1>1, <1>3, <2>2 DEF ExportsConsistent
  <2>5. /\ proc' \in [Processes -> Process]
        /\ shell' \in [Processes -> [Languages -> Past \cup {None}]]
        /\ \A q \in Processes \ {p} : proc'[q] = proc[q] /\ shell'[q] = shell[q]
        /\ proc'[p].at = "idle" /\ proc'[p].cmd = None /\ proc'[p].sid = None
        /\ \A l \in Languages : shell'[p][l] = None
    BY <1>1, <1>6, ExitsFacts DEF ProcessesTyped
  <2>6. ProcessAt(p)' /\ ShellConsistent(p)' /\ BytesConsistent(p)'
    BY <2>5, IdleProcess
  <2>7. ProcessesTyped'
    BY <1>4, <2>5 DEF ProcessesTyped
  <2>8. QED
    BY <1>3, <2>3, <2>4, <2>5, <2>6, <2>7, CausalStep
<1>7. CASE /\ proc[p].cmd # "snapshot" /\ UNCHANGED <<exported, shell>>
           /\ \E snapshot \in Snapshot :
                /\ proc' = [proc EXCEPT ![p].at = "open", ![p].bytes = snapshot]
                /\ snapshot.past \in Pasts
  <2>2. PICK snapshot \in Snapshot :
          /\ proc' = [proc EXCEPT ![p].at = "open", ![p].bytes = snapshot]
          /\ snapshot.past \in Pasts
    BY <1>7
  <2>3. /\ proc' \in [Processes -> Process]
        /\ \A q \in Processes \ {p} : proc'[q] = proc[q]
        /\ proc'[p].at = "open" /\ proc'[p].bytes = snapshot
        /\ proc'[p].cmd = proc[p].cmd /\ proc'[p].sid = proc[p].sid
        /\ proc'[p].run = proc[p].run
    BY <1>1, <2>2, KeepFacts DEF ProcessesTyped
  <2>4. proc[p].cmd \in CommandsAt("open")
    BY <1>1, <1>2, <1>7 DEF ProcessAt, CommandsAt
  <2>5. ProcessAt(p)'
    BY <1>1, <1>2, <2>2, <2>3, <2>4 DEF ProcessAt
  <2>6. BytesConsistent(p)'
    BY <1>3, <2>2, <2>3 DEF BytesConsistent
  <2>7. ShellConsistent(p)'
    BY <1>1, <1>3, <1>7 DEF ShellConsistent
  <2>8. contended' \subseteq SessionIds /\ shell' \in [Processes -> [Languages -> Past \cup {None}]]
    BY <1>1, <1>2, <1>7 DEF HistoryTyped, ProcessesTyped
  <2>9. QED
    BY <1>2, <1>7, <2>3, <2>5, <2>6, <2>7, <2>8, LocalStep
<1>8. CASE \E l \in Sources(p) : \E lost \in Losses(p, l) :
             Take(p, [lang |-> l, past |-> shell[p][l], lost |-> lost])
  <2>1. PICK l \in Sources(p) : \E lost \in Losses(p, l) :
             Take(p, [lang |-> l, past |-> shell[p][l], lost |-> lost])
    BY <1>8
  <2>2. PICK lost \in Losses(p, l) : Take(p, [lang |-> l, past |-> shell[p][l], lost |-> lost])
    BY <2>1
  <2>3. PICK snapshot \in Snapshot : Take(p, snapshot) /\ snapshot.past \in Pasts
    BY <2>2, SourcesFacts
  <2>4. QED
    BY <1>6, <1>7, <2>3 DEF Take
<1>9. QED
  BY <1>5, <1>8 DEF TakeSnapshot

--------------------------------------------------------------------------------
LEMMA OpenFileCausal ==
    ASSUME CausalInv, NEW p \in Processes, OpenFile(p)
    PROVE  CausalInv'
<1>1. /\ FilesTyped /\ ProcessesTyped /\ HistoryTyped /\ RunsOK /\ ProcessAt(p)
      /\ FilesConsistent /\ ExportsConsistent /\ ShellConsistent(p) /\ BytesConsistent(p)
  BY TypeParts DEF CausalInv, ProcessesOK, ConsistentOK
<1>2. proc[p].at = "open" /\ UNCHANGED <<exported, runs, base, promised, damaged>>
  BY DEF OpenFile
<1>3. CASE Exits(p) /\ UNCHANGED <<files, attached, contended>>
  BY <1>2, <1>3, ExitsCausal
<1>4. CASE /\ files' = [files EXCEPT ![proc[p].sid] = Torn]
           /\ attached' = attached \cup {p}
           /\ contended' = IF Replaces(p) THEN contended \cup {proc[p].sid} ELSE contended
           /\ Goes(p, "write") /\ UNCHANGED <<shell, missing>>
  <2>1. "write" \in Stages /\ proc[p].sid \in SessionIds
    BY <1>1, <1>2 DEF Stages, ProcessAt
  <2>2. /\ proc' \in [Processes -> Process]
        /\ \A q \in Processes \ {p} : proc'[q] = proc[q]
        /\ proc'[p].at = "write" /\ proc'[p].bytes = proc[p].bytes
        /\ proc'[p].cmd = proc[p].cmd /\ proc'[p].sid = proc[p].sid
        /\ proc'[p].run = proc[p].run
    BY <1>1, <1>4, <2>1, GoesFacts DEF ProcessesTyped
  <2>3. Pasts' = Pasts /\ runs' \in Nat /\ runs <= runs' /\ RunsOK'
    BY <1>1, <1>2, PastsSame DEF HistoryTyped, RunsOK
  <2>4. FilesTyped'
    BY <1>1, <1>2, <1>4 DEF FilesTyped
  <2>5. HistoryTyped'
    BY <1>1, <1>2, <1>4, <2>1 DEF HistoryTyped
  <2>6. ProcessesTyped'
    BY <1>1, <1>4, <2>2 DEF ProcessesTyped
  <2>7. FilesConsistent'
    <3>1. Torn \notin Snapshot
      BY ValueAssumption
    <3>2. ASSUME NEW s \in SessionIds, files'[s] \in Snapshot PROVE files'[s] = files[s]
      BY <1>1, <1>4, <3>1, <3>2 DEF FilesTyped
    <3>3. QED
      BY <1>1, <2>3, <3>2 DEF FilesConsistent
  <2>8. ExportsConsistent' /\ ShellConsistent(p)' /\ BytesConsistent(p)'
    BY <1>1, <1>2, <1>4, <2>2, <2>3 DEF ExportsConsistent, ShellConsistent, BytesConsistent
  <2>9. ProcessAt(p)'
    BY <1>1, <1>2, <2>2 DEF ProcessAt, CommandsAt
  <2>10. QED
    BY <1>4, <2>2, <2>3, <2>4, <2>5, <2>6, <2>7, <2>8, <2>9, CausalStep
<1>5. QED
  BY <1>3, <1>4 DEF OpenFile

LEMMA WriteFileCausal ==
    ASSUME CausalInv, NEW p \in Processes, WriteFile(p)
    PROVE  CausalInv'
<1>1. /\ FilesTyped /\ ProcessesTyped /\ HistoryTyped /\ RunsOK /\ ProcessAt(p)
      /\ FilesConsistent /\ ExportsConsistent /\ ShellConsistent(p) /\ BytesConsistent(p)
  BY TypeParts DEF CausalInv, ProcessesOK, ConsistentOK
<1>2. /\ proc[p].at = "write" /\ UNCHANGED <<exported, runs, base, contended>>
      /\ files' = IF p \in attached THEN [files EXCEPT ![proc[p].sid] = proc[p].bytes] ELSE files
      /\ promised' = [promised EXCEPT ![proc[p].sid] =
            IF proc[p].cmd = "restore" THEN proc[p].bytes.past ELSE @ \cup {proc[p].run}]
      /\ damaged' = IF p \in attached THEN damaged \ {proc[p].sid} ELSE damaged
      /\ attached' = attached \ {p}
  BY DEF WriteFile
<1>3. /\ proc[p].sid \in SessionIds /\ proc[p].bytes \in Snapshot
      /\ proc[p].bytes.past \in Pasts /\ proc[p].bytes.past \in Past
      /\ proc[p].cmd \in {"run", "repl", "restore"}
      /\ proc[p].cmd # "restore" => proc[p].run < runs
  BY <1>1, <1>2 DEF ProcessAt, CommandsAt, BytesConsistent, Snapshot
<1>4. Pasts' = Pasts /\ runs' \in Nat /\ runs <= runs' /\ RunsOK'
  BY <1>1, <1>2, PastsSame DEF HistoryTyped, RunsOK
<1>5. proc[p].cmd # "restore" => {proc[p].run} \in Past
  <2>1. proc[p].run \in Nat /\ runs \in Nat /\ MaxRuns \in Nat /\ runs <= MaxRuns
    BY <1>1, CliAssumption DEF ProcessesTyped, Process, HistoryTyped, RunsOK
  <2>2. proc[p].cmd # "restore" => proc[p].run \in 0..(MaxRuns - 1)
    BY <1>3, <2>1
  <2>3. QED
    BY <2>2 DEF Past
<1>6. FilesTyped'
  BY <1>1, <1>2, <1>3 DEF FilesTyped
<1>7. HistoryTyped'
  <2>1. promised' \in [SessionIds -> Past]
    BY <1>1, <1>2, <1>3, <1>5 DEF HistoryTyped, Past
  <2>2. QED
    BY <1>1, <1>2, <2>1 DEF HistoryTyped
<1>8. FilesConsistent'
  BY <1>1, <1>2, <1>3, <1>4 DEF FilesConsistent, FilesTyped
<1>9. ExportsConsistent'
  BY <1>1, <1>2, <1>4 DEF ExportsConsistent
<1>10. attached' \subseteq {q \in Processes \ {p} : proc[q].at = "write"}
  BY <1>1, <1>2 DEF ProcessesTyped
<1>11. CASE proc[p].cmd = "repl" /\ Goes(p, "prompt") /\ UNCHANGED <<shell, missing>>
  <2>1. "prompt" \in Stages
    BY DEF Stages
  <2>2. /\ proc' \in [Processes -> Process]
        /\ \A q \in Processes \ {p} : proc'[q] = proc[q]
        /\ proc'[p].at = "prompt" /\ proc'[p].cmd = "repl" /\ proc'[p].sid = proc[p].sid
    BY <1>1, <1>11, <2>1, GoesFacts DEF ProcessesTyped
  <2>3. ProcessAt(p)' /\ BytesConsistent(p)'
    BY <1>3, <2>2 DEF ProcessAt, CommandsAt, BytesConsistent
  <2>4. ShellConsistent(p)'
    BY <1>1, <1>4, <1>11 DEF ShellConsistent
  <2>5. ProcessesTyped'
    BY <1>1, <1>10, <1>11, <2>2 DEF ProcessesTyped
  <2>6. QED
    BY <1>4, <1>6, <1>7, <1>8, <1>9, <1>11, <2>2, <2>3, <2>4, <2>5, CausalStep
<1>12. CASE Exits(p)
  <2>1. /\ proc' \in [Processes -> Process]
        /\ shell' \in [Processes -> [Languages -> Past \cup {None}]]
        /\ \A q \in Processes \ {p} : proc'[q] = proc[q] /\ shell'[q] = shell[q]
        /\ proc'[p].at = "idle" /\ proc'[p].cmd = None /\ proc'[p].sid = None
        /\ \A l \in Languages : shell'[p][l] = None
    BY <1>1, <1>12, ExitsFacts DEF ProcessesTyped
  <2>2. ProcessAt(p)' /\ ShellConsistent(p)' /\ BytesConsistent(p)'
    BY <2>1, IdleProcess
  <2>3. ProcessesTyped'
    BY <1>10, <2>1 DEF ProcessesTyped
  <2>4. QED
    BY <1>4, <1>6, <1>7, <1>8, <1>9, <2>1, <2>2, <2>3, CausalStep
<1>13. QED
  BY <1>11, <1>12 DEF WriteFile

(* A process that ends in any stage, with what that does to the files. *)
LEMMA EndCausal ==
    ASSUME CausalInv, NEW p \in Processes, Exits(p), UNCHANGED <<exported, runs, base>>,
           files' \in [SessionIds -> Snapshot \cup {None, Torn}],
           \A s \in SessionIds : files'[s] \in Snapshot => files'[s] = files[s],
           attached' \subseteq attached \ {p},
           promised' \in [SessionIds -> Past],
           damaged' \subseteq SessionIds, contended' \subseteq SessionIds
    PROVE  CausalInv'
<1>1. /\ FilesTyped /\ ProcessesTyped /\ HistoryTyped /\ RunsOK /\ FilesConsistent /\ ExportsConsistent
  BY TypeParts DEF CausalInv, ConsistentOK
<1>2. /\ proc' \in [Processes -> Process]
      /\ shell' \in [Processes -> [Languages -> Past \cup {None}]]
      /\ \A q \in Processes \ {p} : proc'[q] = proc[q] /\ shell'[q] = shell[q]
      /\ proc'[p].at = "idle" /\ proc'[p].cmd = None /\ proc'[p].sid = None
      /\ \A l \in Languages : shell'[p][l] = None
  BY <1>1, ExitsFacts DEF ProcessesTyped
<1>3. Pasts' = Pasts /\ runs' \in Nat /\ runs <= runs' /\ RunsOK'
  BY <1>1, PastsSame DEF HistoryTyped, RunsOK
<1>4. FilesTyped' /\ HistoryTyped'
  BY <1>1 DEF FilesTyped, HistoryTyped
<1>5. ProcessesTyped'
  BY <1>1, <1>2 DEF ProcessesTyped
<1>6. FilesConsistent' /\ ExportsConsistent'
  BY <1>1, <1>3 DEF FilesConsistent, ExportsConsistent
<1>7. ProcessAt(p)' /\ ShellConsistent(p)' /\ BytesConsistent(p)'
  BY <1>2, IdleProcess
<1>8. QED
  BY <1>2, <1>3, <1>4, <1>5, <1>6, <1>7, CausalStep

LEMMA DiesCausal ==
    ASSUME CausalInv, NEW p \in Processes, Dies(p)
    PROVE  CausalInv'
<1>1. FilesTyped /\ ProcessesTyped /\ HistoryTyped /\ ProcessAt(p)
  BY TypeParts DEF CausalInv, ProcessesOK
<1>2. /\ Exits(p) /\ proc[p].at # "idle" /\ attached' = attached \ {p}
      /\ files' \in {files} \cup {[files EXCEPT ![proc[q].sid] = Torn] : q \in attached \cap {p}}
      /\ damaged' = IF p \in attached THEN damaged \cup {proc[p].sid} ELSE damaged
      /\ UNCHANGED <<exported, runs, base, promised, contended>>
  BY DEF Dies
<1>3. proc[p].sid \in SessionIds /\ Torn \notin Snapshot
  BY <1>1, <1>2, ValueAssumption DEF ProcessAt
<1>4. files' = files \/ files' = [files EXCEPT ![proc[p].sid] = Torn]
  BY <1>2
<1>5. /\ files' \in [SessionIds -> Snapshot \cup {None, Torn}]
      /\ \A s \in SessionIds : files'[s] \in Snapshot => files'[s] = files[s]
  BY <1>1, <1>3, <1>4 DEF FilesTyped
<1>6. /\ promised' \in [SessionIds -> Past]
      /\ damaged' \subseteq SessionIds /\ contended' \subseteq SessionIds
  BY <1>1, <1>2, <1>3 DEF HistoryTyped
<1>7. QED
  BY <1>2, <1>5, <1>6, EndCausal

LEMMA DestroyCausal ==
    ASSUME CausalInv, NEW p \in Processes, Destroy(p)
    PROVE  CausalInv'
<1>1. FilesTyped /\ ProcessesTyped /\ HistoryTyped /\ ProcessAt(p)
  BY TypeParts DEF CausalInv, ProcessesOK
<1>2. /\ Exits(p) /\ proc[p].at = "remove"
      /\ files' = [files EXCEPT ![proc[p].sid] = None]
      /\ attached' = {q \in attached : proc[q].sid # proc[p].sid}
      /\ promised' = [promised EXCEPT ![proc[p].sid] = {}]
      /\ damaged' = damaged \ {proc[p].sid}
      /\ contended' = IF \E q \in Processes \ {p} : proc[q].sid = proc[p].sid
                      THEN contended ELSE contended \ {proc[p].sid}
      /\ UNCHANGED <<exported, runs, base>>
  BY DEF Destroy
<1>3. proc[p].sid \in SessionIds /\ None \notin Snapshot
  BY <1>1, <1>2, ValueAssumption DEF ProcessAt
<1>4. /\ files' \in [SessionIds -> Snapshot \cup {None, Torn}]
      /\ \A s \in SessionIds : files'[s] \in Snapshot => files'[s] = files[s]
  BY <1>1, <1>2, <1>3 DEF FilesTyped
<1>5. promised' \in [SessionIds -> Past]
  BY <1>1, <1>2, <1>3 DEF HistoryTyped, Past
<1>6. damaged' \subseteq SessionIds /\ contended' \subseteq SessionIds /\ attached' \subseteq attached \ {p}
  BY <1>1, <1>2 DEF HistoryTyped
<1>7. QED
  BY <1>2, <1>4, <1>5, <1>6, EndCausal

(* Every initial state satisfies the invariant. *)
LEMMA InitCausal == Init => CausalInv
<1> SUFFICES ASSUME Init PROVE CausalInv
  OBVIOUS
<1>1. FilesTyped
  BY DEF Init, FilesTyped
<1>2. ProcessesTyped
  BY GoneFacts DEF Init, ProcessesTyped
<1>3. HistoryTyped
  BY DEF Init, HistoryTyped, Past
<1>4. ASSUME NEW p \in Processes
      PROVE  ProcessAt(p) /\ ShellConsistent(p) /\ BytesConsistent(p)
  BY <1>4 DEF Init, Gone, EmptyShell, ProcessAt, CommandsAt, ShellConsistent, BytesConsistent
<1>5. FilesConsistent /\ ExportsConsistent
  BY ValueAssumption DEF Init, FilesConsistent, ExportsConsistent
<1>6. RunsOK
  BY CliAssumption DEF Init, RunsOK
<1>7. QED
  BY <1>1, <1>2, <1>3, <1>4, <1>5, <1>6, TypeParts DEF CausalInv, ProcessesOK, ConsistentOK

(* Every step keeps the invariant. *)
LEMMA StepCausal ==
    ASSUME CausalInv, [Next]_vars
    PROVE  CausalInv'
<1>1. CASE UNCHANGED vars
  BY <1>1 DEF vars, CausalInv, Typed, FilesTyped, ProcessesTyped, HistoryTyped, ProcessesOK, ProcessAt, RunsOK, ConsistentOK,
              FilesConsistent, ExportsConsistent, ShellConsistent, BytesConsistent, Pasts
<1>2. ASSUME NEW p \in Processes, Step(p) PROVE CausalInv'
  BY <1>2, StartCausal, LookCausal, ReadCausal, RestoreFromCausal, ExecuteCausal, QuitCausal,
     TakeSnapshotCausal, OpenFileCausal, WriteFileCausal, DiesCausal, DestroyCausal DEF Step
<1>3. QED
  BY <1>1, <1>2 DEF Next

LEMMA CausalInvariant == Spec => []CausalInv
<1>1. Init => CausalInv
  BY InitCausal
<1>2. CausalInv /\ [Next]_vars => CausalInv'
  BY StepCausal
<1>3. QED
  BY <1>1, <1>2, PTL DEF Spec

--------------------------------------------------------------------------------
(* What is lost.  Snapshots of Python lose nothing, and of TypeScript only *)
(* what is theirs to lose; so does what is restored from them.             *)
Fair == {snapshot \in Snapshot : LostFairly(snapshot)}

FilesFair == \A s \in SessionIds : files[s] \in Snapshot => files[s] \in Fair
ExportsFair == exported \subseteq Fair
BytesFair(p) == proc[p].at \in {"open", "write"} => proc[p].bytes \in Fair
ShellFair(p) ==
    \A l \in Languages :
        IF shell[p][l] = None THEN missing[p][l] = {}
        ELSE missing[p][l] \subseteq shell[p][l] /\ (l = "python" => missing[p][l] = {})

(* The invariant that makes Causal inductive. *)
LossesInv ==
    /\ CausalInv
    /\ MissingTyped
    /\ FilesFair
    /\ ExportsFair
    /\ \A p \in Processes : BytesFair(p) /\ ShellFair(p)

(* What is needed of a step for LossesInv to go on. *)
LEMMA LossesStep ==
    ASSUME LossesInv, CausalInv', NEW p \in Processes, MissingTyped', FilesFair', ExportsFair',
           \A q \in Processes \ {p} :
             proc'[q] = proc[q] /\ shell'[q] = shell[q] /\ missing'[q] = missing[q],
           BytesFair(p)', ShellFair(p)'
    PROVE  LossesInv'
<1>1. \A q \in Processes \ {p} : BytesFair(q)' /\ ShellFair(q)'
  <2> TAKE q \in Processes \ {p}
  <2>1. BytesFair(q) /\ ShellFair(q)
    BY DEF LossesInv
  <2>2. QED
    BY <2>1 DEF BytesFair, ShellFair
<1>2. QED
  BY <1>1 DEF LossesInv

(* A process that ends takes nothing along. *)
LEMMA ExitsLosses ==
    ASSUME LossesInv, CausalInv', NEW p \in Processes, Exits(p), FilesFair', ExportsFair'
    PROVE  LossesInv'
<1>1. ProcessesTyped /\ MissingTyped
  BY DEF LossesInv, CausalInv, Typed
<1>2. NothingMissing \in [Languages -> Past]
  BY DEF NothingMissing, Past
<1>3. /\ MissingTyped'
      /\ \A q \in Processes \ {p} : missing'[q] = missing[q]
      /\ \A l \in Languages : missing'[p][l] = {}
  BY <1>1, <1>2 DEF Exits, MissingTyped, NothingMissing
<1>4. /\ \A q \in Processes \ {p} : proc'[q] = proc[q] /\ shell'[q] = shell[q]
      /\ proc'[p].at = "idle"
      /\ \A l \in Languages : shell'[p][l] = None
  BY <1>1, ExitsFacts DEF ProcessesTyped
<1>5. BytesFair(p)' /\ ShellFair(p)'
  BY <1>3, <1>4 DEF BytesFair, ShellFair
<1>6. QED
  BY <1>3, <1>4, <1>5, LossesStep

(* A restored session misses what its snapshot had lost. *)
LEMMA RestoredLosses ==
    ASSUME LossesInv, NEW p \in Processes, NEW snapshot \in Fair, Restored(p, snapshot)
    PROVE  /\ MissingTyped' /\ ShellFair(p)'
           /\ \A q \in Processes \ {p} : shell'[q] = shell[q] /\ missing'[q] = missing[q]
<1>1. /\ snapshot.lang \in Languages /\ snapshot.past \in Past /\ snapshot.past # None
      /\ snapshot.lost \in Past /\ snapshot.lost \subseteq snapshot.past
      /\ snapshot.lang = "python" => snapshot.lost = {}
  BY ValueAssumption DEF Fair, LostFairly, Snapshot
<1>2. /\ shell \in [Processes -> [Languages -> Past \cup {None}]]
      /\ missing \in [Processes -> [Languages -> Past]] /\ ShellFair(p)
  BY DEF LossesInv, CausalInv, Typed, ProcessesTyped, MissingTyped
<1>3. /\ shell'[p] = [shell[p] EXCEPT ![snapshot.lang] = snapshot.past]
      /\ missing'[p] = [missing[p] EXCEPT ![snapshot.lang] = snapshot.lost]
      /\ \A q \in Processes \ {p} : shell'[q] = shell[q] /\ missing'[q] = missing[q]
  BY <1>1, <1>2 DEF Restored
<1>4. MissingTyped'
  BY <1>1, <1>2 DEF Restored, MissingTyped
<1>5. ShellFair(p)'
  BY <1>1, <1>2, <1>3 DEF ShellFair
<1>6. QED
  BY <1>3, <1>4, <1>5

(* A step to a stage in which nothing is about to be written. *)
LEMMA GoesLosses ==
    ASSUME LossesInv, CausalInv', NEW p \in Processes, NEW stage \in Stages, Goes(p, stage),
           stage \notin {"open", "write"}, FilesFair', ExportsFair', MissingTyped', ShellFair(p)',
           \A q \in Processes \ {p} : shell'[q] = shell[q] /\ missing'[q] = missing[q]
    PROVE  LossesInv'
<1>1. proc \in [Processes -> Process]
  BY DEF LossesInv, CausalInv, Typed, ProcessesTyped
<1>2. proc'[p].at = stage /\ \A q \in Processes \ {p} : proc'[q] = proc[q]
  BY <1>1, GoesFacts
<1>3. BytesFair(p)'
  BY <1>2 DEF BytesFair
<1>4. QED
  BY <1>2, <1>3, LossesStep

LEMMA StartLosses ==
    ASSUME LossesInv, CausalInv', NEW p \in Processes, Start(p)
    PROVE  LossesInv'
<1>1. /\ ProcessesTyped /\ MissingTyped /\ FilesFair /\ ExportsFair /\ ShellFair(p)
      /\ UNCHANGED <<files, exported, shell, missing>>
  BY DEF LossesInv, CausalInv, Typed, Start
<1>2. PICK cmd \in Commands, s \in SessionIds, l \in Languages :
        /\ proc' = [proc EXCEPT ![p] =
                [Gone EXCEPT !.cmd = cmd, !.sid = s, !.lang = l,
                             !.at = CASE cmd = "destroy" -> "remove"
                                      [] cmd = "restore" -> "from"
                                      [] OTHER -> "look"]]
        /\ contended' = IF \E q \in Processes : proc[q].sid = s
                        THEN contended \cup {s} ELSE contended
  BY DEF Start
<1>3. proc'[p].at \in {"remove", "from", "look"} /\ \A q \in Processes \ {p} : proc'[q] = proc[q]
  BY <1>1, <1>2 DEF ProcessesTyped, Gone
<1>4. BytesFair(p)' /\ ShellFair(p)' /\ FilesFair' /\ ExportsFair' /\ MissingTyped'
  BY <1>1, <1>3 DEF BytesFair, ShellFair, FilesFair, ExportsFair, MissingTyped
<1>5. QED
  BY <1>1, <1>3, <1>4, LossesStep

LEMMA LookLosses ==
    ASSUME LossesInv, CausalInv', NEW p \in Processes, Look(p)
    PROVE  LossesInv'
<1>1. /\ MissingTyped /\ FilesFair /\ ExportsFair /\ ShellFair(p)
      /\ UNCHANGED <<files, exported, shell, missing>>
  BY DEF LossesInv, Look
<1>2. PICK stage \in {"read", "exec", "prompt", "snapshot"} : Goes(p, stage)
  BY DEF Look, Loaded
<1>3. stage \in Stages
  BY DEF Stages
<1>4. ShellFair(p)' /\ FilesFair' /\ ExportsFair' /\ MissingTyped'
  BY <1>1 DEF ShellFair, FilesFair, ExportsFair, MissingTyped
<1>5. QED
  BY <1>1, <1>2, <1>3, <1>4, GoesLosses

(* A snapshot is loaded, from the session's file or from one the user names. *)
LEMMA LoadLosses ==
    ASSUME LossesInv, CausalInv', NEW p \in Processes, Read(p) \/ RestoreFrom(p)
    PROVE  LossesInv'
<1>1. ProcessAt(p) /\ FilesFair /\ ExportsFair /\ UNCHANGED <<files, exported>>
  BY DEF LossesInv, CausalInv, ProcessesOK, Read, RestoreFrom
<1>2. FilesFair' /\ ExportsFair'
  BY <1>1 DEF FilesFair, ExportsFair
<1>3. CASE Exits(p)
  BY <1>2, <1>3, ExitsLosses
<1>4. CASE ~Exits(p)
  <2>1. PICK snapshot \in Fair, stage \in {"exec", "prompt", "snapshot"} :
          Restored(p, snapshot) /\ Goes(p, stage)
    <3>1. CASE Read(p)
      <4>1. /\ proc[p].sid \in SessionIds /\ files[proc[p].sid] \in Snapshot
            /\ Restored(p, files[proc[p].sid]) /\ Goes(p, Loaded(p))
        BY <1>1, <1>4, <3>1 DEF Read, ProcessAt
      <4>2. files[proc[p].sid] \in Fair /\ Loaded(p) \in {"exec", "prompt", "snapshot"}
        BY <1>1, <4>1 DEF FilesFair, Loaded
      <4>3. QED
        BY <4>1, <4>2
    <3>2. CASE RestoreFrom(p)
      BY <1>1, <1>4, <3>2 DEF RestoreFrom, ExportsFair
    <3>3. QED
      BY <3>1, <3>2
  <2>2. stage \in Stages
    BY DEF Stages
  <2>3. /\ MissingTyped' /\ ShellFair(p)'
        /\ \A q \in Processes \ {p} : shell'[q] = shell[q] /\ missing'[q] = missing[q]
    BY <2>1, RestoredLosses
  <2>4. QED
    BY <1>2, <2>1, <2>2, <2>3, GoesLosses
<1>5. QED
  BY <1>3, <1>4

(* A run adds to what is there. *)
LEMMA ExecuteLosses ==
    ASSUME LossesInv, CausalInv', NEW p \in Processes, Execute(p)
    PROVE  LossesInv'
<1>1. /\ ProcessesTyped /\ ProcessesTyped' /\ MissingTyped /\ FilesFair /\ ExportsFair /\ ShellFair(p)
      /\ UNCHANGED <<files, exported>>
  BY DEF LossesInv, CausalInv, Typed, Execute
<1>2. FilesFair' /\ ExportsFair'
  BY <1>1 DEF FilesFair, ExportsFair
<1>3. CASE Exits(p)
  BY <1>2, <1>3, ExitsLosses
<1>4. CASE ~Exits(p)
  <2>1. PICK past \in {Before(p), Before(p) \cup {runs}}, stage \in {"prompt", "snapshot"} :
          /\ shell' = [shell EXCEPT ![p][proc[p].lang] = past]
          /\ UNCHANGED missing
          /\ \/ Goes(p, stage)
             \/ proc' = [proc EXCEPT ![p].at = stage, ![p].run = runs]
    BY <1>4 DEF Execute, Before
  <2>2. proc'[p].at \in {"prompt", "snapshot"} /\ \A q \in Processes \ {p} : proc'[q] = proc[q]
    BY <1>1, <2>1 DEF Goes, ProcessesTyped, Process
  <2>3. proc[p].lang \in Languages /\ shell[p] \in [Languages -> Past \cup {None}]
    BY <1>1 DEF ProcessesTyped, Process
  <2>4. /\ shell'[p] = [shell[p] EXCEPT ![proc[p].lang] = past]
        /\ \A q \in Processes \ {p} : shell'[q] = shell[q]
    BY <1>1, <2>1 DEF ProcessesTyped
  <2>5. Before(p) \subseteq past
    BY <2>1
  <2>6. ShellFair(p)'
    <3> SUFFICES ASSUME NEW l \in Languages
                 PROVE  IF shell'[p][l] = None THEN missing'[p][l] = {}
                        ELSE /\ missing'[p][l] \subseteq shell'[p][l]
                             /\ l = "python" => missing'[p][l] = {}
      BY DEF ShellFair
    <3>1. missing'[p][l] = missing[p][l]
      BY <2>1
    <3>2. IF shell[p][l] = None THEN missing[p][l] = {}
          ELSE missing[p][l] \subseteq shell[p][l] /\ (l = "python" => missing[p][l] = {})
      BY <1>1 DEF ShellFair
    <3>3. CASE l # proc[p].lang
      <4>1. shell'[p][l] = shell[p][l]
        BY <2>3, <2>4, <3>3
      <4>2. QED
        BY <3>1, <3>2, <4>1
    <3>4. CASE l = proc[p].lang
      <4>1. shell'[p][l] = past
        BY <2>3, <2>4, <3>4
      <4>2. missing[p][l] \subseteq Before(p) /\ (l = "python" => missing[p][l] = {})
        BY <3>2, <3>4 DEF Before
      <4>3. past # None
        <5>1. past \in Pasts' /\ runs' = runs + 1 /\ runs \in Nat /\ runs < MaxRuns /\ MaxRuns \in Nat
          <6>1. CausalInv /\ ShellConsistent(p) /\ runs < MaxRuns /\ runs' = runs + 1
            BY DEF LossesInv, CausalInv, ConsistentOK, Execute
          <6>2. /\ base' = [base EXCEPT ![runs] = Before(p)]
                /\ runs \in Nat /\ MaxRuns \in Nat /\ base \in [0..(MaxRuns - 1) -> Past]
            BY <6>1, CliAssumption DEF Execute, Before, CausalInv, Typed, HistoryTyped
          <6>3. Before(p) \in Pasts
            BY <2>3, <6>1 DEF Before, ShellConsistent, Pasts
          <6>4. Pasts \subseteq Pasts' /\ Before(p) \cup {runs} \in Pasts'
            BY <6>1, <6>2, <6>3, PastsGrow
          <6>5. past \in Pasts'
            BY <2>1, <6>3, <6>4
          <6>6. QED
            BY <6>1, <6>2, <6>5
        <5>2. past \in SUBSET (0..(runs' - 1)) /\ runs' - 1 = runs
          BY <5>1 DEF Pasts
        <5>3. past \in Past
          <6>1. 0..runs \subseteq 0..(MaxRuns - 1)
            BY <5>1
          <6>2. past \subseteq 0..runs
            BY <5>2
          <6>3. QED
            BY <6>1, <6>2 DEF Past
        <5>4. QED
          BY <5>3, ValueAssumption
      <4>4. QED
        BY <2>5, <3>1, <4>1, <4>2, <4>3
    <3>5. QED
      BY <3>3, <3>4
  <2>7. BytesFair(p)' /\ MissingTyped'
    BY <1>1, <2>1, <2>2 DEF BytesFair, MissingTyped
  <2>8. QED
    BY <1>2, <2>1, <2>2, <2>4, <2>6, <2>7, LossesStep
<1>5. QED
  BY <1>3, <1>4

(* A snapshot loses what its language lets it lose. *)
LEMMA TakeSnapshotLosses ==
    ASSUME LossesInv, CausalInv', NEW p \in Processes, TakeSnapshot(p)
    PROVE  LossesInv'
<1>1. /\ CausalInv /\ ProcessesTyped /\ MissingTyped /\ FilesFair /\ ExportsFair /\ ShellFair(p)
      /\ UNCHANGED files
  BY DEF LossesInv, CausalInv, Typed, TakeSnapshot
<1>2. FilesFair'
  BY <1>1 DEF FilesFair
<1>3. CASE Exits(p) /\ UNCHANGED exported
  BY <1>1, <1>2, <1>3, ExitsLosses DEF ExportsFair
<1>4. CASE \E l \in Sources(p) : \E lost \in Losses(p, l) :
             Take(p, [lang |-> l, past |-> shell[p][l], lost |-> lost])
  <2>1. PICK l \in Sources(p) : \E lost \in Losses(p, l) :
             Take(p, [lang |-> l, past |-> shell[p][l], lost |-> lost])
    BY <1>4
  <2>2. PICK lost \in Losses(p, l) : Take(p, [lang |-> l, past |-> shell[p][l], lost |-> lost])
    BY <2>1
  <2>3. [lang |-> l, past |-> shell[p][l], lost |-> lost] \in Snapshot
    BY <1>1, SourcesFacts
  <2>4. lost \subseteq shell[p][l] /\ (l = "python" => lost = {})
    BY DEF Losses
  <2>5. PICK snapshot \in Fair : Take(p, snapshot)
    BY <2>2, <2>3, <2>4 DEF Fair, LostFairly
  <2>6. CASE proc[p].cmd = "snapshot"
    <3>1. exported' = exported \cup {snapshot} /\ Exits(p)
      BY <2>5, <2>6 DEF Take
    <3>2. ExportsFair'
      BY <1>1, <3>1 DEF ExportsFair
    <3>3. QED
      BY <1>2, <3>1, <3>2, ExitsLosses
  <2>7. CASE proc[p].cmd # "snapshot"
    <3>1. /\ proc' = [proc EXCEPT ![p].at = "open", ![p].bytes = snapshot]
          /\ UNCHANGED <<exported, shell, missing>>
      BY <2>5, <2>7 DEF Take
    <3>2. proc'[p].bytes = snapshot /\ \A q \in Processes \ {p} : proc'[q] = proc[q]
      BY <1>1, <3>1 DEF ProcessesTyped, Process
    <3>3. BytesFair(p)' /\ ShellFair(p)' /\ ExportsFair' /\ MissingTyped'
      BY <1>1, <3>1, <3>2 DEF BytesFair, ShellFair, ExportsFair, MissingTyped
    <3>4. QED
      BY <1>2, <3>1, <3>2, <3>3, LossesStep
  <2>8. QED
    BY <2>6, <2>7
<1>5. QED
  BY <1>3, <1>4 DEF TakeSnapshot

(* Opening a file for writing tears it, and the write fills it. *)
LEMMA SaveLosses ==
    ASSUME LossesInv, CausalInv', NEW p \in Processes, OpenFile(p) \/ WriteFile(p)
    PROVE  LossesInv'
<1>1. /\ FilesTyped /\ ProcessesTyped /\ MissingTyped /\ ProcessAt(p)
      /\ FilesFair /\ ExportsFair /\ BytesFair(p) /\ ShellFair(p)
      /\ proc[p].at \in {"open", "write"} /\ UNCHANGED exported
  BY DEF LossesInv, CausalInv, Typed, ProcessesOK, OpenFile, WriteFile
<1>2. \A s \in SessionIds : files'[s] \in {files[s], Torn, proc[p].bytes}
  BY <1>1 DEF OpenFile, WriteFile, FilesTyped
<1>3. FilesFair'
  BY <1>1, <1>2, ValueAssumption DEF FilesFair, BytesFair
<1>4. ExportsFair'
  BY <1>1 DEF ExportsFair
<1>5. CASE Exits(p)
  BY <1>3, <1>4, <1>5, ExitsLosses
<1>6. CASE ~Exits(p)
  <2>1. PICK stage \in {"write", "prompt"} : Goes(p, stage) /\ UNCHANGED <<shell, missing>>
    BY <1>6 DEF OpenFile, WriteFile
  <2>2. proc'[p].bytes = proc[p].bytes /\ \A q \in Processes \ {p} : proc'[q] = proc[q]
    BY <1>1, <2>1 DEF Goes, ProcessesTyped, Process
  <2>3. BytesFair(p)' /\ ShellFair(p)' /\ MissingTyped'
    BY <1>1, <2>1, <2>2 DEF BytesFair, ShellFair, MissingTyped
  <2>4. QED
    BY <1>3, <1>4, <2>1, <2>2, <2>3, LossesStep
<1>7. QED
  BY <1>5, <1>6

(* A process that dies or destroys a session leaves no snapshot behind. *)
LEMMA EndLosses ==
    ASSUME LossesInv, CausalInv', NEW p \in Processes, Dies(p) \/ Destroy(p)
    PROVE  LossesInv'
<1>1. FilesTyped /\ FilesFair /\ ExportsFair /\ UNCHANGED exported /\ Exits(p)
  BY DEF LossesInv, CausalInv, Typed, Dies, Destroy
<1>2. \A s \in SessionIds : files'[s] \in {files[s], Torn, None}
  BY <1>1 DEF Dies, Destroy, FilesTyped
<1>3. FilesFair' /\ ExportsFair'
  BY <1>1, <1>2, ValueAssumption DEF FilesFair, ExportsFair
<1>4. QED
  BY <1>1, <1>3, ExitsLosses

(* Every initial state satisfies the invariant. *)
LEMMA InitLosses == Init => LossesInv
<1> SUFFICES ASSUME Init PROVE LossesInv
  OBVIOUS
<1>1. CausalInv
  BY InitCausal
<1>2. MissingTyped
  BY DEF Init, MissingTyped, NothingMissing, Past
<1>3. FilesFair /\ ExportsFair
  BY ValueAssumption DEF Init, FilesFair, ExportsFair
<1>4. \A p \in Processes : BytesFair(p) /\ ShellFair(p)
  BY DEF Init, BytesFair, ShellFair, Gone, EmptyShell, NothingMissing
<1>5. QED
  BY <1>1, <1>2, <1>3, <1>4 DEF LossesInv

(* Every step keeps the invariant. *)
LEMMA StepLosses ==
    ASSUME LossesInv, [Next]_vars
    PROVE  LossesInv'
<1>1. CausalInv'
  BY StepCausal DEF LossesInv
<1>2. CASE UNCHANGED vars
  BY <1>1, <1>2 DEF vars, LossesInv, MissingTyped, FilesFair, ExportsFair, BytesFair, ShellFair
<1>3. ASSUME NEW p \in Processes, Step(p) PROVE LossesInv'
  <2>1. ASSUME Quit(p) PROVE LossesInv'
    <3>1. Exits(p) /\ UNCHANGED <<files, exported>> /\ FilesFair /\ ExportsFair
      BY <2>1 DEF Quit, LossesInv
    <3>2. FilesFair' /\ ExportsFair'
      BY <3>1 DEF FilesFair, ExportsFair
    <3>3. QED
      BY <1>1, <3>1, <3>2, ExitsLosses
  <2>2. QED
    BY <1>1, <1>3, <2>1, StartLosses, LookLosses, LoadLosses, ExecuteLosses, TakeSnapshotLosses,
       SaveLosses, EndLosses DEF Step
<1>4. QED
  BY <1>2, <1>3 DEF Next

LEMMA LossesInvariant == Spec => []LossesInv
<1>1. Init => LossesInv
  BY InitLosses
<1>2. LossesInv /\ [Next]_vars => LossesInv'
  BY StepLosses
<1>3. QED
  BY <1>1, <1>2, PTL DEF Spec

(* Every file, snapshot and process has the shape TypeOK gives it. *)
LEMMA LossesTyped == LossesInv => TypeOK
BY DEF LossesInv, CausalInv, Typed, FilesTyped, ProcessesTyped, HistoryTyped, MissingTyped, TypeOK

THEOREM TypeCorrect == Spec => []TypeOK
BY LossesInvariant, LossesTyped, PTL

(* Whatever commands overlap, fail and are killed, each file, snapshot and *)
(* session in memory holds a run only with all the runs it was built on,   *)
(* whole in Python and, in TypeScript, but for what snapshots of that past *)
(* left out (save_session and load_session_if_exists, which take no lock,  *)
(* and snapshot_globals, which leaves out what it cannot encode).          *)
THEOREM CausalHolds == Spec => []Causal
<1>1. LossesInv => Causal
  <2> SUFFICES ASSUME LossesInv PROVE Causal
    OBVIOUS
  <2>1. /\ TypeOK /\ FilesConsistent /\ ExportsConsistent /\ FilesFair /\ ExportsFair
        /\ \A p \in Processes : ShellConsistent(p) /\ ShellFair(p)
    BY LossesTyped DEF LossesInv, CausalInv, ConsistentOK
  <2>2. ASSUME NEW held \in Held PROVE held.past \in Pasts /\ LostFairly(held)
    <3>1. CASE \E s \in SessionIds : held = files[s] /\ files[s] \in Snapshot
      BY <2>1, <3>1 DEF FilesConsistent, FilesFair, Fair
    <3>2. CASE held \in exported
      BY <2>1, <3>2 DEF ExportsConsistent, ExportsFair, Fair
    <3>3. CASE \E p \in Processes, l \in Languages :
                 /\ shell[p][l] # None
                 /\ held = [lang |-> l, past |-> shell[p][l], lost |-> missing[p][l]]
      <4>1. PICK p \in Processes, l \in Languages :
              /\ shell[p][l] # None
              /\ held = [lang |-> l, past |-> shell[p][l], lost |-> missing[p][l]]
        BY <3>3
      <4>2. /\ shell[p][l] \in Pasts /\ missing[p][l] \subseteq shell[p][l]
            /\ l = "python" => missing[p][l] = {}
        BY <2>1, <4>1 DEF ShellConsistent, ShellFair
      <4>3. QED
        BY <4>1, <4>2 DEF LostFairly
    <3>4. QED
      BY <3>1, <3>2, <3>3 DEF Held
  <2>3. QED
    BY <2>1, <2>2 DEF Causal, Pasts
<1>2. QED
  BY <1>1, LossesInvariant, PTL

--------------------------------------------------------------------------------
(* Commands that use one session in turn.  The session's file holds what   *)
(* was promised, or is being written; a command that is going to save has  *)
(* loaded it, so that what it writes holds it, and more.                   *)
Alone ==
    \A s \in SessionIds \ contended : \A p, q \in Processes :
        proc[p].sid = s /\ proc[q].sid = s => p = q

HoldsPast(s) == files[s] \in Snapshot /\ promised[s] \subseteq files[s].past

Kept(s) == promised[s] = {} \/ HoldsPast(s) \/ (s \in damaged /\ files[s] = Torn)

KeptAt(s) == s \notin contended => Kept(s) \/ \E p \in attached : proc[p].sid = s

CarriesAt(p) ==
    LET s == proc[p].sid
    IN /\ s \notin contended
       /\ proc[p].at \in {"exec", "prompt", "snapshot", "open"}
       /\ proc[p].cmd \in {"run", "repl", "tools"}
       => \/ promised[s] = {}
          \/ /\ HoldsPast(s)
             /\ shell[p][files[s].lang] # None
             /\ promised[s] \subseteq shell[p][files[s].lang]

SavesAt(p) ==
    proc[p].at \in {"snapshot", "open", "write"} /\ proc[p].cmd \in {"run", "repl"} =>
        /\ shell[p][proc[p].lang] # None
        /\ proc[p].run \in shell[p][proc[p].lang]
        /\ proc[p].at # "snapshot" =>
             /\ proc[p].bytes.lang = proc[p].lang
             /\ proc[p].bytes.past = shell[p][proc[p].lang]

WritesAt(p) ==
    LET s == proc[p].sid
    IN proc[p].at = "write" /\ s \notin contended =>
         /\ p \in attached
         /\ files[s] = Torn
         /\ proc[p].cmd # "restore" => promised[s] \subseteq proc[p].bytes.past

(* The invariant that makes RunsStored inductive. *)
StoredInv ==
    /\ CausalInv
    /\ Alone
    /\ \A s \in SessionIds : KeptAt(s)
    /\ \A p \in Processes : CarriesAt(p) /\ SavesAt(p) /\ WritesAt(p)

(* A step of p touches the session s and no other; if another process uses *)
(* s too, then s is contended.                                             *)
Touches(p, s) ==
    /\ \A q \in Processes \ {p} : proc'[q] = proc[q] /\ shell'[q] = shell[q]
    /\ proc'[p].sid \in {s, None}
    /\ p \in attached => proc[p].sid = s
    /\ \A t \in SessionIds \ {s} :
         /\ files'[t] = files[t] /\ promised'[t] = promised[t]
         /\ t \in damaged' <=> t \in damaged
         /\ t \in contended' <=> t \in contended
    /\ \A q \in Processes \ {p} :
         proc[q].sid # s => (q \in attached' <=> q \in attached)
    /\ \A q \in Processes \ {p} : proc[q].sid = s => s \in contended'

(* What is needed of such a step for StoredInv to go on. *)
LEMMA StoredStep ==
    ASSUME StoredInv, CausalInv', NEW p \in Processes, NEW s \in SessionIds, Touches(p, s),
           KeptAt(s)', CarriesAt(p)', SavesAt(p)', WritesAt(p)'
    PROVE  StoredInv'
<1>1. /\ Alone /\ \A t \in SessionIds : KeptAt(t)
      /\ \A q \in Processes : CarriesAt(q) /\ SavesAt(q) /\ WritesAt(q) /\ ProcessAt(q)
      /\ attached \subseteq Processes
  BY DEF StoredInv, CausalInv, Typed, FilesTyped, ProcessesTyped, HistoryTyped, ProcessesOK
<1>2. None \notin SessionIds
  BY ValueAssumption
<1>3. Alone'
  <2> SUFFICES ASSUME NEW t \in SessionIds, t \notin contended',
                      NEW q \in Processes, NEW r \in Processes,
                      proc'[q].sid = t, proc'[r].sid = t
               PROVE  q = r
    BY DEF Alone
  <2>1. CASE t = s
    BY <2>1 DEF Touches
  <2>2. CASE t # s
    BY <1>1, <1>2, <2>2 DEF Touches, Alone
  <2>3. QED
    BY <2>1, <2>2
<1>4. ASSUME NEW t \in SessionIds PROVE KeptAt(t)'
  <2>1. CASE t # s
    <3>1. SUFFICES ASSUME t \notin contended' PROVE KeptAt(t)'
      BY DEF KeptAt
    <3>2. Kept(t) \/ \E q \in attached : proc[q].sid = t
      BY <1>1, <2>1, <3>1 DEF KeptAt, Touches
    <3>3. Kept(t) => Kept(t)'
      BY <2>1 DEF Touches, Kept, HoldsPast
    <3>4. ASSUME NEW q \in attached, proc[q].sid = t PROVE q \in attached' /\ proc'[q].sid = t
      BY <1>1, <2>1, <3>4 DEF Touches
    <3>5. QED
      BY <3>2, <3>3, <3>4 DEF KeptAt
  <2>2. QED
    BY <2>1
<1>5. ASSUME NEW q \in Processes PROVE CarriesAt(q)' /\ SavesAt(q)' /\ WritesAt(q)'
  <2>1. CASE q # p
    <3>1. proc'[q] = proc[q] /\ shell'[q] = shell[q]
      BY <2>1 DEF Touches
    <3>2. SavesAt(q)'
      BY <1>1, <3>1 DEF SavesAt
    <3>3. CASE proc[q].sid = s
      <4>1. s \in contended'
        BY <2>1, <3>3 DEF Touches
      <4>2. QED
        BY <3>1, <3>2, <3>3, <4>1 DEF CarriesAt, WritesAt
    <3>4. CASE proc[q].sid # s /\ proc[q].at # "idle"
      <4>1. proc[q].sid \in SessionIds \ {s}
        BY <1>1, <3>4 DEF ProcessAt
      <4>2. CarriesAt(q)'
        BY <1>1, <3>1, <4>1 DEF Touches, CarriesAt, HoldsPast
      <4>3. WritesAt(q)'
        BY <1>1, <2>1, <3>1, <4>1 DEF Touches, WritesAt
      <4>4. QED
        BY <3>2, <4>2, <4>3
    <3>5. CASE proc[q].at = "idle"
      BY <3>1, <3>2, <3>5 DEF CarriesAt, WritesAt
    <3>6. QED
      BY <3>3, <3>4, <3>5
  <2>2. QED
    BY <2>1
<1>6. QED
  BY <1>3, <1>4, <1>5 DEF StoredInv

(* A command that uses its session alone and is not writing finds what was *)
(* promised.                                                               *)
LEMMA AloneKept ==
    ASSUME StoredInv, NEW p \in Processes, proc[p].at \notin {"idle", "write"},
           proc[p].sid \notin contended
    PROVE  proc[p].sid \in SessionIds /\ Kept(proc[p].sid)
<1>1. /\ ProcessAt(p) /\ Alone /\ \A s \in SessionIds : KeptAt(s)
      /\ attached \subseteq {q \in Processes : proc[q].at = "write"}
  BY DEF StoredInv, CausalInv, ProcessesOK, Typed, FilesTyped, ProcessesTyped, HistoryTyped
<1>2. proc[p].sid \in SessionIds
  BY <1>1 DEF ProcessAt
<1>3. \A q \in attached : proc[q].sid # proc[p].sid
  BY <1>1, <1>2 DEF Alone
<1>4. QED
  BY <1>1, <1>2, <1>3 DEF KeptAt

(* A step of a command that leaves the files alone. *)
LEMMA QuietStep ==
    ASSUME StoredInv, CausalInv', NEW p \in Processes,
           UNCHANGED <<files, attached, promised, damaged, contended>>,
           \A q \in Processes \ {p} : proc'[q] = proc[q] /\ shell'[q] = shell[q],
           proc[p].at \notin {"idle", "write"}, proc'[p].at # "write",
           proc'[p].sid \in {proc[p].sid, None},
           CarriesAt(p)', SavesAt(p)'
    PROVE  StoredInv'
<1>1. /\ ProcessAt(p) /\ Alone /\ \A s \in SessionIds : KeptAt(s)
      /\ attached \subseteq {q \in Processes : proc[q].at = "write"}
  BY DEF StoredInv, CausalInv, ProcessesOK, Typed, FilesTyped, ProcessesTyped, HistoryTyped
<1>2. PICK s \in SessionIds : s = proc[p].sid
  BY <1>1 DEF ProcessAt
<1>3. Touches(p, s)
  BY <1>1, <1>2 DEF Touches, Alone
<1>4. KeptAt(s)'
  <2>1. KeptAt(s) /\ s \in SessionIds
    BY <1>1, <1>2
  <2>2. \A q \in attached : q \in attached' /\ proc'[q] = proc[q]
    BY <1>1
  <2>3. (s \notin contended' => Kept(s)' \/ \E q \in attached' : proc'[q].sid = s)
    BY <2>1, <2>2 DEF KeptAt, Kept, HoldsPast
  <2>4. QED
    BY <2>3 DEF KeptAt, Kept, HoldsPast
<1>5. WritesAt(p)'
  BY DEF WritesAt
<1>6. QED
  BY <1>2, <1>3, <1>4, <1>5, StoredStep

(* What every lemma below begins with. *)
LEMMA StoredFacts ==
    ASSUME StoredInv, NEW p \in Processes
    PROVE  /\ CausalInv /\ FilesTyped /\ ProcessesTyped /\ HistoryTyped
           /\ ProcessAt(p) /\ CarriesAt(p) /\ SavesAt(p) /\ WritesAt(p)
           /\ proc[p].lang \in Languages
BY TypeParts DEF StoredInv, CausalInv, ProcessesOK, ProcessesTyped, Process

(* A process may end in any stage but the second half of a write. *)
LEMMA ExitsStored ==
    ASSUME StoredInv, CausalInv', NEW p \in Processes, Exits(p), proc[p].at \notin {"idle", "write"},
           UNCHANGED <<files, attached, promised, damaged, contended>>
    PROVE  StoredInv'
<1>1. /\ \A q \in Processes \ {p} : proc'[q] = proc[q] /\ shell'[q] = shell[q]
      /\ proc'[p].at = "idle" /\ proc'[p].sid = None
  BY StoredFacts, ExitsFacts DEF ProcessesTyped
<1>2. CarriesAt(p)' /\ SavesAt(p)'
  BY <1>1 DEF CarriesAt, SavesAt
<1>3. QED
  BY <1>1, <1>2, QuietStep

LEMMA StartStored ==
    ASSUME StoredInv, CausalInv', NEW p \in Processes, Start(p)
    PROVE  StoredInv'
<1>1. PICK cmd \in Commands, s \in SessionIds, l \in Languages :
        /\ proc' = [proc EXCEPT ![p] =
                [Gone EXCEPT !.cmd = cmd, !.sid = s, !.lang = l,
                             !.at = CASE cmd = "destroy" -> "remove"
                                      [] cmd = "restore" -> "from"
                                      [] OTHER -> "look"]]
        /\ contended' = IF \E q \in Processes : proc[q].sid = s
                        THEN contended \cup {s} ELSE contended
  BY DEF Start
<1>2. /\ ProcessesTyped /\ ProcessAt(p) /\ proc[p].at = "idle"
      /\ UNCHANGED <<files, exported, shell, attached, runs, base, promised, damaged>>
  BY StoredFacts DEF Start
<1>3. /\ proc'[p].sid = s /\ proc'[p].at \in {"remove", "from", "look"}
      /\ \A q \in Processes \ {p} : proc'[q] = proc[q]
  BY <1>1, <1>2 DEF ProcessesTyped, Gone
<1>4. p \notin attached
  BY <1>2 DEF ProcessesTyped
<1>5. Touches(p, s)
  BY <1>1, <1>2, <1>3, <1>4 DEF Touches
<1>6. KeptAt(s)'
  <2>1. KeptAt(s)
    BY DEF StoredInv
  <2>2. \A q \in attached : q \in attached' /\ proc'[q] = proc[q]
    BY <1>2, <1>3, <1>4 DEF ProcessesTyped
  <2>3. s \in contended => s \in contended'
    BY <1>1
  <2>4. Kept(s) => Kept(s)'
    BY <1>2 DEF Kept, HoldsPast
  <2>5. QED
    BY <2>1, <2>2, <2>3, <2>4 DEF KeptAt
<1>7. CarriesAt(p)' /\ SavesAt(p)' /\ WritesAt(p)'
  BY <1>3 DEF CarriesAt, SavesAt, WritesAt
<1>8. QED
  BY <1>5, <1>6, <1>7, StoredStep

(* Where there is no file, nothing was promised. *)
LEMMA LookStored ==
    ASSUME StoredInv, CausalInv', NEW p \in Processes, Look(p)
    PROVE  StoredInv'
<1>1. /\ ProcessesTyped /\ ProcessAt(p) /\ proc[p].at = "look"
      /\ UNCHANGED <<files, exported, shell, attached, runs, promised, damaged, contended>>
  BY StoredFacts DEF Look, history
<1>2. proc[p].cmd \in CommandsAt("look") /\ proc[p].sid \in SessionIds
  BY <1>1 DEF ProcessAt
<1>3. PICK stage \in {"read", "exec", "prompt", "snapshot"} :
        /\ Goes(p, stage)
        /\ stage = "snapshot" => proc[p].cmd \notin {"run", "repl", "tools"}
        /\ stage # "read" => files[proc[p].sid] = None
  <2>1. CASE files[proc[p].sid] = None
    BY <1>2, <2>1, LoadedFacts DEF Look
  <2>2. CASE files[proc[p].sid] # None
    BY <2>2 DEF Look
  <2>3. QED
    BY <2>1, <2>2
<1>4. stage \in Stages
  BY <1>3 DEF Stages
<1>5. /\ \A q \in Processes \ {p} : proc'[q] = proc[q]
      /\ proc'[p].at = stage /\ proc'[p].cmd = proc[p].cmd /\ proc'[p].sid = proc[p].sid
  BY <1>1, <1>3, <1>4, GoesFacts DEF ProcessesTyped
<1>6. CarriesAt(p)'
  <2>1. CASE stage = "read"
    BY <1>5, <2>1 DEF CarriesAt
  <2>2. CASE stage # "read" /\ proc[p].sid \notin contended
    <3>1. Kept(proc[p].sid)
      BY <1>1, <2>2, AloneKept
    <3>2. None \notin Snapshot /\ None # Torn
      BY ValueAssumption
    <3>3. promised[proc[p].sid] = {}
      BY <1>3, <2>2, <3>1, <3>2 DEF Kept, HoldsPast
    <3>4. QED
      BY <1>1, <1>5, <3>3 DEF CarriesAt
  <2>3. CASE proc[p].sid \in contended
    BY <1>1, <1>5, <2>3 DEF CarriesAt
  <2>4. QED
    BY <2>1, <2>2, <2>3
<1>7. SavesAt(p)'
  BY <1>3, <1>5 DEF SavesAt
<1>8. QED
  BY <1>1, <1>3, <1>5, <1>6, <1>7, QuietStep

(* A file that can be read holds what was promised. *)
LEMMA ReadStored ==
    ASSUME StoredInv, CausalInv', NEW p \in Processes, Read(p)
    PROVE  StoredInv'
<1>1. /\ FilesTyped /\ ProcessesTyped /\ ProcessAt(p) /\ proc[p].at = "read"
      /\ UNCHANGED <<files, exported, attached, runs, promised, damaged, contended>>
  BY StoredFacts DEF Read, history
<1>2. CASE Exits(p)
  BY <1>1, <1>2, ExitsStored
<1>3. CASE /\ files[proc[p].sid] \in Snapshot
           /\ Restored(p, files[proc[p].sid])
           /\ Goes(p, Loaded(p))
  <2>1. proc[p].cmd \in CommandsAt("look") /\ proc[p].sid \in SessionIds
    BY <1>1 DEF ProcessAt, CommandsAt
  <2>2. /\ Loaded(p) \in {"exec", "prompt", "snapshot"} /\ Loaded(p) \in Stages
        /\ Loaded(p) = "snapshot" => proc[p].cmd \notin {"run", "repl", "tools"}
    BY <2>1, LoadedFacts DEF Stages
  <2>3. /\ \A q \in Processes \ {p} : proc'[q] = proc[q]
        /\ proc'[p].at = Loaded(p) /\ proc'[p].cmd = proc[p].cmd /\ proc'[p].sid = proc[p].sid
    BY <1>1, <1>3, <2>2, GoesFacts DEF ProcessesTyped
  <2> DEFINE snapshot == files[proc[p].sid]
  <2>4. snapshot.lang \in Languages /\ snapshot.past \in Past /\ snapshot.past # None
    BY <1>3, ValueAssumption DEF Snapshot
  <2>5. /\ \A q \in Processes \ {p} : shell'[q] = shell[q]
        /\ shell'[p][snapshot.lang] = snapshot.past
    BY <1>1, <1>3, <2>4 DEF Restored, ProcessesTyped
  <2>6. CarriesAt(p)'
    <3>1. CASE proc[p].sid \notin contended
      <4>1. Kept(proc[p].sid)
        BY <1>1, <3>1, AloneKept
      <4>2. Torn \notin Snapshot
        BY ValueAssumption
      <4>3. promised[proc[p].sid] = {} \/ HoldsPast(proc[p].sid)
        BY <1>3, <4>1, <4>2 DEF Kept
      <4>4. PICK s \in SessionIds : s = proc[p].sid /\ s = proc'[p].sid
        BY <2>1, <2>3
      <4>5. promised'[s] = promised[s] /\ files'[s] = snapshot
        BY <1>1, <4>4
      <4>6. shell'[p][files'[s].lang] = snapshot.past /\ snapshot.past # None
        BY <2>4, <2>5, <4>5
      <4>7. promised'[s] = {} \/ (files'[s] \in Snapshot /\ promised'[s] \subseteq files'[s].past)
        BY <1>3, <4>3, <4>4, <4>5 DEF HoldsPast
      <4>8. QED
        BY <4>4, <4>5, <4>6, <4>7 DEF CarriesAt, HoldsPast
    <3>2. CASE proc[p].sid \in contended
      BY <1>1, <2>3, <3>2 DEF CarriesAt
    <3>3. QED
      BY <3>1, <3>2
  <2>7. SavesAt(p)'
    BY <2>2, <2>3 DEF SavesAt
  <2>8. QED
    BY <1>1, <2>2, <2>3, <2>5, <2>6, <2>7, QuietStep
<1>4. QED
  BY <1>2, <1>3 DEF Read

LEMMA RestoreFromStored ==
    ASSUME StoredInv, CausalInv', NEW p \in Processes, RestoreFrom(p)
    PROVE  StoredInv'
<1>1. /\ FilesTyped /\ ProcessesTyped /\ ProcessAt(p) /\ proc[p].at = "from"
      /\ UNCHANGED <<files, exported, attached, runs, promised, damaged, contended>>
  BY StoredFacts DEF RestoreFrom, history
<1>2. CASE Exits(p)
  BY <1>1, <1>2, ExitsStored
<1>3. CASE \E snapshot \in exported : Restored(p, snapshot) /\ Goes(p, "snapshot")
  <2>1. PICK snapshot \in exported : Restored(p, snapshot) /\ Goes(p, "snapshot")
    BY <1>3
  <2>2. proc[p].cmd = "restore" /\ "snapshot" \in Stages
    BY <1>1 DEF ProcessAt, CommandsAt, Stages
  <2>3. /\ \A q \in Processes \ {p} : proc'[q] = proc[q]
        /\ proc'[p].at = "snapshot" /\ proc'[p].cmd = "restore" /\ proc'[p].sid = proc[p].sid
    BY <1>1, <2>1, <2>2, GoesFacts DEF ProcessesTyped
  <2>4. \A q \in Processes \ {p} : shell'[q] = shell[q]
    BY <1>1, <2>1 DEF Restored, ProcessesTyped
  <2>5. CarriesAt(p)' /\ SavesAt(p)'
    BY <2>3 DEF CarriesAt, SavesAt
  <2>6. QED
    BY <1>1, <2>3, <2>4, <2>5, QuietStep
<1>4. QED
  BY <1>2, <1>3 DEF RestoreFrom

(* A run adds to the globals it finds and takes nothing away. *)
LEMMA ExecuteStored ==
    ASSUME StoredInv, CausalInv', NEW p \in Processes, Execute(p)
    PROVE  StoredInv'
<1>1. /\ CausalInv /\ FilesTyped /\ ProcessesTyped /\ HistoryTyped
      /\ ProcessAt(p) /\ CarriesAt(p) /\ proc[p].lang \in Languages
  BY StoredFacts
<1>2. /\ proc[p].at \in {"exec", "prompt"}
      /\ UNCHANGED <<files, exported, attached, promised, damaged, contended>>
  BY DEF Execute
<1>3. proc[p].cmd \in {"run", "repl", "tools"} /\ proc[p].sid \in SessionIds
  BY <1>1, <1>2 DEF ProcessAt, CommandsAt
<1>4. ASSUME NEW stage \in {"prompt", "snapshot"},
             NEW past \in {Before(p), Before(p) \cup {runs}},
             proc'[p].at = stage, proc'[p].cmd = proc[p].cmd, proc'[p].sid = proc[p].sid,
             shell' = [shell EXCEPT ![p][proc[p].lang] = past]
      PROVE  CarriesAt(p)'
  <2>1. CASE proc[p].sid \notin contended
    <3>1. PICK s \in SessionIds : s = proc[p].sid /\ s = proc'[p].sid
      BY <1>3, <1>4
    <3>2. \/ promised[s] = {}
          \/ /\ files[s] \in Snapshot /\ promised[s] \subseteq files[s].past
             /\ shell[p][files[s].lang] # None
             /\ promised[s] \subseteq shell[p][files[s].lang]
      BY <1>1, <1>2, <1>3, <2>1, <3>1 DEF CarriesAt, HoldsPast
    <3>3. Before(p) \in Past /\ Before(p) \cup {runs} \in Past
      <4>1. Before(p) \in Pasts
        BY <1>1 DEF Before, CausalInv, ConsistentOK, ShellConsistent, Pasts
      <4>2. runs \in Nat /\ runs < MaxRuns /\ MaxRuns \in Nat
        BY <1>1, CliAssumption DEF HistoryTyped, Execute
      <4>3. 0..(runs - 1) \subseteq 0..(MaxRuns - 1) /\ runs \in 0..(MaxRuns - 1)
        BY <4>2
      <4>4. QED
        BY <4>1, <4>3 DEF Pasts, Past
    <3>4. past # None
      BY <1>4, <3>3, ValueAssumption
    <3>5. ASSUME NEW l \in Languages, shell[p][l] # None
          PROVE  shell'[p][l] # None /\ shell[p][l] \subseteq shell'[p][l]
      <4>1. shell'[p] = [shell[p] EXCEPT ![proc[p].lang] = past]
        BY <1>1, <1>4 DEF ProcessesTyped
      <4>2. shell[p] \in [Languages -> Past \cup {None}]
        BY <1>1 DEF ProcessesTyped
      <4>3. CASE l # proc[p].lang
        BY <3>5, <4>1, <4>2, <4>3
      <4>4. CASE l = proc[p].lang
        <5>1. shell'[p][l] = past /\ Before(p) = shell[p][l]
          BY <1>1, <3>5, <4>1, <4>2, <4>4 DEF Before
        <5>2. QED
          BY <1>4, <3>4, <5>1
      <4>5. QED
        BY <4>3, <4>4
    <3>6. \/ promised[s] = {}
          \/ /\ shell'[p][files[s].lang] # None
             /\ promised[s] \subseteq shell'[p][files[s].lang]
      BY <3>2, <3>5 DEF Snapshot
    <3>7. QED
      BY <1>2, <3>1, <3>2, <3>6 DEF CarriesAt, HoldsPast
  <2>2. CASE proc[p].sid \in contended
    BY <1>2, <1>4, <2>2 DEF CarriesAt
  <2>3. QED
    BY <2>1, <2>2
<1>5. CASE /\ proc[p].cmd \in {"run", "repl"}
           /\ shell' = [shell EXCEPT ![p][proc[p].lang] = Before(p) \cup {runs}]
           /\ proc' = [proc EXCEPT ![p].at = "snapshot", ![p].run = runs]
  <2>1. /\ \A q \in Processes \ {p} : proc'[q] = proc[q] /\ shell'[q] = shell[q]
        /\ proc'[p].at = "snapshot" /\ proc'[p].cmd = proc[p].cmd
        /\ proc'[p].sid = proc[p].sid /\ proc'[p].run = runs /\ proc'[p].lang = proc[p].lang
        /\ shell'[p][proc[p].lang] = Before(p) \cup {runs}
    BY <1>1, <1>5 DEF ProcessesTyped, Process
  <2>2. CarriesAt(p)'
    BY <1>4, <1>5, <2>1
  <2>3. Before(p) \cup {runs} # None
    <3>1. shell' \in [Processes -> [Languages -> Past \cup {None}]] /\ runs < MaxRuns
      BY DEF CausalInv, Typed, FilesTyped, ProcessesTyped, HistoryTyped, Execute
    <3>2. Before(p) \in Pasts /\ runs \in Nat /\ MaxRuns \in Nat
      BY <1>1, CliAssumption DEF Before, CausalInv, ConsistentOK, ShellConsistent, Pasts, HistoryTyped
    <3>3. 0..(runs - 1) \subseteq 0..(MaxRuns - 1) /\ runs \in 0..(MaxRuns - 1)
      BY <3>1, <3>2
    <3>4. QED
      BY <3>2, <3>3, ValueAssumption DEF Pasts, Past
  <2>4. SavesAt(p)'
    BY <2>1, <2>3 DEF SavesAt
  <2>5. QED
    BY <1>2, <2>1, <2>2, <2>4, QuietStep
<1>6. CASE /\ proc[p].cmd = "repl" /\ Goes(p, "prompt")
           /\ \E past \in {Before(p), Before(p) \cup {runs}} :
                shell' = [shell EXCEPT ![p][proc[p].lang] = past]
  <2>1. "prompt" \in Stages
    BY DEF Stages
  <2>2. /\ \A q \in Processes \ {p} : proc'[q] = proc[q]
        /\ proc'[p].at = "prompt" /\ proc'[p].cmd = proc[p].cmd /\ proc'[p].sid = proc[p].sid
    BY <1>1, <1>6, <2>1, GoesFacts DEF ProcessesTyped
  <2>3. \A q \in Processes \ {p} : shell'[q] = shell[q]
    BY <1>1, <1>6 DEF ProcessesTyped
  <2>4. CarriesAt(p)' /\ SavesAt(p)'
    BY <1>4, <1>6, <2>2 DEF SavesAt
  <2>5. QED
    BY <1>2, <2>2, <2>3, <2>4, QuietStep
<1>7. CASE Exits(p)
  BY <1>2, <1>7, ExitsStored
<1>8. QED
  BY <1>5, <1>6, <1>7 DEF Execute, Before

(* A command takes its snapshot of the session it ran. *)
LEMMA TakeSnapshotStored ==
    ASSUME StoredInv, CausalInv', NEW p \in Processes, TakeSnapshot(p)
    PROVE  StoredInv'
<1>1. /\ CausalInv /\ ProcessesTyped /\ ProcessAt(p) /\ CarriesAt(p) /\ SavesAt(p)
      /\ proc[p].at = "snapshot"
      /\ UNCHANGED <<files, attached, runs, base, promised, damaged, contended>>
  BY StoredFacts DEF TakeSnapshot, history
<1>2. CASE Exits(p)
  BY <1>1, <1>2, ExitsStored
<1>3. CASE ~Exits(p)
  <2>1. PICK l \in Sources(p) : \E lost \in Losses(p, l) :
             Take(p, [lang |-> l, past |-> shell[p][l], lost |-> lost])
    BY <1>3 DEF TakeSnapshot
  <2>2. PICK lost \in Losses(p, l) : Take(p, [lang |-> l, past |-> shell[p][l], lost |-> lost])
    BY <2>1
  <2>3. PICK snapshot \in Snapshot :
          /\ Take(p, snapshot) /\ snapshot.past = shell[p][l] /\ snapshot.lang = l
          /\ proc[p].cmd \in {"run", "repl"} => l = proc[p].lang
          /\ shell[p][l] # None
    BY <1>1, <2>2, SourcesFacts
  <2>4. proc' = [proc EXCEPT ![p].at = "open", ![p].bytes = snapshot] /\ UNCHANGED shell
    BY <1>3, <2>3 DEF Take
  <2>5. /\ \A q \in Processes \ {p} : proc'[q] = proc[q]
        /\ proc'[p].at = "open" /\ proc'[p].bytes = snapshot
        /\ proc'[p].cmd = proc[p].cmd /\ proc'[p].sid = proc[p].sid
        /\ proc'[p].lang = proc[p].lang /\ proc'[p].run = proc[p].run
    BY <1>1, <2>4, KeepFacts DEF ProcessesTyped
  <2>6. CarriesAt(p)'
    <3>1. PICK s : s = proc[p].sid /\ s = proc'[p].sid
      BY <2>5
    <3>2. /\ proc'[p].at = "open" /\ proc'[p].cmd = proc[p].cmd
          /\ shell' = shell /\ files' = files /\ promised' = promised /\ contended' = contended
      BY <1>1, <2>4, <2>5
    <3>3. QED
      BY <1>1, <3>1, <3>2 DEF CarriesAt, HoldsPast
  <2>7. SavesAt(p)'
    BY <1>1, <2>3, <2>4, <2>5 DEF SavesAt
  <2>8. QED
    BY <1>1, <2>4, <2>5, <2>6, <2>7, QuietStep
<1>4. QED
  BY <1>2, <1>3

(* What a command is about to put into the file holds what was promised,   *)
(* or the file's session is one of the other language.                     *)
LEMMA OpenFileStored ==
    ASSUME StoredInv, CausalInv', NEW p \in Processes, OpenFile(p)
    PROVE  StoredInv'
<1>1. /\ FilesTyped /\ ProcessesTyped /\ HistoryTyped
      /\ ProcessAt(p) /\ CarriesAt(p) /\ SavesAt(p)
      /\ proc[p].at = "open" /\ UNCHANGED <<exported, runs, base, promised, damaged>>
  BY StoredFacts DEF OpenFile
<1>2. CASE Exits(p) /\ UNCHANGED <<files, attached, contended>>
  BY <1>1, <1>2, ExitsStored
<1>3. CASE /\ files' = [files EXCEPT ![proc[p].sid] = Torn]
           /\ attached' = attached \cup {p}
           /\ contended' = IF Replaces(p) THEN contended \cup {proc[p].sid} ELSE contended
           /\ Goes(p, "write") /\ UNCHANGED <<shell, missing>>
  <2>1. PICK s \in SessionIds : s = proc[p].sid
    BY <1>1 DEF ProcessAt
  <2>2. "write" \in Stages
    BY DEF Stages
  <2>3. /\ \A q \in Processes \ {p} : proc'[q] = proc[q]
        /\ proc'[p].at = "write" /\ proc'[p].bytes = proc[p].bytes
        /\ proc'[p].cmd = proc[p].cmd /\ proc'[p].sid = s
        /\ proc'[p].lang = proc[p].lang /\ proc'[p].run = proc[p].run
    BY <1>1, <1>3, <2>1, <2>2, GoesFacts DEF ProcessesTyped
  <2>4. p \notin attached
    BY <1>1 DEF ProcessesTyped
  <2>5. Touches(p, s)
    <3>1. \A q \in Processes \ {p} : proc[q].sid = s => s \in contended
      BY <2>1 DEF StoredInv, Alone
    <3>2. \A t \in SessionIds \ {s} : files'[t] = files[t] /\ (t \in contended' <=> t \in contended)
      BY <1>1, <1>3, <2>1 DEF FilesTyped
    <3>3. QED
      BY <1>1, <1>3, <2>3, <2>4, <3>1, <3>2 DEF Touches
  <2>6. KeptAt(s)'
    BY <1>3, <2>3 DEF KeptAt
  <2>7. CarriesAt(p)' /\ SavesAt(p)'
    BY <1>1, <1>3, <2>3 DEF CarriesAt, SavesAt
  <2>8. WritesAt(p)'
    <3>1. p \in attached' /\ files'[s] = Torn
      BY <1>1, <1>3, <2>1 DEF FilesTyped
    <3>2. ASSUME s \notin contended', proc[p].cmd # "restore"
          PROVE  promised[s] \subseteq proc[p].bytes.past
      <4>1. s \notin contended /\ ~Replaces(p)
        BY <1>3, <2>1, <3>2
      <4>2. proc[p].cmd \in {"run", "repl"}
        BY <1>1, <3>2 DEF ProcessAt, CommandsAt
      <4>3. \/ promised[s] = {}
            \/ files[s] \in Snapshot /\ promised[s] \subseteq shell[p][files[s].lang]
        BY <1>1, <2>1, <4>1, <4>2 DEF CarriesAt, HoldsPast
      <4>4. proc[p].bytes.past = shell[p][proc[p].bytes.lang]
        BY <1>1, <4>2 DEF SavesAt
      <4>5. files[s] \in Snapshot => files[s].lang = proc[p].bytes.lang
        BY <2>1, <3>2, <4>1 DEF Replaces
      <4>6. QED
        BY <4>3, <4>4, <4>5
    <3>3. QED
      BY <1>1, <2>3, <3>1, <3>2 DEF WritesAt
  <2>9. QED
    BY <2>5, <2>6, <2>7, <2>8, StoredStep
<1>4. QED
  BY <1>2, <1>3 DEF OpenFile

(* The write ends, and what it has put into the file is promised. *)
LEMMA WriteFileStored ==
    ASSUME StoredInv, CausalInv', NEW p \in Processes, WriteFile(p)
    PROVE  StoredInv'
<1>1. /\ FilesTyped /\ ProcessesTyped /\ HistoryTyped
      /\ ProcessAt(p) /\ SavesAt(p) /\ WritesAt(p)
      /\ proc[p].at = "write" /\ UNCHANGED <<exported, runs, base, contended>>
  BY StoredFacts DEF WriteFile
<1>2. PICK s \in SessionIds : s = proc[p].sid
  BY <1>1 DEF ProcessAt
<1>3. /\ files' = IF p \in attached THEN [files EXCEPT ![s] = proc[p].bytes] ELSE files
      /\ promised' = [promised EXCEPT ![s] =
            IF proc[p].cmd = "restore" THEN proc[p].bytes.past ELSE @ \cup {proc[p].run}]
      /\ damaged' = IF p \in attached THEN damaged \ {s} ELSE damaged
      /\ attached' = attached \ {p}
  BY <1>2 DEF WriteFile
<1>4. proc[p].bytes \in Snapshot /\ proc[p].cmd \in {"run", "repl", "restore"}
  BY <1>1 DEF ProcessAt, CommandsAt
<1>5. s \notin contended =>
        /\ files'[s] = proc[p].bytes
        /\ promised'[s] \subseteq proc[p].bytes.past
  <2> SUFFICES ASSUME s \notin contended
               PROVE  files'[s] = proc[p].bytes /\ promised'[s] \subseteq proc[p].bytes.past
    OBVIOUS
  <2>1. p \in attached /\ (proc[p].cmd # "restore" => promised[s] \subseteq proc[p].bytes.past)
    BY <1>1, <1>2 DEF WritesAt
  <2>2. proc[p].cmd # "restore" => proc[p].run \in proc[p].bytes.past
    BY <1>1, <1>4 DEF SavesAt
  <2>3. files'[s] = proc[p].bytes
    BY <1>1, <1>3, <2>1 DEF FilesTyped
  <2>4. promised'[s] =
          IF proc[p].cmd = "restore" THEN proc[p].bytes.past ELSE promised[s] \cup {proc[p].run}
    BY <1>1, <1>3 DEF HistoryTyped
  <2>5. QED
    BY <2>1, <2>2, <2>3, <2>4
<1>6. KeptAt(s)'
  BY <1>1, <1>4, <1>5 DEF KeptAt, Kept, HoldsPast
<1>7. ASSUME \A q \in Processes \ {p} : proc'[q] = proc[q] /\ shell'[q] = shell[q],
             proc'[p].sid \in {s, None}
      PROVE  Touches(p, s)
  <2>1. \A q \in Processes \ {p} : proc[q].sid = s => s \in contended
    BY <1>2 DEF StoredInv, Alone
  <2>2. \A t \in SessionIds \ {s} : files'[t] = files[t] /\ promised'[t] = promised[t]
    BY <1>1, <1>3 DEF FilesTyped, HistoryTyped
  <2>3. QED
    BY <1>1, <1>2, <1>3, <1>7, <2>1, <2>2 DEF Touches
<1>8. CASE proc[p].cmd = "repl" /\ Goes(p, "prompt") /\ UNCHANGED <<shell, missing>>
  <2>1. "prompt" \in Stages
    BY DEF Stages
  <2>2. /\ \A q \in Processes \ {p} : proc'[q] = proc[q]
        /\ proc'[p].at = "prompt" /\ proc'[p].cmd = "repl" /\ proc'[p].sid = s
    BY <1>1, <1>2, <1>8, <2>1, GoesFacts DEF ProcessesTyped
  <2>3. shell'[p][proc[p].bytes.lang] # None /\ shell'[p][proc[p].bytes.lang] = proc[p].bytes.past
    BY <1>1, <1>8 DEF SavesAt
  <2>4. CarriesAt(p)'
    BY <1>1, <1>4, <1>5, <2>2, <2>3 DEF CarriesAt, HoldsPast
  <2>5. SavesAt(p)' /\ WritesAt(p)'
    BY <2>2 DEF SavesAt, WritesAt
  <2>6. Touches(p, s)
    BY <1>7, <1>8, <2>2
  <2>7. QED
    BY <1>6, <2>4, <2>5, <2>6, StoredStep
<1>9. CASE Exits(p)
  <2>1. /\ \A q \in Processes \ {p} : proc'[q] = proc[q] /\ shell'[q] = shell[q]
        /\ proc'[p].at = "idle" /\ proc'[p].sid = None
    BY <1>1, <1>9, ExitsFacts DEF ProcessesTyped
  <2>2. CarriesAt(p)' /\ SavesAt(p)' /\ WritesAt(p)'
    BY <2>1 DEF CarriesAt, SavesAt, WritesAt
  <2>3. QED
    BY <1>6, <1>7, <2>1, <2>2, StoredStep
<1>10. QED
  BY <1>8, <1>9 DEF WriteFile

(* A process that dies between the halves of a write leaves a torn file. *)
LEMMA DiesStored ==
    ASSUME StoredInv, CausalInv', NEW p \in Processes, Dies(p)
    PROVE  StoredInv'
<1>1. /\ FilesTyped /\ ProcessesTyped /\ HistoryTyped /\ ProcessAt(p) /\ WritesAt(p)
      /\ Exits(p) /\ proc[p].at # "idle" /\ attached' = attached \ {p}
      /\ UNCHANGED <<exported, runs, base, promised, contended>>
  BY StoredFacts DEF Dies
<1>2. PICK s \in SessionIds : s = proc[p].sid
  BY <1>1 DEF ProcessAt
<1>3. /\ files' = files \/ files' = [files EXCEPT ![s] = Torn]
      /\ p \notin attached => files' = files
      /\ damaged' = IF p \in attached THEN damaged \cup {s} ELSE damaged
  BY <1>2 DEF Dies
<1>4. /\ \A q \in Processes \ {p} : proc'[q] = proc[q] /\ shell'[q] = shell[q]
      /\ proc'[p].at = "idle" /\ proc'[p].sid = None
  BY <1>1, ExitsFacts DEF ProcessesTyped
<1>5. Touches(p, s)
  <2>1. \A q \in Processes \ {p} : proc[q].sid = s => s \in contended
    BY <1>2 DEF StoredInv, Alone
  <2>2. \A t \in SessionIds \ {s} : files'[t] = files[t]
    BY <1>1, <1>3 DEF FilesTyped
  <2>3. QED
    BY <1>1, <1>2, <1>3, <1>4, <2>1, <2>2 DEF Touches
<1>6. KeptAt(s)'
  <2>1. CASE s \in contended
    BY <1>1, <2>1 DEF KeptAt
  <2>2. CASE s \notin contended /\ proc[p].at = "write"
    <3>1. p \in attached /\ files[s] = Torn
      BY <1>1, <1>2, <2>2 DEF WritesAt
    <3>2. files'[s] = Torn /\ s \in damaged'
      BY <1>1, <1>3, <3>1 DEF FilesTyped
    <3>3. QED
      BY <3>2 DEF KeptAt, Kept
  <2>3. CASE s \notin contended /\ proc[p].at # "write"
    <3>1. Kept(s)
      BY <1>1, <1>2, <2>3, AloneKept
    <3>2. files' = files /\ promised' = promised /\ damaged' = damaged
      BY <1>1, <1>3, <2>3 DEF ProcessesTyped
    <3>3. QED
      BY <3>1, <3>2 DEF KeptAt, Kept, HoldsPast
  <2>4. QED
    BY <2>1, <2>2, <2>3
<1>7. CarriesAt(p)' /\ SavesAt(p)' /\ WritesAt(p)'
  BY <1>4 DEF CarriesAt, SavesAt, WritesAt
<1>8. QED
  BY <1>5, <1>6, <1>7, StoredStep

(* A session that is destroyed has no promises; if nobody else uses it, it *)
(* starts afresh.                                                          *)
LEMMA DestroyStored ==
    ASSUME StoredInv, CausalInv', NEW p \in Processes, Destroy(p)
    PROVE  StoredInv'
<1>1. /\ FilesTyped /\ ProcessesTyped /\ HistoryTyped /\ ProcessAt(p)
      /\ Exits(p) /\ proc[p].at = "remove"
  BY StoredFacts DEF Destroy
<1>2. PICK s \in SessionIds : s = proc[p].sid
  BY <1>1 DEF ProcessAt
<1>3. /\ files' = [files EXCEPT ![s] = None]
      /\ attached' = {q \in attached : proc[q].sid # s}
      /\ promised' = [promised EXCEPT ![s] = {}]
      /\ damaged' = damaged \ {s}
      /\ contended' = IF \E q \in Processes \ {p} : proc[q].sid = s
                      THEN contended ELSE contended \ {s}
  BY <1>2 DEF Destroy
<1>4. /\ \A q \in Processes \ {p} : proc'[q] = proc[q] /\ shell'[q] = shell[q]
      /\ proc'[p].at = "idle" /\ proc'[p].sid = None
  BY <1>1, ExitsFacts DEF ProcessesTyped
<1>5. Touches(p, s)
  <2>1. \A q \in Processes \ {p} : proc[q].sid = s => s \in contended
    BY <1>2 DEF StoredInv, Alone
  <2>2. \A t \in SessionIds \ {s} : files'[t] = files[t] /\ promised'[t] = promised[t]
    BY <1>1, <1>3 DEF FilesTyped, HistoryTyped
  <2>3. QED
    BY <1>2, <1>3, <1>4, <2>1, <2>2 DEF Touches
<1>6. KeptAt(s)'
  <2>1. promised'[s] = {}
    BY <1>1, <1>3 DEF HistoryTyped
  <2>2. QED
    BY <2>1 DEF KeptAt, Kept
<1>7. CarriesAt(p)' /\ SavesAt(p)' /\ WritesAt(p)'
  BY <1>4 DEF CarriesAt, SavesAt, WritesAt
<1>8. QED
  BY <1>5, <1>6, <1>7, StoredStep

(* Every initial state satisfies the invariant. *)
LEMMA InitStored == Init => StoredInv
<1> SUFFICES ASSUME Init PROVE StoredInv
  OBVIOUS
<1>1. CausalInv
  BY InitCausal
<1>2. Alone
  BY ValueAssumption DEF Init, Alone, Gone
<1>3. \A s \in SessionIds : KeptAt(s)
  BY DEF Init, KeptAt, Kept
<1>4. \A p \in Processes : CarriesAt(p) /\ SavesAt(p) /\ WritesAt(p)
  BY DEF Init, Gone, CarriesAt, SavesAt, WritesAt
<1>5. QED
  BY <1>1, <1>2, <1>3, <1>4 DEF StoredInv

(* Every step keeps the invariant. *)
LEMMA StepStored ==
    ASSUME StoredInv, [Next]_vars
    PROVE  StoredInv'
<1>1. CausalInv'
  BY StepCausal DEF StoredInv
<1>2. CASE UNCHANGED vars
  BY <1>1, <1>2 DEF vars, StoredInv, Alone, KeptAt, Kept, HoldsPast, CarriesAt, SavesAt, WritesAt
<1>3. ASSUME NEW p \in Processes, Step(p) PROVE StoredInv'
  <2>1. ASSUME Quit(p) PROVE StoredInv'
    BY <1>1, <2>1, ExitsStored DEF Quit, history
  <2>2. QED
    BY <1>1, <1>3, <2>1, StartStored, LookStored, ReadStored, RestoreFromStored, ExecuteStored,
       TakeSnapshotStored, OpenFileStored, WriteFileStored, DiesStored, DestroyStored DEF Step
<1>4. QED
  BY <1>2, <1>3 DEF Next

LEMMA StoredInvariant == Spec => []StoredInv
<1>1. Init => StoredInv
  BY InitStored
<1>2. StoredInv /\ [Next]_vars => StoredInv'
  BY StepStored
<1>3. QED
  BY <1>1, <1>2, PTL DEF Spec

(* A session that one command at a time has used, in one language, holds   *)
(* every run whose save was complete, or its file is the torn rest of a    *)
(* write that was not (save_session, load_session_if_exists, fs::write).   *)
THEOREM RunsStoredHolds == Spec => []RunsStored
<1>1. StoredInv /\ LossesInv => RunsStored
  <2> SUFFICES ASSUME StoredInv, LossesInv,
                      NEW s \in SessionIds \ contended, AtRest(s), promised[s] # {}
               PROVE  Holds(s) \/ (s \in damaged /\ files[s] = Torn)
    BY DEF RunsStored
  <2>1. KeptAt(s) /\ \A p \in attached : proc[p].sid # s
    BY DEF StoredInv, CausalInv, Typed, ProcessesTyped, AtRest
  <2>2. HoldsPast(s) => Holds(s)
    BY DEF HoldsPast, Holds, LossesInv, FilesFair, Fair
  <2>3. QED
    BY <2>1, <2>2 DEF KeptAt, Kept
<1>2. QED
  BY <1>1, StoredInvariant, LossesInvariant, PTL

================================================================================
