------------------------------ MODULE VirtualFiles ------------------------------
(***************************************************************************)
(* The file tools: virtual paths, the mounts they go through, and the      *)
(* files of the host.  Sessions run on several threads and their calls     *)
(* overlap; write_text truncates the file before it fills it, and          *)
(* read_text opens the file and then reads on until its end.               *)
(*                                                                         *)
(* A virtual path is its string split at each "/", so that "/data/f" is    *)
(* <<"", "data", "f">> and "/" is <<"", "">>; a host path is the sequence  *)
(* of its names.  Links on the host are left out, and so are files that    *)
(* others on the host remove or rename.                                    *)
(***************************************************************************)
EXTENDS Integers, Sequences, FiniteSets, SequencesExt

CONSTANTS
    Callers,    \* the sessions that call tools
    Paths,      \* the virtual paths they use
    Texts,      \* the texts they write, each a sequence of pieces
    HostDirs,   \* the directories of the host
    HostFiles,  \* [host path -> text], the files of the host at the start
    MaxCalls    \* bound of the model: how many calls are made

(* What is left of a "/" that begins a path, right of one that ends it, and *)
(* between two.                                                            *)
NoName == ""

(* The host's directories and files are a tree, and none has a name that   *)
(* the operating system reserves.                                          *)
ASSUME FilesAssumption ==
    /\ Paths \subseteq Seq(STRING) \ {<<>>}
    /\ Texts \subseteq Seq(STRING)
    /\ MaxCalls \in Nat
    /\ HostDirs \subseteq Seq(STRING)
    /\ \A dir \in HostDirs : \A n \in 1..Len(dir) : SubSeq(dir, 1, n) \in HostDirs
    /\ \A file \in DOMAIN HostFiles :
         /\ file \in Seq(STRING) \ {<<>>} /\ file \notin HostDirs
         /\ HostFiles[file] \in Seq(STRING)
         /\ Front(file) \in HostDirs
    /\ \A entry \in HostDirs \cup DOMAIN HostFiles : ToSet(entry) \cap {NoName, ".", ".."} = {}

VARIABLES
    dirs,   \* the directories there are
    files,  \* [host path -> text], the files there are
    op,     \* [Callers -> Op], the file tool each session is in
    made,   \* how many calls have been made
    last    \* history: a write no other has touched, neither while it ran nor since

fileVars == <<dirs, files, op, made, last>>

Idle == [at |-> "idle"]
Nothing == [nothing |-> TRUE]
NoWrite == [path |-> <<>>, file |-> <<>>, text |-> <<>>]

--------------------------------------------------------------------------------
(* normalize_virtual_root: what FileMount keeps of the path it is given. *)
NormalizeVirtualRoot(path) ==
    LET named == {i \in DOMAIN path : path[i] # NoName}
        trimmed == IF named = {} THEN <<>>
                   ELSE SubSeq(path, 1, CHOOSE i \in named : \A j \in named : j <= i)
    IN CASE trimmed = <<>> -> <<NoName, NoName>>
         [] trimmed # <<>> /\ path[1] = NoName -> trimmed
         [] OTHER -> <<NoName>> \o trimmed

Mount(path, host, writable) ==
    [root |-> NormalizeVirtualRoot(path), host |-> host, writable |-> writable]

IsAbsolute(path) == Len(path) > 1 /\ path[1] = NoName

(* Mutant: the path of the mount itself is not below the mount. *)
BelowOnly(mount, path) == IsStrictPrefix(mount.root, path)

Covers(mount, path) == IsPrefix(mount.root, path)

(* Mutant: the nearest mount that may be written to is looked for. *)
NearestWritable(table, path, write) ==
    LET covering == {i \in DOMAIN table :
                        Covers(table[i], path) /\ (write => table[i].writable)}
    IN IF covering = {} THEN 0
       ELSE CHOOSE i \in covering : \A j \in covering :
              \/ Len(table[j].root) < Len(table[i].root)
              \/ Len(table[j].root) = Len(table[i].root) /\ j <= i

(* The longest of the mounts that cover the path, the last of equals. *)
Nearest(table, path, write) ==
    LET covering == {i \in DOMAIN table : Covers(table[i], path)}
    IN IF covering = {} THEN 0
       ELSE CHOOSE i \in covering : \A j \in covering :
              \/ Len(table[j].root) < Len(table[i].root)
              \/ Len(table[j].root) = Len(table[i].root) /\ j <= i

Exists(file) == file \in dirs \cup DOMAIN files

Denied == [ok |-> FALSE, file |-> <<>>]

(* The names in a path: Path::components skips what is empty, and ".". *)
Named(path) ==
    LET kept == {i \in DOMAIN path : path[i] \notin {NoName, "."}}
        before(i) == Cardinality({j \in kept : j < i})
    IN [n \in 1..Cardinality(kept) |-> path[CHOOSE i \in kept : before(i) = n - 1]]

(* A mount may be of a file.  Its own path is then the file's with a "/"   *)
(* at the end, which is not there, and whose parent is outside the mount.  *)
RootExists(host, names) == host \in dirs \/ (host \in DOMAIN files /\ names # <<>>)

(* Mutant: it does not matter what a mount may be used for. *)
ResolveAny(table, path, write) ==
    LET i == Nearest(table, path, write)
        names == Named(SubSeq(path, Len(table[i].root) + 1, Len(path)))
        candidate == table[i].host \o names
    IN IF /\ IsAbsolute(path) /\ i # 0
          /\ ".." \notin ToSet(names)
          /\ RootExists(table[i].host, names)
          /\ Exists(candidate) \/ Exists(Front(candidate))
       THEN [ok |-> TRUE, file |-> candidate]
       ELSE Denied

(* resolve_virtual_path: the host path, if the nearest mount allows it.    *)
(* What does not exist must have a parent that does.  Without ".." and     *)
(* without links nothing leaves the mount.                                 *)
Resolve(table, path, write) ==
    LET i == Nearest(table, path, write)
        names == Named(SubSeq(path, Len(table[i].root) + 1, Len(path)))
        candidate == table[i].host \o names
    IN IF /\ IsAbsolute(path) /\ i # 0
          /\ write => table[i].writable
          /\ ".." \notin ToSet(names)
          /\ RootExists(table[i].host, names)
          /\ Exists(candidate) \/ Exists(Front(candidate))
       THEN [ok |-> TRUE, file |-> candidate]
       ELSE Denied

(* A path that ends in "/" or "/." can only be a directory's. *)
NamesFile(path) == Last(path) \notin {NoName, "."}

--------------------------------------------------------------------------------
FilesInit ==
    /\ dirs = HostDirs
    /\ files = HostFiles
    /\ op = [c \in Callers |-> Idle]
    /\ made = 0
    /\ last = NoWrite

Answer(c, tag, value) ==
    op' = [op EXCEPT ![c] = [at |-> "answered", tool |-> op[c].tool, path |-> op[c].path,
                             tag |-> tag, value |-> value]]

(* A tool is called with a path, and write_text with a text as well; what  *)
(* is called with anything else is answered in BadArguments.               *)
CallFileTool(c, tool, table) ==
    /\ op[c].at = "idle" /\ made < MaxCalls
    /\ made' = made + 1
    /\ \E path \in Paths, text \in IF tool = "write_text" THEN Texts ELSE {<<>>} :
         LET resolved == Resolve(table, path, tool = "write_text") IN
         op' = [op EXCEPT ![c] =
            IF resolved.ok
            THEN [at |-> "resolved", tool |-> tool, path |-> path, text |-> text,
                  file |-> resolved.file, alone |-> TRUE]
            ELSE [at |-> "answered", tool |-> tool, path |-> path,
                  tag |-> "PERMISSION_DENIED", value |-> Nothing]]
    /\ UNCHANGED <<dirs, files, last>>

Writers(file) == {c \in Callers : op[c].at = "opened" /\ op[c].file = file}

(* The calls that have a file open. *)
Users(file) == {c \in Callers : op[c].at \in {"opened", "reading"} /\ op[c].file = file}

Resolved(c, tool) == op[c].at = "resolved" /\ op[c].tool = tool

Children(dir) ==
    {Last(file) : file \in {f \in dirs \cup DOMAIN files : f # <<>> /\ Front(f) = dir}}

(* read_text opens the file ...  Whether a read has it without a writer is *)
(* remembered.                                                             *)
OpenToRead(c) ==
    /\ Resolved(c, "read_text")
    /\ IF op[c].file \in DOMAIN files /\ NamesFile(op[c].path)
       THEN op' = [op EXCEPT ![c] = [op[c] EXCEPT !.at = "reading", !.text = <<>>,
                                                  !.alone = Writers(op[c].file) = {}]]
       ELSE Answer(c, "TOOL_ERROR", Nothing)
    /\ UNCHANGED <<dirs, files, made, last>>

(* ... and reads on until there is no more of it. *)
ReadOn(c) ==
    /\ op[c].at = "reading"
    /\ LET text == files[op[c].file] IN
       IF Len(op[c].text) < Len(text)
       THEN op' = [op EXCEPT ![c] = [op[c] EXCEPT !.text = Append(@, text[Len(@) + 1])]]
       ELSE Answer(c, "ok", [text |-> op[c].text])
    /\ UNCHANGED <<dirs, files, made, last>>

ListDir(c) ==
    /\ Resolved(c, "list_dir")
    /\ IF op[c].file \in dirs
       THEN Answer(c, "ok", [names |-> Children(op[c].file)])
       ELSE Answer(c, "TOOL_ERROR", Nothing)
    /\ UNCHANGED <<dirs, files, made, last>>

(* write_text makes the directories above the file (create_dir_all) and    *)
(* opens it, which empties it.  Whether a write has the file for itself is  *)
(* remembered, and that those who have it open have a writer now.          *)
OpenToWrite(c) ==
    /\ Resolved(c, "write_text")
    /\ LET file == op[c].file
           above == {SubSeq(file, 1, n) : n \in 1..(Len(file) - 1)}
       IN IF file \in dirs \/ ~NamesFile(op[c].path) \/ above \cap DOMAIN files # {}
          THEN /\ Answer(c, "TOOL_ERROR", Nothing)
               /\ UNCHANGED <<dirs, files, last>>
          ELSE /\ dirs' = dirs \cup above
               /\ files' = [f \in DOMAIN files \cup {file} |-> IF f = file THEN <<>> ELSE files[f]]
               /\ op' = [d \in Callers |->
                     CASE d = c -> [op[c] EXCEPT !.at = "opened", !.alone = Writers(file) = {}]
                       [] d # c /\ d \in Users(file) -> [op[d] EXCEPT !.alone = FALSE]
                       [] OTHER -> op[d]]
               /\ last' = IF last.file = file THEN NoWrite ELSE last
    /\ UNCHANGED made

(* A write starts at the beginning of the file: what another caller has    *)
(* written further on stays.                                               *)
Overwritten(old, text) == text \o SubSeq(old, Len(text) + 1, Len(old))

(* The disk may be full. *)
Write(c) ==
    /\ op[c].at = "opened"
    /\ \/ /\ files' = [files EXCEPT ![op[c].file] = Overwritten(@, op[c].text)]
          /\ Answer(c, "ok", Nothing)
          /\ last' = IF op[c].alone
                     THEN [path |-> op[c].path, file |-> op[c].file, text |-> op[c].text]
                     ELSE last
       \/ Answer(c, "TOOL_ERROR", Nothing) /\ UNCHANGED <<files, last>>
    /\ UNCHANGED <<dirs, made>>

Done(c) ==
    /\ (op[c].at = "answered" /\ op[c].tag = "ok") \/ op[c].at = "ended"
    /\ op' = [op EXCEPT ![c] = Idle]
    /\ UNCHANGED <<dirs, files, made, last>>

================================================================================
