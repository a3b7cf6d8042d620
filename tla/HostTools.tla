------------------------------- MODULE HostTools -------------------------------
(***************************************************************************)
(* What a host sets up and what its sessions get: the registry of          *)
(* ToolRegistry, and the file tools of VirtualFiles wherever the registry  *)
(* has the library's own.  A tool of the host is a black box.  A tool that *)
(* answers with an error is the last thing its run does: ErrorCodes says   *)
(* how that run ends.                                                      *)
(***************************************************************************)
EXTENDS ToolRegistry, VirtualFiles, ErrorCodes

CONSTANT HostCodes  \* the codes the host's tools answer with when they fail

(* FileMount's constructors normalize the path of every mount. *)
ASSUME MountsAssumption ==
    \A table \in MountTables :
        /\ table \in Seq([root : Seq(STRING), host : Seq(STRING), writable : BOOLEAN])
        /\ \A i \in DOMAIN table : NormalizeVirtualRoot(table[i].root) = table[i].root

vars == <<registryVars, fileVars>>

TypeOK ==
    /\ RegistryTypeOK
    /\ \A file \in dirs : \A n \in 1..Len(file) : SubSeq(file, 1, n) \in dirs
    /\ \A file \in DOMAIN files : file \notin dirs /\ Front(file) \in dirs
    /\ \A c \in Callers : op[c].at \in {"idle", "resolved", "opened", "reading", "answered", "ended"}
    /\ made \in 0..MaxCalls
    /\ last = NoWrite \/ last.file \in DOMAIN files

Init == RegistryInit /\ FilesInit

--------------------------------------------------------------------------------
(* A call that touches no file is answered at once. *)
CallPureTool(c, n, tag, value) ==
    /\ op[c].at = "idle" /\ made < MaxCalls
    /\ made' = made + 1
    /\ op' = [op EXCEPT ![c] = [at |-> "answered", tool |-> n, path |-> <<>>,
                                tag |-> tag, value |-> value]]
    /\ UNCHANGED <<dirs, files, last>>

(* What a session calls is looked up in the registry. *)
CallUnknown(c, n) == ToolNamed(n) = None /\ CallPureTool(c, n, "UNKNOWN_TOOL", Nothing)

CallHostTool(c, n) ==
    /\ ToolNamed(n) \notin {None, Builtin}
    /\ \E tag \in HostCodes \cup {"ok"} : CallPureTool(c, n, tag, [made_by |-> ToolNamed(n)])

(* A built-in tool that needs a string is called without one, or           *)
(* write_text without a text: first_string_arg, and write_text itself.     *)
BadArguments(c, n) ==
    /\ n \in FileTools \cup HttpTools \cup {"describe_tool"} /\ ToolNamed(n) = Builtin
    /\ CallPureTool(c, n, "TYPE_ERROR", Nothing)

CallBuiltinFileTool(c, n) ==
    n \in FileTools /\ ToolNamed(n) = Builtin /\ CallFileTool(c, n, mounts)

(* ensure_url_allowed; there is no transport. *)
Fetch(c, n) ==
    /\ n \in HttpTools /\ ToolNamed(n) = Builtin
    /\ \E host \in HttpHosts :
         CallPureTool(c, n, IF host \in allowed THEN "TOOL_ERROR" ELSE "PERMISSION_DENIED", Nothing)

(* list_tools and current_policy answer with what they have captured,      *)
(* describe_tool with one entry of it.                                     *)
Discover(c, n) ==
    /\ n \in DiscoveryTools /\ ToolNamed(n) = Builtin
    /\ IF n = "describe_tool"
       THEN \E name \in Names :
              LET found == Reported(reports[n], name)
              IN CallPureTool(c, n, IF found = None THEN "UNKNOWN_TOOL" ELSE "ok",
                              [name |-> name, maker |-> found])
       ELSE CallPureTool(c, n, "ok", reports[n])

Call(c) ==
    /\ phase = "built"
    /\ \E n \in Names :
         \/ CallUnknown(c, n)
         \/ CallHostTool(c, n)
         \/ BadArguments(c, n)
         \/ CallBuiltinFileTool(c, n)
         \/ Fetch(c, n)
         \/ Discover(c, n)

(* The code of the run catches the error or not; what the error's text says *)
(* matters only where it is thrown.                                        *)
EndRun(c) ==
    /\ op[c].at = "answered" /\ op[c].tag # "ok"
    /\ \E lang \in {"python", "typescript"}, caught \in BOOLEAN :
       \E thrown \in IF lang = "typescript" /\ ~caught THEN Thrown ELSE {"something else"} :
         op' = [op EXCEPT ![c] =
            [at |-> "ended", lang |-> lang, tag |-> op[c].tag, caught |-> caught, thrown |-> thrown,
             registered |-> ToolNamed(op[c].tool) # None,
             result |-> RunEnds(lang, op[c].tag, ToolNamed(op[c].tool) # None, caught, thrown)]]
    /\ UNCHANGED <<dirs, files, made, last>>

Continue(c) ==
    \/ EndRun(c) \/ Done(c)
    \/ OpenToRead(c) \/ ReadOn(c) \/ ListDir(c) \/ OpenToWrite(c) \/ Write(c)

Next ==
    \/ (RegisterHostTool \/ BuildTools) /\ UNCHANGED fileVars
    \/ \E c \in Callers : (Call(c) \/ Continue(c)) /\ UNCHANGED registryVars

Spec == Init /\ [][Next]_vars

--------------------------------------------------------------------------------
Answered(c, tool, tag) == op[c].at = "answered" /\ op[c].tool = tool /\ op[c].tag = tag

(* A name whose discovery tool the host had registered, and build replaced. *)
Overridden == DOMAIN hosted \cap DiscoveryTools

(* What the discovery tools tell a session is what it gets when it calls:  *)
(* a tool is listed and described by the one who made it, each once, and   *)
(* what is not listed is not there; whatever the host has registered, in   *)
(* whichever order, and whichever built-in tools it has asked for.         *)
DiscoveryFaithful ==
    \A c \in Callers, n \in Names \ Overridden :
        /\ \A tool \in {"list_tools", "current_policy"} :
             Answered(c, tool, "ok") =>
                /\ Reported(op[c].value, n) = ToolNamed(n)
                /\ n \notin Twice(op[c].value)
        /\ Answered(c, "describe_tool", "ok") \/ Answered(c, "describe_tool", "UNKNOWN_TOOL") =>
             op[c].value.name # n \/ op[c].value.maker = ToolNamed(n)

(* A host's files change only below the directories it has mounted for     *)
(* writing, and no directory ever appears: write_text asks for the parent  *)
(* before it would make one.                                               *)
Confined ==
    [][/\ \A file \in DOMAIN files \cup DOMAIN files' :
            \/ file \in DOMAIN files \cap DOMAIN files' /\ files'[file] = files[file]
            \/ \E i \in DOMAIN mounts : mounts[i].writable /\ IsPrefix(mounts[i].host, file)
       /\ dirs' = dirs]_vars

(* What write_text has stored is what read_text gives, in every session,   *)
(* by the path that was written to and by each other path of the file,     *)
(* whatever mounts lie inside one another, until the file is written to    *)
(* again; two writes at once may leave any mixture, and a read that meets  *)
(* a write may give any of it.                                             *)
ReadsLast ==
    [][\A c \in Callers :
         /\ op[c].at \in {"resolved", "reading"} /\ op[c].tool = "read_text"
         /\ op'[c].at = "answered"
         /\ op[c].alone /\ NamesFile(op[c].path)
         /\ last # NoWrite /\ (op[c].path = last.path \/ op[c].file = last.file)
         => op'[c].tag = "ok" /\ op'[c].value.text = last.text]_vars

(* What list_dir lists in a directory is what the other tools find there:  *)
(* each name in it, appended to the path, leads to an entry of the host's   *)
(* directory, unless that path is a mount of its own.  A mount at "/" is    *)
(* left out: it covers "/" and paths that begin with "//", and no other.   *)
(* (The type invariant goes with it.)                                      *)
ListedReachable ==
    TypeOK /\ \A c \in Callers : Answered(c, "list_dir", "ok") /\ ToolNamed("list_dir") = Builtin =>
        LET dir == op[c].path
            path(name) == (IF Last(dir) = NoName THEN Front(dir) ELSE dir) \o <<name>>
        IN \A name \in op[c].value.names :
             \/ \E i \in DOMAIN mounts : mounts[i].root \in {<<NoName, NoName>>, path(name)}
             \/ /\ Resolve(mounts, path(name), FALSE).ok
                /\ Exists(Resolve(mounts, path(name), FALSE).file)

(* No run in which a tool fails and the code does not catch the error ends *)
(* well, and in TypeScript no other either.  A Python run that ends so is  *)
(* told denied or without the tool when the tool said so, and timed out    *)
(* when it named one of the two timeouts that Python has an exception for; *)
(* of any other code it may be told no more than that it failed.  And no   *)
(* run is told of a cause that the tool did not name, whatever codes host  *)
(* tools answer with, but for a TypeScript run that an error's text ends   *)
(* which reads like a syntax error or a termination.                       *)
ErrorsTold ==
    \A c \in Callers : op[c].at = "ended" =>
        LET run == op[c]
            kept == {"PERMISSION_DENIED", "UNKNOWN_TOOL", "TIMEOUT_TOOL", "TIMEOUT_WALL"}
        IN /\ run.result.status = "ok" => run.caught /\ run.lang = "python"
           /\ run.lang = "python" /\ ~run.caught /\ run.tag \in kept =>
                run.result.status = CodeToStatus(run.tag)
           /\ run.result.status \notin {"ok", "runtime_error"} =>
                \/ run.result.status = CodeToStatus(run.tag)
                \/ run.lang = "typescript" /\ ~run.caught /\ run.thrown # "something else"

(* skill.md:150 has PERMISSION_DENIED as the error.code of a path or tool   *)
(* that is not authorized, whichever the language: a denied call that the  *)
(* code does not catch ends its run with it.                               *)
DenialsTold ==
    \A c \in Callers :
        op[c].at = "ended" /\ op[c].tag = "PERMISSION_DENIED" /\ ~op[c].caught =>
            op[c].result.code = "PERMISSION_DENIED"

================================================================================
