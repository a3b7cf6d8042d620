------------------------------ MODULE ToolRegistry ------------------------------
(***************************************************************************)
(* The tools a host gives its sessions: the registry it fills through the  *)
(* builder, and what build adds to it -- the file tools if there are       *)
(* mounts, the HTTP tools if there are allowed hosts, and the three tools  *)
(* that report which tools there are.  Each report is fixed when its tool  *)
(* is registered; the runtimes get a copy of the registry afterwards.      *)
(*                                                                         *)
(* A tool is its name and who made it; its schemas and its description go  *)
(* with it.                                                                *)
(***************************************************************************)
EXTENDS Integers, Sequences, FiniteSets

CONSTANTS
    HostNames,     \* names a host may register
    BadNames,      \* names among them that are no identifiers
    MaxRegistered, \* bound of the model: how many tools a host registers
    MountTables,   \* the sequences of mounts a host may ask for
    HttpHosts,     \* names of HTTP hosts
    None           \* no value

FileTools == {"read_text", "write_text", "list_dir"}
HttpTools == {"fetch_text", "fetch_json"}
DiscoveryTools == {"list_tools", "describe_tool", "current_policy"}
Names == (HostNames \ BadNames) \cup FileTools \cup HttpTools \cup DiscoveryTools

(* Who made a tool: the library, or the host by its n-th registration.     *)
Builtin == 0
Makers == Builtin..MaxRegistered

ASSUME RegistryAssumption ==
    /\ BadNames \subseteq HostNames
    /\ BadNames \cap (FileTools \cup HttpTools \cup DiscoveryTools) = {}
    /\ MaxRegistered \in Nat
    /\ None \notin Makers

VARIABLES
    phase,     \* "building", "built", or "refused" when the builder gave an error
    tools,     \* the registry: who made the tool of each name
    reports,   \* what each discovery tool has captured
    mounts,    \* the mounts of the file tools
    allowed,   \* the hosts the HTTP tools let through
    hosted     \* history: what the host registered last under each name

registryVars == <<phase, tools, reports, mounts, allowed, hosted>>

Registry == UNION {[names -> Makers] : names \in SUBSET Names}

(* The tools held when the report was made, and those of discovery that    *)
(* are appended because they are about to be registered.                   *)
Report == [held : Registry, appended : SUBSET DiscoveryTools]

Empty == [n \in {} |-> Builtin]
NoReport == [held |-> Empty, appended |-> {}]

RegistryTypeOK ==
    /\ phase \in {"building", "built", "refused"}
    /\ tools \in Registry
    /\ reports \in [DiscoveryTools -> Report]
    /\ mounts \in MountTables \cup {<<>>}
    /\ allowed \subseteq HttpHosts
    /\ hosted \in Registry

RegistryInit ==
    /\ phase = "building"
    /\ tools = Empty
    /\ reports = [n \in DiscoveryTools |-> NoReport]
    /\ mounts = <<>>
    /\ allowed = {}
    /\ hosted = Empty

--------------------------------------------------------------------------------
(* ToolRegistry::register: a tool of the same name is replaced. *)
Registered(registry, names, maker) ==
    [n \in DOMAIN registry \cup names |-> IF n \in names THEN maker ELSE registry[n]]

(* register_sync, register_async, register_tool.  An error takes the       *)
(* builder with it.                                                        *)
RegisterHostTool ==
    /\ phase = "building"
    /\ Cardinality(DOMAIN hosted) < MaxRegistered
    /\ \E n \in HostNames :
         IF n \in BadNames
         THEN phase' = "refused" /\ UNCHANGED <<tools, hosted>>
         ELSE LET maker == Cardinality(DOMAIN hosted) + 1 IN
              /\ tools' = Registered(tools, {n}, maker)
              /\ hosted' = Registered(hosted, {n}, maker)
              /\ UNCHANGED phase
    /\ UNCHANGED <<reports, mounts, allowed>>

(* register_discovery_tools: list_tools is told of all three, describe_tool *)
(* finds list_tools in the registry, current_policy finds both others.      *)
WithDiscovery(registry) ==
    LET listing == [held |-> registry, appended |-> DiscoveryTools]
        withList == Registered(registry, {"list_tools"}, Builtin)
        describing == [held |-> withList, appended |-> {"describe_tool", "current_policy"}]
        withDescribe == Registered(withList, {"describe_tool"}, Builtin)
        policy == [held |-> withDescribe, appended |-> {"current_policy"}]
    IN [tools |-> Registered(withDescribe, {"current_policy"}, Builtin),
        reports |-> [n \in DiscoveryTools |->
            CASE n = "list_tools" -> listing
              [] n = "describe_tool" -> describing
              [] n = "current_policy" -> policy]]

WithFileTools(registry, table) ==
    IF table = <<>> THEN registry ELSE Registered(registry, FileTools, Builtin)

WithHttpTools(registry, hosts) ==
    IF hosts = {} THEN registry ELSE Registered(registry, HttpTools, Builtin)

(* Mutant: the discovery tools are registered before the HTTP tools. *)
WithBuiltinsDiscoveryEarly(registry, table, hosts) ==
    LET discovery == WithDiscovery(WithFileTools(registry, table))
    IN [discovery EXCEPT !.tools = WithHttpTools(@, hosts)]

(* register_builtin_tools *)
WithBuiltins(registry, table, hosts) ==
    WithDiscovery(WithHttpTools(WithFileTools(registry, table), hosts))

(* LangShellBuilder::build, as far as tools go. *)
BuildTools ==
    /\ phase = "building"
    /\ \E table \in MountTables \cup {<<>>}, hosts \in SUBSET HttpHosts :
         LET built == WithBuiltins(tools, table, hosts) IN
         /\ tools' = built.tools
         /\ reports' = built.reports
         /\ mounts' = table
         /\ allowed' = hosts
    /\ phase' = "built"
    /\ UNCHANGED hosted

--------------------------------------------------------------------------------
(* ToolRegistry::get *)
ToolNamed(n) == IF n \in DOMAIN tools THEN tools[n] ELSE None

(* What a report says of a name: the first entry is the one held. *)
Reported(report, n) ==
    CASE n \in DOMAIN report.held -> report.held[n]
      [] n \notin DOMAIN report.held /\ n \in report.appended -> Builtin
      [] OTHER -> None

Twice(report) == DOMAIN report.held \cap report.appended

================================================================================
