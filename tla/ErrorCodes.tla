------------------------------- MODULE ErrorCodes -------------------------------
(***************************************************************************)
(* What becomes of the error a tool answers with.  In Python it is raised  *)
(* as an exception and, if the code does not catch it, turned into an      *)
(* error again; in TypeScript it is thrown as a text, and kept in the op   *)
(* state.  Of a text only what error_from_js looks for is kept, and errors *)
(* that no tool is the cause of are left out.                              *)
(***************************************************************************)

(* error_object_to_exception *)
ErrorObjectToException(code) ==
    CASE code = "PERMISSION_DENIED" -> "PermissionError"
      [] code = "TYPE_ERROR" -> "TypeError"
      [] code = "UNKNOWN_TOOL" -> "NameError"
      [] code \in {"TIMEOUT_TOOL", "TIMEOUT_WALL"} -> "TimeoutError"
      [] OTHER -> "RuntimeError"

(* Mutant: nobody has thought of timeouts. *)
ErrorFromExceptionUntimed(exception) ==
    CASE exception = "NameError" -> "UNKNOWN_TOOL"
      [] exception = "PermissionError" -> "PERMISSION_DENIED"
      [] OTHER -> "RUNTIME_ERROR"

(* error_from_exception, after validation *)
ErrorFromException(exception) ==
    CASE exception = "NameError" -> "UNKNOWN_TOOL"
      [] exception = "PermissionError" -> "PERMISSION_DENIED"
      [] exception = "TimeoutError" -> "TIMEOUT_WALL"
      [] OTHER -> "RUNTIME_ERROR"

(* code_to_status, after validation; the same for both languages *)
CodeToStatus(code) ==
    CASE code = "PERMISSION_DENIED" -> "permission_denied"
      [] code = "WAITING_FOR_APPROVAL" -> "waiting_for_approval"
      [] code \in {"TIMEOUT_WALL", "TIMEOUT_CPU", "TIMEOUT_TOOL"} -> "timeout"
      [] code = "CANCELLED" -> "cancelled"
      [] code \in {"MEMORY_EXCEEDED", "STDOUT_EXCEEDED", "EXTERNAL_CALLS_EXCEEDED",
                   "STACK_OVERFLOW"} -> "resource_exhausted"
      [] code \in {"SYNTAX_ERROR", "TYPE_ERROR", "UNKNOWN_TOOL", "UNSUPPORTED_FEATURE",
                   "RESULT_NOT_SERIALIZABLE", "SNAPSHOT_VERSION_MISMATCH",
                   "SNAPSHOT_CAPABILITY_MISMATCH", "SNAPSHOT_CORRUPT"} -> "validation_error"
      [] OTHER -> "runtime_error"

Failed(code, record) == [code |-> code, status |-> CodeToStatus(code), record |-> record]

(* How a run ends in which a tool has answered with this code and nothing  *)
(* else goes wrong.  An unregistered name ends a Python run at once.       *)
PythonEnds(code, registered, caught) ==
    LET record == IF code = "PERMISSION_DENIED" THEN "denied" ELSE "error"
    IN CASE ~registered -> Failed("UNKNOWN_TOOL", "none")
         [] registered /\ caught -> [code |-> "none", status |-> "ok", record |-> record]
         [] OTHER -> Failed(ErrorFromException(ErrorObjectToException(code)), record)

(* What a thrown text says: the tool's message is part of it. *)
Thrown == {"something else", "SyntaxError", "execution terminated"}

(* error_from_js, after validation *)
ErrorFromJs(thrown) ==
    CASE thrown = "SyntaxError" -> "SYNTAX_ERROR"
      [] thrown = "execution terminated" -> "TIMEOUT_WALL"
      [] OTHER -> "RUNTIME_ERROR"

(* What the code has thrown comes first, without its code; what it has     *)
(* caught the op state still has.                                          *)
TypeScriptEnds(code, registered, caught, thrown) ==
    Failed(IF caught THEN code ELSE ErrorFromJs(thrown), IF registered THEN "error" ELSE "none")

RunEnds(lang, code, registered, caught, thrown) ==
    IF lang = "python" THEN PythonEnds(code, registered, caught)
    ELSE TypeScriptEnds(code, registered, caught, thrown)

================================================================================
