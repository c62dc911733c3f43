---------------------------- MODULE BuiltinHooks ----------------------------
(***************************************************************************)
(* The conditions of the hooks in hooks/hooks, each as the action the hook *)
(* returns for what it reads of its context. A payload is the set of the   *)
(* pattern groups that match it, an output its size and whether one of the *)
(* sensitive patterns of the context occurs in it.                         *)
(***************************************************************************)

Pattern == {"sql", "xss", "path_traversal", "prompt_injection"}
ContentType == {"", "application/json", "other"}
OutputKind == {"not a string", "fits", "sensitive", "oversized"}

request_validation(payload, content_type) ==
  IF "sql" \in payload \/ content_type = "other" THEN "BLOCK" ELSE "CONTINUE"

(* Patterns of the payload, and XSS in a query parameter. *)
security(payload, query) ==
  IF payload \cap {"xss", "path_traversal", "prompt_injection"} # {}
     \/ "xss" \in query
  THEN "BLOCK" ELSE "CONTINUE"

DENIED_TOOLS == {"shell_execution", "network_scan"}
ALLOWED_TOOLS == {"web_search", "python_executor", "file_reader"}
APPROVAL_REQUIRED_TOOLS == {"python_executor"}

(* "" is a missing name. *)
tool_permission(tool) ==
  IF tool \in ALLOWED_TOOLS \ DENIED_TOOLS THEN "CONTINUE" ELSE "BLOCK"

human_approval(tool) ==
  IF tool \in APPROVAL_REQUIRED_TOOLS THEN "APPROVAL_REQUIRED" ELSE "CONTINUE"

output_validation(output) ==
  CASE output = "oversized" -> "MODIFY"
    [] output = "sensitive" -> "BLOCK"
    [] OTHER -> "CONTINUE"

-----------------------------------------------------------------------------
(* What the pipelines of the built-in hooks come to *)

BuiltinTools == {"python_executor", "web_search", "file_reader", "unknown"}

(* before_request_hooks hands over the task and neither headers nor query. *)
BuiltinBeforeRequest ==
  {request_validation(p, "") : p \in SUBSET Pattern}
    \cup {security(p, {}) : p \in SUBSET Pattern}

(* validate_result hands over no sensitive patterns. *)
BuiltinAfterResponse ==
  {output_validation(o) : o \in OutputKind \ {"sensitive"}}

(* tool_permission at priority -50, then human_approval at -10. *)
BuiltinBeforeTool ==
  [t \in BuiltinTools |->
     IF tool_permission(t) = "BLOCK" THEN {"BLOCK"} ELSE {human_approval(t)}]
=============================================================================
