---------------------------- MODULE MCAgentGraph ----------------------------
(* Instances of AgentGraph for TLC. *)
EXTENDS AgentGraph, BuiltinHooks

-----------------------------------------------------------------------------
(* Any extension: hooks that may answer anything at the points where the   *)
(* graph acts on the answer, one tool of each kind.                        *)

AnyTools == {"safe", "denied", "absent", "off"}

AnyHookActions ==
  [p \in HookPoint |->
     IF p \in {"before_request", "before_skill"}
     THEN {"CONTINUE", "RETRY", "BLOCK"}
     ELSE {"CONTINUE", "BLOCK"}]

AnyBeforeTool ==
  [t \in AnyTools |-> {"CONTINUE", "RETRY", "BLOCK", "APPROVAL_REQUIRED"}]

AnyPermission ==
  [t \in AnyTools |-> CASE t = "denied" -> "DENY"
                        [] t = "absent" -> "unregistered"
                        [] OTHER -> "ALWAYS_ALLOW"]

-----------------------------------------------------------------------------
(* The application as main.py wires it, with any skill on top: the hooks   *)
(* of BuiltinHooks, the tools of tools/loader.py and one unknown tool.     *)

BuiltinHookActions ==
  [p \in HookPoint |->
     CASE p = "before_request" -> BuiltinBeforeRequest
       [] p = "after_response" -> BuiltinAfterResponse
       [] OTHER -> {"CONTINUE"}]

BuiltinPermission ==
  [t \in BuiltinTools |->
     CASE t = "python_executor" -> "REQUIRE_APPROVAL"
       [] t = "file_reader" -> "REQUIRE_CONFIRM"
       [] t = "web_search" -> "ALWAYS_ALLOW"
       [] OTHER -> "unregistered"]
=============================================================================
