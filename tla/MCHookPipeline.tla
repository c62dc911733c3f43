--------------------------- MODULE MCHookPipeline ---------------------------
(* The hooks of main.py's _register_all_hooks at three events, and two     *)
(* hooks of an extension that share a name.                                *)
EXTENDS BuiltinPipeline

OtherHooks ==
  [log_tool |-> [name |-> "logging_before_tool",
                 event |-> "before_tool", priority |-> 100],
   first    |-> [name |-> "extension",
                 event |-> "before_tool", priority |-> -60],
   second   |-> [name |-> "extension",
                 event |-> "before_tool", priority |-> -10]]

MCHooks == HookTable @@ OtherHooks
MCObjects == DOMAIN MCHooks
MCNameOf == [h \in MCObjects |-> MCHooks[h].name]
MCGroupOf == [h \in MCObjects |-> MCHooks[h].event]
MCPriority == [h \in MCObjects |-> MCHooks[h].priority]

MCInitialHooks ==
  <<"validation", "security", "permission", "approval", "output", "log_tool">>

Inputs(x) == Dict([code |-> x])

MCCalls ==
  {[event |-> "before_tool",
    context |-> [tool_name |-> Leaf(t), tool_inputs |-> Inputs("c")]] :
      t \in {"python_executor", "web_search", "unknown"}}
  \cup
  {[event |-> "before_request", context |-> [payload |-> Leaf(p)]] :
      p \in SUBSET Pattern}
  \cup
  {[event |-> "after_response", context |-> [output |-> Leaf(o)]] :
      o \in OutputKind \ {"sensitive"}}
  \cup
  {[event |-> "before_llm", context |-> NoMods]}

(* The modifications of the extension: the tool, the inputs, or both. *)
ExtensionMods ==
  {[tool_name |-> Leaf("web_search")],
   [tool_inputs |-> Dict([timeout |-> "5"])],
   [tool_inputs |-> Inputs("d"), tool_name |-> Leaf("unknown")],
   [tool_inputs |-> Leaf("none")]}

MCAnswer(h, c) ==
  CASE h \in Deciders -> {BuiltinAnswer(h, c)}
    [] h = "log_tool" -> {Plain("CONTINUE")}
    [] OTHER ->
         {Plain(a) : a \in AnswerAction}
           \cup {[action |-> "MODIFY", mods |-> m] : m \in ExtensionMods}
=============================================================================
