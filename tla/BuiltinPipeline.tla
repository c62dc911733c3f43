-------------------------- MODULE BuiltinPipeline ---------------------------
(***************************************************************************)
(* HookPipeline as main.py wires it: the five hooks of hooks/hooks that    *)
(* may do more than log, and the calls the nodes of the graph make. The    *)
(* hooks of LoggingHook, one for each event, are hooks that always         *)
(* continue.                                                               *)
(***************************************************************************)
EXTENDS HookPipeline, BuiltinHooks

(* The metadata of the hooks. *)
HookTable ==
  [validation |-> [name |-> "request_validation",
                   event |-> "before_request", priority |-> -100],
   security   |-> [name |-> "security",
                   event |-> "before_request", priority |-> -90],
   permission |-> [name |-> "tool_permission",
                   event |-> "before_tool", priority |-> -50],
   approval   |-> [name |-> "human_approval",
                   event |-> "before_tool", priority |-> -10],
   output     |-> [name |-> "output_validation",
                   event |-> "after_response", priority |-> -30]]

Deciders == DOMAIN HookTable

-----------------------------------------------------------------------------
(* What the hooks answer to a context *)

Plain(a) == [action |-> a, mods |-> NoMods]

(* The modifications come with CONTINUE, so the pipeline passes over them. *)
PermissionAnswer(tool) ==
  IF tool_permission(tool) = "BLOCK" THEN Plain("BLOCK")
  ELSE [action |-> "CONTINUE",
        mods |-> [tool_allowed |-> Leaf("true"), tool_name |-> Leaf(tool)]]

(* The modifications of a request for approval are dropped in any case. *)
ApprovalAnswer(tool) == Plain(human_approval(tool))

OutputAnswer(output) ==
  IF output_validation(output) = "MODIFY"
  THEN [action |-> "MODIFY",
        mods |-> [output |-> Leaf("fits"), truncated |-> Leaf("true")]]
  ELSE Plain(output_validation(output))

BuiltinAnswer(h, c) ==
  CASE h = "validation" -> Plain(request_validation(c.payload[2], ""))
    [] h = "security" -> Plain(security(c.payload[2], {}))
    [] h = "permission" -> PermissionAnswer(c.tool_name[2])
    [] h = "approval" -> ApprovalAnswer(c.tool_name[2])
    [] h = "output" -> OutputAnswer(c.output[2])

-----------------------------------------------------------------------------
(* The calls of the graph: before_request_hooks hands over the task,       *)
(* before_tool_hooks the tool and its inputs, validate_result the output.  *)
GraphCall(c) ==
  /\ c.event = "before_request" =>
       /\ "payload" \in DOMAIN c.context
       /\ \E p \in SUBSET Pattern : c.context.payload = Leaf(p)
  /\ c.event = "before_tool" =>
       /\ "tool_name" \in DOMAIN c.context
       /\ \E t \in BuiltinTools : c.context.tool_name = Leaf(t)
  /\ c.event = "after_response" =>
       /\ "output" \in DOMAIN c.context
       /\ \E o \in OutputKind \ {"sensitive"} : c.context.output = Leaf(o)

(* The application as it is started: the five hooks are registered, and    *)
(* whatever is registered besides only looks on.                           *)
AsInMain ==
  /\ Deciders \subseteq Range(InitialHooks)
  /\ \A h \in Deciders :
       /\ GroupOf[h] = HookTable[h].event
       /\ Priority[h] = HookTable[h].priority
       /\ \A c : Answer(h, c) = {BuiltinAnswer(h, c)}
  /\ \A h \in Range(InitialHooks) \ Deciders :
       \A c : Answer(h, c) = {Plain("CONTINUE")}
  /\ \A c \in Calls : GraphCall(c)

-----------------------------------------------------------------------------
(* Properties *)

Installed(event) == {h \in Range(InitialHooks) : GroupOf[h] = event}

(* The hooks a call asks are those of start-up, which is so at least if    *)
(* nobody changed the registry.                                            *)
AsksInstalled == changes = 0 \/ Range(hooks) = Installed(call.event)

(* With the hooks of main.py alone, a pipeline returns what the builtin    *)
(* instance of AgentGraph takes for its input: no tool outside the allow   *)
(* list gets as far as the approval, no other event asks for one.          *)
GraphInputsAreReal ==
  pc = "returned" /\ AsksInstalled =>
    CASE call.event = "before_tool" ->
           action \in BuiltinBeforeTool[call.context.tool_name[2]]
      [] call.event = "before_request" -> action \in BuiltinBeforeRequest
      [] call.event = "after_response" -> action \in BuiltinAfterResponse
      [] OTHER -> action = "CONTINUE"
=============================================================================
