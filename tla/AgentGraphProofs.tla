-------------------------- MODULE AgentGraphProofs --------------------------
(* What holds of AgentGraph for any hooks, skills, tools and number of     *)
(* registered tools, proved with TLAPS.                                    *)
EXTENDS AgentGraph, BuiltinHooks, TLAPS

-----------------------------------------------------------------------------
(* The parts of a state *)

LEMMA FreshStateType == FreshState \in AgentState
  BY DEF FreshState, AgentState, SkillOutput

LEMMA RestoredStateType ==
  ASSUME NEW s \in Snapshot
  PROVE  RestoredState(s) \in AgentState
  BY DEF Snapshot, RestoredState, FreshState, AgentState, SkillOutput

LEMMA BlockType ==
  ASSUME NEW s \in AgentState, NEW text \in {"empty", "text"}
  PROVE  Block(s, text) \in AgentState
  BY DEF Block, AgentState

LEMMA CountRetryType ==
  ASSUME NEW s \in AgentState
  PROVE  CountRetry(s) \in AgentState
  BY DEF CountRetry, AgentState

LEMMA HeardType ==
  ASSUME st \in AgentState, NEW a \in Action
  PROVE  Heard(a) \in AgentState
  BY DEF Heard, AgentState
EventRecord == [type : EventType, status : EventStatus]

LEMMA EventIsRecord ==
  ASSUME NEW type \in EventType, NEW stat \in EventStatus
  PROVE  Event(type, stat) \in EventRecord
  BY DEF Event, EventRecord

LEMMA HookEventsType ==
  ASSUME NEW a \in Action
  PROVE  HookEvents(a) \in Seq(EventRecord)
<1>1. Event("hook_started", "running") \in EventRecord
  BY DEF Event, EventRecord, EventType, EventStatus
<1>2. Event("hook_completed", IF a = "BLOCK" THEN "blocked" ELSE "completed")
        \in EventRecord
  BY DEF Event, EventRecord, EventType, EventStatus
<1>. QED  BY <1>1, <1>2 DEF HookEvents

(* Whatever a node emits, the log stays a sequence of events. *)
LEMMA EmitType ==
  ASSUME log \in Seq(EventRecord),
         NEW events \in Seq(EventRecord), Emit(events)
  PROVE  log' \in Seq(EventRecord)
  BY DEF Emit

(* An edge leads to a node. *)
LEMMA EdgeType ==
  ASSUME NEW n \in DOMAIN Edge
  PROVE  Edge[n] \in Node
  BY DEF Edge, Node

LEMMA StatusType ==
  ASSUME NEW s \in AgentState
  PROVE  invoke_status(s) \in {"completed", "failed", "waiting_approval"}
  BY DEF invoke_status
(* A node that follows its only edge leaves row, snap and status alone. *)
LEMMA AtType ==
  ASSUME TypeOK, NEW n \in DOMAIN Edge, At(n),
         st' \in AgentState, log' \in Seq(EventRecord), toolRuns' \in Nat
  PROVE  TypeOK'
  BY EdgeType DEF TypeOK, At, EventRecord

(* Shorthand of the next lemmas: the events a node emits, by name. *)
LEMMA EventsType ==
  /\ <<>> \in Seq(EventRecord)
  /\ \A type \in EventType, stat \in EventStatus :
       <<Event(type, stat)>> \in Seq(EventRecord)
  /\ \A s, t \in Seq(EventRecord) : s \o t \in Seq(EventRecord)
  /\ \A t1, t2 \in EventType, s1, s2 \in EventStatus :
       <<Event(t1, s1), Event(t2, s2)>> \in Seq(EventRecord)
  BY EventIsRecord

-----------------------------------------------------------------------------
(* Every node, every invocation and every decision keeps the types *)

LEMMA RequestHooksType ==
  ASSUME TypeOK, before_request_hooks
  PROVE  TypeOK'
<1> USE DEF TypeOK
<1>1. log \in Seq(EventRecord)  BY DEF EventRecord
<1>2. HookActions["before_request"] \subseteq Action
  BY GraphAssumption DEF GraphAssumption, HookPoint
<1>3. "before_request_hooks" \in DOMAIN Edge  BY DEF Edge
<1>4. st' \in AgentState /\ log' \in Seq(EventRecord)
  <2>1. CASE skips_skill(st) /\ Skip
    BY <2>1, <1>1 DEF Skip
  <2>2. CASE ~ (skips_skill(st) /\ Skip)
    <3>1. PICK a \in HookActions["before_request"] :
            \/ /\ st' = Block(Heard(a), "text")
               /\ Emit(HookEvents(a) \o <<Event("error", "blocked")>>)
            \/ /\ st' = CountRetry(Heard(a))
               /\ Emit(HookEvents(a) \o <<Event("retry_started", "running")>>)
            \/ /\ st' = Heard(a)
               /\ Emit(HookEvents(a))
      BY <2>2 DEF before_request_hooks
    <3>2. a \in Action  BY <1>2
    <3>3. st' \in AgentState
      BY <3>1, <3>2, HeardType, BlockType, CountRetryType
    <3>4. /\ <<Event("error", "blocked")>> \in Seq(EventRecord)
          /\ <<Event("retry_started", "running")>> \in Seq(EventRecord)
      BY EventsType DEF EventType, EventStatus
    <3>5. log' \in Seq(EventRecord)
      BY <1>1, <3>1, <3>2, <3>4, HookEventsType, EventsType, EmitType
    <3>. QED  BY <3>3, <3>5
  <2>. QED  BY <2>1, <2>2
<1>. QED  BY <1>3, <1>4, AtType DEF before_request_hooks
LEMMA InitializeType ==
  ASSUME TypeOK, initialize_run
  PROVE  TypeOK'
<1>1. "initialize_run" \in DOMAIN Edge  BY DEF Edge
<1>2. log \in Seq(EventRecord)  BY DEF TypeOK, EventRecord
<1>3. <<Event("request_received", "running")>> \in Seq(EventRecord)
  BY EventsType DEF EventType, EventStatus
<1>4. log' \in Seq(EventRecord)
  BY <1>2, <1>3, EventsType, EmitType DEF initialize_run
<1>. QED  BY <1>1, <1>4, AtType DEF initialize_run, TypeOK

LEMMA ClassifyType ==
  ASSUME TypeOK, classify_request
  PROVE  TypeOK'
<1>1. "classify_request" \in DOMAIN Edge  BY DEF Edge
<1>2. log \in Seq(EventRecord) /\ st \in AgentState
  BY DEF TypeOK, EventRecord
<1>3. /\ <<Event("skill_selected", "completed")>> \in Seq(EventRecord)
      /\ <<Event("skill_selected", "completed"), Event("error", "failed")>>
            \in Seq(EventRecord)
  BY EventsType DEF EventType, EventStatus
<1>4. log' \in Seq(EventRecord)
  BY <1>2, <1>3, EmitType DEF classify_request, Skip
<1>5. \A o \in SelectOutcomes : [st EXCEPT !.skill = o] \in AgentState
  BY <1>2, GraphAssumption DEF GraphAssumption, AgentState
<1>6. st' \in AgentState
  BY <1>2, <1>5, BlockType DEF classify_request, Skip
<1>. QED  BY <1>1, <1>4, <1>6, AtType DEF classify_request, TypeOK

LEMMA SkillHooksType ==
  ASSUME TypeOK, before_skill_hooks
  PROVE  TypeOK'
<1>1. "before_skill_hooks" \in DOMAIN Edge  BY DEF Edge
<1>2. log \in Seq(EventRecord) /\ st \in AgentState
  BY DEF TypeOK, EventRecord
<1>3. HookActions["before_skill"] \subseteq Action
  BY GraphAssumption DEF GraphAssumption, HookPoint
<1>4. log' \in Seq(EventRecord)
  BY <1>2, <1>3, HookEventsType, EmitType DEF before_skill_hooks, Skip
<1>5. st' \in AgentState
  BY <1>2, <1>3, HeardType, BlockType, CountRetryType
  DEF before_skill_hooks, Skip
<1>. QED  BY <1>1, <1>4, <1>5, AtType DEF before_skill_hooks, TypeOK

LEMMA SkillType ==
  ASSUME TypeOK, execute_skill
  PROVE  TypeOK'
<1>1. "execute_skill" \in DOMAIN Edge  BY DEF Edge
<1>2. log \in Seq(EventRecord) /\ st \in AgentState
  BY DEF TypeOK, EventRecord
<1>3. /\ <<Event("error", "failed")>> \in Seq(EventRecord)
      /\ <<Event("skill_started", "running"), Event("error", "failed")>>
            \in Seq(EventRecord)
      /\ <<Event("skill_started", "running"),
            Event("skill_completed", "completed")>> \in Seq(EventRecord)
  BY EventsType DEF EventType, EventStatus
<1>4. log' \in Seq(EventRecord)
  BY <1>2, <1>3, EmitType DEF execute_skill, Skip, SkillRaises, SkillReturns
<1>5. \A text \in ErrorTexts :
        /\ text \in {"empty", "text"}
        /\ [st EXCEPT !.error = text] \in AgentState
  BY <1>2, GraphAssumption DEF GraphAssumption, AgentState
<1>6. \A output \in (SkillResults \ {"raises"}) \cup Tools :
        [st EXCEPT !.skill_output = output] \in AgentState
  BY <1>2, GraphAssumption DEF GraphAssumption, AgentState, SkillOutput
<1>7. st' \in AgentState
  BY <1>2, <1>5, <1>6, BlockType, CountRetryType
  DEF execute_skill, Skip, SkillRaises, SkillReturns
<1>. QED  BY <1>1, <1>4, <1>7, AtType DEF execute_skill, TypeOK

LEMMA RouterType ==
  ASSUME TypeOK, tool_router
  PROVE  TypeOK'
<1>1. log \in Seq(EventRecord) /\ st \in AgentState
  BY DEF TypeOK, EventRecord
<1>2. <<Event("tool_started", "running")>> \in Seq(EventRecord)
  BY EventsType DEF EventType, EventStatus
<1>3. log' \in Seq(EventRecord)
  BY <1>1, <1>2, EmitType DEF tool_router, Skip, RouterRaises
<1>4. st.skill_output \in Tools
        => [st EXCEPT !.tool = st.skill_output] \in AgentState
  BY <1>1 DEF AgentState
<1>5. st' \in AgentState
  BY <1>1, <1>4 DEF tool_router, Skip, RouterRaises
<1>6. /\ node' \in {"before_tool_hooks", "after_skill_hooks", "END"}
      /\ status' \in {status, "failed"}
  BY DEF tool_router, needs_tool, RouterRaises, Return
<1>7. {"before_tool_hooks", "after_skill_hooks", "END"} \subseteq Node
  BY DEF Node, Edge
<1>. QED  BY <1>3, <1>5, <1>6, <1>7 DEF tool_router, TypeOK, EventRecord

LEMMA ToolHooksType ==
  ASSUME TypeOK, before_tool_hooks, st.tool # NoTool
  PROVE  TypeOK'
<1>1. "before_tool_hooks" \in DOMAIN Edge  BY DEF Edge
<1>2. log \in Seq(EventRecord) /\ st \in AgentState
  BY DEF TypeOK, EventRecord
<1>3. BeforeTool[st.tool] \subseteq Action
  BY <1>2, GraphAssumption DEF GraphAssumption, AgentState
<1>4. <<Event("approval_required", "waiting_approval")>> \in Seq(EventRecord)
  BY EventsType DEF EventType, EventStatus
<1>5. log' \in Seq(EventRecord)
  BY <1>2, <1>3, <1>4, HookEventsType, EventsType, EmitType
  DEF before_tool_hooks, Skip
<1>6. \A a \in Action : HeardApproval(a) \in AgentState
  BY <1>2, HeardType DEF HeardApproval, AgentState
<1>7. st' \in AgentState
  BY <1>2, <1>3, <1>6, HeardType, BlockType, CountRetryType
  DEF before_tool_hooks, Skip
<1>. QED  BY <1>1, <1>5, <1>7, AtType DEF before_tool_hooks, TypeOK
LEMMA PermissionType ==
  ASSUME TypeOK, permission_check
  PROVE  TypeOK'
<1>1. "permission_check" \in DOMAIN Edge  BY DEF Edge
<1>2. st' \in AgentState  BY BlockType DEF permission_check, TypeOK
<1>. QED
  BY <1>1, <1>2, AtType DEF permission_check, TypeOK, EventRecord

LEMMA ApprovalCheckType ==
  ASSUME TypeOK, approval_check
  PROVE  TypeOK'
<1>1. log \in Seq(EventRecord)  BY DEF TypeOK, EventRecord
<1>2. <<Event("approval_granted", "approved")>> \in Seq(EventRecord)
  BY EventsType DEF EventType, EventStatus
<1>3. log' \in Seq(EventRecord)
  BY <1>1, <1>2, EmitType DEF approval_check
<1>4. node' \in Node
  BY DEF approval_check, check_approval, Node, Edge
<1>. QED  BY <1>3, <1>4 DEF approval_check, TypeOK, EventRecord

LEMMA PauseType ==
  ASSUME TypeOK, pause_for_approval
  PROVE  TypeOK'
<1>1. log \in Seq(EventRecord) /\ st \in AgentState
  BY DEF TypeOK, EventRecord
<1>2. <<Event("approval_required", "waiting_approval")>> \in Seq(EventRecord)
  BY EventsType DEF EventType, EventStatus
<1>3. log' \in Seq(EventRecord)
  BY <1>1, <1>2, EmitType DEF pause_for_approval
<1>4. [tool |-> st.tool, retry_count |-> st.retry_count,
       skill_output |-> st.skill_output] \in Snapshot
  BY <1>1 DEF AgentState, Snapshot
<1>5. snap' \in Snapshot /\ row' \in {row, "pending"}
  BY <1>4 DEF pause_for_approval, TypeOK
<1>6. node' \in Node /\ status' \in {"completed", "failed", "waiting_approval"}
  BY <1>1, StatusType DEF pause_for_approval, Return, Node
<1>. QED
  BY <1>3, <1>5, <1>6 DEF pause_for_approval, TypeOK, EventRecord

LEMMA ToolType ==
  ASSUME TypeOK, execute_tool
  PROVE  TypeOK'
<1>1. "execute_tool" \in DOMAIN Edge  BY DEF Edge
<1>2. log \in Seq(EventRecord) /\ st \in AgentState
  BY DEF TypeOK, EventRecord
<1>3. /\ <<Event("tool_completed", "completed")>> \in Seq(EventRecord)
      /\ <<Event("error", "failed")>> \in Seq(EventRecord)
  BY EventsType DEF EventType, EventStatus
<1>4. log' \in Seq(EventRecord)
  BY <1>2, <1>3, EmitType DEF execute_tool, Skip, ToolSucceeds, ToolFails
<1>5. /\ [st EXCEPT !.tool_output = "ok"] \in AgentState
      /\ [st EXCEPT !.tool_output = "failed"] \in AgentState
  BY <1>2 DEF AgentState
<1>6. ErrorTexts \subseteq {"empty", "text"}
  BY GraphAssumption DEF GraphAssumption
<1>7. st' \in AgentState
  BY <1>2, <1>5, <1>6, BlockType, CountRetryType
  DEF execute_tool, Skip, ToolSucceeds, ToolFails
<1>8. toolRuns' \in Nat  BY DEF execute_tool, TypeOK
<1>. QED  BY <1>1, <1>4, <1>7, <1>8, AtType DEF execute_tool

LEMMA ToolHooksAfterType ==
  ASSUME TypeOK, after_tool_hooks
  PROVE  TypeOK'
<1>1. "after_tool_hooks" \in DOMAIN Edge  BY DEF Edge
<1>2. HookActions["after_tool"] \subseteq Action
  BY GraphAssumption DEF GraphAssumption, HookPoint
<1>3. st' \in AgentState
  BY <1>2, HeardType, BlockType DEF after_tool_hooks, TypeOK
<1>. QED
  BY <1>1, <1>3, AtType DEF after_tool_hooks, TypeOK, EventRecord

LEMMA ValidateType ==
  ASSUME TypeOK, validate_result
  PROVE  TypeOK'
<1>1. "validate_result" \in DOMAIN Edge  BY DEF Edge
<1>2. log \in Seq(EventRecord) /\ st \in AgentState
  BY DEF TypeOK, EventRecord
<1>3. HookActions["after_response"] \subseteq Action
  BY GraphAssumption DEF GraphAssumption, HookPoint
<1>4. <<Event("retry_started", "running")>> \in Seq(EventRecord)
  BY EventsType DEF EventType, EventStatus
<1>5. log' \in Seq(EventRecord)
  BY <1>2, <1>4, EmitType DEF validate_result, Skip
<1>6. st' \in AgentState
  BY <1>2, <1>3, HeardType, BlockType, CountRetryType
  DEF validate_result, Skip
<1>. QED  BY <1>1, <1>5, <1>6, AtType DEF validate_result, TypeOK

LEMMA ResponseType ==
  ASSUME TypeOK,
         \/ retry_or_continue \/ after_skill_hooks \/ generate_response
         \/ before_response_hooks \/ after_request_hooks
  PROVE  TypeOK'
<1>1. PICK n \in DOMAIN Edge : At(n)
  BY DEF Edge, retry_or_continue, after_skill_hooks, generate_response,
         before_response_hooks, after_request_hooks
<1>2. log \in Seq(EventRecord) /\ st \in AgentState
  BY DEF TypeOK, EventRecord
<1>3. /\ HookActions["after_skill"] \subseteq Action
      /\ HookActions["before_response"] \subseteq Action
  BY GraphAssumption DEF GraphAssumption, HookPoint
<1>4. <<Event("response_generated", "completed")>> \in Seq(EventRecord)
  BY EventsType DEF EventType, EventStatus
<1>5. log' \in Seq(EventRecord)
  BY <1>2, <1>4, EmitType
  DEF retry_or_continue, after_skill_hooks, generate_response,
      before_response_hooks, after_request_hooks, Skip
<1>6. st' \in AgentState
  BY <1>2, <1>3, HeardType
  DEF retry_or_continue, after_skill_hooks, generate_response,
      before_response_hooks, after_request_hooks, Skip
<1>7. toolRuns' \in Nat
  BY DEF retry_or_continue, after_skill_hooks, generate_response,
         before_response_hooks, after_request_hooks, TypeOK
<1>. QED  BY <1>1, <1>5, <1>6, <1>7, AtType

LEMMA PersistType ==
  ASSUME TypeOK, persist_run
  PROVE  TypeOK'
<1>1. log \in Seq(EventRecord) /\ st \in AgentState
  BY DEF TypeOK, EventRecord
<1>2. <<Event("run_completed", IF HasError(st) THEN "failed" ELSE "completed")>>
        \in Seq(EventRecord)
  BY EventsType DEF EventType, EventStatus
<1>3. log' \in Seq(EventRecord)
  BY <1>1, <1>2, EmitType DEF persist_run
<1>4. st' \in AgentState
  BY <1>1 DEF persist_run, AgentState
<1>5. node' \in Node /\ status' \in {"completed", "failed", "waiting_approval"}
  BY <1>1, StatusType DEF persist_run, Return, Node
<1>. QED  BY <1>3, <1>4, <1>5 DEF persist_run, TypeOK, EventRecord

LEMMA DecisionType ==
  ASSUME TypeOK, approve_run \/ cancel_run
  PROVE  TypeOK'
<1>1. "initialize_run" \in Node  BY DEF Node, Edge
<1>. QED
  BY <1>1, RestoredStateType
  DEF TypeOK, approve_run, cancel_run, DecideApproved

-----------------------------------------------------------------------------
(* The pause: every part of PauseInv a node can disturb. Most nodes only   *)
(* keep what they find.                                                    *)

(* What Block, CountRetry and Heard do not touch. *)
Keeps(s, t) ==
  /\ t.approval_granted = s.approval_granted
  /\ t.approval_required = s.approval_required
  /\ t.resumed = s.resumed
  /\ t.tool = s.tool

LEMMA HelpersKeep ==
  ASSUME NEW s \in AgentState
  PROVE  /\ \A text \in {"empty", "text"} : Keeps(s, Block(s, text))
         /\ Keeps(s, CountRetry(s))
         /\ \A o : Keeps(s, [s EXCEPT !.skill = o])
         /\ \A o : Keeps(s, [s EXCEPT !.skill_output = o])
         /\ \A o : Keeps(s, [s EXCEPT !.tool_output = o])
         /\ \A o : Keeps(s, [s EXCEPT !.error = o])
         /\ Keeps(s, [s EXCEPT !.completed = TRUE])
  BY DEF Keeps, Block, CountRetry, AgentState

LEMMA HeardKeeps ==
  ASSUME st \in AgentState, NEW a \in Action
  PROVE  Keeps(st, Heard(a))
  BY DEF Keeps, Heard, AgentState

LEMMA KeepsTransitive ==
  ASSUME NEW r, NEW s, NEW t, Keeps(r, s), Keeps(s, t)
  PROVE  Keeps(r, t)
  BY DEF Keeps

(* The nodes but for tool_router, which sets the tool, and                 *)
(* before_tool_hooks, which may set approval_required.                     *)
PassingNode ==
  \/ initialize_run \/ before_request_hooks \/ classify_request
  \/ before_skill_hooks \/ execute_skill \/ permission_check
  \/ approval_check \/ pause_for_approval \/ FromToolNodes

LEMMA NodeKeeps ==
  ASSUME TypeOK, PassingNode
  PROVE  Keeps(st, st')
<1>1. st \in AgentState  BY DEF TypeOK
<1>2. Keeps(st, st)  BY DEF Keeps
<1>3. /\ HookActions["before_request"] \subseteq Action
      /\ HookActions["before_skill"] \subseteq Action
      /\ HookActions["after_tool"] \subseteq Action
      /\ HookActions["after_response"] \subseteq Action
      /\ HookActions["after_skill"] \subseteq Action
      /\ HookActions["before_response"] \subseteq Action
      /\ ErrorTexts \subseteq {"empty", "text"}
  BY GraphAssumption DEF GraphAssumption, HookPoint
<1>4. \A a \in Action :
        /\ Keeps(st, Heard(a))
        /\ Keeps(st, CountRetry(Heard(a)))
        /\ Keeps(st, Block(Heard(a), "text"))
  <2> SUFFICES ASSUME NEW a \in Action
               PROVE  /\ Keeps(st, Heard(a))
                      /\ Keeps(st, CountRetry(Heard(a)))
                      /\ Keeps(st, Block(Heard(a), "text"))
    OBVIOUS
  <2>1. Heard(a) \in AgentState  BY <1>1, HeardType
  <2>2. Keeps(st, Heard(a))  BY <1>1, HeardKeeps
  <2>3. /\ Keeps(Heard(a), CountRetry(Heard(a)))
        /\ Keeps(Heard(a), Block(Heard(a), "text"))
    BY <2>1, HelpersKeep
  <2>. QED  BY <2>2, <2>3, KeepsTransitive
<1>5. CASE initialize_run
  BY <1>2, <1>5 DEF initialize_run
<1>6. CASE before_request_hooks
  BY <1>2, <1>3, <1>4, <1>6 DEF before_request_hooks, Skip
<1>7. CASE classify_request
  BY <1>1, <1>2, <1>7, HelpersKeep DEF classify_request, Skip
<1>8. CASE before_skill_hooks
  BY <1>2, <1>3, <1>4, <1>8 DEF before_skill_hooks, Skip
<1>9. CASE execute_skill
  <2>1. \A text \in ErrorTexts :
          /\ Keeps(st, Block(st, text))
          /\ Keeps(st, CountRetry([st EXCEPT !.error = text]))
    BY <1>1, <1>3 DEF Keeps, Block, CountRetry, AgentState
  <2>2. Keeps(st, Block(st, "text"))  BY <1>1, HelpersKeep
  <2>3. \A o : Keeps(st, [st EXCEPT !.skill_output = o])
    BY <1>1, HelpersKeep
  <2>. QED
    BY <1>2, <1>9, <2>1, <2>2, <2>3
    DEF execute_skill, Skip, SkillRaises, SkillReturns
<1>10. CASE permission_check
  BY <1>1, <1>2, <1>10, HelpersKeep DEF permission_check
<1>11. CASE approval_check
  BY <1>2, <1>11 DEF approval_check
<1>12. CASE pause_for_approval
  BY <1>2, <1>12 DEF pause_for_approval
<1>13. CASE execute_tool
  <2>1. \A o, text :
          /\ Keeps(st, [st EXCEPT !.tool_output = o])
          /\ Keeps(st, CountRetry([st EXCEPT !.tool_output = o]))
          /\ Keeps(st, Block([st EXCEPT !.tool_output = o], text))
    BY <1>1 DEF Keeps, Block, CountRetry, AgentState
  <2>. QED
    BY <1>2, <1>13, <2>1 DEF execute_tool, Skip, ToolSucceeds, ToolFails
<1>14. CASE after_tool_hooks
  BY <1>2, <1>3, <1>4, <1>14 DEF after_tool_hooks
<1>15. CASE validate_result
  BY <1>2, <1>3, <1>4, <1>15 DEF validate_result, Skip
<1>16. CASE retry_or_continue \/ after_request_hooks
  BY <1>2, <1>16 DEF retry_or_continue, after_request_hooks, Skip
<1>17. CASE after_skill_hooks
  BY <1>2, <1>3, <1>4, <1>17 DEF after_skill_hooks
<1>18. CASE generate_response
  BY <1>2, <1>18 DEF generate_response
<1>19. CASE before_response_hooks
  BY <1>3, <1>4, <1>19 DEF before_response_hooks
<1>20. CASE persist_run
  BY <1>1, <1>20, HelpersKeep DEF persist_run
<1>. QED
  BY <1>5, <1>6, <1>7, <1>8, <1>9, <1>10, <1>11, <1>12, <1>13, <1>14, <1>15,
     <1>16, <1>17, <1>18, <1>19, <1>20 DEF PassingNode, FromToolNodes

LEMMA PauseStep ==
  ASSUME TypeOK, PauseInv, [Next]_vars
  PROVE  PauseInv'
<1> USE DEF PauseInv
<1>1. st \in AgentState  BY DEF TypeOK
<1>2. CASE \/ initialize_run \/ before_request_hooks \/ classify_request
           \/ before_skill_hooks \/ execute_skill
  <2>1. Keeps(st, st')  BY <1>2, NodeKeeps DEF PassingNode
  <2>2. UNCHANGED <<row, toolRuns>>
    BY <1>2 DEF initialize_run, before_request_hooks, classify_request,
                before_skill_hooks, execute_skill, At
  <2>3. /\ node \in NodesToTool \ NodesWithTool
        /\ node' \in NodesToTool \ NodesWithTool
    BY <1>2 DEF initialize_run, before_request_hooks, classify_request,
                before_skill_hooks, execute_skill, At, Edge, NodesToTool,
                NodesWithTool
  <2>. QED  BY <2>1, <2>2, <2>3 DEF Keeps, NodesToTool, NodesWithTool
<1>3. CASE tool_router
  <2>1. /\ st'.approval_granted = st.approval_granted
        /\ st'.approval_required = st.approval_required
        /\ st'.resumed = st.resumed
        /\ UNCHANGED <<row, toolRuns>>
    BY <1>1, <1>3 DEF tool_router, Skip, RouterRaises, AgentState
  <2>2. node' \in {"before_tool_hooks", "after_skill_hooks", "END"}
    BY <1>3 DEF tool_router, needs_tool, RouterRaises, Return
  <2>3. node' = "before_tool_hooks" => st'.tool # NoTool
    BY <1>3 DEF tool_router, needs_tool, RouterRaises, Return, Skip
  <2>4. node = "tool_router"  BY <1>3 DEF tool_router
  <2>. QED
    BY <2>1, <2>2, <2>3, <2>4 DEF NodesToTool, NodesWithTool
<1>4. CASE before_tool_hooks
  <2>1. /\ node = "before_tool_hooks" /\ node' = "permission_check"
        /\ UNCHANGED <<row, toolRuns>>
    BY <1>4 DEF before_tool_hooks, At, Edge
  <2>2. BeforeTool[st.tool] \subseteq Action
    BY <1>1, <2>1, GraphAssumption
    DEF GraphAssumption, AgentState, NodesWithTool
  <2>3. CASE skips_skill(st) /\ Skip
    BY <2>1, <2>3 DEF Skip, NodesToTool, NodesWithTool
  <2>4. CASE ~skips_skill(st)
    <3>1. PICK a \in BeforeTool[st.tool] :
            st' \in {Block(Heard(a), "text"), HeardApproval(a),
                    CountRetry(Heard(a)), Heard(a)}
      BY <1>4, <2>4 DEF before_tool_hooks
    <3>2. a \in Action  BY <2>2
    <3>3. /\ st'.approval_granted = st.approval_granted
          /\ st'.resumed = st.resumed
          /\ st'.tool = st.tool
      BY <1>1, <3>1, <3>2
      DEF Block, HeardApproval, CountRetry, Heard, AgentState
    <3>4. ~st.resumed  BY <2>4 DEF skips_skill
    <3>. QED
      BY <2>1, <3>3, <3>4 DEF NodesToTool, NodesWithTool
  <2>. QED  BY <1>4, <2>3, <2>4 DEF before_tool_hooks
<1>5. CASE permission_check \/ approval_check
  <2>1. Keeps(st, st')  BY <1>5, NodeKeeps DEF PassingNode
  <2>2. UNCHANGED <<row, toolRuns>>
    BY <1>5 DEF permission_check, approval_check, At
  <2>3. CASE permission_check
    <3>1. node = "permission_check" /\ node' = "approval_check"
      BY <2>3 DEF permission_check, At, Edge
    <3>. QED  BY <2>1, <2>2, <3>1 DEF Keeps, NodesToTool, NodesWithTool
  <2>4. CASE approval_check
    <3>1. /\ node = "approval_check"
          /\ node' = IF st.approval_required /\ ~st.approval_granted
                     THEN "pause_for_approval" ELSE "execute_tool"
      BY <2>4 DEF approval_check, check_approval
    <3>2. st.approval_required \in BOOLEAN /\ st.approval_granted \in BOOLEAN
      BY <1>1 DEF AgentState
    <3>. QED
      BY <1>1, <2>1, <2>2, <3>1, <3>2
      DEF Keeps, NodesToTool, NodesWithTool, AgentState
  <2>. QED  BY <1>5, <2>3, <2>4
<1>6. CASE pause_for_approval
  <2>1. Keeps(st, st')  BY <1>6, NodeKeeps DEF PassingNode
  <2>2. node = "pause_for_approval" /\ node' = "END" /\ UNCHANGED toolRuns
    BY <1>6 DEF pause_for_approval, Return
  <2>. QED  BY <2>1, <2>2 DEF Keeps, NodesToTool, NodesWithTool
<1>7. CASE execute_tool
  <2>1. Keeps(st, st')  BY <1>7, NodeKeeps DEF PassingNode, FromToolNodes
  <2>2. /\ node = "execute_tool" /\ node' = "after_tool_hooks"
        /\ row' = row /\ toolRuns' \in {toolRuns, toolRuns + 1}
    BY <1>7 DEF execute_tool, At, Edge
  <2>3. toolRuns = 0 /\ row # "pending"
    BY <2>2 DEF NodesToTool, NodesWithTool
  <2>. QED  BY <2>1, <2>2, <2>3 DEF Keeps, NodesToTool, NodesWithTool
<1>8. CASE FromToolNodes /\ ~execute_tool
  <2>1. Keeps(st, st')  BY <1>8, NodeKeeps DEF PassingNode
  <2>2. /\ node \notin NodesToTool \cup {"END"} /\ node' \notin NodesToTool
        /\ UNCHANGED <<row, toolRuns>>
    BY <1>8
    DEF FromToolNodes, after_tool_hooks, validate_result, retry_or_continue,
        after_skill_hooks, generate_response, before_response_hooks,
        after_request_hooks, persist_run, At, Edge, Return, NodesToTool,
        NodesWithTool
  <2>. QED  BY <2>1, <2>2 DEF Keeps, NodesToTool, NodesWithTool
<1>9. CASE approve_run
  <2>1. /\ st'.approval_granted /\ st'.approval_required /\ st'.resumed
    BY <1>9 DEF approve_run, RestoredState, FreshState
  <2>. QED
    BY <1>9, <2>1
    DEF approve_run, DecideApproved, NodesToTool, NodesWithTool,
        RestoredState, FreshState
<1>10. CASE cancel_run
  BY <1>10 DEF cancel_run, NodesToTool, NodesWithTool
<1>11. CASE UNCHANGED vars
  BY <1>11 DEF vars
<1>. QED
  BY <1>2, <1>3, <1>4, <1>5, <1>6, <1>7, <1>8, <1>9, <1>10, <1>11
  DEF Next, GraphStep, BeforeToolNodes

LEMMA TypeStep ==
  ASSUME TypeOK, PauseInv, [Next]_vars
  PROVE  TypeOK'
<1>1. CASE UNCHANGED vars
  BY <1>1 DEF vars, TypeOK
<1>2. CASE BeforeToolNodes
  <2>1. CASE before_tool_hooks
    <3>1. st.tool # NoTool
      BY <2>1 DEF before_tool_hooks, At, PauseInv, NodesWithTool
    <3>. QED  BY <2>1, <3>1, ToolHooksType
  <2>. QED
    BY <1>2, <2>1, InitializeType, RequestHooksType, ClassifyType,
       SkillHooksType, SkillType, RouterType, PermissionType,
       ApprovalCheckType, PauseType DEF BeforeToolNodes
<1>3. CASE FromToolNodes
  BY <1>3, ToolType, ToolHooksAfterType, ValidateType, ResponseType,
     PersistType DEF FromToolNodes
<1>4. CASE approve_run \/ cancel_run
  BY <1>4, DecisionType
<1>. QED  BY <1>1, <1>2, <1>3, <1>4 DEF Next, GraphStep

LEMMA InitInv == Init => TypeOK /\ PauseInv
<1> SUFFICES ASSUME Init PROVE TypeOK /\ PauseInv
  OBVIOUS
<1>1. TypeOK
  <2>1. "initialize_run" \in Node  BY DEF Node, Edge
  <2>2. NoSnapshot \in Snapshot  BY DEF NoSnapshot, Snapshot, SkillOutput
  <2>. QED  BY <2>1, <2>2, FreshStateType DEF Init, TypeOK
<1>2. PauseInv
  BY DEF Init, PauseInv, FreshState, NodesToTool, NodesWithTool
<1>. QED  BY <1>1, <1>2

-----------------------------------------------------------------------------
(* Theorems *)

(* Every value is of its kind, in every run of the graph, for any hooks,   *)
(* skills and tools.                                                       *)
THEOREM TypeCorrect == Spec => []TypeOK
<1>1. TypeOK /\ PauseInv /\ [Next]_vars => TypeOK' /\ PauseInv'
  BY TypeStep, PauseStep
<1>. QED  BY <1>1, InitInv, PTL DEF Spec

(* What ties the approval fields of the state, the node, the row of the    *)
(* request and the executions of the tool together, across pause and       *)
(* resume.                                                                 *)
THEOREM PauseCorrect == Spec => []PauseInv
<1>1. TypeOK /\ PauseInv /\ [Next]_vars => TypeOK' /\ PauseInv'
  BY TypeStep, PauseStep
<1>. QED  BY <1>1, InitInv, PTL DEF Spec

(* A step of the graph, seen through the mapping of Contract, is a step of *)
(* the contract or changes nothing of it.                                  *)
LEMMA ContractStep ==
  ASSUME TypeOK, PauseInv, [Next]_vars
  PROVE  [Contract!ContractNext]_(Contract!contractVars)
<1> USE DEF Contract!ContractNext, Contract!contractVars, Contract!Execute,
            Contract!Ask, Contract!Approve, Contract!Deny, Contract!Finish
<1>1. CASE UNCHANGED vars
  BY <1>1 DEF vars
<1>2. CASE \/ initialize_run \/ before_request_hooks \/ classify_request
           \/ before_skill_hooks \/ execute_skill \/ before_tool_hooks
           \/ permission_check \/ approval_check
  <2>1. node # "END" /\ node' # "END" /\ UNCHANGED <<row, toolRuns>>
    BY <1>2
    DEF initialize_run, before_request_hooks, classify_request,
        before_skill_hooks, execute_skill, before_tool_hooks,
        permission_check, approval_check, check_approval, At, Edge
  <2>. QED  BY <2>1
<1>3. CASE tool_router
  <2>1. node # "END" /\ UNCHANGED <<row, toolRuns>>
    BY <1>3 DEF tool_router
  <2>2. row # "pending"  BY <2>1 DEF PauseInv
  <2>. QED  BY <2>1, <2>2
<1>4. CASE pause_for_approval
  <2>1. /\ node # "END" /\ node' = "END" /\ UNCHANGED toolRuns
        /\ row' = row \/ row' = "pending"
    BY <1>4 DEF pause_for_approval, Return
  <2>2. row = "none" /\ toolRuns = 0
    BY <1>4
    DEF pause_for_approval, TypeOK, AgentState, PauseInv, NodesToTool,
        NodesWithTool
  <2>. QED  BY <2>1, <2>2
<1>5. CASE execute_tool
  <2>1. /\ node = "execute_tool" /\ node' = "after_tool_hooks"
        /\ row' = row /\ toolRuns' \in {toolRuns, toolRuns + 1}
    BY <1>5 DEF execute_tool, At, Edge
  <2>2. toolRuns = 0 /\ row \in {"none", "approved"}
    BY <2>1 DEF PauseInv, NodesToTool, NodesWithTool
  <2>. QED  BY <2>1, <2>2
<1>6. CASE FromToolNodes /\ ~execute_tool
  <2>1. node # "END" /\ UNCHANGED <<row, toolRuns>>
    BY <1>6
    DEF FromToolNodes, after_tool_hooks, validate_result, retry_or_continue,
        after_skill_hooks, generate_response, before_response_hooks,
        after_request_hooks, persist_run, At
  <2>2. row # "pending"  BY <2>1 DEF PauseInv
  <2>. QED  BY <2>1, <2>2
<1>7. CASE approve_run
  BY <1>7 DEF approve_run, DecideApproved
<1>8. CASE cancel_run
  BY <1>8 DEF cancel_run
<1>. QED
  BY <1>1, <1>2, <1>3, <1>4, <1>5, <1>6, <1>7, <1>8
  DEF Next, GraphStep, BeforeToolNodes

(* The graph, the pause and the decision implement RunContract: the tool   *)
(* of a run is executed at most once, and never while its request is       *)
(* pending or after it was denied.                                         *)
THEOREM GraphImplementsContract == Spec => ImplementsContract
<1>1. Init => Contract!ContractInit
  BY DEF Init, Contract!ContractInit
<1>2. TypeOK /\ PauseInv /\ [Next]_vars
        => [Contract!ContractNext]_(Contract!contractVars)
  BY ContractStep
<1>. QED
  BY <1>1, <1>2, TypeCorrect, PauseCorrect, PTL
  DEF Spec, ImplementsContract, Contract!ContractSpec

-----------------------------------------------------------------------------
(* What is not asked and what is not allowed *)

(* Behind permission_check an unblocked run has a tool that is registered  *)
(* and not denied, and so has a run that executed one.                     *)
PermissionInv ==
  /\ node \in {"approval_check", "pause_for_approval", "execute_tool"}
       => st.blocked \/ ~forbidden(st.tool)
  /\ toolRuns > 0 => ~forbidden(st.tool)

LEMMA PermissionStep ==
  ASSUME TypeOK, PauseInv, PermissionInv, [Next]_vars
  PROVE  PermissionInv'
<1> USE DEF PermissionInv
<1>1. st \in AgentState  BY DEF TypeOK
<1>2. CASE \/ initialize_run \/ before_request_hooks \/ classify_request
           \/ before_skill_hooks \/ execute_skill \/ tool_router
           \/ before_tool_hooks
  <2>1. /\ node \in NodesToTool \ {"approval_check", "execute_tool"}
        /\ node' \notin {"approval_check", "pause_for_approval",
                         "execute_tool"}
        /\ toolRuns' = toolRuns
    BY <1>2
    DEF initialize_run, before_request_hooks, classify_request,
        before_skill_hooks, execute_skill, tool_router, before_tool_hooks,
        At, Edge, NodesToTool, NodesWithTool, needs_tool, RouterRaises, Return
  <2>2. toolRuns = 0  BY <2>1 DEF PauseInv
  <2>. QED  BY <2>1, <2>2
<1>3. CASE permission_check
  <2>1. /\ node = "permission_check" /\ node' = "approval_check"
        /\ toolRuns' = toolRuns
    BY <1>3 DEF permission_check, At, Edge
  <2>2. toolRuns = 0  BY <2>1 DEF PauseInv, NodesToTool, NodesWithTool
  <2>3. st'.blocked \/ ~forbidden(st'.tool)
    BY <1>1, <1>3 DEF permission_check, Block, AgentState
  <2>. QED  BY <2>1, <2>2, <2>3
<1>4. CASE approval_check
  BY <1>4 DEF approval_check
<1>5. CASE pause_for_approval
  BY <1>5 DEF pause_for_approval, Return
<1>6. CASE execute_tool
  <2>1. st'.tool = st.tool
    BY <1>6, NodeKeeps DEF PassingNode, FromToolNodes, Keeps
  <2>2. /\ node = "execute_tool" /\ node' = "after_tool_hooks"
        /\ toolRuns' = toolRuns \/ ~st.blocked
    BY <1>6 DEF execute_tool, At, Edge
  <2>. QED  BY <2>1, <2>2
<1>7. CASE FromToolNodes /\ ~execute_tool
  <2>1. st'.tool = st.tool
    BY <1>7, NodeKeeps DEF PassingNode, Keeps
  <2>2. /\ node' \notin NodesToTool
        /\ toolRuns' = toolRuns
    BY <1>7
    DEF FromToolNodes, after_tool_hooks, validate_result, retry_or_continue,
        after_skill_hooks, generate_response, before_response_hooks,
        after_request_hooks, persist_run, At, Edge, Return, NodesToTool,
        NodesWithTool
  <2>. QED  BY <2>1, <2>2 DEF NodesToTool, NodesWithTool
<1>8. CASE approve_run
  BY <1>8 DEF approve_run, PauseInv
<1>9. CASE cancel_run
  BY <1>9 DEF cancel_run
<1>10. CASE UNCHANGED vars
  BY <1>10 DEF vars
<1>. QED
  BY <1>2, <1>3, <1>4, <1>5, <1>6, <1>7, <1>8, <1>9, <1>10
  DEF Next, GraphStep, BeforeToolNodes

(* A tool that is denied or unregistered is never executed, whatever hooks *)
(* answer and however often the run is resumed.                            *)
THEOREM ForbiddenNeverRuns == Spec => []ForbiddenToolNeverRuns
<1>1. Init => PermissionInv
  BY DEF Init, PermissionInv
<1>2. TypeOK /\ PauseInv /\ PermissionInv /\ [Next]_vars => PermissionInv'
  BY PermissionStep
<1>3. PermissionInv => ForbiddenToolNeverRuns
  BY DEF PermissionInv, ForbiddenToolNeverRuns, forbidden
<1>. QED  BY <1>1, <1>2, <1>3, TypeCorrect, PauseCorrect, PTL DEF Spec

-----------------------------------------------------------------------------
(* Which events the log can hold *)

LogOf(S) == Seq([type : S, status : EventStatus])

(* The events that matter to the properties; each has few emitters.        *)
Telling == {"approval_required", "response_generated", "run_completed"}

LEMMA LogOfEvents ==
  ASSUME NEW S \in SUBSET EventType
  PROVE  /\ <<>> \in LogOf(S)
         /\ \A t \in S, s \in EventStatus : <<Event(t, s)>> \in LogOf(S)
         /\ \A t1, t2 \in S, s1, s2 \in EventStatus :
              <<Event(t1, s1), Event(t2, s2)>> \in LogOf(S)
         /\ \A s, t \in LogOf(S) : s \o t \in LogOf(S)
         /\ \A e \in LogOf(S) : log \in LogOf(S) /\ Emit(e) => log' \in LogOf(S)
<1> DEFINE R == [type : S, status : EventStatus]
<1>1. \A t \in S, s \in EventStatus : Event(t, s) \in R
  BY DEF Event
<1>. HIDE DEF R
<1>2. \A t \in S, s \in EventStatus : <<Event(t, s)>> \in Seq(R)
  BY <1>1
<1>3. \A t1, t2 \in S, s1, s2 \in EventStatus :
        <<Event(t1, s1), Event(t2, s2)>> \in Seq(R)
  BY <1>1
<1>4. \A s, t \in Seq(R) : s \o t \in Seq(R)
  OBVIOUS
<1>5. LogOf(S) = Seq(R)  BY DEF LogOf, R
<1>6. \A e \in LogOf(S) : log \in LogOf(S) /\ Emit(e) => log' \in LogOf(S)
  BY <1>4, <1>5 DEF Emit
<1>. QED  BY <1>2, <1>3, <1>4, <1>5, <1>6

LEMMA LogOfEntries ==
  ASSUME NEW S, NEW l \in LogOf(S), NEW i \in 1..Len(l)
  PROVE  l[i].type \in S
<1> DEFINE R == [type : S, status : EventStatus]
<1>1. \A r \in R : r.type \in S  OBVIOUS
<1>2. l \in Seq(R)  BY DEF LogOf
<1>. HIDE DEF R
<1>3. l[i] \in R  BY <1>2
<1>. QED  BY <1>1, <1>3

LEMMA LogOfHookEvents ==
  ASSUME NEW S \in SUBSET EventType, EventType \ Telling \subseteq S,
         NEW a \in Action
  PROVE  HookEvents(a) \in LogOf(S)
<1>1. CASE a = "BLOCK"
  BY <1>1, LogOfEvents DEF HookEvents, EventType, EventStatus, Telling
<1>2. CASE a # "BLOCK"
  BY <1>2, LogOfEvents DEF HookEvents, EventType, EventStatus, Telling
<1>. QED  BY <1>1, <1>2

(* No node emits one of the telling events but those named here.           *)
LEMMA NodeEmits ==
  ASSUME TypeOK, NEW S \in SUBSET EventType, EventType \ Telling \subseteq S,
         log \in LogOf(S), GraphStep, st.tool \in Tools \/ ~before_tool_hooks,
         before_tool_hooks \/ pause_for_approval => "approval_required" \in S,
         generate_response => "response_generated" \in S,
         persist_run => "run_completed" \in S
  PROVE  log' \in LogOf(S)
<1>1. /\ HookActions["before_request"] \subseteq Action
      /\ HookActions["before_skill"] \subseteq Action
  BY GraphAssumption DEF GraphAssumption, HookPoint
<1>2. \A e \in LogOf(S) : Emit(e) => log' \in LogOf(S)
  BY LogOfEvents
<1>3. /\ <<>> \in LogOf(S)
      /\ <<Event("request_received", "running")>> \in LogOf(S)
      /\ <<Event("error", "blocked")>> \in LogOf(S)
      /\ <<Event("error", "failed")>> \in LogOf(S)
      /\ <<Event("retry_started", "running")>> \in LogOf(S)
      /\ <<Event("skill_selected", "completed")>> \in LogOf(S)
      /\ <<Event("tool_started", "running")>> \in LogOf(S)
      /\ <<Event("tool_completed", "completed")>> \in LogOf(S)
      /\ <<Event("approval_granted", "approved")>> \in LogOf(S)
  BY LogOfEvents DEF EventType, EventStatus, Telling
<1>4. /\ <<Event("skill_selected", "completed"), Event("error", "failed")>>
            \in LogOf(S)
      /\ <<Event("skill_started", "running"), Event("error", "failed")>>
            \in LogOf(S)
      /\ <<Event("skill_started", "running"),
            Event("skill_completed", "completed")>> \in LogOf(S)
  BY LogOfEvents DEF EventType, EventStatus, Telling
<1>5. \A a \in Action :
        /\ HookEvents(a) \in LogOf(S)
        /\ \A e \in LogOf(S) : HookEvents(a) \o e \in LogOf(S)
  BY LogOfEvents, LogOfHookEvents
<1>6. \A t \in S, s \in EventStatus : <<Event(t, s)>> \in LogOf(S)
  BY LogOfEvents
<1>7. CASE initialize_run \/ classify_request \/ tool_router \/ approval_check
  BY <1>2, <1>3, <1>4, <1>7
  DEF initialize_run, classify_request, tool_router, approval_check, Skip,
      RouterRaises
<1>8. CASE before_request_hooks \/ before_skill_hooks
  BY <1>1, <1>2, <1>3, <1>5, <1>8
  DEF before_request_hooks, before_skill_hooks, Skip
<1>9. CASE execute_skill
  BY <1>2, <1>3, <1>4, <1>9
  DEF execute_skill, Skip, SkillRaises, SkillReturns
<1>10. CASE before_tool_hooks
  <2>1. BeforeTool[st.tool] \subseteq Action
    BY <1>10, GraphAssumption DEF GraphAssumption
  <2>2. <<Event("approval_required", "waiting_approval")>> \in LogOf(S)
    BY <1>6, <1>10 DEF EventStatus
  <2>. QED
    BY <1>2, <1>5, <1>10, <2>1, <2>2 DEF before_tool_hooks, Skip
<1>11. CASE pause_for_approval
  BY <1>2, <1>6, <1>11 DEF pause_for_approval, EventStatus
<1>12. CASE execute_tool
  BY <1>2, <1>3, <1>12
  DEF execute_tool, Skip, ToolSucceeds, ToolFails
<1>13. CASE \/ permission_check \/ after_tool_hooks \/ retry_or_continue
            \/ after_skill_hooks \/ before_response_hooks
            \/ after_request_hooks
  BY <1>13
  DEF permission_check, after_tool_hooks, retry_or_continue, Skip,
      after_skill_hooks, before_response_hooks, after_request_hooks
<1>14. CASE validate_result
  BY <1>2, <1>3, <1>14 DEF validate_result, Skip
<1>15. CASE generate_response
  BY <1>2, <1>6, <1>15 DEF generate_response, EventStatus
<1>16. CASE persist_run
  BY <1>2, <1>6, <1>16 DEF persist_run, EventStatus
<1>. QED
  BY <1>7, <1>8, <1>9, <1>10, <1>11, <1>12, <1>13, <1>14, <1>15, <1>16
  DEF GraphStep, BeforeToolNodes, FromToolNodes

(* A run that does not require approval has never asked for one, and one   *)
(* that does has executed the tool only with the request approved.         *)
QuietTypes == EventType \ {"approval_required"}

QuietLog == LogOf(QuietTypes)

AskInv ==
  /\ ~st.approval_required => log \in QuietLog
  /\ toolRuns > 0 /\ st.approval_required => row = "approved"

LEMMA QuietEvents ==
  /\ <<>> \in QuietLog
  /\ \A a \in Action : HookEvents(a) \in QuietLog
  /\ \A s, t \in QuietLog : s \o t \in QuietLog
<1>1. /\ QuietTypes \in SUBSET EventType
      /\ EventType \ Telling \subseteq QuietTypes
  BY DEF QuietTypes, Telling
<1>. QED  BY <1>1, LogOfEvents, LogOfHookEvents DEF QuietLog

(* What the nodes emit but for before_tool_hooks, when it hears that       *)
(* approval is required, and pause_for_approval.                           *)
LEMMA NodeIsQuiet ==
  ASSUME TypeOK, log \in QuietLog,
         \/ tool_router
         \/ PassingNode /\ ~pause_for_approval
  PROVE  log' \in QuietLog
<1>1. /\ QuietTypes \in SUBSET EventType
      /\ EventType \ Telling \subseteq QuietTypes
      /\ "response_generated" \in QuietTypes /\ "run_completed" \in QuietTypes
  BY DEF QuietTypes, Telling, EventType
<1>2. GraphStep
  BY DEF PassingNode, GraphStep, BeforeToolNodes
<1>3. ~before_tool_hooks
  BY DEF PassingNode, FromToolNodes, before_tool_hooks, initialize_run,
         before_request_hooks, classify_request, before_skill_hooks,
         execute_skill, tool_router, permission_check, approval_check,
         execute_tool, after_tool_hooks, validate_result, retry_or_continue,
         after_skill_hooks, generate_response, before_response_hooks,
         after_request_hooks, persist_run, At, pause_for_approval
<1>4. ~pause_for_approval
  BY DEF tool_router, pause_for_approval
<1>. QED  BY <1>1, <1>2, <1>3, <1>4, NodeEmits DEF QuietLog

LEMMA AskStep ==
  ASSUME TypeOK, PauseInv, AskInv, [Next]_vars
  PROVE  AskInv'
<1> USE DEF AskInv
<1>1. st \in AgentState /\ row \in {"none", "pending", "approved", "denied"}
  BY DEF TypeOK
<1>2. CASE \/ tool_router
           \/ PassingNode /\ ~pause_for_approval /\ ~execute_tool
  <2>1. st'.approval_required = st.approval_required
    <3>1. CASE tool_router
      BY <1>1, <3>1 DEF tool_router, Skip, RouterRaises, AgentState
    <3>. QED  BY <1>2, <3>1, NodeKeeps DEF Keeps
  <2>2. UNCHANGED <<row, toolRuns>>
    BY <1>2
    DEF tool_router, PassingNode, FromToolNodes, initialize_run,
        before_request_hooks, classify_request, before_skill_hooks,
        execute_skill, permission_check, approval_check, after_tool_hooks,
        validate_result, retry_or_continue, after_skill_hooks,
        generate_response, before_response_hooks, after_request_hooks,
        persist_run, At
  <2>. QED  BY <1>2, <2>1, <2>2, NodeIsQuiet
<1>3. CASE execute_tool
  <2>1. Keeps(st, st')  BY <1>3, NodeKeeps DEF PassingNode, FromToolNodes
  <2>2. node = "execute_tool" /\ row' = row
    BY <1>3 DEF execute_tool, At
  <2>3. st.approval_required => row = "approved"
    BY <2>2 DEF PauseInv
  <2>4. log \in QuietLog => log' \in QuietLog
    <3>1. ~pause_for_approval  BY <2>2 DEF pause_for_approval, At
    <3>2. PassingNode  BY <1>3 DEF PassingNode, FromToolNodes
    <3>. QED  BY <3>1, <3>2, NodeIsQuiet
  <2>. QED  BY <2>1, <2>2, <2>3, <2>4 DEF Keeps
<1>4. CASE before_tool_hooks
  <2>1. node = "before_tool_hooks" /\ UNCHANGED <<row, toolRuns>>
    BY <1>4 DEF before_tool_hooks, At
  <2>2. toolRuns = 0 /\ st.tool # NoTool
    BY <2>1 DEF PauseInv, NodesToTool, NodesWithTool
  <2>3. BeforeTool[st.tool] \subseteq Action
    BY <1>1, <2>2, GraphAssumption DEF GraphAssumption, AgentState
  <2>4. CASE skips_skill(st) /\ Skip
    BY <2>1, <2>2, <2>4 DEF Skip
  <2>5. ASSUME ~(skips_skill(st) /\ Skip)
        PROVE  ~st'.approval_required => log' \in QuietLog
    <3>1. PICK a \in BeforeTool[st.tool] :
            \/ st' = HeardApproval(a)
            \/ /\ st' \in {Block(Heard(a), "text"), CountRetry(Heard(a)),
                          Heard(a)}
               /\ Emit(HookEvents(a))
      BY <1>4, <2>5 DEF before_tool_hooks
    <3>2. a \in Action  BY <2>3
    <3>3. CASE st' = HeardApproval(a)
      BY <1>1, <3>3 DEF HeardApproval, Heard, AgentState
    <3>4. CASE st' # HeardApproval(a)
      <4>1. st'.approval_required = st.approval_required
        BY <1>1, <3>1, <3>4 DEF Block, CountRetry, Heard, AgentState
      <4>2. Emit(HookEvents(a))  BY <3>1, <3>4
      <4>3. HookEvents(a) \in QuietLog  BY <3>2, QuietEvents
      <4>4. log \in QuietLog => log' \in QuietLog
        BY <4>2, <4>3, QuietEvents DEF Emit
      <4>. QED  BY <4>1, <4>4
    <3>. QED  BY <3>3, <3>4
  <2>. QED  BY <2>1, <2>2, <2>4, <2>5
<1>5. CASE pause_for_approval
  <2>1. /\ node = "pause_for_approval"
        /\ UNCHANGED <<st, toolRuns>>
    BY <1>5 DEF pause_for_approval
  <2>2. st.approval_required /\ toolRuns = 0
    BY <2>1 DEF PauseInv, NodesToTool, NodesWithTool
  <2>. QED  BY <2>1, <2>2
<1>6. CASE approve_run
  <2>1. toolRuns' = 0 /\ st'.approval_required
    BY <1>6 DEF approve_run, RestoredState, FreshState, PauseInv
  <2>. QED  BY <2>1
<1>7. CASE cancel_run
  <2>1. toolRuns' = 0 /\ UNCHANGED <<st, log>>
    BY <1>7 DEF cancel_run, PauseInv
  <2>. QED  BY <2>1
<1>8. CASE UNCHANGED vars
  BY <1>8 DEF vars
<1>. QED
  BY <1>2, <1>3, <1>4, <1>5, <1>6, <1>7, <1>8
  DEF Next, GraphStep, BeforeToolNodes, PassingNode

LEMMA AskCorrect == Spec => []AskInv
<1>1. Init => AskInv
  BY QuietEvents DEF Init, AskInv, FreshState
<1>2. TypeOK /\ PauseInv /\ AskInv /\ [Next]_vars => AskInv'
  BY AskStep
<1>. QED  BY <1>1, <1>2, TypeCorrect, PauseCorrect, PTL DEF Spec

(* A tool that a hook wanted approval for has been executed only if the    *)
(* request was approved, whatever the other hooks, nodes and resumptions   *)
(* did with the flag that carries the question.                            *)
THEOREM AskedNeedsApproval == Spec => []AskedToolNeedsApproval
<1>1. AskInv => AskedToolNeedsApproval
  BY LogOfEntries
  DEF AskInv, AskedToolNeedsApproval, Emitted, QuietLog, QuietTypes
<1>. QED  BY <1>1, AskCorrect, PTL

-----------------------------------------------------------------------------
(* Blocked runs and their errors *)

(* A node that does not run the skill never takes a block back, records an *)
(* error with every block it sets, and sets no error without a block.      *)
Settles(s, t) ==
  /\ t.resumed = s.resumed
  /\ t.skill_output = s.skill_output
  /\ s.blocked => t.blocked /\ t.error = s.error
  /\ t.blocked => s.blocked \/ t.error # "none"
  /\ ~t.blocked => t.error = s.error

LEMMA HelpersSettle ==
  ASSUME st \in AgentState
  PROVE  /\ Settles(st, st)
         /\ \A a \in Action : Settles(st, Heard(a))
         /\ \A a \in Action : Settles(st, CountRetry(Heard(a)))
         /\ \A a \in Action : Settles(st, HeardApproval(a))
         /\ \A o : Settles(st, [st EXCEPT !.skill = o])
         /\ \A o : Settles(st, [st EXCEPT !.tool = o])
         /\ \A o : Settles(st, [st EXCEPT !.tool_output = o])
         /\ \A o : Settles(st, CountRetry([st EXCEPT !.tool_output = o]))
         /\ Settles(st, [st EXCEPT !.completed = TRUE])
         /\ ~st.blocked =>
              \A text \in {"empty", "text"} :
                /\ Settles(st, Block(st, text))
                /\ \A a \in Action : Settles(st, Block(Heard(a), text))
                /\ \A o : Settles(st, Block([st EXCEPT !.tool_output = o], text))
BY DEF Settles, Heard, HeardApproval, CountRetry, Block, AgentState

LEMMA NodeSettles ==
  ASSUME TypeOK, GraphStep, ~execute_skill,
         before_tool_hooks => st.tool \in Tools
  PROVE  Settles(st, st')
<1>1. st \in AgentState  BY DEF TypeOK
<1>2. /\ HookActions["before_request"] \subseteq Action
      /\ HookActions["before_skill"] \subseteq Action
      /\ HookActions["after_tool"] \subseteq Action
      /\ HookActions["after_response"] \subseteq Action
      /\ HookActions["after_skill"] \subseteq Action
      /\ HookActions["before_response"] \subseteq Action
      /\ ErrorTexts \subseteq {"empty", "text"}
  BY GraphAssumption DEF GraphAssumption, HookPoint
<1>3. CASE \/ initialize_run \/ approval_check \/ pause_for_approval
           \/ retry_or_continue \/ generate_response \/ after_request_hooks
  BY <1>1, <1>3, HelpersSettle
  DEF initialize_run, approval_check, pause_for_approval, retry_or_continue,
      generate_response, after_request_hooks, Skip
<1>4. CASE before_request_hooks
  BY <1>1, <1>2, <1>4, HelpersSettle DEF before_request_hooks, Skip, skips_skill
<1>5. CASE classify_request
  BY <1>1, <1>5, HelpersSettle DEF classify_request, Skip, skips_skill
<1>6. CASE before_skill_hooks
  BY <1>1, <1>2, <1>6, HelpersSettle DEF before_skill_hooks, Skip, skips_skill
<1>7. CASE tool_router
  BY <1>1, <1>7, HelpersSettle DEF tool_router, RouterRaises, Skip
<1>8. CASE before_tool_hooks
  <2>1. BeforeTool[st.tool] \subseteq Action
    BY <1>8, GraphAssumption DEF GraphAssumption
  <2>. QED
    BY <1>1, <1>8, <2>1, HelpersSettle DEF before_tool_hooks, Skip, skips_skill
<1>9. CASE permission_check
  BY <1>1, <1>9, HelpersSettle DEF permission_check
<1>10. CASE execute_tool
  BY <1>1, <1>2, <1>10, HelpersSettle
  DEF execute_tool, Skip, ToolSucceeds, ToolFails
<1>11. CASE after_tool_hooks
  BY <1>1, <1>2, <1>11, HelpersSettle DEF after_tool_hooks
<1>12. CASE validate_result
  BY <1>1, <1>2, <1>12, HelpersSettle DEF validate_result, Skip
<1>13. CASE after_skill_hooks
  BY <1>1, <1>2, <1>13, HelpersSettle DEF after_skill_hooks
<1>14. CASE before_response_hooks
  BY <1>1, <1>2, <1>14, HelpersSettle DEF before_response_hooks
<1>15. CASE persist_run
  BY <1>1, <1>15, HelpersSettle DEF persist_run
<1>. QED
  BY <1>3, <1>4, <1>5, <1>6, <1>7, <1>8, <1>9, <1>10, <1>11, <1>12, <1>13,
     <1>14, <1>15
  DEF GraphStep, BeforeToolNodes, FromToolNodes

(* The skill either leaves the state settled or fails with an error and    *)
(* without an output, which tool_router will not survive.                  *)
LEMMA SkillSettles ==
  ASSUME TypeOK, execute_skill
  PROVE  /\ st'.resumed = st.resumed
         /\ st.blocked => st' = st
         /\ st.resumed => st' = st
         /\ st'.blocked => st.blocked \/ st'.error # "none"
         /\ ~st'.blocked =>
              \/ st'.error = st.error
              \/ st'.skill_output = st.skill_output
<1>1. st \in AgentState  BY DEF TypeOK
<1>2. ErrorTexts \subseteq {"empty", "text"}
  BY GraphAssumption DEF GraphAssumption
<1>3. CASE Skip
  BY <1>3 DEF Skip
<1>4. CASE ~skips_skill(st) /\ st' = Block(st, "text")
  BY <1>1, <1>4 DEF Block, AgentState, skips_skill
<1>5. ASSUME ~skips_skill(st), NEW text \in ErrorTexts, SkillRaises(text)
      PROVE  /\ ~st.blocked /\ ~st.resumed /\ st'.resumed = st.resumed
             /\ st'.error # "none" /\ st'.skill_output = st.skill_output
  BY <1>1, <1>2, <1>5
  DEF SkillRaises, Block, CountRetry, AgentState, skips_skill
<1>6. ASSUME ~skips_skill(st), NEW output, SkillReturns(output)
      PROVE  /\ ~st.blocked /\ ~st.resumed /\ st'.resumed = st.resumed
             /\ st'.blocked = st.blocked /\ st'.error = st.error
  BY <1>1, <1>6 DEF SkillReturns, AgentState, skips_skill
<1>. QED
  BY <1>3, <1>4, <1>5, <1>6 DEF execute_skill

SkillNodes ==
  {"initialize_run", "before_request_hooks", "classify_request",
   "before_skill_hooks", "execute_skill"}

(* A block comes with an error. An unblocked run has an error only if its  *)
(* skill failed, and then there is no output, so that it does not get past *)
(* tool_router. A completed run has none.                                  *)
BlockInv ==
  /\ st.blocked => st.error # "none"
  /\ ~st.blocked /\ ~st.resumed /\ node \in SkillNodes
       => st.error = "none" /\ st.skill_output = "none"
  /\ ~st.blocked /\ HasError(st)
       => /\ node \in {"tool_router", "END"}
          /\ st.skill_output = "none" /\ ~st.resumed
  /\ node = "END" /\ status = "completed" => ~HasError(st)

(* Where the nodes lead. *)
LEMMA NodeMoves ==
  ASSUME GraphStep
  PROVE  /\ node \in Node \ {"END"}
         /\ node' \in SkillNodes => node \in SkillNodes
         /\ node' = "tool_router" => node = "execute_skill" /\ execute_skill
         /\ node \in SkillNodes => node' \in SkillNodes \cup {"tool_router"}
         /\ execute_skill => node = "execute_skill" /\ node' = "tool_router"
         /\ node' # "END" => status' = status
BY DEF GraphStep, BeforeToolNodes, FromToolNodes, Node, SkillNodes,
       initialize_run, before_request_hooks, classify_request,
       before_skill_hooks, execute_skill, tool_router, before_tool_hooks,
       permission_check, approval_check, pause_for_approval, execute_tool,
       after_tool_hooks, validate_result, retry_or_continue,
       after_skill_hooks, generate_response, before_response_hooks,
       after_request_hooks, persist_run, At, Edge, Return, RouterRaises,
       needs_tool, check_approval

(* How an invocation comes to return "completed". *)
LEMMA CompletedReturn ==
  ASSUME TypeOK, GraphStep, node' = "END", status' = "completed"
  PROVE  ~HasError(st')
<1>1. CASE tool_router
  BY <1>1 DEF tool_router, needs_tool, RouterRaises, Return
<1>2. CASE pause_for_approval
  BY <1>2 DEF pause_for_approval, Return, invoke_status
<1>3. CASE persist_run
  BY <1>3 DEF persist_run, Return, invoke_status, HasError, TypeOK, AgentState
<1>. QED
  BY <1>1, <1>2, <1>3
  DEF GraphStep, BeforeToolNodes, FromToolNodes,
       initialize_run, before_request_hooks, classify_request,
       before_skill_hooks, execute_skill, before_tool_hooks,
       permission_check, approval_check, execute_tool,
       after_tool_hooks, validate_result, retry_or_continue,
       after_skill_hooks, generate_response, before_response_hooks,
       after_request_hooks, At, Edge, check_approval

LEMMA ToolBeforeHooks ==
  ASSUME TypeOK, PauseInv
  PROVE  before_tool_hooks => st.tool \in Tools
BY DEF TypeOK, AgentState, PauseInv, NodesWithTool, before_tool_hooks, At

LEMMA BlockStep ==
  ASSUME TypeOK, PauseInv, BlockInv, [Next]_vars
  PROVE  BlockInv'
<1> USE DEF HasError
<1>1. CASE GraphStep /\ ~execute_skill
  <2>1. Settles(st, st')
    BY <1>1, NodeSettles, ToolBeforeHooks
  <2>2. /\ node \in Node \ {"END"}
        /\ node' \in SkillNodes => node \in SkillNodes
    BY <1>1, NodeMoves
  <2>3. (st'.blocked => st'.error # "none")
    BY <2>1 DEF Settles, BlockInv
  <2>4. ~st'.blocked /\ ~st'.resumed /\ node' \in SkillNodes
          => st'.error = "none" /\ st'.skill_output = "none"
    BY <2>1, <2>2 DEF Settles, BlockInv
  <2>5. ASSUME ~st'.blocked, HasError(st')
        PROVE  node' = "END" /\ st'.skill_output = "none" /\ ~st'.resumed
    <3>1. /\ ~st.blocked /\ HasError(st)
          /\ node = "tool_router"
          /\ st.skill_output = "none" /\ ~st.resumed
      BY <2>1, <2>2, <2>5 DEF Settles, BlockInv
    <3>2. tool_router
      BY <1>1, <3>1
      DEF GraphStep, BeforeToolNodes, FromToolNodes,
          initialize_run, before_request_hooks, classify_request,
          before_skill_hooks, before_tool_hooks,
          permission_check, approval_check, pause_for_approval, execute_tool,
          after_tool_hooks, validate_result, retry_or_continue,
          after_skill_hooks, generate_response, before_response_hooks,
          after_request_hooks, persist_run, At
    <3>3. "none" \notin Tools  BY GraphAssumption DEF GraphAssumption
    <3>. QED
      BY <2>1, <3>1, <3>2, <3>3
      DEF tool_router, skips_skill, RouterRaises, Return, Settles
  <2>6. node' = "END" /\ status' = "completed" => ~HasError(st')
    BY <1>1, CompletedReturn
  <2>. QED  BY <2>3, <2>4, <2>5, <2>6 DEF BlockInv
<1>2. CASE execute_skill
  <2>1. node = "execute_skill" /\ node' = "tool_router"
    BY <1>2, NodeMoves DEF GraphStep, BeforeToolNodes
  <2>2. /\ st'.resumed = st.resumed
        /\ st.blocked => st' = st
        /\ st.resumed => st' = st
        /\ st'.blocked => st.blocked \/ st'.error # "none"
        /\ ~st'.blocked =>
             st'.error = st.error \/ st'.skill_output = st.skill_output
    BY <1>2, SkillSettles
  <2>3. node \in SkillNodes /\ node' \notin SkillNodes
    BY <2>1 DEF SkillNodes
  <2>. QED  BY <2>1, <2>2, <2>3 DEF BlockInv
<1>3. CASE approve_run
  <2>1. /\ ~st'.blocked /\ st'.error = "none" /\ st'.resumed
        /\ node' = "initialize_run"
    BY <1>3 DEF approve_run, RestoredState, FreshState
  <2>. QED  BY <2>1 DEF BlockInv
<1>4. CASE cancel_run
  BY <1>4 DEF cancel_run, BlockInv
<1>5. CASE UNCHANGED vars
  BY <1>5 DEF vars, BlockInv
<1>. QED  BY <1>1, <1>2, <1>3, <1>4, <1>5 DEF Next

LEMMA BlockCorrect == Spec => []BlockInv
<1>1. Init => BlockInv
  BY DEF Init, FreshState, BlockInv, HasError
<1>2. TypeOK /\ PauseInv /\ BlockInv /\ [Next]_vars => BlockInv'
  BY BlockStep
<1>. QED  BY <1>1, <1>2, TypeCorrect, PauseCorrect, PTL DEF Spec

(* A run that is blocked is reported as completed only if the error that   *)
(* blocked it has an empty text: no block is without an error, and nothing *)
(* later in the graph takes the error back.                                *)
THEOREM BlockedNotCompleted == Spec => []BlockedIsNotCompleted
<1>1. TypeOK /\ BlockInv => BlockedIsNotCompleted
  BY DEF TypeOK, AgentState, BlockInv, HasError, BlockedIsNotCompleted
<1>. QED  BY <1>1, TypeCorrect, BlockCorrect, PTL

-----------------------------------------------------------------------------
(* The response and the end of a run *)

Unanswered == EventType \ {"response_generated"}
Unfinished == EventType \ {"run_completed"}

AnswerNodes == {"before_response_hooks", "after_request_hooks", "persist_run"}

AskingNodes == {"permission_check", "approval_check", "pause_for_approval"}

(* The response is announced in generate_response and the completion in    *)
(* persist_run, neither before a request is decided. After the response    *)
(* was announced the state has no error and no open question about         *)
(* approval, and the end makes "completed" of that.                        *)
AnswerInv ==
  /\ node \notin AnswerNodes \cup {"END"} \/ row = "pending"
       => log \in LogOf(Unanswered)
  /\ node # "END" \/ row = "pending" => log \in LogOf(Unfinished)
  /\ node \notin AskingNodes \cup {"END"}
       => st.approval_required = st.approval_granted
  /\ node \in AnswerNodes => log \in LogOf(Unanswered) \/ ~HasError(st)
  /\ node = "END" => log \in LogOf(Unanswered) \/ status = "completed"
  /\ CompletionIsLast

LEMMA NodeFlow ==
  ASSUME GraphStep
  PROVE  /\ node' \in AnswerNodes
              => \/ before_response_hooks \/ after_request_hooks
                 \/ generate_response
         /\ node' = "END" => \/ tool_router /\ node = "tool_router"
                             \/ /\ pause_for_approval
                                /\ node = "pause_for_approval"
                             \/ persist_run /\ node = "persist_run"
         /\ persist_run => node = "persist_run" /\ node' = "END"
         /\ row' # row => pause_for_approval
         /\ generate_response => node = "generate_response"
                                 /\ node' = "before_response_hooks"
         /\ before_response_hooks => node = "before_response_hooks"
                                     /\ node' = "after_request_hooks"
         /\ after_request_hooks => node = "after_request_hooks"
                                   /\ node' = "persist_run"
         /\ node' \notin AskingNodes \cup {"END"}
              => \/ node \notin AskingNodes /\ ~before_tool_hooks
                 \/ node' = "execute_tool"
BY DEF GraphStep, BeforeToolNodes, FromToolNodes, AnswerNodes, AskingNodes,
       initialize_run, before_request_hooks, classify_request,
       before_skill_hooks, execute_skill, tool_router, before_tool_hooks,
       permission_check, approval_check, pause_for_approval, execute_tool,
       after_tool_hooks, validate_result, retry_or_continue,
       after_skill_hooks, generate_response, before_response_hooks,
       after_request_hooks, persist_run, At, Edge, Return, RouterRaises,
       needs_tool, check_approval

(* Every node but one leaves a log without the event as it is. *)
LEMMA NodeLogs ==
  ASSUME TypeOK, PauseInv, GraphStep
  PROVE  /\ log \in LogOf(Unanswered) /\ ~generate_response
              => log' \in LogOf(Unanswered)
         /\ log \in LogOf(Unfinished) /\ ~persist_run
              => log' \in LogOf(Unfinished)
<1>1. /\ Unanswered \in SUBSET EventType /\ EventType \ Telling \subseteq Unanswered
      /\ Unfinished \in SUBSET EventType /\ EventType \ Telling \subseteq Unfinished
      /\ {"approval_required", "run_completed"} \subseteq Unanswered
      /\ {"approval_required", "response_generated"} \subseteq Unfinished
  BY DEF Unanswered, Unfinished, Telling, EventType
<1>2. st.tool \in Tools \/ ~before_tool_hooks
  BY ToolBeforeHooks
<1>. QED  BY <1>1, <1>2, NodeEmits

LEMMA LastCompletion ==
  ASSUME log \in LogOf(Unfinished), NEW e, Emit(<<e>>)
  PROVE  CompletionIsLast'
<1>1. \A i \in 1..Len(log) : log[i].type # "run_completed"
  BY LogOfEntries DEF Unfinished
<1>2. /\ log' = Append(log, e)
      /\ log \in Seq([type : Unfinished, status : EventStatus])
  BY DEF Emit, LogOf
<1>3. /\ Len(log') = Len(log) + 1
      /\ \A i \in 1..Len(log) : log'[i] = log[i]
      /\ Len(log) \in Nat
  BY <1>2
<1>4. \A i \in 1..Len(log') : i \in 1..Len(log) \/ i = Len(log')
  BY <1>3
<1>. QED  BY <1>1, <1>3, <1>4 DEF CompletionIsLast

LEMMA AnswerStep ==
  ASSUME TypeOK, PauseInv, BlockInv, AnswerInv, [Next]_vars
  PROVE  AnswerInv'
<1>1. st \in AgentState /\ PauseInv'  BY PauseStep DEF TypeOK
<1>2. CASE GraphStep
  <2>1. node # "END"  BY <1>2, NodeMoves
  <2>2. log \in LogOf(Unfinished)  BY <2>1 DEF AnswerInv
  <2>3. node' # "END" \/ row' = "pending" => log' \in LogOf(Unfinished)
    <3>1. CASE persist_run
      BY <1>1, <1>2, <2>1, <3>1, NodeFlow DEF persist_run, PauseInv
    <3>. QED  BY <1>2, <2>2, <3>1, NodeLogs
  <2>4. node' \notin AnswerNodes \cup {"END"} \/ row' = "pending"
          => log' \in LogOf(Unanswered)
    <3>1. CASE pause_for_approval
      BY <1>2, <3>1, NodeLogs
      DEF AnswerInv, AnswerNodes, pause_for_approval, generate_response, At
    <3>2. CASE node' \notin AnswerNodes \cup {"END"}
      <4>1. node \notin AnswerNodes /\ ~generate_response
        BY <1>2, <3>2, NodeFlow
        DEF AnswerNodes, GraphStep, BeforeToolNodes, FromToolNodes,
            initialize_run, before_request_hooks, classify_request,
            before_skill_hooks, execute_skill, tool_router, before_tool_hooks,
            permission_check, approval_check, pause_for_approval, execute_tool,
            after_tool_hooks, validate_result, retry_or_continue,
            after_skill_hooks, At
      <4>. QED  BY <1>2, <2>1, <4>1, NodeLogs DEF AnswerInv
    <3>3. CASE ~pause_for_approval
      BY <1>2, <2>1, <3>2, <3>3, NodeFlow DEF PauseInv
    <3>. QED  BY <3>1, <3>2, <3>3
  <2>5. node' \notin AskingNodes \cup {"END"}
          => st'.approval_required = st'.approval_granted
    <3>1. CASE node' = "execute_tool"
      BY <1>1, <3>1 DEF PauseInv
    <3>2. CASE node \notin AskingNodes /\ ~before_tool_hooks
      <4>1. /\ st'.approval_required = st.approval_required
            /\ st'.approval_granted = st.approval_granted
        <5>1. CASE tool_router
          BY <1>1, <5>1 DEF tool_router, Skip, RouterRaises, AgentState
        <5>2. CASE PassingNode
          BY <5>2, NodeKeeps DEF Keeps
        <5>. QED
          BY <1>2, <3>2, <5>1, <5>2
          DEF GraphStep, BeforeToolNodes, PassingNode
      <4>. QED  BY <2>1, <3>2, <4>1 DEF AnswerInv
    <3>. QED  BY <1>2, <3>1, <3>2, NodeFlow
  <2>6. node' \in AnswerNodes => log' \in LogOf(Unanswered) \/ ~HasError(st')
    <3>1. CASE generate_response
      <4>1. node = "generate_response" /\ st' = st
        BY <1>2, <3>1, NodeFlow DEF generate_response
      <4>2. log \in LogOf(Unanswered)
        BY <4>1 DEF AnswerInv, AnswerNodes
      <4>. QED
        BY <3>1, <4>1, <4>2 DEF generate_response, BlockInv
    <3>2. CASE before_response_hooks \/ after_request_hooks
      <4>1. node \in AnswerNodes /\ ~generate_response
        BY <1>2, <3>2, NodeFlow DEF AnswerNodes
      <4>2. st'.error = st.error
        BY <1>1, <3>2
        DEF before_response_hooks, after_request_hooks, Skip, Heard, AgentState
      <4>. QED  BY <1>2, <4>1, <4>2, NodeLogs DEF AnswerInv, HasError
    <3>. QED  BY <1>2, <3>1, <3>2, NodeFlow
  <2>7. node' = "END" => log' \in LogOf(Unanswered) \/ status' = "completed"
    <3>1. CASE tool_router \/ pause_for_approval
      <4>1. /\ node \notin AnswerNodes /\ ~generate_response
        BY <3>1 DEF AnswerNodes, tool_router, pause_for_approval,
                    generate_response, At
      <4>. QED  BY <1>2, <2>1, <4>1, NodeLogs DEF AnswerInv
    <3>2. CASE persist_run
      <4>1. /\ node \in AnswerNodes /\ ~generate_response
            /\ node \notin AskingNodes
        BY <3>2 DEF AnswerNodes, AskingNodes, persist_run, generate_response, At
      <4>2. st.approval_required = st.approval_granted
        BY <2>1, <4>1 DEF AnswerInv
      <4>3. ~HasError(st) => status' = "completed"
        BY <1>1, <3>2, <4>2
        DEF persist_run, Return, invoke_status, AgentState
      <4>. QED  BY <1>2, <4>1, <4>3, NodeLogs DEF AnswerInv
    <3>. QED  BY <1>2, <3>1, <3>2, NodeFlow
  <2>8. CompletionIsLast'
    <3>1. CASE persist_run
      BY <2>2, <3>1, LastCompletion DEF persist_run
    <3>2. CASE ~persist_run
      <4>1. log' \in LogOf(Unfinished)  BY <1>2, <2>2, <3>2, NodeLogs
      <4>2. \A i \in 1..Len(log') : log'[i].type # "run_completed"
        BY <4>1, LogOfEntries DEF Unfinished
      <4>. QED  BY <4>2 DEF CompletionIsLast
    <3>. QED  BY <3>1, <3>2
  <2>. QED  BY <2>3, <2>4, <2>5, <2>6, <2>7, <2>8 DEF AnswerInv
<1>3. CASE approve_run
  <2>1. /\ st'.approval_required = st'.approval_granted
        /\ node' = "initialize_run" /\ log' = log /\ row = "pending"
    BY <1>3 DEF approve_run, RestoredState, FreshState
  <2>2. node' \notin AnswerNodes  BY <2>1 DEF AnswerNodes
  <2>. QED  BY <2>1, <2>2 DEF AnswerInv, CompletionIsLast
<1>4. CASE cancel_run
  <2>1. /\ UNCHANGED <<node, log>> /\ node = "END" /\ row = "pending"
        /\ row' = "denied"
    BY <1>4 DEF cancel_run
  <2>2. node' \notin AnswerNodes  BY <2>1 DEF AnswerNodes
  <2>. QED  BY <2>1, <2>2 DEF AnswerInv, CompletionIsLast
<1>5. CASE UNCHANGED vars
  BY <1>5 DEF vars, AnswerInv, CompletionIsLast, HasError
<1>. QED  BY <1>2, <1>3, <1>4, <1>5 DEF Next

LEMMA AnswerCorrect == Spec => []AnswerInv
<1>1. Init => AnswerInv
  <2>1. \A S \in SUBSET EventType : <<>> \in LogOf(S)
    BY LogOfEvents
  <2>2. Unanswered \in SUBSET EventType /\ Unfinished \in SUBSET EventType
    BY DEF Unanswered, Unfinished
  <2>. QED
    BY <2>1, <2>2
    DEF Init, FreshState, AnswerInv, AnswerNodes, CompletionIsLast
<1>2. TypeOK /\ PauseInv /\ BlockInv /\ AnswerInv /\ [Next]_vars => AnswerInv'
  BY AnswerStep
<1>. QED
  BY <1>1, <1>2, TypeCorrect, PauseCorrect, BlockCorrect, PTL DEF Spec

(* A run that announced its response is returned as completed, whatever    *)
(* the hooks after the announcement answer.                                *)
THEOREM ResponseStands == Spec => []AnnouncedResponseStands
<1>1. AnswerInv => AnnouncedResponseStands
  BY LogOfEntries DEF AnswerInv, AnnouncedResponseStands, Emitted, Unanswered
<1>. QED  BY <1>1, AnswerCorrect, PTL

(* run_completed is the last event of a run, so it is emitted once however *)
(* often the run is paused and resumed.                                    *)
THEOREM CompletionLast == Spec => []CompletionIsLast
<1>1. AnswerInv => CompletionIsLast  BY DEF AnswerInv
<1>. QED  BY <1>1, AnswerCorrect, PTL

-----------------------------------------------------------------------------
(* The graph as ApprovalFlow sees it *)

(* Where the request is that invokes the graph, in the terms of            *)
(* ApprovalFlow: the run request in "graph", an approve request in         *)
(* "resume", either of them in "answer" once the tool was executed, and in *)
(* "update" when the graph has ended.                                      *)
Place == IF node = "END" THEN "update"
         ELSE IF toolRuns # 0 THEN "answer"
         ELSE IF st.resumed THEN "resume" ELSE "graph"

Invoking == Place \in {"graph", "resume", "answer"}

flowView == <<Place, row, status, toolRuns>>

(* The actions of ApprovalFlow on this view: execute_tool, end_graph,      *)
(* ask_for_approval with the create_approval that follows or fails, and    *)
(* the two decisions.                                                      *)
FlowExecutes ==
  /\ Place \in {"graph", "resume"} /\ Place' = "answer"
  /\ toolRuns' = toolRuns + 1
  /\ UNCHANGED <<row, status>>

FlowEnds ==
  /\ Invoking /\ Place' = "update"
  /\ status' \in {"completed", "failed"}
  /\ UNCHANGED <<row, toolRuns>>

FlowAsks ==
  /\ Place = "graph" /\ Place' = "update"
  /\ status' \in {"waiting_approval", "failed"}
  /\ row = "none" /\ row' \in {"none", "pending"}
  /\ UNCHANGED toolRuns

FlowApproves ==
  /\ Place = "update" /\ Place' = "resume"
  /\ row = "pending" /\ row' = "approved"
  /\ status' = "running"
  /\ UNCHANGED toolRuns

FlowDenies ==
  /\ Place = "update" /\ Place' = "update"
  /\ row = "pending" /\ row' = "denied"
  /\ status' = "cancelled"
  /\ UNCHANGED toolRuns

FlowStep ==
  FlowExecutes \/ FlowEnds \/ FlowAsks \/ FlowApproves \/ FlowDenies

LEMMA FlowStepCorrect ==
  ASSUME TypeOK, PauseInv, AnswerInv, [Next]_vars
  PROVE  [FlowStep]_flowView
<1> USE DEF Place
<1>0. st \in AgentState /\ toolRuns \in Nat
  BY DEF TypeOK
<1>1. CASE UNCHANGED vars
  BY <1>1 DEF vars, flowView
<1>2. CASE PassingNode /\ ~pause_for_approval /\ ~execute_tool /\ ~persist_run
  <2>1. /\ node # "END" /\ node' # "END"
        /\ UNCHANGED <<row, status, toolRuns>>
    BY <1>2
    DEF PassingNode, FromToolNodes, initialize_run, before_request_hooks,
        classify_request, before_skill_hooks, execute_skill,
        permission_check, approval_check, check_approval, after_tool_hooks,
        validate_result, retry_or_continue, after_skill_hooks,
        generate_response, before_response_hooks, after_request_hooks, At,
        Edge
  <2>2. st'.resumed = st.resumed
    BY <1>2, NodeKeeps DEF Keeps
  <2>. QED  BY <2>1, <2>2 DEF flowView
<1>3. CASE before_tool_hooks
  <2>1. /\ node = "before_tool_hooks" /\ node' = "permission_check"
        /\ UNCHANGED <<row, status, toolRuns>>
    BY <1>3 DEF before_tool_hooks, At, Edge
  <2>2. st'.resumed = st.resumed
    BY <1>0, <1>3
    DEF before_tool_hooks, Skip, Block, CountRetry, Heard, HeardApproval,
        AgentState
  <2>. QED  BY <2>1, <2>2 DEF flowView
<1>4. CASE tool_router
  <2>1. /\ node = "tool_router" /\ UNCHANGED <<row, toolRuns>>
        /\ st'.resumed = st.resumed
    BY <1>0, <1>4 DEF tool_router, Skip, RouterRaises, AgentState
  <2>2. \/ node' = "END" /\ status' = "failed"
        \/ node' # "END" /\ status' = status
    BY <1>4 DEF tool_router, needs_tool, RouterRaises, Return
  <2>. QED  BY <2>1, <2>2 DEF FlowStep, FlowEnds, Invoking, flowView
<1>5. CASE pause_for_approval
  <2>1. /\ node = "pause_for_approval" /\ node' = "END"
        /\ st' = st /\ toolRuns' = toolRuns
        /\ row' \in {row, "pending"} /\ status' = invoke_status(st)
    BY <1>5 DEF pause_for_approval, Return
  <2>2. /\ st.approval_required /\ ~st.approval_granted /\ ~st.resumed
        /\ row = "none" /\ toolRuns = 0
    BY <1>0, <2>1 DEF PauseInv, NodesToTool, NodesWithTool, AgentState
  <2>3. status' \in {"waiting_approval", "failed"}
    BY <2>1, <2>2 DEF invoke_status
  <2>. QED  BY <2>1, <2>2, <2>3 DEF FlowStep, FlowAsks
<1>6. CASE execute_tool
  <2>1. /\ node = "execute_tool" /\ node' = "after_tool_hooks"
        /\ UNCHANGED <<row, status>> /\ toolRuns' \in {toolRuns, toolRuns + 1}
    BY <1>6 DEF execute_tool, At, Edge
  <2>2. toolRuns = 0
    BY <2>1 DEF PauseInv, NodesToTool, NodesWithTool
  <2>3. st'.resumed = st.resumed
    BY <1>6, NodeKeeps DEF Keeps, PassingNode, FromToolNodes
  <2>. QED
    BY <2>1, <2>2, <2>3 DEF FlowStep, FlowExecutes, flowView
<1>7. CASE persist_run
  <2>1. /\ node = "persist_run" /\ node' = "END"
        /\ UNCHANGED <<row, toolRuns>> /\ status' = invoke_status(st)
    BY <1>7 DEF persist_run, Return
  <2>2. st.approval_required = st.approval_granted
    BY <2>1 DEF AnswerInv, AskingNodes
  <2>3. status' \in {"completed", "failed"}
    BY <1>0, <2>1, <2>2 DEF invoke_status, AgentState
  <2>. QED  BY <2>1, <2>3 DEF FlowStep, FlowEnds, Invoking
<1>8. CASE approve_run
  <2>1. /\ node = "END" /\ node' = "initialize_run" /\ st'.resumed
        /\ row = "pending" /\ row' = "approved" /\ status' = "running"
        /\ toolRuns' = toolRuns
    BY <1>8 DEF approve_run, DecideApproved, RestoredState, FreshState
  <2>2. toolRuns = 0
    BY <2>1 DEF PauseInv
  <2>. QED  BY <2>1, <2>2 DEF FlowStep, FlowApproves
<1>9. CASE cancel_run
  BY <1>9 DEF cancel_run, FlowStep, FlowDenies
<1>. QED
  BY <1>1, <1>2, <1>3, <1>4, <1>5, <1>6, <1>7, <1>8, <1>9
  DEF Next, GraphStep, BeforeToolNodes, PassingNode

(* What ApprovalFlow makes of an invocation is what the graph does,        *)
(* whatever hooks, skills and tools answer: it executes the tool once at   *)
(* most and does not ask afterwards, asks only in the first invocation and *)
(* ends there and then, and without having asked never ends with           *)
(* waiting_approval.                                                       *)
THEOREM GraphAsInFlow == Spec => [][FlowStep]_flowView
<1>1. TypeOK /\ PauseInv /\ AnswerInv /\ [Next]_vars => [FlowStep]_flowView
  BY FlowStepCorrect
<1>. QED
  BY <1>1, TypeCorrect, PauseCorrect, AnswerCorrect, PTL DEF Spec

-----------------------------------------------------------------------------
(* The tool of an approved request *)

(* Only a resumed run has an approved request. It carries the tool that    *)
(* was saved with the request, and gets past the tool only by executing    *)
(* it, being blocked or finding it disabled.                               *)
ResumeInv ==
  /\ row = "approved" => st.resumed
  /\ row # "none" => snap.tool # NoTool
  /\ st.resumed => st.tool = snap.tool
  /\ st.resumed /\ ~st.blocked /\ node \notin NodesToTool
       => toolRuns = 1 \/ st.tool \in DisabledTools

LEMMA ResumeStep ==
  ASSUME TypeOK, PauseInv, ResumeInv, [Next]_vars
  PROVE  ResumeInv'
<1>1. st \in AgentState /\ PauseInv'  BY PauseStep DEF TypeOK
<1>2. CASE GraphStep /\ ~st.resumed
  <2>1. ~st'.resumed
    BY <1>1, <1>2, NodeSettles, SkillSettles, ToolBeforeHooks DEF Settles
  <2>2. node # "END"  BY <1>2, NodeMoves
  <2>3. row = "none"  BY <1>2, <2>2 DEF PauseInv
  <2>4. CASE pause_for_approval
    <3>1. st.tool # NoTool
      BY <2>4 DEF pause_for_approval, PauseInv, NodesWithTool
    <3>2. \/ UNCHANGED <<row, snap>>
          \/ row' = "pending" /\ snap'.tool = st.tool
      BY <2>4 DEF pause_for_approval
    <3>. QED  BY <2>1, <2>3, <3>1, <3>2 DEF ResumeInv
  <2>5. CASE ~pause_for_approval
    <3>1. row' = row  BY <1>2, <2>5, NodeFlow
    <3>. QED  BY <2>1, <2>3, <3>1 DEF ResumeInv
  <2>. QED  BY <2>4, <2>5
<1>3. CASE GraphStep /\ st.resumed
  <2>1. /\ node # "END" /\ ~pause_for_approval
        /\ row = "approved"
    BY <1>3, NodeMoves DEF PauseInv, pause_for_approval
  <2>2. UNCHANGED <<row, snap>>
    BY <1>3, <2>1
    DEF GraphStep, BeforeToolNodes, FromToolNodes,
        initialize_run, before_request_hooks, classify_request,
        before_skill_hooks, execute_skill, tool_router, before_tool_hooks,
        permission_check, approval_check, execute_tool,
        after_tool_hooks, validate_result, retry_or_continue,
        after_skill_hooks, generate_response, before_response_hooks,
        after_request_hooks, persist_run, At
  <2>3. /\ st'.resumed
        /\ st.blocked => st'.blocked
    BY <1>1, <1>3, NodeSettles, SkillSettles, ToolBeforeHooks DEF Settles
  <2>4. st'.tool = st.tool
    <3>1. CASE tool_router \/ before_tool_hooks
      BY <1>3, <3>1 DEF tool_router, before_tool_hooks, skips_skill, Skip
    <3>2. CASE PassingNode
      BY <3>2, NodeKeeps DEF Keeps
    <3>. QED  BY <1>3, <3>1, <3>2 DEF GraphStep, BeforeToolNodes, PassingNode
  <2>5. ~st'.blocked /\ node' \notin NodesToTool
          => toolRuns' = 1 \/ st'.tool \in DisabledTools
    <3>1. CASE execute_tool
      <4>1. node = "execute_tool"  BY <3>1 DEF execute_tool, At
      <4>2. toolRuns = 0
        BY <4>1 DEF PauseInv, NodesToTool, NodesWithTool
      <4>. QED
        BY <2>3, <2>4, <3>1, <4>2 DEF execute_tool
    <3>2. CASE tool_router
      BY <1>3, <2>1, <3>2
      DEF ResumeInv, tool_router, skips_skill, needs_tool, NodesToTool,
          NodesWithTool, Skip
    <3>3. CASE BeforeToolNodes /\ ~tool_router
      BY <2>1, <3>3
      DEF BeforeToolNodes, NodesToTool, NodesWithTool,
          initialize_run, before_request_hooks, classify_request,
          before_skill_hooks, execute_skill, before_tool_hooks,
          permission_check, approval_check, check_approval, At, Edge
    <3>4. CASE FromToolNodes /\ ~execute_tool
      <4>1. node \notin NodesToTool /\ toolRuns' = toolRuns
        BY <3>4
        DEF FromToolNodes, NodesToTool, NodesWithTool, after_tool_hooks,
            validate_result, retry_or_continue, after_skill_hooks,
            generate_response, before_response_hooks, after_request_hooks,
            persist_run, At
      <4>. QED  BY <1>3, <2>3, <2>4, <4>1 DEF ResumeInv
    <3>. QED  BY <1>3, <3>1, <3>2, <3>3, <3>4 DEF GraphStep
  <2>. QED  BY <1>3, <2>1, <2>2, <2>3, <2>4, <2>5 DEF ResumeInv
<1>4. CASE approve_run
  <2>1. /\ st'.resumed /\ st'.tool = snap.tool /\ snap' = snap
        /\ row = "pending" /\ node' \in NodesToTool
    BY <1>4
    DEF approve_run, RestoredState, FreshState, NodesToTool, NodesWithTool
  <2>. QED  BY <2>1 DEF ResumeInv
<1>5. CASE cancel_run
  BY <1>5 DEF cancel_run, ResumeInv
<1>6. CASE UNCHANGED vars
  BY <1>6 DEF vars, ResumeInv
<1>. QED  BY <1>2, <1>3, <1>4, <1>5, <1>6 DEF Next

(* An approved run that ends unblocked has executed the very tool the      *)
(* request was about, unless that is disabled: no node of the resumed      *)
(* invocation loses it, changes it or goes around it.                      *)
THEOREM ApprovedIsAttempted == Spec => []ApprovedToolIsAttempted
<1>1. Init => ResumeInv
  BY DEF Init, FreshState, ResumeInv
<1>2. TypeOK /\ PauseInv /\ ResumeInv /\ [Next]_vars => ResumeInv'
  BY ResumeStep
<1>3. ResumeInv => ApprovedToolIsAttempted
  BY DEF ResumeInv, ApprovedToolIsAttempted, NodesToTool, NodesWithTool
<1>. QED  BY <1>1, <1>2, <1>3, TypeCorrect, PauseCorrect, PTL DEF Spec

-----------------------------------------------------------------------------
(* Tools that require approval *)

NeedsApproval(tool) == Permission[tool] = "REQUIRE_APPROVAL"

(* Nothing in the graph reads the permission REQUIRE_APPROVAL: that it has *)
(* an effect is up to the before_tool hooks, which must ask or block for   *)
(* every tool that has it.                                                 *)
HooksAskForApproval ==
  \A t \in Tools :
    NeedsApproval(t) => BeforeTool[t] \subseteq {"BLOCK", "APPROVAL_REQUIRED"}

WiredInv ==
  /\ /\ node \in AskingNodes \cup {"execute_tool"} /\ ~st.blocked
     /\ NeedsApproval(st.tool)
     => st.approval_required
  /\ toolRuns > 0 /\ NeedsApproval(st.tool) => st.approval_required

LEMMA WiredStep ==
  ASSUME HooksAskForApproval, TypeOK, PauseInv, WiredInv, [Next]_vars
  PROVE  WiredInv'
<1>1. st \in AgentState /\ toolRuns \in Nat  BY DEF TypeOK
<1>2. CASE before_tool_hooks
  <2>1. /\ node = "before_tool_hooks" /\ toolRuns' = toolRuns
    BY <1>2 DEF before_tool_hooks, At
  <2>2. toolRuns = 0 /\ st.tool \in Tools
    BY <1>2, <2>1, ToolBeforeHooks DEF PauseInv, NodesToTool, NodesWithTool
  <2>3. ASSUME ~st'.blocked, NeedsApproval(st'.tool)
        PROVE  st'.approval_required
    <3>1. CASE skips_skill(st) /\ Skip
      BY <2>3, <3>1 DEF skips_skill, Skip, PauseInv
    <3>2. CASE ~(skips_skill(st) /\ Skip)
      <4>1. PICK a \in BeforeTool[st.tool] :
              \/ a = "BLOCK" /\ st' = Block(Heard(a), "text")
              \/ a = "APPROVAL_REQUIRED" /\ st' = HeardApproval(a)
              \/ a = "RETRY" /\ st' = CountRetry(Heard(a))
              \/ a \in {"CONTINUE", "MODIFY"} /\ st' = Heard(a)
        BY <1>2, <3>2 DEF before_tool_hooks
      <4>2. st'.tool = st.tool
        BY <1>1, <4>1
        DEF Block, HeardApproval, CountRetry, Heard, AgentState
      <4>3. a \in {"BLOCK", "APPROVAL_REQUIRED"}
        BY <2>2, <2>3, <4>2 DEF HooksAskForApproval
      <4>. QED
        BY <1>1, <2>3, <4>1, <4>3
        DEF Block, HeardApproval, Heard, AgentState
    <3>. QED  BY <3>1, <3>2
  <2>. QED  BY <2>1, <2>2, <2>3 DEF WiredInv
<1>3. CASE tool_router
  <2>1. node = "tool_router" /\ toolRuns' = toolRuns
        /\ node' \notin AskingNodes \cup {"execute_tool"}
    BY <1>3
    DEF tool_router, needs_tool, RouterRaises, Return, AskingNodes
  <2>2. toolRuns = 0  BY <2>1 DEF PauseInv, NodesToTool, NodesWithTool
  <2>. QED  BY <2>1, <2>2 DEF WiredInv
<1>4. CASE PassingNode
  <2>1. Keeps(st, st')  BY <1>4, NodeKeeps
  <2>2. st.blocked => st'.blocked
    <3>1. GraphStep
      BY <1>4 DEF PassingNode, GraphStep, BeforeToolNodes
    <3>2. CASE execute_skill
      BY <3>2, SkillSettles
    <3>. QED  BY <3>1, <3>2, NodeSettles, ToolBeforeHooks DEF Settles
  <2>3. /\ node' \in AskingNodes \cup {"execute_tool"}
             => node \in AskingNodes
        /\ toolRuns' # toolRuns => node = "execute_tool" /\ ~st.blocked
    BY <1>4
    DEF PassingNode, FromToolNodes, AskingNodes, initialize_run,
        before_request_hooks, classify_request, before_skill_hooks,
        execute_skill, permission_check, approval_check, pause_for_approval,
        check_approval, execute_tool, after_tool_hooks, validate_result,
        retry_or_continue, after_skill_hooks, generate_response,
        before_response_hooks, after_request_hooks, persist_run, At, Edge,
        Return
  <2>. QED  BY <2>1, <2>2, <2>3 DEF WiredInv, Keeps
<1>5. CASE approve_run
  <2>1. toolRuns' = 0 /\ node' = "initialize_run"
    BY <1>5 DEF approve_run, PauseInv
  <2>. QED  BY <2>1 DEF WiredInv, AskingNodes
<1>6. CASE cancel_run
  BY <1>6 DEF cancel_run, WiredInv
<1>7. CASE UNCHANGED vars
  BY <1>7 DEF vars, WiredInv
<1>. QED
  BY <1>2, <1>3, <1>4, <1>5, <1>6, <1>7
  DEF Next, GraphStep, BeforeToolNodes, PassingNode

(* A tool with the permission REQUIRE_APPROVAL is executed only after the  *)
(* request was approved, provided the before_tool hooks ask or block for   *)
(* each such tool, whatever else they and the other hooks do.              *)
THEOREM RequireApprovalIsKept ==
  ASSUME HooksAskForApproval PROVE Spec => []RequireApprovalHolds
<1>1. Init => WiredInv
  BY DEF Init, WiredInv, AskingNodes
<1>2. TypeOK /\ PauseInv /\ WiredInv /\ [Next]_vars => WiredInv'
  BY WiredStep
<1>3. ASSUME TypeOK, PauseInv, AskInv, WiredInv
      PROVE  RequireApprovalHolds
  BY <1>3 DEF AskInv, WiredInv, NeedsApproval, RequireApprovalHolds
<1>. QED
  BY <1>1, <1>2, <1>3, TypeCorrect, PauseCorrect, AskCorrect, PTL DEF Spec

(* The hooks and tools of main.py meet the condition: the one tool with    *)
(* the permission is the one human_approval asks for, so with the built-in *)
(* hooks the promise of SECURITY.md:27 holds.                              *)
COROLLARY BuiltinApprovalIsKept ==
  ASSUME Tools = BuiltinTools, BeforeTool = BuiltinBeforeTool,
         \A t \in Tools : NeedsApproval(t) => t = "python_executor"
  PROVE  Spec => []RequireApprovalHolds
<1>1. HooksAskForApproval
  BY DEF HooksAskForApproval, BuiltinBeforeTool, BuiltinTools,
         human_approval, tool_permission, APPROVAL_REQUIRED_TOOLS
<1>. QED  BY <1>1, RequireApprovalIsKept
=============================================================================
