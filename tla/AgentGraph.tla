----------------------------- MODULE AgentGraph -----------------------------
(***************************************************************************)
(* One agent run: the LangGraph workflow of backend/app/agents (graph.py,  *)
(* nodes.py, runtime.py), the pause that leaves an approval request        *)
(* behind, and the second invocation that approve_run starts from the      *)
(* saved snapshot. LangGraph runs one node at a time and hands each node   *)
(* the whole state, so a node is one action. What the hooks, the skill and *)
(* the tool answer is chosen by the environment from the sets below.       *)
(*                                                                         *)
(* The requests about one run are served one after the other here;         *)
(* ApprovalFlow is the model in which they overlap.                        *)
(***************************************************************************)
EXTENDS Naturals, Sequences

CONSTANTS
  HookActions,     \* lifecycle event -> the actions its pipeline may return
  BeforeTool,      \* tool -> the actions of the before_tool pipeline for it
  Tools,           \* names a skill result may give under its key "tool"
  NoTool,          \* the empty tool name
  Permission,      \* tool -> its ToolPermission, or "unregistered"
  DisabledTools,   \* registered tools whose metadata has enabled = False
  SelectOutcomes,  \* what SkillSelector.select and the registry come up with
  SkillResults,    \* how a skill that names no tool may end
  ToolOutcomes,    \* how the body of a tool may end
  ErrorTexts,      \* the texts of the errors skills and tools report
  PersistOutcomes  \* whether the database accepts the pause

Action == {"CONTINUE", "MODIFY", "RETRY", "BLOCK", "APPROVAL_REQUIRED"}

HookPoint == {"before_request", "before_skill", "after_tool", "after_response",
              "after_skill", "before_response"}

ToolPermission == {"ALWAYS_ALLOW", "REQUIRE_CONFIRM", "DENY",
                   "REQUIRE_APPROVAL"}

ASSUME GraphAssumption ==
  /\ HookActions \in [HookPoint -> SUBSET Action]
  /\ BeforeTool \in [Tools -> SUBSET Action]
  /\ NoTool \notin Tools
  /\ Tools \cap {"none", "null", "direct"} = {}
  /\ Permission \in [Tools -> ToolPermission \cup {"unregistered"}]
  /\ DisabledTools \subseteq Tools
  /\ SelectOutcomes \subseteq {"none", "missing", "found"}
  /\ SkillResults \subseteq {"raises", "null", "direct"}
  /\ ToolOutcomes \subseteq {"ok", "failed"}
  /\ ErrorTexts \subseteq {"empty", "text"}
  /\ PersistOutcomes \subseteq {"saved", "lost"}

VARIABLES
  node,      \* the node LangGraph runs next; "END" once ainvoke has returned
  st,        \* the AgentState
  log,       \* the events emitted for the run, in order
  row,       \* status of the run's ApprovalRequest row
  snap,      \* what pause_for_approval saved in state_snapshot
  status,    \* the status the invocation returned to the API
  toolRuns   \* history: how often the body of a tool was executed

vars == <<node, st, log, row, snap, status, toolRuns>>

-----------------------------------------------------------------------------
(* Data *)

MAX_RETRIES == 2

EventType == {"request_received", "hook_started", "hook_completed", "error",
              "retry_started", "skill_selected", "skill_started",
              "skill_completed", "tool_started", "tool_completed",
              "approval_required", "approval_granted", "response_generated",
              "run_completed"}

EventStatus == {"running", "completed", "failed", "blocked",
                "waiting_approval", "approved"}

Event(type, stat) == [type |-> type, status |-> stat]

SkillOutput == {"none", "null", "direct"} \cup Tools

Snapshot ==
  [tool : Tools \cup {NoTool}, retry_count : Nat, skill_output : SkillOutput]

NoSnapshot == [tool |-> NoTool, retry_count |-> 0, skill_output |-> "none"]

AgentState ==
  [blocked : BOOLEAN, error : {"none", "empty", "text"}, retry_count : Nat,
   hook_results : SUBSET Action,
   skill : {"none", "missing", "found"}, skill_output : SkillOutput,
   tool : Tools \cup {NoTool}, tool_output : {"none", "ok", "failed"},
   approval_required : BOOLEAN, approval_granted : BOOLEAN,
   resumed : BOOLEAN, completed : BOOLEAN]

(* The state AgentRuntime.run builds: every other field at its default. *)
FreshState ==
  [blocked |-> FALSE, error |-> "none", retry_count |-> 0,
   hook_results |-> {}, skill |-> "none", skill_output |-> "none",
   tool |-> NoTool, tool_output |-> "none",
   approval_required |-> FALSE, approval_granted |-> FALSE,
   resumed |-> FALSE, completed |-> FALSE]

\* faulty variants, for the mutation runs
RestoredWithoutTool(s) ==
  [FreshState EXCEPT !.retry_count = s.retry_count, !.skill = "found",
                     !.skill_output = s.skill_output,
                     !.approval_required = TRUE, !.approval_granted = TRUE,
                     !.resumed = TRUE]
RestoredUngranted(s) ==
  [FreshState EXCEPT !.tool = s.tool, !.retry_count = s.retry_count,
                     !.skill = "found", !.skill_output = s.skill_output,
                     !.approval_required = TRUE, !.resumed = TRUE]

(* The state approve_run rebuilds from the snapshot and resume completes:  *)
(* blocked, error, hook_results and tool_output are not in the snapshot.   *)
RestoredState(s) ==
  [FreshState EXCEPT !.tool = s.tool, !.retry_count = s.retry_count,
                     !.skill = "found", !.skill_output = s.skill_output,
                     !.approval_required = TRUE, !.approval_granted = TRUE,
                     !.resumed = TRUE]

(* state.error as a condition: None and the empty string are false. *)
HasError(s) == s.error = "text"

InvokeIgnoresError(s) ==
  IF s.approval_required /\ ~s.approval_granted
  THEN "waiting_approval" ELSE "completed"

(* The status AgentRuntime._invoke derives from the final state. *)
invoke_status(s) ==
  IF HasError(s) THEN "failed"
  ELSE IF s.approval_required /\ ~s.approval_granted
  THEN "waiting_approval" ELSE "completed"

-----------------------------------------------------------------------------
(* The graph *)

(* The unconditional edges of build_graph. *)
Edge ==
  [initialize_run |-> "before_request_hooks",
   before_request_hooks |-> "classify_request",
   classify_request |-> "before_skill_hooks",
   before_skill_hooks |-> "execute_skill",
   execute_skill |-> "tool_router",
   before_tool_hooks |-> "permission_check",
   permission_check |-> "approval_check",
   execute_tool |-> "after_tool_hooks",
   after_tool_hooks |-> "validate_result",
   validate_result |-> "retry_or_continue",
   retry_or_continue |-> "after_skill_hooks",
   after_skill_hooks |-> "generate_response",
   generate_response |-> "before_response_hooks",
   before_response_hooks |-> "after_request_hooks",
   after_request_hooks |-> "persist_run"]

Node == DOMAIN Edge \cup {"tool_router", "approval_check",
                          "pause_for_approval", "persist_run", "END"}

RoutesBackUntilTool(s) ==
  IF s.tool = NoTool THEN "tool_router"
  ELSE IF s.blocked THEN "after_skill_hooks" ELSE "before_tool_hooks"

needs_tool(s) ==
  IF s.blocked \/ s.tool = NoTool THEN "after_skill_hooks"
  ELSE "before_tool_hooks"

(* Does not look at blocked. *)
check_approval(s) ==
  IF s.approval_required /\ ~s.approval_granted THEN "pause_for_approval"
  ELSE "execute_tool"

(* The node runs to its end and LangGraph follows its only edge. *)
At(n) ==
  /\ node = n
  /\ node' = Edge[n]
  /\ UNCHANGED <<row, snap, status>>

(* ainvoke returned or raised, and _invoke made a status of it. *)
Return(result) ==
  /\ node' = "END"
  /\ status' = result

Emit(events) == log' = log \o events

Skip == UNCHANGED <<st, log>>

Block(s, text) == [s EXCEPT !.blocked = TRUE, !.error = text]

CountRetryDown(s) == [s EXCEPT !.retry_count = @ - 1]

CountRetry(s) == [s EXCEPT !.retry_count = @ + 1]

(* hook_results.append(result) *)
Heard(a) == [st EXCEPT !.hook_results = @ \cup {a}]

HookEvents(a) ==
  <<Event("hook_started", "running"),
    Event("hook_completed", IF a = "BLOCK" THEN "blocked" ELSE "completed")>>

-----------------------------------------------------------------------------
(* The nodes *)

initialize_run ==
  /\ At("initialize_run")
  /\ Emit(IF st.resumed THEN <<>> ELSE <<Event("request_received", "running")>>)
  /\ UNCHANGED <<st, toolRuns>>

(* The early return of the nodes before permission_check. *)
skips_skill(s) == s.blocked \/ s.resumed

before_request_hooks ==
  /\ At("before_request_hooks")
  /\ \/ skips_skill(st) /\ Skip
     \/ /\ ~skips_skill(st)
        /\ \E a \in HookActions["before_request"] :
             \/ /\ a = "BLOCK"
                /\ st' = Block(Heard(a), "text")
                /\ Emit(HookEvents(a) \o <<Event("error", "blocked")>>)
             \/ /\ a = "RETRY" /\ st.retry_count < MAX_RETRIES
                /\ st' = CountRetry(Heard(a))
                /\ Emit(HookEvents(a) \o <<Event("retry_started", "running")>>)
             \/ /\ a # "BLOCK"
                /\ a = "RETRY" => st.retry_count >= MAX_RETRIES
                /\ st' = Heard(a)
                /\ Emit(HookEvents(a))
  /\ UNCHANGED toolRuns

classify_request ==
  /\ At("classify_request")
  /\ \/ skips_skill(st) /\ Skip
     \/ /\ ~skips_skill(st)
        /\ \E o \in SelectOutcomes :
             \/ /\ o = "none"
                /\ st' = Block(st, "text")
                /\ Emit(<<Event("skill_selected", "completed"),
                          Event("error", "failed")>>)
             \/ /\ o # "none"
                /\ st' = [st EXCEPT !.skill = o]
                /\ Emit(<<Event("skill_selected", "completed")>>)
  /\ UNCHANGED toolRuns

before_skill_hooks ==
  /\ At("before_skill_hooks")
  /\ \/ skips_skill(st) /\ Skip
     \/ /\ ~skips_skill(st)
        /\ \E a \in HookActions["before_skill"] :
             /\ Emit(HookEvents(a))
             /\ \/ a = "BLOCK" /\ st' = Block(Heard(a), "text")
                \/ a = "RETRY" /\ st' = CountRetry(Heard(a))
                \/ a \notin {"BLOCK", "RETRY"} /\ st' = Heard(a)
  /\ UNCHANGED toolRuns

SkillRaises(text) ==
  /\ Emit(<<Event("skill_started", "running"), Event("error", "failed")>>)
  /\ st' = IF st.retry_count < MAX_RETRIES
           THEN CountRetry([st EXCEPT !.error = text])
           ELSE Block(st, text)

SkillReturns(output) ==
  /\ Emit(<<Event("skill_started", "running"),
            Event("skill_completed", "completed")>>)
  /\ st' = [st EXCEPT !.skill_output = output]

(* "missing": the selected id has left the registry in the meantime. *)
execute_skill ==
  /\ At("execute_skill")
  /\ \/ skips_skill(st) /\ Skip
     \/ /\ ~skips_skill(st) /\ st.skill = "missing"
        /\ st' = Block(st, "text")
        /\ Emit(<<Event("error", "failed")>>)
     \/ /\ ~skips_skill(st) /\ st.skill = "found"
        /\ "raises" \in SkillResults
        /\ \E text \in ErrorTexts : SkillRaises(text)
     \/ /\ ~skips_skill(st) /\ st.skill = "found"
        /\ \E output \in (SkillResults \ {"raises"}) \cup Tools :
             SkillReturns(output)
  /\ UNCHANGED toolRuns

RouterEmitsSkipped ==
  /\ log' = Append(log, Event("tool_started", "completed"))
  /\ node' = needs_tool(st)
  /\ UNCHANGED <<st, status>>

(* Building the event evaluates Status.skipped, a member Status does not   *)
(* have: the AttributeError leaves the node and aborts the graph.          *)
RouterRaises ==
  /\ Return("failed")
  /\ Skip

tool_router ==
  /\ node = "tool_router"
  /\ \/ /\ skips_skill(st) \/ st.skill_output = "direct"
        /\ node' = needs_tool(st)
        /\ Skip /\ UNCHANGED status
     \/ /\ ~skips_skill(st) /\ st.skill_output \in {"none", "null"}
        /\ RouterRaises
     \/ /\ ~skips_skill(st) /\ st.skill_output \in Tools
        /\ st' = [st EXCEPT !.tool = st.skill_output]
        /\ Emit(<<Event("tool_started", "running")>>)
        /\ node' = needs_tool(st')
        /\ UNCHANGED status
  /\ UNCHANGED <<row, snap, toolRuns>>

HeardApprovalIgnored(a) == Heard(a)

(* What before_tool_hooks makes of an APPROVAL_REQUIRED result. *)
HeardApproval(a) == [Heard(a) EXCEPT !.approval_required = TRUE]

before_tool_hooks ==
  /\ At("before_tool_hooks")
  /\ \/ skips_skill(st) /\ Skip
     \/ /\ ~skips_skill(st)
        /\ \E a \in BeforeTool[st.tool] :
             \/ /\ a = "BLOCK"
                /\ st' = Block(Heard(a), "text")
                /\ Emit(HookEvents(a))
             \/ /\ a = "APPROVAL_REQUIRED"
                /\ st' = HeardApproval(a)
                /\ Emit(HookEvents(a) \o
                        <<Event("approval_required", "waiting_approval")>>)
             \/ /\ a = "RETRY"
                /\ st' = CountRetry(Heard(a))
                /\ Emit(HookEvents(a))
             \/ /\ a \in {"CONTINUE", "MODIFY"}
                /\ st' = Heard(a)
                /\ Emit(HookEvents(a))
  /\ UNCHANGED toolRuns

forbiddenUnregisteredOnly(tool) == Permission[tool] = "unregistered"

(* registry.get gives None, or the tool's permission is DENY. *)
forbidden(tool) == Permission[tool] \in {"unregistered", "DENY"}

(* Also runs in a resumed invocation. *)
permission_check ==
  /\ At("permission_check")
  /\ st' = IF ~st.blocked /\ forbidden(st.tool) THEN Block(st, "text") ELSE st
  /\ UNCHANGED <<log, toolRuns>>

approval_check ==
  /\ node = "approval_check"
  /\ node' = check_approval(st)
  /\ IF ~st.blocked /\ st.approval_required /\ st.approval_granted
     THEN Emit(<<Event("approval_granted", "approved")>>)
     ELSE UNCHANGED log
  /\ UNCHANGED <<st, row, snap, status, toolRuns>>

(* create_approval and update_run share one try: whatever fails is logged  *)
(* and the run pauses all the same.                                        *)
pause_for_approval ==
  /\ node = "pause_for_approval"
  /\ \E outcome \in PersistOutcomes :
       IF outcome = "lost"
       THEN UNCHANGED <<row, snap>>
       ELSE /\ row' = "pending"
            /\ snap' = [tool |-> st.tool, retry_count |-> st.retry_count,
                        skill_output |-> st.skill_output]
  /\ Emit(<<Event("approval_required", "waiting_approval")>>)
  /\ Return(invoke_status(st))
  /\ UNCHANGED <<st, toolRuns>>

ToolSucceeds ==
  /\ st' = [st EXCEPT !.tool_output = "ok"]
  /\ Emit(<<Event("tool_completed", "completed")>>)

ToolFails(text) ==
  /\ Emit(<<Event("error", "failed")>>)
  /\ st' = IF st.retry_count < MAX_RETRIES
           THEN CountRetry([st EXCEPT !.tool_output = "failed"])
           ELSE Block([st EXCEPT !.tool_output = "failed"], text)

(* ToolExecutor.execute runs the body of an enabled tool only and turns    *)
(* everything that goes wrong, a timeout included, into a failed output.   *)
execute_tool ==
  /\ At("execute_tool")
  /\ \/ st.blocked /\ Skip /\ UNCHANGED toolRuns
     \/ /\ ~st.blocked /\ st.tool \in DisabledTools
        /\ ToolFails("text")
        /\ UNCHANGED toolRuns
     \/ /\ ~st.blocked /\ st.tool \notin DisabledTools
        /\ toolRuns' = toolRuns + 1
        /\ \/ "ok" \in ToolOutcomes /\ ToolSucceeds
           \/ /\ "failed" \in ToolOutcomes
              /\ \E text \in ErrorTexts : ToolFails(text)

after_tool_hooks ==
  /\ At("after_tool_hooks")
  /\ \/ st.blocked /\ UNCHANGED st
     \/ /\ ~st.blocked
        /\ \E a \in HookActions["after_tool"] :
             st' = IF a = "BLOCK" THEN Block(Heard(a), "text") ELSE Heard(a)
  /\ UNCHANGED <<log, toolRuns>>

(* The after_response pipeline runs here; its modifications are dropped.   *)
(* A failed tool is counted as a retry, but no edge leads back to it.      *)
validate_result ==
  /\ At("validate_result")
  /\ \/ st.blocked /\ Skip
     \/ /\ ~st.blocked
        /\ \E a \in HookActions["after_response"] :
             \/ /\ a = "BLOCK"
                /\ st' = Block(Heard(a), "text")
                /\ UNCHANGED log
             \/ /\ a # "BLOCK"
                /\ st.tool_output = "failed" /\ st.retry_count < MAX_RETRIES
                /\ st' = CountRetry(Heard(a))
                /\ Emit(<<Event("retry_started", "running")>>)
             \/ /\ a # "BLOCK"
                /\ ~(st.tool_output = "failed" /\ st.retry_count < MAX_RETRIES)
                /\ st' = Heard(a)
                /\ UNCHANGED log
  /\ UNCHANGED toolRuns

retry_or_continue ==
  /\ At("retry_or_continue")
  /\ Skip /\ UNCHANGED toolRuns

(* The result is recorded and not acted upon. *)
after_skill_hooks ==
  /\ At("after_skill_hooks")
  /\ \/ st.blocked /\ UNCHANGED st
     \/ ~st.blocked /\ \E a \in HookActions["after_skill"] : st' = Heard(a)
  /\ UNCHANGED <<log, toolRuns>>

generate_response ==
  /\ At("generate_response")
  /\ IF st.blocked
     THEN UNCHANGED log
     ELSE Emit(<<Event("response_generated", "completed")>>)
  /\ UNCHANGED <<st, toolRuns>>

(* Only a MODIFY result would have an effect, on the response's data. *)
before_response_hooks ==
  /\ At("before_response_hooks")
  /\ \E a \in HookActions["before_response"] : st' = Heard(a)
  /\ UNCHANGED <<log, toolRuns>>

(* The result of the pipeline is not even recorded. *)
after_request_hooks ==
  /\ At("after_request_hooks")
  /\ Skip /\ UNCHANGED toolRuns

persist_run ==
  /\ node = "persist_run"
  /\ st' = [st EXCEPT !.completed = TRUE]
  /\ Emit(<<Event("run_completed",
                  IF HasError(st) THEN "failed" ELSE "completed")>>)
  /\ Return(invoke_status(st))
  /\ UNCHANGED <<row, snap, toolRuns>>

-----------------------------------------------------------------------------
(* The API handlers that decide on the pending request, one at a time. *)

LeaveUndecided == UNCHANGED row

DecideApproved == row' = "approved"

approve_run ==
  /\ node = "END" /\ row = "pending"
  /\ DecideApproved
  /\ st' = RestoredState(snap)
  /\ node' = "initialize_run"
  /\ status' = "running"
  /\ UNCHANGED <<log, snap, toolRuns>>

cancel_run ==
  /\ node = "END" /\ row = "pending"
  /\ row' = "denied"
  /\ status' = "cancelled"
  /\ UNCHANGED <<node, st, log, snap, toolRuns>>

Init ==
  /\ node = "initialize_run"
  /\ st = FreshState
  /\ log = <<>>
  /\ row = "none"
  /\ snap = NoSnapshot
  /\ status = "running"
  /\ toolRuns = 0

BeforeToolNodes ==
  \/ initialize_run \/ before_request_hooks \/ classify_request
  \/ before_skill_hooks \/ execute_skill \/ tool_router
  \/ before_tool_hooks \/ permission_check \/ approval_check
  \/ pause_for_approval

FromToolNodes ==
  \/ execute_tool \/ after_tool_hooks \/ validate_result
  \/ retry_or_continue \/ after_skill_hooks \/ generate_response
  \/ before_response_hooks \/ after_request_hooks \/ persist_run

GraphStep == BeforeToolNodes \/ FromToolNodes

Next == GraphStep \/ approve_run \/ cancel_run

Spec == Init /\ [][Next]_vars

(* LangGraph schedules the next node as long as there is one; whether      *)
(* anybody ever decides on a request is up to the user.                    *)
FairSpec == Spec /\ WF_vars(GraphStep)
-----------------------------------------------------------------------------
(* Properties *)

Contract == INSTANCE RunContract WITH
  phase <- IF node # "END" THEN "working"
           ELSE IF row = "pending" THEN "waiting" ELSE "over",
  approval <- row,
  executions <- toolRuns

(* Every value is of its kind: nodes, AgentState fields, events.           *)
TypeOK ==
  /\ node \in Node
  /\ st \in AgentState
  /\ log \in Seq([type : EventType, status : EventStatus])
  /\ row \in {"none", "pending", "approved", "denied"}
  /\ snap \in Snapshot
  /\ status \in {"running", "completed", "failed", "waiting_approval",
                 "cancelled"}
  /\ toolRuns \in Nat

NodesWithTool ==
  {"before_tool_hooks", "permission_check", "approval_check",
   "pause_for_approval", "execute_tool"}

(* The nodes up to the body of the tool. *)
NodesToTool ==
  NodesWithTool \cup
  {"initialize_run", "before_request_hooks", "classify_request",
   "before_skill_hooks", "execute_skill", "tool_router"}

Emitted(type) == \E i \in 1..Len(log) : log[i].type = type

(* Pause, decision and resume keep the contract of RunContract: one        *)
(* execution at most, none while a request is pending or after a denial.   *)
ImplementsContract == Contract!ContractSpec

(* What makes the contract hold: a resumed state is exactly a granted one, *)
(* exists only while the request is approved, and a first invocation has   *)
(* no request yet; the tool is reached at most once, after check_approval, *)
(* and not before a pending request is decided.                            *)
PauseInv ==
  /\ st.approval_granted = st.resumed
  /\ st.resumed => st.approval_required
  /\ node # "END" => row = IF st.resumed THEN "approved" ELSE "none"
  /\ node \in NodesToTool \/ row = "pending" => toolRuns = 0
  /\ node = "execute_tool" => st.approval_required = st.approval_granted
  /\ node = "pause_for_approval"
       => st.approval_required /\ ~st.approval_granted
  /\ node \in NodesWithTool => st.tool # NoTool
  /\ toolRuns \in {0, 1}

(* When a hook has asked for approval, the body of the tool has run only   *)
(* if the request was approved. The question is taken from the events, not *)
(* from the flag the nodes pass along.                                     *)
AskedToolNeedsApproval ==
  toolRuns > 0 /\ Emitted("approval_required") => row = "approved"

(* A tool that is denied or unregistered is never executed, whatever the   *)
(* hooks said and even in a resumed run, which skips the hooks.            *)
ForbiddenToolNeverRuns ==
  toolRuns > 0 => Permission[st.tool] \notin {"DENY", "unregistered"}

(* A blocked run is not reported as completed, unless what blocked it was  *)
(* an error with an empty text, which _invoke takes for no error.          *)
BlockedIsNotCompleted ==
  node = "END" /\ st.blocked /\ status = "completed" => st.error = "empty"

(* A run that announced its response with response_generated is returned   *)
(* as completed: no later node turns it into a failure.                    *)
AnnouncedResponseStands ==
  node = "END" /\ Emitted("response_generated") => status = "completed"

(* run_completed is emitted at most once in the life of a run, paused and  *)
(* resumed or not, and it is the last event.                               *)
CompletionIsLast ==
  \A i \in 1..Len(log) : log[i].type = "run_completed" => i = Len(log)

(* The resumed invocation gets to the tool the request was about: an       *)
(* approved run that ends completed and unblocked has executed it, or the  *)
(* tool is disabled.                                                       *)
ApprovedToolIsAttempted ==
  node = "END" /\ row = "approved" /\ ~st.blocked
    => st.tool = snap.tool /\ (toolRuns = 1 \/ st.tool \in DisabledTools)

(* Every invocation returns a status to the API.                           *)
EventuallyReturns == node # "END" ~> node = "END"

(* SECURITY.md:27: a tool with the permission REQUIRE_APPROVAL is executed *)
(* only after a human approved it.                                         *)
RequireApprovalHolds ==
  toolRuns > 0 /\ Permission[st.tool] = "REQUIRE_APPROVAL"
    => row = "approved"
=============================================================================
