---------------------------- MODULE ApprovalFlow ----------------------------
(***************************************************************************)
(* The requests about one agent run, served concurrently by the API: POST  *)
(* /agents/run, POST /runs/{id}/approve and POST /runs/{id}/cancel         *)
(* (api/agents.py, api/approvals.py) over the tables agent_runs and        *)
(* approval_requests (database/repository.py, core/service.py).            *)
(*                                                                         *)
(* A request runs without interruption from one await to the next, so each *)
(* repository call, which ends in a commit, is an action. An invocation of *)
(* the graph is reduced to what AgentGraph shows of it: it executes the    *)
(* tool, or asks for approval, or does neither, and ends with a status.    *)
(* A request has a database session of its own. Nothing rolls a session    *)
(* back, so once a flush has failed every later call on it fails as well.  *)
(* What a tool, a skill or a hook returned may be of any type: JSON may be *)
(* unable to encode it, and the model of the answer may reject it.         *)
(***************************************************************************)
EXTENDS Naturals

CONSTANTS
  Run,          \* the request that runs the agent
  Approvers,    \* the requests that approve the run
  Cancellers,   \* the requests that cancel it
  OneAtATime,   \* clients send a request only when the last one is answered
  MaxFaults,    \* bound on the database calls that fail
  MaxCrashes    \* bound on the restarts of the server

Deciders == Approvers \cup Cancellers
Handlers == {Run} \cup Deciders

ASSUME FlowAssumption ==
  /\ Run \notin Deciders
  /\ Approvers \cap Cancellers = {}
  /\ OneAtATime \in BOOLEAN
  /\ MaxFaults \in Nat
  /\ MaxCrashes \in Nat

VARIABLES
  runStatus,  \* agent_runs.status, "absent" before the row is inserted
  approval,   \* approval_requests.status, "none" before the row is inserted
  pc,         \* where each request is
  result,     \* the status its invocation of the graph returned
  poisoned,   \* a flush on its session has failed
  exec,       \* history: how often the request has executed the tool
  reply,      \* the answer its client got
  lost,       \* history: the requests of which a database call failed or a value
              \* could not be encoded, or that a restart cut off
  faults,
  crashes

tables == <<runStatus, approval>>
vars == <<runStatus, approval, pc, result, poisoned, exec, reply, lost,
          faults, crashes>>

Decided == {"approved", "denied"}
Final == {"completed", "failed", "cancelled"}

Location == {"idle", "graph", "answer", "persist", "mark", "update",
             "decide", "resume", "cancel", "done"}

InFlight(h) == pc[h] \notin {"idle", "done"}

Quiet == \A h \in Handlers : ~InFlight(h)

-----------------------------------------------------------------------------
(* Database calls of request h *)

Succeeds(h) ==
  /\ ~poisoned[h]
  /\ UNCHANGED <<poisoned, faults, lost>>

Loses(h) == lost' = lost \cup {h}

(* An INSERT, or an UPDATE that the session flushes, fails. *)
FlushFails(h) ==
  /\ Loses(h)
  /\ \/ poisoned[h] /\ UNCHANGED <<poisoned, faults>>
     \/ /\ ~poisoned[h] /\ faults < MaxFaults
        /\ faults' = faults + 1
        /\ poisoned' = [poisoned EXCEPT ![h] = TRUE]

(* A statement that is executed directly fails. *)
StatementFails(h) ==
  /\ Loses(h)
  /\ \/ poisoned[h] /\ UNCHANGED <<poisoned, faults>>
     \/ /\ ~poisoned[h] /\ faults < MaxFaults
        /\ faults' = faults + 1
        /\ UNCHANGED poisoned

(* json.dumps raises on the argument of a call, which is then not made. *)
CannotEncode(h) ==
  /\ Loses(h)
  /\ UNCHANGED <<poisoned, faults>>

Goto(h, l) == pc' = [pc EXCEPT ![h] = l]

Answer(h, code) ==
  /\ Goto(h, "done")
  /\ reply' = [reply EXCEPT ![h] = code]

MayStart(h) ==
  /\ pc[h] = "idle"
  /\ OneAtATime => Quiet

-----------------------------------------------------------------------------
(* POST /agents/run *)

create_run ==
  /\ MayStart(Run)
  /\ \/ /\ Succeeds(Run)
        /\ runStatus' = "pending"
        /\ Goto(Run, "graph") /\ UNCHANGED reply
     \/ FlushFails(Run) /\ Answer(Run, "500") /\ UNCHANGED runStatus
  /\ UNCHANGED <<approval, result, exec, crashes>>

(* before_tool_hooks asks and the graph goes to pause_for_approval. The    *)
(* status is "failed" when permission_check has blocked the run meanwhile. *)
ask_for_approval ==
  /\ pc[Run] = "graph"
  /\ \E s \in {"waiting_approval", "failed"} :
       result' = [result EXCEPT ![Run] = s]
  /\ Goto(Run, "persist")
  /\ UNCHANGED <<tables, poisoned, exec, reply, lost, faults, crashes>>

create_approval ==
  /\ pc[Run] = "persist"
  /\ \/ Succeeds(Run) /\ approval' = "pending" /\ Goto(Run, "mark")
     \/ /\ FlushFails(Run) \/ CannotEncode(Run)    \* a cyclic snapshot
        /\ UNCHANGED approval /\ Goto(Run, "update")
  /\ UNCHANGED <<runStatus, result, exec, reply, crashes>>

mark_waiting ==
  /\ pc[Run] = "mark"
  /\ \/ Succeeds(Run) /\ runStatus' = "waiting_approval"
     \/ StatementFails(Run) /\ UNCHANGED runStatus
  /\ Goto(Run, "update")
  /\ UNCHANGED <<approval, result, exec, reply, crashes>>

-----------------------------------------------------------------------------
(* The graph on behalf of the run request or of an approve request *)

\* faulty variant: an edge leads back to the tool
LeaveToolOrRetry(h) == Goto(h, "answer") \/ UNCHANGED pc

LeaveTool(h) == Goto(h, "answer")

execute_tool(h) ==
  /\ pc[h] \in {"graph", "resume"}
  /\ exec' = [exec EXCEPT ![h] = @ + 1]
  /\ LeaveTool(h)
  /\ UNCHANGED <<tables, result, poisoned, reply, lost, faults, crashes>>

(* The graph ends, with or without an error, and _invoke makes a status of *)
(* it.                                                                     *)
end_graph(h) ==
  /\ pc[h] \in {"graph", "resume", "answer"}
  /\ \E s \in {"completed", "failed"} :
       result' = [result EXCEPT ![h] = s]
  /\ Goto(h, "update")
  /\ UNCHANGED <<tables, poisoned, exec, reply, lost, faults, crashes>>

(* Saving one of the events of the graph fails: EventEmitter.emit logs it. *)
lose_event(h) ==
  /\ pc[h] \in {"graph", "resume", "answer", "update"}
  /\ ~poisoned[h] /\ FlushFails(h)
  /\ UNCHANGED <<tables, pc, result, exec, reply, crashes>>

(* A graph that failed or paused has no result. *)
HasResult(h) == result[h] = "completed"

(* The handler's own update of the run, to which approve_run adds the      *)
(* result. A failure of either is logged. The answer carries the result as *)
(* well, and raises if it is neither an object, a text nor a list.         *)
update_run(h) ==
  /\ pc[h] = "update"
  /\ \/ Succeeds(h) /\ runStatus' = result[h]
     \/ /\ \/ StatementFails(h)
           \/ h # Run /\ HasResult(h) /\ CannotEncode(h)
        /\ UNCHANGED runStatus
  /\ \/ Answer(h, "200")
     \/ HasResult(h) /\ Answer(h, "500")
  /\ UNCHANGED <<approval, result, exec, crashes>>

-----------------------------------------------------------------------------
(* POST /runs/{id}/approve and POST /runs/{id}/cancel *)

\* faulty variant, as the others below that no action uses
AcceptsAny == approval # "none"

IsPending == approval = "pending"

get_pending_approval(h) ==
  /\ MayStart(h)
  /\ runStatus # "absent"    \* the client knows the run
  /\ \/ /\ Succeeds(h) /\ IsPending
        /\ Goto(h, "decide") /\ UNCHANGED reply
     \/ Succeeds(h) /\ ~IsPending /\ Answer(h, "404")
     \/ StatementFails(h) /\ Answer(h, "500")
  /\ UNCHANGED <<tables, result, exec, crashes>>

ResumeAnyway(a) == Goto(a, "resume") /\ UNCHANGED reply

(* The exception of approve_request ends the request. *)
ApproveRefused(a) == Answer(a, "500")

(* Sets the status of the row, whatever it is by now. *)
approve_request(a) ==
  /\ pc[a] = "decide"
  /\ \/ /\ Succeeds(a) /\ approval' = "approved"
        /\ Goto(a, "resume") /\ UNCHANGED reply
     \/ FlushFails(a) /\ ApproveRefused(a) /\ UNCHANGED approval
  /\ UNCHANGED <<runStatus, result, exec, crashes>>

deny_request(c) ==
  /\ pc[c] = "decide"
  /\ \/ /\ Succeeds(c) /\ approval' = "denied"
        /\ Goto(c, "cancel") /\ UNCHANGED reply
     \/ FlushFails(c) /\ Answer(c, "500") /\ UNCHANGED approval
  /\ UNCHANGED <<runStatus, result, exec, crashes>>

MarksNothing == UNCHANGED runStatus

MarksDenied == runStatus' = "denied"

MarksCancelled == runStatus' = "cancelled"

Reopen == approval' = "pending"

(* The request stays denied although the client is told of an error. *)
KeepDenied == UNCHANGED approval

cancel_update(c) ==
  /\ pc[c] = "cancel"
  /\ \/ /\ Succeeds(c) /\ MarksCancelled /\ UNCHANGED approval
        /\ Answer(c, "200")
     \/ /\ StatementFails(c) /\ UNCHANGED runStatus /\ KeepDenied
        /\ Answer(c, "500")
  /\ UNCHANGED <<result, exec, crashes>>

-----------------------------------------------------------------------------

(* The server process dies and is started again: the requests in flight    *)
(* are gone, the tables stay. Nothing looks at the tables on startup.      *)
crash ==
  /\ ~Quiet
  /\ crashes < MaxCrashes
  /\ crashes' = crashes + 1
  /\ pc' = [h \in Handlers |-> IF InFlight(h) THEN "done" ELSE pc[h]]
  /\ reply' = [h \in Handlers |-> IF InFlight(h) THEN "lost" ELSE reply[h]]
  /\ lost' = lost \cup {h \in Handlers : InFlight(h)}
  /\ UNCHANGED <<tables, result, poisoned, exec, faults>>

Init ==
  /\ runStatus = "absent"
  /\ approval = "none"
  /\ pc = [h \in Handlers |-> "idle"]
  /\ result = [h \in Handlers |-> "none"]
  /\ poisoned = [h \in Handlers |-> FALSE]
  /\ exec = [h \in Handlers |-> 0]
  /\ reply = [h \in Handlers |-> "none"]
  /\ lost = {}
  /\ faults = 0
  /\ crashes = 0

RunStep ==
  \/ create_run \/ ask_for_approval \/ create_approval \/ mark_waiting
  \/ execute_tool(Run) \/ end_graph(Run) \/ update_run(Run)

ApproveStep(a) ==
  \/ get_pending_approval(a) \/ approve_request(a)
  \/ execute_tool(a) \/ end_graph(a) \/ update_run(a)

CancelStep(c) ==
  \/ get_pending_approval(c) \/ deny_request(c) \/ cancel_update(c)

Next ==
  \/ RunStep
  \/ \E a \in Approvers : ApproveStep(a)
  \/ \E c \in Cancellers : CancelStep(c)
  \/ \E h \in {Run} \cup Approvers : lose_event(h)
  \/ crash

Spec == Init /\ [][Next]_vars

(* A request that is being served is served to its end; that a client      *)
(* sends one is not assumed.                                               *)
FairSpec ==
  /\ Spec
  /\ WF_vars(InFlight(Run) /\ RunStep)
  /\ \A a \in Approvers : WF_vars(InFlight(a) /\ ApproveStep(a))
  /\ \A c \in Cancellers : WF_vars(InFlight(c) /\ CancelStep(c))

-----------------------------------------------------------------------------
(* Properties *)

TypeOK ==
  /\ runStatus \in {"absent", "pending", "waiting_approval"} \cup Final
  /\ approval \in {"none", "pending"} \cup Decided
  /\ pc \in [Handlers -> Location]
  /\ result \in [Handlers -> {"none", "waiting_approval", "completed",
                              "failed"}]
  /\ poisoned \in [Handlers -> BOOLEAN]
  /\ exec \in [Handlers -> Nat]
  /\ reply \in [Handlers -> {"none", "200", "404", "500", "lost"}]
  /\ lost \subseteq Handlers
  /\ faults \in 0..MaxFaults
  /\ crashes \in 0..MaxCrashes

(* However the requests interleave and fail: while the approval request    *)
(* does not exist or is pending, no approve request has executed the tool. *)
PendingNeverExecuted ==
  approval \notin Decided => \A a \in Approvers : exec[a] = 0

TurnedAway(d) == pc[d] = "idle" => pc'[d] \in {"idle", "done"}

DecisionStands ==
  approval \in Decided =>
    /\ approval' \in Decided
    /\ \A d \in Deciders : TurnedAway(d)

(* A decided request never becomes pending again, and a client that comes  *)
(* after the decision is turned away: whether the decision reached the run *)
(* or its own answer or not, no request that starts later goes on to       *)
(* decide or to resume the graph.                                          *)
DecidedForever == [][DecisionStands]_vars

(* What an answer tells of the tool: a request that was answered 404 has   *)
(* not executed it. One that was answered 500 has not either, unless its   *)
(* graph completed and only the answer could not hold the result; a failed *)
(* run is always answered. No request executes it twice.                   *)
ExecutionsAreAnswered ==
  \A h \in {Run} \cup Approvers :
    /\ exec[h] <= 1
    /\ exec[h] = 1 =>
         \/ reply[h] \in {"none", "200", "lost"}
         \/ reply[h] = "500" /\ HasResult(h)

Executions == {h \in Handlers : exec[h] > 0}

(* As long as clients wait for each answer, the concurrent handlers keep   *)
(* the contract of RunContract, whatever fails or crashes in between.      *)
Contract == INSTANCE RunContract WITH
  phase <- IF \/ pc[Run] \in {"idle", "graph", "answer", "persist"}
              \/ \E a \in Approvers : pc[a] \in {"resume", "answer"}
           THEN "working"
           ELSE IF approval = "pending" THEN "waiting" ELSE "over",
  approval <- approval,
  executions <- IF Executions = {} THEN 0
                ELSE IF \A g, h \in Executions : g = h /\ exec[h] = 1
                THEN 1 ELSE 2

ImplementsContract == Contract!ContractSpec

(* Once every request is answered, the run's status and the approval       *)
(* request tell what the last request that got its writes through has      *)
(* told them, whatever happened to the others: a decision that lost        *)
(* nothing is in both tables although the run request failed half way      *)
(* before it, and without a decision the run request's pause is.           *)
TablesAgree ==
  Quiet =>
    /\ Run \notin lost =>
         /\ approval = "none" => runStatus \in {"absent", "completed", "failed"}
         /\ approval = "pending" => runStatus \in {"waiting_approval", "failed"}
    /\ \A a \in Approvers \ lost :
         result[a] # "none" => approval = "approved" /\ runStatus = result[a]
    /\ \A c \in Cancellers \ lost :
         reply[c] = "200" => approval = "denied" /\ runStatus = "cancelled"

(* A decision reaches the run: from the moment it is stored the run is     *)
(* bound to leave its wait, unless that very request loses a write, to the *)
(* database, to a result that JSON cannot encode, or to a restart.         *)
DecisionReachesRun ==
  \A d \in Deciders :
    pc[d] \in {"resume", "cancel"} ~> runStatus \in Final \/ d \in lost

(* docs/architecture.md:168: approve is for a pending request; one         *)
(* decision executes the tool once.                                        *)
ToolRunsOnce ==
  \A a, b \in Approvers : exec[a] > 0 /\ exec[b] > 0 => a = b

(* docs/architecture.md:169: cancel is for a pending request; a run that   *)
(* was reported cancelled has not executed its tool. True of decisions     *)
(* that do not overlap (ApprovalFlowProofs), false of others.              *)
CancelledNeverRuns ==
  \A c \in Cancellers, a \in Approvers : reply[c] = "200" => exec[a] = 0

(* docs/architecture.md:100: the user's decision ends the wait. Here for   *)
(* decisions that lost no write.                                           *)
DecidedIsNotWaiting ==
  Quiet /\ approval \in Decided /\ Deciders \cap lost = {}
    => runStatus # "waiting_approval"
=============================================================================
