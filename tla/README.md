# A TLA+ verification project for the Agent Skills & Hooks Playground

The playground runs "agent" tasks: a FastAPI backend takes a task, a LangGraph
workflow picks a skill, lets hooks inspect every step, may execute a tool, and
returns a response. A hook can block a run, or demand that a human approves the
tool; the run is then saved in the database, and a later request resumes it.
Clients follow a run through a WebSocket. This directory models the parts of
that system that can be checked, with the code under `src/` as the reference.

## 1. Inventory

Paths are relative to `src/backend/app/` unless they start with `src/`.

| Component | State | Operations | Interacts with | What is hard, what makes it correct |
|---|---|---|---|---|
| Agent graph: `agents/graph.py`, `nodes.py`, `runtime.py`, `state.py` | the `AgentState` LangGraph hands from node to node; the list of events in `EventEmitter` | 19 nodes, 2 conditional edges, `AgentRuntime.run`, `resume`, `_invoke` | calls hooks, skills and tools; emits events; `pause_for_approval` writes to the database | a run crosses two HTTP requests and is rebuilt from a snapshot with half of its fields; failures are flags that later nodes must respect. Correct: no tool without the approval that was asked for, at most one execution, the reported status tells what happened, every invocation returns |
| Approval API and run table: `api/agents.py`, `api/approvals.py`, `core/service.py`, `database/repository.py`, `database/session.py` | tables `agent_runs` and `approval_requests`; one session per request | `POST /agents/run`, `/runs/{id}/approve`, `/runs/{id}/cancel` | invokes the graph; shares the tables with every other request | check and write are separate awaits and separate commits; a failed flush leaves the session unusable; a restart forgets the requests in flight. Correct: one decision per request, tables that agree, nothing executed before the decision is stored |
| Hook pipeline: `hooks/executor.py`, `hooks/manager.py`, `hooks/base.py` | none between calls; modifications accumulate within one | `run_pipeline`, `deep_merge` | called by the graph at nine lifecycle events; reads the registry | exceptions become BLOCK, actions override one another, the registry changes while a hook is awaited. Correct: every enabled hook is asked in order, the result holds what the last writer wrote |
| Built-in hooks: `hooks/hooks/*` | allow and deny lists | `execute` of six hooks | run in the pipeline | two independent lists decide about a tool, besides its own permission |
| Registries: `hooks/registry.py`, `tools/registry.py`, `skills/registry.py` | a primary dict and a second index (by event, by risk, by lower-case name) | `register`, `get`, `remove`, `clear`, listings | filled at start-up, read by every run | two indexes updated side by side; names that differ in case. Correct: what is registered is indexed, what was removed is not found |
| Tool executor: `tools/executor.py`, `tools/base.py` | none | `execute` | called by `execute_tool` | a tool's body may go on after its timeout. Correct: every call is answered |
| Python tool: `tools/tools/python_execution.py` | the process-wide `sys.stdout`; the thread pool | `execute` in a thread | called by the executor | concurrent executions swap one global without a lock. Correct: a call answers its own lines; the console comes back |
| Skill selection and executor: `skills/selector.py`, `skills/executor.py` | none | `select`, `execute` | the graph calls the selector; nothing calls `SkillExecutor` | three tiers with fallbacks while skills come and go |
| Event bus: `core/publisher.py`, `core/websocket_subscriber.py`, `agents/events.py`, `api/runs.py` | subscribers per run | `subscribe`, `unsubscribe`, `publish`, the WebSocket endpoint | events are saved first and published then | no replay; publish awaits each subscriber while others come and go; a save that fails suppresses the event. Correct: a subscriber gets every event from its subscription on |
| React client: `src/frontend/src/api/websocket.ts`, `pages/Playground.tsx` | connection state, reconnect counter and timer, events | `connect`, `disconnect`, callbacks of the socket | subscribes after `POST /agents/run` has returned | timers and callbacks of an old connection. Correct: one socket, of the current run; events in order and once; a reconnection that succeeds or gives up |
| RAG store: `rag/engine.py`, `rag/vectorstore.py`, `api/documents.py` | collections by name, on disk or in memory; the documents table | ingest, search, delete, count | written by the documents API | two stores written one after the other; a cached fallback. Correct: what was ingested is found in its scope, what was deleted stays away |
| Application wiring: `main.py`, `tools/loader.py` | – | start-up | decides which hooks and tools there are | the hooks together make one policy |
| Memory, rate limiting, authentication, redaction, schema, providers, tracer, listings, Streamlit | little or none | – | – | not control logic of the system; see section 8 |

`PROJECT.json` lists every component with its status, and under `hazards` each
place where this code can go wrong in a way tests hardly reach, with the
properties that watch it.

## 2. Modules

| Module | What it is |
|---|---|
| `RunContract` | what one run promises to the person who approves its tool, without graph, API or database |
| `AgentGraph` | the LangGraph workflow, the pause, and the second invocation that approval starts |
| `ApprovalFlow` | the concurrent HTTP requests about one run, over the two tables |
| `Registry` | the registries of hooks and tools |
| `BuiltinHooks` | the conditions of the hooks in `hooks/hooks` |
| `HookPipeline` | one call of `run_pipeline` over a `Registry` that changes meanwhile |
| `BuiltinPipeline` | `HookPipeline` as `main.py` wires it: the answers of the built-in hooks and the calls the graph makes |
| `ToolExecution` | concurrent calls of the tool executor, and the threads of the Python tool |
| `SkillService` | the skill registry, the selector and the skill executor |
| `EventBus` | events from the graph to the WebSockets |
| `PlaygroundClient` | the React page, composed with `EventBus` |
| `RagStore` | the vector store with its fallback, the documents table, and their requests |
| `MCAgentGraph`, `MCApprovalFlow`, `MCHookPipeline`, `MCPlaygroundClient`, `MCRagStore`, `MCSkillService` | instances for TLC; `ToolExecution` takes its constants from the `.cfg` |
| `AgentGraphProofs`, `ApprovalFlowProofs`, `HookPipelineProofs` (of `Registry` too), `SkillServiceProofs`, `ToolExecutionProofs`, `PlaygroundClientProofs`, `RagStoreProofs` | theorems, see section 5 |
| `SequenceLemmas` | what `list.remove` does to a list; used by the proofs about `Registry`, `HookPipeline` and `EventBus` |

They compose as the code does: `HookPipeline` extends `Registry`;
`BuiltinPipeline` (which `MCHookPipeline` extends) and `MCAgentGraph` both take the
built-in hooks from `BuiltinHooks`, and `GraphInputsAreReal` says that what the graph
assumes of a pipeline is what the pipeline returns. `PlaygroundClient` extends
`EventBus`. `AgentGraph` and `ApprovalFlow` both implement `RunContract`, and the
theorem `GraphAsInFlow` says that the first does what the second makes of an
invocation of the graph.

Operators marked "faulty variant" are never used by a specification. Each is a
plausible mistake in the operator below it, kept to show that the properties
would notice. `shallow_merge` is both: the merge of the inner dictionaries, and a
mistake if it is used for the outer ones.

### AgentGraph

LangGraph runs one node at a time and passes the whole state on, so each node is
one action, named as the node function; `node` is the node to run next and `END`
after `ainvoke` has returned. `Edge` holds the fixed edges of `build_graph`;
`needs_tool` and `check_approval` are its two conditional ones. `st` keeps the
fields of `AgentState` that control depends on. A text is abstracted to `none`,
`empty` or `text`, because the code tests errors by their truth value. `log` is
the sequence of events of the run, over both invocations. `row` and `snap` are the
status and the snapshot of the run's `ApprovalRequest`. `toolRuns` is a history
variable that counts executions of a tool's body.

What hooks, skills and tools answer is an input. `HookActions` and `BeforeTool`
give the results a pipeline may return, `Permission` and `DisabledTools` describe
the tool registry, `PersistOutcomes` the database. A skill may raise, return a
null result, return a result without a tool, or name any tool. `approve_run`
and `cancel_run` act between invocations only: overlapping requests are
`ApprovalFlow`'s matter.

Left out: the branches for a missing hook manager, skill loader or tool executor
(`_get_runtime` answers 503 before a run starts), early returns on an empty tool
name in nodes the router reaches only with a tool (`PauseInv` shows that), and
`_should_retry` and `_validate_retry`, which no edge uses. `copy.deepcopy` of the
context of a hook is taken to succeed.

### ApprovalFlow

A request runs uninterrupted from one await to the next, and every repository
call ends in a commit, so each repository call is an action: `create_run`,
`create_approval`, `mark_waiting` (the `update_run` of `pause_for_approval`),
`get_pending_approval`, `approve_request`, `deny_request`, `cancel_update` and
the handlers' final `update_run`. `pc` says where a request is, `reply` what its
client was answered. The graph in between is reduced to what `AgentGraph` shows of
it: it executes the tool or asks for approval or does neither, and ends with a
status. `poisoned` is a session on which a flush has failed: nothing in the code
rolls it back, so its later calls fail too. `FlushFails` and `StatementFails` are
failures of the database, at most `MaxFaults`; `crash` restarts the server, at
most `MaxCrashes` times, which ends the requests in flight and keeps the tables.

What a tool or a skill returned may be of any type, at no cost in `MaxFaults`.
`CannotEncode` is `json.dumps` raising on it: on the result of an approved run
(`api/approvals.py:117`), inside the `try` that only logs, so that the run is not
updated; and on the snapshot of the pause, so that no request is stored, which takes a
cyclic value or a key that is no text, since that call has `default=str`. The model of
the answer rejects a result that is neither an object, a text nor a list, so
that `update_run` may answer 500 after the graph completed (`HasResult`), whether it
stored the status or not. `lost` is history: the requests that a failed call, an
unencodable value or a restart kept from writing something.

### RunContract and the two refinements

`RunContract` has three variables: the phase of the run, its one approval request,
and the number of executions. It allows one execution at most, none while the
request is pending or after a denial, and one decision. `AgentGraph` implements
it with `phase` taken from `node` and `row`. `ApprovalFlow` implements it as
long as no two decisions overlap between their read and their write of the approval
request, whatever else overlaps, fails or restarts; clients that send a request only
when the last one is answered (`OneAtATime`) see to that. When decisions overlap it
does not, which is what the run `flow_twice` shows.

### Registry, HookPipeline, BuiltinHooks, BuiltinPipeline

`Registry` stands for `HookRegistry` and `ToolRegistry`, which are the same code up
to the group (lifecycle event or risk level). `byName` is the dict, `byGroup` the
lists; an object is compared by identity, so re-registering a name leaves the old
object in its list. `enabled` is `metadata.enabled`, which anybody who holds the
object can switch.

`HookPipeline` is one call of `run_pipeline`. `start` takes the enabled hooks of the
event from the list and sorts them; `ask` is one iteration, with one operator
per branch of the loop (`Terminate`, `Modify`, `Fail`, `Retry`, `PassOver`);
`change` is a step of the registry while the pipeline awaits a hook. A dictionary
is a function whose values are leaves or dictionaries of leaves, which is as
deep as `deep_merge` has to look to tell merging from replacing. The list
comprehension of `get_for_event` and the stable sort of the executor are both
`Arranged`: the k-th entry is the one with k-1 entries before it. It says the same
as `SelectSeq` and a sort, in a form one can reason about without recursion. `heard` records
the answers, `due` which hooks ought to be asked. Payloads, queries and outputs
are abstracted to what the regular expressions of the hooks find in them.

`BuiltinPipeline` has the metadata of the five hooks that may do more than log
(`HookTable`), their answers (`BuiltinAnswer`) and the calls of the graph
(`GraphCall`). `AsInMain` is the application as it is started: these five are
registered, and whatever else is, as `LoggingHook` for every event, always
continues.

### ToolExecution

A call of `execute` is a coroutine: `reject`, `execute_on_loop` for tools that do
not leave the event loop, or `to_thread`, followed by `resume` or `time_out`. Its
job in the pool goes through `queued`, then `save` (`old = sys.stdout`), `redirect`,
`print`, `collect`, `restore`: a thread can be interrupted between any two accesses
to the global, and a timeout takes back a queued job but cannot stop a thread.
`buffer` holds which call printed each line of a call's `StringIO`. `overlapped`
is history: the executions that were active at the same time as another one.

### EventBus and PlaygroundClient

Every invocation of the graph has an emitter (`Emitters`, `RunOf`), which emits its
events 1 .. `EventCount`: the invocation of `POST /agents/run` (`First`), which ends in a
pause, and those that approvals start. `resume_run` may start one as soon as the
request is stored, which is before the first invocation has told of its pause, and
several at a time, since two approvals can pass the check (`flow_twice`): the
invocations of a run overlap, each handing round one event at a time.
`save_and_publish` saves an event and copies the list of subscribers, `send` is one
awaited `on_event`; between two sends, connections are accepted, left or broken.
`owed` is history: which saved events a connection has still to get; `earlier` too: which
invocations of its run were over when one began. `PlaygroundClient` has
one action per callback of `useWebSocket` and per stretch of `handleRun` between
awaits. A connection that nobody uses any more stands for a new one, so the number
of connections bounds how many live at a time. Sockets whose handlers
were detached by `disconnect` close on their own.

### RagStore

`_client`, `_collections`, `dict` and `chroma` are the fields of `ChromaVectorStore`
and what is on disk; `documents` is the table. Chroma may be missing or refuse a
collection, and the code then falls back to a dictionary that is cached under the
name: `_lazy_init`, `Keep` and `_get_collection`. Both kinds of engine, with and
without a repository, are initial states. `ingest_text` and `create_document`,
`delete_document` and `delete_row` are the two steps of the two requests. `restart`
drops everything in memory. `similarity_search` has the answers a search may give:
the chunks that are ranked or, when the query raises in Chroma, an empty list that
the caller cannot tell from "nothing found" (`failed` is for the property only).
`retrieve_for_skill` answers nothing and opens no collection for a skill outside
`RagSkills`, the constant `_SKILLS_WITH_RAG`; a document of `data_analysis` is stored
and never found that way, as tests/unit/test_rag.py:34-39 has it, although `retrieve`
with that scope finds it.

### SkillService

`register`, `remove`, `clear` and `set_enabled` over the dict and the index by lower-case
name; `select` and one action per tier of the selector, which may fail, answer
below the threshold, or name a skill it was offered. `threshold` is whatever the
constructor was given. A tier that failed has the confidence 0, so a threshold of 0 or
less accepts its empty selection, which the executor then does not find. `execute`,
`before_skill` and `finish` of `SkillExecutor`. `before_skill` records what really happens there: the
call of the hook manager raises and is logged.

## 3. Runs

| Run | Question | Result |
|---|---|---|
| `graph_any` | Do the graph's invariants, the contract and termination hold whatever hooks, skills and tools answer? | holds |
| `graph_builtin` | Is a tool with `REQUIRE_APPROVAL` never executed without one, with the hooks and tools that ship with the application? | holds |
| `flow_concurrent` | What survives any interleaving of two approvals and a cancellation with the run request, two failing calls and a restart? | holds |
| `flow_serial` | With clients that wait for answers: is the contract kept, do the tables agree, does a decision reach the run? | holds |
| `hooks` | Who is asked and what is the answer, while the registry changes at any point? Are the inputs of `graph_builtin` real? | holds |
| `tools` | Which outputs and which `sys.stdout` survive overlapping executions and timeouts? | holds |
| `bus` | Delivery, order, one socket and reconnection, over two runs, overlapping invocations and breaking connections | holds |
| `rag` | Is the ingested found and the deleted gone, with Chroma refusing at any time and two restarts? | holds |
| `skills` | Does the index lead to registered skills, and the task to an offered one, whatever the threshold? | holds |
| `flow_twice` | Does one request execute the tool once? | violated by two overlapping approvals |
| `flow_waiting` | Does a decided run stop waiting? | violated when the decision precedes the run request's last write |
| `dialog` | Does the page of a waiting run show the approval dialog? | violated: the event was published before the page subscribed |

The properties, by what they watch:

- *Approval.* `PauseInv` is the inductive invariant of section 5.
  `AskedToolNeedsApproval` takes the question from the events, not from the flag
  that the nodes pass along. `ForbiddenToolNeverRuns` covers resumed runs, which
  skip the hooks. `RequireApprovalHolds` holds only through the wiring: no node
  looks at `REQUIRE_APPROVAL`. `ApprovedToolIsAttempted` says that the snapshot
  holds what the second invocation needs.
- *Reporting.* `BlockedIsNotCompleted`, `AnnouncedResponseStands`,
  `CompletionIsLast` relate the status, the events and the state.
  `EventuallyReturns`: every path, exceptions included, ends in a status.
- *Decisions.* `PendingNeverExecuted`; `ExecutionsAreAnswered`: what an answer tells of
  the tool; `DecidedForever`: no way back to pending, and whoever comes after a
  decision is turned away, which matters when the decision did not reach the run
  or its client. `TablesAgree` and `DecisionReachesRun` speak of requests that are not
  in `lost`, whatever happened to the others. `ImplementsContract` twice.
- *Hooks.* `EnabledHooksAreAsked` (with `due` taken when the call begins),
  `LastWriterWins` (a reference definition of the merged modifications, from the
  answers alone), `RegisteredAreIndexed`, `StaleOnlyByReplacing`,
  `GraphInputsAreReal`.
- *Tools.* `OutputIsOwn`, `ConsoleIsBack`, `WithdrawnNeverRuns`,
  `EveryCallAnswered`. The first two exempt executions that overlapped another,
  because for those the code promises nothing: without the exemption TLC finds a
  dead buffer left in `sys.stdout` at once.
- *Events.* `SubscribersAreServed`, `ShownInOrder`, `OneSocket`,
  `ConnectsOrGivesUp`.
- *Documents.* `IngestedIsFound` of every search that does not raise,
  `DeletedStaysDeleted`, `RowsHaveChunks`. The exemptions of the last one (`torn`,
  restarts) are the cases where the two
  stores do part.
- *Skills.* `FoundByNameIsRegistered`; `TaskGetsOfferedSkill`, an action property of two
  steps: the selector decides for a skill on offer when the threshold is above the
  confidence of a failure, and the executor, for any threshold, starts only what was
  selected by name and is registered and enabled at that moment.

## 4. Bounds and fairness

*AgentGraph* needs no bound: a run has at most two invocations of at most 19
nodes. `graph_any` has one tool of each kind the code tells apart (allowed, denied,
unregistered, disabled), every action at the hook points where the graph acts
on the answer, and both error texts; further tools would repeat these. At points
where the graph ignores all actions but BLOCK, CONTINUE stands for the ones it
ignores. `graph_builtin` has the tools of `tools/loader.py` and one unknown name.

*ApprovalFlow.* Two approvers and one canceller give every pair of decisions that
can race, and a third party to come late. `MaxFaults = 2` lets two calls of one
request or of two requests fail; a poisoned session then fails for free.
`MaxCrashes = 1` suffices, since a restart only ends requests. Approvers are
interchangeable, which `flow_concurrent` uses as symmetry.

*HookPipeline.* The six built-in hooks that main.py registers at three events, and
two extension hooks under one name, so that a name can be replaced. `MaxChanges = 3`
is enough to register both and remove one while a call is under way. One call: a
call keeps nothing, and concurrent calls share only the registry, which `change`
moves anyway.

*ToolExecution.* Three calls on two workers, so that one waits in the queue while two
overlap; `MaxPrints = 1` tells a line in the right buffer from one in the wrong
one.

*PlaygroundClient.* Two runs after each other and two connections, one of which may
still be closing. The first run is approved twice, so that two resumed invocations
overlap each other and the first one. An invocation has one event, which is enough to
weave the events of two and to tell order from disorder between them; the order within
an invocation is proved for any number (`EventsInOrder`). Two faults, so that a
connection breaks again after a reconnection. `MaxAttempts` is 1 where the code has 5:
the counter is compared and reset at the same places, and with two faults the page can
give up. The proofs take any value. The page itself meets overlapping invocations only
among the resumed ones: it connects after the first is over. `_open` takes the same one
of the connections that are free, which are all alike.

*RagStore.* Two chunks, of which one document or two can be made; the shared
collection, reached as `None` and as "global", the collection of a skill with
retrieval and that of a skill without; two overlapping requests; two restarts, so
that a collection is found on disk, lost and found. Chunks and requests are
interchangeable, which the run uses as symmetry.

*SkillService.* Two names that differ in case, one of them with two objects, and a
third name. `Thresholds` are 0, at which an empty selection is accepted, 40, the
default, and 95, above what the language model's tier reports; `Scores` are 0 and one
on either side of 40. No counter is needed.

*Fairness.* `AgentGraph` assumes weak fairness of `GraphStep`: LangGraph schedules
the next node while there is one. `ApprovalFlow` assumes that a request that is
being served is served to its end (`WF` of each handler's steps while it is in
flight), as the event loop does. `ToolExecution` assumes that the event loop resumes
an awaiting coroutine or fires its timeout, and nothing of the threads, whose code
may loop for ever. `PlaygroundClient` assumes that the event loops of server and
browser run what is ready and that timers fire. Nowhere is a user obliged to send
anything or to decide.

*Deadlock* checking is off: a run that is over, requests and calls that are
answered, and a page that has gone are states where the system rightly stops.
In the other runs the user may always go on, so that deadlock would show nothing.

## 5. Proofs

All theorems hold for every value of the constants that satisfies the module's
assumption (`GraphAssumption`, `FlowAssumption`, `RegistryAssumption`,
`PipelineAssumption`, `ExecutionAssumption`, `BusAssumption`, `ClientAssumption`, `RagAssumption`,
`SkillAssumption`), which
says no more than that the constants are of their kinds.

| Module | Theorem | Property |
|---|---|---|
| `AgentGraphProofs` | `TypeCorrect`, `PauseCorrect` | `TypeOK`, `PauseInv` |
| | `GraphImplementsContract` | `ImplementsContract` |
| | `ForbiddenNeverRuns` | `ForbiddenToolNeverRuns` |
| | `AskedNeedsApproval` | `AskedToolNeedsApproval` |
| | `BlockedNotCompleted`, `ResponseStands`, `CompletionLast` | `BlockedIsNotCompleted`, `AnnouncedResponseStands`, `CompletionIsLast` |
| | `ApprovedIsAttempted` | `ApprovedToolIsAttempted` |
| | `RequireApprovalIsKept`, assuming `HooksAskForApproval`; `BuiltinApprovalIsKept` | `RequireApprovalHolds` |
| | `GraphAsInFlow` | `FlowStep`, defined there |
| `ApprovalFlowProofs` | `TypeCorrect` | `TypeOK` |
| | `PendingIsNeverExecuted`, `ExecutionsAnswered`, `DecisionsLast` | `PendingNeverExecuted`, `ExecutionsAreAnswered`, `DecidedForever` |
| | `ExclusiveContract`, as long as `Exclusive`; `SerialContract`, assuming `OneAtATime` | `ImplementsContract` |
| | `ExclusiveTables`, as long as `Exclusive` and `Late`; `TablesInAgreement`, assuming `OneAtATime` | `TablesAgree` |
| | `AloneRunsOnce`, as long as `Alone` | `ToolRunsOnce` |
| | `CancelledStaysOut`, as long as `Exclusive` | `CancelledNeverRuns` |
| | `LateIsNotWaiting`, as long as `Late` | `DecidedIsNotWaiting` |
| `HookPipelineProofs` | `IndexIsComplete`, `StaleEntries`, of `RegistrySpec` | `RegisteredAreIndexed`, `StaleOnlyByReplacing` |
| | `TypeCorrect`, `IndexStaysComplete`, `StaleEntriesOfPipelines` | `TypeOK`, `RegisteredAreIndexed`, `StaleOnlyByReplacing` |
| | `EnabledAreAsked`, `LaterHookWins` | `EnabledHooksAreAsked`, `LastWriterWins` |
| | `VerdictIsFinal` | `LastDecides`, defined there |
| | `GraphInputsReal`, assuming `AsInMain` | `GraphInputsAreReal` |
| `SkillServiceProofs` | `FoundIsRegistered`, `OfferedIsSelected` | `FoundByNameIsRegistered`, `TaskGetsOfferedSkill` |
| `ToolExecutionProofs` | `TypeCorrect`, `ConsoleComesBack`, `OutputIsItsOwn`, `WithdrawnStaysOut` | `TypeOK`, `ConsoleIsBack`, `OutputIsOwn`, `WithdrawnNeverRuns` |
| `PlaygroundClientProofs` | `TypeCorrect`, `OneSocketOnly`, `SubscribersServed` | `TypeOK`, `OneSocket`, `SubscribersAreServed` |
| | `EventsInOrder` | `ShownInOrder` |
| `RagStoreProofs` | `TypeCorrect`, `DeletedIsGone` | `TypeOK`, `DeletedStaysDeleted` |
| | `IngestedFound`, `RowsAreOfChunks` | `IngestedIsFound`, `RowsHaveChunks` |

*AgentGraph.* The contract is not inductive. What makes it hold is spread over three
files: a resumed state is exactly a granted one (`RestoredState`), it exists only
while the row is approved, a first invocation has no row yet, `check_approval` lets
only a granted or unquestioned run through to `execute_tool`, and the tool
has not run at any node up to there. `PauseInv` says this, together with the fact
that the nodes behind the router have a tool, which `TypeOK` needs at
`before_tool_hooks`. `TypeOK /\ PauseInv` is inductive: `TypeStep` has one lemma
per node; `PauseStep` rests on `NodeKeeps`, which says that all nodes but two
leave the approval fields and the tool alone. `ContractStep` then maps every
step: `execute_tool` to `Execute` or a stutter, `pause_for_approval` to `Ask` or,
when the database refuses, to `Finish`, the last node and an abort to
`Finish`, the two handlers to `Approve` and `Deny`, everything else to a
stutter. `PermissionInv` carries the verdict of `permission_check` on to the
execution. `AskInv` ties the flag `approval_required` to the events: as long as the
flag is down, every event in `log` is a quiet one. `BlockInv`: a block comes with an
error; an unblocked run has an error only behind a skill that failed, and then has no
output, so that `tool_router` ends it. `AnswerInv` places the announcements: the
response in `generate_response`, the completion in `persist_run`, neither before a
decision that is still to come. `ResumeInv`: only a resumed run has an approved
request, it carries the tool of the snapshot, and gets past `execute_tool` only by
executing it, being blocked or finding it disabled. No node of the graph reads the
permission `REQUIRE_APPROVAL`, so `RequireApprovalHolds` needs a hypothesis about the
wiring, `HooksAskForApproval`: the before_tool hooks ask or block for every tool that
has it. The corollary shows that the hooks and tools of the application, the
constants of `graph_builtin`, satisfy it. `GraphAsInFlow` justifies what `ApprovalFlow`
leaves out: seen through `Place`, the row, the status and the executions, each step of
the graph is one of the few that `ApprovalFlow` has for it, or a stutter.

*ApprovalFlow.* `ResultInv` (a request that is about to write a status has one)
makes types inductive. `DecisionInv`: a request that goes on past its decision, and
one that has executed the tool, finds the approval request decided. `AnswerInv`: one
that has executed the tool is in flight or was answered by its update (`Told`).
`TurnedAwayStep`: only the lookup lets a request in, and it finds a decided one no more.
It holds however many requests overlap. What the rest needs is stated as a
condition on every state of the behaviour, since the code does not see to it:
`Exclusive` (no two decisions are between read and write), `Alone` (no two approvals
are) and `Late` (no decision is about to be written before the run request was
answered). `OneInFlightCorrect` and `SerialIsExclusive` show that all three hold of
clients that wait for each answer, so the conditions can be met; they allow a good
deal more, such as any number of overlapping reads, and under `Exclusive` alone a
decision while the run request is still being served. `ExclusiveInv`: what a
decision has read is still so when it is written, so that a decision finds the request
pending, and a resumed graph finds it approved and the tool not executed. From it,
every step is a step of the contract or a stutter. `AloneInv`: once an approval went
past its write or executed the tool, no other approve request is there or about to write.
`SettledInv`, under `Exclusive`: once a decision has written, no other writes the
request, so a request that was answered "cancelled" finds it denied and the tool not
executed; that is `CancelledStaysOut`. `LateInv` says that a decided run which still
shows `waiting_approval` has a request on the way to change that, or one that lost a
write. `TableInv` tells for each state of the approval request which status the run has,
or which request in flight is about to write it, again but for the requests in `lost`;
when nobody is in flight, that is `TablesAgree`.

*Registry, HookPipeline.* `RegistryInv` adds types to the property; the work is in
`RemoveFirstRange` of `SequenceLemmas`: taking one entry of an object out of a list
leaves all others in it. `StaleOnlyByReplacing` needs the entries counted:
`PlacesAfterAppend` and `PlacesAfterRemove` say by how much an operation changes the
number of an object's entries, the second by a bijection between the places before
and after. `RankIsBijective` shows that the numbers of predecessors in a strict order
number a finite set without gaps, from which `SelectedList` and `SortedList` tell what
the comprehension and the sort return. `PipeInv`: a call that is asking has a hook
left, one that returned without a terminal answer has none, and the list it works
through holds what was due, in order. `LastWriterWins` is inductive on top of it:
`MergedStep` adds one answer, by cases on whether it writes the key and whether what
was there and what is written are dictionaries. `VerdictIsFinal` says of the action what
`LastWriterWins` says of the modifications: no later hook overrides a BLOCK, a request
for approval or an exception, and without one the last answer that counts is the result.
`GraphInputsReal` follows the call of the graph through that list: `StartInv` ties the
hooks in it to those registered at start-up, and `BuiltinInv` says that the call is
undecided, with no objection from the hooks asked so far, or has returned an input of
the graph. The proof follows the order of the priorities; swapping `tool_permission` and
`human_approval` would not change what the call returns.

*SkillService.* `IndexInv` says that an entry of the index by lower-case name is the
entry of its own name in the dict. `TaskInv`: the selection is a skill on offer or
nothing, so what the executor finds by its name was offered under that name, and is
registered by `IndexInv`.

*ToolExecution.* `PoolBound` counts the threads. `SwapInv`: two executions that are active
at once know of each other, what one has saved as `old` is the console or the buffer
of an execution that overlapped another, and so is `sys.stdout` unless it belongs to
one that is active. `OwnInv`: between save and restore, an execution that is alone
has `sys.stdout` and its buffer to itself; and a call that was answered while its
thread was busy was answered with a timeout.

*PlaygroundClient.* `TypeInv` adds that an event being handed round has a number and that
a running timer has a run to reconnect to. `SocketInv`: the page has handlers on
exactly the socket it knows. For delivery, `ListsAreRight` says that the list of a run
holds each of its subscribed connections once, and `TurnsAreRight` that a connection
is owed at most the event in hand, and only while its turn in `publish` is
still to come; the rest follows when nobody's turn is left. For the order,
`MayFollow` compares two events by their numbers if one invocation emitted both, and by
`earlier` otherwise. `SentInv`: an event is handed round once, and what is on a wire may
follow what is before it on the same wire and was emitted before what its invocation has
still to hand on. `ShownInv`: what the socket of the page holds or is still to get may
follow what the page shows of its run. `FollowInv`: until `POST` is answered a socket that
is there follows an earlier run.

*RagStore.* `StoreInv`: a chunk lies in one place only, in the collection it was ingested
for, and a dictionary holds something only while the process uses it, so that no
operation reaches the collection on disk meanwhile. `FoundInv`: a chunk whose
ingestion was answered, or has only rows left to write, is in the collection the
process uses for its scope. `RowsInv`: a row, or one that a request is about to write,
is of a chunk that is stored, torn, or being deleted.

TLC checks each of these properties that a run names on a small instance as well. Only
model-checked are the four liveness properties (`EventuallyReturns`,
`DecisionReachesRun`, `EveryCallAnswered`, `ConnectsOrGivesUp`), since liveness is out of
the prover's reach, and `WaitingRunShowsDialog`, which does not hold.
`CancelledNeverRuns` is only proved: no run checks it.

## 6. Findings

`PROJECT.json` quotes the text each one disagrees with.

- `flow_twice`: `approve_request` does not look at the status it overwrites
  (`database/repository.py:121`), after a check in a call of its own, so two
  overlapping approvals both resume the run and the tool runs twice. `AloneRunsOnce`
  proves that this overlap is the only cause: as long as no two approvals are between
  their read and their write, the tool runs once, whatever cancellations, failures and
  restarts do. A lock on the row from the read to the write would see to that.
- `flow_waiting`: `run_agent` writes its status after the request became public
  (`api/agents.py:63`), so a quick decision is overwritten and the run waits
  for ever. `LateIsNotWaiting` proves, of decisions that lose no write, that one written
  before the run request was answered is the only cause, however the decisions
  themselves overlap.
- `dialog`: the page connects when `POST /agents/run` has answered
  (`Playground.tsx:49`), after `approval_required` was published, and nothing is
  replayed, so the dialog of a waiting run does not show.

Also noticed while modelling; the models follow the code in each case:

- `tool_router` names `Status.skipped`, which does not exist (`agents/nodes.py:260`):
  a run without a tool raises there. `RouterRaises` is that path.
- A failed tool is announced as retried and counted (`nodes.py:502`), and no edge
  leads back to the tool.
- `approval_required` is announced two nodes before the request is saved
  (`nodes.py:316`), or is not saved at all when the database refuses.
- A BLOCK of `after_skill`, `before_response` and `after_request` hooks has no effect
  (`nodes.py:528`), nor have the modifications of `after_response` hooks
  (`nodes.py:496`).
- `_check_approval` asks for approval of a run that `permission_check` has blocked
  (`agents/graph.py:39`): the client gets `failed`, a pending request stays.
- An approval and a cancellation that overlap are both carried out
  (`api/approvals.py:62`, `database/repository.py:141`): the tool runs although a client
  was told "cancelled". `CancelledStaysOut` proves that the overlap is the only cause.
- A result that JSON cannot encode raises in `json.dumps` (`api/approvals.py:117`) inside
  the `try` that only logs: an approved run stays `waiting_approval` for ever, with no
  failing database call and no overlap, and a second approval is turned away.
  `agents/nodes.py:408` passes `default=str` in the same situation.
- An approve request may be answered 500 after its tool was executed: the model of the
  answer rejects a result that is neither an object, a text nor a list
  (`api/approvals.py:131`; `ExecutionsAreAnswered` says so). `POST /agents/run` does the
  same with a result its model rejects (`api/agents.py:67`).
- A query that fails in Chroma is answered like one that finds nothing
  (`rag/vectorstore.py:187`).
- `confidence_threshold` is not validated: at 0 the selector accepts the empty selection
  of a tier that failed and asks no other tier (`skills/selector.py:32`).
- No code emits `approval_denied` (`api/approvals.py:155`; IMPLEMENTATION_PLAN.md:55
  has `cancel_run` push it).
- `SkillExecutor` calls the hook manager with a string where an event is expected
  (`skills/executor.py:54`), so its hooks are never called, which docs/skills.md:63
  says they are. Nothing in the application uses `SkillExecutor`.
- Deleting an unknown id, or an id in another scope, is reported as done by Chroma
  (`rag/vectorstore.py:207`), and the row is deleted while its chunk stays.
- `main.py:84` builds the RAG engine without a repository: ingested chunks get no
  row in the documents table.
- The Streamlit page returns before its approve and deny buttons when `pg_running` is
  false (`src/streamlit_app/pages/playground.py:60`), which it is from the end of the
  run request on: a click on them reruns the page and is never evaluated.
- The answer to `POST /agents/run` opens a socket even when the page was left
  meanwhile (`Playground.tsx:49`).

## 7. Plan

Done, in this order: `AgentGraph`, `RunContract`, `ApprovalFlow`; `Registry`,
`HookPipeline`, `BuiltinHooks`, `BuiltinPipeline`; `ToolExecution`; `EventBus`, `PlaygroundClient`;
`RagStore`; `SkillService`; the theorems of section 5. Modules that are proved about
use no recursive operator.

Every safety property of the passing runs is a theorem, and two of the three that the
code violates are theorems under the condition that excludes the cause. What would come
next: a second client that shares a run with the page; the scores of the selector as
functions over bounded inputs.

## 8. Not modelled

- The handlers of the approval dialog in `Playground.tsx`: the page never gets to show
  it (`dialog`). They call the endpoints that `ApprovalFlow` models.
- The Streamlit pages: they run from the top at every click and poll read-only
  endpoints. Their approve and deny buttons, which section 6 describes, would call
  the same two endpoints.
- Read-only endpoints and listings: they change nothing.
- Authentication and rate limiting are checks of one request, the counters being
  slowapi's; redaction is a pure function on texts.
- The memory service is an insert and queries, and nothing writes it at run time.
- Models, migrations and schemas are declarations; providers, embeddings, the tracer
  and the other tools are adapters of external services.

Payloads (tasks, parameters, outputs, modifications) are abstracted everywhere except
where control depends on them: ranking in `RagStore`, scores in `SkillService`,
which code the Python tool's safety check refuses, and which text a pattern of a
hook matches are inputs.
