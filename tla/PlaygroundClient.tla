-------------------------- MODULE PlaygroundClient --------------------------
(***************************************************************************)
(* The React page that starts a run and follows its events: useWebSocket   *)
(* (frontend/src/api/websocket.ts) and Playground (pages/Playground.tsx),  *)
(* composed with the EventBus that serves it.                              *)
(*                                                                         *)
(* A WebSocket is a connection of the bus. The handlers of a socket run    *)
(* one at a time; what happens to a socket whose handlers were detached no *)
(* longer concerns the page. POST /agents/run answers when the invocation  *)
(* of the graph is over.                                                   *)
(***************************************************************************)
EXTENDS EventBus

CONSTANTS
  None,         \* null
  MaxAttempts   \* reconnections in a row, 5 in the code

ASSUME ClientAssumption == MaxAttempts \in Nat /\ None \notin Runs \cup Conns

VARIABLES
  mounted,    \* the page is shown
  posted,     \* the run of a POST that has not been answered
  runId,      \* runId of the page
  runIdRef,   \* the run the socket follows
  wsRef,
  attached,   \* the sockets with handlers
  connState,  \* connectionState
  timer,      \* reconnectTimer is running
  attempts,   \* reconnectAttempts
  events      \* the events shown: <<emitter, number>>

socket == <<runIdRef, wsRef, attached, connState, timer, attempts>>
page == <<mounted, posted, runId>>
vars == <<bus, page, socket, events>>

-----------------------------------------------------------------------------
(* useWebSocket *)

(* A connection nobody has a use for any more: it stands for a new one. *)
Free(c) ==
  /\ ~conn[c].up /\ conn[c].endpoint # "subscribed"
  /\ c \notin attached
  /\ \A m \in Emitters : c \notin Range(todo[m])

(* Nothing is on its way, or owed, to these connections. *)
Clear(gone) ==
  /\ wire' = [c \in Conns |-> IF c \in gone THEN <<>> ELSE wire[c]]
  /\ owed' = [c \in Conns |-> IF c \in gone THEN {} ELSE owed[c]]

\* faulty variant: a socket that is closed keeps its handlers
KeepHandlers(gone) == attached

Detach(gone) == attached \ gone

(* new WebSocket(url) in _open, after the sockets in gone were closed. Any  *)
(* free connection does as well as another.                                *)
_open(r, gone) ==
  \E c \in Conns :
    /\ Free(c) /\ c = CHOOSE d \in Conns : Free(d)
    /\ conn' = [d \in Conns |->
         IF d = c THEN [run |-> r, up |-> TRUE, endpoint |-> "none"]
         ELSE [conn[d] EXCEPT !.up = @ /\ d \notin gone]]
    /\ Clear(gone \cup {c})
    /\ wsRef' = c
    /\ attached' = Detach(gone) \cup {c}
    /\ connState' = "CONNECTING"

(* The socket that disconnect detaches and closes. *)
Current == {wsRef} \ {None}

disconnect ==
  /\ runIdRef' = None
  /\ wsRef' = None
  /\ attached' = Detach(Current)
  /\ connState' = "DISCONNECTED"
  /\ timer' = FALSE
  /\ attempts' = 0
  /\ conn' = [c \in Conns |-> [conn[c] EXCEPT !.up = @ /\ c \notin Current]]
  /\ Clear(Current)

(* disconnect, then _open. *)
connect(r) ==
  /\ _open(r, Current)
  /\ runIdRef' = r /\ timer' = FALSE /\ attempts' = 0

onopen(c) ==
  /\ c \in attached /\ conn[c].up /\ conn[c].endpoint = "subscribed"
  /\ connState # "CONNECTED"
  /\ connState' = "CONNECTED"
  /\ attempts' = 0
  /\ UNCHANGED <<bus, page, runIdRef, wsRef, attached, timer, events>>

onmessage(c) ==
  /\ wire[c] # <<>> /\ c \in attached
  /\ c = wsRef => connState = "CONNECTED"
  /\ wire' = [wire EXCEPT ![c] = Tail(@)]
  /\ events' = Append(events, Head(wire[c]))
  /\ UNCHANGED <<Runtime, subs, conn, owed, faults, page, socket>>

\* faulty variants
ReconnectsOnceMore == runIdRef # None /\ attempts <= MaxAttempts
ReconnectsOnceLess == runIdRef # None /\ attempts + 1 < MaxAttempts

MayReconnect == runIdRef # None /\ attempts < MaxAttempts

(* The connection broke, or was never made. *)
onclose(c) ==
  /\ c \in attached /\ ~conn[c].up
  /\ attached' = attached \ {c}
  /\ connState' = "DISCONNECTED"
  /\ wsRef' = None
  /\ \/ /\ MayReconnect
        /\ attempts' = attempts + 1
        /\ timer' = TRUE
     \/ /\ ~MayReconnect
        /\ UNCHANGED <<attempts, timer>>
  /\ UNCHANGED <<bus, page, runIdRef, events>>

(* The delay is over. *)
reconnect ==
  /\ timer
  /\ timer' = FALSE
  /\ _open(runIdRef, {})
  /\ UNCHANGED <<Runtime, subs, faults, page, runIdRef, attempts, events>>

-----------------------------------------------------------------------------
(* Playground *)

(* handleRun up to its await. The socket of the last run stays open. *)
handleRun(r) ==
  /\ mounted /\ posted = None
  /\ begin_run(r)
  /\ posted' = r
  /\ runId' = None
  /\ events' = <<>>
  /\ UNCHANGED <<mounted, socket>>

(* The POST is answered, even if the page has been left. *)
run_answered ==
  /\ posted # None /\ phase[First[posted]] = "over"
  /\ runId' = posted
  /\ connect(posted)
  /\ posted' = None
  /\ UNCHANGED <<Runtime, subs, faults, mounted, events>>

(* The POST fails on its way back: the run is there, the page never knows. *)
run_failed ==
  /\ posted # None
  /\ faults < MaxFaults /\ faults' = faults + 1
  /\ posted' = None
  /\ UNCHANGED <<Runtime, subs, conn, wire, owed, mounted, runId, socket, events>>

leave_page ==
  /\ mounted
  /\ mounted' = FALSE
  /\ disconnect
  /\ UNCHANGED <<Runtime, subs, faults, posted, runId, events>>

-----------------------------------------------------------------------------

Init ==
  /\ BusInit
  /\ mounted = TRUE
  /\ posted = None /\ runId = None
  /\ runIdRef = None /\ wsRef = None
  /\ attached = {}
  /\ connState = "DISCONNECTED"
  /\ timer = FALSE
  /\ attempts = 0
  /\ events = <<>>

ServerStep ==
  /\ \/ \E m \in Emitters : EmitterStep(m)
     \/ \E c \in Conns : EndpointStep(c)
  /\ UNCHANGED <<page, socket, events>>

Environment ==
  /\ \/ \E m \in Emitters : resume_run(m)
     \/ \E c \in Conns : drop(c)
  /\ UNCHANGED <<page, socket, events>>

SocketStep == \E c \in Conns : onopen(c) \/ onmessage(c) \/ onclose(c)

Client ==
  \/ SocketStep
  \/ reconnect
  \/ \E r \in Runs : handleRun(r)
  \/ run_answered \/ run_failed \/ leave_page

Next == ServerStep \/ Environment \/ Client

(* The event loops of the server and of the browser run what is ready, a   *)
(* broken connection is noticed, and timers fire. Nobody has to approve a  *)
(* run, to start one or to leave.                                          *)
Fairness ==
  /\ WF_vars(ServerStep)
  /\ WF_vars(SocketStep)
  /\ WF_vars(reconnect)

Spec == Init /\ [][Next]_vars
FairSpec == Spec /\ Fairness

-----------------------------------------------------------------------------

(* The state is well formed, and connectionState tells what the page has.  *)
TypeOK ==
  /\ BusTypeOK
  /\ mounted \in BOOLEAN
  /\ posted \in Runs \cup {None} /\ runId \in Runs \cup {None}
  /\ runIdRef \in Runs \cup {None} /\ wsRef \in Conns \cup {None}
  /\ attached \subseteq Conns
  /\ connState \in {"DISCONNECTED", "CONNECTING", "CONNECTED"}
  /\ timer \in BOOLEAN
  /\ attempts \in 0..MaxAttempts
  /\ events \in Seq(Event)

(* The invocation of x did not begin after that of y was over, and an      *)
(* emitter's events have the order of their numbers.                       *)
MayFollow(x, y) ==
  IF x[1] = y[1] THEN x[2] < y[2] ELSE y[1] \notin earlier[x[1]]

(* However connections break, runs follow each other and invocations of a  *)
(* run overlap: what the page shows is stored, never twice, an invocation's*)
(* events in the order they happened, those of an invocation that was over *)
(* when another began before the other's, and a page that has a run's id   *)
(* shows no event of another run after one of its own.                     *)
ShownInOrder ==
  \A i, j \in 1..Len(events) :
    /\ events[i][2] \in stored[events[i][1]]
    /\ i < j => /\ MayFollow(events[i], events[j])
                /\ RunOf[events[i][1]] = runId => RunOf[events[j][1]] = runId

(* The page has one socket: every connection it has not closed is wsRef,   *)
(* it is the followed run's, and no timer is about to open another one.    *)
OneSocket ==
  /\ \A c \in Conns : conn[c].up => c = wsRef
  /\ wsRef # None => conn[wsRef].run = runIdRef /\ ~timer
  /\ connState = "DISCONNECTED" <=> wsRef = None

(* A page that follows a run is in the end connected to the run it follows *)
(* by then, or has failed to reconnect as often as it may, or follows none *)
(* any more.                                                               *)
ConnectsOrGivesUp ==
  runIdRef # None
    ~> \/ connState = "CONNECTED" /\ conn[wsRef].run = runIdRef
       \/ connState = "DISCONNECTED" /\ attempts = MaxAttempts
       \/ runIdRef = None

(* The page shows the approval dialog if it has got approval_required, the *)
(* event the first invocation ends with (Playground.tsx).                  *)
ShowsDialog(r) == <<First[r], EventCount[First[r]]>> \in Range(events)

WaitsForApproval(r) ==
  /\ phase[First[r]] = "over" /\ EventCount[First[r]] \in stored[First[r]]
  /\ \A m \in Emitters \ {First[r]} : RunOf[m] = r => phase[m] = "absent"

(* The documented flow: the page of a run that waits for approval, once it *)
(* is connected and has got all that was sent, shows the dialog.           *)
WaitingRunShowsDialog ==
  \A r \in Runs :
    /\ runId = r /\ WaitsForApproval(r)
    /\ connState = "CONNECTED" /\ wire[wsRef] = <<>>
    => ShowsDialog(r)
=============================================================================
