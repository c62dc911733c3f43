------------------------------ MODULE EventBus ------------------------------
(***************************************************************************)
(* The events of the agent runs on their way from the graph to WebSockets: *)
(* EventEmitter.emit and EventService.save_and_publish (agents/events.py,  *)
(* core/service.py), EventPublisher (core/publisher.py), the subscriber    *)
(* and the endpoint of a WebSocket (core/websocket_subscriber.py,          *)
(* api/runs.py).                                                           *)
(*                                                                         *)
(* Every invocation of the graph has an emitter of its own: the one POST   *)
(* /agents/run starts, which ends in a pause for approval, and those that  *)
(* approvals start. An approval can be given before the first invocation   *)
(* has told of its pause, and two can pass the check of the request, so    *)
(* the invocations of a run may overlap. Saving an event and copying the   *)
(* list of subscribers is one step: nothing awaits in between. Then every  *)
(* subscriber is awaited in turn.                                          *)
(***************************************************************************)
EXTENDS Naturals, SequencesExt

CONSTANTS
  Runs,      \* agent runs
  Emitters,  \* event emitters, one for each invocation of the graph
  RunOf,     \* emitter -> the run it works on
  First,     \* run -> the emitter of POST /agents/run
  Conns,     \* WebSocket connections; one that is over is used again
  EventCount,  \* emitter -> the number of its events
  MaxFaults  \* bound on the events that cannot be saved, the connections that
             \* break and the requests that fail

ASSUME BusAssumption ==
  /\ Runs # {}
  /\ RunOf \in [Emitters -> Runs] /\ First \in [Runs -> Emitters]
  /\ \A r \in Runs : RunOf[First[r]] = r
  /\ EventCount \in [Emitters -> Nat \ {0}]
  /\ MaxFaults \in Nat

VARIABLES
  phase,    \* emitter -> "absent", "working" or "over"
  earlier,  \* history: emitter -> those of its run that were over when it began
  emitted,  \* emitter -> how many events it has emitted
  stored,   \* emitter -> its events in the table agent_events
  todo,     \* emitter -> the subscribers publish has still to await
  subs,     \* run -> _subscribers
  conn,     \* connection -> its run, whether it is up, and the endpoint
  wire,     \* connection -> the events sent and not yet received
  owed,     \* history: connection -> the events saved since it subscribed and
            \* not sent to it
  faults

Runtime == <<phase, earlier, emitted, stored, todo>>
bus == <<Runtime, subs, conn, wire, owed, faults>>

EventNo == Nat \ {0}
Event == Emitters \X EventNo

Connection ==
  [run : Runs, up : BOOLEAN, endpoint : {"none", "subscribed", "over"}]

-----------------------------------------------------------------------------
(* The invocations of a run *)

begin(m) ==
  /\ phase[m] = "absent"
  /\ phase' = [phase EXCEPT ![m] = "working"]
  /\ earlier' = [earlier EXCEPT ![m] =
       {l \in Emitters : RunOf[l] = RunOf[m] /\ phase[l] = "over"}]
  /\ UNCHANGED <<emitted, stored, todo, subs, conn, wire, owed, faults>>

begin_run(r) == begin(First[r])

(* pause_for_approval stores the request before it emits the last event.   *)
RequestIsStored(r) ==
  /\ phase[First[r]] # "absent"
  /\ \/ emitted[First[r]] = EventCount[First[r]]
     \/ emitted[First[r]] + 1 = EventCount[First[r]] /\ todo[First[r]] = <<>>

(* Somebody approves the run, while an invocation may be at work on it.    *)
resume_run(m) ==
  /\ m # First[RunOf[m]] /\ RequestIsStored(RunOf[m])
  /\ begin(m)

MayEmit(m) ==
  /\ phase[m] = "working" /\ todo[m] = <<>>
  /\ emitted[m] < EventCount[m]

\* faulty variant
PublishUnsaved(m) == todo' = [todo EXCEPT ![m] = subs[RunOf[m]]]

SaveFails(m) == UNCHANGED todo

(* An event that cannot be saved is logged and not published. *)
save_and_publish(m) ==
  /\ MayEmit(m)
  /\ emitted' = [emitted EXCEPT ![m] = @ + 1]
  /\ \/ /\ stored' = [stored EXCEPT ![m] = @ \cup {emitted'[m]}]
        /\ todo' = [todo EXCEPT ![m] = subs[RunOf[m]]]
        /\ owed' = [c \in Conns |-> IF c \in Range(subs[RunOf[m]]) /\ conn[c].up
                                   THEN owed[c] \cup {<<m, emitted'[m]>>}
                                   ELSE owed[c]]
        /\ UNCHANGED faults
     \/ /\ faults < MaxFaults /\ faults' = faults + 1
        /\ SaveFails(m)
        /\ UNCHANGED <<stored, owed>>
  /\ UNCHANGED <<phase, earlier, subs, conn, wire>>

(* on_event of the next subscriber: a failing send is swallowed. *)
send(m) ==
  /\ todo[m] # <<>>
  /\ todo' = [todo EXCEPT ![m] = Tail(@)]
  /\ LET c == Head(todo[m])
         e == <<m, emitted[m]>>
     IN IF conn[c].up /\ conn[c].endpoint = "subscribed"
        THEN /\ wire' = [wire EXCEPT ![c] = Append(@, e)]
             /\ owed' = [owed EXCEPT ![c] = @ \ {e}]
        ELSE UNCHANGED <<wire, owed>>
  /\ UNCHANGED <<phase, earlier, emitted, stored, subs, conn, faults>>

(* The invocation is over: paused, or done. *)
end_invocation(m) ==
  /\ phase[m] = "working"
  /\ todo[m] = <<>> /\ ~MayEmit(m)
  /\ phase' = [phase EXCEPT ![m] = "over"]
  /\ UNCHANGED <<earlier, emitted, stored, todo, subs, conn, wire, owed, faults>>

-----------------------------------------------------------------------------
(* run_events_ws *)

accept(c) ==
  /\ conn[c].up /\ conn[c].endpoint = "none"
  /\ conn' = [conn EXCEPT ![c].endpoint = "subscribed"]
  /\ subs' = [subs EXCEPT ![conn[c].run] = Append(@, c)]
  /\ UNCHANGED <<Runtime, wire, owed, faults>>

\* faulty variant: publish iterates over the list that unsubscribe shortens
LeaveLiveList(r, c) ==
  todo' = [m \in Emitters |->
    IF RunOf[m] # r \/ todo[m] = <<>> THEN todo[m]
    ELSE IF c \in Range(todo[m]) THEN RemoveFirst(todo[m], c)
    ELSE Tail(todo[m])]

(* publish works through a copy. *)
LeaveCopy(r, c) == UNCHANGED todo

(* receive_text raises on a connection that is down; finally unsubscribe. *)
leave(c) ==
  /\ ~conn[c].up /\ conn[c].endpoint = "subscribed"
  /\ conn' = [conn EXCEPT ![c].endpoint = "over"]
  /\ subs' = [subs EXCEPT ![conn[c].run] = RemoveFirst(@, c)]
  /\ LeaveCopy(conn[c].run, c)
  /\ UNCHANGED <<phase, earlier, emitted, stored, wire, owed, faults>>

(* The network or the server breaks a connection, or refuses it. *)
drop(c) ==
  /\ conn[c].up
  /\ faults < MaxFaults /\ faults' = faults + 1
  /\ conn' = [conn EXCEPT ![c].up = FALSE]
  /\ wire' = [wire EXCEPT ![c] = <<>>]
  /\ owed' = [owed EXCEPT ![c] = {}]
  /\ UNCHANGED <<Runtime, subs>>

-----------------------------------------------------------------------------

BusInit ==
  /\ phase = [m \in Emitters |-> "absent"]
  /\ earlier = [m \in Emitters |-> {}]
  /\ emitted = [m \in Emitters |-> 0]
  /\ stored = [m \in Emitters |-> {}]
  /\ todo = [m \in Emitters |-> <<>>]
  /\ subs = [r \in Runs |-> <<>>]
  /\ conn \in [Conns -> {[run |-> CHOOSE r \in Runs : TRUE, up |-> FALSE,
                          endpoint |-> "over"]}]
  /\ wire = [c \in Conns |-> <<>>]
  /\ owed = [c \in Conns |-> {}]
  /\ faults = 0

EmitterStep(m) == save_and_publish(m) \/ send(m) \/ end_invocation(m)

EndpointStep(c) == accept(c) \/ leave(c)

BusTypeOK ==
  /\ phase \in [Emitters -> {"absent", "working", "over"}]
  /\ earlier \in [Emitters -> SUBSET Emitters]
  /\ emitted \in [Emitters -> Nat]
  /\ \A m \in Emitters : emitted[m] <= EventCount[m]
  /\ stored \in [Emitters -> SUBSET EventNo]
  /\ todo \in [Emitters -> Seq(Conns)]
  /\ subs \in [Runs -> Seq(Conns)]
  /\ conn \in [Conns -> Connection]
  /\ wire \in [Conns -> Seq(Event)]
  /\ owed \in [Conns -> SUBSET Event]
  /\ faults \in 0..MaxFaults

(* Whoever subscribes, leaves or breaks while an event is handed round: a  *)
(* connection that is up gets every stored event from its subscription on, *)
(* whatever other invocations of the run hand round meanwhile, and the     *)
(* list holds the connections of the endpoints and no others.              *)
SubscribersAreServed ==
  /\ \A c \in Conns, m \in Emitters :
       conn[c].up /\ conn[c].endpoint = "subscribed" /\ todo[m] = <<>>
         => \A e \in owed[c] : e[1] # m
  /\ \A r \in Runs :
       /\ Range(subs[r]) = {c \in Conns : /\ conn[c].run = r
                                          /\ conn[c].endpoint = "subscribed"}
       /\ IsInjective(subs[r])
=============================================================================
