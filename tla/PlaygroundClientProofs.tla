----------------------- MODULE PlaygroundClientProofs -----------------------
(***************************************************************************)
(* Theorems about the React page and the event bus, for any number of      *)
(* runs, connections, events, failures and reconnections.                  *)
(***************************************************************************)
EXTENDS PlaygroundClient, SequenceLemmas

(* The part of TypeOK that is about the page and its socket.               *)
PageTypes ==
  /\ mounted \in BOOLEAN
  /\ posted \in Runs \cup {None} /\ runId \in Runs \cup {None}
  /\ runIdRef \in Runs \cup {None} /\ wsRef \in Conns \cup {None}
  /\ attached \subseteq Conns
  /\ connState \in {"DISCONNECTED", "CONNECTING", "CONNECTED"}
  /\ timer \in BOOLEAN
  /\ attempts \in 0..MaxAttempts
  /\ events \in Seq(Event)
  /\ timer => runIdRef \in Runs

(* An event that is being handed round has a number.                       *)
BusTypes ==
  /\ BusTypeOK
  /\ \A m \in Emitters : todo[m] # <<>> => emitted[m] \in EventNo

TypeInv == BusTypes /\ PageTypes

LEMMA TypeInvIsTypeOK == TypeInv => TypeOK
BY DEF TypeInv, BusTypes, PageTypes, TypeOK

LEMMA SequenceTypes ==
  ASSUME NEW S
  PROVE  /\ <<>> \in Seq(S)
         /\ \A s \in Seq(S), e \in S : Append(s, e) \in Seq(S)
         /\ \A s \in Seq(S) : s # <<>> => Head(s) \in S /\ Tail(s) \in Seq(S)
OBVIOUS

LEMMA TypeInit == Init => TypeInv
<1> SUFFICES ASSUME Init PROVE TypeInv
  OBVIOUS
<1>1. PICK r0 \in Runs : conn \in [Conns -> {[run |-> r0, up |-> FALSE,
                                             endpoint |-> "over"]}]
  <2>1. (CHOOSE r \in Runs : TRUE) \in Runs
    BY BusAssumption
  <2>. QED  BY <2>1, Zenon DEF Init, BusInit
<1>2. conn \in [Conns -> Connection]
  <2> DEFINE free == [run |-> r0, up |-> FALSE, endpoint |-> "over"]
  <2>1. free \in Connection
    BY DEF Connection
  <2> HIDE DEF free
  <2>2. conn \in [Conns -> {free}]
    BY <1>1 DEF free
  <2>. QED  BY <2>1, <2>2
<1>3. /\ 0 \in 0..MaxFaults /\ 0 \in 0..MaxAttempts
      /\ \A m \in Emitters : 0 <= EventCount[m]
      /\ <<>> \in Seq(Conns)
      /\ <<>> \in Seq(Event)
  BY BusAssumption, ClientAssumption
<1>4. BusTypes
  BY <1>2, <1>3 DEF Init, BusInit, BusTypes, BusTypeOK
<1>5. PageTypes
  BY <1>3 DEF Init, PageTypes
<1>. QED  BY <1>4, <1>5 DEF TypeInv

(* The actions of the bus.                                                 *)
LEMMA TypeBusStep ==
  ASSUME BusTypes,
         \/ \E m \in Emitters : EmitterStep(m) \/ begin(m) \/ resume_run(m)
         \/ \E c \in Conns : EndpointStep(c) \/ drop(c)
  PROVE  BusTypes'
<1>0. BusTypeOK /\ \A m \in Emitters : todo[m] # <<>> => emitted[m] \in EventNo
  BY DEF BusTypes
<1>1. ASSUME NEW m \in Emitters, save_and_publish(m) PROVE BusTypes'
  <2>1. emitted[m] \in Nat /\ emitted[m] < EventCount[m] /\ EventCount[m] \in Nat
    BY <1>0, <1>1, BusAssumption DEF BusTypeOK, save_and_publish, MayEmit
  <2>2. /\ emitted[m] + 1 \in EventNo /\ emitted[m] + 1 \in Nat
        /\ emitted[m] + 1 <= EventCount[m]
    BY <2>1 DEF EventNo
  <2>3. /\ emitted' \in [Emitters -> Nat] /\ emitted'[m] = emitted[m] + 1
        /\ \A l \in Emitters \ {m} : emitted'[l] = emitted[l]
    BY <1>0, <1>1, <2>2 DEF save_and_publish, BusTypeOK
  <2>4. /\ todo' \in [Emitters -> Seq(Conns)]
        /\ \A l \in Emitters \ {m} : todo'[l] = todo[l]
    <3>1. subs[RunOf[m]] \in Seq(Conns) /\ todo \in [Emitters -> Seq(Conns)]
      BY <1>0, BusAssumption DEF BusTypeOK
    <3>2. todo' = [todo EXCEPT ![m] = subs[RunOf[m]]] \/ todo' = todo
      BY <1>1 DEF save_and_publish, SaveFails
    <3>. QED  BY <3>1, <3>2
  <2> DEFINE n == emitted'[m]
             e == <<m, emitted'[m]>>
  <2>a. n \in EventNo /\ e \in Event
    BY <2>2, <2>3 DEF Event
  <2>b. \/ stored' = [stored EXCEPT ![m] = @ \cup {n}]
        \/ stored' = stored
    BY <1>1 DEF save_and_publish
  <2>c. \/ owed' = [c \in Conns |-> IF c \in Range(subs[RunOf[m]]) /\ conn[c].up
                                   THEN owed[c] \cup {e} ELSE owed[c]]
        \/ owed' = owed
    BY <1>1 DEF save_and_publish
  <2> HIDE DEF n, e
  <2>5. stored' \in [Emitters -> SUBSET EventNo]
    <3>1. stored \in [Emitters -> SUBSET EventNo]
      BY <1>0 DEF BusTypeOK
    <3>. QED  BY <2>a, <2>b, <3>1
  <2>6. owed' \in [Conns -> SUBSET Event]
    <3>1. owed \in [Conns -> SUBSET Event]
      BY <1>0 DEF BusTypeOK
    <3>. QED  BY <2>a, <2>c, <3>1
  <2>7. faults' \in 0..MaxFaults
    <3>1. faults \in 0..MaxFaults /\ MaxFaults \in Nat
      BY <1>0, BusAssumption DEF BusTypeOK
    <3>2. faults' = faults \/ (faults < MaxFaults /\ faults' = faults + 1)
      BY <1>1 DEF save_and_publish
    <3>. QED  BY <3>1, <3>2
  <2>8. \A l \in Emitters : /\ todo'[l] # <<>> => emitted'[l] \in EventNo
                           /\ emitted'[l] <= EventCount[l]
    BY <1>0, <2>2, <2>3, <2>4 DEF BusTypeOK
  <2>9. UNCHANGED <<phase, earlier, subs, conn, wire>>
    BY <1>1 DEF save_and_publish
  <2>. QED  BY <1>0, <2>3, <2>4, <2>5, <2>6, <2>7, <2>8, <2>9
            DEF BusTypes, BusTypeOK
<1>2. ASSUME NEW m \in Emitters, send(m) PROVE BusTypes'
  <2>1. /\ todo' \in [Emitters -> Seq(Conns)]
        /\ \A l \in Emitters : todo'[l] # <<>> => todo[l] # <<>>
    BY <1>0, <1>2, SequenceTypes DEF send, BusTypeOK
  <2>2. PICK e \in Event : e = <<m, emitted[m]>>
    BY <1>0, <1>2 DEF send, Event
  <2>3. wire' \in [Conns -> Seq(Event)]
    <3>1. \A d \in Conns : wire[d] \in Seq(Event)
      BY <1>0 DEF BusTypeOK
    <3>2. \A d \in Conns : Append(wire[d], e) \in Seq(Event)
      BY <2>2, <3>1, SequenceTypes
    <3>3. \/ wire' = wire
          \/ wire' = [wire EXCEPT ![Head(todo[m])] = Append(@, e)]
      BY <1>2, <2>2 DEF send
    <3>4. wire \in [Conns -> Seq(Event)] /\ Head(todo[m]) \in Conns
      BY <1>0, <1>2, SequenceTypes DEF BusTypeOK, send
    <3>. QED  BY <3>2, <3>3, <3>4
  <2>4. owed' \in [Conns -> SUBSET Event]
    BY <1>0, <1>2, <2>2 DEF send, BusTypeOK
  <2>5. UNCHANGED <<phase, earlier, emitted, stored, subs, conn, faults>>
    BY <1>2 DEF send
  <2>. QED  BY <1>0, <2>1, <2>3, <2>4, <2>5 DEF BusTypes, BusTypeOK
<1>3. ASSUME NEW m \in Emitters, end_invocation(m) \/ begin(m) \/ resume_run(m)
      PROVE  BusTypes'
  BY <1>0, <1>3 DEF end_invocation, begin, resume_run, BusTypes, BusTypeOK
<1>4. ASSUME NEW c \in Conns, accept(c) PROVE BusTypes'
  <2>1. subs' \in [Runs -> Seq(Conns)]
    BY <1>0, <1>4, SequenceTypes DEF accept, BusTypeOK
  <2>2. conn' \in [Conns -> Connection]
    BY <1>0, <1>4 DEF accept, BusTypeOK, Connection
  <2>3. UNCHANGED <<Runtime, wire, owed, faults>>
    BY <1>4 DEF accept
  <2>. QED  BY <1>0, <2>1, <2>2, <2>3 DEF BusTypes, BusTypeOK, Runtime
<1>5. ASSUME NEW c \in Conns, leave(c) PROVE BusTypes'
  <2>1. \A q \in Runs : RemoveFirst(subs[q], c) \in Seq(Conns)
    BY <1>0, RemoveFirstRange DEF BusTypeOK
  <2>2. subs' \in [Runs -> Seq(Conns)]
    <3>1. subs' = [subs EXCEPT ![conn[c].run] = RemoveFirst(subs[conn[c].run], c)]
      BY <1>5 DEF leave
    <3>2. subs \in [Runs -> Seq(Conns)]
      BY <1>0 DEF BusTypeOK
    <3>. QED  BY <2>1, <3>1, <3>2
  <2>3. conn' \in [Conns -> Connection]
    BY <1>0, <1>5 DEF leave, BusTypeOK, Connection
  <2>4. UNCHANGED <<Runtime, wire, owed, faults>>
    BY <1>5 DEF leave, LeaveCopy, Runtime
  <2>. QED  BY <1>0, <2>2, <2>3, <2>4 DEF BusTypes, BusTypeOK, Runtime
<1>6. ASSUME NEW c \in Conns, drop(c) PROVE BusTypes'
  <2>1. conn' \in [Conns -> Connection]
    <3>1. conn' = [conn EXCEPT ![c].up = FALSE]
      BY <1>6 DEF drop
    <3>2. conn \in [Conns -> Connection]
      BY <1>0 DEF BusTypeOK
    <3>. QED  BY <3>1, <3>2 DEF Connection
  <2>2. faults' \in 0..MaxFaults
    BY <1>0, <1>6, BusAssumption DEF drop, BusTypeOK
  <2>3. wire' \in [Conns -> Seq(Event)]
    BY <1>0, <1>6, SequenceTypes DEF drop, BusTypeOK
  <2>4. owed' \in [Conns -> SUBSET Event]
    BY <1>0, <1>6 DEF drop, BusTypeOK
  <2>5. UNCHANGED <<Runtime, subs>>
    BY <1>6 DEF drop
  <2>. QED  BY <1>0, <2>1, <2>2, <2>3, <2>4, <2>5 DEF BusTypes, BusTypeOK, Runtime
<1>. QED  BY <1>1, <1>2, <1>3, <1>4, <1>5, <1>6 DEF EmitterStep, EndpointStep

(* A client that opens or closes connections, or reads from one.           *)
LEMMA TypeConnections ==
  ASSUME BusTypes, UNCHANGED <<Runtime, subs>>, faults' \in 0..MaxFaults,
         conn' \in [Conns -> Connection], wire' \in [Conns -> Seq(Event)],
         owed' \in [Conns -> SUBSET Event]
  PROVE  BusTypes'
BY DEF BusTypes, BusTypeOK, Runtime

LEMMA TypeOpen ==
  ASSUME BusTypes, NEW r \in Runs, NEW gone, _open(r, gone),
         attached \subseteq Conns
  PROVE  /\ conn' \in [Conns -> Connection]
         /\ wire' \in [Conns -> Seq(Event)]
         /\ owed' \in [Conns -> SUBSET Event]
         /\ wsRef' \in Conns
         /\ attached' \subseteq Conns
         /\ connState' = "CONNECTING"
<1>0. /\ conn \in [Conns -> Connection] /\ wire \in [Conns -> Seq(Event)]
      /\ owed \in [Conns -> SUBSET Event]
  BY DEF BusTypes, BusTypeOK
<1>1. PICK c \in Conns :
        /\ conn' = [d \in Conns |->
             IF d = c THEN [run |-> r, up |-> TRUE, endpoint |-> "none"]
             ELSE [conn[d] EXCEPT !.up = @ /\ d \notin gone]]
        /\ Clear(gone \cup {c})
        /\ wsRef' = c
        /\ attached' = Detach(gone) \cup {c}
        /\ connState' = "CONNECTING"
  BY DEF _open
<1>2. conn' \in [Conns -> Connection]
  BY <1>0, <1>1 DEF Connection
<1>3. wire' \in [Conns -> Seq(Event)] /\ owed' \in [Conns -> SUBSET Event]
  BY <1>0, <1>1, SequenceTypes DEF Clear
<1>. QED  BY <1>1, <1>2, <1>3 DEF Detach

LEMMA TypeClient ==
  ASSUME TypeInv, Client
  PROVE  TypeInv'
<1>0. BusTypes /\ BusTypeOK /\ PageTypes /\ 0 \in 0..MaxAttempts
  BY ClientAssumption DEF TypeInv, BusTypes
<1>b. UNCHANGED bus => BusTypes'
  BY <1>0 DEF BusTypes, BusTypeOK, bus, Runtime
<1>1. ASSUME NEW c \in Conns, onopen(c) PROVE TypeInv'
  BY <1>0, <1>1, <1>b DEF onopen, page, TypeInv, PageTypes
<1>2. ASSUME NEW c \in Conns, onmessage(c) PROVE TypeInv'
  <2>1. Head(wire[c]) \in Event
    BY <1>0, <1>2, SequenceTypes DEF onmessage, BusTypeOK
  <2>2. wire' \in [Conns -> Seq(Event)]
    BY <1>0, <1>2, SequenceTypes DEF onmessage, BusTypeOK
  <2>4. events' \in Seq(Event)
    BY <1>0, <1>2, <2>1, SequenceTypes DEF onmessage, PageTypes
  <2>5. UNCHANGED <<Runtime, subs, conn, owed, faults, page, socket>>
    BY <1>2 DEF onmessage
  <2>6. BusTypes'
    BY <1>0, <2>2, <2>5, TypeConnections DEF BusTypeOK
  <2>7. PageTypes'
    BY <1>0, <2>4, <2>5 DEF PageTypes, page, socket
  <2>. QED  BY <2>6, <2>7 DEF TypeInv
<1>3. ASSUME NEW c \in Conns, onclose(c) PROVE TypeInv'
  <2>1. attempts' \in 0..MaxAttempts /\ (timer' => runIdRef \in Runs)
    BY <1>0, <1>3, ClientAssumption DEF onclose, MayReconnect, PageTypes
  <2>2. PageTypes'
    BY <1>0, <1>3, <2>1 DEF onclose, PageTypes, page
  <2>. QED  BY <1>b, <1>3, <2>2 DEF onclose, TypeInv
<1>4. CASE reconnect
  <2>1. runIdRef \in Runs /\ attached \subseteq Conns /\ _open(runIdRef, {})
    BY <1>0, <1>4 DEF reconnect, PageTypes
  <2>2. BusTypes'
    BY <1>0, <1>4, <2>1, TypeOpen, TypeConnections DEF reconnect, BusTypeOK
  <2>3. PageTypes'
    BY <1>0, <1>4, <2>1, TypeOpen DEF reconnect, PageTypes, page
  <2>. QED  BY <2>2, <2>3 DEF TypeInv
<1>5. ASSUME NEW r \in Runs, handleRun(r) PROVE TypeInv'
  <2>1. BusTypes'
    BY <1>0, <1>5, TypeBusStep, BusAssumption DEF handleRun, begin_run
  <2>2. PageTypes'
    BY <1>0, <1>5, SequenceTypes DEF handleRun, PageTypes, socket
  <2>. QED  BY <2>1, <2>2 DEF TypeInv
<1>6. CASE run_answered
  <2>1. posted \in Runs /\ attached \subseteq Conns /\ _open(posted, Current)
    BY <1>0, <1>6 DEF run_answered, connect, PageTypes
  <2>2. BusTypes'
    BY <1>0, <1>6, <2>1, TypeOpen, TypeConnections
    DEF run_answered, connect, BusTypeOK
  <2>3. PageTypes'
    BY <1>0, <1>6, <2>1, TypeOpen DEF run_answered, connect, PageTypes
  <2>. QED  BY <2>2, <2>3 DEF TypeInv
<1>7. CASE run_failed
  <2>1. faults' \in 0..MaxFaults
    BY <1>0, <1>7, BusAssumption DEF run_failed, BusTypeOK
  <2>2. UNCHANGED <<Runtime, subs, conn, wire, owed>>
    BY <1>7 DEF run_failed
  <2>3. BusTypes'
    BY <1>0, <2>1, <2>2, TypeConnections DEF BusTypeOK
  <2>4. PageTypes'
    BY <1>0, <1>7 DEF run_failed, PageTypes, socket
  <2>. QED  BY <2>3, <2>4 DEF TypeInv
<1>8. CASE leave_page
  <2>1. conn' \in [Conns -> Connection]
    BY <1>0, <1>8 DEF leave_page, disconnect, BusTypeOK, Connection
  <2>2. wire' \in [Conns -> Seq(Event)] /\ owed' \in [Conns -> SUBSET Event]
    BY <1>0, <1>8, SequenceTypes DEF leave_page, disconnect, Clear, BusTypeOK
  <2>3. BusTypes'
    BY <1>0, <1>8, <2>1, <2>2, TypeConnections DEF leave_page, BusTypeOK
  <2>4. PageTypes'
    BY <1>0, <1>8 DEF leave_page, disconnect, Detach, PageTypes
  <2>. QED  BY <2>3, <2>4 DEF TypeInv
<1>. QED  BY <1>1, <1>2, <1>3, <1>4, <1>5, <1>6, <1>7, <1>8
          DEF Client, SocketStep

LEMMA TypeStep ==
  ASSUME TypeInv, [Next]_vars
  PROVE  TypeInv'
<1>1. CASE ServerStep \/ Environment
  <2>1. PageTypes'
    BY <1>1 DEF ServerStep, Environment, TypeInv, PageTypes, page, socket
  <2>2. BusTypes'
    BY <1>1, TypeBusStep DEF ServerStep, Environment, TypeInv
  <2>. QED  BY <2>1, <2>2 DEF TypeInv
<1>2. CASE UNCHANGED vars
  BY <1>2
  DEF TypeInv, BusTypes, BusTypeOK, PageTypes, vars, bus, Runtime, page, socket
<1>. QED  BY <1>1, <1>2, TypeClient DEF Next

LEMMA TypeInvHolds == Spec => []TypeInv
BY TypeInit, TypeStep, PTL DEF Spec

(* The bus and the page stay well formed, and the page never tries to      *)
(* reconnect more often than it may.                                       *)
THEOREM TypeCorrect == Spec => []TypeOK
BY TypeInvIsTypeOK, TypeInvHolds, PTL

-----------------------------------------------------------------------------
(* One socket: the page listens to the socket it knows, and to no other.   *)

SocketInv == attached = {wsRef} \ {None} /\ OneSocket

LEMMA SocketOpen ==
  ASSUME TypeInv, SocketInv, NEW r \in Runs, NEW gone, _open(r, gone),
         Current \subseteq gone, runIdRef' = r, timer' = FALSE
  PROVE  SocketInv'
<1>1. PICK c \in Conns :
        /\ Free(c)
        /\ conn' = [d \in Conns |->
             IF d = c THEN [run |-> r, up |-> TRUE, endpoint |-> "none"]
             ELSE [conn[d] EXCEPT !.up = @ /\ d \notin gone]]
        /\ wsRef' = c
        /\ attached' = Detach(gone) \cup {c}
        /\ connState' = "CONNECTING"
  BY DEF _open
<1>2. c # None
  BY ClientAssumption
<1>3. attached' = {c}
  BY <1>1 DEF SocketInv, Detach, Current
<1>4. conn \in [Conns -> Connection]
  BY DEF TypeInv, BusTypes, BusTypeOK
<1>5. conn'[c].up /\ conn'[c].run = r
  BY <1>1
<1>6. ASSUME NEW d \in Conns, d # c PROVE ~conn'[d].up
  <2>1. conn'[d].up = (conn[d].up /\ d \notin gone)
    BY <1>1, <1>4, <1>6 DEF Connection
  <2>2. conn[d].up => d = wsRef
    BY DEF SocketInv, OneSocket
  <2>3. d = wsRef => d \in gone
    BY ClientAssumption DEF Current
  <2>. QED  BY <2>1, <2>2, <2>3
<1>7. wsRef' = c /\ connState' = "CONNECTING"
  BY <1>1
<1>8. attached' = {wsRef'} \ {None}
  BY <1>2, <1>3, <1>7
<1>9. OneSocket'
  BY <1>2, <1>5, <1>6, <1>7 DEF OneSocket
<1>. QED  BY <1>8, <1>9 DEF SocketInv

LEMMA SocketStepLemma ==
  ASSUME TypeInv, SocketInv, [Next]_vars
  PROVE  SocketInv'
<1>0. /\ conn \in [Conns -> Connection] /\ PageTypes
      /\ attached = {wsRef} \ {None} /\ OneSocket
  BY DEF TypeInv, BusTypes, BusTypeOK, SocketInv
<1>1. ASSUME UNCHANGED socket,
             \A d \in Conns : /\ conn'[d].run = conn[d].run
                              /\ conn'[d].up => conn[d].up
      PROVE  SocketInv'
  BY <1>0, <1>1 DEF socket, SocketInv, OneSocket, PageTypes
<1>2. CASE ServerStep
  <2>1. UNCHANGED socket
    BY <1>2 DEF ServerStep
  <2>2. ASSUME NEW m \in Emitters, EmitterStep(m) PROVE UNCHANGED conn
    BY <2>2 DEF EmitterStep, save_and_publish, send, end_invocation
  <2>3. ASSUME NEW c \in Conns, EndpointStep(c), NEW d \in Conns
        PROVE  conn'[d].run = conn[d].run /\ conn'[d].up = conn[d].up
    <3>1. PICK e : conn' = [conn EXCEPT ![c].endpoint = e]
      BY <2>3 DEF EndpointStep, accept, leave
    <3>. QED  BY <1>0, <3>1 DEF Connection
  <2>. QED  BY <1>1, <1>2, <2>1, <2>2, <2>3 DEF ServerStep
<1>3. CASE Environment
  <2>1. UNCHANGED socket
    BY <1>3 DEF Environment
  <2>2. ASSUME NEW m \in Emitters, resume_run(m) PROVE UNCHANGED conn
    BY <2>2 DEF resume_run, begin
  <2>3. ASSUME NEW c \in Conns, drop(c), NEW d \in Conns
        PROVE  conn'[d].run = conn[d].run /\ (conn'[d].up => conn[d].up)
    <3>1. conn' = [conn EXCEPT ![c].up = FALSE]
      BY <2>3 DEF drop
    <3>. QED  BY <1>0, <3>1 DEF Connection
  <2>. QED  BY <1>1, <1>3, <2>1, <2>2, <2>3 DEF Environment
<1>4. ASSUME NEW c \in Conns, onopen(c) PROVE SocketInv'
  <2>1. UNCHANGED <<conn, runIdRef, wsRef, attached, timer>> /\ c \in attached
        /\ connState' = "CONNECTED"
    BY <1>4 DEF onopen, bus
  <2>2. wsRef # None
    BY <1>0, <2>1
  <2>. QED  BY <1>0, <2>1, <2>2 DEF SocketInv, OneSocket
<1>5. ASSUME NEW c \in Conns, onmessage(c) PROVE SocketInv'
  BY <1>1, <1>5 DEF onmessage
<1>6. ASSUME NEW c \in Conns, onclose(c) PROVE SocketInv'
  <2>1. c = wsRef /\ ~conn[c].up /\ attached' = attached \ {c}
    BY <1>0, <1>6 DEF onclose
  <2>2. wsRef' = None /\ connState' = "DISCONNECTED" /\ conn' = conn
    BY <1>6 DEF onclose, bus
  <2>. QED  BY <1>0, <2>1, <2>2 DEF SocketInv, OneSocket
<1>7. CASE reconnect
  <2>1. wsRef = None /\ runIdRef \in Runs
    BY <1>0, <1>7 DEF reconnect, OneSocket, PageTypes
  <2>2. Current \subseteq {}
    BY <2>1 DEF Current
  <2>. QED  BY <1>7, <2>1, <2>2, SocketOpen DEF reconnect
<1>8. ASSUME NEW r \in Runs, handleRun(r) PROVE SocketInv'
  BY <1>1, <1>8 DEF handleRun, begin_run, begin
<1>9. CASE run_answered
  <2>1. posted \in Runs
    BY <1>0, <1>9 DEF run_answered, PageTypes
  <2>. QED  BY <1>9, <2>1, SocketOpen DEF run_answered, connect
<1>10. CASE run_failed
  BY <1>1, <1>10 DEF run_failed
<1>11. CASE leave_page
  <2>1. attached' = {} /\ wsRef' = None /\ connState' = "DISCONNECTED"
    BY <1>0, <1>11 DEF leave_page, disconnect, Detach, Current
  <2>2. ASSUME NEW d \in Conns PROVE ~conn'[d].up
    <3>1. conn' = [c \in Conns |-> [conn[c] EXCEPT !.up = @ /\ c \notin Current]]
      BY <1>11 DEF leave_page, disconnect
    <3>2. conn'[d].up = (conn[d].up /\ d \notin Current)
      BY <1>0, <3>1 DEF Connection
    <3>3. conn[d].up => d \in Current
      BY <1>0, ClientAssumption DEF OneSocket, Current
    <3>. QED  BY <3>2, <3>3
  <2>. QED  BY <2>1, <2>2 DEF SocketInv, OneSocket
<1>12. CASE UNCHANGED vars
  BY <1>1, <1>12 DEF vars, bus
<1>. QED  BY <1>2, <1>3, <1>4, <1>5, <1>6, <1>7, <1>8, <1>9, <1>10, <1>11,
             <1>12 DEF Next, Client, SocketStep

LEMMA SocketInit == Init => SocketInv
<1> SUFFICES ASSUME Init PROVE SocketInv
  OBVIOUS
<1>1. ASSUME NEW c \in Conns PROVE ~conn[c].up
  <2>1. PICK r0 : conn \in [Conns -> {[run |-> r0, up |-> FALSE,
                                       endpoint |-> "over"]}]
    BY Zenon DEF Init, BusInit
  <2>2. conn[c] = [run |-> r0, up |-> FALSE, endpoint |-> "over"]
    BY <2>1
  <2>. QED  BY <2>2
<1>. QED  BY <1>1 DEF Init, SocketInv, OneSocket

(* The page has one socket, however runs, failures, reconnections and the  *)
(* answers of POST follow each other.                                      *)
THEOREM OneSocketOnly == Spec => []OneSocket
<1>1. TypeInv /\ SocketInv /\ [Next]_vars => SocketInv'
  BY SocketStepLemma
<1>2. SocketInv => OneSocket
  BY DEF SocketInv
<1>. QED  BY <1>1, <1>2, SocketInit, TypeInvHolds, PTL DEF Spec

-----------------------------------------------------------------------------
(* Subscribers are served: what a connection that is up is still owed is   *)
(* the event that is being handed round, and its turn is still to come.    *)

InTurn(c) ==
  \A e \in owed[c] : e[2] = emitted[e[1]] /\ c \in Range(todo[e[1]])

Subscribed(r) ==
  {c \in Conns : conn[c].run = r /\ conn[c].endpoint = "subscribed"}

(* The second half of SubscribersAreServed.                                *)
ListsAreRight ==
  \A r \in Runs : Range(subs[r]) = Subscribed(r) /\ IsInjective(subs[r])

TurnsAreRight ==
  \A c \in Conns :
    IF conn[c].up /\ conn[c].endpoint = "subscribed" THEN InTurn(c)
    ELSE owed[c] = {}

LEMMA TurnsServe ==
  ASSUME TypeInv, ListsAreRight, TurnsAreRight
  PROVE  SubscribersAreServed
<1>1. ASSUME NEW c \in Conns, NEW m \in Emitters, conn[c].up,
             conn[c].endpoint = "subscribed", todo[m] = <<>>,
             NEW e \in owed[c]
      PROVE  e[1] # m
  BY <1>1 DEF TurnsAreRight, InTurn, Range
<1>. QED  BY <1>1 DEF SubscribersAreServed, ListsAreRight, Subscribed

(* A step that leaves the lists and the endpoints alone.                   *)
LEMMA ListsUnchanged ==
  ASSUME ListsAreRight, UNCHANGED subs,
         \A r \in Runs : Subscribed(r)' = Subscribed(r)
  PROVE  ListsAreRight'
BY DEF ListsAreRight

(* A connection that is opened was not subscribed, one that is closed      *)
(* stays in the list until its endpoint notices.                           *)
LEMMA ListsStep ==
  ASSUME TypeInv, ListsAreRight, [Next]_vars
  PROVE  ListsAreRight'
<1>0. conn \in [Conns -> Connection] /\ subs \in [Runs -> Seq(Conns)]
  BY DEF TypeInv, BusTypes, BusTypeOK
<1>1. ASSUME UNCHANGED subs,
             \A c \in Conns : /\ conn'[c].endpoint = "subscribed"
                                   <=> conn[c].endpoint = "subscribed"
                              /\ conn[c].endpoint = "subscribed"
                                   => conn'[c].run = conn[c].run
      PROVE  ListsAreRight'
  BY <1>1, ListsUnchanged DEF Subscribed
<1>2. ASSUME NEW r \in Runs, NEW gone, _open(r, gone), UNCHANGED subs
      PROVE  ListsAreRight'
  <2>1. PICK c \in Conns :
          /\ Free(c)
          /\ conn' = [d \in Conns |->
               IF d = c THEN [run |-> r, up |-> TRUE, endpoint |-> "none"]
               ELSE [conn[d] EXCEPT !.up = @ /\ d \notin gone]]
    BY <1>2 DEF _open
  <2>2. conn[c].endpoint # "subscribed" /\ conn'[c].endpoint = "none"
    BY <2>1 DEF Free
  <2>3. ASSUME NEW d \in Conns, d # c
        PROVE  conn'[d].endpoint = conn[d].endpoint /\ conn'[d].run = conn[d].run
    BY <1>0, <2>1, <2>3 DEF Connection
  <2>. QED  BY <1>1, <1>2, <2>2, <2>3
<1>3. ASSUME NEW c \in Conns, accept(c) PROVE ListsAreRight'
  <2>0. PICK q \in Runs : q = conn[c].run
    BY <1>0 DEF Connection
  <2>1. /\ q = conn[c].run /\ conn[c].endpoint = "none"
        /\ conn' = [conn EXCEPT ![c].endpoint = "subscribed"]
        /\ subs' = [subs EXCEPT ![q] = Append(@, c)]
    BY <2>0, <1>3 DEF accept
  <2>2. /\ conn'[c].endpoint = "subscribed" /\ conn'[c].run = q
        /\ \A d \in Conns \ {c} : conn'[d] = conn[d]
    BY <1>0, <2>1 DEF Connection
  <2>3. /\ subs'[q] = Append(subs[q], c) /\ subs[q] \in Seq(Conns)
        /\ \A r \in Runs \ {q} : subs'[r] = subs[r]
    BY <1>0, <2>1
  <2>4. Range(subs[q]) = Subscribed(q) /\ IsInjective(subs[q])
    BY DEF ListsAreRight
  <2>5. c \notin Range(subs[q])
    BY <2>1, <2>4 DEF Subscribed
  <2>6. Range(subs'[q]) = Range(subs[q]) \cup {c}
    BY <2>3 DEF Range
  <2>7. IsInjective(subs'[q])
    BY <2>3, <2>4, <2>5 DEF IsInjective, Range
  <2>8. Subscribed(q)' = Subscribed(q) \cup {c}
    BY <2>2 DEF Subscribed
  <2>9. ASSUME NEW r \in Runs \ {q} PROVE Subscribed(r)' = Subscribed(r)
    BY <2>1, <2>2 DEF Subscribed
  <2>. QED  BY <2>3, <2>4, <2>6, <2>7, <2>8, <2>9 DEF ListsAreRight
<1>4. ASSUME NEW c \in Conns, leave(c) PROVE ListsAreRight'
  <2>0. PICK q \in Runs : q = conn[c].run
    BY <1>0 DEF Connection
  <2>1. /\ q = conn[c].run /\ conn[c].endpoint = "subscribed"
        /\ conn' = [conn EXCEPT ![c].endpoint = "over"]
        /\ subs' = [subs EXCEPT ![q] = RemoveFirst(@, c)]
    BY <2>0, <1>4 DEF leave
  <2>2. /\ conn'[c].endpoint = "over"
        /\ \A d \in Conns \ {c} : conn'[d] = conn[d]
    BY <1>0, <2>1 DEF Connection
  <2>3. /\ subs'[q] = RemoveFirst(subs[q], c) /\ subs[q] \in Seq(Conns)
        /\ \A r \in Runs \ {q} : subs'[r] = subs[r]
    BY <1>0, <2>1
  <2>4. Range(subs[q]) = Subscribed(q) /\ IsInjective(subs[q])
    BY DEF ListsAreRight
  <2>5. IsInjective(subs'[q]) /\ Range(subs'[q]) = Range(subs[q]) \ {c}
    BY <2>3, <2>4, RemoveFirstRange
  <2>6. Subscribed(q)' = Subscribed(q) \ {c}
    BY <2>2 DEF Subscribed
  <2>7. ASSUME NEW r \in Runs \ {q} PROVE Subscribed(r)' = Subscribed(r)
    BY <2>1, <2>2 DEF Subscribed
  <2>. QED  BY <2>3, <2>4, <2>5, <2>6, <2>7 DEF ListsAreRight
<1>5. CASE ServerStep
  <2>1. ASSUME NEW m \in Emitters, EmitterStep(m) PROVE ListsAreRight'
    BY <1>1, <2>1 DEF EmitterStep, save_and_publish, send, end_invocation
  <2>. QED  BY <1>3, <1>4, <1>5, <2>1 DEF ServerStep, EndpointStep
<1>6. CASE Environment
  <2>1. ASSUME NEW m \in Emitters, resume_run(m) PROVE ListsAreRight'
    BY <1>1, <2>1 DEF resume_run, begin
  <2>2. ASSUME NEW c \in Conns, drop(c) PROVE ListsAreRight'
    <3>1. conn' = [conn EXCEPT ![c].up = FALSE] /\ UNCHANGED subs
      BY <2>2 DEF drop
    <3>2. \A d \in Conns : /\ conn'[d].endpoint = conn[d].endpoint
                           /\ conn'[d].run = conn[d].run
      BY <1>0, <3>1 DEF Connection
    <3>. QED  BY <1>1, <3>1, <3>2
  <2>. QED  BY <1>6, <2>1, <2>2 DEF Environment
<1>7. CASE SocketStep
  BY <1>1, <1>7 DEF SocketStep, onopen, onmessage, onclose, bus
<1>8. CASE reconnect
  <2>1. runIdRef \in Runs
    BY <1>8 DEF reconnect, TypeInv, PageTypes
  <2>. QED  BY <1>2, <1>8, <2>1 DEF reconnect
<1>9. ASSUME NEW r \in Runs, handleRun(r) PROVE ListsAreRight'
  BY <1>1, <1>9 DEF handleRun, begin_run, begin
<1>10. CASE run_answered
  <2>1. posted \in Runs
    BY <1>10 DEF run_answered, TypeInv, PageTypes
  <2>. QED  BY <1>2, <1>10, <2>1 DEF run_answered, connect
<1>11. CASE run_failed
  BY <1>1, <1>11 DEF run_failed
<1>12. CASE leave_page
  <2>1. conn' = [c \in Conns |-> [conn[c] EXCEPT !.up = @ /\ c \notin Current]]
        /\ UNCHANGED subs
    BY <1>12 DEF leave_page, disconnect
  <2>2. \A d \in Conns : /\ conn'[d].endpoint = conn[d].endpoint
                         /\ conn'[d].run = conn[d].run
    BY <1>0, <2>1 DEF Connection
  <2>. QED  BY <1>1, <2>1, <2>2
<1>13. CASE UNCHANGED vars
  BY <1>1, <1>13 DEF vars, bus
<1>. QED  BY <1>5, <1>6, <1>7, <1>8, <1>9, <1>10, <1>11, <1>12, <1>13
          DEF Next, Client

(* A sequence's elements are its head and those of its tail.               *)
LEMMA HeadAndTail ==
  ASSUME NEW S, NEW s \in Seq(S), s # <<>>
  PROVE  /\ Head(s) \in Range(s)
         /\ \A x \in Range(s) : x # Head(s) => x \in Range(Tail(s))
<1>1. Len(s) \in Nat /\ Len(s) > 0 /\ DOMAIN s = 1..Len(s) /\ Head(s) = s[1]
  OBVIOUS
<1>2. DOMAIN Tail(s) = 1..Len(s)-1 /\ \A i \in 1..Len(s)-1 : Tail(s)[i] = s[i+1]
  OBVIOUS
<1>3. Head(s) \in Range(s)
  BY <1>1 DEF Range
<1>4. ASSUME NEW x \in Range(s), x # Head(s) PROVE x \in Range(Tail(s))
  <2>1. PICK i \in 1..Len(s) : x = s[i]
    BY <1>1 DEF Range
  <2>2. i # 1
    BY <1>1, <1>4, <2>1
  <2>3. i-1 \in 1..Len(s)-1 /\ (i-1)+1 = i
    BY <1>1, <2>2
  <2>4. Tail(s)[i-1] = x
    BY <1>2, <2>1, <2>3
  <2>. QED  BY <1>2, <2>3, <2>4 DEF Range
<1>. QED  BY <1>3, <1>4

(* Connections that are closed or opened are owed nothing.                 *)
LEMMA TurnsCleared ==
  ASSUME TurnsAreRight, UNCHANGED Runtime, NEW gone, Clear(gone),
         \A d \in Conns \ gone : UNCHANGED conn[d],
         \A d \in Conns \cap gone :
           ~(conn'[d].up /\ conn'[d].endpoint = "subscribed")
  PROVE  TurnsAreRight'
<1>1. \A d \in Conns : owed'[d] = IF d \in gone THEN {} ELSE owed[d]
  BY DEF Clear
<1>2. UNCHANGED <<emitted, todo>>
  BY DEF Runtime
<1>3. ASSUME NEW d \in Conns
      PROVE  IF conn'[d].up /\ conn'[d].endpoint = "subscribed" THEN InTurn(d)'
             ELSE owed'[d] = {}
  <2>1. CASE d \in gone
    BY <1>1, <2>1
  <2>2. CASE d \notin gone
    BY <1>1, <1>2, <2>2 DEF TurnsAreRight, InTurn
  <2>. QED  BY <2>1, <2>2
<1>. QED  BY <1>3 DEF TurnsAreRight

LEMMA TurnsOpen ==
  ASSUME TypeInv, TurnsAreRight, NEW r \in Runs, NEW gone, _open(r, gone),
         UNCHANGED Runtime
  PROVE  TurnsAreRight'
<1>0. conn \in [Conns -> Connection]
  BY DEF TypeInv, BusTypes, BusTypeOK
<1>1. PICK c \in Conns :
        /\ conn' = [d \in Conns |->
             IF d = c THEN [run |-> r, up |-> TRUE, endpoint |-> "none"]
             ELSE [conn[d] EXCEPT !.up = @ /\ d \notin gone]]
        /\ Clear(gone \cup {c})
  BY DEF _open
<1>2. conn'[c].endpoint = "none"
  BY <1>1
<1>3. ASSUME NEW d \in Conns, d \in gone, d # c PROVE ~conn'[d].up
  BY <1>0, <1>1, <1>3 DEF Connection
<1>4. ASSUME NEW d \in Conns, d \notin gone, d # c PROVE UNCHANGED conn[d]
  BY <1>0, <1>1, <1>4 DEF Connection
<1>. QED  BY <1>1, <1>2, <1>3, <1>4, TurnsCleared

LEMMA TurnsStep ==
  ASSUME TypeInv, ListsAreRight, TurnsAreRight, [Next]_vars
  PROVE  TurnsAreRight'
<1>0. /\ conn \in [Conns -> Connection] /\ emitted \in [Emitters -> Nat]
      /\ todo \in [Emitters -> Seq(Conns)] /\ owed \in [Conns -> SUBSET Event]
  BY DEF TypeInv, BusTypes, BusTypeOK
<1>1. ASSUME UNCHANGED <<emitted, todo, conn, owed>> PROVE TurnsAreRight'
  BY <1>1 DEF TurnsAreRight, InTurn
<1>2. ASSUME NEW m \in Emitters, save_and_publish(m) PROVE TurnsAreRight'
  <2>0. PICK r \in Runs : r = RunOf[m]
    BY BusAssumption
  <2>1. /\ todo[m] = <<>> /\ UNCHANGED <<conn, subs>>
        /\ \A l \in Emitters \ {m} : emitted'[l] = emitted[l] /\ todo'[l] = todo[l]
    BY <1>0, <1>2 DEF save_and_publish, MayEmit, SaveFails
  <2>2. Range(subs[r]) = Subscribed(r)
    BY DEF ListsAreRight
  <2>3. Range(todo[m]) = {}
    BY <2>1 DEF Range
  <2>4. \A c \in Conns : \A e \in owed[c] : e[1] \in Emitters \ {m}
    BY <1>0, <2>3 DEF TurnsAreRight, InTurn, Event
  <2>5. CASE owed' = owed
    BY <2>1, <2>4, <2>5 DEF TurnsAreRight, InTurn
  <2>6. CASE /\ todo' = [todo EXCEPT ![m] = subs[RunOf[m]]]
             /\ owed' = [c \in Conns |->
                  IF c \in Range(subs[RunOf[m]]) /\ conn[c].up
                  THEN owed[c] \cup {<<m, emitted'[m]>>} ELSE owed[c]]
    <3>1. todo'[m] = subs[r]
      BY <1>0, <2>0, <2>6
    <3> DEFINE e == <<m, emitted'[m]>>
    <3>2. \A c \in Conns : owed'[c] = IF c \in Range(subs[r]) /\ conn[c].up
                                      THEN owed[c] \cup {e} ELSE owed[c]
      BY <2>0, <2>6
    <3>3. e[1] = m /\ e[2] = emitted'[m]
      OBVIOUS
    <3> HIDE DEF e
    <3>4. ASSUME NEW c \in Conns
          PROVE  IF conn'[c].up /\ conn'[c].endpoint = "subscribed"
                 THEN InTurn(c)' ELSE owed'[c] = {}
      <4>1. CASE conn[c].up /\ conn[c].endpoint = "subscribed"
        <5>1. InTurn(c)
          BY <4>1 DEF TurnsAreRight
        <5>2. \A f \in owed[c] : f[2] = emitted'[f[1]] /\ c \in Range(todo'[f[1]])
          BY <2>1, <2>4, <5>1 DEF InTurn
        <5>3. c \in Range(subs[r])
                => e[2] = emitted'[e[1]] /\ c \in Range(todo'[e[1]])
          BY <3>1, <3>3
        <5>4. \A f \in owed'[c] : f \in owed[c] \/ (f = e /\ c \in Range(subs[r]))
          BY <3>2
        <5>. QED  BY <2>1, <4>1, <5>2, <5>3, <5>4 DEF InTurn
      <4>2. CASE ~(conn[c].up /\ conn[c].endpoint = "subscribed")
        <5>1. ~(c \in Range(subs[r]) /\ conn[c].up)
          BY <2>2, <4>2 DEF Subscribed
        <5>2. owed'[c] = owed[c] /\ owed[c] = {}
          BY <3>2, <4>2, <5>1 DEF TurnsAreRight
        <5>. QED  BY <2>1, <4>2, <5>2
      <4>. QED  BY <4>1, <4>2
    <3>. QED  BY <3>4 DEF TurnsAreRight
  <2>. QED  BY <1>2, <2>5, <2>6 DEF save_and_publish
<1>3. ASSUME NEW m \in Emitters, send(m) PROVE TurnsAreRight'
  <2> DEFINE h == Head(todo[m])
             x == <<m, emitted[m]>>
  <2>1. /\ todo[m] # <<>> /\ UNCHANGED <<emitted, conn>>
        /\ todo'[m] = Tail(todo[m])
        /\ \A l \in Emitters \ {m} : todo'[l] = todo[l]
    BY <1>0, <1>3 DEF send
  <2>2. \A c \in Range(todo[m]) : c # h => c \in Range(todo'[m])
    BY <1>0, <2>1, HeadAndTail
  <2>3. /\ \A c \in Conns : owed'[c] \subseteq owed[c]
        /\ h \in Conns /\ conn[h].up /\ conn[h].endpoint = "subscribed"
             => owed'[h] = owed[h] \ {x}
    BY <1>0, <1>3 DEF send
  <2>4. \A e \in Event : e[1] = m /\ e[2] = emitted[m] => e = x
    BY DEF Event
  <2> HIDE DEF h, x
  <2>5. ASSUME NEW c \in Conns, conn[c].up, conn[c].endpoint = "subscribed",
               NEW e \in owed'[c]
        PROVE  e[2] = emitted'[e[1]] /\ c \in Range(todo'[e[1]])
    <3>1. /\ e \in owed[c] /\ e \in Event /\ e[1] \in Emitters
          /\ e[2] = emitted[e[1]] /\ c \in Range(todo[e[1]])
      BY <1>0, <2>3, <2>5 DEF TurnsAreRight, InTurn, Event
    <3>2. CASE e[1] # m
      BY <2>1, <3>1, <3>2
    <3>3. CASE e[1] = m /\ c # h
      BY <2>1, <2>2, <3>1, <3>3
    <3>4. CASE e[1] = m /\ c = h
      BY <2>3, <2>4, <2>5, <3>1, <3>4
    <3>. QED  BY <3>2, <3>3, <3>4
  <2>6. ASSUME NEW c \in Conns, ~(conn[c].up /\ conn[c].endpoint = "subscribed")
        PROVE  owed'[c] = {}
    BY <2>3, <2>6 DEF TurnsAreRight
  <2>. QED  BY <2>1, <2>5, <2>6 DEF TurnsAreRight, InTurn
<1>4. ASSUME NEW m \in Emitters, end_invocation(m) \/ resume_run(m)
      PROVE  TurnsAreRight'
  BY <1>1, <1>4 DEF end_invocation, resume_run, begin
<1>5. ASSUME NEW c \in Conns, NEW e, ~(conn[c].up /\ conn[c].endpoint = "subscribed"),
             conn' = [conn EXCEPT ![c].endpoint = e],
             UNCHANGED <<emitted, todo, owed>>
      PROVE  TurnsAreRight'
  <2>1. owed[c] = {} /\ \A d \in Conns \ {c} : conn'[d] = conn[d]
    BY <1>0, <1>5 DEF TurnsAreRight
  <2>. QED  BY <1>5, <2>1 DEF TurnsAreRight, InTurn
<1>6. ASSUME NEW c \in Conns, EndpointStep(c) PROVE TurnsAreRight'
  <2>1. CASE accept(c)
    BY <1>5, <2>1 DEF accept, Runtime
  <2>2. CASE leave(c)
    BY <1>5, <2>2 DEF leave, LeaveCopy
  <2>. QED  BY <1>6, <2>1, <2>2 DEF EndpointStep
<1>7. ASSUME NEW c \in Conns, drop(c) PROVE TurnsAreRight'
  <2>1. /\ conn' = [conn EXCEPT ![c].up = FALSE] /\ owed' = [owed EXCEPT ![c] = {}]
        /\ UNCHANGED <<emitted, todo>>
    BY <1>7 DEF drop, Runtime
  <2>2. /\ ~conn'[c].up /\ owed'[c] = {}
        /\ \A d \in Conns \ {c} : conn'[d] = conn[d] /\ owed'[d] = owed[d]
    BY <1>0, <2>1 DEF Connection
  <2>. QED  BY <2>1, <2>2 DEF TurnsAreRight, InTurn
<1>8. CASE SocketStep
  BY <1>1, <1>8 DEF SocketStep, onopen, onmessage, onclose, bus, Runtime
<1>9. CASE reconnect
  <2>1. runIdRef \in Runs
    BY <1>9 DEF reconnect, TypeInv, PageTypes
  <2>. QED  BY <1>9, <2>1, TurnsOpen DEF reconnect
<1>10. ASSUME NEW r \in Runs, handleRun(r) PROVE TurnsAreRight'
  BY <1>1, <1>10 DEF handleRun, begin_run, begin
<1>11. CASE run_answered
  <2>1. posted \in Runs
    BY <1>11 DEF run_answered, TypeInv, PageTypes
  <2>. QED  BY <1>11, <2>1, TurnsOpen DEF run_answered, connect
<1>12. CASE run_failed
  BY <1>1, <1>12 DEF run_failed, Runtime
<1>13. CASE leave_page
  <2>1. /\ conn' = [c \in Conns |-> [conn[c] EXCEPT !.up = @ /\ c \notin Current]]
        /\ Clear(Current) /\ UNCHANGED Runtime
    BY <1>13 DEF leave_page, disconnect
  <2>2. ASSUME NEW d \in Conns \cap Current PROVE ~conn'[d].up
    BY <1>0, <2>1, <2>2 DEF Connection
  <2>3. ASSUME NEW d \in Conns \ Current PROVE conn'[d] = conn[d]
    BY <1>0, <2>1, <2>3 DEF Connection
  <2>. QED  BY <2>1, <2>2, <2>3, TurnsCleared
<1>14. CASE UNCHANGED vars
  BY <1>1, <1>14 DEF vars, bus, Runtime
<1>. QED  BY <1>2, <1>3, <1>4, <1>6, <1>7, <1>8, <1>9, <1>10, <1>11, <1>12,
             <1>13, <1>14
          DEF Next, ServerStep, Environment, Client, EmitterStep

LEMMA ListsAndTurnsInit == Init => ListsAreRight /\ TurnsAreRight
<1> SUFFICES ASSUME Init PROVE ListsAreRight /\ TurnsAreRight
  OBVIOUS
<1>1. ASSUME NEW c \in Conns PROVE conn[c].endpoint = "over" /\ owed[c] = {}
  <2>1. PICK r0 : conn \in [Conns -> {[run |-> r0, up |-> FALSE,
                                       endpoint |-> "over"]}]
    BY Zenon DEF Init, BusInit
  <2>2. conn[c] = [run |-> r0, up |-> FALSE, endpoint |-> "over"]
    BY <2>1
  <2>3. owed[c] = {}
    BY DEF Init, BusInit
  <2>. QED  BY <2>2, <2>3
<1>2. ASSUME NEW r \in Runs PROVE subs[r] = <<>>
  BY DEF Init, BusInit
<1>. QED  BY <1>1, <1>2
          DEF ListsAreRight, Subscribed, TurnsAreRight, Range, IsInjective

(* A subscriber whose connection is up gets every stored event, whoever    *)
(* subscribes, leaves or breaks while the event is handed round.           *)
THEOREM SubscribersServed == Spec => []SubscribersAreServed
<1>1. /\ TypeInv /\ ListsAreRight /\ [Next]_vars => ListsAreRight'
      /\ TypeInv /\ ListsAreRight /\ TurnsAreRight /\ [Next]_vars
           => TurnsAreRight'
  BY ListsStep, TurnsStep
<1>2. TypeInv /\ ListsAreRight /\ TurnsAreRight => SubscribersAreServed
  BY TurnsServe
<1>. QED  BY <1>1, <1>2, ListsAndTurnsInit, TypeInvHolds, PTL DEF Spec

-----------------------------------------------------------------------------
(* The events the page shows are in order *)

Ordered(s) == \A i, j \in 1..Len(s) : i < j => MayFollow(s[i], s[j])

LEMMA AppendGrows ==
  ASSUME NEW s \in Seq(Event), NEW e \in Event, Ordered(s),
         \A f \in Range(s) : MayFollow(f, e)
  PROVE  /\ Ordered(Append(s, e))
         /\ Range(Append(s, e)) = Range(s) \cup {e}
<1>1. /\ Len(s) \in Nat /\ DOMAIN s = 1..Len(s)
      /\ Len(Append(s, e)) = Len(s) + 1
      /\ DOMAIN Append(s, e) = 1..Len(s)+1
      /\ \A i \in 1..Len(s) : Append(s, e)[i] = s[i]
      /\ Append(s, e)[Len(s)+1] = e
  OBVIOUS
<1>2. \A i \in 1..Len(s) : MayFollow(s[i], e)
  BY <1>1 DEF Range
<1>3. Ordered(Append(s, e))
  BY <1>1, <1>2 DEF Ordered
<1>4. Range(Append(s, e)) = Range(s) \cup {e}
  BY <1>1 DEF Range
<1>. QED  BY <1>3, <1>4

LEMMA TailGrows ==
  ASSUME NEW s \in Seq(Event), s # <<>>, Ordered(s)
  PROVE  /\ Ordered(Tail(s)) /\ Head(s) \in Range(s)
         /\ Range(Tail(s)) \subseteq Range(s)
         /\ \A f \in Range(Tail(s)) : MayFollow(Head(s), f)
<1>1. /\ Len(s) \in Nat /\ Len(s) > 0 /\ DOMAIN s = 1..Len(s) /\ Head(s) = s[1]
      /\ Len(Tail(s)) = Len(s)-1 /\ DOMAIN Tail(s) = 1..Len(s)-1
      /\ \A i \in 1..Len(s)-1 : Tail(s)[i] = s[i+1]
  OBVIOUS
<1>2. \A i \in 1..Len(s)-1 : i+1 \in 1..Len(s) /\ 1 < i+1
  BY <1>1
<1>3. Ordered(Tail(s))
  BY <1>1, <1>2 DEF Ordered
<1>4. /\ Head(s) \in Range(s)
      /\ Range(Tail(s)) \subseteq Range(s)
      /\ \A f \in Range(Tail(s)) : MayFollow(Head(s), f)
  BY <1>1, <1>2 DEF Ordered, Range
<1>. QED  BY <1>3, <1>4

LEMMA TailInjective ==
  ASSUME NEW S, NEW s \in Seq(S), s # <<>>, IsInjective(s)
  PROVE  /\ IsInjective(Tail(s)) /\ Range(Tail(s)) \subseteq Range(s)
         /\ Head(s) \in Range(s) /\ Head(s) \notin Range(Tail(s))
<1>1. /\ Len(s) \in Nat /\ Len(s) > 0 /\ DOMAIN s = 1..Len(s) /\ Head(s) = s[1]
      /\ DOMAIN Tail(s) = 1..Len(s)-1
      /\ \A i \in 1..Len(s)-1 : Tail(s)[i] = s[i+1]
  OBVIOUS
<1>2. \A i \in 1..Len(s)-1 : i+1 \in 1..Len(s) /\ i+1 # 1
  BY <1>1
<1>3. \A i, j \in 1..Len(s) : s[i] = s[j] => i = j
  BY <1>1 DEF IsInjective
<1>4. IsInjective(Tail(s))
  BY <1>1, <1>2, <1>3 DEF IsInjective
<1>5. Range(Tail(s)) \subseteq Range(s) /\ Head(s) \in Range(s)
  BY <1>1, <1>2 DEF Range
<1>6. Head(s) \notin Range(Tail(s))
  BY <1>1, <1>2, <1>3 DEF Range
<1>. QED  BY <1>4, <1>5, <1>6

(* An event is handed round once, to connections of its run, by an         *)
(* invocation that is at work; what is on its way to one of them was       *)
(* emitted before what that invocation still has to hand to it.            *)
EmittersInv ==
  \A m \in Emitters :
    /\ \A n \in stored[m] : n <= emitted[m]
    /\ todo[m] # <<>> => phase[m] = "working" /\ emitted[m] \in stored[m]
    /\ phase[m] = "absent" => stored[m] = {}
    /\ \A l \in earlier[m] : phase[l] = "over" /\ RunOf[l] = RunOf[m]
    /\ IsInjective(todo[m])
    /\ \A c \in Range(todo[m]) : conn[c].run = RunOf[m]

WiresInv ==
  \A c \in Conns :
    /\ Ordered(wire[c])
    /\ \A e \in Range(wire[c]) :
         /\ RunOf[e[1]] = conn[c].run
         /\ e[2] \in stored[e[1]]
         /\ c \in Range(todo[e[1]]) => e[2] # emitted[e[1]]

SentInv == EmittersInv /\ WiresInv

Shown(r) == {e \in Event : e \in Range(events) /\ RunOf[e[1]] = r}

(* Anything the socket of the page is still to get may follow what the     *)
(* page shows of the run it follows.                                       *)
ShownInv ==
  /\ \A r \in Runs : \A e \in Shown(r) : e[2] \in stored[e[1]]
  /\ Ordered(events)
  /\ \A c \in Conns, r \in Runs : wsRef = c /\ runIdRef = r =>
       \A e \in Shown(r) :
         /\ \A f \in Range(wire[c]) : MayFollow(e, f)
         /\ c \in Range(todo[e[1]]) => e[2] # emitted[e[1]]

(* Before POST is answered the socket, if there is one, follows an earlier *)
(* run.                                                                    *)
FollowInv ==
  /\ \A r \in Runs : runIdRef = r => phase[First[r]] # "absent"
  /\ runId # None => runIdRef \in {runId, None}
  /\ \A r \in Runs : posted = r => /\ phase[First[r]] # "absent"
                                   /\ runId = None
                                   /\ runIdRef # r /\ Shown(r) = {}
  /\ \A i, j \in 1..Len(events) :
       i < j /\ RunOf[events[i][1]] = runId => RunOf[events[j][1]] = runId

Handed == <<earlier, stored, emitted, todo>>

(* A connection that no event is on its way to.                            *)
Fresh(c) == wire[c] = <<>> /\ \A m \in Emitters : c \notin Range(todo[m])

LEMMA EmptyRange == Range(<<>>) = {} /\ Ordered(<<>>) /\ IsInjective(<<>>)
BY DEF Range, Ordered, IsInjective

(* What is on a wire is an event.                                          *)
LEMMA WireEvents ==
  ASSUME TypeInv, NEW c \in Conns
  PROVE  /\ wire[c] \in Seq(Event)
         /\ \A e \in Range(wire[c]) : e \in Event /\ e[1] \in Emitters
<1>1. wire[c] \in Seq(Event)
  BY DEF TypeInv, BusTypes, BusTypeOK
<1>2. \A e \in Range(wire[c]) : e \in Event
  BY <1>1 DEF Range
<1>. QED  BY <1>1, <1>2 DEF Event

LEMMA SentMoves ==
  ASSUME TypeInv, SentInv, UNCHANGED Runtime,
         \A c \in Conns :
           \/ Fresh(c)'
           \/ /\ conn'[c].run = conn[c].run
              /\ \/ wire'[c] \in {wire[c], <<>>}
                 \/ wire[c] # <<>> /\ wire'[c] = Tail(wire[c])
  PROVE  SentInv'
<1>0. /\ todo \in [Emitters -> Seq(Conns)]
      /\ UNCHANGED <<phase, earlier, stored, emitted, todo>>
      /\ EmittersInv /\ WiresInv
  BY DEF TypeInv, BusTypes, BusTypeOK, Runtime, SentInv
<1>1. ASSUME NEW c \in Conns
      PROVE  Ordered(wire'[c]) /\ (Fresh(c)' \/ Range(wire'[c]) \subseteq Range(wire[c]))
  <2>0. wire[c] \in Seq(Event) /\ Ordered(wire[c])
    BY <1>0, WireEvents DEF WiresInv
  <2>1. CASE wire'[c] = <<>>
    BY <2>1, EmptyRange
  <2>2. CASE wire'[c] = wire[c]
    BY <2>0, <2>2
  <2>3. CASE wire[c] # <<>> /\ wire'[c] = Tail(wire[c])
    BY <2>0, <2>3, TailGrows
  <2>. QED  BY <2>1, <2>2, <2>3 DEF Fresh
<1>2. ASSUME NEW m \in Emitters, NEW c \in Range(todo[m])
      PROVE  conn'[c].run = RunOf[m]
  <2>1. c \in Conns
    BY <1>0 DEF Range
  <2>. QED  BY <1>0, <2>1 DEF EmittersInv, Fresh
<1>3. EmittersInv'
  BY <1>0, <1>2 DEF EmittersInv
<1>4. ASSUME NEW c \in Conns, NEW e \in Range(wire'[c])
      PROVE  /\ RunOf[e[1]] = conn'[c].run
             /\ e[2] \in stored[e[1]]
             /\ c \in Range(todo[e[1]]) => e[2] # emitted[e[1]]
  <2>1. ~Fresh(c)'
    BY <1>4, EmptyRange DEF Fresh
  <2>2. conn'[c].run = conn[c].run /\ e \in Range(wire[c])
    BY <1>1, <1>4, <2>1
  <2>. QED  BY <1>0, <2>2 DEF WiresInv
<1>5. WiresInv'
  <2>1. \A c \in Conns : Ordered(wire[c])'
    BY <1>0, <1>1 DEF Ordered, MayFollow
  <2>. QED  BY <1>0, <1>4, <2>1 DEF WiresInv
<1>. QED  BY <1>3, <1>5 DEF SentInv

LEMMA ShownMoves ==
  ASSUME ShownInv, UNCHANGED <<Handed, events>>,
         \A c \in Conns : wsRef' = c =>
           \/ Fresh(c)'
           \/ /\ UNCHANGED <<wsRef, runIdRef>>
              /\ wire'[c] \in {wire[c], <<>>}
  PROVE  ShownInv'
<1>0. UNCHANGED <<earlier, stored, emitted, todo, events>>
  BY DEF Handed
<1>1. ASSUME NEW c \in Conns, NEW r \in Runs, wsRef' = c, runIdRef' = r,
             NEW e \in Shown(r)
      PROVE  /\ \A f \in Range(wire'[c]) : MayFollow(e, f)
             /\ c \in Range(todo[e[1]]) => e[2] # emitted[e[1]]
  <2>1. CASE Fresh(c)'
    <3>1. e[1] \in Emitters
      BY DEF Shown, Event
    <3>. QED  BY <1>0, <2>1, <3>1, EmptyRange DEF Fresh
  <2>2. CASE UNCHANGED <<wsRef, runIdRef>> /\ wire'[c] \in {wire[c], <<>>}
    BY <1>1, <2>2, EmptyRange DEF ShownInv
  <2>. QED  BY <1>1, <2>1, <2>2
<1>2. \A r \in Runs : Shown(r)' = Shown(r)
  BY <1>0 DEF Shown
<1>3. Ordered(events)'
  BY <1>0 DEF ShownInv, Ordered, MayFollow
<1>4. ASSUME NEW c \in Conns, NEW r \in Runs, wsRef' = c, runIdRef' = r,
             NEW e \in Shown(r), NEW f \in Range(wire'[c])
      PROVE  MayFollow(e, f)'
  BY <1>0, <1>1, <1>4 DEF MayFollow
<1>. QED  BY <1>0, <1>1, <1>2, <1>3, <1>4 DEF ShownInv

LEMMA OpenIsFresh ==
  ASSUME TypeInv, NEW r \in Runs, NEW gone, _open(r, gone), UNCHANGED Handed
  PROVE  /\ \A c \in Conns :
              \/ Fresh(c)'
              \/ conn'[c].run = conn[c].run /\ wire'[c] \in {wire[c], <<>>}
         /\ \A c \in Conns : wsRef' = c => Fresh(c)'
<1>0. conn \in [Conns -> Connection] /\ todo' = todo
  BY DEF TypeInv, BusTypes, BusTypeOK, Handed
<1>1. PICK c \in Conns :
        /\ Free(c)
        /\ conn' = [d \in Conns |->
             IF d = c THEN [run |-> r, up |-> TRUE, endpoint |-> "none"]
             ELSE [conn[d] EXCEPT !.up = @ /\ d \notin gone]]
        /\ Clear(gone \cup {c})
        /\ wsRef' = c
  BY DEF _open
<1>2. Fresh(c)'
  BY <1>0, <1>1 DEF Fresh, Free, Clear
<1>3. ASSUME NEW d \in Conns \ {c}
      PROVE  conn'[d].run = conn[d].run /\ wire'[d] \in {wire[d], <<>>}
  BY <1>0, <1>1 DEF Connection, Clear
<1>. QED  BY <1>1, <1>2, <1>3

(* The events of an emitter are stored after it began.                     *)
LEMMA BeginKeepsOrder ==
  ASSUME TypeInv, EmittersInv, NEW m \in Emitters, begin(m),
         NEW x, NEW y, x[2] \in stored[x[1]], x[1] \in Emitters, MayFollow(x, y)
  PROVE  MayFollow(x, y)'
<1>1. x[1] # m
  BY DEF EmittersInv, begin
<1>2. earlier'[x[1]] = earlier[x[1]]
  BY <1>1 DEF begin, TypeInv, BusTypes, BusTypeOK
<1>. QED  BY <1>2 DEF MayFollow

LEMMA SentBegin ==
  ASSUME TypeInv, SentInv, NEW m \in Emitters, begin(m)
  PROVE  SentInv'
<1>0. /\ EmittersInv /\ WiresInv
      /\ phase \in [Emitters -> {"absent", "working", "over"}]
      /\ earlier \in [Emitters -> SUBSET Emitters]
  BY DEF TypeInv, BusTypes, BusTypeOK, SentInv
<1>1. /\ UNCHANGED <<emitted, stored, todo, conn, wire>> /\ phase[m] = "absent"
      /\ phase' = [phase EXCEPT ![m] = "working"]
      /\ earlier'[m] = {l \in Emitters : RunOf[l] = RunOf[m] /\ phase[l] = "over"}
      /\ \A k \in Emitters \ {m} : earlier'[k] = earlier[k]
  BY <1>0 DEF begin
<1>2. \A l \in Emitters : phase[l] = "over" => phase'[l] = "over"
  BY <1>0, <1>1
<1>3. ASSUME NEW k \in Emitters, NEW l \in earlier'[k]
      PROVE  phase'[l] = "over" /\ RunOf[l] = RunOf[k]
  <2>1. CASE k = m
    BY <1>1, <1>2, <2>1
  <2>2. CASE k # m
    BY <1>0, <1>1, <1>2, <2>2 DEF EmittersInv
  <2>. QED  BY <2>1, <2>2
<1>4. \A k \in Emitters : /\ phase'[k] = "absent" => phase[k] = "absent"
                          /\ phase[k] = "working" => phase'[k] = "working"
  BY <1>0, <1>1
<1>5. EmittersInv'
  BY <1>0, <1>1, <1>3, <1>4 DEF EmittersInv
<1>6. ASSUME NEW c \in Conns PROVE Ordered(wire[c])'
  <2>1. wire[c] \in Seq(Event) /\ Ordered(wire[c])
    BY <1>0, WireEvents DEF WiresInv
  <2>2. \A i \in 1..Len(wire[c]) : wire[c][i] \in Range(wire[c])
    BY <2>1 DEF Range
  <2>3. \A i \in 1..Len(wire[c]) :
          wire[c][i][1] \in Emitters /\ wire[c][i][2] \in stored[wire[c][i][1]]
    BY <1>0, <2>2, WireEvents DEF WiresInv
  <2>4. \A i, j \in 1..Len(wire[c]) : i < j => MayFollow(wire[c][i], wire[c][j])'
    BY <1>0, <1>1, <2>1, <2>3, BeginKeepsOrder DEF Ordered
  <2>. QED  BY <1>1, <2>4 DEF Ordered
<1>7. WiresInv'
  BY <1>0, <1>1, <1>6 DEF WiresInv
<1>. QED  BY <1>5, <1>7 DEF SentInv

LEMMA SentStep ==
  ASSUME TypeInv, ListsAreRight, SentInv, [Next]_vars
  PROVE  SentInv'
<1>0. /\ conn \in [Conns -> Connection] /\ emitted \in [Emitters -> Nat]
      /\ phase \in [Emitters -> {"absent", "working", "over"}]
      /\ earlier \in [Emitters -> SUBSET Emitters]
      /\ todo \in [Emitters -> Seq(Conns)] /\ wire \in [Conns -> Seq(Event)]
      /\ stored \in [Emitters -> SUBSET EventNo]
      /\ EmittersInv /\ WiresInv
  BY DEF TypeInv, BusTypes, BusTypeOK, SentInv
<1>1. ASSUME UNCHANGED Runtime,
             \A c \in Conns : conn'[c].run = conn[c].run /\ wire'[c] = wire[c]
      PROVE  SentInv'
  BY <1>1, SentMoves
<1>2. ASSUME NEW m \in Emitters, save_and_publish(m) PROVE SentInv'
  <2>1. /\ todo[m] = <<>> /\ UNCHANGED <<conn, wire, phase, earlier>>
        /\ phase[m] = "working"
        /\ emitted'[m] = emitted[m] + 1
        /\ \A l \in Emitters \ {m} : emitted'[l] = emitted[l]
    BY <1>0, <1>2 DEF save_and_publish, MayEmit
  <2>2. PICK n : n = emitted[m] + 1  OBVIOUS
  <2>3. \/ todo' = todo /\ stored' = stored
        \/ /\ todo' = [todo EXCEPT ![m] = subs[RunOf[m]]]
           /\ stored' = [stored EXCEPT ![m] = @ \cup {n}]
    BY <1>2, <2>1, <2>2 DEF save_and_publish, SaveFails
  <2>4. \A d \in stored[m] : d <= n /\ d # n
    <3>1. \A d \in stored[m] : d \in Nat /\ d <= emitted[m]
      BY <1>0 DEF EmittersInv, EventNo
    <3>2. emitted[m] \in Nat
      BY <1>0
    <3>. QED  BY <2>2, <3>1, <3>2
  <2>5. n <= n /\ emitted'[m] = n
    BY <1>0, <2>1, <2>2
  <2>6. ASSUME NEW l \in Emitters
        PROVE  /\ \A d \in stored'[l] : d <= emitted'[l]
               /\ todo'[l] # <<>> => phase[l] = "working" /\ emitted'[l] \in stored'[l]
               /\ phase[l] = "absent" => stored'[l] = {}
               /\ IsInjective(todo'[l])
               /\ \A c \in Range(todo'[l]) : conn[c].run = RunOf[l]
    <3>1. CASE l # m
      BY <1>0, <2>1, <2>3, <3>1 DEF EmittersInv
    <3>2. CASE l = m
      <4>1. CASE todo' = todo /\ stored' = stored
        BY <1>0, <2>1, <2>4, <2>5, <3>2, <4>1 DEF EmittersInv
      <4>2. CASE /\ todo' = [todo EXCEPT ![m] = subs[RunOf[m]]]
                 /\ stored' = [stored EXCEPT ![m] = @ \cup {n}]
        <5>1. todo'[m] = subs[RunOf[m]] /\ stored'[m] = stored[m] \cup {n}
          BY <1>0, <4>2
        <5>2. IsInjective(subs[RunOf[m]])
              /\ \A c \in Range(subs[RunOf[m]]) : conn[c].run = RunOf[m]
          BY BusAssumption DEF ListsAreRight, Subscribed
        <5>. QED  BY <2>1, <2>4, <2>5, <3>2, <5>1, <5>2
      <4>. QED  BY <2>3, <4>1, <4>2
    <3>. QED  BY <3>1, <3>2
  <2>7. EmittersInv'
    BY <1>0, <2>1, <2>6 DEF EmittersInv
  <2>8. ASSUME NEW c \in Conns, NEW e \in Range(wire[c])
        PROVE  /\ RunOf[e[1]] = conn[c].run
               /\ e[2] \in stored'[e[1]]
               /\ c \in Range(todo'[e[1]]) => e[2] # emitted'[e[1]]
    <3>1. /\ e[1] \in Emitters /\ RunOf[e[1]] = conn[c].run
          /\ e[2] \in stored[e[1]]
          /\ c \in Range(todo[e[1]]) => e[2] # emitted[e[1]]
      BY <1>0, <2>8, WireEvents DEF WiresInv
    <3>2. stored[e[1]] \subseteq stored'[e[1]]
      <4>1. \A l \in Emitters : stored[l] \subseteq stored'[l]
        BY <1>0, <2>3
      <4>. QED  BY <3>1, <4>1
    <3>3. CASE e[1] = m
      BY <2>4, <2>5, <3>1, <3>2, <3>3
    <3>4. CASE e[1] # m
      BY <1>0, <2>1, <2>3, <3>1, <3>2, <3>4
    <3>. QED  BY <3>3, <3>4
  <2>9. \A c \in Conns : Ordered(wire[c])'
    BY <1>0, <2>1 DEF WiresInv, Ordered, MayFollow
  <2>10. WiresInv'
    BY <2>1, <2>8, <2>9 DEF WiresInv
  <2>. QED  BY <2>7, <2>10 DEF SentInv
<1>3. ASSUME NEW m \in Emitters, send(m) PROVE SentInv'
  <2>1. PICK h \in Conns, x \in Event : h = Head(todo[m]) /\ x = <<m, emitted[m]>>
    <3>1. Head(todo[m]) \in Conns
      BY <1>0, <1>3, SequenceTypes DEF send
    <3>2. <<m, emitted[m]>> \in Event
      BY <1>3 DEF send, TypeInv, BusTypes, Event
    <3>. QED  BY <3>1, <3>2
  <2>2. /\ todo[m] # <<>> /\ UNCHANGED <<conn, phase, earlier, emitted, stored>>
        /\ todo'[m] = Tail(todo[m])
        /\ \A l \in Emitters \ {m} : todo'[l] = todo[l]
        /\ \/ wire' = wire
           \/ wire' = [wire EXCEPT ![h] = Append(@, x)]
    BY <1>0, <1>3, <2>1 DEF send
  <2>3. /\ IsInjective(todo'[m]) /\ Range(todo'[m]) \subseteq Range(todo[m])
        /\ h \in Range(todo[m]) /\ h \notin Range(todo'[m])
    <3>1. IsInjective(todo[m]) /\ todo[m] \in Seq(Conns)
      BY <1>0 DEF EmittersInv
    <3>. QED  BY <2>1, <2>2, <3>1, TailInjective
  <2>4. conn[h].run = RunOf[m] /\ phase[m] = "working" /\ emitted[m] \in stored[m]
    BY <1>0, <2>2, <2>3 DEF EmittersInv
  <2>5. \A f \in Range(wire[h]) : MayFollow(f, x)
    <3>1. ASSUME NEW f \in Range(wire[h]) PROVE MayFollow(f, x)
      <4>1. /\ f[1] \in Emitters /\ f[2] \in stored[f[1]]
            /\ f[1] = m => f[2] # emitted[m]
        BY <1>0, <2>3, WireEvents DEF WiresInv
      <4>2. CASE f[1] = m
        <5>1. f[2] <= emitted[m] /\ f[2] \in Nat /\ emitted[m] \in Nat
          BY <1>0, <4>1, <4>2 DEF EmittersInv, EventNo
        <5>2. f[2] < emitted[m]
          BY <4>1, <4>2, <5>1
        <5>. QED  BY <2>1, <4>2, <5>2 DEF MayFollow
      <4>3. CASE f[1] # m
        <5>1. m \notin earlier[f[1]]
          BY <1>0, <2>4, <4>1 DEF EmittersInv
        <5>. QED  BY <2>1, <4>3, <5>1 DEF MayFollow
      <4>. QED  BY <4>2, <4>3
    <3>. QED  BY <3>1
  <2>6. ASSUME NEW c \in Conns
        PROVE  /\ Ordered(wire'[c])
               /\ Range(wire'[c]) \subseteq
                    IF c = h THEN Range(wire[c]) \cup {x} ELSE Range(wire[c])
    <3>1. Ordered(wire[c]) /\ wire[c] \in Seq(Event)
      BY <1>0 DEF WiresInv
    <3>2. CASE wire' = wire
      BY <3>1, <3>2
    <3>3. CASE wire' = [wire EXCEPT ![h] = Append(@, x)] /\ c # h
      BY <1>0, <3>1, <3>3
    <3>4. CASE wire' = [wire EXCEPT ![h] = Append(@, x)] /\ c = h
      <4>1. wire'[c] = Append(wire[c], x)
        BY <1>0, <3>4
      <4>2. Ordered(Append(wire[c], x)) /\ Range(Append(wire[c], x)) = Range(wire[c]) \cup {x}
        BY <2>5, <3>1, <3>4, AppendGrows
      <4>. QED  BY <3>4, <4>1, <4>2
    <3>. QED  BY <2>2, <3>2, <3>3, <3>4
  <2>7. ASSUME NEW c \in Conns, NEW e \in Range(wire'[c])
        PROVE  /\ RunOf[e[1]] = conn[c].run
               /\ e[2] \in stored[e[1]]
               /\ c \in Range(todo'[e[1]]) => e[2] # emitted[e[1]]
    <3>1. CASE e \in Range(wire[c])
      <4>1. e[1] \in Emitters
        BY <3>1, WireEvents
      <4>2. Range(todo'[e[1]]) \subseteq Range(todo[e[1]])
        BY <2>2, <2>3, <4>1
      <4>. QED  BY <1>0, <3>1, <4>2 DEF WiresInv
    <3>2. CASE e = x /\ c = h
      BY <2>1, <2>3, <2>4, <3>2
    <3>. QED  BY <2>6, <2>7, <3>1, <3>2
  <2>8. ASSUME NEW l \in Emitters
        PROVE  /\ todo'[l] # <<>> => phase[l] = "working" /\ emitted[l] \in stored[l]
               /\ IsInjective(todo'[l])
               /\ \A c \in Range(todo'[l]) : conn[c].run = RunOf[l]
    <3>1. CASE l = m
      BY <1>0, <2>3, <2>4, <3>1 DEF EmittersInv
    <3>2. CASE l # m
      BY <1>0, <2>2, <3>2 DEF EmittersInv
    <3>. QED  BY <3>1, <3>2
  <2>9. EmittersInv'
    BY <1>0, <2>2, <2>8 DEF EmittersInv
  <2>10. \A c \in Conns : Ordered(wire[c])'
    BY <2>2, <2>6 DEF Ordered, MayFollow
  <2>11. WiresInv'
    BY <2>2, <2>7, <2>10 DEF WiresInv
  <2>. QED  BY <2>9, <2>11 DEF SentInv
<1>4. ASSUME NEW m \in Emitters, end_invocation(m) PROVE SentInv'
  <2>1. /\ UNCHANGED <<earlier, emitted, stored, todo, conn, wire>>
        /\ todo[m] = <<>> /\ phase[m] = "working"
        /\ phase' = [phase EXCEPT ![m] = "over"]
    BY <1>4 DEF end_invocation
  <2>2. \A l \in Emitters : /\ phase[l] = "over" => phase'[l] = "over"
                            /\ todo[l] # <<>> => phase'[l] = phase[l]
                            /\ phase'[l] = "absent" => phase[l] = "absent"
    BY <1>0, <2>1
  <2>3. EmittersInv'
    BY <1>0, <2>1, <2>2 DEF EmittersInv
  <2>4. \A c \in Conns : Ordered(wire[c])'
    BY <1>0, <2>1 DEF WiresInv, Ordered, MayFollow
  <2>5. WiresInv'
    BY <1>0, <2>1, <2>4 DEF WiresInv
  <2>. QED  BY <2>3, <2>5 DEF SentInv
<1>5. ASSUME NEW c \in Conns, EndpointStep(c) PROVE SentInv'
  <2>1. PICK e : conn' = [conn EXCEPT ![c].endpoint = e]
    BY <1>5 DEF EndpointStep, accept, leave
  <2>2. UNCHANGED Runtime /\ UNCHANGED wire
    BY <1>5 DEF EndpointStep, accept, leave, LeaveCopy, Runtime
  <2>3. \A d \in Conns : conn'[d].run = conn[d].run
    BY <1>0, <2>1 DEF Connection
  <2>. QED  BY <1>1, <2>2, <2>3
<1>6. ASSUME NEW c \in Conns, drop(c) PROVE SentInv'
  <2>1. /\ UNCHANGED Runtime
        /\ \A d \in Conns : /\ conn'[d].run = conn[d].run
                            /\ wire'[d] \in {wire[d], <<>>}
    BY <1>0, <1>6 DEF drop, Connection
  <2>. QED  BY <2>1, SentMoves
<1>7. ASSUME NEW c \in Conns, onopen(c) \/ onclose(c) PROVE SentInv'
  BY <1>1, <1>7 DEF onopen, onclose, bus
<1>8. ASSUME NEW c \in Conns, onmessage(c) PROVE SentInv'
  <2>1. /\ wire[c] # <<>> /\ wire' = [wire EXCEPT ![c] = Tail(@)]
        /\ UNCHANGED Runtime /\ UNCHANGED conn
    BY <1>8 DEF onmessage
  <2>. QED  BY <1>0, <2>1, SentMoves
<1>9. CASE reconnect
  <2>1. runIdRef \in Runs /\ UNCHANGED Runtime /\ UNCHANGED Handed
    BY <1>9 DEF reconnect, TypeInv, PageTypes, Runtime, Handed
  <2>. QED  BY <1>9, <2>1, OpenIsFresh, SentMoves DEF reconnect
<1>10. ASSUME NEW r \in Runs, handleRun(r) PROVE SentInv'
  BY <1>10, SentBegin, BusAssumption DEF handleRun, begin_run
<1>11. CASE run_answered
  <2>1. posted \in Runs /\ UNCHANGED Runtime /\ UNCHANGED Handed
    BY <1>11 DEF run_answered, TypeInv, PageTypes, Runtime, Handed
  <2>. QED  BY <1>11, <2>1, OpenIsFresh, SentMoves DEF run_answered, connect
<1>12. CASE run_failed
  BY <1>1, <1>12 DEF run_failed
<1>13. CASE leave_page
  <2>1. /\ conn' = [c \in Conns |-> [conn[c] EXCEPT !.up = @ /\ c \notin Current]]
        /\ Clear(Current) /\ UNCHANGED Runtime
    BY <1>13 DEF leave_page, disconnect
  <2>2. \A d \in Conns : /\ conn'[d].run = conn[d].run
                         /\ wire'[d] \in {wire[d], <<>>}
    BY <1>0, <2>1 DEF Connection, Clear
  <2>. QED  BY <2>1, <2>2, SentMoves
<1>14. CASE UNCHANGED vars
  BY <1>1, <1>14 DEF vars, bus
<1>15. ASSUME NEW m \in Emitters, resume_run(m) PROVE SentInv'
  BY <1>15, SentBegin DEF resume_run
<1>. QED  BY <1>2, <1>3, <1>4, <1>5, <1>6, <1>7, <1>8, <1>9, <1>10, <1>11,
             <1>12, <1>13, <1>14, <1>15
          DEF Next, ServerStep, Environment, Client, SocketStep, EmitterStep

(* A message that is received is shown as the last one.                    *)
LEMMA MessageIsShown ==
  ASSUME TypeInv, SocketInv, SentInv, NEW c \in Conns, onmessage(c)
  PROVE  \E r \in Runs, e \in Event :
           /\ c = wsRef /\ runIdRef = r /\ conn[c].run = r /\ RunOf[e[1]] = r
           /\ wire[c] # <<>> /\ e = Head(wire[c]) /\ e \in Range(wire[c])
           /\ events' = Append(events, e)
           /\ Len(events) \in Nat
           /\ Len(events') = Len(events) + 1
           /\ \A i \in 1..Len(events) :
                /\ events'[i] = events[i] /\ events[i] \in Event
                /\ events[i] \in Shown(RunOf[events[i][1]])
           /\ events'[Len(events)+1] = e
           /\ \A q \in Runs : Shown(q)' = IF q = r THEN Shown(q) \cup {e}
                                          ELSE Shown(q)
<1>1. /\ events \in Seq(Event) /\ conn \in [Conns -> Connection]
      /\ wire[c] \in Seq(Event)
  BY DEF TypeInv, PageTypes, BusTypes, BusTypeOK
<1>2. c = wsRef /\ conn[c].run = runIdRef
  BY DEF onmessage, SocketInv, OneSocket
<1>3. PICK r \in Runs : r = runIdRef
  BY <1>1, <1>2 DEF Connection
<1>4. PICK e \in Event : e = Head(wire[c]) /\ wire[c] # <<>>
  BY <1>1, SequenceTypes DEF onmessage
<1>5. e \in Range(wire[c]) /\ RunOf[e[1]] = r
  <2>1. e \in Range(wire[c])
    BY <1>1, <1>4, HeadAndTail
  <2>. QED  BY <1>2, <1>3, <2>1 DEF SentInv, WiresInv
<1>6. events' = Append(events, e)
  BY <1>4 DEF onmessage
<1>7. /\ Len(events) \in Nat /\ Len(events') = Len(events) + 1
      /\ DOMAIN events = 1..Len(events) /\ DOMAIN events' = 1..Len(events)+1
      /\ \A i \in 1..Len(events) : events'[i] = events[i]
      /\ \A i \in 1..Len(events) : events[i] \in Event
      /\ events'[Len(events)+1] = e
  BY <1>1, <1>6
<1>8. \A i \in 1..Len(events) : events[i] \in Shown(RunOf[events[i][1]])
  BY <1>7 DEF Shown, Range
<1>9. Range(events') = Range(events) \cup {e}
  <2>1. \A i \in 1..Len(events)+1 :
          events'[i] = IF i = Len(events)+1 THEN e ELSE events[i]
    BY <1>7
  <2>. QED  BY <1>7, <2>1 DEF Range
<1>10. ASSUME NEW q \in Runs
       PROVE  Shown(q)' = IF q = r THEN Shown(q) \cup {e} ELSE Shown(q)
  BY <1>5, <1>9 DEF Shown
<1>. QED  BY <1>2, <1>3, <1>4, <1>5, <1>6, <1>7, <1>8, <1>10

LEMMA ShownStep ==
  ASSUME TypeInv, SocketInv, SentInv, ShownInv, [Next]_vars
  PROVE  ShownInv'
<1>0. /\ emitted \in [Emitters -> Nat] /\ conn \in [Conns -> Connection]
      /\ wire \in [Conns -> Seq(Event)] /\ todo \in [Emitters -> Seq(Conns)]
      /\ stored \in [Emitters -> SUBSET EventNo]
      /\ EmittersInv /\ WiresInv /\ events \in Seq(Event)
  BY DEF TypeInv, BusTypes, BusTypeOK, PageTypes, SentInv
<1>a. ASSUME NEW r \in Runs, NEW e \in Shown(r)
      PROVE  e \in Event /\ e[1] \in Emitters /\ e[2] \in stored[e[1]] /\ RunOf[e[1]] = r
  BY DEF Shown, ShownInv, Event
<1>1. ASSUME UNCHANGED <<Handed, events, runIdRef>>,
             wsRef' = None \/ UNCHANGED <<wsRef, wire>>
      PROVE  ShownInv'
  BY <1>1, ShownMoves, ClientAssumption
<1>2. ASSUME NEW m \in Emitters, save_and_publish(m), UNCHANGED <<socket, events>>
      PROVE  ShownInv'
  <2>1. /\ UNCHANGED <<wire, earlier, wsRef, runIdRef, events>>
        /\ emitted'[m] = emitted[m] + 1
        /\ \A l \in Emitters \ {m} : emitted'[l] = emitted[l] /\ todo'[l] = todo[l]
        /\ \A l \in Emitters : stored[l] \subseteq stored'[l]
    BY <1>0, <1>2 DEF save_and_publish, MayEmit, SaveFails, socket
  <2>2. \A d \in stored[m] : d # emitted'[m]
    <3>1. \A d \in stored[m] : d \in Nat /\ d <= emitted[m]
      BY <1>0 DEF EmittersInv, EventNo
    <3>2. emitted[m] \in Nat
      BY <1>0
    <3>. QED  BY <2>1, <3>1, <3>2
  <2>3. \A r \in Runs : Shown(r)' = Shown(r)
    BY <2>1 DEF Shown
  <2>4. Ordered(events)'
    BY <2>1 DEF ShownInv, Ordered, MayFollow
  <2>5. ASSUME NEW c \in Conns, NEW r \in Runs, wsRef = c, runIdRef = r,
               NEW e \in Shown(r)
        PROVE  /\ \A f \in Range(wire[c]) : MayFollow(e, f)'
               /\ c \in Range(todo'[e[1]]) => e[2] # emitted'[e[1]]
    <3>1. \A f \in Range(wire[c]) : MayFollow(e, f)
      BY <2>5 DEF ShownInv
    <3>2. CASE e[1] = m
      BY <1>a, <2>1, <2>2, <3>1, <3>2 DEF MayFollow
    <3>3. CASE e[1] # m
      BY <1>a, <2>1, <2>5, <3>1, <3>3 DEF MayFollow, ShownInv
    <3>. QED  BY <3>2, <3>3
  <2>6. \A r \in Runs : \A e \in Shown(r) : e[2] \in stored'[e[1]]
    BY <1>a, <2>1
  <2>. QED  BY <2>1, <2>3, <2>4, <2>5, <2>6 DEF ShownInv
<1>3. ASSUME NEW m \in Emitters, send(m), UNCHANGED <<socket, events>>
      PROVE  ShownInv'
  <2>1. PICK h \in Conns, x \in Event : h = Head(todo[m]) /\ x = <<m, emitted[m]>>
    <3>1. Head(todo[m]) \in Conns
      BY <1>0, <1>3, SequenceTypes DEF send
    <3>2. <<m, emitted[m]>> \in Event
      BY <1>3 DEF send, TypeInv, BusTypes, Event
    <3>. QED  BY <3>1, <3>2
  <2>2. /\ todo[m] # <<>>
        /\ UNCHANGED <<earlier, emitted, stored, wsRef, runIdRef, events>>
        /\ todo'[m] = Tail(todo[m])
        /\ \A l \in Emitters \ {m} : todo'[l] = todo[l]
        /\ \/ wire' = wire
           \/ wire' = [wire EXCEPT ![h] = Append(@, x)]
    BY <1>0, <1>3, <2>1 DEF send, socket
  <2>3. Range(todo'[m]) \subseteq Range(todo[m]) /\ h \in Range(todo[m])
    <3>1. IsInjective(todo[m]) /\ todo[m] \in Seq(Conns)
      BY <1>0 DEF EmittersInv
    <3>. QED  BY <2>1, <2>2, <3>1, TailInjective
  <2>4. \A r \in Runs : Shown(r)' = Shown(r)
    BY <2>2 DEF Shown
  <2>5. conn[h].run = RunOf[m] /\ phase[m] = "working"
    BY <1>0, <2>2, <2>3 DEF EmittersInv
  <2>6. ASSUME NEW c \in Conns
        PROVE  Range(wire'[c]) \subseteq
                 IF c = h THEN Range(wire[c]) \cup {x} ELSE Range(wire[c])
    <3>1. wire[c] \in Seq(Event)
      BY <1>0
    <3>2. \A f \in Range(Append(wire[c], x)) : f \in Range(wire[c]) \/ f = x
      BY <3>1 DEF Range
    <3>. QED  BY <1>0, <2>2, <3>1, <3>2
  <2>7. ASSUME NEW c \in Conns, NEW r \in Runs, wsRef = c, runIdRef = r,
               NEW e \in Shown(r)
        PROVE  /\ \A f \in Range(wire'[c]) : MayFollow(e, f)
               /\ c \in Range(todo'[e[1]]) => e[2] # emitted[e[1]]
    <3>1. /\ \A f \in Range(wire[c]) : MayFollow(e, f)
          /\ c \in Range(todo[e[1]]) => e[2] # emitted[e[1]]
      BY <2>7 DEF ShownInv
    <3>2. Range(todo'[e[1]]) \subseteq Range(todo[e[1]])
      BY <1>a, <2>2, <2>3
    <3>3. ASSUME c = h PROVE MayFollow(e, x)
      <4>1. CASE e[1] = m
        <5>1. e[2] <= emitted[m] /\ e[2] \in Nat /\ emitted[m] \in Nat
          BY <1>0, <1>a, <4>1 DEF EmittersInv, EventNo
        <5>2. e[2] # emitted[m]
          BY <2>3, <3>1, <3>3, <4>1
        <5>3. e[2] < emitted[m]
          BY <5>1, <5>2
        <5>. QED  BY <2>1, <4>1, <5>3 DEF MayFollow
      <4>2. CASE e[1] # m
        <5>1. m \notin earlier[e[1]]
          BY <1>0, <1>a, <2>5 DEF EmittersInv
        <5>. QED  BY <2>1, <4>2, <5>1 DEF MayFollow
      <4>. QED  BY <4>1, <4>2
    <3>. QED  BY <2>6, <3>1, <3>2, <3>3
  <2>8. Ordered(events)'
    BY <2>2 DEF ShownInv, Ordered, MayFollow
  <2>9. \A c \in Conns, r \in Runs : wsRef = c /\ runIdRef = r =>
          \A e \in Shown(r) : \A f \in Range(wire'[c]) : MayFollow(e, f)'
    BY <2>2, <2>7 DEF MayFollow
  <2>10. \A r \in Runs : \A e \in Shown(r) : e[2] \in stored'[e[1]]
    BY <1>a, <2>2
  <2>. QED  BY <2>2, <2>4, <2>7, <2>8, <2>9, <2>10 DEF ShownInv
<1>4. CASE ServerStep
  <2>1. ASSUME NEW m \in Emitters, end_invocation(m) PROVE ShownInv'
    BY <1>1, <1>4, <2>1 DEF ServerStep, end_invocation, Handed, socket
  <2>2. ASSUME NEW c \in Conns, EndpointStep(c) PROVE ShownInv'
    BY <1>1, <1>4, <2>2
    DEF ServerStep, EndpointStep, accept, leave, LeaveCopy, Runtime, Handed, socket
  <2>. QED  BY <1>2, <1>3, <1>4, <2>1, <2>2 DEF ServerStep, EmitterStep
<1>5. CASE Environment
  <2>1. ASSUME NEW m \in Emitters, resume_run(m) PROVE ShownInv'
    <3>1. /\ begin(m) /\ EmittersInv
          /\ UNCHANGED <<emitted, stored, todo, wire, events, wsRef, runIdRef>>
      BY <1>0, <1>5, <2>1 DEF Environment, resume_run, begin, socket
    <3>2. \A r \in Runs : Shown(r)' = Shown(r)
      BY <3>1 DEF Shown
    <3>3. Ordered(events)'
      <4>1. /\ \A i \in 1..Len(events) : events[i] \in Shown(RunOf[events[i][1]])
            /\ \A i \in 1..Len(events) : RunOf[events[i][1]] \in Runs
        <5>1. DOMAIN events = 1..Len(events)
              /\ \A i \in 1..Len(events) : events[i] \in Event
          BY <1>0
        <5>. QED  BY <5>1, BusAssumption DEF Shown, Range, Event
      <4>2. \A i \in 1..Len(events) :
              events[i][1] \in Emitters /\ events[i][2] \in stored[events[i][1]]
        BY <1>a, <4>1
      <4>3. \A i, j \in 1..Len(events) : i < j => MayFollow(events[i], events[j])'
        BY <3>1, <4>2, BeginKeepsOrder DEF ShownInv, Ordered
      <4>. QED  BY <3>1, <4>3 DEF Ordered
    <3>4. ASSUME NEW c \in Conns, NEW r \in Runs, wsRef = c, runIdRef = r,
                 NEW e \in Shown(r), NEW f \in Range(wire[c])
          PROVE  MayFollow(e, f)'
      <4>1. MayFollow(e, f)
        BY <3>4 DEF ShownInv
      <4>. QED  BY <1>a, <3>1, <4>1, BeginKeepsOrder
    <3>. QED  BY <3>1, <3>2, <3>3, <3>4 DEF ShownInv
  <2>2. ASSUME NEW c \in Conns, drop(c) PROVE ShownInv'
    <3>1. /\ UNCHANGED <<Handed, events, wsRef, runIdRef>>
          /\ \A d \in Conns : wire'[d] \in {wire[d], <<>>}
      BY <1>0, <1>5, <2>2 DEF Environment, drop, Runtime, Handed, socket
    <3>. QED  BY <3>1, ShownMoves
  <2>. QED  BY <1>5, <2>1, <2>2 DEF Environment
<1>6. ASSUME NEW c \in Conns, onopen(c) \/ onclose(c) PROVE ShownInv'
  BY <1>1, <1>6 DEF onopen, onclose, bus, Runtime, Handed
<1>7. ASSUME NEW c \in Conns, onmessage(c) PROVE ShownInv'
  <2>1. PICK r \in Runs, e \in Event :
          /\ c = wsRef /\ runIdRef = r /\ conn[c].run = r /\ RunOf[e[1]] = r
          /\ wire[c] # <<>> /\ e = Head(wire[c]) /\ e \in Range(wire[c])
          /\ events' = Append(events, e)
          /\ Len(events) \in Nat
          /\ Len(events') = Len(events) + 1
          /\ \A i \in 1..Len(events) :
               /\ events'[i] = events[i] /\ events[i] \in Event
               /\ events[i] \in Shown(RunOf[events[i][1]])
          /\ events'[Len(events)+1] = e
          /\ \A q \in Runs : Shown(q)' = IF q = r THEN Shown(q) \cup {e}
                                         ELSE Shown(q)
    BY <1>7, MessageIsShown
  <2>2. /\ UNCHANGED <<earlier, stored, emitted, todo, wsRef, runIdRef>>
        /\ wire'[c] = Tail(wire[c])
    BY <1>0, <1>7 DEF onmessage, Runtime, socket
  <2>3. /\ Range(Tail(wire[c])) \subseteq Range(wire[c])
        /\ \A f \in Range(Tail(wire[c])) : MayFollow(e, f)
    <3>1. wire[c] \in Seq(Event) /\ Ordered(wire[c])
      BY <1>0 DEF WiresInv
    <3>. QED  BY <2>1, <3>1, TailGrows
  <2>4. /\ e[1] \in Emitters /\ e[2] \in stored[e[1]]
        /\ c \in Range(todo[e[1]]) => e[2] # emitted[e[1]]
    BY <1>0, <2>1 DEF WiresInv, Event
  <2>5. \A d \in Shown(r) : /\ \A f \in Range(wire[c]) : MayFollow(d, f)
                            /\ c \in Range(todo[d[1]]) => d[2] # emitted[d[1]]
    BY <2>1 DEF ShownInv
  <2>6. \A q \in Runs : \A d \in Shown(q)' : d[2] \in stored[d[1]]
    BY <1>a, <2>1, <2>4
  <2>7. Ordered(events')
    <3>1. ASSUME NEW d \in Range(events) PROVE MayFollow(d, e)
      <4>1. d \in Event /\ d[1] \in Emitters
        BY <1>0 DEF Range, Event
      <4>2. PICK q \in Runs : q = RunOf[d[1]]
        BY <4>1, BusAssumption
      <4>3. d \in Shown(q)
        BY <3>1, <4>1, <4>2 DEF Shown
      <4>4. CASE q = r
        BY <2>1, <2>5, <4>3, <4>4
      <4>5. CASE q # r
        BY <1>0, <2>1, <4>1, <4>2, <4>5 DEF EmittersInv, MayFollow
      <4>. QED  BY <4>4, <4>5
    <3>2. Ordered(events)
      BY DEF ShownInv
    <3>. QED  BY <1>0, <2>1, <3>1, <3>2, AppendGrows
  <2>8. Ordered(events)'
    BY <2>2, <2>7 DEF Ordered, MayFollow
  <2>9. ASSUME NEW d \in Shown(r)'
        PROVE  /\ \A f \in Range(wire'[c]) : MayFollow(d, f)
               /\ c \in Range(todo[d[1]]) => d[2] # emitted[d[1]]
    <3>1. d \in Shown(r) \/ d = e
      BY <2>1
    <3>. QED  BY <2>2, <2>3, <2>4, <2>5, <3>1
  <2>10. \A d, f : MayFollow(d, f)' = MayFollow(d, f)
    BY <2>2 DEF MayFollow
  <2>11. ASSUME NEW b \in Conns, NEW q \in Runs, wsRef = b, runIdRef = q,
                NEW d \in Shown(q)'
         PROVE  /\ \A f \in Range(wire'[b]) : MayFollow(d, f)'
                /\ b \in Range(todo'[d[1]]) => d[2] # emitted'[d[1]]
    <3>1. b = c /\ q = r
      BY <2>1, <2>11
    <3>2. d \in Shown(r)'
      BY <2>11, <3>1
    <3>. QED  BY <2>2, <2>9, <2>10, <3>1, <3>2
  <2>12. \A q \in Runs : \A d \in Shown(q)' : d[2] \in stored'[d[1]]
    BY <2>2, <2>6
  <2>. QED  BY <2>2, <2>8, <2>11, <2>12 DEF ShownInv
<1>8. CASE reconnect
  <2>1. runIdRef \in Runs /\ UNCHANGED <<Handed, events>>
    BY <1>8 DEF reconnect, TypeInv, PageTypes, Runtime, Handed
  <2>. QED  BY <1>8, <2>1, OpenIsFresh, ShownMoves DEF reconnect
<1>9. ASSUME NEW r \in Runs, handleRun(r) PROVE ShownInv'
  <2>1. events' = <<>> /\ \A q \in Runs : Shown(q)' = {}
    BY <1>9 DEF handleRun, Shown, Range
  <2>. QED  BY <2>1 DEF ShownInv, Ordered
<1>10. CASE run_answered
  <2>1. posted \in Runs /\ UNCHANGED <<Handed, events>>
    BY <1>10 DEF run_answered, TypeInv, PageTypes, Runtime, Handed
  <2>. QED  BY <1>10, <2>1, OpenIsFresh, ShownMoves DEF run_answered, connect
<1>11. CASE run_failed
  BY <1>1, <1>11 DEF run_failed, Runtime, Handed, socket
<1>12. CASE leave_page
  <2>1. UNCHANGED <<Handed, events>> /\ wsRef' = None
    BY <1>12 DEF leave_page, disconnect, Runtime, Handed
  <2>. QED  BY <2>1, ShownMoves, ClientAssumption
<1>13. CASE UNCHANGED vars
  BY <1>1, <1>13 DEF vars, bus, Runtime, Handed, socket
<1>. QED  BY <1>4, <1>5, <1>6, <1>7, <1>8, <1>9, <1>10, <1>11, <1>12, <1>13
          DEF Next, Client, SocketStep

LEMMA FollowStep ==
  ASSUME TypeInv, SocketInv, SentInv, FollowInv, [Next]_vars
  PROVE  FollowInv'
<1>0. /\ None \notin Runs /\ PageTypes
      /\ phase \in [Emitters -> {"absent", "working", "over"}]
      /\ \A r \in Runs : First[r] \in Emitters
  BY ClientAssumption, BusAssumption DEF TypeInv, BusTypes, BusTypeOK
<1>1. ASSUME UNCHANGED <<posted, runId, events>>, runIdRef' \in {runIdRef, None},
             \A m \in Emitters : phase[m] # "absent" => phase'[m] # "absent"
      PROVE  FollowInv'
  BY <1>0, <1>1 DEF FollowInv, Shown
<1>b. ASSUME NEW m \in Emitters, begin(m)
      PROVE  \A l \in Emitters : phase[l] # "absent" => phase'[l] # "absent"
  BY <1>0, <1>b DEF begin
<1>2. CASE ServerStep
  <2>1. \A m \in Emitters : phase[m] # "absent" => phase'[m] # "absent"
    BY <1>0, <1>2
    DEF ServerStep, EmitterStep, EndpointStep, save_and_publish, send,
        end_invocation, accept, leave, Runtime
  <2>. QED  BY <1>1, <1>2, <2>1 DEF ServerStep, page, socket
<1>3. CASE Environment
  <2>1. \A m \in Emitters : phase[m] # "absent" => phase'[m] # "absent"
    BY <1>0, <1>3, <1>b DEF Environment, resume_run, drop, Runtime
  <2>. QED  BY <1>1, <1>3, <2>1 DEF Environment, page, socket
<1>4. ASSUME NEW c \in Conns, onopen(c) \/ onclose(c) PROVE FollowInv'
  BY <1>1, <1>4 DEF onopen, onclose, bus, Runtime, page
<1>5. ASSUME NEW c \in Conns, onmessage(c) PROVE FollowInv'
  <2>1. PICK r \in Runs, e \in Event :
          /\ runIdRef = r /\ RunOf[e[1]] = r
          /\ Len(events) \in Nat
          /\ Len(events') = Len(events) + 1
          /\ \A i \in 1..Len(events) :
               /\ events'[i] = events[i] /\ events[i] \in Event
          /\ events'[Len(events)+1] = e
          /\ \A q \in Runs : Shown(q)' = IF q = r THEN Shown(q) \cup {e}
                                         ELSE Shown(q)
    BY <1>5, MessageIsShown
  <2>2. UNCHANGED <<phase, posted, runId, runIdRef>>
    BY <1>5 DEF onmessage, Runtime, page, socket
  <2>3. \A q \in Runs : posted = q => /\ phase[First[q]] # "absent"
                                      /\ runId = None
                                      /\ runIdRef # q /\ Shown(q)' = {}
    BY <2>1 DEF FollowInv
  <2>4. ASSUME NEW i \in 1..Len(events'), NEW j \in 1..Len(events'),
               i < j, RunOf[events'[i][1]] = runId
        PROVE  RunOf[events'[j][1]] = runId
    <3>1. i \in 1..Len(events) /\ (j \in 1..Len(events) \/ j = Len(events)+1)
      BY <2>1, <2>4
    <3>2. RunOf[events[i][1]] = runId /\ runId \in Runs
      <4>1. events[i] \in Event /\ events'[i] = events[i]
        BY <2>1, <3>1
      <4>. QED  BY <2>4, <4>1, BusAssumption DEF Event
    <3>3. runId = r
      BY <1>0, <2>1, <3>2 DEF FollowInv
    <3>. QED  BY <2>1, <2>4, <3>1, <3>2, <3>3 DEF FollowInv
  <2>. QED  BY <2>2, <2>3, <2>4 DEF FollowInv
<1>6. CASE reconnect
  BY <1>1, <1>6 DEF reconnect, Runtime, page
<1>7. ASSUME NEW r \in Runs, handleRun(r) PROVE FollowInv'
  <2>1. /\ phase[First[r]] = "absent" /\ phase'[First[r]] = "working"
        /\ \A l \in Emitters : phase[l] # "absent" => phase'[l] # "absent"
        /\ posted' = r /\ runId' = None /\ events' = <<>> /\ runIdRef' = runIdRef
    BY <1>0, <1>7 DEF handleRun, begin_run, begin, socket
  <2>2. Len(events') = 0 /\ \A q \in Runs : Shown(q)' = {}
    BY <2>1 DEF Shown, Range
  <2>. QED  BY <1>0, <2>1, <2>2 DEF FollowInv
<1>8. CASE run_answered
  <2>1. PICK r \in Runs : posted = r
    BY <1>0, <1>8 DEF run_answered, PageTypes
  <2>2. /\ runId' = r /\ runIdRef' = r /\ posted' = None
        /\ UNCHANGED <<phase, events>>
    BY <1>8, <2>1 DEF run_answered, connect, Runtime
  <2>3. \A i \in 1..Len(events) : RunOf[events[i][1]] # r
    <3>1. Shown(r) = {} /\ events \in Seq(Event)
      BY <1>0, <2>1 DEF FollowInv, PageTypes
    <3>2. DOMAIN events = 1..Len(events)
          /\ \A i \in 1..Len(events) : events[i] \in Event
      BY <3>1
    <3>3. \A i \in 1..Len(events) : RunOf[events[i][1]] = r => events[i] \in Shown(r)
      BY <3>2 DEF Shown, Range
    <3>. QED  BY <3>1, <3>3
  <2>. QED  BY <1>0, <2>1, <2>2, <2>3 DEF FollowInv
<1>9. CASE run_failed
  <2>1. posted' = None /\ posted # None
        /\ UNCHANGED <<phase, runId, runIdRef, events>>
    BY <1>9 DEF run_failed, Runtime, socket
  <2>. QED  BY <1>0, <2>1 DEF FollowInv
<1>10. CASE leave_page
  BY <1>1, <1>10 DEF leave_page, disconnect, Runtime
<1>11. CASE UNCHANGED vars
  BY <1>1, <1>11 DEF vars, bus, Runtime, page, socket
<1>. QED  BY <1>2, <1>3, <1>4, <1>5, <1>6, <1>7, <1>8, <1>9, <1>10, <1>11
          DEF Next, Client, SocketStep

(* However connections break, reconnect and serve one run after the other, *)
(* and however invocations of a run overlap, the page shows only stored    *)
(* events, none twice, each invocation's in the order they happened, those *)
(* of an invocation that was over when another began before the other's,   *)
(* and a page that has a run's id shows nothing of another run after it.   *)
THEOREM EventsInOrder == Spec => []ShownInOrder
<1>1. Init => SentInv /\ ShownInv /\ FollowInv
  <2> SUFFICES ASSUME Init PROVE SentInv /\ ShownInv /\ FollowInv
    OBVIOUS
  <2>1. /\ \A m \in Emitters : stored[m] = {} /\ todo[m] = <<>> /\ earlier[m] = {}
        /\ \A c \in Conns : wire[c] = <<>>
        /\ events = <<>> /\ wsRef = None /\ runIdRef = None /\ runId = None
        /\ posted = None
    BY DEF Init, BusInit
  <2>2. /\ Len(events) = 0 /\ \A r \in Runs : Shown(r) = {}
    BY <2>1 DEF Shown, Range
  <2>3. SentInv
    BY <2>1, EmptyRange DEF SentInv, EmittersInv, WiresInv
  <2>4. ShownInv
    BY <2>1, <2>2, EmptyRange, ClientAssumption DEF ShownInv
  <2>5. FollowInv
    BY <2>1, <2>2, ClientAssumption DEF FollowInv
  <2>. QED  BY <2>3, <2>4, <2>5
<1>2. /\ TypeInv /\ SocketInv /\ [Next]_vars => SocketInv'
      /\ TypeInv /\ ListsAreRight /\ [Next]_vars => ListsAreRight'
      /\ TypeInv /\ ListsAreRight /\ SentInv /\ [Next]_vars => SentInv'
      /\ TypeInv /\ SocketInv /\ SentInv /\ ShownInv /\ [Next]_vars => ShownInv'
      /\ TypeInv /\ SocketInv /\ SentInv /\ FollowInv /\ [Next]_vars
           => FollowInv'
  BY SocketStepLemma, ListsStep, SentStep, ShownStep, FollowStep
<1>3. ASSUME TypeInv, ShownInv, FollowInv PROVE ShownInOrder
  <2>1. ASSUME NEW i \in 1..Len(events)
        PROVE  events[i][2] \in stored[events[i][1]]
    <3>1. /\ events[i] \in Event /\ i \in DOMAIN events
      BY <1>3 DEF TypeInv, PageTypes
    <3>2. RunOf[events[i][1]] \in Runs
      BY <3>1, BusAssumption DEF Event
    <3>3. events[i] \in Shown(RunOf[events[i][1]])
      BY <3>1 DEF Shown, Range
    <3>. QED  BY <1>3, <3>2, <3>3 DEF ShownInv
  <2>. QED  BY <1>3, <2>1 DEF ShownInv, FollowInv, Ordered, ShownInOrder
<1>. QED  BY <1>1, <1>2, <1>3, SocketInit, ListsAndTurnsInit, TypeInvHolds, PTL
          DEF Spec
=============================================================================
