------------------------- MODULE ToolExecutionProofs -------------------------
(***************************************************************************)
(* Theorems about ToolExecution, for any number of calls, of threads in    *)
(* the pool and of lines that the code prints.                             *)
(***************************************************************************)
EXTENDS ToolExecution, FiniteSetTheorems, SequenceTheorems, TLAPS

Job == {"none", "queued", "cancelled", "saved", "running", "collected",
        "finished"}

DataTypes ==
  /\ coroutine \in [Calls -> {"idle", "awaiting", "answered"}]
  /\ answer \in [Calls -> OutputType]
  /\ job \in [Calls -> Job]
  /\ old \in [Calls -> Calls \cup {"console"}]
  /\ buffer \in [Calls -> Seq(Calls)]
  /\ outcome \in [Calls -> OutputType]
  /\ stdout \in Calls \cup {"console"}
  /\ printed \in [Calls -> 0..MaxPrints]
  /\ overlapped \subseteq Calls

ActiveCalls == {c \in Calls : Active(c)}

PoolBound == Cardinality(ActiveCalls) <= Workers

LEMMA Outputs ==
  /\ NoOutput \in OutputType
  /\ \A e \in Error : Output(e, <<>>) \in OutputType
  /\ \A e \in Error, s \in Seq(Calls) : Output(e, s) \in OutputType
BY DEF NoOutput, Output, OutputType, Error

LEMMA DataStep ==
  ASSUME DataTypes, [Next]_vars
  PROVE  DataTypes'
<1> USE Outputs DEF DataTypes, Job
<1>1. ASSUME NEW c \in Calls, Coroutine(c) PROVE DataTypes'
  <2>1. CASE reject(c) \/ execute_on_loop(c)
    <3>1. PICK e \in Error : Reply(c, Output(e, <<>>))
      BY <2>1 DEF reject, execute_on_loop, Error
    <3>. QED  BY <2>1, <3>1 DEF reject, execute_on_loop, Reply, threads
  <2>2. CASE to_thread(c)
    BY <2>2 DEF to_thread
  <2>3. CASE resume(c)
    BY <2>3 DEF resume, Reply, threads
  <2>4. CASE time_out(c)
    BY <2>4 DEF time_out, Reply, Withdraw, Error
  <2>. QED  BY <1>1, <2>1, <2>2, <2>3, <2>4 DEF Coroutine
<1>2. ASSUME NEW c \in Calls, Thread(c) PROVE DataTypes'
  <2>0. UNCHANGED <<coroutine, answer>>
    BY <1>2 DEF Thread
  <2>1. CASE save(c)
    BY <2>0, <2>1 DEF save
  <2>2. CASE redirect(c)
    BY <2>0, <2>2 DEF redirect, Redirect
  <2>3. CASE print(c)
    <3>1. printed[c] + 1 \in 0..MaxPrints
      BY <2>3, ExecutionAssumption DEF print
    <3>2. \A s \in Seq(Calls) : Append(s, c) \in Seq(Calls)
      OBVIOUS
    <3>3. buffer' \in [Calls -> Seq(Calls)]
      BY <2>3, <3>2 DEF print
    <3>. QED  BY <2>0, <2>3, <3>1, <3>3 DEF print
  <2>4. CASE collect(c)
    <3>1. outcome' \in [Calls -> OutputType]
      BY <2>4 DEF collect, Error
    <3>2. buffer' \in [Calls -> Seq(Calls)]
      BY <2>4 DEF collect
    <3>. QED  BY <2>0, <2>4, <3>1, <3>2 DEF collect
  <2>5. CASE restore(c)
    BY <2>0, <2>5 DEF restore, Restore
  <2>. QED  BY <1>2, <2>1, <2>2, <2>3, <2>4, <2>5 DEF Thread
<1>3. CASE UNCHANGED vars
  BY <1>3 DEF vars, threads
<1>. QED  BY <1>1, <1>2, <1>3 DEF Next

(* Only a worker that is free takes a job. *)
LEMMA PoolStep ==
  ASSUME DataTypes, PoolBound, [Next]_vars
  PROVE  PoolBound'
<1>0. IsFiniteSet(ActiveCalls) /\ Workers \in Nat
  BY ExecutionAssumption, FS_Subset DEF ActiveCalls
<1>1. CASE ActiveCalls' \subseteq ActiveCalls
  <2>1. Cardinality(ActiveCalls') <= Cardinality(ActiveCalls)
    BY <1>0, <1>1, FS_Subset
  <2>. QED
    BY <1>0, <1>1, <2>1, FS_Subset, FS_CardinalityType DEF PoolBound
<1>2. ASSUME NEW c \in Calls, save(c) PROVE PoolBound'
  <2>1. ActiveCalls' = ActiveCalls \cup {c}
    BY <1>2 DEF save, ActiveCalls, Active, DataTypes
  <2>2. Cardinality(ActiveCalls) < Workers
    BY <1>2 DEF save, FreeWorker, ActiveCalls
  <2>3. Cardinality(ActiveCalls \cup {c}) =
          IF c \in ActiveCalls THEN Cardinality(ActiveCalls)
          ELSE Cardinality(ActiveCalls) + 1
    BY <1>0, FS_AddElement, Zenon
  <2>4. Cardinality(ActiveCalls) \in Nat
    BY <1>0, FS_CardinalityType
  <2>. QED  BY <1>0, <2>1, <2>2, <2>3, <2>4 DEF PoolBound
<1>3. ASSUME NEW c \in Calls,
             Coroutine(c) \/ redirect(c) \/ print(c) \/ collect(c) \/ restore(c)
      PROVE  ActiveCalls' \subseteq ActiveCalls
  BY <1>3
  DEF Coroutine, reject, execute_on_loop, to_thread, resume, time_out, Withdraw,
      redirect, print, collect, restore, threads, ActiveCalls, Active, DataTypes
<1>4. CASE UNCHANGED vars
  BY <1>1, <1>4 DEF vars, threads, ActiveCalls, Active
<1>. QED  BY <1>1, <1>2, <1>3, <1>4 DEF Next, Thread

(* Every state is well formed, and no more threads are active than the     *)
(* pool has, whatever times out.                                           *)
THEOREM TypeCorrect == Spec => []TypeOK
<1>1. Init => DataTypes /\ PoolBound
  <2>1. Init => DataTypes
    <3>1. Init => /\ coroutine \in [Calls -> {"idle", "awaiting", "answered"}]
                  /\ job \in [Calls -> Job]
                  /\ old \in [Calls -> Calls \cup {"console"}]
                  /\ buffer \in [Calls -> Seq(Calls)]
                  /\ stdout \in Calls \cup {"console"}
                  /\ overlapped \subseteq Calls
      BY DEF Init, Job
    <3>2. Init => /\ answer \in [Calls -> OutputType]
                  /\ outcome \in [Calls -> OutputType]
      BY Outputs DEF Init
    <3>3. Init => printed \in [Calls -> 0..MaxPrints]
      BY ExecutionAssumption DEF Init
    <3>. QED  BY <3>1, <3>2, <3>3 DEF DataTypes
  <2>2. Init => ActiveCalls = {}
    BY DEF Init, ActiveCalls, Active
  <2>. QED  BY <2>1, <2>2, FS_EmptySet, ExecutionAssumption DEF PoolBound
<1>2. DataTypes /\ PoolBound /\ [Next]_vars => DataTypes' /\ PoolBound'
  BY DataStep, PoolStep
<1>3. DataTypes /\ PoolBound => TypeOK
  BY DEF DataTypes, PoolBound, TypeOK, Job, ActiveCalls
<1>. QED  BY <1>1, <1>2, <1>3, PTL DEF Spec

LEMMA DataCorrect == Spec => []DataTypes
<1>1. TypeOK => DataTypes
  BY DEF TypeOK, DataTypes, Job
<1>. QED  BY <1>1, TypeCorrect, PTL

-----------------------------------------------------------------------------
(* sys.stdout *)

(* Two executions that are active at once know of each other; what one has *)
(* saved is the console or the buffer of an execution that overlapped      *)
(* another; and so is sys.stdout, unless it belongs to one that is active. *)
SwapInv ==
  /\ \A c \in Calls : coroutine[c] = "idle" => job[c] = "none"
  /\ \A c, d \in Calls : Active(c) /\ Active(d) /\ c # d => c \in overlapped
  /\ \A c \in Calls : old[c] \in overlapped \cup {"console"}
  /\ \/ stdout \in overlapped \cup {"console"}
     \/ stdout \in Calls /\ job[stdout] \in {"running", "collected"}

LEMMA SwapStep ==
  ASSUME DataTypes, SwapInv, [Next]_vars
  PROVE  SwapInv'
<1> USE DEF SwapInv, Active, DataTypes
<1>1. ASSUME NEW c \in Calls, Coroutine(c) PROVE SwapInv'
  <2>1. /\ UNCHANGED <<old, stdout, overlapped>>
        /\ \A d \in Calls : \/ job'[d] = job[d]
                            \/ /\ job[d] \notin {"saved", "running", "collected"}
                               /\ job'[d] \in {"queued", "cancelled"}
    <3>1. CASE to_thread(c)
      BY <3>1 DEF to_thread
    <3>2. CASE reject(c) \/ execute_on_loop(c) \/ resume(c)
      BY <3>2 DEF reject, execute_on_loop, resume, threads
    <3>3. CASE time_out(c)
      BY <3>3 DEF time_out, Withdraw
    <3>. QED  BY <1>1, <3>1, <3>2, <3>3 DEF Coroutine
  <2>2. \A d \in Calls : coroutine'[d] = "idle" => job'[d] = "none"
    BY <1>1
    DEF Coroutine, reject, execute_on_loop, to_thread, resume, time_out, Reply,
        Withdraw, threads
  <2>. QED  BY <2>1, <2>2
<1>2. ASSUME NEW c \in Calls, save(c), coroutine' = coroutine
      PROVE  SwapInv'
  <2> DEFINE others == {d \in Calls : Active(d)}
  <2>1. /\ job[c] = "queued" /\ job' = [job EXCEPT ![c] = "saved"]
        /\ old' = [old EXCEPT ![c] = stdout] /\ stdout' = stdout
        /\ overlapped \subseteq overlapped'
        /\ others # {} => others \cup {c} \subseteq overlapped'
    BY <1>2 DEF save
  <2>2. stdout \in overlapped' \cup {"console"}
    BY <2>1
  <2>3. \A d, e \in Calls : Active(d)' /\ Active(e)' /\ d # e => d \in overlapped'
    BY <2>1
  <2>. QED  BY <1>2, <2>1, <2>2, <2>3
<1>3. ASSUME NEW c \in Calls, redirect(c), coroutine' = coroutine
      PROVE  SwapInv'
  BY <1>3 DEF redirect, Redirect
<1>4. ASSUME NEW c \in Calls, print(c), coroutine' = coroutine
      PROVE  SwapInv'
  BY <1>4 DEF print
<1>5. ASSUME NEW c \in Calls, collect(c), coroutine' = coroutine
      PROVE  SwapInv'
  BY <1>5 DEF collect
<1>6. ASSUME NEW c \in Calls, restore(c), coroutine' = coroutine
      PROVE  SwapInv'
  BY <1>6 DEF restore, Restore
<1>7. CASE UNCHANGED vars
  BY <1>7 DEF vars, threads
<1>. QED  BY <1>1, <1>2, <1>3, <1>4, <1>5, <1>6, <1>7 DEF Next, Thread

LEMMA SwapCorrect == Spec => []SwapInv
<1>1. Init => SwapInv
  BY DEF Init, SwapInv, Active
<1>. QED  BY <1>1, SwapStep, DataCorrect, PTL DEF Spec

(* However threads interleave and time out: when none is active sys.stdout *)
(* is the console again, unless two executions have overlapped.            *)
THEOREM ConsoleComesBack == Spec => []ConsoleIsBack
<1>1. SwapInv => ConsoleIsBack
  BY DEF SwapInv, ConsoleIsBack, Active
<1>. QED  BY <1>1, SwapCorrect, PTL

-----------------------------------------------------------------------------
(* What a call answers *)

Own(c) == [i \in 1..printed[c] |-> c]

LEMMA OneMoreLine ==
  ASSUME NEW c, NEW n \in Nat
  PROVE  Append([i \in 1..n |-> c], c) = [i \in 1..n+1 |-> c]
OBVIOUS

(* Alone between save and restore, an execution has sys.stdout and its     *)
(* buffer to itself. A call whose coroutine has been answered while its    *)
(* thread was still busy was answered with a timeout.                      *)
OwnInv ==
  \A c \in Calls :
    /\ c \notin overlapped =>
         /\ job[c] \in {"none", "queued", "cancelled", "saved"}
              => printed[c] = 0 /\ buffer[c] = <<>>
         /\ job[c] = "running" => stdout = c /\ buffer[c] = Own(c)
         /\ job[c] \in {"collected", "finished"} /\ coroutine[c] = "awaiting"
              => outcome[c].lines = Own(c)
         /\ job[c] = "finished" /\ coroutine[c] = "answered"
              /\ answer[c].error # "timeout"
              => answer[c].lines = Own(c)
    /\ coroutine[c] = "awaiting" => job[c] \notin {"none", "cancelled"}
    /\ coroutine[c] = "answered" /\ answer[c].error # "timeout"
         => job[c] \in {"none", "finished"}
    /\ coroutine[c] = "answered" => job[c] # "queued"

LEMMA OwnStep ==
  ASSUME DataTypes, SwapInv, OwnInv, [Next]_vars
  PROVE  OwnInv'
<1> USE DEF OwnInv, DataTypes
<1>1. ASSUME NEW c \in Calls, reject(c) \/ execute_on_loop(c) PROVE OwnInv'
  <2>1. /\ coroutine[c] = "idle" /\ coroutine'[c] = "answered"
        /\ \A d \in Calls \ {c} : /\ coroutine'[d] = coroutine[d]
                                 /\ answer'[d] = answer[d]
        /\ UNCHANGED threads
    BY <1>1 DEF reject, execute_on_loop, Reply
  <2>2. job[c] = "none"
    BY <2>1 DEF SwapInv
  <2>. QED  BY <2>1, <2>2 DEF threads, Own
<1>2. ASSUME NEW c \in Calls, to_thread(c) PROVE OwnInv'
  BY <1>2 DEF to_thread, Own, SwapInv
<1>3. ASSUME NEW c \in Calls, resume(c) PROVE OwnInv'
  BY <1>3 DEF resume, Reply, threads, Own
<1>4. ASSUME NEW c \in Calls, time_out(c) PROVE OwnInv'
  BY <1>4 DEF time_out, Reply, Withdraw, Own, Output
<1>5. ASSUME NEW c \in Calls, save(c), UNCHANGED <<coroutine, answer>>
      PROVE  OwnInv'
  <2>1. /\ job[c] = "queued" /\ job' = [job EXCEPT ![c] = "saved"]
        /\ UNCHANGED <<buffer, outcome, stdout, printed>>
        /\ overlapped \subseteq overlapped'
    BY <1>5 DEF save
  <2>. QED  BY <1>5, <2>1 DEF Own
<1>6. ASSUME NEW c \in Calls, redirect(c), UNCHANGED <<coroutine, answer>>
      PROVE  OwnInv'
  BY <1>6 DEF redirect, Redirect, Own, SwapInv, Active
<1>7. ASSUME NEW c \in Calls, print(c), UNCHANGED <<coroutine, answer>>
      PROVE  OwnInv'
  <2>1. /\ job[c] = "running" /\ printed' = [printed EXCEPT ![c] = @ + 1]
        /\ UNCHANGED <<job, outcome, stdout, overlapped>>
    BY <1>7 DEF print
  <2>2. ASSUME NEW d \in Calls, d # c, d \notin overlapped
        PROVE  buffer'[d] = buffer[d] /\ Own(d)' = Own(d)
    BY <1>7, <2>1, <2>2 DEF print, SwapInv, Active, Own
  <2>3. ASSUME c \notin overlapped
        PROVE  buffer'[c] = Own(c)'
    <3>1. stdout = c /\ buffer[c] = Own(c) /\ printed[c] \in Nat
      BY <2>1, <2>3
    <3>2. buffer'[c] = Append(Own(c), c)
      BY <1>7, <2>1, <3>1 DEF print
    <3>3. Own(c)' = [i \in 1..printed[c] + 1 |-> c]
      BY <2>1 DEF Own
    <3>4. Append([i \in 1..printed[c] |-> c], c) = [i \in 1..printed[c] + 1 |-> c]
      BY <3>1, OneMoreLine
    <3>. QED  BY <3>2, <3>3, <3>4, Zenon DEF Own
  <2>. QED  BY <1>7, <2>1, <2>2, <2>3
<1>8. ASSUME NEW c \in Calls, collect(c), UNCHANGED <<coroutine, answer>>
      PROVE  OwnInv'
  <2>1. /\ job[c] = "running" /\ job' = [job EXCEPT ![c] = "collected"]
        /\ UNCHANGED <<stdout, printed, overlapped>>
        /\ \A d \in Calls \ {c} : buffer'[d] = buffer[d] /\ outcome'[d] = outcome[d]
    BY <1>8 DEF collect
  <2>2. coroutine[c] = "awaiting" => outcome'[c].lines = buffer[c]
    BY <1>8 DEF collect, Output
  <2>3. \A d \in Calls : Own(d)' = Own(d)
    BY <2>1 DEF Own
  <2>. QED  BY <1>8, <2>1, <2>2, <2>3
<1>9. ASSUME NEW c \in Calls, restore(c), UNCHANGED <<coroutine, answer>>
      PROVE  OwnInv'
  BY <1>9 DEF restore, Restore, Own, SwapInv, Active
<1>10. CASE UNCHANGED vars
  BY <1>10 DEF vars, threads, Own
<1>. QED
  BY <1>1, <1>2, <1>3, <1>4, <1>5, <1>6, <1>7, <1>8, <1>9, <1>10
  DEF Next, Coroutine, Thread

LEMMA OwnCorrect == Spec => []OwnInv
<1>1. Init => OwnInv
  <2>1. Init => \A c \in Calls : /\ coroutine[c] = "idle" /\ job[c] = "none"
                                /\ printed[c] = 0 /\ buffer[c] = <<>>
    BY DEF Init
  <2>. QED  BY <2>1 DEF OwnInv
<1>. QED  BY <1>1, OwnStep, DataCorrect, SwapCorrect, PTL DEF Spec

(* A call answers with the lines of its own code and with all of them, for *)
(* any number of other calls before, after and in the queue.               *)
THEOREM OutputIsItsOwn == Spec => []OutputIsOwn
<1>1. OwnInv => OutputIsOwn
  BY DEF OwnInv, OutputIsOwn, Own
<1>. QED  BY <1>1, OwnCorrect, PTL

(* Code that was still in the queue at its timeout is never executed.      *)
THEOREM WithdrawnStaysOut == Spec => WithdrawnNeverRuns
<1>1. DataTypes /\ OwnInv /\ [Next]_vars
        => [\A c \in Calls :
              coroutine[c] = "answered" /\ job[c] \in {"none", "queued", "cancelled"}
                => job'[c] = job[c]]_vars
  <2> SUFFICES ASSUME DataTypes, OwnInv, Next, NEW c \in Calls,
                      coroutine[c] = "answered",
                      job[c] \in {"none", "queued", "cancelled"}
               PROVE  job'[c] = job[c]
    OBVIOUS
  <2>1. job[c] \in {"none", "cancelled"}
    BY DEF OwnInv
  <2>2. ASSUME NEW d \in Calls, Coroutine(d) PROVE job'[c] = job[c]
    BY <2>1, <2>2
    DEF Coroutine, reject, execute_on_loop, to_thread, resume, time_out,
        Withdraw, threads, DataTypes
  <2>3. ASSUME NEW d \in Calls, Thread(d) PROVE job'[c] = job[c]
    BY <2>1, <2>3
    DEF Thread, save, redirect, print, collect, restore, DataTypes
  <2>. QED  BY <2>2, <2>3 DEF Next
<1>. QED  BY <1>1, DataCorrect, OwnCorrect, PTL DEF Spec, WithdrawnNeverRuns
=============================================================================
