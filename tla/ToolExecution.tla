--------------------------- MODULE ToolExecution ---------------------------
(***************************************************************************)
(* Calls of ToolExecutor.execute (tools/executor.py), and the threads in   *)
(* which PythonExecutionTool (tools/tools/python_execution.py) runs the    *)
(* code it is given. What the lookup of the tool gives is an input; the    *)
(* registry it is looked up in is the module Registry.                     *)
(*                                                                         *)
(* A call is a coroutine of the event loop. asyncio.to_thread hands the    *)
(* code to the pool of the loop; wait_for gives up on the coroutine, which *)
(* takes a job out of the queue but does not stop a thread. A thread may   *)
(* be interrupted between any two accesses to sys.stdout, which belongs to *)
(* the process.                                                            *)
(***************************************************************************)
EXTENDS Naturals, Sequences, FiniteSets

CONSTANTS
  Calls,     \* calls of execute
  Workers,   \* threads of the pool
  MaxPrints  \* bound on the lines one piece of code prints

ASSUME ExecutionAssumption ==
  /\ IsFiniteSet(Calls)
  /\ "console" \notin Calls
  /\ Workers \in Nat \ {0}
  /\ MaxPrints \in Nat

VARIABLES
  coroutine,   \* call -> where its coroutine is
  answer,      \* call -> the ToolOutput, reduced to its error and stdout
  job,         \* call -> where _run is
  old,         \* call -> the local variable old of _run
  buffer,      \* call -> the lines in its local_stdout
  outcome,     \* call -> what _run returns
  stdout,      \* sys.stdout: the console or the buffer of a call
  printed,     \* history: call -> how many lines its code has printed
  overlapped   \* history: the calls whose _run overlapped another one

threads == <<job, old, buffer, outcome, stdout, printed, overlapped>>
vars == <<coroutine, answer, threads>>

Error == {"none", "error", "timeout"}

Output(error, lines) == [error |-> error, lines |-> lines]
NoOutput == Output("none", <<>>)

(* Between the first access of _run to sys.stdout and the last one. *)
Active(c) == job[c] \in {"saved", "running", "collected"}

-----------------------------------------------------------------------------
(* The coroutines *)

Reply(c, output) ==
  /\ coroutine' = [coroutine EXCEPT ![c] = "answered"]
  /\ answer' = [answer EXCEPT ![c] = output]

(* The tool is missing or switched off, or the Python tool refuses the     *)
(* code before it starts a thread for it.                                  *)
reject(c) ==
  /\ coroutine[c] = "idle"
  /\ Reply(c, Output("error", <<>>))
  /\ UNCHANGED threads

(* A body that stays on the event loop: it returns, raises, or is late. *)
execute_on_loop(c) ==
  /\ coroutine[c] = "idle"
  /\ \E e \in Error : Reply(c, Output(e, <<>>))
  /\ UNCHANGED threads

to_thread(c) ==
  /\ coroutine[c] = "idle"
  /\ coroutine' = [coroutine EXCEPT ![c] = "awaiting"]
  /\ job' = [job EXCEPT ![c] = "queued"]
  /\ UNCHANGED <<answer, old, buffer, outcome, stdout, printed, overlapped>>

resume(c) ==
  /\ coroutine[c] = "awaiting" /\ job[c] = "finished"
  /\ Reply(c, outcome[c])
  /\ UNCHANGED threads

\* faulty variants
LeavesQueued(c) == UNCHANGED job
NeverLate(c) == job[c] = "queued"

(* The cancelled future takes a job out of the queue, not out of a thread. *)
Withdraw(c) ==
  job' = [job EXCEPT ![c] = IF @ = "queued" THEN "cancelled" ELSE @]

(* The deadline passes at any time, also when the answer is ready. *)
Late(c) == coroutine[c] = "awaiting"

time_out(c) ==
  /\ coroutine[c] = "awaiting" /\ Late(c)
  /\ Reply(c, Output("timeout", <<>>))
  /\ Withdraw(c)
  /\ outcome' = [outcome EXCEPT ![c] = NoOutput]
  /\ UNCHANGED <<old, buffer, stdout, printed, overlapped>>

-----------------------------------------------------------------------------
(* The threads: _run *)

\* faulty variant
FreeWorkerMiscounted == Cardinality({d \in Calls : Active(d)}) <= Workers

FreeWorker == Cardinality({d \in Calls : Active(d)}) < Workers

(* A free worker takes the job; old = sys.stdout. *)
save(c) ==
  /\ job[c] = "queued"
  /\ FreeWorker
  /\ job' = [job EXCEPT ![c] = "saved"]
  /\ old' = [old EXCEPT ![c] = stdout]
  /\ LET others == {d \in Calls : Active(d)}
     IN overlapped' = IF others = {} THEN overlapped
                      ELSE overlapped \cup others \cup {c}
  /\ UNCHANGED <<buffer, outcome, stdout, printed>>

\* faulty variant
RedirectOnce(c) == stdout' = IF stdout = "console" THEN c ELSE stdout

Redirect(c) == stdout' = c

redirect(c) ==
  /\ job[c] = "saved"
  /\ Redirect(c)
  /\ job' = [job EXCEPT ![c] = "running"]
  /\ UNCHANGED <<old, buffer, outcome, printed, overlapped>>

(* print looks sys.stdout up when it is called. What goes to the console,  *)
(* or into a buffer that was read already, is lost for the answers.        *)
print(c) ==
  /\ job[c] = "running" /\ printed[c] < MaxPrints
  /\ printed' = [printed EXCEPT ![c] = @ + 1]
  /\ buffer' = IF stdout \in Calls /\ job[stdout] \in {"saved", "running"}
               THEN [buffer EXCEPT ![stdout] = Append(@, c)]
               ELSE buffer
  /\ UNCHANGED <<job, old, outcome, stdout, overlapped>>

(* exec returned or raised; getvalue. Nobody receives what _run returns    *)
(* once the coroutine was answered.                                        *)
collect(c) ==
  /\ job[c] = "running"
  /\ \E e \in {"none", "error"} :
       outcome' = [outcome EXCEPT ![c] = IF coroutine[c] = "answered"
                                         THEN NoOutput
                                         ELSE Output(e, buffer[c])]
  /\ buffer' = [buffer EXCEPT ![c] = <<>>]
  /\ job' = [job EXCEPT ![c] = "collected"]
  /\ UNCHANGED <<old, stdout, printed, overlapped>>

\* faulty variant
RestoreOnSuccess(c) ==
  stdout' = IF outcome[c].error = "none" THEN old[c] ELSE stdout

Restore(c) == stdout' = old[c]

(* The finally clause. *)
restore(c) ==
  /\ job[c] = "collected"
  /\ Restore(c)
  /\ old' = [old EXCEPT ![c] = "console"]
  /\ job' = [job EXCEPT ![c] = "finished"]
  /\ UNCHANGED <<buffer, outcome, printed, overlapped>>

-----------------------------------------------------------------------------

Init ==
  /\ coroutine = [c \in Calls |-> "idle"]
  /\ answer = [c \in Calls |-> NoOutput]
  /\ job = [c \in Calls |-> "none"]
  /\ old = [c \in Calls |-> "console"]
  /\ buffer = [c \in Calls |-> <<>>]
  /\ outcome = [c \in Calls |-> NoOutput]
  /\ stdout = "console"
  /\ printed = [c \in Calls |-> 0]
  /\ overlapped = {}

Coroutine(c) ==
  \/ reject(c) \/ execute_on_loop(c) \/ to_thread(c)
  \/ resume(c) \/ time_out(c)

Thread(c) ==
  /\ save(c) \/ redirect(c) \/ print(c) \/ collect(c) \/ restore(c)
  /\ UNCHANGED <<coroutine, answer>>

Next == \E c \in Calls : Coroutine(c) \/ Thread(c)

Spec == Init /\ [][Next]_vars

(* The event loop resumes a coroutine or fires the timer of its wait_for.  *)
(* Nothing is assumed of the threads: the code they run may loop for ever. *)
FairSpec ==
  Spec /\ \A c \in Calls : WF_vars(coroutine[c] = "awaiting" /\ Coroutine(c))

-----------------------------------------------------------------------------
(* Properties *)

OutputType == [error : Error, lines : Seq(Calls)]

TypeOK ==
  /\ coroutine \in [Calls -> {"idle", "awaiting", "answered"}]
  /\ answer \in [Calls -> OutputType]
  /\ job \in [Calls -> {"none", "queued", "cancelled", "saved", "running",
                        "collected", "finished"}]
  /\ old \in [Calls -> Calls \cup {"console"}]
  /\ buffer \in [Calls -> Seq(Calls)]
  /\ outcome \in [Calls -> OutputType]
  /\ stdout \in Calls \cup {"console"}
  /\ printed \in [Calls -> 0..MaxPrints]
  /\ overlapped \subseteq Calls
  /\ Cardinality({c \in Calls : Active(c)}) <= Workers

(* docs/tools.md:120: a call that answers with output gives exactly the    *)
(* lines its own code printed, provided that no other execution overlapped *)
(* it, one that had timed out before included.                             *)
OutputIsOwn ==
  \A c \in Calls :
    coroutine[c] = "answered" /\ answer[c].error # "timeout"
      /\ job[c] = "finished" /\ c \notin overlapped
      => answer[c].lines = [i \in 1..printed[c] |-> c]

(* When no execution is active, sys.stdout is the console again, whether   *)
(* the code returned, raised, or went on after its timeout; only an        *)
(* execution that overlapped another leaves its dead buffer there.         *)
ConsoleIsBack ==
  (\A c \in Calls : ~Active(c)) => stdout \in overlapped \cup {"console"}

(* docs/tools.md:111: a call that was answered with a timeout before a worker  *)
(* took its code never executes it afterwards.                             *)
WithdrawnNeverRuns ==
  [][\A c \in Calls :
       coroutine[c] = "answered" /\ job[c] \in {"none", "queued", "cancelled"}
         => job'[c] = job[c]]_vars

(* Every call is answered although the threads of the pool may hang and    *)
(* keep all workers busy.                                                  *)
EveryCallAnswered ==
  \A c \in Calls : coroutine[c] = "awaiting" ~> coroutine[c] = "answered"
=============================================================================
