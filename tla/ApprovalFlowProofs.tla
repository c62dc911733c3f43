------------------------- MODULE ApprovalFlowProofs -------------------------
(***************************************************************************)
(* Theorems about ApprovalFlow, for any number of requests, of failing     *)
(* database calls and of restarts, and whether clients wait or not.        *)
(***************************************************************************)
EXTENDS ApprovalFlow, TLAPS

Runners == {Run} \cup Approvers

Reply == {"none", "200", "404", "500", "lost"}

(* A request that is about to write a status has one to write.             *)
ResultInv ==
  \A h \in Handlers : pc[h] \in {"persist", "mark", "update"} => result[h] # "none"

LEMMA Kinds ==
  /\ Run \in Handlers
  /\ Runners \subseteq Handlers
  /\ Deciders \subseteq Handlers
  /\ Approvers \subseteq Deciders /\ Cancellers \subseteq Deciders
BY DEF Handlers, Deciders, Runners

(* A database call touches the session of its request, the fault budget    *)
(* and the history of what was lost.                                       *)
LEMMA CallTypes ==
  ASSUME TypeOK, NEW h \in Handlers,
         \/ Succeeds(h) \/ FlushFails(h) \/ StatementFails(h) \/ CannotEncode(h)
  PROVE  /\ poisoned' \in [Handlers -> BOOLEAN] /\ faults' \in 0..MaxFaults
         /\ lost' \subseteq Handlers
<1>0. lost' \subseteq Handlers
  BY DEF Succeeds, FlushFails, StatementFails, CannotEncode, Loses, TypeOK
<1>1. /\ poisoned \in [Handlers -> BOOLEAN]
      /\ faults \in 0..MaxFaults /\ MaxFaults \in Nat
  BY FlowAssumption DEF TypeOK
<1>2. ASSUME UNCHANGED <<poisoned, faults>>
      PROVE  poisoned' \in [Handlers -> BOOLEAN] /\ faults' \in 0..MaxFaults
  BY <1>1, <1>2
<1>3. ASSUME faults < MaxFaults, faults' = faults + 1,
             poisoned' \in {poisoned, [poisoned EXCEPT ![h] = TRUE]}
      PROVE  poisoned' \in [Handlers -> BOOLEAN] /\ faults' \in 0..MaxFaults
  <2>1. faults' \in 0..MaxFaults  BY <1>1, <1>3
  <2>2. poisoned' \in [Handlers -> BOOLEAN]  BY <1>1, <1>3, Zenon
  <2>. QED  BY <2>1, <2>2
<1>. QED
  BY <1>0, <1>2, <1>3 DEF Succeeds, FlushFails, StatementFails, CannotEncode

LEMMA MoveTypes ==
  ASSUME TypeOK, NEW h \in Handlers
  PROVE  /\ \A l \in Location : Goto(h, l) => pc' \in [Handlers -> Location]
         /\ \A c \in Reply : Answer(h, c) =>
              /\ pc' \in [Handlers -> Location]
              /\ reply' \in [Handlers -> Reply]
BY DEF TypeOK, Goto, Answer, Location, Reply

LEMMA StepTypes ==
  ASSUME TypeOK, ResultInv, [Next]_vars
  PROVE  TypeOK'
<1> USE Kinds DEF Final, Decided, Reply
<1>0. \A l \in {"idle", "graph", "answer", "persist", "mark", "update",
                "decide", "resume", "cancel", "done"} : l \in Location
  BY DEF Location
<1>1. CASE create_run
  BY <1>0, <1>1, CallTypes, MoveTypes DEF create_run, TypeOK
<1>2. CASE ask_for_approval
  BY <1>0, <1>2, MoveTypes DEF ask_for_approval, tables, TypeOK
<1>3. CASE create_approval
  BY <1>0, <1>3, CallTypes, MoveTypes DEF create_approval, TypeOK
<1>4. CASE mark_waiting
  BY <1>0, <1>4, CallTypes, MoveTypes DEF mark_waiting, TypeOK
<1>5. ASSUME NEW h \in Runners, execute_tool(h) PROVE TypeOK'
  BY <1>0, <1>5, MoveTypes DEF execute_tool, LeaveTool, tables, TypeOK
<1>6. ASSUME NEW h \in Runners, end_graph(h) PROVE TypeOK'
  BY <1>0, <1>6, MoveTypes DEF end_graph, tables, TypeOK
<1>7. ASSUME NEW h \in Runners, lose_event(h) PROVE TypeOK'
  BY <1>7, CallTypes DEF lose_event, tables, TypeOK
<1>8. CASE crash
  BY <1>8, FlowAssumption DEF crash, tables, TypeOK, Location
<1>9. ASSUME NEW h \in Runners, update_run(h) PROVE TypeOK'
  <2>1. runStatus' \in {"absent", "pending", "waiting_approval"} \cup Final
    BY <1>9 DEF update_run, TypeOK, ResultInv
  <2>2. \E c \in Reply : Answer(h, c)
    BY <1>9 DEF update_run
  <2>. QED  BY <1>9, <2>1, <2>2, CallTypes, MoveTypes DEF update_run, TypeOK
<1>10. ASSUME NEW h \in Deciders, get_pending_approval(h) PROVE TypeOK'
  BY <1>0, <1>10, CallTypes, MoveTypes DEF get_pending_approval, tables, TypeOK
<1>11. ASSUME NEW a \in Approvers, approve_request(a) PROVE TypeOK'
  BY <1>0, <1>11, CallTypes, MoveTypes DEF approve_request, ApproveRefused, TypeOK
<1>12. ASSUME NEW c \in Cancellers, deny_request(c) PROVE TypeOK'
  BY <1>0, <1>12, CallTypes, MoveTypes DEF deny_request, TypeOK
<1>13. ASSUME NEW c \in Cancellers, cancel_update(c) PROVE TypeOK'
  BY <1>13, CallTypes, MoveTypes
  DEF cancel_update, MarksCancelled, KeepDenied, TypeOK
<1>14. CASE UNCHANGED vars
  BY <1>14 DEF vars, tables, TypeOK
<1>. QED
  BY <1>1, <1>2, <1>3, <1>4, <1>5, <1>6, <1>7, <1>8, <1>9, <1>10, <1>11,
     <1>12, <1>13, <1>14
  DEF Next, RunStep, ApproveStep, CancelStep, Runners

LEMMA ResultStep ==
  ASSUME TypeOK, ResultInv, [Next]_vars
  PROVE  ResultInv'
<1> USE Kinds DEF ResultInv
<1>0. /\ pc \in [Handlers -> Location]
      /\ result \in [Handlers -> {"none", "waiting_approval", "completed",
                                  "failed"}]
  BY DEF TypeOK
<1>1. CASE create_run
  BY <1>0, <1>1 DEF create_run, Goto, Answer
<1>2. CASE ask_for_approval
  BY <1>0, <1>2 DEF ask_for_approval, Goto
<1>3. CASE create_approval
  BY <1>0, <1>3 DEF create_approval, Goto
<1>4. CASE mark_waiting
  BY <1>0, <1>4 DEF mark_waiting, Goto
<1>5. ASSUME NEW h \in Runners, execute_tool(h) PROVE ResultInv'
  BY <1>0, <1>5 DEF execute_tool, LeaveTool, Goto
<1>6. ASSUME NEW h \in Runners, end_graph(h) PROVE ResultInv'
  BY <1>0, <1>6 DEF end_graph, Goto
<1>7. ASSUME NEW h \in Runners, lose_event(h) PROVE ResultInv'
  BY <1>0, <1>7 DEF lose_event
<1>8. CASE crash
  BY <1>0, <1>8 DEF crash
<1>9. ASSUME NEW h \in Runners, update_run(h) PROVE ResultInv'
  BY <1>0, <1>9 DEF update_run, Answer, Goto
<1>10. ASSUME NEW h \in Deciders, get_pending_approval(h) PROVE ResultInv'
  BY <1>0, <1>10 DEF get_pending_approval, Goto, Answer
<1>11. ASSUME NEW a \in Approvers, approve_request(a) PROVE ResultInv'
  BY <1>0, <1>11 DEF approve_request, ApproveRefused, Goto, Answer
<1>12. ASSUME NEW c \in Cancellers, deny_request(c) PROVE ResultInv'
  BY <1>0, <1>12 DEF deny_request, Goto, Answer
<1>13. ASSUME NEW c \in Cancellers, cancel_update(c) PROVE ResultInv'
  BY <1>0, <1>13 DEF cancel_update, Goto, Answer
<1>14. CASE UNCHANGED vars
  BY <1>14 DEF vars
<1>. QED
  BY <1>1, <1>2, <1>3, <1>4, <1>5, <1>6, <1>7, <1>8, <1>9, <1>10, <1>11,
     <1>12, <1>13, <1>14
  DEF Next, RunStep, ApproveStep, CancelStep, Runners

(* Every state is well formed; in particular what a request writes into    *)
(* agent_runs is a status.                                                 *)
THEOREM TypeCorrect == Spec => []TypeOK
<1>1. Init => TypeOK /\ ResultInv
  BY FlowAssumption DEF Init, TypeOK, ResultInv, Location
<1>2. TypeOK /\ ResultInv /\ [Next]_vars => TypeOK' /\ ResultInv'
  BY StepTypes, ResultStep
<1>. QED  BY <1>1, <1>2, PTL DEF Spec

-----------------------------------------------------------------------------
(* What a request may rely on between its awaits *)

(* The approval request exists once the run has asked, and not where the   *)
(* run may execute the tool without asking; it is decided when a request   *)
(* goes past its decision; and who has executed the tool went past it.     *)
DecisionInv ==
  /\ pc[Run] \notin {"decide", "resume", "cancel"}
  /\ pc[Run] \in {"idle", "graph", "answer", "persist"} => approval = "none"
  /\ \A a \in Approvers :
       /\ pc[a] \in {"idle", "decide", "resume", "answer", "update", "done"}
       /\ pc[a] = "decide" => approval # "none"
       /\ pc[a] \in {"resume", "answer", "update"} => approval \in Decided
       /\ pc[a] \in {"idle", "decide", "resume"} => exec[a] = 0
       /\ exec[a] # 0 => exec[a] = 1 /\ approval \in Decided
  /\ \A c \in Cancellers :
       /\ pc[c] \in {"idle", "decide", "cancel", "done"}
       /\ pc[c] = "decide" => approval # "none"
       /\ pc[c] = "cancel" => approval \in Decided

LEMMA Apart ==
  /\ \A h \in Deciders : h # Run
  /\ \A a \in Approvers, c \in Cancellers : a # c
BY FlowAssumption DEF Deciders

LEMMA DecisionStep ==
  ASSUME TypeOK, DecisionInv, [Next]_vars
  PROVE  DecisionInv' /\ (approval \in Decided => approval' \in Decided)
<1> DEFINE Goal == DecisionInv' /\ (approval \in Decided => approval' \in Decided)
<1> USE Kinds, Apart DEF DecisionInv, Decided
<1>0. /\ pc \in [Handlers -> Location]
      /\ reply \in [Handlers -> Reply]
      /\ exec \in [Handlers -> Nat]
  BY DEF TypeOK, Reply
<1>1. CASE create_run
  BY <1>0, <1>1 DEF create_run, MayStart, Goto, Answer
<1>2. CASE ask_for_approval
  BY <1>0, <1>2 DEF ask_for_approval, Goto, tables
<1>3. CASE create_approval
  BY <1>0, <1>3 DEF create_approval, Goto
<1>4. CASE mark_waiting
  BY <1>0, <1>4 DEF mark_waiting, Goto
<1>5. ASSUME NEW h \in Runners, execute_tool(h) PROVE Goal
  <2>1. CASE h = Run
    BY <1>0, <1>5, <2>1 DEF execute_tool, LeaveTool, Goto, tables
  <2>2. CASE h \in Approvers
    BY <1>0, <1>5, <2>2 DEF execute_tool, LeaveTool, Goto, tables
  <2>. QED  BY <2>1, <2>2 DEF Runners
<1>6. ASSUME NEW h \in Runners, end_graph(h) PROVE Goal
  <2>1. CASE h = Run
    BY <1>0, <1>6, <2>1 DEF end_graph, Goto, tables
  <2>2. CASE h \in Approvers
    BY <1>0, <1>6, <2>2 DEF end_graph, Goto, tables
  <2>. QED  BY <2>1, <2>2 DEF Runners
<1>7. ASSUME NEW h \in Runners, lose_event(h) PROVE Goal
  BY <1>0, <1>7 DEF lose_event, tables
<1>8. CASE crash
  BY <1>0, <1>8 DEF crash, tables, InFlight
<1>9. ASSUME NEW h \in Runners, update_run(h) PROVE Goal
  <2>1. CASE h = Run
    BY <1>0, <1>9, <2>1 DEF update_run, Answer, Goto
  <2>2. CASE h \in Approvers
    BY <1>0, <1>9, <2>2 DEF update_run, Answer, Goto
  <2>. QED  BY <2>1, <2>2 DEF Runners
<1>10. ASSUME NEW h \in Deciders, get_pending_approval(h) PROVE Goal
  <2>1. CASE h \in Approvers
    BY <1>0, <1>10, <2>1
    DEF get_pending_approval, MayStart, IsPending, Goto, Answer, tables
  <2>2. CASE h \in Cancellers
    BY <1>0, <1>10, <2>2
    DEF get_pending_approval, MayStart, IsPending, Goto, Answer, tables
  <2>. QED  BY <2>1, <2>2 DEF Deciders
<1>11. ASSUME NEW a \in Approvers, approve_request(a) PROVE Goal
  BY <1>0, <1>11 DEF approve_request, ApproveRefused, Goto, Answer
<1>12. ASSUME NEW c \in Cancellers, deny_request(c) PROVE Goal
  BY <1>0, <1>12 DEF deny_request, Goto, Answer
<1>13. ASSUME NEW c \in Cancellers, cancel_update(c) PROVE Goal
  BY <1>0, <1>13 DEF cancel_update, KeepDenied, Goto, Answer
<1>14. CASE UNCHANGED vars
  BY <1>14 DEF vars, tables
<1>. QED
  BY <1>1, <1>2, <1>3, <1>4, <1>5, <1>6, <1>7, <1>8, <1>9, <1>10, <1>11,
     <1>12, <1>13, <1>14
  DEF Next, RunStep, ApproveStep, CancelStep, Runners

LEMMA DecisionCorrect == Spec => []DecisionInv
<1>1. Init => DecisionInv
  BY Kinds DEF Init, DecisionInv
<1>2. TypeOK /\ DecisionInv /\ [Next]_vars => DecisionInv'
  BY DecisionStep
<1>. QED  BY <1>1, <1>2, TypeCorrect, PTL DEF Spec

(* While the approval request is missing or pending no approve request     *)
(* has executed the tool, however many there are and however they overlap. *)
THEOREM PendingIsNeverExecuted == Spec => []PendingNeverExecuted
<1>1. DecisionInv => PendingNeverExecuted
  BY DEF DecisionInv, PendingNeverExecuted
<1>. QED  BY <1>1, DecisionCorrect, PTL

(* A request that has not reached the tool has not executed it, one that   *)
(* is in flight has not been answered, and one that has executed the tool  *)
(* is answered by its update, whatever the update itself comes to.         *)
Told(h) ==
  \/ reply[h] \in {"none", "200", "lost"}
  \/ reply[h] = "500" /\ HasResult(h)

AnswerInv ==
  \A h \in Runners :
    /\ pc[h] \in {"idle", "graph", "decide", "resume"} => exec[h] = 0
    /\ pc[h] # "done" => reply[h] = "none"
    /\ exec[h] # 0 => exec[h] = 1 /\ Told(h)

LEMMA AnswerStep ==
  ASSUME TypeOK, DecisionInv, AnswerInv, [Next]_vars
  PROVE  AnswerInv'
<1> USE Kinds, Apart DEF AnswerInv, Told, HasResult, Runners
<1>0. /\ pc \in [Handlers -> Location]
      /\ reply \in [Handlers -> Reply]
      /\ exec \in [Handlers -> Nat]
      /\ result \in [Handlers -> {"none", "waiting_approval", "completed",
                                  "failed"}]
  BY DEF TypeOK, Reply
<1>1. CASE create_run
  BY <1>0, <1>1 DEF create_run, MayStart, Goto, Answer
<1>2. CASE ask_for_approval
  BY <1>0, <1>2 DEF ask_for_approval, Goto
<1>3. CASE create_approval
  BY <1>0, <1>3 DEF create_approval, Goto
<1>4. CASE mark_waiting
  BY <1>0, <1>4 DEF mark_waiting, Goto
<1>5. ASSUME NEW h \in Runners, execute_tool(h) PROVE AnswerInv'
  BY <1>0, <1>5 DEF execute_tool, LeaveTool, Goto
<1>6. ASSUME NEW h \in Runners, end_graph(h) PROVE AnswerInv'
  BY <1>0, <1>6 DEF end_graph, Goto
<1>7. ASSUME NEW h \in Runners, lose_event(h) PROVE AnswerInv'
  BY <1>0, <1>7 DEF lose_event
<1>8. CASE crash
  BY <1>0, <1>8 DEF crash, InFlight
<1>9. ASSUME NEW h \in Runners, update_run(h) PROVE AnswerInv'
  BY <1>0, <1>9 DEF update_run, HasResult, Goto, Answer
<1>10. ASSUME NEW h \in Deciders, get_pending_approval(h) PROVE AnswerInv'
  BY <1>0, <1>10 DEF get_pending_approval, MayStart, Goto, Answer
<1>11. ASSUME NEW a \in Approvers, approve_request(a) PROVE AnswerInv'
  BY <1>0, <1>11 DEF approve_request, ApproveRefused, Goto, Answer
<1>12. ASSUME NEW c \in Cancellers, deny_request(c) PROVE AnswerInv'
  BY <1>0, <1>12 DEF deny_request, Goto, Answer
<1>13. ASSUME NEW c \in Cancellers, cancel_update(c) PROVE AnswerInv'
  BY <1>0, <1>13 DEF cancel_update, Goto, Answer
<1>14. CASE UNCHANGED vars
  BY <1>14 DEF vars
<1>. QED
  BY <1>1, <1>2, <1>3, <1>4, <1>5, <1>6, <1>7, <1>8, <1>9, <1>10, <1>11,
     <1>12, <1>13, <1>14
  DEF Next, RunStep, ApproveStep, CancelStep

(* Who was answered 404 has not executed the tool; who was answered 500    *)
(* has only if the graph completed and the answer could not be built from  *)
(* its result; and nobody executes it twice. Lost writes, results that     *)
(* cannot be encoded and restarts are all allowed for.                     *)
THEOREM ExecutionsAnswered == Spec => []ExecutionsAreAnswered
<1>1. Init => AnswerInv
  BY Kinds DEF Init, AnswerInv, Runners
<1>2. TypeOK /\ DecisionInv /\ AnswerInv /\ [Next]_vars => AnswerInv'
  BY AnswerStep
<1>3. TypeOK /\ AnswerInv => ExecutionsAreAnswered
  BY Kinds DEF TypeOK, AnswerInv, Told, Runners, ExecutionsAreAnswered
<1>. QED  BY <1>1, <1>2, <1>3, TypeCorrect, DecisionCorrect, PTL DEF Spec

LEMMA Moves ==
  ASSUME TypeOK, NEW h \in Handlers, NEW l, Goto(h, l)
  PROVE  /\ pc'[h] = l
         /\ \A g \in Handlers \ {h} : pc'[g] = pc[g]
BY DEF TypeOK, Goto

(* Only the lookup lets a request in, and it finds a decided one no more.  *)
LEMMA TurnedAwayStep ==
  ASSUME TypeOK, DecisionInv, [Next]_vars, approval \in Decided,
         NEW d \in Deciders, pc[d] = "idle"
  PROVE  pc'[d] \in {"idle", "done"}
<1> USE Kinds, Apart DEF Decided
<1>1. ASSUME NEW h \in Handlers, pc[h] # "idle", NEW l, Goto(h, l)
      PROVE  pc'[d] = "idle"
  <2>1. h # d  BY <1>1
  <2>. QED  BY <1>1, <2>1, Moves
<1>2. CASE create_run
  BY <1>2, Moves DEF create_run, Answer
<1>3. CASE ask_for_approval \/ create_approval \/ mark_waiting
  BY <1>1, <1>3 DEF ask_for_approval, create_approval, mark_waiting
<1>4. ASSUME NEW h \in Runners,
             execute_tool(h) \/ end_graph(h) \/ update_run(h)
      PROVE  pc'[d] = "idle"
  <2>1. pc[h] # "idle"
    BY <1>4 DEF execute_tool, end_graph, update_run
  <2>. QED
    BY <1>1, <1>4, <2>1
    DEF execute_tool, LeaveTool, end_graph, update_run, Answer
<1>5. ASSUME NEW h \in Runners, lose_event(h) PROVE pc'[d] = "idle"
  BY <1>5 DEF lose_event
<1>6. CASE crash
  BY <1>6 DEF crash, InFlight
<1>7. ASSUME NEW h \in Deciders, get_pending_approval(h)
      PROVE  pc'[d] \in {"idle", "done"}
  <2>1. Goto(h, "done")
    BY <1>7 DEF get_pending_approval, IsPending, Answer
  <2>. QED  BY <2>1, Moves
<1>8. ASSUME NEW a \in Approvers, approve_request(a) PROVE pc'[d] = "idle"
  BY <1>1, <1>8 DEF approve_request, ApproveRefused, Answer
<1>9. ASSUME NEW c \in Cancellers, deny_request(c) \/ cancel_update(c)
      PROVE  pc'[d] = "idle"
  BY <1>1, <1>9 DEF deny_request, cancel_update, Answer
<1>10. CASE UNCHANGED vars
  BY <1>10 DEF vars
<1>. QED
  BY <1>2, <1>3, <1>4, <1>5, <1>6, <1>7, <1>8, <1>9, <1>10
  DEF Next, RunStep, ApproveStep, CancelStep, Runners

(* No step of any request, failure or restart makes a decided request      *)
(* pending again, and no request that comes after the decision passes the  *)
(* lookup. Decisions that overlap may still overwrite each other.          *)
THEOREM DecisionsLast == Spec => DecidedForever
<1>1. TypeOK /\ DecisionInv /\ [Next]_vars => [DecisionStands]_vars
  BY DecisionStep, TurnedAwayStep DEF DecisionStands, TurnedAway
<1>. QED  BY <1>1, TypeCorrect, DecisionCorrect, PTL DEF Spec, DecidedForever

-----------------------------------------------------------------------------
(* Decisions that do not overlap keep the contract *)

(* No two requests are between reading the approval request and writing    *)
(* their decision on it. The code does not see to this; a lock on the row  *)
(* from the read to the write would, and so do clients that wait for each  *)
(* answer.                                                                 *)
Exclusive ==
  \A d, e \in Deciders : pc[d] = "decide" /\ pc[e] = "decide" => d = e

(* What a decision has read is then still so when it is written, so only   *)
(* one approval ever resumes the graph, and finds the tool not executed.   *)
ExclusiveInv ==
  /\ pc[Run] \in {"idle", "graph", "persist"} => exec[Run] = 0
  /\ exec[Run] # 0 => exec[Run] = 1 /\ approval = "none"
  /\ \A c \in Cancellers : exec[c] = 0
  /\ \A d \in Deciders : pc[d] = "decide" => approval = "pending"
  /\ \A a \in Approvers :
       /\ pc[a] \in {"resume", "answer"} => approval = "approved"
       /\ pc[a] = "resume" => \A h \in Handlers : exec[h] = 0
  /\ \A a, b \in Approvers :
       pc[a] \in {"resume", "answer"} /\ pc[b] \in {"resume", "answer"} => a = b

LEMMA ExclusiveStep ==
  ASSUME Exclusive, TypeOK, DecisionInv, ExclusiveInv, [Next]_vars
  PROVE  ExclusiveInv'
<1> USE Kinds, Apart
<1>0. exec \in [Handlers -> Nat]
  BY DEF TypeOK
<1>1. CASE create_run
  <2>1. PICK l \in {"graph", "done"} : Goto(Run, l)
    BY <1>1 DEF create_run, Answer
  <2>2. UNCHANGED <<approval, exec>> /\ pc[Run] = "idle"
    BY <1>1 DEF create_run, MayStart
  <2>. QED  BY <2>1, <2>2, Moves DEF ExclusiveInv
<1>2. CASE ask_for_approval
  <2>1. /\ pc[Run] = "graph" /\ Goto(Run, "persist")
        /\ UNCHANGED <<approval, exec>>
    BY <1>2 DEF ask_for_approval, tables
  <2>. QED  BY <2>1, Moves DEF ExclusiveInv
<1>3. CASE create_approval
  <2>1. PICK l \in {"mark", "update"} : Goto(Run, l)
    BY <1>3 DEF create_approval
  <2>2. /\ pc[Run] = "persist" /\ exec' = exec
        /\ approval' \in {approval, "pending"}
    BY <1>3 DEF create_approval
  <2>3. approval = "none"  BY <2>2 DEF DecisionInv
  <2>. QED  BY <2>1, <2>2, <2>3, Moves DEF ExclusiveInv
<1>4. CASE mark_waiting
  <2>1. /\ pc[Run] = "mark" /\ Goto(Run, "update")
        /\ UNCHANGED <<approval, exec>>
    BY <1>4 DEF mark_waiting
  <2>. QED  BY <2>1, Moves DEF ExclusiveInv
<1>5. ASSUME NEW h \in Runners, execute_tool(h) PROVE ExclusiveInv'
  <2>1. /\ pc[h] \in {"graph", "resume"} /\ Goto(h, "answer")
        /\ approval' = approval
        /\ exec' = [exec EXCEPT ![h] = @ + 1]
    BY <1>5 DEF execute_tool, LeaveTool, tables
  <2>2. CASE h = Run
    BY <1>0, <2>1, <2>2, Moves DEF ExclusiveInv, DecisionInv
  <2>3. CASE h \in Approvers
    <3>1. pc[h] = "resume" /\ approval = "approved"
      BY <2>1, <2>3 DEF ExclusiveInv, DecisionInv
    <3>. QED  BY <1>0, <2>1, <2>3, <3>1, Moves DEF ExclusiveInv, DecisionInv
  <2>. QED  BY <2>2, <2>3 DEF Runners
<1>6. ASSUME NEW h \in Runners, end_graph(h) PROVE ExclusiveInv'
  <2>1. Goto(h, "update") /\ UNCHANGED <<approval, exec>>
    BY <1>6 DEF end_graph, tables
  <2>. QED  BY <2>1, Moves DEF ExclusiveInv
<1>7. ASSUME NEW h \in Runners, lose_event(h) PROVE ExclusiveInv'
  BY <1>7 DEF lose_event, tables, ExclusiveInv
<1>8. CASE crash
  <2>1. /\ UNCHANGED <<approval, exec>>
        /\ \A h \in Handlers : pc'[h] \in {pc[h], "done"}
    BY <1>8 DEF crash, tables
  <2>. QED  BY <2>1 DEF ExclusiveInv
<1>9. ASSUME NEW h \in Runners, update_run(h) PROVE ExclusiveInv'
  <2>1. Goto(h, "done") /\ UNCHANGED <<approval, exec>>
    BY <1>9 DEF update_run, Answer
  <2>. QED  BY <2>1, Moves DEF ExclusiveInv
<1>10. ASSUME NEW h \in Deciders, get_pending_approval(h) PROVE ExclusiveInv'
  <2>1. /\ UNCHANGED <<approval, exec>>
        /\ \/ approval = "pending" /\ Goto(h, "decide")
           \/ Goto(h, "done")
    BY <1>10 DEF get_pending_approval, IsPending, Answer, tables
  <2>. QED  BY <2>1, Moves DEF ExclusiveInv
<1>11. ASSUME NEW a \in Approvers, approve_request(a) PROVE ExclusiveInv'
  <2>1. /\ pc[a] = "decide" /\ exec' = exec
        /\ \/ approval' = "approved" /\ Goto(a, "resume")
           \/ approval' = approval /\ Goto(a, "done")
    BY <1>11 DEF approve_request, ApproveRefused, Answer
  <2>2. /\ approval = "pending" /\ exec[Run] = 0
        /\ \A d \in Deciders \ {a} : pc[d] # "decide"
    BY <2>1 DEF Exclusive, ExclusiveInv
  <2>3. \A h \in Handlers : exec[h] = 0
    BY <2>2 DEF ExclusiveInv, DecisionInv, Decided, Handlers, Deciders
  <2>. QED  BY <2>1, <2>2, <2>3, Moves DEF ExclusiveInv
<1>12. ASSUME NEW c \in Cancellers, deny_request(c) PROVE ExclusiveInv'
  <2>1. /\ pc[c] = "decide" /\ exec' = exec
        /\ \/ approval' = "denied" /\ Goto(c, "cancel")
           \/ approval' = approval /\ Goto(c, "done")
    BY <1>12 DEF deny_request, Answer
  <2>2. /\ approval = "pending"
        /\ \A d \in Deciders \ {c} : pc[d] # "decide"
    BY <2>1 DEF Exclusive, ExclusiveInv
  <2>. QED  BY <2>1, <2>2, Moves DEF ExclusiveInv
<1>13. ASSUME NEW c \in Cancellers, cancel_update(c) PROVE ExclusiveInv'
  <2>1. Goto(c, "done") /\ UNCHANGED <<approval, exec>>
    BY <1>13 DEF cancel_update, KeepDenied, Answer
  <2>. QED  BY <2>1, Moves DEF ExclusiveInv
<1>14. CASE UNCHANGED vars
  BY <1>14 DEF vars, tables, ExclusiveInv
<1>. QED
  BY <1>1, <1>2, <1>3, <1>4, <1>5, <1>6, <1>7, <1>8, <1>9, <1>10, <1>11,
     <1>12, <1>13, <1>14
  DEF Next, RunStep, ApproveStep, CancelStep, Runners

LEMMA ExclusiveCorrect == Spec /\ []Exclusive => []ExclusiveInv
<1>1. Init => ExclusiveInv
  BY Kinds, Apart DEF Init, ExclusiveInv
<1>2. Exclusive /\ TypeOK /\ DecisionInv /\ ExclusiveInv /\ [Next]_vars
        => ExclusiveInv'
  BY ExclusiveStep
<1>. QED  BY <1>1, <1>2, TypeCorrect, DecisionCorrect, PTL DEF Spec

(* The state of the contract that a state of the handlers stands for.      *)
Working == \/ pc[Run] \in {"idle", "graph", "answer", "persist"}
           \/ \E a \in Approvers : pc[a] \in {"resume", "answer"}

Phase == IF Working THEN "working"
         ELSE IF approval = "pending" THEN "waiting" ELSE "over"

Executed == IF Executions = {} THEN 0
            ELSE IF \A g, h \in Executions : g = h /\ exec[h] = 1
            THEN 1 ELSE 2

ContractMove == Contract!ContractNext \/ UNCHANGED <<Phase, approval, Executed>>

LEMMA StutterMoves ==
  ASSUME Working' <=> Working, UNCHANGED <<approval, exec>>
  PROVE  UNCHANGED <<Phase, approval, Executed>>
BY DEF Phase, Executed, Executions

LEMMA FinishMoves ==
  ASSUME Working, ~Working', UNCHANGED <<approval, exec>>, approval # "pending"
  PROVE  Contract!ContractNext
BY DEF Contract!ContractNext, Contract!Finish, Working, Executions

LEMMA AskMoves ==
  ASSUME Working, ~Working', approval = "none", approval' = "pending",
         exec' = exec, \A h \in Handlers : exec[h] = 0
  PROVE  Contract!ContractNext
BY DEF Contract!ContractNext, Contract!Ask, Working, Executions

LEMMA ApproveMoves ==
  ASSUME ~Working, Working', approval = "pending", approval' = "approved",
         exec' = exec
  PROVE  Contract!ContractNext
BY DEF Contract!ContractNext, Contract!Approve, Working, Executions

LEMMA DenyMoves ==
  ASSUME ~Working, ~Working', approval = "pending", approval' = "denied",
         exec' = exec
  PROVE  Contract!ContractNext
BY DEF Contract!ContractNext, Contract!Deny, Working, Executions

LEMMA ExecuteMoves ==
  ASSUME TypeOK, Working, Working', approval' = approval,
         approval \in {"none", "approved"},
         \A h \in Handlers : exec[h] = 0,
         NEW h \in Handlers, exec' = [exec EXCEPT ![h] = @ + 1]
  PROVE  Contract!ContractNext
<1>1. Executions = {}
  BY DEF Executions
<1>2. \A g \in Handlers : exec'[g] = IF g = h THEN 1 ELSE 0
  BY DEF TypeOK
<1>3. Executions' = {h}
  BY <1>2 DEF Executions
<1>. QED
  BY <1>1, <1>2, <1>3 DEF Contract!ContractNext, Contract!Execute, Working

(* Whose work it is follows from the approval request.                     *)
LEMMA WhoWorks ==
  ASSUME DecisionInv, ExclusiveInv
  PROVE  /\ approval = "none" =>
              (Working <=> pc[Run] \in {"idle", "graph", "answer", "persist"})
         /\ approval \in {"pending", "denied"} => ~Working
         /\ approval = "approved" =>
              (Working <=> \E a \in Approvers : pc[a] \in {"resume", "answer"})
BY DEF DecisionInv, ExclusiveInv, Working

LEMMA ContractStep ==
  ASSUME Exclusive, TypeOK, DecisionInv, ExclusiveInv, [Next]_vars
  PROVE  ContractMove
<1> USE Kinds, Apart
<1>0. DecisionInv' /\ ExclusiveInv'
  BY DecisionStep, ExclusiveStep
<1>1. CASE create_run
  <2>1. PICK l \in {"graph", "done"} : Goto(Run, l)
    BY <1>1 DEF create_run, Answer
  <2>2. UNCHANGED <<approval, exec>> /\ pc[Run] = "idle"
    BY <1>1 DEF create_run, MayStart
  <2>3. approval = "none" /\ Working
    BY <2>2 DEF DecisionInv, Working
  <2>4. Working' \/ ~Working'  OBVIOUS
  <2>. QED
    BY <2>2, <2>3, <2>4, StutterMoves, FinishMoves DEF ContractMove
<1>2. CASE ask_for_approval
  <2>1. /\ pc[Run] = "graph" /\ Goto(Run, "persist")
        /\ UNCHANGED <<approval, exec>>
    BY <1>2 DEF ask_for_approval, tables
  <2>2. Working /\ Working'
    BY <2>1, Moves DEF Working
  <2>. QED  BY <2>1, <2>2, StutterMoves DEF ContractMove
<1>3. CASE create_approval
  <2>1. \/ Goto(Run, "mark") /\ approval' = "pending"
        \/ Goto(Run, "update") /\ approval' = approval
    BY <1>3 DEF create_approval
  <2>2. pc[Run] = "persist" /\ exec' = exec
    BY <1>3 DEF create_approval
  <2>3. approval = "none" /\ Working
    BY <2>2 DEF DecisionInv, Working
  <2>4. \A h \in Handlers : exec[h] = 0
    BY <2>2, <2>3 DEF ExclusiveInv, DecisionInv, Decided, Handlers, Deciders
  <2>5. pc'[Run] \in {"mark", "update"}
        /\ \A a \in Approvers : pc'[a] = pc[a]
    BY <2>1, Moves
  <2>6. ~Working'
    BY <2>3, <2>5 DEF Working, ExclusiveInv
  <2>. QED
    BY <2>1, <2>2, <2>3, <2>4, <2>6, AskMoves, FinishMoves DEF ContractMove
<1>4. CASE mark_waiting
  <2>1. /\ pc[Run] = "mark" /\ Goto(Run, "update")
        /\ UNCHANGED <<approval, exec>>
    BY <1>4 DEF mark_waiting
  <2>2. Working' <=> Working
    BY <2>1, Moves DEF Working
  <2>. QED  BY <2>1, <2>2, StutterMoves DEF ContractMove
<1>5. ASSUME NEW h \in Runners, execute_tool(h) PROVE ContractMove
  <2>1. /\ pc[h] \in {"graph", "resume"} /\ Goto(h, "answer")
        /\ approval' = approval
        /\ exec' = [exec EXCEPT ![h] = @ + 1]
    BY <1>5 DEF execute_tool, LeaveTool, tables
  <2>2. /\ approval \in {"none", "approved"}
        /\ pc[h] = "graph" => h = Run
        /\ pc[h] = "resume" => h \in Approvers
    BY <2>1 DEF ExclusiveInv, DecisionInv, Runners
  <2>3. \A g \in Handlers : exec[g] = 0
    BY <2>1, <2>2 DEF ExclusiveInv, DecisionInv, Decided, Handlers, Deciders
  <2>4. Working /\ Working'
    BY <2>1, <2>2, Moves DEF Working, Runners
  <2>. QED  BY <2>1, <2>2, <2>3, <2>4, ExecuteMoves DEF ContractMove, Runners
<1>6. ASSUME NEW h \in Runners, end_graph(h) PROVE ContractMove
  <2>1. /\ pc[h] \in {"graph", "resume", "answer"} /\ Goto(h, "update")
        /\ UNCHANGED <<approval, exec>>
    BY <1>6 DEF end_graph, tables
  <2>2. /\ pc'[h] = "update"
        /\ \A g \in Handlers \ {h} : pc'[g] = pc[g]
    BY <2>1, Moves DEF Runners
  <2>3. Working /\ ~Working' /\ approval # "pending"
    <3>1. CASE h = Run
      <4>1. approval = "none"
        BY <2>1, <3>1 DEF ExclusiveInv, DecisionInv
      <4>. QED
        BY <2>1, <2>2, <3>1, <4>1 DEF Working, ExclusiveInv, DecisionInv
    <3>2. CASE h \in Approvers
      <4>1. pc[h] \in {"resume", "answer"} /\ approval = "approved"
        BY <2>1, <3>2 DEF ExclusiveInv, DecisionInv
      <4>. QED
        BY <2>2, <3>2, <4>1 DEF Working, ExclusiveInv, DecisionInv
    <3>. QED  BY <3>1, <3>2 DEF Runners
  <2>. QED  BY <2>1, <2>3, FinishMoves DEF ContractMove
<1>7. ASSUME NEW h \in Runners, lose_event(h) PROVE ContractMove
  BY <1>7, StutterMoves DEF lose_event, tables, Working, ContractMove
<1>8. CASE crash
  <2>1. /\ UNCHANGED <<approval, exec>>
        /\ \A h \in Handlers : pc'[h] = IF InFlight(h) THEN "done" ELSE pc[h]
    BY <1>8 DEF crash, tables
  <2>2. Working' => Working
    BY <2>1 DEF Working, InFlight
  <2>3. Working => approval # "pending"
    BY WhoWorks
  <2>. QED  BY <2>1, <2>2, <2>3, StutterMoves, FinishMoves DEF ContractMove
<1>9. ASSUME NEW h \in Runners, update_run(h) PROVE ContractMove
  <2>1. /\ pc[h] = "update" /\ Goto(h, "done")
        /\ UNCHANGED <<approval, exec>>
    BY <1>9 DEF update_run, Answer
  <2>2. Working' <=> Working
    BY <2>1, Moves DEF Working, Runners
  <2>. QED  BY <2>1, <2>2, StutterMoves DEF ContractMove
<1>10. ASSUME NEW h \in Deciders, get_pending_approval(h) PROVE ContractMove
  <2>1. /\ pc[h] = "idle" /\ UNCHANGED <<approval, exec>>
        /\ Goto(h, "decide") \/ Goto(h, "done")
    BY <1>10 DEF get_pending_approval, MayStart, Answer, tables
  <2>2. Working' <=> Working
    BY <2>1, Moves DEF Working
  <2>. QED  BY <2>1, <2>2, StutterMoves DEF ContractMove
<1>11. ASSUME NEW a \in Approvers, approve_request(a) PROVE ContractMove
  <2>1. /\ pc[a] = "decide" /\ exec' = exec
        /\ \/ approval' = "approved" /\ Goto(a, "resume")
           \/ approval' = approval /\ Goto(a, "done")
    BY <1>11 DEF approve_request, ApproveRefused, Answer
  <2>2. approval = "pending" /\ ~Working
    BY <2>1, WhoWorks DEF ExclusiveInv
  <2>3. CASE approval' = approval
    <3>1. ~Working'
      BY <1>0, <2>2, <2>3, WhoWorks DEF Working, ExclusiveInv, DecisionInv
    <3>. QED  BY <2>1, <2>2, <2>3, <3>1, StutterMoves DEF ContractMove
  <2>4. CASE approval' = "approved" /\ Goto(a, "resume")
    <3>1. Working'
      BY <2>4, Moves DEF Working
    <3>. QED  BY <2>1, <2>2, <2>4, <3>1, ApproveMoves DEF ContractMove
  <2>. QED  BY <2>1, <2>3, <2>4
<1>12. ASSUME NEW c \in Cancellers, deny_request(c) PROVE ContractMove
  <2>1. /\ pc[c] = "decide" /\ exec' = exec
        /\ approval' \in {"denied", approval}
    BY <1>12 DEF deny_request, Answer
  <2>2. approval = "pending" /\ ~Working
    BY <2>1, WhoWorks DEF ExclusiveInv
  <2>3. ~Working'
    BY <1>0, <2>1, <2>2 DEF Working, ExclusiveInv, DecisionInv
  <2>. QED  BY <2>1, <2>2, <2>3, StutterMoves, DenyMoves DEF ContractMove
<1>13. ASSUME NEW c \in Cancellers, cancel_update(c) PROVE ContractMove
  <2>1. /\ pc[c] = "cancel" /\ Goto(c, "done")
        /\ UNCHANGED <<approval, exec>>
    BY <1>13 DEF cancel_update, KeepDenied, Answer
  <2>2. Working' <=> Working
    BY <2>1, Moves DEF Working
  <2>. QED  BY <2>1, <2>2, StutterMoves DEF ContractMove
<1>14. CASE UNCHANGED vars
  BY <1>14, StutterMoves DEF vars, tables, Working, ContractMove
<1>. QED
  BY <1>1, <1>2, <1>3, <1>4, <1>5, <1>6, <1>7, <1>8, <1>9, <1>10, <1>11,
     <1>12, <1>13, <1>14
  DEF Next, RunStep, ApproveStep, CancelStep, Runners

(* As long as no two decisions overlap, the concurrent handlers, their     *)
(* failures and restarts included, implement RunContract: one decision per *)
(* request, at most one execution of the tool, none while the decision is  *)
(* outstanding or after a denial. What else overlaps does no harm: a       *)
(* decision may come while the run request is still being answered, and    *)
(* any number of requests may read the approval request.                   *)
THEOREM ExclusiveContract == Spec /\ []Exclusive => ImplementsContract
<1>1. Init => Contract!ContractInit
  BY Kinds DEF Init, Contract!ContractInit, Executions
<1>2. Exclusive /\ TypeOK /\ DecisionInv /\ ExclusiveInv /\ [Next]_vars
        => [Contract!ContractNext]_(Contract!contractVars)
  BY ContractStep
  DEF ContractMove, Contract!contractVars, Phase, Working, Executed
<1>. QED
  BY <1>1, <1>2, TypeCorrect, DecisionCorrect, ExclusiveCorrect, PTL
  DEF Spec, ImplementsContract, Contract!ContractSpec

-----------------------------------------------------------------------------
(* Clients that wait for each answer *)

OneInFlight == \A g, h \in Handlers : InFlight(g) /\ InFlight(h) => g = h

LEMMA SomeoneMoves ==
  ASSUME [Next]_vars
  PROVE  \/ UNCHANGED pc
         \/ crash
         \/ \E h \in Handlers : \E l \in Location :
              (InFlight(h) \/ MayStart(h)) /\ Goto(h, l)
<1> USE Kinds DEF InFlight
<1>0. \A l \in {"graph", "answer", "persist", "mark", "update", "decide",
                "resume", "cancel", "done"} : l \in Location
  BY DEF Location
<1>1. CASE RunStep
  BY <1>0, <1>1
  DEF RunStep, create_run, ask_for_approval, create_approval, mark_waiting,
      execute_tool, LeaveTool, end_graph, update_run, Answer
<1>2. ASSUME NEW a \in Approvers, ApproveStep(a)
      PROVE  \E h \in Handlers : \E l \in Location :
               (InFlight(h) \/ MayStart(h)) /\ Goto(h, l)
  BY <1>0, <1>2
  DEF ApproveStep, get_pending_approval, approve_request, ApproveRefused,
      execute_tool, LeaveTool, end_graph, update_run, Answer
<1>3. ASSUME NEW c \in Cancellers, CancelStep(c)
      PROVE  \E h \in Handlers : \E l \in Location :
               (InFlight(h) \/ MayStart(h)) /\ Goto(h, l)
  BY <1>0, <1>3
  DEF CancelStep, get_pending_approval, deny_request, cancel_update, Answer
<1>. QED  BY <1>1, <1>2, <1>3 DEF Next, lose_event, vars

LEMMA OneInFlightCorrect == ASSUME OneAtATime PROVE Spec => []OneInFlight
<1>1. Init => OneInFlight
  BY DEF Init, OneInFlight, InFlight
<1>2. TypeOK /\ OneInFlight /\ [Next]_vars => OneInFlight'
  <2> SUFFICES ASSUME TypeOK, OneInFlight, [Next]_vars
               PROVE  OneInFlight'
    OBVIOUS
  <2>1. CASE UNCHANGED pc
    BY <2>1 DEF OneInFlight, InFlight
  <2>2. CASE crash
    BY <2>2 DEF crash, OneInFlight, InFlight
  <2>3. ASSUME NEW h \in Handlers, NEW l \in Location,
               InFlight(h) \/ MayStart(h), Goto(h, l)
        PROVE  OneInFlight'
    <3>1. \A g \in Handlers \ {h} : ~InFlight(g)
      BY <2>3 DEF OneInFlight, MayStart, Quiet
    <3>2. \A g \in Handlers \ {h} : pc'[g] = pc[g]
      BY <2>3, Moves
    <3>. QED  BY <3>1, <3>2 DEF OneInFlight, InFlight
  <2>. QED  BY <2>1, <2>2, <2>3, SomeoneMoves
<1>. QED  BY <1>1, <1>2, TypeCorrect, PTL DEF Spec

(* Nobody writes a decision before the run request has been answered. The  *)
(* client hears of the approval request earlier than that, from its row    *)
(* and from the event, so the code does not see to this either.            *)
Late == InFlight(Run) => \A d \in Deciders : pc[d] # "decide"

LEMMA SerialIsExclusive == OneInFlight => Exclusive /\ Late
BY Kinds, Apart DEF OneInFlight, Exclusive, Late, InFlight

(* Clients that wait for each answer get the contract, since their         *)
(* decisions do not overlap.                                               *)
THEOREM SerialContract == ASSUME OneAtATime PROVE Spec => ImplementsContract
BY OneInFlightCorrect, SerialIsExclusive, ExclusiveContract, PTL

-----------------------------------------------------------------------------
(* One approval at a time runs the tool once *)

(* No two approvals are between reading the approval request and writing   *)
(* to it; cancellations may overlap with them and with each other.         *)
Alone ==
  \A a, b \in Approvers : pc[a] = "decide" /\ pc[b] = "decide" => a = b

(* The request has written its approval, or even executed the tool.        *)
Past(a) == pc[a] \in {"resume", "answer", "update"} \/ exec[a] > 0

(* Once an approval is written, no other can be: who reads the request     *)
(* finds it decided, and nobody has read it before.                        *)
AloneInv ==
  /\ \A a, b \in Approvers : Past(a) /\ Past(b) => a = b
  /\ \A a, b \in Approvers : Past(a) => pc[b] # "decide"

LEMMA AloneStep ==
  ASSUME Alone, TypeOK, DecisionInv, AloneInv, [Next]_vars
  PROVE  AloneInv'
<1> USE Kinds, Apart
<1>0. /\ pc \in [Handlers -> Location]
      /\ exec \in [Handlers -> Nat]
  BY DEF TypeOK
<1>1. ASSUME \A a \in Approvers : /\ Past(a)' => Past(a)
                                  /\ pc'[a] = "decide" => pc[a] = "decide"
      PROVE  AloneInv'
  BY <1>1 DEF AloneInv
<1>2. ASSUME NEW h \in Runners, exec' \in {exec, [exec EXCEPT ![h] = @ + 1]},
             pc[h] \in {"graph", "resume", "answer", "update"},
             NEW l \in {"answer", "update", "done"}, Goto(h, l)
      PROVE  AloneInv'
  <2>1. \A a \in Approvers : a # h => /\ pc'[a] = pc[a] /\ exec'[a] = exec[a]
    BY <1>0, <1>2 DEF Goto, Runners
  <2>2. h \in Approvers => Past(h)
    BY <1>2 DEF Past, DecisionInv
  <2>3. h \in Approvers => pc'[h] # "decide"
    BY <1>0, <1>2 DEF Goto
  <2>. QED  BY <1>1, <2>1, <2>2, <2>3 DEF Past
<1>3. ASSUME exec' = exec,
             \A a \in Approvers : pc'[a] \in {pc[a], "done"}
      PROVE  AloneInv'
  BY <1>1, <1>3 DEF Past
<1>4. CASE create_run \/ ask_for_approval \/ create_approval \/ mark_waiting
  <2>1. exec' = exec /\ \E l \in Location : Goto(Run, l)
    BY <1>4
    DEF create_run, ask_for_approval, create_approval, mark_waiting, Answer,
        Location
  <2>. QED  BY <1>3, <2>1, Moves
<1>5. ASSUME NEW h \in Runners, execute_tool(h) PROVE AloneInv'
  BY <1>2, <1>5 DEF execute_tool, LeaveTool
<1>6. ASSUME NEW h \in Runners, end_graph(h) PROVE AloneInv'
  BY <1>2, <1>6 DEF end_graph
<1>7. ASSUME NEW h \in Runners, lose_event(h) PROVE AloneInv'
  BY <1>3, <1>7 DEF lose_event
<1>8. CASE crash
  BY <1>0, <1>3, <1>8 DEF crash
<1>9. ASSUME NEW h \in Runners, update_run(h) PROVE AloneInv'
  BY <1>2, <1>9 DEF update_run, Answer
<1>10. ASSUME NEW h \in Deciders, get_pending_approval(h) PROVE AloneInv'
  <2>1. /\ exec' = exec /\ pc[h] = "idle"
        /\ \/ approval = "pending" /\ Goto(h, "decide")
           \/ Goto(h, "done")
    BY <1>10 DEF get_pending_approval, MayStart, IsPending, Answer
  <2>2. CASE Goto(h, "done")
    BY <1>3, <2>1, <2>2, Moves
  <2>3. CASE approval = "pending" /\ Goto(h, "decide")
    <3>1. \A a \in Approvers : ~Past(a)
      BY <1>0, <2>3 DEF Past, DecisionInv, Decided
    <3>2. \A a \in Approvers : pc'[a] \in {pc[a], "decide"}
      BY <2>3, Moves
    <3>3. \A a \in Approvers : ~Past(a)'
      BY <2>1, <3>1, <3>2 DEF Past
    <3>. QED  BY <3>3 DEF AloneInv
  <2>. QED  BY <2>1, <2>2, <2>3
<1>11. ASSUME NEW a \in Approvers, approve_request(a) PROVE AloneInv'
  <2>1. pc[a] = "decide" /\ exec' = exec /\ (Goto(a, "resume") \/ Goto(a, "done"))
    BY <1>11 DEF approve_request, ApproveRefused, Answer
  <2>2. CASE Goto(a, "done")
    BY <1>3, <2>1, <2>2, Moves
  <2>3. CASE Goto(a, "resume")
    <3>1. \A b \in Approvers : ~Past(b)
      BY <2>1 DEF AloneInv
    <3>2. \A b \in Approvers : b # a => pc'[b] = pc[b] /\ pc[b] # "decide"
      BY <2>1, <2>3, Moves DEF Alone
    <3>3. pc'[a] = "resume"
      BY <2>3, Moves
    <3>4. \A b \in Approvers : b # a => ~Past(b)'
      BY <2>1, <3>1, <3>2 DEF Past
    <3>5. \A b \in Approvers : pc'[b] # "decide"
      BY <3>2, <3>3
    <3>. QED  BY <3>4, <3>5 DEF AloneInv
  <2>. QED  BY <2>1, <2>2, <2>3
<1>12. ASSUME NEW c \in Cancellers, CancelStep(c), ~get_pending_approval(c)
       PROVE  AloneInv'
  <2>1. exec' = exec /\ \E l \in Location : Goto(c, l)
    BY <1>12 DEF CancelStep, deny_request, cancel_update, Answer, Location
  <2>. QED  BY <1>3, <2>1, Moves
<1>13. CASE UNCHANGED vars
  BY <1>3, <1>13 DEF vars
<1>. QED
  BY <1>4, <1>5, <1>6, <1>7, <1>8, <1>9, <1>10, <1>11, <1>12, <1>13
  DEF Next, RunStep, ApproveStep, CancelStep, Runners, Deciders

(* What the run flow_twice refutes holds as long as no two approvals       *)
(* overlap between their read and their write, whatever cancellations,     *)
(* failures and restarts come in between: that overlap is the only way in  *)
(* which a decision executes the tool twice.                               *)
THEOREM AloneRunsOnce == Spec /\ []Alone => []ToolRunsOnce
<1>1. Init => AloneInv
  BY Kinds DEF Init, AloneInv, Past
<1>2. Alone /\ TypeOK /\ DecisionInv /\ AloneInv /\ [Next]_vars => AloneInv'
  BY AloneStep
<1>3. AloneInv => ToolRunsOnce
  BY DEF AloneInv, Past, ToolRunsOnce
<1>. QED  BY <1>1, <1>2, <1>3, TypeCorrect, DecisionCorrect, PTL DEF Spec

-----------------------------------------------------------------------------
(* What is written and what is lost *)

(* What the requests do to the two tables: each write is made, or it is    *)
(* recorded as lost.                                                       *)
LEMMA Writes ==
  /\ [Next]_vars => lost \subseteq lost'
  /\ create_run =>
       /\ pc[Run] = "idle" /\ UNCHANGED <<approval, result>>
       /\ \/ Goto(Run, "graph") /\ runStatus' = "pending" /\ lost' = lost
          \/ Goto(Run, "done") /\ runStatus' = runStatus /\ Run \in lost'
  /\ create_approval =>
       /\ pc[Run] = "persist" /\ UNCHANGED <<runStatus, result>>
       /\ \/ Goto(Run, "mark") /\ approval' = "pending" /\ lost' = lost
          \/ Goto(Run, "update") /\ approval' = approval /\ Run \in lost'
  /\ mark_waiting =>
       /\ pc[Run] = "mark" /\ Goto(Run, "update")
       /\ UNCHANGED <<approval, result>>
       /\ \/ runStatus' = "waiting_approval" /\ lost' = lost
          \/ runStatus' = runStatus /\ Run \in lost'
  /\ \A h \in Runners : update_run(h) =>
       /\ pc[h] = "update" /\ Goto(h, "done") /\ UNCHANGED <<approval, result>>
       /\ \/ runStatus' = result[h] /\ lost' = lost
          \/ runStatus' = runStatus /\ h \in lost'
  /\ \A d \in Deciders : get_pending_approval(d) =>
       /\ pc[d] = "idle" /\ (Goto(d, "decide") \/ Goto(d, "done"))
       /\ UNCHANGED <<runStatus, approval, result>>
  /\ \A a \in Approvers : approve_request(a) =>
       /\ pc[a] = "decide" /\ UNCHANGED <<runStatus, result>>
       /\ \/ Goto(a, "resume") /\ approval' = "approved" /\ lost' = lost
          \/ Goto(a, "done") /\ approval' = approval /\ a \in lost'
  /\ \A c \in Cancellers : deny_request(c) =>
       /\ pc[c] = "decide" /\ UNCHANGED <<runStatus, result>>
       /\ \/ Goto(c, "cancel") /\ approval' = "denied" /\ lost' = lost
          \/ Goto(c, "done") /\ approval' = approval /\ c \in lost'
  /\ \A c \in Cancellers : cancel_update(c) =>
       /\ pc[c] = "cancel" /\ Goto(c, "done") /\ UNCHANGED <<approval, result>>
       /\ \/ runStatus' = "cancelled" /\ lost' = lost
          \/ runStatus' = runStatus /\ c \in lost'
<1> USE DEF Succeeds, FlushFails, StatementFails, CannotEncode, Loses, Answer
<1>1. ASSUME create_run
      PROVE  /\ pc[Run] = "idle" /\ UNCHANGED <<approval, result>>
             /\ \/ Goto(Run, "graph") /\ runStatus' = "pending" /\ lost' = lost
                \/ /\ Goto(Run, "done") /\ runStatus' = runStatus
                   /\ lost' = lost \cup {Run}
  BY <1>1 DEF create_run, MayStart
<1>2. ASSUME create_approval
      PROVE  /\ pc[Run] = "persist" /\ UNCHANGED <<runStatus, result>>
             /\ \/ Goto(Run, "mark") /\ approval' = "pending" /\ lost' = lost
                \/ /\ Goto(Run, "update") /\ approval' = approval
                   /\ lost' = lost \cup {Run}
  BY <1>2 DEF create_approval
<1>3. ASSUME mark_waiting
      PROVE  /\ pc[Run] = "mark" /\ Goto(Run, "update")
             /\ UNCHANGED <<approval, result>>
             /\ \/ runStatus' = "waiting_approval" /\ lost' = lost
                \/ runStatus' = runStatus /\ lost' = lost \cup {Run}
  BY <1>3 DEF mark_waiting
<1>4. ASSUME NEW h \in Runners, update_run(h)
      PROVE  /\ pc[h] = "update" /\ Goto(h, "done")
             /\ UNCHANGED <<approval, result>>
             /\ \/ runStatus' = result[h] /\ lost' = lost
                \/ runStatus' = runStatus /\ lost' = lost \cup {h}
  BY <1>4 DEF update_run
<1>5. ASSUME NEW d \in Deciders, get_pending_approval(d)
      PROVE  /\ pc[d] = "idle" /\ (Goto(d, "decide") \/ Goto(d, "done"))
             /\ UNCHANGED <<runStatus, approval, result>>
             /\ lost' \in {lost, lost \cup {d}}
  BY <1>5 DEF get_pending_approval, MayStart, tables
<1>6. ASSUME NEW a \in Approvers, approve_request(a)
      PROVE  /\ pc[a] = "decide" /\ UNCHANGED <<runStatus, result>>
             /\ \/ Goto(a, "resume") /\ approval' = "approved" /\ lost' = lost
                \/ /\ Goto(a, "done") /\ approval' = approval
                   /\ lost' = lost \cup {a}
  BY <1>6 DEF approve_request, ApproveRefused
<1>7. ASSUME NEW c \in Cancellers, deny_request(c)
      PROVE  /\ pc[c] = "decide" /\ UNCHANGED <<runStatus, result>>
             /\ \/ Goto(c, "cancel") /\ approval' = "denied" /\ lost' = lost
                \/ /\ Goto(c, "done") /\ approval' = approval
                   /\ lost' = lost \cup {c}
  BY <1>7 DEF deny_request
<1>8. ASSUME NEW c \in Cancellers, cancel_update(c)
      PROVE  /\ pc[c] = "cancel" /\ Goto(c, "done")
             /\ UNCHANGED <<approval, result>>
             /\ \/ runStatus' = "cancelled" /\ lost' = lost
                \/ runStatus' = runStatus /\ lost' = lost \cup {c}
  BY <1>8 DEF cancel_update, MarksCancelled, KeepDenied
<1>9. ASSUME NEW h \in Runners, execute_tool(h) \/ end_graph(h) \/ lose_event(h)
      PROVE  lost \subseteq lost'
  BY <1>9 DEF execute_tool, end_graph, lose_event
<1>10. ask_for_approval \/ crash \/ UNCHANGED vars => lost \subseteq lost'
  BY DEF ask_for_approval, crash, vars
<1>11. [Next]_vars => lost \subseteq lost'
  BY <1>1, <1>2, <1>3, <1>4, <1>5, <1>6, <1>7, <1>8, <1>9, <1>10, Kinds
  DEF Next, RunStep, ApproveStep, CancelStep, Runners
<1>. QED
  BY <1>1, <1>2, <1>3, <1>4, <1>5, <1>6, <1>7, <1>8, <1>11

(* A run that asked has its approval request decided only when it is done, *)
(* and until the run shows the decision somebody is still to write it, or  *)
(* has lost the write.                                                     *)
LateInv ==
  /\ InFlight(Run) => approval \notin Decided
  /\ \A a \in Approvers :
       pc[a] = "update" => result[a] \in {"completed", "failed"}
  /\ approval \in Decided =>
       \/ runStatus # "waiting_approval"
       \/ \E d \in Deciders :
            pc[d] \in {"resume", "answer", "update", "cancel"} \/ d \in lost

LEMMA LateStep ==
  ASSUME Late, TypeOK, DecisionInv, LateInv, [Next]_vars
  PROVE  LateInv'
<1> USE Kinds, Apart DEF InFlight, Decided
<1>0. /\ result \in [Handlers -> {"none", "waiting_approval", "completed",
                                  "failed"}]
      /\ lost \subseteq lost'
  BY Writes DEF TypeOK
<1>1. CASE create_run
  BY <1>0, <1>1, Writes, Moves DEF LateInv, DecisionInv
<1>2. CASE ask_for_approval
  <2>1. /\ pc[Run] = "graph" /\ Goto(Run, "persist") /\ UNCHANGED tables
        /\ \A a \in Approvers : result'[a] = result[a]
    BY <1>0, <1>2 DEF ask_for_approval
  <2>. QED  BY <1>0, <2>1, Moves DEF LateInv, tables
<1>3. CASE create_approval
  BY <1>0, <1>3, Writes, Moves DEF LateInv
<1>4. CASE mark_waiting
  BY <1>0, <1>4, Writes, Moves DEF LateInv
<1>5. ASSUME NEW h \in Runners, execute_tool(h) PROVE LateInv'
  <2>1. /\ pc[h] \in {"graph", "resume"} /\ Goto(h, "answer")
        /\ UNCHANGED <<runStatus, approval, result>>
    BY <1>5 DEF execute_tool, LeaveTool, tables
  <2>2. CASE h = Run
    BY <1>0, <2>1, <2>2, Moves DEF LateInv
  <2>3. CASE h \in Approvers
    BY <1>0, <2>1, <2>3, Moves DEF LateInv
  <2>. QED  BY <2>2, <2>3 DEF Runners
<1>6. ASSUME NEW h \in Runners, end_graph(h) PROVE LateInv'
  <2>1. /\ pc[h] \in {"graph", "resume", "answer"} /\ Goto(h, "update")
        /\ UNCHANGED <<runStatus, approval>>
        /\ result'[h] \in {"completed", "failed"}
        /\ \A g \in Handlers \ {h} : result'[g] = result[g]
    BY <1>0, <1>6 DEF end_graph, tables, Runners
  <2>2. CASE h = Run
    BY <1>0, <2>1, <2>2, Moves DEF LateInv
  <2>3. CASE h \in Approvers
    BY <1>0, <2>1, <2>3, Moves DEF LateInv
  <2>. QED  BY <2>2, <2>3 DEF Runners
<1>7. ASSUME NEW h \in Runners, lose_event(h) PROVE LateInv'
  BY <1>0, <1>7 DEF lose_event, tables, LateInv
<1>8. CASE crash
  BY <1>8 DEF crash, TypeOK, tables, LateInv
<1>9. ASSUME NEW h \in Runners, update_run(h) PROVE LateInv'
  <2>1. /\ pc[h] = "update" /\ Goto(h, "done")
        /\ UNCHANGED <<approval, result>>
        /\ runStatus' = result[h] \/ (runStatus' = runStatus /\ h \in lost')
    BY <1>9, Writes
  <2>2. CASE h = Run
    BY <1>0, <2>1, <2>2, Moves DEF LateInv
  <2>3. CASE h \in Approvers
    BY <1>0, <2>1, <2>3, Moves DEF LateInv
  <2>. QED  BY <2>2, <2>3 DEF Runners
<1>10. ASSUME NEW h \in Deciders, get_pending_approval(h) PROVE LateInv'
  <2>1. /\ pc[h] = "idle" /\ UNCHANGED <<runStatus, approval, result>>
        /\ Goto(h, "decide") \/ Goto(h, "done")
    BY <1>10, Writes
  <2>. QED  BY <1>0, <2>1, Moves DEF LateInv
<1>11. ASSUME NEW a \in Approvers, approve_request(a) PROVE LateInv'
  <2>1. /\ pc[a] = "decide" /\ ~InFlight(Run) /\ UNCHANGED <<runStatus, result>>
        /\ \/ Goto(a, "resume") /\ approval' = "approved"
           \/ Goto(a, "done") /\ approval' = approval
    BY <1>11, Writes DEF Late
  <2>. QED  BY <1>0, <2>1, Moves DEF LateInv
<1>12. ASSUME NEW c \in Cancellers, deny_request(c) PROVE LateInv'
  <2>1. /\ pc[c] = "decide" /\ ~InFlight(Run) /\ UNCHANGED <<runStatus, result>>
        /\ \/ Goto(c, "cancel") /\ approval' = "denied"
           \/ Goto(c, "done") /\ approval' = approval
    BY <1>12, Writes DEF Late
  <2>. QED  BY <1>0, <2>1, Moves DEF LateInv
<1>13. ASSUME NEW c \in Cancellers, cancel_update(c) PROVE LateInv'
  <2>1. /\ Goto(c, "done") /\ UNCHANGED <<approval, result>>
        /\ \/ runStatus' = "cancelled"
           \/ runStatus' = runStatus /\ c \in lost'
    BY <1>13, Writes
  <2>. QED  BY <1>0, <2>1, Moves DEF LateInv
<1>14. CASE UNCHANGED vars
  BY <1>14 DEF vars, tables, LateInv
<1>. QED
  BY <1>1, <1>2, <1>3, <1>4, <1>5, <1>6, <1>7, <1>8, <1>9, <1>10, <1>11,
     <1>12, <1>13, <1>14
  DEF Next, RunStep, ApproveStep, CancelStep, Runners

(* What the run flow_waiting refutes holds as long as nobody writes a      *)
(* decision before the run request has been answered, however the          *)
(* decisions themselves overlap and whatever fails on the run request. A   *)
(* decided run stays waiting_approval for two reasons only: its decision   *)
(* came too early and the run's own update overwrote what it wrote, or a   *)
(* request that decides lost a write: to the database, to a result that    *)
(* JSON cannot encode, or to a restart.                                    *)
THEOREM LateIsNotWaiting == Spec /\ []Late => []DecidedIsNotWaiting
<1>1. Init => LateInv
  BY Kinds, Apart DEF Init, LateInv, InFlight, Decided
<1>2. Late /\ TypeOK /\ DecisionInv /\ LateInv /\ [Next]_vars => LateInv'
  BY LateStep
<1>3. LateInv => DecidedIsNotWaiting
  BY Kinds DEF LateInv, DecidedIsNotWaiting, Quiet, InFlight
<1>. QED
  BY <1>1, <1>2, <1>3, TypeCorrect, DecisionCorrect, PTL DEF Spec

-----------------------------------------------------------------------------
(* One decision settles the run *)

(* The request has written its decision, or shows that it had.             *)
Settled(d) ==
  \/ pc[d] \in {"resume", "answer", "update", "cancel"}
  \/ exec[d] # 0 \/ result[d] # "none" \/ reply[d] = "200"

(* Decisions that do not overlap: there is one at most, and the approval   *)
(* request tells which.                                                    *)
SettledInv ==
  /\ \A a \in Approvers : Settled(a) => approval = "approved"
  /\ \A c \in Cancellers : Settled(c) => approval = "denied"
  /\ \A d, e \in Deciders : Settled(d) /\ Settled(e) => d = e

LEMMA SettledStep ==
  ASSUME Exclusive, TypeOK, DecisionInv, ExclusiveInv, SettledInv, [Next]_vars
  PROVE  SettledInv'
<1> USE Kinds, Apart
<1>0. /\ pc \in [Handlers -> Location]
      /\ reply \in [Handlers -> Reply]
      /\ exec \in [Handlers -> Nat]
      /\ result \in [Handlers -> {"none", "waiting_approval", "completed",
                                  "failed"}]
  BY DEF TypeOK, Reply
<1>1. ASSUME \A d \in Deciders : Settled(d)' => Settled(d),
             approval' = approval \/ approval \notin Decided
      PROVE  SettledInv'
  BY <1>1 DEF SettledInv, Decided, Deciders
<1>2. ASSUME NEW e \in Deciders, pc[e] = "decide",
             \A d \in Deciders \ {e} : Settled(d)' => Settled(d),
             e \in Approvers => approval' = "approved",
             e \in Cancellers => approval' = "denied"
      PROVE  SettledInv'
  <2>1. \A d \in Deciders : ~Settled(d)
    BY <1>2 DEF SettledInv, ExclusiveInv, Deciders
  <2>. QED  BY <1>2, <2>1 DEF SettledInv, Deciders
<1>3. CASE create_run \/ ask_for_approval \/ mark_waiting
  <2>1. /\ approval' = approval /\ exec' = exec
        /\ \A d \in Deciders : /\ pc'[d] = pc[d] /\ reply'[d] = reply[d]
                               /\ result'[d] = result[d]
    BY <1>0, <1>3
    DEF create_run, ask_for_approval, mark_waiting, tables, Goto, Answer
  <2>. QED  BY <1>1, <2>1 DEF Settled
<1>4. CASE create_approval
  <2>1. /\ pc[Run] = "persist" /\ UNCHANGED <<exec, reply, result>>
        /\ \A d \in Deciders : pc'[d] = pc[d]
    BY <1>0, <1>4 DEF create_approval, Goto
  <2>2. approval \notin Decided
    BY <2>1 DEF DecisionInv, Decided
  <2>. QED  BY <1>1, <2>1, <2>2 DEF Settled
<1>5. ASSUME NEW h \in Runners, pc[h] \in {"graph", "resume", "answer", "update"},
             approval' = approval,
             \A d \in Deciders \ {h} : UNCHANGED <<pc[d], exec[d], result[d],
                                                   reply[d]>>
      PROVE  SettledInv'
  <2>1. h \in Deciders => Settled(h)
    BY <1>5 DEF Settled, DecisionInv, Runners
  <2>. QED  BY <1>1, <1>5, <2>1 DEF Settled
<1>6. ASSUME NEW h \in Runners, execute_tool(h) PROVE SettledInv'
  BY <1>0, <1>5, <1>6 DEF execute_tool, LeaveTool, Goto, tables
<1>7. ASSUME NEW h \in Runners, end_graph(h) PROVE SettledInv'
  BY <1>0, <1>5, <1>7 DEF end_graph, Goto, tables
<1>8. ASSUME NEW h \in Runners, lose_event(h) PROVE SettledInv'
  BY <1>0, <1>5, <1>8 DEF lose_event, tables
<1>9. ASSUME NEW h \in Runners, update_run(h) PROVE SettledInv'
  BY <1>0, <1>5, <1>9 DEF update_run, Answer, Goto
<1>10. CASE crash
  <2>1. /\ UNCHANGED <<approval, exec, result>>
        /\ \A d \in Deciders : /\ pc'[d] \in {pc[d], "done"}
                               /\ reply'[d] \in {reply[d], "lost"}
    BY <1>0, <1>10 DEF crash, tables
  <2>. QED  BY <1>1, <2>1 DEF Settled
<1>11. ASSUME NEW h \in Deciders, get_pending_approval(h) PROVE SettledInv'
  <2>1. /\ UNCHANGED <<approval, exec, result>>
        /\ pc'[h] \in {"decide", "done"} /\ reply'[h] \in {reply[h], "404", "500"}
        /\ \A d \in Deciders \ {h} : pc'[d] = pc[d] /\ reply'[d] = reply[d]
    BY <1>0, <1>11 DEF get_pending_approval, Goto, Answer, tables
  <2>. QED  BY <1>1, <2>1 DEF Settled
<1>12. ASSUME NEW a \in Approvers, approve_request(a) PROVE SettledInv'
  <2>1. /\ pc[a] = "decide" /\ UNCHANGED <<exec, result>>
        /\ \A d \in Deciders \ {a} : pc'[d] = pc[d] /\ reply'[d] = reply[d]
        /\ \/ approval' = "approved"
           \/ approval' = approval /\ pc'[a] = "done" /\ reply'[a] = "500"
    BY <1>0, <1>12 DEF approve_request, ApproveRefused, Goto, Answer
  <2>. QED  BY <1>1, <1>2, <2>1 DEF Settled
<1>13. ASSUME NEW c \in Cancellers, deny_request(c) PROVE SettledInv'
  <2>1. /\ pc[c] = "decide" /\ UNCHANGED <<exec, result>>
        /\ \A d \in Deciders \ {c} : pc'[d] = pc[d] /\ reply'[d] = reply[d]
        /\ \/ approval' = "denied"
           \/ approval' = approval /\ pc'[c] = "done" /\ reply'[c] = "500"
    BY <1>0, <1>13 DEF deny_request, Goto, Answer
  <2>. QED  BY <1>1, <1>2, <2>1 DEF Settled
<1>14. ASSUME NEW c \in Cancellers, cancel_update(c) PROVE SettledInv'
  <2>1. /\ pc[c] = "cancel" /\ UNCHANGED <<approval, exec, result>>
        /\ \A d \in Deciders \ {c} : pc'[d] = pc[d] /\ reply'[d] = reply[d]
    BY <1>0, <1>14 DEF cancel_update, KeepDenied, Goto, Answer
  <2>. QED  BY <1>1, <2>1 DEF Settled
<1>15. CASE UNCHANGED vars
  BY <1>1, <1>15 DEF vars, tables, Settled
<1>. QED
  BY <1>3, <1>4, <1>6, <1>7, <1>8, <1>9, <1>10, <1>11, <1>12, <1>13, <1>14,
     <1>15
  DEF Next, RunStep, ApproveStep, CancelStep, Runners

LEMMA SettledCorrect == Spec /\ []Exclusive => []SettledInv
<1>1. Init => SettledInv
  BY Kinds, Apart DEF Init, SettledInv, Settled
<1>2. /\ Exclusive /\ TypeOK /\ DecisionInv /\ ExclusiveInv /\ SettledInv
      /\ [Next]_vars
      => SettledInv'
  BY SettledStep
<1>. QED
  BY <1>1, <1>2, TypeCorrect, DecisionCorrect, ExclusiveCorrect, PTL DEF Spec

(* CancelledNeverRuns, false of overlapping decisions, holds as long as no *)
(* two of them overlap: a run whose cancellation was confirmed never executes its      *)
(* tool, neither before nor after, whatever else is lost, fails or is      *)
(* restarted.                                                              *)
THEOREM CancelledStaysOut == Spec /\ []Exclusive => []CancelledNeverRuns
<1>1. SettledInv => CancelledNeverRuns
  <2> SUFFICES ASSUME SettledInv, NEW c \in Cancellers, NEW a \in Approvers,
                      reply[c] = "200", exec[a] # 0
               PROVE  FALSE
    BY DEF CancelledNeverRuns
  <2>. QED  BY DEF SettledInv, Settled
<1>. QED  BY <1>1, SettledCorrect, PTL

-----------------------------------------------------------------------------
(* The two tables tell the same story *)

(* What the tables hold between two awaits: the run request, as long as it *)
(* lost nothing, goes through its statuses with the approval request       *)
(* beside it, and what a decision has written is not overwritten.          *)
TableInv ==
  /\ InFlight(Run) => approval \notin Decided
  /\ pc[Run] = "idle" => runStatus = "absent"
  /\ pc[Run] \in {"persist", "mark"}
       => result[Run] \in {"waiting_approval", "failed"}
  /\ pc[Run] = "mark" => approval = "pending"
  /\ Run \notin lost /\ pc[Run] = "update" =>
       \/ approval = "none" /\ result[Run] \in {"completed", "failed"}
       \/ approval = "pending" /\ result[Run] \in {"waiting_approval", "failed"}
  /\ Run \notin lost /\ pc[Run] = "done" =>
       /\ approval = "none" => runStatus \in {"completed", "failed"}
       /\ approval = "pending" => runStatus \in {"waiting_approval", "failed"}
  /\ \A a \in Approvers :
       /\ result[a] # "none" => pc[a] \in {"update", "done"}
       /\ a \notin lost /\ result[a] # "none" /\ pc[a] = "done"
            => runStatus = result[a]
  /\ \A c \in Cancellers :
       c \notin lost /\ reply[c] = "200" => runStatus = "cancelled"

LEMMA TableStep ==
  ASSUME Exclusive, Late, TypeOK, DecisionInv, ExclusiveInv, SettledInv,
         TableInv, [Next]_vars
  PROVE  TableInv'
<1> USE Kinds, Apart DEF InFlight, Decided
<1>0. /\ pc \in [Handlers -> Location]
      /\ reply \in [Handlers -> Reply]
      /\ result \in [Handlers -> {"none", "waiting_approval", "completed",
                                  "failed"}]
      /\ lost \subseteq lost'
  BY Writes DEF TypeOK, Reply
(* While the run request is in flight or not yet sent nothing is decided.  *)
<1>a. ASSUME approval \notin Decided
      PROVE  /\ \A a \in Approvers : result[a] = "none"
             /\ \A c \in Cancellers : reply[c] # "200"
  BY <1>a DEF SettledInv, Settled
<1>1. CASE create_run
  <2>1. approval = "none" /\ reply' \in [Handlers -> Reply]
        /\ \A c \in Cancellers : reply'[c] = reply[c]
    BY <1>0, <1>1 DEF create_run, MayStart, DecisionInv, Answer, Reply
  <2>. QED  BY <1>0, <1>a, <1>1, <2>1, Writes, Moves DEF TableInv
<1>2. CASE ask_for_approval
  <2>1. /\ pc[Run] = "graph" /\ Goto(Run, "persist") /\ UNCHANGED <<tables, reply>>
        /\ result'[Run] \in {"waiting_approval", "failed"}
        /\ \A a \in Approvers : result'[a] = result[a]
    BY <1>0, <1>2 DEF ask_for_approval
  <2>. QED  BY <1>0, <1>a, <2>1, Moves DEF TableInv, tables
<1>3. CASE create_approval
  <2>1. approval = "none" /\ reply' = reply
    BY <1>3 DEF create_approval, DecisionInv
  <2>. QED  BY <1>0, <1>a, <1>3, <2>1, Writes, Moves DEF TableInv
<1>4. CASE mark_waiting
  <2>1. approval = "pending" /\ reply' = reply
    BY <1>4 DEF mark_waiting, TableInv
  <2>. QED  BY <1>0, <1>a, <1>4, <2>1, Writes, Moves DEF TableInv
<1>5. ASSUME NEW h \in Runners, execute_tool(h) PROVE TableInv'
  <2>1. /\ pc[h] \in {"graph", "resume"} /\ Goto(h, "answer")
        /\ UNCHANGED <<runStatus, approval, result, reply, lost>>
    BY <1>5 DEF execute_tool, LeaveTool, tables
  <2>2. CASE h = Run
    BY <1>0, <2>1, <2>2, Moves DEF TableInv
  <2>3. CASE h \in Approvers
    BY <1>0, <2>1, <2>3, Moves DEF TableInv
  <2>. QED  BY <2>2, <2>3 DEF Runners
<1>6. ASSUME NEW h \in Runners, end_graph(h) PROVE TableInv'
  <2>1. /\ pc[h] \in {"graph", "resume", "answer"} /\ Goto(h, "update")
        /\ UNCHANGED <<runStatus, approval, reply, lost>>
        /\ result'[h] \in {"completed", "failed"}
        /\ \A g \in Handlers \ {h} : result'[g] = result[g]
    BY <1>0, <1>6 DEF end_graph, tables, Runners
  <2>2. CASE h = Run
    <3>1. approval = "none"
      BY <2>1, <2>2 DEF DecisionInv
    <3>. QED  BY <1>0, <2>1, <2>2, <3>1, Moves DEF TableInv
  <2>3. CASE h \in Approvers
    BY <1>0, <2>1, <2>3, Moves DEF TableInv
  <2>. QED  BY <2>2, <2>3 DEF Runners
<1>7. ASSUME NEW h \in Runners, lose_event(h) PROVE TableInv'
  BY <1>0, <1>7 DEF lose_event, tables, TableInv
<1>8. CASE crash
  <2>1. /\ UNCHANGED <<runStatus, approval, result>>
        /\ lost' = lost \cup {h \in Handlers : InFlight(h)}
        /\ \A h \in Handlers : /\ ~InFlight(h) => /\ pc'[h] = pc[h]
                                                  /\ reply'[h] = reply[h]
                               /\ InFlight(h) => /\ pc'[h] = "done"
                                                 /\ reply'[h] = "lost"
    BY <1>8 DEF crash, tables
  <2>. QED  BY <1>0, <2>1 DEF TableInv
<1>9. ASSUME NEW h \in Runners, update_run(h) PROVE TableInv'
  <2>1. /\ pc[h] = "update" /\ Goto(h, "done") /\ UNCHANGED <<approval, result>>
        /\ \/ runStatus' = result[h] /\ lost' = lost
           \/ runStatus' = runStatus /\ h \in lost'
        /\ \A c \in Cancellers : reply'[c] = reply[c]
    BY <1>0, <1>9, Writes DEF update_run, Answer, Runners
  <2>2. CASE h = Run
    <3>1. approval \notin Decided
      BY <2>1, <2>2 DEF TableInv
    <3>. QED  BY <1>0, <1>a, <2>1, <2>2, <3>1, Moves DEF TableInv
  <2>3. CASE h \in Approvers
    <3>1. Settled(h)  BY <2>1 DEF Settled
    <3>2. /\ \A a \in Approvers \ {h} : result[a] = "none"
          /\ \A c \in Cancellers : reply[c] # "200"
      BY <2>3, <3>1 DEF SettledInv, Settled
    <3>3. approval \in Decided /\ pc[Run] # "idle"
      BY <2>1, <2>3 DEF DecisionInv
    <3>. QED  BY <1>0, <2>1, <2>3, <3>2, <3>3, Moves DEF TableInv
  <2>. QED  BY <2>2, <2>3 DEF Runners
<1>10. ASSUME NEW h \in Deciders, get_pending_approval(h) PROVE TableInv'
  <2>1. /\ pc[h] = "idle" /\ UNCHANGED <<runStatus, approval, result>>
        /\ Goto(h, "decide") \/ Goto(h, "done")
    BY <1>10, Writes
  <2>2. \A c \in Cancellers : reply'[c] = "200" => reply[c] = "200"
    BY <1>0, <1>10 DEF get_pending_approval, Answer
  <2>. QED  BY <1>0, <2>1, <2>2, Moves DEF TableInv
<1>11. ASSUME NEW a \in Approvers, approve_request(a) PROVE TableInv'
  <2>1. /\ pc[a] = "decide" /\ UNCHANGED <<runStatus, result>>
        /\ \/ Goto(a, "resume") /\ approval' = "approved"
           \/ Goto(a, "done") /\ approval' = approval
        /\ \A c \in Cancellers : reply'[c] = reply[c]
    BY <1>0, <1>11, Writes DEF approve_request, ApproveRefused, Answer
  <2>2. /\ approval = "pending" /\ pc[Run] = "done"
    BY <2>1 DEF ExclusiveInv, DecisionInv, Late
  <2>. QED  BY <1>0, <1>a, <2>1, <2>2, Moves DEF TableInv
<1>12. ASSUME NEW c \in Cancellers, deny_request(c) PROVE TableInv'
  <2>1. /\ pc[c] = "decide" /\ UNCHANGED <<runStatus, result>>
        /\ \/ Goto(c, "cancel") /\ approval' = "denied"
           \/ Goto(c, "done") /\ approval' = approval
        /\ \A e \in Cancellers : reply'[e] = "200" => reply[e] = "200"
    BY <1>0, <1>12, Writes DEF deny_request, Answer
  <2>2. approval = "pending" /\ pc[Run] = "done"
    BY <2>1 DEF ExclusiveInv, DecisionInv, Late
  <2>. QED  BY <1>0, <1>a, <2>1, <2>2, Moves DEF TableInv
<1>13. ASSUME NEW c \in Cancellers, cancel_update(c) PROVE TableInv'
  <2>1. /\ pc[c] = "cancel" /\ Goto(c, "done") /\ UNCHANGED <<approval, result>>
        /\ \/ runStatus' = "cancelled"
           \/ runStatus' = runStatus /\ c \in lost'
        /\ \A e \in Cancellers \ {c} : reply'[e] = reply[e]
    BY <1>0, <1>13, Writes DEF cancel_update, Answer
  <2>2. Settled(c)  BY <2>1 DEF Settled
  <2>3. /\ \A a \in Approvers : result[a] = "none"
        /\ \A e \in Cancellers \ {c} : reply[e] # "200"
    BY <2>2 DEF SettledInv, Settled
  <2>4. approval \in Decided /\ pc[Run] # "idle"
    BY <2>1 DEF DecisionInv
  <2>. QED  BY <1>0, <2>1, <2>3, <2>4, Moves DEF TableInv
<1>14. CASE UNCHANGED vars
  BY <1>14 DEF vars, tables, TableInv
<1>. QED
  BY <1>1, <1>2, <1>3, <1>4, <1>5, <1>6, <1>7, <1>8, <1>9, <1>10, <1>11,
     <1>12, <1>13, <1>14
  DEF Next, RunStep, ApproveStep, CancelStep, Runners

(* As long as no two decisions overlap and none comes before the run       *)
(* request has been answered, the two tables add up whenever no request is *)
(* in flight, request by request: what the run request, the pause and the  *)
(* decision write, in four transactions, stands for each of them that lost *)
(* no write, whatever the others lost to the database, to a result that    *)
(* cannot be encoded or to a restart.                                      *)
THEOREM ExclusiveTables == Spec /\ []Exclusive /\ []Late => []TablesAgree
<1>1. Init => TableInv
  BY Kinds, Apart DEF Init, TableInv, InFlight
<1>2. /\ Exclusive /\ Late /\ TypeOK /\ DecisionInv /\ ExclusiveInv
      /\ SettledInv /\ TableInv /\ [Next]_vars
      => TableInv'
  BY TableStep
<1>3. DecisionInv /\ SettledInv /\ TableInv => TablesAgree
  <2> SUFFICES ASSUME DecisionInv, SettledInv, TableInv, Quiet
               PROVE  TablesAgree
    BY DEF TablesAgree
  <2>1. \A h \in Handlers : pc[h] \in {"idle", "done"}
    BY DEF Quiet, InFlight
  <2>2. \A d \in Deciders : result[d] # "none" \/ reply[d] = "200" => Settled(d)
    BY DEF Settled
  <2>. QED
    BY <2>1, <2>2, Kinds DEF TableInv, SettledInv, DecisionInv, TablesAgree
<1>. QED
  BY <1>1, <1>2, <1>3, TypeCorrect, DecisionCorrect, ExclusiveCorrect,
     SettledCorrect, PTL
  DEF Spec

(* Clients that wait for each answer get it.                               *)
THEOREM TablesInAgreement == ASSUME OneAtATime PROVE Spec => []TablesAgree
BY OneInFlightCorrect, SerialIsExclusive, ExclusiveTables, PTL
=============================================================================
