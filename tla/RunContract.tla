---------------------------- MODULE RunContract ----------------------------
(***************************************************************************)
(* What one agent run promises to the person who has to approve its tool,  *)
(* independent of the graph, the API and the database that realise it:     *)
(* docs/architecture.md, "Data Flow", items 7 and 8.                        *)
(*                                                                         *)
(*   - the tool of a run is executed at most once;                         *)
(*   - it is never executed while a decision is outstanding or after the   *)
(*     request was denied;                                                 *)
(*   - approval is asked at most once, before the tool is executed, and    *)
(*     each request gets one decision.                                     *)
(***************************************************************************)

VARIABLES
  phase,     \* "working" in the graph, "waiting" for a decision, or "over"
  approval,  \* the one approval request of the run
  executions \* how often the body of the tool was executed

contractVars == <<phase, approval, executions>>

ContractTypeOK ==
  /\ phase \in {"working", "waiting", "over"}
  /\ approval \in {"none", "pending", "approved", "denied"}
  /\ executions \in {0, 1}

ContractInit ==
  /\ phase = "working"
  /\ approval = "none"
  /\ executions = 0

(* The tool runs, either because nobody asked for approval or because the  *)
(* request was granted.                                                    *)
Execute ==
  /\ phase = "working"
  /\ executions = 0
  /\ approval \in {"none", "approved"}
  /\ executions' = 1
  /\ UNCHANGED <<phase, approval>>

(* The run pauses and leaves a pending request behind. *)
Ask ==
  /\ phase = "working"
  /\ approval = "none"
  /\ executions = 0
  /\ phase' = "waiting"
  /\ approval' = "pending"
  /\ UNCHANGED executions

Approve ==
  /\ phase = "waiting"
  /\ phase' = "working"
  /\ approval' = "approved"
  /\ UNCHANGED executions

Deny ==
  /\ phase = "waiting"
  /\ phase' = "over"
  /\ approval' = "denied"
  /\ UNCHANGED executions

(* The run ends, whatever it has or has not done. *)
Finish ==
  /\ phase = "working"
  /\ phase' = "over"
  /\ UNCHANGED <<approval, executions>>

ContractNext == Execute \/ Ask \/ Approve \/ Deny \/ Finish

ContractSpec == ContractInit /\ [][ContractNext]_contractVars
=============================================================================
