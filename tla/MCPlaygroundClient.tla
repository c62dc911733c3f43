------------------------- MODULE MCPlaygroundClient -------------------------
(***************************************************************************)
(* A run that is approved up to twice, so that two invocations resume it   *)
(* and overlap, and a second run that is not approved; in the shorter      *)
(* instance the first run is approved once.                                *)
(***************************************************************************)
EXTENDS PlaygroundClient

CONSTANTS r1, r2, post1, approve1, again1, post2

ApprovedTwice == {post1, approve1, again1, post2}
ApprovedOnce == {post1, approve1, post2}

MCRuns == {r1, r2}
MCRunOf == [m \in Emitters |-> IF m = post2 THEN r2 ELSE r1]
MCFirst == [r \in Runs |-> IF r = r2 THEN post2 ELSE post1]
MCEventCount == [m \in Emitters |-> 1]
=============================================================================
