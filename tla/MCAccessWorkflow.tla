--------------------------- MODULE MCAccessWorkflow ---------------------------
(***************************************************************************)
(* Small instances of the access-request workflow for TLC.                 *)
(***************************************************************************)
EXTENDS AccessWorkflowProps, TLC

CONSTANTS owner, approver, agent, shared, private

\* One secret of a project that the approver and the agent belong to, one
\* without a project, of the same owner.
MCOwner == [s \in Secret |-> owner]
MCLegacy == Secret \cap {private}
MCMember == [s \in Secret |-> IF s = shared THEN Principal ELSE {}]
MCApproverOnly == [s \in Secret |-> {approver}]
MCAgentsOnly == [s \in Secret |-> Agent]
MCApprovers == [s \in Secret |-> IF s = shared THEN <<approver>> ELSE <<>>]
MCNone == [s \in Secret |-> <<>>]

Tier1 == [auto |-> TRUE, perDay |-> 2, coolDown |-> 0, maxDur |-> 2,
          singleUse |-> FALSE, notify |-> FALSE]
Tier3 == [auto |-> FALSE, perDay |-> 1, coolDown |-> 1, maxDur |-> 1,
          singleUse |-> TRUE, notify |-> TRUE]
Quiet == [Tier3 EXCEPT !.notify = FALSE]
Daily == [Quiet EXCEPT !.coolDown = 0]
Paced == [auto |-> TRUE, perDay |-> 2, coolDown |-> 1, maxDur |-> 1,
          singleUse |-> TRUE, notify |-> FALSE]

TierPolicies == {Tier1, Quiet}
LoudPolicies == {Tier1, Tier3}
LimitPolicies == {Daily, Paced}
LoudPolicy == {Tier3}

Symmetry == Permutations(Worker) \cup Permutations(RequestId)
              \cup Permutations(SessionId)
=============================================================================
