----------------------------- MODULE AccessGrant -----------------------------
(***************************************************************************)
(* What the approval workflow promises about one access request, with no   *)
(* handlers, rows or clocks: a request is asked for, decided once, opened  *)
(* once as a credential session, used only while that session is open, and *)
(* closed for good.  AccessWorkflow is shown to implement this module.     *)
(***************************************************************************)
EXTENDS Naturals

CONSTANT RequestId   \* identifiers of access requests

VARIABLES
    phase,           \* where each request is in its life
    uses             \* how many times its credential was fetched

grantVars == <<phase, uses>>

Phases == {"none", "pending", "granted", "refused", "live", "closed"}

GrantInit ==
    /\ phase = [q \in RequestId |-> "none"]
    /\ uses = [q \in RequestId |-> 0]

\* A request is born undecided, or granted by an auto-approving policy.
Ask(q) ==
    /\ phase[q] = "none"
    /\ \E p \in {"pending", "granted"} : phase' = [phase EXCEPT ![q] = p]
    /\ UNCHANGED uses

\* An undecided request is decided, one way, once.
Settle(q) ==
    /\ phase[q] = "pending"
    /\ \E p \in {"granted", "refused"} : phase' = [phase EXCEPT ![q] = p]
    /\ UNCHANGED uses

\* A granted request is opened as one live credential session.
Open(q) ==
    /\ phase[q] = "granted"
    /\ phase' = [phase EXCEPT ![q] = "live"]
    /\ UNCHANGED uses

\* A fetch counts as a use, and only a live session can be fetched.
Use(q) ==
    /\ phase[q] = "live"
    /\ uses' = [uses EXCEPT ![q] = @ + 1]
    /\ UNCHANGED phase

\* A revoked session is closed; no action leads out of "closed".
Close(q) ==
    /\ phase[q] = "live"
    /\ phase' = [phase EXCEPT ![q] = "closed"]
    /\ UNCHANGED uses

GrantNext ==
    \E q \in RequestId : Ask(q) \/ Settle(q) \/ Open(q) \/ Use(q) \/ Close(q)

GrantSpec == GrantInit /\ [][GrantNext]_grantVars
=============================================================================
