------------------------------ MODULE MCGateway ------------------------------
(***************************************************************************)
(* Small instances of the vault and the gateway for TLC.                   *)
(***************************************************************************)
EXTENDS GatewayProps, TLC

\* A host with one path: the host as a whole, or the path alone.
CONSTANTS Host, Path
Ends == {Host, Path}
WholeAndPath == {[covers |-> Ends, length |-> 2], [covers |-> {Path}, length |-> 3]}

\* Bound: a behaviour is followed while it is about the vault alone, or about calls
\* with one writer at a time and either limits or routes.
NoLimits == \A a \in Agent, p \in Pattern : limit[a][p] = "none"
NoRoutes == \A r \in Route : route[r].state = "none"
Focus ==
    \/ NoLimits /\ NoRoutes /\ \A t \in AgentToken : agentToken[t].state = "none"
    \/ /\ Cardinality({h \in Writer : writer[h].pc # "idle"}) <= 1
       /\ NoLimits \/ NoRoutes

Symmetry == Permutations(Key) \cup Permutations(Writer)
            \cup Permutations(Agent) \cup Permutations(Route)
=============================================================================
