------------------------------- MODULE Gateway -------------------------------
(***************************************************************************)
(* The credential gateway, server/internal/gateway, over the vault: agent  *)
(* tokens, proxy routes, endpoint limits, and proxied calls that get a     *)
(* secret injected.                                                        *)
(*                                                                         *)
(* A Call is a goroutine of the proxy.  Each of its steps is one read of   *)
(* PostgreSQL or MinIO; routes, limits, tokens and the secret may change   *)
(* between any two.  A host with a path is an Endpoint; TunnelEnd is what  *)
(* CONNECT asks about.                                                     *)
(***************************************************************************)
EXTENDS VaultSecrets, Naturals, FiniteSets

CONSTANTS
    Agent,         \* agent identities
    AgentToken,    \* ids of agent_tokens rows
    Route,         \* ids of proxy_routes rows; a route's placeholder is its id
    Endpoint,      \* hosts with paths
    TunnelEnd,     \* a host with the path "/*"
    Pattern,       \* host and path patterns: the endpoints covered, the length
    Call,          \* goroutines of the proxy
    MaxLimits      \* bound on limits of one agent

ASSUME GatewayAssumption ==
    /\ None \notin Agent \cup Route
    /\ TunnelEnd \in Endpoint
    /\ \A p \in Pattern : p.covers \subseteq Endpoint /\ p.length \in Nat
    /\ MaxLimits \in Nat

VARIABLES
    agentToken,    \* agent_tokens
    route,         \* proxy_routes
    limit,         \* proxy_endpoint_limits: by agent and pattern
    call,          \* what each goroutine holds in its locals
    served         \* history: routes enabled, secrets not deleted, and limits
                   \* as they were, since each call arrived

gatewayVars == <<agentToken, route, limit, call, served>>
vars == <<vaultVars, gatewayVars>>

NoToken == [state |-> "none", agent |-> None]
NoRoute == [state |-> "none", agent |-> None, pattern |-> None, secret |-> None]
NoCall == [pc |-> "idle", agent |-> None, endpoint |-> None, key |-> None,
           route |-> None, secret |-> None, dek |-> None]
Unserved == [routes |-> {}, secrets |-> {}, banned |-> FALSE]

Init ==
    /\ VaultInit
    /\ agentToken = [t \in AgentToken |-> NoToken]
    /\ route = [r \in Route |-> NoRoute]
    /\ limit = [a \in Agent |-> [p \in Pattern |-> "none"]]
    /\ call = [c \in Call |-> NoCall]
    /\ served = [c \in Call |-> Unserved]

Covers(p, e) == e \in p.covers

\* The limits that match: FindEndpointLimit takes the first in no stated order.
Matching(a, e) == {p \in Pattern : limit[a][p] # "none" /\ Covers(p, e)}

\* A call of this agent there meets limits, and every one blocks.
Banned(a, e) == Matching(a, e) # {} /\ \A p \in Matching(a, e) : limit[a][p] = "blocked"

On(r) == route[r].state = "on"

-----------------------------------------------------------------------------
(* Tokens, routes and limits                                               *)

IssueToken(t, a) ==
    /\ agentToken[t].state = "none"
    /\ agentToken' = [agentToken EXCEPT ![t] = [state |-> "live", agent |-> a]]
    /\ UNCHANGED <<route, limit, call, served>>

\* Revoked, or grown too old: ValidateToken asks for both.
EndToken(t) ==
    /\ agentToken[t].state = "live"
    /\ agentToken' = [agentToken EXCEPT ![t].state = "ended"]
    /\ UNCHANGED <<route, limit, call, served>>

\* Mutant: only enabled routes count.
FreeEnabled(r, a, p) ==
    \A x \in Route \ {r} : On(x) /\ route[x].agent = a => route[x].pattern # p

\* UNIQUE (agent_id, host_pattern, path_pattern), disabled routes included.
FreePattern(r, a, p) ==
    \A x \in Route \ {r} : route[x].agent = a => route[x].pattern # p

\* Any secret that exists may be named, a deleted one as well.
CreateRoute(r, a, p, s) ==
    /\ route[r].state = "none"
    /\ FreePattern(r, a, p)
    /\ row[s].state # "none"
    /\ route' = [route EXCEPT ![r] = [state |-> "on", agent |-> a, pattern |-> p, secret |-> s]]
    /\ served' = [c \in Call |-> [served[c] EXCEPT !.routes = @ \cup {r}]]
    /\ UNCHANGED <<agentToken, limit, call>>

\* Everything but the agent and the placeholder is written.
UpdateRoute(r, p, s, enabled) ==
    /\ route[r].state \in {"on", "off"}
    /\ FreePattern(r, route[r].agent, p)
    /\ row[s].state # "none"
    /\ route' = [route EXCEPT ![r].state = IF enabled THEN "on" ELSE "off",
                              ![r].pattern = p, ![r].secret = s]
    /\ served' = [c \in Call |->
         [served[c] EXCEPT !.routes = IF enabled THEN @ \cup {r} ELSE @]]
    /\ UNCHANGED <<agentToken, limit, call>>

DeleteRoute(r) ==
    /\ route[r].state \in {"on", "off"}
    /\ route' = [route EXCEPT ![r] = [NoRoute EXCEPT !.state = "gone"]]
    /\ UNCHANGED <<agentToken, limit, call, served>>

\* A limit of any kind ends what the ghost says of calls under way.
SetLimit(a, p, l) ==
    /\ limit' = [limit EXCEPT ![a][p] = l]
    /\ served' = [c \in Call |->
         IF call[c].agent = a THEN [served[c] EXCEPT !.banned = FALSE] ELSE served[c]]
    /\ UNCHANGED <<agentToken, route, call>>

CreateEndpointLimit(a, p, blocked) ==
    /\ limit[a][p] = "none"
    /\ Cardinality({x \in Pattern : limit[a][x] # "none"}) < MaxLimits
    /\ SetLimit(a, p, IF blocked THEN "blocked" ELSE "open")

DeleteEndpointLimit(a, p) ==
    /\ limit[a][p] # "none"
    /\ SetLimit(a, p, "none")

-----------------------------------------------------------------------------
(* A proxied call                                                          *)

Goto(c, pc) == call' = [call EXCEPT ![c].pc = pc]

\* Refused, failed, or answered.
End(c) ==
    /\ call' = [call EXCEPT ![c] = NoCall]
    /\ served' = [served EXCEPT ![c] = Unserved]

\* authenticateAgent.  The headers hold a placeholder, or do not.
Authenticate(c, t, e, k) ==
    LET a == agentToken[t].agent IN
    /\ call[c].pc = "idle"
    /\ agentToken[t].state = "live"
    /\ call' = [call EXCEPT ![c] =
         [NoCall EXCEPT !.pc = "limit", !.agent = a, !.endpoint = e, !.key = k]]
    /\ served' = [served EXCEPT ![c] =
         [routes |-> {r \in Route : On(r)}, banned |-> Banned(a, e),
          secrets |-> {s \in Secret : row[s].state # "deleted"}]]
    /\ UNCHANGED <<agentToken, route, limit>>

\* Where a call goes that nothing blocks: a tunnel carries no credential.
AfterLimit(c) ==
    IF call[c].endpoint = TunnelEnd THEN "forward"
    ELSE IF call[c].key = None THEN "match" ELSE "placeholder"

\* Mutant: only a limit of the whole host blocks.
BlockedWhole(a, p) == limit[a][p] = "blocked" /\ p.covers = Endpoint

Blocked(a, p) == limit[a][p] = "blocked"

\* One matching limit decides.  A query that fails counts as none.
CheckLimit(c) ==
    LET a == call[c].agent
        M == Matching(a, call[c].endpoint)
    IN
    /\ call[c].pc = "limit"
    /\ \/ (\E p \in M : Blocked(a, p)) /\ End(c)
       \/ (M = {} \/ \E p \in M : ~Blocked(a, p)) /\ Goto(c, AfterLimit(c)) /\ UNCHANGED served
       \/ Faults /\ Goto(c, AfterLimit(c)) /\ served' = [served EXCEPT ![c].banned = FALSE]
    /\ UNCHANGED <<agentToken, route, limit>>

\* The route a placeholder leads to must be the agent's own.
Owns(c, r) == On(r) /\ route[r].agent = call[c].agent

Take(c, r) ==
    call' = [call EXCEPT ![c].pc = "secret", ![c].route = r, ![c].secret = route[r].secret]

FindByPlaceholder(c) ==
    LET r == call[c].key IN
    /\ call[c].pc = "placeholder"
    /\ \/ Owns(c, r) /\ Take(c, r)
       \/ (~Owns(c, r) \/ Faults) /\ Goto(c, "match")
    /\ UNCHANGED <<agentToken, route, limit, served>>

\* The enabled routes of the agent for the endpoint, and the longest of them.
Routes(c) == {r \in Route : /\ On(r) /\ route[r].agent = call[c].agent
                            /\ Covers(route[r].pattern, call[c].endpoint)}
Longest(R) == {r \in R : \A x \in R : route[x].pattern.length <= route[r].pattern.length}

\* Without a route the call goes out as it came.
FindMatchingRoute(c) ==
    /\ call[c].pc = "match"
    /\ \/ \E r \in Longest(Routes(c)) : Take(c, r)
       \/ (Routes(c) = {} \/ Faults) /\ Goto(c, "forward")
    /\ UNCHANGED <<agentToken, route, limit, served>>

\* Mutant: a deleted secret is found.
FoundEver(s) == row[s].state # "none"

Found(s) == Live(s)

\* decryptSecret: the row, then the blob.  Without either the call fails.
GetSecretByID(c) ==
    LET s == call[c].secret IN
    /\ call[c].pc = "secret"
    /\ IF Found(s) /\ row[s].dek # None
       THEN /\ call' = [call EXCEPT ![c].pc = "blob", ![c].dek = row[s].dek]
            /\ UNCHANGED served
       ELSE End(c)
    /\ UNCHANGED <<agentToken, route, limit>>

GetBlob(c) ==
    /\ call[c].pc = "blob"
    /\ IF blob[call[c].secret] = call[c].dek
       THEN Goto(c, "forward") /\ UNCHANGED served
       ELSE End(c)
    /\ UNCHANGED <<agentToken, route, limit>>

\* The request goes out, with the secret if there is a route.
Forward(c) ==
    /\ call[c].pc = "forward"
    /\ End(c)
    /\ UNCHANGED <<agentToken, route, limit>>

\* The caller goes away, or a statement of decryptSecret fails.
Abort(c) ==
    /\ Faults
    /\ call[c].pc # "idle"
    /\ End(c)
    /\ UNCHANGED <<agentToken, route, limit>>

-----------------------------------------------------------------------------
Manage ==
    \/ \E t \in AgentToken : (\E a \in Agent : IssueToken(t, a)) \/ EndToken(t)
    \/ \E r \in Route, p \in Pattern, s \in Secret :
        \/ \E a \in Agent : CreateRoute(r, a, p, s)
        \/ \E enabled \in BOOLEAN : UpdateRoute(r, p, s, enabled)
    \/ \E r \in Route : DeleteRoute(r)
    \/ \E a \in Agent, p \in Pattern :
        \/ \E blocked \in BOOLEAN : CreateEndpointLimit(a, p, blocked)
        \/ DeleteEndpointLimit(a, p)

Proxy(c) ==
    \/ \E t \in AgentToken, e \in Endpoint, k \in Route \cup {None} : Authenticate(c, t, e, k)
    \/ CheckLimit(c) \/ FindByPlaceholder(c) \/ FindMatchingRoute(c)
    \/ GetSecretByID(c) \/ GetBlob(c) \/ Forward(c) \/ Abort(c)

Next ==
    \/ VaultNext /\ UNCHANGED gatewayVars
    \/ (Manage \/ \E c \in Call : Proxy(c)) /\ UNCHANGED vaultVars

Spec == Init /\ [][Next]_vars
=============================================================================
