---------------------------- MODULE GatewayProps ----------------------------
(***************************************************************************)
(* What the vault and the gateway over it promise.                         *)
(***************************************************************************)
EXTENDS Gateway

KeyOrNone == Key \cup {None}
RowType == [state: {"none", "live", "deleted"}, dek: KeyOrNone]
Work == [pc: {"idle", "create", "commit", "update", "put"}, secret: Secret \cup {None},
         dek: KeyOrNone, blob: KeyOrNone]
RouteRow == [state: {"none", "on", "off", "gone"}, agent: Agent \cup {None},
             pattern: Pattern \cup {None}, secret: Secret \cup {None}]
CallState == [pc: {"idle", "limit", "placeholder", "match", "secret", "blob", "forward"},
              agent: Agent \cup {None}, endpoint: Endpoint \cup {None},
              key: Route \cup {None}, route: Route \cup {None},
              secret: Secret \cup {None}, dek: KeyOrNone]

VaultTypeOK ==
    /\ row \in [Secret -> RowType]
    /\ blob \in [Secret -> KeyOrNone]
    /\ writer \in [Writer -> Work]
    /\ hurt \subseteq Secret

ProxyTypeOK ==
    /\ agentToken \in [AgentToken -> [state: {"none", "live", "ended"},
                                      agent: Agent \cup {None}]]
    /\ route \in [Route -> RouteRow]
    /\ limit \in [Agent -> [Pattern -> {"none", "open", "blocked"}]]
    /\ call \in [Call -> CallState]
    /\ served \in [Call -> [routes: SUBSET Route, secrets: SUBSET Secret, banned: BOOLEAN]]

DistinctPatterns ==
    \A r, x \in Route :
        r # x /\ route[r].agent # None /\ route[r].agent = route[x].agent
          => route[r].pattern # route[x].pattern

\* Rows of secrets, routes, limits and tokens, blobs, and the locals of handlers
\* and calls are well typed; the routes of an agent have distinct patterns, the
\* unique index of proxy_routes, also after an update moves one.
GatewayTypeOK == VaultTypeOK /\ ProxyTypeOK /\ DistinctPatterns

\* A live secret decrypts, between updates: the row and the blob are written to two
\* stores without a transaction and a client's key and blob are not checked, so this
\* fails after a creation or an update that brought what does not fit, and after an
\* update that was cut off or overlapped another, and for no other reason.
ReadableUnlessHurt ==
    \A s \in Secret \ hurt :
        Live(s) /\ Putting(s) = {} => row[s].dek # None /\ blob[s] = row[s].dek

\* What goes out with a secret goes out by a route of the calling agent that was
\* enabled since the call arrived, and with a secret that was not deleted before
\* it arrived, although token, route, row and blob are read one after the other.
InjectsOwnLive ==
    \A c \in Call : call[c].pc = "forward" /\ call[c].route # None =>
        /\ route[call[c].route].agent \in {call[c].agent, None}
        /\ call[c].route \in served[c].routes
        /\ call[c].secret \in served[c].secrets

\* An agent whose every matching limit blocks gets nothing forwarded, as long as
\* the limits stay and their query does not fail.
BlockHolds ==
    \A c \in Call : call[c].pc \notin {"idle", "limit"} => ~served[c].banned

-----------------------------------------------------------------------------
(* Why they hold: an inductive invariant                                   *)

\* A handler that creates a secret is alone with it.
WriterOK(h) ==
    LET w == writer[h] IN
    /\ w.pc # "idle" => w.secret \in Secret
    /\ w.pc \in {"create", "commit"} =>
         /\ row[w.secret].state = "none" /\ w.blob # None
         /\ \A g \in Writer \ {h} : writer[g].secret # w.secret
    /\ w.pc = "commit" => blob[w.secret] = w.blob

\* Unless the secret is hurt, one handler at most is about to put its blob, and the
\* blob it brings fits the key that is stored.
PutsFit ==
    \A s \in Secret \ hurt : \A h \in Putting(s) :
        Putting(s) = {h} /\ writer[h].blob = row[s].dek /\ row[s].dek # None

VaultInv == (\A h \in Writer : WriterOK(h)) /\ PutsFit /\ ReadableUnlessHurt

RoutesOK ==
    \A r \in Route : route[r].state \in {"on", "off"} =>
        route[r].agent \in Agent /\ route[r].pattern \in Pattern /\ route[r].secret \in Secret

TokensOK == \A t \in AgentToken : agentToken[t].state = "live" => agentToken[t].agent \in Agent

\* A call that has taken a route.
Routed(c) ==
    \/ call[c].pc \in {"secret", "blob"}
    \/ call[c].pc = "forward" /\ call[c].route # None

\* What a call has read still says what it needs.
CallOK(c) ==
    LET w == call[c] IN
    /\ w.pc # "idle" => w.agent \in Agent /\ w.endpoint \in Endpoint
    /\ w.pc = "placeholder" => w.key \in Route
    /\ w.pc \in {"limit", "placeholder", "match"} => w.route = None
    /\ Routed(c) =>
         /\ w.route \in Route /\ w.secret \in Secret
         /\ route[w.route].agent \in {w.agent, None}
         /\ w.route \in served[c].routes
         /\ w.pc # "secret" => w.secret \in served[c].secrets

\* The history of a call: what was enabled and not deleted since it arrived, and
\* whether limits that are still there block it.
ServedOK(c) ==
    /\ \A r \in served[c].routes : route[r].state # "none"
    /\ call[c].pc # "idle" =>
         /\ \A r \in Route : On(r) => r \in served[c].routes
         /\ \A s \in Secret : row[s].state # "deleted" => s \in served[c].secrets
    /\ call[c].pc = "limit" /\ served[c].banned => Banned(call[c].agent, call[c].endpoint)
    /\ call[c].pc \notin {"idle", "limit"} => ~served[c].banned

GatewayInv ==
    /\ GatewayTypeOK
    /\ VaultInv
    /\ RoutesOK
    /\ TokensOK
    /\ \A c \in Call : CallOK(c) /\ ServedOK(c)
=============================================================================
