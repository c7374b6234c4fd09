---------------------------- MODULE AccessWorkflow ----------------------------
(***************************************************************************)
(* The access-request workflow of server/internal/workflow: requests,      *)
(* decisions, action links and credential sessions, as rows of the shared  *)
(* database, and the HTTP handlers that read and write them.               *)
(*                                                                         *)
(* Every handler runs in a goroutine of its own and issues one SQL         *)
(* statement at a time, none of them in a transaction.  A Worker is such a *)
(* goroutine; each of its steps is one write, or one read on which a later *)
(* write depends, so the steps of concurrent handlers interleave as the    *)
(* statements do.  Reads that follow one another are one step where no     *)
(* property can tell them apart (CreateRequest, BeginDecision,             *)
(* OpenSecret): what they read is fixed (owner, membership, approvers, a   *)
(* row's requester and snapshot), or it is read once, so that a change     *)
(* between them is as good as one before or after them all.                *)
(***************************************************************************)
EXTENDS Naturals, Sequences, FiniteSets

CONSTANTS
    User,        \* human users
    Agent,       \* AI agents
    Secret,      \* secrets
    RequestId,   \* ids of access_requests rows
    SessionId,   \* ids of credential_sessions rows
    Worker,      \* handler goroutines
    None,        \* SQL NULL / the empty string
    System,      \* the actor names "email-action", "slack:..", "telegram-action"
    Owner,       \* secrets.user_id
    Legacy,      \* secrets without a project
    Member,      \* users and agents of a secret's project
    Approvers,   \* approvers configured for a secret, in step order
    Policy,      \* policies that may be bound to a secret
    Default,     \* the credential type's default policy
    Duration,    \* durations a caller may ask for, 0 when left out
    Day,         \* the 24 hours of the daily limit, in clock ticks
    LinkTTL,     \* life of an action link
    MaxTime,     \* bound on the clock
    MaxUses,     \* bound on the uses of a session when a fetch starts
    Faults       \* whether statements fail and request contexts are cancelled

Principal == User \cup Agent

PolicyRecord == [auto: BOOLEAN, perDay: Nat, coolDown: Nat, maxDur: Nat \ {0},
                 singleUse: BOOLEAN, notify: BOOLEAN]

ASSUME IdentityAssumption ==
    /\ None \notin Principal \cup RequestId \cup Secret
    /\ System \notin Principal \cup {None}
    /\ User \cap Agent = {}
    /\ Owner \in [Secret -> User]
    /\ Legacy \subseteq Secret
    /\ Member \in [Secret -> SUBSET Principal]
    /\ Approvers \in [Secret -> Seq(User)]

ASSUME BoundAssumption ==
    /\ Policy \subseteq PolicyRecord /\ Default \in Policy
    /\ Duration \subseteq Nat
    /\ Day \in Nat /\ LinkTTL \in Nat /\ MaxTime \in Nat /\ MaxUses \in Nat
    /\ Faults \in BOOLEAN
    /\ IsFiniteSet(Worker)

VARIABLES
    now,         \* the database clock
    policy,      \* secret -> the policy its binding resolves to
    deleted,     \* secrets with deleted_at set
    request,     \* access_requests with their approval_steps
    session,     \* credential_sessions
    link,        \* request_action_tokens: request -> action -> token
    worker,      \* what each handler goroutine holds in its locals
    released,    \* history: values handed out by GET /credentials/{id}
    listed,      \* history: requests answered by GET /credentials/active
    kept,        \* history: fetches of a single use whose revocation failed
    stranded     \* history: approved requests whose credential was not issued

vars == <<now, policy, deleted, request, session, link, worker, released, listed,
          kept, stranded>>
rows == <<policy, deleted, request, session, link>>
history == <<released, listed, kept, stranded>>

Decision == {"approve", "reject"}

NoPolicy == [auto |-> FALSE, perDay |-> 0, coolDown |-> 0, maxDur |-> 1,
             singleUse |-> FALSE, notify |-> FALSE]
NoRequest == [status |-> "none", user |-> None, agent |-> None, secret |-> None,
              dur |-> 0, pol |-> NoPolicy, createdAt |-> 0, decidedBy |-> None,
              expiresAt |-> 0, steps |-> {}]
NoSession == [status |-> "none", req |-> None, issuedAt |-> 0, expiresAt |-> 0,
              uses |-> 0]
Idle == [pc |-> "idle", op |-> "none", user |-> None, agent |-> None,
         req |-> None, secret |-> None, dur |-> 0, pol |-> NoPolicy,
         auto |-> FALSE, todo |-> <<>>, value |-> FALSE]

RequestStatus == {"none", "pending", "approved", "rejected", "revoked"}
SessionStatus == {"none", "active", "revoked"}
LinkState == {"none", "live", "used"}
PC == {"idle", "daily", "coolDown", "insert", "steps", "autoIssue", "notify",
       "decide", "issue", "bump", "open", "revokeSession", "revokeRequest",
       "reply"}
Op == Decision \cup {"none", "create", "get", "revoke"}

RequestRow ==
    [status: RequestStatus, user: User \cup {None}, agent: Agent \cup {None},
     secret: Secret \cup {None}, dur: Nat, pol: PolicyRecord, createdAt: Nat,
     decidedBy: User \cup {None}, expiresAt: Nat, steps: SUBSET User]
SessionRow ==
    [status: SessionStatus, req: RequestId \cup {None}, issuedAt: Nat,
     expiresAt: Nat, uses: Nat]
LinkRow == [state: LinkState, expiresAt: Nat]
Handler ==
    [pc: PC, op: Op, user: User \cup {None, System}, agent: Agent \cup {None},
     req: RequestId \cup {None}, secret: Secret \cup {None}, dur: Nat,
     pol: PolicyRecord, auto: BOOLEAN, todo: Seq(User), value: BOOLEAN]

TypeOK ==
    /\ now \in Nat
    /\ policy \in [Secret -> Policy]
    /\ deleted \subseteq Secret
    /\ request \in [RequestId -> RequestRow]
    /\ session \in [SessionId -> SessionRow]
    /\ link \in [RequestId -> [Decision -> LinkRow]]
    /\ worker \in [Worker -> Handler]
    /\ released \in [RequestId -> Nat]
    /\ listed \subseteq RequestId
    /\ kept \in [RequestId -> Nat]
    /\ stranded \subseteq RequestId

Init ==
    /\ now = 1
    /\ policy \in [Secret -> Policy]
    /\ deleted = {}
    /\ request = [q \in RequestId |-> NoRequest]
    /\ session = [x \in SessionId |-> NoSession]
    /\ link = [q \in RequestId |-> [a \in Decision |-> [state |-> "none", expiresAt |-> 0]]]
    /\ worker = [h \in Worker |-> Idle]
    /\ released = [q \in RequestId |-> 0]
    /\ listed = {}
    /\ kept = [q \in RequestId |-> 0]
    /\ stranded = {}

-----------------------------------------------------------------------------
(* What the handlers look up                                               *)

Exists(q) == request[q].status # "none"

\* A project's secret is open to its members and agents, one without a
\* project to its owner; a human may name an agent as the requester.
MayRequest(u, a, s) ==
    IF s \in Legacy THEN u = Owner[s]
    ELSE IF u = None THEN a \in Member[s]
    ELSE u \in Member[s] /\ (a # None => a \in Member[s])

\* Mutant: every member of the project may decide.
MayDecideIfMember(u, q) == u \in Member[request[q].secret]

\* Any row in approval_steps counts, whatever its order or status.
MayDecide(u, q) ==
    \/ u \in request[q].steps
    \/ request[q].secret \notin deleted /\ u = Owner[request[q].secret]

IsRequester(c, q) == c # None /\ c \in {request[q].user, request[q].agent}

\* The requests that count against the caller's limits on this secret.
CountedSince(w, t) ==
    {q \in RequestId :
        /\ Exists(q)
        /\ request[q].secret = w.secret
        /\ IF w.user # None THEN request[q].user = w.user
                            ELSE request[q].agent = w.agent
        /\ request[q].createdAt >= t}

Ago(d) == IF d >= now THEN 0 ELSE now - d
Recent(w) == CountedSince(w, Ago(w.pol.coolDown))
Today(w) == CountedSince(w, Ago(Day))

\* Reading a policy falls back to the default when the query fails.
Resolve(p) == IF Faults THEN {p, Default} ELSE {p}

\* Approvers come from a second query, whose failure means none.
ResolveApprovers(s) == IF Faults THEN {Approvers[s], <<>>} ELSE {Approvers[s]}

\* The duration granted: what was asked for, at most what the policy allows.
Capped(d, p) == IF d = 0 \/ d > p.maxDur THEN p.maxDur ELSE d

Sessions(q) == {x \in SessionId : session[x].req = q}
Active(q) == {x \in Sessions(q) : session[x].status = "active"}
\* Mutant: the expiry is checked, the status is not.
UsableIfUnexpired(q) == {x \in Sessions(q) : session[x].expiresAt > now}
Usable(q) == {x \in Active(q) : session[x].expiresAt > now}

Goto(h, pc) == worker' = [worker EXCEPT ![h].pc = pc]
Finish(h) == worker' = [worker EXCEPT ![h] = Idle]

-----------------------------------------------------------------------------
(* POST /secrets/{secret_id}/access-requests                               *)

\* Authorise the caller, resolve the effective policy, cap the duration.
CreateRequest(h, u, a, s, d) ==
    /\ worker[h].pc = "idle"
    /\ s \notin deleted
    /\ u # None \/ a # None
    /\ MayRequest(u, a, s)
    /\ \E p \in Resolve(policy[s]), todo \in ResolveApprovers(s) :
         worker' = [worker EXCEPT ![h] =
           [Idle EXCEPT !.pc = "daily", !.op = "create", !.user = u, !.agent = a,
                        !.secret = s, !.pol = p, !.dur = Capped(d, p),
                        !.auto = p.auto, !.todo = todo]]
    /\ UNCHANGED <<now, rows, history>>

\* Mutant: off by one.
CheckDailyLate(h) ==
    LET w == worker[h] IN
    /\ w.pc = "daily"
    /\ IF Cardinality(Today(w)) > w.pol.perDay THEN Finish(h)
       ELSE Goto(h, IF w.pol.coolDown = 0 THEN "insert" ELSE "coolDown")
    /\ UNCHANGED <<now, rows, history>>

CheckDaily(h) ==
    LET w == worker[h] IN
    /\ w.pc = "daily"
    /\ IF Cardinality(Today(w)) >= w.pol.perDay THEN Finish(h)
       ELSE Goto(h, IF w.pol.coolDown = 0 THEN "insert" ELSE "coolDown")
    /\ UNCHANGED <<now, rows, history>>

CheckCoolDown(h) ==
    LET w == worker[h] IN
    /\ w.pc = "coolDown"
    /\ IF Recent(w) # {} THEN Finish(h)
       ELSE Goto(h, "insert")
    /\ UNCHANGED <<now, rows, history>>

\* Mutant: nothing is issued at once.
AfterStepsNotify(w) == "notify"

\* What CreateRequest does once the approval steps are in.
AfterSteps(w) == IF w.auto THEN "autoIssue" ELSE "notify"

InsertRequest(h) ==
    LET w == worker[h] IN
    /\ w.pc = "insert"
    /\ \E q \in RequestId :
        /\ ~Exists(q)
        /\ request' = [request EXCEPT ![q] =
             [NoRequest EXCEPT !.status = IF w.auto THEN "approved" ELSE "pending",
                               !.user = w.user, !.agent = w.agent,
                               !.secret = w.secret, !.dur = w.dur, !.pol = w.pol,
                               !.createdAt = now]]
        /\ worker' = [worker EXCEPT ![h].req = q,
                        ![h].pc = IF w.todo = <<>> THEN AfterSteps(w) ELSE "steps"]
    /\ UNCHANGED <<now, policy, deleted, session, link, history>>

\* One INSERT per configured approver, each visible as soon as it is done.
InsertStep(h) ==
    LET w == worker[h] IN
    /\ w.pc = "steps"
    /\ request' = [request EXCEPT ![w.req].steps = @ \cup {Head(w.todo)}]
    /\ worker' = [worker EXCEPT ![h].todo = Tail(@),
                    ![h].pc = IF Len(w.todo) = 1 THEN AfterSteps(w) ELSE "steps"]
    /\ UNCHANGED <<now, policy, deleted, session, link, history>>

\* CredentialManager.IssueCredential: a row of its own, active from now on.
InsertSession(q) ==
    \E x \in SessionId :
        /\ session[x].status = "none"
        /\ session' = [session EXCEPT ![x] =
             [status |-> "active", req |-> q, issuedAt |-> now,
              expiresAt |-> now + request[q].dur, uses |-> 0]]

\* The request that h has still to issue a credential for.
Owed(h) ==
    IF \/ worker[h].pc \in {"issue", "autoIssue"}
       \/ worker[h].pc = "steps" /\ worker[h].auto
    THEN {worker[h].req} ELSE {}

\* An auto-approved request gets its session at once; a failure is logged only.
AutoIssue(h) ==
    /\ worker[h].pc = "autoIssue"
    /\ \/ InsertSession(worker[h].req) /\ UNCHANGED stranded
       \/ Faults /\ UNCHANGED session /\ stranded' = stranded \cup Owed(h)
    /\ Goto(h, "notify")
    /\ UNCHANGED <<now, policy, deleted, request, link, released, listed, kept>>

Sent == IF Faults THEN {Decision, {"approve"}} ELSE {Decision}

\* NotifyApprovalNeeded: an approve link, then a reject link, when the
\* request's policy snapshot asks for it; a failure leaves the first one only.
Notify(h) ==
    LET w == worker[h]
        fresh == [state |-> "live", expiresAt |-> now + LinkTTL]
    IN
    /\ w.pc = "notify"
    /\ \E p \in Resolve(w.pol), sent \in Sent :
         link' = IF p.notify
                 THEN [link EXCEPT ![w.req] =
                        [a \in Decision |-> IF a \in sent THEN fresh ELSE @[a]]]
                 ELSE link
    /\ Finish(h)
    /\ UNCHANGED <<now, policy, deleted, request, session, history>>

-----------------------------------------------------------------------------
(* POST /access-requests/{id}/approve and /reject, links and chat buttons  *)

\* Approve and Reject first check that the caller may decide.
BeginDecision(h, u, q, a) ==
    /\ worker[h].pc = "idle"
    /\ Exists(q)
    /\ MayDecide(u, q)
    /\ worker' = [worker EXCEPT ![h] =
         [Idle EXCEPT !.pc = "decide", !.op = a, !.user = u, !.req = q]]
    /\ UNCHANGED <<now, rows, history>>

\* The link is consumed first; only then is its action compared with the URL's.
RedeemActionToken(h, q, a) ==
    /\ worker[h].pc = "idle"
    /\ link[q][a].state = "live"
    /\ link[q][a].expiresAt > now
    /\ link' = [link EXCEPT ![q][a].state = "used"]
    /\ \E action \in Decision :
         IF action = a
         THEN worker' = [worker EXCEPT ![h] =
                [Idle EXCEPT !.pc = "decide", !.op = a, !.user = System, !.req = q]]
         ELSE UNCHANGED worker
    /\ UNCHANGED <<now, policy, deleted, request, session, history>>

\* A Slack or Telegram button: no token, the webhook's signature is enough.
ChatDecision(h, q, a) ==
    /\ worker[h].pc = "idle"
    /\ Exists(q)
    /\ worker' = [worker EXCEPT ![h] =
         [Idle EXCEPT !.pc = "decide", !.op = a, !.user = System, !.req = q]]
    /\ UNCHANGED <<now, rows, history>>

\* Mutants: the UPDATE loses its status condition, or decided_by takes any text.
DecidableAlways(q, actor) == actor \in User
DecidableByAnyone(q, actor) == request[q].status = "pending"

\* UPDATE .. WHERE status = 'pending'.  decided_by is a UUID column that
\* references users, so the statement fails for any other actor.
Decidable(q, actor) == request[q].status = "pending" /\ actor \in User

Decide(h) ==
    LET w == worker[h]
        q == w.req
    IN
    /\ w.pc = "decide"
    /\ IF ~Decidable(q, w.user) THEN UNCHANGED request /\ Finish(h)
       ELSE IF w.op = "approve"
       THEN /\ request' = [request EXCEPT
                 ![q].status = "approved", ![q].decidedBy = w.user,
                 ![q].expiresAt = now + request[q].dur]
            /\ Goto(h, "issue")
       ELSE /\ request' = [request EXCEPT
                 ![q].status = "rejected", ![q].decidedBy = w.user]
            /\ Finish(h)
    /\ UNCHANGED <<now, policy, deleted, session, link, history>>

\* The credential of an approved request; when the INSERT fails, nobody retries.
IssueCredential(h) ==
    /\ worker[h].pc = "issue"
    /\ InsertSession(worker[h].req)
    /\ Finish(h)
    /\ UNCHANGED <<now, policy, deleted, request, link, history>>

-----------------------------------------------------------------------------
(* GET /credentials/{id}, GET /credentials/active                          *)

GetCredential(h, c, q) ==
    /\ worker[h].pc = "idle"
    /\ Exists(q)
    /\ IsRequester(c, q)
    /\ \A x \in Sessions(q) : session[x].uses < MaxUses
    /\ worker' = [worker EXCEPT ![h] =
         [Idle EXCEPT !.pc = "bump", !.op = "get", !.req = q,
                      !.secret = request[q].secret]]
    /\ UNCHANGED <<now, rows, history>>

\* Mutant: the number of updated rows is not looked at.
BumpUsageBlind(h) ==
    LET q == worker[h].req IN
    /\ worker[h].pc = "bump"
    /\ session' = [x \in SessionId |->
         IF x \in Usable(q) THEN [session[x] EXCEPT !.uses = @ + 1] ELSE session[x]]
    /\ Goto(h, "open")
    /\ UNCHANGED <<now, policy, deleted, request, link, history>>

\* UPDATE .. SET usage_count = usage_count + 1 on the live sessions.
BumpUsage(h) ==
    LET q == worker[h].req IN
    /\ worker[h].pc = "bump"
    /\ session' = [x \in SessionId |->
         IF x \in Usable(q) THEN [session[x] EXCEPT !.uses = @ + 1] ELSE session[x]]
    /\ IF Usable(q) = {} THEN Finish(h) ELSE Goto(h, "open")
    /\ UNCHANGED <<now, policy, deleted, request, link, history>>

\* The session of a single use stays open.
Keep(q) == kept' = IF request[q].pol.singleUse THEN [kept EXCEPT ![q] = @ + 1] ELSE kept

\* Decrypt the value and, under a single-use policy, revoke.  A secret that is
\* deleted, or whose row cannot be read, yields no value and no revocation; a
\* failing blob or key read yields no value and goes on.
OpenSecret(h) ==
    LET w == worker[h] IN
    /\ w.pc = "open"
    /\ \/ /\ w.secret \in deleted \/ Faults
          /\ Goto(h, "reply")
          /\ UNCHANGED kept
       \/ /\ w.secret \notin deleted
          /\ \E got \in {TRUE, ~Faults}, p \in Resolve(request[w.req].pol) :
               /\ worker' = [worker EXCEPT ![h].value = got,
                    ![h].pc = IF p.singleUse THEN "revokeSession" ELSE "reply"]
               /\ IF p.singleUse THEN UNCHANGED kept ELSE Keep(w.req)
    /\ UNCHANGED <<now, rows, released, listed, stranded>>

\* The response carries the value, if there is one.
Reply(h) ==
    LET w == worker[h] IN
    /\ w.pc = "reply"
    /\ released' = IF w.value THEN [released EXCEPT ![w.req] = @ + 1] ELSE released
    /\ Finish(h)
    /\ UNCHANGED <<now, rows, listed, kept, stranded>>

\* One query, no usage count, no revocation, no look at secrets.deleted_at.
GetActiveCredentials(c) ==
    LET mine == {q \in RequestId : IsRequester(c, q) /\ Usable(q) # {}} IN
    /\ mine # {}
    /\ listed' = listed \cup mine
    /\ UNCHANGED <<now, rows, worker, released, kept, stranded>>

-----------------------------------------------------------------------------
(* POST /credentials/{id}/revoke, and the revocation after a single use    *)

\* Mutant: the request row is written before the session rows are.
BeginRevokeRequestFirst(h, c, q) ==
    /\ worker[h].pc = "idle"
    /\ Exists(q) /\ IsRequester(c, q)
    /\ worker' = [worker EXCEPT ![h] =
         [Idle EXCEPT !.pc = "revokeRequest", !.op = "revoke", !.req = q]]
    /\ UNCHANGED <<now, rows, history>>

BeginRevoke(h, c, q) ==
    /\ worker[h].pc = "idle"
    /\ Exists(q)
    /\ \/ IsRequester(c, q)
       \/ request[q].secret \notin deleted /\ c = Owner[request[q].secret]
    /\ worker' = [worker EXCEPT ![h] =
         [Idle EXCEPT !.pc = "revokeSession", !.op = "revoke", !.req = q]]
    /\ UNCHANGED <<now, rows, history>>

AfterRevoke(h) == IF worker[h].op = "get" THEN Goto(h, "reply") ELSE Finish(h)

\* First the session rows: no active one, or a failing UPDATE, is an error for
\* the caller of /revoke, and is ignored after a single use.
RevokeSession(h) ==
    LET q == worker[h].req IN
    /\ worker[h].pc = "revokeSession"
    /\ \/ /\ session' = [x \in SessionId |->
               IF x \in Active(q) THEN [session[x] EXCEPT !.status = "revoked"]
               ELSE session[x]]
          /\ IF Active(q) = {} THEN AfterRevoke(h) ELSE Goto(h, "revokeRequest")
          /\ UNCHANGED kept
       \/ /\ Faults
          /\ AfterRevoke(h)
          /\ IF worker[h].op = "get" THEN Keep(q) ELSE UNCHANGED kept
          /\ UNCHANGED session
    /\ UNCHANGED <<now, policy, deleted, request, link, released, listed, stranded>>

\* Then the request row, whose error is ignored.
RevokeRequest(h) ==
    LET q == worker[h].req IN
    /\ worker[h].pc = "revokeRequest"
    /\ \/ request' = IF request[q].status = "approved"
                     THEN [request EXCEPT ![q].status = "revoked"] ELSE request
       \/ Faults /\ UNCHANGED request
    /\ AfterRevoke(h)
    /\ UNCHANGED <<now, policy, deleted, session, link, history>>

-----------------------------------------------------------------------------
(* The rest of the system, and time                                        *)

\* The owner binds another policy template, or changes the override.
BindPolicy(s, p) ==
    /\ s \notin deleted
    /\ policy[s] # p
    /\ policy' = [policy EXCEPT ![s] = p]
    /\ UNCHANGED <<now, deleted, request, session, link, worker, history>>

DeleteSecret(s) ==
    /\ s \notin deleted
    /\ deleted' = deleted \cup {s}
    /\ UNCHANGED <<now, policy, request, session, link, worker, history>>

Tick ==
    /\ now < MaxTime
    /\ now' = now + 1
    /\ UNCHANGED <<rows, worker, history>>

\* A failing statement, a caller that disconnects, the 30 s request timeout or
\* a crash ends the handler between two statements.
Abort(h) ==
    /\ Faults
    /\ worker[h].pc # "idle"
    /\ Finish(h)
    /\ stranded' = stranded \cup Owed(h)
    /\ UNCHANGED <<now, rows, released, listed, kept>>

\* The statements of a handler that is under way.
Step(h) ==
    \/ CheckDaily(h) \/ CheckCoolDown(h) \/ InsertRequest(h) \/ InsertStep(h)
    \/ AutoIssue(h) \/ Notify(h) \/ Decide(h) \/ IssueCredential(h)
    \/ BumpUsage(h) \/ OpenSecret(h) \/ Reply(h)
    \/ RevokeSession(h) \/ RevokeRequest(h)

\* A request that arrives.
Arrive(h) ==
    \/ \E u \in User \cup {None}, a \in Agent \cup {None}, s \in Secret,
          d \in Duration : CreateRequest(h, u, a, s, d)
    \/ \E q \in RequestId :
        \/ \E u \in User, a \in Decision : BeginDecision(h, u, q, a)
        \/ \E a \in Decision : RedeemActionToken(h, q, a)
        \/ \E a \in Decision : ChatDecision(h, q, a)
        \/ \E c \in Principal : GetCredential(h, c, q)
        \/ \E c \in Principal : BeginRevoke(h, c, q)

Next ==
    \/ \E h \in Worker : Arrive(h) \/ Step(h) \/ Abort(h)
    \/ \E c \in Principal : GetActiveCredentials(c)
    \/ \E s \in Secret, p \in Policy : BindPolicy(s, p)
    \/ \E s \in Secret : DeleteSecret(s)
    \/ Tick

Spec == Init /\ [][Next]_vars

\* The Go scheduler runs every handler on; nothing makes callers call.
Fairness == \A h \in Worker : WF_vars(Step(h))
FairSpec == Spec /\ Fairness
=============================================================================
