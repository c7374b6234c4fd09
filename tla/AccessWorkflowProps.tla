------------------------- MODULE AccessWorkflowProps -------------------------
(***************************************************************************)
(* What the access-request workflow must guarantee, whatever the order of  *)
(* its handlers' statements.                                               *)
(***************************************************************************)
EXTENDS AccessWorkflow

\* Human in the loop: the credential of a request that its policy does not
\* auto-approve exists only after the secret's owner or an assigned approver
\* approved that request (Handler.Approve, Service.Approve, IssueCredential).
HumanInTheLoop ==
    \A x \in SessionId : session[x].status # "none" =>
        LET r == request[session[x].req] IN
        /\ r.status \in {"approved", "revoked"}
        /\ r.pol.auto \/ r.decidedBy \in r.steps \cup {Owner[r.secret]}

\* Two approvals, by any mixture of dashboard, link and chat, never issue two
\* credentials for one request: the conditional UPDATE lets one of them win.
OneSessionPerRequest ==
    \A x, y \in SessionId :
        session[x].req # None /\ session[x].req = session[y].req => x = y

\* RevokeCredential writes the sessions before the request, so a request that
\* reads "revoked" has no credential that still works.
RevokedIsDead ==
    \A q \in RequestId : request[q].status = "revoked" => Active(q) = {}

\* A request that nobody has approved, or that was rejected, has no credential
\* under way either: no handler is about to issue one.
IssueOnlyApproved ==
    \A h \in Worker : worker[h].pc \in {"issue", "autoIssue"} =>
        /\ request[worker[h].req].status = "approved"
        /\ Sessions(worker[h].req) = {}

UsesOf(q) ==
    IF Sessions(q) = {} THEN 0 ELSE session[CHOOSE x \in Sessions(q) : TRUE].uses

\* The handlers that have counted their use and still hold the value.
Delivering(q) ==
    {h \in Worker : /\ worker[h].op = "get" /\ worker[h].req = q
                    /\ \/ worker[h].pc = "open"
                       \/ worker[h].value}

\* usage_count is raised before the value is read (GetCredential, then the
\* decryption), so every value handed out is accounted for, even when the
\* handler is cancelled or the session is revoked in between.
ReleasesAreCounted ==
    \A q \in RequestId : released[q] + Cardinality(Delivering(q)) <= UsesOf(q)

\* The credential lives at most as long as the policy snapshot of its request
\* allows, whatever the policy bound to the secret has become since.
WithinSnapshot ==
    \A x \in SessionId : session[x].status # "none" =>
        session[x].expiresAt <= session[x].issuedAt
                                  + request[session[x].req].pol.maxDur

ListedOK ==
    \A q \in listed : Sessions(q) # {} /\ request[q].status \in {"approved", "revoked"}

\* A check and the statement it is for are two statements, so handlers that run
\* at the same time can all pass the check: n handlers exceed a limit by n - 1.
Overlap == Cardinality(Worker) - 1

\* A single-use credential is handed out once, once more for every fetch that
\* was under way when the first one revoked it (AutoRevokeIfSingleUse), and once
\* more for every fetch whose revocation failed, which is ignored.
SingleUse ==
    \A q \in RequestId :
        request[q].pol.singleUse => released[q] <= 1 + Overlap + kept[q]

\* Every value handed out was granted: by GET /credentials/{id}, counted before it
\* was read; by GET /credentials/active, uncounted but of a request that was
\* approved as HumanInTheLoop says; both only as long as the snapshot allows, and
\* the former no oftener than that.
ReleasesAsGranted ==
    /\ ReleasesAreCounted
    /\ WithinSnapshot
    /\ ListedOK
    /\ SingleUse

-----------------------------------------------------------------------------
(* Why the first of these hold: an inductive invariant                     *)

\* What a handler's locals are good for at its next statement.
LocalsOK(h) ==
    LET w == worker[h] IN
    /\ w.pc \in {"daily", "coolDown", "insert"} =>
         w.user # System /\ w.auto = w.pol.auto
    /\ w.pc = "steps" => w.todo # <<>>

\* A handler works on a row that is there, and what it has checked still holds.
RowOK(h) ==
    LET w == worker[h] IN
    /\ w.pc \in {"steps", "autoIssue", "notify", "issue", "bump", "open",
                  "revokeSession", "revokeRequest"} => w.req \in RequestId /\ Exists(w.req)
    /\ w.pc = "decide" => w.req \in RequestId
    /\ w.pc = "decide" /\ w.user \in User =>
         Exists(w.req) /\ w.user \in request[w.req].steps \cup {Owner[request[w.req].secret]}
    /\ w.pc = "revokeRequest" => Sessions(w.req) # {}

HandlersOK == \A h \in Worker : LocalsOK(h) /\ RowOK(h)

\* The handlers that will issue a credential: of an approval, or of a creation
\* under an auto-approving policy.
Issuing(h) ==
    \/ worker[h].pc \in {"issue", "autoIssue"}
    \/ worker[h].pc = "steps" /\ worker[h].auto

Authorised(q) ==
    \/ request[q].pol.auto
    \/ request[q].decidedBy \in request[q].steps \cup {Owner[request[q].secret]}

\* Whoever is about to issue is entitled to, is the first, and is alone.
Entitled(q) ==
    request[q].status = "approved" /\ Sessions(q) = {} /\ Authorised(q)

Issuers ==
    /\ \A h \in Worker : Issuing(h) => Entitled(worker[h].req)
    /\ \A g, h \in Worker :
         Issuing(g) /\ Issuing(h) /\ worker[g].req = worker[h].req => g = h

\* Every session row belongs to a request that was approved.
IssuedOK(x) ==
    /\ session[x].status = "none" <=> session[x].req = None
    /\ session[x].status # "none" =>
         /\ request[session[x].req].status \in {"approved", "revoked"}
         /\ Authorised(session[x].req)

Issued == \A x \in SessionId : IssuedOK(x)

IInv == TypeOK /\ HandlersOK /\ Issuers /\ Issued /\ OneSessionPerRequest

\* Whoever is about to mark a request revoked has closed its session.
Closing == \A h \in Worker :
    worker[h].pc = "revokeRequest" => Active(worker[h].req) = {}

\* The cap was applied to the duration before anything was stored.
CappedOK ==
    /\ \A h \in Worker : worker[h].pc \in {"daily", "coolDown", "insert"} =>
         worker[h].dur <= worker[h].pol.maxDur
    /\ \A q \in RequestId : request[q].dur <= request[q].pol.maxDur

\* Whoever has a value, or is about to read one, serves GET /credentials/{id},
\* and whoever is creating a request has none.
Fetching == \A h \in Worker :
    /\ worker[h].pc \in {"bump", "open"} \/ worker[h].value =>
         worker[h].op = "get" /\ worker[h].req \in RequestId
    /\ worker[h].pc \in {"daily", "coolDown", "insert"} => ~worker[h].value

\* Together with IInv: what closes, what lasts and what is handed out.
DeadInv == RevokedIsDead /\ Closing
LastInv == WithinSnapshot /\ CappedOK
CountInv == ReleasesAreCounted /\ Fetching

-----------------------------------------------------------------------------
(* The workflow implements AccessGrant                                     *)

PhaseOf(q) ==
    IF Sessions(q) # {} THEN IF Active(q) # {} THEN "live" ELSE "closed"
    ELSE CASE request[q].status = "approved" -> "granted"
           [] request[q].status = "rejected" -> "refused"
           [] OTHER -> request[q].status

Grant == INSTANCE AccessGrant
           WITH phase <- [q \in RequestId |-> PhaseOf(q)],
                uses <- [q \in RequestId |-> UsesOf(q)]

\* Every statement of every handler is a step of AccessGrant or leaves the
\* request's phase and uses as they are.
ImplementsGrant == Grant!GrantSpec

-----------------------------------------------------------------------------
(* What the policy limits promise                                          *)

Requester(r) == IF r.user # None THEN r.user ELSE r.agent

\* The requests of q's requester for q's secret in the d ticks before q.
Before(q, d) ==
    {p \in RequestId : /\ Exists(p)
                       /\ Requester(request[p]) = Requester(request[q])
                       /\ request[p].secret = request[q].secret
                       /\ request[p].createdAt + d >= request[q].createdAt
                       /\ request[p].createdAt <= request[q].createdAt}

\* The daily request limit (Service.CreateRequest): in the day before a request,
\* its requester made at most perDay requests for that secret, and one more for
\* every handler that overlapped; perDay is that of a policy in force that day.
DailyLimit ==
    \A q \in RequestId : Exists(q) =>
        \E p \in Before(q, Day) :
            Cardinality(Before(q, Day)) <= request[p].pol.perDay + Overlap

\* The cool-down (Service.CreateRequest): as long as the policies demand one of d
\* ticks, a requester makes one request for a secret in d ticks, and one more for
\* every handler that overlapped.
CoolDown ==
    \A q \in RequestId, d \in 1..MaxTime :
        Exists(q) /\ (\A p \in Before(q, d) : request[p].pol.coolDown >= d)
        => Cardinality(Before(q, d)) <= 1 + Overlap

\* The limits of the policy hold up to one more for each handler that overlapped.
RequestLimits == DailyLimit /\ CoolDown

-----------------------------------------------------------------------------
(* Why the limits hold                                                     *)

\* Requests that k made for secret s within d ticks, and handlers that have passed
\* a check (they are at one of pcs) and may make another one now.
Batch(k, s, pcs, S, H, d) ==
    /\ \A p \in S : /\ Exists(p) /\ Requester(request[p]) = k /\ request[p].secret = s
                    /\ H # {} => request[p].createdAt + d >= now
    /\ \A p, q \in S : request[p].createdAt + d >= request[q].createdAt
    /\ \A h \in H : /\ worker[h].pc \in pcs
                    /\ Requester(worker[h]) = k /\ worker[h].secret = s

Policies(S, H) == {request[p].pol : p \in S} \cup {worker[h].pol : h \in H}
Size(S, H) == Cardinality(S) + Cardinality(H)
Askers == Principal \cup {None}
Targets == Secret \cup {None}

AfterDaily == {"coolDown", "insert"}
AfterCoolDown == {"insert"}

\* Of any batch, the handler that was the last to check the daily limit found the
\* others inserted, which it counted, or under way.
DailyInv ==
    \A k \in Askers, s \in Targets, S \in SUBSET RequestId, H \in SUBSET Worker :
        Batch(k, s, AfterDaily, S, H, Day) /\ Policies(S, H) # {}
        => \E p \in Policies(S, H) : Size(S, H) <= p.perDay + Overlap

\* The one that was the last to check the cool-down found nothing inserted.
CoolDownInv ==
    \A k \in Askers, s \in Targets, S \in SUBSET RequestId, H \in SUBSET Worker,
       d \in 1..MaxTime :
        /\ Batch(k, s, AfterCoolDown, S, H, d)
        /\ \A p \in Policies(S, H) : p.coolDown >= d
        => Size(S, H) <= 1 + Overlap

\* The values under way whose fetch has no revocation before it any more.
Past(q) == {h \in Delivering(q) : worker[h].pc \notin {"open", "revokeSession"}}

\* Once a single-use value has been answered, or only its answer is missing, the
\* session is closed, or its revocation failed; once it is closed, the values that
\* are under way are the last ones.
UsedUp ==
    \A q \in RequestId : request[q].pol.singleUse =>
        /\ released[q] + Cardinality(Delivering(q)) <= 1 + Overlap + kept[q]
        /\ Active(q) # {} => released[q] + Cardinality(Past(q)) <= kept[q]

\* The value is read after the use is counted, never before.
Unread == \A h \in Worker : worker[h].pc \in {"bump", "open"} => ~worker[h].value

LimitInv == IsFiniteSet({q \in RequestId : Exists(q)}) /\ DailyInv /\ CoolDownInv
UseInv == UsedUp /\ Unread

-----------------------------------------------------------------------------
\* Clicking an approve or reject button, in a mail or a chat, decides a request
\* that is still pending.
OneClickDecides ==
    [][\A h \in Worker :
        (/\ worker[h].pc = "decide" /\ worker[h].user = System
         /\ worker'[h].pc # "decide"
         /\ request[worker[h].req].status = "pending")
        => request'[worker[h].req].status # "pending"]_vars

\* An approved request gets its credential in the end, or its handler failed before
\* it had issued one (Handler.Approve, IssueCredential): no decision by dashboard,
\* link or chat, and no automatic approval, forgets the credential otherwise.
ApprovedGetsSession ==
    \A q \in RequestId :
        request[q].status = "approved" ~> Sessions(q) # {} \/ q \in stranded
=============================================================================
