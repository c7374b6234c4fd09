# Valt: a verification project

TLA+ models of the Valt server (`src/server`), a vault whose secrets AI agents and people
borrow through access requests, with the TLC runs that check them and the proofs TLAPS
checks. Every module translates the Go code; `PROJECT.json` maps each definition to the
lines it stands for.

## 1. Inventory

The server is one Go process (several may run against the same stores). Each HTTP request is
a goroutine; shared state is PostgreSQL, MinIO for encrypted blobs, and a few maps in
memory. Apart from the audit log, secret creation, scans, org creation and invitations, no
handler uses a transaction: a handler is a sequence of SQL statements, and the statements of
concurrent handlers interleave.

| Component | State | Operations | What is hard | What makes it correct |
|---|---|---|---|---|
| Access workflow (`workflow/`) | `access_requests`, `approval_steps`, `credential_sessions` | create, approve, reject, fetch, list active, revoke | check-then-act limits, two deciders, issue after approve, revoke in two statements | a human approved; one session per request; a decision is final; revoked means dead; uses are counted |
| Action links, chat buttons (`notify/`) | `request_action_tokens` | create, redeem once; Slack, Telegram webhooks | consumed before they act | a click decides |
| Policy engine and templates (`policy/`) | templates, versions, bindings, permissions, custom policies | validate, merge, seed, clone, version, bind, delete, grant, resolve | version numbers, usage check before delete, seeding by name | a binding resolves; an override that does not warn does not weaken; a snapshot can be traced |
| Audit log (`audit/`) | `audit_logs`, `audit_chain_state` | log, query and verify | concurrent writers, crashes, column round trips, v1/v2 | one contiguous, verifying, append-only chain |
| Partition manager (`database/`) | partitions of `audit_logs` | on start and daily | calendar, failing passes | today's rows always have a partition |
| Notification queue (`notify/`) | `notification_jobs` | enqueue, fetch, deliver, retry, exhaust, clean | several servers, crash between delivery and mark | at least once; given up only after enough tries; every job ends |
| Authentication (`auth/`) | users, refresh, reset, verification and CLI tokens, backup codes; lockout map | login, refresh, reset, 2FA, OAuth, CLI | read-then-delete tokens, reset against refresh | rotation; lockout; a code works once; no session without the second factor |
| Vault (`vault/`) | rows of `secrets` with the wrapped key; blobs in MinIO | create, update, delete, read | two stores, no common transaction | a live secret decrypts |
| Gateway (`gateway/`) | agent tokens, routes, endpoint limits | authenticate, match a route, inject a secret in a proxied call | five reads, between which everything may change | only the agent's routes, only live secrets, blocks hold |
| Dynamic secrets (`dynsecret/`) | leases; roles in a provider's database | lease, revoke, expiry worker | two databases, best-effort drop | a login lives no longer than its lease |
| Organisations (`org/`) | organisations, members, pending invitations | create, add, invite | invitations counted, then inserted | few pending invitations |
| Billing (`billing/`) | customer, subscription and plan in `organizations`; Stripe's own state | checkout, webhook | events lost, doubled, in any order, answered although they failed | the plan is the one that is paid |
| Usage (`usage/`) | request counters | report | none: no route enforces a limit, nothing counts a request | |
| Agents, projects, roles, webhooks, integrations, scanner, consent, admin | one table each | one statement or one transaction each | | |
| Clients: dashboard, MCP server, CLI, SDKs | tokens | call the API | dashboard refreshes tokens concurrently | |

**Interactions.** A caller (user by JWT, agent by token) creates a request; the policy bound
to the secret (engine and resolver) decides whether it is auto-approved, capped, limited,
and whom to notify; the notifier writes links and queue jobs; a dashboard call, a link or a
chat button decides; approval issues a credential session; a fetch counts the use, decrypts
through the vault and, for a single-use policy, revokes. Nearly every handler ends with
`LogFromRequest`, best effort, after its effect. The workflow reads the policy once, at
creation, and stores a snapshot with the request.

## 2. Plan

1. **Access workflow** (`AccessWorkflow`, abstract `AccessGrant`): done, with proofs.
2. **Audit log** (`AuditChain`, abstract `AuditTrail`): done, with proofs.
3. **AuthSessions**: rotation, lockout, second factor, backup codes, reset: done, with
   proofs.
4. **NotifyQueue**: several servers, crash, retry, exhaustion: done, with proofs.
5. **VaultSecrets** with **Gateway**, and **DynLeases**: done, with proofs.
6. **PolicyRules** and **PolicyStore**: done, with proofs.
7. **OrgPlans**: organisations, invitations, checkout and Stripe's events: done, with
   proofs.
8. Proofs: every safety property of the runs, and both refinements, are proved (section 12),
   with every failure the models have.
9. Models to come, if wanted: the CLI hand-over, e-mail verification, the limiters.

Each component gets one module of state and actions, one `..Props` module of properties with
the inductive invariant, one `..Proofs` module, one `MC..` module. No module uses RECURSIVE,
so that all of them can be proved about. `AccessWorkflow` composes requests, decisions,
links, sessions, policy bindings and deletion, because they meet in one row; the audit log
is separate, since no handler reads what it wrote. `Gateway` composes the proxy with
`VaultSecrets` (it EXTENDS it, and each step belongs to one of the two), because a proxied
call reads rows and blobs while writers change them. `PolicyStore` EXTENDS the operators of
`PolicyRules`; `AccessWorkflow` takes the resolved policy as a value, as the code takes the
snapshot.

## 3. The access workflow

`AccessWorkflow.tla` has one row variable per table (`request`, `session`, `link`, and
`policy`, `deleted` for what the workflow reads of bindings and secrets) and `worker`, the
locals of each handler goroutine with a program counter. One action is one SQL statement
that writes, or one read on which a later write depends; reads that follow one another are
merged where no property can tell them apart (`CreateRequest`, `BeginDecision`,
`OpenSecret`): what they read is fixed once the row exists, or it is read once, so that a
change between them is as good as one before or after them. `CreateRequest`, `CheckDaily`,
`CheckCoolDown`, `InsertRequest`, `InsertStep`, `AutoIssue`, `Notify` are POST
access-requests; `BeginDecision`, `RedeemActionToken`, `ChatDecision` lead to `Decide` (the
conditional UPDATE) and `IssueCredential`; `GetCredential`, `BumpUsage`, `OpenSecret`,
`Reply` are the fetch; `GetActiveCredentials` is the listing; `BeginRevoke`,
`RevokeSession`, `RevokeRequest` the revocation. `BindPolicy`, `DeleteSecret` and `Tick` are
the rest of the system. `Abort` is a failing statement, the 30 s request timeout, a caller
that goes away or a crash. With `Faults`, policy and approver queries also fall back to the
default and to nobody, as the resolver does.

A policy is a record of the fields the workflow acts on; a session's value is only "handed
out". The history variables `released` and `listed` hold what was handed out by a fetch and
by the listing, `kept` the fetches of a single-use credential whose revocation failed (an
error of `AutoRevokeIfSingleUse` is ignored), and `stranded` the approved requests whose own
handler failed before it issued. `ReleasesAsGranted` says that no value leaves uncounted,
longer than the snapshot allows, or without an approval, and a single-use one no oftener
than once, plus the fetches under way at that time, plus `kept`. An UPDATE that writes an
actor which is no user to `decided_by` fails, as the foreign key makes it.

`AccessGrant.tla` is the promise about one request (asked, settled once, opened once, used
while open, closed for good). `ImplementsGrant` maps a request and its sessions to a phase.
An approval whose credential could not be issued stays "granted", possibly for ever; which
approvals these are is what `stranded` says.

Runs:

- `workflow_races`: two users, two handlers, one request, two fetches, faults, two policies,
  clock to 2. A second request could not interact with the first through anything but the
  limits, and two handlers are enough to place any statement between two others of a
  handler.
- `workflow_limits`: three requests of an agent, two handlers, faults, no fetches. The
  limits are check-then-act, so they hold up to one extra request per overlapping handler,
  and that is what the parts of `RequestLimits` (`DailyLimit`, `CoolDown`) say: with one
  handler they are the strict limits, with n handlers the excess is n - 1. Policies may be
  exchanged while requests come in: the daily limit is that of some policy in force that
  day, and the cool-down holds for an interval that every policy in force demands. A
  cool-down judged by the later request's policy alone would not hold: three requests under
  cool-downs of 1 and 4 ticks can refute it with a clock to 5, which is beyond this run's
  instance and covered by the theorem. One session row: a handler that finds none stays at
  its INSERT, which only takes behaviours away from the other end of the request.
- `workflow_served`: one request, two handlers, links, faults: an approved request gets its
  session, or is `stranded` by the very handler that approved it (its INSERT failed, or it
  was cut off): no other order of decisions, links and failures loses a credential. Weak
  fairness of every handler's next statement, which is what the Go scheduler gives a
  runnable goroutine. No fairness on callers, on the clock or on `Abort`.
- `workflow_oneclick`: a finding, below.

Bounds: `MaxTime` ticks of the clock, `MaxUses` fetches started per session, `RequestId`,
`SessionId`, `Worker` finite sets; `Day`, `LinkTTL`, durations in ticks.

## 4. The audit log

`AuditChain.tla`: `logs` (rows with entry and hash), `chain` (the cursor row), `lock` (its
row lock), `writer` (each Log call's transaction), and the partition manager (`manager`,
`parts`, `date`). `Log`, `LockChain`, `Insert`, `Advance`, `Commit` are the statements of
`Logger.Log`; `Insert` fails for an actor that is no UUID or a day without partition;
`Rollback` and `Crash` end transactions. A hash is the sequence of what was hashed, which is
injective as SHA-256 is taken to be; v1 rows hash fewer columns. `Normalize` is what the
code does to a value before hashing (times cut, addresses through `netip`, ids as the URL
brings them), `Column` what the column gives back (canonical UUIDs, `inet`'s own text for
addresses). They do not always agree: a UUID in upper case, in braces or without hyphens,
which the validator accepts, is hashed as it is spelt and read back in lower case, and an
IPv6 address with IPv4 inside is rendered in one way by Go and in another by PostgreSQL. The
history `misspelt` names the rows of such calls (`odd` in a writer's locals), and
`OnlyMisspeltFail` says that exactly these rows fail to verify, for ever, and that all
others do, whatever writers, failures and restarts came in between.

`AuditTrail.tla` is the promise: a call appends its entry once or ends without. Rows written
before migration 42 are assumed to be one intact v1 chain (before it the chain's end lived
in memory, which a restart forked).

Runs: `audit_chain` (two writers, up to two rows with one old one, a UUID in two spellings
and an id that is none, addresses with and without a second rendering, a clock that runs
from the last day of a two-day month over a month of one day, faults) also checks liveness:
`EveryLogEnds` assumes weak fairness of each statement and strong fairness of obtaining the
row lock, since PostgreSQL queues the waiters of a row. It is the caller's progress: that
the entry itself is lost when a statement fails is what the code does, and nothing more is
promised. Likewise `PartitionsAhead` speaks of days after a pass without an error and
promises no month that is too short for today's day: `AddDate` skips that one, and a failed
pass is only repeated the next day.

Two rows are enough for the neighbour properties (`TamperEvident`); three rows give no new
kind of step, as every step looks only at the last row.

## 5. Sessions of users

`AuthSessions.tla`: `account` (password version, second factor, pending setup), `token`,
`reset`, `code` (rows of `refresh_tokens`, `password_reset_tokens`, `backup_codes`),
`failures` (the lockout map), `challenge` (users of whom somebody holds a live TOTP token)
and `worker`. `Login`, `LoadUser`, `RecordFailure`/`ClearFailures`, `CheckFactor`,
`IssueTokens` are POST login; `Validate`, `UseBackupCode`, `HandOut` the second factor;
`Refresh`, `Rotate`, `IssueTokens` the refresh; `ForgotPassword`, `ResetPassword`,
`SetPassword`, `MarkUsed`, `EndSessions` the reset; `Setup` to `AddCode` the management of
the factor. `Expire` is time: a failure, token or challenge may grow too old at any moment.
Passwords and codes are right or wrong; a password is its version. The ghosts `epoch` (the
password version an authentication saw) and `began` (the factor's state when a login
started) are carried along.

Handlers read and write in separate statements, and some ignore a statement's error
(`Lossy`): refresh its DELETE (handler.go:300), the reset its last two
(password_reset.go:142, 147), login the query for the factor (handler.go:245). The
properties say what overlap and these errors cost, and that nothing else does:
`LockoutHolds` (n handlers, n - 1 attempts beyond the maximum); `RotatedOut` (a token with a
successor is gone unless its own DELETE failed, which `kept` remembers, and it has at most
as many successors as there are handlers, since each must have read it before it went);
`SecondFactor` (a login that began with the factor on opens no session by the password alone
unless the factor was turned off, or the query for it failed, which the session's `via`
says: "unasked"); `SessionsEndAlone` (`ended` is the password version of the last reset
whose DELETE went through while no handler of the same user was between authentication and
INSERT). `CodeOnce` holds without allowance. That overlapping set-ups leave codes of two
sets working is in the model and has no property, as no doc says otherwise.

`auth_sessions`: one user, two handlers, four sessions, two codes, cancelled handlers and
restarts, and with the ignored errors. `Focus` follows a behaviour while it is about logins
and refreshes, about resets with up to three sessions, or about the second factor with up to
two. (A state outside `Focus` is checked and not continued, so each bound is reached and
passed by one step.) One user is enough because no row, counter or challenge is shared by
two.

## 6. The notification queue

`NotifyQueue.tla`: `job` (rows of `notification_jobs`; `wait` is the time left to
`next_retry_at`) and `worker` (the batch, the job in hand and the outcome in each server's
`processBatch`). `FetchReady` takes row locks that `Fetched` gives back, as a statement
outside a transaction does: the comment "locking them" (job_store.go:51) holds only while
the rows are read. `Deliver` succeeds, fails, or delivers and seems to fail; `MarkSent`,
`MarkRetry`, `MarkExhausted` write by id, unconditionally, from the snapshot. `CleanOld`
deletes sent rows of any age, which allows more than seven days do. `Crash`, lost marks,
rows lost while reading and doubtful deliveries share the budget `MaxFaults`.

`notify_jobs`: two servers, two jobs, batches of two, two tries, one fault, a tick of five
minutes. Two servers already undo each other's marks; with one job more than a batch, the
batch's order is any. Liveness (`EveryJobEnds`): weak fairness of each server's loop (the
ticker and the Go scheduler) and of the clock, none of faults or arrivals; the budget of
faults makes crashes finite. `MarksAreTrue` is what the final marks promise: "sent" (and
then deleted) means delivered, "exhausted" means `max_retries` deliveries were tried,
although marks are written from stale snapshots. Servers that share a job may try it more
often than that.

## 7. The vault and the gateway

`VaultSecrets.tla`: `row` (PostgreSQL: state and wrapped key), `blob` (MinIO: the key each
object is encrypted under), `writer` (locals of handlers). The server makes a new data key
for every value, so a key stands for the value. `CreateSecret`, `PutNew`, `CommitCreate` are
POST /secrets (the transaction is invisible until it commits, the blob is not);
`UpdateSecret`, `UpdateRow`, `PutBlob` are PUT, which commits the key and then replaces the
blob; `DeleteSecret` is soft and keeps the blob. A request may bring a value, a key and a
blob of the client's, one of the two, or a name only, and nothing checks that a client's key
and blob fit (vault/handler.go:123-135, 287-303). The history `hurt` names the secrets
created with a pair that does not fit, or whose last update brought one, was cut off or
overlapped another; `ReadableUnlessHurt` says that nothing else makes a live secret
unreadable.

`Gateway.tla` adds `agentToken`, `route`, `limit`, and `call`, a proxied request as a
sequence of reads: `Authenticate`, `CheckLimit`, `FindByPlaceholder`, `FindMatchingRoute`,
`GetSecretByID`, `GetBlob`, `Forward`. Management of routes, limits and tokens, and the
vault's writers, interleave with it. The order in which `FindEndpointLimit` returns one of
several matching limits is not stated by its query, so it is nondeterministic, and
`BlockHolds` speaks of agents whose every matching limit blocks. `served` remembers, per
call, which routes were enabled and secrets undeleted since it arrived: `InjectsOwnLive`
bounds how stale the reads may be. It says nothing of the host a placeholder's secret is
for, because the query compares none (section 11).

`vault_gateway`: one secret (calls and writers of different secrets share nothing), two keys
(fitting and not), two writers, two agents with one token, two routes, two limits, one call,
patterns for a host and for a path in it (so that two limits match one endpoint). One call
is enough, since calls write nothing. `Focus`: the vault alone with all writers, or calls
with one writer at a time and either limits or routes.

## 8. Policies

`PolicyRules.tla` has the pure parts of the engine: `Valid` and `Normal`
(ValidateParameters), `Merge`, `Resolvable` and `Effective` (ResolveEffectivePolicy),
`Weaker` (CompareWeakening), `DefaultParameters` (tiers), `ApplyTo` (custom policies). A
JSON object is a function from its keys. The reference `Weaker` is checked against is
`AsStrict`: what a policy means for an attempt, written from the checks of the workflow.

`PolicyStore.tla`: `template`, `version`, `binding`, `permission`, `custom`, `deleted`,
`request` (the `applied_` columns) and `worker`. One action is one statement or transaction:
`CreateTemplate`/`CloneTemplate` and `InsertTemplate`; `ListTemplates` with its seeding,
`FindSystemTemplate` and `InsertSystemTemplate`; `UpdateTemplate`, `NextVersion`,
`InsertVersion`, `TouchTemplate`; `DeleteTemplate`, `CountUsage`, `DropTemplate` (cascading
to versions, taking the template out of snapshots, refused by the foreign key of bindings);
`UpdateBinding`, `UpsertSecretBinding`; `GrantPolicyRead`, `RevokePrevious`,
`InsertPermission`; `CreateRequest`, `InsertRequest`. `INSERT .. SELECT MAX(version) + 1` is
one statement in two actions, because its snapshot and its unique check are apart in time.

When a template goes, a snapshot's `applied_template_id` becomes NULL by its own foreign key
(migration 26:79) before the composite key of the cascaded versions is looked at (26:85-88);
that one then finds no row with the template, so `applied_template_version` keeps its number
(`Unlinked`). `SnapshotTraceable` therefore says: a snapshot that names a template names a
stored version, which without an override is what the request was made under, although two
updates may compute one number; and a snapshot that names none any more was made under a
template that is gone.

`policy_store`: two templates, two names and one seed of one of those names, versions up to
`MaxVersion` = 2 (a second version is the first for which two updates compute one number),
one secret, agent and request, two handlers, faults. `Inputs` are a single-use policy, a
lasting one and one without a key; `Overrides` an empty, a looser, an unknown and an invalid
one; `Tries` are attempts at the policies' own boundaries. `Focus`: permissions apart from
templates, custom policies and deletion with little else, two handlers at once until a
request is made, or while one of them holds a number that was taken since it read it: so a
collision of versions does meet a snapshot. `policy_block` is a finding.

## 9. Dynamic leases

`DynLeases.tla`: `provider`, `member` and `lease` are rows of this server; `dbrole` the
roles of the provider's database, with the end PostgreSQL itself enforces (VALID UNTIL) and
whether CONNECT was granted; `worker` the handlers. `CreateLease`, `CreateRole`,
`GrantConnect`, `CleanUp`, `InsertLease` make a lease; `RevokeLease`, `ReadLease`,
`MarkRevoked`, `DropRole` end one; `ExpireLeases` is the ticker, which marks and drops
nothing. `DROP ROLE` of a role that was granted CONNECT is refused (`Dropped`). The history
`lost` names roles whose handler failed while it alone knew of them. Three clocks matter:
the server's (`now`) computes a lease's end, the own database's (`OwnClock`) decides when it
is over, the provider's (`ProviderClock`) when the role is; `skew` fixes how far the two are
ahead. `Until` is what `VALID UNTIL` says: the end in RFC 3339, cut to whole seconds
(postgres.go:85), while `expires_at` keeps its fraction.

`LeasesAreLogins` has two sides: a lease that is not over has a login of its own until less
than a second before its end by the provider's clock, and none after it (`LeaseWorks`); and
a login is accounted for by a live lease, a handler, a failure, a refused drop, or a lease
that is over by the own database's clock, where that is ahead of the provider's
(`LoginAccounted`). `LeasesEnd`: every lease is marked and every login ends.

`dyn_leases`: two handlers, leases and role names, one provider and user, who is demoted and
promoted; a tick is half a second, a lifetime one second, the databases' clocks are in time
or half a second ahead. `MaxTime` bounds the clock; a role is made only if it ends before it
by every clock (`CreateRole`'s guard), so that liveness is not cut by the bound. Fairness:
the clock and the ticker (`FairSpec`); none of handlers, since each may be cut off at any
step, and the property holds all the same.

## 10. Organisations and billing

`OrgPlans.tla`: `org`, `member`, `pending` are the server's rows, `worker` its handlers.
`customer`, `offer`, `sub`, `event`, `due` are Stripe, modelled from what the code asks of
it and is told by it: customers, open checkout pages, subscriptions, events, and events not
yet answered. `CreateInvitation`, `CheckMember`, `CountPending`, `InsertInvitation` invite;
`CreateCheckout`, `ReadCustomer`, `NewCustomer`, `SaveCustomer`, `NewSession` send a user to
Stripe's page; `CompleteCheckout`, `ChangePrice`, `EndSubscription` happen there;
`HandleWebhook`, `FindOrgByCustomerID`, `UpdateOrgBilling`, `DowngradeToFree` take an event.
Any due event may come next, and an event stays due until an answer arrives, so events are
doubled, delayed and reordered. `Fail` answers an event 200 all the same (webhook.go:40).
`acceptInvitation` and `cancelInvitation` have no action: both fail on every call (see
below), so an organisation's pending invitations only grow.

The handler compares neither times nor subscriptions, so the plan can go wrong. `mishap`
collects the causes: a failed statement, an event after a younger one, a second customer, a
second subscription. `PlanIsStripes` says that there are no others: lost answers,
repetitions and crashes are made good. `PlanWasPaid` holds without exception: whatever the
order, an organisation never gets a plan that it did not have at Stripe once. `FewPending`
is the price of counting before inserting.

`org_plans`: four users (a member, an owner and two to invite), two handlers, customers and
subscriptions, two organisations, up to three events (one is followed where there are two
organisations), one pending invitation (20 in the code). Three events are a purchase, a
change and an end, in any order. `Focus`: invitations or billing, not both; "team" is what
is bought, the other prices come by change; one open offer.

## 11. Findings

- *A click decides* (`OneClickDecides`): links and chat buttons write their actor to a UUID
  column; the statement fails after the link was consumed.
- *Custom policies are obeyed* (`CustomObeyed`): of what the three-level resolver returns, a
  request keeps the approvers; a secret whose policy says "block" is approved at once.

Other disagreements, met while reading and modelling, without a run of their own:

- `GET /credentials/active` hands out single-use credentials without counting or revoking
  them (docs/system-architecture.md:193); the model has it: `GetActiveCredentials`, with the
  history `listed`.
- Audit entries whose actor or resource is no UUID are dropped with a log line
  (README.md:13, "Everything is audit-logged").
- An audit row whose caller spelt a UUID other than the database, or came from an IPv6
  address with IPv4 inside, never verifies, although nobody touched it
  (audit/logger.go:199-201, "so the hash computed before insert equals the hash recomputed
  from the fetched row"). `OnlyMisspeltFail` shows exactly these rows;
  workflow/handler.go:246-248, 295 and 377 pass on the id of the URL.
- On the 29th to 31st, `AddDate` skips a short month (partition-manager.go:12-13).
- A login or refresh under way while a password is reset keeps its session
  (password_reset.go:146, "force re-login on all devices"); a reset link can be used by two
  requests at once (password_reset.go:81).
- The refresh token handed out after a second factor is not stored, so `/auth/refresh`
  refuses it (docs/security-model.md:25).
- `RevokeLease` ignores that PostgreSQL refuses to drop a role that was granted CONNECT
  (dynsecret/service.go:163, :197): the login lives on to its own end.
- The expiry worker marks leases and drops no role (docs/team-pitch.md:212-214); roles end
  by VALID UNTIL, up to a second early, and stay in the provider's database.
- `FindByPlaceholder` compares no host (gateway/store.go:91, against its comment at :14), so
  a placeholder names its route at every endpoint.
- POST and PUT secrets store any blob with any wrapped key (vault/handler.go:123-135,
  287-303).
- Deleting a template leaves `applied_template_version` in the snapshots of its requests
  (migration 26:79-88).
- A custom template named like a system template makes `GET policy-templates` fail for good.
- Invitations cannot be accepted (cmd/server/main.go:252 mounts the route without the
  authentication that invitation.go:277-279 expects) or cancelled (org/handler.go:46 against
  invitation.go:245, another parameter).
- Plan limits are not enforced: `EnforceLimits` is mounted nowhere and `IncrementRequests`
  has no caller (docs/project-changelog.md:182).
- Of two organisations of one owner only the younger can be paid for.
- The approval chain (`approval-chain.go`) is used by no handler; an approved request whose
  credential could not be issued cannot be retried; a request never becomes "active" or
  "expired"; an assigned approver can approve a request of their own.

## 12. Proofs

`AccessWorkflowProofs.tla` proves, for every choice of users, policies, identifiers and any
number of handlers, `TypeOK`, `OneSessionPerRequest`, `HumanInTheLoop` and
`IssueOnlyApproved` (nobody is about to issue for a request that is not approved; no run
lists it, as the proved invariant says more). None is inductive alone. The invariant `IInv`
adds what handlers know: `HandlersOK` (locals agree with the row), `Issuers` (whoever is
about to issue works on an approved, authorised request without a session, and is the only
one), `Issued` (every session belongs to an approved request). The heart is `Decide`: the
conditional UPDATE sees "pending", so no other handler is issuing for the row. The proof has
one lemma per action that disturbs `Issuers` or `Issued` and one per conjunct of the type
invariant.

On `IInv` stand the invariants of what happens after issuing. `DeadInv` joins
`RevokedIsDead` with what a revoking handler knows (`Closing`: past the sessions' UPDATE
none of the request's is active). `LastInv` says that a session ends when its request's
snapshot says (`CappedOK`), which with `ListedOK` and `CountInv` (a value in a handler's
hands was counted) gives three parts of `ReleasesAsGranted`. The fourth, single use, needs
`UseInv`: values of a single-use request handed out, and those under way, are at most one
more than the overlap and the failed revocations of `kept`, and once one is answered the
session is closed or the fetch is in `kept` (`UsedUp`). Every failing statement is allowed:
a fetch whose query for the policy fails goes on with the tier's default (handler.go:457),
which need not be single-use, and is counted in `kept` then (`SingleUseHolds`).
`GrantImplemented` is the refinement: `GrantStarts` maps the initial state, and `GrantSteps`
each action to the one step of `GrantNext` it is, or to a stutter.

`RequestLimits` needs an argument about many requests at once. `LimitInv` speaks of
*batches*: any set of requests made for one secret within an interval, with any set of
handlers that have passed the check and have not inserted yet. Of such a batch the last to
check counted what was inserted, so the batch exceeds the limit by the other handlers at
most (`DailyInv`, `CoolDownInv`). A check adds a handler to a batch, an INSERT turns one
into a request, and time only makes batches smaller. `DailyLimitHolds` and `CoolDownHolds`
are the batches without handlers, and together `LimitsHold`, with faults as well.

`AuditChainProofs.tla` proves `AuditTypeOK`, `SeqsContiguous`, `OnlyMisspeltFail` and the
refinement of `AuditTrail`. `ChainInv` adds `HolderOK` (past the lock means holding it),
`HeadOK` (the holder's sequence number and hash continue the chain as it is), `EntryOK` (an
entry in flight reads back as it is unless it is misspelt) and `RowsHashed` (each row's hash
is that of the entry its caller logged, which is the row itself unless misspelt).
`TamperEvident` follows with `HashesGrow`: the i-th hash holds i contributions, so an edited
row, or one that comes into the place of another, does not verify there, whatever comes
after and whatever the misspelt rows do. `PartitionsAhead` has its own invariant `TargetsOK`
(each of the three targets has its partition or is still to do), with `AddDateAhead` on what
`time.AddDate` returns.

`NotifyQueueProofs.tla` proves `QueueTypeOK`, `MarksAreTrue` (and its parts) and
`DeliveredOnce` for any number of servers, jobs and faults and any batch size. `CountInv`
adds `Counted`: row, batch and mark never claim more tries than were made, which is why
stale counts can only prolong a job. `OnceInv` adds `OneEntry` (a worker has a job once) and
`Unshared`: a delivered job is marked, or in the hands of the only server that has it.

`AuthSessionsProofs.tla` proves `AuthTypeOK`, `CodeOnce`, `LockoutHolds`, `RotatedOut`,
`SecondFactor` and `SessionsEndAlone` for any users, handlers and limits, with aborts,
restarts and the errors that the code ignores. `AuthInv` is the types and `Owned` (a handler
at work works for a user). Two lemmas carry the rest: `AllMove` says how one handler may get
nearer to a session, `TokenSteps` what a step may do to a refresh token. On them stand
`Rotating` (a refresh issues after its token is gone, or after its DELETE failed),
`SuccessorsBounded` (the successors of a token and the handlers that still carry it are
together no more than the handlers: one that has issued carries it no longer, and one that
comes later finds no row), `FactorSeen` (a login about to issue began before the factor was
turned off, or was not asked for it), `CodesFresh` (a usable code was accepted by nobody)
and `FailuresBounded`: failures and the logins that may still record one stay together below
the maximum plus the number of handlers, because `IsLocked` admits no login beyond it.
`SessionsEndAlone` (`SessionsEnd`) rests on `EpochsFresh`: whoever is between authentication
and INSERT knows a password no older than the last reset counted in `ended`, because such a
reset met nobody there.

`GatewayProofs.tla` proves all four properties of section 7 from one invariant,
`GatewayInv`. `VaultInv` says who may bring a blob: an unhurt secret has one handler at most
past its row's UPDATE, and the blob it brings fits the stored key (`PutsFit`); a handler
that creates is alone with its secret (`WriterOK`), and `CommitCreate` puts a secret with a
pair that does not fit into `hurt`. `CallOK` is what a call carries from one read to the
next, `ServedOK` ties it to the history `served`. Steps of the vault and of the proxy are
separate lemmas, as the modules are.

`DynLeasesProofs.tla` proves `LeaseTypeOK` and `LeasesAreLogins` for any clocks, lifetimes,
handlers and failures. `LeaseInv` adds that a role ends in the second in which its lease
does and that they belong to each other alone (`LeaseOK`), and that a handler between CREATE
ROLE and INSERT is the only one that knows its role (`HandlerOK`).

`OrgPlansProofs.tla` proves `OrgTypeOK`, `PlanWasPaid`, `PlanIsStripes` and `FewPending`.
The heart of `OrgInv` is `AsTold`: an organisation without mishap has the plan of the latest
event it was told, and every younger event of its customers is still due, so that once
nothing is due it was told the last one; `AtStripe` says that this one is about its live
subscription. `CountOK` counts invitations together with the handlers about to insert one,
as `FailuresBounded` does for logins.

`PolicyStoreProofs.tla` proves the five properties of `policy_store` for any inputs, and
`VersionsImmutable`, an action property no run lists: versions are never changed. `Kept` is
the reason for the rest: what a handler resolved before its statement is still true when the
statement runs, or the template is gone for good and the foreign key refuses the row
(`Leads`, `Checked`). `UnwarnedAreStricter` adds the algebra of the engine: parameters
without a warning of `CompareWeakening` are as strict for every attempt.

The assumptions are the named ones of the modules, which TLC evaluates on every run:
identities are distinct from `None` and each other, limits are naturals, what a column has
rendered it renders in the same way again, clocks differ by integers and a second is a
positive number of ticks, handlers are finitely many where they are counted
(`IsFiniteSet(Worker)`), the pending maximum is not zero (it is 20), and a client's JSON has
Booleans under the keys of flags (`Sent`: `boolField` refuses others). No theorem assumes
that a statement does not fail: what failures cost is named by history variables instead
(`kept`, `misspelt`, `lost`, `hurt`, `mishap`) or by a session's own column (`via`).

Only model-checked: liveness, whose fairness arguments the prover cannot make
(`ApprovedGetsSession`, `EveryLogEnds`, `EveryJobEnds`, `LeasesEnd`), and the two findings
of section 11. What a recursion over data computes for all inputs, the hash over a whole
chain, is proved step by step (`RowsHashed` is preserved, `HashesGrow`), since induction
over data is out of the prover's reach. `AsStrict` is proved for the attempts of a set
`Tries`, which is any set of attempts.

## 13. Not modelled

- `AppendChainNoTx`, `PostgresProvider.Renew`, `MergePolicy`, the approval chain, the usage
  limiter: code without a caller or a route.
- The CLI hand-over (a one-row exchange; losing it makes the user log in again), e-mail
  verification and registration (one statement each).
- Projects' and agents' rows, roles, webhooks, integrations, scanner, consent, admin: one
  statement or one transaction per operation, so there is no interleaving to get wrong.
- The rate limiters (one mutex, or one Redis pipeline), Stripe's portal session and seats
  (read by nothing), a subscription's status (the webhook reads none, so an organisation
  keeps the plan of a subscription that is past due or unpaid; `PlanIsStripes` is about
  prices), limits that neither open nor block (not enforced by the code).
- Read-only listings, wording of notifications, transports, encryption itself, the clients.

Other components are listed with their reasons in `PROJECT.json`.
