----------------------------- MODULE PolicyStore -----------------------------
(***************************************************************************)
(* The policies of one project: templates with versions, the secrets bound *)
(* to them, the agents that may read a secret's policy, custom policies,   *)
(* and the snapshot a request takes of what applies to it.                 *)
(*                                                                         *)
(* A Handler is a goroutine; each of its steps is one SQL statement or one *)
(* transaction.  Callers have the role an operation asks for: others are   *)
(* refused and change nothing.  Parameters are those of PolicyRules.       *)
(***************************************************************************)
EXTENDS PolicyRules, Sequences

CONSTANTS
    Template,      \* ids of policy_templates rows
    Secret, Agent, Request,
    Handler,       \* handler goroutines
    None,          \* no value; NULL
    Project,       \* the project, as a bearer of a custom policy
    TypeOf,        \* secret -> credential type
    Name,          \* names of templates, in lower case
    Seeds,         \* the system templates to be: a sequence of [name, type]
    Input,         \* parameters as clients send them
    Override,      \* overrides as clients send them
    Custom,        \* custom policies as clients send them
    MaxVersion,    \* bound on versions of a template
    Faults         \* whether a statement may fail or the server stop

ASSUME PolicyAssumption ==
    /\ None \notin Template \cup Params \cup 1..MaxVersion
    /\ Project \notin Secret
    /\ MaxVersion \in Nat \ {0}
    /\ Seeds \in Seq([name: Name, type: STRING])
    /\ \A in \in Input \cup Override : Sent(in)
    /\ Faults \in BOOLEAN

VARIABLES
    template,      \* policy_templates
    version,       \* policy_template_versions: by template and number
    binding,       \* secret_policy_bindings, by secret
    permission,    \* rows not revoked of secret_policy_agent_permissions
    custom,        \* policy_config of secrets and of the project
    deleted,       \* secrets with deleted_at set
    request,       \* access_requests: the applied_ columns
    worker,        \* what each goroutine holds in its locals
    granted        \* history: pairs granted since last revoked or half-granted

vars == <<template, version, binding, permission, custom, deleted, request, worker, granted>>

Number == 1..MaxVersion
NoTemplate == [state |-> "none", name |-> None, system |-> FALSE, params |-> None]
NoRequest == [source |-> "none", params |-> None, template |-> None, number |-> None,
              custom |-> None]
NoBinding == [template |-> None, number |-> None, override |-> None, warnings |-> {}]
Idle == [pc |-> "idle", template |-> None, name |-> None, params |-> None, todo |-> <<>>,
         number |-> None, secret |-> None, agent |-> None, binding |-> NoBinding,
         snapshot |-> NoRequest]
NoCustom == [maxDuration |-> 0, minReason |-> 0, requireReason |-> "unset",
             auto |-> "unset", block |-> FALSE]

Init ==
    /\ template = [t \in Template |-> NoTemplate]
    /\ version = [t \in Template |-> [n \in Number |-> None]]
    /\ binding = [s \in Secret |-> NoBinding]
    /\ permission = [s \in Secret |-> [a \in Agent |-> 0]]
    /\ custom = [x \in Secret \cup {Project} |-> NoCustom]
    /\ deleted = {}
    /\ request = [r \in Request |-> NoRequest]
    /\ worker = [h \in Handler |-> Idle]
    /\ granted = {}

Exists(t) == t # None /\ template[t].state = "live"
Stored(t, n) == t # None /\ n \in Number /\ version[t][n] # None
Numbers(t) == {n \in Number : version[t][n] # None}
LatestNumber(t) == IF Numbers(t) = {} THEN 0
                   ELSE CHOOSE n \in Numbers(t) : \A x \in Numbers(t) : x <= n
Latest(t) == version[t][LatestNumber(t)]

\* UNIQUE (project_id, lower(name)).  (Mutant: among system templates.)
TakenSystem(n) == \E t \in Template : Exists(t) /\ template[t].system /\ template[t].name = n
Taken(n) == \E t \in Template : Exists(t) /\ template[t].name = n

Start(h, w) == worker[h].pc = "idle" /\ worker' = [worker EXCEPT ![h] = w]
Goto(h, pc) == worker' = [worker EXCEPT ![h].pc = pc]
Finish(h) == worker' = [worker EXCEPT ![h] = Idle]

-----------------------------------------------------------------------------
(* New templates                                                           *)

\* POST .../policy-templates.
CreateTemplate(h, n, in) ==
    /\ Valid(in)
    /\ Start(h, [Idle EXCEPT !.pc = "insert", !.name = n, !.params = Normal(in)])
    /\ UNCHANGED <<template, version, binding, permission, custom, deleted, request, granted>>

\* POST .../clone: the latest version of a template under a new name.
CloneTemplate(h, t, n) ==
    /\ Exists(t)
    /\ Start(h, [Idle EXCEPT !.pc = "insert", !.name = n, !.params = Latest(t)])
    /\ UNCHANGED <<template, version, binding, permission, custom, deleted, request, granted>>

\* The row and its first version, in one transaction.
NewTemplate(n, system, p) ==
    \E t \in Template :
        /\ template[t].state = "none"
        /\ template' = [template EXCEPT ![t] =
             [state |-> "live", name |-> n, system |-> system, params |-> p]]
        /\ version' = [version EXCEPT ![t][1] = p]

InsertTemplate(h) ==
    LET w == worker[h] IN
    /\ w.pc = "insert"
    /\ IF Taken(w.name) THEN UNCHANGED <<template, version>>
       ELSE NewTemplate(w.name, FALSE, w.params)
    /\ Finish(h)
    /\ UNCHANGED <<binding, permission, custom, deleted, request, granted>>

\* GET .../policy-templates seeds the system templates first.
ListTemplates(h) ==
    /\ Start(h, [Idle EXCEPT !.pc = "seed", !.todo = Seeds])
    /\ UNCHANGED <<template, version, binding, permission, custom, deleted, request, granted>>

\* EnsureSystemTemplate: one of that name that is a system template will do.
FindSystemTemplate(h) ==
    LET w == worker[h] IN
    /\ w.pc = "seed"
    /\ IF w.todo = <<>> THEN Finish(h)
       ELSE IF \E t \in Template : /\ Exists(t) /\ template[t].system
                                   /\ template[t].name = Head(w.todo).name
       THEN worker' = [worker EXCEPT ![h].todo = Tail(@)]
       ELSE Goto(h, "insertSystem")
    /\ UNCHANGED <<template, version, binding, permission, custom, deleted, request, granted>>

\* After a name clash the commit fails, and with it the listing.
InsertSystemTemplate(h) ==
    LET w == worker[h]
        seed == Head(w.todo)
    IN
    /\ w.pc = "insertSystem"
    /\ IF Taken(seed.name)
       THEN Finish(h) /\ UNCHANGED <<template, version>>
       ELSE /\ NewTemplate(seed.name, TRUE, DefaultParameters(seed.type))
            /\ worker' = [worker EXCEPT ![h].pc = "seed", ![h].todo = Tail(@)]
    /\ UNCHANGED <<binding, permission, custom, deleted, request, granted>>

-----------------------------------------------------------------------------
(* Versions and deletion                                                   *)

\* PUT /policy-templates/{id}.
UpdateTemplate(h, t, in) ==
    /\ Exists(t) /\ ~template[t].system
    /\ Valid(in)
    /\ Start(h, [Idle EXCEPT !.pc = "next", !.template = t, !.params = Normal(in)])
    /\ UNCHANGED <<template, version, binding, permission, custom, deleted, request, granted>>

\* MAX(version) + 1, as the statement's snapshot sees it.
NextVersion(h) ==
    LET w == worker[h] IN
    /\ w.pc = "next"
    /\ LatestNumber(w.template) < MaxVersion
    /\ worker' = [worker EXCEPT ![h].pc = "version",
                    ![h].number = LatestNumber(w.template) + 1]
    /\ UNCHANGED <<template, version, binding, permission, custom, deleted, request, granted>>

\* Mutant: without UNIQUE (template_id, version).
FreeNumberAny(t, n) == Exists(t)

\* The foreign key, and UNIQUE (template_id, version).
FreeNumber(t, n) == Exists(t) /\ version[t][n] = None

\* The INSERT of the same statement.
InsertVersion(h) ==
    LET w == worker[h] IN
    /\ w.pc = "version"
    /\ IF FreeNumber(w.template, w.number)
       THEN /\ version' = [version EXCEPT ![w.template][w.number] = w.params]
            /\ Goto(h, "touch")
       ELSE Finish(h) /\ UNCHANGED version
    /\ UNCHANGED <<template, binding, permission, custom, deleted, request, granted>>

\* The copy in policy_templates follows in a statement of its own.
TouchTemplate(h) ==
    LET w == worker[h] IN
    /\ w.pc = "touch"
    /\ template' = IF Exists(w.template)
                   THEN [template EXCEPT ![w.template].params = w.params] ELSE template
    /\ Finish(h)
    /\ UNCHANGED <<version, binding, permission, custom, deleted, request, granted>>

\* DELETE /policy-templates/{id}.
DeleteTemplate(h, t) ==
    /\ Exists(t) /\ ~template[t].system
    /\ Start(h, [Idle EXCEPT !.pc = "count", !.template = t])
    /\ UNCHANGED <<template, version, binding, permission, custom, deleted, request, granted>>

Bound(t) == \E s \in Secret : binding[s].template = t

CountUsage(h) ==
    LET w == worker[h] IN
    /\ w.pc = "count"
    /\ IF Bound(w.template) THEN Finish(h) ELSE Goto(h, "drop")
    /\ UNCHANGED <<template, version, binding, permission, custom, deleted, request, granted>>

\* The foreign keys of bindings refuse the DELETE.
Restricted(t) == Bound(t)

\* ON DELETE SET NULL: a snapshot keeps its parameters and forgets its template.  The
\* key on the template alone comes first, when the row is deleted; that on template and
\* version follows the cascade to the versions and finds no row with the template any
\* more.  So the number stays.
Unlinked(r, t) ==
    IF request[r].template = t THEN [request[r] EXCEPT !.template = None] ELSE request[r]

\* The DELETE cascades to the versions.
DropTemplate(h) ==
    LET t == worker[h].template IN
    /\ worker[h].pc = "drop"
    /\ IF Exists(t) /\ ~Restricted(t)
       THEN /\ template' = [template EXCEPT ![t] = [NoTemplate EXCEPT !.state = "gone"]]
            /\ version' = [version EXCEPT ![t] = [n \in Number |-> None]]
            /\ request' = [r \in Request |-> Unlinked(r, t)]
       ELSE UNCHANGED <<template, version, request>>
    /\ Finish(h)
    /\ UNCHANGED <<binding, permission, custom, deleted, granted>>

-----------------------------------------------------------------------------
(* Bindings, custom policies, permissions                                  *)

\* PUT .../policy-binding: read the version, resolve, collect the warnings.
UpdateBinding(h, s, t, n, o) ==
    /\ s \notin deleted
    /\ Stored(t, n) /\ Resolvable(version[t][n], o)
    /\ Start(h, [Idle EXCEPT !.pc = "bind", !.secret = s, !.binding =
         [template |-> t, number |-> n, override |-> o,
          warnings |-> Weaker(version[t][n], Effective(version[t][n], o))]])
    /\ UNCHANGED <<template, version, binding, permission, custom, deleted, request, granted>>

\* INSERT .. ON CONFLICT DO UPDATE; its foreign keys need the version.
UpsertSecretBinding(h) ==
    LET w == worker[h] IN
    /\ w.pc = "bind"
    /\ binding' = IF Stored(w.binding.template, w.binding.number)
                  THEN [binding EXCEPT ![w.secret] = w.binding] ELSE binding
    /\ Finish(h)
    /\ UNCHANGED <<template, version, permission, custom, deleted, request, granted>>

\* PUT .../policy of a secret or of the project.
SetPolicy(x, c) ==
    /\ x \notin deleted
    /\ custom' = [custom EXCEPT ![x] = c]
    /\ UNCHANGED <<template, version, binding, permission, deleted, request, worker, granted>>

DeleteSecret(s) ==
    /\ deleted' = deleted \cup {s}
    /\ UNCHANGED <<template, version, binding, permission, custom, request, worker, granted>>

\* POST .../policy-agent-permissions.
GrantPolicyRead(h, s, a) ==
    /\ s \notin deleted
    /\ Start(h, [Idle EXCEPT !.pc = "revokeOld", !.secret = s, !.agent = a])
    /\ UNCHANGED <<template, version, binding, permission, custom, deleted, request, granted>>

RevokePrevious(h) ==
    LET w == worker[h] IN
    /\ w.pc = "revokeOld"
    /\ permission' = [permission EXCEPT ![w.secret][w.agent] = 0]
    /\ Goto(h, "grant")
    /\ UNCHANGED <<template, version, binding, custom, deleted, request, granted>>

\* Mutant: an active row in the way is revoked instead.
InsertPermissionSwap(h) ==
    LET w == worker[h] IN
    /\ w.pc = "grant"
    /\ permission' = [permission EXCEPT ![w.secret][w.agent] = 1 - @]
    /\ granted' = granted \cup {<<w.secret, w.agent>>}
    /\ Finish(h)
    /\ UNCHANGED <<template, version, binding, custom, deleted, request>>

\* The unique index on active rows refuses a second one.
InsertPermission(h) ==
    LET w == worker[h] IN
    /\ w.pc = "grant"
    /\ permission' = [permission EXCEPT ![w.secret][w.agent] = IF @ = 0 THEN 1 ELSE @]
    /\ granted' = granted \cup {<<w.secret, w.agent>>}
    /\ Finish(h)
    /\ UNCHANGED <<template, version, binding, custom, deleted, request>>

\* DELETE .../policy-agent-permissions/{agent_id}: one statement after the checks.
RevokeAgentPermission(s, a) ==
    /\ s \notin deleted
    /\ permission' = [permission EXCEPT ![s][a] = 0]
    /\ granted' = granted \ {<<s, a>>}
    /\ UNCHANGED <<template, version, binding, custom, deleted, request, worker>>

-----------------------------------------------------------------------------
(* What a request is made under                                            *)

DefaultSnapshot(s) ==
    [NoRequest EXCEPT !.source = "default", !.params = DefaultParameters(TypeOf[s])]

\* ResolveRuntimePolicyBySecretID: the binding's version with the override, or
\* the default, which also stands in for what cannot be read or resolved.
ResolveRuntimePolicy(s) ==
    LET b == binding[s]
        tpl == version[b.template][b.number]
    IN
    IF s \notin deleted /\ Stored(b.template, b.number) /\ Resolvable(tpl, b.override)
    THEN [NoRequest EXCEPT
            !.source = IF DOMAIN b.override = {} THEN "template" ELSE "template+override",
            !.params = Effective(tpl, b.override), !.template = b.template, !.number = b.number]
    ELSE DefaultSnapshot(s)

\* Resolver.Resolve: the project's custom policy over the tier's default, and
\* the secret's own over that.
ResolveCustom(s) ==
    ApplyTo(custom[s], ApplyTo(custom[Project], DefaultParameters(TypeOf[s])))

\* Of what Resolve returns CreateRequest keeps the approvers.  The policy, which it
\* drops, is kept here as history.
CreateRequest(h, s) ==
    /\ s \notin deleted
    /\ \E x \in {ResolveRuntimePolicy(s)} \cup (IF Faults THEN {DefaultSnapshot(s)} ELSE {}) :
         Start(h, [Idle EXCEPT !.pc = "request", !.secret = s,
                               !.snapshot = [x EXCEPT !.custom = ResolveCustom(s)]])
    /\ UNCHANGED <<template, version, binding, permission, custom, deleted, request, granted>>

\* The foreign keys of a snapshot: no origin, or one that is stored.
Linked(x) == x.template = None \/ Stored(x.template, x.number)

InsertRequest(h, r) ==
    LET w == worker[h] IN
    /\ w.pc = "request"
    /\ request[r].source = "none"
    /\ request' = IF Linked(w.snapshot) THEN [request EXCEPT ![r] = w.snapshot] ELSE request
    /\ Finish(h)
    /\ UNCHANGED <<template, version, binding, permission, custom, deleted, granted>>

-----------------------------------------------------------------------------
\* A statement fails, the caller goes away, or the server stops.
CutOff(h) ==
    LET w == worker[h] IN
    /\ Faults
    /\ w.pc # "idle"
    /\ granted' = IF w.pc = "grant" THEN granted \ {<<w.secret, w.agent>>} ELSE granted
    /\ Finish(h)
    /\ UNCHANGED <<template, version, binding, permission, custom, deleted, request>>

Arrive(h) ==
    \/ ListTemplates(h)
    \/ \E n \in Name, in \in Input : CreateTemplate(h, n, in)
    \/ \E t \in Template :
        \/ \E n \in Name : CloneTemplate(h, t, n)
        \/ \E in \in Input : UpdateTemplate(h, t, in)
        \/ DeleteTemplate(h, t)
    \/ \E s \in Secret :
        \/ \E t \in Template, n \in Number, o \in Override : UpdateBinding(h, s, t, n, o)
        \/ \E a \in Agent : GrantPolicyRead(h, s, a)
        \/ CreateRequest(h, s)

Step(h) ==
    \/ InsertTemplate(h) \/ FindSystemTemplate(h) \/ InsertSystemTemplate(h)
    \/ NextVersion(h) \/ InsertVersion(h) \/ TouchTemplate(h)
    \/ CountUsage(h) \/ DropTemplate(h) \/ UpsertSecretBinding(h)
    \/ RevokePrevious(h) \/ InsertPermission(h)
    \/ \E r \in Request : InsertRequest(h, r)

Next ==
    \/ \E h \in Handler : Arrive(h) \/ Step(h) \/ CutOff(h)
    \/ \E x \in Secret \cup {Project}, c \in Custom : SetPolicy(x, c)
    \/ \E s \in Secret : DeleteSecret(s) \/ \E a \in Agent : RevokeAgentPermission(s, a)

Spec == Init /\ [][Next]_vars
=============================================================================
