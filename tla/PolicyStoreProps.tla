--------------------------- MODULE PolicyStoreProps ---------------------------
(***************************************************************************)
(* What the policy store promises to whoever makes, binds or lives by a    *)
(* policy.                                                                 *)
(***************************************************************************)
EXTENDS PolicyStore

CONSTANT Tries     \* attempts at a secret to compare policies by

ASSUME TriesAssumption == Tries \subseteq Attempt

ParamsOrNone == Params \cup {None}
TemplateRow == [state: {"none", "live", "gone"}, name: Name \cup {None}, system: BOOLEAN,
                params: ParamsOrNone]
BindingRow == [template: Template \cup {None}, number: Number \cup {None},
               override: Override \cup {None}, warnings: SUBSET Field]
SeedRow == [name: Name, type: STRING]

\* What ValidateParameters returns and a version stores.
Proper == {p \in Params : CrossFields(p) /\ Normal(p) = p}

TemplatesOK ==
    /\ template \in [Template -> TemplateRow]
    /\ version \in [Template -> [Number -> Proper \cup {None}]]
    /\ \A t, x \in Template :
         t # x /\ Exists(t) /\ Exists(x) => template[t].name # template[x].name

\* Rows and locals are well typed: what is stored as parameters is valid, an agent
\* has at most one active permission on a secret, and live templates have distinct
\* names although seeding looks for system templates only.
PolicyTypeOK ==
    /\ TemplatesOK
    /\ binding \in [Secret -> BindingRow]
    /\ permission \in [Secret -> [Agent -> {0, 1}]]
    /\ deleted \subseteq Secret
    /\ \A r \in Request :
         /\ request[r].source \in {"none", "default", "template", "template+override"}
         /\ request[r].params \in ParamsOrNone
    /\ \A h \in Handler : worker[h].params \in ParamsOrNone

\* A binding always leads to a policy: its version is stored and valid with its
\* override, so that a request never falls back to the tier's default because of
\* what was bound, deleted or updated in between.
BindingResolves ==
    \A s \in Secret : LET b == binding[s] IN
        b.template # None =>
            /\ Stored(b.template, b.number)
            /\ Known(b.override)
            /\ Valid(Merge(version[b.template][b.number], b.override))

\* What a binding does not warn of it does not loosen: an override without warnings
\* lets no attempt through, sooner, longer or less watched than its version would.
UnwarnedIsStricter ==
    \A s \in Secret : LET b == binding[s] IN
        b.template # None /\ b.warnings = {} =>
            LET tpl == version[b.template][b.number]
                eff == Effective(tpl, b.override)
            IN \A a \in Tries : AsStrict(eff, tpl, a)

FromTemplate(x) == x.source \in {"template", "template+override"}

\* A request's snapshot can be traced: if it names a template, that version is still
\* stored, and without an override it is what the request was made under, whoever
\* numbered a version at the same time.  One that was made under a template and names
\* none has outlived it; the number of a version may stay behind in it.
SnapshotTraceable ==
    \A r \in Request : LET x == request[r] IN
        /\ x.template # None =>
             /\ Stored(x.template, x.number)
             /\ x.source = "template" => x.params = version[x.template][x.number]
        /\ FromTemplate(x) /\ x.template = None =>
             \E t \in Template : template[t].state = "gone" /\ Numbers(t) = {}

\* An agent granted to read a policy may read it until that is revoked, except
\* while a new grant replaces the old one, or after one was cut off half-way.
PermissionKept ==
    \A p \in granted :
        \/ permission[p[1]][p[2]] = 1
        \/ \E h \in Handler : /\ worker[h].pc = "grant"
                              /\ <<worker[h].secret, worker[h].agent>> = p

\* What resolver.go and the changelog say of the three levels: without a template,
\* the tier's default is changed by the project's and the secret's custom policy, so
\* a secret whose policy blocks is not approved at once.
CustomObeyed ==
    \A r \in Request :
        request[r].source = "default" /\ AtOnce(request[r].params) => AtOnce(request[r].custom)

-----------------------------------------------------------------------------
(* Why they hold: what the goroutines hold agrees with the rows            *)

\* Versions are those of live templates, and each of these has one.
VersionsOK == \A t \in Template : Numbers(t) # {} <=> template[t].state = "live"

\* A version that was read is still stored, or has gone with its template for good.
Leads(t, n) ==
    /\ t \in Template /\ n \in Number
    /\ template[t].state = "gone" \/ Stored(t, n)

\* What was found of a binding's version when it was made.
Checked(b) ==
    LET tpl == version[b.template][b.number] IN
    /\ b.override \in Override /\ Resolvable(tpl, b.override)
    /\ b.warnings = Weaker(tpl, Effective(tpl, b.override))

BindingsOK ==
    \A s \in Secret : binding[s].template # None =>
        Stored(binding[s].template, binding[s].number) /\ Checked(binding[s])

\* A snapshot, written or not, is of a version that leads somewhere.
SnapshotOK(x) ==
    /\ DOMAIN x = DOMAIN NoRequest
    /\ x.source \in {"none", "default", "template", "template+override"}
    /\ x.params \in ParamsOrNone
    /\ FromTemplate(x) /\ x.template = None => \E t \in Template : template[t].state = "gone"
    /\ x.template # None => Leads(x.template, x.number)
    /\ x.source = "template" /\ Stored(x.template, x.number) =>
         x.params = version[x.template][x.number]

RequestsOK ==
    /\ DOMAIN request = Request
    /\ \A r \in Request : SnapshotOK(request[r]) /\ Linked(request[r])

\* What a goroutine holds at each of its steps.
WorkOK(w) ==
    /\ DOMAIN w = DOMAIN Idle
    /\ w.params \in ParamsOrNone
    /\ w.pc = "insert" => w.name \in Name /\ w.params \in Proper
    /\ w.pc \in {"seed", "insertSystem"} => w.todo \in Seq(SeedRow)
    /\ w.pc = "insertSystem" => w.todo # <<>>
    /\ w.pc \in {"next", "version", "touch", "count", "drop"} => w.template \in Template
    /\ w.pc \in {"next", "version", "touch"} => w.params \in Proper
    /\ w.pc = "version" => w.number \in Number
    /\ w.pc = "bind" =>
         /\ w.secret \in Secret /\ w.binding \in BindingRow
         /\ Leads(w.binding.template, w.binding.number)
         /\ Stored(w.binding.template, w.binding.number) => Checked(w.binding)
    /\ w.pc \in {"revokeOld", "grant"} => w.secret \in Secret /\ w.agent \in Agent
    /\ w.pc = "request" => SnapshotOK(w.snapshot)

PolicyInv ==
    /\ PolicyTypeOK
    /\ VersionsOK
    /\ BindingsOK
    /\ RequestsOK
    /\ DOMAIN worker = Handler
    /\ \A h \in Handler : WorkOK(worker[h])
    /\ granted \subseteq Secret \X Agent
    /\ PermissionKept

\* A template that is gone stays gone, and a version is never changed: its number
\* is taken once, and it goes only with its template.
Kept ==
    \A t \in Template :
        /\ template[t].state = "gone" => template'[t].state = "gone"
        /\ \A n \in Number : Stored(t, n) =>
             version'[t][n] = version[t][n] \/ template'[t].state = "gone"
=============================================================================
