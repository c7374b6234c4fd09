--------------------------- MODULE PolicyStoreProofs ---------------------------
(***************************************************************************)
(* Proofs of what PolicyStoreProps states: the arithmetic of policies      *)
(* first, then that every statement keeps PolicyInv, then the theorems.    *)
(***************************************************************************)
EXTENDS PolicyStoreProps, WellFoundedInduction, TLAPS

-----------------------------------------------------------------------------
(* Policies                                                                *)

\* What ValidateParameters accepts it returns as a proper policy.
LEMMA ValidIsProper ==
    ASSUME NEW in, Sent(in), Valid(in)
    PROVE  Normal(in) \in Proper
<1>1. DOMAIN in = Field
  BY DEF Valid, Complete
<1>2. /\ in = [f \in Field |-> in[f]]
      /\ \A f \in Flag : in[f] \in BOOLEAN
  BY <1>1 DEF Sent, Field, Flag
<1>3. PICK p : p = Normal(in)
  OBVIOUS
<1>4. /\ p = [f \in Field |-> p[f]]
      /\ \A f \in Flag : p[f] \in BOOLEAN
      /\ p.minReason = IF p.requireReason THEN in.minReason ELSE 0
  BY <1>1, <1>2, <1>3 DEF Normal, Field, Flag
<1>5. InBounds(p) /\ CrossFields(p)
  BY <1>3 DEF Valid
<1>6. p \in Params
  BY <1>4, <1>5 DEF InBounds, Params, Field, Flag
<1>7. Normal(p) = p
  BY <1>4 DEF Normal, Field
<1> QED
  BY <1>3, <1>5, <1>6, <1>7 DEF Proper

\* So are the defaults of every type of credential.
LEMMA DefaultIsProper ==
    ASSUME NEW type
    PROVE  DefaultParameters(type) \in Proper
<1>1. /\ {15, 60, 480} \subseteq Duration /\ {0, 10, 20} \subseteq Length
      /\ {10, 20, 50} \subseteq Daily /\ {0, 5, 15} \subseteq CoolDown
      /\ 15 <= 240
  BY DEF Duration, Length, Daily, CoolDown
<1>2. TierDefault("low") \in Proper
  BY <1>1 DEF TierDefault, Proper, Params, CrossFields, Normal
<1>3. TierDefault("medium") \in Proper
  BY <1>1 DEF TierDefault, Proper, Params, CrossFields, Normal
<1>4. TierDefault("high") \in Proper
  BY <1>1 DEF TierDefault, Proper, Params, CrossFields, Normal
<1>5. Tier(type) \in {"low", "medium", "high"}
  BY Zenon DEF Tier
<1> QED
  BY <1>2, <1>3, <1>4, <1>5 DEF DefaultParameters

\* An override of nothing changes nothing.
LEMMA NoOverride ==
    ASSUME NEW t \in Proper, NEW o, DOMAIN o = {}
    PROVE  Effective(t, o) = t
<1>1. \A f \in Field : Merge(t, o)[f] = t[f]
  BY DEF Merge
<1>2. Merge(t, o) = t
  BY <1>1 DEF Proper, Params, Merge, Field
<1> QED
  BY <1>2 DEF Effective, Proper

\* What ResolveEffectivePolicy returns is proper.
LEMMA EffectiveIsProper ==
    ASSUME NEW t \in Proper, NEW o, Sent(o), Resolvable(t, o)
    PROVE  Effective(t, o) \in Proper
<1>1. Sent(Merge(t, o))
  BY DEF Sent, Merge, Proper, Params, Field, Flag
<1> QED
  BY <1>1, ValidIsProper DEF Effective, Resolvable

\* CompareWeakening misses nothing: without a warning, whatever attempt e lets
\* through t lets through as well, and no sooner, longer or less watched.
LEMMA UnwarnedStrict ==
    ASSUME NEW t \in Proper, NEW e \in Proper, Weaker(t, e) = {}, NEW a \in Attempt
    PROVE  AsStrict(e, t, a)
<1>1. /\ ~(e.maxDuration > t.maxDuration) /\ ~(e.perDay > t.perDay)
      /\ ~(e.minReason < t.minReason) /\ ~(e.coolDown < t.coolDown)
      /\ t.requireApproval => e.requireApproval
      /\ t.requireReason => e.requireReason
      /\ t.singleUse => e.singleUse
      /\ t.notify => e.notify
      /\ t.consent => e.consent
      /\ e.allowAuto => t.allowAuto
  BY DEF Weaker
<1>2. ASSUME NEW p \in {t, e}
      PROVE  /\ p.maxDuration \in Nat /\ p.perDay \in Nat
             /\ p.minReason \in Nat /\ p.coolDown \in Nat
  <2>1. /\ p.maxDuration \in Duration /\ p.perDay \in Daily
        /\ p.minReason \in Length /\ p.coolDown \in CoolDown
    BY DEF Proper, Params
  <2>2. /\ Duration \subseteq Nat /\ Length \subseteq Nat
        /\ Daily \subseteq Nat /\ CoolDown \subseteq Nat
    BY DEF Duration, Length, Daily, CoolDown
  <2> QED
    BY <2>1, <2>2
<1>3. a.reason \in Nat /\ a.today \in Nat /\ a.since \in Nat /\ a.dur \in Int
  BY DEF Attempt
<1>4. Admits(e, a) => Admits(t, a)
  BY <1>1, <1>2, <1>3 DEF Admits
<1>5. Granted(e, a) <= Granted(t, a)
  BY <1>1, <1>2, <1>3 DEF Granted
<1>6. AtOnce(e) => AtOnce(t)
  BY <1>1 DEF AtOnce
<1> QED
  BY <1>1, <1>4, <1>5, <1>6 DEF AsStrict

-----------------------------------------------------------------------------
(* The latest version                                                      *)

\* A set of natural numbers has a least one.
LEMMA Least ==
    ASSUME NEW T, T \subseteq Nat, T # {}
    PROVE  \E x \in T : \A y \in T : x <= y
<1>1. PICK R : R = OpToRel(<, Nat)
  OBVIOUS
<1>2. \A x, y \in Nat : x < y => <<x, y>> \in R
  BY <1>1 DEF OpToRel
<1>3. IsWellFoundedOn(R, Nat)
  BY <1>1, NatLessThanWellFounded
<1>4. PICK x \in T : \A y \in T : <<y, x>> \notin R
  BY <1>3, WFMin
<1>5. ASSUME NEW y \in T
      PROVE  x <= y
  <2>1. x \in Nat /\ y \in Nat
    OBVIOUS
  <2>2. ~(y < x)
    BY <1>2, <1>4, <2>1
  <2> QED
    BY <2>1, <2>2
<1> QED
  BY <1>5

\* So a set of version numbers has a greatest one.
LEMMA Greatest ==
    ASSUME NEW m \in Nat, NEW T, T \subseteq 1..m, T # {}
    PROVE  \E x \in T : \A y \in T : y <= x
<1> DEFINE D == {m - n : n \in T}
<1>1. \A n \in T : n \in Int /\ 1 <= n /\ n <= m
  OBVIOUS
<1>2. D \subseteq Nat
  BY <1>1
<1>3. D # {}
  OBVIOUS
<1>4. PICK x \in D : \A y \in D : x <= y
  <2> HIDE DEF D
  <2> QED
    BY <1>2, <1>3, Least
<1>5. PICK n \in T : x = m - n
  OBVIOUS
<1>6. \A k \in T : m - n <= m - k
  BY <1>4, <1>5
<1> QED
  BY <1>1, <1>6

\* A live template has a latest version, and it is stored.
LEMMA LatestStored ==
    ASSUME PolicyInv, NEW t \in Template, template[t].state = "live"
    PROVE  /\ LatestNumber(t) \in Number
           /\ version[t][LatestNumber(t)] \in Proper
<1>1. Numbers(t) # {} /\ Numbers(t) \subseteq 1..MaxVersion
  BY DEF PolicyInv, VersionsOK, Numbers, Number
<1>2. \E n \in Numbers(t) : \A x \in Numbers(t) : x <= n
  BY <1>1, Greatest, PolicyAssumption
<1>3. LatestNumber(t) \in Numbers(t)
  BY <1>1, <1>2 DEF LatestNumber
<1> QED
  BY <1>3 DEF Numbers, PolicyInv, PolicyTypeOK, TemplatesOK

-----------------------------------------------------------------------------
(* What a goroutine holds while rows change                                *)

\* A version that was read leads to itself or to nothing.
LEMMA LeadsStays ==
    ASSUME VersionsOK', Kept, NEW t, NEW n, Leads(t, n)
    PROVE  /\ Leads(t, n)'
           /\ Stored(t, n)' => Stored(t, n) /\ version'[t][n] = version[t][n]
<1>1. t \in Template /\ n \in Number
  BY DEF Leads
<1>2. Leads(t, n)'
  BY <1>1 DEF Leads, Kept, Stored
<1>3. Stored(t, n)' => template'[t].state # "gone"
  BY <1>1 DEF VersionsOK, Numbers, Stored
<1> QED
  BY <1>1, <1>2, <1>3 DEF Leads, Kept

\* So a snapshot that is not written yet stays true.
LEMMA SnapshotStays ==
    ASSUME VersionsOK', Kept, NEW x, SnapshotOK(x)
    PROVE  SnapshotOK(x)'
<1>1. CASE x.template = None
  BY <1>1 DEF SnapshotOK, FromTemplate, Stored, Kept
<1>2. CASE x.template # None
  <2>1. Leads(x.template, x.number)
    BY <1>2 DEF SnapshotOK
  <2>2. /\ Leads(x.template, x.number)'
        /\ Stored(x.template, x.number)' =>
             /\ Stored(x.template, x.number)
             /\ version'[x.template][x.number] = version[x.template][x.number]
    BY <2>1, LeadsStays
  <2> QED
    BY <1>2, <2>2 DEF SnapshotOK, FromTemplate
<1> QED
  BY <1>1, <1>2

\* And everything else a goroutine holds.
LEMMA WorkStays ==
    ASSUME VersionsOK', Kept, NEW w, WorkOK(w)
    PROVE  WorkOK(w)'
<1>1. w.pc = "bind" =>
        /\ Leads(w.binding.template, w.binding.number)'
        /\ Stored(w.binding.template, w.binding.number)' => Checked(w.binding)'
  <2> SUFFICES ASSUME w.pc = "bind"
               PROVE  /\ Leads(w.binding.template, w.binding.number)'
                      /\ Stored(w.binding.template, w.binding.number)' => Checked(w.binding)'
    OBVIOUS
  <2>1. PICK t, n : t = w.binding.template /\ n = w.binding.number
    OBVIOUS
  <2>2. Leads(t, n) /\ (Stored(t, n) => Checked(w.binding))
    BY <2>1 DEF WorkOK
  <2>3. /\ Leads(t, n)'
        /\ Stored(t, n)' => Stored(t, n) /\ version'[t][n] = version[t][n]
    BY <2>2, LeadsStays
  <2> QED
    BY <2>1, <2>2, <2>3 DEF Checked
<1>2. w.pc = "request" => SnapshotOK(w.snapshot)'
  BY SnapshotStays DEF WorkOK
<1> QED
  BY <1>1, <1>2 DEF WorkOK

-----------------------------------------------------------------------------
(* The frame of a step                                                     *)

\* What a step has to show for the invariant to hold after it.
LEMMA StepKeeps ==
    ASSUME PolicyInv, Kept, TemplatesOK', VersionsOK',
           binding' \in [Secret -> BindingRow], BindingsOK', RequestsOK',
           deleted' \subseteq Secret,
           permission' \in [Secret -> [Agent -> {0, 1}]],
           granted' \subseteq Secret \X Agent, PermissionKept',
           DOMAIN worker' = Handler, \A h \in Handler : WorkOK(worker'[h])
    PROVE  PolicyInv' /\ Kept
<1>1. ASSUME NEW h \in Handler
      PROVE  WorkOK(worker[h])'
  <2>1. PICK w : w = worker'[h]
    OBVIOUS
  <2>2. WorkOK(w)'
    BY <2>1, WorkStays
  <2> QED
    BY <2>1, <2>2
<1>2. \A h \in Handler : worker'[h].params \in ParamsOrNone
  BY DEF WorkOK
<1>3. PolicyTypeOK'
  BY <1>2 DEF PolicyTypeOK, RequestsOK, SnapshotOK
<1> QED
  BY <1>1, <1>3 DEF PolicyInv

\* A goroutine that is not in the middle of a grant changes no permission.
LEMMA PermissionStays ==
    ASSUME PolicyInv, NEW h \in Handler, worker[h].pc # "grant",
           \A g \in Handler \ {h} : worker'[g] = worker[g],
           UNCHANGED <<permission, granted>>
    PROVE  PermissionKept'
  BY DEF PolicyInv, PermissionKept

\* A goroutine moves, and versions only come.
LEMMA GrowthKeeps ==
    ASSUME PolicyInv, TemplatesOK', VersionsOK',
           \A t \in Template : template[t].state = "gone" => template'[t].state = "gone",
           \A t \in Template, n \in Number : Stored(t, n) => version'[t][n] = version[t][n],
           UNCHANGED <<binding, permission, deleted, request, granted>>,
           NEW h \in Handler, worker[h].pc # "grant",
           NEW w, WorkOK(w), worker' = [worker EXCEPT ![h] = w]
    PROVE  PolicyInv' /\ Kept
<1>1. Kept
  BY DEF Kept
<1>2. \A t, n : Stored(t, n) /\ t \in Template => Stored(t, n)' /\ version'[t][n] = version[t][n]
  BY DEF Stored
<1>3. BindingsOK'
  <2> SUFFICES ASSUME NEW s \in Secret, binding'[s].template # None
               PROVE  Stored(binding[s].template, binding[s].number)' /\ Checked(binding[s])'
    BY DEF BindingsOK
  <2>1. PICK b \in BindingRow : b = binding[s]
    BY DEF PolicyInv, PolicyTypeOK
  <2>2. Stored(b.template, b.number) /\ Checked(b) /\ b.template \in Template
    BY <2>1 DEF PolicyInv, BindingsOK, BindingRow
  <2>3. Stored(b.template, b.number)' /\ Checked(b)'
    BY <1>2, <2>2 DEF Checked
  <2> QED
    BY <2>1, <2>3
<1>4. RequestsOK'
  <2> SUFFICES ASSUME NEW r \in Request
               PROVE  SnapshotOK(request[r])' /\ Linked(request[r])'
    BY DEF RequestsOK, PolicyInv
  <2>1. PICK x : x = request[r]
    OBVIOUS
  <2>2. SnapshotOK(x) /\ Linked(x)
    BY <2>1 DEF PolicyInv, RequestsOK
  <2>3. SnapshotOK(x)'
    BY <1>1, <2>2, SnapshotStays
  <2>4. Linked(x)'
    BY <1>2, <2>2 DEF Linked, SnapshotOK, Leads
  <2> QED
    BY <2>1, <2>3, <2>4
<1>5. /\ DOMAIN worker' = Handler /\ worker'[h] = w
      /\ \A g \in Handler \ {h} : worker'[g] = worker[g]
  BY DEF PolicyInv
<1>6. PermissionKept'
  BY <1>5, PermissionStays
<1>7. \A g \in Handler : WorkOK(worker'[g])
  BY <1>5 DEF PolicyInv
<1> QED
  BY <1>1, <1>3, <1>4, <1>5, <1>6, <1>7, StepKeeps DEF PolicyInv, PolicyTypeOK

\* A goroutine moves, and no row changes.
LEMMA MoveKeeps ==
    ASSUME PolicyInv,
           UNCHANGED <<template, version, binding, permission, deleted, request, granted>>,
           NEW h \in Handler, worker[h].pc # "grant",
           NEW w, WorkOK(w), worker' = [worker EXCEPT ![h] = w]
    PROVE  PolicyInv' /\ Kept
<1>1. TemplatesOK' /\ VersionsOK'
  BY DEF PolicyInv, PolicyTypeOK, TemplatesOK, VersionsOK, Numbers, Exists
<1> QED
  BY <1>1, GrowthKeeps

-----------------------------------------------------------------------------
(* Calls                                                                   *)

\* A goroutine that is done holds nothing.
LEMMA IdleOK == WorkOK(Idle)
BY DEF WorkOK, Idle, ParamsOrNone

\* A call that is accepted takes an idle goroutine and changes no row.
LEMMA StartKeeps ==
    ASSUME PolicyInv,
           UNCHANGED <<template, version, binding, permission, deleted, request, granted>>,
           NEW h \in Handler, NEW w, WorkOK(w), Start(h, w)
    PROVE  PolicyInv' /\ Kept
BY MoveKeeps DEF Start

\* POST .../policy-templates keeps the parameters it validated.
LEMMA CreateTemplateKeeps ==
    ASSUME PolicyInv, NEW h \in Handler, NEW n \in Name, NEW in \in Input,
           CreateTemplate(h, n, in)
    PROVE  PolicyInv' /\ Kept
<1> DEFINE w == [Idle EXCEPT !.pc = "insert", !.name = n, !.params = Normal(in)]
<1>1. Normal(in) \in Proper
  BY ValidIsProper, PolicyAssumption DEF CreateTemplate
<1>2. WorkOK(w)
  BY <1>1 DEF WorkOK, Idle, ParamsOrNone, Proper
<1>3. Start(h, w)
  BY DEF CreateTemplate
<1> HIDE DEF w
<1> QED
  BY <1>2, <1>3, StartKeeps DEF CreateTemplate

\* POST .../clone keeps what the latest version has.
LEMMA CloneTemplateKeeps ==
    ASSUME PolicyInv, NEW h \in Handler, NEW t \in Template, NEW n \in Name,
           CloneTemplate(h, t, n)
    PROVE  PolicyInv' /\ Kept
<1> DEFINE w == [Idle EXCEPT !.pc = "insert", !.name = n, !.params = Latest(t)]
<1>1. Latest(t) \in Proper
  BY LatestStored DEF CloneTemplate, Exists, Latest
<1>2. WorkOK(w)
  BY <1>1 DEF WorkOK, Idle, ParamsOrNone, Proper
<1>3. Start(h, w)
  BY DEF CloneTemplate
<1> HIDE DEF w
<1> QED
  BY <1>2, <1>3, StartKeeps DEF CloneTemplate

\* GET .../policy-templates starts with all the seeds.
LEMMA ListTemplatesKeeps ==
    ASSUME PolicyInv, NEW h \in Handler, ListTemplates(h)
    PROVE  PolicyInv' /\ Kept
<1> DEFINE w == [Idle EXCEPT !.pc = "seed", !.todo = Seeds]
<1>1. WorkOK(w)
  BY PolicyAssumption DEF WorkOK, Idle, ParamsOrNone, SeedRow
<1>2. Start(h, w)
  BY DEF ListTemplates
<1> HIDE DEF w
<1> QED
  BY <1>1, <1>2, StartKeeps DEF ListTemplates

\* PUT /policy-templates/{id} keeps the parameters it validated.
LEMMA UpdateTemplateKeeps ==
    ASSUME PolicyInv, NEW h \in Handler, NEW t \in Template, NEW in \in Input,
           UpdateTemplate(h, t, in)
    PROVE  PolicyInv' /\ Kept
<1> DEFINE w == [Idle EXCEPT !.pc = "next", !.template = t, !.params = Normal(in)]
<1>1. Normal(in) \in Proper
  BY ValidIsProper, PolicyAssumption DEF UpdateTemplate
<1>2. WorkOK(w)
  BY <1>1 DEF WorkOK, Idle, ParamsOrNone, Proper
<1>3. Start(h, w)
  BY DEF UpdateTemplate
<1> HIDE DEF w
<1> QED
  BY <1>2, <1>3, StartKeeps DEF UpdateTemplate

\* DELETE /policy-templates/{id} keeps the id.
LEMMA DeleteTemplateKeeps ==
    ASSUME PolicyInv, NEW h \in Handler, NEW t \in Template, DeleteTemplate(h, t)
    PROVE  PolicyInv' /\ Kept
<1> DEFINE w == [Idle EXCEPT !.pc = "count", !.template = t]
<1>1. WorkOK(w)
  BY DEF WorkOK, Idle, ParamsOrNone
<1>2. Start(h, w)
  BY DEF DeleteTemplate
<1> HIDE DEF w
<1> QED
  BY <1>1, <1>2, StartKeeps DEF DeleteTemplate

\* PUT .../policy-binding keeps a binding checked against the version it read.
LEMMA UpdateBindingKeeps ==
    ASSUME PolicyInv, NEW h \in Handler, NEW s \in Secret, NEW t \in Template,
           NEW n \in Number, NEW o \in Override, UpdateBinding(h, s, t, n, o)
    PROVE  PolicyInv' /\ Kept
<1> DEFINE b == [template |-> t, number |-> n, override |-> o,
                 warnings |-> Weaker(version[t][n], Effective(version[t][n], o))]
           w == [Idle EXCEPT !.pc = "bind", !.secret = s, !.binding = b]
<1>1. Weaker(version[t][n], Effective(version[t][n], o)) \subseteq Field
  BY DEF Weaker, Field
<1>2. b \in BindingRow
  BY <1>1 DEF BindingRow
<1>3. b.template = t /\ b.number = n /\ Checked(b)
  BY DEF UpdateBinding, Checked
<1>4. Leads(t, n)
  BY DEF UpdateBinding, Leads
<1>5. Start(h, w)
  BY DEF UpdateBinding
<1> HIDE DEF b
<1>6. WorkOK(w)
  BY <1>2, <1>3, <1>4 DEF WorkOK, Idle, ParamsOrNone
<1> HIDE DEF w
<1> QED
  BY <1>5, <1>6, StartKeeps DEF UpdateBinding

\* POST .../policy-agent-permissions keeps the pair.
LEMMA GrantPolicyReadKeeps ==
    ASSUME PolicyInv, NEW h \in Handler, NEW s \in Secret, NEW a \in Agent,
           GrantPolicyRead(h, s, a)
    PROVE  PolicyInv' /\ Kept
<1> DEFINE w == [Idle EXCEPT !.pc = "revokeOld", !.secret = s, !.agent = a]
<1>1. WorkOK(w)
  BY DEF WorkOK, Idle, ParamsOrNone
<1>2. Start(h, w)
  BY DEF GrantPolicyRead
<1> HIDE DEF w
<1> QED
  BY <1>1, <1>2, StartKeeps DEF GrantPolicyRead

\* The default that stands in for a template names none.
LEMMA DefaultSnapshotOK ==
    ASSUME NEW s
    PROVE  SnapshotOK(DefaultSnapshot(s))
<1>1. DefaultParameters(TypeOf[s]) \in Params
  BY DefaultIsProper DEF Proper
<1> QED
  BY <1>1 DEF SnapshotOK, FromTemplate, DefaultSnapshot, NoRequest, ParamsOrNone, Stored

\* ResolveRuntimePolicyBySecretID answers with a stored version, or the default.
LEMMA ResolvedSnapshotOK ==
    ASSUME PolicyInv, NEW s \in Secret
    PROVE  SnapshotOK(ResolveRuntimePolicy(s))
<1>1. PICK b \in BindingRow : b = binding[s]
  BY DEF PolicyInv, PolicyTypeOK
<1>2. PICK tpl : tpl = version[b.template][b.number]
  OBVIOUS
<1> DEFINE used == s \notin deleted /\ Stored(b.template, b.number) /\ Resolvable(tpl, b.override)
<1>3. CASE used
  <2> DEFINE src == IF DOMAIN b.override = {} THEN "template" ELSE "template+override"
             eff == Effective(tpl, b.override)
             x == [NoRequest EXCEPT !.source = src, !.params = eff,
                                    !.template = b.template, !.number = b.number]
  <2>1. ResolveRuntimePolicy(s) = x
    BY <1>1, <1>2, <1>3 DEF ResolveRuntimePolicy
  <2>2. b.template \in Template /\ b.number \in Number /\ b.number # None /\ tpl \in Proper
    BY <1>1, <1>2, <1>3, PolicyAssumption
       DEF Stored, BindingRow, PolicyInv, PolicyTypeOK, TemplatesOK, Number
  <2>3. Sent(b.override)
    BY <1>1, <1>3, PolicyAssumption DEF PolicyInv, BindingsOK, Checked, Stored
  <2>4. eff \in Proper
    BY <1>3, <2>2, <2>3, EffectiveIsProper
  <2>5. src = "template" => eff = tpl
    BY <2>2, NoOverride
  <2>6. Leads(b.template, b.number) /\ b.template # None
    BY <1>3, <2>2 DEF Leads, Stored
  <2> HIDE DEF eff
  <2>7. /\ DOMAIN x = DOMAIN NoRequest
        /\ x.source = src /\ x.params = eff /\ x.template = b.template /\ x.number = b.number
    BY DEF NoRequest
  <2>8. src \in {"template", "template+override"}
    OBVIOUS
  <2> HIDE DEF x, src
  <2>9. SnapshotOK(x)
    BY <1>2, <2>2, <2>4, <2>5, <2>6, <2>7, <2>8 DEF SnapshotOK, Proper, ParamsOrNone
  <2> QED
    BY <2>1, <2>9
<1>4. CASE ~used
  <2>1. ResolveRuntimePolicy(s) = DefaultSnapshot(s)
    BY <1>1, <1>2, <1>4 DEF ResolveRuntimePolicy
  <2> QED
    BY <2>1, DefaultSnapshotOK
<1> QED
  BY <1>3, <1>4

\* CreateRequest keeps the policy it resolved.
LEMMA CreateRequestKeeps ==
    ASSUME PolicyInv, NEW h \in Handler, NEW s \in Secret, CreateRequest(h, s)
    PROVE  PolicyInv' /\ Kept
<1>1. PICK x \in {ResolveRuntimePolicy(s), DefaultSnapshot(s)} :
        Start(h, [Idle EXCEPT !.pc = "request", !.secret = s,
                              !.snapshot = [x EXCEPT !.custom = ResolveCustom(s)]])
  BY DEF CreateRequest
<1> DEFINE y == [x EXCEPT !.custom = ResolveCustom(s)]
           w == [Idle EXCEPT !.pc = "request", !.secret = s, !.snapshot = y]
<1>2. SnapshotOK(x)
  BY DefaultSnapshotOK, ResolvedSnapshotOK
<1>3. /\ DOMAIN y = DOMAIN x
      /\ y.source = x.source /\ y.params = x.params
      /\ y.template = x.template /\ y.number = x.number
  BY <1>2 DEF SnapshotOK, NoRequest
<1>4. Start(h, w)
  BY <1>1
<1> HIDE DEF y
<1>5. SnapshotOK(y)
  BY <1>2, <1>3 DEF SnapshotOK, FromTemplate
<1>6. WorkOK(w)
  BY <1>5 DEF WorkOK, Idle, ParamsOrNone
<1> HIDE DEF w
<1> QED
  BY <1>4, <1>6, StartKeeps DEF CreateRequest

-----------------------------------------------------------------------------
(* Templates and versions, statement by statement                          *)

\* A template's first version comes with its row, under a free name.
LEMMA NewTemplateKeeps ==
    ASSUME PolicyInv, NEW n \in Name, NEW system \in BOOLEAN, NEW p \in Proper,
           ~Taken(n), NewTemplate(n, system, p),
           UNCHANGED <<binding, permission, deleted, request, granted>>,
           NEW h \in Handler, worker[h].pc # "grant",
           NEW w, WorkOK(w), worker' = [worker EXCEPT ![h] = w]
    PROVE  PolicyInv' /\ Kept
<1> DEFINE row == [state |-> "live", name |-> n, system |-> system, params |-> p]
<1>1. PICK t \in Template : /\ template[t].state = "none"
                            /\ template' = [template EXCEPT ![t] = row]
                            /\ version' = [version EXCEPT ![t][1] = p]
  BY DEF NewTemplate
<1>2. /\ row \in TemplateRow /\ row.state = "live" /\ row.name = n
      /\ 1 \in Number /\ p # None /\ t # None
  BY PolicyAssumption DEF TemplateRow, ParamsOrNone, Proper, Number
<1> HIDE DEF row
<1>3. /\ template \in [Template -> TemplateRow]
      /\ version \in [Template -> [Number -> Proper \cup {None}]]
  BY DEF PolicyInv, PolicyTypeOK, TemplatesOK
<1>4. /\ template' \in [Template -> TemplateRow] /\ template'[t] = row
      /\ \A x \in Template \ {t} : template'[x] = template[x]
  BY <1>1, <1>2, <1>3
<1>5. /\ version' \in [Template -> [Number -> Proper \cup {None}]] /\ version'[t][1] = p
      /\ \A x \in Template \ {t} : version'[x] = version[x]
  BY <1>1, <1>2, <1>3
<1>6. \A m \in Number : version[t][m] = None
  BY <1>1 DEF PolicyInv, VersionsOK, Numbers
<1>7. TemplatesOK'
  <2> SUFFICES ASSUME NEW x \in Template, NEW y \in Template, x # y, Exists(x)', Exists(y)'
               PROVE  template'[x].name # template'[y].name
    BY <1>4, <1>5 DEF TemplatesOK
  <2>1. \A z \in Template : Exists(z) => template[z].name # n
    BY DEF Taken
  <2>2. CASE x # t /\ y # t
    BY <1>4, <2>2 DEF Exists, PolicyInv, PolicyTypeOK, TemplatesOK
  <2>3. CASE x = t \/ y = t
    BY <1>2, <1>4, <2>1, <2>3 DEF Exists
  <2> QED
    BY <2>2, <2>3
<1>8. VersionsOK'
  <2> SUFFICES ASSUME NEW x \in Template
               PROVE  Numbers(x)' # {} <=> template'[x].state = "live"
    BY DEF VersionsOK
  <2>1. CASE x = t
    BY <1>2, <1>4, <1>5, <2>1 DEF Numbers
  <2>2. CASE x # t
    BY <1>4, <1>5, <2>2 DEF Numbers, PolicyInv, VersionsOK
  <2> QED
    BY <2>1, <2>2
<1>9. \A x \in Template : template[x].state = "gone" => template'[x].state = "gone"
  BY <1>1, <1>4
<1>10. \A x \in Template, m \in Number : Stored(x, m) => version'[x][m] = version[x][m]
  BY <1>5, <1>6 DEF Stored
<1> QED
  BY <1>7, <1>8, <1>9, <1>10, GrowthKeeps

\* A goroutine that ends a call without a change.
LEMMA FinishKeeps ==
    ASSUME PolicyInv,
           UNCHANGED <<template, version, binding, permission, deleted, request, granted>>,
           NEW h \in Handler, worker[h].pc # "grant", Finish(h)
    PROVE  PolicyInv' /\ Kept
BY IdleOK, MoveKeeps DEF Finish

\* CreateTemplate and CloneTemplate insert what they hold, or lose the name.
LEMMA InsertTemplateKeeps ==
    ASSUME PolicyInv, NEW h \in Handler, InsertTemplate(h)
    PROVE  PolicyInv' /\ Kept
<1>1. worker[h].pc = "insert" /\ worker[h].name \in Name /\ worker[h].params \in Proper
  BY DEF InsertTemplate, PolicyInv, WorkOK
<1>2. /\ Finish(h)
      /\ UNCHANGED <<binding, permission, deleted, request, granted>>
  BY DEF InsertTemplate
<1>3. CASE Taken(worker[h].name)
  BY <1>1, <1>2, <1>3, FinishKeeps DEF InsertTemplate
<1>4. CASE ~Taken(worker[h].name)
  <2>1. NewTemplate(worker[h].name, FALSE, worker[h].params)
    BY <1>4 DEF InsertTemplate
  <2> QED
    BY <1>1, <1>2, <1>4, <2>1, IdleOK, NewTemplateKeeps DEF Finish
<1> QED
  BY <1>3, <1>4

\* EnsureSystemTemplate goes on to the next seed, or to insert this one.
LEMMA FindSystemTemplateKeeps ==
    ASSUME PolicyInv, NEW h \in Handler, FindSystemTemplate(h)
    PROVE  PolicyInv' /\ Kept
<1>1. PICK w : w = worker[h]
  OBVIOUS
<1>2. /\ w.pc = "seed" /\ WorkOK(w) /\ w.todo \in Seq(SeedRow)
      /\ UNCHANGED <<template, version, binding, permission, deleted, request, granted>>
  BY <1>1 DEF FindSystemTemplate, PolicyInv, WorkOK
<1>3. CASE w.todo = <<>>
  BY <1>1, <1>2, <1>3, FinishKeeps DEF FindSystemTemplate
<1>4. CASE w.todo # <<>>
  <2> DEFINE v == [w EXCEPT !.todo = Tail(@)]
             u == [w EXCEPT !.pc = "insertSystem"]
  <2>1. Tail(w.todo) \in Seq(SeedRow)
    BY <1>2, <1>4
  <2>2. WorkOK(v)
    BY <1>2, <2>1 DEF WorkOK, Idle
  <2>3. WorkOK(u)
    BY <1>2, <1>4 DEF WorkOK, Idle
  <2>4. worker' = [worker EXCEPT ![h] = v] \/ worker' = [worker EXCEPT ![h] = u]
    BY <1>1, <1>4 DEF FindSystemTemplate, Goto
  <2> HIDE DEF u, v
  <2> QED
    BY <1>1, <1>2, <2>2, <2>3, <2>4, MoveKeeps
<1> QED
  BY <1>3, <1>4

\* A seed's template has its type's default, or the listing fails.
LEMMA InsertSystemTemplateKeeps ==
    ASSUME PolicyInv, NEW h \in Handler, InsertSystemTemplate(h)
    PROVE  PolicyInv' /\ Kept
<1>1. PICK w : w = worker[h]
  OBVIOUS
<1>2. /\ w.pc = "insertSystem" /\ WorkOK(w)
      /\ w.todo \in Seq(SeedRow) /\ w.todo # <<>>
      /\ UNCHANGED <<binding, permission, deleted, request, granted>>
  BY <1>1 DEF InsertSystemTemplate, PolicyInv, WorkOK
<1>3. PICK seed \in SeedRow : seed = Head(w.todo)
  BY <1>2
<1>4. CASE Taken(seed.name)
  <2>1. Finish(h) /\ UNCHANGED <<template, version>>
    BY <1>1, <1>3, <1>4 DEF InsertSystemTemplate
  <2> QED
    BY <1>1, <1>2, <2>1, FinishKeeps
<1>5. CASE ~Taken(seed.name)
  <2> DEFINE v == [w EXCEPT !.pc = "seed", !.todo = Tail(@)]
  <2>1. Tail(w.todo) \in Seq(SeedRow)
    BY <1>2
  <2>2. WorkOK(v)
    BY <1>2, <2>1 DEF WorkOK, Idle
  <2>3. /\ NewTemplate(seed.name, TRUE, DefaultParameters(seed.type))
        /\ worker' = [worker EXCEPT ![h] = v]
    BY <1>1, <1>3, <1>5 DEF InsertSystemTemplate
  <2> HIDE DEF v
  <2>4. seed.name \in Name /\ DefaultParameters(seed.type) \in Proper
    BY DefaultIsProper DEF SeedRow
  <2> QED
    BY <1>1, <1>2, <1>5, <2>2, <2>3, <2>4, NewTemplateKeeps
<1> QED
  BY <1>4, <1>5

\* The number a goroutine will take is one more than the latest it saw.
LEMMA NextVersionKeeps ==
    ASSUME PolicyInv, NEW h \in Handler, NextVersion(h)
    PROVE  PolicyInv' /\ Kept
<1>1. PICK w : w = worker[h]
  OBVIOUS
<1>2. /\ w.pc = "next" /\ WorkOK(w) /\ w.template \in Template
      /\ UNCHANGED <<template, version, binding, permission, deleted, request, granted>>
  BY <1>1 DEF NextVersion, PolicyInv, WorkOK
<1>3. PICK n : n = LatestNumber(w.template) + 1
  OBVIOUS
<1>4. n \in Number
  <2>1. LatestNumber(w.template) \in Number \cup {0}
    <3>1. CASE template[w.template].state = "live"
      BY <1>2, <3>1, LatestStored
    <3>2. CASE template[w.template].state # "live"
      BY <1>2, <3>2 DEF PolicyInv, VersionsOK, LatestNumber
    <3> QED
      BY <3>1, <3>2
  <2>2. LatestNumber(w.template) < MaxVersion
    BY <1>1 DEF NextVersion
  <2> QED
    BY <1>3, <2>1, <2>2, PolicyAssumption DEF Number
<1> DEFINE v == [w EXCEPT !.pc = "version", !.number = n]
<1>5. WorkOK(v)
  BY <1>2, <1>4 DEF WorkOK, Idle
<1>6. worker' = [worker EXCEPT ![h] = v]
  BY <1>1, <1>3 DEF NextVersion
<1> HIDE DEF v
<1> QED
  BY <1>1, <1>2, <1>5, <1>6, MoveKeeps

\* A number is taken only if it is free, of a template that exists.
LEMMA InsertVersionKeeps ==
    ASSUME PolicyInv, NEW h \in Handler, InsertVersion(h)
    PROVE  PolicyInv' /\ Kept
<1>1. PICK w : w = worker[h]
  OBVIOUS
<1>2. /\ w.pc = "version" /\ WorkOK(w) /\ w.template \in Template /\ w.number \in Number
      /\ w.params \in Proper
      /\ UNCHANGED <<template, binding, permission, deleted, request, granted>>
  BY <1>1 DEF InsertVersion, PolicyInv, WorkOK
<1>3. CASE ~FreeNumber(w.template, w.number)
  BY <1>1, <1>2, <1>3, FinishKeeps DEF InsertVersion
<1>4. CASE FreeNumber(w.template, w.number)
  <2>1. PICK t \in Template, n \in Number, p \in Proper :
          t = w.template /\ n = w.number /\ p = w.params
    BY <1>2
  <2> DEFINE v == [w EXCEPT !.pc = "touch"]
  <2>2. WorkOK(v)
    BY <1>2 DEF WorkOK, Idle
  <2>3. /\ version' = [version EXCEPT ![t][n] = p]
        /\ worker' = [worker EXCEPT ![h] = v]
    BY <1>1, <1>4, <2>1 DEF InsertVersion, Goto
  <2> HIDE DEF v
  <2>4. version \in [Template -> [Number -> Proper \cup {None}]]
    BY DEF PolicyInv, PolicyTypeOK, TemplatesOK
  <2>5. /\ version' \in [Template -> [Number -> Proper \cup {None}]] /\ version'[t][n] = p
        /\ \A x \in Template, m \in Number : <<x, m>> # <<t, n>> => version'[x][m] = version[x][m]
    BY <2>3, <2>4
  <2>6. p # None
    BY PolicyAssumption DEF Proper
  <2>7. template[t].state = "live" /\ version[t][n] = None
    BY <1>4, <2>1 DEF FreeNumber, Exists
  <2>8. TemplatesOK'
    BY <1>2, <2>5 DEF PolicyInv, PolicyTypeOK, TemplatesOK, Exists
  <2>9. VersionsOK'
    <3> SUFFICES ASSUME NEW x \in Template
                 PROVE  Numbers(x)' # {} <=> template'[x].state = "live"
      BY DEF VersionsOK
    <3>1. CASE x = t
      BY <1>2, <2>5, <2>6, <2>7, <3>1 DEF Numbers
    <3>2. CASE x # t
      BY <1>2, <2>5, <3>2 DEF Numbers, PolicyInv, VersionsOK
    <3> QED
      BY <3>1, <3>2
  <2>10. \A x \in Template, m \in Number : Stored(x, m) => version'[x][m] = version[x][m]
    BY <2>5, <2>7 DEF Stored
  <2> QED
    BY <1>1, <1>2, <2>2, <2>3, <2>8, <2>9, <2>10, GrowthKeeps
<1> QED
  BY <1>3, <1>4

\* The copy of the parameters in the template's row is typed like they are.
LEMMA TouchTemplateKeeps ==
    ASSUME PolicyInv, NEW h \in Handler, TouchTemplate(h)
    PROVE  PolicyInv' /\ Kept
<1>1. PICK w : w = worker[h]
  OBVIOUS
<1>2. /\ w.pc = "touch" /\ w.template \in Template /\ w.params \in Proper
      /\ Finish(h)
      /\ UNCHANGED <<version, binding, permission, deleted, request, granted>>
  BY <1>1 DEF TouchTemplate, PolicyInv, WorkOK
<1>3. CASE ~Exists(w.template)
  BY <1>1, <1>2, <1>3, FinishKeeps DEF TouchTemplate
<1>4. CASE Exists(w.template)
  <2>1. PICK t \in Template, p \in Proper : t = w.template /\ p = w.params
    BY <1>2
  <2> DEFINE row == [template[t] EXCEPT !.params = p]
  <2>2. template \in [Template -> TemplateRow]
    BY DEF PolicyInv, PolicyTypeOK, TemplatesOK
  <2>3. /\ row \in TemplateRow
        /\ row.state = template[t].state /\ row.name = template[t].name
    BY <2>2 DEF TemplateRow, ParamsOrNone, Proper
  <2>4. template' = [template EXCEPT ![t] = row]
    BY <1>1, <1>4, <2>1 DEF TouchTemplate
  <2> HIDE DEF row
  <2>5. /\ template' \in [Template -> TemplateRow]
        /\ \A x \in Template : /\ template'[x].state = template[x].state
                               /\ template'[x].name = template[x].name
    BY <2>2, <2>3, <2>4
  <2>6. TemplatesOK'
    BY <1>2, <2>5 DEF PolicyInv, PolicyTypeOK, TemplatesOK, Exists
  <2>7. \A x \in Template : Numbers(x)' = Numbers(x)
    BY <1>2 DEF Numbers
  <2>8. VersionsOK'
    BY <2>5, <2>7 DEF PolicyInv, VersionsOK
  <2> QED
    BY <1>1, <1>2, <2>5, <2>6, <2>8, IdleOK, GrowthKeeps DEF Finish
<1> QED
  BY <1>3, <1>4

\* A bound template is not deleted, one that is not goes on to be.
LEMMA CountUsageKeeps ==
    ASSUME PolicyInv, NEW h \in Handler, CountUsage(h)
    PROVE  PolicyInv' /\ Kept
<1>1. PICK w : w = worker[h]
  OBVIOUS
<1>2. /\ w.pc = "count" /\ WorkOK(w)
      /\ UNCHANGED <<template, version, binding, permission, deleted, request, granted>>
  BY <1>1 DEF CountUsage, PolicyInv
<1> DEFINE v == [w EXCEPT !.pc = "drop"]
<1>3. WorkOK(v)
  BY <1>2 DEF WorkOK, Idle
<1>4. Finish(h) \/ worker' = [worker EXCEPT ![h] = v]
  BY <1>1 DEF CountUsage, Goto
<1> HIDE DEF v
<1> QED
  BY <1>1, <1>2, <1>3, <1>4, FinishKeeps, MoveKeeps

\* The foreign keys: no binding loses its version, and a snapshot of the template
\* forgets it.
LEMMA DropTemplateKeeps ==
    ASSUME PolicyInv, NEW h \in Handler, DropTemplate(h)
    PROVE  PolicyInv' /\ Kept
<1>1. /\ worker[h].pc = "drop" /\ worker[h].template \in Template
      /\ Finish(h)
      /\ UNCHANGED <<binding, permission, deleted, granted>>
  BY DEF DropTemplate, PolicyInv, WorkOK
<1>2. PICK t \in Template : t = worker[h].template
  BY <1>1
<1>3. CASE ~(Exists(t) /\ ~Restricted(t))
  BY <1>1, <1>2, <1>3, FinishKeeps DEF DropTemplate
<1>4. CASE Exists(t) /\ ~Restricted(t)
  <2> DEFINE row == [NoTemplate EXCEPT !.state = "gone"]
             nothing == [n \in Number |-> None]
  <2>1. /\ template' = [template EXCEPT ![t] = row]
        /\ version' = [version EXCEPT ![t] = nothing]
        /\ request' = [r \in Request |-> Unlinked(r, t)]
    BY <1>2, <1>4 DEF DropTemplate
  <2>2. /\ row \in TemplateRow /\ row.state = "gone"
        /\ nothing \in [Number -> Proper \cup {None}]
        /\ \A n \in Number : nothing[n] = None
    BY DEF NoTemplate, TemplateRow, ParamsOrNone
  <2> HIDE DEF row, nothing
  <2>3. /\ template' \in [Template -> TemplateRow] /\ template'[t].state = "gone"
        /\ version' \in [Template -> [Number -> Proper \cup {None}]]
        /\ \A n \in Number : version'[t][n] = None
        /\ \A x \in Template \ {t} : template'[x] = template[x] /\ version'[x] = version[x]
    BY <2>1, <2>2 DEF PolicyInv, PolicyTypeOK, TemplatesOK
  <2>4. TemplatesOK'
    BY <2>3 DEF PolicyInv, PolicyTypeOK, TemplatesOK, Exists
  <2>5. VersionsOK'
    <3> SUFFICES ASSUME NEW x \in Template
                 PROVE  Numbers(x)' # {} <=> template'[x].state = "live"
      BY DEF VersionsOK
    <3>1. CASE x = t
      BY <2>3, <3>1 DEF Numbers
    <3>2. CASE x # t
      BY <2>3, <3>2 DEF Numbers, PolicyInv, VersionsOK
    <3> QED
      BY <3>1, <3>2
  <2>6. Kept
    BY <2>3 DEF Kept
  <2>7. BindingsOK'
    <3> SUFFICES ASSUME NEW s \in Secret, binding'[s].template # None
                 PROVE  Stored(binding[s].template, binding[s].number)' /\ Checked(binding[s])'
      BY DEF BindingsOK
    <3>1. PICK b \in BindingRow : b = binding[s]
      BY DEF PolicyInv, PolicyTypeOK
    <3>2. /\ Stored(b.template, b.number) /\ Checked(b)
          /\ b.template \in Template /\ b.template # t
      BY <1>1, <1>4, <3>1 DEF PolicyInv, BindingsOK, BindingRow, Restricted, Bound
    <3>3. Stored(b.template, b.number)' /\ Checked(b)'
      BY <2>3, <3>2 DEF Stored, Checked
    <3> QED
      BY <1>1, <3>1, <3>3
  <2>8. RequestsOK'
    <3> SUFFICES ASSUME NEW r \in Request
                 PROVE  SnapshotOK(request[r])' /\ Linked(request[r])'
      BY <2>1 DEF RequestsOK
    <3>1. PICK x : x = request[r]
      OBVIOUS
    <3>2. SnapshotOK(x) /\ Linked(x)
      BY <3>1 DEF PolicyInv, RequestsOK
    <3>3. PICK y : y = request'[r]
      OBVIOUS
    <3>4. CASE x.template = t
      <4>1. y = [x EXCEPT !.template = None]
        BY <2>1, <3>1, <3>3, <3>4 DEF Unlinked
      <4>2. /\ DOMAIN y = DOMAIN NoRequest /\ y.source = x.source /\ y.params = x.params
            /\ y.template = None
        BY <3>2, <4>1 DEF SnapshotOK, NoRequest
      <4>3. SnapshotOK(y)' /\ Linked(y)'
        BY <2>3, <3>2, <4>2 DEF SnapshotOK, FromTemplate, Linked, Stored
      <4> QED
        BY <3>3, <4>3
    <3>5. CASE x.template # t
      <4>1. y = x
        BY <2>1, <3>1, <3>3, <3>5 DEF Unlinked
      <4>2. SnapshotOK(x)'
        BY <2>5, <2>6, <3>2, SnapshotStays
      <4>3. Linked(x)'
        BY <2>3, <3>2, <3>5 DEF Linked, SnapshotOK, Leads, Stored
      <4> QED
        BY <3>3, <4>1, <4>2, <4>3
    <3> QED
      BY <3>4, <3>5
  <2>9. /\ DOMAIN worker' = Handler /\ worker'[h] = Idle
        /\ \A g \in Handler \ {h} : worker'[g] = worker[g]
    BY <1>1 DEF Finish, PolicyInv
  <2>10. PermissionKept'
    BY <1>1, <2>9, PermissionStays
  <2>11. \A g \in Handler : WorkOK(worker'[g])
    BY <2>9, IdleOK DEF PolicyInv
  <2> QED
    BY <1>1, <2>4, <2>5, <2>6, <2>7, <2>8, <2>9, <2>10, <2>11, StepKeeps
       DEF PolicyInv, PolicyTypeOK
<1> QED
  BY <1>3, <1>4

-----------------------------------------------------------------------------
(* Bindings, permissions and requests                                      *)

\* Templates and versions as they were: what a step of the other tables shows.
LEMMA OtherTablesKeep ==
    ASSUME PolicyInv, UNCHANGED <<template, version>>,
           binding' \in [Secret -> BindingRow], BindingsOK', RequestsOK',
           deleted' \subseteq Secret,
           permission' \in [Secret -> [Agent -> {0, 1}]],
           granted' \subseteq Secret \X Agent, PermissionKept',
           DOMAIN worker' = Handler, \A h \in Handler : WorkOK(worker'[h])
    PROVE  PolicyInv' /\ Kept
<1>1. TemplatesOK' /\ VersionsOK' /\ Kept
  BY DEF PolicyInv, PolicyTypeOK, TemplatesOK, VersionsOK, Numbers, Exists, Kept
<1> QED
  BY <1>1, StepKeeps

\* Bindings and requests that no step touched.
LEMMA ReferencesStay ==
    ASSUME PolicyInv, UNCHANGED <<template, version>>
    PROVE  /\ binding' = binding => binding' \in [Secret -> BindingRow] /\ BindingsOK'
           /\ request' = request => RequestsOK'
           /\ \A t, n : Stored(t, n)' <=> Stored(t, n)
           /\ \A b : Checked(b) => Checked(b)'
           /\ \A x : SnapshotOK(x) => SnapshotOK(x)'
           /\ \A x : Linked(x) => Linked(x)'
BY DEF PolicyInv, PolicyTypeOK, BindingsOK, RequestsOK, SnapshotOK, FromTemplate, Leads, Linked,
       Stored, Checked

\* A binding whose version has gone is refused.
LEMMA UpsertSecretBindingKeeps ==
    ASSUME PolicyInv, NEW h \in Handler, UpsertSecretBinding(h)
    PROVE  PolicyInv' /\ Kept
<1>1. PICK s \in Secret, b \in BindingRow : s = worker[h].secret /\ b = worker[h].binding
  BY DEF UpsertSecretBinding, PolicyInv, WorkOK
<1>2. /\ worker[h].pc = "bind" /\ Finish(h)
      /\ Stored(b.template, b.number) => Checked(b)
      /\ UNCHANGED <<template, version, permission, deleted, request, granted>>
  BY <1>1 DEF UpsertSecretBinding, PolicyInv, WorkOK
<1>3. CASE ~Stored(b.template, b.number)
  BY <1>1, <1>2, <1>3, FinishKeeps DEF UpsertSecretBinding
<1>4. CASE Stored(b.template, b.number)
  <2>1. binding' = [binding EXCEPT ![s] = b]
    BY <1>1, <1>4 DEF UpsertSecretBinding
  <2>2. /\ binding' \in [Secret -> BindingRow] /\ binding'[s] = b
        /\ \A x \in Secret \ {s} : binding'[x] = binding[x]
    BY <2>1 DEF PolicyInv, PolicyTypeOK
  <2>3. Stored(b.template, b.number)' /\ Checked(b)'
    BY <1>2, <1>4, ReferencesStay
  <2>4. BindingsOK'
    <3> SUFFICES ASSUME NEW x \in Secret, binding'[x].template # None
                 PROVE  Stored(binding[x].template, binding[x].number)' /\ Checked(binding[x])'
      BY DEF BindingsOK
    <3>1. CASE x = s
      BY <2>2, <2>3, <3>1
    <3>2. CASE x # s
      <4>1. PICK c : c = binding[x]
        OBVIOUS
      <4>2. Stored(c.template, c.number) /\ Checked(c)
        BY <2>2, <3>2, <4>1 DEF PolicyInv, BindingsOK
      <4>3. Stored(c.template, c.number)' /\ Checked(c)'
        BY <1>2, <4>2, ReferencesStay
      <4> QED
        BY <2>2, <3>2, <4>1, <4>3
    <3> QED
      BY <3>1, <3>2
  <2>5. /\ DOMAIN worker' = Handler /\ worker'[h] = Idle
        /\ \A g \in Handler \ {h} : worker'[g] = worker[g]
    BY <1>2 DEF Finish, PolicyInv
  <2>6. PermissionKept' /\ RequestsOK'
    BY <1>2, <2>5, PermissionStays, ReferencesStay
  <2>7. \A g \in Handler : WorkOK(worker'[g])
    BY <2>5, IdleOK DEF PolicyInv
  <2> QED
    BY <1>2, <2>2, <2>4, <2>5, <2>6, <2>7, OtherTablesKeep DEF PolicyInv, PolicyTypeOK
<1> QED
  BY <1>3, <1>4

\* SetPolicy and DeleteSecret touch nothing a binding or a snapshot needs.
LEMMA SecretKeeps ==
    ASSUME PolicyInv, deleted' \subseteq Secret,
           UNCHANGED <<template, version, binding, permission, request, worker, granted>>
    PROVE  PolicyInv' /\ Kept
<1>1. PermissionKept'
  BY DEF PolicyInv, PermissionKept
<1> QED
  BY <1>1, ReferencesStay, OtherTablesKeep DEF PolicyInv, PolicyTypeOK

\* While the old grant is revoked the new one is under way.
LEMMA RevokePreviousKeeps ==
    ASSUME PolicyInv, NEW h \in Handler, RevokePrevious(h)
    PROVE  PolicyInv' /\ Kept
<1>1. PICK w : w = worker[h]
  OBVIOUS
<1>2. PICK s \in Secret, a \in Agent : s = w.secret /\ a = w.agent
  BY <1>1 DEF RevokePrevious, PolicyInv, WorkOK
<1> DEFINE v == [w EXCEPT !.pc = "grant"]
<1>3. /\ w.pc = "revokeOld" /\ WorkOK(w)
      /\ permission' = [permission EXCEPT ![s][a] = 0]
      /\ worker' = [worker EXCEPT ![h] = v]
      /\ UNCHANGED <<template, version, binding, deleted, request, granted>>
  BY <1>1, <1>2 DEF RevokePrevious, Goto, PolicyInv
<1>4. WorkOK(v) /\ v.pc = "grant" /\ v.secret = s /\ v.agent = a
  BY <1>2, <1>3 DEF WorkOK, Idle
<1> HIDE DEF v
<1>5. /\ permission' \in [Secret -> [Agent -> {0, 1}]]
      /\ \A x \in Secret, y \in Agent : <<x, y>> # <<s, a>> => permission'[x][y] = permission[x][y]
  BY <1>3 DEF PolicyInv, PolicyTypeOK
<1>6. /\ DOMAIN worker' = Handler /\ worker'[h] = v
      /\ \A g \in Handler \ {h} : worker'[g] = worker[g]
  BY <1>3 DEF PolicyInv
<1>7. PermissionKept'
  <2> SUFFICES ASSUME NEW x \in Secret, NEW y \in Agent, <<x, y>> \in granted
               PROVE  \/ permission'[x][y] = 1
                      \/ \E g \in Handler : /\ worker'[g].pc = "grant"
                                            /\ <<worker'[g].secret, worker'[g].agent>> = <<x, y>>
    BY <1>3 DEF PermissionKept, PolicyInv
  <2>1. CASE <<x, y>> = <<s, a>>
    BY <1>4, <1>6, <2>1
  <2>2. CASE <<x, y>> # <<s, a>>
    <3>1. \/ permission[x][y] = 1
          \/ \E g \in Handler : /\ worker[g].pc = "grant"
                                /\ <<worker[g].secret, worker[g].agent>> = <<x, y>>
      BY DEF PolicyInv, PermissionKept
    <3> QED
      BY <1>1, <1>3, <1>5, <1>6, <2>2, <3>1
  <2> QED
    BY <2>1, <2>2
<1>8. \A g \in Handler : WorkOK(worker'[g])
  BY <1>4, <1>6 DEF PolicyInv
<1> QED
  BY <1>3, <1>5, <1>6, <1>7, <1>8, ReferencesStay, OtherTablesKeep DEF PolicyInv, PolicyTypeOK

\* The row is there after the INSERT, this one's or another's.
LEMMA InsertPermissionKeeps ==
    ASSUME PolicyInv, NEW h \in Handler, InsertPermission(h)
    PROVE  PolicyInv' /\ Kept
<1>1. PICK s \in Secret, a \in Agent : s = worker[h].secret /\ a = worker[h].agent
  BY DEF InsertPermission, PolicyInv, WorkOK
<1>2. /\ worker[h].pc = "grant" /\ Finish(h)
      /\ permission' = [permission EXCEPT ![s][a] = IF @ = 0 THEN 1 ELSE @]
      /\ granted' = granted \cup {<<s, a>>}
      /\ UNCHANGED <<template, version, binding, deleted, request>>
  BY <1>1 DEF InsertPermission
<1>3. /\ permission' \in [Secret -> [Agent -> {0, 1}]] /\ permission'[s][a] = 1
      /\ \A x \in Secret, y \in Agent : <<x, y>> # <<s, a>> => permission'[x][y] = permission[x][y]
  BY <1>2 DEF PolicyInv, PolicyTypeOK
<1>4. /\ DOMAIN worker' = Handler /\ worker'[h] = Idle
      /\ \A g \in Handler \ {h} : worker'[g] = worker[g]
  BY <1>2 DEF Finish, PolicyInv
<1>5. PermissionKept'
  <2> SUFFICES ASSUME NEW x \in Secret, NEW y \in Agent, <<x, y>> \in granted'
               PROVE  \/ permission'[x][y] = 1
                      \/ \E g \in Handler : /\ worker'[g].pc = "grant"
                                            /\ <<worker'[g].secret, worker'[g].agent>> = <<x, y>>
    BY <1>2 DEF PermissionKept, PolicyInv
  <2>1. CASE <<x, y>> = <<s, a>>
    BY <1>3, <2>1
  <2>2. CASE <<x, y>> # <<s, a>>
    <3>1. \/ permission[x][y] = 1
          \/ \E g \in Handler : /\ worker[g].pc = "grant"
                                /\ <<worker[g].secret, worker[g].agent>> = <<x, y>>
      BY <1>2, <2>2 DEF PolicyInv, PermissionKept
    <3> QED
      BY <1>1, <1>3, <1>4, <2>2, <3>1
  <2> QED
    BY <2>1, <2>2
<1>6. \A g \in Handler : WorkOK(worker'[g])
  BY <1>4, IdleOK DEF PolicyInv
<1>7. granted' \subseteq Secret \X Agent
  BY <1>2 DEF PolicyInv
<1> QED
  BY <1>2, <1>3, <1>4, <1>5, <1>6, <1>7, ReferencesStay, OtherTablesKeep DEF PolicyInv, PolicyTypeOK

\* What is revoked is no longer promised.
LEMMA RevokeAgentPermissionKeeps ==
    ASSUME PolicyInv, NEW s \in Secret, NEW a \in Agent, RevokeAgentPermission(s, a)
    PROVE  PolicyInv' /\ Kept
<1>1. /\ permission' = [permission EXCEPT ![s][a] = 0]
      /\ granted' = granted \ {<<s, a>>}
      /\ UNCHANGED <<template, version, binding, deleted, request, worker>>
  BY DEF RevokeAgentPermission
<1>2. /\ permission' \in [Secret -> [Agent -> {0, 1}]]
      /\ \A x \in Secret, y \in Agent : <<x, y>> # <<s, a>> => permission'[x][y] = permission[x][y]
  BY <1>1 DEF PolicyInv, PolicyTypeOK
<1>3. PermissionKept'
  <2> SUFFICES ASSUME NEW x \in Secret, NEW y \in Agent, <<x, y>> \in granted'
               PROVE  \/ permission'[x][y] = 1
                      \/ \E g \in Handler : /\ worker'[g].pc = "grant"
                                            /\ <<worker'[g].secret, worker'[g].agent>> = <<x, y>>
    BY <1>1 DEF PermissionKept, PolicyInv
  <2> QED
    BY <1>1, <1>2 DEF PolicyInv, PermissionKept
<1>4. granted' \subseteq Secret \X Agent
  BY <1>1 DEF PolicyInv
<1> QED
  BY <1>1, <1>2, <1>3, <1>4, ReferencesStay, OtherTablesKeep DEF PolicyInv, PolicyTypeOK

\* The foreign keys of a snapshot are checked when it is written.
LEMMA InsertRequestKeeps ==
    ASSUME PolicyInv, NEW h \in Handler, NEW r \in Request, InsertRequest(h, r)
    PROVE  PolicyInv' /\ Kept
<1>1. PICK x : x = worker[h].snapshot
  OBVIOUS
<1>2. /\ worker[h].pc = "request" /\ Finish(h) /\ SnapshotOK(x)
      /\ UNCHANGED <<template, version, binding, permission, deleted, granted>>
  BY <1>1 DEF InsertRequest, PolicyInv, WorkOK
<1>3. /\ DOMAIN worker' = Handler /\ worker'[h] = Idle
      /\ \A g \in Handler \ {h} : worker'[g] = worker[g]
  BY <1>2 DEF Finish, PolicyInv
<1>4. RequestsOK'
  <2>1. CASE ~Linked(x)
    BY <1>1, <1>2, <2>1, ReferencesStay DEF InsertRequest
  <2>2. CASE Linked(x)
    <3>1. request' = [request EXCEPT ![r] = x]
      BY <1>1, <2>2 DEF InsertRequest
    <3>2. /\ DOMAIN request' = Request /\ request'[r] = x
          /\ \A q \in Request \ {r} : request'[q] = request[q]
      BY <3>1 DEF PolicyInv, RequestsOK
    <3>3. ASSUME NEW q \in Request
          PROVE  SnapshotOK(request[q])' /\ Linked(request[q])'
      <4>1. PICK y : y = request'[q]
        OBVIOUS
      <4>2. SnapshotOK(y) /\ Linked(y)
        BY <1>2, <2>2, <3>2, <4>1 DEF PolicyInv, RequestsOK
      <4>3. SnapshotOK(y)' /\ Linked(y)'
        BY <1>2, <4>2, ReferencesStay
      <4> QED
        BY <4>1, <4>3
    <3> QED
      BY <3>2, <3>3 DEF RequestsOK
  <2> QED
    BY <2>1, <2>2
<1>5. PermissionKept'
  BY <1>2, <1>3, PermissionStays
<1>6. \A g \in Handler : WorkOK(worker'[g])
  BY <1>3, IdleOK DEF PolicyInv
<1> QED
  BY <1>2, <1>3, <1>4, <1>5, <1>6, ReferencesStay, OtherTablesKeep DEF PolicyInv, PolicyTypeOK

\* A call that is cut off between the statements of a grant promises nothing.
LEMMA CutOffKeeps ==
    ASSUME PolicyInv, NEW h \in Handler, CutOff(h)
    PROVE  PolicyInv' /\ Kept
<1>1. /\ Finish(h)
      /\ granted' = (IF worker[h].pc = "grant"
                     THEN granted \ {<<worker[h].secret, worker[h].agent>>} ELSE granted)
      /\ UNCHANGED <<template, version, binding, permission, deleted, request>>
  BY DEF CutOff
<1>2. CASE worker[h].pc # "grant"
  BY <1>1, <1>2, FinishKeeps
<1>3. CASE worker[h].pc = "grant"
  <2>1. PICK s \in Secret, a \in Agent : s = worker[h].secret /\ a = worker[h].agent
    BY <1>3 DEF PolicyInv, WorkOK
  <2>2. granted' = granted \ {<<s, a>>}
    BY <1>1, <1>3, <2>1
  <2>3. /\ DOMAIN worker' = Handler /\ worker'[h] = Idle
        /\ \A g \in Handler \ {h} : worker'[g] = worker[g]
    BY <1>1 DEF Finish, PolicyInv
  <2>4. PermissionKept'
    <3> SUFFICES ASSUME NEW x \in Secret, NEW y \in Agent, <<x, y>> \in granted'
                 PROVE  \/ permission[x][y] = 1
                        \/ \E g \in Handler : /\ worker'[g].pc = "grant"
                                              /\ <<worker'[g].secret, worker'[g].agent>> = <<x, y>>
      BY <1>1, <2>2 DEF PermissionKept, PolicyInv
    <3>1. \/ permission[x][y] = 1
          \/ \E g \in Handler : /\ worker[g].pc = "grant"
                                /\ <<worker[g].secret, worker[g].agent>> = <<x, y>>
      BY <2>2 DEF PolicyInv, PermissionKept
    <3> QED
      BY <2>1, <2>2, <2>3, <3>1
  <2>5. \A g \in Handler : WorkOK(worker'[g])
    BY <2>3, IdleOK DEF PolicyInv
  <2>6. granted' \subseteq Secret \X Agent
    BY <2>2 DEF PolicyInv
  <2> QED
    BY <1>1, <2>3, <2>4, <2>5, <2>6, ReferencesStay, OtherTablesKeep DEF PolicyInv, PolicyTypeOK
<1> QED
  BY <1>2, <1>3

-----------------------------------------------------------------------------
(* The theorems                                                            *)

\* Empty tables satisfy the invariant.
LEMMA InitOK ==
    ASSUME Init
    PROVE  PolicyInv
<1>1. \A t \in Template : template[t].state = "none" /\ \A n \in Number : version[t][n] = None
  BY DEF Init, NoTemplate
<1>2. TemplatesOK
  <2>1. NoTemplate \in TemplateRow
    BY DEF NoTemplate, TemplateRow, ParamsOrNone
  <2> QED
    BY <1>1, <2>1 DEF Init, TemplatesOK, Exists
<1>3. VersionsOK
  BY <1>1 DEF VersionsOK, Numbers
<1>4. /\ binding \in [Secret -> BindingRow]
      /\ \A s \in Secret : binding[s].template = None
  <2>1. NoBinding \in BindingRow /\ NoBinding.template = None
    BY DEF NoBinding, BindingRow
  <2> QED
    BY <2>1 DEF Init
<1>5. SnapshotOK(NoRequest) /\ Linked(NoRequest)
  BY DEF SnapshotOK, FromTemplate, Linked, NoRequest, ParamsOrNone
<1>6. RequestsOK
  BY <1>5 DEF Init, RequestsOK
<1>7. DOMAIN worker = Handler /\ \A h \in Handler : WorkOK(worker[h])
  BY IdleOK DEF Init
<1>8. PermissionKept /\ granted = {} /\ deleted = {}
      /\ permission \in [Secret -> [Agent -> {0, 1}]]
  BY DEF Init, PermissionKept
<1>9. PolicyTypeOK
  BY <1>2, <1>4, <1>6, <1>7, <1>8 DEF PolicyTypeOK, RequestsOK, SnapshotOK, WorkOK
<1> QED
  BY <1>2, <1>3, <1>4, <1>6, <1>7, <1>8, <1>9 DEF PolicyInv, BindingsOK

\* Every call and every statement keeps it.
LEMMA NextKeeps ==
    ASSUME PolicyInv, Next
    PROVE  PolicyInv' /\ Kept
<1>1. CASE \E h \in Handler : Arrive(h)
  BY <1>1, ListTemplatesKeeps, CreateTemplateKeeps, CloneTemplateKeeps, UpdateTemplateKeeps,
     DeleteTemplateKeeps, UpdateBindingKeeps, GrantPolicyReadKeeps, CreateRequestKeeps
     DEF Arrive
<1>2. CASE \E h \in Handler : Step(h)
  BY <1>2, InsertTemplateKeeps, FindSystemTemplateKeeps, InsertSystemTemplateKeeps,
     NextVersionKeeps, InsertVersionKeeps, TouchTemplateKeeps, CountUsageKeeps,
     DropTemplateKeeps, UpsertSecretBindingKeeps, RevokePreviousKeeps,
     InsertPermissionKeeps, InsertRequestKeeps DEF Step
<1>3. CASE \E h \in Handler : CutOff(h)
  BY <1>3, CutOffKeeps
<1>4. CASE \E x \in Secret \cup {Project}, c \in Custom : SetPolicy(x, c)
  BY <1>4, SecretKeeps DEF SetPolicy, PolicyInv, PolicyTypeOK
<1>5. CASE \E s \in Secret : DeleteSecret(s)
  BY <1>5, SecretKeeps DEF DeleteSecret, PolicyInv, PolicyTypeOK
<1>6. CASE \E s \in Secret, a \in Agent : RevokeAgentPermission(s, a)
  BY <1>6, RevokeAgentPermissionKeeps
<1> QED
  BY <1>1, <1>2, <1>3, <1>4, <1>5, <1>6 DEF Next

\* The inductive invariant of the policy store: rows, and what each goroutine read
\* of them, agree whatever statements of others come in between.
THEOREM PolicyInvariance == Spec => []PolicyInv
<1>1. Init => PolicyInv
  BY InitOK
<1>2. PolicyInv /\ [Next]_vars => PolicyInv'
  <2> SUFFICES ASSUME PolicyInv, [Next]_vars
               PROVE  PolicyInv'
    OBVIOUS
  <2>1. CASE Next
    BY <2>1, NextKeeps
  <2>2. CASE UNCHANGED vars
    <3>1. PermissionKept' /\ \A h \in Handler : WorkOK(worker'[h])
      BY <2>2 DEF vars, PolicyInv, PermissionKept
    <3> QED
      BY <2>2, <3>1, ReferencesStay, OtherTablesKeep DEF vars, PolicyInv, PolicyTypeOK
  <2> QED
    BY <2>1, <2>2
<1> QED
  BY <1>1, <1>2, PTL DEF Spec

\* Stored parameters are always valid, live templates never share a name, and an
\* agent never has two active permissions on a secret.
THEOREM PolicyTypeCorrect == Spec => []PolicyTypeOK
<1>1. PolicyInv => PolicyTypeOK
  BY DEF PolicyInv
<1> QED
  BY <1>1, PolicyInvariance, PTL

\* UpsertSecretBinding and DropTemplate: a binding's version is stored as long as
\* the binding is, and its override still resolves.
THEOREM BindingsResolve == Spec => []BindingResolves
<1>1. PolicyInv => BindingResolves
  BY DEF PolicyInv, BindingsOK, Checked, Resolvable, BindingResolves
<1> QED
  BY <1>1, PolicyInvariance, PTL

\* CompareWeakening: a binding without warnings is as strict as its version, for
\* every attempt there is.
THEOREM UnwarnedAreStricter == Spec => []UnwarnedIsStricter
<1>1. ASSUME PolicyInv, NEW s \in Secret, binding[s].template # None,
             binding[s].warnings = {}, NEW a \in Tries
      PROVE  LET b == binding[s]
                 tpl == version[b.template][b.number]
             IN AsStrict(Effective(tpl, b.override), tpl, a)
  <2>1. PICK b \in BindingRow : b = binding[s]
    BY <1>1 DEF PolicyInv, PolicyTypeOK
  <2>2. PICK tpl : tpl = version[b.template][b.number]
    OBVIOUS
  <2>3. /\ Stored(b.template, b.number)
        /\ b.override \in Override /\ Resolvable(tpl, b.override)
        /\ Weaker(tpl, Effective(tpl, b.override)) = {}
    BY <1>1, <2>1, <2>2 DEF PolicyInv, BindingsOK, Checked
  <2>4. tpl \in Proper
    BY <1>1, <2>1, <2>2, <2>3 DEF Stored, BindingRow, PolicyInv, PolicyTypeOK, TemplatesOK
  <2>5. Effective(tpl, b.override) \in Proper
    BY <2>3, <2>4, EffectiveIsProper, PolicyAssumption
  <2>6. AsStrict(Effective(tpl, b.override), tpl, a)
    BY <2>3, <2>4, <2>5, UnwarnedStrict, TriesAssumption
  <2> QED
    BY <2>1, <2>2, <2>6
<1>2. PolicyInv => UnwarnedIsStricter
  BY <1>1 DEF UnwarnedIsStricter
<1> QED
  BY <1>2, PolicyInvariance, PTL

\* InsertRequest and the foreign keys of its snapshot: a template that a request
\* names is there with that version, and says what the request was made under; one that
\* it names no more was deleted.
THEOREM SnapshotsTraceable == Spec => []SnapshotTraceable
<1>1. PolicyInv => SnapshotTraceable
  <2>1. PolicyInv => \A t \in Template : template[t].state = "gone" => Numbers(t) = {}
    BY DEF PolicyInv, VersionsOK
  <2> QED
    BY <2>1 DEF PolicyInv, RequestsOK, SnapshotOK, Linked, SnapshotTraceable
<1> QED
  BY <1>1, PolicyInvariance, PTL

\* RevokePrevious and InsertPermission: two statements of two goroutines in any order
\* leave an agent what it was granted.
THEOREM PermissionsKept == Spec => []PermissionKept
<1>1. PolicyInv => PermissionKept
  BY DEF PolicyInv
<1> QED
  BY <1>1, PolicyInvariance, PTL

\* TouchTemplate, InsertVersion and DropTemplate: no statement changes a version that
\* is stored, and a template that is gone does not come back.
THEOREM VersionsImmutable == Spec => [][Kept]_vars
<1>1. PolicyInv /\ [Next]_vars => [Kept]_vars
  BY NextKeeps
<1> QED
  BY <1>1, PolicyInvariance, PTL DEF Spec
=============================================================================
