----------------------------- MODULE PolicyRules -----------------------------
(***************************************************************************)
(* The arithmetic of server/internal/policy: what makes parameters valid,  *)
(* how an override changes a template, which changes weaken it, what the   *)
(* tiers default to, and how a custom policy is laid over a policy.        *)
(*                                                                         *)
(* A JSON object is a function from its keys.  A key with a value of the   *)
(* wrong type is refused like a missing one, and is not told apart.        *)
(***************************************************************************)
EXTENDS Integers

Field == {"maxDuration", "requireApproval", "allowAuto", "requireReason", "minReason",
          "perDay", "coolDown", "singleUse", "notify", "consent"}

\* The limits: minutes of access, length of a reason, requests a day, minutes between.
Duration == 1..1440
Length == 0..500
Daily == 1..1000
CoolDown == 0..1440

Params == [maxDuration: Duration, requireApproval: BOOLEAN, allowAuto: BOOLEAN,
           requireReason: BOOLEAN, minReason: Length, perDay: Daily,
           coolDown: CoolDown, singleUse: BOOLEAN, notify: BOOLEAN, consent: BOOLEAN]

-----------------------------------------------------------------------------
(* Validation                                                              *)

Flag == {"requireApproval", "allowAuto", "requireReason", "singleUse", "notify", "consent"}

\* What a client sends: keys with values, a Boolean under a flag's key.
Sent(in) ==
    /\ in = [f \in DOMAIN in |-> in[f]]
    /\ \A f \in DOMAIN in \cap Flag : in[f] \in BOOLEAN

Known(in) == DOMAIN in \subseteq Field
Complete(in) == DOMAIN in = Field

\* Without a required reason its length does not count.
Normal(p) == [p EXCEPT !.minReason = IF p.requireReason THEN @ ELSE 0]

InBounds(p) ==
    /\ p.maxDuration \in Duration
    /\ p.minReason \in Length
    /\ p.perDay \in Daily
    /\ p.coolDown \in CoolDown

CrossFields(p) ==
    /\ ~(p.allowAuto /\ p.requireApproval)
    /\ p.singleUse => p.maxDuration <= 240

\* ValidateParameters accepts the input, and returns Normal of it.
Valid(in) == Complete(in) /\ InBounds(Normal(in)) /\ CrossFields(Normal(in))

-----------------------------------------------------------------------------
(* Templates and overrides                                                 *)

Merge(t, o) == [f \in Field |-> IF f \in DOMAIN o THEN o[f] ELSE t[f]]

\* Mutant: an override is checked for its keys alone.
ResolvableKeys(t, o) == Known(o)

\* ResolveEffectivePolicy succeeds, and returns Effective.
Resolvable(t, o) == Known(o) /\ Valid(Merge(t, o))
Effective(t, o) == Normal(Merge(t, o))

\* Mutant: a shorter cool-down is taken for a stricter one.
WeakerCoolDown(t, e) ==
    {f \in {"maxDuration", "perDay", "coolDown"} : e[f] > t[f]}
    \cup {f \in {"minReason"} : e[f] < t[f]}
    \cup {f \in {"requireApproval", "requireReason", "singleUse", "notify", "consent"} :
            t[f] /\ ~e[f]}
    \cup {f \in {"allowAuto"} : e[f] /\ ~t[f]}

\* CompareWeakening: the warnings, each named for its field.
Weaker(t, e) ==
    {f \in {"maxDuration", "perDay"} : e[f] > t[f]}
    \cup {f \in {"minReason", "coolDown"} : e[f] < t[f]}
    \cup {f \in {"requireApproval", "requireReason", "singleUse", "notify", "consent"} :
            t[f] /\ ~e[f]}
    \cup {f \in {"allowAuto"} : e[f] /\ ~t[f]}

-----------------------------------------------------------------------------
(* Defaults                                                                *)

Tier(type) ==
    CASE type = "api_key" -> "low"
      [] type \in {"cloud_credential", "personal_session"} -> "high"
      [] OTHER -> "medium"

TierDefault(tier) ==
    CASE tier = "low" ->
           [maxDuration |-> 480, requireApproval |-> FALSE, allowAuto |-> TRUE,
            requireReason |-> FALSE, minReason |-> 0, perDay |-> 50, coolDown |-> 0,
            singleUse |-> FALSE, notify |-> FALSE, consent |-> FALSE]
      [] tier = "medium" ->
           [maxDuration |-> 60, requireApproval |-> TRUE, allowAuto |-> FALSE,
            requireReason |-> TRUE, minReason |-> 10, perDay |-> 20, coolDown |-> 5,
            singleUse |-> FALSE, notify |-> FALSE, consent |-> FALSE]
      [] tier = "high" ->
           [maxDuration |-> 15, requireApproval |-> TRUE, allowAuto |-> FALSE,
            requireReason |-> TRUE, minReason |-> 20, perDay |-> 10, coolDown |-> 15,
            singleUse |-> TRUE, notify |-> TRUE, consent |-> TRUE]

DefaultParameters(type) == TierDefault(Tier(type))

-----------------------------------------------------------------------------
(* What a policy means for an attempt: how long its reason is, how long it *)
(* asks for, how many requests came today, and how long ago the last one.  *)

Attempt == [reason: Nat, dur: Int, today: Nat, since: Nat]

Admits(p, a) ==
    /\ p.requireReason => a.reason >= p.minReason
    /\ a.today < p.perDay
    /\ p.coolDown > 0 => a.since > p.coolDown

Granted(p, a) == IF a.dur <= 0 \/ a.dur > p.maxDuration THEN p.maxDuration ELSE a.dur

AtOnce(p) == p.allowAuto /\ ~p.requireApproval

\* Whatever e lets an attempt have, t does.
AsStrict(e, t, a) ==
    Admits(e, a) =>
        /\ Admits(t, a)
        /\ Granted(e, a) <= Granted(t, a)
        /\ AtOnce(e) => AtOnce(t)
        /\ \A f \in {"singleUse", "notify", "consent"} : t[f] => e[f]

-----------------------------------------------------------------------------
(* Custom policies of a secret or a project                                *)

\* CustomPolicy.ApplyTo: only lower the cap, only raise the length.
ApplyTo(c, p) ==
    LET asks == c.block \/ c.auto = "no" IN
    [p EXCEPT
        !.maxDuration = IF 0 < c.maxDuration /\ c.maxDuration < @ THEN c.maxDuration ELSE @,
        !.minReason = IF c.minReason > @ THEN c.minReason ELSE @,
        !.requireReason = IF c.requireReason = "unset" THEN @ ELSE c.requireReason = "yes",
        !.allowAuto = ~asks /\ (c.auto = "yes" \/ @),
        !.requireApproval = asks \/ @]
=============================================================================
