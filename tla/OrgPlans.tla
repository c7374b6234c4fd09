------------------------------- MODULE OrgPlans -------------------------------
(***************************************************************************)
(* Organisations (server/internal/org) and what they pay                   *)
(* (server/internal/billing).  Stripe, which the code only calls, is       *)
(* external: it keeps customers, checkout sessions and subscriptions, and  *)
(* sends each event until it is answered, in any order.                    *)
(*                                                                         *)
(* A Handler is a goroutine; each of its steps is one statement or one     *)
(* call to Stripe.  An invitation is never accepted or cancelled: both     *)
(* handlers fail on every call (the route of one has no signed-in caller,  *)
(* the other reads a parameter its route does not have), so they have no   *)
(* action here.  Seats are counted and stored, and nothing reads them.     *)
(***************************************************************************)
EXTENDS Integers, Sequences, FiniteSets

CONSTANTS
    User,         \* people, registered or only invited
    Customer,     \* Stripe's customers
    Sub,          \* Stripe's subscriptions
    Handler,      \* handler goroutines
    None,         \* no value
    Offered,      \* roles that AddMember gives
    MaxOrgs,      \* bound on organisations
    MaxEvents,    \* bound on Stripe's events
    MaxPending,   \* pending invitations of an organisation (20 in the code)
    Faults        \* whether a statement may fail or the server stop

ASSUME OrgAssumption ==
    /\ None \notin User \cup Customer \cup Sub
    /\ IsFiniteSet(User) /\ IsFiniteSet(Handler)
    /\ MaxOrgs \in Nat /\ MaxEvents \in Nat /\ MaxPending \in Nat \ {0}
    /\ Faults \in BOOLEAN

VARIABLES
    org,          \* organizations, in the order of created_at
    member,       \* org_memberships: organisation, user -> role
    pending,      \* org_invitations: organisation -> users invited
    worker,       \* what each goroutine holds in its locals
    customer,     \* Stripe: the organisation a customer was made for
    offer,        \* Stripe: open checkout sessions
    sub,          \* Stripe: subscriptions
    event,        \* Stripe: all events, oldest first
    due,          \* Stripe: events that are not answered yet
    latest,       \* history: the youngest event the organisation's row had
    mishap        \* history: organisations whose events went wrong, see Mishap

orgVars == <<org, member, pending>>
stripe == <<customer, offer, sub, event, due>>
vars == <<org, member, pending, worker, customer, offer, sub, event, due, latest, mishap>>

OrgId == 1..MaxOrgs
Plan == {"free", "pro", "team"}
Price == {"pro", "team", "other"}
NoSub == [state |-> "none", cust |-> None, price |-> "other"]
NoOrg == [owner |-> None, cust |-> None, sub |-> None, plan |-> "free"]
Idle == [pc |-> "idle", org |-> 0, user |-> None, plan |-> "free", cust |-> None,
         event |-> 0]

Init ==
    /\ org = <<>>
    /\ member = [o \in OrgId |-> [u \in User |-> "none"]]
    /\ pending = [o \in OrgId |-> {}]
    /\ worker = [h \in Handler |-> Idle]
    /\ customer = [c \in Customer |-> 0]
    /\ offer = {}
    /\ sub = [s \in Sub |-> NoSub]
    /\ event = <<>>
    /\ due = {}
    /\ latest = [o \in OrgId |-> 0]
    /\ mishap = {}

Start(h, w) == worker[h].pc = "idle" /\ worker' = [worker EXCEPT ![h] = w]
Goto(h, pc) == worker' = [worker EXCEPT ![h].pc = pc]
Finish(h) == worker' = [worker EXCEPT ![h] = Idle]

-----------------------------------------------------------------------------
(* Organisations and invitations                                           *)

\* The organisation and its owner's membership, in one transaction.
CreateOrg(u) ==
    LET o == Len(org) + 1 IN
    /\ o <= MaxOrgs
    /\ org' = Append(org, [NoOrg EXCEPT !.owner = u])
    /\ member' = [member EXCEPT ![o][u] = "owner"]
    /\ UNCHANGED <<pending, worker, stripe, latest, mishap>>

\* POST /orgs/{org_id}/members upserts, and does not ask who is calling.
AddMember(o, u, r) ==
    /\ o \in DOMAIN org
    /\ member' = [member EXCEPT ![o][u] = r]
    /\ UNCHANGED <<org, pending, worker, stripe, latest, mishap>>

\* POST /orgs/{org_id}/invitations: the caller's role,
CreateInvitation(h, caller, o, u) ==
    /\ o \in DOMAIN org
    /\ member[o][caller] \in {"owner", "admin"}
    /\ Start(h, [Idle EXCEPT !.pc = "invite", !.org = o, !.user = u])
    /\ UNCHANGED <<orgVars, stripe, latest, mishap>>

\* then whether the invited is a member already,
CheckMember(h) ==
    LET w == worker[h] IN
    /\ w.pc = "invite"
    /\ IF member[w.org][w.user] = "none" THEN Goto(h, "count") ELSE Finish(h)
    /\ UNCHANGED <<orgVars, stripe, latest, mishap>>

\* Mutant: one invitation more than the limit.
CountPendingOneMore(h) ==
    LET w == worker[h] IN
    /\ w.pc = "count"
    /\ IF Cardinality(pending[w.org]) <= MaxPending
       THEN Goto(h, "insertInvitation") ELSE Finish(h)
    /\ UNCHANGED <<orgVars, stripe, latest, mishap>>

\* then how many are pending,
CountPending(h) ==
    LET w == worker[h] IN
    /\ w.pc = "count"
    /\ IF Cardinality(pending[w.org]) < MaxPending
       THEN Goto(h, "insertInvitation") ELSE Finish(h)
    /\ UNCHANGED <<orgVars, stripe, latest, mishap>>

\* and the row, unless the unique index holds one for the same address.
InsertInvitation(h) ==
    LET w == worker[h] IN
    /\ w.pc = "insertInvitation"
    /\ pending' = [pending EXCEPT ![w.org] = @ \cup {w.user}]
    /\ Finish(h)
    /\ UNCHANGED <<org, member, stripe, latest, mishap>>

Invite(h) == CheckMember(h) \/ CountPending(h) \/ InsertInvitation(h)

-----------------------------------------------------------------------------
(* Checkout                                                                *)

\* findOwnedOrg: the youngest of the user's own organisations.
OwnedOrg(u) ==
    LET own == {o \in DOMAIN org : org[o].owner = u /\ member[o][u] # "none"}
    IN  {o \in own : \A p \in own : p <= o}

\* POST /billing/checkout-session.
CreateCheckout(h, u, plan) ==
    \E o \in OwnedOrg(u) :
      /\ Start(h, [Idle EXCEPT !.pc = "customer", !.org = o, !.plan = plan])
      /\ UNCHANGED <<orgVars, stripe, latest, mishap>>

\* Mutant: the NULL of an organisation without customer is not looked at.
ReadCustomerAsIs(h) ==
    LET w == worker[h] IN
    /\ w.pc = "customer"
    /\ worker' = [worker EXCEPT ![h].pc = "session", ![h].cust = org[w.org].cust]
    /\ UNCHANGED <<orgVars, stripe, latest, mishap>>

ReadCustomer(h) ==
    LET w == worker[h] IN
    /\ w.pc = "customer"
    /\ IF org[w.org].cust = None
       THEN Goto(h, "newCustomer")
       ELSE worker' = [worker EXCEPT ![h].pc = "session", ![h].cust = org[w.org].cust]
    /\ UNCHANGED <<orgVars, stripe, latest, mishap>>

\* customer.New.  A second customer of one organisation is a mishap.
NewCustomer(h) ==
    LET o == worker[h].org IN
    /\ worker[h].pc = "newCustomer"
    /\ \E c \in Customer :
         /\ customer[c] = 0
         /\ customer' = [customer EXCEPT ![c] = o]
         /\ worker' = [worker EXCEPT ![h].pc = "saveCustomer", ![h].cust = c]
    /\ mishap' = IF \E c \in Customer : customer[c] = o THEN mishap \cup {o} ELSE mishap
    /\ UNCHANGED <<orgVars, offer, sub, event, due, latest>>

\* The last of two handlers that made a customer for one organisation wins.
SaveCustomer(h) ==
    LET w == worker[h] IN
    /\ w.pc = "saveCustomer"
    /\ org' = [org EXCEPT ![w.org].cust = w.cust]
    /\ Goto(h, "session")
    /\ UNCHANGED <<member, pending, stripe, latest, mishap>>

\* Mutant: the plan is written when the user is sent to Stripe's page.
NewSessionUpgrades(h) ==
    LET w == worker[h] IN
    /\ w.pc = "session"
    /\ offer' = offer \cup {[org |-> w.org, cust |-> w.cust, price |-> w.plan]}
    /\ org' = [org EXCEPT ![w.org].plan = w.plan]
    /\ Finish(h)
    /\ UNCHANGED <<member, pending, customer, sub, event, due, latest, mishap>>

\* session.New: the user is sent to Stripe's page.
NewSession(h) ==
    LET w == worker[h] IN
    /\ w.pc = "session"
    /\ offer' = offer \cup {[org |-> w.org, cust |-> w.cust, price |-> w.plan]}
    /\ Finish(h)
    /\ UNCHANGED <<orgVars, customer, sub, event, due, latest, mishap>>

Checkout(h) == ReadCustomer(h) \/ NewCustomer(h) \/ SaveCustomer(h) \/ NewSession(h)

-----------------------------------------------------------------------------
(* Stripe                                                                  *)

Live(o) == {s \in Sub : sub[s].state = "active" /\ customer[sub[s].cust] = o}

Emit(kind, o, c, s, price) ==
    /\ Len(event) < MaxEvents
    /\ event' = Append(event, [kind |-> kind, org |-> o, cust |-> c, sub |-> s,
                               price |-> price])
    /\ due' = due \cup {Len(event) + 1}

\* The user pays.  A second subscription of one organisation is a mishap.
CompleteCheckout(f, s) ==
    /\ f \in offer
    /\ sub[s].state = "none"
    /\ offer' = offer \ {f}
    /\ sub' = [sub EXCEPT ![s] = [state |-> "active", cust |-> f.cust, price |-> f.price]]
    /\ Emit("checkout", f.org, f.cust, s, f.price)
    /\ mishap' = IF Live(f.org) # {} THEN mishap \cup {f.org} ELSE mishap
    /\ UNCHANGED <<orgVars, worker, customer, latest>>

\* Another price, in Stripe's portal or by its staff.
ChangePrice(s, price) ==
    /\ sub[s].state = "active" /\ sub[s].price # price
    /\ sub' = [sub EXCEPT ![s].price = price]
    /\ Emit("updated", 0, sub[s].cust, s, price)
    /\ UNCHANGED <<orgVars, worker, customer, offer, latest, mishap>>

\* Cancelled, or ended after failed payments.
EndSubscription(s) ==
    /\ sub[s].state = "active"
    /\ sub' = [sub EXCEPT ![s].state = "ended"]
    /\ Emit("deleted", 0, sub[s].cust, s, sub[s].price)
    /\ UNCHANGED <<orgVars, worker, customer, offer, latest, mishap>>

-----------------------------------------------------------------------------
(* Stripe's events                                                         *)

\* Mutant: the event is answered before it is handled.
HandleWebhookAckFirst(h, n) ==
    /\ n \in due
    /\ Start(h, [Idle EXCEPT !.pc = IF event[n].kind = "checkout" THEN "apply" ELSE "find",
                             !.org = event[n].org, !.event = n])
    /\ due' = due \ {n}
    /\ UNCHANGED <<orgVars, customer, offer, sub, event, latest, mishap>>

\* POST /webhooks/stripe.  A checkout names its organisation.
HandleWebhook(h, n) ==
    /\ n \in due
    /\ Start(h, [Idle EXCEPT !.pc = IF event[n].kind = "checkout" THEN "apply" ELSE "find",
                             !.org = event[n].org, !.event = n])
    /\ UNCHANGED <<orgVars, stripe, latest, mishap>>

\* 200, whatever happened; an answer that does not arrive leaves the event due.
Answer(h) ==
    /\ Finish(h)
    /\ due' \in {due, due \ {worker[h].event}}

\* The organisation of the event's customer; without one, nothing is done.
FindOrgByCustomerID(h) ==
    LET e == event[worker[h].event]
        found == {o \in DOMAIN org : org[o].cust = e.cust} IN
    /\ worker[h].pc = "find"
    /\ IF found = {}
       THEN Answer(h)
       ELSE /\ \E o \in found : worker' = [worker EXCEPT ![h].pc = "apply", ![h].org = o]
            /\ UNCHANGED due
    /\ UNCHANGED <<orgVars, customer, offer, sub, event, latest, mishap>>

\* planFromSubscription: an unknown price counts as pro.
PlanOf(price) == IF price = "other" THEN "pro" ELSE price

\* An event that comes after a younger one of its organisation is a mishap.
InOrder(o, n) ==
    /\ latest' = [latest EXCEPT ![o] = IF @ < n THEN n ELSE @]
    /\ mishap' = IF n < latest[o] THEN mishap \cup {o} ELSE mishap

UpdateOrgBilling(h) ==
    LET w == worker[h]  e == event[w.event] IN
    /\ w.pc = "apply" /\ e.kind # "deleted"
    /\ org' = [org EXCEPT ![w.org].cust = e.cust, ![w.org].sub = e.sub,
                          ![w.org].plan = PlanOf(e.price)]
    /\ InOrder(w.org, w.event)
    /\ Answer(h)
    /\ UNCHANGED <<member, pending, customer, offer, sub, event>>

\* Which subscription ended is not compared with the row's.
DowngradeToFree(h) ==
    LET w == worker[h]  e == event[w.event] IN
    /\ w.pc = "apply" /\ e.kind = "deleted"
    /\ org' = [org EXCEPT ![w.org].sub = None, ![w.org].plan = "free"]
    /\ InOrder(w.org, w.event)
    /\ Answer(h)
    /\ UNCHANGED <<member, pending, customer, offer, sub, event>>

\* A statement fails: a request is answered with an error; an event with 200,
\* and never sent again.
Fail(h) ==
    /\ Faults /\ worker[h].pc # "idle"
    /\ IF worker[h].event = 0
       THEN Finish(h) /\ UNCHANGED <<due, mishap>>
       ELSE /\ Answer(h)
            /\ mishap' = mishap \cup {customer[event[worker[h].event].cust]}
    /\ UNCHANGED <<orgVars, customer, offer, sub, event, latest>>

\* The server stops and starts again.
Crash ==
    /\ Faults
    /\ worker' = [h \in Handler |-> Idle]
    /\ UNCHANGED <<orgVars, stripe, latest, mishap>>

Arrive(h) ==
    \/ \E caller \in User, o \in OrgId, u \in User : CreateInvitation(h, caller, o, u)
    \/ \E u \in User, plan \in {"pro", "team"} : CreateCheckout(h, u, plan)
    \/ \E n \in due : HandleWebhook(h, n)

Webhook(h) == FindOrgByCustomerID(h) \/ UpdateOrgBilling(h) \/ DowngradeToFree(h)

Stripe ==
    \/ \E f \in offer, s \in Sub : CompleteCheckout(f, s)
    \/ \E s \in Sub, price \in Price : ChangePrice(s, price)
    \/ \E s \in Sub : EndSubscription(s)

Next ==
    \/ \E u \in User : CreateOrg(u)
    \/ \E o \in OrgId, u \in User, r \in Offered : AddMember(o, u, r)
    \/ \E h \in Handler : Arrive(h) \/ Invite(h) \/ Checkout(h) \/ Webhook(h) \/ Fail(h)
    \/ Stripe
    \/ Crash

Spec == Init /\ [][Next]_vars
=============================================================================
