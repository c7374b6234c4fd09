---------------------------- MODULE OrgPlansProps ----------------------------
(***************************************************************************)
(* What must hold of organisations' plans and invitations.                 *)
(***************************************************************************)
EXTENDS OrgPlans

OrgRow == [owner : User, cust : Customer \cup {None}, sub : Sub \cup {None}, plan : Plan]
Work == [pc : {"idle", "invite", "count", "insertInvitation", "customer", "newCustomer",
               "saveCustomer", "session", "find", "apply"},
         org : {0} \cup OrgId, user : User \cup {None}, plan : Plan,
         cust : Customer \cup {None}, event : Nat]
SubRow == [state : {"none", "active", "ended"}, cust : Customer \cup {None}, price : Price]
EventRow == [kind : {"checkout", "updated", "deleted"}, org : {0} \cup OrgId,
             cust : Customer, sub : Sub, price : Price]

\* Every row is well typed: org/service.go, billing/service.go.
OrgTypeOK ==
    /\ org \in Seq(OrgRow) /\ Len(org) <= MaxOrgs
    /\ member \in [OrgId -> [User -> Offered \cup {"owner", "none"}]]
    /\ pending \in [OrgId -> SUBSET User]
    /\ worker \in [Handler -> Work]
    /\ customer \in [Customer -> {0} \cup OrgId]
    /\ offer \subseteq [org : OrgId, cust : Customer, price : Price]
    /\ sub \in [Sub -> SubRow]
    /\ event \in Seq(EventRow)
    /\ due \subseteq DOMAIN event
    /\ latest \in [OrgId -> Nat]
    /\ mishap \subseteq OrgId

\* The plan an organisation pays for at Stripe.
StripesPlan(o) ==
    IF Live(o) = {} THEN "free" ELSE PlanOf(sub[CHOOSE s \in Live(o) : TRUE].price)

\* Nothing that concerns the organisation is on its way.
Settled(o) ==
    LET about(n) == customer[event[n].cust] = o IN
    /\ \A n \in due : ~about(n)
    /\ \A h \in Handler : worker[h].event # 0 => ~about(worker[h].event)

\* Once its events have been answered, an organisation has the plan it pays
\* for, whatever was lost, sent twice or cut off by a crash, unless an UPDATE
\* failed (webhook.go:40 answers 200), events came out of order (:72), or it
\* had two customers (service.go:53) or two subscriptions (webhook.go:133).
PlanIsStripes ==
    \A o \in DOMAIN org :
      o \notin mishap /\ Settled(o) => org[o].plan = StripesPlan(o)

\* Even then, an organisation never has a plan that none of its own
\* subscriptions ever had: billing/webhook.go:72, :106.
PlanWasPaid ==
    \A o \in DOMAIN org :
      org[o].plan # "free" =>
        \E n \in DOMAIN event :
          /\ event[n].kind # "deleted"
          /\ customer[event[n].cust] = o
          /\ org[o].plan = PlanOf(event[n].price)

\* The limit on pending invitations is exceeded by no more than one for each
\* handler that counted before the others inserted: org/invitation.go:138.
FewPending ==
    \A o \in OrgId :
      Cardinality(pending[o]) < MaxPending + Cardinality(Handler)

-----------------------------------------------------------------------------
(* Why they hold: an inductive invariant                                   *)

\* The events of an organisation's customers.
About(o) == {n \in DOMAIN event : customer[event[n].cust] = o}

\* Customers are made for organisations that exist, and an organisation that was
\* ever sent to Stripe's page keeps a customer of its own.
Known(c) == customer[c] \in DOMAIN org /\ org[customer[c]].cust # None

CustomersOK ==
    /\ \A c \in Customer : customer[c] # 0 => customer[c] \in DOMAIN org
    /\ \A o \in DOMAIN org : org[o].cust # None => customer[org[o].cust] = o
    /\ \A f \in offer : Known(f.cust) /\ customer[f.cust] = f.org
    /\ \A s \in Sub : sub[s].state = "active" => sub[s].cust \in Customer /\ Known(sub[s].cust)
    /\ \A n \in DOMAIN event :
         /\ Known(event[n].cust)
         /\ event[n].kind = "checkout" => customer[event[n].cust] = event[n].org

\* What a handler has read is still so.
WorkOK(h) ==
    LET w == worker[h] IN
    /\ w.pc \notin {"idle", "find"} => w.org \in DOMAIN org
    /\ w.pc \in {"invite", "count", "insertInvitation"} => w.user \in User
    /\ w.pc \in {"customer", "newCustomer", "saveCustomer", "session"} => w.plan \in {"pro", "team"}
    /\ w.pc \in {"saveCustomer", "session"} => w.cust \in Customer /\ customer[w.cust] = w.org
    /\ w.pc = "session" => org[w.org].cust # None
    /\ IF w.pc \in {"find", "apply"} THEN w.event \in DOMAIN event ELSE w.event = 0
    /\ w.pc = "apply" => customer[event[w.event].cust] = w.org

\* Those who have counted the invitations and not yet added theirs are counted too.
Inserting(o) == {h \in Handler : worker[h].pc = "insertInvitation" /\ worker[h].org = o}
CountOK(o) == Cardinality(pending[o]) + Cardinality(Inserting(o)) < MaxPending + Cardinality(Handler)

\* Without a mishap an organisation has one customer and one subscription, Stripe's
\* newest event about it says what it pays for,
AtStripe(o) ==
    /\ \A c, d \in Customer : customer[c] = o /\ customer[d] = o => c = d
    /\ \A s, t \in Live(o) : s = t
    /\ About(o) = {} => Live(o) = {}
    /\ \A m \in About(o) : (\A n \in About(o) : n <= m) =>
         IF event[m].kind = "deleted" THEN Live(o) = {}
         ELSE event[m].sub \in Live(o) /\ sub[event[m].sub].price = event[m].price

\* the row has what the youngest event it had says, and younger ones are due.
PlanAt(n) == IF n = 0 \/ event[n].kind = "deleted" THEN "free" ELSE PlanOf(event[n].price)

AsTold(o) ==
    /\ latest[o] \in About(o) \cup {0}
    /\ o \in DOMAIN org => org[o].plan = PlanAt(latest[o])
    /\ \A n \in About(o) : n <= latest[o] \/ n \in due

OrgInv ==
    /\ OrgTypeOK
    /\ CustomersOK
    /\ \A h \in Handler : WorkOK(h)
    /\ \A o \in OrgId : CountOK(o)
    /\ PlanWasPaid
    /\ \A o \in OrgId \ mishap : AtStripe(o) /\ AsTold(o)
=============================================================================
