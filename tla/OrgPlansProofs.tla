--------------------------- MODULE OrgPlansProofs ---------------------------
(***************************************************************************)
(* Plans follow what is paid, and invitations stay few, for any number of  *)
(* organisations, handlers and events.                                     *)
(***************************************************************************)
EXTENDS OrgPlansProps, FiniteSetTheorems, SequenceTheorems, TLAPS

\* What no step takes back: organisations, their having a customer, whose a customer
\* is, and the events Stripe has made.
Grows ==
    /\ \A o \in DOMAIN org : /\ o \in DOMAIN org'
                             /\ org[o].cust # None => org'[o].cust # None
    /\ \A c \in Customer : customer[c] # 0 => customer'[c] = customer[c]
    /\ \A n \in DOMAIN event : n \in DOMAIN event' /\ event'[n] = event[n]

\* Numbers of organisations and events begin with one.
LEMMA Numbered ==
    ASSUME OrgTypeOK
    PROVE  /\ \A o \in DOMAIN org : o \in OrgId /\ o # 0 /\ org[o] \in OrgRow
           /\ \A n \in DOMAIN event : n \in Nat /\ n # 0 /\ event[n] \in EventRow
           /\ \A o \in OrgId : o # 0
           /\ DOMAIN org = 1..Len(org) /\ Len(org) \in Nat
           /\ DOMAIN event = 1..Len(event) /\ Len(event) \in Nat
<1>1. DOMAIN org = 1..Len(org) /\ Len(org) \in Nat /\ \A o \in 1..Len(org) : org[o] \in OrgRow
  BY DEF OrgTypeOK
<1>2. DOMAIN event = 1..Len(event) /\ Len(event) \in Nat
      /\ \A n \in 1..Len(event) : event[n] \in EventRow
  BY DEF OrgTypeOK
<1>3. Len(org) <= MaxOrgs
  BY DEF OrgTypeOK
<1> QED
  BY <1>1, <1>2, <1>3, OrgAssumption DEF OrgId

\* One field of an organisation's row is written, or all: UPDATE organizations.
LEMMA RowSet ==
    ASSUME OrgTypeOK, NEW o \in DOMAIN org, NEW v \in OrgRow, org' = [org EXCEPT ![o] = v]
    PROVE  /\ org' \in Seq(OrgRow) /\ Len(org') = Len(org) /\ DOMAIN org' = DOMAIN org
           /\ org'[o] = v /\ \A p \in DOMAIN org \ {o} : org'[p] = org[p]
<1>1. org \in Seq(OrgRow) /\ o \in 1..Len(org) /\ DOMAIN org = 1..Len(org)
  BY DEF OrgTypeOK
<1>2. /\ org' \in Seq(OrgRow) /\ Len(org') = Len(org)
      /\ \A p \in 1..Len(org) : org'[p] = IF p = o THEN v ELSE org[p]
  BY <1>1, ExceptSeq
<1> QED
  BY <1>1, <1>2

\* A customer that is known stays so, and whose it is.
LEMMA StaysKnown ==
    ASSUME OrgTypeOK, Grows, NEW c \in Customer, Known(c)
    PROVE  Known(c)' /\ customer'[c] = customer[c]
  BY Numbered DEF Known, Grows

\* What a handler has read stays so while others work.
LEMMA WorkStays ==
    ASSUME OrgInv, Grows, NEW g \in Handler, worker'[g] = worker[g]
    PROVE  WorkOK(g)'
<1> DEFINE w == worker[g]
<1>1. WorkOK(g) /\ w \in Work
  BY DEF OrgInv, OrgTypeOK
<1>2. \A o \in DOMAIN org : o # 0 /\ o \in DOMAIN org'
  BY Numbered DEF OrgInv, Grows
<1>3. w.pc \in {"saveCustomer", "session"} =>
        w.cust \in Customer /\ customer'[w.cust] = w.org
  BY <1>1, <1>2 DEF WorkOK, Grows
<1>4. w.pc = "session" => org'[w.org].cust # None
  BY <1>1 DEF WorkOK, Grows
<1>5. w.event \in DOMAIN event =>
        /\ event[w.event].cust \in Customer /\ customer[event[w.event].cust] # 0
        /\ event'[w.event] = event[w.event] /\ w.event \in DOMAIN event'
        /\ customer'[event[w.event].cust] = customer[event[w.event].cust]
  <2> SUFFICES ASSUME w.event \in DOMAIN event
               PROVE  /\ event[w.event].cust \in Customer /\ customer[event[w.event].cust] # 0
                      /\ event'[w.event] = event[w.event] /\ w.event \in DOMAIN event'
                      /\ customer'[event[w.event].cust] = customer[event[w.event].cust]
    OBVIOUS
  <2>1. event[w.event] \in EventRow
    BY Numbered DEF OrgInv
  <2>2. Known(event[w.event].cust) /\ event[w.event].cust \in Customer
    BY <2>1 DEF OrgInv, CustomersOK, EventRow
  <2> QED
    BY <1>2, <2>2 DEF Known, Grows
<1>6. IF w.pc \in {"find", "apply"} THEN w.event \in DOMAIN event' ELSE w.event = 0
  BY <1>1, <1>5 DEF WorkOK
<1>7. w.pc = "apply" => customer'[event'[w.event].cust] = w.org
  BY <1>1, <1>5 DEF WorkOK
<1>8. w.pc \notin {"idle", "find"} => w.org \in DOMAIN org'
  BY <1>1, <1>2 DEF WorkOK
<1> HIDE DEF w
<1> QED
  BY <1>1, <1>3, <1>4, <1>6, <1>7, <1>8 DEF WorkOK, w

\* A handler's step changes its own locals only, and nothing in the count of those
\* that insert, unless it comes to insert itself.
LEMMA WorkerMoves ==
    ASSUME OrgInv, NEW h \in Handler, NEW w \in Work, worker' = [worker EXCEPT ![h] = w], Grows
    PROVE  /\ worker' \in [Handler -> Work] /\ worker'[h] = w
           /\ \A g \in Handler \ {h} : worker'[g] = worker[g] /\ WorkOK(g)'
           /\ w.pc # "insertInvitation" /\ UNCHANGED pending => \A o \in OrgId : CountOK(o)'
<1>1. /\ worker' \in [Handler -> Work] /\ worker'[h] = w
      /\ \A g \in Handler \ {h} : worker'[g] = worker[g]
  BY DEF OrgInv, OrgTypeOK
<1>2. \A g \in Handler \ {h} : WorkOK(g)'
  BY <1>1, WorkStays
<1>3. ASSUME NEW o \in OrgId, w.pc # "insertInvitation", UNCHANGED pending
      PROVE  CountOK(o)'
  <2>1. Inserting(o)' \subseteq Inserting(o)
    BY <1>1, <1>3 DEF Inserting
  <2>2. IsFiniteSet(Inserting(o))
    BY FS_Subset, OrgAssumption DEF Inserting
  <2>3. Cardinality(Inserting(o)') <= Cardinality(Inserting(o))
    BY <2>1, <2>2, FS_Subset
  <2>4. Cardinality(Inserting(o)) \in Nat /\ Cardinality(Inserting(o)') \in Nat
    BY <2>1, <2>2, FS_Subset, FS_CardinalityType
  <2>5. Cardinality(pending[o]) \in Nat
    <3>1. IsFiniteSet(pending[o])
      BY FS_Subset, OrgAssumption DEF OrgInv, OrgTypeOK
    <3> QED
      BY <3>1, FS_CardinalityType
  <2>6. Cardinality(Handler) \in Nat
    BY FS_CardinalityType, OrgAssumption
  <2>7. CountOK(o) /\ pending' = pending
    BY <1>3 DEF OrgInv
  <2> QED
    BY <2>3, <2>4, <2>5, <2>6, <2>7, OrgAssumption DEF CountOK
<1> QED
  BY <1>1, <1>2, <1>3

\* What is paid for is as it was, if nothing of it changes.
LEMMA PlansStay ==
    ASSUME OrgInv, UNCHANGED <<org, customer, sub, event, due, latest, mishap>>
    PROVE  PlanWasPaid' /\ \A o \in OrgId \ mishap' : AtStripe(o)' /\ AsTold(o)'
<1>1. PlanWasPaid'
  BY DEF OrgInv, PlanWasPaid
<1>2. \A o : About(o)' = About(o) /\ Live(o)' = Live(o)
  BY DEF About, Live
<1>3. \A n : PlanAt(n)' = PlanAt(n)
  BY DEF PlanAt
<1>4. \A o \in OrgId \ mishap : AtStripe(o)'
  BY <1>2 DEF OrgInv, AtStripe
<1>5. \A o \in OrgId \ mishap : AsTold(o)'
  BY <1>2, <1>3 DEF OrgInv, AsTold
<1> QED
  BY <1>1, <1>4, <1>5

\* Customers, offers and events are as they were.
LEMMA CustomersStay ==
    ASSUME OrgInv, UNCHANGED <<org, customer, offer, sub, event>>
    PROVE  CustomersOK' /\ Grows
<1>1. Grows
  BY DEF Grows
<1>2. CustomersOK'
  BY DEF OrgInv, CustomersOK, Known
<1> QED
  BY <1>1, <1>2

-----------------------------------------------------------------------------
(* Steps of a handler that change its locals only                          *)

\* Reads, and the steps that only pass on what was read.
LEMMA LocalKeeps ==
    ASSUME OrgInv, NEW h \in Handler, NEW w \in Work, worker' = [worker EXCEPT ![h] = w],
           w.pc # "insertInvitation",
           UNCHANGED <<org, member, pending, customer, offer, sub, event, due, latest, mishap>>,
           WorkOK(h)'
    PROVE  OrgInv'
<1>1. CustomersOK' /\ Grows
  BY CustomersStay
<1>2. /\ worker' \in [Handler -> Work]
      /\ \A g \in Handler \ {h} : WorkOK(g)'
      /\ \A o \in OrgId : CountOK(o)'
  BY <1>1, WorkerMoves
<1>3. PlanWasPaid' /\ \A o \in OrgId \ mishap' : AtStripe(o)' /\ AsTold(o)'
  BY PlansStay
<1>4. OrgTypeOK'
  BY <1>2 DEF OrgInv, OrgTypeOK
<1> QED
  BY <1>1, <1>2, <1>3, <1>4 DEF OrgInv

\* The ways a handler's locals are assigned.
LEMMA WorkType ==
    /\ Idle \in Work
    /\ \A w \in Work : /\ \A pc \in {"count", "insertInvitation", "newCustomer", "session"} :
                            [w EXCEPT !.pc = pc] \in Work
                       /\ \A c \in Customer :
                            /\ [w EXCEPT !.pc = "session", !.cust = c] \in Work
                            /\ [w EXCEPT !.pc = "saveCustomer", !.cust = c] \in Work
                       /\ \A o \in OrgId : [w EXCEPT !.pc = "apply", !.org = o] \in Work
    /\ \A o \in OrgId, u \in User :
         [Idle EXCEPT !.pc = "invite", !.org = o, !.user = u] \in Work
    /\ \A o \in OrgId, p \in Plan :
         [Idle EXCEPT !.pc = "customer", !.org = o, !.plan = p] \in Work
    /\ \A pc \in {"apply", "find"}, o \in {0} \cup OrgId, n \in Nat :
         [Idle EXCEPT !.pc = pc, !.org = o, !.event = n] \in Work
<1>1. Idle \in Work
  BY DEF Idle, Work, Plan
<1>2. \A w \in Work : \A pc \in {"count", "insertInvitation", "newCustomer", "session"} :
        [w EXCEPT !.pc = pc] \in Work
  BY DEF Work
<1>3. \A w \in Work : \A c \in Customer :
        /\ [w EXCEPT !.pc = "session", !.cust = c] \in Work
        /\ [w EXCEPT !.pc = "saveCustomer", !.cust = c] \in Work
  BY DEF Work
<1>4. \A w \in Work : \A o \in OrgId : [w EXCEPT !.pc = "apply", !.org = o] \in Work
  BY DEF Work
<1>5. \A o \in OrgId, u \in User : [Idle EXCEPT !.pc = "invite", !.org = o, !.user = u] \in Work
  BY <1>1 DEF Work
<1>6. \A o \in OrgId, p \in Plan : [Idle EXCEPT !.pc = "customer", !.org = o, !.plan = p] \in Work
  BY <1>1 DEF Work
<1>7. \A pc \in {"apply", "find"}, o \in {0} \cup OrgId, n \in Nat :
        [Idle EXCEPT !.pc = pc, !.org = o, !.event = n] \in Work
  BY <1>1 DEF Work
<1> QED
  BY <1>1, <1>2, <1>3, <1>4, <1>5, <1>6, <1>7

\* A handler that is done relies on nothing.
LEMMA FinishFacts ==
    ASSUME OrgInv, NEW h \in Handler, Finish(h)
    PROVE  /\ worker' = [worker EXCEPT ![h] = Idle] /\ Idle \in Work
           /\ worker'[h] = Idle /\ WorkOK(h)'
           /\ Idle.pc # "insertInvitation"
<1>1. worker' = [worker EXCEPT ![h] = Idle] /\ Idle \in Work
  BY WorkType DEF Finish
<1>2. worker'[h] = Idle
  BY <1>1 DEF OrgInv, OrgTypeOK
<1>3. WorkOK(h)'
  BY <1>2 DEF WorkOK, Idle
<1> QED
  BY <1>1, <1>2, <1>3 DEF Idle

\* Goto changes the program counter only.
LEMMA GotoFacts ==
    ASSUME OrgInv, NEW h \in Handler,
           NEW pc \in {"count", "insertInvitation", "newCustomer", "session"}, Goto(h, pc)
    PROVE  \E w \in Work :
             /\ worker' = [worker EXCEPT ![h] = w] /\ worker'[h] = w /\ w.pc = pc
             /\ w.org = worker[h].org /\ w.user = worker[h].user /\ w.plan = worker[h].plan
             /\ w.cust = worker[h].cust /\ w.event = worker[h].event
<1> DEFINE w == [worker[h] EXCEPT !.pc = pc]
<1>1. worker[h] \in Work /\ worker \in [Handler -> Work]
  BY DEF OrgInv, OrgTypeOK
<1>2. /\ w.pc = pc /\ w.org = worker[h].org /\ w.user = worker[h].user
      /\ w.plan = worker[h].plan /\ w.cust = worker[h].cust /\ w.event = worker[h].event
  BY <1>1 DEF Work
<1>3. w \in Work
  BY <1>1, WorkType
<1>4. worker' = [worker EXCEPT ![h] = w]
  BY DEF Goto
<1> HIDE DEF w
<1>5. worker'[h] = w
  BY <1>1, <1>4
<1> QED
  BY <1>2, <1>3, <1>4, <1>5

\* Requests and events that come in.
LEMMA ArriveKeeps ==
    ASSUME OrgInv, NEW h \in Handler, Arrive(h)
    PROVE  OrgInv'
<1>1. ASSUME NEW caller \in User, NEW o \in OrgId, NEW u \in User,
             CreateInvitation(h, caller, o, u)
      PROVE  OrgInv'
  <2> DEFINE w == [Idle EXCEPT !.pc = "invite", !.org = o, !.user = u]
  <2>1. w \in Work
    BY WorkType
  <2>2. w.pc = "invite" /\ w.org = o /\ w.user = u /\ w.event = 0
    BY DEF Idle
  <2>3. /\ worker' = [worker EXCEPT ![h] = w] /\ o \in DOMAIN org
        /\ UNCHANGED <<org, member, pending, customer, offer, sub, event, due, latest, mishap>>
    BY <1>1 DEF CreateInvitation, Start, orgVars, stripe
  <2> HIDE DEF w
  <2>4. worker'[h] = w
    BY <2>1, <2>3 DEF OrgInv, OrgTypeOK
  <2>5. WorkOK(h)'
    BY <2>2, <2>3, <2>4 DEF WorkOK
  <2> QED
    BY <2>1, <2>2, <2>3, <2>5, LocalKeeps
<1>2. ASSUME NEW u \in User, NEW plan \in {"pro", "team"}, CreateCheckout(h, u, plan)
      PROVE  OrgInv'
  <2>1. PICK o \in DOMAIN org :
          /\ worker' = [worker EXCEPT ![h] =
               [Idle EXCEPT !.pc = "customer", !.org = o, !.plan = plan]]
          /\ UNCHANGED <<org, member, pending, customer, offer, sub, event, due, latest, mishap>>
    BY <1>2 DEF CreateCheckout, OwnedOrg, Start, orgVars, stripe
  <2> DEFINE w == [Idle EXCEPT !.pc = "customer", !.org = o, !.plan = plan]
  <2>2. o \in OrgId /\ plan \in Plan
    BY Numbered DEF OrgInv, Plan
  <2>3. w \in Work
    BY <2>2, WorkType
  <2>4. w.pc = "customer" /\ w.org = o /\ w.plan = plan /\ w.event = 0
    BY DEF Idle
  <2>5. worker' = [worker EXCEPT ![h] = w]
    BY <2>1
  <2> HIDE DEF w
  <2>6. worker'[h] = w
    BY <2>3, <2>5 DEF OrgInv, OrgTypeOK
  <2>7. WorkOK(h)'
    BY <2>1, <2>4, <2>6 DEF WorkOK
  <2> QED
    BY <2>1, <2>3, <2>4, <2>5, <2>7, LocalKeeps
<1>3. ASSUME NEW n \in due, HandleWebhook(h, n)
      PROVE  OrgInv'
  <2>1. PICK pc \in {"apply", "find"} :
          pc = IF event[n].kind = "checkout" THEN "apply" ELSE "find"
    OBVIOUS
  <2>2. n \in DOMAIN event /\ n \in Nat /\ event[n] \in EventRow
    BY Numbered DEF OrgInv, OrgTypeOK
  <2>3. PICK o \in {0} \cup OrgId : o = event[n].org
    BY <2>2 DEF EventRow
  <2> DEFINE w == [Idle EXCEPT !.pc = pc, !.org = o, !.event = n]
  <2>4. w \in Work
    BY <2>2, WorkType
  <2>5. w.pc = pc /\ w.org = o /\ w.event = n
    BY DEF Idle
  <2>6. /\ worker' = [worker EXCEPT ![h] = w]
        /\ UNCHANGED <<org, member, pending, customer, offer, sub, event, due, latest, mishap>>
    BY <1>3, <2>1, <2>3 DEF HandleWebhook, Start, orgVars, stripe
  <2> HIDE DEF w
  <2>7. worker'[h] = w
    BY <2>4, <2>6 DEF OrgInv, OrgTypeOK
  <2>8. pc = "apply" => customer[event[n].cust] = o /\ o \in DOMAIN org
    BY <2>1, <2>2, <2>3 DEF OrgInv, CustomersOK, Known
  <2>9. WorkOK(h)'
    BY <2>2, <2>5, <2>6, <2>7, <2>8 DEF WorkOK
  <2>10. w.pc # "insertInvitation"
    BY <2>5
  <2> QED
    BY <2>4, <2>6, <2>9, <2>10, LocalKeeps
<1> QED
  BY <1>1, <1>2, <1>3 DEF Arrive

\* An invitation is checked, counted and inserted in three statements: whoever has
\* counted is among those that insert when the next one counts.
LEMMA InviteKeeps ==
    ASSUME OrgInv, NEW h \in Handler, Invite(h)
    PROVE  OrgInv'
<1>1. WorkOK(h) /\ worker[h] \in Work /\ worker \in [Handler -> Work]
  BY DEF OrgInv, OrgTypeOK
<1>2. UNCHANGED <<org, member, customer, offer, sub, event, due, latest, mishap>>
  BY DEF Invite, CheckMember, CountPending, InsertInvitation, orgVars, stripe
<1>3. CustomersOK' /\ Grows /\ PlanWasPaid' /\ \A o \in OrgId \ mishap' : AtStripe(o)' /\ AsTold(o)'
  BY <1>2, CustomersStay, PlansStay
<1>4. CASE Finish(h) /\ UNCHANGED pending
  BY <1>2, <1>4, FinishFacts, LocalKeeps
<1>5. CASE CheckMember(h) /\ Goto(h, "count")
  <2>1. worker[h].pc = "invite" /\ UNCHANGED pending
    BY <1>5 DEF CheckMember, orgVars
  <2>2. PICK w \in Work :
          /\ worker' = [worker EXCEPT ![h] = w] /\ worker'[h] = w /\ w.pc = "count"
          /\ w.org = worker[h].org /\ w.user = worker[h].user /\ w.event = worker[h].event
    BY <1>5, GotoFacts
  <2>3. WorkOK(h)'
    BY <1>1, <1>2, <2>1, <2>2 DEF WorkOK
  <2> QED
    BY <1>2, <2>1, <2>2, <2>3, LocalKeeps
<1>6. CASE CountPending(h) /\ Goto(h, "insertInvitation") /\ Cardinality(pending[worker[h].org]) < MaxPending
  <2>1. worker[h].pc = "count" /\ UNCHANGED pending
    BY <1>6 DEF CountPending, orgVars
  <2>2. PICK w \in Work :
          /\ worker' = [worker EXCEPT ![h] = w] /\ worker'[h] = w /\ w.pc = "insertInvitation"
          /\ w.org = worker[h].org /\ w.user = worker[h].user /\ w.event = worker[h].event
    BY <1>6, GotoFacts
  <2>3. WorkOK(h)'
    BY <1>1, <1>2, <2>1, <2>2 DEF WorkOK
  <2>4. /\ worker' \in [Handler -> Work]
        /\ \A g \in Handler \ {h} : worker'[g] = worker[g] /\ WorkOK(g)'
    BY <1>3, <2>2, WorkerMoves
  <2>5. OrgTypeOK'
    BY <1>2, <2>1, <2>4 DEF OrgInv, OrgTypeOK
  <2>6. ASSUME NEW o \in OrgId PROVE CountOK(o)'
    <3>1. IsFiniteSet(Handler) /\ Cardinality(Handler) \in Nat
      BY OrgAssumption, FS_CardinalityType
    <3>2. /\ Cardinality(Inserting(o)) \in Nat /\ Cardinality(Inserting(o)') \in Nat
          /\ Cardinality(Inserting(o)') <= Cardinality(Handler)
      <4>1. Inserting(o) \subseteq Handler /\ Inserting(o)' \subseteq Handler
        BY DEF Inserting
      <4> QED
        BY <3>1, <4>1, FS_Subset, FS_CardinalityType
    <3>3. Cardinality(pending[o]) \in Nat
      <4>1. IsFiniteSet(pending[o])
        BY FS_Subset, OrgAssumption DEF OrgInv, OrgTypeOK
      <4> QED
        BY <4>1, FS_CardinalityType
    <3>4. CASE o = worker[h].org
      BY <1>6, <2>1, <3>1, <3>2, <3>3, <3>4, OrgAssumption DEF CountOK
    <3>5. CASE o # worker[h].org
      <4>1. Inserting(o)' = Inserting(o)
        BY <2>1, <2>2, <2>4, <3>5 DEF Inserting
      <4> QED
        BY <2>1, <4>1 DEF OrgInv, CountOK
    <3> QED
      BY <3>4, <3>5
  <2> QED
    BY <1>3, <2>3, <2>4, <2>5, <2>6 DEF OrgInv
<1>7. CASE InsertInvitation(h)
  <2>1. PICK o \in OrgId : o = worker[h].org
    BY <1>1, <1>7, Numbered DEF InsertInvitation, WorkOK, OrgInv
  <2>2. PICK u \in User : u = worker[h].user
    BY <1>1, <1>7 DEF InsertInvitation, WorkOK
  <2>3. /\ pending' = [pending EXCEPT ![o] = pending[o] \cup {u}] /\ Finish(h)
        /\ worker[h].pc = "insertInvitation"
    BY <1>7, <2>1, <2>2 DEF InsertInvitation
  <2>4. /\ pending' \in [OrgId -> SUBSET User] /\ pending'[o] = pending[o] \cup {u}
        /\ \A p \in OrgId \ {o} : pending'[p] = pending[p]
    BY <2>3 DEF OrgInv, OrgTypeOK
  <2>5. /\ worker' \in [Handler -> Work] /\ worker'[h] = Idle /\ WorkOK(h)'
        /\ \A g \in Handler \ {h} : worker'[g] = worker[g] /\ WorkOK(g)'
    BY <1>3, <2>3, FinishFacts, WorkerMoves
  <2>6. OrgTypeOK'
    BY <1>2, <2>4, <2>5 DEF OrgInv, OrgTypeOK
  <2>7. ASSUME NEW p \in OrgId PROVE CountOK(p)'
    <3>1. /\ IsFiniteSet(Inserting(p)) /\ IsFiniteSet(pending[p])
          /\ Cardinality(Inserting(p)) \in Nat /\ Cardinality(pending[p]) \in Nat
          /\ Cardinality(Handler) \in Nat
      <4>1. Inserting(p) \subseteq Handler /\ pending[p] \subseteq User
        BY DEF Inserting, OrgInv, OrgTypeOK
      <4>2. IsFiniteSet(Inserting(p)) /\ IsFiniteSet(pending[p])
        BY <4>1, FS_Subset, OrgAssumption
      <4> QED
        BY <4>2, FS_CardinalityType, OrgAssumption
    <3>2. CountOK(p)
      BY DEF OrgInv
    <3>3. CASE p = o
      <4>1. Inserting(p)' = Inserting(p) \ {h} /\ h \in Inserting(p)
        BY <2>1, <2>3, <2>5, <3>3 DEF Inserting, Idle
      <4>2. Cardinality(Inserting(p)') = Cardinality(Inserting(p)) - 1
        BY <3>1, <4>1, FS_RemoveElement
      <4>3. Cardinality(pending'[p]) <= Cardinality(pending[p]) + 1
            /\ Cardinality(pending'[p]) \in Nat
        <5>1. pending'[p] = pending[p] \cup {u}
          BY <2>4, <3>3
        <5>2. Cardinality(pending'[p]) =
                IF u \in pending[p] THEN Cardinality(pending[p]) ELSE Cardinality(pending[p]) + 1
          BY <3>1, <5>1, FS_AddElement
        <5> QED
          BY <3>1, <5>2
      <4> QED
        BY <3>1, <3>2, <4>2, <4>3, OrgAssumption DEF CountOK
    <3>4. CASE p # o
      <4>1. Inserting(p)' = Inserting(p)
        BY <2>1, <2>5, <3>4 DEF Inserting, Idle
      <4> QED
        BY <2>4, <3>2, <3>4, <4>1 DEF CountOK
    <3> QED
      BY <3>3, <3>4
  <2> QED
    BY <1>3, <2>5, <2>6, <2>7 DEF OrgInv
<1> QED
  BY <1>4, <1>5, <1>6, <1>7 DEF Invite, CheckMember, CountPending, orgVars

-----------------------------------------------------------------------------
(* Checkout                                                                *)

\* New customers are nobody's that an event or a subscription knows.
LEMMA AboutStays ==
    ASSUME OrgInv, Grows, UNCHANGED <<sub, event>>, NEW o \in OrgId
    PROVE  About(o)' = About(o) /\ Live(o)' = Live(o)
<1>1. \A n \in DOMAIN event : customer'[event[n].cust] = customer[event[n].cust]
  <2> TAKE n \in DOMAIN event
  <2>1. event[n].cust \in Customer /\ Known(event[n].cust)
    BY Numbered DEF OrgInv, CustomersOK, EventRow
  <2> QED
    BY <2>1, StaysKnown DEF OrgInv
<1>2. \A s \in Sub : sub[s].state = "active" => customer'[sub[s].cust] = customer[sub[s].cust]
  BY StaysKnown DEF OrgInv, CustomersOK
<1> QED
  BY <1>1, <1>2 DEF About, Live

\* A plan that was paid for stays so while customers and events stay.
LEMMA PaidStays ==
    ASSUME OrgInv, Grows,
           \A o \in DOMAIN org' :
             \/ org'[o].plan = "free"
             \/ o \in DOMAIN org /\ org'[o].plan = org[o].plan
    PROVE  PlanWasPaid'
<1> SUFFICES ASSUME NEW o \in DOMAIN org', org'[o].plan # "free"
             PROVE  \E n \in DOMAIN event' :
                      /\ event'[n].kind # "deleted"
                      /\ customer'[event'[n].cust] = o
                      /\ org'[o].plan = PlanOf(event'[n].price)
  BY DEF PlanWasPaid
<1>1. o \in DOMAIN org /\ org'[o].plan = org[o].plan
  OBVIOUS
<1>2. PICK n \in DOMAIN event : /\ event[n].kind # "deleted" /\ customer[event[n].cust] = o
                                /\ org[o].plan = PlanOf(event[n].price)
  BY <1>1 DEF OrgInv, PlanWasPaid
<1>3. event[n].cust \in Customer /\ customer[event[n].cust] # 0
  BY <1>1, <1>2, Numbered DEF OrgInv, EventRow
<1>4. n \in DOMAIN event' /\ event'[n] = event[n]
  BY DEF Grows
<1>5. customer'[event[n].cust] = customer[event[n].cust]
  BY <1>3 DEF Grows
<1> QED
  BY <1>1, <1>2, <1>4, <1>5

\* What Stripe's events say of an organisation, and what it was told, stays while they
\* stay; new customers are for the caller to look at.
LEMMA TellingStays ==
    ASSUME OrgInv, Grows, UNCHANGED <<sub, event, due, latest>>, NEW o \in OrgId \ mishap,
           \A c, d \in Customer : customer'[c] = o /\ customer'[d] = o => c = d,
           o \in DOMAIN org' => o \in DOMAIN org /\ org'[o].plan = org[o].plan
    PROVE  AtStripe(o)' /\ AsTold(o)'
<1>1. AtStripe(o) /\ AsTold(o)
  BY DEF OrgInv
<1>2. About(o)' = About(o) /\ Live(o)' = Live(o)
  BY AboutStays
<1>3. \A n : PlanAt(n)' = PlanAt(n)
  BY DEF PlanAt
<1> QED
  BY <1>1, <1>2, <1>3 DEF AtStripe, AsTold

\* The customer is the row's own; without one, a new one is made for it.
LEMMA ReadCustomerKeeps ==
    ASSUME OrgInv, NEW h \in Handler, ReadCustomer(h)
    PROVE  OrgInv'
<1>1. /\ WorkOK(h) /\ worker[h] \in Work /\ worker[h].pc = "customer"
      /\ UNCHANGED <<org, member, pending, customer, offer, sub, event, due, latest, mishap>>
  BY DEF OrgInv, OrgTypeOK, ReadCustomer, orgVars, stripe
<1>2. PICK o \in DOMAIN org : o = worker[h].org
  BY <1>1 DEF WorkOK
<1>3. CASE Goto(h, "newCustomer")
  <2>1. PICK w \in Work :
          /\ worker' = [worker EXCEPT ![h] = w] /\ worker'[h] = w /\ w.pc = "newCustomer"
          /\ w.org = worker[h].org /\ w.plan = worker[h].plan /\ w.event = worker[h].event
    BY <1>3, GotoFacts
  <2>2. WorkOK(h)'
    BY <1>1, <2>1 DEF WorkOK
  <2> QED
    BY <1>1, <2>1, <2>2, LocalKeeps
<1>4. CASE /\ org[o].cust # None
           /\ worker' = [worker EXCEPT ![h].pc = "session", ![h].cust = org[o].cust]
  <2>1. PICK c \in Customer : c = org[o].cust
    BY <1>4, Numbered DEF OrgInv, OrgRow
  <2> DEFINE w == [worker[h] EXCEPT !.pc = "session", !.cust = c]
  <2>2. w \in Work
    BY <1>1, WorkType
  <2>3. /\ w.pc = "session" /\ w.cust = c /\ w.org = o /\ w.plan = worker[h].plan
        /\ w.event = worker[h].event
    BY <1>1, <1>2 DEF Work
  <2>4. worker' = [worker EXCEPT ![h] = w]
    BY <1>4, <2>1
  <2> HIDE DEF w
  <2>5. worker'[h] = w
    BY <2>2, <2>4 DEF OrgInv, OrgTypeOK
  <2>6. customer[c] = o
    BY <1>4, <2>1 DEF OrgInv, CustomersOK
  <2>7. WorkOK(h)'
    BY <1>1, <1>4, <2>1, <2>3, <2>5, <2>6 DEF WorkOK
  <2> QED
    BY <1>1, <2>2, <2>3, <2>4, <2>7, LocalKeeps
<1> QED
  BY <1>2, <1>3, <1>4 DEF ReadCustomer

\* Two handlers that both find no customer both make one: that is a mishap.
LEMMA NewCustomerKeeps ==
    ASSUME OrgInv, NEW h \in Handler, NewCustomer(h)
    PROVE  OrgInv'
<1>1. /\ WorkOK(h) /\ worker[h] \in Work /\ worker[h].pc = "newCustomer"
      /\ UNCHANGED <<org, member, pending, offer, sub, event, due, latest>>
  BY DEF OrgInv, OrgTypeOK, NewCustomer, orgVars
<1>2. PICK o \in DOMAIN org : o = worker[h].org
  BY <1>1 DEF WorkOK
<1>3. /\ mishap' = (IF \E c \in Customer : customer[c] = o THEN mishap \cup {o} ELSE mishap)
      /\ o \in OrgId /\ o # 0
  BY <1>2, Numbered DEF NewCustomer, OrgInv
<1>4. PICK c \in Customer :
        /\ customer[c] = 0 /\ customer' = [customer EXCEPT ![c] = o]
        /\ worker' = [worker EXCEPT ![h].pc = "saveCustomer", ![h].cust = c]
  BY <1>2 DEF NewCustomer
<1>5. /\ customer' \in [Customer -> {0} \cup OrgId] /\ customer'[c] = o
      /\ \A d \in Customer \ {c} : customer'[d] = customer[d]
  BY <1>3, <1>4 DEF OrgInv, OrgTypeOK
<1>6. Grows
  BY <1>1, <1>4, <1>5 DEF Grows
<1>7. PICK w \in Work :
        /\ worker' = [worker EXCEPT ![h] = w] /\ w.pc = "saveCustomer" /\ w.cust = c
        /\ w.org = o /\ w.plan = worker[h].plan /\ w.event = worker[h].event
  <2> DEFINE w == [worker[h] EXCEPT !.pc = "saveCustomer", !.cust = c]
  <2>1. w \in Work
    BY <1>1, WorkType
  <2>2. /\ w.pc = "saveCustomer" /\ w.cust = c /\ w.org = o /\ w.plan = worker[h].plan
        /\ w.event = worker[h].event
    BY <1>1, <1>2 DEF Work
  <2>3. worker' = [worker EXCEPT ![h] = w]
    BY <1>4
  <2> HIDE DEF w
  <2> QED
    BY <2>1, <2>2, <2>3
<1>8. /\ worker' \in [Handler -> Work] /\ worker'[h] = w
      /\ \A g \in Handler \ {h} : WorkOK(g)'
      /\ \A p \in OrgId : CountOK(p)'
  BY <1>1, <1>6, <1>7, WorkerMoves
<1>9. WorkOK(h)'
  BY <1>1, <1>2, <1>5, <1>7, <1>8 DEF WorkOK
<1>10. OrgTypeOK'
  BY <1>1, <1>3, <1>5, <1>8 DEF OrgInv, OrgTypeOK
<1>11. CustomersOK'
  <2>1. \A d \in Customer : customer'[d] # 0 => customer'[d] \in DOMAIN org
    BY <1>5 DEF OrgInv, CustomersOK
  <2>2. \A p \in DOMAIN org : org[p].cust # None => customer'[org[p].cust] = p
    <3> SUFFICES ASSUME NEW p \in DOMAIN org, org[p].cust # None
                 PROVE  customer'[org[p].cust] = p
      OBVIOUS
    <3>1. customer[org[p].cust] = p /\ org[p].cust \in Customer /\ p # 0
      BY Numbered DEF OrgInv, CustomersOK, OrgRow
    <3> QED
      BY <3>1, <1>6 DEF Grows
  <2>3. \A f \in offer : Known(f.cust)' /\ customer'[f.cust] = f.org
    <3>1. \A f \in offer : f.cust \in Customer /\ Known(f.cust) /\ customer[f.cust] = f.org
      BY DEF OrgInv, OrgTypeOK, CustomersOK
    <3> QED
      BY <1>6, <3>1, StaysKnown DEF OrgInv
  <2>4. \A s \in Sub : sub[s].state = "active" => sub[s].cust \in Customer /\ Known(sub[s].cust)'
    <3> SUFFICES ASSUME NEW s \in Sub, sub[s].state = "active"
                 PROVE  sub[s].cust \in Customer /\ Known(sub[s].cust)'
      OBVIOUS
    <3>1. PICK d \in Customer : d = sub[s].cust /\ Known(d)
      BY DEF OrgInv, CustomersOK
    <3>2. Known(d)'
      BY <1>6, <3>1, StaysKnown DEF OrgInv
    <3> QED
      BY <1>1, <3>1, <3>2
  <2>5. \A n \in DOMAIN event :
          /\ Known(event[n].cust)'
          /\ event[n].kind = "checkout" => customer'[event[n].cust] = event[n].org
    <3> SUFFICES ASSUME NEW n \in DOMAIN event
                 PROVE  /\ Known(event[n].cust)'
                        /\ event[n].kind = "checkout" =>
                             customer'[event[n].cust] = event[n].org
      OBVIOUS
    <3>1. PICK d \in Customer : d = event[n].cust /\ Known(d)
      BY Numbered DEF OrgInv, CustomersOK, EventRow
    <3>2. Known(d)' /\ customer'[d] = customer[d]
      BY <1>6, <3>1, StaysKnown DEF OrgInv
    <3> QED
      BY <1>1, <3>1, <3>2 DEF OrgInv, CustomersOK
  <2> QED
    BY <1>1, <2>1, <2>2, <2>3, <2>4, <2>5 DEF CustomersOK, Known
<1>12. PlanWasPaid'
  BY <1>1, <1>6, PaidStays
<1>13. ASSUME NEW p \in OrgId \ mishap' PROVE AtStripe(p)' /\ AsTold(p)'
  <2>1. p \in OrgId \ mishap /\ \A x, y \in Customer : customer[x] = p /\ customer[y] = p => x = y
    BY <1>3 DEF OrgInv, AtStripe
  <2>2. p = o => \A x \in Customer : customer[x] # o
    BY <1>3
  <2>3. \A x, y \in Customer : customer'[x] = p /\ customer'[y] = p => x = y
    BY <1>5, <2>1, <2>2
  <2> QED
    BY <1>1, <1>6, <2>1, <2>3, TellingStays
<1> QED
  BY <1>8, <1>9, <1>10, <1>11, <1>12, <1>13 DEF OrgInv

\* The last of two handlers wins; both customers are the organisation's.
LEMMA SaveCustomerKeeps ==
    ASSUME OrgInv, NEW h \in Handler, SaveCustomer(h)
    PROVE  OrgInv'
<1>1. /\ WorkOK(h) /\ worker[h] \in Work /\ worker[h].pc = "saveCustomer"
      /\ UNCHANGED <<member, pending, customer, offer, sub, event, due, latest, mishap>>
      /\ OrgTypeOK
  BY DEF OrgInv, OrgTypeOK, SaveCustomer, stripe
<1>2. PICK o \in DOMAIN org : o = worker[h].org
  BY <1>1 DEF WorkOK
<1>3. PICK c \in Customer : c = worker[h].cust /\ customer[c] = o
  BY <1>1, <1>2 DEF WorkOK
<1>4. PICK v \in OrgRow : /\ org' = [org EXCEPT ![o] = v]
                          /\ v.cust = c /\ v.plan = org[o].plan
  <2> DEFINE v == [org[o] EXCEPT !.cust = c]
  <2>1. org[o] \in OrgRow
    BY <1>1, Numbered
  <2>2. v \in OrgRow /\ v.cust = c /\ v.plan = org[o].plan
    BY <2>1 DEF OrgRow
  <2>3. org' = [org EXCEPT ![o] = v]
    BY <1>2, <1>3 DEF SaveCustomer
  <2> HIDE DEF v
  <2> QED
    BY <2>2, <2>3
<1>5. /\ org' \in Seq(OrgRow) /\ Len(org') = Len(org) /\ DOMAIN org' = DOMAIN org
      /\ org'[o] = v /\ \A p \in DOMAIN org \ {o} : org'[p] = org[p]
  BY <1>1, <1>4, RowSet
<1>6. Grows
  BY <1>1, <1>4, <1>5, OrgAssumption DEF Grows
<1>7. PICK w \in Work :
        /\ worker' = [worker EXCEPT ![h] = w] /\ worker'[h] = w /\ w.pc = "session"
        /\ w.org = worker[h].org /\ w.cust = worker[h].cust /\ w.plan = worker[h].plan
        /\ w.event = worker[h].event
  BY GotoFacts DEF SaveCustomer
<1>8. /\ worker' \in [Handler -> Work]
      /\ \A g \in Handler \ {h} : WorkOK(g)'
      /\ \A p \in OrgId : CountOK(p)'
  BY <1>1, <1>6, <1>7, WorkerMoves
<1>9. WorkOK(h)'
  BY <1>1, <1>2, <1>3, <1>4, <1>5, <1>7, OrgAssumption DEF WorkOK
<1>10. OrgTypeOK'
  BY <1>1, <1>5, <1>8 DEF OrgTypeOK
<1>11. CustomersOK'
  <2>1. \A d \in Customer : Known(d) => Known(d)'
    BY <1>1, <1>6, StaysKnown
  <2>2. \A p \in DOMAIN org' : org'[p].cust # None => customer[org'[p].cust] = p
    BY <1>3, <1>4, <1>5 DEF OrgInv, CustomersOK
  <2>3. /\ \A f \in offer : f.cust \in Customer
        /\ \A n \in DOMAIN event : event[n].cust \in Customer
    BY <1>1, Numbered DEF OrgTypeOK, EventRow
  <2> QED
    BY <1>1, <1>5, <2>1, <2>2, <2>3 DEF OrgInv, CustomersOK
<1>12. \A p \in DOMAIN org : org'[p].plan = org[p].plan
  BY <1>4, <1>5
<1>13. PlanWasPaid'
  BY <1>5, <1>6, <1>12, PaidStays
<1>14. ASSUME NEW p \in OrgId \ mishap' PROVE AtStripe(p)' /\ AsTold(p)'
  <2>1. p \in OrgId \ mishap /\ \A x, y \in Customer : customer[x] = p /\ customer[y] = p => x = y
    BY <1>1 DEF OrgInv, AtStripe
  <2> QED
    BY <1>1, <1>5, <1>6, <1>12, <2>1, TellingStays
<1> QED
  BY <1>8, <1>9, <1>10, <1>11, <1>13, <1>14 DEF OrgInv

\* The user is sent to pay as the customer the handler read or made.
LEMMA NewSessionKeeps ==
    ASSUME OrgInv, NEW h \in Handler, NewSession(h)
    PROVE  OrgInv'
<1>1. /\ WorkOK(h) /\ worker[h] \in Work /\ worker[h].pc = "session" /\ Finish(h)
      /\ UNCHANGED <<org, member, pending, customer, sub, event, due, latest, mishap>>
      /\ offer' = offer \cup {[org |-> worker[h].org, cust |-> worker[h].cust,
                               price |-> worker[h].plan]}
  BY DEF OrgInv, OrgTypeOK, NewSession, orgVars
<1>2. /\ worker[h].org \in DOMAIN org /\ worker[h].org \in OrgId /\ worker[h].cust \in Customer
      /\ customer[worker[h].cust] = worker[h].org /\ org[worker[h].org].cust # None
      /\ worker[h].plan \in Price
  BY <1>1, Numbered DEF WorkOK, OrgInv, Price
<1>3. Grows
  BY <1>1 DEF Grows
<1>4. /\ worker' \in [Handler -> Work] /\ WorkOK(h)'
      /\ \A g \in Handler \ {h} : WorkOK(g)'
      /\ \A p \in OrgId : CountOK(p)'
  BY <1>1, <1>3, FinishFacts, WorkerMoves
<1>5. OrgTypeOK'
  BY <1>1, <1>2, <1>4 DEF OrgInv, OrgTypeOK
<1>6. CustomersOK'
  <2>1. \A f \in offer' : f \in offer \/ (f.cust = worker[h].cust /\ f.org = worker[h].org)
    BY <1>1
  <2>2. Known(worker[h].cust)
    BY <1>2 DEF Known
  <2>3. \A f \in offer' : Known(f.cust) /\ customer[f.cust] = f.org
    BY <1>2, <2>1, <2>2 DEF OrgInv, CustomersOK
  <2> QED
    BY <1>1, <2>3 DEF OrgInv, CustomersOK, Known
<1>7. PlanWasPaid' /\ \A o \in OrgId \ mishap' : AtStripe(o)' /\ AsTold(o)'
  BY <1>1, PlansStay
<1> QED
  BY <1>4, <1>5, <1>6, <1>7 DEF OrgInv

-----------------------------------------------------------------------------
(* Stripe's events                                                         *)

\* An event that is answered, and not handled, was told before or is a mishap.
LEMMA AnswerKeeps ==
    ASSUME OrgInv, NEW h \in Handler, Answer(h), worker[h].event \in DOMAIN event,
           UNCHANGED <<org, member, pending, customer, offer, sub, event, latest>>,
           mishap \subseteq mishap', mishap' \subseteq OrgId,
           \/ customer[event[worker[h].event].cust] \in mishap'
           \/ worker[h].event <= latest[customer[event[worker[h].event].cust]]
    PROVE  OrgInv'
<1> DEFINE n == worker[h].event
<1>1. CustomersOK' /\ Grows
  BY CustomersStay
<1>2. Finish(h) /\ due' \in {due, due \ {n}}
  BY DEF Answer
<1>3. /\ worker' \in [Handler -> Work] /\ WorkOK(h)'
      /\ \A g \in Handler \ {h} : WorkOK(g)'
      /\ \A p \in OrgId : CountOK(p)'
  BY <1>1, <1>2, FinishFacts, WorkerMoves
<1>4. OrgTypeOK'
  BY <1>2, <1>3 DEF OrgInv, OrgTypeOK
<1>5. PlanWasPaid'
  BY <1>1, PaidStays
<1>6. ASSUME NEW o \in OrgId \ mishap' PROVE AtStripe(o)' /\ AsTold(o)'
  <2>1. AtStripe(o) /\ AsTold(o) /\ About(o)' = About(o) /\ Live(o)' = Live(o)
    BY <1>1, AboutStays DEF OrgInv
  <2>2. AtStripe(o)'
    BY <2>1 DEF AtStripe
  <2>3. \A m \in About(o) : m <= latest[o] \/ m \in due'
    BY <1>2, <2>1 DEF AsTold, About
  <2>4. \A m : PlanAt(m)' = PlanAt(m)
    BY DEF PlanAt
  <2> QED
    BY <2>1, <2>2, <2>3, <2>4 DEF AsTold
<1> QED
  BY <1>1, <1>3, <1>4, <1>5, <1>6 DEF OrgInv

\* An organisation without a mishap is found by its customer.
LEMMA FindKeeps ==
    ASSUME OrgInv, NEW h \in Handler, FindOrgByCustomerID(h)
    PROVE  OrgInv'
<1> DEFINE n == worker[h].event
           found == {o \in DOMAIN org : org[o].cust = event[n].cust}
<1>1. /\ WorkOK(h) /\ worker[h] \in Work /\ worker[h].pc = "find" /\ OrgTypeOK
      /\ UNCHANGED <<org, member, pending, customer, offer, sub, event, latest, mishap>>
  BY DEF OrgInv, OrgTypeOK, FindOrgByCustomerID, orgVars
<1>2. n \in DOMAIN event /\ event[n].cust \in Customer /\ Known(event[n].cust)
  BY <1>1, Numbered DEF WorkOK, OrgInv, CustomersOK, EventRow
<1>3. PICK p \in DOMAIN org : /\ p = customer[event[n].cust] /\ org[p].cust # None
                              /\ customer[org[p].cust] = p /\ org[p].cust \in Customer
                              /\ p \in OrgId
  BY <1>1, <1>2, Numbered DEF Known, OrgInv, CustomersOK, OrgRow
<1>4. CASE found = {} /\ Answer(h)
  <2>1. p \in mishap
    <3>1. org[p].cust # event[n].cust
      BY <1>4
    <3> QED
      BY <1>2, <1>3, <3>1 DEF OrgInv, AtStripe
  <2>2. mishap' \subseteq OrgId
    BY <1>1 DEF OrgTypeOK
  <2> QED
    BY <1>1, <1>2, <1>3, <1>4, <2>1, <2>2, AnswerKeeps
<1>5. ASSUME NEW o \in found, worker' = [worker EXCEPT ![h].pc = "apply", ![h].org = o],
             UNCHANGED due
      PROVE  OrgInv'
  <2>1. o \in DOMAIN org /\ o \in OrgId /\ customer[event[n].cust] = o
    BY <1>1, <1>2, <1>5, Numbered, OrgAssumption DEF OrgInv, CustomersOK
  <2> DEFINE w == [worker[h] EXCEPT !.pc = "apply", !.org = o]
  <2>2. w \in Work
    BY <1>1, <2>1, WorkType
  <2>3. w.pc = "apply" /\ w.org = o /\ w.event = worker[h].event
    BY <1>1 DEF Work
  <2>4. worker' = [worker EXCEPT ![h] = w]
    BY <1>5
  <2> HIDE DEF w
  <2>5. worker'[h] = w
    BY <1>1, <2>4 DEF OrgTypeOK
  <2>6. WorkOK(h)'
    BY <1>1, <1>2, <2>1, <2>3, <2>5 DEF WorkOK
  <2>7. UNCHANGED <<org, member, pending, customer, offer, sub, event, due, latest, mishap>>
    BY <1>1, <1>5
  <2> QED
    BY <2>2, <2>3, <2>4, <2>6, <2>7, LocalKeeps
<1> QED
  BY <1>4, <1>5 DEF FindOrgByCustomerID

\* The row is written as the event says: it is then the youngest the row had, unless
\* a younger one came before.
LEMMA ApplyKeeps ==
    ASSUME OrgInv, NEW h \in Handler, worker[h].pc = "apply",
           NEW o \in DOMAIN org, o = worker[h].org,
           NEW n \in DOMAIN event, n = worker[h].event,
           NEW v \in OrgRow, org' = [org EXCEPT ![o] = v],
           v.cust \in {org[o].cust, event[n].cust}, v.plan = PlanAt(n),
           InOrder(o, n), Answer(h),
           UNCHANGED <<member, pending, customer, offer, sub, event>>
    PROVE  OrgInv'
<1>1. OrgTypeOK /\ WorkOK(h) /\ customer[event[n].cust] = o /\ o \in OrgId /\ n \in Nat /\ n # 0
      /\ event[n] \in EventRow /\ org[o] \in OrgRow
  BY Numbered DEF OrgInv, WorkOK
<1>2. /\ org' \in Seq(OrgRow) /\ Len(org') = Len(org) /\ DOMAIN org' = DOMAIN org
      /\ org'[o] = v /\ \A p \in DOMAIN org \ {o} : org'[p] = org[p]
  BY <1>1, RowSet
<1>3. v.cust # None
  <2>1. event[n].cust \in Customer /\ Known(event[n].cust)
    BY <1>1 DEF EventRow, OrgInv, CustomersOK
  <2> QED
    BY <1>1, <2>1, OrgAssumption DEF Known
<1>4. Grows
  BY <1>2, <1>3 DEF Grows
<1>5. Finish(h) /\ due' \in {due, due \ {n}}
  BY DEF Answer
<1>6. /\ worker' \in [Handler -> Work] /\ WorkOK(h)'
      /\ \A g \in Handler \ {h} : WorkOK(g)'
      /\ \A p \in OrgId : CountOK(p)'
  BY <1>4, <1>5, FinishFacts, WorkerMoves
<1>7. /\ latest' = [latest EXCEPT ![o] = IF latest[o] < n THEN n ELSE latest[o]]
      /\ mishap' = (IF n < latest[o] THEN mishap \cup {o} ELSE mishap)
      /\ latest \in [OrgId -> Nat]
  BY <1>1 DEF InOrder, OrgTypeOK
<1>8. /\ latest' \in [OrgId -> Nat] /\ \A p \in OrgId \ {o} : latest'[p] = latest[p]
      /\ o \notin mishap' => latest'[o] = n /\ latest[o] <= n /\ o \notin mishap
      /\ mishap \subseteq mishap' /\ mishap' \subseteq OrgId
  BY <1>1, <1>7 DEF OrgTypeOK
<1>9. OrgTypeOK'
  BY <1>1, <1>2, <1>5, <1>6, <1>8 DEF OrgTypeOK
<1>10. CustomersOK'
  <2>1. \A d \in Customer : Known(d) => Known(d)'
    BY <1>1, <1>4, StaysKnown
  <2>2. \A p \in DOMAIN org' : org'[p].cust # None => customer[org'[p].cust] = p
    BY <1>1, <1>2 DEF OrgInv, CustomersOK
  <2>3. /\ \A f \in offer : f.cust \in Customer
        /\ \A m \in DOMAIN event : event[m].cust \in Customer
    BY <1>1, Numbered DEF OrgTypeOK, EventRow
  <2> QED
    BY <1>2, <2>1, <2>2, <2>3 DEF OrgInv, CustomersOK
<1>11. PlanWasPaid'
  <2> SUFFICES ASSUME NEW p \in DOMAIN org, org'[p].plan # "free"
               PROVE  \E m \in DOMAIN event : /\ event[m].kind # "deleted"
                                              /\ customer[event[m].cust] = p
                                              /\ org'[p].plan = PlanOf(event[m].price)
    BY <1>2 DEF PlanWasPaid
  <2>1. CASE p = o
    <3>1. event[n].kind # "deleted" /\ org'[p].plan = PlanOf(event[n].price)
      BY <1>1, <1>2, <2>1 DEF PlanAt
    <3> QED
      BY <1>1, <2>1, <3>1
  <2>2. CASE p # o
    BY <1>2, <2>2 DEF OrgInv, PlanWasPaid
  <2> QED
    BY <2>1, <2>2
<1>12. ASSUME NEW p \in OrgId \ mishap' PROVE AtStripe(p)' /\ AsTold(p)'
  <2>1. AtStripe(p) /\ AsTold(p) /\ About(p)' = About(p) /\ Live(p)' = Live(p)
    BY <1>4, <1>8, AboutStays DEF OrgInv
  <2>2. AtStripe(p)'
    BY <2>1 DEF AtStripe
  <2>3. \A m : PlanAt(m)' = PlanAt(m)
    BY DEF PlanAt
  <2>4. CASE p = o
    <3>1. latest'[p] = n /\ latest[p] <= n /\ latest[p] \in Nat /\ n \in About(p)
      BY <1>1, <1>7, <1>8, <2>4 DEF About
    <3>2. org'[p].plan = PlanAt(n)
      BY <1>2, <2>4
    <3>3. \A m \in About(p) : m <= n \/ m \in due'
      <4> TAKE m \in About(p)
      <4>1. m \in Nat /\ (m <= latest[p] \/ m \in due)
        BY <1>1, <2>1, Numbered DEF AsTold, About
      <4> QED
        BY <1>1, <1>5, <3>1, <4>1
    <3> QED
      BY <2>1, <2>2, <2>3, <3>1, <3>2, <3>3 DEF AsTold
  <2>5. CASE p # o
    <3>1. latest'[p] = latest[p] /\ n \notin About(p)
      BY <1>1, <1>8, <2>5 DEF About
    <3>2. \A m \in About(p) : m <= latest[p] \/ m \in due'
      BY <1>5, <2>1, <3>1 DEF AsTold
    <3>3. p \in DOMAIN org' => p \in DOMAIN org /\ org'[p].plan = org[p].plan
      BY <1>2, <2>5
    <3> QED
      BY <2>1, <2>2, <2>3, <3>1, <3>2, <3>3 DEF AsTold
  <2> QED
    BY <2>4, <2>5
<1> QED
  BY <1>6, <1>9, <1>10, <1>11, <1>12 DEF OrgInv

\* A checkout or a new price is paid for; a subscription that ended is not.
LEMMA WebhookKeeps ==
    ASSUME OrgInv, NEW h \in Handler, UpdateOrgBilling(h) \/ DowngradeToFree(h)
    PROVE  OrgInv'
<1>1. worker[h].pc = "apply" /\ WorkOK(h) /\ OrgTypeOK
  BY DEF UpdateOrgBilling, DowngradeToFree, OrgInv
<1>2. PICK o \in DOMAIN org : o = worker[h].org
  BY <1>1 DEF WorkOK
<1>3. PICK n \in DOMAIN event : n = worker[h].event
  BY <1>1 DEF WorkOK
<1>4. org[o] \in OrgRow /\ event[n] \in EventRow /\ n # 0
  BY <1>1, Numbered
<1>5. /\ InOrder(o, n) /\ Answer(h)
      /\ UNCHANGED <<member, pending, customer, offer, sub, event>>
  BY <1>2, <1>3 DEF UpdateOrgBilling, DowngradeToFree
<1>6. CASE UpdateOrgBilling(h)
  <2> DEFINE v == [org[o] EXCEPT !.cust = event[n].cust, !.sub = event[n].sub,
                                 !.plan = PlanOf(event[n].price)]
  <2>1. PlanOf(event[n].price) \in Plan
    BY <1>4 DEF EventRow, PlanOf, Price, Plan
  <2>2. /\ v \in OrgRow /\ v.cust = event[n].cust /\ v.plan = PlanOf(event[n].price)
    BY <1>4, <2>1 DEF OrgRow, EventRow
  <2>3. org' = [org EXCEPT ![o] = v] /\ event[n].kind # "deleted"
    BY <1>2, <1>3, <1>6 DEF UpdateOrgBilling
  <2> HIDE DEF v
  <2>4. v.plan = PlanAt(n)
    BY <1>4, <2>2, <2>3 DEF PlanAt
  <2> QED
    BY <1>1, <1>2, <1>3, <1>5, <2>2, <2>3, <2>4, ApplyKeeps
<1>7. CASE DowngradeToFree(h)
  <2> DEFINE v == [org[o] EXCEPT !.sub = None, !.plan = "free"]
  <2>1. v \in OrgRow /\ v.cust = org[o].cust /\ v.plan = "free"
    BY <1>4 DEF OrgRow, Plan
  <2>2. org' = [org EXCEPT ![o] = v] /\ event[n].kind = "deleted"
    BY <1>2, <1>3, <1>7 DEF DowngradeToFree
  <2> HIDE DEF v
  <2>3. v.plan = PlanAt(n)
    BY <2>1, <2>2 DEF PlanAt
  <2> QED
    BY <1>1, <1>2, <1>3, <1>5, <2>1, <2>2, <2>3, ApplyKeeps
<1> QED
  BY <1>6, <1>7

\* A statement fails; an event whose statement failed is answered all the same.
LEMMA FailKeeps ==
    ASSUME OrgInv, NEW h \in Handler, Fail(h)
    PROVE  OrgInv'
<1>1. /\ WorkOK(h) /\ OrgTypeOK
      /\ UNCHANGED <<org, member, pending, customer, offer, sub, event, latest>>
  BY DEF OrgInv, Fail, orgVars
<1>2. CASE worker[h].event = 0
  <2>1. Finish(h) /\ UNCHANGED <<due, mishap>>
    BY <1>2 DEF Fail
  <2> QED
    BY <1>1, <2>1, FinishFacts, LocalKeeps
<1>3. CASE worker[h].event # 0
  <2>1. Answer(h) /\ mishap' = mishap \cup {customer[event[worker[h].event].cust]}
    BY <1>3 DEF Fail
  <2>2. worker[h].event \in DOMAIN event
    BY <1>1, <1>3 DEF WorkOK
  <2>3. customer[event[worker[h].event].cust] \in OrgId
    BY <1>1, <2>2, Numbered DEF OrgInv, CustomersOK, Known
  <2>4. mishap' \subseteq OrgId
    BY <1>1, <2>1, <2>3 DEF OrgTypeOK
  <2> QED
    BY <1>1, <2>1, <2>2, <2>4, AnswerKeeps
<1> QED
  BY <1>2, <1>3

-----------------------------------------------------------------------------
(* Stripe                                                                  *)

\* A new event is the newest about its organisation, and due.
LEMMA EmitKeeps ==
    ASSUME OrgInv, NEW e \in EventRow, NEW o \in OrgId, o = customer[e.cust], Known(e.cust),
           e.kind = "checkout" => e.org = o,
           event' = Append(event, e), due' = due \cup {Len(event) + 1},
           UNCHANGED <<org, member, pending, worker, customer, latest>>,
           offer' \subseteq offer, sub' \in [Sub -> SubRow],
           \A s \in Sub : sub'[s].state = "active" =>
             sub'[s].cust \in Customer /\ Known(sub'[s].cust),
           mishap \subseteq mishap', mishap' \subseteq OrgId,
           \A p \in OrgId \ {o} : Live(p)' = Live(p) /\ \A s \in Live(p) : sub'[s] = sub[s],
           o \notin mishap' =>
             IF e.kind = "deleted" THEN Live(o)' = {}
             ELSE Live(o)' = {e.sub} /\ sub'[e.sub].price = e.price
    PROVE  OrgInv'
<1> DEFINE new == Len(event) + 1
<1>1. /\ event' \in Seq(EventRow) /\ DOMAIN event' = DOMAIN event \cup {new}
      /\ \A n \in DOMAIN event : event'[n] = event[n] /\ n < new
      /\ event'[new] = e /\ new \notin DOMAIN event /\ new \in Nat /\ new # 0
  <2>1. event \in Seq(EventRow)
    BY DEF OrgInv, OrgTypeOK
  <2>2. /\ event' \in Seq(EventRow) /\ Len(event') = Len(event) + 1
        /\ \A n \in 1..Len(event) : event'[n] = event[n]
        /\ event'[Len(event) + 1] = e
    BY <2>1, AppendProperties
  <2>3. DOMAIN event = 1..Len(event) /\ DOMAIN event' = 1..Len(event') /\ Len(event) \in Nat
    BY <2>1, <2>2
  <2> QED
    BY <2>2, <2>3
<1>2. due' = due \cup {new}
  OBVIOUS
<1> HIDE DEF new
<1>3. Grows
  BY <1>1 DEF Grows
<1>4. OrgTypeOK'
  BY <1>1, <1>2 DEF OrgInv, OrgTypeOK
<1>5. \A h \in Handler : WorkOK(h)'
  BY <1>3, WorkStays
<1>6. \A p \in OrgId : CountOK(p)'
  BY DEF OrgInv, CountOK, Inserting
<1>7. CustomersOK'
  <2>1. \A c : Known(c)' <=> Known(c)
    BY DEF Known
  <2>2. \A n \in DOMAIN event' :
          /\ Known(event'[n].cust)
          /\ event'[n].kind = "checkout" => customer[event'[n].cust] = event'[n].org
    BY <1>1 DEF OrgInv, CustomersOK
  <2> QED
    BY <2>2 DEF OrgInv, CustomersOK, Known
<1>8. PlanWasPaid'
  BY <1>3, PaidStays
<1>9. ASSUME NEW p \in OrgId \ mishap' PROVE AtStripe(p)' /\ AsTold(p)'
  <2>1. AtStripe(p) /\ AsTold(p)
    BY DEF OrgInv
  <2>2. \A n \in About(p) : n < new /\ event'[n] = event[n]
    BY <1>1 DEF About
  <2>3. About(p)' = IF p = o THEN About(p) \cup {new} ELSE About(p)
    BY <1>1 DEF About
  <2>4. \A n \in About(p)' : n <= latest[p] \/ n \in due'
    BY <1>2, <2>1, <2>3 DEF AsTold
  <2>5. latest[p] \in About(p)' \cup {0} /\ PlanAt(latest[p])' = PlanAt(latest[p])
    <3>1. latest[p] \in About(p) \cup {0}
      BY <2>1 DEF AsTold
    <3>2. latest[p] # 0 => event'[latest[p]] = event[latest[p]]
      BY <2>2, <3>1
    <3> QED
      BY <2>3, <3>1, <3>2 DEF PlanAt
  <2>6. AsTold(p)'
    BY <2>1, <2>4, <2>5 DEF AsTold
  <2>7. \A c, d \in Customer : customer'[c] = p /\ customer'[d] = p => c = d
    BY <2>1 DEF AtStripe
  <2>8. CASE p = o
    <3>1. IF e.kind = "deleted" THEN Live(p)' = {}
          ELSE Live(p)' = {e.sub} /\ sub'[e.sub].price = e.price
      BY <2>8
    <3>2. \A m \in About(p)' : (\A n \in About(p)' : n <= m) => m = new
      <4> SUFFICES ASSUME NEW m \in About(p)', \A n \in About(p)' : n <= m PROVE m = new
        OBVIOUS
      <4>1. new <= m /\ (m = new \/ m \in About(p))
        BY <2>3, <2>8
      <4>2. m \in About(p) => m < new /\ m \in Nat
        BY <2>2, Numbered DEF About, OrgInv
      <4> QED
        BY <1>1, <4>1, <4>2
    <3>3. \A m \in About(p)' : (\A n \in About(p)' : n <= m) => event'[m] = e
      BY <1>1, <3>2
    <3>4. About(p)' # {}
      BY <2>3, <2>8
    <3>5. \A s, t \in Live(p)' : s = t
      BY <3>1
    <3>6. \A m \in About(p)' : (\A n \in About(p)' : n <= m) =>
            IF event'[m].kind = "deleted" THEN Live(p)' = {}
            ELSE event'[m].sub \in Live(p)' /\ sub'[event'[m].sub].price = event'[m].price
      BY <3>1, <3>3
    <3> QED
      BY <2>6, <2>7, <3>4, <3>5, <3>6 DEF AtStripe
  <2>9. CASE p # o
    <3>1. About(p)' = About(p) /\ Live(p)' = Live(p) /\ \A s \in Live(p) : sub'[s] = sub[s]
      BY <2>3, <2>9
    <3>2. /\ \A s, t \in Live(p)' : s = t
          /\ About(p)' = {} => Live(p)' = {}
      BY <2>1, <3>1 DEF AtStripe
    <3>3. ASSUME NEW m \in About(p)', \A n \in About(p)' : n <= m
          PROVE  IF event'[m].kind = "deleted" THEN Live(p)' = {}
                 ELSE event'[m].sub \in Live(p)' /\ sub'[event'[m].sub].price = event'[m].price
      <4>1. m \in About(p) /\ (\A n \in About(p) : n <= m) /\ event'[m] = event[m]
        BY <2>2, <3>1, <3>3
      <4>2. IF event[m].kind = "deleted" THEN Live(p) = {}
            ELSE event[m].sub \in Live(p) /\ sub[event[m].sub].price = event[m].price
        BY <2>1, <4>1 DEF AtStripe
      <4> QED
        BY <3>1, <4>1, <4>2
    <3>4. AtStripe(p)'
      BY <2>7, <3>2, <3>3 DEF AtStripe
    <3> QED
      BY <2>6, <3>4
  <2> QED
    BY <2>8, <2>9
<1> QED
  BY <1>4, <1>5, <1>6, <1>7, <1>8, <1>9 DEF OrgInv

\* The three events Stripe sends, each after what it tells of.
LEMMA StripeKeeps ==
    ASSUME OrgInv, Stripe
    PROVE  OrgInv'
<1>1. ASSUME NEW f \in offer, NEW s \in Sub, CompleteCheckout(f, s)
      PROVE  OrgInv'
  <2>1. /\ f \in [org : OrgId, cust : Customer, price : Price]
        /\ Known(f.cust) /\ customer[f.cust] = f.org
    BY DEF OrgInv, OrgTypeOK, CustomersOK
  <2>2. PICK o \in OrgId : o = f.org
    BY <2>1
  <2> DEFINE e == [kind |-> "checkout", org |-> f.org, cust |-> f.cust, sub |-> s,
                   price |-> f.price]
             v == [state |-> "active", cust |-> f.cust, price |-> f.price]
  <2>3. /\ e \in EventRow /\ e.kind = "checkout" /\ e.org = o /\ e.cust = f.cust /\ e.sub = s
        /\ e.price = f.price
    BY <2>1, <2>2 DEF EventRow
  <2>4. v \in SubRow /\ v.state = "active" /\ v.cust = f.cust /\ v.price = f.price
    BY <2>1 DEF SubRow
  <2>5. /\ event' = Append(event, e) /\ due' = due \cup {Len(event) + 1}
        /\ sub' = [sub EXCEPT ![s] = v] /\ sub[s].state = "none" /\ offer' \subseteq offer
        /\ UNCHANGED <<org, member, pending, worker, customer, latest>>
        /\ mishap' = (IF Live(o) # {} THEN mishap \cup {o} ELSE mishap)
    BY <1>1, <2>2 DEF CompleteCheckout, Emit, orgVars
  <2> HIDE DEF e, v
  <2>6. /\ sub' \in [Sub -> SubRow] /\ sub'[s] = v
        /\ \A t \in Sub \ {s} : sub'[t] = sub[t]
    BY <2>4, <2>5 DEF OrgInv, OrgTypeOK
  <2>7. \A t \in Sub : sub'[t].state = "active" => sub'[t].cust \in Customer /\ Known(sub'[t].cust)
    BY <2>1, <2>4, <2>6 DEF OrgInv, CustomersOK
  <2>8. mishap \subseteq mishap' /\ mishap' \subseteq OrgId
    BY <2>5 DEF OrgInv, OrgTypeOK
  <2>9. \A p \in OrgId \ {o} : Live(p)' = Live(p) /\ \A t \in Live(p) : sub'[t] = sub[t]
    BY <2>1, <2>2, <2>4, <2>5, <2>6 DEF Live
  <2>10. o \notin mishap' => Live(o)' = {s} /\ sub'[s].price = f.price
    BY <2>1, <2>2, <2>4, <2>5, <2>6 DEF Live
  <2> QED
    BY <2>1, <2>2, <2>3, <2>5, <2>6, <2>7, <2>8, <2>9, <2>10, EmitKeeps
<1>2. ASSUME NEW s \in Sub, NEW v \in SubRow, NEW kind \in {"updated", "deleted"},
             sub[s].state = "active", v.cust = sub[s].cust,
             v.state = (IF kind = "deleted" THEN "ended" ELSE "active"),
             sub' = [sub EXCEPT ![s] = v], Emit(kind, 0, sub[s].cust, s, v.price),
             UNCHANGED <<org, member, pending, worker, customer, offer, latest, mishap>>
      PROVE  OrgInv'
  <2>1. PICK c \in Customer : c = sub[s].cust /\ Known(c)
    BY <1>2 DEF OrgInv, CustomersOK
  <2>2. PICK o \in OrgId : o = customer[c]
    BY <2>1, Numbered DEF Known, OrgInv
  <2> DEFINE e == [kind |-> kind, org |-> 0, cust |-> c, sub |-> s, price |-> v.price]
  <2>3. /\ e \in EventRow /\ e.kind = kind /\ e.cust = c /\ e.sub = s /\ e.price = v.price
    BY DEF EventRow, SubRow
  <2>4. event' = Append(event, e) /\ due' = due \cup {Len(event) + 1}
    BY <1>2, <2>1 DEF Emit
  <2> HIDE DEF e
  <2>5. /\ sub' \in [Sub -> SubRow] /\ sub'[s] = v
        /\ \A t \in Sub \ {s} : sub'[t] = sub[t]
    BY <1>2 DEF OrgInv, OrgTypeOK
  <2>6. \A t \in Sub : sub'[t].state = "active" => sub'[t].cust \in Customer /\ Known(sub'[t].cust)
    BY <1>2, <2>1, <2>5 DEF OrgInv, CustomersOK
  <2>7. mishap \subseteq mishap' /\ mishap' \subseteq OrgId
    BY <1>2 DEF OrgInv, OrgTypeOK
  <2>8. \A p \in OrgId \ {o} : Live(p)' = Live(p) /\ \A t \in Live(p) : sub'[t] = sub[t]
    BY <1>2, <2>1, <2>2, <2>5 DEF Live
  <2>9. o \notin mishap' => Live(o) = {s}
    <3> SUFFICES ASSUME o \notin mishap PROVE Live(o) = {s}
      BY <1>2
    <3>1. s \in Live(o) /\ \A t \in Live(o) : t = s
      BY <1>2, <2>1, <2>2 DEF OrgInv, AtStripe, Live
    <3> QED
      BY <3>1
  <2>10. o \notin mishap' =>
           IF kind = "deleted" THEN Live(o)' = {} ELSE Live(o)' = {s} /\ sub'[s].price = v.price
    <3> SUFFICES ASSUME o \notin mishap'
                 PROVE  IF kind = "deleted" THEN Live(o)' = {}
                        ELSE Live(o)' = {s} /\ sub'[s].price = v.price
      OBVIOUS
    <3>1. \A t \in Sub \ {s} : t \notin Live(o)'
      BY <1>2, <2>5, <2>9 DEF Live
    <3>2. s \in Live(o)' <=> kind # "deleted"
      BY <1>2, <2>1, <2>2, <2>5 DEF Live
    <3>3. Live(o)' \subseteq Sub
      BY DEF Live
    <3>4. sub'[s] = v
      BY <2>5
    <3>5. IF kind = "deleted" THEN Live(o)' = {} ELSE Live(o)' = {s}
      BY <3>1, <3>2, <3>3
    <3>6. sub'[s].price = v.price
      BY <3>4
    <3>7. CASE kind = "deleted"
      BY <3>5, <3>7
    <3>8. CASE kind # "deleted"
      BY <3>5, <3>6, <3>8
    <3> QED
      BY <3>7, <3>8
  <2>11. o \notin mishap' =>
           IF e.kind = "deleted" THEN Live(o)' = {}
           ELSE Live(o)' = {e.sub} /\ sub'[e.sub].price = e.price
    BY <2>3, <2>10
  <2>12. e.kind = "checkout" => e.org = o
    BY <2>3
  <2>13. /\ UNCHANGED <<org, member, pending, worker, customer, latest>>
         /\ offer' \subseteq offer
         /\ o = customer[e.cust] /\ Known(e.cust)
    BY <1>2, <2>1, <2>2, <2>3
  <2> QED
    BY <2>3, <2>4, <2>5, <2>6, <2>7, <2>8, <2>11, <2>12, <2>13, EmitKeeps
<1>3. ASSUME NEW s \in Sub, NEW price \in Price, ChangePrice(s, price)
      PROVE  OrgInv'
  <2> DEFINE v == [sub[s] EXCEPT !.price = price]
  <2>1. sub[s] \in SubRow /\ sub[s].state = "active"
    BY <1>3 DEF OrgInv, OrgTypeOK, ChangePrice
  <2>2. v \in SubRow /\ v.cust = sub[s].cust /\ v.state = "active" /\ v.price = price
    BY <2>1 DEF SubRow
  <2>3. /\ sub' = [sub EXCEPT ![s] = v] /\ Emit("updated", 0, sub[s].cust, s, price)
        /\ UNCHANGED <<org, member, pending, worker, customer, offer, latest, mishap>>
    BY <1>3 DEF ChangePrice, orgVars
  <2> HIDE DEF v
  <2>4. Emit("updated", 0, sub[s].cust, s, v.price)
    BY <2>2, <2>3
  <2> QED
    BY <1>2, <2>1, <2>2, <2>3, <2>4
<1>4. ASSUME NEW s \in Sub, EndSubscription(s)
      PROVE  OrgInv'
  <2> DEFINE v == [sub[s] EXCEPT !.state = "ended"]
  <2>1. sub[s] \in SubRow /\ sub[s].state = "active"
    BY <1>4 DEF OrgInv, OrgTypeOK, EndSubscription
  <2>2. v \in SubRow /\ v.cust = sub[s].cust /\ v.state = "ended" /\ v.price = sub[s].price
    BY <2>1 DEF SubRow
  <2>3. /\ sub' = [sub EXCEPT ![s] = v] /\ Emit("deleted", 0, sub[s].cust, s, sub[s].price)
        /\ UNCHANGED <<org, member, pending, worker, customer, offer, latest, mishap>>
    BY <1>4 DEF EndSubscription, orgVars
  <2> HIDE DEF v
  <2>4. Emit("deleted", 0, sub[s].cust, s, v.price)
    BY <2>2, <2>3
  <2> QED
    BY <1>2, <2>1, <2>2, <2>3, <2>4
<1> QED
  BY <1>1, <1>3, <1>4 DEF Stripe

-----------------------------------------------------------------------------
(* Organisations, members, crashes                                         *)

\* A new organisation is free, and unknown to Stripe.
LEMMA CreateOrgKeeps ==
    ASSUME OrgInv, NEW u \in User, CreateOrg(u)
    PROVE  OrgInv'
<1> DEFINE new == Len(org) + 1
           v == [NoOrg EXCEPT !.owner = u]
<1>1. v \in OrgRow /\ v.cust = None /\ v.plan = "free"
  BY DEF NoOrg, OrgRow, Plan
<1>2. /\ org' = Append(org, v) /\ new <= MaxOrgs
      /\ member' = [member EXCEPT ![new][u] = "owner"]
      /\ UNCHANGED <<pending, worker, customer, offer, sub, event, due, latest, mishap>>
  BY DEF CreateOrg, stripe
<1> HIDE DEF v
<1>3. /\ org' \in Seq(OrgRow) /\ Len(org') <= MaxOrgs /\ DOMAIN org' = DOMAIN org \cup {new}
      /\ \A o \in DOMAIN org : org'[o] = org[o]
      /\ org'[new] = v /\ new \notin DOMAIN org /\ new \in OrgId
  <2>1. org \in Seq(OrgRow)
    BY DEF OrgInv, OrgTypeOK
  <2>2. /\ org' \in Seq(OrgRow) /\ Len(org') = Len(org) + 1
        /\ \A o \in 1..Len(org) : org'[o] = org[o]
        /\ org'[Len(org) + 1] = v
    BY <1>1, <1>2, <2>1, AppendProperties
  <2>3. DOMAIN org = 1..Len(org) /\ DOMAIN org' = 1..Len(org') /\ Len(org) \in Nat
    BY <2>1, <2>2
  <2> QED
    BY <1>2, <2>2, <2>3, OrgAssumption DEF OrgId
<1> HIDE DEF new
<1>4. member' \in [OrgId -> [User -> Offered \cup {"owner", "none"}]]
  <2>1. member \in [OrgId -> [User -> Offered \cup {"owner", "none"}]]
    BY DEF OrgInv, OrgTypeOK
  <2>2. member' = [member EXCEPT ![new] = [member[new] EXCEPT ![u] = "owner"]]
    BY <1>2
  <2>3. [member[new] EXCEPT ![u] = "owner"] \in [User -> Offered \cup {"owner", "none"}]
    BY <1>3, <2>1
  <2> QED
    BY <2>1, <2>2, <2>3
<1>5. Grows
  BY <1>2, <1>3 DEF Grows
<1>6. OrgTypeOK'
  BY <1>2, <1>3, <1>4 DEF OrgInv, OrgTypeOK
<1>7. \A h \in Handler : WorkOK(h)'
  BY <1>2, <1>5, WorkStays
<1>8. \A o \in OrgId : CountOK(o)'
  BY <1>2 DEF OrgInv, CountOK, Inserting
<1>9. CustomersOK'
  <2>1. \A c \in Customer : Known(c) => Known(c)'
    BY <1>5, StaysKnown DEF OrgInv
  <2>2. /\ \A f \in offer : f.cust \in Customer
        /\ \A n \in DOMAIN event : event[n].cust \in Customer
    BY Numbered DEF OrgInv, OrgTypeOK, EventRow
  <2>3. \A o \in DOMAIN org' : org'[o].cust # None => customer[org'[o].cust] = o
    BY <1>1, <1>3 DEF OrgInv, CustomersOK
  <2> QED
    BY <1>2, <1>3, <2>1, <2>2, <2>3 DEF OrgInv, CustomersOK
<1>10. PlanWasPaid'
  BY <1>1, <1>3, <1>5, PaidStays
<1>11. ASSUME NEW o \in OrgId \ mishap' PROVE AtStripe(o)' /\ AsTold(o)'
  <2>1. AtStripe(o) /\ AsTold(o) /\ About(o)' = About(o) /\ Live(o)' = Live(o)
    BY <1>2, <1>5, AboutStays DEF OrgInv
  <2>2. AtStripe(o)'
    BY <1>2, <2>1 DEF AtStripe
  <2>3. \A n : PlanAt(n)' = PlanAt(n)
    BY <1>2 DEF PlanAt
  <2>4. o \in DOMAIN org' => org'[o].plan = PlanAt(latest[o])
    <3>1. CASE o \in DOMAIN org
      BY <1>3, <2>1, <3>1 DEF AsTold
    <3>2. CASE o \in DOMAIN org' /\ o \notin DOMAIN org
      <4>1. About(o) = {}
        BY <3>2 DEF OrgInv, CustomersOK, Known, About
      <4>2. latest[o] = 0
        BY <2>1, <4>1 DEF AsTold
      <4> QED
        BY <1>1, <1>3, <3>2, <4>2 DEF PlanAt
    <3> QED
      BY <3>1, <3>2
  <2> QED
    BY <1>2, <2>1, <2>2, <2>3, <2>4 DEF AsTold
<1> QED
  BY <1>6, <1>7, <1>8, <1>9, <1>10, <1>11 DEF OrgInv

\* Members come; the server stops and every handler with it.
LEMMA RestKeeps ==
    ASSUME OrgInv,
           \/ \E o \in OrgId, u \in User, r \in Offered : AddMember(o, u, r)
           \/ Crash
           \/ UNCHANGED vars
    PROVE  OrgInv'
<1>1. UNCHANGED <<org, pending, customer, offer, sub, event, due, latest, mishap>>
  BY DEF AddMember, Crash, vars, orgVars, stripe
<1>2. CustomersOK' /\ Grows /\ PlanWasPaid' /\ \A o \in OrgId \ mishap' : AtStripe(o)' /\ AsTold(o)'
  BY <1>1, CustomersStay, PlansStay
<1>3. CASE Crash
  <2>1. worker' = [h \in Handler |-> Idle] /\ UNCHANGED member
    BY <1>3 DEF Crash, orgVars
  <2>2. worker' \in [Handler -> Work]
    BY <2>1, WorkType
  <2>3. \A h \in Handler : WorkOK(h)'
    BY <2>1 DEF WorkOK, Idle
  <2>4. ASSUME NEW o \in OrgId PROVE CountOK(o)'
    <3>1. Inserting(o)' = {}
      BY <2>1 DEF Inserting, Idle
    <3>2. IsFiniteSet(Inserting(o)) /\ IsFiniteSet(pending[o])
      BY FS_Subset, OrgAssumption DEF Inserting, OrgInv, OrgTypeOK
    <3>3. /\ Cardinality(Inserting(o)) \in Nat /\ Cardinality(pending[o]) \in Nat
          /\ Cardinality(Handler) \in Nat /\ Cardinality(Inserting(o)') = 0
      BY <3>1, <3>2, FS_CardinalityType, FS_EmptySet, OrgAssumption
    <3>4. CountOK(o)
      BY DEF OrgInv
    <3> QED
      BY <1>1, <3>3, <3>4, OrgAssumption DEF CountOK
  <2>5. OrgTypeOK'
    BY <1>1, <2>1, <2>2 DEF OrgInv, OrgTypeOK
  <2> QED
    BY <1>2, <2>3, <2>4, <2>5 DEF OrgInv
<1>4. CASE ~Crash
  <2>1. UNCHANGED worker
    BY <1>4 DEF AddMember, vars
  <2>2. member' \in [OrgId -> [User -> Offered \cup {"owner", "none"}]]
    <3>1. member \in [OrgId -> [User -> Offered \cup {"owner", "none"}]]
      BY DEF OrgInv, OrgTypeOK
    <3>2. CASE UNCHANGED vars
      BY <3>1, <3>2 DEF vars, orgVars
    <3>3. ASSUME NEW o \in OrgId, NEW u \in User, NEW r \in Offered, AddMember(o, u, r)
          PROVE  <2>2
      <4>1. member' = [member EXCEPT ![o] = [member[o] EXCEPT ![u] = r]]
        BY <3>3 DEF AddMember
      <4>2. [member[o] EXCEPT ![u] = r] \in [User -> Offered \cup {"owner", "none"}]
        BY <3>1
      <4> QED
        BY <3>1, <4>1, <4>2
    <3> QED
      BY <1>4, <3>2, <3>3
  <2>3. OrgTypeOK'
    BY <1>1, <2>1, <2>2 DEF OrgInv, OrgTypeOK
  <2>4. \A h \in Handler : WorkOK(h)'
    BY <1>2, <2>1, WorkStays
  <2>5. \A o \in OrgId : CountOK(o)'
    BY <1>1, <2>1 DEF OrgInv, CountOK, Inserting
  <2> QED
    BY <1>2, <2>3, <2>4, <2>5 DEF OrgInv
<1> QED
  BY <1>3, <1>4

-----------------------------------------------------------------------------
(* The theorems                                                            *)

\* No organisations, nobody invited, nothing sold.
LEMMA InitOrgs ==
    ASSUME Init
    PROVE  OrgInv
<1>1. OrgTypeOK
  <2>1. <<>> \in Seq(OrgRow) /\ Len(<<>>) = 0 /\ <<>> \in Seq(EventRow) /\ DOMAIN <<>> = {}
    OBVIOUS
  <2>2. NoSub \in SubRow
    BY DEF NoSub, SubRow, Price
  <2>3. Idle \in Work
    BY WorkType
  <2> QED
    BY <2>1, <2>2, <2>3, OrgAssumption DEF Init, OrgTypeOK
<1>2. DOMAIN org = {} /\ DOMAIN event = {}
  BY DEF Init
<1>3. CustomersOK /\ PlanWasPaid
  BY <1>2 DEF Init, CustomersOK, PlanWasPaid, NoSub
<1>4. \A h \in Handler : WorkOK(h)
  BY DEF Init, WorkOK, Idle
<1>5. ASSUME NEW o \in OrgId PROVE CountOK(o)
  <2>1. pending[o] = {} /\ Inserting(o) = {}
    BY <1>5 DEF Init, Inserting, Idle
  <2>2. Cardinality(Handler) \in Nat
    BY FS_CardinalityType, OrgAssumption
  <2> QED
    BY <2>1, <2>2, FS_EmptySet, OrgAssumption DEF CountOK
<1>6. ASSUME NEW o \in OrgId PROVE AtStripe(o) /\ AsTold(o)
  <2>1. About(o) = {} /\ Live(o) = {} /\ latest[o] = 0
    BY <1>2, <1>6 DEF Init, About, Live, NoSub
  <2>2. o # 0
    BY <1>1, <1>6, Numbered
  <2> QED
    BY <1>2, <2>1, <2>2 DEF Init, AtStripe, AsTold
<1> QED
  BY <1>1, <1>3, <1>4, <1>5, <1>6 DEF OrgInv

\* Every step of the server and of Stripe keeps the invariant.
LEMMA NextOrgs ==
    ASSUME OrgInv, [Next]_vars
    PROVE  OrgInv'
<1>1. ASSUME NEW h \in Handler, Checkout(h) PROVE OrgInv'
  BY <1>1, ReadCustomerKeeps, NewCustomerKeeps, SaveCustomerKeeps, NewSessionKeeps DEF Checkout
<1>2. ASSUME NEW h \in Handler, Webhook(h) PROVE OrgInv'
  BY <1>2, FindKeeps, WebhookKeeps DEF Webhook
<1>3. ASSUME NEW h \in Handler, Arrive(h) \/ Invite(h) \/ Fail(h) PROVE OrgInv'
  BY <1>3, ArriveKeeps, InviteKeeps, FailKeeps
<1> QED
  BY <1>1, <1>2, <1>3, CreateOrgKeeps, StripeKeeps, RestKeeps DEF Next

\* The invariant of organisations, their plans and their invitations.
THEOREM OrgInvariance == Spec => []OrgInv
<1>1. Init => OrgInv
  BY InitOrgs
<1>2. OrgInv /\ [Next]_vars => OrgInv'
  BY NextOrgs
<1> QED
  BY <1>1, <1>2, PTL DEF Spec

\* Every row is well typed.
THEOREM OrgTypeCorrect == Spec => []OrgTypeOK
<1>1. OrgInv => OrgTypeOK
  BY DEF OrgInv
<1> QED
  BY <1>1, OrgInvariance, PTL

\* Whatever is lost, doubled, reordered or cut off, handleCheckoutCompleted and
\* handleSubscriptionUpdated give an organisation no plan but one that a subscription
\* of its own once had.
THEOREM PlansWerePaid == Spec => []PlanWasPaid
<1>1. OrgInv => PlanWasPaid
  BY DEF OrgInv
<1> QED
  BY <1>1, OrgInvariance, PTL

\* When the events of an organisation without a mishap are answered, its row has the
\* plan of the one subscription it pays for, or is free.
THEOREM PlansAreStripes == Spec => []PlanIsStripes
<1>1. OrgInv => PlanIsStripes
  <2> SUFFICES ASSUME OrgInv, NEW o \in DOMAIN org, o \notin mishap, Settled(o)
               PROVE  org[o].plan = StripesPlan(o)
    BY DEF PlanIsStripes
  <2>1. AtStripe(o) /\ AsTold(o) /\ o \in OrgId
    BY Numbered DEF OrgInv
  <2>2. \A n \in About(o) : n \notin due
    BY DEF Settled, About
  <2>3. \A n \in About(o) : n <= latest[o] /\ n \in Nat /\ n # 0 /\ event[n] \in EventRow
    BY <2>1, <2>2, Numbered DEF AsTold, About, OrgInv
  <2>4. CASE latest[o] = 0
    <3>1. About(o) = {}
      <4> SUFFICES ASSUME NEW n \in About(o) PROVE FALSE
        OBVIOUS
      <4> QED
        BY <2>3, <2>4
    <3>2. Live(o) = {}
      BY <2>1, <3>1 DEF AtStripe
    <3> QED
      BY <2>1, <2>4, <3>2 DEF AsTold, PlanAt, StripesPlan
  <2>5. CASE latest[o] # 0
    <3>1. PICK m \in About(o) : m = latest[o]
      BY <2>1, <2>5 DEF AsTold
    <3>2. IF event[m].kind = "deleted" THEN Live(o) = {}
          ELSE event[m].sub \in Live(o) /\ sub[event[m].sub].price = event[m].price
      BY <2>1, <2>3, <3>1 DEF AtStripe
    <3>3. org[o].plan = PlanAt(m)
      BY <2>1, <3>1 DEF AsTold
    <3>4. CASE event[m].kind = "deleted"
      BY <3>2, <3>3, <3>4 DEF PlanAt, StripesPlan
    <3>5. CASE event[m].kind # "deleted"
      <4>1. Live(o) = {event[m].sub}
        BY <2>1, <3>2, <3>5 DEF AtStripe
      <4>2. (CHOOSE s \in Live(o) : TRUE) = event[m].sub
        BY <4>1
      <4> QED
        BY <2>5, <3>1, <3>2, <3>3, <3>5, <4>1, <4>2 DEF PlanAt, StripesPlan
    <3> QED
      BY <3>4, <3>5
  <2> QED
    BY <2>4, <2>5
<1> QED
  BY <1>1, OrgInvariance, PTL

\* createInvitation counts before it inserts: handlers that count together exceed the
\* limit by one each, but for the first.
THEOREM InvitationsFew == Spec => []FewPending
<1>1. OrgInv => FewPending
  <2> SUFFICES ASSUME OrgInv, NEW o \in OrgId
               PROVE  Cardinality(pending[o]) < MaxPending + Cardinality(Handler)
    BY DEF FewPending
  <2>1. IsFiniteSet(Inserting(o)) /\ IsFiniteSet(pending[o])
    BY FS_Subset, OrgAssumption DEF Inserting, OrgInv, OrgTypeOK
  <2>2. /\ Cardinality(Inserting(o)) \in Nat /\ Cardinality(pending[o]) \in Nat
        /\ Cardinality(Handler) \in Nat
    BY <2>1, FS_CardinalityType, OrgAssumption
  <2> QED
    BY <2>2, OrgAssumption DEF OrgInv, CountOK
<1> QED
  BY <1>1, OrgInvariance, PTL
=============================================================================
