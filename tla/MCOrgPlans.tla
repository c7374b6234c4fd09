------------------------------ MODULE MCOrgPlans ------------------------------
(***************************************************************************)
(* A small instance of organisations and billing for TLC.                  *)
(***************************************************************************)
EXTENDS OrgPlansProps, TLC

CONSTANTS h1, h2, c1, c2, s1, s2, u1, u2, u3, u4

Symmetry == Permutations(Handler) \cup Permutations(Customer)
              \cup Permutations(Sub)

Inviting ==
    \/ \E o \in OrgId : pending[o] # {}
    \/ \E h \in Handler : worker[h].pc \in {"invite", "count", "insertInvitation"}
Billing ==
    \/ \E c \in Customer : customer[c] # 0
    \/ \E h \in Handler : worker[h].pc \in {"customer", "newCustomer"}
Joined == \E o \in OrgId : \E u \in User : member[o][u] \notin {"none", "owner"}

\* Invitations and billing share nothing but the organisation, so a behaviour
\* has one or the other, and users are told apart by the order in which they
\* create organisations.  Team is the plan that is bought; prices change
\* afterwards.  Two organisations have fewer events between them.
Focus ==
    /\ ~((Inviting \/ Joined) /\ Billing)
    /\ Inviting \/ Joined => Len(org) <= 1
    /\ Len(org) >= 1 => org[1].owner = u1
    /\ Len(org) >= 2 => org[2].owner \in {u1, u2} /\ Len(event) + 1 < MaxEvents
    /\ \A h \in Handler : worker[h].plan # "pro"
    /\ Cardinality(offer) <= 1
=============================================================================
