---------------------------- MODULE DynLeasesProps ----------------------------
(***************************************************************************)
(* What a lease promises: a role that works while the lease does, and no   *)
(* longer.                                                                 *)
(***************************************************************************)
EXTENDS DynLeases

RoleState == [state: {"none", "live", "dropped"}, until: Nat, granted: BOOLEAN]
LeaseRow == [state: {"none", "live", "revoked"}, provider: Provider \cup {None},
             role: Role \cup {None}, expires: Nat]
Local == [pc: {"idle", "create", "grant", "cleanup", "insert", "read", "mark", "drop"},
          provider: Provider \cup {None}, role: Role \cup {None},
          lease: Lease \cup {None}, ttl: 0..MaxTTL, expires: Nat]

\* Rows, roles and locals are well typed.
LeaseTypeOK ==
    /\ now \in Time /\ skew \in [own: Skew, provider: Skew]
    /\ member \in [User -> Offered \cup {"owner"}]
    /\ provider \in [Provider -> {"none", "postgres", "other"}]
    /\ dbrole \in [Role -> RoleState]
    /\ lease \in [Lease -> LeaseRow]
    /\ worker \in [Handler -> Local]
    /\ lost \subseteq Role

\* PostgreSQL lets the role in.
CanLogIn(b) == dbrole[b].state = "live" /\ ProviderClock < dbrole[b].until

\* A lease that was not revoked has a role of its own that logs in until less than a
\* second before the lease is over, by the provider's clock, and not afterwards: no
\* revocation, cut off where it may be, takes the role and leaves the lease.
LeaseWorks ==
    \A l \in Lease :
        lease[l].state = "live" =>
            /\ ProviderClock + Second <= lease[l].expires => CanLogIn(lease[l].role)
            /\ CanLogIn(lease[l].role) => ProviderClock < lease[l].expires
            /\ \A k \in Lease \ {l} : lease[k].role # lease[l].role

\* A role that logs in is accounted for: by a live lease, by the handler that is
\* making or dropping it, as one lost to a failure, as one that PostgreSQL refused to
\* drop when its lease was revoked by hand, or as one whose lease is over by the clock
\* of the own database.  The expiry worker leaves none behind but for the last reason,
\* which is none where that clock is not ahead of the provider's.
Accounted(b) ==
    \/ \E l \in Lease : lease[l].role = b /\ lease[l].state = "live"
    \/ \E h \in Handler : b \in Holds(h) \/ (worker[h].pc = "drop" /\ worker[h].role = b)
    \/ b \in lost
    \/ \E l \in Lease : lease[l].role = b /\ (dbrole[b].granted \/ lease[l].expires < OwnClock)

LoginAccounted == \A b \in Role : CanLogIn(b) => Accounted(b)

\* Leases and logins stand for each other, as far as two databases allow.
LeasesAreLogins == LeaseWorks /\ LoginAccounted

\* Every lease is marked revoked, and every role stops logging in, in the end: also a
\* role that no lease knows or that nobody could drop.
LeasesEnd ==
    /\ \A l \in Lease : lease[l].state = "live" ~> lease[l].state = "revoked"
    /\ \A b \in Role : CanLogIn(b) ~> ~CanLogIn(b)

-----------------------------------------------------------------------------
(* Why they hold: an inductive invariant                                   *)

\* A role that a handler has made is live, and nobody else's.  One that revokes has
\* a lease that was made; when it comes to drop the role, the lease is marked.
HandlerOK(h) ==
    LET w == worker[h] IN
    /\ w.pc \in {"grant", "cleanup", "insert"} =>
         /\ w.role \in Role
         /\ dbrole[w.role].state = "live" /\ dbrole[w.role].until = Until(w.expires)
         /\ w.pc # "insert" => ~dbrole[w.role].granted
         /\ \A l \in Lease : lease[l].role # w.role
         /\ \A g \in Handler \ {h} : w.role \notin Holds(g)
    /\ w.pc \in {"read", "mark", "drop"} => w.lease \in Lease /\ lease[w.lease].state # "none"
    /\ w.pc \in {"mark", "drop"} => w.role = lease[w.lease].role
    /\ w.pc = "drop" => lease[w.lease].state = "revoked"

\* A lease has a role of its own, which ends in the second in which the lease ends and
\* is not dropped before the lease is marked.
LeaseOK(l) ==
    /\ lease[l].state = "none" <=> lease[l].role = None
    /\ lease[l].state # "none" =>
         /\ dbrole[lease[l].role].until = Until(lease[l].expires)
         /\ dbrole[lease[l].role].state # "none"
         /\ \A k \in Lease \ {l} : lease[k].role # lease[l].role
    /\ lease[l].state = "live" => dbrole[lease[l].role].state = "live"

LeaseInv ==
    /\ LeaseTypeOK
    /\ \A h \in Handler : HandlerOK(h)
    /\ \A l \in Lease : LeaseOK(l)
    /\ LoginAccounted
=============================================================================
