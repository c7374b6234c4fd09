------------------------------ MODULE DynLeases ------------------------------
(***************************************************************************)
(* Dynamic secrets (server/internal/dynsecret): short-lived PostgreSQL     *)
(* roles in a provider's database, and the leases of this database that    *)
(* stand for them.  Nothing makes the two change together.                 *)
(*                                                                         *)
(* A Handler is a goroutine; each of its steps is one statement in one of  *)
(* the two databases.  Providers are never changed or deleted, so reading  *)
(* one again is no step.  PostgresProvider.Renew has no caller.            *)
(*                                                                         *)
(* Time goes on in ticks of a part of a second.  Three clocks tell it: the *)
(* server's, by which a lease ends; that of its own database, by which the *)
(* expiry worker marks; and the provider's, by which logins end.           *)
(***************************************************************************)
EXTENDS Integers

CONSTANTS
    User, Provider, Lease,
    Role,         \* names the random suffix may give to roles
    Handler,      \* handler goroutines
    None,         \* no value
    Offered,      \* memberships that AddMember gives
    Second,       \* ticks in a second
    Skew,         \* how far a database's clock may be ahead of the server's, in ticks
    MaxTTL,       \* bound on ttl_seconds (3600 in the code)
    MaxTime,      \* bound on the clock
    Faults        \* whether a statement may fail or the server stop

ASSUME LeaseAssumption ==
    /\ None \notin Role \cup Lease \cup Provider
    /\ Offered \subseteq {"owner", "admin", "member", "viewer"}
    /\ Second \in Nat \ {0} /\ Skew \subseteq Int
    /\ MaxTTL \in Nat \ {0} /\ MaxTime \in Nat
    /\ Faults \in BOOLEAN

VARIABLES
    now,          \* the server's clock
    skew,         \* how far the clocks of the two databases are ahead of it
    member,       \* project_memberships: user -> role of the member
    provider,     \* dynamic_providers: the provider_type
    dbrole,       \* roles of the provider's database
    lease,        \* dynamic_leases
    worker,       \* what each goroutine holds in its locals
    lost          \* history: roles whose handler failed while it had them

vars == <<now, skew, member, provider, dbrole, lease, worker, lost>>

Time == 0..MaxTime
OwnClock == now + skew.own
ProviderClock == now + skew.provider

NoRole == [state |-> "none", until |-> 0, granted |-> FALSE]
NoLease == [state |-> "none", provider |-> None, role |-> None, expires |-> 0]
Idle == [pc |-> "idle", provider |-> None, role |-> None, lease |-> None,
         ttl |-> 0, expires |-> 0]

Init ==
    /\ now = 0
    /\ skew \in [own: Skew, provider: Skew]
    /\ member = [u \in User |-> "owner"]
    /\ provider = [p \in Provider |-> "none"]
    /\ dbrole = [b \in Role |-> NoRole]
    /\ lease = [l \in Lease |-> NoLease]
    /\ worker = [h \in Handler |-> Idle]
    /\ lost = {}

\* rbac.Can, on the resource dynsecret.
CanWrite(u) == member[u] \in {"owner", "admin"}

Start(h, w) == worker[h].pc = "idle" /\ worker' = [worker EXCEPT ![h] = w]
Goto(h, pc) == worker' = [worker EXCEPT ![h].pc = pc]
Finish(h) == worker' = [worker EXCEPT ![h] = Idle]

\* The role a handler has made and not yet handed over.
Holds(h) == IF worker[h].pc \in {"grant", "cleanup", "insert"} THEN {worker[h].role} ELSE {}

-----------------------------------------------------------------------------
\* An owner or admin of the project adds a member, or changes what one is.
AddMember(u, m) ==
    /\ member' = [member EXCEPT ![u] = m]
    /\ UNCHANGED <<now, skew, provider, dbrole, lease, worker, lost>>

\* POST .../providers.  The type is not looked at before a lease is made.
CreateProvider(u, p, type) ==
    /\ CanWrite(u)
    /\ provider[p] = "none"
    /\ provider' = [provider EXCEPT ![p] = type]
    /\ UNCHANGED <<now, skew, member, dbrole, lease, worker, lost>>

-----------------------------------------------------------------------------
(* Creating a lease                                                        *)

\* Mutant: the largest ttl is off by one.
TTLOver == 1..(MaxTTL + 1)

\* ttl_seconds must be between 1 and 3600.
TTL == 1..MaxTTL

\* POST .../leases.
CreateLease(h, u, p, ttl) ==
    /\ provider[p] = "postgres" /\ CanWrite(u)
    /\ Start(h, [Idle EXCEPT !.pc = "create", !.provider = p, !.ttl = ttl])
    /\ UNCHANGED <<now, skew, member, provider, dbrole, lease, lost>>

\* Where a lease ends: time.Now().Add(TTL).
End(w) == now + Second * w.ttl

\* Mutant: the role's own end is forgotten.
UntilForever(t) == 2 * MaxTime + Second

\* VALID UNTIL, in RFC 3339: what is less than a second is cut off.
Until(t) == t - (t % Second)

\* CREATE ROLE .. VALID UNTIL, under a name that is still free.
CreateRole(h) ==
    LET w == worker[h] IN
    /\ w.pc = "create"
    /\ \A c \in {0, skew.own, skew.provider} : End(w) < MaxTime + c
    /\ \E b \in Role :
         /\ dbrole[b].state = "none"
         /\ dbrole' = [dbrole EXCEPT ![b] = [state |-> "live", until |-> Until(End(w)),
                                             granted |-> FALSE]]
         /\ worker' = [worker EXCEPT ![h].pc = "grant", ![h].role = b,
                                     ![h].expires = End(w)]
    /\ UNCHANGED <<now, skew, member, provider, lease, lost>>

\* GRANT CONNECT: given; refused with no more than a warning; or an error.
GrantConnect(h) ==
    LET w == worker[h] IN
    /\ w.pc = "grant"
    /\ \/ /\ dbrole' = [dbrole EXCEPT ![w.role].granted = TRUE]
          /\ Goto(h, "insert")
       \/ UNCHANGED dbrole /\ Goto(h, "insert")
       \/ Faults /\ UNCHANGED dbrole /\ Goto(h, "cleanup")
    /\ UNCHANGED <<now, skew, member, provider, lease, lost>>

\* DROP ROLE IF EXISTS.  PostgreSQL refuses it while the role holds a privilege.
Dropped(b) == IF dbrole[b].granted THEN dbrole[b] ELSE [dbrole[b] EXCEPT !.state = "dropped"]

CleanUp(h) ==
    /\ worker[h].pc = "cleanup"
    /\ dbrole' = [dbrole EXCEPT ![worker[h].role] = Dropped(worker[h].role)]
    /\ Finish(h)
    /\ UNCHANGED <<now, skew, member, provider, lease, lost>>

\* An agent or request that no row has fails the INSERT, and the role stays.
InsertLease(h, known) ==
    LET w == worker[h] IN
    /\ w.pc = "insert"
    /\ IF known
       THEN /\ \E l \in Lease :
                 /\ lease[l].state = "none"
                 /\ lease' = [lease EXCEPT ![l] = [state |-> "live", provider |-> w.provider,
                                                   role |-> w.role, expires |-> w.expires]]
            /\ UNCHANGED lost
       ELSE lost' = lost \cup {w.role} /\ UNCHANGED lease
    /\ Finish(h)
    /\ UNCHANGED <<now, skew, member, provider, dbrole>>

-----------------------------------------------------------------------------
(* Ending a lease                                                          *)

\* DELETE /leases/{id}: the lease's provider is found and access to it checked.
RevokeLease(h, u, l) ==
    /\ lease[l].state # "none" /\ CanWrite(u)
    /\ Start(h, [Idle EXCEPT !.pc = "read", !.lease = l, !.provider = lease[l].provider])
    /\ UNCHANGED <<now, skew, member, provider, dbrole, lease, lost>>

\* Mutant: the role is dropped before the lease is marked.
ReadLeaseDropFirst(h) ==
    LET l == worker[h].lease IN
    /\ worker[h].pc = "read"
    /\ IF lease[l].state = "live"
       THEN /\ worker' = [worker EXCEPT ![h].pc = "mark", ![h].role = lease[l].role]
            /\ dbrole' = [dbrole EXCEPT ![lease[l].role] = Dropped(lease[l].role)]
       ELSE Finish(h) /\ UNCHANGED dbrole
    /\ UNCHANGED <<now, skew, member, provider, lease, lost>>

\* WHERE revoked_at IS NULL; the role's name is in the credentials.
ReadLease(h) ==
    LET l == worker[h].lease IN
    /\ worker[h].pc = "read"
    /\ IF lease[l].state = "live"
       THEN worker' = [worker EXCEPT ![h].pc = "mark", ![h].role = lease[l].role]
       ELSE Finish(h)
    /\ UNCHANGED <<now, skew, member, provider, dbrole, lease, lost>>

MarkRevoked(h) ==
    /\ worker[h].pc = "mark"
    /\ lease' = [lease EXCEPT ![worker[h].lease].state = "revoked"]
    /\ Goto(h, "drop")
    /\ UNCHANGED <<now, skew, member, provider, dbrole, lost>>

\* Best effort: what the backend answers is dropped.
DropRole(h) ==
    /\ worker[h].pc = "drop"
    /\ dbrole' = [dbrole EXCEPT ![worker[h].role] = Dropped(worker[h].role)]
    /\ Finish(h)
    /\ UNCHANGED <<now, skew, member, provider, lease, lost>>

\* expires_at < now() AND revoked_at IS NULL.
Overdue(l) == lease[l].state = "live" /\ lease[l].expires < OwnClock

\* The expiry worker marks; it drops nothing.
ExpireLeases ==
    /\ \E l \in Lease : Overdue(l)
    /\ lease' = [l \in Lease |-> IF Overdue(l) THEN [lease[l] EXCEPT !.state = "revoked"]
                                 ELSE lease[l]]
    /\ UNCHANGED <<now, skew, member, provider, dbrole, worker, lost>>

-----------------------------------------------------------------------------
\* A statement fails, the caller goes away, or the server stops.
CutOff(h) ==
    /\ Faults
    /\ worker[h].pc # "idle"
    /\ lost' = lost \cup Holds(h) \cup
         (IF worker[h].pc = "drop" THEN {worker[h].role} ELSE {})
    /\ Finish(h)
    /\ UNCHANGED <<now, skew, member, provider, dbrole, lease>>

Tick ==
    /\ now < MaxTime
    /\ now' = now + 1
    /\ UNCHANGED <<skew, member, provider, dbrole, lease, worker, lost>>

Arrive(h) ==
    \E u \in User :
        \/ \E p \in Provider, ttl \in TTL : CreateLease(h, u, p, ttl)
        \/ \E l \in Lease : RevokeLease(h, u, l)

Step(h) ==
    \/ CreateRole(h) \/ GrantConnect(h) \/ CleanUp(h)
    \/ \E known \in BOOLEAN : InsertLease(h, known)
    \/ ReadLease(h) \/ MarkRevoked(h) \/ DropRole(h)

Manage ==
    \E u \in User :
        \/ \E m \in Offered : AddMember(u, m)
        \/ \E p \in Provider, type \in {"postgres", "other"} : CreateProvider(u, p, type)

Next ==
    \/ Manage
    \/ \E h \in Handler : Arrive(h) \/ Step(h) \/ CutOff(h)
    \/ ExpireLeases
    \/ Tick

Spec == Init /\ [][Next]_vars

\* Time passes, and the worker's ticker fires every minute.
FairSpec == Spec /\ WF_vars(Tick) /\ WF_vars(ExpireLeases)
=============================================================================
