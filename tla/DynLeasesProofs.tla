--------------------------- MODULE DynLeasesProofs ---------------------------
(***************************************************************************)
(* A lease works while it lives, and a login has somebody to answer for    *)
(* it, whichever of the two databases a failure finds changed.             *)
(***************************************************************************)
EXTENDS DynLeasesProps, TLAPS

\* A handler's step changes its own locals only.
LEMMA WorkerMoves ==
    ASSUME LeaseTypeOK, NEW h \in Handler, NEW w \in Local,
           worker' = [worker EXCEPT ![h] = w]
    PROVE  /\ worker' \in [Handler -> Local] /\ worker'[h] = w
           /\ \A g \in Handler \ {h} : worker'[g] = worker[g] /\ Holds(g)' = Holds(g)
<1>1. /\ worker' \in [Handler -> Local] /\ worker'[h] = w
      /\ \A g \in Handler \ {h} : worker'[g] = worker[g]
  BY DEF LeaseTypeOK
<1> QED
  BY <1>1 DEF Holds

\* VALID UNTIL keeps the second and loses what is less than one.
LEMMA UntilCuts ==
    ASSUME NEW t \in Nat
    PROVE  Until(t) \in Nat /\ Until(t) <= t /\ t < Until(t) + Second
<1>1. t % Second \in 0..(Second - 1) /\ t % Second <= t
  BY LeaseAssumption
<1> QED
  BY <1>1, LeaseAssumption DEF Until

\* The clocks of the two databases tell whole numbers of ticks.
LEMMA ClockTypes ==
    ASSUME LeaseTypeOK
    PROVE  /\ now \in Nat /\ skew.own \in Int /\ skew.provider \in Int
           /\ OwnClock \in Int /\ ProviderClock \in Int
<1>1. now \in Nat
  BY DEF LeaseTypeOK, Time
<1>2. skew.own \in Skew /\ skew.provider \in Skew
  BY DEF LeaseTypeOK
<1>3. skew.own \in Int /\ skew.provider \in Int
  BY <1>2, LeaseAssumption
<1> QED
  BY <1>1, <1>3 DEF OwnClock, ProviderClock

\* What a handler begins with, and what it may make of its locals next.
LEMMA LocalsBegin ==
    /\ Idle \in Local
    /\ \A p \in Provider, ttl \in TTL :
         [Idle EXCEPT !.pc = "create", !.provider = p, !.ttl = ttl] \in Local
    /\ \A l \in Lease, p \in Provider \cup {None} :
         [Idle EXCEPT !.pc = "read", !.lease = l, !.provider = p] \in Local
<1>1. Idle \in Local
  BY LeaseAssumption DEF Idle, Local
<1>2. \A p \in Provider, ttl \in TTL :
        [Idle EXCEPT !.pc = "create", !.provider = p, !.ttl = ttl] \in Local
  <2>1. \A ttl \in TTL : ttl \in 0..MaxTTL
    BY LeaseAssumption DEF TTL
  <2> QED
    BY <1>1, <2>1 DEF Local
<1>3. \A l \in Lease, p \in Provider \cup {None} :
        [Idle EXCEPT !.pc = "read", !.lease = l, !.provider = p] \in Local
  BY <1>1 DEF Local
<1> QED
  BY <1>1, <1>2, <1>3

\* Each step of a handler assigns a few of its locals.
LEMMA LocalsType ==
    ASSUME NEW w \in Local
    PROVE  /\ \A b \in Role, t \in Nat :
                [w EXCEPT !.pc = "grant", !.role = b, !.expires = t] \in Local
           /\ \A b \in Role \cup {None} : [w EXCEPT !.pc = "mark", !.role = b] \in Local
           /\ \A pc \in {"insert", "cleanup", "drop"} : [w EXCEPT !.pc = pc] \in Local
<1>1. \A b \in Role, t \in Nat : [w EXCEPT !.pc = "grant", !.role = b, !.expires = t] \in Local
  BY DEF Local
<1>2. \A b \in Role \cup {None} : [w EXCEPT !.pc = "mark", !.role = b] \in Local
  BY DEF Local
<1>3. \A pc \in {"insert", "cleanup", "drop"} : [w EXCEPT !.pc = pc] \in Local
  BY DEF Local
<1> QED
  BY <1>1, <1>2, <1>3

\* Handlers meet in the two databases only: a step that leaves the roles of others
\* alone, and takes no role of theirs, leaves what they rely on.
LEMMA OthersKeep ==
    ASSUME LeaseInv, NEW h \in Handler,
           \A g \in Handler \ {h} : worker'[g] = worker[g] /\ Holds(g)' = Holds(g),
           \A g \in Handler \ {h} : \A b \in Holds(g) : dbrole'[b] = dbrole[b],
           \A l \in Lease : \/ lease'[l].role = lease[l].role
                            \/ lease[l].state = "none" /\ lease'[l].role \in Holds(h),
           \A l \in Lease : lease[l].state # "none" => lease'[l].state # "none",
           \A l \in Lease : lease[l].state = "revoked" => lease'[l].state = "revoked",
           \A b \in Holds(h)' : b \in Holds(h) \/ dbrole[b].state = "none"
    PROVE  \A g \in Handler \ {h} : HandlerOK(g)'
<1> SUFFICES ASSUME NEW g \in Handler \ {h} PROVE HandlerOK(g)'
  OBVIOUS
<1>1. HandlerOK(g) /\ HandlerOK(h) /\ worker'[g] = worker[g] /\ worker[g] \in Local
  BY DEF LeaseInv, LeaseTypeOK
<1> DEFINE w == worker[g]
<1>2. w.pc \in {"grant", "cleanup", "insert"} =>
         /\ w.role \in Role
         /\ dbrole'[w.role].state = "live" /\ dbrole'[w.role].until = Until(w.expires)
         /\ w.pc # "insert" => ~dbrole'[w.role].granted
         /\ \A l \in Lease : lease'[l].role # w.role
         /\ \A x \in Handler \ {g} : w.role \notin Holds(x)'
  <2> SUFFICES ASSUME w.pc \in {"grant", "cleanup", "insert"}
               PROVE  /\ w.role \in Role
                      /\ dbrole'[w.role].state = "live" /\ dbrole'[w.role].until = Until(w.expires)
                      /\ w.pc # "insert" => ~dbrole'[w.role].granted
                      /\ \A l \in Lease : lease'[l].role # w.role
                      /\ \A x \in Handler \ {g} : w.role \notin Holds(x)'
    OBVIOUS
  <2>1. w.role \in Holds(g) /\ dbrole'[w.role] = dbrole[w.role]
    BY DEF Holds
  <2>2. /\ w.role \in Role
        /\ dbrole[w.role].state = "live" /\ dbrole[w.role].until = Until(w.expires)
        /\ w.pc # "insert" => ~dbrole[w.role].granted
        /\ \A l \in Lease : lease[l].role # w.role
        /\ \A x \in Handler \ {g} : w.role \notin Holds(x)
    BY <1>1 DEF HandlerOK
  <2>3. \A l \in Lease : lease'[l].role # w.role
    BY <2>2
  <2>4. w.role \notin Holds(h)'
    BY <2>2
  <2>5. \A x \in Handler \ {g} : w.role \notin Holds(x)'
    BY <2>2, <2>4
  <2> QED
    BY <2>1, <2>2, <2>3, <2>5
<1>3. w.pc \in {"read", "mark", "drop"} => w.lease \in Lease /\ lease'[w.lease].state # "none"
  BY <1>1 DEF HandlerOK
<1>4. w.pc \in {"mark", "drop"} => w.role = lease'[w.lease].role
  BY <1>1 DEF HandlerOK
<1>5. w.pc = "drop" => lease'[w.lease].state = "revoked"
  BY <1>1 DEF HandlerOK
<1> QED
  BY <1>1, <1>2, <1>3, <1>4, <1>5 DEF HandlerOK

\* A lease that nothing happens to, with a role that is not dropped, is as it was.
LEMMA LeasesStay ==
    ASSUME LeaseInv, UNCHANGED lease,
           \A l \in Lease : lease[l].role \in Role =>
             dbrole'[lease[l].role] = dbrole[lease[l].role]
    PROVE  \A l \in Lease : LeaseOK(l)'
<1> SUFFICES ASSUME NEW l \in Lease PROVE LeaseOK(l)'
  OBVIOUS
<1>1. LeaseOK(l) /\ lease[l].role \in Role \cup {None}
  BY DEF LeaseInv, LeaseTypeOK, LeaseRow
<1> QED
  BY <1>1 DEF LeaseOK

-----------------------------------------------------------------------------
(* Type correctness                                                        *)

\* A role that is dropped, or not because of its privilege, is a role.
LEMMA DroppedType ==
    ASSUME LeaseTypeOK, NEW b \in Role, dbrole' = [dbrole EXCEPT ![b] = Dropped(b)]
    PROVE  /\ dbrole' \in [Role -> RoleState]
           /\ \A x \in Role \ {b} : dbrole'[x] = dbrole[x]
           /\ dbrole'[b].until = dbrole[b].until
           /\ dbrole'[b].granted = dbrole[b].granted
           /\ \/ dbrole[b].granted /\ dbrole'[b].state = dbrole[b].state
              \/ dbrole'[b].state = "dropped"
<1>1. dbrole \in [Role -> RoleState] /\ dbrole[b] \in RoleState
  BY DEF LeaseTypeOK
<1>2. /\ Dropped(b) \in RoleState
      /\ Dropped(b).until = dbrole[b].until /\ Dropped(b).granted = dbrole[b].granted
      /\ \/ dbrole[b].granted /\ Dropped(b).state = dbrole[b].state
         \/ Dropped(b).state = "dropped"
  BY <1>1 DEF Dropped, RoleState
<1> HIDE DEF Dropped
<1>3. dbrole'[b] = Dropped(b)
  BY <1>1
<1> QED
  BY <1>1, <1>2, <1>3

-----------------------------------------------------------------------------
(* Steps                                                                   *)

\* A request that comes in, a read, and a GRANT that gives nothing: locals only.
LEMMA LocalKeeps ==
    ASSUME LeaseInv, NEW h \in Handler, NEW w \in Local,
           worker' = [worker EXCEPT ![h] = w],
           UNCHANGED <<now, skew, member, provider, dbrole, lease, lost>>,
           Holds(h)' = Holds(h), worker[h].pc # "drop", HandlerOK(h)'
    PROVE  LeaseInv'
<1>1. /\ worker' \in [Handler -> Local] /\ worker'[h] = w
      /\ \A g \in Handler \ {h} : worker'[g] = worker[g] /\ Holds(g)' = Holds(g)
  BY WorkerMoves DEF LeaseInv
<1>2. LeaseTypeOK'
  BY <1>1 DEF LeaseInv, LeaseTypeOK
<1>3. \A g \in Handler : HandlerOK(g)'
  BY <1>1, OthersKeep
<1>4. \A l \in Lease : LeaseOK(l)'
  BY LeasesStay
<1>5. LoginAccounted'
  <2>1. \A g \in Handler : /\ Holds(g)' = Holds(g)
                           /\ worker[g].pc = "drop" => worker'[g] = worker[g]
    BY <1>1
  <2>2. \A b \in Role : CanLogIn(b)' => CanLogIn(b)
    BY DEF CanLogIn, ProviderClock
  <2>3. \A b \in Role : Accounted(b) => Accounted(b)'
    <3> SUFFICES ASSUME NEW b \in Role, Accounted(b) PROVE Accounted(b)'
      OBVIOUS
    <3>1. CASE \E g \in Handler : b \in Holds(g) \/ (worker[g].pc = "drop" /\ worker[g].role = b)
      <4>1. PICK g \in Handler : b \in Holds(g) \/ (worker[g].pc = "drop" /\ worker[g].role = b)
        BY <3>1
      <4>2. b \in Holds(g)' \/ (worker'[g].pc = "drop" /\ worker'[g].role = b)
        BY <2>1, <4>1
      <4> QED
        BY <4>2 DEF Accounted, OwnClock
    <3> QED
      BY <3>1 DEF Accounted, OwnClock
  <2> QED
    BY <2>2, <2>3 DEF LeaseInv, LoginAccounted
<1> QED
  BY <1>2, <1>3, <1>4, <1>5 DEF LeaseInv

\* POST .../leases and DELETE /leases/{id} begin.
LEMMA ArriveKeeps ==
    ASSUME LeaseInv, NEW h \in Handler, Arrive(h)
    PROVE  LeaseInv'
<1>1. ASSUME NEW w \in Local, worker' = [worker EXCEPT ![h] = w], worker[h].pc = "idle",
             UNCHANGED <<now, skew, member, provider, dbrole, lease, lost>>,
             \/ w.pc = "create"
             \/ w.pc = "read" /\ w.lease \in Lease /\ lease[w.lease].state # "none"
      PROVE  LeaseInv'
  <2>1. worker'[h] = w
    BY <1>1, WorkerMoves DEF LeaseInv
  <2>2. HandlerOK(h)' /\ Holds(h)' = Holds(h)
    BY <1>1, <2>1 DEF HandlerOK, Holds
  <2> QED
    BY <1>1, <2>2, LocalKeeps
<1>2. ASSUME NEW u \in User, NEW p \in Provider, NEW ttl \in TTL, CreateLease(h, u, p, ttl)
      PROVE  LeaseInv'
  <2> DEFINE w == [Idle EXCEPT !.pc = "create", !.provider = p, !.ttl = ttl]
  <2>1. w \in Local /\ w.pc = "create"
    <3>1. w \in Local
      BY LocalsBegin
    <3> QED
      BY <3>1 DEF Idle
  <2>2. /\ worker' = [worker EXCEPT ![h] = w] /\ worker[h].pc = "idle"
        /\ UNCHANGED <<now, skew, member, provider, dbrole, lease, lost>>
    BY <1>2 DEF CreateLease, Start
  <2> HIDE DEF w
  <2> QED
    BY <1>1, <2>1, <2>2
<1>3. ASSUME NEW u \in User, NEW l \in Lease, RevokeLease(h, u, l)
      PROVE  LeaseInv'
  <2>1. lease[l].provider \in Provider \cup {None}
    BY DEF LeaseInv, LeaseTypeOK, LeaseRow
  <2>2. PICK p \in Provider \cup {None} : p = lease[l].provider
    BY <2>1
  <2> DEFINE w == [Idle EXCEPT !.pc = "read", !.lease = l, !.provider = p]
  <2>3. w \in Local /\ w.pc = "read" /\ w.lease = l
    <3>1. w \in Local
      BY LocalsBegin
    <3> QED
      BY <3>1 DEF Idle
  <2>4. /\ worker' = [worker EXCEPT ![h] = w] /\ worker[h].pc = "idle"
        /\ UNCHANGED <<now, skew, member, provider, dbrole, lease, lost>>
        /\ lease[l].state # "none"
    BY <1>3, <2>2 DEF RevokeLease, Start
  <2> HIDE DEF w
  <2> QED
    BY <1>1, <2>3, <2>4
<1> QED
  BY <1>2, <1>3 DEF Arrive

\* CREATE ROLE takes a name that no lease and no handler has.
LEMMA CreateRoleKeeps ==
    ASSUME LeaseInv, NEW h \in Handler, CreateRole(h)
    PROVE  LeaseInv'
<1>1. worker[h] \in Local /\ worker[h].pc = "create" /\ now \in Nat
  BY DEF CreateRole, LeaseInv, LeaseTypeOK, Time
<1>2. PICK t \in Nat : t = End(worker[h])
  BY <1>1, LeaseAssumption DEF Local, End
<1>3. PICK b \in Role :
        /\ dbrole[b].state = "none"
        /\ dbrole' = [dbrole EXCEPT ![b] = [state |-> "live", until |-> Until(t), granted |-> FALSE]]
        /\ worker' = [worker EXCEPT ![h].pc = "grant", ![h].role = b, ![h].expires = t]
        /\ UNCHANGED <<now, skew, member, provider, lease, lost>>
  BY <1>2 DEF CreateRole
<1>4. PICK w \in Local : /\ worker' = [worker EXCEPT ![h] = w]
                         /\ w.pc = "grant" /\ w.role = b /\ w.expires = t
  <2> DEFINE w == [worker[h] EXCEPT !.pc = "grant", !.role = b, !.expires = t]
  <2>1. w \in Local /\ w.pc = "grant" /\ w.role = b /\ w.expires = t
    BY <1>1, LocalsType DEF Local
  <2>2. worker' = [worker EXCEPT ![h] = w]
    BY <1>3
  <2> HIDE DEF w
  <2> QED
    BY <2>1, <2>2
<1>5. /\ worker' \in [Handler -> Local] /\ worker'[h] = w
      /\ \A g \in Handler \ {h} : worker'[g] = worker[g] /\ Holds(g)' = Holds(g)
  BY <1>4, WorkerMoves DEF LeaseInv
<1>6. /\ dbrole' \in [Role -> RoleState] /\ \A x \in Role \ {b} : dbrole'[x] = dbrole[x]
      /\ dbrole'[b] = [state |-> "live", until |-> Until(t), granted |-> FALSE]
  BY <1>3, UntilCuts DEF LeaseInv, LeaseTypeOK, RoleState
<1>7. LeaseTypeOK'
  BY <1>3, <1>5, <1>6 DEF LeaseInv, LeaseTypeOK
<1>8. \A l \in Lease : lease[l].role \in Role \cup {None} /\ lease[l].role # b
  BY <1>3, LeaseAssumption DEF LeaseInv, LeaseTypeOK, LeaseRow, LeaseOK
<1>9. \A g \in Handler : \A x \in Holds(g) : x \in Role /\ dbrole[x].state = "live"
  BY DEF LeaseInv, HandlerOK, Holds
<1>10. Holds(h)' = {b} /\ Holds(h) = {}
  BY <1>1, <1>4, <1>5 DEF Holds
<1>11. \A g \in Handler \ {h} : HandlerOK(g)'
  <2>1. \A g \in Handler \ {h} : \A x \in Holds(g) : dbrole'[x] = dbrole[x]
    BY <1>3, <1>6, <1>9
  <2> QED
    BY <1>3, <1>5, <1>10, <2>1, OthersKeep
<1>12. HandlerOK(h)'
  <2>1. \A g \in Handler \ {h} : b \notin Holds(g)'
    BY <1>3, <1>5, <1>9
  <2> QED
    BY <1>3, <1>4, <1>5, <1>6, <1>8, <2>1 DEF HandlerOK
<1>13. \A l \in Lease : LeaseOK(l)'
  BY <1>3, <1>6, <1>8, LeasesStay
<1>14. LoginAccounted'
  <2> SUFFICES ASSUME NEW x \in Role, CanLogIn(x)' PROVE Accounted(x)'
    BY DEF LoginAccounted
  <2>1. CASE x = b
    BY <1>10, <2>1 DEF Accounted, OwnClock
  <2>2. CASE x # b
    <3>1. Accounted(x) /\ dbrole'[x] = dbrole[x]
      BY <1>3, <1>6, <2>2 DEF CanLogIn, ProviderClock, LeaseInv, LoginAccounted
    <3>2. worker[h].pc # "drop" /\ Holds(h) = {}
      BY <1>1, <1>10
    <3> QED
      BY <1>3, <1>5, <3>1, <3>2 DEF Accounted, OwnClock
  <2> QED
    BY <2>1, <2>2
<1> QED
  BY <1>7, <1>11, <1>12, <1>13, <1>14 DEF LeaseInv

\* GRANT CONNECT, given or not; after an error the role is cleaned up.
LEMMA GrantKeeps ==
    ASSUME LeaseInv, NEW h \in Handler, GrantConnect(h)
    PROVE  LeaseInv'
<1>1. /\ worker[h] \in Local /\ worker[h].pc = "grant" /\ HandlerOK(h)
      /\ UNCHANGED <<now, skew, member, provider, lease, lost>>
  BY DEF GrantConnect, LeaseInv, LeaseTypeOK
<1>2. PICK pc \in {"insert", "cleanup"} :
        /\ worker' = [worker EXCEPT ![h].pc = pc]
        /\ \/ dbrole' = dbrole
           \/ dbrole' = [dbrole EXCEPT ![worker[h].role].granted = TRUE] /\ pc = "insert"
  BY DEF GrantConnect, Goto
<1>3. PICK w \in Local : /\ worker' = [worker EXCEPT ![h] = w] /\ w.pc = pc
                         /\ w.role = worker[h].role /\ w.expires = worker[h].expires
  <2> DEFINE w == [worker[h] EXCEPT !.pc = pc]
  <2>1. /\ w \in Local /\ w.pc = pc /\ w.role = worker[h].role
        /\ w.expires = worker[h].expires
    BY <1>1, LocalsType DEF Local
  <2>2. worker' = [worker EXCEPT ![h] = w]
    BY <1>2
  <2> HIDE DEF w
  <2> QED
    BY <2>1, <2>2
<1>4. /\ worker' \in [Handler -> Local] /\ worker'[h] = w
      /\ \A g \in Handler \ {h} : worker'[g] = worker[g] /\ Holds(g)' = Holds(g)
  BY <1>3, WorkerMoves DEF LeaseInv
<1>5. PICK b \in Role : b = worker[h].role
  BY <1>1 DEF HandlerOK
<1>6. Holds(h) = {b} /\ Holds(h)' = {b}
  BY <1>1, <1>3, <1>4, <1>5 DEF Holds
<1>7. /\ dbrole' \in [Role -> RoleState] /\ \A x \in Role \ {b} : dbrole'[x] = dbrole[x]
      /\ dbrole'[b].state = dbrole[b].state /\ dbrole'[b].until = dbrole[b].until
      /\ pc # "insert" => dbrole'[b] = dbrole[b]
  <2>1. dbrole \in [Role -> RoleState] /\ dbrole[b] \in RoleState
    BY DEF LeaseInv, LeaseTypeOK
  <2>2. CASE dbrole' = dbrole
    BY <2>1, <2>2
  <2>3. CASE dbrole' = [dbrole EXCEPT ![b].granted = TRUE] /\ pc = "insert"
    <3> DEFINE v == [dbrole[b] EXCEPT !.granted = TRUE]
    <3>1. v \in RoleState /\ v.state = dbrole[b].state /\ v.until = dbrole[b].until
      BY <2>1 DEF RoleState
    <3>2. dbrole' = [dbrole EXCEPT ![b] = v] /\ pc = "insert"
      BY <2>3
    <3> HIDE DEF v
    <3> QED
      BY <2>1, <3>1, <3>2
  <2> QED
    BY <1>2, <1>5, <2>2, <2>3
<1>8. LeaseTypeOK'
  BY <1>1, <1>4, <1>7 DEF LeaseInv, LeaseTypeOK
<1>9. /\ dbrole[b].state = "live" /\ dbrole[b].until = Until(worker[h].expires) /\ ~dbrole[b].granted
      /\ \A l \in Lease : lease[l].role # b
      /\ \A g \in Handler \ {h} : b \notin Holds(g)
  BY <1>1, <1>5 DEF HandlerOK
<1>10. \A g \in Handler \ {h} : HandlerOK(g)'
  <2>1. \A g \in Handler \ {h} : \A x \in Holds(g) : dbrole'[x] = dbrole[x]
    BY <1>7, <1>9 DEF LeaseInv, HandlerOK, Holds
  <2> QED
    BY <1>1, <1>4, <1>6, <2>1, OthersKeep
<1>11. HandlerOK(h)'
  BY <1>1, <1>2, <1>3, <1>4, <1>5, <1>7, <1>9 DEF HandlerOK
<1>12. \A l \in Lease : LeaseOK(l)'
  BY <1>1, <1>7, <1>9, LeasesStay
<1>13. LoginAccounted'
  <2> SUFFICES ASSUME NEW x \in Role, CanLogIn(x)' PROVE Accounted(x)'
    BY DEF LoginAccounted
  <2>1. CASE x = b
    BY <1>6, <2>1 DEF Accounted, OwnClock
  <2>2. CASE x # b
    <3>1. Accounted(x) /\ dbrole'[x] = dbrole[x]
      BY <1>1, <1>7, <2>2 DEF CanLogIn, ProviderClock, LeaseInv, LoginAccounted
    <3> QED
      BY <1>1, <1>4, <1>6, <2>2, <3>1 DEF Accounted, OwnClock
  <2> QED
    BY <2>1, <2>2
<1> QED
  BY <1>8, <1>10, <1>11, <1>12, <1>13 DEF LeaseInv

\* DROP ROLE, by who made the role and failed or by who revoked its lease: a role
\* that PostgreSQL refuses to drop is one with a privilege, which a lease had.
LEMMA DropKeeps ==
    ASSUME LeaseInv, NEW h \in Handler, CleanUp(h) \/ DropRole(h)
    PROVE  LeaseInv'
<1>1. /\ worker[h].pc \in {"cleanup", "drop"} /\ HandlerOK(h)
      /\ worker' = [worker EXCEPT ![h] = Idle]
      /\ dbrole' = [dbrole EXCEPT ![worker[h].role] = Dropped(worker[h].role)]
      /\ UNCHANGED <<now, skew, member, provider, lease, lost>>
  BY DEF CleanUp, DropRole, Finish, LeaseInv
<1>2. /\ worker' \in [Handler -> Local] /\ worker'[h] = Idle
      /\ \A g \in Handler \ {h} : worker'[g] = worker[g] /\ Holds(g)' = Holds(g)
  <2>1. Idle \in Local
    BY LocalsBegin
  <2> QED
    BY <1>1, <2>1, WorkerMoves DEF LeaseInv
<1>3. PICK b \in Role : b = worker[h].role
  <2>1. CASE worker[h].pc = "cleanup"
    BY <1>1, <2>1 DEF HandlerOK
  <2>2. CASE worker[h].pc = "drop"
    BY <1>1, <2>2 DEF HandlerOK, LeaseInv, LeaseTypeOK, LeaseRow, LeaseOK
  <2> QED
    BY <1>1, <2>1, <2>2
<1>4. /\ dbrole' \in [Role -> RoleState] /\ \A x \in Role \ {b} : dbrole'[x] = dbrole[x]
      /\ dbrole'[b].until = dbrole[b].until
      /\ \/ dbrole[b].granted /\ dbrole'[b].state = dbrole[b].state
         \/ dbrole'[b].state = "dropped"
  BY <1>1, <1>3, DroppedType DEF LeaseInv
<1>5. LeaseTypeOK'
  BY <1>1, <1>2, <1>4 DEF LeaseInv, LeaseTypeOK
<1>6. Holds(h)' = {}
  BY <1>2 DEF Holds, Idle
<1>7. \A l \in Lease : lease[l].role = b =>
        worker[h].pc = "drop" /\ l = worker[h].lease /\ lease[l].state = "revoked"
  BY <1>1, <1>3, LeaseAssumption DEF HandlerOK, LeaseInv, LeaseOK
<1>8. \A g \in Handler \ {h} : b \notin Holds(g)
  <2>1. CASE worker[h].pc = "cleanup"
    BY <1>1, <1>3, <2>1 DEF HandlerOK
  <2>2. CASE worker[h].pc = "drop"
    <3>1. worker[h].lease \in Lease /\ lease[worker[h].lease].role = b
      BY <1>1, <1>3, <2>2 DEF HandlerOK
    <3> QED
      BY <3>1 DEF LeaseInv, HandlerOK, Holds
  <2> QED
    BY <1>1, <2>1, <2>2
<1>9. \A g \in Handler : HandlerOK(g)'
  <2>1. \A g \in Handler \ {h} : \A x \in Holds(g) : dbrole'[x] = dbrole[x]
    BY <1>4, <1>8 DEF LeaseInv, HandlerOK, Holds
  <2>2. \A g \in Handler \ {h} : HandlerOK(g)'
    BY <1>1, <1>2, <1>6, <2>1, OthersKeep
  <2>3. HandlerOK(h)'
    BY <1>2 DEF HandlerOK, Idle
  <2> QED
    BY <2>2, <2>3
<1>10. ASSUME NEW l \in Lease PROVE LeaseOK(l)'
  <2>1. LeaseOK(l) /\ lease[l] \in LeaseRow
    BY DEF LeaseInv, LeaseTypeOK
  <2>2. lease[l].state # "none" => lease[l].role \in Role
    BY <2>1 DEF LeaseOK, LeaseRow
  <2>3. CASE lease[l].role = b
    BY <1>1, <1>4, <1>7, <2>1, <2>3 DEF LeaseOK
  <2>4. CASE lease[l].role # b
    BY <1>1, <1>4, <2>1, <2>2, <2>4 DEF LeaseOK
  <2> QED
    BY <2>3, <2>4
<1>11. LoginAccounted'
  <2> SUFFICES ASSUME NEW x \in Role, CanLogIn(x)' PROVE Accounted(x)'
    BY DEF LoginAccounted
  <2>1. CASE x = b
    <3>1. dbrole[b].granted /\ dbrole'[b].granted
      BY <1>1, <1>3, <1>4, <2>1, DroppedType DEF CanLogIn, LeaseInv
    <3>2. worker[h].pc = "drop"
      BY <1>1, <1>3, <3>1 DEF HandlerOK
    <3>3. /\ worker[h].lease \in Lease /\ lease[worker[h].lease].role = b
      BY <1>1, <1>3, <3>2 DEF HandlerOK
    <3> QED
      BY <1>1, <2>1, <3>1, <3>3 DEF Accounted
  <2>2. CASE x # b
    <3>1. Accounted(x) /\ dbrole'[x] = dbrole[x]
      BY <1>1, <1>4, <2>2 DEF CanLogIn, ProviderClock, LeaseInv, LoginAccounted
    <3>2. x \notin Holds(h) /\ worker[h].role # x
      BY <1>3, <2>2 DEF Holds
    <3> QED
      BY <1>1, <1>2, <3>1, <3>2 DEF Accounted, OwnClock
  <2> QED
    BY <2>1, <2>2
<1> QED
  BY <1>5, <1>9, <1>10, <1>11 DEF LeaseInv

\* The lease takes over the role its handler made; an INSERT that fails loses it.
LEMMA InsertKeeps ==
    ASSUME LeaseInv, NEW h \in Handler, NEW known \in BOOLEAN, InsertLease(h, known)
    PROVE  LeaseInv'
<1>1. /\ worker[h].pc = "insert" /\ HandlerOK(h) /\ worker[h] \in Local
      /\ worker' = [worker EXCEPT ![h] = Idle]
      /\ UNCHANGED <<now, skew, member, provider, dbrole>>
  BY DEF InsertLease, Finish, LeaseInv, LeaseTypeOK
<1>2. /\ worker' \in [Handler -> Local] /\ worker'[h] = Idle
      /\ \A g \in Handler \ {h} : worker'[g] = worker[g] /\ Holds(g)' = Holds(g)
  <2>1. Idle \in Local
    BY LocalsBegin
  <2> QED
    BY <1>1, <2>1, WorkerMoves DEF LeaseInv
<1>3. PICK b \in Role : b = worker[h].role
  BY <1>1 DEF HandlerOK
<1>4. /\ dbrole[b].state = "live" /\ dbrole[b].until = Until(worker[h].expires)
      /\ \A l \in Lease : lease[l].role # b
      /\ \A g \in Handler \ {h} : b \notin Holds(g)
      /\ Holds(h) = {b} /\ Holds(h)' = {}
  BY <1>1, <1>2, <1>3 DEF HandlerOK, Holds, Idle
<1>5. HandlerOK(h)'
  BY <1>2 DEF HandlerOK, Idle
<1>6. ASSUME NEW x \in Role, CanLogIn(x)', x # b PROVE Accounted(x) /\ x \notin Holds(h)
  BY <1>1, <1>4, <1>6 DEF CanLogIn, ProviderClock, LeaseInv, LoginAccounted
<1>7. CASE known
  <2>1. PICK l \in Lease :
          /\ lease[l].state = "none" /\ UNCHANGED lost
          /\ lease' = [lease EXCEPT ![l] = [state |-> "live", provider |-> worker[h].provider,
                                            role |-> b, expires |-> worker[h].expires]]
    BY <1>3, <1>7 DEF InsertLease
  <2>2. [state |-> "live", provider |-> worker[h].provider, role |-> b,
         expires |-> worker[h].expires] \in LeaseRow
    BY <1>1 DEF Local, LeaseRow
  <2>3. /\ lease' \in [Lease -> LeaseRow] /\ \A k \in Lease \ {l} : lease'[k] = lease[k]
        /\ lease'[l].state = "live" /\ lease'[l].role = b
        /\ lease'[l].expires = worker[h].expires
    BY <2>1, <2>2 DEF LeaseInv, LeaseTypeOK
  <2>4. LeaseTypeOK'
    BY <1>1, <1>2, <2>1, <2>3 DEF LeaseInv, LeaseTypeOK
  <2>5. \A g \in Handler \ {h} : HandlerOK(g)'
    <3>1. /\ \A k \in Lease : \/ lease'[k].role = lease[k].role
                              \/ lease[k].state = "none" /\ lease'[k].role \in Holds(h)
          /\ \A k \in Lease : lease[k].state # "none" => lease'[k].state # "none"
          /\ \A k \in Lease : lease[k].state = "revoked" => lease'[k].state = "revoked"
      BY <1>4, <2>1, <2>3
    <3>2. \A g \in Handler \ {h} : \A x \in Holds(g) : dbrole'[x] = dbrole[x]
      BY <1>1
    <3> QED
      BY <1>2, <1>4, <3>1, <3>2, OthersKeep
  <2>6. ASSUME NEW k \in Lease PROVE LeaseOK(k)'
    <3>1. CASE k = l
      BY <1>1, <1>3, <1>4, <2>3, <3>1, LeaseAssumption DEF LeaseOK
    <3>2. CASE k # l
      <4>1. lease'[k] = lease[k] /\ LeaseOK(k) /\ lease[k].role # b
        BY <1>4, <2>3, <3>2 DEF LeaseInv
      <4> QED
        BY <1>1, <2>3, <4>1 DEF LeaseOK
    <3> QED
      BY <3>1, <3>2
  <2>7. LoginAccounted'
    <3> SUFFICES ASSUME NEW x \in Role, CanLogIn(x)' PROVE Accounted(x)'
      BY DEF LoginAccounted
    <3>1. CASE x = b
      BY <2>3, <3>1 DEF Accounted, OwnClock
    <3>2. CASE x # b
      <4>1. Accounted(x) /\ x \notin Holds(h) /\ worker[h].pc # "drop"
        BY <1>1, <1>6, <3>2
      <4>2. \A k \in Lease : lease[k].role = x => lease'[k] = lease[k]
        BY <2>1, <2>3, LeaseAssumption DEF LeaseInv, LeaseOK
      <4> QED
        BY <1>1, <1>2, <2>1, <4>1, <4>2 DEF Accounted, OwnClock
    <3> QED
      BY <3>1, <3>2
  <2> QED
    BY <1>5, <2>4, <2>5, <2>6, <2>7 DEF LeaseInv
<1>8. CASE ~known
  <2>1. lost' = lost \cup {b} /\ UNCHANGED lease
    BY <1>3, <1>8 DEF InsertLease
  <2>2. LeaseTypeOK'
    BY <1>1, <1>2, <2>1 DEF LeaseInv, LeaseTypeOK
  <2>3. \A g \in Handler \ {h} : HandlerOK(g)'
    <3>1. \A g \in Handler \ {h} : \A x \in Holds(g) : dbrole'[x] = dbrole[x]
      BY <1>1
    <3> QED
      BY <1>2, <1>4, <2>1, <3>1, OthersKeep
  <2>4. \A l \in Lease : LeaseOK(l)'
    BY <1>1, <2>1, LeasesStay
  <2>5. LoginAccounted'
    <3> SUFFICES ASSUME NEW x \in Role, CanLogIn(x)' PROVE Accounted(x)'
      BY DEF LoginAccounted
    <3>1. CASE x = b
      BY <2>1, <3>1 DEF Accounted, OwnClock
    <3>2. CASE x # b
      <4>1. Accounted(x) /\ x \notin Holds(h) /\ worker[h].pc # "drop"
        BY <1>1, <1>6, <3>2
      <4> QED
        BY <1>1, <1>2, <2>1, <4>1 DEF Accounted, OwnClock
    <3> QED
      BY <3>1, <3>2
  <2> QED
    BY <1>5, <2>2, <2>3, <2>4, <2>5 DEF LeaseInv
<1> QED
  BY <1>7, <1>8

\* The role's name is read from a live lease; one that was revoked ends the call.
LEMMA ReadLeaseKeeps ==
    ASSUME LeaseInv, NEW h \in Handler, ReadLease(h)
    PROVE  LeaseInv'
<1>1. /\ worker[h].pc = "read" /\ HandlerOK(h) /\ worker[h] \in Local
      /\ UNCHANGED <<now, skew, member, provider, dbrole, lease, lost>>
  BY DEF ReadLease, LeaseInv, LeaseTypeOK
<1>2. PICK l \in Lease : l = worker[h].lease
  BY <1>1 DEF HandlerOK
<1>3. PICK b \in Role \cup {None} : b = lease[l].role
  BY DEF LeaseInv, LeaseTypeOK, LeaseRow
<1>4. CASE Finish(h)
  <2>1. worker' = [worker EXCEPT ![h] = Idle] /\ Idle \in Local
    BY <1>4, LocalsBegin DEF Finish
  <2>2. worker'[h] = Idle
    BY <2>1, WorkerMoves DEF LeaseInv
  <2>3. HandlerOK(h)' /\ Holds(h)' = Holds(h)
    BY <1>1, <2>2 DEF HandlerOK, Holds, Idle
  <2> QED
    BY <1>1, <2>1, <2>3, LocalKeeps
<1>5. CASE worker' = [worker EXCEPT ![h].pc = "mark", ![h].role = b]
  <2> DEFINE w == [worker[h] EXCEPT !.pc = "mark", !.role = b]
  <2>1. w \in Local /\ w.pc = "mark" /\ w.role = b /\ w.lease = l
    BY <1>1, <1>2, LocalsType DEF Local
  <2>2. worker' = [worker EXCEPT ![h] = w]
    BY <1>5
  <2> HIDE DEF w
  <2>3. worker'[h] = w
    BY <2>1, <2>2, WorkerMoves DEF LeaseInv
  <2>4. HandlerOK(h)' /\ Holds(h)' = Holds(h)
    BY <1>1, <1>2, <1>3, <2>1, <2>3 DEF HandlerOK, Holds
  <2> QED
    BY <1>1, <2>1, <2>2, <2>4, LocalKeeps
<1> QED
  BY <1>2, <1>3, <1>4, <1>5 DEF ReadLease

\* The lease is marked before its role is dropped, whoever else marks it.
LEMMA MarkKeeps ==
    ASSUME LeaseInv, NEW h \in Handler, MarkRevoked(h)
    PROVE  LeaseInv'
<1>1. /\ worker[h].pc = "mark" /\ HandlerOK(h) /\ worker[h] \in Local
      /\ worker' = [worker EXCEPT ![h].pc = "drop"]
      /\ UNCHANGED <<now, skew, member, provider, dbrole, lost>>
  BY DEF MarkRevoked, Goto, LeaseInv, LeaseTypeOK
<1>2. PICK l \in Lease : /\ l = worker[h].lease /\ lease[l].state # "none"
                         /\ worker[h].role = lease[l].role
  BY <1>1 DEF HandlerOK
<1>3. PICK w \in Local : /\ worker' = [worker EXCEPT ![h] = w] /\ w.pc = "drop"
                         /\ w.lease = l /\ w.role = lease[l].role
  <2> DEFINE w == [worker[h] EXCEPT !.pc = "drop"]
  <2>1. w \in Local /\ w.pc = "drop" /\ w.lease = l /\ w.role = lease[l].role
    BY <1>1, <1>2, LocalsType DEF Local
  <2>2. worker' = [worker EXCEPT ![h] = w]
    BY <1>1
  <2> HIDE DEF w
  <2> QED
    BY <2>1, <2>2
<1>4. /\ worker' \in [Handler -> Local] /\ worker'[h] = w
      /\ \A g \in Handler \ {h} : worker'[g] = worker[g] /\ Holds(g)' = Holds(g)
  BY <1>3, WorkerMoves DEF LeaseInv
<1>5. /\ lease' \in [Lease -> LeaseRow] /\ \A k \in Lease \ {l} : lease'[k] = lease[k]
      /\ lease'[l].state = "revoked" /\ lease'[l].role = lease[l].role
      /\ lease'[l].expires = lease[l].expires
  <2> DEFINE v == [lease[l] EXCEPT !.state = "revoked"]
  <2>1. lease \in [Lease -> LeaseRow] /\ lease[l] \in LeaseRow
    BY DEF LeaseInv, LeaseTypeOK
  <2>2. v \in LeaseRow /\ v.state = "revoked" /\ v.role = lease[l].role
        /\ v.expires = lease[l].expires
    BY <2>1 DEF LeaseRow
  <2>3. lease' = [lease EXCEPT ![l] = v]
    BY <1>2 DEF MarkRevoked
  <2> HIDE DEF v
  <2> QED
    BY <2>1, <2>2, <2>3
<1>6. LeaseTypeOK'
  BY <1>1, <1>4, <1>5 DEF LeaseInv, LeaseTypeOK
<1>7. Holds(h) = {} /\ Holds(h)' = {}
  BY <1>1, <1>3, <1>4 DEF Holds
<1>8. \A k \in Lease : /\ lease'[k].role = lease[k].role
                       /\ lease[k].state # "none" => lease'[k].state # "none"
                       /\ lease[k].state = "revoked" => lease'[k].state = "revoked"
  BY <1>5
<1>9. \A g \in Handler : HandlerOK(g)'
  <2>1. \A g \in Handler \ {h} : HandlerOK(g)'
    BY <1>1, <1>4, <1>7, <1>8, OthersKeep
  <2>2. HandlerOK(h)'
    BY <1>3, <1>4, <1>5 DEF HandlerOK
  <2> QED
    BY <2>1, <2>2
<1>10. ASSUME NEW k \in Lease PROVE LeaseOK(k)'
  <2>1. /\ LeaseOK(k) /\ lease'[k].role = lease[k].role
        /\ lease'[k].expires = lease[k].expires
        /\ lease'[k].state = lease[k].state \/ (lease[k].state # "none" /\ lease'[k].state = "revoked")
    BY <1>2, <1>5 DEF LeaseInv
  <2> QED
    BY <1>1, <1>8, <2>1 DEF LeaseOK
<1>11. LoginAccounted'
  <2> SUFFICES ASSUME NEW x \in Role, CanLogIn(x)' PROVE Accounted(x)'
    BY DEF LoginAccounted
  <2>1. Accounted(x)
    BY <1>1 DEF CanLogIn, ProviderClock, LeaseInv, LoginAccounted
  <2>2. CASE x = lease[l].role
    BY <1>3, <1>4, <2>2 DEF Accounted, OwnClock
  <2>3. CASE x # lease[l].role
    <3>1. \A k \in Lease : lease[k].role = x => lease'[k] = lease[k]
      BY <1>5, <2>3
    <3> QED
      BY <1>1, <1>4, <1>7, <2>1, <3>1 DEF Accounted, OwnClock
  <2> QED
    BY <2>2, <2>3
<1> QED
  BY <1>6, <1>9, <1>10, <1>11 DEF LeaseInv

\* Whoever is cut off loses the role it has, to the accounts too.
LEMMA CutOffKeeps ==
    ASSUME LeaseInv, NEW h \in Handler, CutOff(h)
    PROVE  LeaseInv'
<1>1. /\ worker' = [worker EXCEPT ![h] = Idle] /\ HandlerOK(h)
      /\ UNCHANGED <<now, skew, member, provider, dbrole, lease>>
      /\ lost' = lost \cup Holds(h) \cup
                   (IF worker[h].pc = "drop" THEN {worker[h].role} ELSE {})
  BY DEF CutOff, Finish, LeaseInv
<1>2. /\ worker' \in [Handler -> Local] /\ worker'[h] = Idle
      /\ \A g \in Handler \ {h} : worker'[g] = worker[g] /\ Holds(g)' = Holds(g)
  BY <1>1, LocalsBegin, WorkerMoves DEF LeaseInv
<1>3. lost' \subseteq Role
  <2>1. worker[h].pc = "drop" => worker[h].role \in Role
    BY <1>1 DEF HandlerOK, LeaseInv, LeaseTypeOK, LeaseRow, LeaseOK
  <2>2. Holds(h) \subseteq Role
    BY <1>1 DEF HandlerOK, Holds
  <2> QED
    BY <1>1, <2>1, <2>2 DEF LeaseInv, LeaseTypeOK
<1>4. LeaseTypeOK'
  BY <1>1, <1>2, <1>3 DEF LeaseInv, LeaseTypeOK
<1>5. Holds(h)' = {}
  BY <1>2 DEF Holds, Idle
<1>6. \A g \in Handler : HandlerOK(g)'
  <2>1. \A g \in Handler \ {h} : HandlerOK(g)'
    BY <1>1, <1>2, <1>5, OthersKeep
  <2>2. HandlerOK(h)'
    BY <1>2 DEF HandlerOK, Idle
  <2> QED
    BY <2>1, <2>2
<1>7. \A l \in Lease : LeaseOK(l)'
  BY <1>1, LeasesStay
<1>8. LoginAccounted'
  <2> SUFFICES ASSUME NEW x \in Role, CanLogIn(x)' PROVE Accounted(x)'
    BY DEF LoginAccounted
  <2>1. Accounted(x)
    BY <1>1 DEF CanLogIn, ProviderClock, LeaseInv, LoginAccounted
  <2>2. CASE x \in Holds(h) \/ (worker[h].pc = "drop" /\ worker[h].role = x)
    BY <1>1, <2>2 DEF Accounted, OwnClock
  <2>3. CASE ~(x \in Holds(h) \/ (worker[h].pc = "drop" /\ worker[h].role = x))
    BY <1>1, <1>2, <2>1, <2>3 DEF Accounted, OwnClock
  <2> QED
    BY <2>2, <2>3
<1> QED
  BY <1>4, <1>6, <1>7, <1>8 DEF LeaseInv

\* The expiry worker marks leases that are over by its own clock.
LEMMA ExpireKeeps ==
    ASSUME LeaseInv, ExpireLeases
    PROVE  LeaseInv'
<1>1. UNCHANGED <<now, skew, member, provider, dbrole, worker, lost>>
  BY DEF ExpireLeases
<1>2. ASSUME NEW l \in Lease
      PROVE  /\ lease'[l] \in LeaseRow /\ lease'[l].role = lease[l].role
             /\ lease'[l].expires = lease[l].expires
             /\ \/ ~Overdue(l) /\ lease'[l].state = lease[l].state
                \/ Overdue(l) /\ lease'[l].state = "revoked"
  <2>1. lease[l] \in LeaseRow
    BY DEF LeaseInv, LeaseTypeOK
  <2>2. lease'[l] = IF Overdue(l) THEN [lease[l] EXCEPT !.state = "revoked"] ELSE lease[l]
    BY DEF ExpireLeases
  <2>3. CASE Overdue(l)
    <3>1. lease'[l] = [lease[l] EXCEPT !.state = "revoked"]
      BY <2>2, <2>3
    <3> QED
      BY <2>1, <2>3, <3>1 DEF LeaseRow
  <2>4. CASE ~Overdue(l)
    BY <2>1, <2>2, <2>4
  <2> QED
    BY <2>3, <2>4
<1>3. lease' \in [Lease -> LeaseRow]
  BY <1>2 DEF ExpireLeases
<1>4. LeaseTypeOK'
  BY <1>1, <1>3 DEF LeaseInv, LeaseTypeOK
<1>5. ASSUME NEW h \in Handler PROVE HandlerOK(h)'
  <2>1. HandlerOK(h) /\ \A g \in Handler : Holds(g)' = Holds(g)
    BY <1>1 DEF LeaseInv, Holds
  <2>2. \A l \in Lease : /\ lease'[l].role = lease[l].role
                         /\ lease[l].state # "none" => lease'[l].state # "none"
                         /\ lease[l].state = "revoked" => lease'[l].state = "revoked"
    BY <1>2 DEF Overdue
  <2> QED
    BY <1>1, <2>1, <2>2 DEF HandlerOK
<1>6. ASSUME NEW l \in Lease PROVE LeaseOK(l)'
  <2>1. LeaseOK(l) /\ \A k \in Lease : lease'[k].role = lease[k].role
    BY <1>2 DEF LeaseInv
  <2> QED
    BY <1>1, <1>2, <2>1 DEF LeaseOK, Overdue
<1>7. LoginAccounted'
  <2> SUFFICES ASSUME NEW x \in Role, CanLogIn(x)' PROVE Accounted(x)'
    BY DEF LoginAccounted
  <2>1. Accounted(x)
    BY <1>1 DEF CanLogIn, ProviderClock, LeaseInv, LoginAccounted
  <2>2. OwnClock' = OwnClock
    BY <1>1 DEF OwnClock
  <2>3. \A l \in Lease :
          lease[l].state = "live" => lease'[l].state = "live" \/ lease[l].expires < OwnClock
    BY <1>2 DEF Overdue
  <2>4. \A h \in Handler : Holds(h)' = Holds(h)
    BY <1>1 DEF Holds
  <2> QED
    BY <1>1, <1>2, <2>1, <2>2, <2>3, <2>4 DEF Accounted
<1> QED
  BY <1>4, <1>5, <1>6, <1>7 DEF LeaseInv

\* Time passes, members and providers change: nothing of it makes a role log in.
LEMMA RestKeeps ==
    ASSUME LeaseInv, Tick \/ Manage \/ UNCHANGED vars
    PROVE  LeaseInv'
<1>1. /\ UNCHANGED <<skew, dbrole, lease, worker, lost>>
      /\ now' = now \/ (now < MaxTime /\ now' = now + 1)
  BY DEF Tick, Manage, AddMember, CreateProvider, vars
<1>2. /\ now' \in Time
      /\ OwnClock \in Int /\ OwnClock' \in Int /\ OwnClock <= OwnClock'
      /\ ProviderClock \in Int /\ ProviderClock' \in Int /\ ProviderClock <= ProviderClock'
  <2>1. now \in Nat /\ skew.own \in Int /\ skew.provider \in Int
    BY ClockTypes DEF LeaseInv
  <2>2. now' \in Time /\ now' \in Nat /\ now <= now'
    BY <1>1, <2>1, LeaseAssumption DEF LeaseInv, LeaseTypeOK, Time
  <2> QED
    BY <1>1, <2>1, <2>2 DEF OwnClock, ProviderClock
<1>3. LeaseTypeOK'
  <2>1. member' \in [User -> Offered \cup {"owner"}]
    BY DEF Tick, Manage, AddMember, CreateProvider, vars, LeaseInv, LeaseTypeOK
  <2>2. provider' \in [Provider -> {"none", "postgres", "other"}]
    BY DEF Tick, Manage, AddMember, CreateProvider, vars, LeaseInv, LeaseTypeOK
  <2> QED
    BY <1>1, <1>2, <2>1, <2>2 DEF LeaseInv, LeaseTypeOK
<1>4. \A h \in Handler : Holds(h)' = Holds(h)
  BY <1>1 DEF Holds
<1>5. \A h \in Handler : HandlerOK(h)'
  BY <1>1, <1>4 DEF LeaseInv, HandlerOK
<1>6. \A l \in Lease : LeaseOK(l)'
  BY <1>1, LeasesStay
<1>7. LoginAccounted'
  <2> SUFFICES ASSUME NEW x \in Role, CanLogIn(x)' PROVE Accounted(x)'
    BY DEF LoginAccounted
  <2>1. dbrole[x].until \in Nat /\ dbrole[x].state = "live" /\ ProviderClock' < dbrole[x].until
    BY <1>1 DEF CanLogIn, LeaseInv, LeaseTypeOK, RoleState
  <2>2. ProviderClock < dbrole[x].until
    BY <1>2, <2>1
  <2>3. Accounted(x)
    BY <1>1, <2>1, <2>2 DEF CanLogIn, LeaseInv, LoginAccounted
  <2>4. \A l \in Lease : lease[l].expires \in Nat
    BY DEF LeaseInv, LeaseTypeOK, LeaseRow
  <2>5. \A l \in Lease : lease[l].expires < OwnClock => lease[l].expires < OwnClock'
    BY <1>2, <2>4
  <2> QED
    BY <1>1, <1>4, <2>3, <2>5 DEF Accounted
<1> QED
  BY <1>3, <1>5, <1>6, <1>7 DEF LeaseInv

-----------------------------------------------------------------------------
(* The theorems                                                            *)

\* Nothing is leased at first.
LEMMA InitLeases ==
    ASSUME Init
    PROVE  LeaseInv
<1>1. LeaseTypeOK
  <2>1. Idle \in Local
    BY LocalsBegin
  <2>2. NoRole \in RoleState /\ NoLease \in LeaseRow
    BY DEF NoRole, NoLease, RoleState, LeaseRow
  <2> QED
    BY <2>1, <2>2, LeaseAssumption DEF Init, LeaseTypeOK, Time
<1>2. \A h \in Handler : HandlerOK(h)
  BY DEF Init, HandlerOK, Idle
<1>3. \A l \in Lease : LeaseOK(l)
  BY DEF Init, LeaseOK, NoLease
<1>4. LoginAccounted
  BY DEF Init, LoginAccounted, CanLogIn, NoRole
<1> QED
  BY <1>1, <1>2, <1>3, <1>4 DEF LeaseInv

\* Every step in either database keeps the invariant.
LEMMA NextLeases ==
    ASSUME LeaseInv, [Next]_vars
    PROVE  LeaseInv'
<1>1. ASSUME NEW h \in Handler, Step(h) PROVE LeaseInv'
  BY <1>1, CreateRoleKeeps, GrantKeeps, DropKeeps, InsertKeeps, ReadLeaseKeeps, MarkKeeps
     DEF Step
<1>2. CASE Tick \/ Manage \/ UNCHANGED vars
  BY <1>2, RestKeeps
<1> QED
  BY <1>1, <1>2, ArriveKeeps, CutOffKeeps, ExpireKeeps DEF Next

\* The invariant of the leases and the roles they stand for.
THEOREM LeaseInvariance == Spec => []LeaseInv
<1>1. Init => LeaseInv
  BY InitLeases
<1>2. LeaseInv /\ [Next]_vars => LeaseInv'
  BY NextLeases
<1> QED
  BY <1>1, <1>2, PTL DEF Spec

\* Rows of both databases and the locals of handlers are well typed.
THEOREM LeaseTypeCorrect == Spec => []LeaseTypeOK
<1>1. LeaseInv => LeaseTypeOK
  BY DEF LeaseInv
<1> QED
  BY <1>1, LeaseInvariance, PTL

\* Wherever service.go is cut off between its two databases, and whatever their clocks
\* show: a lease has a role of its own that logs in until less than a second before the
\* lease is over and no longer, and a role that logs in has a lease, a handler, a
\* failure or a refused DROP to account for it, or a lease that is over elsewhere.
THEOREM LeasesAreLoginsAlways == Spec => []LeasesAreLogins
<1>1. ASSUME LeaseInv, NEW l \in Lease, lease[l].state = "live"
      PROVE  /\ ProviderClock + Second <= lease[l].expires => CanLogIn(lease[l].role)
             /\ CanLogIn(lease[l].role) => ProviderClock < lease[l].expires
             /\ \A k \in Lease \ {l} : lease[k].role # lease[l].role
  <2>1. /\ dbrole[lease[l].role].until = Until(lease[l].expires)
        /\ dbrole[lease[l].role].state = "live"
        /\ \A k \in Lease \ {l} : lease[k].role # lease[l].role
    BY <1>1 DEF LeaseInv, LeaseOK
  <2>2. PICK t \in Nat : t = lease[l].expires
    BY <1>1 DEF LeaseInv, LeaseTypeOK, LeaseRow
  <2>3. Until(t) \in Nat /\ Until(t) <= t /\ t < Until(t) + Second
    BY UntilCuts
  <2>4. ProviderClock \in Int /\ Second \in Nat
    BY <1>1, ClockTypes, LeaseAssumption DEF LeaseInv
  <2> QED
    BY <2>1, <2>2, <2>3, <2>4 DEF CanLogIn
<1>2. LeaseInv => LeasesAreLogins
  BY <1>1 DEF LeaseInv, LeasesAreLogins, LeaseWorks
<1> QED
  BY <1>2, LeaseInvariance, PTL
=============================================================================
