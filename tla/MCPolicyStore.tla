---------------------------- MODULE MCPolicyStore ----------------------------
(***************************************************************************)
(* Small instances of the policy store for TLC.                            *)
(***************************************************************************)
EXTENDS PolicyStoreProps, FiniteSets, TLC

CONSTANTS s1

\* A single-use and a lasting policy, and input without one of the keys.
Short == [DefaultParameters("personal_session") EXCEPT !.maxDuration = 240]
Long == [DefaultParameters("api_key") EXCEPT !.coolDown = 5, !.maxDuration = 60]
Inputs == {Short, Long, [f \in Field \ {"consent"} |-> Short[f]]}

\* Nothing; looser; a key that does not exist; too long for single use.
Overrides == {<<>>, [coolDown |-> 0], [approvers |-> 1], [maxDuration |-> 480]}

Blocking == [NoCustom EXCEPT !.block = TRUE]
Customs == {Blocking}

OneSeed == <<[name |-> "default", type |-> "api_key"]>>
TwoNames == {"default", "own"}
Typed == s1 :> "api_key"

\* The policies' own boundaries.
Boundaries ==
    [reason: {0, 20}, dur: {0, 300}, today: {49}, since: {5, 20}]

\* Bound: a behaviour is about permissions, about custom policies, about seeding, or
\* about one template; two handlers work at once while no request was made, or while
\* one of them holds a number that was taken since it read it.
Busy == {h \in Handler : worker[h].pc # "idle"}
Live == {t \in Template : template[t].state # "none"}
Requests == {r \in Request : request[r].source # "none"}
Bindings == {s \in Secret : binding[s].template # None}
Customised == {x \in Secret \cup {Project} : custom[x] # NoCustom}
Permitting == \E h \in Busy : worker[h].agent # None
Versions == {<<t, n>> \in Template \X Number : version[t][n] # None}
Size == Cardinality(Busy) + Cardinality(Versions) + Cardinality(Requests) + Cardinality(Bindings)
Colliding == \E h \in Busy : worker[h].pc = "version" /\ Stored(worker[h].template, worker[h].number)
Focus ==
    /\ granted # {} \/ Permitting => Live = {} /\ Requests = {}
    /\ Customised # {} \/ deleted # {} => Size <= 2
    /\ Size <= IF Requests = {} /\ ~Colliding THEN 4 ELSE 5
    /\ Requests # {} => Cardinality(Busy) <= 1

Symmetry == Permutations(Template) \cup Permutations(Handler) \cup Permutations(Request)
=============================================================================
