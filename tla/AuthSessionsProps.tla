--------------------------- MODULE AuthSessionsProps ---------------------------
(***************************************************************************)
(* What the sessions, the lockout and the backup codes guarantee.          *)
(***************************************************************************)
EXTENDS AuthSessions

AccountRow == [password: Nat, factor: Nat, setup: BOOLEAN]
TokenRow == [state: {"none", "live", "gone", "unstored"}, user: User \cup {None},
             parent: Token \cup {None}, via: Via, epoch: Nat, began: Nat]
ResetRow == [state: {"none", "live", "used", "expired"}, user: User \cup {None}]
CodeRow == [state: {"none", "unused", "used", "gone"}, user: User \cup {None}]
Local == [pc: PC, user: User \cup {None}, id: ResetToken \cup Code \cup {None},
          parent: Token \cup {None}, via: Via, epoch: Nat, began: Nat, left: Nat]

\* Rows and locals have the types of the columns and of the handlers' variables.
AuthTypeOK ==
    /\ account \in [User -> AccountRow]
    /\ token \in [Token -> TokenRow]
    /\ reset \in [ResetToken -> ResetRow]
    /\ code \in [Code -> CodeRow]
    /\ failures \in [User -> Nat]
    /\ challenge \subseteq User
    /\ worker \in [Worker -> Local]
    /\ accepted \in [Code -> Nat]
    /\ ended \in [User -> Nat]
    /\ kept \subseteq Token \cup {None}

Successors(t) == {x \in Token : token[x].parent = t}

\* Rotation: a token that a refresh has replaced does not work any more, so a
\* session never has an old and a new token that both work (refresh deletes
\* before issueTokens inserts), and a token has no more successors than handlers
\* can have read it at once.  Only a DELETE that failed unnoticed leaves another.
RotatedOut ==
    \A t \in Token \ kept :
        /\ Successors(t) # {} => token[t].state = "gone"
        /\ Cardinality(Successors(t)) <= Cardinality(Worker)

\* Lockout: wrong passwords beyond the maximum come only from logins that were
\* past IsLocked when the last failure was recorded.
LockoutHolds ==
    \A u \in User : failures[u] < MaxAttempts + Cardinality(Worker)

\* UseBackupCode: one code lets one login through.
CodeOnce == \A c \in Code : accepted[c] <= 1

\* A password alone opens no session while the second factor is on: a login that
\* started with the factor on issues a session only if it was turned off since, or
\* if the query for it failed, which login takes for a factor that is off.
SecondFactor ==
    [][\A t \in Token :
        token[t].state = "none" /\ token'[t].state = "live"
          /\ token'[t].parent = None /\ token'[t].via = "password"
        => ~ (/\ token'[t].began % 2 = 1
              /\ token'[t].began = account[token'[t].user].factor)]_vars

\* A password reset whose DELETE does not fail logs out every device, when no login or
\* refresh of that user was between its authentication and its INSERT as the sessions
\* were deleted.
SessionsEndAlone ==
    \A t \in Token :
        token[t].state = "live" => token[t].epoch >= ended[token[t].user]

-----------------------------------------------------------------------------
(* The inductive invariants                                                *)

\* What works belongs to a user, and a handler at work works for one.
Owned ==
    /\ \A t \in Token : token[t].state = "live" => token[t].user \in User
    /\ \A r \in ResetToken : reset[r].state = "live" => reset[r].user \in User
    /\ \A h \in Worker : worker[h].pc # "idle" => worker[h].user \in User
    /\ \A h \in Worker : worker[h].pc = "addCodes" => worker[h].left > 0

\* A code that may be used, or may come, was accepted by nobody.
CodesFresh ==
    \A c \in Code : code[c].state \in {"none", "unused"} => accepted[c] = 0

\* A login has no older token, and a refresh issues after it has deleted its own, or
\* failed to.
Rotating ==
    \A h \in Worker :
        /\ worker[h].pc \in {"load", "clear", "factor"} => worker[h].parent = None
        /\ worker[h].pc = "rotate" => worker[h].parent \in Token
        /\ worker[h].pc = "issue" /\ worker[h].parent # None =>
             worker[h].parent \in kept \/ token[worker[h].parent].state = "gone"

\* The handlers that have read t and not yet issued its successor.
Carriers(t) ==
    {h \in Worker : worker[h].parent = t /\ worker[h].pc \in {"rotate", "issue"}}

\* A token that is gone gains a successor only by a handler that read it before.
SuccessorsBounded ==
    \A t \in Token \ kept :
        /\ Successors(t) # {} => token[t].state = "gone"
        /\ IsFiniteSet(Successors(t))
        /\ Cardinality(Successors(t)) + Cardinality(Carriers(t)) <= Cardinality(Worker)

\* A login that started with the second factor on, and asked for it, is about to issue
\* a session only if the factor was turned off meanwhile.
FactorSeen ==
    \A h \in Worker :
        /\ worker[h].pc \in {"load", "clear", "factor"} =>
             worker[h].began <= account[worker[h].user].factor
        /\ /\ worker[h].pc = "issue" /\ worker[h].via = "password"
           /\ worker[h].parent = None /\ worker[h].began % 2 = 1
           => worker[h].began < account[worker[h].user].factor

\* The logins of u between IsLocked and RecordFailure.
Pending(u) == {h \in Worker : worker[h].user = u /\ worker[h].pc \in {"load", "fail"}}

FailuresBounded ==
    \A u \in User :
        failures[u] + Cardinality(Pending(u)) < MaxAttempts + Cardinality(Worker)

\* Whoever knows the password it was authenticated by knows one no older than the
\* last answered reset, and no reset is younger than the password.
EpochsFresh ==
    /\ \A h \in Worker : worker[h].pc \in {"clear", "factor", "rotate", "issue"} =>
         worker[h].epoch >= ended[worker[h].user]
    /\ \A h \in Worker : worker[h].pc \in {"markUsed", "endSessions"} =>
         worker[h].epoch <= account[worker[h].user].password
    /\ \A u \in User : ended[u] <= account[u].password

AuthInv == AuthTypeOK /\ Owned
=============================================================================
