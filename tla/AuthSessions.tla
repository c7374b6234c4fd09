----------------------------- MODULE AuthSessions -----------------------------
(***************************************************************************)
(* Sessions of users, server/internal/auth: login with lockout and second  *)
(* factor, refresh with rotation, password reset, and the management of    *)
(* the second factor and its backup codes.                                 *)
(*                                                                         *)
(* A Worker is a handler goroutine.  Each of its steps is one SQL          *)
(* statement or one call of the lockout map, none in a transaction.        *)
(* Access tokens are JWTs that nobody stores and have no state here.       *)
(***************************************************************************)
EXTENDS Naturals, FiniteSets

CONSTANTS
    User,          \* users with a password
    Token,         \* ids of refresh_tokens rows
    ResetToken,    \* ids of password_reset_tokens rows
    Code,          \* ids of backup_codes rows
    Worker,        \* handler goroutines
    None,          \* no value
    MaxAttempts,   \* failures that lock a login (maxLoginAttempts, 5)
    Batch,         \* backup codes made at a time (10)
    MaxPassword,   \* bound on password changes
    MaxToggle,     \* bound on how often a second factor is turned on or off
    Crashes,       \* whether handlers and the server may stop between two steps
    Lossy          \* whether statements whose error is ignored may fail

ASSUME IdsAssumption ==
    /\ None \notin User \cup Token \cup ResetToken \cup Code
    /\ MaxAttempts \in Nat \ {0} /\ Batch \in Nat \ {0}
    /\ MaxPassword \in Nat /\ MaxToggle \in Nat
    /\ IsFiniteSet(Worker) /\ Crashes \in BOOLEAN /\ Lossy \in BOOLEAN

VARIABLES
    account,       \* users: password version, second factor, pending setup
    token,         \* refresh_tokens
    reset,         \* password_reset_tokens
    code,          \* backup_codes
    failures,      \* LoginLockout: recent failures of each user
    challenge,     \* users somebody holds an unexpired TOTP token of
    worker,        \* what each handler goroutine holds in its locals
    accepted,      \* history: how often each backup code was accepted
    ended,         \* history: users' last resets that ended their sessions, as
                   \* password versions
    kept           \* history: tokens that a refresh failed to delete

vars == <<account, token, reset, code, failures, challenge, worker, accepted, ended, kept>>

\* How a session was authenticated; "unasked" by a password whose owner was not asked
\* for the second factor, because the query for it failed.
Via == {"password", "google", "totp", "unasked"}
PC == {"idle", "load", "fail", "clear", "factor", "rotate", "issue", "setPassword",
       "markUsed", "endSessions", "saveSetup", "enable", "disable", "dropCodes",
       "addCodes", "useCode"}

NoToken == [state |-> "none", user |-> None, parent |-> None, via |-> "password",
            epoch |-> 0, began |-> 0]
NoReset == [state |-> "none", user |-> None]
NoCode == [state |-> "none", user |-> None]

\* Ghosts: epoch is the password version the session's authentication saw, and
\* began the state of the second factor when it started.
Idle == [pc |-> "idle", user |-> None, id |-> None, parent |-> None,
         via |-> "password", epoch |-> 0, began |-> 0, left |-> 0]

Init ==
    /\ account = [u \in User |-> [password |-> 0, factor |-> 0, setup |-> FALSE]]
    /\ token = [t \in Token |-> NoToken]
    /\ reset = [r \in ResetToken |-> NoReset]
    /\ code = [c \in Code |-> NoCode]
    /\ failures = [u \in User |-> 0]
    /\ challenge = {}
    /\ worker = [h \in Worker |-> Idle]
    /\ accepted = [c \in Code |-> 0]
    /\ ended = [u \in User |-> 0]
    /\ kept = {}

\* factor counts the changes of totp_enabled: odd is on.
Enabled(u) == account[u].factor % 2 = 1

Start(h, w) == worker[h].pc = "idle" /\ worker' = [worker EXCEPT ![h] = w]
Goto(h, pc) == worker' = [worker EXCEPT ![h].pc = pc]
Finish(h) == worker' = [worker EXCEPT ![h] = Idle]

\* A deleted or expired row; who descends from it is remembered.
Gone(t) == [NoToken EXCEPT !.state = "gone", !.parent = token[t].parent]

Codes(u) == {c \in Code : code[c].state = "unused" /\ code[c].user = u}

-----------------------------------------------------------------------------
(* POST /auth/login                                                        *)

\* Mutant: an off-by-one in the threshold.
IsLockedLate(u) == failures[u] > MaxAttempts

IsLocked(u) == failures[u] >= MaxAttempts

\* IsLocked first, before any database work.
Login(h, u) ==
    /\ ~IsLocked(u)
    /\ Start(h, [Idle EXCEPT !.pc = "load", !.user = u,
                             !.began = account[u].factor])
    /\ UNCHANGED <<account, token, reset, code, failures, challenge, accepted, ended, kept>>

\* Read the hash; the password given is the user's, or is not.
LoadUser(h) ==
    LET w == worker[h] IN
    /\ w.pc = "load"
    /\ \E pc \in {"clear", "fail"} :
         worker' = [worker EXCEPT ![h].epoch = account[w.user].password, ![h].pc = pc]
    /\ UNCHANGED <<account, token, reset, code, failures, challenge, accepted, ended, kept>>

RecordFailure(h) ==
    /\ worker[h].pc = "fail"
    /\ failures' = [failures EXCEPT ![worker[h].user] = @ + 1]
    /\ Finish(h)
    /\ UNCHANGED <<account, token, reset, code, challenge, accepted, ended, kept>>

ClearFailures(h) ==
    /\ worker[h].pc = "clear"
    /\ failures' = [failures EXCEPT ![worker[h].user] = 0]
    /\ Goto(h, "factor")
    /\ UNCHANGED <<account, token, reset, code, challenge, accepted, ended, kept>>

\* Mutant: the challenge is made and the session issued all the same.
CheckFactorBoth(h) ==
    LET u == worker[h].user IN
    /\ worker[h].pc = "factor"
    /\ challenge' = IF Enabled(u) THEN challenge \cup {u} ELSE challenge
    /\ Goto(h, "issue")
    /\ UNCHANGED <<account, token, reset, code, failures, accepted, ended, kept>>

\* A user with a second factor gets a challenge instead of a session.  A query
\* that fails counts as no second factor.
CheckFactor(h) ==
    LET u == worker[h].user IN
    /\ worker[h].pc = "factor"
    /\ \/ Enabled(u) /\ challenge' = challenge \cup {u} /\ Finish(h)
       \/ ~Enabled(u) /\ UNCHANGED challenge /\ Goto(h, "issue")
       \/ /\ Enabled(u) /\ Lossy /\ UNCHANGED challenge
          /\ worker' = [worker EXCEPT ![h].pc = "issue", ![h].via = "unasked"]
    /\ UNCHANGED <<account, token, reset, code, failures, accepted, ended, kept>>

\* issueTokens: the INSERT that makes a session.
IssueTokens(h) ==
    LET w == worker[h] IN
    /\ w.pc = "issue"
    /\ \E t \in Token :
        /\ token[t].state = "none"
        /\ token' = [token EXCEPT ![t] =
             [state |-> "live", user |-> w.user, parent |-> w.parent, via |-> w.via,
              epoch |-> w.epoch, began |-> w.began]]
    /\ Finish(h)
    /\ UNCHANGED <<account, reset, code, failures, challenge, accepted, ended, kept>>

\* Google's callback issues a session as well, without lockout or challenge.
GoogleCallback(h, u) ==
    /\ Start(h, [Idle EXCEPT !.pc = "issue", !.user = u, !.via = "google",
                             !.epoch = account[u].password])
    /\ UNCHANGED <<account, token, reset, code, failures, challenge, accepted, ended, kept>>

-----------------------------------------------------------------------------
(* POST /auth/totp/validate                                                *)

\* The answer to a challenge carries a refresh token that is not stored.
HandOut(u) ==
    \E t \in Token :
        /\ token[t].state = "none"
        /\ token' = [token EXCEPT ![t] =
             [NoToken EXCEPT !.state = "unstored", !.user = u, !.via = "totp",
                             !.epoch = account[u].password]]

\* The challenge is a JWT that works until it expires.  A right TOTP code is
\* enough; any other code is tried as a backup code.
Validate(h, u) ==
    /\ u \in challenge
    /\ Enabled(u)
    /\ \/ /\ worker[h].pc = "idle"
          /\ HandOut(u)
          /\ UNCHANGED worker
       \/ /\ \E c \in Code : Start(h, [Idle EXCEPT !.pc = "useCode", !.user = u, !.id = c])
          /\ UNCHANGED token
    /\ UNCHANGED <<account, reset, code, failures, challenge, accepted, ended, kept>>

\* Mutant: the UPDATE does not ask for an unused code.
UsableAgain(u, c) == code[c].user = u /\ code[c].state \in {"unused", "used"}

Usable(u, c) == code[c].user = u /\ code[c].state = "unused"

\* UPDATE backup_codes SET used = true WHERE .. AND used = false.
UseBackupCode(h) ==
    LET w == worker[h] IN
    /\ w.pc = "useCode"
    /\ IF Usable(w.user, w.id)
       THEN /\ code' = [code EXCEPT ![w.id].state = "used"]
            /\ accepted' = [accepted EXCEPT ![w.id] = @ + 1]
            /\ HandOut(w.user)
       ELSE UNCHANGED <<code, accepted, token>>
    /\ Finish(h)
    /\ UNCHANGED <<account, reset, failures, challenge, ended, kept>>

-----------------------------------------------------------------------------
(* POST /auth/refresh                                                      *)

\* SELECT the row; an expired one is refused.
Refresh(h, t) ==
    /\ token[t].state = "live"
    /\ Start(h, [Idle EXCEPT !.pc = "rotate", !.user = token[t].user, !.parent = t,
                   !.via = token[t].via, !.epoch = token[t].epoch,
                   !.began = token[t].began])
    /\ UNCHANGED <<account, token, reset, code, failures, challenge, accepted, ended, kept>>

\* Mutant: the old token is kept.
RotateNothing(h) ==
    /\ worker[h].pc = "rotate"
    /\ Goto(h, "issue")
    /\ UNCHANGED <<account, token, reset, code, failures, challenge, accepted, ended, kept>>

\* DELETE the old token; neither the error nor the number of rows is looked at.
Rotate(h) ==
    LET t == worker[h].parent IN
    /\ worker[h].pc = "rotate"
    /\ \/ token' = [token EXCEPT ![t] = Gone(t)] /\ UNCHANGED kept
       \/ Lossy /\ kept' = kept \cup {t} /\ UNCHANGED token
    /\ Goto(h, "issue")
    /\ UNCHANGED <<account, reset, code, failures, challenge, accepted, ended>>

-----------------------------------------------------------------------------
(* POST /auth/forgot-password, /auth/reset-password                        *)

\* A background goroutine stores a token and mails it; older ones stay.
ForgotPassword(u) ==
    /\ \E r \in ResetToken :
        /\ reset[r].state = "none"
        /\ reset' = [reset EXCEPT ![r] = [state |-> "live", user |-> u]]
    /\ UNCHANGED <<account, token, code, failures, challenge, worker, accepted, ended, kept>>

ResetPassword(h, r) ==
    /\ reset[r].state = "live"
    /\ Start(h, [Idle EXCEPT !.pc = "setPassword", !.user = reset[r].user, !.id = r])
    /\ UNCHANGED <<account, token, reset, code, failures, challenge, accepted, ended, kept>>

SetPassword(h) ==
    LET u == worker[h].user IN
    /\ worker[h].pc = "setPassword"
    /\ account[u].password < MaxPassword
    /\ account' = [account EXCEPT ![u].password = @ + 1]
    /\ worker' = [worker EXCEPT ![h].pc = "markUsed",
                                ![h].epoch = account[u].password + 1]
    /\ UNCHANGED <<token, reset, code, failures, challenge, accepted, ended, kept>>

MarkUsed(h) ==
    /\ worker[h].pc = "markUsed"
    /\ \/ reset' = [reset EXCEPT ![worker[h].id].state = "used"]
       \/ Lossy /\ UNCHANGED reset
    /\ Goto(h, "endSessions")
    /\ UNCHANGED <<account, token, code, failures, challenge, accepted, ended, kept>>

\* Mutant: only the sessions of password logins end.
OfUserByPassword(u) ==
    {t \in Token : token[t].state = "live" /\ token[t].user = u /\ token[t].via = "password"}

OfUser(u) == {t \in Token : token[t].state = "live" /\ token[t].user = u}

\* The handlers that will issue a session of u on an authentication they have
\* already seen.
Authenticated(u) ==
    {h \in Worker : worker[h].user = u
                     /\ worker[h].pc \in {"clear", "factor", "rotate", "issue"}}

Later(a, b) == IF a > b THEN a ELSE b

\* DELETE FROM refresh_tokens WHERE user_id: log out every device, and answer.
EndSessions(h) ==
    LET w == worker[h] IN
    /\ w.pc = "endSessions"
    /\ \/ /\ token' = [t \in Token |-> IF t \in OfUser(w.user)
                                       THEN Gone(t) ELSE token[t]]
          /\ ended' = IF Authenticated(w.user) = {}
                      THEN [ended EXCEPT ![w.user] = Later(@, w.epoch)] ELSE ended
       \/ Lossy /\ UNCHANGED <<token, ended>>
    /\ Finish(h)
    /\ UNCHANGED <<account, reset, code, failures, challenge, accepted, kept>>

-----------------------------------------------------------------------------
(* /me/totp: setup, verify, disable, new backup codes                      *)

Setup(h, u) ==
    /\ ~Enabled(u) \/ Lossy
    /\ account[u].factor < MaxToggle
    /\ Start(h, [Idle EXCEPT !.pc = "saveSetup", !.user = u])
    /\ UNCHANGED <<account, token, reset, code, failures, challenge, accepted, ended, kept>>

SetSetupSecret(h) ==
    /\ worker[h].pc = "saveSetup"
    /\ account' = [account EXCEPT ![worker[h].user].setup = TRUE]
    /\ Finish(h)
    /\ UNCHANGED <<token, reset, code, failures, challenge, accepted, ended, kept>>

\* The pending secret is read and the code checked against it.
Verify(h, u) ==
    /\ account[u].setup
    /\ account[u].factor < MaxToggle
    /\ Start(h, [Idle EXCEPT !.pc = "enable", !.user = u])
    /\ UNCHANGED <<account, token, reset, code, failures, challenge, accepted, ended, kept>>

Disable(h, u) ==
    /\ Enabled(u)
    /\ account[u].factor < MaxToggle
    /\ Start(h, [Idle EXCEPT !.pc = "disable", !.user = u])
    /\ UNCHANGED <<account, token, reset, code, failures, challenge, accepted, ended, kept>>

RegenerateBackup(h, u) ==
    /\ Enabled(u)
    /\ Start(h, [Idle EXCEPT !.pc = "dropCodes", !.user = u, !.left = Batch])
    /\ UNCHANGED <<account, token, reset, code, failures, challenge, accepted, ended, kept>>

\* The factor is on from here, its backup codes come later.
EnableTOTP(h) ==
    LET u == worker[h].user IN
    /\ worker[h].pc = "enable"
    /\ account' = [account EXCEPT ![u].factor = IF Enabled(u) THEN @ ELSE @ + 1,
                                  ![u].setup = FALSE]
    /\ worker' = [worker EXCEPT ![h].pc = "dropCodes", ![h].left = Batch]
    /\ UNCHANGED <<token, reset, code, failures, challenge, accepted, ended, kept>>

DisableTOTP(h) ==
    LET u == worker[h].user IN
    /\ worker[h].pc = "disable"
    /\ account' = [account EXCEPT ![u].factor = IF Enabled(u) THEN @ + 1 ELSE @,
                                  ![u].setup = FALSE]
    /\ Goto(h, "dropCodes")
    /\ UNCHANGED <<token, reset, code, failures, challenge, accepted, ended, kept>>

\* DELETE the user's codes; for a new set, their INSERTs follow one by one.
DropCodes(h) ==
    LET w == worker[h] IN
    /\ w.pc = "dropCodes"
    /\ code' = [c \in Code |-> IF code[c].user = w.user
                               THEN [code[c] EXCEPT !.state = "gone"] ELSE code[c]]
    /\ IF w.left = 0 THEN Finish(h) ELSE Goto(h, "addCodes")
    /\ UNCHANGED <<account, token, reset, failures, challenge, accepted, ended, kept>>

AddCode(h) ==
    LET w == worker[h] IN
    /\ w.pc = "addCodes"
    /\ \E c \in Code :
        /\ code[c].state = "none"
        /\ code' = [code EXCEPT ![c] = [state |-> "unused", user |-> w.user]]
    /\ IF w.left = 1 THEN Finish(h) ELSE worker' = [worker EXCEPT ![h].left = @ - 1]
    /\ UNCHANGED <<account, token, reset, failures, challenge, accepted, ended, kept>>

-----------------------------------------------------------------------------
(* Time, failures                                                          *)

\* Mutant: the counter goes below zero.
ForgetFailureAnyway(u) == failures' = [failures EXCEPT ![u] = @ - 1]

\* A failure leaves the lockout window.
ForgetFailure(u) == failures[u] > 0 /\ failures' = [failures EXCEPT ![u] = @ - 1]

\* A failure, a refresh token, a reset token or a challenge grows too old.
Expire ==
    /\ \/ /\ \E u \in User : ForgetFailure(u)
          /\ UNCHANGED <<token, reset, challenge>>
       \/ /\ \E t \in Token : /\ token[t].state = "live"
                              /\ token' = [token EXCEPT ![t] = Gone(t)]
          /\ UNCHANGED <<failures, reset, challenge>>
       \/ /\ \E r \in ResetToken : /\ reset[r].state = "live"
                                   /\ reset' = [reset EXCEPT ![r].state = "expired"]
          /\ UNCHANGED <<failures, token, challenge>>
       \/ /\ \E u \in challenge : challenge' = challenge \ {u}
          /\ UNCHANGED <<failures, token, reset>>
    /\ UNCHANGED <<account, code, worker, accepted, ended, kept>>

\* A statement fails or a caller goes away.
Abort(h) ==
    /\ Crashes
    /\ worker[h].pc # "idle"
    /\ Finish(h)
    /\ UNCHANGED <<account, token, reset, code, failures, challenge, accepted, ended, kept>>

\* The server restarts: the lockout map lives in memory.
Restart ==
    /\ Crashes
    /\ failures' = [u \in User |-> 0]
    /\ worker' = [h \in Worker |-> Idle]
    /\ UNCHANGED <<account, token, reset, code, challenge, accepted, ended, kept>>

Step(h) ==
    \/ LoadUser(h) \/ RecordFailure(h) \/ ClearFailures(h) \/ CheckFactor(h)
    \/ IssueTokens(h) \/ UseBackupCode(h) \/ Rotate(h)
    \/ SetPassword(h) \/ MarkUsed(h) \/ EndSessions(h)
    \/ SetSetupSecret(h) \/ EnableTOTP(h) \/ DisableTOTP(h)
    \/ DropCodes(h) \/ AddCode(h)

Arrive(h) ==
    \/ \E u \in User :
        \/ Login(h, u) \/ GoogleCallback(h, u) \/ Validate(h, u)
        \/ Setup(h, u) \/ Verify(h, u) \/ Disable(h, u) \/ RegenerateBackup(h, u)
    \/ \E t \in Token : Refresh(h, t)
    \/ \E r \in ResetToken : ResetPassword(h, r)

Next ==
    \/ \E h \in Worker : Arrive(h) \/ Step(h) \/ Abort(h)
    \/ \E u \in User : ForgotPassword(u)
    \/ Expire
    \/ Restart

Spec == Init /\ [][Next]_vars
=============================================================================
