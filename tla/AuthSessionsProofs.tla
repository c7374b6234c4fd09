-------------------------- MODULE AuthSessionsProofs --------------------------
(***************************************************************************)
(* Proofs about the sessions, the lockout and the backup codes, for any    *)
(* users, handlers and limits, with any pattern of failures and restarts.  *)
(***************************************************************************)
EXTENDS AuthSessionsProps, FiniteSetTheorems, TLAPS

-----------------------------------------------------------------------------
(* Type correctness                                                        *)

\* An idle handler's locals are well typed.
LEMMA IdleTyped == Idle \in Local /\ Idle.pc = "idle"
  BY DEF Idle, Local, PC, Via

\* A row that is deleted stays a row.
LEMMA GoneTyped ==
    ASSUME AuthTypeOK, NEW t \in Token
    PROVE  Gone(t) \in TokenRow /\ Gone(t).state = "gone" /\ Gone(t).parent = token[t].parent
  BY DEF Gone, NoToken, AuthTypeOK, TokenRow, Via

\* The initial state is well typed and nobody works.
LEMMA InitTyped == Init => AuthInv
<1>1. /\ NoToken \in TokenRow /\ NoToken.state = "none"
      /\ NoReset \in ResetRow /\ NoReset.state = "none"
      /\ NoCode \in CodeRow
  BY DEF NoToken, NoReset, NoCode, TokenRow, ResetRow, CodeRow, Via
<1> QED
  BY <1>1, IdleTyped DEF Init, AuthInv, AuthTypeOK, Owned, AccountRow

\* A handler that starts with well-typed locals for a user.
LEMMA StartTyped ==
    ASSUME AuthInv, NEW h \in Worker, NEW w \in Local, Start(h, w), w.user \in User,
           w.pc # "addCodes",
           UNCHANGED <<account, token, reset, code, failures, challenge, accepted, ended, kept>>
    PROVE  AuthInv'
  BY DEF Start, AuthInv, AuthTypeOK, Owned

\* A handler that finishes.
LEMMA FinishTyped ==
    ASSUME AuthTypeOK, NEW h \in Worker, Finish(h)
    PROVE  /\ worker' \in [Worker -> Local]
           /\ \A g \in Worker \ {h} : worker'[g] = worker[g]
           /\ worker'[h] = Idle
  BY IdleTyped DEF Finish, AuthTypeOK

\* A handler that goes on.
LEMMA GotoTyped ==
    ASSUME AuthTypeOK, NEW h \in Worker, NEW pc \in PC, Goto(h, pc)
    PROVE  /\ worker' \in [Worker -> Local]
           /\ \A g \in Worker \ {h} : worker'[g] = worker[g]
           /\ worker'[h].pc = pc
           /\ worker'[h].user = worker[h].user /\ worker'[h].parent = worker[h].parent
           /\ worker'[h].via = worker[h].via /\ worker'[h].began = worker[h].began
           /\ worker'[h].epoch = worker[h].epoch /\ worker'[h].left = worker[h].left
  BY DEF Goto, AuthTypeOK, Local

\* A refresh token that is handed out without a row.
LEMMA HandOutTyped ==
    ASSUME AuthTypeOK, NEW u \in User, HandOut(u)
    PROVE  /\ token' \in [Token -> TokenRow]
           /\ \A t \in Token : token'[t] = token[t]
                \/ (token[t].state = "none" /\ token'[t].state = "unstored"
                    /\ token'[t].parent = None)
<1>1. [NoToken EXCEPT !.state = "unstored", !.user = u, !.via = "totp",
                      !.epoch = account[u].password] \in TokenRow
  BY DEF NoToken, TokenRow, Via, AuthTypeOK, AccountRow
<1> QED
  BY <1>1 DEF HandOut, NoToken, AuthTypeOK

\* Every arrival starts a well-typed handler or hands a token out.
LEMMA ArriveTyped ==
    ASSUME AuthInv, NEW h \in Worker, Arrive(h)
    PROVE  AuthInv'
<1>1. ASSUME NEW u \in User, Login(h, u) PROVE AuthInv'
  <2> DEFINE w == [Idle EXCEPT !.pc = "load", !.user = u, !.began = account[u].factor]
  <2>1. w \in Local /\ w.user \in User /\ w.pc # "addCodes"
    BY IdleTyped DEF Idle, Local, PC, AuthInv, AuthTypeOK, AccountRow
  <2> QED
    BY <1>1, <2>1, StartTyped DEF Login
<1>2. ASSUME NEW u \in User, GoogleCallback(h, u) PROVE AuthInv'
  <2> DEFINE w == [Idle EXCEPT !.pc = "issue", !.user = u, !.via = "google",
                               !.epoch = account[u].password]
  <2>1. w \in Local /\ w.user \in User /\ w.pc # "addCodes"
    BY IdleTyped DEF Idle, Local, PC, Via, AuthInv, AuthTypeOK, AccountRow
  <2> QED
    BY <1>2, <2>1, StartTyped DEF GoogleCallback
<1>3. ASSUME NEW u \in User, Setup(h, u) \/ Verify(h, u) \/ Disable(h, u) \/ RegenerateBackup(h, u)
      PROVE  AuthInv'
  <2>1. \A pc \in {"saveSetup", "enable", "disable"} :
          LET w == [Idle EXCEPT !.pc = pc, !.user = u] IN
          w \in Local /\ w.user \in User /\ w.pc # "addCodes"
    BY IdleTyped DEF Idle, Local, PC
  <2>2. LET w == [Idle EXCEPT !.pc = "dropCodes", !.user = u, !.left = Batch] IN
        w \in Local /\ w.user \in User /\ w.pc # "addCodes"
    BY IdleTyped, IdsAssumption DEF Idle, Local, PC
  <2> QED
    BY <1>3, <2>1, <2>2, StartTyped DEF Setup, Verify, Disable, RegenerateBackup
<1>4. ASSUME NEW t \in Token, Refresh(h, t) PROVE AuthInv'
  <2> DEFINE w == [Idle EXCEPT !.pc = "rotate", !.user = token[t].user, !.parent = t,
                     !.via = token[t].via, !.epoch = token[t].epoch, !.began = token[t].began]
  <2>1. token[t] \in TokenRow /\ token[t].user \in User
    BY <1>4 DEF Refresh, AuthInv, AuthTypeOK, Owned
  <2>2. w \in Local /\ w.user \in User /\ w.pc # "addCodes"
    BY <2>1, IdleTyped DEF Idle, Local, PC, TokenRow
  <2> QED
    BY <1>4, <2>2, StartTyped DEF Refresh
<1>5. ASSUME NEW r \in ResetToken, ResetPassword(h, r) PROVE AuthInv'
  <2> DEFINE w == [Idle EXCEPT !.pc = "setPassword", !.user = reset[r].user, !.id = r]
  <2>1. reset[r].user \in User
    BY <1>5 DEF ResetPassword, AuthInv, Owned
  <2>2. w \in Local /\ w.user \in User /\ w.pc # "addCodes"
    BY <2>1, IdleTyped DEF Idle, Local, PC
  <2> QED
    BY <1>5, <2>2, StartTyped DEF ResetPassword
<1>6. ASSUME NEW u \in User, Validate(h, u) PROVE AuthInv'
  <2>1. CASE HandOut(u) /\ UNCHANGED worker
    BY <1>6, <2>1, HandOutTyped DEF Validate, AuthInv, AuthTypeOK, Owned
  <2>2. ASSUME NEW c \in Code, Start(h, [Idle EXCEPT !.pc = "useCode", !.user = u, !.id = c]),
               UNCHANGED token
        PROVE  AuthInv'
    <3> DEFINE w == [Idle EXCEPT !.pc = "useCode", !.user = u, !.id = c]
    <3>1. w \in Local /\ w.user \in User /\ w.pc # "addCodes"
      BY IdleTyped DEF Idle, Local, PC
    <3> QED
      BY <1>6, <2>2, <3>1, StartTyped DEF Validate
  <2> QED
    BY <1>6, <2>1, <2>2 DEF Validate
<1> QED
  BY <1>1, <1>2, <1>3, <1>4, <1>5, <1>6 DEF Arrive
\* The steps of a login and a refresh keep the types.
LEMMA LoginStepsTyped ==
    ASSUME AuthInv, NEW h \in Worker,
           \/ LoadUser(h) \/ RecordFailure(h) \/ ClearFailures(h) \/ CheckFactor(h)
           \/ IssueTokens(h) \/ Rotate(h)
    PROVE  AuthInv'
<1>1. AuthTypeOK /\ worker[h] \in Local /\ (worker[h].pc # "idle" => worker[h].user \in User)
  BY DEF AuthInv, AuthTypeOK, Owned
<1>2. CASE LoadUser(h)
  <2>1. PICK pc \in {"clear", "fail"} :
          worker' = [worker EXCEPT ![h].epoch = account[worker[h].user].password, ![h].pc = pc]
    BY <1>2 DEF LoadUser
  <2>2. account[worker[h].user].password \in Nat /\ worker[h].user \in User
    BY <1>1, <1>2 DEF LoadUser, AuthTypeOK, AccountRow
  <2>3. /\ worker' \in [Worker -> Local]
        /\ \A g \in Worker \ {h} : worker'[g] = worker[g]
        /\ worker'[h].pc = pc /\ worker'[h].user = worker[h].user
    BY <1>1, <2>1, <2>2 DEF AuthTypeOK, Local, PC
  <2> QED
    BY <1>2, <2>2, <2>3 DEF LoadUser, AuthInv, AuthTypeOK, Owned
<1>3. CASE RecordFailure(h)
  <2>1. failures' \in [User -> Nat]
    BY <1>1, <1>3 DEF RecordFailure, AuthTypeOK
  <2> QED
    BY <1>1, <1>3, <2>1, FinishTyped, IdleTyped DEF RecordFailure, AuthInv, AuthTypeOK, Owned
<1>4. CASE ClearFailures(h)
  <2>1. failures' \in [User -> Nat]
    BY <1>1, <1>4 DEF ClearFailures, AuthTypeOK
  <2>2. worker'[h].pc = "factor" /\ worker'[h].user = worker[h].user
        /\ worker' \in [Worker -> Local] /\ \A g \in Worker \ {h} : worker'[g] = worker[g]
    <3>1. Goto(h, "factor") /\ "factor" \in PC
      BY <1>4 DEF ClearFailures, PC
    <3> QED
      BY <1>1, <3>1, GotoTyped
  <2> QED
    BY <1>1, <1>4, <2>1, <2>2 DEF ClearFailures, AuthInv, AuthTypeOK, Owned
<1>5. CASE CheckFactor(h)
  <2>1. worker[h].user \in User /\ challenge' \subseteq User
        /\ UNCHANGED <<account, token, reset, code, failures, accepted, ended, kept>>
    BY <1>1, <1>5 DEF CheckFactor, AuthTypeOK
  <2>2. CASE Finish(h)
    BY <1>1, <2>1, <2>2, FinishTyped, IdleTyped DEF AuthInv, AuthTypeOK, Owned
  <2>3. CASE Goto(h, "issue")
    <3>1. worker'[h].pc = "issue" /\ worker'[h].user = worker[h].user
          /\ worker' \in [Worker -> Local] /\ \A g \in Worker \ {h} : worker'[g] = worker[g]
      <4>1. "issue" \in PC
        BY DEF PC
      <4> QED
        BY <1>1, <2>3, <4>1, GotoTyped
    <3> QED
      BY <1>1, <2>1, <3>1 DEF AuthInv, AuthTypeOK, Owned
  <2>4. CASE worker' = [worker EXCEPT ![h].pc = "issue", ![h].via = "unasked"]
    <3>1. worker'[h].pc = "issue" /\ worker'[h].user = worker[h].user
          /\ worker' \in [Worker -> Local] /\ \A g \in Worker \ {h} : worker'[g] = worker[g]
      BY <1>1, <2>4 DEF AuthTypeOK, Local, PC, Via
    <3> QED
      BY <1>1, <2>1, <3>1 DEF AuthInv, AuthTypeOK, Owned
  <2> QED
    BY <1>5, <2>2, <2>3, <2>4 DEF CheckFactor
<1>6. CASE IssueTokens(h)
  <2> DEFINE w == worker[h]
             row == [state |-> "live", user |-> w.user, parent |-> w.parent, via |-> w.via,
                     epoch |-> w.epoch, began |-> w.began]
  <2>1. row \in TokenRow /\ row.user \in User
    BY <1>1, <1>6 DEF IssueTokens, Local, TokenRow
  <2>2. PICK t \in Token : token' = [token EXCEPT ![t] = row]
    BY <1>6 DEF IssueTokens
  <2> HIDE DEF row
  <2>3. token' \in [Token -> TokenRow]
        /\ \A s \in Token : token'[s].state = "live" => token'[s].user \in User
    BY <1>1, <2>1, <2>2 DEF AuthInv, AuthTypeOK, Owned
  <2> QED
    BY <1>1, <1>6, <2>3, FinishTyped, IdleTyped DEF IssueTokens, AuthInv, AuthTypeOK, Owned
<1>7. CASE Rotate(h)
  <2>1. token' \in [Token -> TokenRow]
        /\ \A s \in Token : token'[s].state = "live" => token'[s].user \in User
    BY <1>1, <1>7, GoneTyped DEF Rotate, AuthInv, AuthTypeOK, Owned
  <2>2. worker'[h].pc = "issue" /\ worker'[h].user = worker[h].user
        /\ worker' \in [Worker -> Local] /\ \A g \in Worker \ {h} : worker'[g] = worker[g]
    <3>1. Goto(h, "issue") /\ "issue" \in PC
      BY <1>7 DEF Rotate, PC
    <3> QED
      BY <1>1, <3>1, GotoTyped
  <2>3. kept' \subseteq Token \cup {None}
    BY <1>1, <1>7 DEF Rotate, AuthTypeOK, Local
  <2> QED
    BY <1>1, <1>7, <2>1, <2>2, <2>3 DEF Rotate, AuthInv, AuthTypeOK, Owned
<1> QED
  BY <1>2, <1>3, <1>4, <1>5, <1>6, <1>7
\* The steps of a password reset keep the types.
LEMMA ResetStepsTyped ==
    ASSUME AuthInv, NEW h \in Worker, SetPassword(h) \/ MarkUsed(h) \/ EndSessions(h)
    PROVE  AuthInv'
<1>1. AuthTypeOK /\ worker[h] \in Local /\ (worker[h].pc # "idle" => worker[h].user \in User)
  BY DEF AuthInv, AuthTypeOK, Owned
<1>2. CASE SetPassword(h)
  <2> DEFINE u == worker[h].user
  <2>1. u \in User /\ account[u] \in AccountRow /\ account[u].password + 1 \in Nat
    BY <1>1, <1>2 DEF SetPassword, AuthTypeOK, AccountRow
  <2>2. account' = [account EXCEPT ![u].password = @ + 1]
        /\ worker' = [worker EXCEPT ![h].pc = "markUsed",
                                    ![h].epoch = account[u].password + 1]
        /\ UNCHANGED <<token, reset, code, failures, challenge, accepted, ended, kept>>
    BY <1>2 DEF SetPassword
  <2> HIDE DEF u
  <2>3. account' \in [User -> AccountRow]
    BY <1>1, <2>1, <2>2 DEF AuthTypeOK, AccountRow
  <2>4. /\ worker' \in [Worker -> Local]
        /\ \A g \in Worker \ {h} : worker'[g] = worker[g]
        /\ worker'[h].pc = "markUsed" /\ worker'[h].user = worker[h].user
    BY <1>1, <2>1, <2>2 DEF AuthTypeOK, Local, PC
  <2> QED
    BY <2>1, <2>2, <2>3, <2>4 DEF AuthInv, AuthTypeOK, Owned, u
<1>3. CASE MarkUsed(h)
  <2>1. reset' \in [ResetToken -> ResetRow]
        /\ \A r \in ResetToken : reset'[r].state = "live" => reset'[r].user \in User
    <3> DEFINE i == worker[h].id
    <3>1. CASE UNCHANGED reset
      BY <3>1 DEF AuthInv, AuthTypeOK, Owned
    <3>2. CASE reset' = [reset EXCEPT ![i].state = "used"]
      <4> HIDE DEF i
      <4>1. \A r \in ResetToken :
              reset'[r] = reset[r] \/ reset'[r] = [reset[r] EXCEPT !.state = "used"]
        BY <1>1, <3>2 DEF AuthTypeOK
      <4>2. \A r \in ResetToken : [reset[r] EXCEPT !.state = "used"] \in ResetRow
                                  /\ [reset[r] EXCEPT !.state = "used"].state = "used"
        BY <1>1 DEF AuthTypeOK, ResetRow
      <4>3. reset' = [r \in ResetToken |-> reset'[r]]
        BY <1>1, <3>2 DEF AuthTypeOK
      <4> QED
        BY <4>1, <4>2, <4>3 DEF AuthInv, AuthTypeOK, Owned
    <3> QED
      BY <1>3, <3>1, <3>2 DEF MarkUsed
  <2>2. Goto(h, "endSessions") /\ "endSessions" \in PC
        /\ UNCHANGED <<account, token, code, failures, challenge, accepted, ended, kept>>
    BY <1>3 DEF MarkUsed, PC
  <2>3. worker'[h].pc = "endSessions" /\ worker'[h].user = worker[h].user
        /\ worker' \in [Worker -> Local] /\ \A g \in Worker \ {h} : worker'[g] = worker[g]
    BY <1>1, <2>2, GotoTyped
  <2>4. worker[h].user \in User
    BY <1>1, <1>3 DEF MarkUsed
  <2> QED
    BY <1>1, <2>1, <2>2, <2>3, <2>4 DEF AuthInv, AuthTypeOK, Owned
<1>4. CASE EndSessions(h)
  <2>1. token' \in [Token -> TokenRow]
        /\ \A t \in Token : token'[t].state = "live" => token'[t].user \in User
    <3>1. CASE UNCHANGED token
      BY <3>1 DEF AuthInv, AuthTypeOK, Owned
    <3>2. CASE token' = [t \in Token |-> IF t \in OfUser(worker[h].user)
                                        THEN Gone(t) ELSE token[t]]
      BY <1>1, <3>2, GoneTyped DEF AuthInv, AuthTypeOK, Owned
    <3> QED
      BY <1>4, <3>1, <3>2 DEF EndSessions
  <2>2. ended' \in [User -> Nat]
    <3> DEFINE w == worker[h]
    <3>1. w.epoch \in Nat /\ w.user \in User
      BY <1>1, <1>4 DEF EndSessions, Local
    <3>2. ended[w.user] \in Nat
      BY <1>1, <3>1 DEF AuthTypeOK
    <3>3. \A n \in Nat : Later(n, w.epoch) \in Nat
      BY <3>1 DEF Later
    <3>4. ended' = ended \/ ended' = [ended EXCEPT ![w.user] = Later(@, w.epoch)]
      BY <1>4 DEF EndSessions
    <3> HIDE DEF w
    <3> QED
      BY <1>1, <3>1, <3>2, <3>3, <3>4 DEF AuthTypeOK
  <2> QED
    BY <1>1, <1>4, <2>1, <2>2, FinishTyped, IdleTyped
       DEF EndSessions, AuthInv, AuthTypeOK, Owned
<1> QED
  BY <1>2, <1>3, <1>4
\* The steps of the second factor's management keep the types.
LEMMA FactorStepsTyped ==
    ASSUME AuthInv, NEW h \in Worker,
           SetSetupSecret(h) \/ EnableTOTP(h) \/ DisableTOTP(h)
    PROVE  AuthInv'
<1> DEFINE u == worker[h].user
<1>1. AuthTypeOK /\ worker[h] \in Local /\ u \in User /\ account[u] \in AccountRow
  BY DEF AuthInv, AuthTypeOK, Owned, SetSetupSecret, EnableTOTP, DisableTOTP
<1>2. UNCHANGED <<token, reset, code, failures, challenge, accepted, ended, kept>>
  BY DEF SetSetupSecret, EnableTOTP, DisableTOTP
<1>3. account' \in [User -> AccountRow]
  <2>1. CASE SetSetupSecret(h)
    BY <1>1, <2>1 DEF SetSetupSecret, AuthTypeOK, AccountRow
  <2>2. CASE EnableTOTP(h)
    <3>1. account' = [account EXCEPT ![u].factor = IF Enabled(u) THEN @ ELSE @ + 1,
                                     ![u].setup = FALSE]
      BY <2>2 DEF EnableTOTP
    <3> HIDE DEF u
    <3>2. account[u].factor \in Nat
      BY <1>1 DEF AccountRow
    <3>3. CASE Enabled(u)
      BY <1>1, <3>1, <3>2, <3>3 DEF AuthTypeOK, AccountRow
    <3>4. CASE ~Enabled(u)
      <4> DEFINE n == account[u].factor + 1
      <4>1. n \in Nat /\ account' = [account EXCEPT ![u].factor = n, ![u].setup = FALSE]
        BY <3>1, <3>2, <3>4
      <4> HIDE DEF n
      <4> QED
        BY <1>1, <4>1 DEF AuthTypeOK, AccountRow
    <3> QED
      BY <3>3, <3>4
  <2>3. CASE DisableTOTP(h)
    <3>1. account' = [account EXCEPT ![u].factor = IF Enabled(u) THEN @ + 1 ELSE @,
                                     ![u].setup = FALSE]
      BY <2>3 DEF DisableTOTP
    <3> HIDE DEF u
    <3>2. account[u].factor \in Nat
      BY <1>1 DEF AccountRow
    <3>3. CASE Enabled(u)
      <4> DEFINE n == account[u].factor + 1
      <4>1. n \in Nat /\ account' = [account EXCEPT ![u].factor = n, ![u].setup = FALSE]
        BY <3>1, <3>2, <3>3
      <4> HIDE DEF n
      <4> QED
        BY <1>1, <4>1 DEF AuthTypeOK, AccountRow
    <3>4. CASE ~Enabled(u)
      BY <1>1, <3>1, <3>2, <3>4 DEF AuthTypeOK, AccountRow
    <3> QED
      BY <3>3, <3>4
  <2> QED
    BY <2>1, <2>2, <2>3
<1>4. /\ worker' \in [Worker -> Local]
      /\ \A g \in Worker \ {h} : worker'[g] = worker[g]
      /\ worker'[h].pc \in {"idle", "dropCodes"}
      /\ worker'[h].pc # "idle" => worker'[h].user = u
  <2>1. CASE SetSetupSecret(h)
    BY <1>1, <2>1, FinishTyped, IdleTyped DEF SetSetupSecret
  <2>2. CASE EnableTOTP(h)
    <3>1. worker' = [worker EXCEPT ![h].pc = "dropCodes", ![h].left = Batch]
      BY <2>2 DEF EnableTOTP
    <3> QED
      BY <1>1, <3>1, IdsAssumption DEF AuthTypeOK, Local, PC
  <2>3. CASE DisableTOTP(h)
    <3>1. Goto(h, "dropCodes") /\ "dropCodes" \in PC
      BY <2>3 DEF DisableTOTP, PC
    <3> QED
      BY <1>1, <3>1, GotoTyped
  <2> QED
    BY <2>1, <2>2, <2>3
<1> QED
  BY <1>1, <1>2, <1>3, <1>4 DEF AuthInv, AuthTypeOK, Owned

\* Backup codes are dropped, added one by one, and used.
LEMMA CodeStepsTyped ==
    ASSUME AuthInv, NEW h \in Worker, DropCodes(h) \/ AddCode(h) \/ UseBackupCode(h)
    PROVE  AuthInv'
<1> DEFINE u == worker[h].user
<1>1. AuthTypeOK /\ worker[h] \in Local /\ u \in User /\ worker[h].left \in Nat
  BY DEF AuthInv, AuthTypeOK, Owned, DropCodes, AddCode, UseBackupCode, Local
<1>2. CASE DropCodes(h)
  <2>1. code' = [c \in Code |-> IF code[c].user = u
                               THEN [code[c] EXCEPT !.state = "gone"] ELSE code[c]]
        /\ UNCHANGED <<account, token, reset, failures, challenge, accepted, ended, kept>>
    BY <1>2 DEF DropCodes
  <2>2. code' \in [Code -> CodeRow]
    <3>1. \A c \in Code : [code[c] EXCEPT !.state = "gone"] \in CodeRow /\ code[c] \in CodeRow
      BY <1>1 DEF AuthTypeOK, CodeRow
    <3> QED
      BY <2>1, <3>1
  <2>3. CASE worker[h].left = 0
    BY <1>1, <1>2, <2>1, <2>2, <2>3, FinishTyped, IdleTyped
       DEF DropCodes, AuthInv, AuthTypeOK, Owned
  <2>4. CASE worker[h].left # 0
    <3>1. Goto(h, "addCodes") /\ "addCodes" \in PC
      BY <1>2, <2>4 DEF DropCodes, PC
    <3>2. /\ worker' \in [Worker -> Local] /\ \A g \in Worker \ {h} : worker'[g] = worker[g]
          /\ worker'[h].user = u /\ worker'[h].left = worker[h].left
      BY <1>1, <3>1, GotoTyped
    <3>3. AuthTypeOK'
      BY <1>1, <2>1, <2>2, <3>2 DEF AuthTypeOK
    <3>4. \A g \in Worker : worker'[g].pc # "idle" => worker'[g].user \in User
      BY <1>1, <3>2 DEF AuthInv, Owned
    <3>5. \A g \in Worker : worker'[g].pc = "addCodes" => worker'[g].left > 0
      <4>1. worker'[h].left > 0
        BY <1>1, <2>4, <3>2
      <4> QED
        BY <3>2, <4>1 DEF AuthInv, Owned
    <3> QED
      BY <2>1, <3>3, <3>4, <3>5 DEF AuthInv, Owned
  <2> QED
    BY <2>3, <2>4
<1>3. CASE AddCode(h)
  <2>1. worker[h].left > 0 /\ worker[h].pc = "addCodes"
        /\ UNCHANGED <<account, token, reset, failures, challenge, accepted, ended, kept>>
    BY <1>3 DEF AddCode, AuthInv, Owned
  <2>2. code' \in [Code -> CodeRow]
    BY <1>1, <1>3 DEF AddCode, AuthTypeOK, CodeRow
  <2>3. CASE worker[h].left = 1
    BY <1>1, <1>3, <2>1, <2>2, <2>3, FinishTyped, IdleTyped
       DEF AddCode, AuthInv, AuthTypeOK, Owned
  <2>4. CASE worker[h].left # 1
    <3>1. worker' = [worker EXCEPT ![h].left = @ - 1]
      BY <1>3, <2>4 DEF AddCode
    <3>2. /\ worker' \in [Worker -> Local] /\ \A g \in Worker \ {h} : worker'[g] = worker[g]
          /\ worker'[h].user = u /\ worker'[h].left > 0
      <4> DEFINE n == worker[h].left - 1
      <4>1. n \in Nat /\ n > 0
        BY <1>1, <2>1, <2>4
      <4>2. worker' = [worker EXCEPT ![h].left = n]
        BY <3>1
      <4> HIDE DEF n
      <4> QED
        BY <1>1, <2>1, <4>1, <4>2 DEF AuthTypeOK, Local
    <3>3. AuthTypeOK'
      BY <1>1, <2>1, <2>2, <3>2 DEF AuthTypeOK
    <3> QED
      BY <1>1, <2>1, <3>2, <3>3 DEF AuthInv, Owned
  <2> QED
    BY <2>3, <2>4
<1>4. CASE UseBackupCode(h)
  <2>1. CASE Usable(u, worker[h].id)
    <3>1. /\ HandOut(u) /\ Finish(h)
          /\ code' = [code EXCEPT ![worker[h].id].state = "used"]
          /\ accepted' = [accepted EXCEPT ![worker[h].id] = @ + 1]
          /\ UNCHANGED <<account, reset, failures, challenge, ended, kept>>
      BY <1>4, <2>1 DEF UseBackupCode
    <3>2. code' \in [Code -> CodeRow] /\ accepted' \in [Code -> Nat]
      <4> DEFINE c == worker[h].id
      <4>1. CASE c \in Code
        BY <1>1, <3>1, <4>1 DEF AuthTypeOK, CodeRow
      <4>2. CASE c \notin Code
        <5>1. code' = code /\ accepted' = accepted
          BY <1>1, <3>1, <4>2 DEF AuthTypeOK
        <5> QED
          BY <1>1, <5>1 DEF AuthTypeOK
      <4> QED
        BY <4>1, <4>2
    <3>3. token' \in [Token -> TokenRow]
          /\ \A t \in Token : token'[t].state = "live" => token'[t].user \in User
      BY <1>1, <3>1, HandOutTyped DEF AuthInv, AuthTypeOK, Owned
    <3> QED
      BY <1>1, <3>1, <3>2, <3>3, FinishTyped, IdleTyped DEF AuthInv, AuthTypeOK, Owned
  <2>2. CASE ~Usable(u, worker[h].id)
    BY <1>1, <1>4, <2>2, FinishTyped, IdleTyped
       DEF UseBackupCode, AuthInv, AuthTypeOK, Owned
  <2> QED
    BY <2>1, <2>2
<1> QED
  BY <1>2, <1>3, <1>4
\* Time, failures and mails keep the types.
LEMMA OthersTyped ==
    ASSUME AuthInv,
           \/ \E u \in User : ForgotPassword(u)
           \/ \E h \in Worker : Abort(h)
           \/ Expire \/ Restart
    PROVE  AuthInv'
<1>1. AuthTypeOK
  BY DEF AuthInv
<1>2. ASSUME NEW u \in User, ForgotPassword(u) PROVE AuthInv'
  <2>1. [state |-> "live", user |-> u] \in ResetRow
    BY DEF ResetRow
  <2> QED
    BY <1>1, <1>2, <2>1 DEF ForgotPassword, AuthInv, AuthTypeOK, Owned
<1>3. ASSUME NEW h \in Worker, Abort(h) PROVE AuthInv'
  BY <1>1, <1>3, FinishTyped, IdleTyped DEF Abort, AuthInv, AuthTypeOK, Owned
<1>4. CASE Restart
  BY <1>1, <1>4, IdleTyped DEF Restart, AuthInv, AuthTypeOK, Owned
<1>5. CASE Expire
  <2>1. UNCHANGED <<account, code, worker, accepted, ended, kept>>
    BY <1>5 DEF Expire
  <2>2. ASSUME NEW u \in User, ForgetFailure(u), UNCHANGED <<token, reset, challenge>>
        PROVE  AuthInv'
    BY <1>1, <2>1, <2>2 DEF ForgetFailure, AuthInv, AuthTypeOK, Owned
  <2>3. ASSUME NEW t \in Token, token' = [token EXCEPT ![t] = Gone(t)],
               UNCHANGED <<failures, reset, challenge>>
        PROVE  AuthInv'
    BY <1>1, <2>1, <2>3, GoneTyped DEF AuthInv, AuthTypeOK, Owned
  <2>4. ASSUME NEW r \in ResetToken, reset' = [reset EXCEPT ![r].state = "expired"],
               UNCHANGED <<failures, token, challenge>>
        PROVE  AuthInv'
    BY <1>1, <2>1, <2>4 DEF AuthInv, AuthTypeOK, Owned, ResetRow
  <2>5. ASSUME challenge' \subseteq challenge, UNCHANGED <<failures, token, reset>>
        PROVE  AuthInv'
    BY <1>1, <2>1, <2>5 DEF AuthInv, AuthTypeOK, Owned
  <2> QED
    BY <1>5, <2>2, <2>3, <2>4, <2>5 DEF Expire
<1> QED
  BY <1>2, <1>3, <1>4, <1>5

\* The steps of a handler, in the groups of the lemmas above.
LEMMA NextTyped == AuthInv /\ [Next]_vars => AuthInv'
<1> SUFFICES ASSUME AuthInv, [Next]_vars PROVE AuthInv'
  OBVIOUS
<1>1. ASSUME NEW h \in Worker, Step(h) PROVE AuthInv'
  BY <1>1, LoginStepsTyped, ResetStepsTyped, FactorStepsTyped, CodeStepsTyped DEF Step
<1>2. ASSUME NEW h \in Worker, Arrive(h) PROVE AuthInv'
  BY <1>2, ArriveTyped
<1>3. CASE UNCHANGED vars
  BY <1>3 DEF vars, AuthInv, AuthTypeOK, Owned
<1> QED
  BY <1>1, <1>2, <1>3, OthersTyped DEF Next

\* The type invariant is invariant, with what belongs to whom.
THEOREM AuthInvariance == Spec => []AuthInv
  BY InitTyped, NextTyped, PTL DEF Spec

\* Rows and locals always have the types of the columns and variables.
THEOREM AuthTypeCorrect == Spec => []AuthTypeOK
<1>1. AuthInv => AuthTypeOK
  BY DEF AuthInv
<1> QED
  BY <1>1, AuthInvariance, PTL
-----------------------------------------------------------------------------
(* A backup code lets one login through                                    *)

\* Only the management of the codes and a login with one touch them.
LEMMA CodeWriters ==
    ASSUME [Next]_vars
    PROVE  \/ UNCHANGED <<code, accepted>>
           \/ \E h \in Worker : DropCodes(h) \/ AddCode(h) \/ UseBackupCode(h)
<1>1. ASSUME NEW h \in Worker, Arrive(h) PROVE UNCHANGED <<code, accepted>>
  BY <1>1, Zenon DEF Arrive, Login, GoogleCallback, Validate, Setup, Verify, Disable,
                     RegenerateBackup, Refresh, ResetPassword
<1>2. ASSUME NEW h \in Worker, Step(h),
             ~(DropCodes(h) \/ AddCode(h) \/ UseBackupCode(h))
      PROVE  UNCHANGED <<code, accepted>>
  BY <1>2, Zenon DEF Step, LoadUser, RecordFailure, ClearFailures, CheckFactor, IssueTokens,
                     Rotate, SetPassword, MarkUsed, EndSessions, SetSetupSecret, EnableTOTP,
                     DisableTOTP
<1>3. ASSUME NEW h \in Worker, Abort(h) PROVE UNCHANGED <<code, accepted>>
  BY <1>3 DEF Abort
<1>4. CASE (\E u \in User : ForgotPassword(u)) \/ Expire \/ Restart
  BY <1>4, Zenon DEF ForgotPassword, Expire, Restart
<1>5. CASE UNCHANGED vars
  BY <1>5 DEF vars
<1> QED
  BY <1>1, <1>2, <1>3, <1>4, <1>5 DEF Next

\* No backup code is accepted twice, whoever sends it and however the codes are
\* replaced meanwhile.
THEOREM CodesOnce == Spec => []CodeOnce
<1> DEFINE I == CodesFresh /\ CodeOnce
<1>1. Init => I
  BY DEF Init, CodesFresh, CodeOnce
<1>2. AuthInv /\ I /\ [Next]_vars => I'
  <2> SUFFICES ASSUME AuthInv, I, [Next]_vars PROVE I'
    OBVIOUS
  <2>1. AuthTypeOK
    BY DEF AuthInv
  <2>2. CASE UNCHANGED <<code, accepted>>
    BY <2>2 DEF CodesFresh, CodeOnce
  <2>3. ASSUME NEW h \in Worker, DropCodes(h) PROVE I'
    BY <2>1, <2>3 DEF DropCodes, CodesFresh, CodeOnce, AuthTypeOK, CodeRow
  <2>4. ASSUME NEW h \in Worker, AddCode(h) PROVE I'
    BY <2>1, <2>4 DEF AddCode, CodesFresh, CodeOnce, AuthTypeOK, CodeRow
  <2>5. ASSUME NEW h \in Worker, UseBackupCode(h) PROVE I'
    <3> DEFINE c == worker[h].id
    <3>1. CASE Usable(worker[h].user, c)
      <4>1. code[c].state = "unused"
            /\ code' = [code EXCEPT ![c].state = "used"]
            /\ accepted' = [accepted EXCEPT ![c] = @ + 1]
        BY <2>5, <3>1 DEF UseBackupCode, Usable
      <4> HIDE DEF c
      <4>2. CASE c \in Code
        <5>1. accepted[c] = 0
          BY <4>1, <4>2 DEF CodesFresh
        <5>2. accepted'[c] = 1 /\ code'[c].state = "used"
          BY <2>1, <4>1, <4>2, <5>1 DEF AuthTypeOK, CodeRow
        <5>3. \A d \in Code \ {c} : accepted'[d] = accepted[d] /\ code'[d] = code[d]
          BY <2>1, <4>1 DEF AuthTypeOK
        <5> QED
          BY <5>2, <5>3 DEF CodesFresh, CodeOnce
      <4>3. CASE c \notin Code
        <5>1. code' = code /\ accepted' = accepted
          BY <2>1, <4>1, <4>3 DEF AuthTypeOK
        <5> QED
          BY <5>1 DEF CodesFresh, CodeOnce
      <4> QED
        BY <4>2, <4>3
    <3>2. CASE ~Usable(worker[h].user, c)
      BY <2>5, <3>2 DEF UseBackupCode, CodesFresh, CodeOnce
    <3> QED
      BY <3>1, <3>2
  <2> QED
    BY <2>2, <2>3, <2>4, <2>5, CodeWriters
<1>3. I => CodeOnce
  OBVIOUS
<1> HIDE DEF I
<1> QED
  BY <1>1, <1>2, <1>3, AuthInvariance, PTL DEF Spec
-----------------------------------------------------------------------------
(* The way of a handler to the INSERT of a session                         *)

Towards == {"load", "fail", "clear", "factor", "rotate", "issue"}

\* What a handler keeps from step to step.
Same(h) ==
    /\ worker'[h].user = worker[h].user /\ worker'[h].parent = worker[h].parent
    /\ worker'[h].via = worker[h].via /\ worker'[h].began = worker[h].began

\* A handler's step towards a session: it starts, or goes on with what it has.
Move(h) ==
    \/ worker'[h] = worker[h]
    \/ worker'[h].pc \notin Towards
    \/ /\ worker'[h].pc = "load" /\ worker'[h].parent = None /\ worker'[h].user \in User
       /\ worker'[h].began = account[worker'[h].user].factor
       /\ ~IsLocked(worker'[h].user)
    \/ worker[h].pc = "load" /\ worker'[h].pc \in {"clear", "fail"} /\ Same(h)
    \/ worker[h].pc = "clear" /\ worker'[h].pc = "factor" /\ Same(h)
    \/ /\ worker[h].pc = "factor" /\ worker'[h].pc = "issue"
       /\ worker'[h].parent = worker[h].parent
       /\ worker'[h].via = "unasked" \/ (Same(h) /\ ~Enabled(worker[h].user))
    \/ worker'[h].pc = "issue" /\ worker'[h].parent = None /\ worker'[h].via = "google"
    \/ /\ worker'[h].pc = "rotate" /\ worker'[h].parent \in Token
       /\ token[worker'[h].parent].state = "live" /\ UNCHANGED token
    \/ /\ worker[h].pc = "rotate" /\ worker'[h].pc = "issue" /\ Same(h)
       /\ \/ worker[h].parent \in kept'
          \/ token' = [token EXCEPT ![worker[h].parent] = Gone(worker[h].parent)]

\* A handler that starts with locals w.
LEMMA StartMoves ==
    ASSUME AuthTypeOK, NEW h \in Worker, NEW w, Start(h, w)
    PROVE  worker'[h] = w /\ \A g \in Worker \ {h} : worker'[g] = worker[g]
  BY DEF Start, AuthTypeOK

\* Arrivals start on the way, or elsewhere.
LEMMA ArriveMoves ==
    ASSUME AuthInv, NEW h \in Worker, Arrive(h)
    PROVE  Move(h) /\ \A g \in Worker \ {h} : worker'[g] = worker[g]
<1>1. AuthTypeOK
  BY DEF AuthInv
<1>2. ASSUME NEW u \in User, Login(h, u)
      PROVE  Move(h) /\ \A g \in Worker \ {h} : worker'[g] = worker[g]
  <2> DEFINE w == [Idle EXCEPT !.pc = "load", !.user = u, !.began = account[u].factor]
  <2>1. w.pc = "load" /\ w.parent = None /\ w.user = u /\ w.began = account[u].factor
    BY DEF Idle
  <2>2. Start(h, w) /\ ~IsLocked(u)
    BY <1>2 DEF Login
  <2> HIDE DEF w
  <2> QED
    BY <1>1, <2>1, <2>2, StartMoves DEF Move
<1>3. ASSUME NEW u \in User, GoogleCallback(h, u)
      PROVE  Move(h) /\ \A g \in Worker \ {h} : worker'[g] = worker[g]
  <2> DEFINE w == [Idle EXCEPT !.pc = "issue", !.user = u, !.via = "google",
                               !.epoch = account[u].password]
  <2>1. w.pc = "issue" /\ w.parent = None /\ w.via = "google"
    BY DEF Idle
  <2>2. Start(h, w)
    BY <1>3 DEF GoogleCallback
  <2> HIDE DEF w
  <2> QED
    BY <1>1, <2>1, <2>2, StartMoves DEF Move
<1>4. ASSUME NEW t \in Token, Refresh(h, t)
      PROVE  Move(h) /\ \A g \in Worker \ {h} : worker'[g] = worker[g]
  <2> DEFINE w == [Idle EXCEPT !.pc = "rotate", !.user = token[t].user, !.parent = t,
                     !.via = token[t].via, !.epoch = token[t].epoch, !.began = token[t].began]
  <2>1. w.pc = "rotate" /\ w.parent = t
    BY DEF Idle
  <2>2. Start(h, w) /\ token[t].state = "live" /\ UNCHANGED token
    BY <1>4 DEF Refresh
  <2> HIDE DEF w
  <2> QED
    BY <1>1, <2>1, <2>2, StartMoves DEF Move
<1>5. ASSUME NEW w, Start(h, w), w.pc \notin Towards
      PROVE  Move(h) /\ \A g \in Worker \ {h} : worker'[g] = worker[g]
  BY <1>1, <1>5, StartMoves DEF Move
<1>6. ASSUME NEW u \in User,
             Validate(h, u) \/ Setup(h, u) \/ Verify(h, u) \/ Disable(h, u) \/ RegenerateBackup(h, u)
      PROVE  Move(h) /\ \A g \in Worker \ {h} : worker'[g] = worker[g]
  <2>1. ASSUME NEW c \in Code, Start(h, [Idle EXCEPT !.pc = "useCode", !.user = u, !.id = c])
        PROVE  Move(h) /\ \A g \in Worker \ {h} : worker'[g] = worker[g]
    BY <1>5, <2>1 DEF Idle, Towards
  <2>2. CASE worker' = worker
    BY <2>2 DEF Move
  <2>3. CASE Validate(h, u)
    BY <2>1, <2>2, <2>3 DEF Validate
  <2>4. CASE Setup(h, u)
    BY <1>5, <2>4 DEF Setup, Idle, Towards
  <2>5. CASE Verify(h, u)
    BY <1>5, <2>5 DEF Verify, Idle, Towards
  <2>6. CASE Disable(h, u)
    BY <1>5, <2>6 DEF Disable, Idle, Towards
  <2>7. CASE RegenerateBackup(h, u)
    BY <1>5, <2>7 DEF RegenerateBackup, Idle, Towards
  <2> QED
    BY <1>6, <2>3, <2>4, <2>5, <2>6, <2>7
<1>7. ASSUME NEW r \in ResetToken, ResetPassword(h, r)
      PROVE  Move(h) /\ \A g \in Worker \ {h} : worker'[g] = worker[g]
  BY <1>5, <1>7 DEF ResetPassword, Idle, Towards
<1> QED
  BY <1>2, <1>3, <1>4, <1>6, <1>7 DEF Arrive
\* Steps go on, or leave the way.
LEMMA StepMoves ==
    ASSUME AuthInv, NEW h \in Worker, Step(h) \/ Abort(h)
    PROVE  Move(h) /\ \A g \in Worker \ {h} : worker'[g] = worker[g]
<1> DEFINE Moves == Move(h) /\ \A g \in Worker \ {h} : worker'[g] = worker[g]
<1>1. AuthTypeOK
  BY DEF AuthInv
<1>2. ASSUME Finish(h) PROVE Moves
  BY <1>1, <1>2, FinishTyped, IdleTyped DEF Move, Towards
<1>3. ASSUME NEW pc \in PC, Goto(h, pc)
      PROVE  worker'[h].pc = pc /\ Same(h) /\ \A g \in Worker \ {h} : worker'[g] = worker[g]
  BY <1>1, <1>3, GotoTyped DEF Same
<1>4. ASSUME NEW pc \in PC \ Towards, Goto(h, pc) PROVE Moves
  BY <1>3, <1>4 DEF Move
<1>5. CASE LoadUser(h)
  <2>1. PICK pc \in {"clear", "fail"} :
          worker' = [worker EXCEPT ![h].epoch = account[worker[h].user].password, ![h].pc = pc]
    BY <1>5 DEF LoadUser
  <2>2. worker'[h].pc = pc /\ Same(h) /\ \A g \in Worker \ {h} : worker'[g] = worker[g]
    BY <1>1, <2>1 DEF AuthTypeOK, Local, Same
  <2> QED
    BY <1>5, <2>2 DEF LoadUser, Move
<1>6. CASE ClearFailures(h)
  <2>1. worker[h].pc = "clear" /\ Goto(h, "factor") /\ "factor" \in PC
    BY <1>6 DEF ClearFailures, PC
  <2> QED
    BY <1>3, <2>1 DEF Move
<1>7. CASE CheckFactor(h)
  <2>1. "issue" \in PC /\ worker[h].pc = "factor"
        /\ \/ Finish(h)
           \/ ~Enabled(worker[h].user) /\ Goto(h, "issue")
           \/ worker' = [worker EXCEPT ![h].pc = "issue", ![h].via = "unasked"]
    BY <1>7 DEF CheckFactor, PC
  <2>2. CASE worker' = [worker EXCEPT ![h].pc = "issue", ![h].via = "unasked"]
    BY <1>1, <2>1, <2>2 DEF AuthTypeOK, Local, Move
  <2>3. CASE ~Enabled(worker[h].user) /\ Goto(h, "issue")
    <3>1. worker'[h].pc = "issue" /\ Same(h) /\ \A g \in Worker \ {h} : worker'[g] = worker[g]
      BY <1>3, <2>1, <2>3
    <3> QED
      BY <2>1, <2>3, <3>1 DEF Move, Same
  <2> QED
    BY <1>2, <2>1, <2>2, <2>3
<1>8. CASE Rotate(h)
  <2>1. "issue" \in PC /\ worker[h].pc = "rotate" /\ Goto(h, "issue")
        /\ \/ worker[h].parent \in kept'
           \/ token' = [token EXCEPT ![worker[h].parent] = Gone(worker[h].parent)]
    BY <1>8 DEF Rotate, PC
  <2> QED
    BY <1>3, <2>1 DEF Move
<1>9. CASE RecordFailure(h) \/ IssueTokens(h) \/ UseBackupCode(h) \/ EndSessions(h)
           \/ SetSetupSecret(h) \/ Abort(h)
  BY <1>2, <1>9 DEF RecordFailure, IssueTokens, UseBackupCode, EndSessions, SetSetupSecret, Abort
<1>10. CASE MarkUsed(h) \/ DisableTOTP(h)
  <2>1. {"endSessions", "dropCodes"} \subseteq PC \ Towards
    BY DEF PC, Towards
  <2> QED
    BY <1>4, <1>10, <2>1 DEF MarkUsed, DisableTOTP
<1>11. CASE DropCodes(h)
  <2>1. "addCodes" \in PC \ Towards /\ (Finish(h) \/ Goto(h, "addCodes"))
    BY <1>11 DEF PC, Towards, DropCodes
  <2> QED
    BY <1>2, <1>4, <2>1
<1>12. CASE SetPassword(h)
  <2>1. worker' = [worker EXCEPT ![h].pc = "markUsed",
                     ![h].epoch = account[worker[h].user].password + 1]
    BY <1>12 DEF SetPassword
  <2> QED
    BY <1>1, <2>1 DEF AuthTypeOK, Local, Move, Towards
<1>13. CASE EnableTOTP(h)
  <2>1. worker' = [worker EXCEPT ![h].pc = "dropCodes", ![h].left = Batch]
    BY <1>13 DEF EnableTOTP
  <2> QED
    BY <1>1, <2>1 DEF AuthTypeOK, Local, Move, Towards
<1>14. CASE AddCode(h)
  <2>1. worker[h].pc = "addCodes" /\ (Finish(h) \/ worker' = [worker EXCEPT ![h].left = @ - 1])
    BY <1>14 DEF AddCode
  <2>2. CASE worker' = [worker EXCEPT ![h].left = @ - 1]
    BY <1>1, <2>1, <2>2 DEF AuthTypeOK, Local, Move, Towards
  <2> QED
    BY <1>2, <2>1, <2>2
<1> HIDE DEF Moves
<1>15. Moves
  BY <1>5, <1>6, <1>7, <1>8, <1>9, <1>10, <1>11, <1>12, <1>13, <1>14 DEF Step, Moves
<1> QED
  BY <1>15 DEF Moves

\* In every step each handler moves on its way or stays where it is.
LEMMA AllMove ==
    ASSUME AuthInv, [Next]_vars
    PROVE  \A h \in Worker : Move(h)
<1>1. ASSUME NEW h \in Worker, Arrive(h) \/ Step(h) \/ Abort(h)
      PROVE  \A g \in Worker : Move(g)
  BY <1>1, ArriveMoves, StepMoves DEF Move
<1>2. CASE Restart
  BY <1>2, IdleTyped DEF Restart, Move, Towards
<1>3. CASE (\E u \in User : ForgotPassword(u)) \/ Expire
  BY <1>3 DEF ForgotPassword, Expire, Move
<1>4. CASE UNCHANGED vars
  BY <1>4 DEF vars, Move
<1> QED
  BY <1>1, <1>2, <1>3, <1>4 DEF Next
-----------------------------------------------------------------------------
(* Rotation                                                                *)

\* The row that IssueTokens inserts.
Issued(h) == [state |-> "live", user |-> worker[h].user, parent |-> worker[h].parent,
              via |-> worker[h].via, epoch |-> worker[h].epoch, began |-> worker[h].began]

\* What a step may do to a refresh token: nothing, end it, hand one out that has
\* no row, or insert one.
TokenStep(t) ==
    \/ token'[t] = token[t]
    \/ token'[t].state = "gone" /\ token'[t].parent = token[t].parent
    \/ token[t].state = "none" /\ token'[t].state = "unstored" /\ token'[t].parent = None
    \/ /\ token[t].state = "none"
       /\ \E h \in Worker :
            IssueTokens(h) /\ worker[h].pc = "issue" /\ token'[t] = Issued(h)

LEMMA TokenSteps ==
    ASSUME AuthInv, [Next]_vars
    PROVE  \A t \in Token : TokenStep(t)
<1>1. AuthTypeOK
  BY DEF AuthInv
<1>2. ASSUME UNCHANGED token PROVE \A t \in Token : TokenStep(t)
  BY <1>2 DEF TokenStep
<1>3. ASSUME NEW s \in Token, token' = [token EXCEPT ![s] = Gone(s)]
      PROVE  \A t \in Token : TokenStep(t)
  BY <1>1, <1>3, GoneTyped DEF TokenStep, AuthTypeOK
<1>4. ASSUME NEW u \in User, HandOut(u) PROVE \A t \in Token : TokenStep(t)
  BY <1>1, <1>4, HandOutTyped DEF TokenStep
<1>5. ASSUME NEW h \in Worker, Arrive(h) PROVE \A t \in Token : TokenStep(t)
  <2>1. UNCHANGED token \/ \E u \in User : HandOut(u)
    BY <1>5, Zenon DEF Arrive, Login, GoogleCallback, Validate, Setup, Verify, Disable,
                       RegenerateBackup, Refresh, ResetPassword
  <2> QED
    BY <1>2, <1>4, <2>1
<1>6. ASSUME NEW h \in Worker, Step(h) PROVE \A t \in Token : TokenStep(t)
  <2>1. CASE IssueTokens(h)
    <3>1. PICK s \in Token : token[s].state = "none" /\ token' = [token EXCEPT ![s] = Issued(h)]
      BY <2>1 DEF IssueTokens, Issued
    <3>2. worker[h].pc = "issue"
      BY <2>1 DEF IssueTokens
    <3> QED
      BY <1>1, <2>1, <3>1, <3>2 DEF TokenStep, AuthTypeOK
  <2>2. CASE UseBackupCode(h)
    <3>1. worker[h].user \in User
      BY <2>2 DEF UseBackupCode, AuthInv, Owned
    <3>2. UNCHANGED token \/ HandOut(worker[h].user)
      BY <2>2, Zenon DEF UseBackupCode
    <3> QED
      BY <1>2, <1>4, <3>1, <3>2
  <2>3. CASE Rotate(h)
    <3>1. UNCHANGED token \/ token' = [token EXCEPT ![worker[h].parent] = Gone(worker[h].parent)]
      BY <2>3 DEF Rotate
    <3>2. CASE worker[h].parent \in Token
      BY <1>2, <1>3, <3>1, <3>2
    <3>3. CASE worker[h].parent \notin Token
      BY <1>1, <1>2, <3>1, <3>3 DEF AuthTypeOK
    <3> QED
      BY <3>2, <3>3
  <2>4. CASE EndSessions(h)
    <3>1. UNCHANGED token \/ token' = [t \in Token |-> IF t \in OfUser(worker[h].user)
                                                      THEN Gone(t) ELSE token[t]]
      BY <2>4 DEF EndSessions
    <3> QED
      BY <1>1, <1>2, <3>1, GoneTyped DEF TokenStep
  <2>5. CASE LoadUser(h) \/ RecordFailure(h) \/ ClearFailures(h) \/ CheckFactor(h)
             \/ SetPassword(h) \/ MarkUsed(h) \/ SetSetupSecret(h) \/ EnableTOTP(h)
             \/ DisableTOTP(h) \/ DropCodes(h) \/ AddCode(h)
    <3>1. UNCHANGED token
      BY <2>5, Zenon DEF LoadUser, RecordFailure, ClearFailures, CheckFactor, SetPassword,
                         MarkUsed, SetSetupSecret, EnableTOTP, DisableTOTP, DropCodes, AddCode
    <3> QED
      BY <1>2, <3>1
  <2> QED
    BY <1>6, <2>1, <2>2, <2>3, <2>4, <2>5 DEF Step
<1>7. CASE Expire
  <2>1. UNCHANGED token \/ \E t \in Token : token' = [token EXCEPT ![t] = Gone(t)]
    BY <1>7, Zenon DEF Expire
  <2> QED
    BY <1>2, <1>3, <2>1
<1>8. CASE (\E u \in User : ForgotPassword(u)) \/ (\E h \in Worker : Abort(h)) \/ Restart
           \/ UNCHANGED vars
  BY <1>2, <1>8 DEF ForgotPassword, Abort, Restart, vars
<1> QED
  BY <1>5, <1>6, <1>7, <1>8 DEF Next

\* A DELETE that failed is not forgotten.
LEMMA KeptGrows ==
    ASSUME [Next]_vars
    PROVE  kept \subseteq kept'
<1>1. ASSUME NEW h \in Worker, Step(h), ~Rotate(h) PROVE UNCHANGED kept
  BY <1>1, Zenon DEF Step, LoadUser, RecordFailure, ClearFailures, CheckFactor, IssueTokens,
       UseBackupCode, SetPassword, MarkUsed, EndSessions, SetSetupSecret, EnableTOTP,
       DisableTOTP, DropCodes, AddCode
<1>2. ASSUME NEW h \in Worker, Rotate(h) PROVE kept \subseteq kept'
  BY <1>2 DEF Rotate
<1>3. ASSUME NEW h \in Worker, Arrive(h) PROVE UNCHANGED kept
  BY <1>3, Zenon DEF Arrive, Login, GoogleCallback, Validate, Setup, Verify, Disable,
                     RegenerateBackup, Refresh, ResetPassword
<1>4. CASE (\E v \in User : ForgotPassword(v)) \/ (\E h \in Worker : Abort(h)) \/ Restart
           \/ Expire \/ UNCHANGED vars
  BY <1>4 DEF ForgotPassword, Abort, Restart, Expire, vars
<1> QED
  BY <1>1, <1>2, <1>3, <1>4 DEF Next

\* A refresh has deleted its token when it issues the next, or its DELETE failed.
LEMMA RotatingStep ==
    ASSUME AuthInv, Rotating, [Next]_vars
    PROVE  Rotating'
<1>1. AuthTypeOK /\ None \notin Token
  BY IdsAssumption DEF AuthInv
<1>2. kept \subseteq kept' /\ \A t \in Token : token[t].state = "gone" => token'[t].state = "gone"
  BY TokenSteps, KeptGrows DEF TokenStep
<1>3. ASSUME NEW h \in Worker
      PROVE  /\ worker'[h].pc \in {"load", "clear", "factor"} => worker'[h].parent = None
             /\ worker'[h].pc = "rotate" => worker'[h].parent \in Token
             /\ worker'[h].pc = "issue" /\ worker'[h].parent # None =>
                  worker'[h].parent \in kept' \/ token'[worker'[h].parent].state = "gone"
  <2>1. Move(h) /\ worker[h].parent \in Token \cup {None}
    BY <1>1, AllMove DEF AuthTypeOK, Local
  <2>2. CASE worker[h].pc = "rotate" /\ worker'[h].pc = "issue" /\ Same(h)
             /\ token' = [token EXCEPT ![worker[h].parent] = Gone(worker[h].parent)]
    <3>1. worker[h].parent \in Token
      BY <2>2 DEF Rotating
    <3>2. token'[worker[h].parent].state = "gone"
      BY <1>1, <2>2, <3>1, GoneTyped DEF AuthTypeOK
    <3> QED
      BY <2>2, <3>2 DEF Same
  <2>6. CASE worker[h].pc = "rotate" /\ worker'[h].pc = "issue" /\ Same(h)
             /\ worker[h].parent \in kept'
    BY <2>6 DEF Same
  <2>3. CASE ~(worker[h].pc = "rotate" /\ worker'[h].pc = "issue")
    <3>1. CASE worker'[h] = worker[h]
      BY <1>2, <2>1, <3>1 DEF Rotating
    <3>2. CASE worker'[h].pc \notin Towards
      BY <3>2 DEF Towards
    <3> QED
      BY <1>2, <2>1, <2>3, <3>1, <3>2 DEF Move, Rotating, Same
  <2>4. CASE worker'[h].pc = "issue" /\ worker'[h].parent = None
    BY <2>4
  <2>5. CASE worker'[h] = worker[h]
    BY <2>3, <2>5
  <2> QED
    BY <2>1, <2>2, <2>3, <2>4, <2>5, <2>6 DEF Move, Towards
<1> QED
  BY <1>3 DEF Rotating

\* A step that hands on no session gives no token a successor and no gone token a
\* handler; the INSERT of a session takes a handler for each successor it gives.
LEMMA SuccessorsStep ==
    ASSUME AuthInv, Rotating, SuccessorsBounded, [Next]_vars
    PROVE  SuccessorsBounded'
<1>1. /\ AuthTypeOK /\ AuthTypeOK' /\ None \notin Token
      /\ kept \subseteq kept' /\ \A t \in Token : TokenStep(t)
  BY IdsAssumption, NextTyped, KeptGrows, TokenSteps DEF AuthInv
<1>2. ASSUME NEW S \in SUBSET Worker
      PROVE  /\ IsFiniteSet(S) /\ Cardinality(S) \in Nat
             /\ Cardinality(S) <= Cardinality(Worker) /\ Cardinality(Worker) \in Nat
  BY IdsAssumption, FS_Subset, FS_CardinalityType
<1> SUFFICES ASSUME NEW t \in Token, t \notin kept'
             PROVE  /\ Successors(t)' # {} => token'[t].state = "gone"
                    /\ IsFiniteSet(Successors(t)')
                    /\ Cardinality(Successors(t)') + Cardinality(Carriers(t)') <= Cardinality(Worker)
  BY DEF SuccessorsBounded
<1>3. /\ t \notin kept
      /\ Successors(t) # {} => token[t].state = "gone"
      /\ IsFiniteSet(Successors(t)) /\ Cardinality(Successors(t)) \in Nat
      /\ Cardinality(Successors(t)) + Cardinality(Carriers(t)) <= Cardinality(Worker)
  BY <1>1, FS_CardinalityType DEF SuccessorsBounded
<1>4. Carriers(t) \subseteq Worker /\ Carriers(t)' \subseteq Worker
  BY DEF Carriers
<1>5. token[t].state = "gone" => token'[t].state = "gone"
  BY <1>1 DEF TokenStep
<1>6. ASSUME NEW x \in Successors(t)', x \notin Successors(t)
      PROVE  /\ token[t].state = "gone"
             /\ \E h \in Worker : IssueTokens(h) /\ worker[h].parent = t /\ worker[h].pc = "issue"
  <2>1. x \in Token /\ token'[x].parent = t /\ token[x].parent # t /\ t # None
    BY <1>1, <1>6 DEF Successors
  <2>2. PICK h \in Worker : IssueTokens(h) /\ worker[h].pc = "issue" /\ token'[x] = Issued(h)
    BY <1>1, <2>1 DEF TokenStep
  <2>3. worker[h].parent = t
    BY <2>1, <2>2 DEF Issued
  <2> QED
    BY <1>3, <2>1, <2>2, <2>3 DEF Rotating
<1>7. ASSUME NEW h \in Worker, h \in Carriers(t)', h \notin Carriers(t)
      PROVE  token'[t].state # "gone"
  <2>1. worker'[h].parent = t /\ worker'[h].pc \in {"rotate", "issue"} /\ t # None
    BY <1>1, <1>7 DEF Carriers
  <2>2. Move(h) /\ worker'[h] # worker[h]
    BY <1>7, AllMove DEF Carriers
  <2>3. ~(worker[h].pc = "rotate" /\ worker'[h].pc = "issue" /\ Same(h))
    BY <1>7, <2>1 DEF Carriers, Same
  <2>4. worker[h].pc = "factor" => worker[h].parent = None
    BY DEF Rotating
  <2>5. worker'[h].pc = "rotate" /\ token[worker'[h].parent].state = "live" /\ UNCHANGED token
    BY <2>1, <2>2, <2>3, <2>4 DEF Move, Towards
  <2> QED
    BY <2>1, <2>5
<1>8. Successors(t)' # {} => token'[t].state = "gone"
  <2>1. CASE Successors(t)' \subseteq Successors(t)
    BY <1>3, <1>5, <2>1
  <2>2. CASE ~(Successors(t)' \subseteq Successors(t))
    BY <1>5, <1>6, <2>2
  <2> QED
    BY <2>1, <2>2
<1>9. CASE token'[t].state # "gone"
  <2>1. Successors(t)' = {}
    BY <1>8, <1>9
  <2>2. IsFiniteSet({}) /\ Cardinality({}) = 0
    BY FS_EmptySet
  <2> QED
    BY <1>2, <1>4, <2>1, <2>2
<1>10. CASE token'[t].state = "gone" /\ Successors(t)' \subseteq Successors(t)
  <2>1. Carriers(t)' \subseteq Carriers(t)
    BY <1>4, <1>7, <1>10
  <2>2. /\ IsFiniteSet(Successors(t)') /\ Cardinality(Successors(t)') \in Nat
        /\ Cardinality(Successors(t)') <= Cardinality(Successors(t))
    BY <1>3, <1>10, FS_Subset, FS_CardinalityType
  <2>3. /\ Cardinality(Carriers(t)) \in Nat /\ Cardinality(Carriers(t)') \in Nat
        /\ Cardinality(Worker) \in Nat
        /\ Cardinality(Carriers(t)') <= Cardinality(Carriers(t))
    BY <1>2, <1>4, <2>1, FS_Subset
  <2> QED
    BY <1>3, <1>8, <2>2, <2>3
<1>11. CASE token'[t].state = "gone" /\ ~(Successors(t)' \subseteq Successors(t))
  <2>1. PICK h \in Worker : IssueTokens(h) /\ worker[h].parent = t /\ worker[h].pc = "issue"
    BY <1>6, <1>11
  <2>2. PICK s \in Token : token' = [token EXCEPT ![s] = Issued(h)]
    BY <2>1 DEF IssueTokens, Issued
  <2>3. worker'[h].pc = "idle" /\ \A g \in Worker \ {h} : worker'[g] = worker[g]
    BY <1>1, <2>1, FinishTyped, IdleTyped DEF IssueTokens
  <2>4. Successors(t)' \subseteq Successors(t) \cup {s}
    BY <1>1, <2>2 DEF Successors, AuthTypeOK
  <2>5. h \in Carriers(t) /\ Carriers(t)' = Carriers(t) \ {h}
    BY <2>1, <2>3 DEF Carriers
  <2>6. Cardinality(Carriers(t)) \in Nat /\ Cardinality(Carriers(t)') = Cardinality(Carriers(t)) - 1
    BY <1>2, <1>4, <2>5, FS_RemoveElement
  <2>7. /\ IsFiniteSet(Successors(t) \cup {s})
        /\ Cardinality(Successors(t) \cup {s}) \in Nat
        /\ Cardinality(Successors(t) \cup {s}) <= Cardinality(Successors(t)) + 1
    <3>1. CASE s \in Successors(t)
      <4>1. Successors(t) \cup {s} = Successors(t)
        BY <3>1
      <4>2. Cardinality(Successors(t)) \in Nat
        BY <1>3, FS_CardinalityType
      <4>3. Cardinality(Successors(t)) <= Cardinality(Successors(t)) + 1
        BY <4>2
      <4> QED
        BY <1>3, <4>1, <4>2, <4>3, Zenon
    <3>2. CASE s \notin Successors(t)
      <4>1. /\ IsFiniteSet(Successors(t) \cup {s})
            /\ Cardinality(Successors(t) \cup {s}) = Cardinality(Successors(t)) + 1
        BY <1>3, <3>2, FS_AddElement
      <4> QED
        BY <1>3, <4>1, FS_CardinalityType
    <3> QED
      BY <3>1, <3>2
  <2>8. /\ IsFiniteSet(Successors(t)') /\ Cardinality(Successors(t)') \in Nat
        /\ Cardinality(Successors(t)') <= Cardinality(Successors(t) \cup {s})
    BY <2>4, <2>7, FS_Subset, FS_CardinalityType
  <2>9. Cardinality(Worker) \in Nat
    BY <1>2
  <2> QED
    BY <1>3, <1>8, <2>6, <2>7, <2>8, <2>9
<1> QED
  BY <1>9, <1>10, <1>11

\* A token that was refreshed does not work beside its successor, and has no more of
\* them than handlers, whatever refreshes, resets and expiry overlap, but for a token
\* whose DELETE failed.
THEOREM RotationHolds == Spec => []RotatedOut
<1> DEFINE I == Rotating /\ SuccessorsBounded
<1>1. Init => I
  <2> SUFFICES ASSUME Init PROVE I
    OBVIOUS
  <2>1. Rotating
    BY DEF Init, Rotating, Idle
  <2>2. ASSUME NEW t \in Token
        PROVE  /\ Successors(t) = {} /\ Carriers(t) = {}
    BY <2>2, IdsAssumption DEF Init, Successors, Carriers, Idle, NoToken
  <2>3. IsFiniteSet({}) /\ Cardinality({}) = 0 /\ Cardinality(Worker) \in Nat
    BY FS_EmptySet, FS_CardinalityType, IdsAssumption
  <2> QED
    BY <2>1, <2>2, <2>3 DEF SuccessorsBounded
<1>2. AuthInv /\ I /\ [Next]_vars => I'
  BY RotatingStep, SuccessorsStep
<1>3. I => RotatedOut
  <2> SUFFICES ASSUME I, NEW t \in Token \ kept
               PROVE  /\ Successors(t) # {} => token[t].state = "gone"
                      /\ Cardinality(Successors(t)) <= Cardinality(Worker)
    BY DEF RotatedOut
  <2>1. /\ Successors(t) # {} => token[t].state = "gone"
        /\ IsFiniteSet(Successors(t))
        /\ Cardinality(Successors(t)) + Cardinality(Carriers(t)) <= Cardinality(Worker)
    BY DEF SuccessorsBounded
  <2>2. IsFiniteSet(Carriers(t))
    <3>1. Carriers(t) \subseteq Worker
      BY DEF Carriers
    <3> QED
      BY <3>1, IdsAssumption, FS_Subset
  <2>3. Cardinality(Successors(t)) \in Nat /\ Cardinality(Carriers(t)) \in Nat
        /\ Cardinality(Worker) \in Nat
    BY <2>1, <2>2, IdsAssumption, FS_CardinalityType
  <2> QED
    BY <2>1, <2>3
<1> HIDE DEF I
<1> QED
  BY <1>1, <1>2, <1>3, AuthInvariance, PTL DEF Spec
-----------------------------------------------------------------------------
(* The second factor                                                       *)

\* The second factor's count of changes never goes back.
LEMMA FactorGrows ==
    ASSUME AuthInv, [Next]_vars, NEW u \in User
    PROVE  account'[u].factor >= account[u].factor
<1>1. AuthTypeOK /\ account[u].factor \in Nat
  BY DEF AuthInv, AuthTypeOK, AccountRow
<1>2. ASSUME UNCHANGED account PROVE account'[u].factor >= account[u].factor
  BY <1>1, <1>2
<1>3. ASSUME NEW h \in Worker, Step(h) PROVE account'[u].factor >= account[u].factor
  <2>1. CASE SetPassword(h) \/ SetSetupSecret(h)
    <3> DEFINE v == worker[h].user
    <3>1. \/ account' = [account EXCEPT ![v].password = account[v].password + 1]
          \/ account' = [account EXCEPT ![v].setup = TRUE]
      BY <2>1 DEF SetPassword, SetSetupSecret
    <3> HIDE DEF v
    <3>2. account \in [User -> AccountRow]
      BY <1>1 DEF AuthTypeOK
    <3>3. CASE account' = [account EXCEPT ![v].password = account[v].password + 1]
      BY <1>1, <3>2, <3>3 DEF AccountRow
    <3>4. CASE account' = [account EXCEPT ![v].setup = TRUE]
      BY <1>1, <3>2, <3>4 DEF AccountRow
    <3> QED
      BY <3>1, <3>3, <3>4
  <2>2. CASE EnableTOTP(h) \/ DisableTOTP(h)
    <3>1. PICK n \in {account[worker[h].user].factor, account[worker[h].user].factor + 1} :
            account' = [account EXCEPT ![worker[h].user].factor = n, ![worker[h].user].setup = FALSE]
      BY <2>2 DEF EnableTOTP, DisableTOTP
    <3>2. account'[u].factor = account[u].factor \/ account'[u].factor = account[u].factor + 1
      BY <1>1, <3>1 DEF AuthTypeOK, AccountRow
    <3> QED
      BY <1>1, <3>2
  <2>3. CASE LoadUser(h) \/ RecordFailure(h) \/ ClearFailures(h) \/ CheckFactor(h)
             \/ IssueTokens(h) \/ UseBackupCode(h) \/ Rotate(h) \/ MarkUsed(h)
             \/ EndSessions(h) \/ DropCodes(h) \/ AddCode(h)
    BY <1>2, <2>3, Zenon DEF LoadUser, RecordFailure, ClearFailures, CheckFactor, IssueTokens,
         UseBackupCode, Rotate, MarkUsed, EndSessions, DropCodes, AddCode
  <2> QED
    BY <1>3, <2>1, <2>2, <2>3 DEF Step
<1>4. ASSUME NEW h \in Worker, Arrive(h) PROVE account'[u].factor >= account[u].factor
  BY <1>2, <1>4, Zenon DEF Arrive, Login, GoogleCallback, Validate, Setup, Verify, Disable,
                           RegenerateBackup, Refresh, ResetPassword
<1>5. CASE (\E v \in User : ForgotPassword(v)) \/ (\E h \in Worker : Abort(h)) \/ Restart
           \/ Expire \/ UNCHANGED vars
  BY <1>2, <1>5 DEF ForgotPassword, Abort, Restart, Expire, vars
<1> QED
  BY <1>3, <1>4, <1>5 DEF Next

\* A login past a factor that was on when it began has seen it turned off, or its
\* query for the factor failed.
LEMMA FactorSeenStep ==
    ASSUME AuthInv, Rotating, FactorSeen, [Next]_vars
    PROVE  FactorSeen'
<1> DEFINE Before(h) ==
      worker[h].pc \in {"load", "clear", "factor"} =>
        worker[h].began <= account[worker[h].user].factor
<1> DEFINE After(h) ==
      worker[h].pc = "issue" /\ worker[h].via = "password" /\ worker[h].parent = None
        /\ worker[h].began % 2 = 1 => worker[h].began < account[worker[h].user].factor
<1>1. AuthTypeOK /\ AuthTypeOK' /\ None \notin Token
  BY NextTyped, IdsAssumption DEF AuthInv
<1>2. ASSUME NEW h \in Worker PROVE Before(h)' /\ After(h)'
  <2>1. Move(h) /\ Before(h) /\ After(h)
    BY AllMove DEF FactorSeen
  <2>2. worker[h].began \in Nat /\ worker'[h].began \in Nat
    BY <1>1 DEF AuthTypeOK, Local
  <2>3. ASSUME NEW u \in User
        PROVE  /\ account[u].factor \in Nat /\ account'[u].factor \in Nat
               /\ account[u].factor <= account'[u].factor
    BY <1>1, <2>3, FactorGrows DEF AuthTypeOK, AccountRow
  <2>4. CASE worker'[h] = worker[h]
    <3>1. CASE worker[h].pc # "idle"
      <4>1. worker[h].user \in User
        BY <3>1 DEF AuthInv, Owned
      <4> QED
        BY <2>1, <2>2, <2>3, <2>4, <4>1
    <3> QED
      BY <2>4, <3>1
  <2>5. CASE worker'[h].pc \in {"fail", "rotate"} \/ worker'[h].pc \notin Towards
    BY <2>5 DEF Towards
  <2>6. CASE /\ worker'[h].pc = "load" /\ worker'[h].user \in User
             /\ worker'[h].began = account[worker'[h].user].factor
    BY <2>3, <2>6
  <2>7. CASE worker[h].pc \in {"load", "clear"} /\ worker'[h].pc \in {"clear", "factor"} /\ Same(h)
    <3>1. worker[h].user \in User
      BY <2>7 DEF AuthInv, Owned
    <3> QED
      BY <2>1, <2>2, <2>3, <2>7, <3>1 DEF Same
  <2>8. CASE worker[h].pc = "factor" /\ worker'[h].pc = "issue" /\ Same(h)
             /\ ~Enabled(worker[h].user)
    <3>1. worker[h].user \in User
      BY <2>8 DEF AuthInv, Owned
    <3>2. worker[h].began <= account[worker[h].user].factor
          /\ account[worker[h].user].factor % 2 # 1
      BY <2>1, <2>8 DEF Enabled
    <3>3. worker[h].began % 2 = 1 => worker[h].began < account[worker[h].user].factor
      BY <2>2, <2>3, <3>1, <3>2
    <3> QED
      BY <2>2, <2>3, <2>8, <3>1, <3>3 DEF Same
  <2>9. CASE worker'[h].pc = "issue" /\ worker'[h].via \in {"google", "unasked"}
    BY <2>9
  <2>10. CASE worker[h].pc = "rotate" /\ worker'[h].pc = "issue" /\ Same(h)
    BY <1>1, <2>10 DEF Rotating, Same
  <2> HIDE DEF Before, After
  <2> QED
    BY <2>1, <2>4, <2>5, <2>6, <2>7, <2>8, <2>9, <2>10 DEF Move
<1> QED
  BY <1>2 DEF FactorSeen

\* A password alone opens no session while the factor is on, whatever setups, resets
\* and logins overlap, but for a login whose query for the factor failed.
THEOREM SecondFactorHolds == Spec => SecondFactor
<1> DEFINE I == Rotating /\ FactorSeen
<1> DEFINE A == \A t \in Token :
        token[t].state = "none" /\ token'[t].state = "live"
          /\ token'[t].parent = None /\ token'[t].via = "password"
        => ~ (/\ token'[t].began % 2 = 1
              /\ token'[t].began = account[token'[t].user].factor)
<1>1. Init => I
  BY DEF Init, Rotating, FactorSeen, Idle
<1>2. AuthInv /\ I /\ [Next]_vars => I'
  BY RotatingStep, FactorSeenStep
<1>3. AuthInv /\ I /\ [Next]_vars => A
  <2> SUFFICES ASSUME AuthInv, I, [Next]_vars, NEW t \in Token,
                      token[t].state = "none", token'[t].state = "live",
                      token'[t].parent = None, token'[t].via = "password",
                      token'[t].began % 2 = 1
               PROVE  token'[t].began # account[token'[t].user].factor
    OBVIOUS
  <2>1. PICK h \in Worker : worker[h].pc = "issue" /\ token'[t] = Issued(h)
    BY TokenSteps DEF TokenStep
  <2>2. worker[h].user \in User /\ worker[h].began \in Nat
        /\ account[worker[h].user].factor \in Nat
    BY <2>1 DEF AuthInv, AuthTypeOK, Owned, Local, AccountRow
  <2>3. worker[h].began < account[worker[h].user].factor
    BY <2>1 DEF Issued, FactorSeen
  <2> QED
    BY <2>1, <2>2, <2>3 DEF Issued
<1>4. SecondFactor <=> [][A]_vars
  BY DEF SecondFactor
<1> HIDE DEF I, A
<1> QED
  BY <1>1, <1>2, <1>3, <1>4, AuthInvariance, PTL DEF Spec
-----------------------------------------------------------------------------
(* The lockout                                                             *)

\* A step records one failure, of a login that ends with it, or none.
FailureStep(u) ==
    \/ failures'[u] <= failures[u]
    \/ /\ failures'[u] = failures[u] + 1
       /\ \E h \in Pending(u) : /\ worker'[h].pc = "idle"
                                /\ \A g \in Worker \ {h} : worker'[g] = worker[g]

LEMMA FailureSteps ==
    ASSUME AuthInv, [Next]_vars, NEW u \in User
    PROVE  FailureStep(u)
<1>1. AuthTypeOK /\ failures[u] \in Nat
  BY DEF AuthInv, AuthTypeOK
<1>2. ASSUME UNCHANGED failures PROVE FailureStep(u)
  BY <1>1, <1>2 DEF FailureStep
<1>3. ASSUME NEW h \in Worker, RecordFailure(h) PROVE FailureStep(u)
  <2>1. worker'[h].pc = "idle" /\ \A g \in Worker \ {h} : worker'[g] = worker[g]
    BY <1>1, <1>3, FinishTyped, IdleTyped DEF RecordFailure
  <2>2. worker[h].pc = "fail" /\ failures' = [failures EXCEPT ![worker[h].user] = @ + 1]
    BY <1>3 DEF RecordFailure
  <2>3. CASE worker[h].user = u
    <3>1. failures'[u] = failures[u] + 1
      BY <1>1, <2>2, <2>3 DEF AuthTypeOK
    <3>2. h \in Pending(u)
      BY <2>2, <2>3 DEF Pending
    <3> QED
      BY <2>1, <3>1, <3>2 DEF FailureStep
  <2>4. CASE worker[h].user # u
    BY <1>1, <2>2, <2>4 DEF AuthTypeOK, FailureStep
  <2> QED
    BY <2>3, <2>4
<1>4. ASSUME NEW h \in Worker, ClearFailures(h) PROVE FailureStep(u)
  <2>1. failures' = [failures EXCEPT ![worker[h].user] = 0]
    BY <1>4 DEF ClearFailures
  <2> QED
    BY <1>1, <2>1 DEF AuthTypeOK, FailureStep
<1>5. ASSUME NEW h \in Worker, Step(h) PROVE FailureStep(u)
  <2>1. CASE LoadUser(h) \/ CheckFactor(h) \/ IssueTokens(h) \/ UseBackupCode(h) \/ Rotate(h)
             \/ SetPassword(h) \/ MarkUsed(h) \/ EndSessions(h) \/ SetSetupSecret(h)
             \/ EnableTOTP(h) \/ DisableTOTP(h) \/ DropCodes(h) \/ AddCode(h)
    <3>1. UNCHANGED failures
      BY <2>1, Zenon DEF LoadUser, CheckFactor, IssueTokens, UseBackupCode, Rotate, SetPassword,
           MarkUsed, EndSessions, SetSetupSecret, EnableTOTP, DisableTOTP, DropCodes, AddCode
    <3> QED
      BY <1>2, <3>1
  <2> QED
    BY <1>3, <1>4, <1>5, <2>1 DEF Step
<1>6. ASSUME NEW h \in Worker, Arrive(h) PROVE FailureStep(u)
  <2>1. UNCHANGED failures
    BY <1>6, Zenon DEF Arrive, Login, GoogleCallback, Validate, Setup, Verify, Disable,
                       RegenerateBackup, Refresh, ResetPassword
  <2> QED
    BY <1>2, <2>1
<1>7. CASE Expire
  <2>1. UNCHANGED failures \/ \E v \in User : failures' = [failures EXCEPT ![v] = @ - 1]
    BY <1>7 DEF Expire, ForgetFailure
  <2> QED
    BY <1>1, <1>2, <2>1 DEF AuthTypeOK, FailureStep
<1>8. CASE Restart
  BY <1>1, <1>8 DEF Restart, FailureStep
<1>9. CASE (\E v \in User : ForgotPassword(v)) \/ (\E h \in Worker : Abort(h)) \/ UNCHANGED vars
  BY <1>2, <1>9 DEF ForgotPassword, Abort, vars
<1> QED
  BY <1>5, <1>6, <1>7, <1>8, <1>9 DEF Next

\* Wrong passwords beyond the maximum come only from logins that overlapped: at
\* most one for every handler.
THEOREM LockoutBounded == Spec => []LockoutHolds
<1>1. ASSUME NEW S \in SUBSET Worker
      PROVE  /\ IsFiniteSet(S) /\ Cardinality(S) \in Nat
             /\ Cardinality(S) <= Cardinality(Worker) /\ Cardinality(Worker) \in Nat
  BY IdsAssumption, FS_Subset, FS_CardinalityType
<1>2. \A u \in User : Pending(u) \subseteq Worker /\ Pending(u)' \subseteq Worker
  BY DEF Pending
<1>3. Init => FailuresBounded
  <2> SUFFICES ASSUME Init, NEW u \in User
               PROVE  failures[u] + Cardinality(Pending(u)) < MaxAttempts + Cardinality(Worker)
    BY DEF FailuresBounded
  <2>1. failures[u] = 0
    BY DEF Init
  <2> QED
    BY <1>1, <1>2, <2>1, IdsAssumption
<1>4. AuthInv /\ FailuresBounded /\ [Next]_vars => FailuresBounded'
  <2> SUFFICES ASSUME AuthInv, FailuresBounded, [Next]_vars, NEW u \in User
               PROVE  failures'[u] + Cardinality(Pending(u)')
                        < MaxAttempts + Cardinality(Worker)
    BY DEF FailuresBounded
  <2>1. /\ failures[u] \in Nat /\ failures'[u] \in Nat
        /\ MaxAttempts \in Nat /\ Cardinality(Worker) \in Nat
        /\ Cardinality(Pending(u)) \in Nat /\ Cardinality(Pending(u)') \in Nat
        /\ IsFiniteSet(Pending(u))
        /\ Cardinality(Pending(u)') <= Cardinality(Worker)
    BY <1>1, <1>2, NextTyped, IdsAssumption DEF AuthInv, AuthTypeOK
  <2>2. failures[u] + Cardinality(Pending(u)) < MaxAttempts + Cardinality(Worker)
    BY DEF FailuresBounded
  <2>3. CASE failures'[u] <= failures[u] /\ Pending(u)' \subseteq Pending(u)
    <3>1. Cardinality(Pending(u)') <= Cardinality(Pending(u))
      BY <2>1, <2>3, FS_Subset
    <3> QED
      BY <2>1, <2>2, <2>3, <3>1
  <2>4. CASE failures'[u] <= failures[u] /\ ~(Pending(u)' \subseteq Pending(u))
    <3>1. PICK h \in Pending(u)' : h \notin Pending(u)
      BY <2>4
    <3>2. h \in Worker /\ worker'[h].user = u /\ worker'[h].pc \in {"load", "fail"}
          /\ ~(worker[h].user = u /\ worker[h].pc \in {"load", "fail"})
      BY <3>1 DEF Pending
    <3>3. ~IsLocked(u)
      BY <3>2, AllMove DEF Move, Same, Towards
    <3>4. failures[u] < MaxAttempts
      BY <2>1, <3>3 DEF IsLocked
    <3> QED
      BY <2>1, <2>4, <3>4
  <2>5. ASSUME NEW h \in Pending(u), failures'[u] = failures[u] + 1, worker'[h].pc = "idle",
               \A g \in Worker \ {h} : worker'[g] = worker[g]
        PROVE  failures'[u] + Cardinality(Pending(u)') < MaxAttempts + Cardinality(Worker)
    <3>1. Pending(u)' = Pending(u) \ {h}
      BY <2>5 DEF Pending
    <3>2. Cardinality(Pending(u)') = Cardinality(Pending(u)) - 1
      BY <2>1, <3>1, FS_RemoveElement
    <3> QED
      BY <2>1, <2>2, <2>5, <3>2
  <2> QED
    BY <2>3, <2>4, <2>5, FailureSteps DEF FailureStep
<1>5. AuthInv /\ FailuresBounded => LockoutHolds
  <2> SUFFICES ASSUME AuthInv, FailuresBounded, NEW u \in User
               PROVE  failures[u] < MaxAttempts + Cardinality(Worker)
    BY DEF LockoutHolds
  <2>1. failures[u] \in Nat /\ Cardinality(Pending(u)) \in Nat
        /\ MaxAttempts \in Nat /\ Cardinality(Worker) \in Nat
    BY <1>1, <1>2, IdsAssumption DEF AuthInv, AuthTypeOK
  <2> QED
    BY <2>1 DEF FailuresBounded
<1> QED
  BY <1>3, <1>4, <1>5, AuthInvariance, PTL DEF Spec
-----------------------------------------------------------------------------
(* Password resets                                                         *)

\* A user's password only gets newer.
LEMMA PasswordGrows ==
    ASSUME AuthInv, [Next]_vars, NEW u \in User
    PROVE  account'[u].password >= account[u].password
<1>1. account \in [User -> AccountRow] /\ account[u].password \in Nat
  BY DEF AuthInv, AuthTypeOK, AccountRow
<1>2. ASSUME UNCHANGED account PROVE account'[u].password >= account[u].password
  BY <1>1, <1>2
<1>3. ASSUME NEW h \in Worker, Step(h) PROVE account'[u].password >= account[u].password
  <2>1. CASE SetPassword(h)
    <3>1. PICK v : v = worker[h].user
      OBVIOUS
    <3>2. account' = [account EXCEPT ![v].password = account[v].password + 1]
      BY <2>1, <3>1 DEF SetPassword
    <3>3. account'[u].password \in {account[u].password, account[u].password + 1}
      BY <1>1, <3>2 DEF AccountRow
    <3> QED
      BY <1>1, <3>3
  <2>2. CASE SetSetupSecret(h)
    BY <1>1, <2>2 DEF SetSetupSecret, AccountRow
  <2>3. CASE EnableTOTP(h) \/ DisableTOTP(h)
    <3>1. PICK n \in {account[worker[h].user].factor, account[worker[h].user].factor + 1} :
            account' = [account EXCEPT ![worker[h].user].factor = n, ![worker[h].user].setup = FALSE]
      BY <2>3 DEF EnableTOTP, DisableTOTP
    <3>2. account'[u].password = account[u].password
      BY <1>1, <3>1 DEF AccountRow
    <3> QED
      BY <1>1, <3>2
  <2>4. CASE LoadUser(h) \/ RecordFailure(h) \/ ClearFailures(h) \/ CheckFactor(h)
             \/ IssueTokens(h) \/ UseBackupCode(h) \/ Rotate(h) \/ MarkUsed(h)
             \/ EndSessions(h) \/ DropCodes(h) \/ AddCode(h)
    BY <1>2, <2>4, Zenon DEF LoadUser, RecordFailure, ClearFailures, CheckFactor, IssueTokens,
         UseBackupCode, Rotate, MarkUsed, EndSessions, DropCodes, AddCode
  <2> QED
    BY <1>3, <2>1, <2>2, <2>3, <2>4 DEF Step
<1>4. ASSUME NEW h \in Worker, Arrive(h) PROVE account'[u].password >= account[u].password
  BY <1>2, <1>4, Zenon DEF Arrive, Login, GoogleCallback, Validate, Setup, Verify, Disable,
                           RegenerateBackup, Refresh, ResetPassword
<1>5. CASE (\E v \in User : ForgotPassword(v)) \/ (\E h \in Worker : Abort(h)) \/ Restart
           \/ Expire \/ UNCHANGED vars
  BY <1>2, <1>5 DEF ForgotPassword, Abort, Restart, Expire, vars
<1> QED
  BY <1>3, <1>4, <1>5 DEF Next

\* The handlers that carry a password version towards a session, and those that
\* carry one towards the end of all sessions.
Knows == {"clear", "factor", "rotate", "issue"}
Resets == {"markUsed", "endSessions"}

\* How a handler comes by the password version it carries: it reads the account,
\* takes it from a token that works, or has it already.
Learn(h) ==
    \/ worker'[h] = worker[h]
    \/ worker'[h].pc \notin Knows \cup Resets
    \/ /\ worker'[h].user \in User
       /\ worker'[h].epoch = account'[worker'[h].user].password
    \/ /\ worker'[h].pc = "rotate"
       /\ \E t \in Token : /\ token[t].state = "live"
                           /\ worker'[h].user = token[t].user
                           /\ worker'[h].epoch = token[t].epoch
    \/ /\ worker'[h].user = worker[h].user /\ worker'[h].epoch = worker[h].epoch
       /\ \/ worker[h].pc \in Knows /\ worker'[h].pc \in Knows
          \/ worker[h].pc \in Resets /\ worker'[h].pc \in Resets

\* Arrivals read the account or a token, or carry no password version.
LEMMA ArriveLearns ==
    ASSUME AuthInv, NEW h \in Worker, Arrive(h)
    PROVE  Learn(h)
<1>1. AuthTypeOK
  BY DEF AuthInv
<1>2. ASSUME NEW w, Start(h, w), w.pc \notin Knows \cup Resets
      PROVE  Learn(h)
  BY <1>1, <1>2, StartMoves DEF Learn
<1>3. ASSUME NEW u \in User, GoogleCallback(h, u)
      PROVE  Learn(h)
  <2> DEFINE w == [Idle EXCEPT !.pc = "issue", !.user = u, !.via = "google",
                               !.epoch = account[u].password]
  <2>1. w.user = u /\ w.epoch = account[u].password
    BY DEF Idle
  <2>2. Start(h, w) /\ UNCHANGED account
    BY <1>3 DEF GoogleCallback
  <2> HIDE DEF w
  <2> QED
    BY <1>1, <2>1, <2>2, StartMoves DEF Learn
<1>4. ASSUME NEW t \in Token, Refresh(h, t)
      PROVE  Learn(h)
  <2> DEFINE w == [Idle EXCEPT !.pc = "rotate", !.user = token[t].user, !.parent = t,
                     !.via = token[t].via, !.epoch = token[t].epoch, !.began = token[t].began]
  <2>1. w.pc = "rotate" /\ w.user = token[t].user /\ w.epoch = token[t].epoch
    BY DEF Idle
  <2>2. Start(h, w) /\ token[t].state = "live"
    BY <1>4 DEF Refresh
  <2> HIDE DEF w
  <2> QED
    BY <1>1, <2>1, <2>2, StartMoves DEF Learn
<1>5. ASSUME NEW u \in User,
             Login(h, u) \/ Validate(h, u) \/ Setup(h, u) \/ Verify(h, u) \/ Disable(h, u)
               \/ RegenerateBackup(h, u)
      PROVE  Learn(h)
  <2>1. ASSUME NEW c \in Code, Start(h, [Idle EXCEPT !.pc = "useCode", !.user = u, !.id = c])
        PROVE  Learn(h)
    BY <1>2, <2>1 DEF Idle, Knows, Resets
  <2>2. CASE worker' = worker
    BY <2>2 DEF Learn
  <2>3. CASE Validate(h, u)
    BY <2>1, <2>2, <2>3 DEF Validate
  <2>4. CASE Setup(h, u)
    BY <1>2, <2>4 DEF Setup, Idle, Knows, Resets
  <2>5. CASE Verify(h, u)
    BY <1>2, <2>5 DEF Verify, Idle, Knows, Resets
  <2>6. CASE Disable(h, u)
    BY <1>2, <2>6 DEF Disable, Idle, Knows, Resets
  <2>7. CASE RegenerateBackup(h, u)
    BY <1>2, <2>7 DEF RegenerateBackup, Idle, Knows, Resets
  <2>8. CASE Login(h, u)
    BY <1>2, <2>8 DEF Login, Idle, Knows, Resets
  <2> QED
    BY <1>5, <2>3, <2>4, <2>5, <2>6, <2>7, <2>8
<1>6. ASSUME NEW r \in ResetToken, ResetPassword(h, r)
      PROVE  Learn(h)
  BY <1>2, <1>6 DEF ResetPassword, Idle, Knows, Resets
<1> QED
  BY <1>3, <1>4, <1>5, <1>6 DEF Arrive

\* Steps read the account, or go on with what they have.
LEMMA StepLearns ==
    ASSUME AuthInv, NEW h \in Worker, Step(h) \/ Abort(h)
    PROVE  Learn(h)
<1>1. AuthTypeOK
  BY DEF AuthInv
<1>2. worker[h].pc # "idle" => worker[h].user \in User
  BY DEF AuthInv, Owned
<1>3. ASSUME Finish(h) PROVE Learn(h)
  BY <1>1, <1>3, FinishTyped, IdleTyped DEF Learn, Knows, Resets
<1>4. ASSUME NEW pc \in PC, Goto(h, pc)
      PROVE  /\ worker'[h].pc = pc
             /\ worker'[h].user = worker[h].user /\ worker'[h].epoch = worker[h].epoch
  BY <1>1, <1>4, GotoTyped
<1>5. CASE LoadUser(h)
  <2>1. PICK pc \in {"clear", "fail"} :
          worker' = [worker EXCEPT ![h].epoch = account[worker[h].user].password, ![h].pc = pc]
    BY <1>5 DEF LoadUser
  <2>2. /\ worker'[h].user = worker[h].user
        /\ worker'[h].epoch = account[worker[h].user].password
    BY <1>1, <2>1 DEF AuthTypeOK, Local
  <2>3. worker[h].pc = "load" /\ UNCHANGED account
    BY <1>5 DEF LoadUser
  <2> QED
    BY <1>2, <2>2, <2>3 DEF Learn
<1>6. CASE ClearFailures(h) \/ Rotate(h)
  <2>1. worker[h].pc \in Knows /\ (Goto(h, "factor") \/ Goto(h, "issue"))
        /\ "factor" \in PC \cap Knows /\ "issue" \in PC \cap Knows
    BY <1>6 DEF ClearFailures, Rotate, Knows, PC
  <2> QED
    BY <1>4, <2>1 DEF Learn
<1>7. CASE CheckFactor(h)
  <2>1. /\ worker[h].pc \in Knows /\ "issue" \in PC \cap Knows
        /\ \/ Finish(h) \/ Goto(h, "issue")
           \/ worker' = [worker EXCEPT ![h].pc = "issue", ![h].via = "unasked"]
    BY <1>7 DEF CheckFactor, Knows, PC
  <2>2. CASE worker' = [worker EXCEPT ![h].pc = "issue", ![h].via = "unasked"]
    BY <1>1, <2>1, <2>2 DEF AuthTypeOK, Local, Learn
  <2> QED
    BY <1>3, <1>4, <2>1, <2>2 DEF Learn
<1>8. CASE RecordFailure(h) \/ IssueTokens(h) \/ UseBackupCode(h) \/ EndSessions(h)
           \/ SetSetupSecret(h) \/ Abort(h)
  BY <1>3, <1>8 DEF RecordFailure, IssueTokens, UseBackupCode, EndSessions, SetSetupSecret, Abort
<1>9. CASE MarkUsed(h)
  <2>1. worker[h].pc \in Resets /\ Goto(h, "endSessions") /\ "endSessions" \in PC \cap Resets
    BY <1>9 DEF MarkUsed, Resets, PC
  <2> QED
    BY <1>4, <2>1 DEF Learn
<1>10. CASE DisableTOTP(h)
  <2>1. Goto(h, "dropCodes") /\ "dropCodes" \in PC /\ "dropCodes" \notin Knows \cup Resets
    BY <1>10 DEF DisableTOTP, Knows, Resets, PC
  <2> QED
    BY <1>4, <2>1 DEF Learn
<1>11. CASE DropCodes(h)
  <2>1. /\ Finish(h) \/ Goto(h, "addCodes")
        /\ "addCodes" \in PC /\ "addCodes" \notin Knows \cup Resets
    BY <1>11 DEF DropCodes, Knows, Resets, PC
  <2> QED
    BY <1>3, <1>4, <2>1 DEF Learn
<1>12. CASE SetPassword(h)
  <2>1. PICK u \in User : u = worker[h].user
    BY <1>2, <1>12 DEF SetPassword
  <2>2. worker' = [worker EXCEPT ![h].pc = "markUsed", ![h].epoch = account[u].password + 1]
    BY <1>12, <2>1 DEF SetPassword
  <2>3. worker'[h].user = u /\ worker'[h].epoch = account[u].password + 1
    BY <1>1, <2>1, <2>2 DEF AuthTypeOK, Local
  <2>4. account' = [account EXCEPT ![u].password = account[u].password + 1]
    BY <1>12, <2>1 DEF SetPassword
  <2>5. account'[u].password = account[u].password + 1
    BY <1>1, <2>4 DEF AuthTypeOK, AccountRow
  <2> QED
    BY <2>3, <2>5 DEF Learn
<1>13. CASE EnableTOTP(h)
  <2>1. worker' = [worker EXCEPT ![h].pc = "dropCodes", ![h].left = Batch]
    BY <1>13 DEF EnableTOTP
  <2> QED
    BY <1>1, <2>1 DEF AuthTypeOK, Local, Learn, Knows, Resets
<1>14. CASE AddCode(h)
  <2>1. worker[h].pc = "addCodes" /\ (Finish(h) \/ worker' = [worker EXCEPT ![h].left = @ - 1])
    BY <1>14 DEF AddCode
  <2>2. CASE worker' = [worker EXCEPT ![h].left = @ - 1]
    BY <1>1, <2>1, <2>2 DEF AuthTypeOK, Local, Learn, Knows, Resets
  <2> QED
    BY <1>3, <2>1, <2>2
<1> QED
  BY <1>5, <1>6, <1>7, <1>8, <1>9, <1>10, <1>11, <1>12, <1>13, <1>14 DEF Step

\* In every step each handler comes by its password version in one of these ways.
LEMMA AllLearn ==
    ASSUME AuthInv, [Next]_vars
    PROVE  \A h \in Worker : Learn(h)
<1>1. ASSUME NEW h \in Worker, Arrive(h) \/ Step(h) \/ Abort(h)
      PROVE  \A g \in Worker : Learn(g)
  BY <1>1, ArriveMoves, StepMoves, ArriveLearns, StepLearns DEF Learn
<1>2. CASE Restart
  BY <1>2, IdleTyped DEF Restart, Learn, Knows, Resets
<1>3. CASE (\E u \in User : ForgotPassword(u)) \/ Expire
  BY <1>3 DEF ForgotPassword, Expire, Learn
<1>4. CASE UNCHANGED vars
  BY <1>4 DEF vars, Learn
<1> QED
  BY <1>1, <1>2, <1>3, <1>4 DEF Next

\* A reset ends the sessions: no handler was on its way with an authentication of that
\* user, and no token of that user works any more.
Answered(h, u) ==
    /\ worker[h].pc = "endSessions" /\ worker[h].user = u
    /\ Authenticated(u) = {}
    /\ ended' = [ended EXCEPT ![u] = Later(@, worker[h].epoch)]
    /\ \A t \in Token : token'[t].state = "live" => token'[t] = token[t] /\ token[t].user # u
    /\ worker'[h].pc = "idle"
    /\ \A g \in Worker \ {h} : worker'[g] = worker[g]
    /\ UNCHANGED account

LEMMA AnswerSteps ==
    ASSUME AuthInv, [Next]_vars
    PROVE  UNCHANGED ended \/ \E h \in Worker, u \in User : Answered(h, u)
<1>1. AuthTypeOK
  BY DEF AuthInv
<1>2. ASSUME NEW h \in Worker, EndSessions(h)
      PROVE  UNCHANGED ended \/ \E u \in User : Answered(h, u)
  <2>1. PICK u \in User : u = worker[h].user
    BY <1>2 DEF EndSessions, AuthInv, Owned
  <2> SUFFICES ASSUME ended' # ended PROVE Answered(h, u)
    OBVIOUS
  <2>2. /\ worker[h].pc = "endSessions" /\ Finish(h) /\ UNCHANGED account
        /\ token' = [t \in Token |-> IF t \in OfUser(u) THEN Gone(t) ELSE token[t]]
        /\ Authenticated(u) = {}
        /\ ended' = [ended EXCEPT ![u] = Later(@, worker[h].epoch)]
    BY <1>2, <2>1 DEF EndSessions
  <2>3. worker'[h].pc = "idle" /\ \A g \in Worker \ {h} : worker'[g] = worker[g]
    BY <1>1, <2>2, FinishTyped, IdleTyped
  <2>4. ASSUME NEW t \in Token, token'[t].state = "live"
        PROVE  token'[t] = token[t] /\ token[t].user # u
    <3>1. CASE t \in OfUser(u)
      BY <1>1, <2>2, <2>4, <3>1, GoneTyped
    <3>2. CASE t \notin OfUser(u)
      BY <2>2, <2>4, <3>2 DEF OfUser
    <3> QED
      BY <3>1, <3>2
  <2> QED
    BY <2>1, <2>2, <2>3, <2>4 DEF Answered
<1>3. ASSUME NEW h \in Worker, Step(h), ~EndSessions(h)
      PROVE  UNCHANGED ended
  BY <1>3, Zenon DEF Step, LoadUser, RecordFailure, ClearFailures, CheckFactor, IssueTokens,
       UseBackupCode, Rotate, SetPassword, MarkUsed, SetSetupSecret, EnableTOTP, DisableTOTP,
       DropCodes, AddCode
<1>4. ASSUME NEW h \in Worker, Arrive(h)
      PROVE  UNCHANGED ended
  BY <1>4, Zenon DEF Arrive, Login, GoogleCallback, Validate, Setup, Verify, Disable,
                     RegenerateBackup, Refresh, ResetPassword
<1>5. CASE (\E v \in User : ForgotPassword(v)) \/ (\E h \in Worker : Abort(h)) \/ Restart
           \/ Expire \/ UNCHANGED vars
  BY <1>5 DEF ForgotPassword, Abort, Restart, Expire, vars
<1> QED
  BY <1>2, <1>3, <1>4, <1>5 DEF Next

\* Nobody carries, and no token has, a password version older than the last answered
\* reset of its user.
LEMMA EpochsStep ==
    ASSUME AuthInv, EpochsFresh, SessionsEndAlone, [Next]_vars
    PROVE  EpochsFresh' /\ SessionsEndAlone'
<1>1. AuthTypeOK /\ AuthTypeOK'
  BY NextTyped DEF AuthInv
<1>2. ASSUME NEW u \in User
      PROVE  /\ ended[u] \in Nat /\ ended'[u] \in Nat
             /\ account[u].password \in Nat /\ account'[u].password \in Nat
             /\ account[u].password <= account'[u].password
             /\ ended[u] <= account[u].password
  BY <1>1, PasswordGrows DEF AuthTypeOK, AccountRow, EpochsFresh
<1>3. ASSUME NEW h \in Worker
      PROVE  /\ worker[h].epoch \in Nat /\ worker'[h].epoch \in Nat
             /\ worker[h].pc # "idle" => worker[h].user \in User
             /\ worker[h].pc \in Knows => worker[h].epoch >= ended[worker[h].user]
             /\ worker[h].pc \in Resets => worker[h].epoch <= account[worker[h].user].password
  BY <1>1 DEF AuthTypeOK, Local, AuthInv, Owned, EpochsFresh, Knows, Resets
<1>4. ASSUME NEW t \in Token, token[t].state = "live"
      PROVE  /\ token[t].user \in User /\ token[t].epoch \in Nat
             /\ token[t].epoch >= ended[token[t].user]
  BY <1>1, <1>4 DEF AuthTypeOK, TokenRow, AuthInv, Owned, SessionsEndAlone
<1>5. CASE UNCHANGED ended
  <2>1. ASSUME NEW h \in Worker
        PROVE  /\ worker'[h].pc \in Knows => worker'[h].epoch >= ended[worker'[h].user]
               /\ worker'[h].pc \in Resets =>
                    worker'[h].epoch <= account'[worker'[h].user].password
    <3>1. Learn(h) /\ "idle" \notin Knows \cup Resets /\ Knows \cap Resets = {}
          /\ "rotate" \notin Resets
      BY AllLearn DEF Knows, Resets
    <3>2. CASE worker'[h] = worker[h]
      <4>1. CASE worker[h].pc # "idle"
        BY <1>2, <1>3, <3>2, <4>1
      <4> QED
        BY <3>1, <3>2, <4>1
    <3>3. CASE worker'[h].pc \notin Knows \cup Resets
      BY <3>3
    <3>4. CASE /\ worker'[h].user \in User
               /\ worker'[h].epoch = account'[worker'[h].user].password
      BY <1>2, <3>4
    <3>5. CASE /\ worker'[h].pc = "rotate"
               /\ \E t \in Token : /\ token[t].state = "live"
                                   /\ worker'[h].user = token[t].user
                                   /\ worker'[h].epoch = token[t].epoch
      BY <1>4, <3>1, <3>5
    <3>6. CASE /\ worker'[h].user = worker[h].user /\ worker'[h].epoch = worker[h].epoch
               /\ \/ worker[h].pc \in Knows /\ worker'[h].pc \in Knows
                  \/ worker[h].pc \in Resets /\ worker'[h].pc \in Resets
      <4>1. worker[h].user \in User
        BY <1>3, <3>1, <3>6
      <4> QED
        BY <1>2, <1>3, <3>1, <3>6, <4>1
    <3> QED
      BY <3>1, <3>2, <3>3, <3>4, <3>5, <3>6 DEF Learn
  <2>2. ASSUME NEW t \in Token, token'[t].state = "live"
        PROVE  token'[t].epoch >= ended[token'[t].user]
    <3>1. TokenStep(t)
      BY TokenSteps
    <3>2. ASSUME NEW h \in Worker, worker[h].pc = "issue", token'[t] = Issued(h)
          PROVE  token'[t].epoch >= ended[token'[t].user]
      <4>1. token'[t].epoch = worker[h].epoch /\ token'[t].user = worker[h].user
        BY <3>2 DEF Issued
      <4> QED
        BY <1>3, <3>2, <4>1 DEF Knows
    <3> QED
      BY <1>4, <2>2, <3>1, <3>2 DEF TokenStep
  <2>3. \A u \in User : ended[u] <= account'[u].password
    BY <1>2
  <2> QED
    BY <1>5, <2>1, <2>2, <2>3 DEF EpochsFresh, SessionsEndAlone, Knows, Resets
<1>6. ASSUME NEW h \in Worker, NEW u \in User, Answered(h, u)
      PROVE  EpochsFresh' /\ SessionsEndAlone'
  <2>1. /\ \A v \in User \ {u} : ended'[v] = ended[v]
        /\ ended'[u] = ended[u] \/ ended'[u] = worker[h].epoch
    BY <1>1, <1>6 DEF Answered, AuthTypeOK, Later
  <2>2. \A v \in User : ended'[v] <= account'[v].password
    BY <1>2, <1>3, <1>6, <2>1 DEF Answered, Resets
  <2>3. ASSUME NEW g \in Worker
        PROVE  /\ worker'[g].pc \in Knows => worker'[g].epoch >= ended'[worker'[g].user]
               /\ worker'[g].pc \in Resets =>
                    worker'[g].epoch <= account'[worker'[g].user].password
    <3>1. CASE g = h
      BY <1>6, <3>1 DEF Answered, Knows, Resets
    <3>2. CASE g # h
      <4>1. worker'[g] = worker[g] /\ UNCHANGED account
        BY <1>6, <3>2 DEF Answered
      <4>2. worker[g].pc \in Knows => worker[g].user \in User \ {u}
        BY <1>3, <1>6 DEF Answered, Authenticated, Knows
      <4> QED
        BY <1>3, <2>1, <4>1, <4>2
    <3> QED
      BY <3>1, <3>2
  <2>4. ASSUME NEW t \in Token, token'[t].state = "live"
        PROVE  token'[t].epoch >= ended'[token'[t].user]
    <3>1. token'[t] = token[t] /\ token[t].user # u
      BY <1>6, <2>4 DEF Answered
    <3> QED
      BY <1>4, <2>1, <2>4, <3>1
  <2> QED
    BY <2>2, <2>3, <2>4 DEF EpochsFresh, SessionsEndAlone, Knows, Resets
<1> QED
  BY <1>5, <1>6, AnswerSteps

\* A session that works was authenticated with a password at least as new as the last
\* reset whose DELETE did not fail and that nobody was on the way past.
THEOREM SessionsEnd == Spec => []SessionsEndAlone
<1> DEFINE I == EpochsFresh /\ SessionsEndAlone
<1>1. Init => I
  BY DEF Init, EpochsFresh, SessionsEndAlone, Idle, NoToken
<1>2. AuthInv /\ I /\ [Next]_vars => I'
  BY EpochsStep
<1>3. I => SessionsEndAlone
  OBVIOUS
<1> HIDE DEF I
<1> QED
  BY <1>1, <1>2, <1>3, AuthInvariance, PTL DEF Spec
=============================================================================
