------------------------ MODULE AccessWorkflowProofs ------------------------
(***************************************************************************)
(* Proofs about the access-request workflow, for any number of users,      *)
(* secrets, requests, sessions and concurrent handlers, with or without    *)
(* faults.                                                                 *)
(***************************************************************************)
EXTENDS AccessWorkflowProps, FiniteSetTheorems, TLAPS

\* A secret carries one of the policies, and reading it yields a policy record.
LEMMA ResolvedPolicy ==
    ASSUME NEW p \in PolicyRecord, NEW r \in Resolve(p)
    PROVE  r \in PolicyRecord
  BY BoundAssumption DEF Resolve

\* The duration granted is a positive number of ticks when one is asked for,
\* and never above the cap (Service.CreateRequest).
LEMMA CappedBound ==
    ASSUME NEW d \in Nat, NEW p \in PolicyRecord
    PROVE  Capped(d, p) \in Nat \ {0} /\ Capped(d, p) <= p.maxDur
  BY DEF Capped, PolicyRecord

\* A goroutine that serves nothing has well-typed locals.
LEMMA IdleIsHandler == Idle \in Handler
<1>1. NoPolicy \in PolicyRecord
  BY DEF NoPolicy, PolicyRecord
<1>2. <<>> \in Seq(User)
  OBVIOUS
<1> QED
  BY <1>1, <1>2 DEF Idle, Handler, PC, Op

\* Moving on, or stopping, leaves every handler's locals well typed.
LEMMA GotoType ==
    ASSUME TypeOK, NEW h \in Worker, NEW pc \in PC, Goto(h, pc)
    PROVE  worker' \in [Worker -> Handler]
<1>1. worker[h] \in Handler
  BY DEF TypeOK
<1>2. [worker[h] EXCEPT !.pc = pc] \in Handler
  BY <1>1 DEF Handler
<1> QED
  BY <1>2 DEF TypeOK, Goto

\* Ending a handler, normally or not, leaves the locals well typed.
LEMMA FinishType ==
    ASSUME TypeOK, NEW h \in Worker, Finish(h)
    PROVE  worker' \in [Worker -> Handler]
  BY IdleIsHandler DEF TypeOK, Finish

\* IssueCredential inserts a well-typed credential_sessions row.
LEMMA InsertSessionType ==
    ASSUME TypeOK, NEW q \in RequestId, InsertSession(q)
    PROVE  session' \in [SessionId -> SessionRow]
<1>1. PICK x \in SessionId : session' = [session EXCEPT ![x] =
             [status |-> "active", req |-> q, issuedAt |-> now,
              expiresAt |-> now + request[q].dur, uses |-> 0]]
  BY DEF InsertSession
<1>2. now \in Nat /\ request[q].dur \in Nat
  BY DEF TypeOK, RequestRow
<1> QED
  BY <1>1, <1>2 DEF TypeOK, SessionRow, SessionStatus

\* The empty database with idle handlers is well typed.
LEMMA InitType == Init => TypeOK
<1> SUFFICES ASSUME Init PROVE TypeOK
  OBVIOUS
<1>1. NoPolicy \in PolicyRecord
  BY DEF NoPolicy, PolicyRecord
<1>2. NoRequest \in RequestRow
  BY <1>1 DEF NoRequest, RequestRow, RequestStatus
<1>3. NoSession \in SessionRow
  BY DEF NoSession, SessionRow, SessionStatus
<1>4. [state |-> "none", expiresAt |-> 0] \in LinkRow
  BY DEF LinkRow, LinkState
<1> QED
  BY <1>2, <1>3, <1>4, IdleIsHandler DEF Init, TypeOK

-----------------------------------------------------------------------------
(* Type correctness                                                        *)

\* Each action keeps the rows and the handlers' locals well typed.
LEMMA CreateRequestType ==
    ASSUME TypeOK, NEW h \in Worker, NEW u \in User \cup {None},
           NEW a \in Agent \cup {None}, NEW s \in Secret, NEW d \in Duration,
           CreateRequest(h, u, a, s, d)
    PROVE  TypeOK'
<1>1. PICK p \in Resolve(policy[s]), todo \in ResolveApprovers(s) :
         worker' = [worker EXCEPT ![h] =
           [Idle EXCEPT !.pc = "daily", !.op = "create", !.user = u, !.agent = a,
                        !.secret = s, !.pol = p, !.dur = Capped(d, p),
                        !.auto = p.auto, !.todo = todo]]
  BY DEF CreateRequest
<1>2. p \in PolicyRecord
  BY ResolvedPolicy, BoundAssumption DEF TypeOK
<1>3. Capped(d, p) \in Nat
  BY <1>2, CappedBound, BoundAssumption
<1>4. todo \in Seq(User) /\ p.auto \in BOOLEAN
  <2>1. <<>> \in Seq(User) /\ Approvers[s] \in Seq(User)
    BY IdentityAssumption
  <2>2. todo \in Seq(User)
    BY <2>1 DEF ResolveApprovers
  <2>3. p.auto \in BOOLEAN
    BY <1>2 DEF PolicyRecord
  <2> QED
    BY <2>2, <2>3
<1>5. [Idle EXCEPT !.pc = "daily", !.op = "create", !.user = u, !.agent = a,
                   !.secret = s, !.pol = p, !.dur = Capped(d, p),
                   !.auto = p.auto, !.todo = todo] \in Handler
  BY <1>2, <1>3, <1>4, IdleIsHandler DEF Handler, PC, Op
<1> QED
  BY <1>1, <1>5 DEF TypeOK, CreateRequest, rows, history

\* The access_requests row that CreateRequest inserts is well typed: its caller
\* is a user or an agent, never one of the system actors.
LEMMA InsertRequestType ==
    ASSUME TypeOK, HandlersOK, NEW h \in Worker, InsertRequest(h)
    PROVE  TypeOK'
<1> DEFINE w == worker[h]
<1>1. PICK q \in RequestId :
        /\ request' = [request EXCEPT ![q] =
             [NoRequest EXCEPT !.status = IF w.auto THEN "approved" ELSE "pending",
                               !.user = w.user, !.agent = w.agent,
                               !.secret = w.secret, !.dur = w.dur, !.pol = w.pol,
                               !.createdAt = now]]
        /\ worker' = [worker EXCEPT ![h].req = q,
                        ![h].pc = IF w.todo = <<>> THEN AfterSteps(w) ELSE "steps"]
  BY DEF InsertRequest
<1>2. w \in Handler /\ w.user \in User \cup {None} /\ now \in Nat
  BY DEF TypeOK, HandlersOK, LocalsOK, InsertRequest, Handler
<1>3. NoRequest \in RequestRow
  BY DEF NoRequest, NoPolicy, RequestRow, RequestStatus, PolicyRecord
<1>4. [NoRequest EXCEPT !.status = IF w.auto THEN "approved" ELSE "pending",
                        !.user = w.user, !.agent = w.agent,
                        !.secret = w.secret, !.dur = w.dur, !.pol = w.pol,
                        !.createdAt = now] \in RequestRow
  <2>1. /\ w.agent \in Agent \cup {None} /\ w.secret \in Secret \cup {None}
        /\ w.dur \in Nat /\ w.pol \in PolicyRecord
    BY <1>2 DEF Handler
  <2> HIDE DEF w
  <2> QED
    BY <1>2, <1>3, <2>1 DEF RequestRow, RequestStatus
<1>5. [w EXCEPT !.req = q,
                !.pc = IF w.todo = <<>> THEN AfterSteps(w) ELSE "steps"] \in Handler
  <2> DEFINE pc == IF w.todo = <<>> THEN AfterSteps(w) ELSE "steps"
  <2>1. pc \in PC
    BY DEF AfterSteps, PC
  <2> HIDE DEF w, pc
  <2>2. [w EXCEPT !.req = q, !.pc = pc] \in Handler
    BY <1>2, <2>1 DEF Handler
  <2> QED
    BY <2>2 DEF pc
<1>6. worker' \in [Worker -> Handler]
  BY <1>1, <1>5 DEF TypeOK
<1> QED
  BY <1>1, <1>4, <1>6 DEF TypeOK, InsertRequest, history

\* CreateRequest takes the approvers from the chain one at a time and never
\* reads past its end.
LEMMA InsertStepType ==
    ASSUME TypeOK, HandlersOK, NEW h \in Worker, InsertStep(h)
    PROVE  TypeOK'
<1> DEFINE w == worker[h]
<1>1. w \in Handler /\ w.todo \in Seq(User) /\ w.todo # <<>>
  BY DEF TypeOK, HandlersOK, LocalsOK, InsertStep, Handler
<1>2. Head(w.todo) \in User /\ Tail(w.todo) \in Seq(User)
  BY <1>1
<1>3. request' \in [RequestId -> RequestRow]
  <2>1. ASSUME NEW r \in RequestRow, NEW u \in User
        PROVE  [r EXCEPT !.steps = @ \cup {u}] \in RequestRow
    BY DEF RequestRow
  <2>2. request' = [request EXCEPT ![w.req].steps = @ \cup {Head(w.todo)}]
    BY DEF InsertStep
  <2> HIDE DEF w
  <2> QED
    BY <1>2, <2>1, <2>2 DEF TypeOK
<1>4. [w EXCEPT !.todo = Tail(@),
                !.pc = IF Len(w.todo) = 1 THEN AfterSteps(w) ELSE "steps"] \in Handler
  <2>1. AfterSteps(w) \in PC /\ "steps" \in PC
    BY DEF AfterSteps, PC
  <2>2. ASSUME NEW todo \in Seq(User), NEW pc \in PC
        PROVE  [w EXCEPT !.todo = todo, !.pc = pc] \in Handler
    <3> HIDE DEF w
    <3> QED
      BY <1>1 DEF Handler
  <2> HIDE DEF w
  <2> QED
    BY <1>2, <2>1, <2>2
<1>5. worker' \in [Worker -> Handler]
  BY <1>4 DEF TypeOK, InsertStep
<1> QED
  BY <1>3, <1>5 DEF TypeOK, InsertStep, history

\* A handler that starts on a row which is there keeps well-typed locals.
LEMMA StartType ==
    ASSUME TypeOK, NEW h \in Worker, NEW w \in Handler,
           worker' = [worker EXCEPT ![h] = w]
    PROVE  worker' \in [Worker -> Handler]
  BY DEF TypeOK

\* What a handler owes is a request of the table (AutoIssue, IssueCredential).
LEMMA OwedType ==
    ASSUME HandlersOK, NEW h \in Worker
    PROVE  Owed(h) \subseteq RequestId
  BY DEF HandlersOK, RowOK, Owed

\* A single use whose session stays open is counted (AutoRevokeIfSingleUse).
LEMMA KeepType ==
    ASSUME TypeOK, NEW q, Keep(q)
    PROVE  kept' \in [RequestId -> Nat]
<1>1. kept' = kept \/ kept' = [kept EXCEPT ![q] = @ + 1]
  BY DEF Keep
<1> QED
  BY <1>1 DEF TypeOK

\* Both ways to issue a credential keep the rows well typed.
LEMMA IssueType ==
    ASSUME TypeOK, HandlersOK, NEW h \in Worker, AutoIssue(h) \/ IssueCredential(h)
    PROVE  TypeOK'
<1>1. worker[h].req \in RequestId
  BY DEF HandlersOK, RowOK, AutoIssue, IssueCredential
<1>2. session' \in [SessionId -> SessionRow]
  BY <1>1, InsertSessionType DEF AutoIssue, IssueCredential, TypeOK
<1>3. worker' \in [Worker -> Handler]
  BY GotoType, FinishType DEF AutoIssue, IssueCredential, PC
<1> QED
  BY <1>2, <1>3, OwedType DEF TypeOK, AutoIssue, IssueCredential, history

\* NotifyApprovalNeeded stores well-typed links.
LEMMA NotifyType ==
    ASSUME TypeOK, HandlersOK, NEW h \in Worker, Notify(h)
    PROVE  TypeOK'
<1> DEFINE fresh == [state |-> "live", expiresAt |-> now + LinkTTL]
<1>1. fresh \in LinkRow
  BY BoundAssumption DEF TypeOK, LinkRow, LinkState
<1>2. worker[h].req \in RequestId
  BY DEF HandlersOK, RowOK, Notify
<1>3. link' \in [RequestId -> [Decision -> LinkRow]]
  <2>1. PICK p \in Resolve(worker[h].pol), sent \in Sent :
           link' = IF p.notify
                   THEN [link EXCEPT ![worker[h].req] =
                          [a \in Decision |-> IF a \in sent THEN fresh ELSE @[a]]]
                   ELSE link
    BY DEF Notify
  <2> HIDE DEF fresh
  <2>2. [a \in Decision |-> IF a \in sent THEN fresh ELSE link[worker[h].req][a]]
           \in [Decision -> LinkRow]
    BY <1>1, <1>2 DEF TypeOK
  <2> QED
    BY <2>1, <2>2, <1>2 DEF TypeOK
<1>4. worker' \in [Worker -> Handler]
  BY FinishType DEF Notify
<1> QED
  BY <1>3, <1>4 DEF TypeOK, Notify, history

\* The handlers that begin with an authorisation check.
LEMMA BeginType ==
    ASSUME TypeOK, NEW h \in Worker, NEW q \in RequestId, NEW a \in Decision,
           \/ \E u \in User : BeginDecision(h, u, q, a)
           \/ ChatDecision(h, q, a)
           \/ RedeemActionToken(h, q, a)
           \/ \E c \in Principal : GetCredential(h, c, q)
           \/ \E c \in Principal : BeginRevoke(h, c, q)
    PROVE  TypeOK'
<1>1. \A v \in User \cup {System} :
        [Idle EXCEPT !.pc = "decide", !.op = a, !.user = v, !.req = q] \in Handler
  BY IdleIsHandler DEF Handler, PC, Op
<1>2. request[q].secret \in Secret \cup {None}
  BY DEF TypeOK, RequestRow
<1>3. [Idle EXCEPT !.pc = "bump", !.op = "get", !.req = q,
                   !.secret = request[q].secret] \in Handler
  BY <1>2, IdleIsHandler DEF Handler, PC, Op
<1>4. [Idle EXCEPT !.pc = "revokeSession", !.op = "revoke", !.req = q] \in Handler
  BY IdleIsHandler DEF Handler, PC, Op
<1>5. worker' \in [Worker -> Handler]
  BY <1>1, <1>3, <1>4, StartType
     DEF BeginDecision, ChatDecision, RedeemActionToken, GetCredential,
         BeginRevoke, TypeOK
<1>6. link' \in [RequestId -> [Decision -> LinkRow]]
  <2>1. CASE link' = link
    BY <2>1 DEF TypeOK
  <2>2. CASE link' = [link EXCEPT ![q][a].state = "used"]
    <3>0. link[q] \in [Decision -> LinkRow] /\ link[q][a] \in LinkRow
      BY DEF TypeOK
    <3>1. [link[q][a] EXCEPT !.state = "used"] \in LinkRow
      BY <3>0 DEF LinkRow, LinkState
    <3>2. [link[q] EXCEPT ![a] = [@ EXCEPT !.state = "used"]] \in [Decision -> LinkRow]
      BY <3>0, <3>1
    <3> QED
      BY <2>2, <3>2 DEF TypeOK
  <2> QED
    BY <2>1, <2>2
       DEF BeginDecision, ChatDecision, RedeemActionToken, GetCredential,
           BeginRevoke, rows
<1> QED
  BY <1>5, <1>6
     DEF BeginDecision, ChatDecision, RedeemActionToken, GetCredential,
         BeginRevoke, rows, history, TypeOK

\* Approve and Reject store a user as decided_by, since the statement fails for
\* any other actor.
LEMMA DecideType ==
    ASSUME TypeOK, HandlersOK, NEW h \in Worker, Decide(h)
    PROVE  TypeOK'
<1> DEFINE w == worker[h]
           q == w.req
<1>1. q \in RequestId
  BY DEF HandlersOK, RowOK, Decide
<1>2. now + request[q].dur \in Nat
  BY <1>1 DEF TypeOK, RequestRow
<1>3. request' \in [RequestId -> RequestRow]
  <2>1. CASE ~Decidable(q, w.user)
    BY <2>1 DEF Decide, TypeOK
  <2>2. CASE Decidable(q, w.user)
    <3>1. w.user \in User
      BY <2>2 DEF Decidable
    <3> HIDE DEF w, q
    <3> DEFINE t == now + request[q].dur
    <3>1a. request[q] \in RequestRow /\ t \in Nat
      BY <1>1, <1>2 DEF TypeOK
    <3> HIDE DEF t
    <3>2. [request[q] EXCEPT !.status = "approved", !.decidedBy = w.user,
                             !.expiresAt = t] \in RequestRow
      BY <3>1, <3>1a DEF RequestRow, RequestStatus
    <3>3. [request[q] EXCEPT !.status = "rejected", !.decidedBy = w.user]
             \in RequestRow
      BY <3>1, <3>1a DEF RequestRow, RequestStatus
    <3>4. \/ request' = [request EXCEPT ![q].status = "approved",
                 ![q].decidedBy = w.user, ![q].expiresAt = t]
          \/ request' = [request EXCEPT ![q].status = "rejected",
                 ![q].decidedBy = w.user]
      BY <2>2 DEF Decide, w, q, t
    <3> QED
      BY <1>1, <3>2, <3>3, <3>4 DEF TypeOK
  <2> QED
    BY <2>1, <2>2
<1>4. worker' \in [Worker -> Handler]
  BY GotoType, FinishType DEF Decide, PC
<1> QED
  BY <1>3, <1>4 DEF TypeOK, Decide, history

\* CredentialManager.GetCredential counts uses in the naturals.
LEMMA BumpUsageType ==
    ASSUME TypeOK, NEW h \in Worker, BumpUsage(h)
    PROVE  TypeOK'
<1>1. session' \in [SessionId -> SessionRow]
  <2>1. \A x \in SessionId : session[x] \in SessionRow
    BY DEF TypeOK
  <2>2. \A x \in SessionId : [session[x] EXCEPT !.uses = @ + 1] \in SessionRow
    BY <2>1 DEF SessionRow
  <2> QED
    BY <2>1, <2>2 DEF BumpUsage
<1>2. worker' \in [Worker -> Handler]
  BY GotoType, FinishType DEF BumpUsage, PC
<1> QED
  BY <1>1, <1>2 DEF TypeOK, BumpUsage, history

\* Decrypting and the single-use decision keep the locals well typed.
LEMMA OpenSecretType ==
    ASSUME TypeOK, NEW h \in Worker, OpenSecret(h)
    PROVE  TypeOK'
<1>1. worker' \in [Worker -> Handler]
  <2>1. CASE Goto(h, "reply")
    BY <2>1, GotoType DEF PC
  <2>2. CASE \E got \in {TRUE, ~Faults}, pc \in {"revokeSession", "reply"} :
               worker' = [worker EXCEPT ![h].value = got, ![h].pc = pc]
    <3>1. PICK got \in {TRUE, ~Faults}, pc \in {"revokeSession", "reply"} :
             worker' = [worker EXCEPT ![h].value = got, ![h].pc = pc]
      BY <2>2
    <3>2. got \in BOOLEAN
      OBVIOUS
    <3>3. worker[h] \in Handler
      BY DEF TypeOK
    <3>4. [worker[h] EXCEPT !.value = got, !.pc = pc] \in Handler
      BY <3>2, <3>3 DEF Handler, PC
    <3> QED
      BY <3>1, <3>4 DEF TypeOK
  <2> QED
    BY <2>1, <2>2 DEF OpenSecret
<1>2. kept' \in [RequestId -> Nat]
  BY KeepType DEF OpenSecret, TypeOK
<1> QED
  BY <1>1, <1>2 DEF TypeOK, OpenSecret, rows

\* Answering a fetch ends the handler.
LEMMA ReplyType ==
    ASSUME TypeOK, NEW h \in Worker, Reply(h)
    PROVE  TypeOK'
<1>1. worker' \in [Worker -> Handler]
  BY FinishType DEF Reply
<1>2. released' \in [RequestId -> Nat]
  <2>1. \/ released' = released
        \/ released' = [released EXCEPT ![worker[h].req] = @ + 1]
    BY DEF Reply
  <2> QED
    BY <2>1 DEF TypeOK
<1> QED
  BY <1>1, <1>2 DEF TypeOK, Reply, rows

\* Both statements of RevokeCredential keep the rows well typed.
LEMMA RevokeType ==
    ASSUME TypeOK, NEW h \in Worker, RevokeSession(h) \/ RevokeRequest(h)
    PROVE  TypeOK'
<1>1. session' \in [SessionId -> SessionRow]
  <2>1. \A x \in SessionId :
          [session[x] EXCEPT !.status = "revoked"] \in SessionRow
    BY DEF TypeOK, SessionRow, SessionStatus
  <2> QED
    BY <2>1 DEF RevokeSession, RevokeRequest, TypeOK
<1>2. request' \in [RequestId -> RequestRow]
  <2>1. \A q \in RequestId :
          [request[q] EXCEPT !.status = "revoked"] \in RequestRow
    <3>1. \A q \in RequestId : request[q] \in RequestRow
      BY DEF TypeOK
    <3> QED
      BY <3>1 DEF RequestRow, RequestStatus
  <2>2. \/ request' = request
        \/ request' = [request EXCEPT ![worker[h].req].status = "revoked"]
    BY DEF RevokeSession, RevokeRequest
  <2> QED
    BY <2>1, <2>2 DEF TypeOK
<1>3. worker' \in [Worker -> Handler]
  BY GotoType, FinishType DEF RevokeSession, RevokeRequest, AfterRevoke, PC
<1>4. kept' \in [RequestId -> Nat]
  BY KeepType DEF RevokeSession, RevokeRequest, TypeOK, history
<1> QED
  BY <1>1, <1>2, <1>3, <1>4 DEF TypeOK, RevokeSession, RevokeRequest, history

\* Every statement of a handler under way keeps the state well typed.
LEMMA StepType ==
    ASSUME TypeOK, HandlersOK, NEW h \in Worker, Step(h)
    PROVE  TypeOK'
<1>1. CASE CheckDaily(h)
  BY <1>1, FinishType, GotoType DEF CheckDaily, TypeOK, PC, rows, history
<1>2. CASE CheckCoolDown(h)
  BY <1>2, FinishType, GotoType DEF CheckCoolDown, TypeOK, PC, rows, history
<1> QED
  BY <1>1, <1>2, InsertRequestType, InsertStepType, IssueType, NotifyType,
     DecideType, BumpUsageType, OpenSecretType, ReplyType, RevokeType DEF Step

\* Every request that arrives finds and leaves the state well typed.
LEMMA ArriveType ==
    ASSUME TypeOK, NEW h \in Worker, Arrive(h)
    PROVE  TypeOK'
<1>1. ASSUME NEW u \in User \cup {None}, NEW a \in Agent \cup {None},
             NEW s \in Secret, NEW d \in Duration, CreateRequest(h, u, a, s, d)
      PROVE  TypeOK'
  BY <1>1, CreateRequestType
<1>2. ASSUME NEW q \in RequestId,
             \/ \E u \in User, a \in Decision : BeginDecision(h, u, q, a)
             \/ \E a \in Decision : RedeemActionToken(h, q, a)
             \/ \E a \in Decision : ChatDecision(h, q, a)
             \/ \E c \in Principal : GetCredential(h, c, q)
             \/ \E c \in Principal : BeginRevoke(h, c, q)
      PROVE  TypeOK'
  <2>1. \E a \in Decision :
           \/ \E u \in User : BeginDecision(h, u, q, a)
           \/ ChatDecision(h, q, a)
           \/ RedeemActionToken(h, q, a)
           \/ \E c \in Principal : GetCredential(h, c, q)
           \/ \E c \in Principal : BeginRevoke(h, c, q)
    BY <1>2 DEF Decision
  <2> QED
    BY <2>1, BeginType
<1> QED
  BY <1>1, <1>2 DEF Arrive

\* Everything else that can happen leaves the handlers alone or stops one.
LEMMA OtherType ==
    ASSUME TypeOK, HandlersOK,
           \/ \E h \in Worker : Abort(h)
           \/ \E c \in Principal : GetActiveCredentials(c)
           \/ \E s \in Secret, p \in Policy : BindPolicy(s, p)
           \/ \E s \in Secret : DeleteSecret(s)
           \/ Tick
           \/ UNCHANGED vars
    PROVE  TypeOK'
<1>1. ASSUME NEW h \in Worker, Abort(h) PROVE TypeOK'
  BY <1>1, FinishType, OwedType DEF Abort, TypeOK, rows
<1>2. ASSUME NEW c \in Principal, GetActiveCredentials(c) PROVE TypeOK'
  BY <1>2 DEF GetActiveCredentials, TypeOK, rows
<1>3. ASSUME NEW s \in Secret, NEW p \in Policy, BindPolicy(s, p) PROVE TypeOK'
  BY <1>3 DEF BindPolicy, TypeOK, history
<1>4. ASSUME NEW s \in Secret, DeleteSecret(s) PROVE TypeOK'
  BY <1>4 DEF DeleteSecret, TypeOK, history
<1>5. CASE Tick
  BY <1>5 DEF Tick, TypeOK, rows, history
<1>6. CASE UNCHANGED vars
  BY <1>6 DEF vars, TypeOK
<1> QED
  BY <1>1, <1>2, <1>3, <1>4, <1>5, <1>6

-----------------------------------------------------------------------------
(* The inductive invariant                                                 *)

\* The invariant holds of the empty database.
LEMMA InitIInv == Init => IInv
<1> SUFFICES ASSUME Init PROVE IInv
  OBVIOUS
<1>1. \A h \in Worker : worker[h] = Idle
  BY DEF Init
<1>2. \A x \in SessionId : session[x] = NoSession
  BY DEF Init
<1>3. HandlersOK /\ Issuers
  BY <1>1 DEF HandlersOK, LocalsOK, RowOK, Issuers, Issuing, Idle
<1>4. Issued
  BY <1>2 DEF Issued, IssuedOK, NoSession
<1>5. OneSessionPerRequest
  BY <1>2 DEF OneSessionPerRequest, NoSession
<1> QED
  BY <1>3, <1>4, <1>5, InitType DEF IInv

\* A statement that writes neither requests nor sessions, and after which its
\* handler is not about to issue unless it was, keeps the invariant.
LEMMA LocalStep ==
    ASSUME IInv, TypeOK', NEW h \in Worker, UNCHANGED <<request, session>>,
           \A g \in Worker \ {h} : worker'[g] = worker[g],
           LocalsOK(h)', RowOK(h)',
           Issuing(h)' => Issuing(h) /\ worker'[h].req = worker[h].req
    PROVE  IInv'
<1>1. HandlersOK'
  BY DEF IInv, HandlersOK, LocalsOK, RowOK, Exists, Sessions
<1>2. Issuers'
  BY DEF IInv, Issuers, Issuing, Entitled, Authorised, Sessions
<1>3. Issued' /\ OneSessionPerRequest'
  BY DEF IInv, Issued, IssuedOK, Authorised, OneSessionPerRequest
<1> QED
  BY <1>1, <1>2, <1>3 DEF IInv

\* A handler that stops has no obligations left.
LEMMA FinishStep ==
    ASSUME IInv, TypeOK', NEW h \in Worker, UNCHANGED <<request, session>>, Finish(h)
    PROVE  IInv'
<1>1. worker'[h] = Idle /\ \A g \in Worker \ {h} : worker'[g] = worker[g]
  BY DEF IInv, TypeOK, Finish
<1>2. LocalsOK(h)' /\ RowOK(h)' /\ ~Issuing(h)'
  BY <1>1 DEF LocalsOK, RowOK, Issuing, Idle
<1> QED
  BY <1>1, <1>2, LocalStep

\* A handler that starts has checked what the invariant asks of it.
LEMMA ArriveIInv ==
    ASSUME IInv, TypeOK', NEW h \in Worker, Arrive(h)
    PROVE  IInv'
<1>1. UNCHANGED <<request, session>>
  BY DEF Arrive, CreateRequest, BeginDecision, RedeemActionToken, ChatDecision,
         GetCredential, BeginRevoke, rows
<1>2. \A g \in Worker \ {h} : worker'[g] = worker[g]
  <2>1. worker \in [Worker -> Handler]
    BY DEF IInv, TypeOK

  <2>2. \/ \E w : worker' = [worker EXCEPT ![h] = w]
        \/ worker' = worker
    BY DEF Arrive, CreateRequest, BeginDecision, RedeemActionToken,
           ChatDecision, GetCredential, BeginRevoke
  <2> QED
    BY <2>1, <2>2
<1>3. /\ LocalsOK(h)' /\ RowOK(h)'
      /\ Issuing(h)' => Issuing(h) /\ worker'[h].req = worker[h].req
  <2>1. ASSUME NEW u \in User \cup {None}, NEW a \in Agent \cup {None},
               NEW s \in Secret, NEW d \in Duration, CreateRequest(h, u, a, s, d)
        PROVE  LocalsOK(h)' /\ RowOK(h)' /\ ~Issuing(h)'
    BY <2>1, IdentityAssumption
       DEF IInv, TypeOK, CreateRequest, LocalsOK, RowOK, Issuing, Principal, Idle
  <2>2. ASSUME NEW q \in RequestId, NEW u \in User, NEW a \in Decision,
               BeginDecision(h, u, q, a)
        PROVE  LocalsOK(h)' /\ RowOK(h)' /\ ~Issuing(h)'
    BY <2>2 DEF IInv, TypeOK, BeginDecision, MayDecide, LocalsOK, RowOK, Issuing,
                Exists, Idle, rows
  <2>3. ASSUME NEW q \in RequestId, NEW a \in Decision,
               RedeemActionToken(h, q, a) \/ ChatDecision(h, q, a)
        PROVE  /\ LocalsOK(h)' /\ RowOK(h)'
               /\ Issuing(h)' => Issuing(h) /\ worker'[h].req = worker[h].req
    <3>1. CASE worker' = worker
      BY <3>1, <1>1 DEF IInv, HandlersOK, LocalsOK, RowOK, Exists, Sessions, Issuing
    <3>2. CASE worker' = [worker EXCEPT ![h] =
                 [Idle EXCEPT !.pc = "decide", !.op = a, !.user = System, !.req = q]]
      BY <3>2, IdentityAssumption
         DEF IInv, TypeOK, LocalsOK, RowOK, Issuing, Principal, Idle
    <3> QED
      BY <2>3, <3>1, <3>2 DEF RedeemActionToken, ChatDecision
  <2>4. ASSUME NEW q \in RequestId, NEW c \in Principal,
               GetCredential(h, c, q) \/ BeginRevoke(h, c, q)
        PROVE  LocalsOK(h)' /\ RowOK(h)' /\ ~Issuing(h)'
    <3>1. Exists(q)'
      BY <2>4, <1>1 DEF GetCredential, BeginRevoke, Exists
    <3>2. /\ worker'[h].pc \in {"bump", "revokeSession"} /\ worker'[h].req = q
          /\ worker'[h].user = None
      <4>1. CASE worker' = [worker EXCEPT ![h] =
                   [Idle EXCEPT !.pc = "bump", !.op = "get", !.req = q,
                                !.secret = request[q].secret]]
        BY <4>1 DEF IInv, TypeOK, Idle
      <4>2. CASE worker' = [worker EXCEPT ![h] =
                   [Idle EXCEPT !.pc = "revokeSession", !.op = "revoke", !.req = q]]
        BY <4>2 DEF IInv, TypeOK, Idle
      <4> QED
        BY <2>4, <4>1, <4>2 DEF GetCredential, BeginRevoke
    <3> QED
      BY <3>1, <3>2 DEF LocalsOK, RowOK, Issuing
  <2>5. \/ \E u \in User \cup {None}, a \in Agent \cup {None}, s \in Secret,
              d \in Duration : CreateRequest(h, u, a, s, d)
        \/ \E q \in RequestId, u \in User, a \in Decision : BeginDecision(h, u, q, a)
        \/ \E q \in RequestId, a \in Decision :
             RedeemActionToken(h, q, a) \/ ChatDecision(h, q, a)
        \/ \E q \in RequestId, c \in Principal :
             GetCredential(h, c, q) \/ BeginRevoke(h, c, q)
    BY DEF Arrive
  <2> QED
    BY <2>1, <2>2, <2>3, <2>4, <2>5
<1> QED
  BY <1>1, <1>2, <1>3, LocalStep

\* Checks, notification, delivery: statements that write neither table.
LEMMA QuietIInv ==
    ASSUME IInv, TypeOK', NEW h \in Worker,
           \/ CheckDaily(h) \/ CheckCoolDown(h) \/ Notify(h) \/ OpenSecret(h)
           \/ Reply(h) \/ Abort(h)
    PROVE  IInv'
<1>1. UNCHANGED <<request, session>>
  BY DEF CheckDaily, CheckCoolDown, Notify, OpenSecret, Reply, Abort, rows
<1>2. CASE Finish(h)
  BY <1>1, <1>2, FinishStep
<1>3. CASE (CheckDaily(h) \/ CheckCoolDown(h)) /\ ~Finish(h)
  <2>1. PICK pc \in {"insert", "coolDown"} : Goto(h, pc)
    BY <1>3 DEF CheckDaily, CheckCoolDown
  <2>2. /\ \A g \in Worker \ {h} : worker'[g] = worker[g]
        /\ worker'[h] = [worker[h] EXCEPT !.pc = pc]
    BY <2>1 DEF IInv, TypeOK, Goto
  <2>3. worker[h] \in Handler /\ worker[h].pc \in {"daily", "coolDown"}
    BY <1>3 DEF IInv, TypeOK, CheckDaily, CheckCoolDown
  <2>4. LocalsOK(h)' /\ RowOK(h)' /\ ~Issuing(h)'
    BY <2>2, <2>3 DEF IInv, HandlersOK, LocalsOK, RowOK, Issuing, Handler
  <2> QED
    BY <1>1, <2>2, <2>4, LocalStep
<1>4. CASE OpenSecret(h)
  <2>1. /\ \A g \in Worker \ {h} : worker'[g] = worker[g]
        /\ worker'[h].pc \in {"reply", "revokeSession"}
        /\ worker'[h].req = worker[h].req
        /\ worker'[h].pc = "revokeSession" =>
             worker[h].req \in RequestId /\ Exists(worker[h].req)
    <3>1. worker[h] \in Handler /\ worker[h].pc = "open"
      BY <1>4 DEF IInv, TypeOK, OpenSecret
    <3>2. worker[h].req \in RequestId /\ Exists(worker[h].req)
      BY <3>1 DEF IInv, HandlersOK, RowOK
    <3>3. CASE Goto(h, "reply")
      BY <3>1, <3>3 DEF IInv, TypeOK, Goto, Handler
    <3>4. CASE \E got \in {TRUE, ~Faults}, pc \in {"revokeSession", "reply"} :
                 worker' = [worker EXCEPT ![h].value = got, ![h].pc = pc]
      BY <3>1, <3>2, <3>4 DEF IInv, TypeOK, Handler
    <3> QED
      BY <1>4, <3>3, <3>4 DEF OpenSecret
  <2>2. LocalsOK(h)' /\ RowOK(h)' /\ ~Issuing(h)'
    BY <1>1, <2>1 DEF LocalsOK, RowOK, Issuing, Exists
  <2> QED
    BY <1>1, <2>1, <2>2, LocalStep
<1> QED
  BY <1>2, <1>3, <1>4 DEF Notify, Reply, Abort

\* Whoever is about to issue works on a row.
LEMMA IssuingOnRow ==
    ASSUME HandlersOK, NEW g \in Worker, Issuing(g)
    PROVE  worker[g].req \in RequestId /\ Exists(worker[g].req)
<1>1. worker[g].pc \in {"issue", "autoIssue", "steps"}
  BY DEF Issuing
<1> QED
  BY <1>1 DEF HandlersOK, RowOK

\* A new request has no session, and only an auto-approving policy makes its
\* creator an issuer (Service.CreateRequest).
LEMMA InsertRequestIInv ==
    ASSUME IInv, TypeOK', NEW h \in Worker, InsertRequest(h)
    PROVE  IInv'
<1> DEFINE w == worker[h]
<1>1. PICK q \in RequestId :
        /\ ~Exists(q)
        /\ request' = [request EXCEPT ![q] =
             [NoRequest EXCEPT !.status = IF w.auto THEN "approved" ELSE "pending",
                               !.user = w.user, !.agent = w.agent,
                               !.secret = w.secret, !.dur = w.dur, !.pol = w.pol,
                               !.createdAt = now]]
        /\ worker' = [worker EXCEPT ![h].req = q,
                        ![h].pc = IF w.todo = <<>> THEN AfterSteps(w) ELSE "steps"]
  BY DEF InsertRequest
<1>2. /\ w \in Handler /\ w.auto = w.pol.auto /\ w.pc = "insert"
      /\ session' = session
  BY DEF IInv, TypeOK, HandlersOK, LocalsOK, InsertRequest
<1>3. /\ \A g \in Worker \ {h} : worker'[g] = worker[g]
      /\ worker'[h].req = q /\ worker'[h].auto = w.auto /\ worker'[h].todo = w.todo
      /\ worker'[h].pc = IF w.todo = <<>> THEN AfterSteps(w) ELSE "steps"
  BY <1>1, <1>2 DEF IInv, TypeOK, Handler
<1>4. /\ \A p \in RequestId \ {q} : request'[p] = request[p]
      /\ request'[q].status = IF w.auto THEN "approved" ELSE "pending"
      /\ request'[q].pol = w.pol
  BY <1>1 DEF IInv, TypeOK, NoRequest
<1>5. Sessions(q) = {} /\ Sessions(q)' = {}
  <2>1. \A x \in SessionId : session[x].req # q
    BY <1>1, IdentityAssumption DEF IInv, Issued, IssuedOK, Exists
  <2> QED
    BY <1>2, <2>1 DEF Sessions
<1>6. LocalsOK(h)' /\ RowOK(h)'
  BY <1>3, <1>4 DEF LocalsOK, RowOK, AfterSteps, Exists
<1>7. \A g \in Worker \ {h} : LocalsOK(g)' /\ RowOK(g)'
  <2> SUFFICES ASSUME NEW g \in Worker \ {h}
               PROVE  LocalsOK(g)' /\ RowOK(g)'
    OBVIOUS
  <2>1. LocalsOK(g) /\ RowOK(g) /\ worker'[g] = worker[g]
    BY <1>3 DEF IInv, HandlersOK
  <2>2. \A p \in RequestId : Exists(p) => p # q
    BY <1>1
  <2>3. \A p \in RequestId : Exists(p) => Exists(p)' /\ request'[p] = request[p]
    BY <1>4, <2>2 DEF Exists
  <2>4. \A p \in RequestId : Sessions(p)' = Sessions(p)
    BY <1>2 DEF Sessions
  <2> HIDE DEF w
  <2> QED
    BY <2>1, <2>3, <2>4 DEF LocalsOK, RowOK
<1>8. Issuing(h)' => Entitled(q)'
  BY <1>2, <1>3, <1>4, <1>5 DEF Issuing, Entitled, Authorised, AfterSteps
<1>9. \A g \in Worker \ {h} : Issuing(g)' =>
        /\ Issuing(g) /\ worker'[g].req = worker[g].req
        /\ worker[g].req # q /\ Entitled(worker[g].req)'
  <2> SUFFICES ASSUME NEW g \in Worker \ {h}, Issuing(g)'
               PROVE  /\ Issuing(g) /\ worker'[g].req = worker[g].req
                      /\ worker[g].req # q /\ Entitled(worker[g].req)'
    OBVIOUS
  <2>1. Issuing(g) /\ worker'[g].req = worker[g].req
    BY <1>3 DEF Issuing
  <2>2. worker[g].req \in RequestId /\ Exists(worker[g].req)
    BY <2>1, IssuingOnRow DEF IInv
  <2>3. Entitled(worker[g].req)
    BY <2>1 DEF IInv, Issuers
  <2>4. worker[g].req # q
    BY <1>1, <2>2
  <2>5. request'[worker[g].req] = request[worker[g].req]
    BY <1>4, <2>2, <2>4
  <2>6. Sessions(worker[g].req)' = Sessions(worker[g].req)
    BY <1>2, <2>1 DEF Sessions
  <2>7. Entitled(worker[g].req)'
    BY <2>1, <2>3, <2>5, <2>6 DEF Entitled, Authorised
  <2> QED
    BY <2>1, <2>4, <2>7
<1>10. Issuers'
  BY <1>3, <1>8, <1>9 DEF IInv, Issuers
<1>11. Issued'
  BY <1>1, <1>2, <1>4 DEF IInv, TypeOK, Issued, IssuedOK, Authorised, Exists, SessionRow
<1>12. OneSessionPerRequest'
  BY <1>2 DEF IInv, OneSessionPerRequest
<1> QED
  BY <1>6, <1>7, <1>10, <1>11, <1>12 DEF IInv, HandlersOK

\* Rows stay, their secret and steps stay, and so do sessions: the handlers that
\* do not move keep what they know.
LEMMA OtherHandlers ==
    ASSUME IInv, NEW h \in Worker,
           \A g \in Worker \ {h} : worker'[g] = worker[g],
           \A p \in RequestId : Exists(p) =>
             /\ Exists(p)' /\ request'[p].secret = request[p].secret
             /\ request[p].steps \subseteq request'[p].steps,
           \A p \in RequestId : Sessions(p) # {} => Sessions(p)' # {}
    PROVE  \A g \in Worker \ {h} : LocalsOK(g)' /\ RowOK(g)'
<1> SUFFICES ASSUME NEW g \in Worker \ {h}
             PROVE  LocalsOK(g)' /\ RowOK(g)'
  OBVIOUS
<1>1. LocalsOK(g) /\ RowOK(g) /\ worker'[g] = worker[g]
  BY DEF IInv, HandlersOK
<1> QED
  BY <1>1 DEF LocalsOK, RowOK

\* The rows of the requests that others are about to issue for do not change
\* unless their steps grow: they stay entitled.
LEMMA OtherIssuers ==
    ASSUME IInv, NEW h \in Worker, NEW q \in RequestId,
           \A g \in Worker \ {h} : worker'[g] = worker[g],
           \A g \in Worker \ {h} : Issuing(g) => worker[g].req # q,
           \A p \in RequestId \ {q} : request'[p] = request[p],
           \A p \in RequestId \ {q} : Sessions(p)' = Sessions(p),
           Issuing(h)' => worker'[h].req = q /\ Entitled(q)'
    PROVE  Issuers'
<1>1. ASSUME NEW g \in Worker \ {h}, Issuing(g)'
      PROVE  /\ Issuing(g) /\ worker'[g].req = worker[g].req
             /\ worker[g].req # q /\ Entitled(worker[g].req)'
  <2>1. Issuing(g) /\ worker'[g].req = worker[g].req
    BY <1>1 DEF Issuing
  <2>2. worker[g].req \in RequestId \ {q}
    BY <2>1, IssuingOnRow DEF IInv
  <2>3. Entitled(worker[g].req)
    BY <2>1 DEF IInv, Issuers
  <2>4. Entitled(worker[g].req)'
    BY <2>1, <2>2, <2>3 DEF Entitled, Authorised
  <2> QED
    BY <2>1, <2>2, <2>4
<1>2. \A g \in Worker : Issuing(g)' => Entitled(worker[g].req)'
  BY <1>1
<1>3. \A f, g \in Worker :
        Issuing(f)' /\ Issuing(g)' /\ worker'[f].req = worker'[g].req => f = g
  BY <1>1 DEF IInv, Issuers
<1> QED
  BY <1>2, <1>3 DEF Issuers

\* A list of approvers that is not the last one leaves some more.
LEMMA LongTail ==
    ASSUME NEW t \in Seq(User), t # <<>>, Len(t) # 1
    PROVE  Tail(t) # <<>>
<1>1. Len(Tail(t)) = Len(t) - 1
  OBVIOUS
<1>2. Len(<<>>) = 0
  OBVIOUS
<1>3. Len(t) \in Nat
  OBVIOUS
<1>4. SUFFICES ASSUME Tail(t) = <<>> PROVE FALSE
  OBVIOUS
<1>5. Len(Tail(t)) = 0
  BY <1>2, <1>4, Zenon
<1>6. Len(t) = 1
  <2> DEFINE n == Len(t)
             m == Len(Tail(t))
  <2>1. n \in Nat /\ m = n - 1 /\ m = 0
    BY <1>1, <1>3, <1>5
  <2> HIDE DEF n, m
  <2>2. n = 1
    BY <2>1
  <2> QED
    BY <2>2 DEF n
<1> QED
  BY <1>6

\* Recording an approver adds to those who may decide and takes nobody away.
LEMMA InsertStepIInv ==
    ASSUME IInv, TypeOK', NEW h \in Worker, InsertStep(h)
    PROVE  IInv'
<1> DEFINE w == worker[h]
           q == w.req
<1>1. /\ w \in Handler /\ w.pc = "steps" /\ w.todo \in Seq(User) /\ w.todo # <<>>
      /\ q \in RequestId /\ Exists(q) /\ session' = session
  BY DEF IInv, TypeOK, HandlersOK, LocalsOK, RowOK, InsertStep, Handler
<1>2. /\ \A g \in Worker \ {h} : worker'[g] = worker[g]
      /\ worker'[h].req = q /\ worker'[h].auto = w.auto
      /\ worker'[h].todo = Tail(w.todo)
      /\ worker'[h].pc = IF Len(w.todo) = 1 THEN AfterSteps(w) ELSE "steps"
  BY <1>1 DEF IInv, TypeOK, InsertStep, Handler
<1>3. /\ \A p \in RequestId \ {q} : request'[p] = request[p]
      /\ request'[q] = [request[q] EXCEPT !.steps = @ \cup {Head(w.todo)}]
  BY <1>1 DEF IInv, TypeOK, InsertStep
<1>4. \A p \in RequestId :
        /\ request'[p].status = request[p].status /\ request'[p].pol = request[p].pol
        /\ request'[p].secret = request[p].secret
        /\ request'[p].decidedBy = request[p].decidedBy
        /\ request[p].steps \subseteq request'[p].steps
  <2>1. request[q] \in RequestRow
    BY <1>1 DEF IInv, TypeOK
  <2> HIDE DEF w, q
  <2> QED
    BY <1>3, <2>1 DEF RequestRow
<1>5. \A p : Sessions(p)' = Sessions(p)
  BY <1>1 DEF Sessions
<1>6. \A p \in RequestId : Authorised(p) => Authorised(p)'
  BY <1>4 DEF Authorised
<1>7. LocalsOK(h)' /\ RowOK(h)'
  <2>1. Len(w.todo) # 1 => Tail(w.todo) # <<>>
    BY <1>1, LongTail
  <2>2. Exists(q)'
    BY <1>1, <1>2, <1>4 DEF Exists
  <2>3. worker'[h].pc \in {"autoIssue", "notify", "steps"}
    BY <1>2 DEF AfterSteps
  <2>4. worker'[h].pc = "steps" => worker'[h].todo # <<>>
    BY <1>2, <2>1 DEF AfterSteps
  <2> QED
    BY <1>1, <1>2, <2>2, <2>3, <2>4 DEF LocalsOK, RowOK
<1>8. \A g \in Worker \ {h} : LocalsOK(g)' /\ RowOK(g)'
  BY <1>2, <1>4, <1>5, OtherHandlers DEF Exists
<1>9. \A g \in Worker : Issuing(g)' => Issuing(g) /\ worker'[g].req = worker[g].req
  <2>1. Issuing(h)' => Issuing(h)
    BY <1>1, <1>2 DEF Issuing, AfterSteps
  <2> QED
    BY <1>2, <2>1 DEF Issuing
<1>10. Issuers'
  <2>1. ASSUME NEW g \in Worker, Issuing(g)'
        PROVE  Entitled(worker[g].req)'
    <3>1. worker[g].req \in RequestId /\ Entitled(worker[g].req)
      BY <2>1, <1>9, IssuingOnRow DEF IInv, Issuers
    <3> QED
      BY <2>1, <3>1, <1>4, <1>5, <1>6, <1>9 DEF Entitled
  <2> QED
    BY <2>1, <1>9 DEF IInv, Issuers
<1>11. Issued'
  <2>1. \A x \in SessionId : session[x].req \in RequestId \cup {None}
    BY DEF IInv, TypeOK, SessionRow
  <2> QED
    BY <2>1, <1>1, <1>4, <1>6 DEF IInv, Issued, IssuedOK
<1>12. OneSessionPerRequest'
  BY <1>1 DEF IInv, OneSessionPerRequest
<1> QED
  BY <1>7, <1>8, <1>10, <1>11, <1>12 DEF IInv, HandlersOK

\* The credential of an approved request: the issuer's request gets its first
\* session, and the issuer is done.
LEMMA IssueIInv ==
    ASSUME IInv, TypeOK', NEW h \in Worker, AutoIssue(h) \/ IssueCredential(h)
    PROVE  IInv'
<1> DEFINE w == worker[h]
<1>1. PICK q \in RequestId : q = w.req
  BY DEF IInv, HandlersOK, RowOK, AutoIssue, IssueCredential
<1>2. /\ w.pc \in {"issue", "autoIssue"} /\ Issuing(h) /\ request' = request
      /\ Exists(q) /\ Entitled(q)
  <2>1. w.pc \in {"issue", "autoIssue"} /\ request' = request
    BY DEF AutoIssue, IssueCredential
  <2>2. Issuing(h)
    BY <2>1 DEF Issuing
  <2> QED
    BY <1>1, <2>1, <2>2, IssuingOnRow DEF IInv, Issuers
<1>3. /\ \A g \in Worker \ {h} : worker'[g] = worker[g]
      /\ worker'[h].pc \in {"notify", "idle"}
      /\ worker'[h].pc = "notify" => worker'[h].req = q
  <2>1. CASE Goto(h, "notify")
    BY <2>1, <1>1 DEF IInv, TypeOK, Goto, Handler
  <2>2. CASE Finish(h)
    BY <2>2 DEF IInv, TypeOK, Finish, Idle
  <2> QED
    BY <2>1, <2>2 DEF AutoIssue, IssueCredential
<1>4. LocalsOK(h)' /\ RowOK(h)' /\ ~Issuing(h)'
  BY <1>2, <1>3 DEF LocalsOK, RowOK, Issuing, Exists
<1>5. CASE UNCHANGED session
  BY <1>2, <1>3, <1>4, <1>5, LocalStep
<1>6. CASE InsertSession(q)
  <2>1. PICK x \in SessionId :
          /\ session[x].status = "none"
          /\ session' = [session EXCEPT ![x] =
               [status |-> "active", req |-> q, issuedAt |-> now,
                expiresAt |-> now + request[q].dur, uses |-> 0]]
    BY <1>6 DEF InsertSession
  <2>2. /\ session[x].req = None
        /\ session'[x].status = "active" /\ session'[x].req = q
        /\ \A y \in SessionId \ {x} : session'[y] = session[y]
    BY <2>1 DEF IInv, TypeOK, Issued, IssuedOK
  <2>3. \A p \in RequestId : Sessions(p) \subseteq Sessions(p)'
    BY <2>2, IdentityAssumption DEF Sessions
  <2>4. \A p \in RequestId \ {q} : Sessions(p)' = Sessions(p)
    BY <2>2, IdentityAssumption DEF Sessions
  <2>5. \A g \in Worker \ {h} : LocalsOK(g)' /\ RowOK(g)'
    BY <1>2, <1>3, <2>3, OtherHandlers DEF Exists
  <2>6. \A g \in Worker \ {h} : Issuing(g) => worker[g].req # q
    BY <1>1, <1>2 DEF IInv, Issuers
  <2>7. Issuers'
    BY <1>2, <1>3, <1>4, <2>4, <2>6, OtherIssuers
  <2>8. Issued'
    BY <1>2, <2>2, IdentityAssumption DEF IInv, Issued, IssuedOK, Entitled, Authorised
  <2>9. OneSessionPerRequest'
    <3>1. \A y \in SessionId \ {x} : session'[y].req # q
      BY <1>2, <2>2 DEF Entitled, Sessions
    <3> QED
      BY <2>2, <3>1 DEF IInv, OneSessionPerRequest
  <2> QED
    BY <1>4, <2>5, <2>7, <2>8, <2>9 DEF IInv, HandlersOK
<1> QED
  BY <1>1, <1>5, <1>6 DEF AutoIssue, IssueCredential

\* The conditional UPDATE: only a pending request is decided, so nobody is
\* issuing for it and it has no session.
LEMMA DecideIInv ==
    ASSUME IInv, TypeOK', NEW h \in Worker, Decide(h)
    PROVE  IInv'
<1> DEFINE w == worker[h]
<1>1. PICK q \in RequestId : q = w.req
  BY DEF IInv, HandlersOK, RowOK, Decide
<1>2. session' = session /\ w.pc = "decide"
  BY DEF Decide
<1>3. CASE ~Decidable(q, w.user)
  <2>1. request' = request /\ Finish(h)
    BY <1>1, <1>3 DEF Decide
  <2> QED
    BY <1>2, <2>1, FinishStep
<1>4. CASE Decidable(q, w.user)
  <2>1. /\ w.user \in User /\ request[q].status = "pending" /\ Exists(q)
        /\ w.user \in request[q].steps \cup {Owner[request[q].secret]}
    BY <1>1, <1>2, <1>4 DEF Decidable, IInv, HandlersOK, RowOK
  <2>2. \A g \in Worker : Issuing(g) => worker[g].req # q
    BY <2>1 DEF IInv, Issuers, Entitled
  <2>3. Sessions(q) = {} /\ Sessions(q)' = {}
    <3>1. \A x \in SessionId : session[x].req # q
      BY <2>1, IdentityAssumption DEF IInv, Issued, IssuedOK
    <3> QED
      BY <3>1, <1>2 DEF Sessions
  <2>4. \A p \in RequestId : Sessions(p)' = Sessions(p)
    BY <1>2 DEF Sessions
  <2>5. /\ \A p \in RequestId \ {q} : request'[p] = request[p]
        /\ request'[q].secret = request[q].secret
        /\ request'[q].steps = request[q].steps
        /\ request'[q].decidedBy = w.user
        /\ request'[q].status \in {"approved", "rejected"}
    <3>1. request[q] \in RequestRow
      BY DEF IInv, TypeOK
    <3>2. \/ request' = [request EXCEPT ![q].status = "approved",
                ![q].decidedBy = w.user, ![q].expiresAt = now + request[q].dur]
          \/ request' = [request EXCEPT ![q].status = "rejected",
                ![q].decidedBy = w.user]
      BY <1>1, <1>4 DEF Decide
    <3> HIDE DEF w
    <3> QED
      BY <3>1, <3>2 DEF IInv, TypeOK, RequestRow
  <2>6. /\ \A g \in Worker \ {h} : worker'[g] = worker[g]
        /\ worker'[h].pc \in {"issue", "idle"}
        /\ worker'[h].pc = "issue" => worker'[h].req = q /\ request'[q].status = "approved"
    <3>1. CASE Goto(h, "issue") /\ request'[q].status = "approved"
      BY <3>1, <1>1 DEF IInv, TypeOK, Goto, Handler
    <3>2. CASE Finish(h)
      BY <3>2 DEF IInv, TypeOK, Finish, Idle
    <3>3. w.op = "approve" => Goto(h, "issue") /\ request'[q].status = "approved"
      <4>1. w.op = "approve" =>
              /\ Goto(h, "issue")
              /\ request' = [request EXCEPT ![q].status = "approved",
                   ![q].decidedBy = w.user, ![q].expiresAt = now + request[q].dur]
        BY <1>1, <1>4 DEF Decide
      <4>2. request[q] \in RequestRow
        BY DEF IInv, TypeOK
      <4> HIDE DEF w
      <4> QED
        BY <4>1, <4>2 DEF IInv, TypeOK, RequestRow
    <3> QED
      BY <1>1, <1>4, <3>1, <3>2, <3>3 DEF Decide
  <2>7. LocalsOK(h)' /\ RowOK(h)'
    BY <2>5, <2>6 DEF LocalsOK, RowOK, Exists
  <2>8. \A g \in Worker \ {h} : LocalsOK(g)' /\ RowOK(g)'
    BY <2>4, <2>5, <2>6, OtherHandlers DEF Exists
  <2>9. Issuing(h)' => worker'[h].req = q /\ Entitled(q)'
    BY <2>1, <2>3, <2>5, <2>6 DEF Issuing, Entitled, Authorised
  <2>10. Issuers'
    BY <2>2, <2>4, <2>5, <2>6, <2>9, OtherIssuers
  <2>11. Issued'
    <3> SUFFICES ASSUME NEW x \in SessionId PROVE IssuedOK(x)'
      BY DEF Issued
    <3>1. IssuedOK(x) /\ session[x].req \in RequestId \cup {None}
      BY DEF IInv, TypeOK, Issued, SessionRow
    <3>2. session[x].status # "none" =>
            /\ session[x].req \in RequestId \ {q}
            /\ request'[session[x].req] = request[session[x].req]
      BY <2>1, <2>5, <3>1 DEF IssuedOK
    <3> QED
      BY <1>2, <3>1, <3>2 DEF IssuedOK, Authorised
  <2>12. OneSessionPerRequest'
    BY <1>2 DEF IInv, OneSessionPerRequest
  <2> QED
    BY <2>7, <2>8, <2>10, <2>11, <2>12 DEF IInv, HandlersOK
<1> QED
  BY <1>3, <1>4

\* Counting a use and closing sessions change neither whose session it is nor
\* whether there is one.
LEMMA SessionIInv ==
    ASSUME IInv, TypeOK', NEW h \in Worker, BumpUsage(h) \/ RevokeSession(h)
    PROVE  IInv'
<1> DEFINE w == worker[h]
<1>1. PICK q \in RequestId : q = w.req
  BY DEF IInv, HandlersOK, RowOK, BumpUsage, RevokeSession
<1>2. /\ w \in Handler /\ w.pc \in {"bump", "revokeSession"} /\ Exists(q)
      /\ request' = request
  BY <1>1 DEF IInv, TypeOK, HandlersOK, RowOK, BumpUsage, RevokeSession
<1>3. \A x \in SessionId :
        /\ session'[x].req = session[x].req
        /\ session'[x].status = "none" <=> session[x].status = "none"
  <2>1. \A x \in SessionId : session[x] \in SessionRow
    BY DEF IInv, TypeOK
  <2>2. \A x \in SessionId :
          \/ session'[x] = session[x]
          \/ session'[x] = [session[x] EXCEPT !.uses = @ + 1]
          \/ /\ session'[x] = [session[x] EXCEPT !.status = "revoked"]
             /\ session[x].status = "active"
    BY DEF BumpUsage, RevokeSession, Active
  <2> QED
    BY <2>1, <2>2 DEF SessionRow
<1>4. \A p : Sessions(p)' = Sessions(p)
  BY <1>3 DEF Sessions
<1>5. /\ \A g \in Worker \ {h} : worker'[g] = worker[g]
      /\ worker'[h].pc \in {"idle", "open", "reply", "revokeRequest"}
      /\ worker'[h].pc \in {"open", "revokeRequest"} => worker'[h].req = q
      /\ worker'[h].pc = "revokeRequest" => Sessions(q) # {}
  <2>1. CASE Finish(h)
    BY <2>1 DEF IInv, TypeOK, Finish, Idle
  <2>2. ASSUME NEW pc \in {"open", "reply", "revokeRequest"}, Goto(h, pc),
               pc = "revokeRequest" => Active(q) # {}
        PROVE  /\ \A g \in Worker \ {h} : worker'[g] = worker[g]
               /\ worker'[h].pc = pc /\ worker'[h].req = q
               /\ pc = "revokeRequest" => Sessions(q) # {}
    BY <1>1, <1>2, <2>2 DEF IInv, TypeOK, Goto, Handler, Active
  <2> QED
    BY <1>1, <2>1, <2>2 DEF BumpUsage, RevokeSession, AfterRevoke
<1>6. LocalsOK(h)' /\ RowOK(h)' /\ ~Issuing(h)'
  BY <1>2, <1>4, <1>5 DEF LocalsOK, RowOK, Issuing, Exists
<1>7. \A g \in Worker \ {h} : LocalsOK(g)' /\ RowOK(g)'
  BY <1>2, <1>4, <1>5, OtherHandlers DEF Exists
<1>8. Issuers'
  BY <1>2, <1>4, <1>5, <1>6 DEF IInv, Issuers, Issuing, Entitled, Authorised
<1>9. Issued'
  BY <1>2, <1>3 DEF IInv, Issued, IssuedOK, Authorised
<1>10. OneSessionPerRequest'
  BY <1>3 DEF IInv, OneSessionPerRequest
<1> QED
  BY <1>6, <1>7, <1>8, <1>9, <1>10 DEF IInv, HandlersOK

\* Only a request that has a session is marked as revoked, so nobody is about
\* to issue for it.
LEMMA RevokeRequestIInv ==
    ASSUME IInv, TypeOK', NEW h \in Worker, RevokeRequest(h)
    PROVE  IInv'
<1> DEFINE w == worker[h]
<1>1. PICK q \in RequestId : q = w.req
  BY DEF IInv, HandlersOK, RowOK, RevokeRequest
<1>2. /\ w \in Handler /\ w.pc = "revokeRequest" /\ Exists(q) /\ Sessions(q) # {}
      /\ session' = session
  BY <1>1 DEF IInv, TypeOK, HandlersOK, RowOK, RevokeRequest
<1>3. \A p : Sessions(p)' = Sessions(p)
  BY <1>2 DEF Sessions
<1>4. /\ \A g \in Worker \ {h} : worker'[g] = worker[g]
      /\ worker'[h].pc \in {"reply", "idle"}
  <2>1. CASE Goto(h, "reply")
    BY <2>1, <1>2 DEF IInv, TypeOK, Goto, Handler
  <2>2. CASE Finish(h)
    BY <2>2 DEF IInv, TypeOK, Finish, Idle
  <2> QED
    BY <2>1, <2>2 DEF RevokeRequest, AfterRevoke
<1>5. /\ \A p \in RequestId \ {q} : request'[p] = request[p]
      /\ \/ request'[q] = request[q]
         \/ /\ request'[q] = [request[q] EXCEPT !.status = "revoked"]
            /\ request[q].status = "approved"
  BY <1>1 DEF IInv, TypeOK, RevokeRequest
<1>6. \A p \in RequestId :
        /\ Exists(p) => Exists(p)' /\ request'[p].secret = request[p].secret
                        /\ request'[p].steps = request[p].steps
        /\ Authorised(p) => Authorised(p)'
        /\ request[p].status \in {"approved", "revoked"} =>
             request'[p].status \in {"approved", "revoked"}
  <2>1. request[q] \in RequestRow
    BY DEF IInv, TypeOK
  <2> HIDE DEF w
  <2> QED
    BY <1>2, <1>5, <2>1 DEF RequestRow, Exists, Authorised
<1>7. LocalsOK(h)' /\ RowOK(h)' /\ ~Issuing(h)'
  BY <1>4 DEF LocalsOK, RowOK, Issuing
<1>8. \A g \in Worker \ {h} : LocalsOK(g)' /\ RowOK(g)'
  BY <1>3, <1>4, <1>6, OtherHandlers
<1>9. \A g \in Worker \ {h} : Issuing(g) => worker[g].req # q
  BY <1>2 DEF IInv, Issuers, Entitled
<1>10. Issuers'
  BY <1>3, <1>4, <1>5, <1>7, <1>9, OtherIssuers
<1>11. Issued'
  <2>1. \A x \in SessionId : session[x].req \in RequestId \cup {None}
    BY DEF IInv, TypeOK, SessionRow
  <2> QED
    BY <1>2, <1>6, <2>1 DEF IInv, Issued, IssuedOK
<1>12. OneSessionPerRequest'
  BY <1>2 DEF IInv, OneSessionPerRequest
<1> QED
  BY <1>7, <1>8, <1>10, <1>11, <1>12 DEF IInv, HandlersOK

\* Every statement of a handler under way preserves the invariant.
LEMMA StepIInv ==
    ASSUME IInv, TypeOK', NEW h \in Worker, Step(h)
    PROVE  IInv'
  BY QuietIInv, InsertRequestIInv, InsertStepIInv, IssueIInv, DecideIInv,
     SessionIInv, RevokeRequestIInv DEF Step

\* The clock, the owner's changes to a secret and the listing of credentials
\* touch nothing that the invariant speaks of.
LEMMA OtherIInv ==
    ASSUME IInv, TypeOK', UNCHANGED <<request, session, worker>>
    PROVE  IInv'
  BY DEF IInv, HandlersOK, LocalsOK, RowOK, Exists, Sessions, Issuers, Issuing,
         Entitled, Authorised, Issued, IssuedOK, OneSessionPerRequest

\* The invariant is inductive.
LEMMA NextIInv == IInv /\ [Next]_vars => IInv'
<1> SUFFICES ASSUME IInv, [Next]_vars PROVE IInv'
  OBVIOUS
<1>1. ASSUME NEW h \in Worker, Arrive(h) PROVE IInv'
  BY <1>1, ArriveType, ArriveIInv DEF IInv
<1>2. ASSUME NEW h \in Worker, Step(h) PROVE IInv'
  BY <1>2, StepType, StepIInv DEF IInv
<1>3. ASSUME NEW h \in Worker, Abort(h) PROVE IInv'
  BY <1>3, OtherType, QuietIInv DEF IInv
<1>4. ASSUME \/ \E c \in Principal : GetActiveCredentials(c)
             \/ \E s \in Secret, p \in Policy : BindPolicy(s, p)
             \/ \E s \in Secret : DeleteSecret(s)
             \/ Tick
             \/ UNCHANGED vars
      PROVE  IInv'
  <2>1. TypeOK'
    BY <1>4, OtherType DEF IInv
  <2>2. UNCHANGED <<request, session, worker>>
    BY <1>4 DEF GetActiveCredentials, BindPolicy, DeleteSecret, Tick, vars, rows
  <2> QED
    BY <2>1, <2>2, OtherIInv
<1> QED
  BY <1>1, <1>2, <1>3, <1>4 DEF Next

-----------------------------------------------------------------------------
(* What a statement does to the handler that issues it                     *)

\* A statement moves its own handler only: it ends, or goes on with the same
\* operation, duration and policy.  Its request changes when the row is created,
\* its value when the secret is read.
LEMMA StepMove ==
    ASSUME IInv, NEW h \in Worker, Step(h)
    PROVE  /\ \A g \in Worker \ {h} : worker'[g] = worker[g]
           /\ \/ worker'[h] = Idle
              \/ /\ worker'[h].op = worker[h].op
                 /\ worker'[h].dur = worker[h].dur
                 /\ worker'[h].pol = worker[h].pol
                 /\ worker[h].pc = "insert" \/ worker'[h].req = worker[h].req
                 /\ worker[h].pc = "open" \/ worker'[h].value = worker[h].value
                 /\ worker'[h].pc \in {"daily", "coolDown", "insert"} =>
                      worker[h].pc \in {"daily", "coolDown"}
                 /\ worker'[h].pc = "open" => worker[h].pc = "bump"
                 /\ worker'[h].pc = "revokeRequest" => RevokeSession(h)
                 /\ worker'[h].pc # "bump"
<1>1. worker[h] \in Handler /\ worker \in [Worker -> Handler]
  BY DEF IInv, TypeOK
<1>2. CASE Finish(h)
  BY <1>1, <1>2 DEF Finish
<1>3. ASSUME NEW pc \in PC, Goto(h, pc)
      PROVE  /\ \A g \in Worker \ {h} : worker'[g] = worker[g]
             /\ worker'[h] = [worker[h] EXCEPT !.pc = pc]
             /\ worker'[h].pc = pc /\ worker'[h].op = worker[h].op
             /\ worker'[h].dur = worker[h].dur /\ worker'[h].pol = worker[h].pol
             /\ worker'[h].req = worker[h].req /\ worker'[h].value = worker[h].value
  BY <1>1, <1>3 DEF Goto, Handler
<1>4. CASE (CheckDaily(h) \/ CheckCoolDown(h)) /\ ~Finish(h)
  <2>1. worker[h].pc \in {"daily", "coolDown"}
    BY <1>4 DEF CheckDaily, CheckCoolDown
  <2>2. PICK pc \in {"insert", "coolDown"} : Goto(h, pc)
    BY <1>4 DEF CheckDaily, CheckCoolDown
  <2>3. pc \in PC
    BY DEF PC
  <2> QED
    BY <1>3, <2>1, <2>2, <2>3
<1>5. CASE InsertRequest(h)
  <2>1. /\ worker[h].pc = "insert"
        /\ \E q \in RequestId, pc \in {"steps", "autoIssue", "notify"} :
             worker' = [worker EXCEPT ![h].req = q, ![h].pc = pc]
    BY <1>5 DEF InsertRequest, AfterSteps
  <2> QED
    BY <1>1, <2>1 DEF Handler
<1>6. CASE InsertStep(h)
  <2>1. /\ worker[h].pc = "steps"
        /\ \E pc \in {"steps", "autoIssue", "notify"} :
             worker' = [worker EXCEPT ![h].todo = Tail(@), ![h].pc = pc]
    BY <1>6 DEF InsertStep, AfterSteps
  <2> QED
    BY <1>1, <2>1 DEF Handler
<1>7. CASE \E pc \in {"notify", "issue", "reply"} : Goto(h, pc)
  BY <1>3, <1>7 DEF PC
<1>8. CASE BumpUsage(h) /\ Goto(h, "open")
  BY <1>3, <1>8 DEF PC, BumpUsage
<1>9. CASE RevokeSession(h) /\ Goto(h, "revokeRequest")
  BY <1>3, <1>9 DEF PC, RevokeSession
<1>10. CASE OpenSecret(h) /\ ~Goto(h, "reply")
  <2>1. /\ worker[h].pc = "open"
        /\ \E got \in BOOLEAN, pc \in {"revokeSession", "reply"} :
             worker' = [worker EXCEPT ![h].value = got, ![h].pc = pc]
    BY <1>10 DEF OpenSecret
  <2> QED
    BY <1>1, <2>1 DEF Handler
<1> QED
  BY <1>2, <1>4, <1>5, <1>6, <1>7, <1>8, <1>9, <1>10
     DEF Step, CheckDaily, CheckCoolDown, AutoIssue, Notify, Decide, IssueCredential,
         BumpUsage, OpenSecret, Reply, RevokeSession, RevokeRequest, AfterRevoke

\* A request that arrives starts one idle handler, with no value, its duration
\* capped; a link whose action does not match leaves it idle.
LEMMA ArriveMove ==
    ASSUME IInv, NEW h \in Worker, Arrive(h)
    PROVE  /\ UNCHANGED <<request, session, released, listed>>
           /\ \A g \in Worker \ {h} : worker'[g] = worker[g]
           /\ worker[h].pc = "idle"
           /\ worker'[h].pc \in {"idle", "daily", "decide", "bump", "revokeSession"}
           /\ worker'[h] = worker[h] \/ ~worker'[h].value
           /\ worker'[h].pc = "daily" => worker'[h].dur <= worker'[h].pol.maxDur
           /\ worker'[h].pc = "bump" =>
                worker'[h].op = "get" /\ worker'[h].req \in RequestId
<1>1. worker[h] \in Handler /\ worker \in [Worker -> Handler]
  BY DEF IInv, TypeOK
<1>2. UNCHANGED <<request, session, released, listed>> /\ worker[h].pc = "idle"
  BY DEF Arrive, CreateRequest, BeginDecision, RedeemActionToken, ChatDecision,
         GetCredential, BeginRevoke, rows, history
<1>3. ASSUME NEW u \in User \cup {None}, NEW a \in Agent \cup {None},
             NEW s \in Secret, NEW d \in Duration, CreateRequest(h, u, a, s, d)
      PROVE  \E v \in Handler :
               /\ worker' = [worker EXCEPT ![h] = v] /\ v.pc = "daily" /\ ~v.value
               /\ v.dur <= v.pol.maxDur
  <2>1. PICK p \in Resolve(policy[s]), todo \in ResolveApprovers(s) :
           worker' = [worker EXCEPT ![h] =
             [Idle EXCEPT !.pc = "daily", !.op = "create", !.user = u, !.agent = a,
                          !.secret = s, !.pol = p, !.dur = Capped(d, p),
                          !.auto = p.auto, !.todo = todo]]
    BY <1>3 DEF CreateRequest
  <2> DEFINE v == [Idle EXCEPT !.pc = "daily", !.op = "create", !.user = u, !.agent = a,
                          !.secret = s, !.pol = p, !.dur = Capped(d, p),
                          !.auto = p.auto, !.todo = todo]
  <2>2. p \in PolicyRecord /\ d \in Nat
    BY ResolvedPolicy, BoundAssumption DEF IInv, TypeOK
  <2>3. Capped(d, p) <= p.maxDur
    BY <2>2, CappedBound
  <2>4. worker' \in [Worker -> Handler]
    BY <1>3, CreateRequestType DEF IInv, TypeOK
  <2>5. worker'[h] = v
    BY <1>1, <2>1
  <2>6. v \in Handler
    BY <2>4, <2>5
  <2>7. v.pc = "daily" /\ ~v.value /\ v.dur = Capped(d, p) /\ v.pol = p
    BY DEF Idle
  <2>8. v.dur <= v.pol.maxDur
    BY <2>3, <2>7
  <2>9. worker' = [worker EXCEPT ![h] = v]
    BY <2>1
  <2> HIDE DEF v
  <2> QED
    BY <2>6, <2>7, <2>8, <2>9
<1>4. ASSUME NEW q \in RequestId,
             \/ \E u \in User, a \in Decision : BeginDecision(h, u, q, a)
             \/ \E a \in Decision : RedeemActionToken(h, q, a)
             \/ \E a \in Decision : ChatDecision(h, q, a)
             \/ \E c \in Principal : GetCredential(h, c, q)
             \/ \E c \in Principal : BeginRevoke(h, c, q)
      PROVE  \/ worker' = worker
             \/ \E v : /\ worker' = [worker EXCEPT ![h] = v] /\ ~v.value
                       /\ v.pc \in {"decide", "bump", "revokeSession"}
                       /\ v.pc = "bump" => v.op = "get" /\ v.req \in RequestId
  <2>1. CASE worker' = worker
    BY <2>1
  <2>2. CASE \E a \in Decision : \E u : worker' = [worker EXCEPT ![h] =
               [Idle EXCEPT !.pc = "decide", !.op = a, !.user = u, !.req = q]]
    <3>0. PICK a \in Decision : \E u : worker' = [worker EXCEPT ![h] =
               [Idle EXCEPT !.pc = "decide", !.op = a, !.user = u, !.req = q]]
      BY <2>2
    <3>1. PICK u : worker' = [worker EXCEPT ![h] =
               [Idle EXCEPT !.pc = "decide", !.op = a, !.user = u, !.req = q]]
      BY <3>0
    <3> DEFINE v == [Idle EXCEPT !.pc = "decide", !.op = a, !.user = u, !.req = q]
    <3>2. worker' = [worker EXCEPT ![h] = v] /\ ~v.value /\ v.pc = "decide"
      BY <3>1 DEF Idle
    <3> HIDE DEF v
    <3> QED
      BY <3>2
  <2>3. CASE worker' = [worker EXCEPT ![h] =
               [Idle EXCEPT !.pc = "bump", !.op = "get", !.req = q,
                            !.secret = request[q].secret]]
    <3> DEFINE v == [Idle EXCEPT !.pc = "bump", !.op = "get", !.req = q,
                                 !.secret = request[q].secret]
    <3>1. /\ worker' = [worker EXCEPT ![h] = v] /\ ~v.value
          /\ v.pc = "bump" /\ v.op = "get" /\ v.req \in RequestId
      BY <2>3 DEF Idle
    <3> HIDE DEF v
    <3> QED
      BY <3>1
  <2>4. CASE worker' = [worker EXCEPT ![h] =
               [Idle EXCEPT !.pc = "revokeSession", !.op = "revoke", !.req = q]]
    <3> DEFINE v == [Idle EXCEPT !.pc = "revokeSession", !.op = "revoke", !.req = q]
    <3>1. worker' = [worker EXCEPT ![h] = v] /\ ~v.value /\ v.pc = "revokeSession"
      BY <2>4 DEF Idle
    <3> HIDE DEF v
    <3> QED
      BY <3>1
  <2> QED
    BY <1>4, <2>1, <2>2, <2>3, <2>4
       DEF BeginDecision, RedeemActionToken, ChatDecision, GetCredential, BeginRevoke
<1>5. CASE \E v \in Handler :
             /\ worker' = [worker EXCEPT ![h] = v] /\ v.pc = "daily" /\ ~v.value
             /\ v.dur <= v.pol.maxDur
  BY <1>1, <1>2, <1>5
<1>6. CASE worker' = worker
  BY <1>1, <1>2, <1>6
<1>7. CASE \E v : /\ worker' = [worker EXCEPT ![h] = v] /\ ~v.value
                  /\ v.pc \in {"decide", "bump", "revokeSession"}
                  /\ v.pc = "bump" => v.op = "get" /\ v.req \in RequestId
  BY <1>1, <1>2, <1>7
<1> QED
  BY <1>3, <1>4, <1>5, <1>6, <1>7 DEF Arrive

-----------------------------------------------------------------------------
(* What a statement does to the rows                                       *)

\* Requests are written by three statements that leave the sessions alone, and
\* sessions by three that leave the requests alone.
LEMMA Writers ==
    ASSUME [Next]_vars
    PROVE  \/ UNCHANGED <<request, session>>
           \/ /\ UNCHANGED <<session, released, listed>>
              /\ \E h \in Worker : \/ InsertRequest(h) \/ InsertStep(h) \/ Decide(h)
                                   \/ RevokeRequest(h)
           \/ /\ UNCHANGED <<request, released, listed>>
              /\ \E h \in Worker : \/ AutoIssue(h) \/ IssueCredential(h)
                                   \/ BumpUsage(h) \/ RevokeSession(h)
<1>1. ASSUME NEW h \in Worker, Arrive(h) PROVE UNCHANGED <<request, session>>
  BY <1>1 DEF Arrive, CreateRequest, BeginDecision, RedeemActionToken, ChatDecision,
         GetCredential, BeginRevoke, rows
<1>2. ASSUME NEW h \in Worker, Step(h)
      PROVE  \/ UNCHANGED <<request, session>>
             \/ /\ UNCHANGED <<session, released, listed>>
                /\ \/ InsertRequest(h) \/ InsertStep(h) \/ Decide(h)
                   \/ RevokeRequest(h)
             \/ /\ UNCHANGED <<request, released, listed>>
                /\ \/ AutoIssue(h) \/ IssueCredential(h)
                   \/ BumpUsage(h) \/ RevokeSession(h)
  BY <1>2 DEF Step, CheckDaily, CheckCoolDown, Notify, OpenSecret, Reply, InsertRequest,
         InsertStep, Decide, RevokeRequest, AutoIssue, IssueCredential, BumpUsage,
         RevokeSession, rows, history
<1>3. ASSUME NEW h \in Worker, Abort(h) PROVE UNCHANGED <<request, session>>
  BY <1>3 DEF Abort, rows
<1>4. CASE \/ \E c \in Principal : GetActiveCredentials(c)
           \/ \E s \in Secret, p \in Policy : BindPolicy(s, p)
           \/ \E s \in Secret : DeleteSecret(s)
           \/ Tick
           \/ UNCHANGED vars
  BY <1>4 DEF GetActiveCredentials, BindPolicy, DeleteSecret, Tick, vars, rows
<1> QED
  BY <1>1, <1>2, <1>3, <1>4 DEF Next

\* A request row appears with the duration and the policy its handler resolved
\* and keeps them; its status goes from pending to a decision and from approved
\* to revoked, never back (Service.Approve, Service.Reject, RevokeCredential).
LEMMA RequestMove ==
    ASSUME IInv, [Next]_vars, NEW q \in RequestId
    PROVE  \/ request'[q] = request[q]
           \/ /\ ~Exists(q) /\ request'[q].status \in {"pending", "approved"}
              /\ \E h \in Worker : /\ worker[h].pc = "insert"
                                   /\ request'[q].dur = worker[h].dur
                                   /\ request'[q].pol = worker[h].pol
           \/ /\ Exists(q)
              /\ request'[q].dur = request[q].dur /\ request'[q].pol = request[q].pol
              /\ \/ request'[q].status = request[q].status
                 \/ /\ request[q].status = "pending"
                    /\ request'[q].status \in {"approved", "rejected"}
                 \/ /\ request[q].status = "approved"
                    /\ request'[q].status = "revoked"
                    /\ \E h \in Worker : worker[h].pc = "revokeRequest" /\ worker[h].req = q
<1>1. request \in [RequestId -> RequestRow] /\ request[q] \in RequestRow
  BY DEF IInv, TypeOK
<1>2. ASSUME NEW h \in Worker, InsertRequest(h)
      PROVE  \/ request'[q] = request[q]
             \/ /\ ~Exists(q) /\ request'[q].status \in {"pending", "approved"}
                /\ worker[h].pc = "insert"
                /\ request'[q].dur = worker[h].dur /\ request'[q].pol = worker[h].pol
  <2> DEFINE w == worker[h]
  <2>1. PICK p \in RequestId :
          /\ ~Exists(p)
          /\ request' = [request EXCEPT ![p] =
               [NoRequest EXCEPT !.status = IF w.auto THEN "approved" ELSE "pending",
                                 !.user = w.user, !.agent = w.agent,
                                 !.secret = w.secret, !.dur = w.dur, !.pol = w.pol,
                                 !.createdAt = now]]
    BY <1>2 DEF InsertRequest
  <2>2. w.pc = "insert"
    BY <1>2 DEF InsertRequest
  <2> HIDE DEF w
  <2>3. CASE p # q
    BY <1>1, <2>1, <2>3
  <2>4. CASE p = q
    <3>1. request'[q] =
            [NoRequest EXCEPT !.status = IF w.auto THEN "approved" ELSE "pending",
                              !.user = w.user, !.agent = w.agent,
                              !.secret = w.secret, !.dur = w.dur, !.pol = w.pol,
                              !.createdAt = now]
      BY <1>1, <2>1, <2>4
    <3>2. /\ request'[q].status \in {"pending", "approved"}
          /\ request'[q].dur = w.dur /\ request'[q].pol = w.pol
      BY <3>1 DEF NoRequest
    <3> QED
      BY <2>1, <2>2, <2>4, <3>2 DEF w
  <2> QED
    BY <2>3, <2>4
<1>3. ASSUME NEW h \in Worker, InsertStep(h)
      PROVE  \/ request'[q] = request[q]
             \/ /\ Exists(q) /\ request'[q].dur = request[q].dur
                /\ request'[q].pol = request[q].pol
                /\ request'[q].status = request[q].status
  <2>1. PICK u : request' = [request EXCEPT ![worker[h].req].steps = @ \cup {u}]
    BY <1>3 DEF InsertStep
  <2>2. Exists(worker[h].req)
    BY <1>3 DEF IInv, HandlersOK, RowOK, InsertStep
  <2> QED
    BY <1>1, <2>1, <2>2 DEF RequestRow
<1>4. ASSUME NEW h \in Worker, Decide(h)
      PROVE  \/ request'[q] = request[q]
             \/ /\ Exists(q) /\ request'[q].dur = request[q].dur
                /\ request'[q].pol = request[q].pol
                /\ request[q].status = "pending"
                /\ request'[q].status \in {"approved", "rejected"}
  <2>1. CASE request' = request
    BY <2>1
  <2>2. CASE Decidable(worker[h].req, worker[h].user)
    <3> DEFINE p == worker[h].req
               u == worker[h].user
               t == now + request[p].dur
    <3>1. /\ request[p].status = "pending"
          /\ \/ request' = [request EXCEPT ![p].status = "approved",
                               ![p].decidedBy = u, ![p].expiresAt = t]
             \/ request' = [request EXCEPT ![p].status = "rejected", ![p].decidedBy = u]
      BY <1>4, <2>2 DEF Decide, Decidable
    <3> HIDE DEF p, u, t
    <3>2. CASE p # q
      BY <1>1, <3>1, <3>2
    <3>3. CASE p = q
      BY <1>1, <3>1, <3>3 DEF RequestRow, Exists
    <3> QED
      BY <3>2, <3>3
  <2> QED
    BY <1>4, <2>1, <2>2 DEF Decide
<1>5. ASSUME NEW h \in Worker, RevokeRequest(h)
      PROVE  \/ request'[q] = request[q]
             \/ /\ Exists(q) /\ request'[q].dur = request[q].dur
                /\ request'[q].pol = request[q].pol
                /\ request[q].status = "approved" /\ request'[q].status = "revoked"
                /\ worker[h].pc = "revokeRequest" /\ worker[h].req = q
  <2>1. worker[h].pc = "revokeRequest"
    BY <1>5 DEF RevokeRequest
  <2>2. CASE request' = request
    BY <2>2
  <2>3. CASE /\ request[worker[h].req].status = "approved"
             /\ request' = [request EXCEPT ![worker[h].req].status = "revoked"]
    BY <1>1, <2>1, <2>3 DEF RequestRow, Exists
  <2> QED
    BY <1>5, <2>2, <2>3 DEF RevokeRequest
<1>6. CASE request' = request
  BY <1>6
<1> QED
  BY Writers, <1>2, <1>3, <1>4, <1>5, <1>6

\* A session row appears active, with no use yet, for a request that is
\* entitled to it, and for as long as that request was granted.  While it is
\* active it counts uses, until it is revoked, for good.
LEMMA SessionMove ==
    ASSUME IInv, [Next]_vars, NEW x \in SessionId
    PROVE  \/ session'[x] = session[x]
           \/ /\ session[x].status = "none"
              /\ \E q \in RequestId :
                   /\ Entitled(q)
                   /\ session'[x] = [status |-> "active", req |-> q, issuedAt |-> now,
                                     expiresAt |-> now + request[q].dur, uses |-> 0]
           \/ /\ session[x].status = "active"
              /\ \/ session'[x] = [session[x] EXCEPT !.uses = @ + 1]
                 \/ session'[x] = [session[x] EXCEPT !.status = "revoked"]
<1>1. session \in [SessionId -> SessionRow]
  BY DEF IInv, TypeOK
<1>2. ASSUME NEW h \in Worker, AutoIssue(h) \/ IssueCredential(h)
      PROVE  \/ session'[x] = session[x]
             \/ /\ session[x].status = "none"
                /\ \E q \in RequestId :
                   /\ Entitled(q)
                   /\ session'[x] = [status |-> "active", req |-> q, issuedAt |-> now,
                                     expiresAt |-> now + request[q].dur, uses |-> 0]
  <2>1. Issuing(h)
    BY <1>2 DEF AutoIssue, IssueCredential, Issuing
  <2>2. worker[h].req \in RequestId /\ Entitled(worker[h].req)
    BY <2>1, IssuingOnRow DEF IInv, Issuers
  <2>3. session' = session \/ InsertSession(worker[h].req)
    BY <1>2 DEF AutoIssue, IssueCredential
  <2> QED
    BY <1>1, <2>2, <2>3 DEF InsertSession
<1>3. ASSUME NEW h \in Worker, BumpUsage(h) \/ RevokeSession(h)
      PROVE  \/ session'[x] = session[x]
             \/ /\ session[x].status = "active"
                /\ \/ session'[x] = [session[x] EXCEPT !.uses = @ + 1]
                   \/ session'[x] = [session[x] EXCEPT !.status = "revoked"]
  BY <1>3 DEF BumpUsage, RevokeSession, Usable, Active
<1> QED
  BY Writers, <1>2, <1>3

\* A handler stands still, ends, or moves by a step of its own.
LEMMA WorkerMove ==
    ASSUME IInv, [Next]_vars, NEW g \in Worker
    PROVE  worker'[g] = worker[g] \/ worker'[g] = Idle \/ Arrive(g) \/ Step(g)
<1>1. ASSUME NEW h \in Worker, Arrive(h) PROVE worker'[g] = worker[g] \/ Arrive(g)
  BY <1>1, ArriveMove
<1>2. ASSUME NEW h \in Worker, Step(h) PROVE worker'[g] = worker[g] \/ Step(g)
  BY <1>2, StepMove
<1>3. ASSUME NEW h \in Worker, Abort(h) PROVE worker'[g] = worker[g] \/ worker'[g] = Idle
  BY <1>3 DEF Abort, Finish, IInv, TypeOK
<1>4. CASE \/ \E c \in Principal : GetActiveCredentials(c)
           \/ \E s \in Secret, p \in Policy : BindPolicy(s, p)
           \/ \E s \in Secret : DeleteSecret(s)
           \/ Tick
           \/ UNCHANGED vars
  BY <1>4 DEF GetActiveCredentials, BindPolicy, DeleteSecret, Tick, vars
<1> QED
  BY <1>1, <1>2, <1>3, <1>4 DEF Next

\* Session rows are never deleted and never change their request.
LEMMA SessionsKept ==
    ASSUME IInv, [Next]_vars, NEW q \in RequestId
    PROVE  Sessions(q) \subseteq Sessions(q)'
<1> SUFFICES ASSUME NEW x \in SessionId, session[x].req = q
             PROVE  session'[x].req = q
  BY DEF Sessions
<1>1. session[x] \in SessionRow /\ session[x].status # "none"
  BY IdentityAssumption DEF IInv, TypeOK, Issued, IssuedOK
<1> QED
  BY <1>1, SessionMove DEF SessionRow

\* Only a request that is approved and has no session yet gets an active one.
LEMMA ActiveMove ==
    ASSUME IInv, [Next]_vars, NEW q \in RequestId
    PROVE  Active(q)' \subseteq Active(q) \/ Entitled(q)
<1> SUFFICES ASSUME ~Entitled(q), NEW x \in SessionId,
                    session'[x].req = q, session'[x].status = "active"
             PROVE  session[x].req = q /\ session[x].status = "active"
  BY DEF Active, Sessions
<1>1. session[x] \in SessionRow
  BY DEF IInv, TypeOK
<1>2. ASSUME NEW p \in RequestId, Entitled(p),
             session'[x] = [status |-> "active", req |-> p, issuedAt |-> now,
                            expiresAt |-> now + request[p].dur, uses |-> 0]
      PROVE  FALSE
  <2>1. p = q
    BY <1>2
  <2> QED
    BY <1>2, <2>1
<1>3. CASE \/ session'[x] = [session[x] EXCEPT !.uses = @ + 1]
           \/ session'[x] = [session[x] EXCEPT !.status = "revoked"]
  BY <1>1, <1>3 DEF SessionRow
<1> QED
  BY <1>2, <1>3, SessionMove

-----------------------------------------------------------------------------
(* Revocation, expiry and listing                                          *)

\* RevokeCredential closes the sessions and only then marks the request, and an
\* approved request that is being revoked cannot get another session.
LEMMA DeadInductive == IInv /\ DeadInv /\ [Next]_vars => DeadInv'
<1> SUFFICES ASSUME IInv, DeadInv, [Next]_vars PROVE DeadInv'
  OBVIOUS
<1>1. RevokedIsDead'
  <2> SUFFICES ASSUME NEW q \in RequestId, request'[q].status = "revoked"
               PROVE  Active(q)' = {}
    BY DEF RevokedIsDead
  <2>1. Active(q) = {} /\ ~Entitled(q)
    <3>1. CASE request[q].status = "revoked"
      BY <3>1 DEF DeadInv, RevokedIsDead, Entitled
    <3>2. CASE \E h \in Worker : worker[h].pc = "revokeRequest" /\ worker[h].req = q
      BY <3>2 DEF DeadInv, Closing, IInv, HandlersOK, RowOK, Entitled
    <3> QED
      BY <3>1, <3>2, RequestMove
  <2> QED
    BY <2>1, ActiveMove
<1>2. Closing'
  <2> SUFFICES ASSUME NEW h \in Worker, worker'[h].pc = "revokeRequest"
               PROVE  \E q \in RequestId : q = worker'[h].req /\ Active(q)' = {}
    BY DEF Closing
  <2>1. CASE worker'[h] = worker[h]
    <3>1. PICK q \in RequestId : q = worker[h].req /\ Sessions(q) # {} /\ Active(q) = {}
      BY <2>1 DEF DeadInv, Closing, IInv, HandlersOK, RowOK
    <3>2. ~Entitled(q)
      BY <3>1 DEF Entitled
    <3>3. Active(q)' = {}
      BY <3>1, <3>2, ActiveMove
    <3> QED
      BY <2>1, <3>1, <3>3
  <2>2. CASE RevokeSession(h)
    <3>1. PICK q \in RequestId : q = worker[h].req /\ worker'[h].req = q
      <4>1. worker[h].pc = "revokeSession" /\ worker'[h] # Idle
        BY <2>2 DEF RevokeSession, Idle
      <4>2. worker[h].req \in RequestId
        BY <4>1 DEF IInv, HandlersOK, RowOK
      <4> QED
        BY <2>2, <4>1, <4>2, StepMove DEF Step
    <3>2. \A x \in SessionId : session'[x] =
            IF x \in Active(q)
            THEN [session[x] EXCEPT !.status = "revoked"] ELSE session[x]
      <4>1. worker[h].pc # "revokeRequest" /\ worker \in [Worker -> Handler]
        BY <2>2 DEF RevokeSession, IInv, TypeOK
      <4>2. ~AfterRevoke(h)
        BY <4>1 DEF AfterRevoke, Goto, Finish, Idle, Handler
      <4> QED
        BY <2>2, <3>1, <4>2 DEF RevokeSession
    <3>3. \A x \in SessionId : session[x] \in SessionRow
      BY DEF IInv, TypeOK
    <3>4. Active(q)' = {}
      BY <3>2, <3>3 DEF Active, Sessions, SessionRow
    <3> QED
      BY <3>1, <3>4
  <2>3. CASE worker'[h] # worker[h]
    <3>1. worker'[h] # Idle
      BY DEF Idle
    <3>2. ~Arrive(h)
      BY ArriveMove
    <3> QED
      BY <2>2, <2>3, <3>1, <3>2, WorkerMove, StepMove
  <2> QED
    BY <2>1, <2>3
<1> QED
  BY <1>1, <1>2 DEF DeadInv

\* CreateRequest caps the duration before it stores it, and every way to issue a
\* credential computes the expiry from the row.
LEMMA LastInductive == IInv /\ LastInv /\ [Next]_vars => LastInv'
<1> SUFFICES ASSUME IInv, LastInv, [Next]_vars PROVE LastInv'
  OBVIOUS
<1>1. ASSUME NEW h \in Worker, worker'[h].pc \in {"daily", "coolDown", "insert"}
      PROVE  worker'[h].dur <= worker'[h].pol.maxDur
  <2>1. CASE worker'[h] = worker[h]
    BY <1>1, <2>1 DEF LastInv, CappedOK
  <2>2. CASE worker'[h] # worker[h] /\ Arrive(h)
    BY <1>1, <2>2, ArriveMove
  <2>3. CASE worker'[h] # Idle /\ Step(h)
    BY <1>1, <2>3, StepMove DEF LastInv, CappedOK
  <2>4. worker'[h] # Idle
    BY <1>1 DEF Idle
  <2> QED
    BY <2>1, <2>2, <2>3, <2>4, WorkerMove
<1>2. ASSUME NEW q \in RequestId
      PROVE  request'[q].dur <= request'[q].pol.maxDur
  BY RequestMove DEF LastInv, CappedOK
<1>3. ASSUME NEW x \in SessionId, session'[x].status # "none"
      PROVE  session'[x].expiresAt <= session'[x].issuedAt
                                        + request'[session'[x].req].pol.maxDur
  <2>1. session[x] \in SessionRow
    BY DEF IInv, TypeOK
  <2>2. CASE session[x].status # "none"
    <3>1. /\ session'[x].req = session[x].req /\ session'[x].issuedAt = session[x].issuedAt
          /\ session'[x].expiresAt = session[x].expiresAt
      BY <2>1, <2>2, SessionMove DEF SessionRow
    <3>2. session[x].req \in RequestId /\ Exists(session[x].req)
      BY <2>1, <2>2 DEF IInv, Issued, IssuedOK, SessionRow, Exists
    <3>3. request'[session[x].req].pol = request[session[x].req].pol
      BY <3>2, RequestMove
    <3> QED
      BY <2>2, <3>1, <3>3 DEF LastInv, WithinSnapshot
  <2>3. CASE session[x].status = "none"
    <3>1. PICK q \in RequestId :
            /\ Entitled(q)
            /\ session'[x] = [status |-> "active", req |-> q, issuedAt |-> now,
                              expiresAt |-> now + request[q].dur, uses |-> 0]
      BY <1>3, <2>3, SessionMove
    <3>2. request'[q].pol = request[q].pol
      BY <3>1, RequestMove DEF Entitled, Exists
    <3>3. request[q] \in RequestRow /\ now \in Nat
      BY DEF IInv, TypeOK
    <3>4. request[q].dur \in Nat /\ request[q].pol.maxDur \in Nat
      BY <3>3 DEF RequestRow, PolicyRecord
    <3>5. request[q].dur <= request[q].pol.maxDur
      BY DEF LastInv, CappedOK
    <3> QED
      BY <3>1, <3>2, <3>3, <3>4, <3>5
  <2> QED
    BY <2>2, <2>3
<1> QED
  BY <1>1, <1>2, <1>3 DEF LastInv, CappedOK, WithinSnapshot

\* GetActive lists requests with a usable session, and nothing else lists any.
LEMMA Listing ==
    ASSUME IInv, [Next]_vars
    PROVE  \A q \in listed' : q \in listed \/ (q \in RequestId /\ Usable(q) # {})
<1>1. ASSUME NEW h \in Worker, Arrive(h) PROVE listed' = listed
  BY <1>1, ArriveMove
<1>2. ASSUME NEW h \in Worker, Step(h) PROVE listed' = listed
  BY <1>2 DEF Step, CheckDaily, CheckCoolDown, InsertRequest, InsertStep, AutoIssue,
         Notify, Decide, IssueCredential, BumpUsage, OpenSecret, Reply, RevokeSession,
         RevokeRequest, history
<1>3. ASSUME NEW h \in Worker, Abort(h) PROVE listed' = listed
  BY <1>3 DEF Abort, history
<1>4. ASSUME NEW c \in Principal, GetActiveCredentials(c)
      PROVE  \A q \in listed' : q \in listed \/ (q \in RequestId /\ Usable(q) # {})
  BY <1>4 DEF GetActiveCredentials
<1>5. CASE \/ \E s \in Secret, p \in Policy : BindPolicy(s, p)
           \/ \E s \in Secret : DeleteSecret(s)
           \/ Tick
           \/ UNCHANGED vars
  BY <1>5 DEF BindPolicy, DeleteSecret, Tick, vars, history
<1> QED
  BY <1>1, <1>2, <1>3, <1>4, <1>5 DEF Next

\* What GetActive has listed had a usable session, and stays approved or revoked.
LEMMA ListedInductive == IInv /\ ListedOK /\ [Next]_vars => ListedOK'
<1> SUFFICES ASSUME IInv, ListedOK, [Next]_vars, NEW q \in listed'
             PROVE  Sessions(q)' # {} /\ request'[q].status \in {"approved", "revoked"}
  BY DEF ListedOK
<1>1. q \in listed \/ (q \in RequestId /\ Usable(q) # {})
  BY Listing
<1>2. /\ q \in RequestId /\ Sessions(q) # {}
      /\ request[q].status \in {"approved", "revoked"}
  <2>1. CASE q \in listed
    BY <2>1 DEF ListedOK, IInv, TypeOK
  <2>2. CASE q \in RequestId /\ Usable(q) # {}
    <3>1. PICK x \in SessionId : session[x].req = q /\ session[x].status = "active"
      BY <2>2 DEF Usable, Active, Sessions
    <3> QED
      BY <2>2, <3>1 DEF Sessions, IInv, Issued, IssuedOK
  <2> QED
    BY <1>1, <2>1, <2>2
<1>3. Sessions(q)' # {}
  BY <1>2, SessionsKept
<1>4. request'[q].status \in {"approved", "revoked"}
  BY <1>2, RequestMove DEF Exists
<1> QED
  BY <1>3, <1>4

-----------------------------------------------------------------------------
(* Counting what is handed out                                             *)

\* A request without sessions gets one with no use yet; the session it has stays
\* its only one.
LEMMA UsesMove ==
    ASSUME IInv, IInv', [Next]_vars, NEW q \in RequestId
    PROVE  \/ Sessions(q) = {} /\ UsesOf(q) = 0 /\ UsesOf(q)' = 0
           \/ \E x \in SessionId :
                /\ Sessions(q) = {x} /\ Sessions(q)' = {x}
                /\ UsesOf(q) = session[x].uses /\ UsesOf(q)' = session'[x].uses
<1>1. CASE Sessions(q) = {}
  <2>1. \A x \in SessionId : session'[x].req = q => session'[x].uses = 0
    <3> SUFFICES ASSUME NEW x \in SessionId, session'[x].req = q
                 PROVE  session'[x].uses = 0
      OBVIOUS
    <3>1. session[x] \in SessionRow /\ session[x].req # q
      BY <1>1 DEF IInv, TypeOK, Sessions
    <3>2. CASE \E p \in RequestId :
                 session'[x] = [status |-> "active", req |-> p, issuedAt |-> now,
                                expiresAt |-> now + request[p].dur, uses |-> 0]
      BY <3>2
    <3>3. CASE \/ session'[x] = session[x]
               \/ session'[x] = [session[x] EXCEPT !.uses = @ + 1]
               \/ session'[x] = [session[x] EXCEPT !.status = "revoked"]
      BY <3>1, <3>3 DEF SessionRow
    <3> QED
      BY <3>2, <3>3, SessionMove
  <2>2. UsesOf(q) = 0
    BY <1>1 DEF UsesOf
  <2>3. UsesOf(q)' = 0
    <3>1. CASE Sessions(q)' = {}
      BY <3>1 DEF UsesOf
    <3>2. CASE Sessions(q)' # {}
      <4> DEFINE y == CHOOSE x \in Sessions(q)' : TRUE
      <4>1. y \in Sessions(q)'
        BY <3>2
      <4>2. y \in SessionId /\ session'[y].req = q
        BY <4>1 DEF Sessions
      <4>3. UsesOf(q)' = session'[y].uses
        BY <3>2 DEF UsesOf
      <4> HIDE DEF y
      <4> QED
        BY <2>1, <4>2, <4>3
    <3> QED
      BY <3>1, <3>2
  <2> QED
    BY <1>1, <2>2, <2>3
<1>2. CASE Sessions(q) # {}
  <2>1. PICK x \in SessionId : session[x].req = q
    BY <1>2 DEF Sessions
  <2>2. session'[x].req = q /\ q # None
    BY <2>1, SessionsKept, IdentityAssumption DEF Sessions
  <2>3. Sessions(q) = {x}
    BY <2>1, <2>2 DEF Sessions, IInv, OneSessionPerRequest
  <2>4. Sessions(q)' = {x}
    BY <2>2 DEF Sessions, IInv, OneSessionPerRequest
  <2>5. UsesOf(q) = session[x].uses
    BY <2>3 DEF UsesOf
  <2>6. UsesOf(q)' = session'[x].uses
    BY <2>4 DEF UsesOf
  <2> QED
    BY <2>3, <2>4, <2>5, <2>6
<1> QED
  BY <1>1, <1>2

\* usage_count is never lowered.
LEMMA UsesGrow ==
    ASSUME IInv, IInv', [Next]_vars, NEW q \in RequestId
    PROVE  UsesOf(q) \in Nat /\ UsesOf(q)' \in Nat /\ UsesOf(q) <= UsesOf(q)'
<1>1. CASE UsesOf(q) = 0 /\ UsesOf(q)' = 0
  BY <1>1
<1>2. ASSUME NEW x \in SessionId, Sessions(q) = {x},
             UsesOf(q) = session[x].uses, UsesOf(q)' = session'[x].uses
      PROVE  UsesOf(q) \in Nat /\ UsesOf(q)' \in Nat /\ UsesOf(q) <= UsesOf(q)'
  <2>1. session[x] \in SessionRow /\ session[x].req = q
    BY <1>2 DEF IInv, TypeOK, Sessions
  <2>2. session[x].status # "none"
    BY <2>1, IdentityAssumption DEF IInv, Issued, IssuedOK
  <2>3. session[x].uses \in Nat /\ session'[x].uses \in {session[x].uses, session[x].uses + 1}
    BY <2>1, <2>2, SessionMove DEF SessionRow
  <2> QED
    BY <1>2, <2>3
<1> QED
  BY <1>1, <1>2, UsesMove

\* The fetch that finds a live session counts one use of it (GetCredential).
LEMMA BumpCounts ==
    ASSUME IInv, IInv', NEW h \in Worker, BumpUsage(h), Usable(worker[h].req) # {},
           NEW q \in RequestId, q = worker[h].req
    PROVE  UsesOf(q)' = UsesOf(q) + 1
<1>1. [Next]_vars
  BY DEF Next, Step
<1>2. PICK x \in Usable(q) : TRUE
  OBVIOUS
<1>3. x \in Sessions(q) /\ x \in SessionId
  BY <1>2 DEF Usable, Active, Sessions
<1>4. UsesOf(q) = session[x].uses /\ UsesOf(q)' = session'[x].uses
  BY <1>1, <1>3, UsesMove
<1>5. session'[x] = [session[x] EXCEPT !.uses = @ + 1]
  BY <1>2, <1>3 DEF BumpUsage
<1>6. session[x] \in SessionRow
  BY <1>3 DEF IInv, TypeOK
<1> QED
  BY <1>4, <1>5, <1>6 DEF SessionRow

\* A fetch begins to hold a value by counting a use, and in no other way.
LEMMA DeliveringMove ==
    ASSUME IInv, Fetching, [Next]_vars, NEW q \in RequestId,
           NEW g \in Delivering(q)', g \notin Delivering(q)
    PROVE  BumpUsage(g) /\ Usable(q) # {} /\ worker[g].req = q
<1>1. /\ g \in Worker /\ worker'[g].op = "get" /\ worker'[g].req = q
      /\ worker'[g].pc = "open" \/ worker'[g].value
  BY DEF Delivering
<1>2. worker'[g] # worker[g]
  BY <1>1 DEF Delivering
<1>3. worker'[g] # Idle
  BY <1>1 DEF Idle
<1>4. ~Arrive(g)
  BY <1>1, <1>2, ArriveMove
<1>5. Step(g)
  BY <1>1, <1>2, <1>3, <1>4, WorkerMove
<1>6. worker[g].pc = "insert" => ~worker'[g].value
  <2>1. worker[g].pc = "insert" => worker'[g].value = worker[g].value
    BY <1>1, <1>3, <1>5, StepMove
  <2> QED
    BY <1>1, <2>1 DEF Fetching
<1>7. worker[g].op = "get" /\ worker[g].pc # "open"
  <2>1. worker[g].op = "get"
    BY <1>1, <1>3, <1>5, StepMove
  <2>2. worker[g].pc = "open" => worker'[g].req = worker[g].req
    BY <1>1, <1>3, <1>5, StepMove
  <2> QED
    BY <1>1, <2>1, <2>2 DEF Delivering
<1>8. worker[g].pc # "insert"
  <2>1. worker'[g].pc # "open" \/ worker[g].pc = "bump"
    BY <1>1, <1>3, <1>5, StepMove
  <2> QED
    BY <1>1, <1>6, <2>1
<1>9. worker[g].req = q
  BY <1>1, <1>3, <1>5, <1>8, StepMove
<1>10. worker'[g].value => worker[g].value
  BY <1>1, <1>3, <1>5, <1>7, StepMove
<1>11. ~worker[g].value
  BY <1>1, <1>7, <1>9 DEF Delivering
<1>12. worker'[g].pc = "open" /\ worker[g].pc = "bump"
  BY <1>1, <1>3, <1>5, <1>10, <1>11, StepMove
<1>13. BumpUsage(g)
  BY <1>5, <1>12 DEF Step, CheckDaily, CheckCoolDown, InsertRequest, InsertStep,
         AutoIssue, Notify, Decide, IssueCredential, OpenSecret, Reply, RevokeSession,
         RevokeRequest
<1>14. Usable(q) # {}
  <2>1. ~Finish(g)
    BY <1>1, <1>3 DEF Finish, IInv, TypeOK
  <2> QED
    BY <1>9, <1>13, <2>1 DEF BumpUsage
<1> QED
  BY <1>9, <1>13, <1>14

\* Handlers that are delivering are goroutines, finitely many.
LEMMA DeliveringFinite ==
    ASSUME NEW D \in SUBSET Worker
    PROVE  IsFiniteSet(D) /\ Cardinality(D) \in Nat
  BY BoundAssumption, FS_Subset, FS_CardinalityType

\* Only an answer that carries a value adds to what was handed out.
LEMMA ReleasedMove ==
    ASSUME IInv, Fetching, [Next]_vars, NEW q \in RequestId
    PROVE  \/ released'[q] = released[q]
           \/ /\ released'[q] = released[q] + 1
              /\ \E h \in Worker : Reply(h) /\ h \in Delivering(q)
<1>1. ASSUME NEW h \in Worker, Arrive(h) PROVE released' = released
  BY <1>1, ArriveMove
<1>2. ASSUME NEW h \in Worker, Reply(h)
      PROVE  \/ released'[q] = released[q]
             \/ released'[q] = released[q] + 1 /\ h \in Delivering(q)
  <2>1. released \in [RequestId -> Nat] /\ worker[h] \in Handler
    BY DEF IInv, TypeOK
  <2>2. CASE released' = released
    BY <2>2
  <2>3. CASE worker[h].value /\ released' = [released EXCEPT ![worker[h].req] = @ + 1]
    BY <2>1, <2>3 DEF Delivering, Fetching
  <2> QED
    BY <1>2, <2>2, <2>3 DEF Reply
<1>3. ASSUME NEW h \in Worker, Step(h), ~Reply(h) PROVE released' = released
  BY <1>3 DEF Step, CheckDaily, CheckCoolDown, InsertRequest, InsertStep, AutoIssue,
         Notify, Decide, IssueCredential, BumpUsage, OpenSecret, RevokeSession,
         RevokeRequest, history
<1>4. ASSUME NEW h \in Worker, Abort(h) PROVE released' = released
  BY <1>4 DEF Abort, history
<1>5. CASE \/ \E c \in Principal : GetActiveCredentials(c)
           \/ \E s \in Secret, p \in Policy : BindPolicy(s, p)
           \/ \E s \in Secret : DeleteSecret(s)
           \/ Tick
           \/ UNCHANGED vars
  BY <1>5 DEF GetActiveCredentials, BindPolicy, DeleteSecret, Tick, vars, history
<1> QED
  BY <1>1, <1>2, <1>3, <1>4, <1>5 DEF Next

\* Every value handed out, or about to be, was counted before it was read.
LEMMA CountKept ==
    ASSUME IInv, IInv', Fetching, ReleasesAreCounted, [Next]_vars
    PROVE  ReleasesAreCounted'
<1> SUFFICES ASSUME NEW q \in RequestId
             PROVE  (released[q] + Cardinality(Delivering(q)) <= UsesOf(q))'
  BY DEF ReleasesAreCounted
<1> DEFINE D == Delivering(q)
           E == Delivering(q)'
<1>1. D \in SUBSET Worker /\ E \in SUBSET Worker
  BY DEF Delivering
<1>2. /\ IsFiniteSet(D) /\ Cardinality(D) \in Nat
      /\ IsFiniteSet(E) /\ Cardinality(E) \in Nat
  BY <1>1, DeliveringFinite
<1>3. /\ UsesOf(q) \in Nat /\ UsesOf(q)' \in Nat /\ UsesOf(q) <= UsesOf(q)'
      /\ released[q] \in Nat /\ released'[q] \in Nat
  BY UsesGrow DEF IInv, TypeOK
<1>4. released[q] + Cardinality(D) <= UsesOf(q)
  BY DEF ReleasesAreCounted
<1>5. CASE \E h \in E : h \notin D
  <2>1. PICK h \in E : h \notin D
    BY <1>5
  <2>2. h \in Worker /\ BumpUsage(h) /\ Usable(worker[h].req) # {} /\ worker[h].req = q
    BY <1>1, <2>1, DeliveringMove
  <2>3. UsesOf(q)' = UsesOf(q) + 1
    BY <2>2, BumpCounts
  <2>4. released'[q] = released[q]
    BY <2>2 DEF BumpUsage, history
  <2>5. E \subseteq D \cup {h}
    <3> SUFFICES ASSUME NEW g \in E, g # h PROVE g \in D
      OBVIOUS
    <3>1. worker'[g] = worker[g]
      BY <1>1, <2>2, StepMove DEF Step
    <3> QED
      BY <3>1 DEF Delivering
  <2>6. IsFiniteSet(D \cup {h}) /\ Cardinality(D \cup {h}) = Cardinality(D) + 1
    BY <1>2, <2>1, FS_AddElement
  <2>7. Cardinality(E) <= Cardinality(D) + 1
    BY <2>5, <2>6, FS_Subset
  <2> HIDE DEF D, E
  <2> QED
    BY <1>2, <1>3, <1>4, <2>3, <2>4, <2>7 DEF D, E
<1>6. CASE E \subseteq D /\ released'[q] = released[q]
  <2>1. Cardinality(E) <= Cardinality(D)
    BY <1>2, <1>6, FS_Subset
  <2> HIDE DEF D, E
  <2> QED
    BY <1>2, <1>3, <1>4, <1>6, <2>1 DEF D, E
<1>7. CASE E \subseteq D /\ released'[q] # released[q]
  <2>1. /\ released'[q] = released[q] + 1
        /\ \E h \in Worker : Reply(h) /\ h \in D
    BY <1>7, ReleasedMove
  <2>2. PICK h \in Worker : Reply(h) /\ h \in D
    BY <2>1
  <2>3. h \notin E
    <3>1. worker'[h] = Idle
      BY <2>2 DEF Reply, Finish, IInv, TypeOK
    <3> QED
      BY <3>1 DEF Delivering, Idle
  <2>4. IsFiniteSet(D \ {h}) /\ Cardinality(D \ {h}) = Cardinality(D) - 1
    BY <1>2, <2>2, FS_RemoveElement
  <2>5. Cardinality(E) <= Cardinality(D) - 1
    BY <1>7, <2>3, <2>4, FS_Subset
  <2> HIDE DEF D, E
  <2> QED
    BY <1>2, <1>3, <1>4, <2>1, <2>5 DEF D, E
<1> QED
  BY <1>5, <1>6, <1>7

\* A value is held by a fetch only, and a creation never holds one.
LEMMA FetchingKept ==
    ASSUME IInv, Fetching, [Next]_vars
    PROVE  Fetching'
<1> SUFFICES ASSUME NEW h \in Worker
             PROVE  /\ worker'[h].pc \in {"bump", "open"} \/ worker'[h].value =>
                         worker'[h].op = "get" /\ worker'[h].req \in RequestId
                    /\ worker'[h].pc \in {"daily", "coolDown", "insert"} => ~worker'[h].value
  BY DEF Fetching
<1>1. CASE worker'[h] = worker[h]
  BY <1>1 DEF Fetching
<1>2. CASE worker'[h] = Idle
  BY <1>2 DEF Idle
<1>3. CASE worker'[h] # worker[h] /\ Arrive(h)
  BY <1>3, ArriveMove
<1>4. CASE worker'[h] # Idle /\ Step(h)
  <2>1. /\ worker'[h].op = worker[h].op
        /\ worker[h].pc = "insert" \/ worker'[h].req = worker[h].req
        /\ worker[h].pc = "open" \/ worker'[h].value = worker[h].value
        /\ worker'[h].pc \in {"daily", "coolDown", "insert"} =>
             worker[h].pc \in {"daily", "coolDown"}
        /\ worker'[h].pc = "open" => worker[h].pc = "bump"
        /\ worker'[h].pc # "bump"
    BY <1>4, StepMove
  <2> QED
    BY <2>1 DEF Fetching
<1> QED
  BY <1>1, <1>2, <1>3, <1>4, WorkerMove

-----------------------------------------------------------------------------
(* The workflow implements AccessGrant                                     *)

\* An empty database has asked for nothing.
LEMMA GrantStarts == Init => Grant!GrantInit
<1> SUFFICES ASSUME Init PROVE Grant!GrantInit
  OBVIOUS
<1>1. ASSUME NEW q \in RequestId PROVE PhaseOf(q) = "none" /\ UsesOf(q) = 0
  <2>1. Sessions(q) = {}
    BY IdentityAssumption DEF Init, Sessions, NoSession
  <2>2. request[q].status = "none"
    BY DEF Init, NoRequest
  <2> QED
    BY <2>1, <2>2 DEF PhaseOf, UsesOf
<1> QED
  BY <1>1 DEF Grant!GrantInit

\* A request whose sessions do not move has the phase its status gives it.
LEMMA PhaseSame ==
    ASSUME NEW q \in RequestId, session' = session,
           request'[q].status = request[q].status \/ Sessions(q) # {}
    PROVE  PhaseOf(q)' = PhaseOf(q) /\ UsesOf(q)' = UsesOf(q)
<1>1. Sessions(q)' = Sessions(q) /\ Active(q)' = Active(q) /\ UsesOf(q)' = UsesOf(q)
  BY DEF Sessions, Active, UsesOf
<1> QED
  BY <1>1 DEF PhaseOf

\* A statement that writes requests moves one of them: asked for, settled, or,
\* once it has a session, not at all.
LEMMA RequestPhase ==
    ASSUME IInv, [Next]_vars, session' = session, NEW q \in RequestId
    PROVE  /\ UsesOf(q)' = UsesOf(q)
           /\ \/ PhaseOf(q)' = PhaseOf(q)
              \/ PhaseOf(q) = "none" /\ PhaseOf(q)' \in {"pending", "granted"}
              \/ PhaseOf(q) = "pending" /\ PhaseOf(q)' \in {"granted", "refused"}
<1>1. Sessions(q)' = Sessions(q) /\ Active(q)' = Active(q) /\ UsesOf(q)' = UsesOf(q)
  BY DEF Sessions, Active, UsesOf
<1>2. CASE request'[q].status = request[q].status \/ Sessions(q) # {}
  BY <1>2, PhaseSame
<1>3. CASE Sessions(q) = {} /\ request'[q].status # request[q].status
  <2>1. ~\E h \in Worker : worker[h].pc = "revokeRequest" /\ worker[h].req = q
    BY <1>3 DEF IInv, HandlersOK, RowOK
  <2>2. \/ request[q].status = "none" /\ request'[q].status \in {"pending", "approved"}
        \/ request[q].status = "pending" /\ request'[q].status \in {"approved", "rejected"}
    BY <1>3, <2>1, RequestMove DEF Exists
  <2> QED
    BY <1>1, <1>3, <2>2 DEF PhaseOf
<1> QED
  BY <1>1, <1>2, <1>3

\* A step on the sessions of one request leaves the others' phases and uses alone.
LEMMA Elsewhere ==
    ASSUME NEW p \in RequestId, request' = request,
           \A x \in SessionId : \/ session'[x] = session[x]
                                \/ session[x].req # p /\ session'[x].req # p
    PROVE  PhaseOf(p)' = PhaseOf(p) /\ UsesOf(p)' = UsesOf(p)
<1>1. Sessions(p)' = Sessions(p) /\ Active(p)' = Active(p)
  BY DEF Sessions, Active
<1>2. PhaseOf(p)' = PhaseOf(p)
  BY <1>1 DEF PhaseOf
<1>3. UsesOf(p)' = UsesOf(p)
  <2>1. CASE Sessions(p) = {}
    BY <1>1, <2>1 DEF UsesOf
  <2>2. CASE Sessions(p) # {}
    <3> DEFINE y == CHOOSE x \in Sessions(p) : TRUE
    <3>1. y \in SessionId /\ session'[y] = session[y]
      BY <2>2 DEF Sessions
    <3>2. UsesOf(p) = session[y].uses
      BY <2>2 DEF UsesOf
    <3>3. UsesOf(p)' = session'[y].uses
      BY <1>1, <2>2 DEF UsesOf
    <3> QED
      BY <3>1, <3>2, <3>3
  <2> QED
    BY <2>1, <2>2
<1> QED
  BY <1>2, <1>3

\* A statement writes at most one request.
LEMMA OneRequest ==
    ASSUME IInv, NEW h \in Worker,
           InsertRequest(h) \/ InsertStep(h) \/ Decide(h) \/ RevokeRequest(h)
    PROVE  \E q \in RequestId : \A p \in RequestId \ {q} : request'[p] = request[p]
<1>1. request \in [RequestId -> RequestRow]
  BY DEF IInv, TypeOK
<1>2. CASE InsertRequest(h)
  BY <1>1, <1>2 DEF InsertRequest
<1>3. CASE InsertStep(h) \/ Decide(h) \/ RevokeRequest(h)
  <2>1. PICK q \in RequestId : q = worker[h].req
    BY <1>3 DEF IInv, HandlersOK, RowOK, InsertStep, Decide, RevokeRequest
  <2>2. \A p \in RequestId \ {q} : request'[p] = request[p]
    BY <1>1, <1>3, <2>1 DEF InsertStep, Decide, RevokeRequest
  <2> QED
    BY <2>2
<1> QED
  BY <1>2, <1>3

\* Issuing opens the request it is for, and no other.
LEMMA IssueOpens ==
    ASSUME IInv, IInv', NEW h \in Worker, AutoIssue(h) \/ IssueCredential(h),
           session' # session
    PROVE  \E q \in RequestId :
             /\ PhaseOf(q) = "granted" /\ PhaseOf(q)' = "live" /\ UsesOf(q)' = UsesOf(q)
             /\ \A p \in RequestId \ {q} :
                  PhaseOf(p)' = PhaseOf(p) /\ UsesOf(p)' = UsesOf(p)
<1>1. Issuing(h) /\ request' = request /\ [Next]_vars
  BY DEF AutoIssue, IssueCredential, Issuing, Next, Step
<1>2. PICK q \in RequestId : q = worker[h].req /\ Entitled(q)
  BY <1>1, IssuingOnRow DEF IInv, Issuers
<1>3. PICK x \in SessionId :
        /\ session[x].status = "none"
        /\ session' = [session EXCEPT ![x] =
             [status |-> "active", req |-> q, issuedAt |-> now,
              expiresAt |-> now + request[q].dur, uses |-> 0]]
  BY <1>2 DEF AutoIssue, IssueCredential, InsertSession
<1>4. /\ session'[x].req = q /\ session'[x].status = "active"
      /\ session[x].req = None
      /\ \A y \in SessionId \ {x} : session'[y] = session[y]
  BY <1>3 DEF IInv, TypeOK, Issued, IssuedOK
<1>5. PhaseOf(q) = "granted"
  BY <1>2 DEF Entitled, PhaseOf
<1>6. PhaseOf(q)' = "live"
  <2>1. x \in Sessions(q)' /\ x \in Active(q)'
    BY <1>4 DEF Sessions, Active
  <2> QED
    BY <2>1 DEF PhaseOf
<1>7. UsesOf(q)' = UsesOf(q)
  <2>1. Sessions(q) = {}
    BY <1>2 DEF Entitled
  <2> QED
    BY <1>1, <2>1, UsesMove
<1>8. \A p \in RequestId \ {q} : PhaseOf(p)' = PhaseOf(p) /\ UsesOf(p)' = UsesOf(p)
  BY <1>1, <1>4, Elsewhere, IdentityAssumption
<1> QED
  BY <1>5, <1>6, <1>7, <1>8

\* Counting a use or closing the sessions of a request keeps the others as they are.
LEMMA TouchElsewhere ==
    ASSUME IInv, NEW h \in Worker, BumpUsage(h) \/ RevokeSession(h),
           NEW q \in RequestId, q = worker[h].req
    PROVE  /\ request' = request
           /\ Sessions(q)' = Sessions(q)
           /\ \A p \in RequestId \ {q} : PhaseOf(p)' = PhaseOf(p) /\ UsesOf(p)' = UsesOf(p)
<1>1. request' = request
  BY DEF BumpUsage, RevokeSession
<1>2. \A x \in SessionId : session[x] \in SessionRow
  BY DEF IInv, TypeOK
<1>3. \A x \in SessionId :
        \/ session'[x] = session[x]
        \/ session[x].req = q /\ \/ session'[x] = [session[x] EXCEPT !.uses = @ + 1]
                                 \/ session'[x] = [session[x] EXCEPT !.status = "revoked"]
  BY DEF BumpUsage, RevokeSession, Usable, Active, Sessions
<1>4. \A x \in SessionId : \/ session'[x] = session[x]
                           \/ session[x].req = q /\ session'[x].req = q
  BY <1>2, <1>3 DEF SessionRow
<1>5. Sessions(q)' = Sessions(q)
  BY <1>4 DEF Sessions
<1> QED
  BY <1>1, <1>4, <1>5, Elsewhere

\* A counted fetch is a use of a live request.
LEMMA BumpUses ==
    ASSUME IInv, IInv', NEW h \in Worker, BumpUsage(h), Usable(worker[h].req) # {}
    PROVE  \E q \in RequestId :
             /\ PhaseOf(q) = "live" /\ UsesOf(q)' = UsesOf(q) + 1
             /\ \A p \in RequestId : PhaseOf(p)' = PhaseOf(p)
             /\ \A p \in RequestId \ {q} : UsesOf(p)' = UsesOf(p)
<1>1. PICK q \in RequestId : q = worker[h].req
  BY DEF IInv, HandlersOK, RowOK, BumpUsage
<1>2. UsesOf(q)' = UsesOf(q) + 1
  BY <1>1, BumpCounts
<1>3. Sessions(q) # {} /\ Active(q) # {}
  BY <1>1 DEF Usable, Active
<1>4. \A x \in SessionId :
        session[x] \in SessionRow
        /\ (session'[x] = session[x] \/ session'[x] = [session[x] EXCEPT !.uses = @ + 1])
  BY DEF IInv, TypeOK, BumpUsage
<1>5. Active(q)' = Active(q)
  <2>1. \A x \in SessionId : /\ session'[x].req = session[x].req
                             /\ session'[x].status = session[x].status
    BY <1>4 DEF SessionRow
  <2> QED
    BY <2>1 DEF Active, Sessions
<1>6. PhaseOf(q) = "live" /\ PhaseOf(q)' = "live"
  BY <1>1, <1>3, <1>5, TouchElsewhere DEF PhaseOf
<1> QED
  BY <1>1, <1>2, <1>6, TouchElsewhere

\* Revoking the active session closes the request for good.
LEMMA RevokeCloses ==
    ASSUME IInv, IInv', NEW h \in Worker, RevokeSession(h), session' # session
    PROVE  \E q \in RequestId :
             /\ PhaseOf(q) = "live" /\ PhaseOf(q)' = "closed" /\ UsesOf(q)' = UsesOf(q)
             /\ \A p \in RequestId \ {q} :
                  PhaseOf(p)' = PhaseOf(p) /\ UsesOf(p)' = UsesOf(p)
<1>1. PICK q \in RequestId : q = worker[h].req
  BY DEF IInv, HandlersOK, RowOK, RevokeSession
<1>2. Sessions(q) # {} /\ Active(q) # {}
  <2>1. session' = [x \in SessionId |->
                      IF x \in Active(q) THEN [session[x] EXCEPT !.status = "revoked"]
                      ELSE session[x]]
    BY <1>1 DEF RevokeSession
  <2>2. Active(q) = {} => session' = session
    BY <2>1 DEF IInv, TypeOK
  <2> QED
    BY <2>2 DEF Active
<1>3. \A x \in SessionId :
        /\ session[x] \in SessionRow
        /\ session'[x] = IF x \in Active(q)
                         THEN [session[x] EXCEPT !.status = "revoked"] ELSE session[x]
  BY <1>1 DEF IInv, TypeOK, RevokeSession
<1>4. Active(q)' = {}
  BY <1>3 DEF SessionRow, Active, Sessions
<1>5. PhaseOf(q) = "live" /\ PhaseOf(q)' = "closed"
  BY <1>1, <1>2, <1>4, TouchElsewhere DEF PhaseOf
<1>6. UsesOf(q)' = UsesOf(q)
  <2>1. \A x \in SessionId : session'[x].uses = session[x].uses
    BY <1>3 DEF SessionRow
  <2>2. [Next]_vars
    BY DEF Next, Step
  <2> QED
    BY <2>1, <2>2, UsesMove
<1> QED
  BY <1>1, <1>5, <1>6, TouchElsewhere

\* Every statement of every handler is a step of the grant, or is unseen.
LEMMA GrantSteps == IInv /\ IInv' /\ [Next]_vars => [Grant!GrantNext]_(Grant!grantVars)
<1> DEFINE P == [q \in RequestId |-> PhaseOf(q)]
           U == [q \in RequestId |-> UsesOf(q)]
<1> SUFFICES ASSUME IInv, IInv', [Next]_vars
             PROVE  Grant!GrantNext \/ (P' = P /\ U' = U)
  BY DEF Grant!grantVars
<1>1. CASE \A q \in RequestId : PhaseOf(q)' = PhaseOf(q) /\ UsesOf(q)' = UsesOf(q)
  BY <1>1
<1>2. CASE UNCHANGED <<request, session>>
  BY <1>1, <1>2, PhaseSame
<1>3. CASE session' = session /\ \E h \in Worker : InsertRequest(h) \/ InsertStep(h)
                                    \/ Decide(h) \/ RevokeRequest(h)
  <2>1. PICK q \in RequestId : \A p \in RequestId \ {q} : request'[p] = request[p]
    BY <1>3, OneRequest
  <2>2. \A p \in RequestId : /\ UsesOf(p)' = UsesOf(p)
                             /\ p # q => PhaseOf(p)' = PhaseOf(p)
    BY <1>3, <2>1, PhaseSame, RequestPhase
  <2>3. U' = U
    BY <2>2
  <2>4. P' = [P EXCEPT ![q] = PhaseOf(q)']
    BY <2>2
  <2>5. CASE PhaseOf(q)' = PhaseOf(q)
    BY <1>1, <2>2, <2>5
  <2>6. CASE PhaseOf(q) = "none" /\ PhaseOf(q)' \in {"pending", "granted"}
    <3>1. Grant!Ask(q)
      BY <2>3, <2>4, <2>6 DEF Grant!Ask
    <3> QED
      BY <3>1 DEF Grant!GrantNext
  <2>7. CASE PhaseOf(q) = "pending" /\ PhaseOf(q)' \in {"granted", "refused"}
    <3>1. Grant!Settle(q)
      BY <2>3, <2>4, <2>7 DEF Grant!Settle
    <3> QED
      BY <3>1 DEF Grant!GrantNext
  <2> QED
    BY <1>3, <2>5, <2>6, <2>7, RequestPhase
<1>4. ASSUME NEW h \in Worker, AutoIssue(h) \/ IssueCredential(h), session' # session
      PROVE  Grant!GrantNext
  <2>1. PICK q \in RequestId :
          /\ PhaseOf(q) = "granted" /\ PhaseOf(q)' = "live" /\ UsesOf(q)' = UsesOf(q)
          /\ \A p \in RequestId \ {q} : PhaseOf(p)' = PhaseOf(p) /\ UsesOf(p)' = UsesOf(p)
    BY <1>4, IssueOpens
  <2>2. U' = U /\ P' = [P EXCEPT ![q] = "live"]
    BY <2>1
  <2>3. Grant!Open(q)
    BY <2>1, <2>2 DEF Grant!Open
  <2> QED
    BY <2>3 DEF Grant!GrantNext
<1>5. ASSUME NEW h \in Worker, BumpUsage(h), Usable(worker[h].req) # {}
      PROVE  Grant!GrantNext
  <2>1. PICK q \in RequestId :
          /\ PhaseOf(q) = "live" /\ UsesOf(q)' = UsesOf(q) + 1
          /\ \A p \in RequestId : PhaseOf(p)' = PhaseOf(p)
          /\ \A p \in RequestId \ {q} : UsesOf(p)' = UsesOf(p)
    BY <1>5, BumpUses
  <2>2. P' = P /\ U' = [U EXCEPT ![q] = @ + 1]
    BY <2>1
  <2>3. Grant!Use(q)
    BY <2>1, <2>2 DEF Grant!Use
  <2> QED
    BY <2>3 DEF Grant!GrantNext
<1>6. ASSUME NEW h \in Worker, RevokeSession(h), session' # session
      PROVE  Grant!GrantNext
  <2>1. PICK q \in RequestId :
          /\ PhaseOf(q) = "live" /\ PhaseOf(q)' = "closed" /\ UsesOf(q)' = UsesOf(q)
          /\ \A p \in RequestId \ {q} : PhaseOf(p)' = PhaseOf(p) /\ UsesOf(p)' = UsesOf(p)
    BY <1>6, RevokeCloses
  <2>2. U' = U /\ P' = [P EXCEPT ![q] = "closed"]
    BY <2>1
  <2>3. Grant!Close(q)
    BY <2>1, <2>2 DEF Grant!Close
  <2> QED
    BY <2>3 DEF Grant!GrantNext
<1>7. ASSUME NEW h \in Worker,
             \/ BumpUsage(h) /\ Usable(worker[h].req) = {}
             \/ RevokeSession(h) /\ session' = session
      PROVE  UNCHANGED <<request, session>>
  BY <1>7 DEF IInv, TypeOK, BumpUsage, RevokeSession
<1>8. ASSUME NEW h \in Worker, AutoIssue(h) \/ IssueCredential(h), session' = session
      PROVE  UNCHANGED <<request, session>>
  BY <1>8 DEF AutoIssue, IssueCredential
<1> QED
  BY <1>2, <1>3, <1>4, <1>5, <1>6, <1>7, <1>8, Writers

-----------------------------------------------------------------------------
(* The invariants of revocation, expiry and counting hold initially        *)

\* Nothing is issued, revoked, listed or handed out in the empty database.
LEMMA InitRest == Init => DeadInv /\ LastInv /\ ListedOK /\ CountInv
<1> SUFFICES ASSUME Init PROVE DeadInv /\ LastInv /\ ListedOK /\ CountInv
  OBVIOUS
<1>1. \A h \in Worker : worker[h] = Idle
  BY DEF Init
<1>2. \A q \in RequestId : request[q] = NoRequest /\ released[q] = 0
  BY DEF Init
<1>3. \A x \in SessionId : session[x] = NoSession
  BY DEF Init
<1>4. DeadInv
  BY <1>1, <1>2 DEF DeadInv, RevokedIsDead, Closing, Idle, NoRequest
<1>5. LastInv
  BY <1>1, <1>2, <1>3
     DEF LastInv, WithinSnapshot, CappedOK, Idle, NoRequest, NoPolicy, NoSession
<1>6. ListedOK
  BY DEF Init, ListedOK
<1>7. CountInv
  <2>1. Fetching
    BY <1>1 DEF Fetching, Idle
  <2>2. ASSUME NEW q \in RequestId
        PROVE  released[q] + Cardinality(Delivering(q)) <= UsesOf(q)
    <3>1. Delivering(q) = {}
      BY <1>1 DEF Delivering, Idle
    <3>2. Sessions(q) = {}
      BY <1>3, IdentityAssumption DEF Sessions, NoSession
    <3>3. Cardinality({}) = 0
      BY FS_EmptySet
    <3> QED
      BY <1>2, <3>1, <3>2, <3>3 DEF UsesOf
  <2> QED
    BY <2>1, <2>2 DEF CountInv, ReleasesAreCounted
<1> QED
  BY <1>4, <1>5, <1>6, <1>7

-----------------------------------------------------------------------------
(* The limits of the policy                                                *)

\* A set of handlers is finite and at most all of them.
LEMMA FewHandlers ==
    ASSUME NEW H \in SUBSET Worker
    PROVE  /\ IsFiniteSet(H) /\ Cardinality(H) \in Nat
           /\ Cardinality(H) <= 1 + Overlap
           /\ 1 + Overlap = Cardinality(Worker) /\ Cardinality(Worker) \in Nat
<1>1. IsFiniteSet(Worker) /\ Cardinality(Worker) \in Nat
  BY BoundAssumption, FS_CardinalityType
<1>2. IsFiniteSet(H) /\ Cardinality(H) \in Nat /\ Cardinality(H) <= Cardinality(Worker)
  BY <1>1, FS_Subset, FS_CardinalityType
<1> QED
  BY <1>1, <1>2 DEF Overlap

\* Who asked, for which secret, under which policy and when stays in the row.
LEMMA RowKept ==
    ASSUME IInv, [Next]_vars, NEW q \in RequestId, Exists(q)
    PROVE  /\ Exists(q)'
           /\ request'[q].user = request[q].user /\ request'[q].agent = request[q].agent
           /\ request'[q].secret = request[q].secret /\ request'[q].pol = request[q].pol
           /\ request'[q].createdAt = request[q].createdAt
<1>1. request \in [RequestId -> RequestRow] /\ request[q] \in RequestRow
  BY DEF IInv, TypeOK
<1>2. Exists(q)'
  BY RequestMove DEF Exists
<1>3. ASSUME NEW h \in Worker, InsertRequest(h) PROVE request'[q] = request[q]
  BY <1>1, <1>3 DEF InsertRequest
<1>4. ASSUME NEW h \in Worker, InsertStep(h) \/ Decide(h) \/ RevokeRequest(h)
      PROVE  /\ request'[q].user = request[q].user /\ request'[q].agent = request[q].agent
             /\ request'[q].secret = request[q].secret /\ request'[q].pol = request[q].pol
             /\ request'[q].createdAt = request[q].createdAt
  <2> DEFINE p == worker[h].req
  <2>1. \/ request' = request
        \/ \E u : request' = [request EXCEPT ![p].steps = @ \cup {u}]
        \/ \E u, t : request' = [request EXCEPT ![p].status = "approved",
                                   ![p].decidedBy = u, ![p].expiresAt = t]
        \/ \E u : request' = [request EXCEPT ![p].status = "rejected", ![p].decidedBy = u]
        \/ request' = [request EXCEPT ![p].status = "revoked"]
    BY <1>4 DEF InsertStep, Decide, RevokeRequest
  <2> HIDE DEF p
  <2>2. CASE p # q
    BY <1>1, <2>1, <2>2
  <2>3. CASE p = q
    <3>1. CASE \E u : request' = [request EXCEPT ![p].steps = @ \cup {u}]
      <4>1. PICK u : request' = [request EXCEPT ![p].steps = @ \cup {u}]
        BY <3>1
      <4>2. request'[q] = [request[q] EXCEPT !.steps = @ \cup {u}]
        BY <1>1, <2>3, <4>1
      <4> QED
        BY <1>1, <4>2 DEF RequestRow
    <3>2. CASE \E u, t : request' = [request EXCEPT ![p].status = "approved", ![p].decidedBy = u, ![p].expiresAt = t]
      <4>1. PICK u, t : request' = [request EXCEPT ![p].status = "approved", ![p].decidedBy = u, ![p].expiresAt = t]
        BY <3>2
      <4>2. request'[q] = [request[q] EXCEPT !.status = "approved", !.decidedBy = u, !.expiresAt = t]
        BY <1>1, <2>3, <4>1
      <4> QED
        BY <1>1, <4>2 DEF RequestRow
    <3>3. CASE \E u : request' = [request EXCEPT ![p].status = "rejected", ![p].decidedBy = u]
      <4>1. PICK u : request' = [request EXCEPT ![p].status = "rejected", ![p].decidedBy = u]
        BY <3>3
      <4>2. request'[q] = [request[q] EXCEPT !.status = "rejected", !.decidedBy = u]
        BY <1>1, <2>3, <4>1
      <4> QED
        BY <1>1, <4>2 DEF RequestRow
    <3>4. CASE request' = [request EXCEPT ![p].status = "revoked"]
      <4>2. request'[q] = [request[q] EXCEPT !.status = "revoked"]
        BY <1>1, <2>3, <3>4
      <4> QED
        BY <1>1, <4>2 DEF RequestRow
    <3> QED
      BY <2>1, <3>1, <3>2, <3>3, <3>4
  <2> QED
    BY <2>2, <2>3
<1> QED
  BY <1>2, <1>3, <1>4, Writers

\* h inserts q, dated now, and goes on to what follows the INSERT.
Inserts(h, q) ==
    /\ worker[h].pc = "insert" /\ worker'[h].pc \notin AfterDaily
    /\ \A g \in Worker \ {h} : worker'[g] = worker[g]
    /\ \A p \in RequestId \ {q} : request'[p] = request[p]
    /\ request'[q].user = worker[h].user /\ request'[q].agent = worker[h].agent
    /\ request'[q].secret = worker[h].secret /\ request'[q].pol = worker[h].pol
    /\ request'[q].createdAt = now /\ now' = now

\* The row that InsertRequest adds is its handler's, dated now.
LEMMA Inserted ==
    ASSUME IInv, [Next]_vars, NEW q \in RequestId, ~Exists(q), Exists(q)'
    PROVE  \E h \in Worker : Inserts(h, q)
<1>1. request \in [RequestId -> RequestRow] /\ worker \in [Worker -> Handler]
  BY DEF IInv, TypeOK
<1>2. request' # request
  BY DEF Exists
<1>3. ASSUME NEW h \in Worker, InsertStep(h) \/ Decide(h) \/ RevokeRequest(h) PROVE FALSE
  <2> DEFINE p == worker[h].req
  <2>1. /\ Exists(p)
        /\ \E r : request' = [request EXCEPT ![p] = r]
    <3>1. CASE InsertStep(h)
      BY <3>1 DEF InsertStep, IInv, HandlersOK, RowOK
    <3>2. CASE Decide(h)
      BY <1>2, <3>2 DEF Decide, Decidable, Exists
    <3>3. CASE RevokeRequest(h)
      BY <1>2, <3>3 DEF RevokeRequest, Exists
    <3> QED
      BY <1>3, <3>1, <3>2, <3>3
  <2> HIDE DEF p
  <2> QED
    BY <1>1, <2>1 DEF Exists
<1>4. PICK h \in Worker : InsertRequest(h)
  BY <1>2, <1>3, Writers
<1> DEFINE w == worker[h]
<1>5. PICK p \in RequestId :
        /\ ~Exists(p)
        /\ request' = [request EXCEPT ![p] =
             [NoRequest EXCEPT !.status = IF w.auto THEN "approved" ELSE "pending",
                               !.user = w.user, !.agent = w.agent,
                               !.secret = w.secret, !.dur = w.dur, !.pol = w.pol,
                               !.createdAt = now]]
        /\ worker' = [worker EXCEPT ![h].req = p,
                        ![h].pc = IF w.todo = <<>> THEN AfterSteps(w) ELSE "steps"]
  BY <1>4 DEF InsertRequest
<1>6. p = q
  BY <1>1, <1>5 DEF Exists
<1>7. w.pc = "insert" /\ now' = now
  BY <1>4 DEF InsertRequest
<1>8. worker'[h].pc \in {"autoIssue", "notify", "steps"}
  BY <1>1, <1>5 DEF AfterSteps, Handler
<1>9. \A g \in Worker \ {h} : worker'[g] = worker[g]
  BY <1>1, <1>5
<1> HIDE DEF w
<1>10. \A r \in RequestId \ {q} : request'[r] = request[r]
  BY <1>1, <1>5, <1>6
<1>11. /\ request'[q].user = w.user /\ request'[q].agent = w.agent
       /\ request'[q].secret = w.secret /\ request'[q].pol = w.pol
       /\ request'[q].createdAt = now
  <2>1. request'[q] =
          [NoRequest EXCEPT !.status = IF w.auto THEN "approved" ELSE "pending",
                            !.user = w.user, !.agent = w.agent,
                            !.secret = w.secret, !.dur = w.dur, !.pol = w.pol,
                            !.createdAt = now]
    BY <1>1, <1>5, <1>6
  <2> QED
    BY <2>1 DEF NoRequest
<1> QED
  BY <1>7, <1>8, <1>9, <1>10, <1>11 DEF AfterDaily, Inserts, w

\* A handler gets past a check only by passing it, with what it asks unchanged.
LEMMA Checked ==
    ASSUME IInv, [Next]_vars, NEW h \in Worker,
           worker'[h].pc \in AfterDaily, worker'[h] # worker[h]
    PROVE  /\ UNCHANGED <<now, request>>
           /\ \A g \in Worker \ {h} : worker'[g] = worker[g]
           /\ worker'[h].user = worker[h].user /\ worker'[h].agent = worker[h].agent
           /\ worker'[h].secret = worker[h].secret /\ worker'[h].pol = worker[h].pol
           /\ \/ /\ worker[h].pc = "daily"
                 /\ ~(Cardinality(Today(worker[h])) >= worker[h].pol.perDay)
                 /\ worker'[h].pc = "insert" => worker[h].pol.coolDown = 0
              \/ /\ worker[h].pc = "coolDown" /\ worker'[h].pc = "insert"
                 /\ Recent(worker[h]) = {}
<1>1. worker \in [Worker -> Handler] /\ worker[h] \in Handler
  BY DEF IInv, TypeOK
<1>2. worker'[h] # Idle /\ ~Arrive(h)
  BY ArriveMove DEF Idle, AfterDaily
<1>3. Step(h) /\ worker[h].pc \in {"daily", "coolDown"}
  BY <1>2, WorkerMove, StepMove DEF AfterDaily
<1>4. CheckDaily(h) \/ CheckCoolDown(h)
  BY <1>3 DEF Step, CheckDaily, CheckCoolDown, InsertRequest, InsertStep, AutoIssue,
         Notify, Decide, IssueCredential, BumpUsage, OpenSecret, Reply, RevokeSession,
         RevokeRequest
<1>5. ~Finish(h)
  BY <1>1, <1>2 DEF Finish
<1>6. ASSUME NEW pc, Goto(h, pc)
      PROVE  /\ \A g \in Worker \ {h} : worker'[g] = worker[g]
             /\ worker'[h].user = worker[h].user /\ worker'[h].agent = worker[h].agent
             /\ worker'[h].secret = worker[h].secret /\ worker'[h].pol = worker[h].pol
             /\ worker'[h].pc = pc
  BY <1>1, <1>6 DEF Goto, Handler
<1>7. UNCHANGED <<now, request>>
  BY <1>4 DEF CheckDaily, CheckCoolDown, rows
<1>8. CASE CheckDaily(h)
  <2> DEFINE pc == IF worker[h].pol.coolDown = 0 THEN "insert" ELSE "coolDown"
  <2>1. /\ Goto(h, pc) /\ worker[h].pc = "daily"
        /\ ~(Cardinality(Today(worker[h])) >= worker[h].pol.perDay)
    BY <1>5, <1>8 DEF CheckDaily
  <2> HIDE DEF pc
  <2>2. worker'[h].pc = pc
    BY <1>6, <2>1
  <2> QED
    BY <1>6, <1>7, <2>1, <2>2 DEF pc
<1>9. CASE CheckCoolDown(h)
  <2>1. Goto(h, "insert") /\ worker[h].pc = "coolDown" /\ Recent(worker[h]) = {}
    BY <1>5, <1>9 DEF CheckCoolDown
  <2> QED
    BY <1>6, <1>7, <2>1
<1> QED
  BY <1>4, <1>8, <1>9

\* The queries of both checks find every request of the same requester for the
\* same secret that is not too old, whoever else the row names.
LEMMA Counts ==
    ASSUME IInv, NEW h \in Worker, worker[h].pc \in {"daily", "coolDown"},
           NEW p \in RequestId, NEW d \in Nat, Exists(p),
           Requester(request[p]) = Requester(worker[h]),
           request[p].secret = worker[h].secret, request[p].createdAt + d >= now
    PROVE  p \in CountedSince(worker[h], Ago(d))
<1> DEFINE w == worker[h]
           r == request[p]
<1>1. w \in Handler /\ r \in RequestRow /\ now \in Nat
  BY DEF IInv, TypeOK
<1>2. w.user \in User \cup {None} /\ w.agent \in Agent \cup {None}
  BY <1>1 DEF IInv, HandlersOK, LocalsOK, Handler
<1>3. r.user \in User \cup {None} /\ r.agent \in Agent \cup {None} /\ r.createdAt \in Nat
  BY <1>1 DEF RequestRow
<1>4. r.createdAt >= Ago(d)
  BY <1>1, <1>3 DEF Ago
<1> HIDE DEF w, r
<1>5. IF w.user # None THEN r.user = w.user ELSE r.agent = w.agent
  <2>1. Requester(r) = Requester(w)
    BY DEF w, r
  <2>2. None \notin User \cup Agent /\ User \cap Agent = {}
    BY IdentityAssumption DEF Principal
  <2> QED
    BY <1>2, <1>3, <2>1, <2>2 DEF Requester
<1> QED
  BY <1>4, <1>5 DEF CountedSince, w, r

\* The clock goes forward.
LEMMA ClockMove ==
    ASSUME IInv, [Next]_vars
    PROVE  now \in Nat /\ now' \in Nat /\ now' >= now
<1>1. now \in Nat
  BY DEF IInv, TypeOK
<1>2. ASSUME NEW h \in Worker, Arrive(h) \/ Step(h) \/ Abort(h) PROVE now' = now
  BY <1>2 DEF Arrive, CreateRequest, BeginDecision, RedeemActionToken, ChatDecision,
         GetCredential, BeginRevoke, Step, CheckDaily, CheckCoolDown, InsertRequest,
         InsertStep, AutoIssue, Notify, Decide, IssueCredential, BumpUsage, OpenSecret,
         Reply, RevokeSession, RevokeRequest, Abort
<1>3. ASSUME \/ \E c \in Principal : GetActiveCredentials(c)
             \/ \E s \in Secret, p \in Policy : BindPolicy(s, p)
             \/ \E s \in Secret : DeleteSecret(s)
             \/ UNCHANGED vars
      PROVE  now' = now
  BY <1>3 DEF GetActiveCredentials, BindPolicy, DeleteSecret, vars
<1>4. CASE Tick
  BY <1>1, <1>4 DEF Tick
<1> QED
  BY <1>1, <1>2, <1>3, <1>4 DEF Next

\* A batch of rows and handlers that were all there was one before.
LEMMA BatchBack ==
    ASSUME IInv, IInv', [Next]_vars, NEW k, NEW s, NEW pcs, NEW d \in Nat,
           NEW S \in SUBSET RequestId, NEW H \in SUBSET Worker,
           Batch(k, s, pcs, S, H, d)', \A q \in S : Exists(q),
           \A h \in H : /\ worker[h].pc \in pcs
                        /\ worker'[h].user = worker[h].user
                        /\ worker'[h].agent = worker[h].agent
                        /\ worker'[h].secret = worker[h].secret
                        /\ worker'[h].pol = worker[h].pol
    PROVE  Batch(k, s, pcs, S, H, d) /\ Policies(S, H) = Policies(S, H)'
<1>1. now \in Nat /\ now' \in Nat /\ now' >= now
  BY ClockMove
<1>2. \A q \in S : /\ request'[q].user = request[q].user
                   /\ request'[q].agent = request[q].agent
                   /\ request'[q].secret = request[q].secret
                   /\ request'[q].pol = request[q].pol
                   /\ request'[q].createdAt = request[q].createdAt
                   /\ request[q].createdAt \in Nat
  BY RowKept DEF IInv, TypeOK, RequestRow
<1>3. \A q \in S : Requester(request'[q]) = Requester(request[q])
  BY <1>2 DEF Requester
<1>4. \A h \in H : Requester(worker'[h]) = Requester(worker[h])
  BY DEF Requester
<1>5. ASSUME NEW p \in S
      PROVE  /\ Exists(p) /\ Requester(request[p]) = k /\ request[p].secret = s
             /\ H # {} => request[p].createdAt + d >= now
             /\ \A q \in S : request[p].createdAt + d >= request[q].createdAt
  <2>1. /\ Requester(request'[p]) = k /\ request'[p].secret = s
        /\ H # {} => request'[p].createdAt + d >= now'
        /\ \A q \in S : request'[p].createdAt + d >= request'[q].createdAt
    BY DEF Batch
  <2>2. H # {} => request[p].createdAt + d >= now
    BY <1>1, <1>2, <2>1
  <2> QED
    BY <1>2, <1>3, <2>1, <2>2
<1>6. \A h \in H : /\ worker[h].pc \in pcs
                   /\ Requester(worker[h]) = k /\ worker[h].secret = s
  BY <1>4 DEF Batch
<1>7. Policies(S, H) = Policies(S, H)'
  BY <1>2 DEF Policies
<1> QED
  BY <1>5, <1>6, <1>7 DEF Batch

\* A batch with a new row was one with the handler that inserts it.
LEMMA BatchInsert ==
    ASSUME IInv, IInv', [Next]_vars, NEW k, NEW s, NEW pcs,
           pcs = AfterDaily \/ pcs = AfterCoolDown, NEW d \in Nat,
           NEW S \in SUBSET RequestId, NEW H \in SUBSET Worker,
           Batch(k, s, pcs, S, H, d)', NEW q \in S, NEW h \in Worker, Inserts(h, q)
    PROVE  /\ h \notin H
           /\ Batch(k, s, pcs, S \ {q}, H \cup {h}, d)
           /\ Policies(S \ {q}, H \cup {h}) = Policies(S, H)'
<1>2. /\ worker[h].pc = "insert" /\ worker'[h].pc \notin AfterDaily
      /\ \A g \in Worker \ {h} : worker'[g] = worker[g]
      /\ \A p \in RequestId \ {q} : request'[p] = request[p]
      /\ request'[q].user = worker[h].user /\ request'[q].agent = worker[h].agent
      /\ request'[q].secret = worker[h].secret /\ request'[q].pol = worker[h].pol
      /\ request'[q].createdAt = now /\ now' = now
  BY DEF Inserts
<1> DEFINE T == S \ {q}
           G == H \cup {h}
<1>3. h \notin H
  BY <1>2 DEF Batch, AfterDaily, AfterCoolDown
<1>4. ASSUME NEW p \in T
      PROVE  /\ Exists(p) /\ Requester(request[p]) = k /\ request[p].secret = s
             /\ request[p].createdAt + d >= now
             /\ \A r \in T : request[p].createdAt + d >= request[r].createdAt
  <2>1. /\ Exists(p)' /\ Requester(request'[p]) = k /\ request'[p].secret = s
        /\ request'[p].createdAt + d >= request'[q].createdAt
        /\ \A r \in T : request'[p].createdAt + d >= request'[r].createdAt
    BY DEF Batch
  <2> QED
    BY <1>2, <2>1 DEF Exists
<1>5. ASSUME NEW g \in G
      PROVE  worker[g].pc \in pcs /\ Requester(worker[g]) = k /\ worker[g].secret = s
  <2>1. CASE g = h
    <3>1. Requester(request'[q]) = k /\ request'[q].secret = s
      BY DEF Batch
    <3> QED
      BY <1>2, <2>1, <3>1 DEF Requester, AfterDaily, AfterCoolDown
  <2>2. CASE g # h
    BY <1>2, <2>2 DEF Batch
  <2> QED
    BY <2>1, <2>2
<1>6. Batch(k, s, pcs, T, G, d)
  BY <1>4, <1>5 DEF Batch
<1>7. Policies(T, G) = Policies(S, H)'
  <2>1. {request[p].pol : p \in T} = {request'[p].pol : p \in T}
    BY <1>2
  <2>2. {worker[g].pol : g \in H} = {worker'[g].pol : g \in H}
    BY <1>2, <1>3
  <2>3. {worker[g].pol : g \in G} = {worker[g].pol : g \in H} \cup {request'[q].pol}
    BY <1>2
  <2>4. {request'[p].pol : p \in S} = {request'[p].pol : p \in T} \cup {request'[q].pol}
    OBVIOUS
  <2> QED
    BY <2>1, <2>2, <2>3, <2>4 DEF Policies
<1> QED
  BY <1>3, <1>6, <1>7

\* Moving one from the handlers to the rows leaves the size of a batch.
LEMMA SameSize ==
    ASSUME NEW S, NEW H \in SUBSET Worker, NEW q \in S, NEW h \in Worker \ H,
           IsFiniteSet(S \ {q})
    PROVE  Size(S, H) = Size(S \ {q}, H \cup {h})
<1>1. S = (S \ {q}) \cup {q} /\ q \notin S \ {q}
  OBVIOUS
<1>2. Cardinality(S) = Cardinality(S \ {q}) + 1 /\ Cardinality(S \ {q}) \in Nat
  BY <1>1, FS_AddElement, FS_CardinalityType
<1>3. Cardinality(H \cup {h}) = Cardinality(H) + 1 /\ Cardinality(H) \in Nat
  BY FewHandlers, FS_AddElement
<1> QED
  BY <1>2, <1>3 DEF Size

\* A new row is the only one, so the rows stay finitely many.
LEMMA RowsFinite ==
    ASSUME IInv, [Next]_vars, IsFiniteSet({q \in RequestId : Exists(q)})
    PROVE  IsFiniteSet({q \in RequestId : Exists(q)}')
<1> DEFINE E == {q \in RequestId : Exists(q)}
           F == {q \in RequestId : Exists(q)}'
<1>1. CASE \A q \in F : q \in E
  <2> HIDE DEF E
  <2> QED
    BY <1>1, FS_Subset DEF E
<1>2. CASE \E q \in F : q \notin E
  <2>1. PICK q \in RequestId : ~Exists(q) /\ Exists(q)'
    BY <1>2
  <2>2. \A p \in RequestId \ {q} : request'[p] = request[p]
    BY <2>1, Inserted DEF Inserts
  <2>3. F \subseteq E \cup {q}
    BY <2>2 DEF Exists
  <2>4. IsFiniteSet(E \cup {q})
    BY FS_AddElement
  <2> HIDE DEF E, F
  <2> QED
    BY <2>3, <2>4, FS_Subset DEF E, F
<1> QED
  BY <1>1, <1>2

\* The rows of a batch are finitely many.
LEMMA BatchFinite ==
    ASSUME IInv, LimitInv, NEW k, NEW s, NEW pcs, NEW d, NEW S \in SUBSET RequestId,
           NEW H \in SUBSET Worker, Batch(k, s, pcs, S, H, d)
    PROVE  IsFiniteSet(S)
<1>1. S \subseteq {q \in RequestId : Exists(q)}
  BY DEF Batch
<1> QED
  BY <1>1, FS_Subset DEF LimitInv

\* The handler that passes the daily limit last has counted what is inserted; the
\* rest of the batch is under way.
LEMMA DailyKept ==
    ASSUME IInv, IInv', LimitInv, [Next]_vars
    PROVE  DailyInv'
<1> SUFFICES ASSUME NEW k \in Askers, NEW s \in Targets, NEW S \in SUBSET RequestId,
                    NEW H \in SUBSET Worker,
                    Batch(k, s, AfterDaily, S, H, Day)', Policies(S, H)' # {}
             PROVE  \E p \in Policies(S, H)' : Size(S, H) <= p.perDay + Overlap
  BY DEF DailyInv, Size, Overlap
<1>1. Day \in Nat
  BY BoundAssumption
<1>2. \A h \in H : worker'[h].pc \in AfterDaily
  BY DEF Batch
<1>3. CASE \E q \in S : ~Exists(q)
  <2>1. PICK q \in S : ~Exists(q)
    BY <1>3
  <2>2. PICK h \in Worker : Inserts(h, q)
    <3>1. Exists(q)'
      BY DEF Batch
    <3> QED
      BY <2>1, <3>1, Inserted
  <2>3. /\ h \notin H
        /\ Batch(k, s, AfterDaily, S \ {q}, H \cup {h}, Day)
        /\ Policies(S \ {q}, H \cup {h}) = Policies(S, H)'
    <3> DEFINE pcs == AfterDaily
               d == Day
    <3>1. d \in Nat /\ Batch(k, s, pcs, S, H, d)' /\ pcs = AfterDaily
      BY <1>1
    <3> HIDE DEF pcs, d
    <3>2. /\ h \notin H
          /\ Batch(k, s, pcs, S \ {q}, H \cup {h}, d)
          /\ Policies(S \ {q}, H \cup {h}) = Policies(S, H)'
      BY <2>2, <3>1, BatchInsert
    <3> QED
      BY <3>2 DEF pcs, d
  <2>4. \E p \in Policies(S, H)' : Size(S \ {q}, H \cup {h}) <= p.perDay + Overlap
    BY <2>3 DEF LimitInv, DailyInv
  <2>5. Size(S, H) = Size(S \ {q}, H \cup {h})
    BY <2>3, BatchFinite, SameSize
  <2> QED
    BY <2>4, <2>5
<1>4. CASE (\A q \in S : Exists(q)) /\ \A h \in H : worker[h].pc \in AfterDaily
  <2>1. \A h \in H : /\ worker'[h].user = worker[h].user
                     /\ worker'[h].agent = worker[h].agent
                     /\ worker'[h].secret = worker[h].secret
                     /\ worker'[h].pol = worker[h].pol
    BY <1>2, Checked
  <2>2. Batch(k, s, AfterDaily, S, H, Day) /\ Policies(S, H) = Policies(S, H)'
    BY <1>1, <1>4, <2>1, BatchBack
  <2> QED
    BY <2>2 DEF LimitInv, DailyInv
<1>5. CASE (\A q \in S : Exists(q)) /\ \E h \in H : worker[h].pc \notin AfterDaily
  <2>1. PICK h \in H : worker[h].pc \notin AfterDaily
    BY <1>5
  <2> DEFINE w == worker[h]
  <2>2. worker'[h] # worker[h]
    BY <1>2, <2>1
  <2>3. /\ UNCHANGED <<now, request>> /\ worker[h].pc = "daily"
        /\ worker'[h].user = w.user /\ worker'[h].agent = w.agent
        /\ worker'[h].secret = w.secret /\ worker'[h].pol = w.pol
        /\ ~(Cardinality(Today(w)) >= w.pol.perDay)
    BY <1>2, <2>1, <2>2, Checked DEF AfterDaily
  <2>4. Requester(w) = k /\ w.secret = s
    BY <2>3 DEF Batch, Requester
  <2>5. \A p \in S : /\ Exists(p) /\ Requester(request[p]) = k
                     /\ request[p].secret = s /\ request[p].createdAt + Day >= now
    BY <1>5, <2>3 DEF Batch
  <2>6. S \subseteq Today(w)
    BY <1>1, <2>3, <2>4, <2>5, Counts DEF Today
  <2>7. IsFiniteSet(Today(w))
    <3>1. Today(w) \subseteq {q \in RequestId : Exists(q)}
      BY DEF Today, CountedSince
    <3> QED
      BY <3>1, FS_Subset DEF LimitInv
  <2>8. /\ Cardinality(S) <= Cardinality(Today(w))
        /\ Cardinality(S) \in Nat /\ Cardinality(Today(w)) \in Nat
    BY <2>6, <2>7, FS_Subset, FS_CardinalityType
  <2>9. w.pol.perDay \in Nat
    BY DEF IInv, TypeOK, Handler, PolicyRecord
  <2>10. w.pol \in Policies(S, H)'
    BY <2>3 DEF Policies
  <2>11. Size(S, H) <= w.pol.perDay + Overlap
    <3>1. /\ Cardinality(H) \in Nat /\ Cardinality(H) <= 1 + Overlap
          /\ 1 + Overlap = Cardinality(Worker) /\ Cardinality(Worker) \in Nat
      BY FewHandlers
    <3> HIDE DEF w
    <3> QED
      BY <2>3, <2>8, <2>9, <3>1 DEF Size, Overlap
  <2> QED
    BY <2>10, <2>11
<1> QED
  BY <1>3, <1>4, <1>5

\* The handler that passes the cool-down last has found nothing inserted.
LEMMA CoolDownKept ==
    ASSUME IInv, IInv', LimitInv, [Next]_vars
    PROVE  CoolDownInv'
<1> SUFFICES ASSUME NEW k \in Askers, NEW s \in Targets, NEW S \in SUBSET RequestId,
                    NEW H \in SUBSET Worker, NEW d \in 1..MaxTime,
                    Batch(k, s, AfterCoolDown, S, H, d)',
                    \A p \in Policies(S, H)' : p.coolDown >= d
             PROVE  Size(S, H) <= 1 + Overlap
  BY DEF CoolDownInv, Size, Overlap
<1>1. d \in Nat /\ d >= 1
  BY BoundAssumption
<1>2. \A h \in H : worker'[h].pc = "insert"
  BY DEF Batch, AfterCoolDown
<1>3. CASE \E q \in S : ~Exists(q)
  <2>1. PICK q \in S : ~Exists(q)
    BY <1>3
  <2>2. PICK h \in Worker : Inserts(h, q)
    <3>1. Exists(q)'
      BY DEF Batch
    <3> QED
      BY <2>1, <3>1, Inserted
  <2>3. /\ h \notin H
        /\ Batch(k, s, AfterCoolDown, S \ {q}, H \cup {h}, d)
        /\ Policies(S \ {q}, H \cup {h}) = Policies(S, H)'
    BY <1>1, <2>2, BatchInsert
  <2>4. Size(S \ {q}, H \cup {h}) <= 1 + Overlap
    BY <2>3 DEF LimitInv, CoolDownInv
  <2>5. Size(S, H) = Size(S \ {q}, H \cup {h})
    BY <2>3, BatchFinite, SameSize
  <2> QED
    BY <2>4, <2>5
<1>4. CASE (\A q \in S : Exists(q)) /\ \A h \in H : worker[h].pc = "insert"
  <2>1. \A h \in H : /\ worker'[h].user = worker[h].user
                     /\ worker'[h].agent = worker[h].agent
                     /\ worker'[h].secret = worker[h].secret
                     /\ worker'[h].pol = worker[h].pol
    BY <1>2, Checked DEF AfterDaily
  <2>2. Batch(k, s, AfterCoolDown, S, H, d) /\ Policies(S, H) = Policies(S, H)'
    BY <1>1, <1>4, <2>1, BatchBack DEF AfterCoolDown
  <2> QED
    BY <2>2 DEF LimitInv, CoolDownInv
<1>5. CASE (\A q \in S : Exists(q)) /\ \E h \in H : worker[h].pc # "insert"
  <2>1. PICK h \in H : worker[h].pc # "insert"
    BY <1>5
  <2> DEFINE w == worker[h]
  <2>2. worker'[h] # worker[h] /\ worker'[h].pc = "insert"
    BY <1>2, <2>1
  <2>3. /\ UNCHANGED <<now, request>>
        /\ worker'[h].user = w.user /\ worker'[h].agent = w.agent
        /\ worker'[h].secret = w.secret /\ worker'[h].pol = w.pol
        /\ \/ w.pol.coolDown = 0
           \/ w.pc = "coolDown" /\ Recent(w) = {}
    BY <2>2, Checked DEF AfterDaily
  <2>4. w.pol.coolDown >= d /\ w.pol.coolDown \in Nat
    BY <2>3 DEF Policies, IInv, TypeOK, Handler, PolicyRecord
  <2>5. w.pc = "coolDown" /\ Recent(w) = {}
    BY <1>1, <2>3, <2>4
  <2>6. Requester(w) = k /\ w.secret = s
    BY <2>3 DEF Batch, Requester
  <2>7. S = {}
    <3> SUFFICES ASSUME NEW p \in S PROVE p \in Recent(w)
      BY <2>5
    <3>1. /\ Exists(p) /\ Requester(request[p]) = k
          /\ request[p].secret = s /\ request[p].createdAt + d >= now
      BY <1>5, <2>3 DEF Batch
    <3>2. request[p].createdAt \in Nat /\ now \in Nat
      BY DEF IInv, TypeOK, RequestRow
    <3>3. request[p].createdAt + w.pol.coolDown >= now
      BY <1>1, <2>4, <3>1, <3>2
    <3> QED
      BY <2>4, <2>5, <2>6, <3>1, <3>3, Counts DEF Recent
  <2>8. Cardinality(S) = 0
    BY <2>7, FS_EmptySet
  <2> QED
    BY <2>8, FewHandlers DEF Size
<1> QED
  BY <1>3, <1>4, <1>5

\* The limits of the empty database hold.
LEMMA InitLimits == Init => LimitInv
<1> SUFFICES ASSUME Init PROVE LimitInv
  OBVIOUS
<1>1. \A q \in RequestId : ~Exists(q)
  BY DEF Init, Exists, NoRequest
<1>2. \A h \in Worker : worker[h].pc = "idle"
  BY DEF Init, Idle
<1>3. ASSUME NEW k, NEW s, NEW pcs \in {AfterDaily, AfterCoolDown}, NEW d,
             NEW S \in SUBSET RequestId, NEW H \in SUBSET Worker,
             Batch(k, s, pcs, S, H, d)
      PROVE  S = {} /\ H = {}
  BY <1>1, <1>2, <1>3 DEF Batch, AfterDaily, AfterCoolDown
<1>4. Policies({}, {}) = {} /\ Size({}, {}) = 0
  BY FS_EmptySet DEF Policies, Size
<1>5. 0 <= 1 + Overlap
  BY FewHandlers
<1>6. IsFiniteSet({q \in RequestId : Exists(q)})
  <2>1. {q \in RequestId : Exists(q)} = {}
    BY <1>1
  <2> QED
    BY <2>1, FS_EmptySet
<1>7. DailyInv
  BY <1>3, <1>4 DEF DailyInv
<1>8. CoolDownInv
  BY <1>3, <1>4, <1>5 DEF CoolDownInv
<1> QED
  BY <1>6, <1>7, <1>8 DEF LimitInv

\* The requests within d ticks before a request are a batch of their own.
LEMMA BeforeIsBatch ==
    ASSUME IInv, LimitInv, NEW q \in RequestId, NEW d \in Nat, NEW pcs, Exists(q)
    PROVE  /\ Batch(Requester(request[q]), request[q].secret, pcs, Before(q, d), {}, d)
           /\ Requester(request[q]) \in Askers /\ request[q].secret \in Targets
           /\ Before(q, d) \in SUBSET RequestId
           /\ Policies(Before(q, d), {}) = {request[p].pol : p \in Before(q, d)}
           /\ Size(Before(q, d), {}) = Cardinality(Before(q, d))
           /\ q \in Before(q, d)
<1>1. \A p \in RequestId : request[p] \in RequestRow /\ request[p].createdAt \in Nat
  BY DEF IInv, TypeOK, RequestRow
<1>2. ASSUME NEW p \in Before(q, d), NEW r \in Before(q, d)
      PROVE  request[p].createdAt + d >= request[r].createdAt
  BY <1>1 DEF Before
<1>3. Batch(Requester(request[q]), request[q].secret, pcs, Before(q, d), {}, d)
  BY <1>2 DEF Batch, Before
<1>4. Requester(request[q]) \in Askers /\ request[q].secret \in Targets
  BY <1>1 DEF Requester, RequestRow, Askers, Targets, Principal
<1>5. Size(Before(q, d), {}) = Cardinality(Before(q, d))
  <2>1. Cardinality(Before(q, d)) \in Nat
    <3>1. Before(q, d) \subseteq {p \in RequestId : Exists(p)}
      BY DEF Before
    <3> QED
      BY <3>1, FS_Subset, FS_CardinalityType DEF LimitInv
  <2>2. Cardinality({}) = 0
    BY FS_EmptySet
  <2> QED
    BY <2>1, <2>2 DEF Size
<1> QED
  BY <1>1, <1>3, <1>4, <1>5 DEF Before, Policies

\* A request nobody has made has handed nothing out, and one that hands out
\* values has a session.
LEMMA HandedOut ==
    ASSUME IInv, CountInv, NEW q \in RequestId
    PROVE  /\ released[q] \in Nat /\ Cardinality(Delivering(q)) \in Nat
           /\ IsFiniteSet(Delivering(q)) /\ Delivering(q) \in SUBSET Worker
           /\ released[q] > 0 \/ Delivering(q) # {} => Sessions(q) # {} /\ Exists(q)
<1>1. Delivering(q) \in SUBSET Worker
  BY DEF Delivering
<1>2. released[q] \in Nat
  BY DEF IInv, TypeOK
<1>3. IsFiniteSet(Delivering(q)) /\ Cardinality(Delivering(q)) \in Nat
  BY <1>1, DeliveringFinite
<1>4. Delivering(q) # {} => Cardinality(Delivering(q)) > 0
  BY <1>3, FS_EmptySet
<1>5. Sessions(q) = {} => released[q] = 0 /\ Delivering(q) = {}
  BY <1>2, <1>3, <1>4 DEF CountInv, ReleasesAreCounted, UsesOf
<1>6. Sessions(q) # {} => Exists(q)
  BY IdentityAssumption DEF Sessions, IInv, Issued, IssuedOK, Exists
<1> QED
  BY <1>1, <1>2, <1>3, <1>5, <1>6

\* A fetch that has read a value of a single-use policy closes the session before it
\* answers (AutoRevokeIfSingleUse), or its revocation failed and is counted.
LEMMA ClosesFirst ==
    ASSUME IInv, CountInv, Unread, [Next]_vars, NEW q \in RequestId,
           request[q].pol.singleUse, NEW h \in Delivering(q), h \in Delivering(q)',
           worker[h].pc \in {"open", "revokeSession"},
           worker'[h].pc \notin {"open", "revokeSession"}
    PROVE  \/ Active(q)' = {}
           \/ /\ kept'[q] = kept[q] + 1 /\ released' = released
              /\ \A g \in Worker \ {h} : worker'[g] = worker[g]
<1>1. /\ h \in Worker /\ worker[h] \in Handler /\ worker \in [Worker -> Handler]
      /\ worker[h].req = q /\ worker[h].op = "get" /\ kept \in [RequestId -> Nat]
  BY DEF Delivering, IInv, TypeOK
<1>2. worker'[h] # Idle
  BY DEF Delivering, Idle
<1>3. Step(h)
  BY <1>1, <1>2, WorkerMove, ArriveMove
<1>4. OpenSecret(h) \/ RevokeSession(h)
  BY <1>3 DEF Step, CheckDaily, CheckCoolDown, InsertRequest, InsertStep, AutoIssue,
         Notify, Decide, IssueCredential, BumpUsage, OpenSecret, Reply, RevokeSession,
         RevokeRequest
<1>5. ASSUME Keep(q) PROVE kept'[q] = kept[q] + 1
  BY <1>1, <1>5 DEF Keep
<1>6. CASE OpenSecret(h)
  <2>1. worker[h].pc = "open" /\ ~worker[h].value
    BY <1>1, <1>6 DEF OpenSecret, Unread
  <2>2. ~Goto(h, "reply")
    <3>1. ASSUME Goto(h, "reply") PROVE worker'[h].pc = "reply" /\ ~worker'[h].value
      BY <1>1, <2>1, <3>1 DEF Goto, Handler
    <3> QED
      BY <3>1 DEF Delivering
  <2>3. PICK got \in {TRUE, ~Faults}, p \in Resolve(request[q].pol) :
          /\ worker' = [worker EXCEPT ![h].value = got,
               ![h].pc = IF p.singleUse THEN "revokeSession" ELSE "reply"]
          /\ IF p.singleUse THEN UNCHANGED kept ELSE Keep(q)
    BY <1>1, <1>6, <2>2 DEF OpenSecret
  <2>4. worker'[h].pc = IF p.singleUse THEN "revokeSession" ELSE "reply"
    BY <1>1, <2>3 DEF Handler
  <2>5. Keep(q)
    BY <2>3, <2>4
  <2>6. \A g \in Worker \ {h} : worker'[g] = worker[g]
    BY <1>1, <2>3
  <2> QED
    BY <1>5, <1>6, <2>5, <2>6 DEF OpenSecret
<1>7. CASE /\ RevokeSession(h)
           /\ session' = [x \in SessionId |->
                IF x \in Active(q) THEN [session[x] EXCEPT !.status = "revoked"]
                ELSE session[x]]
  <2>1. \A x \in SessionId : session'[x] =
          IF x \in Active(q) THEN [session[x] EXCEPT !.status = "revoked"] ELSE session[x]
    BY <1>7
  <2>2. \A x \in SessionId : session[x] \in SessionRow
    BY DEF IInv, TypeOK
  <2>3. SUFFICES ASSUME NEW x \in SessionId, session'[x].req = q
                 PROVE  session'[x].status # "active"
    BY DEF Active, Sessions
  <2>4. CASE x \in Active(q)
    <3>1. session'[x] = [session[x] EXCEPT !.status = "revoked"]
      BY <2>1, <2>4
    <3> QED
      BY <2>2, <3>1 DEF SessionRow
  <2>5. CASE x \notin Active(q)
    <3>1. session'[x] = session[x]
      BY <2>1, <2>5
    <3> QED
      BY <2>3, <2>5, <3>1 DEF Active, Sessions
  <2> QED
    BY <2>4, <2>5
<1>8. CASE RevokeSession(h) /\ Keep(q) /\ AfterRevoke(h)
  <2>1. \A g \in Worker \ {h} : worker'[g] = worker[g]
    BY <1>1, <1>8 DEF AfterRevoke, Goto, Finish
  <2> QED
    BY <1>5, <1>8, <2>1 DEF RevokeSession
<1> QED
  BY <1>1, <1>4, <1>6, <1>7, <1>8 DEF RevokeSession

\* Failed revocations are only ever added (AutoRevokeIfSingleUse).
LEMMA KeptMove ==
    ASSUME IInv, IInv', [Next]_vars, NEW q \in RequestId
    PROVE  kept[q] \in Nat /\ kept'[q] \in Nat /\ kept[q] <= kept'[q]
<1>1. kept \in [RequestId -> Nat] /\ kept' \in [RequestId -> Nat]
  BY DEF IInv, TypeOK
<1>2. ASSUME NEW h \in Worker, Arrive(h) PROVE kept' = kept
  BY <1>2 DEF Arrive, CreateRequest, BeginDecision, RedeemActionToken, ChatDecision,
         GetCredential, BeginRevoke, history
<1>3. ASSUME NEW h \in Worker, Step(h) PROVE kept' = kept \/ \E p : Keep(p)
  BY <1>3 DEF Step, CheckDaily, CheckCoolDown, InsertRequest, InsertStep, AutoIssue,
         Notify, Decide, IssueCredential, BumpUsage, OpenSecret, Reply, RevokeSession,
         RevokeRequest, history
<1>4. ASSUME NEW h \in Worker, Abort(h) PROVE kept' = kept
  BY <1>4 DEF Abort
<1>5. ASSUME \/ \E c \in Principal : GetActiveCredentials(c)
             \/ \E s \in Secret, p \in Policy : BindPolicy(s, p)
             \/ \E s \in Secret : DeleteSecret(s)
             \/ Tick
             \/ UNCHANGED vars
      PROVE  kept' = kept
  BY <1>5 DEF GetActiveCredentials, BindPolicy, DeleteSecret, Tick, vars, history
<1>6. kept' = kept \/ \E p : Keep(p)
  <2>1. \/ \E h \in Worker : Arrive(h) \/ Step(h) \/ Abort(h)
        \/ \E c \in Principal : GetActiveCredentials(c)
        \/ \E s \in Secret, p \in Policy : BindPolicy(s, p)
        \/ \E s \in Secret : DeleteSecret(s)
        \/ Tick
        \/ UNCHANGED vars
    BY DEF Next
  <2>2. CASE \E h \in Worker : Arrive(h) \/ Step(h) \/ Abort(h)
    BY <1>2, <1>3, <1>4, <2>2
  <2> QED
    BY <1>5, <2>1, <2>2
<1>7. ASSUME NEW p, Keep(p) PROVE kept[q] <= kept'[q]
  BY <1>1, <1>7 DEF Keep
<1> QED
  BY <1>1, <1>6, <1>7

\* The values under way past their revocation are some of those under way.
LEMMA PastFinite ==
    ASSUME NEW q \in RequestId
    PROVE  /\ IsFiniteSet(Past(q)) /\ Cardinality(Past(q)) \in Nat
           /\ Past(q) \subseteq Delivering(q) /\ Past(q) \subseteq Worker
<1>1. Past(q) \subseteq Worker /\ Past(q) \subseteq Delivering(q)
  BY DEF Past, Delivering
<1>2. IsFiniteSet(Past(q))
  BY <1>1, BoundAssumption, FS_Subset
<1> QED
  BY <1>1, <1>2, FS_CardinalityType

\* Whoever counts a use found the session open, so nothing had been answered but by
\* fetches whose revocation failed.
LEMMA UsedUpKept ==
    ASSUME IInv, IInv', CountInv, CountInv', UseInv, [Next]_vars
    PROVE  UsedUp'
<1> SUFFICES ASSUME NEW q \in RequestId, request'[q].pol.singleUse
             PROVE  /\ released'[q] + Cardinality(Delivering(q)') <= 1 + Overlap + kept'[q]
                    /\ Active(q)' # {} =>
                         released'[q] + Cardinality(Past(q)') <= kept'[q]
  BY DEF UsedUp, Overlap
<1> DEFINE D == Delivering(q)
           E == Delivering(q)'
           P == Past(q)
           Q == Past(q)'
<1>1. /\ released[q] \in Nat /\ IsFiniteSet(D) /\ Cardinality(D) \in Nat
      /\ D \in SUBSET Worker
      /\ released[q] > 0 \/ D # {} => Sessions(q) # {} /\ Exists(q)
  BY HandedOut
<1>2. /\ released'[q] \in Nat /\ IsFiniteSet(E) /\ Cardinality(E) \in Nat
      /\ E \in SUBSET Worker
  <2>1. E \in SUBSET Worker
    BY DEF Delivering
  <2> QED
    BY <2>1, DeliveringFinite DEF IInv, TypeOK
<1>3. Cardinality(E) <= 1 + Overlap /\ Cardinality(D) <= 1 + Overlap /\ 1 + Overlap \in Nat
  BY <1>1, <1>2, FewHandlers
<1>4. Fetching /\ Unread
  BY DEF CountInv, UseInv
<1>5. Exists(q) => request[q].pol.singleUse
  BY RowKept
<1>6. Sessions(q) # {} /\ Active(q) = {} => Active(q)' = {}
  BY ActiveMove DEF Entitled
<1>7. kept[q] \in Nat /\ kept'[q] \in Nat /\ kept[q] <= kept'[q]
  BY KeptMove
<1>8. /\ IsFiniteSet(P) /\ Cardinality(P) \in Nat /\ P \subseteq D
      /\ IsFiniteSet(Q) /\ Cardinality(Q) \in Nat /\ Q \subseteq E
  <2>1. Q \subseteq E /\ Q \subseteq Worker
    BY DEF Past, Delivering
  <2>2. IsFiniteSet(Q) /\ Cardinality(Q) \in Nat
    BY <2>1, BoundAssumption, FS_Subset, FS_CardinalityType
  <2> QED
    BY <2>1, <2>2, PastFinite
<1>9. Active(q) # {} => Exists(q) /\ released[q] + Cardinality(P) <= kept[q]
  <2>1. Active(q) # {} => Exists(q)
    BY IdentityAssumption DEF Active, Sessions, IInv, Issued, IssuedOK, Exists
  <2> QED
    BY <1>5, <2>1 DEF UseInv, UsedUp
<1>10. released[q] + Cardinality(D) <= 1 + Overlap + kept[q]
  <2>1. CASE Exists(q)
    BY <1>5, <2>1 DEF UseInv, UsedUp
  <2>2. CASE ~Exists(q)
    <3>1. released[q] = 0
      BY <1>1, <2>2
    <3> HIDE DEF D
    <3> QED
      BY <1>1, <1>3, <1>7, <3>1
  <2> QED
    BY <2>1, <2>2
<1>11. \A g \in E : g \notin D =>
         /\ BumpUsage(g) /\ Usable(q) # {} /\ worker[g].req = q
         /\ worker'[g].pc = "open"
  <2>1. \A g \in E : g \notin D => BumpUsage(g) /\ Usable(q) # {} /\ worker[g].req = q
    BY <1>4, DeliveringMove
  <2>2. \A g \in Worker : BumpUsage(g) /\ Usable(worker[g].req) # {}
                            => worker'[g].pc = "open"
    BY DEF BumpUsage, Goto, IInv, TypeOK, Handler
  <2> QED
    BY <1>2, <2>1, <2>2
<1>12. released'[q] = released[q]
       \/ /\ released'[q] = released[q] + 1
          /\ \E h \in Worker : Reply(h) /\ h \in D
  BY <1>4, ReleasedMove
<1>13. ASSUME NEW h \in Worker, Reply(h) PROVE worker[h].pc = "reply" /\ h \notin E
  <2>1. worker'[h] = Idle
    BY <1>13 DEF Reply, Finish, IInv, TypeOK
  <2> QED
    BY <1>13, <2>1 DEF Delivering, Idle, Reply
<1>14. released'[q] + Cardinality(E) <= 1 + Overlap + kept'[q]
  <2>1. CASE \E g \in E : g \notin D
    <3>1. PICK g \in Worker : BumpUsage(g) /\ Usable(q) # {}
      BY <1>2, <1>11, <2>1
    <3>2. Active(q) # {}
      BY <3>1 DEF Usable
    <3>3. released[q] <= kept[q]
      <4> HIDE DEF P
      <4> QED
        BY <1>1, <1>7, <1>8, <1>9, <3>2
    <3>4. released'[q] = released[q]
      BY <3>1 DEF BumpUsage, history
    <3> HIDE DEF E
    <3> QED
      BY <1>1, <1>2, <1>3, <1>7, <3>3, <3>4
  <2>2. CASE E \subseteq D /\ released'[q] = released[q]
    <3>1. Cardinality(E) <= Cardinality(D)
      BY <1>1, <2>2, FS_Subset
    <3> HIDE DEF D, E
    <3> QED
      BY <1>1, <1>2, <1>3, <1>7, <1>10, <2>2, <3>1
  <2>3. CASE E \subseteq D /\ released'[q] # released[q]
    <3>1. PICK h \in Worker : Reply(h) /\ h \in D
      BY <1>12, <2>3
    <3>2. h \notin E
      BY <1>13, <3>1
    <3>3. Cardinality(D \ {h}) = Cardinality(D) - 1 /\ IsFiniteSet(D \ {h})
      BY <1>1, <3>1, FS_RemoveElement
    <3>4. Cardinality(E) <= Cardinality(D) - 1
      BY <2>3, <3>2, <3>3, FS_Subset
    <3> HIDE DEF D, E
    <3> QED
      BY <1>1, <1>2, <1>3, <1>7, <1>10, <1>12, <2>3, <3>4
  <2> QED
    BY <2>1, <2>2, <2>3
<1>15. ASSUME Active(q)' # {} PROVE released'[q] + Cardinality(Q) <= kept'[q]
  <2>1. Q \subseteq D
    BY <1>8, <1>11 DEF Past
  <2>2. CASE Sessions(q) = {}
    <3>1. released[q] = 0 /\ D = {}
      BY <1>1, <2>2
    <3>2. Q = {} /\ released'[q] = 0
      BY <1>12, <2>1, <3>1
    <3>3. Cardinality(Q) = 0
      BY <3>2, FS_EmptySet
    <3> HIDE DEF Q
    <3> QED
      BY <1>7, <3>2, <3>3
  <2>3. CASE Active(q) # {} /\ ~(Q \subseteq P)
    <3>1. PICK h \in Q : h \notin P
      BY <2>3
    <3>2. /\ h \in D /\ h \in E /\ worker[h].pc \in {"open", "revokeSession"}
          /\ worker'[h].pc \notin {"open", "revokeSession"}
      BY <1>8, <2>1, <3>1 DEF Past
    <3>3. /\ kept'[q] = kept[q] + 1 /\ released' = released
          /\ \A g \in Worker \ {h} : worker'[g] = worker[g]
      BY <1>4, <1>5, <1>9, <1>15, <2>3, <3>2, ClosesFirst
    <3>4. Q \subseteq P \cup {h}
      BY <1>2, <1>8, <2>1, <3>3 DEF Past
    <3>5. Cardinality(P \cup {h}) = Cardinality(P) + 1 /\ IsFiniteSet(P \cup {h})
      BY <1>8, <3>1, FS_AddElement
    <3>6. Cardinality(Q) <= Cardinality(P) + 1
      BY <3>4, <3>5, FS_Subset
    <3>7. released[q] + Cardinality(P) <= kept[q]
      BY <1>9, <2>3
    <3> HIDE DEF P, Q
    <3> QED
      BY <1>1, <1>7, <1>8, <3>3, <3>6, <3>7
  <2>4. CASE Active(q) # {} /\ Q \subseteq P /\ released'[q] = released[q]
    <3>1. Cardinality(Q) <= Cardinality(P)
      BY <1>8, <2>4, FS_Subset
    <3>2. released[q] + Cardinality(P) <= kept[q]
      BY <1>9, <2>4
    <3> HIDE DEF P, Q
    <3> QED
      BY <1>1, <1>7, <1>8, <2>4, <3>1, <3>2
  <2>5. CASE Active(q) # {} /\ Q \subseteq P /\ released'[q] # released[q]
    <3>1. PICK h \in Worker : Reply(h) /\ h \in D
      BY <1>12, <2>5
    <3>2. h \in P /\ h \notin Q
      BY <1>8, <1>13, <3>1 DEF Past
    <3>3. Cardinality(P \ {h}) = Cardinality(P) - 1 /\ IsFiniteSet(P \ {h})
      BY <1>8, <3>2, FS_RemoveElement
    <3>4. Cardinality(Q) <= Cardinality(P) - 1
      BY <2>5, <3>2, <3>3, FS_Subset
    <3>5. released[q] + Cardinality(P) <= kept[q]
      BY <1>9, <2>5
    <3> HIDE DEF P, Q
    <3> QED
      BY <1>1, <1>2, <1>7, <1>8, <1>12, <2>5, <3>4, <3>5
  <2> QED
    BY <1>6, <1>15, <2>2, <2>3, <2>4, <2>5
<1> QED
  BY <1>14, <1>15

\* No handler has a value before it has counted its use.
LEMMA UnreadKept ==
    ASSUME IInv, Unread, [Next]_vars
    PROVE  Unread'
<1> SUFFICES ASSUME NEW h \in Worker, worker'[h].pc \in {"bump", "open"}
             PROVE  ~worker'[h].value
  BY DEF Unread
<1>1. CASE worker'[h] = worker[h]
  BY <1>1 DEF Unread
<1>2. CASE worker'[h] # worker[h] /\ Arrive(h)
  BY <1>2, ArriveMove
<1>3. CASE Step(h)
  <2>1. worker'[h].pc = "open" /\ worker[h].pc = "bump"
    BY <1>3, StepMove DEF Idle
  <2>2. worker'[h].value = worker[h].value
    BY <1>3, <2>1, StepMove DEF Idle
  <2> QED
    BY <2>1, <2>2 DEF Unread
<1> QED
  BY <1>1, <1>2, <1>3, WorkerMove DEF Idle

\* Nothing has been handed out of the empty database.
LEMMA InitUse == Init => UseInv
<1> SUFFICES ASSUME Init PROVE UseInv
  OBVIOUS
<1>1. \A h \in Worker : worker[h] = Idle
  BY DEF Init
<1>2. \A q \in RequestId : ~request[q].pol.singleUse
  BY DEF Init, NoRequest, NoPolicy
<1> QED
  BY <1>1, <1>2 DEF UseInv, UsedUp, Unread, Idle

-----------------------------------------------------------------------------
(* The results                                                             *)

\* The invariant holds in every reachable state.
THEOREM Invariance == Spec => []IInv
  BY InitIInv, NextIInv, PTL DEF Spec

\* The rows and the handlers' locals stay well typed; in particular the chain of
\* approvers is never read past its end and decided_by is always a user.
THEOREM TypeCorrect == Spec => []TypeOK
<1>1. IInv => TypeOK
  BY DEF IInv
<1> QED
  BY <1>1, Invariance, PTL

\* However the handlers interleave and fail, a request gets at most one session.
THEOREM AtMostOneSession == Spec => []OneSessionPerRequest
<1>1. IInv => OneSessionPerRequest
  BY DEF IInv
<1> QED
  BY <1>1, Invariance, PTL

\* Nobody is about to issue a credential but for an approved request without one.
THEOREM OnlyApprovedIssued == Spec => []IssueOnlyApproved
<1>1. IInv => IssueOnlyApproved
  BY DEF IInv, Issuers, Issuing, Entitled, IssueOnlyApproved
<1> QED
  BY <1>1, Invariance, PTL

\* Without an auto-approving policy, no credential exists that the owner or an
\* assigned approver did not approve.
THEOREM HumanApproved == Spec => []HumanInTheLoop
<1>1. IInv => HumanInTheLoop
  BY DEF IInv, Issued, IssuedOK, Authorised, HumanInTheLoop
<1> QED
  BY <1>1, Invariance, PTL

\* A request that reads "revoked" has no credential that works, even between the
\* two statements of RevokeCredential.
THEOREM RevokedStaysDead == Spec => []RevokedIsDead
<1>1. DeadInv => RevokedIsDead
  BY DEF DeadInv
<1>2. Init => DeadInv
  BY InitRest
<1> QED
  BY <1>1, <1>2, DeadInductive, Invariance, PTL DEF Spec

\* No credential outlives what the policy snapshot of its request allows.
THEOREM LastsAsGranted == Spec => []LastInv
<1>1. Init => LastInv
  BY InitRest
<1> QED
  BY <1>1, LastInductive, Invariance, PTL DEF Spec

\* GET /credentials/active lists only what was approved and issued.
THEOREM ListedAsGranted == Spec => []ListedOK
<1>1. Init => ListedOK
  BY InitRest
<1> QED
  BY <1>1, ListedInductive, Invariance, PTL DEF Spec

\* No value leaves GET /credentials/{id} that was not counted first.
THEOREM ReleasesCounted == Spec => []CountInv
<1>1. IInv /\ IInv' /\ CountInv /\ [Next]_vars => CountInv'
  BY CountKept, FetchingKept DEF CountInv
<1>2. Init => CountInv
  BY InitRest
<1> QED
  BY <1>1, <1>2, Invariance, PTL DEF Spec

\* A value of a single-use policy is handed out at most once for each handler, all of
\* which had counted their use before the first one closed the session, and once for
\* each fetch whose revocation failed.
THEOREM SingleUseHolds == Spec => []SingleUse
<1>1. IInv /\ IInv' /\ CountInv /\ CountInv' /\ UseInv /\ [Next]_vars => UseInv'
  BY UsedUpKept, UnreadKept DEF UseInv
<1>2. IInv /\ CountInv /\ UseInv => SingleUse
  <2> SUFFICES ASSUME IInv, CountInv, UseInv, NEW q \in RequestId,
                      request[q].pol.singleUse
               PROVE  released[q] <= 1 + Overlap + kept[q]
    BY DEF SingleUse
  <2>1. released[q] \in Nat /\ Cardinality(Delivering(q)) \in Nat
    BY HandedOut
  <2>2. kept[q] \in Nat /\ 1 + Overlap \in Nat
    BY FewHandlers DEF IInv, TypeOK
  <2>3. released[q] + Cardinality(Delivering(q)) <= 1 + Overlap + kept[q]
    BY DEF UseInv, UsedUp
  <2> QED
    BY <2>1, <2>2, <2>3
<1> QED
  BY <1>1, <1>2, InitUse, ReleasesCounted, Invariance, PTL DEF Spec

\* Whatever is handed out, either way, was granted, counted and still in time, and a
\* single use is one but for overlapping handlers and failed revocations.
THEOREM ReleasedAsGranted == Spec => []ReleasesAsGranted
<1>1. LastInv /\ ListedOK /\ CountInv /\ SingleUse => ReleasesAsGranted
  BY DEF LastInv, CountInv, ReleasesAsGranted
<1> QED
  BY <1>1, LastsAsGranted, ListedAsGranted, ReleasesCounted, SingleUseHolds, PTL

\* For any handlers, interleaving and faults the workflow implements AccessGrant:
\* each request is asked for, settled, opened, used and closed in this order, once.
THEOREM GrantImplemented == Spec => ImplementsGrant
  BY GrantStarts, GrantSteps, Invariance, PTL DEF Spec, ImplementsGrant, Grant!GrantSpec

\* Whatever the handlers and the faults, any batch of requests and of handlers
\* that have passed their checks is as small as its policies demand.
THEOREM LimitsKept == Spec => []LimitInv
<1>1. IInv /\ IInv' /\ LimitInv /\ [Next]_vars => LimitInv'
  <2> SUFFICES ASSUME IInv, IInv', LimitInv, [Next]_vars PROVE LimitInv'
    OBVIOUS
  <2>1. IsFiniteSet({q \in RequestId : Exists(q)}')
    BY RowsFinite DEF LimitInv
  <2>2. IsFiniteSet({q \in RequestId : Exists(q)})'
    BY <2>1
  <2> QED
    BY <2>2, DailyKept, CoolDownKept DEF LimitInv
<1> QED
  BY <1>1, InitLimits, Invariance, PTL DEF Spec

\* A requester exceeds the daily limit of a secret by at most one request for each
\* further handler, even when statements fail and policies are exchanged.
THEOREM DailyLimitHolds == Spec => []DailyLimit
<1>1. IInv /\ LimitInv => DailyLimit
  <2> SUFFICES ASSUME IInv, LimitInv, NEW q \in RequestId, Exists(q)
               PROVE  \E p \in Before(q, Day) :
                        Cardinality(Before(q, Day)) <= request[p].pol.perDay + Overlap
    BY DEF DailyLimit
  <2>1. /\ Batch(Requester(request[q]), request[q].secret, AfterDaily,
                 Before(q, Day), {}, Day)
        /\ Requester(request[q]) \in Askers /\ request[q].secret \in Targets
        /\ Before(q, Day) \in SUBSET RequestId
        /\ Policies(Before(q, Day), {}) = {request[p].pol : p \in Before(q, Day)}
        /\ Size(Before(q, Day), {}) = Cardinality(Before(q, Day))
        /\ q \in Before(q, Day)
    BY BeforeIsBatch, BoundAssumption
  <2>2. Policies(Before(q, Day), {}) # {} /\ {} \in SUBSET Worker
    BY <2>1
  <2>3. \E pol \in Policies(Before(q, Day), {}) :
          Size(Before(q, Day), {}) <= pol.perDay + Overlap
    BY <2>1, <2>2 DEF LimitInv, DailyInv
  <2> QED
    BY <2>1, <2>3
<1> QED
  BY <1>1, LimitsKept, Invariance, PTL

\* As long as the policies demand a cool-down of d ticks, a requester makes at
\* most one request for a secret in d ticks for each handler.
THEOREM CoolDownHolds == Spec => []CoolDown
<1>1. IInv /\ LimitInv => CoolDown
  <2> SUFFICES ASSUME IInv, LimitInv, NEW q \in RequestId, NEW d \in 1..MaxTime,
                      Exists(q), \A p \in Before(q, d) : request[p].pol.coolDown >= d
               PROVE  Cardinality(Before(q, d)) <= 1 + Overlap
    BY DEF CoolDown
  <2>1. d \in Nat
    BY BoundAssumption
  <2>2. /\ Batch(Requester(request[q]), request[q].secret, AfterCoolDown,
                 Before(q, d), {}, d)
        /\ Requester(request[q]) \in Askers /\ request[q].secret \in Targets
        /\ Before(q, d) \in SUBSET RequestId
        /\ Policies(Before(q, d), {}) = {request[p].pol : p \in Before(q, d)}
        /\ Size(Before(q, d), {}) = Cardinality(Before(q, d))
    BY <2>1, BeforeIsBatch
  <2>3. (\A p \in Policies(Before(q, d), {}) : p.coolDown >= d) /\ {} \in SUBSET Worker
    BY <2>2
  <2> QED
    BY <2>2, <2>3 DEF LimitInv, CoolDownInv
<1> QED
  BY <1>1, LimitsKept, Invariance, PTL

\* Both limits of the policy on requests hold up to one more for each further handler,
\* whatever statements fail.
THEOREM LimitsHold == Spec => []RequestLimits
<1>1. DailyLimit /\ CoolDown => RequestLimits
  BY DEF RequestLimits
<1> QED
  BY <1>1, DailyLimitHolds, CoolDownHolds, PTL
=============================================================================
