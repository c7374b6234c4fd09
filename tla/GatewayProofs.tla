---------------------------- MODULE GatewayProofs ----------------------------
(***************************************************************************)
(* Proofs about the vault and the gateway over it, for any secrets, keys,  *)
(* handlers, agents, routes, limits and proxied calls, with or without     *)
(* faults.                                                                 *)
(***************************************************************************)
EXTENDS GatewayProps, TLAPS

-----------------------------------------------------------------------------
(* The vault                                                               *)

\* A handler that is done holds nothing.
LEMMA NoWorkType == NoWork \in Work
  BY DEF NoWork, Work, KeyOrNone

\* What begins a request is well typed.
LEMMA BeginType ==
    ASSUME VaultTypeOK, NEW h \in Writer, NEW pc \in {"create", "update"}, NEW s \in Secret,
           NEW in \in [dek: KeyOrNone, blob: KeyOrNone], Begin(h, pc, s, in)
    PROVE  writer' \in [Writer -> Work]
<1>1. [pc |-> pc, secret |-> s, dek |-> in.dek, blob |-> in.blob] \in Work
  BY DEF Work
<1> QED
  BY <1>1 DEF VaultTypeOK, Begin

\* CreateSecret brings a blob, and a key or none.
LEMMA CreateSecretBegins ==
    ASSUME NEW h \in Writer, NEW s \in Secret, CreateSecret(h, s)
    PROVE  \E in \in [dek: KeyOrNone, blob: KeyOrNone] :
             Begin(h, "create", s, in) /\ in.blob # None
  BY VaultAssumption DEF CreateSecret, NewValue, KeyOrNone

\* UpdateSecret brings a key, a blob, both or neither.
LEMMA UpdateSecretBegins ==
    ASSUME NEW h \in Writer, NEW s \in Secret, UpdateSecret(h, s)
    PROVE  \E in \in [dek: KeyOrNone, blob: KeyOrNone] : Begin(h, "update", s, in)
  BY DEF UpdateSecret, Change, KeyOrNone

\* Every statement of a handler of the vault keeps its state well typed.
LEMMA VaultType ==
    ASSUME VaultTypeOK, \A h \in Writer : WriterOK(h), VaultNext
    PROVE  VaultTypeOK'
<1>1. ASSUME NEW h \in Writer, NEW s \in Secret, CreateSecret(h, s) \/ UpdateSecret(h, s)
      PROVE  VaultTypeOK'
  <2>1. writer' \in [Writer -> Work]
    BY <1>1, BeginType, CreateSecretBegins, UpdateSecretBegins
  <2> QED
    BY <1>1, <2>1 DEF VaultTypeOK, CreateSecret, UpdateSecret
<1>2. ASSUME NEW h \in Writer,
             PutNew(h) \/ CommitCreate(h) \/ UpdateRow(h) \/ PutBlob(h) \/ CutOff(h)
      PROVE  VaultTypeOK'
  <2> DEFINE w == writer[h]
             s == w.secret
  <2>1. w \in Work /\ w.pc # "idle" /\ s \in Secret
    BY <1>2 DEF VaultTypeOK, WriterOK, PutNew, CommitCreate, UpdateRow, PutBlob, CutOff
  <2>2. w.dek \in KeyOrNone /\ w.blob \in KeyOrNone /\ row[s] \in RowType
    BY <2>1 DEF VaultTypeOK, Work
  <2>3. writer' \in [Writer -> Work]
    <3>1. \/ writer' = [writer EXCEPT ![h] = NoWork]
          \/ \E pc \in {"commit", "put"} : writer' = [writer EXCEPT ![h].pc = pc]
          \/ writer' = writer
      BY <1>2 DEF PutNew, CommitCreate, UpdateRow, PutBlob, CutOff
    <3>2. \A pc \in {"commit", "put"} : [w EXCEPT !.pc = pc] \in Work
      BY <2>1 DEF Work
    <3> QED
      BY <3>1, <3>2, NoWorkType DEF VaultTypeOK
  <2>4. row' \in [Secret -> RowType]
    <3>1. Coalesce(w.dek, row[s].dek) \in KeyOrNone
      BY <2>2 DEF Coalesce, RowType
    <3>2. [row[s] EXCEPT !.dek = Coalesce(w.dek, row[s].dek)] \in RowType
      BY <2>2, <3>1 DEF RowType
    <3>3. [state |-> "live", dek |-> w.dek] \in RowType
      BY <2>2 DEF RowType
    <3>4. \/ row' = row
          \/ row' = [row EXCEPT ![s].dek = Coalesce(w.dek, row[s].dek)]
          \/ row' = [row EXCEPT ![s] = [state |-> "live", dek |-> w.dek]]
      BY <1>2 DEF PutNew, CommitCreate, UpdateRow, PutBlob, CutOff
    <3> QED
      BY <3>2, <3>3, <3>4 DEF VaultTypeOK
  <2>5. blob' \in [Secret -> KeyOrNone]
    BY <1>2, <2>2 DEF VaultTypeOK, PutNew, CommitCreate, UpdateRow, PutBlob, CutOff
  <2>6. hurt' \subseteq Secret
    BY <1>2, <2>1 DEF VaultTypeOK, PutNew, CommitCreate, UpdateRow, PutBlob, CutOff
  <2> QED
    BY <2>3, <2>4, <2>5, <2>6 DEF VaultTypeOK
<1>3. ASSUME NEW s \in Secret, DeleteSecret(s) PROVE VaultTypeOK'
  <2>1. [row[s] EXCEPT !.state = "deleted"] \in RowType
    BY DEF VaultTypeOK, RowType
  <2> QED
    BY <1>3, <2>1 DEF VaultTypeOK, DeleteSecret
<1> QED
  BY <1>1, <1>2, <1>3 DEF VaultNext, VaultStep

\* A request that begins disturbs no handler under way: a secret that is being
\* created is not there to update, and is nobody else's to create.
LEMMA BeginKeeps ==
    ASSUME VaultTypeOK, VaultInv, NEW h \in Writer, NEW s \in Secret,
           CreateSecret(h, s) \/ UpdateSecret(h, s)
    PROVE  VaultInv'
<1>1. UNCHANGED <<row, blob, hurt>>
  BY DEF CreateSecret, UpdateSecret
<1>2. PICK in \in [dek: KeyOrNone, blob: KeyOrNone], pc \in {"create", "update"} :
        /\ Begin(h, pc, s, in)
        /\ pc = "create" => CreateSecret(h, s) /\ in.blob # None
        /\ pc = "update" => UpdateSecret(h, s)
  BY CreateSecretBegins, UpdateSecretBegins
<1>3. /\ writer[h].pc = "idle"
      /\ writer'[h].pc = pc /\ writer'[h].secret = s
      /\ writer'[h].dek = in.dek /\ writer'[h].blob = in.blob
      /\ \A g \in Writer \ {h} : writer'[g] = writer[g]
  BY <1>2 DEF Begin, VaultTypeOK
<1>4. \A t \in Secret : Putting(t)' = Putting(t)
  BY <1>2, <1>3 DEF Putting
<1>5. WriterOK(h)'
  BY <1>1, <1>2, <1>3 DEF WriterOK, CreateSecret
<1>6. ASSUME NEW g \in Writer \ {h} PROVE WriterOK(g)'
  <2>1. WriterOK(g) /\ writer'[g] = writer[g]
    BY <1>3 DEF VaultInv
  <2>2. writer[g].pc \in {"create", "commit"} => writer[g].secret # s
    BY <1>2, <2>1 DEF CreateSecret, UpdateSecret, Live, WriterOK
  <2> QED
    BY <1>1, <1>3, <2>1, <2>2 DEF WriterOK
<1>7. PutsFit'
  BY <1>1, <1>3, <1>4 DEF VaultInv, PutsFit, Putting
<1>8. ReadableUnlessHurt'
  BY <1>1, <1>4 DEF VaultInv, ReadableUnlessHurt, Live
<1> QED
  BY <1>5, <1>6, <1>7, <1>8 DEF VaultInv

\* What a handler says of its own secret only: the others stay.
LEMMA OtherWriters ==
    ASSUME VaultInv, NEW h \in Writer, NEW s \in Secret,
           \A g \in Writer \ {h} : writer'[g] = writer[g],
           writer'[h].secret \in {writer[h].secret, None}, None \notin Secret,
           \A t \in Secret \ {s} : row'[t].state = row[t].state /\ blob'[t] = blob[t],
           \A g \in Writer \ {h} : writer[g].pc \in {"create", "commit"} => writer[g].secret # s
    PROVE  \A g \in Writer \ {h} : WriterOK(g)'
<1> SUFFICES ASSUME NEW g \in Writer \ {h} PROVE WriterOK(g)'
  OBVIOUS
<1>1. WriterOK(g) /\ writer'[g] = writer[g]
  BY DEF VaultInv
<1> QED
  BY <1>1 DEF WriterOK

\* PutNew and CommitCreate: the creator is alone, the row unseen until it commits.
LEMMA CreateKeeps ==
    ASSUME VaultTypeOK, VaultInv, NEW h \in Writer, PutNew(h) \/ CommitCreate(h)
    PROVE  VaultInv'
<1> DEFINE w == writer[h]
           s == w.secret
<1>1. /\ w \in Work /\ w.pc \in {"create", "commit"} /\ s \in Secret /\ WriterOK(h)
      /\ row[s].state = "none" /\ w.blob # None
      /\ \A g \in Writer \ {h} : writer[g].secret # s
  BY DEF VaultTypeOK, VaultInv, WriterOK, PutNew, CommitCreate
<1>2. \A g \in Writer \ {h} : writer'[g] = writer[g]
  BY DEF VaultTypeOK, PutNew, CommitCreate
<1>3. /\ \A t \in Secret \ {s} : row'[t] = row[t] /\ blob'[t] = blob[t]
      /\ hurt \subseteq hurt' /\ hurt' \subseteq hurt \cup {s}
  BY DEF VaultTypeOK, PutNew, CommitCreate
<1>4. writer'[h].secret \in {s, None} /\ writer'[h].pc \in {"commit", "idle"}
  BY <1>1 DEF VaultTypeOK, PutNew, CommitCreate, NoWork, Work
<1>5. \A t \in Secret : Putting(t)' = Putting(t)
  BY <1>1, <1>2, <1>4 DEF Putting
<1>6. \A g \in Writer \ {h} : WriterOK(g)'
  BY <1>1, <1>2, <1>3, <1>4, OtherWriters, VaultAssumption
<1>7. WriterOK(h)'
  <2>1. CASE PutNew(h)
    <3>1. /\ writer'[h] = [w EXCEPT !.pc = "commit"] /\ row' = row
          /\ blob'[s] = w.blob
      BY <1>1, <2>1 DEF VaultTypeOK, PutNew
    <3> HIDE DEF w
    <3>2. /\ writer'[h].secret = s /\ writer'[h].dek = w.dek /\ writer'[h].blob = w.blob
          /\ writer'[h].pc = "commit"
      BY <1>1, <3>1 DEF Work
    <3> QED
      BY <1>1, <1>2, <3>1, <3>2 DEF WriterOK
  <2>2. CASE CommitCreate(h)
    <3>1. writer'[h] = NoWork
      BY <2>2 DEF VaultTypeOK, CommitCreate
    <3> QED
      BY <3>1 DEF WriterOK, NoWork
  <2> QED
    BY <2>1, <2>2
<1>8. Putting(s) = {}
  BY <1>1 DEF Putting
<1>9. PutsFit'
  <2> SUFFICES ASSUME NEW t \in Secret \ hurt', NEW g \in Putting(t)'
               PROVE  (Putting(t) = {g} /\ writer[g].blob = row[t].dek /\ row[t].dek # None)'
    BY DEF PutsFit
  <2>1. t # s /\ t \in Secret \ hurt /\ g \in Putting(t) /\ g # h
    BY <1>1, <1>3, <1>5, <1>8 DEF Putting
  <2>2. g \in Writer
    BY <2>1 DEF Putting
  <2>3. Putting(t) = {g} /\ writer[g].blob = row[t].dek /\ row[t].dek # None
    BY <2>1 DEF VaultInv, PutsFit
  <2>4. writer'[g] = writer[g] /\ row'[t] = row[t] /\ Putting(t)' = Putting(t)
    BY <1>2, <1>3, <1>5, <2>1, <2>2
  <2> QED
    BY <2>3, <2>4
<1>10. ReadableUnlessHurt'
  <2> SUFFICES ASSUME NEW t \in Secret \ hurt', row'[t].state = "live", Putting(t)' = {}
               PROVE  row'[t].dek # None /\ blob'[t] = row'[t].dek
    BY DEF ReadableUnlessHurt, Live
  <2>1. CASE t # s
    BY <1>3, <1>5, <2>1 DEF VaultInv, ReadableUnlessHurt, Live
  <2>2. CASE t = s
    <3>1. CommitCreate(h)
      BY <1>1, <2>2 DEF PutNew
    <3>2. w.pc = "commit" /\ blob[s] = w.blob /\ blob' = blob
      BY <1>1, <3>1 DEF CommitCreate, WriterOK
    <3>3. row'[s] = [state |-> "live", dek |-> w.dek] /\ w.dek = w.blob
      BY <1>1, <2>2, <3>1 DEF VaultTypeOK, CommitCreate
    <3> QED
      BY <1>1, <2>2, <3>2, <3>3
  <2> QED
    BY <2>1, <2>2
<1> QED
  BY <1>6, <1>7, <1>9, <1>10 DEF VaultInv

\* The key, the blob and the handlers of one secret say nothing of another.
LEMMA OtherSecrets ==
    ASSUME VaultInv, NEW h \in Writer, NEW s \in Secret, None \notin Secret,
           \A g \in Writer \ {h} : writer'[g] = writer[g],
           writer[h].secret = s, writer'[h].secret \in {s, None},
           \A t \in Secret \ {s} : row'[t] = row[t] /\ blob'[t] = blob[t],
           hurt \subseteq hurt' \cup {s}
    PROVE  \A t \in Secret \ ({s} \cup hurt') :
             /\ \A g \in Putting(t)' :
                  (Putting(t) = {g} /\ writer[g].blob = row[t].dek /\ row[t].dek # None)'
             /\ row'[t].state = "live" /\ Putting(t)' = {} =>
                  row'[t].dek # None /\ blob'[t] = row'[t].dek
<1> SUFFICES ASSUME NEW t \in Secret \ ({s} \cup hurt')
             PROVE  /\ \A g \in Putting(t)' :
                         (Putting(t) = {g} /\ writer[g].blob = row[t].dek
                            /\ row[t].dek # None)'
                    /\ row'[t].state = "live" /\ Putting(t)' = {} =>
                         row'[t].dek # None /\ blob'[t] = row'[t].dek
  OBVIOUS
<1>1. t \in Secret \ hurt /\ t # s /\ row'[t] = row[t] /\ blob'[t] = blob[t]
  OBVIOUS
<1>2. Putting(t)' = Putting(t) /\ h \notin Putting(t) /\ Putting(t) \subseteq Writer
  BY <1>1 DEF Putting
<1>3. ASSUME NEW g \in Putting(t)'
      PROVE  (Putting(t) = {g} /\ writer[g].blob = row[t].dek /\ row[t].dek # None)'
  <2>1. g \in Putting(t) /\ writer'[g] = writer[g]
    BY <1>2
  <2>2. Putting(t) = {g} /\ writer[g].blob = row[t].dek /\ row[t].dek # None
    BY <1>1, <2>1 DEF VaultInv, PutsFit
  <2> QED
    BY <1>1, <1>2, <2>1, <2>2
<1>4. row[t].state = "live" /\ Putting(t) = {} =>
        row[t].dek # None /\ blob[t] = row[t].dek
  BY <1>1 DEF VaultInv, ReadableUnlessHurt, Live
<1> QED
  BY <1>1, <1>2, <1>3, <1>4

\* UpdateRow: a key without its blob hurts; a pair that fits, alone, heals.
LEMMA UpdateRowKeeps ==
    ASSUME VaultTypeOK, VaultInv, NEW h \in Writer, UpdateRow(h)
    PROVE  VaultInv'
<1> DEFINE w == writer[h]
<1>0. PICK s \in Secret : s = w.secret
  BY DEF VaultInv, WriterOK, UpdateRow
<1> DEFINE dek == Coalesce(w.dek, row[s].dek)
<1>1. w \in Work /\ w.pc = "update" /\ row[s] \in RowType /\ blob' = blob
  BY DEF VaultTypeOK, VaultInv, WriterOK, UpdateRow
<1>2. \A g \in Writer \ {h} : writer'[g] = writer[g]
  BY DEF VaultTypeOK, UpdateRow
<1>3. /\ \A t \in Secret \ {s} : row'[t] = row[t]
      /\ row'[s].state = row[s].state
      /\ row'[s].dek = IF Live(s) THEN dek ELSE row[s].dek
  <2>1. \/ ~Live(s) /\ row' = row
        \/ Live(s) /\ row' = [row EXCEPT ![s].dek = dek]
    BY <1>0 DEF UpdateRow
  <2> HIDE DEF dek
  <2> QED
    BY <1>1, <2>1 DEF VaultTypeOK, RowType
<1>4. /\ hurt \subseteq hurt' \cup {s}
      /\ writer'[h] = NoWork \/ writer'[h] = [w EXCEPT !.pc = "put"]
  BY <1>0 DEF VaultTypeOK, UpdateRow
<1>5. /\ writer'[h].secret \in {s, None} /\ writer'[h].pc \in {"idle", "put"}
      /\ writer'[h].pc = "put" => writer'[h].secret = s /\ writer'[h].blob = w.blob
  <2> HIDE DEF w
  <2> QED
    BY <1>0, <1>1, <1>4 DEF Work, NoWork, w
<1>6. \A g \in Writer \ {h} : writer[g].pc \in {"create", "commit"} => writer[g].secret # s
  BY <1>0, <1>1 DEF VaultInv, WriterOK
<1>7. \A g \in Writer \ {h} : WriterOK(g)'
  <2> HIDE DEF dek
  <2> QED
    BY <1>0, <1>1, <1>2, <1>3, <1>5, <1>6, OtherWriters, VaultAssumption
<1>8. WriterOK(h)'
  BY <1>0, <1>1, <1>5 DEF WriterOK, NoWork
<1>9. \A t \in Secret \ ({s} \cup hurt') :
        /\ \A g \in Putting(t)' :
             (Putting(t) = {g} /\ writer[g].blob = row[t].dek /\ row[t].dek # None)'
        /\ row'[t].state = "live" /\ Putting(t)' = {} =>
             row'[t].dek # None /\ blob'[t] = row'[t].dek
  <2> HIDE DEF dek
  <2> QED
    BY <1>0, <1>1, <1>2, <1>3, <1>4, <1>5, OtherSecrets, VaultAssumption
<1>10. ASSUME s \notin hurt'
       PROVE  /\ \A g \in Putting(s)' :
                   (Putting(s) = {g} /\ writer[g].blob = row[s].dek /\ row[s].dek # None)'
              /\ row'[s].state = "live" /\ Putting(s)' = {} =>
                   row'[s].dek # None /\ blob'[s] = row'[s].dek
  <2>0. h \notin Putting(s) /\ Putting(s) \subseteq Writer
    BY <1>1 DEF Putting
  <2>1. CASE writer'[h].pc = "put"
    <3>1. Putting(s) = {} /\ w.blob = dek /\ w.blob # None /\ Live(s)
      BY <1>0, <1>1, <1>5, <1>10, <2>1 DEF UpdateRow, VaultTypeOK, NoWork
    <3>2. Putting(s)' = {h}
      BY <1>0, <1>1, <1>2, <1>5, <2>0, <2>1, <3>1 DEF Putting
    <3>3. writer'[h].blob = w.blob /\ row'[s].dek = dek
      BY <1>3, <1>5, <2>1, <3>1
    <3> HIDE DEF w, dek
    <3> QED
      BY <3>1, <3>2, <3>3
  <2>2. CASE writer'[h].pc = "idle"
    <3>1. s \notin hurt /\ row'[s].dek = row[s].dek /\ row'[s].state = row[s].state
      <4>1. CASE ~Live(s)
        BY <1>0, <1>3, <1>10, <4>1 DEF UpdateRow
      <4>2. CASE Live(s)
        <5>1. w.blob = None
          <6>1. w.blob # None => writer'[h].pc = "put"
            <7>1. w.blob # None => writer' = [writer EXCEPT ![h].pc = "put"]
              BY <1>0, <4>2 DEF UpdateRow
            <7> HIDE DEF w
            <7> QED
              BY <1>1, <7>1 DEF VaultTypeOK, Work
          <6> QED
            BY <2>2, <6>1
        <5>2. w.dek = None /\ hurt' = hurt
          BY <1>0, <1>10, <4>2, <5>1 DEF UpdateRow
        <5>3. dek = row[s].dek
          BY <5>2 DEF Coalesce
        <5> HIDE DEF dek, w
        <5> QED
          BY <1>3, <1>10, <5>2, <5>3
      <4> QED
        BY <4>1, <4>2
    <3>2. Putting(s)' = Putting(s)
      BY <1>2, <2>0, <2>2 DEF Putting
    <3>3. \A g \in Putting(s) : writer'[g] = writer[g]
      BY <1>2, <2>0 DEF Putting
    <3>4. \A g \in Putting(s) :
            Putting(s) = {g} /\ writer[g].blob = row[s].dek /\ row[s].dek # None
      BY <2>0, <3>1 DEF VaultInv, PutsFit
    <3>5. row[s].state = "live" /\ Putting(s) = {} =>
            row[s].dek # None /\ blob[s] = row[s].dek
      BY <2>0, <3>1 DEF VaultInv, ReadableUnlessHurt, Live
    <3> HIDE DEF w, dek
    <3> QED
      BY <1>1, <3>1, <3>2, <3>3, <3>4, <3>5
  <2> QED
    BY <1>5, <2>1, <2>2
<1>11. PutsFit' /\ ReadableUnlessHurt'
  BY <1>9, <1>10 DEF PutsFit, ReadableUnlessHurt, Live
<1> QED
  BY <1>7, <1>8, <1>11 DEF VaultInv

\* PutBlob and CutOff end a handler: the blob that fits is in place, or the secret
\* is hurt.
LEMMA EndKeeps ==
    ASSUME VaultTypeOK, VaultInv, NEW h \in Writer, PutBlob(h) \/ CutOff(h)
    PROVE  VaultInv'
<1> DEFINE w == writer[h]
<1>0. PICK s \in Secret : s = w.secret
  BY DEF VaultInv, WriterOK, PutBlob, CutOff
<1>1. /\ w \in Work /\ row' = row /\ writer'[h] = NoWork
      /\ \A g \in Writer \ {h} : writer'[g] = writer[g]
      /\ writer'[h].secret = None /\ writer'[h].pc = "idle"
  BY DEF VaultTypeOK, PutBlob, CutOff, NoWork
<1>2. /\ \A t \in Secret \ {s} : blob'[t] = blob[t]
      /\ hurt \subseteq hurt' /\ (w.pc = "put" => PutBlob(h) \/ s \in hurt')
      /\ PutBlob(h) => w.pc = "put" /\ blob'[s] = w.blob
      /\ w.pc # "put" => blob' = blob
  BY <1>0 DEF VaultTypeOK, PutBlob, CutOff
<1>3. \A g \in Writer \ {h} : WriterOK(g)'
  <2> SUFFICES ASSUME NEW g \in Writer \ {h} PROVE WriterOK(g)'
    OBVIOUS
  <2>1. WriterOK(g) /\ writer'[g] = writer[g]
    BY <1>1 DEF VaultInv
  <2>2. writer[g].pc \in {"create", "commit"} => writer[g].secret # s
    BY <1>0, <2>1 DEF WriterOK
  <2> QED
    BY <1>1, <1>2, <2>1, <2>2, VaultAssumption DEF WriterOK
<1>4. WriterOK(h)'
  BY <1>1 DEF WriterOK
<1>5. \A t \in Secret \ ({s} \cup hurt') :
        /\ \A g \in Putting(t)' :
             (Putting(t) = {g} /\ writer[g].blob = row[t].dek /\ row[t].dek # None)'
        /\ row'[t].state = "live" /\ Putting(t)' = {} =>
             row'[t].dek # None /\ blob'[t] = row'[t].dek
  BY <1>0, <1>1, <1>2, OtherSecrets, VaultAssumption
<1>6. ASSUME s \notin hurt'
      PROVE  /\ \A g \in Putting(s)' :
                  (Putting(s) = {g} /\ writer[g].blob = row[s].dek /\ row[s].dek # None)'
             /\ row'[s].state = "live" /\ Putting(s)' = {} =>
                  row'[s].dek # None /\ blob'[s] = row'[s].dek
  <2>1. Putting(s)' = Putting(s) \ {h} /\ Putting(s) \subseteq Writer
    BY <1>1 DEF Putting
  <2>2. /\ \A g \in Putting(s) :
             Putting(s) = {g} /\ writer[g].blob = row[s].dek /\ row[s].dek # None
        /\ row[s].state = "live" /\ Putting(s) = {} =>
             row[s].dek # None /\ blob[s] = row[s].dek
    BY <1>2, <1>6 DEF VaultInv, PutsFit, ReadableUnlessHurt, Live
  <2>3. CASE w.pc = "put"
    <3>1. h \in Putting(s) /\ blob'[s] = w.blob
      BY <1>0, <1>2, <1>6, <2>3 DEF Putting
    <3>2. Putting(s) = {h} /\ w.blob = row[s].dek /\ row[s].dek # None
      BY <2>2, <3>1
    <3>3. Putting(s)' = {}
      BY <2>1, <3>2
    <3> HIDE DEF w
    <3> QED
      BY <1>1, <3>1, <3>2, <3>3
  <2>4. CASE w.pc # "put"
    <3>1. Putting(s)' = Putting(s) /\ blob' = blob
      BY <1>2, <2>1, <2>4 DEF Putting
    <3>2. \A g \in Putting(s) : writer'[g] = writer[g]
      BY <1>1, <2>1, <3>1
    <3> HIDE DEF w
    <3> QED
      BY <1>1, <2>2, <3>1, <3>2
  <2> QED
    BY <2>3, <2>4
<1>7. PutsFit' /\ ReadableUnlessHurt'
  BY <1>5, <1>6 DEF PutsFit, ReadableUnlessHurt, Live
<1> QED
  BY <1>3, <1>4, <1>7 DEF VaultInv

\* A soft delete leaves the key and the blob as they are.
LEMMA DeleteKeeps ==
    ASSUME VaultTypeOK, VaultInv, NEW s \in Secret, DeleteSecret(s)
    PROVE  VaultInv'
<1>1. /\ UNCHANGED <<blob, writer, hurt>> /\ row[s].state = "live"
      /\ \A t \in Secret \ {s} : row'[t] = row[t]
      /\ row'[s].state = "deleted" /\ row'[s].dek = row[s].dek
  BY DEF VaultTypeOK, RowType, DeleteSecret, Live
<1>2. \A t : Putting(t)' = Putting(t)
  BY <1>1 DEF Putting
<1>3. \A h \in Writer : WriterOK(h)'
  BY <1>1 DEF VaultInv, WriterOK
<1>4. PutsFit'
  BY <1>1, <1>2 DEF VaultInv, PutsFit
<1>5. ReadableUnlessHurt'
  BY <1>1, <1>2 DEF VaultInv, ReadableUnlessHurt, Live
<1> QED
  BY <1>3, <1>4, <1>5 DEF VaultInv

\* Every statement on the vault keeps what the two stores say together.
LEMMA VaultKeeps ==
    ASSUME VaultTypeOK, VaultInv, VaultNext
    PROVE  VaultTypeOK' /\ VaultInv'
<1>1. VaultTypeOK'
  BY VaultType DEF VaultInv
<1> QED
  BY <1>1, BeginKeeps, CreateKeeps, UpdateRowKeeps, EndKeeps, DeleteKeeps
     DEF VaultNext, VaultStep

\* A soft delete is final.
LEMMA DeletedForGood ==
    ASSUME VaultTypeOK, VaultInv, VaultNext, NEW s \in Secret, row[s].state = "deleted"
    PROVE  row'[s].state = "deleted"
<1>1. ASSUME NEW h \in Writer, CommitCreate(h) PROVE row'[s] = row[s]
  BY <1>1 DEF VaultInv, WriterOK, CommitCreate, VaultTypeOK
<1>2. ASSUME NEW h \in Writer, UpdateRow(h) PROVE row'[s].state = row[s].state
  <2>1. PICK t, d : row' = row \/ row' = [row EXCEPT ![t].dek = d]
    BY <1>2 DEF UpdateRow
  <2> QED
    BY <2>1 DEF VaultTypeOK, RowType
<1>3. ASSUME NEW t \in Secret, DeleteSecret(t) PROVE row'[s].state = "deleted"
  BY <1>3 DEF DeleteSecret, VaultTypeOK, RowType
<1>4. ASSUME NEW h \in Writer, NEW t \in Secret,
             CreateSecret(h, t) \/ UpdateSecret(h, t) \/ PutNew(h) \/ PutBlob(h) \/ CutOff(h)
      PROVE  row' = row
  BY <1>4 DEF CreateSecret, UpdateSecret, PutNew, PutBlob, CutOff
<1> QED
  BY <1>1, <1>2, <1>3, <1>4 DEF VaultNext, VaultStep

-----------------------------------------------------------------------------
(* Tokens, routes and limits                                               *)

\* What happens outside the vault leaves it as it is.
LEMMA VaultStays ==
    ASSUME VaultTypeOK, VaultInv, UNCHANGED vaultVars
    PROVE  VaultTypeOK' /\ VaultInv'
  BY DEF vaultVars, VaultTypeOK, VaultInv, WriterOK, PutsFit, ReadableUnlessHurt, Putting, Live

\* Agent tokens are issued to agents and end.
LEMMA TokenKeeps ==
    ASSUME GatewayInv, UNCHANGED vaultVars, NEW t \in AgentToken,
           (\E a \in Agent : IssueToken(t, a)) \/ EndToken(t)
    PROVE  GatewayInv'
<1>1. VaultTypeOK' /\ VaultInv'
  BY VaultStays DEF GatewayInv, GatewayTypeOK
<1>2. UNCHANGED <<route, limit, call, served, row>>
  BY DEF IssueToken, EndToken, vaultVars
<1>3. agentToken' \in [AgentToken -> [state: {"none", "live", "ended"}, agent: Agent \cup {None}]]
  <2>1. agentToken[t] \in [state: {"none", "live", "ended"}, agent: Agent \cup {None}]
    BY DEF GatewayInv, GatewayTypeOK, ProxyTypeOK
  <2>2. [agentToken[t] EXCEPT !.state = "ended"]
          \in [state: {"none", "live", "ended"}, agent: Agent \cup {None}]
    BY <2>1
  <2>3. \A a \in Agent : [state |-> "live", agent |-> a]
          \in [state: {"none", "live", "ended"}, agent: Agent \cup {None}]
    OBVIOUS
  <2>4. agentToken \in
          [AgentToken -> [state: {"none", "live", "ended"}, agent: Agent \cup {None}]]
    BY DEF GatewayInv, GatewayTypeOK, ProxyTypeOK
  <2>5. CASE \E a \in Agent : IssueToken(t, a)
    <3>1. PICK a \in Agent :
            agentToken' = [agentToken EXCEPT ![t] = [state |-> "live", agent |-> a]]
      BY <2>5 DEF IssueToken
    <3> QED
      BY <3>1, <2>3, <2>4
  <2>6. CASE EndToken(t)
    BY <2>6, <2>2, <2>4 DEF EndToken
  <2> QED
    BY <2>5, <2>6
<1>4. TokensOK'
  <2>1. \A x \in AgentToken :
          \/ agentToken'[x] = agentToken[x]
          \/ agentToken'[x].state = "ended"
          \/ agentToken'[x].agent \in Agent
    <3>1. agentToken \in
            [AgentToken -> [state: {"none", "live", "ended"}, agent: Agent \cup {None}]]
      BY DEF GatewayInv, GatewayTypeOK, ProxyTypeOK
    <3> QED
      BY <3>1 DEF IssueToken, EndToken
  <2> QED
    BY <2>1 DEF GatewayInv, TokensOK
<1>5. ProxyTypeOK' /\ DistinctPatterns' /\ RoutesOK'
  BY <1>2, <1>3 DEF GatewayInv, GatewayTypeOK, ProxyTypeOK, DistinctPatterns, RoutesOK
<1>6. \A c \in Call : CallOK(c)' /\ ServedOK(c)'
  BY <1>2 DEF GatewayInv, CallOK, Routed, ServedOK, On, Banned, Matching
<1> QED
  BY <1>1, <1>4, <1>5, <1>6 DEF GatewayInv, GatewayTypeOK

\* The unique index keeps the patterns of an agent's routes apart.
LEMMA PatternsStayDistinct ==
    ASSUME ProxyTypeOK, DistinctPatterns, NEW r \in Route, NEW a \in Agent, NEW p,
           FreePattern(r, a, p),
           \A x \in Route \ {r} : route'[x] = route[x],
           route'[r].agent = a, route'[r].pattern = p
    PROVE  DistinctPatterns'
<1> SUFFICES ASSUME NEW y \in Route, NEW x \in Route, y # x, route'[y].agent # None,
                    route'[y].agent = route'[x].agent
             PROVE  route'[y].pattern # route'[x].pattern
  BY DEF DistinctPatterns
<1>1. CASE y # r /\ x # r
  BY <1>1 DEF DistinctPatterns
<1>2. CASE y = r
  BY <1>2 DEF FreePattern
<1>3. CASE x = r
  BY <1>3 DEF FreePattern
<1> QED
  BY <1>1, <1>2, <1>3

\* The calls under way keep their routes: one that was enabled is never made anew,
\* and never changes hands.
LEMMA RouteCalls ==
    ASSUME GatewayInv, NEW r \in Route, UNCHANGED <<call, limit, row>>,
           \A x \in Route \ {r} : route'[x] = route[x],
           route'[r].state # "none",
           route[r].state = "none" \/ route'[r].agent \in {route[r].agent, None},
           \A c \in Call : /\ served'[c].secrets = served[c].secrets
                           /\ served'[c].banned = served[c].banned
                           /\ served[c].routes \subseteq served'[c].routes
                           /\ served'[c].routes \subseteq served[c].routes \cup {r}
                           /\ route'[r].state = "on" =>
                                r \in served'[c].routes \/ On(r)
    PROVE  \A c \in Call : CallOK(c)' /\ ServedOK(c)'
<1> SUFFICES ASSUME NEW c \in Call PROVE CallOK(c)' /\ ServedOK(c)'
  OBVIOUS
<1>1. CallOK(c) /\ ServedOK(c)
  BY DEF GatewayInv
<1>2. served[c].routes \subseteq Route
  BY DEF GatewayInv, GatewayTypeOK, ProxyTypeOK
<1>3. CallOK(c)'
  <2>1. Routed(c)' <=> Routed(c)
    BY DEF Routed
  <2>2. Routed(c) =>
          /\ call[c].route \in Route /\ route[call[c].route].state # "none"
          /\ route[call[c].route].agent \in {call[c].agent, None}
    BY <1>1 DEF CallOK, ServedOK
  <2>3. Routed(c) => route'[call[c].route].agent \in {call[c].agent, None}
    BY <2>2
  <2> QED
    BY <1>1, <2>1, <2>3 DEF CallOK
<1>4. ServedOK(c)'
  <2>1. \A x \in served'[c].routes : route'[x].state # "none"
    BY <1>1, <1>2 DEF ServedOK
  <2>2. call[c].pc # "idle" => \A x \in Route : route'[x].state = "on" => x \in served'[c].routes
    BY <1>1 DEF ServedOK, On
  <2>3. \A a, e : Banned(a, e)' = Banned(a, e)
    BY DEF Banned, Matching
  <2> QED
    BY <1>1, <2>1, <2>2, <2>3 DEF ServedOK, On
<1> QED
  BY <1>3, <1>4

\* A call's history stays well typed when a route joins it.
LEMMA ServedRoutesType ==
    ASSUME ProxyTypeOK, NEW r \in Route, NEW enabled \in BOOLEAN,
           served' = [c \in Call |->
             [served[c] EXCEPT !.routes = IF enabled THEN @ \cup {r} ELSE @]]
    PROVE  /\ served' \in
                [Call -> [routes: SUBSET Route, secrets: SUBSET Secret, banned: BOOLEAN]]
           /\ \A c \in Call :
                /\ served'[c].secrets = served[c].secrets
                /\ served'[c].banned = served[c].banned
                /\ served'[c].routes =
                     IF enabled THEN served[c].routes \cup {r} ELSE served[c].routes
<1>1. ASSUME NEW c \in Call
      PROVE  /\ served'[c] \in [routes: SUBSET Route, secrets: SUBSET Secret, banned: BOOLEAN]
             /\ served'[c].secrets = served[c].secrets
             /\ served'[c].banned = served[c].banned
             /\ served'[c].routes =
                  IF enabled THEN served[c].routes \cup {r} ELSE served[c].routes
  <2>1. served[c] \in [routes: SUBSET Route, secrets: SUBSET Secret, banned: BOOLEAN]
    BY DEF ProxyTypeOK
  <2>2. served'[c] = [served[c] EXCEPT !.routes = IF enabled THEN @ \cup {r} ELSE @]
    OBVIOUS
  <2> QED
    BY <2>1, <2>2
<1> QED
  BY <1>1

\* Routes are made, moved and deleted by their agent's owner while calls are on.
LEMMA RouteKeeps ==
    ASSUME GatewayInv, UNCHANGED vaultVars, NEW r \in Route,
           \/ \E a \in Agent, p \in Pattern, s \in Secret : CreateRoute(r, a, p, s)
           \/ \E p \in Pattern, s \in Secret, enabled \in BOOLEAN : UpdateRoute(r, p, s, enabled)
           \/ DeleteRoute(r)
    PROVE  GatewayInv'
<1>1. VaultTypeOK' /\ VaultInv'
  BY VaultStays DEF GatewayInv, GatewayTypeOK
<1>2. UNCHANGED <<agentToken, limit, call, row>>
  BY DEF CreateRoute, UpdateRoute, DeleteRoute, vaultVars
<1>3. /\ ProxyTypeOK /\ DistinctPatterns /\ RoutesOK /\ TokensOK
      /\ route \in [Route -> RouteRow] /\ route[r] \in RouteRow
  BY DEF GatewayInv, GatewayTypeOK, ProxyTypeOK
<1>4. /\ \A x \in Route \ {r} : route'[x] = route[x]
      /\ route' \in [Route -> RouteRow] /\ route'[r].state # "none"
      /\ route[r].state = "none" \/ route'[r].agent \in {route[r].agent, None}
      /\ DistinctPatterns'
      /\ route'[r].state \in {"on", "off"} =>
           route'[r].agent \in Agent /\ route'[r].pattern \in Pattern /\ route'[r].secret \in Secret
      /\ \E enabled \in BOOLEAN :
           /\ route'[r].state = "on" => enabled \/ On(r)
           /\ served' = [c \in Call |->
                [served[c] EXCEPT !.routes = IF enabled THEN @ \cup {r} ELSE @]]
  <2>1. ASSUME NEW a \in Agent, NEW p \in Pattern, NEW s \in Secret, CreateRoute(r, a, p, s)
        PROVE  <1>4
    <3>1. /\ route' = [route EXCEPT ![r] =
                         [state |-> "on", agent |-> a, pattern |-> p, secret |-> s]]
          /\ route[r].state = "none" /\ FreePattern(r, a, p)
          /\ served' = [c \in Call |-> [served[c] EXCEPT !.routes = @ \cup {r}]]
      BY <2>1 DEF CreateRoute
    <3>2. [state |-> "on", agent |-> a, pattern |-> p, secret |-> s] \in RouteRow
      BY DEF RouteRow
    <3>3. route' \in [Route -> RouteRow] /\ \A x \in Route \ {r} : route'[x] = route[x]
      BY <1>3, <3>1, <3>2
    <3>4. /\ route'[r].state = "on" /\ route'[r].agent = a /\ route'[r].pattern = p
          /\ route'[r].secret = s
      BY <1>3, <3>1
    <3>5. DistinctPatterns'
      BY <1>3, <3>1, <3>3, <3>4, PatternsStayDistinct
    <3>6. served' = [c \in Call |->
            [served[c] EXCEPT !.routes = IF TRUE THEN @ \cup {r} ELSE @]]
      BY <3>1
    <3> QED
      BY <3>1, <3>3, <3>4, <3>5, <3>6
  <2>2. ASSUME NEW p \in Pattern, NEW s \in Secret, NEW enabled \in BOOLEAN,
               UpdateRoute(r, p, s, enabled)
        PROVE  <1>4
    <3> DEFINE st == IF enabled THEN "on" ELSE "off"
    <3>1. /\ route' = [route EXCEPT ![r].state = st, ![r].pattern = p, ![r].secret = s]
          /\ route[r].state \in {"on", "off"} /\ FreePattern(r, route[r].agent, p)
          /\ served' = [c \in Call |->
               [served[c] EXCEPT !.routes = IF enabled THEN @ \cup {r} ELSE @]]
      BY <2>2 DEF UpdateRoute
    <3>2. st \in {"on", "off"} /\ (st = "on" => enabled) /\ route[r].agent \in Agent
      BY <1>3, <3>1 DEF RoutesOK
    <3> HIDE DEF st
    <3>3. [route[r] EXCEPT !.state = st, !.pattern = p, !.secret = s] \in RouteRow
      BY <1>3, <3>2 DEF RouteRow
    <3>4. route' \in [Route -> RouteRow] /\ \A x \in Route \ {r} : route'[x] = route[x]
      BY <1>3, <3>1, <3>3
    <3>5. /\ route'[r].state = st /\ route'[r].agent = route[r].agent
          /\ route'[r].pattern = p /\ route'[r].secret = s
      BY <1>3, <3>1 DEF RouteRow
    <3>6. DistinctPatterns'
      BY <1>3, <3>1, <3>2, <3>4, <3>5, PatternsStayDistinct
    <3> QED
      BY <3>1, <3>2, <3>4, <3>5, <3>6
  <2>3. ASSUME DeleteRoute(r)
        PROVE  <1>4
    <3>1. route' = [route EXCEPT ![r] = [NoRoute EXCEPT !.state = "gone"]] /\ served' = served
      BY <2>3 DEF DeleteRoute
    <3>2. [NoRoute EXCEPT !.state = "gone"] \in RouteRow
      BY DEF NoRoute, RouteRow
    <3>3. route' \in [Route -> RouteRow] /\ \A x \in Route \ {r} : route'[x] = route[x]
      BY <1>3, <3>1, <3>2
    <3>4. route'[r].state = "gone" /\ route'[r].agent = None
      BY <1>3, <3>1 DEF NoRoute
    <3>5. DistinctPatterns'
      BY <1>3, <3>3, <3>4 DEF DistinctPatterns
    <3>6. served' = [c \in Call |->
            [served[c] EXCEPT !.routes = IF FALSE THEN @ \cup {r} ELSE @]]
      <4>1. served \in [Call -> [routes: SUBSET Route, secrets: SUBSET Secret, banned: BOOLEAN]]
        BY <1>3 DEF ProxyTypeOK
      <4>2. \A c \in Call : [served[c] EXCEPT !.routes = IF FALSE THEN @ \cup {r} ELSE @]
                              = served[c]
        BY <4>1
      <4> QED
        BY <3>1, <4>1, <4>2
    <3> QED
      BY <3>3, <3>4, <3>5, <3>6
  <2> QED
    BY <2>1, <2>2, <2>3
<1>5. PICK enabled \in BOOLEAN :
        /\ route'[r].state = "on" => enabled \/ On(r)
        /\ served' = [c \in Call |->
             [served[c] EXCEPT !.routes = IF enabled THEN @ \cup {r} ELSE @]]
  BY <1>4
<1>6. /\ served' \in [Call -> [routes: SUBSET Route, secrets: SUBSET Secret, banned: BOOLEAN]]
      /\ \A c \in Call :
           /\ served'[c].secrets = served[c].secrets
           /\ served'[c].banned = served[c].banned
           /\ served'[c].routes =
                IF enabled THEN served[c].routes \cup {r} ELSE served[c].routes
  BY <1>3, <1>5, ServedRoutesType
<1>7. \A c \in Call : CallOK(c)' /\ ServedOK(c)'
  <2>1. /\ \A x \in Route \ {r} : route'[x] = route[x]
        /\ route'[r].state # "none"
        /\ route[r].state = "none" \/ route'[r].agent \in {route[r].agent, None}
    BY <1>4
  <2>2. \A c \in Call : /\ served'[c].secrets = served[c].secrets
                        /\ served'[c].banned = served[c].banned
                        /\ served[c].routes \subseteq served'[c].routes
                        /\ served'[c].routes \subseteq served[c].routes \cup {r}
                        /\ route'[r].state = "on" => r \in served'[c].routes \/ On(r)
    BY <1>5, <1>6
  <2>3. UNCHANGED <<call, limit, row>>
    BY <1>2
  <2> QED
    BY <2>1, <2>2, <2>3, RouteCalls
<1>8. ProxyTypeOK' /\ RoutesOK' /\ TokensOK'
  BY <1>2, <1>3, <1>4, <1>6 DEF ProxyTypeOK, RoutesOK, TokensOK
<1> QED
  BY <1>1, <1>4, <1>7, <1>8 DEF GatewayInv, GatewayTypeOK

\* A limit that comes or goes ends what the history says of its agent's calls, and
\* says nothing of the calls of other agents.
LEMMA LimitKeeps ==
    ASSUME GatewayInv, UNCHANGED vaultVars, NEW a \in Agent, NEW p \in Pattern,
           NEW l \in {"none", "open", "blocked"}, SetLimit(a, p, l)
    PROVE  GatewayInv'
<1>1. VaultTypeOK' /\ VaultInv'
  BY VaultStays DEF GatewayInv, GatewayTypeOK
<1>2. UNCHANGED <<agentToken, route, call, row>>
  BY DEF SetLimit, vaultVars
<1>3. /\ ProxyTypeOK /\ DistinctPatterns /\ RoutesOK /\ TokensOK
      /\ limit \in [Agent -> [Pattern -> {"none", "open", "blocked"}]]
      /\ served \in [Call -> [routes: SUBSET Route, secrets: SUBSET Secret, banned: BOOLEAN]]
  BY DEF GatewayInv, GatewayTypeOK, ProxyTypeOK
<1>4. /\ limit' \in [Agent -> [Pattern -> {"none", "open", "blocked"}]]
      /\ \A b \in Agent \ {a} : limit'[b] = limit[b]
  <2>1. [limit[a] EXCEPT ![p] = l] \in [Pattern -> {"none", "open", "blocked"}]
    BY <1>3
  <2>2. limit' = [limit EXCEPT ![a] = [limit[a] EXCEPT ![p] = l]]
    BY <1>3 DEF SetLimit
  <2> QED
    BY <1>3, <2>1, <2>2
<1>5. ASSUME NEW c \in Call
      PROVE  /\ served'[c] \in [routes: SUBSET Route, secrets: SUBSET Secret, banned: BOOLEAN]
             /\ served'[c].routes = served[c].routes /\ served'[c].secrets = served[c].secrets
             /\ served'[c].banned => served[c].banned /\ call[c].agent # a
  <2>1. served[c] \in [routes: SUBSET Route, secrets: SUBSET Secret, banned: BOOLEAN]
    BY <1>3
  <2>2. served'[c] = IF call[c].agent = a THEN [served[c] EXCEPT !.banned = FALSE]
                                          ELSE served[c]
    BY DEF SetLimit
  <2>3. CASE call[c].agent = a
    <3>1. served'[c] = [served[c] EXCEPT !.banned = FALSE]
      BY <2>2, <2>3
    <3> QED
      BY <2>1, <3>1
  <2>4. CASE call[c].agent # a
    BY <2>1, <2>2, <2>4
  <2> QED
    BY <2>3, <2>4
<1>6. served' \in [Call -> [routes: SUBSET Route, secrets: SUBSET Secret, banned: BOOLEAN]]
  BY <1>5 DEF SetLimit
<1>7. ASSUME NEW c \in Call PROVE CallOK(c)' /\ ServedOK(c)'
  <2>1. CallOK(c) /\ ServedOK(c)
    BY DEF GatewayInv
  <2>2. CallOK(c)'
    BY <1>2, <1>5, <2>1 DEF CallOK, Routed
  <2>3. call[c].pc = "limit" /\ served'[c].banned
          => Banned(call[c].agent, call[c].endpoint)'
    <3> SUFFICES ASSUME call[c].pc = "limit", served'[c].banned
                 PROVE  Banned(call[c].agent, call[c].endpoint)'
      OBVIOUS
    <3>1. Banned(call[c].agent, call[c].endpoint) /\ call[c].agent \in Agent \ {a}
      BY <1>5, <2>1 DEF CallOK, ServedOK
    <3>2. limit'[call[c].agent] = limit[call[c].agent]
      BY <1>4, <3>1
    <3> QED
      BY <1>2, <3>1, <3>2 DEF Banned, Matching
  <2> QED
    BY <1>2, <1>5, <2>1, <2>2, <2>3 DEF ServedOK, On
<1>8. ProxyTypeOK' /\ DistinctPatterns' /\ RoutesOK' /\ TokensOK'
  BY <1>2, <1>3, <1>4, <1>6 DEF ProxyTypeOK, DistinctPatterns, RoutesOK, TokensOK
<1> QED
  BY <1>1, <1>7, <1>8 DEF GatewayInv, GatewayTypeOK

\* The management API keeps the invariant.
LEMMA ManageKeeps ==
    ASSUME GatewayInv, Manage, UNCHANGED vaultVars
    PROVE  GatewayInv'
<1>1. ASSUME NEW a \in Agent, NEW p \in Pattern,
             \/ \E blocked \in BOOLEAN : CreateEndpointLimit(a, p, blocked)
             \/ DeleteEndpointLimit(a, p)
      PROVE  GatewayInv'
  <2>1. PICK l \in {"none", "open", "blocked"} : SetLimit(a, p, l)
    BY <1>1 DEF CreateEndpointLimit, DeleteEndpointLimit
  <2> QED
    BY <2>1, LimitKeeps
<1>2. ASSUME NEW r \in Route, NEW p \in Pattern, NEW s \in Secret,
             \/ \E a \in Agent : CreateRoute(r, a, p, s)
             \/ \E enabled \in BOOLEAN : UpdateRoute(r, p, s, enabled)
      PROVE  GatewayInv'
  BY <1>2, RouteKeeps
<1> QED
  BY <1>1, <1>2, RouteKeeps, TokenKeeps DEF Manage

-----------------------------------------------------------------------------
(* Calls                                                                   *)

\* A step of one call is nothing to the others.
LEMMA CallSteps ==
    ASSUME GatewayInv, NEW c \in Call, NEW w \in CallState,
           NEW v \in [routes: SUBSET Route, secrets: SUBSET Secret, banned: BOOLEAN],
           UNCHANGED <<vaultVars, agentToken, route, limit>>,
           call' = [call EXCEPT ![c] = w], served' = [served EXCEPT ![c] = v],
           CallOK(c)', ServedOK(c)'
    PROVE  GatewayInv'
<1>1. VaultTypeOK' /\ VaultInv'
  BY VaultStays DEF GatewayInv, GatewayTypeOK
<1>2. /\ ProxyTypeOK /\ DistinctPatterns /\ RoutesOK /\ TokensOK
      /\ call \in [Call -> CallState]
      /\ served \in [Call -> [routes: SUBSET Route, secrets: SUBSET Secret, banned: BOOLEAN]]
  BY DEF GatewayInv, GatewayTypeOK, ProxyTypeOK
<1>3. /\ call' \in [Call -> CallState]
      /\ served' \in [Call -> [routes: SUBSET Route, secrets: SUBSET Secret, banned: BOOLEAN]]
      /\ \A d \in Call \ {c} : call'[d] = call[d] /\ served'[d] = served[d]
  BY <1>2
<1>4. ProxyTypeOK' /\ DistinctPatterns' /\ RoutesOK' /\ TokensOK'
  BY <1>2, <1>3 DEF ProxyTypeOK, DistinctPatterns, RoutesOK, TokensOK
<1>5. ASSUME NEW d \in Call PROVE CallOK(d)' /\ ServedOK(d)'
  <2>1. CASE d = c
    BY <2>1
  <2>2. CASE d # c
    <3>1. call'[d] = call[d] /\ served'[d] = served[d] /\ row' = row /\ CallOK(d) /\ ServedOK(d)
      BY <1>3, <2>2 DEF GatewayInv, vaultVars
    <3> QED
      BY <3>1 DEF CallOK, Routed, ServedOK, On, Banned, Matching
  <2> QED
    BY <2>1, <2>2
<1> QED
  BY <1>1, <1>4, <1>5 DEF GatewayInv, GatewayTypeOK

\* What every step of a call may use.
LEMMA CallFacts ==
    ASSUME GatewayInv, NEW c \in Call
    PROVE  /\ call \in [Call -> CallState] /\ call[c] \in CallState
           /\ served \in
                [Call -> [routes: SUBSET Route, secrets: SUBSET Secret, banned: BOOLEAN]]
           /\ served[c] \in [routes: SUBSET Route, secrets: SUBSET Secret, banned: BOOLEAN]
           /\ route \in [Route -> RouteRow]
           /\ CallOK(c) /\ ServedOK(c)
  BY DEF GatewayInv, GatewayTypeOK, ProxyTypeOK

\* A call that ends, answered or not, leaves nothing behind.
LEMMA EndKeepsAll ==
    ASSUME GatewayInv, NEW c \in Call, End(c),
           UNCHANGED <<vaultVars, agentToken, route, limit>>
    PROVE  GatewayInv'
<1>1. /\ NoCall \in CallState
      /\ Unserved \in [routes: SUBSET Route, secrets: SUBSET Secret, banned: BOOLEAN]
  BY DEF NoCall, CallState, Unserved, KeyOrNone
<1>2. call' = [call EXCEPT ![c] = NoCall] /\ served' = [served EXCEPT ![c] = Unserved]
  BY DEF End
<1>3. call'[c] = NoCall /\ served'[c] = Unserved
  BY <1>2, CallFacts
<1>4. CallOK(c)'
  BY <1>3 DEF CallOK, Routed, NoCall
<1>5. ServedOK(c)'
  BY <1>3 DEF ServedOK, NoCall, Unserved
<1> QED
  BY <1>1, <1>2, <1>4, <1>5, CallSteps

\* A call that goes on with what it has.
LEMMA GotoKeeps ==
    ASSUME GatewayInv, NEW c \in Call, NEW w \in CallState,
           call' = [call EXCEPT ![c] = w], UNCHANGED served,
           UNCHANGED <<vaultVars, agentToken, route, limit>>,
           w.pc \notin {"idle", "limit"}, call[c].pc # "idle", CallOK(c)',
           ~served[c].banned
    PROVE  GatewayInv'
<1>1. /\ served[c] \in [routes: SUBSET Route, secrets: SUBSET Secret, banned: BOOLEAN]
      /\ served' = [served EXCEPT ![c] = served[c]]
      /\ call'[c] = w /\ served'[c] = served[c]
  BY CallFacts
<1>2. ServedOK(c)'
  <2>1. ServedOK(c) /\ row' = row
    BY CallFacts DEF vaultVars
  <2> QED
    BY <1>1, <2>1 DEF ServedOK, On
<1> QED
  BY <1>1, <1>2, CallSteps

\* A call begins with an agent's live token, and with what is enabled, not deleted
\* and blocked at that moment.
LEMMA AuthenticateKeeps ==
    ASSUME GatewayInv, NEW c \in Call, NEW t \in AgentToken, NEW e \in Endpoint,
           NEW k \in Route \cup {None}, Authenticate(c, t, e, k), UNCHANGED vaultVars
    PROVE  GatewayInv'
<1>0. PICK a \in Agent : a = agentToken[t].agent
  BY DEF Authenticate, GatewayInv, TokensOK
<1> DEFINE w == [NoCall EXCEPT !.pc = "limit", !.agent = a, !.endpoint = e, !.key = k]
           v == [routes |-> {r \in Route : On(r)}, banned |-> Banned(a, e),
                 secrets |-> {s \in Secret : row[s].state # "deleted"}]
<1>1. /\ call' = [call EXCEPT ![c] = w] /\ served' = [served EXCEPT ![c] = v]
      /\ UNCHANGED <<agentToken, route, limit>>
  BY <1>0 DEF Authenticate
<1>3. /\ w \in CallState /\ w.pc = "limit" /\ w.agent = a /\ w.endpoint = e
      /\ w.route = None
  BY DEF NoCall, CallState, KeyOrNone
<1>4. /\ v.routes = {r \in Route : On(r)} /\ v.banned = Banned(a, e)
      /\ v.secrets = {s \in Secret : row[s].state # "deleted"}
      /\ v \in [routes: SUBSET Route, secrets: SUBSET Secret, banned: BOOLEAN]
  <2>1. Banned(a, e) \in BOOLEAN
    BY DEF Banned
  <2> QED
    BY <2>1
<1> HIDE DEF w, v
<1>5. call'[c] = w /\ served'[c] = v
  BY <1>1, CallFacts
<1>6. CallOK(c)'
  BY <1>3, <1>5 DEF CallOK, Routed
<1>7. ServedOK(c)'
  <2>1. row' = row /\ Banned(a, e)' = Banned(a, e)
    BY <1>1 DEF vaultVars, Banned, Matching
  <2>2. call'[c].agent = a /\ call'[c].endpoint = e /\ call'[c].pc = "limit"
    BY <1>3, <1>5
  <2>3. served'[c].banned => Banned(call[c].agent, call[c].endpoint)'
    <3>1. Banned(call[c].agent, call[c].endpoint)' <=> Banned(a, e)'
      BY <2>2 DEF Banned, Matching
    <3> QED
      BY <1>4, <1>5, <2>1, <3>1
  <2>4. \A r \in Route : (route[r].state = "on" => r \in served'[c].routes)
                         /\ (r \in served'[c].routes => route[r].state # "none")
    BY <1>4, <1>5 DEF On
  <2>5. \A s \in Secret : row[s].state # "deleted" => s \in served'[c].secrets
    BY <1>4, <1>5
  <2>6. served'[c].routes \subseteq Route
    BY <1>4, <1>5
  <2> QED
    BY <1>1, <2>1, <2>2, <2>3, <2>4, <2>5, <2>6 DEF ServedOK, On
<1> QED
  BY <1>1, <1>3, <1>4, <1>6, <1>7, CallSteps

\* Goto changes the program counter only.
LEMMA GotoFacts ==
    ASSUME GatewayInv, NEW c \in Call,
           NEW pc \in {"placeholder", "match", "secret", "blob", "forward"}, Goto(c, pc)
    PROVE  /\ call' = [call EXCEPT ![c] = [call[c] EXCEPT !.pc = pc]]
           /\ [call[c] EXCEPT !.pc = pc] \in CallState
           /\ call'[c].pc = pc
           /\ \A f \in {"agent", "endpoint", "key", "route", "secret", "dek"} :
                call'[c][f] = call[c][f]
           /\ [call[c] EXCEPT !.pc = pc].pc = pc
<1>1. call \in [Call -> CallState] /\ call[c] \in CallState
  BY CallFacts
<1>2. call' = [call EXCEPT ![c] = [call[c] EXCEPT !.pc = pc]]
  BY DEF Goto
<1>3. [call[c] EXCEPT !.pc = pc] \in CallState /\ [call[c] EXCEPT !.pc = pc].pc = pc
  BY <1>1 DEF CallState
<1>4. call'[c] = [call[c] EXCEPT !.pc = pc]
  BY <1>1, <1>2
<1>5. \A f \in {"agent", "endpoint", "key", "route", "secret", "dek"} :
        [call[c] EXCEPT !.pc = pc][f] = call[c][f]
  BY <1>1 DEF CallState
<1> QED
  BY <1>2, <1>3, <1>4, <1>5

\* One matching limit that does not block is enough to go on, and then the call was
\* not banned; a query that fails ends what the history says.
LEMMA CheckLimitKeeps ==
    ASSUME GatewayInv, NEW c \in Call, CheckLimit(c), UNCHANGED vaultVars
    PROVE  GatewayInv'
<1> DEFINE M == Matching(call[c].agent, call[c].endpoint)
<1>1. call[c].pc = "limit" /\ UNCHANGED <<vaultVars, agentToken, route, limit>>
  BY DEF CheckLimit
<1>2. /\ AfterLimit(c) \in {"placeholder", "match", "forward"}
      /\ AfterLimit(c) = "placeholder" => call[c].key \in Route
  <2>1. call[c].key \in Route \cup {None}
    BY CallFacts DEF CallState
  <2> QED
    BY <2>1 DEF AfterLimit
<1>3. PICK pc \in {"placeholder", "match", "forward"} :
        pc = AfterLimit(c)
  BY <1>2
<1>4. ASSUME Goto(c, pc) PROVE CallOK(c)'
  <2>1. /\ call'[c].pc = pc /\ call'[c].agent = call[c].agent
        /\ call'[c].endpoint = call[c].endpoint /\ call'[c].key = call[c].key
        /\ call'[c].route = call[c].route
    BY <1>4, GotoFacts
  <2>2. /\ call[c].agent \in Agent /\ call[c].endpoint \in Endpoint /\ call[c].route = None
    BY <1>1, CallFacts DEF CallOK
  <2> QED
    BY <1>2, <1>3, <2>1, <2>2 DEF CallOK, Routed
<1>5. CASE End(c)
  BY <1>1, <1>5, EndKeepsAll
<1>6. CASE (M = {} \/ \E p \in M : ~Blocked(call[c].agent, p)) /\ Goto(c, pc) /\ UNCHANGED served
  <2>1. ~Banned(call[c].agent, call[c].endpoint)
    BY <1>6 DEF Banned, Blocked
  <2>2. ~served[c].banned
    BY <1>1, <2>1, CallFacts DEF ServedOK
  <2> QED
    BY <1>1, <1>4, <1>6, <2>2, GotoFacts, GotoKeeps
<1>7. CASE Goto(c, pc) /\ served' = [served EXCEPT ![c].banned = FALSE]
  <2> DEFINE v == [served[c] EXCEPT !.banned = FALSE]
  <2>1. served' = [served EXCEPT ![c] = v]
    BY <1>7
  <2>2. /\ v \in [routes: SUBSET Route, secrets: SUBSET Secret, banned: BOOLEAN]
        /\ v.routes = served[c].routes /\ v.secrets = served[c].secrets /\ ~v.banned
    BY CallFacts
  <2> HIDE DEF v
  <2>3. served'[c] = v
    BY <2>1, CallFacts
  <2>4. ServedOK(c)'
    <3>1. call'[c].pc = pc /\ ServedOK(c) /\ row' = row
      BY <1>7, GotoFacts, CallFacts DEF vaultVars
    <3> QED
      BY <1>1, <2>2, <2>3, <3>1 DEF ServedOK, On
  <2>5. CallOK(c)'
    BY <1>4, <1>7
  <2> QED
    <3> DEFINE w == [call[c] EXCEPT !.pc = pc]
    <3>1. w \in CallState /\ call' = [call EXCEPT ![c] = w]
      BY <1>7, GotoFacts
    <3> HIDE DEF w
    <3> QED
      BY <1>1, <2>1, <2>2, <2>4, <2>5, <3>1, CallSteps
<1> QED
  BY <1>3, <1>5, <1>6, <1>7 DEF CheckLimit

\* A route that is taken is enabled and the calling agent's own.
LEMMA TakeKeeps ==
    ASSUME GatewayInv, NEW c \in Call, NEW r \in Route, Take(c, r), Owns(c, r),
           call[c].pc \in {"placeholder", "match"}, UNCHANGED served,
           UNCHANGED <<vaultVars, agentToken, route, limit>>
    PROVE  GatewayInv'
<1> DEFINE w == [call[c] EXCEPT !.pc = "secret", !.route = r, !.secret = route[r].secret]
<1>1. call[c] \in CallState /\ call \in [Call -> CallState] /\ CallOK(c) /\ ServedOK(c)
  BY CallFacts
<1>2. route[r].secret \in Secret /\ route[r].agent = call[c].agent
  BY DEF GatewayInv, RoutesOK, Owns, On
<1>3. call' = [call EXCEPT ![c] = w]
  BY DEF Take
<1>4. /\ w \in CallState /\ w.pc = "secret" /\ w.route = r /\ w.secret = route[r].secret
      /\ w.agent = call[c].agent /\ w.endpoint = call[c].endpoint
  BY <1>1, <1>2 DEF CallState
<1> HIDE DEF w
<1>5. call'[c] = w
  BY <1>1, <1>3
<1>6. r \in served[c].routes /\ ~served[c].banned
  BY <1>1 DEF ServedOK, Owns
<1>7. CallOK(c)'
  <2>1. call[c].agent \in Agent /\ call[c].endpoint \in Endpoint
    BY <1>1 DEF CallOK
  <2> QED
    BY <1>2, <1>4, <1>5, <1>6, <2>1 DEF CallOK, Routed
<1> QED
  BY <1>3, <1>4, <1>6, <1>7, GotoKeeps

\* The two ways to a route, and on without one.
LEMMA FindKeeps ==
    ASSUME GatewayInv, NEW c \in Call, FindByPlaceholder(c) \/ FindMatchingRoute(c),
           UNCHANGED vaultVars
    PROVE  GatewayInv'
<1>1. /\ call[c].pc \in {"placeholder", "match"} /\ UNCHANGED served
      /\ UNCHANGED <<vaultVars, agentToken, route, limit>>
  BY DEF FindByPlaceholder, FindMatchingRoute
<1>2. CallOK(c) /\ ~served[c].banned
  BY <1>1, CallFacts DEF ServedOK
<1>3. ASSUME NEW r \in Route, Owns(c, r), Take(c, r) PROVE GatewayInv'
  BY <1>1, <1>3, TakeKeeps
<1>4. ASSUME NEW pc \in {"match", "forward"}, Goto(c, pc) PROVE GatewayInv'
  <2>1. /\ call'[c].pc = pc /\ call'[c].agent = call[c].agent
        /\ call'[c].endpoint = call[c].endpoint /\ call'[c].route = call[c].route
    BY <1>4, GotoFacts
  <2>2. CallOK(c)'
    BY <1>1, <1>2, <2>1 DEF CallOK, Routed
  <2> QED
    BY <1>1, <1>2, <1>4, <2>2, GotoFacts, GotoKeeps
<1>5. CASE FindByPlaceholder(c)
  <2>1. call[c].key \in Route
    BY <1>2, <1>5 DEF FindByPlaceholder, CallOK
  <2> QED
    BY <1>3, <1>4, <1>5, <2>1 DEF FindByPlaceholder
<1>6. CASE FindMatchingRoute(c)
  <2>1. \A r \in Longest(Routes(c)) : r \in Route /\ Owns(c, r)
    BY DEF Longest, Routes, Owns
  <2> QED
    BY <1>3, <1>4, <1>6, <2>1 DEF FindMatchingRoute
<1> QED
  BY <1>5, <1>6

\* A secret is read while it is live; then the blob is read, whatever became of it.
LEMMA ReadKeeps ==
    ASSUME GatewayInv, NEW c \in Call, GetSecretByID(c) \/ GetBlob(c), UNCHANGED vaultVars
    PROVE  GatewayInv'
<1>1. /\ call[c].pc \in {"secret", "blob"}
      /\ UNCHANGED <<vaultVars, agentToken, route, limit>>
  BY DEF GetSecretByID, GetBlob
<1>2. /\ CallOK(c) /\ ~served[c].banned /\ call[c] \in CallState /\ call \in [Call -> CallState]
      /\ Routed(c) /\ ServedOK(c)
  BY <1>1, CallFacts DEF ServedOK, Routed
<1>3. CASE End(c)
  BY <1>1, <1>3, EndKeepsAll
<1>4. CASE GetSecretByID(c) /\ ~End(c)
  <2> DEFINE s == call[c].secret
             w == [call[c] EXCEPT !.pc = "blob", !.dek = row[s].dek]
  <2>1. s \in Secret /\ Live(s) /\ call' = [call EXCEPT ![c] = w] /\ UNCHANGED served
    BY <1>2, <1>4 DEF GetSecretByID, Found, CallOK
  <2>2. row[s].dek \in KeyOrNone
    BY <2>1 DEF GatewayInv, GatewayTypeOK, VaultTypeOK, RowType
  <2>3. /\ w \in CallState /\ w.pc = "blob" /\ w.route = call[c].route /\ w.secret = s
        /\ w.agent = call[c].agent /\ w.endpoint = call[c].endpoint
    BY <1>2, <2>2 DEF CallState
  <2>4. s \in served[c].secrets
    BY <1>1, <1>2, <2>1 DEF ServedOK, Live
  <2> HIDE DEF w
  <2>5. call'[c] = w
    BY <1>2, <2>1
  <2>6. CallOK(c)'
    BY <1>1, <1>2, <2>1, <2>3, <2>4, <2>5 DEF CallOK, Routed
  <2> QED
    BY <1>1, <1>2, <2>1, <2>3, <2>6, GotoKeeps
<1>5. CASE GetBlob(c) /\ ~End(c)
  <2>1. Goto(c, "forward") /\ UNCHANGED served /\ call[c].pc = "blob"
    BY <1>5 DEF GetBlob
  <2>2. /\ call'[c].pc = "forward" /\ call'[c].agent = call[c].agent
        /\ call'[c].endpoint = call[c].endpoint /\ call'[c].route = call[c].route
        /\ call'[c].secret = call[c].secret
    BY <2>1, GotoFacts
  <2>3. CallOK(c)'
    BY <1>1, <1>2, <2>1, <2>2 DEF CallOK, Routed
  <2> QED
    BY <1>1, <1>2, <2>1, <2>3, GotoFacts, GotoKeeps
<1> QED
  BY <1>3, <1>4, <1>5

\* The vault's handlers run while calls are on: a secret that was deleted before a
\* call arrived is never one it may use.
LEMMA VaultUnderCalls ==
    ASSUME GatewayInv, VaultNext, UNCHANGED gatewayVars
    PROVE  GatewayInv'
<1>1. VaultTypeOK' /\ VaultInv'
  BY VaultKeeps DEF GatewayInv, GatewayTypeOK
<1>2. \A s \in Secret : row'[s].state # "deleted" => row[s].state # "deleted"
  BY DeletedForGood DEF GatewayInv, GatewayTypeOK
<1>3. UNCHANGED <<agentToken, route, limit, call, served>>
  BY DEF gatewayVars
<1>4. ProxyTypeOK' /\ DistinctPatterns' /\ RoutesOK' /\ TokensOK'
  BY <1>3 DEF GatewayInv, GatewayTypeOK, ProxyTypeOK, DistinctPatterns, RoutesOK, TokensOK
<1>5. ASSUME NEW c \in Call PROVE CallOK(c)' /\ ServedOK(c)'
  <2>1. CallOK(c) /\ ServedOK(c)
    BY DEF GatewayInv
  <2>2. CallOK(c)'
    BY <1>3, <2>1 DEF CallOK, Routed
  <2> QED
    BY <1>2, <1>3, <2>1, <2>2 DEF ServedOK, On, Banned, Matching
<1> QED
  BY <1>1, <1>4, <1>5 DEF GatewayInv, GatewayTypeOK

-----------------------------------------------------------------------------
(* The theorems                                                            *)

\* An empty vault, and nobody calling.
LEMMA InitGateway ==
    ASSUME Init
    PROVE  GatewayInv
<1>1. VaultTypeOK
  BY DEF Init, VaultInit, VaultTypeOK, RowType, Work, KeyOrNone, NoRow, NoWork
<1>2. VaultInv
  BY DEF Init, VaultInit, VaultInv, WriterOK, PutsFit, ReadableUnlessHurt, Putting, Live,
         NoRow, NoWork
<1>3. ProxyTypeOK
  BY DEF Init, ProxyTypeOK, RouteRow, CallState, KeyOrNone, NoToken, NoRoute, NoCall, Unserved
<1>4. DistinctPatterns /\ RoutesOK /\ TokensOK
  BY DEF Init, DistinctPatterns, RoutesOK, TokensOK, NoToken, NoRoute
<1>5. \A c \in Call : CallOK(c) /\ ServedOK(c)
  BY DEF Init, CallOK, Routed, ServedOK, NoCall, Unserved
<1> QED
  BY <1>1, <1>2, <1>3, <1>4, <1>5 DEF GatewayInv, GatewayTypeOK

\* Every step of the vault, of the management API and of a call keeps the invariant.
LEMMA NextGateway ==
    ASSUME GatewayInv, [Next]_vars
    PROVE  GatewayInv'
<1>1. CASE VaultNext /\ UNCHANGED gatewayVars
  BY <1>1, VaultUnderCalls
<1>2. CASE Manage /\ UNCHANGED vaultVars
  BY <1>2, ManageKeeps
<1>3. ASSUME NEW c \in Call, Proxy(c), UNCHANGED vaultVars
      PROVE  GatewayInv'
  <2>1. CASE \E t \in AgentToken, e \in Endpoint, k \in Route \cup {None} :
               Authenticate(c, t, e, k)
    BY <1>3, <2>1, AuthenticateKeeps
  <2>2. CASE Forward(c) \/ Abort(c)
    BY <1>3, <2>2, EndKeepsAll DEF Forward, Abort
  <2> QED
    BY <1>3, <2>1, <2>2, CheckLimitKeeps, FindKeeps, ReadKeeps DEF Proxy
<1>4. CASE UNCHANGED vars
  <2>1. VaultTypeOK' /\ VaultInv'
    BY <1>4, VaultStays DEF vars, GatewayInv, GatewayTypeOK
  <2>2. UNCHANGED <<row, agentToken, route, limit, call, served>>
    BY <1>4 DEF vars, vaultVars, gatewayVars
  <2>3. ProxyTypeOK' /\ DistinctPatterns' /\ RoutesOK' /\ TokensOK'
    BY <2>2 DEF GatewayInv, GatewayTypeOK, ProxyTypeOK, DistinctPatterns, RoutesOK, TokensOK
  <2>4. \A c \in Call : CallOK(c)' /\ ServedOK(c)'
    BY <2>2 DEF GatewayInv, CallOK, Routed, ServedOK, On, Banned, Matching
  <2> QED
    BY <2>1, <2>3, <2>4 DEF GatewayInv, GatewayTypeOK
<1> QED
  BY <1>1, <1>2, <1>3, <1>4 DEF Next

\* The invariant of the vault and of the gateway over it.
THEOREM GatewayInvariance == Spec => []GatewayInv
<1>1. Init => GatewayInv
  BY InitGateway
<1>2. GatewayInv /\ [Next]_vars => GatewayInv'
  BY NextGateway
<1> QED
  BY <1>1, <1>2, PTL DEF Spec

\* Rows, blobs, tokens, routes and locals are well typed, and the routes of an agent
\* never come to share a pattern, however they are moved.
THEOREM GatewayTypeCorrect == Spec => []GatewayTypeOK
<1>1. GatewayInv => GatewayTypeOK
  BY DEF GatewayInv
<1> QED
  BY <1>1, GatewayInvariance, PTL

\* Row and blob are written one after the other and to two stores: a live secret
\* decrypts unless an update of it was cut off, overlapped or brought half a pair.
THEOREM SecretsReadable == Spec => []ReadableUnlessHurt
<1>1. GatewayInv => ReadableUnlessHurt
  BY DEF GatewayInv, VaultInv
<1> QED
  BY <1>1, GatewayInvariance, PTL

\* Whatever changes between the reads of a proxied call, it injects by its agent's
\* own route and a secret that was live when it arrived.
THEOREM OwnLiveInjected == Spec => []InjectsOwnLive
<1>1. GatewayInv => InjectsOwnLive
  BY DEF GatewayInv, InjectsOwnLive, CallOK, Routed
<1> QED
  BY <1>1, GatewayInvariance, PTL

\* FindEndpointLimit takes any of the matching limits: when every one blocks, and
\* they stay, the call gets no further.
THEOREM BlocksHold == Spec => []BlockHolds
<1>1. GatewayInv => BlockHolds
  BY DEF GatewayInv, BlockHolds, ServedOK
<1> QED
  BY <1>1, GatewayInvariance, PTL
=============================================================================
