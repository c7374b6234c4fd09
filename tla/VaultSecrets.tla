----------------------------- MODULE VaultSecrets -----------------------------
(***************************************************************************)
(* The vault, server/internal/vault: rows of `secrets` in PostgreSQL with  *)
(* the wrapped data key, and the blobs encrypted under it in MinIO.  No    *)
(* transaction spans the two stores.                                       *)
(*                                                                         *)
(* A Writer is a handler goroutine.  A data key stands for the value it    *)
(* encrypts, and with which alone its blob can be read.  All requests are   *)
(* of the secret's owner; those of others match no row and change nothing. *)
(***************************************************************************)
CONSTANTS
    Secret,        \* ids of secrets
    Key,           \* data keys
    Writer,        \* handler goroutines that create or update a secret
    None,          \* no value
    Faults         \* whether a statement may fail or the server stop

ASSUME VaultAssumption ==
    /\ None \notin Secret \cup Key
    /\ Faults \in BOOLEAN

VARIABLES
    row,           \* secrets
    blob,          \* objects in MinIO: the key each is encrypted under
    writer,        \* the locals of each handler
    hurt           \* history: secrets the server may not read: created with a key
                   \* and a blob of the client's that do not fit, or whose last
                   \* update was cut off, overlapped, or brought what does not fit

vaultVars == <<row, blob, writer, hurt>>

NoRow == [state |-> "none", dek |-> None]
NoWork == [pc |-> "idle", secret |-> None, dek |-> None, blob |-> None]

VaultInit ==
    /\ row = [s \in Secret |-> NoRow]
    /\ blob = [s \in Secret |-> None]
    /\ writer = [h \in Writer |-> NoWork]
    /\ hurt = {}

Live(s) == row[s].state = "live"

\* What a request brings, None for what it leaves out.  The server encrypts a value
\* under a key that it makes for it; a blob and a key from the client are stored as
\* they come, whether one fits the other or not.
NewValue == [dek: Key \cup {None}, blob: Key]
Change == [dek: Key \cup {None}, blob: Key \cup {None}]

\* The handlers that have written the row of s and not yet its blob.
Putting(s) == {h \in Writer : writer[h].pc = "put" /\ writer[h].secret = s}

Begin(h, pc, s, in) ==
    /\ writer[h].pc = "idle"
    /\ writer' = [writer EXCEPT ![h] =
         [pc |-> pc, secret |-> s, dek |-> in.dek, blob |-> in.blob]]

-----------------------------------------------------------------------------
(* POST /secrets                                                           *)

\* BEGIN, INSERT and UPDATE of the storage key: nobody sees the row yet.
CreateSecret(h, s) ==
    /\ row[s].state = "none" /\ blob[s] = None
    /\ \A g \in Writer : writer[g].secret # s
    /\ \E in \in NewValue : Begin(h, "create", s, in)
    /\ UNCHANGED <<row, blob, hurt>>

\* Put inside the transaction.
PutNew(h) ==
    LET w == writer[h] IN
    /\ w.pc = "create"
    /\ blob' = [blob EXCEPT ![w.secret] = w.blob]
    /\ writer' = [writer EXCEPT ![h].pc = "commit"]
    /\ UNCHANGED <<row, hurt>>

CommitCreate(h) ==
    LET w == writer[h] IN
    /\ w.pc = "commit"
    /\ row' = [row EXCEPT ![w.secret] = [state |-> "live", dek |-> w.dek]]
    /\ writer' = [writer EXCEPT ![h] = NoWork]
    /\ hurt' = IF w.dek = w.blob THEN hurt ELSE hurt \cup {w.secret}
    /\ UNCHANGED blob

-----------------------------------------------------------------------------
(* PUT and DELETE /secrets/{id}                                            *)

UpdateSecret(h, s) ==
    /\ Live(s)
    /\ \E in \in Change : Begin(h, "update", s, in)
    /\ UNCHANGED <<row, blob, hurt>>

\* Mutant: the key is overwritten by a request that brings none.
CoalesceNot(new, old) == new

\* COALESCE($3, encrypted_dek).
Coalesce(new, old) == IF new = None THEN old ELSE new

\* UPDATE .. WHERE deleted_at IS NULL commits the key; a rename ends here.
UpdateRow(h) ==
    LET w == writer[h]
        s == w.secret
        dek == Coalesce(w.dek, row[s].dek)
    IN
    /\ w.pc = "update"
    /\ IF Live(s)
       THEN /\ row' = [row EXCEPT ![s].dek = dek]
            /\ IF w.blob = None
               THEN /\ writer' = [writer EXCEPT ![h] = NoWork]
                    /\ hurt' = IF w.dek = None THEN hurt ELSE hurt \cup {s}
               ELSE /\ writer' = [writer EXCEPT ![h].pc = "put"]
                    /\ hurt' = IF Putting(s) = {} /\ w.blob = dek
                               THEN hurt \ {s} ELSE hurt \cup {s}
       ELSE /\ writer' = [writer EXCEPT ![h] = NoWork]
            /\ UNCHANGED <<row, hurt>>
    /\ UNCHANGED blob

\* Put after the statement: the blob is replaced in place.
PutBlob(h) ==
    LET w == writer[h] IN
    /\ w.pc = "put"
    /\ blob' = [blob EXCEPT ![w.secret] = w.blob]
    /\ writer' = [writer EXCEPT ![h] = NoWork]
    /\ UNCHANGED <<row, hurt>>

\* A soft delete: the row stays, and so does the blob.
DeleteSecret(s) ==
    /\ Live(s)
    /\ row' = [row EXCEPT ![s].state = "deleted"]
    /\ UNCHANGED <<blob, writer, hurt>>

-----------------------------------------------------------------------------
\* A statement or a Put fails, the caller goes away, or the server stops.
CutOff(h) ==
    /\ Faults
    /\ writer[h].pc # "idle"
    /\ hurt' = IF writer[h].pc = "put" THEN hurt \cup {writer[h].secret} ELSE hurt
    /\ writer' = [writer EXCEPT ![h] = NoWork]
    /\ UNCHANGED <<row, blob>>

VaultStep(h) == PutNew(h) \/ CommitCreate(h) \/ UpdateRow(h) \/ PutBlob(h)

VaultNext ==
    \/ \E h \in Writer :
        \/ \E s \in Secret : CreateSecret(h, s) \/ UpdateSecret(h, s)
        \/ VaultStep(h)
        \/ CutOff(h)
    \/ \E s \in Secret : DeleteSecret(s)
=============================================================================
