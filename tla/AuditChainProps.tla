--------------------------- MODULE AuditChainProps ----------------------------
(***************************************************************************)
(* What the audit log must guarantee, and why it does.                     *)
(***************************************************************************)
EXTENDS AuditChain

Hash == Seq([v: {1, 2}, id: Id, ip: IP, date: Date \cup {NoDate}])
Stored == {e \in Entry : e.id \in Uuid /\ Column(e) = e}
AuditRow == [seq: Nat, entry: Stored, hash: Hash]
Locals == [pc: {"idle", "lock", "insert", "advance", "commit"},
           entry: Entry \cup {NoEntry}, odd: BOOLEAN, seq: Nat, hash: Hash]

Manager == [up: BOOLEAN, ran: BOOLEAN, todo: Seq(Months), failed: BOOLEAN]

\* Rows, locals and the manager's state have the types of the code's; what is
\* stored has UUIDs for its ids and is in the columns' own spelling.
AuditTypeOK ==
    /\ date \in Date /\ date.month <= MaxMonth
    /\ parts \subseteq Months
    /\ logs \in Seq(AuditRow) /\ misspelt \subseteq 1..Len(logs)
    /\ chain \in [seq: Nat, hash: Hash]
    /\ lock \in Writer \cup {None}
    /\ writer \in [Writer -> Locals]
    /\ manager \in Manager

LastHash == IF logs = <<>> THEN <<>> ELSE logs[Len(logs)].hash

\* Logger's comment: seqs are contiguous, and the cursor is the chain's end, so
\* writers, restarts and failed transactions extend one chain.
SeqsContiguous ==
    /\ \A i \in 1..Len(logs) : logs[i].seq = i
    /\ chain = [seq |-> Len(logs), hash |-> LastHash]

\* What queryLogs reads back does not always verify, as canonicalIP (logger.go:199),
\* canonicalTime (hash-chain.go:30) and the type of metadata (migration 000042) are
\* meant to ensure: a row whose caller spelt an id or an address in another way than
\* the database fails for good.  But no other row does, v1 or v2, whatever writers,
\* failures and restarts came in between.
OnlyMisspeltFail ==
    \A i \in 1..Len(logs) : RowVerifies(logs, i) <=> i \notin misspelt

Changed(i, e) == [logs EXCEPT ![i].entry = e]
Without(i) == [j \in 1..(Len(logs) - 1) |-> IF j < i THEN logs[j] ELSE logs[j + 1]]
Swapped(i) == [logs EXCEPT ![i] = logs[i + 1], ![i + 1] = logs[i]]

IsV2(i) == logs[i].hash[i].v = 2

\* A row that was edited does not verify, and neither does what comes into the
\* place of one that was removed or exchanged with the next (hashPayload); a v1 row
\* is covered in the columns that v1 hashes.
TamperEvident ==
    \A i \in 1..Len(logs) :
        /\ \A a \in Id, p \in IP, d \in {logs[j].entry.date : j \in 1..Len(logs)} :
             LET e == [id |-> a, ip |-> p, date |-> d, ns |-> 0] IN
             /\ Column(e) = e
             /\ IF IsV2(i) THEN e # logs[i].entry ELSE a # logs[i].entry.id
             => ~RowVerifies(Changed(i, e), i)
        /\ i < Len(logs) => ~RowVerifies(Without(i), i) /\ ~RowVerifies(Swapped(i), i)

\* Once EnsurePartitions has gone through without an error, today's entries have
\* a partition, and so have the next two months' when no month is too short for
\* today's day (time.AddDate).
PartitionsAhead ==
    manager.up /\ manager.ran /\ manager.todo = <<>> /\ ~manager.failed =>
        /\ date.month \in parts
        /\ \A i \in {1, 2} :
             date.day <= MonthLen[date.month + 1] /\ date.day <= MonthLen[date.month + 2]
             => date.month + i \in parts

\* Every Log call returns, so the request that waits for it goes on: nobody
\* keeps the row lock.
EveryLogEnds ==
    \A w \in Writer : writer[w].pc # "idle" ~> writer[w].pc = "idle"

\* What a call logs, as it can be read back.
Readable(w) == IF writer[w].pc = "idle" THEN NoEntry ELSE Column(writer[w].entry)

Trail == INSTANCE AuditTrail
           WITH TrailEntry <- Entry, NoCall <- NoEntry,
                trail <- [i \in 1..Len(logs) |-> logs[i].entry],
                call <- [w \in Writer |-> Readable(w)]

\* The log implements the append-only trail, with interleaved transactions,
\* rollbacks and crashes.
ImplementsTrail == Trail!TrailSpec

-----------------------------------------------------------------------------
(* Why the chain stays in one piece: an inductive invariant                *)

InTx == {"insert", "advance", "commit"}

\* Whoever is past the lock holds it, and only one writer can.
HolderOK == \A w \in Writer : writer[w].pc \in InTx => lock = w

\* The holder has read the end of the chain, and hashed what will be stored.
HeadOK ==
    \A w \in Writer : writer[w].pc \in InTx =>
        /\ writer[w].seq = chain.seq + 1
        /\ writer[w].hash = ComputeHash(writer[w].entry, chain.hash)

\* An entry under way reads back as it is unless it is misspelt, and gets past
\* Insert with UUIDs only.
EntryOK ==
    \A w \in Writer : LET e == writer[w].entry IN
        /\ writer[w].pc = "idle" => e = NoEntry
        /\ writer[w].pc # "idle" =>
             e \in Entry /\ e.ns = 0 /\ (writer[w].odd <=> Column(e) # e)
        /\ writer[w].pc \in {"advance", "commit"} => e.id \in Uuid

\* A row's hash is that of the entry e that its caller logged.
HashOf(i, e) ==
    /\ e \in Entry /\ e.ns = 0
    /\ logs[i].entry = Column(e)
    /\ i \in misspelt <=> Column(e) # e
    /\ \/ logs[i].hash = ComputeHash(e, PrevHash(logs, i))
       \/ Column(e) = e /\ logs[i].hash = ComputeHashV1(e, PrevHash(logs, i))

RowsHashed == \A i \in 1..Len(logs) : \E e \in Entry : HashOf(i, e)

ChainInv ==
    AuditTypeOK /\ HolderOK /\ HeadOK /\ EntryOK /\ SeqsContiguous /\ RowsHashed

\* The i-th hash holds i contributions, so no row can take another's place.
HashesGrow == \A i \in 1..Len(logs) : Len(logs[i].hash) = i

\* A manager that has met no error since EnsurePartitions began has created the
\* partition of each target, or has it still to do; nothing is left to do when
\* the day ends.
TargetsOK ==
    /\ ~manager.up => ~manager.ran
    /\ ~manager.ran => manager.todo = <<>>
    /\ manager.ran /\ ~manager.failed =>
         \A k \in 1..3 :
             \/ Targets(date)[k] \in parts
             \/ \E j \in 1..Len(manager.todo) : manager.todo[j] = Targets(date)[k]
=============================================================================
