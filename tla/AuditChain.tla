----------------------------- MODULE AuditChain ------------------------------
(***************************************************************************)
(* The audit log of server/internal/audit: a hash chain in audit_logs whose*)
(* head is the single row of audit_chain_state, extended by concurrent     *)
(* Logger.Log calls, and the partition manager of server/internal/database *)
(* that creates the monthly partitions the rows go into.                   *)
(*                                                                         *)
(* A SHA-256 value is what went into it: the sequence of what this entry   *)
(* and all entries before it contribute, so different inputs have          *)
(* different hashes.                                                       *)
(***************************************************************************)
EXTENDS Naturals, Sequences, FiniteSets

CONSTANTS
    Writer,      \* goroutines that call Log
    Id,          \* texts of ids: as the server writes them, as a URL brings them
    Uuid,        \* the texts that a UUID column accepts
    UuidText,    \* the text such a column renders for each of them
    IP,          \* texts of an address: header contents, inet renderings
    None,        \* the empty string / NULL
    CanonicalIP, \* canonicalIP: the text netip writes, None for junk
    Inet,        \* the text an inet column renders
    MonthLen,    \* the number of days of each month
    InitParts,   \* months whose partitions the migrations created
    StartDates,  \* dates on which the history may begin
    MaxOld,      \* bound on the rows written before the v2 upgrade
    MaxLog,      \* bound on the rows
    MaxMonth,    \* bound on the calendar
    Faults       \* whether statements fail and the server crashes

Months == 1..Len(MonthLen)
Date == UNION {{[month |-> m, day |-> d] : d \in 1..MonthLen[m]} : m \in Months}
NoDate == [month |-> 0, day |-> 0]

\* What a column renders it renders again when it is stored once more.
ASSUME IdAssumption ==
    /\ Uuid \subseteq Id /\ None \notin Id \cup Writer
    /\ UuidText \in [Id -> Id]
    /\ \A a \in Uuid : UuidText[a] \in Uuid
    /\ \A a \in Id : UuidText[UuidText[a]] = UuidText[a]

ASSUME IPAssumption ==
    /\ None \in IP
    /\ CanonicalIP \in [IP -> IP] /\ Inet \in [IP -> IP]
    /\ \A i \in IP : Inet[Inet[i]] = Inet[i]

ASSUME CalendarAssumption ==
    /\ MonthLen \in Seq(Nat \ {0})
    /\ MaxMonth \in Nat /\ MaxMonth + 3 <= Len(MonthLen)
    /\ InitParts \subseteq Months
    /\ StartDates \subseteq Date /\ \A d \in StartDates : d.month <= MaxMonth

ASSUME AuditBounds == MaxOld \in Nat /\ MaxLog \in Nat /\ Faults \in BOOLEAN

VARIABLES
    date,        \* today, UTC
    parts,       \* months of the existing audit_logs partitions
    logs,        \* committed audit_logs rows, in commit order
    misspelt,    \* history: the rows with a text that its column does not give back
    chain,       \* the audit_chain_state row
    lock,        \* the writer whose transaction has locked that row
    writer,      \* what each Log call holds in its locals
    manager      \* the partition manager, and with it the server process

vars == <<date, parts, logs, misspelt, chain, lock, writer, manager>>

-----------------------------------------------------------------------------
(* Entries, hashes and the verification of a chain                         *)

\* id stands for the columns that both hash versions cover, two of them UUIDs
\* (user_id, resource_id); ip, date and ns for those that only v2 does; ns is what
\* a microsecond cuts off.
Entry == [id: Id, ip: IP, date: Date, ns: {0, 1}]
NoEntry == [id |-> None, ip |-> None, date |-> NoDate, ns |-> 0]

Truncate(e) == [e EXCEPT !.ns = 0]

\* What Log does to an entry before it is hashed: the ids stay as they came.
Normalize(e) == [Truncate(e) EXCEPT !.ip = CanonicalIP[@]]

\* What the columns give back: UUIDs and addresses in the database's own spelling,
\* times in microseconds.
Column(e) == [Truncate(e) EXCEPT !.id = UuidText[@], !.ip = Inet[@]]

\* A caller's id in another spelling than the database's, or an address that netip
\* and inet write differently (an IPv6 address with IPv4 in its last four bytes).
Misspelt(e) == UuidText[e.id] # e.id \/ Inet[CanonicalIP[e.ip]] # CanonicalIP[e.ip]

Link2(e) == [v |-> 2, id |-> e.id, ip |-> e.ip, date |-> e.date]
Link1(e) == [v |-> 1, id |-> e.id, ip |-> None, date |-> NoDate]

\* Mutant: the v2 preimage leaves out the address, as v1 did.
ComputeHashShort(e, prev) == Append(prev, [Link2(e) EXCEPT !.ip = None])

ComputeHash(e, prev) == Append(prev, Link2(Truncate(e)))
ComputeHashV1(e, prev) == Append(prev, Link1(e))

PrevHash(s, i) == IF i = 1 THEN <<>> ELSE s[i - 1].hash

\* A stored hash must be one of the two hashes of its entry on top of the stored
\* hash before it; VerifyChain goes through the entries in seq order.
RowVerifies(s, i) ==
    s[i].hash \in {ComputeHash(s[i].entry, PrevHash(s, i)),
                   ComputeHashV1(s[i].entry, PrevHash(s, i))}

-----------------------------------------------------------------------------
(* Dates and partitions                                                    *)

\* Mutant: the current month is left to the migrations.
TargetsAhead(d) == <<d.month + 1, d.month + 2, d.month + 3>>

\* time.AddDate(0, i, 0): a day that the month lacks runs over into the next.
AddDate(d, i) ==
    IF d.day > MonthLen[d.month + i] THEN d.month + i + 1 ELSE d.month + i

\* The months EnsurePartitions creates a partition for, in order.
Targets(d) == <<AddDate(d, 0), AddDate(d, 1), AddDate(d, 2)>>

Tomorrow(d) ==
    IF d.day < MonthLen[d.month] THEN [d EXCEPT !.day = @ + 1]
    ELSE [month |-> d.month + 1, day |-> 1]

-----------------------------------------------------------------------------
Quiet == [pc |-> "idle", entry |-> NoEntry, odd |-> FALSE, seq |-> 0, hash |-> <<>>]
Down == [up |-> FALSE, ran |-> FALSE, todo |-> <<>>, failed |-> FALSE]

OldRow(old, i) ==
    [seq |-> i, entry |-> old[i], hash |-> [j \in 1..i |-> Link1(old[j])]]

\* What an old row may hold; its date, which v1 does not cover, is today's.
OldEntry == {e \in [id: Uuid, ip: IP, date: {date}, ns: {0}] : Column(e) = e}

\* The chain as the v2 migration finds it, with the cursor seeded from its tail.
Init ==
    /\ date \in StartDates
    /\ parts = InitParts
    /\ \E n \in 0..MaxOld :
        \E old \in [1..n -> OldEntry] :
          /\ logs = [i \in 1..n |-> OldRow(old, i)]
          /\ chain = [seq |-> n, hash |-> IF n = 0 THEN <<>> ELSE OldRow(old, n).hash]
    /\ misspelt = {}
    /\ lock = None
    /\ writer = [w \in Writer |-> Quiet]
    /\ manager = Down

-----------------------------------------------------------------------------
(* Logger.Log, one transaction                                             *)

Holds(w) == lock = w
Goto(w, pc) == writer' = [writer EXCEPT ![w].pc = pc]

\* The end of a transaction releases the row lock and forgets the locals.
End(w) ==
    /\ writer' = [writer EXCEPT ![w] = Quiet]
    /\ lock' = IF Holds(w) THEN None ELSE lock

\* The entry gets its time and its canonical form before the transaction; odd is a
\* note of how the caller spelt it.
Log(w, e) ==
    /\ manager.up
    /\ writer[w].pc = "idle"
    /\ e.date = date
    /\ Len(logs) + Cardinality({v \in Writer : writer[v].pc # "idle"}) < MaxLog
    /\ writer' = [writer EXCEPT ![w] = [Quiet EXCEPT !.pc = "lock", !.entry = Normalize(e),
                                                     !.odd = Misspelt(e)]]
    /\ UNCHANGED <<date, parts, logs, misspelt, chain, lock, manager>>

\* Mutant: a plain SELECT does not wait for the other writer.
ReadChain(w) ==
    /\ writer[w].pc = "lock"
    /\ lock' = w
    /\ writer' = [writer EXCEPT ![w].pc = "insert", ![w].seq = chain.seq + 1,
                     ![w].hash = ComputeHash(writer[w].entry, chain.hash)]
    /\ UNCHANGED <<date, parts, logs, misspelt, chain, manager>>

\* SELECT .. FOR UPDATE waits for the row and reads what was last committed.
LockChain(w) ==
    /\ writer[w].pc = "lock"
    /\ lock = None
    /\ lock' = w
    /\ writer' = [writer EXCEPT ![w].pc = "insert", ![w].seq = chain.seq + 1,
                     ![w].hash = ComputeHash(writer[w].entry, chain.hash)]
    /\ UNCHANGED <<date, parts, logs, misspelt, chain, manager>>

\* Mutant: an id is any text.
StorableText(e) == e.date.month \in parts

\* A row goes into the partition of its month, and its ids into UUID columns.
Storable(e) == e.id \in Uuid /\ e.date.month \in parts

\* Mutant: a refused INSERT returns without the deferred Rollback.
InsertKeepsLock(w) ==
    /\ writer[w].pc = "insert"
    /\ IF Storable(writer[w].entry) THEN Goto(w, "advance")
       ELSE writer' = [writer EXCEPT ![w] = Quiet]
    /\ UNCHANGED <<date, parts, logs, misspelt, chain, lock, manager>>

\* INSERT INTO audit_logs; the row is the transaction's own until it commits.
Insert(w) ==
    /\ writer[w].pc = "insert"
    /\ IF Storable(writer[w].entry) THEN Goto(w, "advance") /\ UNCHANGED lock
       ELSE End(w)
    /\ UNCHANGED <<date, parts, logs, misspelt, chain, manager>>

\* UPDATE audit_chain_state, in the same transaction.
Advance(w) ==
    /\ writer[w].pc = "advance"
    /\ Goto(w, "commit")
    /\ UNCHANGED <<date, parts, logs, misspelt, chain, lock, manager>>

Row(w) == [seq |-> writer[w].seq, entry |-> Column(writer[w].entry),
           hash |-> writer[w].hash]

\* Mutant: a commit whose answer is lost is retried.
CommitRetried(w) ==
    /\ writer[w].pc = "commit"
    /\ logs' = Append(logs, Row(w))
    /\ misspelt' = misspelt \cup (IF writer[w].odd THEN {writer[w].seq} ELSE {})
    /\ chain' = [seq |-> writer[w].seq, hash |-> writer[w].hash]
    /\ \/ End(w)
       \/ Faults /\ lock' = None /\ Goto(w, "lock")
    /\ UNCHANGED <<date, parts, manager>>

\* The row and the cursor become visible together.  The answer may be lost: the
\* call then fails although its entry is in the log.
Commit(w) ==
    /\ writer[w].pc = "commit"
    /\ logs' = Append(logs, Row(w))
    /\ misspelt' = misspelt \cup (IF writer[w].odd THEN {writer[w].seq} ELSE {})
    /\ chain' = [seq |-> writer[w].seq, hash |-> writer[w].hash]
    /\ End(w)
    /\ UNCHANGED <<date, parts, manager>>

\* A failing statement, a cancelled request or its 30 s timeout rolls back.
Rollback(w) ==
    /\ Faults
    /\ writer[w].pc # "idle"
    /\ End(w)
    /\ UNCHANGED <<date, parts, logs, misspelt, chain, manager>>

-----------------------------------------------------------------------------
(* The partition manager and the server it runs in                         *)

\* StartPartitionManager: EnsurePartitions runs at once, and then on each tick
\* of a 24-hour ticker.
Ensure(m) ==
    manager' = [m EXCEPT !.ran = TRUE, !.todo = Targets(date), !.failed = FALSE]

StartServer ==
    /\ ~manager.up
    /\ Ensure([Down EXCEPT !.up = TRUE])
    /\ UNCHANGED <<date, parts, logs, misspelt, chain, lock, writer>>

TickerFires ==
    /\ manager.up /\ ~manager.ran
    /\ Ensure(manager)
    /\ UNCHANGED <<date, parts, logs, misspelt, chain, lock, writer>>

\* CREATE TABLE IF NOT EXISTS; an error is logged, and the next month is tried.
CreatePartition ==
    /\ manager.todo # <<>>
    /\ \/ /\ parts' = parts \cup {Head(manager.todo)}
          /\ manager' = [manager EXCEPT !.todo = Tail(@)]
       \/ /\ Faults
          /\ manager' = [manager EXCEPT !.todo = Tail(@), !.failed = TRUE]
          /\ UNCHANGED parts
    /\ UNCHANGED <<date, logs, misspelt, chain, lock, writer>>

\* Open transactions are rolled back by the database when their client is gone.
Crash ==
    /\ Faults /\ manager.up
    /\ writer' = [w \in Writer |-> Quiet]
    /\ lock' = None
    /\ manager' = Down
    /\ UNCHANGED <<date, parts, logs, misspelt, chain>>

\* A ticker of 24 hours fires once between two midnights of a running server,
\* and three statements take less than a day.
Midnight ==
    /\ Tomorrow(date).month <= MaxMonth
    /\ manager.up => manager.ran /\ manager.todo = <<>>
    /\ date' = Tomorrow(date)
    /\ manager' = [manager EXCEPT !.ran = FALSE]
    /\ UNCHANGED <<parts, logs, misspelt, chain, lock, writer>>

Call(w) == \E a \in Id, i \in IP, n \in {0, 1} :
             Log(w, [id |-> a, ip |-> i, date |-> date, ns |-> n])
Step(w) == LockChain(w) \/ Insert(w) \/ Advance(w) \/ Commit(w)

Next ==
    \/ \E w \in Writer : Call(w) \/ Step(w) \/ Rollback(w)
    \/ StartServer \/ TickerFires \/ CreatePartition \/ Crash \/ Midnight

Spec == Init /\ [][Next]_vars

\* Go runs every goroutine on, and PostgreSQL queues the waiters of a row lock.
Fairness == \A w \in Writer :
    SF_vars(LockChain(w)) /\ WF_vars(Insert(w) \/ Advance(w) \/ Commit(w))
FairSpec == Spec /\ Fairness
=============================================================================
