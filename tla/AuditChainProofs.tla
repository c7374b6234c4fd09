--------------------------- MODULE AuditChainProofs ---------------------------
(***************************************************************************)
(* Proofs about the audit chain, for any number of concurrent writers, any *)
(* chain written before the upgrade, and any pattern of faults.            *)
(***************************************************************************)
EXTENDS AuditChainProps, SequenceTheorems, TLAPS

\* Reading an entry back and storing it again changes nothing.
LEMMA ColumnIdempotent ==
    ASSUME NEW e \in Entry
    PROVE  Column(e) \in Entry /\ Column(Column(e)) = Column(e) /\ Column(e).ns = 0
  BY IdAssumption, IPAssumption DEF Column, Truncate, Entry

\* An id that a UUID column accepts comes back as one.
LEMMA ColumnStored ==
    ASSUME NEW e \in Entry, e.id \in Uuid
    PROVE  Column(e) \in Stored
  BY ColumnIdempotent, IdAssumption DEF Column, Truncate, Entry, Stored

\* What Log hashes is what the columns give back (canonicalIP, Truncate), unless the
\* caller's id or address is misspelt.
LEMMA Normalized ==
    ASSUME NEW e \in Entry
    PROVE  /\ Normalize(e) \in Entry /\ Normalize(e).ns = 0
           /\ Misspelt(e) <=> Column(Normalize(e)) # Normalize(e)
<1> DEFINE f == Normalize(e)
           g == Column(f)
<1>1. f.id = e.id /\ f.ip = CanonicalIP[e.ip] /\ f.ns = 0 /\ f \in Entry
  BY IPAssumption DEF Normalize, Truncate, Entry
<1>2. g.id = UuidText[f.id] /\ g.ip = Inet[f.ip] /\ g.date = f.date /\ g.ns = 0
  BY <1>1 DEF Column, Truncate, Entry
<1>3. g \in Entry
  BY <1>1, ColumnIdempotent
<1> HIDE DEF f, g
<1>4. g = f <=> UuidText[e.id] = e.id /\ Inet[CanonicalIP[e.ip]] = CanonicalIP[e.ip]
  BY <1>1, <1>2, <1>3 DEF Entry
<1> QED
  BY <1>1, <1>4 DEF Misspelt, f, g

\* Both hashes of a well-typed entry on top of a hash are hashes.
LEMMA HashType ==
    ASSUME NEW e \in Entry, NEW prev \in Hash
    PROVE  ComputeHash(e, prev) \in Hash
<1>1. Link2(Truncate(e)) \in [v: {1, 2}, id: Id, ip: IP, date: Date \cup {NoDate}]
  BY DEF Link2, Truncate, Entry
<1> QED
  BY <1>1 DEF ComputeHash, Hash

\* The months EnsurePartitions asks for are within the calendar.
LEMMA TargetsType ==
    ASSUME AuditTypeOK
    PROVE  Targets(date) \in Seq(Months)
<1>1. /\ date.month \in Nat /\ date.month >= 1 /\ date.month <= MaxMonth
      /\ Len(MonthLen) \in Nat /\ MaxMonth \in Nat /\ MaxMonth + 3 <= Len(MonthLen)
  BY CalendarAssumption DEF AuditTypeOK, Date, Months
<1>2. ASSUME NEW i \in 0..2 PROVE AddDate(date, i) \in Months
  <2>1. AddDate(date, i) \in {date.month + i + 1, date.month + i}
    BY DEF AddDate
  <2> QED
    BY <1>1, <2>1 DEF Months
<1>3. AddDate(date, 0) \in Months /\ AddDate(date, 1) \in Months /\ AddDate(date, 2) \in Months
  BY <1>2
<1> HIDE DEF Months
<1> QED
  BY <1>3 DEF Targets

\* Appending a row leaves the hashes before the others as they were.
LEMMA PrevAppend ==
    ASSUME NEW S, NEW s \in Seq(S), NEW r \in S
    PROVE  /\ \A i \in 1..Len(s) : PrevHash(Append(s, r), i) = PrevHash(s, i)
           /\ PrevHash(Append(s, r), Len(s) + 1) = IF s = <<>> THEN <<>> ELSE s[Len(s)].hash
<1> DEFINE t == Append(s, r)
<1>1. Len(t) = Len(s) + 1 /\ Len(s) \in Nat /\ t[Len(s) + 1] = r
      /\ \A i \in 1..Len(s) : t[i] = s[i]
  OBVIOUS
<1>2. \A i \in 1..Len(s) : PrevHash(t, i) = PrevHash(s, i)
  BY <1>1 DEF PrevHash
<1>3. PrevHash(t, Len(s) + 1) = IF s = <<>> THEN <<>> ELSE s[Len(s)].hash
  BY <1>1 DEF PrevHash
<1> QED
  BY <1>2, <1>3

\* While no row changes, the rows stay hashed as they were.
LEMMA RowsKept ==
    ASSUME RowsHashed, UNCHANGED <<logs, misspelt>>
    PROVE  RowsHashed'
  BY DEF RowsHashed, HashOf, PrevHash

-----------------------------------------------------------------------------
(* The invariant                                                           *)

\* A writer that serves no call has well-typed locals.
LEMMA QuietType == Quiet \in Locals
<1>1. <<>> \in Hash
  BY DEF Hash
<1> QED
  BY <1>1 DEF Quiet, Locals

\* A transaction that ends leaves no locals behind and gives the lock back.
LEMMA EndStep ==
    ASSUME ChainInv, NEW w \in Writer, End(w), UNCHANGED <<logs, misspelt, chain>>,
           date' \in Date, date'.month <= MaxMonth, parts' \subseteq Months,
           manager' \in Manager
    PROVE  ChainInv'
<1>1. writer' \in [Writer -> Locals] /\ lock' \in Writer \cup {None}
  BY QuietType DEF ChainInv, AuditTypeOK, End, Holds
<1>2. \A v \in Writer : \/ v = w /\ writer'[v] = Quiet
                        \/ v # w /\ writer'[v] = writer[v]
  BY DEF ChainInv, AuditTypeOK, End
<1>3. HolderOK'
  BY <1>2 DEF ChainInv, HolderOK, InTx, Quiet, End, Holds
<1>4. HeadOK'
  BY <1>2 DEF ChainInv, HeadOK, InTx, Quiet
<1>5. EntryOK'
  BY <1>2 DEF ChainInv, EntryOK, Quiet
<1> QED
  BY <1>1, <1>3, <1>4, <1>5, RowsKept
     DEF ChainInv, AuditTypeOK, SeqsContiguous, LastHash

\* The chain that the upgrade finds verifies, and the cursor is its end.
LEMMA InitChain == Init => ChainInv
<1> SUFFICES ASSUME Init PROVE ChainInv
  OBVIOUS
<1>0. PICK n \in 0..MaxOld : \E old \in [1..n -> OldEntry] :
        /\ logs = [i \in 1..n |-> OldRow(old, i)]
        /\ chain = [seq |-> n, hash |-> IF n = 0 THEN <<>> ELSE OldRow(old, n).hash]
  BY DEF Init
<1>1. PICK old \in [1..n -> OldEntry] :
        /\ logs = [i \in 1..n |-> OldRow(old, i)]
        /\ chain = [seq |-> n, hash |-> IF n = 0 THEN <<>> ELSE OldRow(old, n).hash]
  BY <1>0
<1> DEFINE Link == [v: {1, 2}, id: Id, ip: IP, date: Date \cup {NoDate}]
           H(i) == [j \in 1..i |-> Link1(old[j])]
<1>2. n \in Nat
  BY <1>1, AuditBounds
<1>3. date \in Date /\ date.month <= MaxMonth
  BY CalendarAssumption DEF Init
<1>4. \A i \in 1..n : old[i] \in Stored
  <2>1. OldEntry \subseteq Stored
    BY <1>3, IdAssumption DEF OldEntry, Stored, Entry
  <2> QED
    BY <1>1, <2>1
<1>5. \A i \in 1..n : Link1(old[i]) \in Link
  BY <1>4, IPAssumption DEF Stored, Entry, Link1
<1>6. \A i \in 0..n : H(i) \in Hash /\ Len(H(i)) = i
  <2> SUFFICES ASSUME NEW i \in 0..n PROVE H(i) \in Hash /\ Len(H(i)) = i
    OBVIOUS
  <2>1. i \in Nat /\ H(i) \in [1..i -> Link]
    BY <1>2, <1>5
  <2> HIDE DEF H, Link
  <2>2. H(i) \in Seq(Link)
    BY <2>1, SeqDef
  <2> QED
    BY <2>1, <2>2, LenProperties DEF Hash, Link
<1>7. \A i \in 1..n : H(i) = Append(H(i - 1), Link1(old[i]))
  <2> SUFFICES ASSUME NEW i \in 1..n PROVE H(i) = Append(H(i - 1), Link1(old[i]))
    OBVIOUS
  <2> DEFINE T == Append(H(i - 1), Link1(old[i]))
  <2>0. i - 1 \in 0..n /\ i \in 0..n
    BY <1>2
  <2>1. H(i - 1) \in Seq(Link) /\ H(i) \in Seq(Link) /\ Len(H(i - 1)) = i - 1 /\ Len(H(i)) = i
    BY <1>6, <2>0 DEF Hash
  <2>2. T \in Seq(Link) /\ Len(T) = i
    BY <2>0, <2>1, <1>5 
  <2>3. \A j \in 1..i : T[j] = H(i)[j]
    <3>1. \A j \in 1..(i - 1) : H(i - 1)[j] = H(i)[j]
      BY <2>0
    <3>2. H(i)[i] = Link1(old[i])
      BY <2>0
    <3> HIDE DEF H, Link
    <3>3. \A j \in 1..(i - 1) : T[j] = H(i - 1)[j]
      BY <2>1
    <3>4. T[i] = Link1(old[i])
      BY <2>1, <2>0
    <3> SUFFICES ASSUME NEW j \in 1..i PROVE T[j] = H(i)[j]
      OBVIOUS
    <3>5. CASE j \in 1..(i - 1)
      BY <3>1, <3>3, <3>5
    <3>6. CASE j = i
      BY <3>2, <3>4, <3>6
    <3> HIDE DEF T
    <3> QED
      BY <3>5, <3>6, <2>0
  <2> HIDE DEF T, H, Link
  <2> QED
    BY <2>1, <2>2, <2>3, SeqEqual DEF T
<1>8. \A i \in 1..n : logs[i].seq = i /\ logs[i].entry = old[i] /\ logs[i].hash = H(i)
  BY <1>1 DEF OldRow
<1>9. logs \in Seq(AuditRow) /\ Len(logs) = n
  <2>1. \A i \in 1..n : OldRow(old, i) \in AuditRow
    BY <1>2, <1>4, <1>6 DEF OldRow, AuditRow
  <2>2. logs \in [1..n -> AuditRow]
    BY <1>1, <2>1
  <2>3. logs \in Seq(AuditRow)
    BY <1>2, <2>2, SeqDef
  <2> QED
    BY <1>2, <2>2, <2>3, LenProperties
<1> HIDE DEF H
<1>10. chain = [seq |-> n, hash |-> LastHash]
  <2>1. CASE n = 0
    BY <1>1, <1>9, <2>1 DEF LastHash
  <2>2. CASE n # 0
    <3>1. n \in 1..n /\ logs # <<>>
      BY <1>2, <1>9, <2>2
    <3>2. LastHash = logs[n].hash
      BY <1>9, <3>1 DEF LastHash
    <3>3. logs[n] = OldRow(old, n)
      BY <1>1, <3>1
    <3> QED
      BY <1>1, <2>2, <3>2, <3>3
  <2> QED
    BY <2>1, <2>2
<1>11. LastHash \in Hash
  <2>1. <<>> \in Hash
    BY DEF Hash
  <2>2. CASE logs # <<>>
    <3>1. logs[Len(logs)] \in AuditRow
      BY <1>2, <1>9, <2>2
    <3> QED
      BY <2>2, <3>1 DEF LastHash, AuditRow
  <2> QED
    BY <2>1, <2>2 DEF LastHash
<1>12. AuditTypeOK
  <2>1. chain \in [seq: Nat, hash: Hash]
    BY <1>2, <1>10, <1>11
  <2>2. writer \in [Writer -> Locals]
    BY QuietType DEF Init
  <2>3. manager \in Manager
    BY DEF Init, Down, Manager
  <2> QED
    BY <1>3, <1>9, <2>1, <2>2, <2>3, CalendarAssumption DEF Init, AuditTypeOK
<1>13. SeqsContiguous
  BY <1>8, <1>9, <1>10 DEF SeqsContiguous
<1>14. RowsHashed
  <2> SUFFICES ASSUME NEW i \in 1..n
               PROVE  logs[i].hash = ComputeHashV1(logs[i].entry, PrevHash(logs, i))
    <3>1. \A i \in 1..n : logs[i].entry \in Entry /\ Column(logs[i].entry) = logs[i].entry
                          /\ logs[i].entry.ns = 0
      <4>1. \A i \in 1..n : logs[i].entry \in Stored
        BY <1>4, <1>8
      <4> QED
        BY <4>1, ColumnIdempotent DEF Stored
    <3>2. misspelt = {}
      BY DEF Init
    <3> QED
      BY <1>9, <3>1, <3>2 DEF RowsHashed, HashOf
  <2>1. H(0) = <<>>
    BY <1>2, <1>6 DEF Hash
  <2>2. PrevHash(logs, i) = H(i - 1)
    <3>1. CASE i = 1
      BY <2>1, <3>1 DEF PrevHash
    <3>2. CASE i # 1
      <4>1. i - 1 \in 1..n
        BY <1>2, <3>2
      <4>2. logs[i - 1].hash = H(i - 1)
        BY <1>8, <4>1
      <4> QED
        BY <3>2, <4>2 DEF PrevHash
    <3> QED
      BY <3>1, <3>2
  <2>3. logs[i].hash = H(i) /\ logs[i].entry = old[i] /\ H(i) = Append(H(i - 1), Link1(old[i]))
    BY <1>7, <1>8
  <2> QED
    BY <2>2, <2>3 DEF ComputeHashV1
<1>15. HolderOK /\ HeadOK /\ EntryOK
  BY DEF Init, Quiet, HolderOK, HeadOK, EntryOK, InTx
<1> QED
  BY <1>12, <1>13, <1>14, <1>15 DEF ChainInv

\* A writer that moves within its transaction, without touching the rows, keeps
\* the invariant if what it moved to is in order.
LEMMA WriterStep ==
    ASSUME ChainInv, NEW w \in Writer, NEW l \in Locals,
           writer' = [writer EXCEPT ![w] = l], lock' \in Writer \cup {None},
           UNCHANGED <<date, parts, logs, misspelt, chain, manager>>,
           \A v \in Writer \ {w} : lock = v => lock' = v,
           l.pc \in InTx => /\ lock' = w
                            /\ l.seq = chain.seq + 1
                            /\ l.hash = ComputeHash(l.entry, chain.hash),
           l.pc # "idle", l.entry \in Entry, l.entry.ns = 0,
           l.odd <=> Column(l.entry) # l.entry,
           l.pc \in {"advance", "commit"} => l.entry.id \in Uuid
    PROVE  ChainInv'
<1>1. writer' \in [Writer -> Locals]
  BY DEF ChainInv, AuditTypeOK
<1>2. writer'[w] = l /\ \A v \in Writer \ {w} : writer'[v] = writer[v]
  BY DEF ChainInv, AuditTypeOK
<1>3. HolderOK'
  BY <1>2 DEF ChainInv, HolderOK
<1>4. HeadOK'
  BY <1>2 DEF ChainInv, HeadOK
<1>5. EntryOK'
  BY <1>2 DEF ChainInv, EntryOK
<1> QED
  BY <1>1, <1>3, <1>4, <1>5, RowsKept
     DEF ChainInv, AuditTypeOK, SeqsContiguous, LastHash

\* Log starts with an entry in the form that the columns give back, or notes that it
\* is misspelt.
LEMMA LogChain ==
    ASSUME ChainInv, NEW w \in Writer, NEW e \in Entry, Log(w, e)
    PROVE  ChainInv'
<1> DEFINE l == [Quiet EXCEPT !.pc = "lock", !.entry = Normalize(e), !.odd = Misspelt(e)]
<1>1. Normalize(e) \in Entry /\ Normalize(e).ns = 0
      /\ (Misspelt(e) <=> Column(Normalize(e)) # Normalize(e)) /\ Misspelt(e) \in BOOLEAN
  BY Normalized DEF Misspelt
<1>2. l \in Locals
  BY <1>1, QuietType DEF Locals, Quiet
<1>3. l.pc = "lock" /\ l.entry = Normalize(e) /\ l.odd = Misspelt(e) /\ writer' = [writer EXCEPT ![w] = l]
      /\ UNCHANGED <<date, parts, logs, misspelt, chain, lock, manager>>
  BY DEF Log, Quiet
<1>4. lock' \in Writer \cup {None}
  BY <1>3 DEF ChainInv, AuditTypeOK
<1> HIDE DEF l
<1> QED
  BY <1>1, <1>2, <1>3, <1>4, WriterStep DEF InTx

\* The lock is free, so nobody else is in a transaction, and the new holder
\* hashes on top of the end of the chain.
LEMMA LockStep ==
    ASSUME ChainInv, NEW w \in Writer, LockChain(w)
    PROVE  ChainInv'
<1> DEFINE l == [writer[w] EXCEPT !.pc = "insert", !.seq = chain.seq + 1,
                     !.hash = ComputeHash(writer[w].entry, chain.hash)]
<1>1. /\ writer[w] \in Locals /\ writer[w].entry \in Entry /\ writer[w].entry.ns = 0
      /\ writer[w].odd <=> Column(writer[w].entry) # writer[w].entry
      /\ chain.seq \in Nat /\ chain.hash \in Hash /\ lock = None
  BY DEF ChainInv, AuditTypeOK, EntryOK, LockChain
<1>2. ComputeHash(writer[w].entry, chain.hash) \in Hash
  BY <1>1, HashType
<1>3. l \in Locals
  <2>1. chain.seq + 1 \in Nat
    BY <1>1
  <2> QED
    BY <1>1, <1>2, <2>1 DEF Locals
<1>4. /\ l.pc = "insert" /\ l.entry = writer[w].entry /\ l.seq = chain.seq + 1
      /\ l.odd = writer[w].odd
      /\ l.hash = ComputeHash(writer[w].entry, chain.hash)
  BY <1>1 DEF Locals
<1>5. writer' = [writer EXCEPT ![w] = l] /\ lock' = w
      /\ UNCHANGED <<date, parts, logs, misspelt, chain, manager>>
  BY DEF LockChain
<1>6. \A v \in Writer \ {w} : lock = v => lock' = v
  BY <1>1, IdAssumption
<1> HIDE DEF l
<1> QED
  BY <1>1, <1>3, <1>4, <1>5, <1>6, WriterStep DEF InTx

\* The INSERT is refused, and the transaction rolled back, unless the row can
\* be stored; the UPDATE follows in the same transaction.
LEMMA InsertAdvance ==
    ASSUME ChainInv, NEW w \in Writer, Insert(w) \/ Advance(w)
    PROVE  ChainInv'
<1>1. /\ writer[w] \in Locals /\ writer[w].pc \in InTx /\ lock = w
      /\ writer[w].entry \in Entry /\ writer[w].entry.ns = 0
      /\ writer[w].odd <=> Column(writer[w].entry) # writer[w].entry
      /\ writer[w].seq = chain.seq + 1
      /\ writer[w].hash = ComputeHash(writer[w].entry, chain.hash)
  BY DEF ChainInv, AuditTypeOK, EntryOK, HeadOK, HolderOK, InTx, Insert, Advance
<1>2. CASE End(w) /\ UNCHANGED <<date, parts, logs, misspelt, chain, manager>>
  BY <1>2, EndStep DEF ChainInv, AuditTypeOK
<1>3. ASSUME NEW pc \in {"advance", "commit"}, Goto(w, pc), writer[w].entry.id \in Uuid,
             UNCHANGED <<date, parts, logs, misspelt, chain, lock, manager>>
      PROVE  ChainInv'
  <2> DEFINE l == [writer[w] EXCEPT !.pc = pc]
  <2>1. l \in Locals
    BY <1>1 DEF Locals
  <2>2. /\ l.pc = pc /\ l.entry = writer[w].entry /\ l.seq = writer[w].seq
        /\ l.hash = writer[w].hash /\ l.odd = writer[w].odd
    BY <1>1 DEF Locals
  <2>3. writer' = [writer EXCEPT ![w] = l] /\ lock' = w
    BY <1>1, <1>3 DEF Goto
  <2> HIDE DEF l
  <2> QED
    BY <1>1, <1>3, <2>1, <2>2, <2>3, WriterStep DEF InTx
<1>4. CASE Insert(w)
  <2>1. CASE Storable(writer[w].entry)
    BY <1>3, <1>4, <2>1 DEF Insert, Storable
  <2>2. CASE ~Storable(writer[w].entry)
    BY <1>2, <1>4, <2>2 DEF Insert
  <2> QED
    BY <2>1, <2>2
<1>5. CASE Advance(w)
  <2>1. writer[w].entry.id \in Uuid
    BY <1>5 DEF ChainInv, EntryOK, Advance
  <2> QED
    BY <1>3, <1>5, <2>1 DEF Advance
<1> QED
  BY <1>4, <1>5

\* The committed row is the next one, and hashes on top of the last.
LEMMA CommitStep ==
    ASSUME ChainInv, NEW w \in Writer, Commit(w)
    PROVE  ChainInv'
<1> DEFINE r == Row(w)
<1>1. /\ writer[w] \in Locals /\ writer[w].pc = "commit" /\ lock = w
      /\ writer[w].entry \in Entry /\ writer[w].entry.ns = 0
      /\ Column(writer[w].entry) \in Stored
      /\ writer[w].odd <=> Column(writer[w].entry) # writer[w].entry
      /\ writer[w].seq = chain.seq + 1
      /\ writer[w].hash = ComputeHash(writer[w].entry, chain.hash)
  BY ColumnStored DEF ChainInv, AuditTypeOK, EntryOK, HeadOK, HolderOK, InTx, Commit
<1>2. /\ r \in AuditRow /\ r.seq = chain.seq + 1 /\ r.entry = Column(writer[w].entry)
      /\ r.hash = ComputeHash(writer[w].entry, chain.hash) /\ r.hash \in Hash /\ r.seq \in Nat
      /\ chain' = [seq |-> r.seq, hash |-> r.hash]
      /\ misspelt' = misspelt \cup (IF writer[w].odd THEN {r.seq} ELSE {})
  BY <1>1 DEF Row, AuditRow, Locals, Commit
<1>3. logs \in Seq(AuditRow) /\ logs' = Append(logs, r)
  BY DEF ChainInv, AuditTypeOK, Commit
<1>4. /\ Len(logs) \in Nat /\ logs' \in Seq(AuditRow) /\ Len(logs') = Len(logs) + 1
      /\ logs'[Len(logs) + 1] = r /\ \A i \in 1..Len(logs) : logs'[i] = logs[i]
  BY <1>2, <1>3
<1>5. chain = [seq |-> Len(logs), hash |-> LastHash]
  BY DEF ChainInv, SeqsContiguous
<1>6. SeqsContiguous'
  <2>1. logs' # <<>> /\ LastHash' = r.hash
    BY <1>4 DEF LastHash
  <2>2. chain' = [seq |-> Len(logs'), hash |-> LastHash']
    BY <1>2, <1>4, <1>5, <2>1
  <2>3. ASSUME NEW i \in 1..Len(logs') PROVE logs'[i].seq = i
    <3>1. CASE i \in 1..Len(logs)
      BY <1>4, <3>1 DEF ChainInv, SeqsContiguous
    <3>2. CASE i = Len(logs) + 1
      BY <1>2, <1>4, <1>5, <3>2
    <3> QED
      BY <1>4, <3>1, <3>2
  <2> QED
    BY <2>2, <2>3 DEF SeqsContiguous
<1>7. RowsHashed'
  <2>0. /\ \A i \in 1..Len(logs) : PrevHash(logs', i) = PrevHash(logs, i)
        /\ PrevHash(logs', Len(logs) + 1) = LastHash
    <3> HIDE DEF r
    <3> QED
      BY <1>2, <1>3, PrevAppend DEF LastHash
  <2>1. r.seq = Len(logs) + 1 /\ misspelt \subseteq 1..Len(logs)
    BY <1>2, <1>5 DEF ChainInv, AuditTypeOK
  <2> SUFFICES ASSUME NEW i \in 1..Len(logs') PROVE \E e \in Entry : HashOf(i, e)'
    BY DEF RowsHashed
  <2>2. CASE i \in 1..Len(logs)
    <3>1. PICK e \in Entry : HashOf(i, e)
      BY <2>2 DEF ChainInv, RowsHashed
    <3>2. i \in misspelt' <=> i \in misspelt
      BY <1>2, <1>4, <2>1, <2>2
    <3>3. logs'[i] = logs[i] /\ PrevHash(logs', i) = PrevHash(logs, i)
      BY <1>4, <2>0, <2>2
    <3> QED
      BY <3>1, <3>2, <3>3 DEF HashOf
  <2>3. CASE i = Len(logs) + 1
    <3>1. i \in misspelt' <=> writer[w].odd
      BY <1>2, <1>4, <2>1, <2>3
    <3>2. logs'[i] = r /\ PrevHash(logs', i) = chain.hash
      BY <1>4, <1>5, <2>0, <2>3
    <3> HIDE DEF r
    <3> QED
      BY <1>1, <1>2, <3>1, <3>2 DEF HashOf
  <2> QED
    BY <1>4, <2>2, <2>3
<1>8. /\ writer' \in [Writer -> Locals] /\ lock' = None
      /\ writer'[w] = Quiet /\ \A v \in Writer \ {w} : writer'[v] = writer[v]
  BY <1>1, QuietType DEF ChainInv, AuditTypeOK, Commit, End, Holds
<1>9. \A v \in Writer : writer'[v].pc \notin InTx
  <2>1. \A v \in Writer \ {w} : writer[v].pc \notin InTx
    BY <1>1 DEF ChainInv, HolderOK
  <2> QED
    BY <1>8, <2>1 DEF Quiet, InTx
<1>10. HolderOK' /\ HeadOK'
  BY <1>9 DEF HolderOK, HeadOK
<1>11. EntryOK'
  BY <1>8 DEF ChainInv, EntryOK, Quiet
<1>12. AuditTypeOK'
  <2>1. chain' \in [seq: Nat, hash: Hash]
    BY <1>2
  <2>2. misspelt' \subseteq 1..Len(logs')
    <3>1. misspelt \subseteq 1..Len(logs) /\ r.seq = Len(logs) + 1
      BY <1>2, <1>5 DEF ChainInv, AuditTypeOK
    <3>2. 1..Len(logs) \subseteq 1..Len(logs') /\ Len(logs) + 1 \in 1..Len(logs')
      BY <1>4
    <3> HIDE DEF r
    <3>3. misspelt' \subseteq misspelt \cup {r.seq}
      BY <1>2
    <3> QED
      BY <3>1, <3>2, <3>3
  <2> QED
    BY <1>4, <1>8, <2>1, <2>2 DEF ChainInv, AuditTypeOK, Commit
<1> QED
  BY <1>6, <1>7, <1>10, <1>11, <1>12 DEF ChainInv

\* The server's own steps leave the chain and its writers alone, but for a
\* crash, which ends every transaction.
LEMMA ServerStep ==
    ASSUME ChainInv,
           StartServer \/ TickerFires \/ CreatePartition \/ Crash \/ Midnight
    PROVE  ChainInv'
<1>1. manager \in Manager /\ Targets(date) \in Seq(Months) /\ Down \in Manager
  BY TargetsType DEF ChainInv, AuditTypeOK, Manager, Down
<1>2. logs' = logs /\ chain' = chain /\ misspelt' = misspelt
  BY DEF StartServer, TickerFires, CreatePartition, Crash, Midnight
<1>3. manager' \in Manager
  <2>1. CASE StartServer \/ TickerFires
    BY <1>1, <2>1 DEF StartServer, TickerFires, Ensure, Manager, Down
  <2>2. CASE CreatePartition
    <3>1. Tail(manager.todo) \in Seq(Months)
      BY <1>1, <2>2 DEF CreatePartition, Manager
    <3> QED
      BY <1>1, <2>2, <3>1 DEF CreatePartition, Manager
  <2>3. CASE Crash \/ Midnight
    BY <1>1, <2>3 DEF Crash, Midnight, Manager
  <2> QED
    BY <2>1, <2>2, <2>3
<1>4. parts' \subseteq Months
  <2>1. CASE CreatePartition
    <3>1. Head(manager.todo) \in Months
      BY <1>1, <2>1 DEF CreatePartition, Manager
    <3> QED
      BY <2>1, <3>1 DEF ChainInv, AuditTypeOK, CreatePartition
  <2> QED
    BY <2>1 DEF ChainInv, AuditTypeOK, StartServer, TickerFires, Crash, Midnight
<1>5. date' \in Date /\ date'.month <= MaxMonth
  <2>1. CASE Midnight
    <3>1. PICK m \in Months : \E k \in 1..MonthLen[m] : date = [month |-> m, day |-> k]
      BY DEF ChainInv, AuditTypeOK, Date
    <3>2. PICK k \in 1..MonthLen[m] : date = [month |-> m, day |-> k]
      BY <3>1
    <3>3. CASE k < MonthLen[m]
      <4>1. k + 1 \in 1..MonthLen[m] /\ Tomorrow(date) = [month |-> m, day |-> k + 1]
        <5>1. MonthLen[m] \in Nat
          BY CalendarAssumption DEF Months
        <5> QED
          BY <3>2, <3>3, <5>1 DEF Tomorrow
      <4> QED
        BY <2>1, <4>1 DEF Midnight, Date
    <3>4. CASE ~(k < MonthLen[m])
      <4>1. Tomorrow(date) = [month |-> m + 1, day |-> 1]
        BY <3>2, <3>4 DEF Tomorrow
      <4>2. m + 1 <= MaxMonth
        BY <2>1, <4>1 DEF Midnight
      <4>3. m + 1 \in Months /\ 1 \in 1..MonthLen[m + 1]
        <5>1. m + 1 \in Months
          BY <4>2, CalendarAssumption DEF Months
        <5>2. MonthLen[m + 1] \in Nat \ {0}
          BY <5>1, CalendarAssumption DEF Months
        <5> QED
          BY <5>1, <5>2
      <4> QED
        BY <2>1, <4>1, <4>2, <4>3 DEF Midnight, Date
    <3> QED
      BY <3>3, <3>4
  <2> QED
    BY <2>1 DEF ChainInv, AuditTypeOK, StartServer, TickerFires, CreatePartition, Crash
<1>6. /\ writer' \in [Writer -> Locals] /\ lock' \in Writer \cup {None}
      /\ HolderOK' /\ HeadOK' /\ EntryOK'
  <2>1. CASE Crash
    BY <2>1, QuietType DEF Crash, HolderOK, HeadOK, EntryOK, InTx, Quiet
  <2>2. CASE UNCHANGED <<lock, writer>>
    BY <1>2, <2>2 DEF ChainInv, AuditTypeOK, HolderOK, HeadOK, EntryOK
  <2> QED
    BY <2>1, <2>2 DEF StartServer, TickerFires, CreatePartition, Midnight
<1> QED
  BY <1>2, <1>3, <1>4, <1>5, <1>6, RowsKept
     DEF ChainInv, AuditTypeOK, SeqsContiguous, LastHash

\* The invariant is inductive.
LEMMA NextChain == ChainInv /\ [Next]_vars => ChainInv'
<1> SUFFICES ASSUME ChainInv, [Next]_vars PROVE ChainInv'
  OBVIOUS
<1>1. ASSUME NEW w \in Writer, Call(w) PROVE ChainInv'
  <2>1. PICK a \in Id, i \in IP, n \in {0, 1} :
          Log(w, [id |-> a, ip |-> i, date |-> date, ns |-> n])
    BY <1>1 DEF Call
  <2>2. [id |-> a, ip |-> i, date |-> date, ns |-> n] \in Entry
    BY DEF ChainInv, AuditTypeOK, Entry
  <2> QED
    BY <2>1, <2>2, LogChain
<1>2. ASSUME NEW w \in Writer, Step(w) PROVE ChainInv'
  BY <1>2, LockStep, InsertAdvance, CommitStep DEF Step
<1>3. ASSUME NEW w \in Writer, Rollback(w) PROVE ChainInv'
  BY <1>3, EndStep DEF Rollback, ChainInv, AuditTypeOK
<1>4. CASE UNCHANGED vars
  BY <1>4, RowsKept DEF vars, ChainInv, AuditTypeOK, HolderOK, HeadOK, EntryOK,
                        SeqsContiguous, LastHash
<1> QED
  BY <1>1, <1>2, <1>3, <1>4, ServerStep DEF Next

-----------------------------------------------------------------------------
(* The results                                                             *)

\* The invariant holds in every reachable state.
THEOREM ChainInvariance == Spec => []ChainInv
  BY InitChain, NextChain, PTL DEF Spec

\* Only rows with UUIDs in the columns' own spelling are ever stored.
THEOREM AuditTypeCorrect == Spec => []AuditTypeOK
<1>1. ChainInv => AuditTypeOK
  BY DEF ChainInv
<1> QED
  BY <1>1, ChainInvariance, PTL

\* However the transactions of concurrent writers interleave, fail or crash,
\* seqs stay contiguous and the cursor stays at the end of the chain.
THEOREM SeqsAlwaysContiguous == Spec => []SeqsContiguous
<1>1. ChainInv => SeqsContiguous
  BY DEF ChainInv
<1> QED
  BY <1>1, ChainInvariance, PTL

-----------------------------------------------------------------------------
(* What verifies, and tampering shows                                      *)

Contribution == [v: {1, 2}, id: Id, ip: IP, date: Date \cup {NoDate}]

\* The upgrade finds one contribution per row before it, and its own.
LEMMA InitGrows == Init /\ ChainInv => HashesGrow
<1> SUFFICES ASSUME Init, ChainInv, NEW i \in 1..Len(logs)
             PROVE  Len(logs[i].hash) = i
  BY DEF HashesGrow
<1>1. PICK n \in 0..MaxOld : \E old \in [1..n -> OldEntry] :
        /\ logs = [j \in 1..n |-> OldRow(old, j)]
        /\ chain = [seq |-> n, hash |-> IF n = 0 THEN <<>> ELSE OldRow(old, n).hash]
  BY DEF Init
<1>2. PICK old \in [1..n -> OldEntry] : logs = [j \in 1..n |-> OldRow(old, j)]
  BY <1>1
<1>3. logs \in Seq(AuditRow) /\ n \in Nat
  BY <1>1, AuditBounds DEF ChainInv, AuditTypeOK
<1>4. DOMAIN logs = 1..n /\ DOMAIN logs = 1..Len(logs)
  BY <1>2, <1>3, LenProperties
<1>5. logs[i].hash = [j \in 1..i |-> Link1(old[j])] /\ i \in Nat
  BY <1>2, <1>4 DEF OldRow
<1>6. logs[i].hash \in Hash
  <2>1. logs[i] \in AuditRow
    BY <1>3, ElementOfSeq
  <2> QED
    BY <2>1 DEF AuditRow
<1>7. DOMAIN logs[i].hash = 1..i
  BY <1>5
<1> QED
  BY <1>5, <1>6, <1>7, LenProperties DEF Hash

\* Commit appends one row, whose hash extends the last one by one contribution.
LEMMA CommitGrows ==
    ASSUME ChainInv, HashesGrow, NEW w \in Writer, Commit(w)
    PROVE  HashesGrow'
<1> DEFINE r == Row(w)
<1>1. logs \in Seq(AuditRow) /\ chain = [seq |-> Len(logs), hash |-> LastHash]
      /\ chain.hash \in Hash
  BY DEF ChainInv, AuditTypeOK, SeqsContiguous
<1>2. /\ writer[w].hash = ComputeHash(writer[w].entry, chain.hash)
      /\ writer[w].entry \in Entry
  BY DEF ChainInv, HeadOK, EntryOK, InTx, Commit
<1>3. Len(logs) \in Nat /\ Len(chain.hash) = Len(logs)
  <2>1. CASE logs = <<>>
    BY <1>1, <2>1 DEF LastHash
  <2>2. CASE logs # <<>>
    BY <1>1, <2>2, EmptySeq, LenProperties DEF LastHash, HashesGrow
  <2> QED
    BY <1>1, <2>1, <2>2
<1>4. Len(r.hash) = Len(logs) + 1
  <2>1. Link2(Truncate(writer[w].entry)) \in Contribution
    BY <1>2 DEF Link2, Truncate, Entry, Contribution
  <2>2. chain.hash \in Seq(Contribution)
    BY <1>1 DEF Hash, Contribution
  <2>3. r.hash = Append(chain.hash, Link2(Truncate(writer[w].entry)))
    BY <1>2 DEF Row, ComputeHash
  <2> HIDE DEF r
  <2> QED
    BY <1>3, <2>1, <2>2, <2>3, AppendProperties
<1>5. r \in AuditRow
  <2>1. writer[w] \in Locals /\ Column(writer[w].entry) \in Stored
    BY ColumnStored DEF ChainInv, AuditTypeOK, EntryOK, Commit
  <2> QED
    BY <2>1 DEF Row, AuditRow, Locals
<1>6. logs' = Append(logs, r)
  BY DEF Commit
<1> HIDE DEF r
<1>7. /\ Len(logs') = Len(logs) + 1 /\ logs'[Len(logs) + 1] = r
      /\ \A i \in 1..Len(logs) : logs'[i] = logs[i]
  BY <1>1, <1>5, <1>6, AppendProperties
<1> SUFFICES ASSUME NEW i \in 1..Len(logs') PROVE Len(logs'[i].hash) = i
  BY DEF HashesGrow
<1>8. CASE i \in 1..Len(logs)
  BY <1>7, <1>8 DEF HashesGrow
<1>9. CASE i = Len(logs) + 1
  BY <1>4, <1>7, <1>9
<1> QED
  BY <1>3, <1>7, <1>8, <1>9

\* No other step adds or changes a row.
LEMMA RowsOnlyCommitted ==
    ASSUME [Next]_vars, ~\E w \in Writer : Commit(w)
    PROVE  logs' = logs
<1>1. ASSUME NEW w \in Writer, Call(w) \/ Step(w) \/ Rollback(w) PROVE logs' = logs
  BY <1>1 DEF Call, Log, Step, LockChain, Insert, Advance, Rollback
<1>2. CASE StartServer \/ TickerFires \/ CreatePartition \/ Crash \/ Midnight
  BY <1>2 DEF StartServer, TickerFires, CreatePartition, Crash, Midnight
<1> QED
  BY <1>1, <1>2 DEF Next, vars

\* Appending tells what was appended, and to how long a sequence.
LEMMA Appended ==
    ASSUME NEW S, NEW s \in Seq(S), NEW x
    PROVE  Len(Append(s, x)) = Len(s) + 1 /\ Append(s, x)[Len(s) + 1] = x
<1>1. s \in Seq(S \cup {x})
  BY ElementOfSeq, SeqDef, LenProperties
<1>2. x \in S \cup {x}
  OBVIOUS
<1> QED
  BY <1>1, <1>2, AppendProperties

\* What a row's hash extends: a hash of all the rows before it.
LEMMA PrevGrows ==
    ASSUME ChainInv, HashesGrow, NEW i \in 1..Len(logs)
    PROVE  /\ i \in Nat
           /\ PrevHash(logs, i) \in Hash /\ Len(PrevHash(logs, i)) = i - 1
<1>1. logs \in Seq(AuditRow) /\ Len(logs) \in Nat
  BY DEF ChainInv, AuditTypeOK
<1>2. CASE i = 1
  BY <1>2 DEF PrevHash, Hash
<1>3. CASE i # 1
  <2>1. i - 1 \in 1..Len(logs)
    BY <1>1, <1>3
  <2>2. logs[i - 1] \in AuditRow
    BY <1>1, <2>1, ElementOfSeq
  <2> QED
    BY <1>3, <2>1, <2>2 DEF PrevHash, AuditRow, HashesGrow
<1> QED
  BY <1>1, <1>2, <1>3

\* The last contribution to a verified hash is its row's, in one of the versions.
LEMMA Verified ==
    ASSUME NEW s, NEW i, RowVerifies(s, i), PrevHash(s, i) \in Hash
    PROVE  /\ Len(s[i].hash) = Len(PrevHash(s, i)) + 1
           /\ s[i].hash[Len(PrevHash(s, i)) + 1]
                \in {Link2(Truncate(s[i].entry)), Link1(s[i].entry)}
<1> DEFINE p == PrevHash(s, i)
<1>1. PICK x \in {Link2(Truncate(s[i].entry)), Link1(s[i].entry)} :
        s[i].hash = Append(p, x)
  BY DEF RowVerifies, ComputeHash, ComputeHashV1
<1>2. Len(Append(p, x)) = Len(p) + 1 /\ Append(p, x)[Len(p) + 1] = x
  BY Appended DEF Hash
<1> QED
  BY <1>1, <1>2

\* The last contribution to a row's hash is that of the entry its caller logged.
LEMMA Contributed ==
    ASSUME ChainInv, HashesGrow, NEW i \in 1..Len(logs), NEW e, HashOf(i, e)
    PROVE  \/ logs[i].hash[i] = Link2(e)
           \/ Column(e) = e /\ logs[i].hash[i] = Link1(e)
<1> DEFINE p == PrevHash(logs, i)
<1>1. i \in Nat /\ p \in Hash /\ Len(p) + 1 = i
  BY PrevGrows
<1>2. Truncate(e) = e
  BY DEF HashOf, Truncate, Entry
<1>3. ASSUME NEW x PROVE Append(p, x)[i] = x
  BY <1>1, Appended DEF Hash
<1> QED
  BY <1>2, <1>3 DEF HashOf, ComputeHash, ComputeHashV1

\* The two versions and different entries contribute differently.
LEMMA LinksDiffer ==
    ASSUME NEW e \in Entry, NEW f \in Entry, e.ns = f.ns
    PROVE  /\ Link2(e) # Link1(f)
           /\ Link2(e) = Link2(f) => e = f
           /\ Link1(e) = Link1(f) => e.id = f.id
           /\ Link2(e).v = 2 /\ Link1(e).v = 1
<1>1. Link2(e) = Link2(f) => e.id = f.id /\ e.ip = f.ip /\ e.date = f.date
  BY DEF Link2
<1>2. e.id = f.id /\ e.ip = f.ip /\ e.date = f.date => e = f
  BY DEF Entry
<1>3. Link1(e) = Link1(f) => e.id = f.id
  BY DEF Link1
<1>4. Link2(e).v = 2 /\ Link1(e).v = 1 /\ Link1(f).v = 1
  BY DEF Link2, Link1
<1> QED
  BY <1>1, <1>2, <1>3, <1>4

\* A row verifies exactly when its columns gave back what was hashed.
LEMMA MisspeltRows == ChainInv /\ HashesGrow => OnlyMisspeltFail
<1> SUFFICES ASSUME ChainInv, HashesGrow, NEW i \in 1..Len(logs)
             PROVE  RowVerifies(logs, i) <=> i \notin misspelt
  BY DEF OnlyMisspeltFail
<1>1. PICK e \in Entry : HashOf(i, e)
  BY DEF ChainInv, RowsHashed
<1>2. CASE i \notin misspelt
  BY <1>1, <1>2 DEF HashOf, RowVerifies
<1>3. CASE i \in misspelt
  <2> DEFINE f == logs[i].entry
  <2>1. f = Column(e) /\ f # e /\ e.ns = 0 /\ f \in Entry /\ f.ns = 0
    BY <1>1, <1>3, ColumnIdempotent DEF HashOf
  <2>2. logs[i].hash[i] = Link2(e)
    BY <1>1, <2>1, Contributed
  <2>3. Truncate(f) = f
    BY <2>1 DEF Truncate, Entry
  <2>4. RowVerifies(logs, i) => logs[i].hash[i] \in {Link2(Truncate(f)), Link1(f)}
    BY PrevGrows, Verified
  <2> HIDE DEF f
  <2>5. Link2(e) # Link2(f) /\ Link2(e) # Link1(f)
    BY <2>1, LinksDiffer
  <2> QED
    BY <1>3, <2>2, <2>3, <2>4, <2>5
<1> QED
  BY <1>2, <1>3

\* An edited row no longer fits its hash (hashPayload), whether it did before or not.
LEMMA EditShows ==
    ASSUME ChainInv, HashesGrow, NEW i \in 1..Len(logs),
           NEW e \in Entry, e.ns = 0, Column(e) = e,
           IF IsV2(i) THEN e # logs[i].entry ELSE e.id # logs[i].entry.id
    PROVE  ~RowVerifies(Changed(i, e), i)
<1> SUFFICES ASSUME RowVerifies(Changed(i, e), i) PROVE FALSE
  OBVIOUS
<1> DEFINE s == Changed(i, e)
           h == logs[i].hash
<1>1. logs \in Seq(AuditRow) /\ Len(logs) \in Nat /\ logs[i] \in AuditRow
  BY ElementOfSeq DEF ChainInv, AuditTypeOK
<1>2. i \in Nat /\ PrevHash(logs, i) \in Hash /\ Len(PrevHash(logs, i)) = i - 1
  BY PrevGrows
<1>3. PICK f \in Entry : HashOf(i, f)
  BY DEF ChainInv, RowsHashed
<1>4. /\ s[i].hash = h /\ s[i].entry = e
      /\ \A j \in 1..Len(logs) : j # i => s[j] = logs[j]
  <2>1. logs[i] \in [seq: Nat, entry: Stored, hash: Hash]
    BY <1>1 DEF AuditRow
  <2> QED
    BY <1>1, <2>1 DEF Changed
<1>5. PrevHash(s, i) = PrevHash(logs, i)
  <2>1. CASE i = 1
    BY <2>1 DEF PrevHash
  <2>2. CASE i # 1
    <3>1. i - 1 \in 1..Len(logs) /\ i - 1 # i
      BY <1>1, <2>2
    <3>2. s[i - 1] = logs[i - 1]
      BY <1>4, <3>1
    <3> HIDE DEF s
    <3> QED
      BY <2>2, <3>2 DEF PrevHash
  <2> QED
    BY <2>1, <2>2
<1>6. h[i] \in {Link2(e), Link1(e)}
  <2> HIDE DEF s, h
  <2>1. RowVerifies(s, i) /\ PrevHash(s, i) \in Hash
    BY <1>2, <1>5 DEF s
  <2>2. s[i].hash[Len(PrevHash(s, i)) + 1] \in {Link2(Truncate(s[i].entry)), Link1(s[i].entry)}
    BY <2>1, Verified
  <2>3. Truncate(e) = e
    BY DEF Truncate, Entry
  <2> QED
    BY <1>2, <1>4, <1>5, <2>2, <2>3
<1> HIDE DEF h
<1>7. f.ns = 0 /\ logs[i].entry = Column(f)
  BY <1>3 DEF HashOf
<1>8. CASE h[i] = Link2(f)
  <2>1. e = f
    BY <1>6, <1>7, <1>8, LinksDiffer
  <2>2. IsV2(i)
    BY <1>8, LinksDiffer DEF IsV2, h
  <2> QED
    BY <1>7, <2>1, <2>2
<1>9. CASE Column(f) = f /\ h[i] = Link1(f)
  <2>1. e.id = f.id
    BY <1>6, <1>7, <1>9, LinksDiffer
  <2>2. ~IsV2(i)
    <3>1. h[i].v = 1
      BY <1>9, LinksDiffer
    <3> QED
      BY <3>1 DEF IsV2, h
  <2> QED
    BY <1>7, <1>9, <2>1, <2>2
<1> QED
  BY <1>3, <1>8, <1>9, Contributed DEF h

\* A row that comes a place too early has a hash that is too long for it.
LEMMA TooEarlyShows ==
    ASSUME ChainInv, HashesGrow, NEW i \in 1..Len(logs), i < Len(logs),
           NEW s, s[i] = logs[i + 1],
           \A j \in 1..Len(logs) : j < i => s[j] = logs[j]
    PROVE  ~RowVerifies(s, i)
<1> SUFFICES ASSUME RowVerifies(s, i) PROVE FALSE
  OBVIOUS
<1>1. Len(logs) \in Nat
  BY DEF ChainInv, AuditTypeOK
<1>2. i \in Nat /\ PrevHash(logs, i) \in Hash /\ Len(PrevHash(logs, i)) = i - 1
  BY PrevGrows
<1>3. PrevHash(s, i) = PrevHash(logs, i)
  <2>1. CASE i = 1
    BY <2>1 DEF PrevHash
  <2>2. CASE i # 1
    <3>1. i - 1 \in 1..Len(logs) /\ i - 1 < i
      BY <1>1, <2>2
    <3> QED
      BY <2>2, <3>1 DEF PrevHash
  <2> QED
    BY <2>1, <2>2
<1>4. Len(s[i].hash) = (i - 1) + 1
  BY <1>2, <1>3, Verified
<1>5. Len(logs[i + 1].hash) = i + 1
  BY <1>1 DEF HashesGrow
<1> QED
  BY <1>2, <1>4, <1>5

\* The invariants let no change of the stored rows go unnoticed.
LEMMA ShapeShows == ChainInv /\ HashesGrow => TamperEvident
<1> SUFFICES ASSUME ChainInv, HashesGrow PROVE TamperEvident
  OBVIOUS
<1>1. logs \in Seq(AuditRow) /\ Len(logs) \in Nat
  BY DEF ChainInv, AuditTypeOK
<1>2. ASSUME NEW i \in 1..Len(logs), i < Len(logs) PROVE ~RowVerifies(Without(i), i)
  <2> DEFINE s == Without(i)
  <2>1. s[i] = logs[i + 1] /\ \A j \in 1..Len(logs) : j < i => s[j] = logs[j]
    BY <1>1, <1>2 DEF Without
  <2> HIDE DEF s
  <2>2. ~RowVerifies(s, i)
    BY <1>2, <2>1, TooEarlyShows
  <2> QED
    BY <2>2 DEF s
<1>3. ASSUME NEW i \in 1..Len(logs), i < Len(logs) PROVE ~RowVerifies(Swapped(i), i)
  <2> DEFINE s == Swapped(i)
  <2>1. s[i] = logs[i + 1] /\ \A j \in 1..Len(logs) : j < i => s[j] = logs[j]
    BY <1>1, <1>3 DEF Swapped
  <2> HIDE DEF s
  <2>2. ~RowVerifies(s, i)
    BY <1>3, <2>1, TooEarlyShows
  <2> QED
    BY <2>2 DEF s
<1>4. ASSUME NEW i \in 1..Len(logs), NEW a \in Id, NEW p \in IP,
             NEW d \in {logs[j].entry.date : j \in 1..Len(logs)},
             NEW e, e = [id |-> a, ip |-> p, date |-> d, ns |-> 0], Column(e) = e,
             IF IsV2(i) THEN e # logs[i].entry ELSE a # logs[i].entry.id
      PROVE  ~RowVerifies(Changed(i, e), i)
  <2>1. \A j \in 1..Len(logs) : logs[j].entry.date \in Date
    <3>1. \A j \in 1..Len(logs) : logs[j] \in AuditRow
      BY <1>1, ElementOfSeq
    <3> QED
      BY <3>1 DEF AuditRow, Stored, Entry
  <2>2. e \in Entry /\ e.ns = 0 /\ e.id = a
    BY <1>4, <2>1 DEF Entry
  <2> QED
    BY <1>4, <2>2, EditShows
<1> QED
  BY <1>2, <1>3, <1>4 DEF TamperEvident

\* Every hash holds one contribution per row up to its own, in every reachable log.
LEMMA HashesAlwaysGrow == Spec => [](ChainInv /\ HashesGrow)
<1>1. Init => ChainInv /\ HashesGrow
  BY InitChain, InitGrows
<1>2. ChainInv /\ HashesGrow /\ [Next]_vars => HashesGrow'
  <2> SUFFICES ASSUME ChainInv, HashesGrow, [Next]_vars PROVE HashesGrow'
    OBVIOUS
  <2>1. CASE \E w \in Writer : Commit(w)
    BY <2>1, CommitGrows
  <2>2. CASE ~\E w \in Writer : Commit(w)
    BY <2>2, RowsOnlyCommitted DEF HashesGrow
  <2> QED
    BY <2>1, <2>2
<1> QED
  BY <1>1, <1>2, NextChain, PTL DEF Spec

\* A row whose caller spelt an id or an address otherwise than the database never
\* verifies; every other row always does (VerifyChain).
THEOREM OnlyMisspeltRowsFail == Spec => []OnlyMisspeltFail
  BY MisspeltRows, HashesAlwaysGrow, PTL

\* Whoever edits a stored row, removes one that is not the last or exchanges two
\* neighbours leaves a row that VerifyChain refuses in its place, in every reachable
\* log.
THEOREM TamperingShows == Spec => []TamperEvident
  BY ShapeShows, HashesAlwaysGrow, PTL

-----------------------------------------------------------------------------
(* The partitions that the rows need                                       *)

\* Each month to create is created, put off by an error that is remembered, or
\* still to do.
LEMMA TargetsStep ==
    ASSUME ChainInv, TargetsOK, [Next]_vars
    PROVE  TargetsOK'
<1>1. manager \in Manager /\ Targets(date) \in Seq(Months) /\ Len(Targets(date)) = 3
  BY TargetsType DEF ChainInv, AuditTypeOK, Targets
<1>2. CASE StartServer \/ TickerFires
  <2>1. manager'.ran /\ manager'.up /\ manager'.todo = Targets(date) /\ date' = date
    BY <1>1, <1>2 DEF StartServer, TickerFires, Ensure, Manager, Down
  <2>2. Targets(date)' = Targets(date)
    BY <2>1 DEF Targets, AddDate
  <2> QED
    BY <1>1, <2>1, <2>2 DEF TargetsOK
<1>3. CASE CreatePartition
  <2> DEFINE q == manager.todo
  <2>1. q \in Seq(Months) /\ q # <<>>
    BY <1>1, <1>3 DEF CreatePartition, Manager
  <2>2. /\ manager'.up = manager.up /\ manager'.ran = manager.ran
        /\ manager'.todo = Tail(q) /\ date' = date /\ manager.ran
    BY <1>1, <1>3 DEF CreatePartition, Manager, TargetsOK
  <2>3. ~manager'.failed => ~manager.failed /\ parts' = parts \cup {Head(q)}
    BY <1>1, <1>3 DEF CreatePartition, Manager
  <2>4. Targets(date)' = Targets(date)
    BY <2>2 DEF Targets, AddDate
  <2>5. ASSUME ~manager'.failed, NEW k \in 1..3
        PROVE  \/ Targets(date)[k] \in parts'
               \/ \E j \in 1..Len(Tail(q)) : Tail(q)[j] = Targets(date)[k]
    <3>1. CASE Targets(date)[k] \in parts
      BY <2>3, <2>5, <3>1
    <3>2. ASSUME NEW j \in 1..Len(q), q[j] = Targets(date)[k]
          PROVE  \/ Targets(date)[k] \in parts'
                 \/ \E i \in 1..Len(Tail(q)) : Tail(q)[i] = Targets(date)[k]
      <4>1. CASE j = 1
        BY <2>1, <2>3, <2>5, <3>2, <4>1
      <4>2. CASE j # 1
        <5>1. j - 1 \in 1..Len(Tail(q)) /\ Tail(q)[j - 1] = q[j]
          BY <2>1, <4>2
        <5> QED
          BY <3>2, <5>1
      <4> QED
        BY <4>1, <4>2
    <3>3. Targets(date)[k] \in parts \/ \E j \in 1..Len(q) : q[j] = Targets(date)[k]
      BY <2>2, <2>3, <2>5 DEF TargetsOK
    <3> QED
      BY <3>1, <3>2, <3>3
  <2>6. (~manager'.up => ~manager'.ran) /\ manager'.ran
    BY <2>2 DEF TargetsOK
  <2>7. ~manager'.failed =>
          \A k \in 1..3 :
              \/ Targets(date)'[k] \in parts'
              \/ \E j \in 1..Len(manager'.todo) : manager'.todo[j] = Targets(date)'[k]
    <3> HIDE DEF q
    <3> QED
      BY <2>2, <2>4, <2>5
  <2> QED
    BY <2>6, <2>7 DEF TargetsOK
<1>4. CASE Crash
  BY <1>4 DEF Crash, Down, TargetsOK
<1>5. CASE Midnight
  <2>1. manager'.up = manager.up /\ manager'.ran = FALSE /\ manager'.todo = manager.todo
        /\ manager.todo = <<>>
    BY <1>1, <1>5 DEF Midnight, Manager, TargetsOK
  <2> QED
    BY <2>1 DEF TargetsOK
<1>6. CASE UNCHANGED <<date, parts, manager>>
  BY <1>6 DEF TargetsOK, Targets, AddDate
<1>7. ASSUME NEW w \in Writer, Call(w) \/ Step(w) \/ Rollback(w)
      PROVE  UNCHANGED <<date, parts, manager>>
  BY <1>7 DEF Call, Log, Step, LockChain, Insert, Advance, Commit, Rollback
<1> QED
  BY <1>2, <1>3, <1>4, <1>5, <1>6, <1>7 DEF Next, vars

\* AddDate goes i months ahead unless the month there is too short for today.
LEMMA AddDateAhead ==
    ASSUME ChainInv, NEW i \in 0..2, date.day <= MonthLen[date.month + i]
    PROVE  AddDate(date, i) = date.month + i
<1>1. PICK m \in Months : \E d \in 1..MonthLen[m] : date = [month |-> m, day |-> d]
  BY DEF ChainInv, AuditTypeOK, Date
<1>2. PICK d \in 1..MonthLen[m] : date = [month |-> m, day |-> d]
  BY <1>1
<1>3. date.month = m /\ date.day = d
  BY <1>2
<1>4. m \in Nat /\ m >= 1 /\ Len(MonthLen) \in Nat /\ MaxMonth \in Nat
      /\ MaxMonth + 3 <= Len(MonthLen)
  BY CalendarAssumption DEF Months
<1>5. m <= MaxMonth
  BY <1>3 DEF ChainInv, AuditTypeOK
<1>6. m + i \in Months
  BY <1>4, <1>5 DEF Months
<1>7. \A k \in Months : MonthLen[k] \in Nat
  BY CalendarAssumption DEF Months
<1>8. d \in Nat /\ MonthLen[m + i] \in Nat
  BY <1>6, <1>7
<1>9. ~(date.day > MonthLen[date.month + i])
  BY <1>3, <1>8
<1> QED
  BY <1>9 DEF AddDate

\* After an EnsurePartitions without errors today's rows have their partition,
\* and so have the rows of the next two months unless a month is too short for
\* today's day.
THEOREM PartitionsInTime == Spec => []PartitionsAhead
<1>1. Init => TargetsOK
  BY DEF Init, Down, TargetsOK
<1>2. ChainInv /\ TargetsOK /\ [Next]_vars => TargetsOK'
  BY TargetsStep
<1>3. ChainInv /\ TargetsOK => PartitionsAhead
  <2> SUFFICES ASSUME ChainInv, TargetsOK,
                      manager.up, manager.ran, manager.todo = <<>>, ~manager.failed
               PROVE  /\ date.month \in parts
                      /\ \A i \in {1, 2} :
                           date.day <= MonthLen[date.month + 1]
                           /\ date.day <= MonthLen[date.month + 2]
                           => date.month + i \in parts
    BY DEF PartitionsAhead
  <2>1. \A k \in 1..3 : Targets(date)[k] \in parts
    BY DEF TargetsOK
  <2>2. AddDate(date, 0) \in parts /\ AddDate(date, 1) \in parts /\ AddDate(date, 2) \in parts
    BY <2>1 DEF Targets
  <2>3. date.month \in Nat /\ date.day <= MonthLen[date.month + 0]
    <3>1. PICK m \in Months : \E d \in 1..MonthLen[m] : date = [month |-> m, day |-> d]
      BY DEF ChainInv, AuditTypeOK, Date
    <3>2. m \in Nat /\ m + 0 = m
      BY DEF Months
    <3> QED
      BY <3>1, <3>2
  <2>4. date.month \in parts
    <3>1. AddDate(date, 0) = date.month + 0
      BY <2>3, AddDateAhead
    <3> QED
      BY <2>2, <2>3, <3>1
  <2>5. ASSUME NEW i \in {1, 2}, date.day <= MonthLen[date.month + 1],
               date.day <= MonthLen[date.month + 2]
        PROVE  date.month + i \in parts
    <3>1. i \in 0..2 /\ date.day <= MonthLen[date.month + i]
      BY <2>5
    <3>2. AddDate(date, i) = date.month + i
      BY <3>1, AddDateAhead
    <3> QED
      BY <2>2, <3>2
  <2> QED
    BY <2>4, <2>5
<1> QED
  BY <1>1, <1>2, <1>3, InitChain, NextChain, PTL DEF Spec

-----------------------------------------------------------------------------
(* The chain implements the append-only trail                              *)

EntryTrail == [i \in 1..Len(logs) |-> logs[i].entry]
Calls == [w \in Writer |-> Readable(w)]

\* Every row holds an entry.
LEMMA RowEntry ==
    ASSUME NEW s \in Seq(AuditRow)
    PROVE  Len(s) \in Nat /\ \A i \in 1..Len(s) : s[i].entry \in Entry
<1>1. \A i \in 1..Len(s) : s[i] \in AuditRow
  BY ElementOfSeq
<1>2. \A r \in AuditRow : r.entry \in Entry
  BY DEF AuditRow, Stored
<1> QED
  BY <1>1, <1>2, LenProperties

\* A chain from before the upgrade is a trail, and nobody is logging yet.
LEMMA TrailStarts == Init => Trail!TrailInit
<1> SUFFICES ASSUME Init PROVE Trail!TrailInit
  OBVIOUS
<1>1. logs \in Seq(AuditRow)
  BY InitChain DEF ChainInv, AuditTypeOK
<1>2. Len(logs) \in Nat /\ \A i \in 1..Len(logs) : logs[i].entry \in Entry
  BY <1>1, RowEntry
<1>3. EntryTrail \in [1..Len(logs) -> Entry]
  BY <1>2 DEF EntryTrail
<1>4. EntryTrail \in Seq(Entry)
  BY <1>2, <1>3, SeqDef
<1>5. Calls = [w \in Writer |-> NoEntry]
  BY DEF Init, Quiet, Calls, Readable
<1> QED
  BY <1>4, <1>5 DEF Trail!TrailInit, EntryTrail, Calls

\* Every step appends the entry of one call, starts or ends calls, or is unseen.
LEMMA TrailSteps == ChainInv /\ [Next]_vars => [Trail!TrailNext]_(Trail!trailVars)
<1> SUFFICES ASSUME ChainInv, [Next]_vars
             PROVE  Trail!TrailNext \/ (EntryTrail' = EntryTrail /\ Calls' = Calls)
  BY DEF Trail!trailVars, EntryTrail, Calls
<1> USE DEF EntryTrail, Calls
<1>1. writer \in [Writer -> Locals] /\ Calls \in [Writer -> Entry \cup {NoEntry}]
  BY ColumnIdempotent DEF ChainInv, AuditTypeOK, EntryOK, Readable
<1>2. NoEntry \notin Entry
  BY IdAssumption DEF NoEntry, Entry
<1>3. ASSUME NEW W \in SUBSET Writer, UNCHANGED logs,
             writer' = [w \in Writer |-> IF w \in W THEN Quiet ELSE writer[w]]
      PROVE  Trail!TrailNext
  <2>1. Calls' = [w \in Writer |-> IF w \in W THEN NoEntry ELSE Calls[w]]
    BY <1>3 DEF Quiet, Readable
  <2>2. Trail!Fail(W)
    BY <1>3, <2>1 DEF Trail!Fail
  <2> QED
    BY <2>2 DEF Trail!TrailNext
<1>4. ASSUME NEW w \in Writer, End(w), UNCHANGED logs PROVE Trail!TrailNext
  <2>1. writer' = [v \in Writer |-> IF v \in {w} THEN Quiet ELSE writer[v]]
    BY <1>1, <1>4 DEF End
  <2> QED
    BY <1>3, <1>4, <2>1
<1>5. ASSUME NEW w \in Writer, Call(w) PROVE Trail!TrailNext
  <2>1. PICK e \in Entry : Log(w, e)
    BY <1>5 DEF Call, ChainInv, AuditTypeOK, Entry
  <2>2. Column(Normalize(e)) \in Entry /\ UNCHANGED logs
    BY <2>1, Normalized, ColumnIdempotent DEF Log
  <2>3. Calls[w] = NoEntry
    BY <2>1 DEF Readable, Log
  <2>4. Calls' = [Calls EXCEPT ![w] = Column(Normalize(e))]
    BY <1>1, <2>1 DEF Log, Quiet, Readable
  <2>5. Trail!Begin(w)
    BY <2>2, <2>3, <2>4 DEF Trail!Begin
  <2> QED
    BY <2>5 DEF Trail!TrailNext
<1>6. ASSUME NEW w \in Writer, UNCHANGED logs, writer[w].entry = writer'[w].entry,
             writer[w].pc # "idle", writer'[w].pc # "idle",
             \A v \in Writer \ {w} : writer'[v] = writer[v]
      PROVE  EntryTrail' = EntryTrail /\ Calls' = Calls
  BY <1>6 DEF Readable
<1>7. ASSUME NEW w \in Writer, LockChain(w) \/ Insert(w) \/ Advance(w)
      PROVE  Trail!TrailNext \/ (EntryTrail' = EntryTrail /\ Calls' = Calls)
  <2>1. UNCHANGED logs
    BY <1>7 DEF LockChain, Insert, Advance
  <2>2. \/ End(w)
        \/ /\ writer'[w].entry = writer[w].entry
           /\ writer[w].pc # "idle" /\ writer'[w].pc # "idle"
           /\ \A v \in Writer \ {w} : writer'[v] = writer[v]
    BY <1>1, <1>7 DEF LockChain, Insert, Advance, Goto, Locals
  <2> QED
    BY <1>4, <1>6, <2>1, <2>2
<1>8. ASSUME NEW w \in Writer, Commit(w) PROVE Trail!TrailNext
  <2>1. /\ Calls[w] = Column(writer[w].entry) /\ Calls[w] # NoEntry
        /\ Column(writer[w].entry) \in Stored
    BY <1>2, <1>8, ColumnIdempotent, ColumnStored DEF ChainInv, EntryOK, Commit, Readable
  <2>2. logs \in Seq(AuditRow) /\ Row(w) \in AuditRow /\ Row(w).entry = Calls[w]
    BY <1>1, <1>8, <2>1 DEF ChainInv, AuditTypeOK, Commit, Row, AuditRow, Locals
  <2>3. EntryTrail' = Append(EntryTrail, Calls[w])
    <3> DEFINE n == Len(logs)
    <3>1. n \in Nat /\ logs' = Append(logs, Row(w)) /\ Len(logs') = n + 1
          /\ logs'[n + 1] = Row(w) /\ \A i \in 1..n : logs'[i] = logs[i]
      BY <1>8, <2>2 DEF Commit
    <3>2. \A i \in 1..n : logs[i].entry \in Entry
      BY <2>2, RowEntry
    <3>3. EntryTrail \in Seq(Entry) /\ Len(EntryTrail) = n
      <4>1. EntryTrail \in [1..n -> Entry]
        BY <3>2
      <4>2. EntryTrail \in Seq(Entry)
        BY <3>1, <4>1, SeqDef
      <4> QED
        BY <3>1, <4>1, <4>2, LenProperties
    <3>4. EntryTrail' = [i \in 1..(n + 1) |-> IF i = n + 1 THEN Calls[w] ELSE EntryTrail[i]]
      BY <2>2, <3>1
    <3> HIDE DEF EntryTrail, Calls, n
    <3> QED
      BY <3>1, <3>3, <3>4
  <2>4. Calls' = [Calls EXCEPT ![w] = NoEntry]
    BY <1>1, <1>8 DEF Commit, End, Quiet, Readable
  <2>5. Trail!Record(w)
    BY <2>1, <2>3, <2>4 DEF Trail!Record
  <2> QED
    BY <2>5 DEF Trail!TrailNext
<1>9. ASSUME NEW w \in Writer, Rollback(w) PROVE Trail!TrailNext
  BY <1>4, <1>9 DEF Rollback
<1>10. CASE Crash
  <2>1. writer' = [w \in Writer |-> IF w \in Writer THEN Quiet ELSE writer[w]] /\ UNCHANGED logs
    BY <1>10 DEF Crash
  <2> QED
    BY <1>3, <2>1
<1>11. CASE StartServer \/ TickerFires \/ CreatePartition \/ Midnight \/ UNCHANGED vars
  BY <1>11 DEF StartServer, TickerFires, CreatePartition, Midnight, vars, Readable
<1> QED
  BY <1>5, <1>7, <1>8, <1>9, <1>10, <1>11 DEF Next, Step

\* For any writers, faults and history, the log implements the trail: it only
\* grows, by the entry of one call at a time, and no call adds its entry twice.
THEOREM TrailImplemented == Spec => ImplementsTrail
  BY TrailStarts, TrailSteps, ChainInvariance, PTL
     DEF Spec, ImplementsTrail, Trail!TrailSpec
=============================================================================
