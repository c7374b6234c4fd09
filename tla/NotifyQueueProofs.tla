--------------------------- MODULE NotifyQueueProofs ---------------------------
(***************************************************************************)
(* Proofs about the notification queue, for any number of servers and      *)
(* jobs, any batch size, and any number of faults.                         *)
(***************************************************************************)
EXTENDS NotifyQueueProps, TLAPS

\* NextJob goes back to the loop of processBatch, or to sleep: the worker keeps
\* its batch, holds no job in hand and is not about to mark one.
LEMMA NextJobKeeps ==
    ASSUME QueueTypeOK, NEW s \in Server, NextJob(s)
    PROVE  /\ worker' \in [Server -> Local]
           /\ \A r \in Server \ {s} : worker'[r] = worker[r]
           /\ worker'[s].batch = worker[s].batch
           /\ worker'[s].current = None
           /\ worker'[s].pc \in {"idle", "deliver"}
           /\ worker'[s].pc = "idle" => worker'[s] = Idle
<1>1. worker[s] \in Local
  BY DEF QueueTypeOK
<1>2. Idle \in Local
  BY DEF Idle, Local
<1>3. CASE worker[s].batch = {}
  <2>1. worker' = [worker EXCEPT ![s] = Idle]
    BY <1>3 DEF NextJob
  <2> QED
    BY <1>2, <1>3, <2>1 DEF QueueTypeOK, Idle
<1>4. CASE worker[s].batch # {}
  <2> DEFINE w == [worker[s] EXCEPT !.pc = "deliver", !.current = None, !.ok = FALSE,
                                    !.retry = 0]
  <2>1. worker' = [worker EXCEPT ![s] = w]
    BY <1>4 DEF NextJob
  <2>2. w \in Local /\ w.batch = worker[s].batch /\ w.current = None /\ w.pc = "deliver"
    BY <1>1 DEF Local
  <2> QED
    BY <2>1, <2>2 DEF QueueTypeOK
<1> QED
  BY <1>3, <1>4

\* An UPDATE of a well-typed row writes that row, or nothing.
LEMMA UpdateWrites ==
    ASSUME QueueTypeOK, NEW s \in Server, NEW row \in JobRow, Update(s, row)
    PROVE  /\ QueueTypeOK'
           /\ \A j \in Job : job'[j] = job[j] \/ (j = worker[s].current /\ job'[j] = row
                                                  /\ job[j].status # "deleted")
           /\ tried' = tried /\ delivered' = delivered /\ shared' = shared
           /\ faults' \in {faults, faults + 1}
           /\ NextJob(s)
           /\ faults' = faults /\ worker[s].current \in Job =>
                job[worker[s].current].status = "deleted" \/ job'[worker[s].current] = row
<1>1. worker' \in [Server -> Local]
  BY NextJobKeeps DEF Update
<1> QED
  BY <1>1 DEF QueueTypeOK, Update, Fault

\* The rows that the three marks write are rows.
LEMMA MarksWriteRows ==
    ASSUME QueueTypeOK, NEW s \in Server, worker[s].current \in Job
    PROVE  /\ [Row(s) EXCEPT !.status = "sent"] \in JobRow
           /\ [Row(s) EXCEPT !.status = "exhausted"] \in JobRow
           /\ ~Exhausted(s) =>
                [status |-> "retrying", retry |-> NewCount(s),
                 wait |-> Backoff[NewCount(s)]] \in JobRow
<1>1. job[worker[s].current] \in JobRow
  BY DEF QueueTypeOK
<1>2. worker[s].retry \in Nat
  BY DEF QueueTypeOK, Local
<1>3. /\ [Row(s) EXCEPT !.status = "sent"] \in JobRow
      /\ [Row(s) EXCEPT !.status = "exhausted"] \in JobRow
  BY <1>1 DEF Row, JobRow
<1>4. ASSUME ~Exhausted(s)
      PROVE  NewCount(s) \in 1 .. MaxRetries /\ NewCount(s) \in 0 .. MaxRetries - 1
  BY <1>2, <1>4, QueueAssumption DEF Exhausted, NewCount
<1>5. ASSUME ~Exhausted(s)
      PROVE  Backoff[NewCount(s)] \in Nat
  BY <1>4, <1>5, QueueAssumption
<1> QED
  BY <1>3, <1>4, <1>5 DEF JobRow
-----------------------------------------------------------------------------
(* Type correctness                                                        *)

\* The initial rows and workers are well typed.
LEMMA InitTyped == Init => QueueTypeOK
<1> SUFFICES ASSUME Init PROVE QueueTypeOK
  OBVIOUS
<1>1. NoJob \in JobRow /\ Idle \in Local
  BY QueueAssumption DEF NoJob, JobRow, Idle, Local
<1> QED
  BY <1>1 DEF Init, QueueTypeOK

\* A fetched batch has the type of a batch.
LEMMA FetchTyped ==
    ASSUME QueueTypeOK, NEW s \in Server, FetchReady(s)
    PROVE  QueueTypeOK'
<1>1. PICK B \in SUBSET {j \in Job \ Locked(s) : Ready(j)} :
        /\ worker' = [worker EXCEPT ![s].pc = "fetching",
                        ![s].batch = {[job |-> j, retry |-> job[j].retry] : j \in B}]
        /\ shared' = shared \cup (B \cap UNION {Holds(r) : r \in Server \ {s}})
  BY DEF FetchReady
<1>2. {[job |-> j, retry |-> job[j].retry] : j \in B} \in SUBSET Entry
  BY DEF QueueTypeOK, JobRow, Entry
<1>3. worker' \in [Server -> Local]
  <2> DEFINE E == {[job |-> j, retry |-> job[j].retry] : j \in B}
  <2>1. worker' = [worker EXCEPT ![s].pc = "fetching", ![s].batch = E]
    BY <1>1
  <2>2. E \in SUBSET Entry
    BY <1>2
  <2> HIDE DEF E
  <2>3. [worker[s] EXCEPT !.pc = "fetching", !.batch = E] \in Local
    <3>1. worker[s] \in Local
      BY DEF QueueTypeOK
    <3> QED
      BY <2>2, <3>1 DEF Local
  <2> QED
    BY <2>1, <2>3 DEF QueueTypeOK
<1>4. shared' \subseteq Job
  <2>1. B \subseteq Job
    OBVIOUS
  <2> HIDE DEF Holds
  <2> QED
    BY <1>1, <2>1 DEF QueueTypeOK
<1>5. UNCHANGED <<job, tried, delivered, faults>>
  BY DEF FetchReady
<1> QED
  BY <1>3, <1>4, <1>5 DEF QueueTypeOK

\* So has what is left of it when the rows stop coming.
LEMMA FetchedTyped ==
    ASSUME QueueTypeOK, NEW s \in Server, Fetched(s)
    PROVE  QueueTypeOK'
<1>1. Idle \in Local
  BY DEF Idle, Local
<1>2. faults' \in Nat /\ UNCHANGED <<job, tried, delivered, shared>>
  <2>1. (Fault \/ UNCHANGED faults) /\ UNCHANGED <<job, tried, delivered, shared>>
    BY Zenon DEF Fetched
  <2> QED
    BY <2>1 DEF Fault, QueueTypeOK
<1>3. CASE worker' = [worker EXCEPT ![s].pc = "deliver"]
  <2>1. worker' \in [Server -> Local]
    BY <1>3 DEF QueueTypeOK, Local
  <2> QED
    BY <1>2, <2>1 DEF QueueTypeOK
<1>4. ASSUME NEW B \in SUBSET worker[s].batch,
             worker' = [worker EXCEPT ![s] = IF B = {} THEN Idle
                          ELSE [@ EXCEPT !.pc = "deliver", !.batch = B]]
      PROVE  QueueTypeOK'
  <2>1. worker[s] \in Local
    BY DEF QueueTypeOK
  <2>2. [worker[s] EXCEPT !.pc = "deliver", !.batch = B] \in Local
    BY <2>1 DEF Local
  <2>3. worker' \in [Server -> Local]
    BY <1>1, <1>4, <2>2 DEF QueueTypeOK
  <2> QED
    BY <1>2, <2>3 DEF Fetched, QueueTypeOK
<1> QED
  BY <1>3, <1>4 DEF Fetched

\* A delivery counts, and hands the outcome on.
LEMMA DeliverTyped ==
    ASSUME QueueTypeOK, NEW s \in Server, Deliver(s)
    PROVE  QueueTypeOK'
<1>1. PICK e \in worker[s].batch, ok \in BOOLEAN, got \in BOOLEAN :
        /\ IF got /\ ~ok THEN Fault ELSE UNCHANGED faults
        /\ worker' = [worker EXCEPT ![s] = [pc |-> "mark", batch |-> @.batch \ {e},
                        current |-> e.job, retry |-> e.retry, ok |-> ok]]
        /\ tried' = [tried EXCEPT ![e.job] = @ + 1]
        /\ delivered' = [delivered EXCEPT ![e.job] = IF got THEN @ + 1 ELSE @]
  BY DEF Deliver
<1>2. worker[s].batch \in SUBSET Entry /\ e \in Entry
  BY DEF QueueTypeOK, Local
<1>3. e.job \in Job /\ e.retry \in Nat
  BY <1>2 DEF Entry
<1>4. [pc |-> "mark", batch |-> worker[s].batch \ {e}, current |-> e.job,
       retry |-> e.retry, ok |-> ok] \in Local
  BY <1>2, <1>3 DEF Local
<1>5. worker' \in [Server -> Local]
  BY <1>1, <1>4 DEF QueueTypeOK
<1>6. tried' \in [Job -> Nat] /\ delivered' \in [Job -> Nat] /\ faults' \in Nat
  BY <1>1, <1>3 DEF QueueTypeOK, Fault
<1> QED
  BY <1>5, <1>6 DEF Deliver, QueueTypeOK
\* A mark that writes a row keeps the types.
LEMMA MarkTyped ==
    ASSUME QueueTypeOK, NEW s \in Server, worker[s].current \in Job,
           MarkSent(s) \/ MarkExhausted(s) \/ MarkRetry(s)
    PROVE  QueueTypeOK'
<1>1. CASE MarkSent(s)
  BY <1>1, MarksWriteRows, UpdateWrites DEF MarkSent
<1>2. CASE MarkExhausted(s)
  BY <1>2, MarksWriteRows, UpdateWrites DEF MarkExhausted
<1>3. CASE MarkRetry(s)
  BY <1>3, MarksWriteRows, UpdateWrites DEF MarkRetry
<1> QED
  BY <1>1, <1>2, <1>3

\* The rest of the system keeps the types.
LEMMA OthersTyped ==
    ASSUME QueueTypeOK,
           \/ \E j \in Job : Enqueue(j)
           \/ \E s \in Server : CleanOld(s) \/ Crash(s)
           \/ Tick
    PROVE  QueueTypeOK'
<1>1. ASSUME NEW j \in Job, Enqueue(j) PROVE QueueTypeOK'
  BY <1>1 DEF Enqueue, QueueTypeOK, JobRow
<1>2. ASSUME NEW s \in Server, CleanOld(s) PROVE QueueTypeOK'
  BY <1>2 DEF CleanOld, QueueTypeOK, JobRow
<1>3. ASSUME NEW s \in Server, Crash(s) PROVE QueueTypeOK'
  <2>1. Idle \in Local
    BY DEF Idle, Local
  <2> QED
    BY <1>3, <2>1 DEF Crash, Fault, QueueTypeOK
<1>4. CASE Tick
  <2>1. ASSUME NEW j \in Job
        PROVE  [job[j] EXCEPT !.wait = IF @ > 0 THEN @ - 1 ELSE 0] \in JobRow
    BY DEF QueueTypeOK, JobRow
  <2>2. job' \in [Job -> JobRow]
    BY <1>4, <2>1 DEF Tick
  <2> QED
    BY <1>4, <2>2 DEF Tick, QueueTypeOK
<1> QED
  BY <1>1, <1>2, <1>3, <1>4
-----------------------------------------------------------------------------
(* Sent jobs were delivered, exhausted ones were tried often enough        *)

\* A batch holds the retry counts of its rows.
LEMMA FetchCounts ==
    ASSUME CountInv, NEW s \in Server, FetchReady(s)
    PROVE  CountInv'
<1>1. PICK B \in SUBSET {j \in Job \ Locked(s) : Ready(j)} :
        worker' = [worker EXCEPT ![s].pc = "fetching",
                     ![s].batch = {[job |-> j, retry |-> job[j].retry] : j \in B}]
  BY DEF FetchReady
<1>2. UNCHANGED <<job, tried, delivered>>
  BY DEF FetchReady
<1>3. worker' = [worker EXCEPT ![s] = [worker[s] EXCEPT !.pc = "fetching",
                   !.batch = {[job |-> j, retry |-> job[j].retry] : j \in B}]]
  BY <1>1 DEF CountInv, QueueTypeOK, Local
<1>4. /\ \A r \in Server \ {s} : worker'[r] = worker[r]
      /\ worker'[s].batch = {[job |-> j, retry |-> job[j].retry] : j \in B}
      /\ worker'[s].pc = "fetching"
  BY <1>3 DEF CountInv, QueueTypeOK, Local
<1>5. \A e \in worker'[s].batch : e.retry <= tried[e.job]
  BY <1>1, <1>4 DEF CountInv, Counted
<1>6. \A r \in Server \ {s} : \A e \in worker'[r].batch : e.retry <= tried[e.job]
  BY <1>4 DEF CountInv, Counted
<1>7. \A r \in Server : worker'[r].pc = "mark" => worker'[r] = worker[r]
  BY <1>4
<1>8. Counted'
  BY <1>2, <1>5, <1>6, <1>7 DEF CountInv, Counted, NewCount
<1> QED
  BY <1>2, <1>8, FetchTyped DEF CountInv, SentWasDelivered, ExhaustedWasTried

\* What is left of the batch still does.
LEMMA FetchedCounts ==
    ASSUME CountInv, NEW s \in Server, Fetched(s)
    PROVE  CountInv'
<1>1. UNCHANGED <<job, tried, delivered>>
  BY Zenon DEF Fetched
<1>2. /\ \A r \in Server \ {s} : worker'[r] = worker[r]
      /\ worker'[s].batch \subseteq worker[s].batch
      /\ worker'[s].pc # "mark"
  <2>1. worker[s] \in Local
    BY DEF CountInv, QueueTypeOK
  <2>2. CASE worker' = [worker EXCEPT ![s].pc = "deliver"]
    BY <2>1, <2>2 DEF CountInv, QueueTypeOK, Local
  <2>3. ASSUME NEW B \in SUBSET worker[s].batch,
               worker' = [worker EXCEPT ![s] = IF B = {} THEN Idle
                            ELSE [@ EXCEPT !.pc = "deliver", !.batch = B]]
        PROVE  <1>2!1 /\ <1>2!2 /\ <1>2!3
    <3>1. CASE B = {}
      BY <2>3, <3>1 DEF CountInv, QueueTypeOK, Idle
    <3>2. CASE B # {}
      BY <2>1, <2>3, <3>2 DEF CountInv, QueueTypeOK, Local
    <3> QED
      BY <3>1, <3>2
  <2> QED
    BY <2>2, <2>3 DEF Fetched
<1>3. Counted'
  BY <1>1, <1>2 DEF CountInv, Counted, NewCount
<1> QED
  BY <1>1, <1>3, FetchedTyped DEF CountInv, SentWasDelivered, ExhaustedWasTried

\* Delivering raises the count before the mark claims it.
LEMMA DeliverCounts ==
    ASSUME CountInv, NEW s \in Server, Deliver(s)
    PROVE  CountInv'
<1>1. PICK e \in worker[s].batch, ok \in BOOLEAN, got \in BOOLEAN :
        /\ ok => got
        /\ worker' = [worker EXCEPT ![s] = [pc |-> "mark", batch |-> @.batch \ {e},
                        current |-> e.job, retry |-> e.retry, ok |-> ok]]
        /\ tried' = [tried EXCEPT ![e.job] = @ + 1]
        /\ delivered' = [delivered EXCEPT ![e.job] = IF got THEN @ + 1 ELSE @]
  BY DEF Deliver
<1>2. job' = job
  BY DEF Deliver
<1>3. worker[s].batch \in SUBSET Entry /\ e.job \in Job /\ e.retry \in Nat
  BY DEF CountInv, QueueTypeOK, Local, Entry
<1>4. /\ tried \in [Job -> Nat] /\ delivered \in [Job -> Nat]
      /\ worker \in [Server -> Local]
  BY DEF CountInv, QueueTypeOK
<1>5. /\ \A j \in Job : tried'[j] >= tried[j] /\ delivered'[j] >= delivered[j]
      /\ tried'[e.job] = tried[e.job] + 1
      /\ ok => delivered'[e.job] > 0
      /\ \A j \in Job : tried'[j] \in Nat /\ delivered'[j] \in Nat
  BY <1>1, <1>3, <1>4
<1>6. /\ \A r \in Server \ {s} : worker'[r] = worker[r]
      /\ worker'[s].batch = worker[s].batch \ {e} /\ worker'[s].pc = "mark"
      /\ worker'[s].current = e.job /\ worker'[s].retry = e.retry /\ worker'[s].ok = ok
  BY <1>1, <1>4
<1>7. \A j \in Job : job[j].retry \in Nat /\ job[j].retry <= tried'[j]
  BY <1>4, <1>5 DEF CountInv, QueueTypeOK, JobRow, Counted
<1>8. ASSUME NEW r \in Server, NEW f \in worker'[r].batch
      PROVE  f.retry <= tried'[f.job]
  <2>1. f \in worker[r].batch
    BY <1>6
  <2>2. f.retry <= tried[f.job] /\ f.job \in Job /\ f.retry \in Nat
    BY <1>4, <2>1 DEF CountInv, Counted, Local, Entry
  <2> QED
    BY <1>4, <1>5, <2>2
<1>9. ASSUME NEW r \in Server, worker'[r].pc = "mark"
      PROVE  /\ worker'[r].current \in Job
             /\ worker'[r].retry + 1 <= tried'[worker'[r].current]
             /\ worker'[r].ok => delivered'[worker'[r].current] > 0
  <2>1. CASE r = s
    <3>1. e.retry <= tried[e.job]
      BY DEF CountInv, Counted
    <3> QED
      BY <1>3, <1>4, <1>5, <1>6, <2>1, <3>1
  <2>2. CASE r # s
    <3>1. /\ worker[r].pc = "mark" /\ worker'[r] = worker[r] /\ worker[r].retry \in Nat
      BY <1>4, <1>6, <1>9, <2>2 DEF Local
    <3>2. /\ worker[r].current \in Job
          /\ worker[r].retry + 1 <= tried[worker[r].current]
          /\ worker[r].ok => delivered[worker[r].current] > 0
      BY <3>1 DEF CountInv, Counted, NewCount
    <3> QED
      BY <1>4, <1>5, <3>1, <3>2
  <2> QED
    BY <2>1, <2>2
<1>10. Counted'
  BY <1>2, <1>7, <1>8, <1>9 DEF Counted, NewCount
<1>11. SentWasDelivered' /\ ExhaustedWasTried'
  BY <1>2, <1>4, <1>5, QueueAssumption DEF CountInv, SentWasDelivered, ExhaustedWasTried
<1> QED
  BY <1>10, <1>11, DeliverTyped DEF CountInv
\* A mark knows that its job was delivered, or tried as often as it writes.
LEMMA MarkCounts ==
    ASSUME CountInv, NEW s \in Server, MarkSent(s) \/ MarkExhausted(s) \/ MarkRetry(s)
    PROVE  CountInv'
<1> DEFINE c == worker[s].current
<1>1. /\ QueueTypeOK /\ c \in Job /\ NewCount(s) <= tried[c]
      /\ worker[s].ok => delivered[c] > 0
      /\ worker[s].retry \in Nat /\ tried \in [Job -> Nat] /\ job[c] \in JobRow
  BY DEF CountInv, Counted, QueueTypeOK, Local, MarkSent, MarkExhausted, MarkRetry
<1>2. PICK row \in JobRow :
        /\ Update(s, row)
        /\ row.retry <= tried[c]
        /\ row.status = "sent" => delivered[c] > 0
        /\ row.status = "exhausted" => tried[c] >= MaxRetries
        /\ row.status # "deleted"
  <2>1. CASE MarkSent(s)
    <3> DEFINE w == [job[c] EXCEPT !.status = "sent"]
    <3>1. w \in JobRow /\ Update(s, w) /\ w.status = "sent" /\ w.retry = job[c].retry
      BY <1>1, <2>1, MarksWriteRows DEF MarkSent, Row, JobRow
    <3>2. w.retry <= tried[c] /\ delivered[c] > 0
      BY <1>1, <2>1, <3>1 DEF MarkSent, CountInv, Counted
    <3> QED
      BY <3>1, <3>2
  <2>2. CASE MarkExhausted(s)
    <3> DEFINE w == [job[c] EXCEPT !.status = "exhausted"]
    <3>1. w \in JobRow /\ Update(s, w) /\ w.status = "exhausted" /\ w.retry = job[c].retry
      BY <1>1, <2>2, MarksWriteRows DEF MarkExhausted, Row, JobRow
    <3>2. w.retry <= tried[c]
      BY <1>1, <3>1 DEF CountInv, Counted
    <3>3. tried[c] >= MaxRetries
      BY <1>1, <2>2, QueueAssumption DEF MarkExhausted, Exhausted, NewCount
    <3> QED
      BY <3>1, <3>2, <3>3
  <2>3. CASE MarkRetry(s)
    <3> DEFINE w == [status |-> "retrying", retry |-> NewCount(s),
                     wait |-> Backoff[NewCount(s)]]
    <3>1. w \in JobRow /\ Update(s, w)
      BY <1>1, <2>3, MarksWriteRows DEF MarkRetry
    <3> QED
      BY <1>1, <3>1
  <2> QED
    BY <2>1, <2>2, <2>3
<1>3. /\ QueueTypeOK'
      /\ \A j \in Job : job'[j] = job[j]
           \/ (j = c /\ job'[j] = row /\ job[j].status # "deleted")
      /\ tried' = tried /\ delivered' = delivered /\ NextJob(s)
  BY <1>1, <1>2, UpdateWrites
<1>4. /\ \A r \in Server \ {s} : worker'[r] = worker[r]
      /\ worker'[s].batch = worker[s].batch /\ worker'[s].pc # "mark"
  BY <1>1, <1>3, NextJobKeeps
<1> HIDE DEF c
<1>5. Counted'
  BY <1>2, <1>3, <1>4 DEF CountInv, Counted, NewCount
<1>6. SentWasDelivered' /\ ExhaustedWasTried'
  BY <1>2, <1>3 DEF CountInv, SentWasDelivered, ExhaustedWasTried
<1> QED
  BY <1>3, <1>5, <1>6 DEF CountInv

\* The rest of the system claims no delivery.
LEMMA OthersCount ==
    ASSUME CountInv,
           \/ \E j \in Job : Enqueue(j)
           \/ \E s \in Server : CleanOld(s) \/ Crash(s)
           \/ Tick
    PROVE  CountInv'
<1>1. QueueTypeOK /\ QueueTypeOK'
  BY OthersTyped DEF CountInv
<1>2. UNCHANGED <<tried, delivered>>
  BY DEF Enqueue, CleanOld, Crash, Tick
<1>3. \A j \in Job : /\ job'[j].retry = job[j].retry
                     /\ job'[j].status \in {"sent", "deleted"} =>
                          job[j].status \in {"sent", "deleted"}
                     /\ job'[j].status = "exhausted" => job[j].status = "exhausted"
  BY <1>1 DEF Enqueue, CleanOld, Crash, Tick, QueueTypeOK, JobRow
<1>4. \A s \in Server : worker'[s] \in {worker[s], Idle}
  BY <1>1 DEF Enqueue, CleanOld, Crash, Tick, QueueTypeOK
<1>5. Counted'
  BY <1>2, <1>3, <1>4 DEF CountInv, Counted, NewCount, Idle
<1>6. SentWasDelivered' /\ ExhaustedWasTried'
  BY <1>2, <1>3 DEF CountInv, SentWasDelivered, ExhaustedWasTried
<1> QED
  BY <1>1, <1>5, <1>6 DEF CountInv

\* The counts hold in every reachable state.
THEOREM CountInvariance == Spec => []CountInv
<1>1. Init => CountInv
  <2>1. Init => Counted /\ SentWasDelivered /\ ExhaustedWasTried
    BY DEF Init, Counted, SentWasDelivered, ExhaustedWasTried, NoJob, Idle
  <2> QED
    BY <2>1, InitTyped DEF CountInv
<1>2. CountInv /\ [Next]_vars => CountInv'
  <2> SUFFICES ASSUME CountInv, [Next]_vars PROVE CountInv'
    OBVIOUS
  <2>1. ASSUME NEW s \in Server, Step(s) PROVE CountInv'
    BY <2>1, FetchCounts, FetchedCounts, DeliverCounts, MarkCounts DEF Step
  <2>2. CASE (\E j \in Job : Enqueue(j)) \/ (\E s \in Server : CleanOld(s) \/ Crash(s)) \/ Tick
    BY <2>2, OthersCount
  <2>3. CASE UNCHANGED vars
    BY <2>3 DEF vars, CountInv, QueueTypeOK, Counted, NewCount, SentWasDelivered,
                ExhaustedWasTried
  <2> QED
    BY <2>1, <2>2, <2>3 DEF Next
<1> QED
  BY <1>1, <1>2, PTL DEF Spec

\* A job marked sent has reached its recipient, for any number of servers.
THEOREM SentMeansDelivered == Spec => []SentWasDelivered
<1>1. CountInv => SentWasDelivered
  BY DEF CountInv
<1> QED
  BY <1>1, CountInvariance, PTL

\* A job is given up only after max_retries deliveries.
THEOREM ExhaustedMeansTried == Spec => []ExhaustedWasTried
<1>1. CountInv => ExhaustedWasTried
  BY DEF CountInv
<1> QED
  BY <1>1, CountInvariance, PTL

\* Rows and locals stay well typed; retry_count stays below max_retries.
THEOREM QueueTypeCorrect == Spec => []QueueTypeOK
<1>1. CountInv => QueueTypeOK
  BY DEF CountInv
<1> QED
  BY <1>1, CountInvariance, PTL
-----------------------------------------------------------------------------
(* Without faults and without overlap a notification is delivered once     *)

\* What a worker's steps do to what it has and to what it holds.
LEMMA FetchTakes ==
    ASSUME QueueTypeOK, OneEntry, NEW s \in Server, FetchReady(s)
    PROVE  /\ OneEntry'
           /\ \A r \in Server \ {s} : worker'[r] = worker[r] /\ Holds(r)' = Holds(r)
           /\ \A j \in Holds(s)' : Ready(j)
                /\ (j \notin shared' => \A r \in Server \ {s} : j \notin Holds(r))
           /\ shared \subseteq shared'
           /\ worker[s].pc = "idle"
<1>1. PICK B \in SUBSET {j \in Job \ Locked(s) : Ready(j)} :
        /\ worker' = [worker EXCEPT ![s].pc = "fetching",
                        ![s].batch = {[job |-> j, retry |-> job[j].retry] : j \in B}]
        /\ shared' = shared \cup (B \cap UNION {Holds(r) : r \in Server \ {s}})
  BY DEF FetchReady
<1>2. /\ worker[s] = Idle /\ worker[s].pc = "idle" /\ worker[s].current = None
  BY DEF FetchReady, OneEntry, Idle
<1>3. /\ \A r \in Server \ {s} : worker'[r] = worker[r]
      /\ worker'[s].batch = {[job |-> j, retry |-> job[j].retry] : j \in B}
      /\ worker'[s].pc = "fetching" /\ worker'[s].current = None
  BY <1>1, <1>2 DEF QueueTypeOK, Local
<1>4. Holds(s)' = B /\ B \subseteq Job /\ \A j \in B : Ready(j)
  <2>1. Holds(s)' = {e.job : e \in worker'[s].batch}
    BY <1>3 DEF Holds
  <2>2. ASSUME NEW e \in worker'[s].batch PROVE e.job \in B
    BY <1>3
  <2>3. ASSUME NEW j \in B PROVE \E e \in worker'[s].batch : e.job = j
    <3> DEFINE w == [job |-> j, retry |-> job[j].retry]
    <3>1. w \in worker'[s].batch /\ w.job = j
      BY <1>3
    <3> QED
      BY <3>1
  <2> QED
    BY <2>1, <2>2, <2>3
<1>5. \A r \in Server \ {s} : Holds(r)' = Holds(r)
  BY <1>3 DEF Holds
<1>6. OneEntry'
  <2>1. \A e, f \in worker'[s].batch : e.job = f.job => e = f
    BY <1>3
  <2>2. \A e \in worker'[s].batch : e.job \in Job
    BY <1>3, <1>4
  <2> QED
    BY <1>3, <2>1, <2>2, QueueAssumption DEF OneEntry
<1> QED
  BY <1>1, <1>2, <1>3, <1>4, <1>5, <1>6

\* Reading the rows takes no new ones.
LEMMA FetchedTakes ==
    ASSUME QueueTypeOK, OneEntry, NEW s \in Server, Fetched(s)
    PROVE  /\ OneEntry'
           /\ \A r \in Server \ {s} : worker'[r] = worker[r] /\ Holds(r)' = Holds(r)
           /\ Holds(s)' \subseteq Holds(s)
           /\ worker[s].pc = "fetching"
           /\ faults' \in {faults, faults + 1}
<1>1. /\ \A r \in Server \ {s} : worker'[r] = worker[r]
      /\ worker'[s].batch \subseteq worker[s].batch
      /\ worker'[s].pc \in {"deliver", "idle"}
      /\ worker'[s].pc = "idle" => worker'[s] = Idle
      /\ worker'[s].current = None /\ worker[s].current = None
  <2>1. worker[s] \in Local /\ worker[s].current = None
    BY DEF QueueTypeOK, OneEntry, Fetched
  <2>2. CASE worker' = [worker EXCEPT ![s].pc = "deliver"]
    BY <2>1, <2>2 DEF QueueTypeOK, Local
  <2>3. ASSUME NEW B \in SUBSET worker[s].batch,
               worker' = [worker EXCEPT ![s] = IF B = {} THEN Idle
                            ELSE [@ EXCEPT !.pc = "deliver", !.batch = B]]
        PROVE  <1>1!1 /\ <1>1!2 /\ <1>1!3 /\ <1>1!4 /\ <1>1!5
    <3>1. CASE B = {}
      BY <2>1, <2>3, <3>1 DEF QueueTypeOK, Idle
    <3>2. CASE B # {}
      <4>1. /\ \A r \in Server \ {s} : worker'[r] = worker[r]
            /\ worker'[s] = [worker[s] EXCEPT !.pc = "deliver", !.batch = B]
        BY <2>3, <3>2 DEF QueueTypeOK
      <4> QED
        BY <2>1, <4>1 DEF Local
    <3> QED
      BY <3>1, <3>2
  <2> QED
    BY <2>2, <2>3 DEF Fetched
<1>2. OneEntry'
  BY <1>1, QueueAssumption DEF OneEntry, QueueTypeOK, Local, Entry
<1>3. /\ \A r \in Server \ {s} : Holds(r)' = Holds(r)
      /\ Holds(s)' \subseteq Holds(s)
  BY <1>1 DEF Holds
<1>4. worker[s].pc = "fetching" /\ (Fault \/ UNCHANGED faults)
  BY Zenon DEF Fetched
<1> QED
  BY <1>1, <1>2, <1>3, <1>4 DEF Fault

\* Delivering moves a job from the batch into the worker's hands.
LEMMA DeliverTakes ==
    ASSUME QueueTypeOK, OneEntry, NEW s \in Server, Deliver(s)
    PROVE  /\ OneEntry'
           /\ \A r \in Server \ {s} : worker'[r] = worker[r] /\ Holds(r)' = Holds(r)
           /\ Holds(s)' = Holds(s) /\ worker[s].pc = "deliver"
           /\ \E j \in Holds(s) :
                /\ worker'[s].pc = "mark" /\ worker'[s].current = j
                /\ \A k \in Job \ {j} : delivered'[k] = delivered[k]
                /\ delivered'[j] \in {delivered[j], delivered[j] + 1}
                /\ faults' = 0 => (delivered'[j] = delivered[j] \/ worker'[s].ok)
           /\ faults' \in {faults, faults + 1}
<1>1. PICK e \in worker[s].batch, ok \in BOOLEAN, got \in BOOLEAN :
        /\ ok => got
        /\ IF got /\ ~ok THEN Fault ELSE UNCHANGED faults
        /\ worker' = [worker EXCEPT ![s] = [pc |-> "mark", batch |-> @.batch \ {e},
                        current |-> e.job, retry |-> e.retry, ok |-> ok]]
        /\ delivered' = [delivered EXCEPT ![e.job] = IF got THEN @ + 1 ELSE @]
  BY DEF Deliver
<1>2. /\ worker[s].pc = "deliver" /\ worker[s].current = None
      /\ worker[s].batch \in SUBSET Entry /\ e.job \in Job
  BY DEF Deliver, OneEntry, QueueTypeOK, Local, Entry
<1>3. /\ \A r \in Server \ {s} : worker'[r] = worker[r]
      /\ worker'[s].batch = worker[s].batch \ {e} /\ worker'[s].pc = "mark"
      /\ worker'[s].current = e.job /\ worker'[s].ok = ok
  BY <1>1 DEF QueueTypeOK
<1>4. OneEntry'
  BY <1>2, <1>3, QueueAssumption DEF OneEntry
<1>5. /\ \A r \in Server \ {s} : Holds(r)' = Holds(r)
      /\ Holds(s)' = Holds(s) /\ e.job \in Holds(s)
  BY <1>2, <1>3, QueueAssumption DEF Holds
<1>6. /\ \A k \in Job \ {e.job} : delivered'[k] = delivered[k]
      /\ delivered'[e.job] \in {delivered[e.job], delivered[e.job] + 1}
      /\ faults' \in {faults, faults + 1}
      /\ faults' = 0 => (delivered'[e.job] = delivered[e.job] \/ ok)
  BY <1>1, <1>2 DEF QueueTypeOK, Fault
<1> QED
  BY <1>2, <1>3, <1>4, <1>5, <1>6
\* Marking lets go of the job in hand and nothing else.
LEMMA MarkTakes ==
    ASSUME QueueTypeOK, OneEntry, NEW s \in Server, worker[s].current \in Job,
           MarkSent(s) \/ MarkExhausted(s) \/ MarkRetry(s)
    PROVE  /\ OneEntry'
           /\ \A r \in Server \ {s} : worker'[r] = worker[r] /\ Holds(r)' = Holds(r)
           /\ Holds(s)' = Holds(s) \ {worker[s].current}
           /\ worker[s].current \in Holds(s)
           /\ \A j \in Job \ {worker[s].current} : job'[j] = job[j]
           /\ faults' \in {faults, faults + 1}
           /\ worker[s].ok /\ faults' = faults =>
                job'[worker[s].current].status \in {"sent", "deleted"}
           /\ delivered' = delivered /\ shared' = shared
<1> DEFINE c == worker[s].current
<1>1. PICK row \in JobRow : Update(s, row) /\ (worker[s].ok => row.status = "sent")
  <2>1. CASE MarkSent(s)
    BY <2>1, MarksWriteRows DEF MarkSent, Row, JobRow, QueueTypeOK
  <2>2. CASE MarkExhausted(s)
    BY <2>2, MarksWriteRows DEF MarkExhausted
  <2>3. CASE MarkRetry(s)
    BY <2>3, MarksWriteRows DEF MarkRetry
  <2> QED
    BY <2>1, <2>2, <2>3
<1>2. /\ \A j \in Job : job'[j] = job[j] \/ (j = c /\ job'[j] = row)
      /\ faults' = faults => job[c].status = "deleted" \/ job'[c] = row
      /\ delivered' = delivered /\ shared' = shared
      /\ faults' \in {faults, faults + 1} /\ NextJob(s)
  BY <1>1, UpdateWrites
<1>3. /\ \A r \in Server \ {s} : worker'[r] = worker[r]
      /\ worker'[s].batch = worker[s].batch
      /\ worker'[s].current = None /\ worker'[s].pc \in {"idle", "deliver"}
      /\ worker'[s].pc = "idle" => worker'[s] = Idle
  BY <1>2, NextJobKeeps
<1>4. worker[s].batch \in SUBSET Entry
  BY DEF QueueTypeOK, Local
<1>5. OneEntry'
  BY <1>3, <1>4, QueueAssumption DEF OneEntry, Entry
<1>6. \A r \in Server \ {s} : Holds(r)' = Holds(r)
  BY <1>3 DEF Holds
<1>7. Holds(s)' = Holds(s) \ {c} /\ c \in Holds(s)
  BY <1>3, <1>4, QueueAssumption DEF Holds, OneEntry, Entry
<1> QED
  BY <1>1, <1>2, <1>3, <1>5, <1>6, <1>7

\* A fetch by an idle worker gets no job that was delivered.
LEMMA FetchOnce ==
    ASSUME QueueTypeOK, OneEntry, Unshared, NEW s \in Server, FetchReady(s)
    PROVE  Unshared'
<1>1. UNCHANGED <<job, delivered, faults>>
  BY DEF FetchReady
<1> SUFFICES ASSUME faults = 0, NEW j \in Job \ shared'
             PROVE  HeldByOne(j)' /\ (delivered[j] = 0 \/ (delivered[j] = 1 /\ Accounted(j)'))
  BY <1>1 DEF Unshared
<1>2. /\ \A r \in Server \ {s} : worker'[r] = worker[r] /\ Holds(r)' = Holds(r)
      /\ j \in Holds(s)' => Ready(j) /\ \A r \in Server \ {s} : j \notin Holds(r)
      /\ j \notin shared /\ worker[s].pc = "idle"
  BY FetchTakes
<1>3. HeldByOne(j) /\ (delivered[j] = 0 \/ (delivered[j] = 1 /\ Accounted(j)))
  BY <1>2 DEF Unshared
<1>4. HeldByOne(j)'
  BY <1>2, <1>3 DEF HeldByOne
<1>5. ASSUME Accounted(j) PROVE Accounted(j)'
  <2>1. CASE job[j].status \in {"sent", "deleted"} /\ \A r \in Server : j \notin Holds(r)
    BY <1>1, <1>2, <2>1 DEF Accounted, Ready
  <2>2. ASSUME NEW q \in Server, worker[q].pc = "mark", worker[q].ok, worker[q].current = j
        PROVE  Accounted(j)'
    BY <1>2, <2>2 DEF Accounted
  <2> QED
    BY <1>5, <2>1, <2>2 DEF Accounted
<1> QED
  BY <1>3, <1>4, <1>5
\* Reading the rows delivers nothing.
LEMMA FetchedOnce ==
    ASSUME QueueTypeOK, OneEntry, Unshared, NEW s \in Server, Fetched(s)
    PROVE  Unshared'
<1>1. UNCHANGED <<job, delivered, shared>>
  BY Zenon DEF Fetched
<1> SUFFICES ASSUME faults' = 0, NEW j \in Job \ shared
             PROVE  HeldByOne(j)' /\ (delivered[j] = 0 \/ (delivered[j] = 1 /\ Accounted(j)'))
  BY <1>1 DEF Unshared
<1>2. /\ \A r \in Server \ {s} : worker'[r] = worker[r] /\ Holds(r)' = Holds(r)
      /\ Holds(s)' \subseteq Holds(s) /\ worker[s].pc = "fetching"
      /\ faults' \in {faults, faults + 1} /\ faults \in Nat
  BY FetchedTakes DEF QueueTypeOK
<1>3. HeldByOne(j) /\ (delivered[j] = 0 \/ (delivered[j] = 1 /\ Accounted(j)))
  BY <1>2 DEF Unshared
<1>4. HeldByOne(j)'
  BY <1>2, <1>3 DEF HeldByOne
<1>5. ASSUME Accounted(j) PROVE Accounted(j)'
  <2>1. CASE job[j].status \in {"sent", "deleted"} /\ \A r \in Server : j \notin Holds(r)
    BY <1>1, <1>2, <2>1 DEF Accounted
  <2>2. ASSUME NEW q \in Server, worker[q].pc = "mark", worker[q].ok, worker[q].current = j
        PROVE  Accounted(j)'
    BY <1>2, <2>2 DEF Accounted
  <2> QED
    BY <1>5, <2>1, <2>2 DEF Accounted
<1> QED
  BY <1>3, <1>4, <1>5

\* The job in a batch of the only server that has it was not delivered before.
LEMMA DeliverOnce ==
    ASSUME QueueTypeOK, OneEntry, Unshared, NEW s \in Server, Deliver(s)
    PROVE  Unshared'
<1>1. UNCHANGED <<job, shared>>
  BY DEF Deliver
<1> SUFFICES ASSUME faults' = 0, NEW j \in Job \ shared
             PROVE  HeldByOne(j)' /\ (delivered'[j] = 0 \/ (delivered'[j] = 1 /\ Accounted(j)'))
  BY <1>1 DEF Unshared
<1>2. /\ \A r \in Server \ {s} : worker'[r] = worker[r] /\ Holds(r)' = Holds(r)
      /\ Holds(s)' = Holds(s) /\ worker[s].pc = "deliver"
      /\ faults' \in {faults, faults + 1} /\ faults \in Nat
  BY DeliverTakes DEF QueueTypeOK
<1>3. PICK c \in Holds(s) :
        /\ worker'[s].pc = "mark" /\ worker'[s].current = c
        /\ \A k \in Job \ {c} : delivered'[k] = delivered[k]
        /\ delivered'[c] \in {delivered[c], delivered[c] + 1}
        /\ faults' = 0 => (delivered'[c] = delivered[c] \/ worker'[s].ok)
  BY DeliverTakes
<1>4. HeldByOne(j) /\ (delivered[j] = 0 \/ (delivered[j] = 1 /\ Accounted(j)))
  BY <1>2 DEF Unshared
<1>5. HeldByOne(j)'
  BY <1>2, <1>4 DEF HeldByOne
<1>6. CASE j = c
  <2>1. ~Accounted(j)
    <3>1. ~(\A r \in Server : j \notin Holds(r))
      BY <1>3, <1>6
    <3>2. ASSUME NEW q \in Server, worker[q].pc = "mark", worker[q].current = j
          PROVE  FALSE
      <4>1. j \in Holds(q)
        BY <3>2, QueueAssumption DEF Holds
      <4> QED
        BY <1>2, <1>3, <1>4, <1>6, <3>2, <4>1 DEF HeldByOne
    <3> QED
      BY <3>1, <3>2 DEF Accounted
  <2>2. delivered[j] = 0
    BY <1>4, <2>1
  <2>3. delivered'[j] = 0 \/ (delivered'[j] = 1 /\ worker'[s].ok)
    BY <1>3, <1>6, <2>2
  <2>4. worker'[s].ok => Accounted(j)'
    BY <1>3, <1>6 DEF Accounted
  <2> QED
    BY <1>5, <2>3, <2>4
<1>7. CASE j # c
  <2>1. delivered'[j] = delivered[j]
    BY <1>3, <1>7
  <2>2. ASSUME Accounted(j) PROVE Accounted(j)'
    <3>1. CASE job[j].status \in {"sent", "deleted"} /\ \A r \in Server : j \notin Holds(r)
      BY <1>1, <1>2, <3>1 DEF Accounted
    <3>2. ASSUME NEW q \in Server, worker[q].pc = "mark", worker[q].ok, worker[q].current = j
          PROVE  Accounted(j)'
      BY <1>2, <3>2 DEF Accounted
    <3> QED
      BY <2>2, <3>1, <3>2 DEF Accounted
  <2> QED
    BY <1>4, <1>5, <2>1, <2>2
<1> QED
  BY <1>6, <1>7

\* Whoever delivered the job marks it sent, and nobody else can mark it.
LEMMA MarkOnce ==
    ASSUME QueueTypeOK, OneEntry, Unshared, NEW s \in Server, worker[s].current \in Job,
           worker[s].pc = "mark", MarkSent(s) \/ MarkExhausted(s) \/ MarkRetry(s)
    PROVE  Unshared'
<1> DEFINE c == worker[s].current
<1>1. /\ delivered' = delivered /\ shared' = shared
      /\ \A r \in Server \ {s} : worker'[r] = worker[r] /\ Holds(r)' = Holds(r)
      /\ Holds(s)' = Holds(s) \ {c} /\ c \in Holds(s)
      /\ \A k \in Job \ {c} : job'[k] = job[k]
      /\ faults' \in {faults, faults + 1} /\ faults \in Nat
      /\ worker[s].ok /\ faults' = faults => job'[c].status \in {"sent", "deleted"}
  BY MarkTakes DEF QueueTypeOK
<1> HIDE DEF c
<1> SUFFICES ASSUME faults' = 0, NEW j \in Job \ shared
             PROVE  HeldByOne(j)' /\ (delivered[j] = 0 \/ (delivered[j] = 1 /\ Accounted(j)'))
  BY <1>1 DEF Unshared
<1>2. faults = 0 /\ faults' = faults
  BY <1>1
<1>3. HeldByOne(j) /\ (delivered[j] = 0 \/ (delivered[j] = 1 /\ Accounted(j)))
  BY <1>2 DEF Unshared
<1>4. HeldByOne(j)'
  BY <1>1, <1>3 DEF HeldByOne
<1>5. ASSUME Accounted(j) PROVE Accounted(j)'
  <2>1. CASE job[j].status \in {"sent", "deleted"} /\ \A r \in Server : j \notin Holds(r)
    <3>1. j # c
      BY <1>1, <2>1
    <3> QED
      BY <1>1, <2>1, <3>1 DEF Accounted
  <2>2. ASSUME NEW q \in Server, worker[q].pc = "mark", worker[q].ok, worker[q].current = j
        PROVE  Accounted(j)'
    <3>1. CASE q = s
      <4>1. j = c /\ job'[j].status \in {"sent", "deleted"}
        BY <1>1, <1>2, <2>2, <3>1 DEF c
      <4>2. \A r \in Server : j \notin Holds(r)'
        BY <1>1, <1>3, <4>1 DEF HeldByOne
      <4> QED
        BY <4>1, <4>2 DEF Accounted
    <3>2. CASE q # s
      BY <1>1, <2>2, <3>2 DEF Accounted
    <3> QED
      BY <3>1, <3>2
  <2> QED
    BY <1>5, <2>1, <2>2 DEF Accounted
<1> QED
  BY <1>3, <1>4, <1>5
\* The rest of the system delivers nothing and takes no job.
LEMMA OthersOnce ==
    ASSUME QueueTypeOK, OneEntry, Unshared,
           \/ \E j \in Job : Enqueue(j)
           \/ \E s \in Server : CleanOld(s) \/ Crash(s)
           \/ Tick
    PROVE  OneEntry' /\ Unshared'
<1>1. ASSUME NEW s \in Server, Crash(s) PROVE OneEntry' /\ Unshared'
  <2>1. faults' # 0
    BY <1>1 DEF Crash, Fault, QueueTypeOK
  <2>2. \A r \in Server : worker'[r] \in {worker[r], Idle}
    BY <1>1 DEF Crash, QueueTypeOK
  <2>3. ASSUME NEW r \in Server
        PROVE  /\ \A e, f \in worker'[r].batch : e.job = f.job => e = f
               /\ \A e \in worker'[r].batch : e.job # worker'[r].current
               /\ worker'[r].pc = "idle" => worker'[r] = Idle
               /\ worker'[r].pc # "mark" => worker'[r].current = None
    <3>1. CASE worker'[r] = worker[r]
      BY <3>1 DEF OneEntry
    <3>2. CASE worker'[r] = Idle
      BY <3>2 DEF Idle
    <3> QED
      BY <2>2, <3>1, <3>2
  <2>4. OneEntry'
    BY <2>3 DEF OneEntry
  <2> QED
    BY <2>1, <2>4 DEF Unshared
<1>2. CASE (\E j \in Job : Enqueue(j)) \/ (\E s \in Server : CleanOld(s)) \/ Tick
  <2>1. UNCHANGED <<worker, delivered, shared, faults>>
    BY <1>2 DEF Enqueue, CleanOld, Tick
  <2>2. \A j \in Job : job[j].status \in {"sent", "deleted"} =>
                       job'[j].status \in {"sent", "deleted"}
    BY <1>2 DEF Enqueue, CleanOld, Tick, QueueTypeOK, JobRow
  <2>3. \A s \in Server : Holds(s)' = Holds(s)
    BY <2>1 DEF Holds
  <2>4. \A j \in Job : Accounted(j) => Accounted(j)'
    BY <2>1, <2>2, <2>3 DEF Accounted
  <2> QED
    BY <2>1, <2>3, <2>4 DEF OneEntry, Unshared, HeldByOne
<1> QED
  BY <1>1, <1>2

\* Both marks are true: a stale or doubled mark never claims what did not happen.
THEOREM MarksAlwaysTrue == Spec => []MarksAreTrue
<1>1. CountInv => MarksAreTrue
  BY DEF CountInv, MarksAreTrue
<1> QED
  BY <1>1, CountInvariance, PTL

\* A notification reaches its recipient once, unless a mark was lost, a server
\* crashed or two servers overlapped on it.
THEOREM DeliveredAtMostOnce == Spec => []DeliveredOnce
<1>1. Init => OnceInv
  <2>1. Init => \A s \in Server : Holds(s) = {}
    BY DEF Init, Holds, Idle
  <2> QED
    BY <2>1 DEF Init, OnceInv, OneEntry, Unshared, HeldByOne, Idle
<1>2. CountInv /\ OnceInv /\ [Next]_vars => OnceInv'
  <2> SUFFICES ASSUME CountInv, OnceInv, [Next]_vars PROVE OnceInv'
    OBVIOUS
  <2>1. QueueTypeOK /\ OneEntry /\ Unshared
    BY DEF CountInv, OnceInv
  <2>2. ASSUME NEW s \in Server, Step(s) PROVE OnceInv'
    <3>1. CASE FetchReady(s)
      BY <2>1, <3>1, FetchTakes, FetchOnce DEF OnceInv
    <3>2. CASE Fetched(s)
      BY <2>1, <3>2, FetchedTakes, FetchedOnce DEF OnceInv
    <3>3. CASE Deliver(s)
      BY <2>1, <3>3, DeliverTakes, DeliverOnce DEF OnceInv
    <3>4. CASE MarkSent(s) \/ MarkExhausted(s) \/ MarkRetry(s)
      <4>1. worker[s].pc = "mark" /\ worker[s].current \in Job
        BY <3>4 DEF MarkSent, MarkExhausted, MarkRetry, CountInv, Counted
      <4> QED
        BY <2>1, <3>4, <4>1, MarkTakes, MarkOnce DEF OnceInv
    <3> QED
      BY <2>2, <3>1, <3>2, <3>3, <3>4 DEF Step
  <2>3. CASE (\E j \in Job : Enqueue(j)) \/ (\E s \in Server : CleanOld(s) \/ Crash(s)) \/ Tick
    BY <2>1, <2>3, OthersOnce DEF OnceInv
  <2>4. CASE UNCHANGED vars
    BY <2>1, <2>4 DEF vars, OnceInv, OneEntry, Unshared, HeldByOne, Accounted, Holds
  <2> QED
    BY <2>2, <2>3, <2>4 DEF Next
<1>3. CountInv /\ OnceInv => DeliveredOnce
  BY DEF CountInv, OnceInv, Unshared, DeliveredOnce, QueueTypeOK
<1> QED
  BY <1>1, <1>2, <1>3, CountInvariance, PTL DEF Spec
=============================================================================
