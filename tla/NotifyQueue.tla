------------------------------ MODULE NotifyQueue ------------------------------
(***************************************************************************)
(* The queue of notifications, server/internal/notify: handlers insert     *)
(* rows of notification_jobs, and the Worker of each server process        *)
(* delivers them and marks the outcome.                                    *)
(*                                                                         *)
(* An action is one SQL statement or one delivery.  FetchReady is a        *)
(* statement of its own: its row locks end with it, long before the        *)
(* delivery, so several servers may work on one job.                       *)
(***************************************************************************)
EXTENDS Integers, FiniteSets

CONSTANTS
    Job,           \* ids of notification_jobs rows
    Server,        \* server processes, each with one Worker
    None,          \* no job
    Limit,         \* rows fetched at a time (10)
    MaxRetries,    \* column max_retries (3)
    Backoff,       \* ticks from the n-th failure to the next try (5^n minutes)
    MaxFaults      \* bound on crashes, lost marks and doubtful deliveries

ASSUME QueueAssumption ==
    /\ None \notin Job
    /\ Limit \in Nat \ {0} /\ MaxRetries \in Nat \ {0}
    /\ Backoff \in [1 .. MaxRetries -> Nat] /\ MaxFaults \in Nat

VARIABLES
    job,           \* notification_jobs
    worker,        \* the locals of processBatch in each server
    tried,         \* history: deliveries attempted of each job
    delivered,     \* history: how often the recipient got each job
    shared,        \* history: jobs that two servers worked on at a time
    faults         \* crashes, lost marks and doubtful deliveries so far

vars == <<job, worker, tried, delivered, shared, faults>>

NoJob == [status |-> "none", retry |-> 0, wait |-> 0]
Entry == [job: Job, retry: Nat]
Idle == [pc |-> "idle", batch |-> {}, current |-> None, retry |-> 0, ok |-> FALSE]

Init ==
    /\ job = [j \in Job |-> NoJob]
    /\ worker = [s \in Server |-> Idle]
    /\ tried = [j \in Job |-> 0]
    /\ delivered = [j \in Job |-> 0]
    /\ shared = {}
    /\ faults = 0

\* The jobs a server has in its batch or in its hands.
Holds(s) == {e.job : e \in worker[s].batch} \cup ({worker[s].current} \ {None})

\* The rows that a running FetchReady of another server has locked.
Locked(s) == UNION {Holds(r) : r \in {q \in Server \ {s} : worker[q].pc = "fetching"}}

Fault == faults < MaxFaults /\ faults' = faults + 1

\* On to the next job of the batch.
NextJob(s) ==
    worker' = [worker EXCEPT ![s] =
        IF @.batch = {} THEN Idle
        ELSE [@ EXCEPT !.pc = "deliver", !.current = None, !.ok = FALSE, !.retry = 0]]

-----------------------------------------------------------------------------

Enqueue(j) ==
    /\ job[j].status = "none"
    /\ job' = [job EXCEPT ![j].status = "pending"]
    /\ UNCHANGED <<worker, tried, delivered, shared, faults>>

\* Mutant: only new jobs are fetched.
ReadyPending(j) == job[j].status = "pending" /\ job[j].wait = 0

Ready(j) == job[j].status \in {"pending", "retrying"} /\ job[j].wait = 0

\* SELECT .. ORDER BY next_retry_at LIMIT n FOR UPDATE SKIP LOCKED.  The jobs of
\* a batch may come in any order of their next_retry_at.
FetchReady(s) ==
    LET ready == {j \in Job \ Locked(s) : Ready(j)} IN
    /\ worker[s].pc = "idle"
    /\ ready # {}
    /\ \E B \in SUBSET ready :
        /\ B = ready \/ Cardinality(B) = Limit
        /\ Cardinality(B) <= Limit
        /\ worker' = [worker EXCEPT ![s].pc = "fetching",
                        ![s].batch = {[job |-> j, retry |-> job[j].retry] : j \in B}]
        /\ shared' = shared \cup (B \cap UNION {Holds(r) : r \in Server \ {s}})
    /\ UNCHANGED <<job, tried, delivered, faults>>

\* The statement ends, and its locks with it.  An error while the rows are read
\* is not looked at: the rows that had come are the batch.
Fetched(s) ==
    /\ worker[s].pc = "fetching"
    /\ \/ worker' = [worker EXCEPT ![s].pc = "deliver"] /\ UNCHANGED faults
       \/ /\ Fault
          /\ \E B \in SUBSET worker[s].batch \ {worker[s].batch} :
               worker' = [worker EXCEPT ![s] = IF B = {} THEN Idle
                            ELSE [@ EXCEPT !.pc = "deliver", !.batch = B]]
    /\ UNCHANGED <<job, tried, delivered, shared>>

\* The channel's adapter delivers, fails, or delivers and seems to fail.
Deliver(s) ==
    /\ worker[s].pc = "deliver"
    /\ \E e \in worker[s].batch, ok \in BOOLEAN, got \in BOOLEAN :
        /\ ok => got
        /\ IF got /\ ~ok THEN Fault ELSE UNCHANGED faults
        /\ worker' = [worker EXCEPT ![s] = [pc |-> "mark", batch |-> @.batch \ {e},
                        current |-> e.job, retry |-> e.retry, ok |-> ok]]
        /\ tried' = [tried EXCEPT ![e.job] = @ + 1]
        /\ delivered' = [delivered EXCEPT ![e.job] = IF got THEN @ + 1 ELSE @]
    /\ UNCHANGED <<job, shared>>

-----------------------------------------------------------------------------

Row(s) == job[worker[s].current]

\* An UPDATE by id waits for the row's lock and finds no row once it is deleted.
\* An error is logged, and the worker goes on.
Update(s, row) ==
    LET j == worker[s].current IN
    /\ j \notin Locked(s)
    /\ \/ job[j].status # "deleted" /\ job' = [job EXCEPT ![j] = row] /\ UNCHANGED faults
       \/ job[j].status = "deleted" /\ UNCHANGED <<job, faults>>
       \/ Fault /\ UNCHANGED job
    /\ NextJob(s)
    /\ UNCHANGED <<tried, delivered, shared>>

\* Mutant: the job stays as it is.
MarkSentLost(s) ==
    /\ worker[s].pc = "mark" /\ worker[s].ok
    /\ Update(s, Row(s))

MarkSent(s) ==
    /\ worker[s].pc = "mark" /\ worker[s].ok
    /\ Update(s, [Row(s) EXCEPT !.status = "sent"])

\* Mutant: every failure counts twice.
NewCountTwo(s) == worker[s].retry + 2

NewCount(s) == worker[s].retry + 1

\* Mutant: one retry too many.
ExhaustedLate(s) == NewCount(s) > MaxRetries

Exhausted(s) == NewCount(s) >= MaxRetries

MarkExhausted(s) ==
    /\ worker[s].pc = "mark" /\ ~worker[s].ok /\ Exhausted(s)
    /\ Update(s, [Row(s) EXCEPT !.status = "exhausted"])

\* retry_count comes from the row as it was fetched.
MarkRetry(s) ==
    LET n == NewCount(s) IN
    /\ worker[s].pc = "mark" /\ ~worker[s].ok /\ ~Exhausted(s)
    /\ Update(s, [status |-> "retrying", retry |-> n, wait |-> Backoff[n]])

-----------------------------------------------------------------------------

\* Sent jobs of more than seven days; the worker's own loop does it.
CleanOld(s) ==
    /\ worker[s].pc = "idle"
    /\ \E j \in Job : /\ job[j].status = "sent"
                      /\ job' = [job EXCEPT ![j].status = "deleted"]
    /\ UNCHANGED <<worker, tried, delivered, shared, faults>>

Tick ==
    /\ \E j \in Job : job[j].wait > 0
    /\ job' = [j \in Job |-> [job[j] EXCEPT !.wait = IF @ > 0 THEN @ - 1 ELSE 0]]
    /\ UNCHANGED <<worker, tried, delivered, shared, faults>>

\* A server dies or shuts down in the middle of a batch, and starts again.
Crash(s) ==
    /\ worker[s].pc # "idle"
    /\ Fault
    /\ worker' = [worker EXCEPT ![s] = Idle]
    /\ UNCHANGED <<job, tried, delivered, shared>>

Step(s) ==
    \/ FetchReady(s) \/ Fetched(s) \/ Deliver(s)
    \/ MarkSent(s) \/ MarkExhausted(s) \/ MarkRetry(s)

Next ==
    \/ \E j \in Job : Enqueue(j)
    \/ \E s \in Server : Step(s) \/ CleanOld(s) \/ Crash(s)
    \/ Tick

Spec == Init /\ [][Next]_vars

FairSpec == Spec /\ (\A s \in Server : WF_vars(Step(s))) /\ WF_vars(Tick)
=============================================================================
