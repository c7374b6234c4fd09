--------------------------- MODULE NotifyQueueProps ---------------------------
(***************************************************************************)
(* What the notification queue guarantees, whatever the number of servers. *)
(***************************************************************************)
EXTENDS NotifyQueue

JobRow == [status: {"none", "pending", "retrying", "sent", "exhausted", "deleted"},
           retry: 0 .. MaxRetries - 1, wait: Nat]
Local == [pc: {"idle", "fetching", "deliver", "mark"}, batch: SUBSET Entry,
          current: Job \cup {None}, retry: Nat, ok: BOOLEAN]

\* Rows and locals have their types; retry_count stays below max_retries
\* (processBatch exhausts a job instead).
QueueTypeOK ==
    /\ job \in [Job -> JobRow]
    /\ worker \in [Server -> Local]
    /\ tried \in [Job -> Nat] /\ delivered \in [Job -> Nat]
    /\ shared \subseteq Job
    /\ faults \in Nat

\* At least once: a job that is marked sent, and may be cleaned away, has reached
\* its recipient, whoever marked it and whatever a second server did meanwhile.
SentWasDelivered ==
    \A j \in Job : job[j].status \in {"sent", "deleted"} => delivered[j] > 0

\* A job is given up only after max_retries deliveries, although retry_count is
\* written from stale snapshots.
ExhaustedWasTried ==
    \A j \in Job : job[j].status = "exhausted" => tried[j] >= MaxRetries

\* What a job's final mark says has happened.
MarksAreTrue == SentWasDelivered /\ ExhaustedWasTried

\* Without a lost mark, a crash, or two servers at one job, a recipient gets a
\* notification once.
DeliveredOnce ==
    \A j \in Job : faults = 0 /\ j \notin shared => delivered[j] <= 1

Ended(j) == job[j].status \in {"sent", "exhausted", "deleted"}

\* Every job ends for good, sent or exhausted, even if servers undo each other's
\* marks for a while.
EveryJobEnds == \A j \in Job : job[j].status = "pending" ~> []Ended(j)
-----------------------------------------------------------------------------
(* The inductive invariants                                                *)

\* Whoever marks a job has delivered it, or has tried to, as often as it says.
Counted ==
    /\ \A j \in Job : job[j].retry <= tried[j]
    /\ \A s \in Server : \A e \in worker[s].batch : e.retry <= tried[e.job]
    /\ \A s \in Server : worker[s].pc = "mark" =>
          /\ worker[s].current \in Job
          /\ NewCount(s) <= tried[worker[s].current]
          /\ worker[s].ok => delivered[worker[s].current] > 0

CountInv == QueueTypeOK /\ Counted /\ SentWasDelivered /\ ExhaustedWasTried

\* A worker has each job once: in its batch, or in its hands while it marks it.
OneEntry ==
    \A s \in Server :
        /\ \A e, f \in worker[s].batch : e.job = f.job => e = f
        /\ \A e \in worker[s].batch : e.job # worker[s].current
        /\ worker[s].pc = "idle" => worker[s] = Idle
        /\ worker[s].pc # "mark" => worker[s].current = None

HeldByOne(j) == \A r, s \in Server : j \in Holds(r) /\ j \in Holds(s) => r = s

\* Where a job that was delivered is: marked and free, or with the one server
\* that is about to mark it sent.
Accounted(j) ==
    \/ job[j].status \in {"sent", "deleted"} /\ \A s \in Server : j \notin Holds(s)
    \/ \E s \in Server : worker[s].pc = "mark" /\ worker[s].ok /\ worker[s].current = j

\* Without faults, a job that no two servers had is delivered once.
Unshared ==
    faults = 0 => \A j \in Job \ shared :
        HeldByOne(j) /\ (delivered[j] = 0 \/ (delivered[j] = 1 /\ Accounted(j)))

OnceInv == OneEntry /\ Unshared
=============================================================================
