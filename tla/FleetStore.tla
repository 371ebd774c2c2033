------------------------------ MODULE FleetStore ------------------------------
(***************************************************************************)
(* The PostgreSQL side of FleetForge: the tables workers, jobs and         *)
(* job_retry_history, and one action per method of WorkerStore and         *)
(* JobStore that writes them.  Every method is one statement or one        *)
(* transaction that holds the row locks it needs, so it is one atomic      *)
(* action, with one exception: MarkDeadAndRequeue reads the jobs of the    *)
(* worker without locking them, so it is split into BeginReap and          *)
(* CommitReap, between which only the row of the worker is locked.         *)
(*                                                                         *)
(* Next is the most general client: any method, with any arguments its     *)
(* callers may pass, in any order.  What holds here holds however many     *)
(* scheduler replicas, handlers and workers call the store.                *)
(***************************************************************************)
EXTENDS Integers

CONSTANTS
  Worker,         \* worker identities: one per instance_id, and so per row id
  Job,            \* job identities
  Capability,     \* the capability names workers offer and jobs require
  None,           \* SQL NULL in a reference column
  SlotRequests,   \* the capacity_slots values a registration may carry
  RetryRequests,  \* the max_retries values a submission may carry
  MaxEpoch,       \* bound: registrations of one worker
  MaxAttempts     \* bound: job_retry_history rows of one job

ASSUME StoreAssumption ==
  /\ None \notin Worker
  /\ None \notin Job
  /\ SlotRequests \subseteq Int
  /\ RetryRequests \subseteq Int
  /\ MaxEpoch \in Nat
  /\ MaxAttempts \in Nat

VARIABLES
  workers,  \* table workers; epoch 0 stands for "no row yet"
  jobs,     \* table jobs; status "ABSENT" stands for "no row yet"
  history,  \* table job_retry_history: rows per job, by error_message
  reap      \* the MarkDeadAndRequeue transaction open on a worker, if any

storeVars == <<workers, jobs, history, reap>>

-------------------------------------------------------------------------------
(* Tables.                                                                  *)

WorkerStatus == {"REGISTERING", "READY", "BUSY", "DRAINING", "OFFLINE", "DEAD"}
Gone == {"OFFLINE", "DEAD"}

JobStatus ==
  {"QUEUED", "ASSIGNED", "RUNNING", "SUCCESS", "FAILED", "CANCELLED", "RETRYING"}
Held == {"ASSIGNED", "RUNNING"}
Terminal == {"SUCCESS", "FAILED", "CANCELLED"}

(* fresh: last_heartbeat is not older than the heartbeat timeout.           *)
WorkerRow ==
  [status : WorkerStatus, epoch : 0..MaxEpoch, slots : Nat, avail : Nat,
   job : Job \cup {None}, drain : BOOLEAN, fresh : BOOLEAN,
   caps : SUBSET Capability]

(* due: retry_at has passed.  It is meaningful while the job is RETRYING.   *)
JobRow ==
  [status : JobStatus \cup {"ABSENT"}, worker : Worker \cup {None},
   epoch : 0..MaxEpoch, retries : Nat, max : Nat, due : BOOLEAN,
   requires : SUBSET Capability]

(* failed: rows written by RetryOrFail; dead: rows saying 'worker_dead'.    *)
HistoryRows == [failed : Nat, dead : Nat]

NotReaping == [open |-> FALSE, found |-> {}]

Init ==
  /\ workers = [w \in Worker |->
       [status |-> "OFFLINE", epoch |-> 0, slots |-> 0, avail |-> 0, job |-> None,
        drain |-> FALSE, fresh |-> FALSE, caps |-> {}]]
  /\ jobs = [j \in Job |->
       [status |-> "ABSENT", worker |-> None, epoch |-> 0, retries |-> 0,
        max |-> 0, due |-> FALSE, requires |-> {}]]
  /\ history = [j \in Job |-> [failed |-> 0, dead |-> 0]]
  /\ reap = [w \in Worker |-> NotReaping]

-------------------------------------------------------------------------------
(* WHERE clauses and queries.                                               *)

Registered(w) == workers[w].epoch > 0

(* An UPDATE of a row another transaction has changed waits for its end.    *)
Unlocked(w) == ~reap[w].open

(* WHERE id = w AND epoch = e                                               *)
EpochIs(w, e) == e > 0 /\ workers[w].epoch = e

(* WHERE id = w AND status NOT IN ('OFFLINE', 'DEAD')                       *)
Present(w) == Registered(w) /\ workers[w].status \notin Gone

(* WHERE id = j AND assignment_epoch = e AND status IN ('ASSIGNED','RUNNING') *)
IgnoresStatus(j, e) == e > 0 /\ jobs[j].epoch = e
HeldAt(j, e) == e > 0 /\ jobs[j].epoch = e /\ jobs[j].status \in Held

BusyIsNeverStale == {w \in Worker : workers[w].status = "READY" /\ ~workers[w].fresh}
ListStale == {w \in Worker : Present(w) /\ ~workers[w].fresh}

ListReadyCandidates(j) ==
  {w \in Worker : /\ workers[w].status = "READY"
                  /\ workers[w].avail > 0
                  /\ jobs[j].requires \subseteq workers[w].caps}

LastRetryIsNotDue ==
  {j \in Job : jobs[j].status = "RETRYING" /\ jobs[j].due /\ jobs[j].retries < jobs[j].max}
ListDueRetries == {j \in Job : jobs[j].status = "RETRYING" /\ jobs[j].due}

HeldBy(w) == {j \in Job : jobs[j].worker = w /\ jobs[j].status \in Held}

Attempts(j) == history[j].failed + history[j].dead

-------------------------------------------------------------------------------
(* SET clauses: what a statement makes of the row it matches.               *)

Slots(n) == IF n <= 0 THEN 1 ELSE n

(* The upsert on instance_id followed by the promotion to READY.            *)
Upserted(r, n, c) ==
  [status |-> "READY", epoch |-> r.epoch + 1, slots |-> Slots(n),
   avail |-> Slots(n), job |-> None, drain |-> r.drain, fresh |-> TRUE, caps |-> c]

Beaten(r, status, j) == [r EXCEPT !.status = status, !.job = j, !.fresh = TRUE]

Lapsed(r) == [r EXCEPT !.fresh = FALSE]

(* current_job_id is not cleared.                                           *)
Dead(r) == [r EXCEPT !.status = "DEAD", !.avail = r.slots]

Busy(r, j) == [r EXCEPT !.status = "BUSY", !.job = j, !.avail = r.avail - 1]

NotClamped(r) ==
  [r EXCEPT !.status = IF r.drain THEN "DRAINING" ELSE "READY", !.job = None,
            !.avail = r.avail + 1]
Freed(r) ==
  [r EXCEPT !.status = IF r.drain THEN "DRAINING" ELSE "READY", !.job = None,
            !.avail = IF r.avail + 1 <= r.slots THEN r.avail + 1 ELSE r.slots]

Drained(r) ==
  [r EXCEPT !.drain = TRUE, !.status = IF r.status = "READY" THEN "DRAINING" ELSE r.status]

Resumed(r) ==
  [r EXCEPT !.drain = FALSE, !.status = IF r.status = "DRAINING" THEN "READY" ELSE r.status]

Created(m, c) ==
  [status |-> "QUEUED", worker |-> None, epoch |-> 0, retries |-> 0,
   max |-> IF m <= 0 THEN 3 ELSE m, due |-> FALSE, requires |-> c]

Assigned(r, w, e) == [r EXCEPT !.status = "ASSIGNED", !.worker = w, !.epoch = e]

(* worker_id and assignment_epoch stay as they are.                         *)
Moved(r, status) == [r EXCEPT !.status = status]

KeepsWorker(r) == [r EXCEPT !.status = "QUEUED"]
FailsTheJob(r) == [r EXCEPT !.status = "FAILED", !.worker = None, !.epoch = 0]
Requeued(r) == [r EXCEPT !.status = "QUEUED", !.worker = None, !.epoch = 0]

OneTooMany(r) == r.retries <= r.max
RetriesLeft(r) == r.retries + 1 <= r.max

FreeRetry(r) ==
  [r EXCEPT !.status = "RETRYING", !.due = FALSE, !.worker = None, !.epoch = 0]
Retrying(r) ==
  [r EXCEPT !.status = "RETRYING", !.retries = r.retries + 1, !.due = FALSE,
            !.worker = None, !.epoch = 0]

DueNow(r) == [r EXCEPT !.due = TRUE]

Retried(r) == [r EXCEPT !.status = "QUEUED", !.due = FALSE]

-------------------------------------------------------------------------------
(* WorkerStore.                                                             *)

Register(w, n, c) ==
  /\ Unlocked(w)
  /\ workers[w].epoch < MaxEpoch
  /\ workers' = [workers EXCEPT ![w] = Upserted(workers[w], n, c)]
  /\ UNCHANGED <<jobs, history, reap>>

(* Time passes until last_heartbeat is past the heartbeat timeout.          *)
HeartbeatLapses(w) ==
  /\ Registered(w)
  /\ workers[w].fresh
  /\ workers' = [workers EXCEPT ![w] = Lapsed(workers[w])]
  /\ UNCHANGED <<jobs, history, reap>>

UpdateHeartbeat(w, e, status, j) ==
  /\ Unlocked(w)
  /\ EpochIs(w, e)
  /\ j # None => jobs[j].status # "ABSENT"
  /\ workers' = [workers EXCEPT ![w] = Beaten(workers[w], status, j)]
  /\ UNCHANGED <<jobs, history, reap>>

(* First half of MarkDeadAndRequeue: the worker's row is updated, and so    *)
(* locked, and its held jobs are selected, unlocked.                        *)
BeginReap(w, e) ==
  /\ Unlocked(w)
  /\ EpochIs(w, e)
  /\ Present(w)
  /\ reap' = [reap EXCEPT ![w] = [open |-> TRUE, found |-> HeldBy(w)]]
  /\ UNCHANGED <<workers, jobs, history>>

(* Second half: the selected jobs are requeued whatever their status is by  *)
(* now, each with a history row, and the transaction commits.               *)
CommitReap(w) ==
  /\ reap[w].open
  /\ \A j \in reap[w].found : Attempts(j) < MaxAttempts
  /\ workers' = [workers EXCEPT ![w] = Dead(workers[w])]
  /\ jobs' = [j \in Job |-> IF j \in reap[w].found THEN Requeued(jobs[j]) ELSE jobs[j]]
  /\ history' = [j \in Job |->
       IF j \in reap[w].found
       THEN [failed |-> history[j].failed, dead |-> history[j].dead + 1]
       ELSE history[j]]
  /\ reap' = [reap EXCEPT ![w] = NotReaping]

(* An error or the death of the reaper's process rolls the whole back.      *)
RollbackReap(w) ==
  /\ reap[w].open
  /\ reap' = [reap EXCEPT ![w] = NotReaping]
  /\ UNCHANGED <<workers, jobs, history>>

(* Both compare-and-swap updates match, or the transaction changes nothing. *)
NoCapacityCheck(j, w, e) ==
  /\ Unlocked(w) /\ EpochIs(w, e)
  /\ workers[w].status = "READY"
  /\ jobs[j].status = "QUEUED"
NoQueuedCheck(j, w, e) ==
  /\ Unlocked(w) /\ EpochIs(w, e)
  /\ workers[w].status = "READY" /\ workers[w].avail > 0
  /\ jobs[j].status # "ABSENT"
NotReadyNorLocked(j, w, e) ==
  /\ EpochIs(w, e)
  /\ workers[w].avail > 0
  /\ jobs[j].status = "QUEUED"
Assignable(j, w, e) ==
  /\ Unlocked(w) /\ EpochIs(w, e)
  /\ workers[w].status = "READY" /\ workers[w].avail > 0
  /\ jobs[j].status = "QUEUED"

AssignJob(j, w, e) ==
  /\ Assignable(j, w, e)
  /\ workers' = [workers EXCEPT ![w] = Busy(workers[w], j)]
  /\ jobs' = [jobs EXCEPT ![j] = Assigned(jobs[j], w, e)]
  /\ UNCHANGED <<history, reap>>

FreeWorker(w, e) ==
  /\ Unlocked(w)
  /\ EpochIs(w, e)
  /\ workers' = [workers EXCEPT ![w] = Freed(workers[w])]
  /\ UNCHANGED <<jobs, history, reap>>

RequestDrain(w) ==
  /\ Unlocked(w)
  /\ Present(w)
  /\ workers' = [workers EXCEPT ![w] = Drained(workers[w])]
  /\ UNCHANGED <<jobs, history, reap>>

ResumeDrain(w) ==
  /\ Unlocked(w)
  /\ Present(w)
  /\ workers' = [workers EXCEPT ![w] = Resumed(workers[w])]
  /\ UNCHANGED <<jobs, history, reap>>

-------------------------------------------------------------------------------
(* JobStore.                                                                *)

Create(j, m, c) ==
  /\ jobs[j].status = "ABSENT"
  /\ jobs' = [jobs EXCEPT ![j] = Created(m, c)]
  /\ UNCHANGED <<workers, history, reap>>

MarkRunning(j, e) ==
  /\ HeldAt(j, e)
  /\ jobs[j].status = "ASSIGNED"
  /\ jobs' = [jobs EXCEPT ![j] = Moved(jobs[j], "RUNNING")]
  /\ UNCHANGED <<workers, history, reap>>

Complete(j, e, final) ==
  /\ HeldAt(j, e)
  /\ jobs' = [jobs EXCEPT ![j] = Moved(jobs[j], final)]
  /\ UNCHANGED <<workers, history, reap>>

RetryOrFail(j, e) ==
  /\ HeldAt(j, e)
  /\ Attempts(j) < MaxAttempts
  /\ jobs' = [jobs EXCEPT ![j] =
       IF RetriesLeft(jobs[j]) THEN Retrying(jobs[j]) ELSE Moved(jobs[j], "FAILED")]
  /\ history' = [history EXCEPT ![j] =
       [failed |-> history[j].failed + 1, dead |-> history[j].dead]]
  /\ UNCHANGED <<workers, reap>>

(* Time passes until retry_at is reached.                                   *)
BackoffElapses(j) ==
  /\ jobs[j].status = "RETRYING"
  /\ ~jobs[j].due
  /\ jobs' = [jobs EXCEPT ![j] = DueNow(jobs[j])]
  /\ UNCHANGED <<workers, history, reap>>

MarkQueuedFromRetry(j) ==
  /\ jobs[j].status = "RETRYING"
  /\ jobs' = [jobs EXCEPT ![j] = Retried(jobs[j])]
  /\ UNCHANGED <<workers, history, reap>>

-------------------------------------------------------------------------------
(* The statuses a worker agent is ever in, and so reports in a heartbeat.   *)
(* The gateway would write any other one the protocol has (REGISTERING,     *)
(* OFFLINE, DEAD) as it is: the agent sends none of them.                   *)
ReportedStatus == {"READY", "BUSY", "DRAINING"}

WorkerStep(w) ==
  \/ \E n \in SlotRequests, c \in SUBSET Capability : Register(w, n, c)
  \/ HeartbeatLapses(w)
  \/ CommitReap(w)
  \/ RollbackReap(w)
  \/ RequestDrain(w)
  \/ ResumeDrain(w)
  \/ \E e \in 1..MaxEpoch :
       \/ BeginReap(w, e)
       \/ FreeWorker(w, e)
       \/ \E s \in ReportedStatus, j \in Job \cup {None} : UpdateHeartbeat(w, e, s, j)
       \/ \E j \in Job : AssignJob(j, w, e)

JobStep(j) ==
  \/ \E m \in RetryRequests, c \in SUBSET Capability : Create(j, m, c)
  \/ BackoffElapses(j)
  \/ MarkQueuedFromRetry(j)
  \/ \E e \in 1..MaxEpoch :
       \/ MarkRunning(j, e)
       \/ RetryOrFail(j, e)
       \/ \E final \in {"SUCCESS", "CANCELLED"} : Complete(j, e, final)

Next == (\E w \in Worker : WorkerStep(w)) \/ (\E j \in Job : JobStep(j))

Spec == Init /\ [][Next]_storeVars

(* The step assigns j; the step records a result of j.                      *)
Assigns(j) == \E w \in Worker, e \in 1..MaxEpoch : AssignJob(j, w, e)
RecordsResult(j) ==
  \E e \in 1..MaxEpoch :
    RetryOrFail(j, e) \/ \E final \in {"SUCCESS", "CANCELLED"} : Complete(j, e, final)

-------------------------------------------------------------------------------
(* Properties.                                                              *)

(* Every row has its columns' types; with it, the CHECK constraint that     *)
(* available_capacity is never negative (migration 000002) never fires.     *)
TypeOK ==
  /\ workers \in [Worker -> WorkerRow]
  /\ jobs \in [Job -> JobRow]
  /\ history \in [Job -> HistoryRows]
  /\ reap \in [Worker -> [open : BOOLEAN, found : SUBSET Job]]

(* worker_id and assignment_epoch are set exactly while a job is held or    *)
(* after its result was recorded.  They always name a registration the      *)
(* worker has really had, however MarkDeadAndRequeue, RetryOrFail, Register *)
(* and AssignJob interleave.                                                *)
OwnedByARegistration ==
  \A j \in Job :
    IF jobs[j].status \in Held \cup Terminal
    THEN /\ jobs[j].worker \in Worker
         /\ jobs[j].epoch \in 1..workers[jobs[j].worker].epoch
    ELSE jobs[j].worker = None /\ jobs[j].epoch = 0

(* available_capacity never exceeds capacity_slots, and a registered worker *)
(* has at least one slot, whatever FreeWorker calls arrive after a          *)
(* MarkDeadAndRequeue or a Register has already given the slots back.       *)
CapacityWithinSlots ==
  \A w \in Worker :
    /\ workers[w].avail <= workers[w].slots
    /\ Registered(w) => workers[w].slots >= 1

(* A job ends FAILED only after max_retries retries and one reported        *)
(* failure more, and every retry it consumed has its job_retry_history row. *)
(* A requeue after a worker's death consumes no retry.                      *)
FailedOnlyWhenExhausted ==
  \A j \in Job :
    /\ jobs[j].retries <= jobs[j].max
    /\ history[j].failed >= jobs[j].retries
    /\ jobs[j].status = "FAILED" =>
         /\ jobs[j].retries = jobs[j].max
         /\ history[j].failed > jobs[j].max

(* "worker is DEAD but its job still shows RUNNING" (workers.go, comment of *)
(* MarkDeadAndRequeue) is never observed: a worker that is DEAD holds no    *)
(* job, not even one assigned while the reaper was deciding.  It rests on   *)
(* the reaper alone writing DEAD: no agent reports it (see ReportedStatus). *)
DeadHoldsNothing ==
  \A w \in Worker : workers[w].status = "DEAD" => HeldBy(w) = {}

(* The strengthening that makes DeadHoldsNothing inductive: while a         *)
(* MarkDeadAndRequeue is open, the row lock it holds keeps AssignJob away,  *)
(* so the worker holds only jobs the transaction has already selected.      *)
ReapCoversHeld ==
  \A w \in Worker : reap[w].open => HeldBy(w) \subseteq reap[w].found

StoreInv ==
  /\ TypeOK
  /\ OwnedByARegistration
  /\ CapacityWithinSlots
  /\ FailedOnlyWhenExhausted
  /\ ReapCoversHeld
  /\ DeadHoldsNothing

(* A recorded result is only ever changed by a MarkDeadAndRequeue that had  *)
(* already selected the job when the result was recorded.  No report, retry *)
(* or assignment changes it.                                                *)
OnlyTheReaperReopens ==
  [][\A j \in Job :
       jobs[j].status \in Terminal /\ jobs'[j] # jobs[j] =>
         \E w \in Worker : j \in reap[w].found /\ workers'[w].status = "DEAD"]_storeVars

(* The store implements Ownership: AssignJob grants, Register supersedes,   *)
(* a recorded result or a reaped worker releases.                           *)
Owner(j) ==
  IF jobs[j].status \in Held THEN <<jobs[j].worker, jobs[j].epoch>> ELSE None
Owners == [j \in Job |-> Owner(j)]
Epochs == [w \in Worker |-> workers[w].epoch]

Own == INSTANCE Ownership WITH owner <- Owners, epoch <- Epochs

ImplementsOwnership == Own!Spec
================================================================================
