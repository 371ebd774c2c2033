--------------------------- MODULE FleetStoreProofs ---------------------------
(***************************************************************************)
(* Proofs of the safety properties of FleetStore, for every set of         *)
(* workers, jobs and capabilities and for every bound.                     *)
(*                                                                         *)
(* The lemmas come in three layers.  The row lemmas say what each SET      *)
(* clause does to the columns the properties read.  The step lemmas say    *)
(* that one step of the store preserves one conjunct of the inductive      *)
(* invariant; they use the row lemmas only.  The theorems combine them.    *)
(***************************************************************************)
EXTENDS FleetStore, TLAPS

(* The columns of the workers table that the SET clauses write.             *)
LEMMA UpsertedRow ==
  ASSUME NEW r \in WorkerRow, r.epoch < MaxEpoch,
         NEW n \in Int, NEW c \in SUBSET Capability
  PROVE  /\ Upserted(r, n, c) \in WorkerRow
         /\ Upserted(r, n, c).status = "READY"
         /\ Upserted(r, n, c).epoch = r.epoch + 1
         /\ Upserted(r, n, c).avail <= Upserted(r, n, c).slots
         /\ Upserted(r, n, c).slots >= 1
  BY StoreAssumption DEF Upserted, Slots, WorkerRow, WorkerStatus

(* The columns changed by UpdateHeartbeat.                                  *)
LEMMA BeatenRow ==
  ASSUME NEW r \in WorkerRow, NEW s \in ReportedStatus, NEW j \in Job \cup {None}
  PROVE  /\ Beaten(r, s, j) \in WorkerRow
         /\ Beaten(r, s, j).status # "DEAD"
         /\ Beaten(r, s, j).epoch = r.epoch
         /\ Beaten(r, s, j).avail = r.avail
         /\ Beaten(r, s, j).slots = r.slots
  <1>1. s \in WorkerStatus /\ s # "DEAD"
    BY DEF ReportedStatus, WorkerStatus
  <1> QED
    BY <1>1 DEF Beaten, WorkerRow

(* The columns changed by the passing of the timeout.                       *)
LEMMA LapsedRow ==
  ASSUME NEW r \in WorkerRow
  PROVE  /\ Lapsed(r) \in WorkerRow
         /\ Lapsed(r).status = r.status
         /\ Lapsed(r).epoch = r.epoch
         /\ Lapsed(r).avail = r.avail
         /\ Lapsed(r).slots = r.slots
  BY DEF Lapsed, WorkerRow

(* The columns changed by MarkDeadAndRequeue's worker update.               *)
LEMMA DeadRow ==
  ASSUME NEW r \in WorkerRow
  PROVE  /\ Dead(r) \in WorkerRow
         /\ Dead(r).status = "DEAD"
         /\ Dead(r).epoch = r.epoch
         /\ Dead(r).avail <= r.slots
         /\ Dead(r).slots = r.slots
  <1>1. /\ Dead(r) \in WorkerRow
        /\ Dead(r).status = "DEAD"
        /\ Dead(r).epoch = r.epoch
        /\ Dead(r).avail = r.slots
        /\ Dead(r).slots = r.slots
    BY DEF Dead, WorkerRow, WorkerStatus
  <1>2. r.slots \in Nat
    BY DEF WorkerRow
  <1> QED
    BY <1>1, <1>2

(* The columns changed by AssignJob's worker update.                        *)
LEMMA BusyRow ==
  ASSUME NEW r \in WorkerRow, r.avail > 0, NEW j \in Job
  PROVE  /\ Busy(r, j) \in WorkerRow
         /\ Busy(r, j).status = "BUSY"
         /\ Busy(r, j).epoch = r.epoch
         /\ r.avail <= r.slots => Busy(r, j).avail <= r.slots
         /\ Busy(r, j).slots = r.slots
  <1>1. /\ "BUSY" \in WorkerStatus
        /\ r.avail - 1 \in Nat
        /\ r.avail <= r.slots => r.avail - 1 <= r.slots
    BY DEF WorkerRow, WorkerStatus
  <1>2. /\ Busy(r, j) \in WorkerRow
        /\ Busy(r, j).status = "BUSY"
        /\ Busy(r, j).epoch = r.epoch
        /\ Busy(r, j).avail = r.avail - 1
        /\ Busy(r, j).slots = r.slots
    BY <1>1 DEF Busy, WorkerRow
  <1> QED
    BY <1>1, <1>2

(* The columns changed by FreeWorker.                                       *)
LEMMA FreedRow ==
  ASSUME NEW r \in WorkerRow
  PROVE  /\ Freed(r) \in WorkerRow
         /\ Freed(r).status # "DEAD"
         /\ Freed(r).epoch = r.epoch
         /\ Freed(r).avail <= r.slots
         /\ Freed(r).slots = r.slots
  <1> DEFINE s == IF r.drain THEN "DRAINING" ELSE "READY"
             a == IF r.avail + 1 <= r.slots THEN r.avail + 1 ELSE r.slots
  <1>1. s \in WorkerStatus /\ s # "DEAD" /\ a \in Nat /\ a <= r.slots
    BY DEF WorkerRow, WorkerStatus
  <1>2. Freed(r) = [r EXCEPT !.status = s, !.job = None, !.avail = a]
    BY DEF Freed
  <1> HIDE DEF s, a
  <1> QED
    BY <1>1, <1>2 DEF WorkerRow

(* The columns changed by RequestDrain.                                     *)
LEMMA DrainedRow ==
  ASSUME NEW r \in WorkerRow
  PROVE  /\ Drained(r) \in WorkerRow
         /\ Drained(r).status = "DEAD" => r.status = "DEAD"
         /\ Drained(r).epoch = r.epoch
         /\ Drained(r).avail = r.avail
         /\ Drained(r).slots = r.slots
  BY DEF Drained, WorkerRow, WorkerStatus

(* The columns changed by ResumeDrain.                                      *)
LEMMA ResumedRow ==
  ASSUME NEW r \in WorkerRow
  PROVE  /\ Resumed(r) \in WorkerRow
         /\ Resumed(r).status = "DEAD" => r.status = "DEAD"
         /\ Resumed(r).epoch = r.epoch
         /\ Resumed(r).avail = r.avail
         /\ Resumed(r).slots = r.slots
  BY DEF Resumed, WorkerRow, WorkerStatus

(* The columns of the jobs table that the SET clauses write.                *)
LEMMA CreatedRow ==
  ASSUME NEW m \in Int, NEW c \in SUBSET Capability
  PROVE  /\ Created(m, c) \in JobRow
         /\ Created(m, c).status = "QUEUED"
         /\ Created(m, c).worker = None
         /\ Created(m, c).epoch = 0
         /\ Created(m, c).retries = 0
  BY StoreAssumption DEF Created, JobRow, JobStatus

(* The columns changed by AssignJob's job update.                           *)
LEMMA AssignedRow ==
  ASSUME NEW r \in JobRow, NEW w \in Worker, NEW e \in 1..MaxEpoch
  PROVE  /\ Assigned(r, w, e) \in JobRow
         /\ Assigned(r, w, e).status = "ASSIGNED"
         /\ Assigned(r, w, e).worker = w
         /\ Assigned(r, w, e).epoch = e
         /\ Assigned(r, w, e).retries = r.retries
         /\ Assigned(r, w, e).max = r.max
  <1>1. "ASSIGNED" \in JobStatus /\ e \in 0..MaxEpoch
    BY DEF JobStatus
  <1> QED
    BY <1>1 DEF Assigned, JobRow

(* The columns changed by Complete and MarkRunning.                         *)
LEMMA MovedRow ==
  ASSUME NEW r \in JobRow, NEW s \in JobStatus
  PROVE  /\ Moved(r, s) \in JobRow
         /\ Moved(r, s).status = s
         /\ Moved(r, s).worker = r.worker
         /\ Moved(r, s).epoch = r.epoch
         /\ Moved(r, s).retries = r.retries
         /\ Moved(r, s).max = r.max
  BY DEF Moved, JobRow

(* The columns changed by MarkDeadAndRequeue's job update.                  *)
LEMMA RequeuedRow ==
  ASSUME NEW r \in JobRow
  PROVE  /\ Requeued(r) \in JobRow
         /\ Requeued(r).status = "QUEUED"
         /\ Requeued(r).worker = None
         /\ Requeued(r).epoch = 0
         /\ Requeued(r).retries = r.retries
         /\ Requeued(r).max = r.max
  <1>1. "QUEUED" \in JobStatus /\ 0 \in 0..MaxEpoch
    BY StoreAssumption DEF JobStatus
  <1> QED
    BY <1>1 DEF Requeued, JobRow

(* The columns changed by RetryOrFail.                                      *)
LEMMA RetryingRow ==
  ASSUME NEW r \in JobRow
  PROVE  /\ Retrying(r) \in JobRow
         /\ Retrying(r).status = "RETRYING"
         /\ Retrying(r).worker = None
         /\ Retrying(r).epoch = 0
         /\ Retrying(r).retries = r.retries + 1
         /\ Retrying(r).max = r.max
  <1>1. "RETRYING" \in JobStatus /\ 0 \in 0..MaxEpoch /\ r.retries + 1 \in Nat
    BY StoreAssumption DEF JobRow, JobStatus
  <1> QED
    BY <1>1 DEF Retrying, JobRow

(* The columns changed by MarkQueuedFromRetry.                              *)
LEMMA RetriedRow ==
  ASSUME NEW r \in JobRow
  PROVE  /\ Retried(r) \in JobRow
         /\ Retried(r).status = "QUEUED"
         /\ Retried(r).worker = r.worker
         /\ Retried(r).epoch = r.epoch
         /\ Retried(r).retries = r.retries
         /\ Retried(r).max = r.max
  BY DEF Retried, JobRow, JobStatus

(* The columns changed by the passing of the backoff.                       *)
LEMMA DueRow ==
  ASSUME NEW r \in JobRow
  PROVE  /\ DueNow(r) \in JobRow
         /\ DueNow(r).status = r.status
         /\ DueNow(r).worker = r.worker
         /\ DueNow(r).epoch = r.epoch
         /\ DueNow(r).retries = r.retries
         /\ DueNow(r).max = r.max
  BY DEF DueNow, JobRow

(* Type correctness is preserved by every step.                             *)
LEMMA TypeStep ==
  ASSUME TypeOK, [Next]_storeVars
  PROVE  TypeOK'
<1> USE DEF TypeOK
<1>1. CASE \E w \in Worker, n \in SlotRequests, c \in SUBSET Capability : Register(w, n, c)
  BY <1>1, StoreAssumption, UpsertedRow DEF Register
<1>2. CASE \E w \in Worker : HeartbeatLapses(w)
  BY <1>2, LapsedRow DEF HeartbeatLapses
<1>3. CASE \E w \in Worker, e \in 1..MaxEpoch, s \in ReportedStatus,
               j \in Job \cup {None} : UpdateHeartbeat(w, e, s, j)
  BY <1>3, BeatenRow DEF UpdateHeartbeat
<1>4. CASE \E w \in Worker, e \in 1..MaxEpoch : BeginReap(w, e)
  BY <1>4 DEF BeginReap, HeldBy
<1>5. CASE \E w \in Worker : CommitReap(w)
  BY <1>5, DeadRow, RequeuedRow DEF CommitReap, HistoryRows, NotReaping
<1>6. CASE \E w \in Worker : RollbackReap(w)
  BY <1>6 DEF RollbackReap, NotReaping
<1>7. CASE \E w \in Worker, e \in 1..MaxEpoch, j \in Job : AssignJob(j, w, e)
  BY <1>7, BusyRow, AssignedRow DEF AssignJob, Assignable
<1>8. CASE \E w \in Worker, e \in 1..MaxEpoch : FreeWorker(w, e)
  BY <1>8, FreedRow DEF FreeWorker
<1>9. CASE \E w \in Worker : RequestDrain(w)
  BY <1>9, DrainedRow DEF RequestDrain
<1>10. CASE \E w \in Worker : ResumeDrain(w)
  BY <1>10, ResumedRow DEF ResumeDrain
<1>11. CASE \E j \in Job, m \in RetryRequests, c \in SUBSET Capability : Create(j, m, c)
  BY <1>11, StoreAssumption, CreatedRow DEF Create
<1>12. CASE \E j \in Job, e \in 1..MaxEpoch : MarkRunning(j, e)
  BY <1>12, MovedRow DEF MarkRunning, JobStatus
<1>13. CASE \E j \in Job, e \in 1..MaxEpoch,
               final \in {"SUCCESS", "CANCELLED"} : Complete(j, e, final)
  BY <1>13, MovedRow DEF Complete, JobStatus
<1>14. CASE \E j \in Job, e \in 1..MaxEpoch : RetryOrFail(j, e)
  BY <1>14, MovedRow, RetryingRow DEF RetryOrFail, JobStatus, HistoryRows
<1>15. CASE \E j \in Job : BackoffElapses(j)
  BY <1>15, DueRow DEF BackoffElapses
<1>16. CASE \E j \in Job : MarkQueuedFromRetry(j)
  BY <1>16, RetriedRow DEF MarkQueuedFromRetry
<1>17. CASE UNCHANGED storeVars
  BY <1>17 DEF storeVars
<1> QED
  BY <1>1, <1>2, <1>3, <1>4, <1>5, <1>6, <1>7, <1>8, <1>9, <1>10, <1>11, <1>12, <1>13, <1>14, <1>15, <1>16, <1>17 DEF Next, WorkerStep, JobStep

(* So is the bound on available_capacity.                                   *)
LEMMA CapacityStep ==
  ASSUME TypeOK, CapacityWithinSlots, [Next]_storeVars
  PROVE  CapacityWithinSlots'
<1> USE DEF TypeOK, CapacityWithinSlots, Registered
<1>1. CASE \E w \in Worker, n \in SlotRequests, c \in SUBSET Capability : Register(w, n, c)
  BY <1>1, StoreAssumption, UpsertedRow DEF Register
<1>2. CASE \E w \in Worker : HeartbeatLapses(w)
  BY <1>2, LapsedRow DEF HeartbeatLapses
<1>3. CASE \E w \in Worker, e \in 1..MaxEpoch, s \in ReportedStatus,
               j \in Job \cup {None} : UpdateHeartbeat(w, e, s, j)
  BY <1>3, BeatenRow DEF UpdateHeartbeat
<1>4. CASE \E w \in Worker, e \in 1..MaxEpoch : BeginReap(w, e)
  BY <1>4 DEF BeginReap, HeldBy
<1>5. CASE \E w \in Worker : CommitReap(w)
  BY <1>5, DeadRow, RequeuedRow DEF CommitReap, HistoryRows, NotReaping
<1>6. CASE \E w \in Worker : RollbackReap(w)
  BY <1>6 DEF RollbackReap, NotReaping
<1>7. CASE \E w \in Worker, e \in 1..MaxEpoch, j \in Job : AssignJob(j, w, e)
  BY <1>7, BusyRow, AssignedRow DEF AssignJob, Assignable
<1>8. CASE \E w \in Worker, e \in 1..MaxEpoch : FreeWorker(w, e)
  BY <1>8, FreedRow DEF FreeWorker
<1>9. CASE \E w \in Worker : RequestDrain(w)
  BY <1>9, DrainedRow DEF RequestDrain
<1>10. CASE \E w \in Worker : ResumeDrain(w)
  BY <1>10, ResumedRow DEF ResumeDrain
<1>11. CASE \E j \in Job, m \in RetryRequests, c \in SUBSET Capability : Create(j, m, c)
  BY <1>11, StoreAssumption, CreatedRow DEF Create
<1>12. CASE \E j \in Job, e \in 1..MaxEpoch : MarkRunning(j, e)
  BY <1>12, MovedRow DEF MarkRunning, JobStatus
<1>13. CASE \E j \in Job, e \in 1..MaxEpoch,
               final \in {"SUCCESS", "CANCELLED"} : Complete(j, e, final)
  BY <1>13, MovedRow DEF Complete, JobStatus
<1>14. CASE \E j \in Job, e \in 1..MaxEpoch : RetryOrFail(j, e)
  BY <1>14, MovedRow, RetryingRow DEF RetryOrFail, JobStatus, HistoryRows
<1>15. CASE \E j \in Job : BackoffElapses(j)
  BY <1>15, DueRow DEF BackoffElapses
<1>16. CASE \E j \in Job : MarkQueuedFromRetry(j)
  BY <1>16, RetriedRow DEF MarkQueuedFromRetry
<1>17. CASE UNCHANGED storeVars
  BY <1>17 DEF storeVars
<1> QED
  BY <1>1, <1>2, <1>3, <1>4, <1>5, <1>6, <1>7, <1>8, <1>9, <1>10, <1>11, <1>12, <1>13, <1>14, <1>15, <1>16, <1>17 DEF Next, WorkerStep, JobStep

(* So is the account of retries.                                            *)
LEMMA RetryStep ==
  ASSUME TypeOK, FailedOnlyWhenExhausted, [Next]_storeVars
  PROVE  FailedOnlyWhenExhausted'
<1> USE DEF TypeOK, FailedOnlyWhenExhausted
<1>1. CASE \E w \in Worker, n \in SlotRequests, c \in SUBSET Capability : Register(w, n, c)
  BY <1>1, StoreAssumption, UpsertedRow DEF Register
<1>2. CASE \E w \in Worker : HeartbeatLapses(w)
  BY <1>2, LapsedRow DEF HeartbeatLapses
<1>3. CASE \E w \in Worker, e \in 1..MaxEpoch, s \in ReportedStatus,
               j \in Job \cup {None} : UpdateHeartbeat(w, e, s, j)
  BY <1>3, BeatenRow DEF UpdateHeartbeat
<1>4. CASE \E w \in Worker, e \in 1..MaxEpoch : BeginReap(w, e)
  BY <1>4 DEF BeginReap, HeldBy
<1>5. CASE \E w \in Worker : CommitReap(w)
  BY <1>5, DeadRow, RequeuedRow DEF CommitReap, HistoryRows, NotReaping
<1>6. CASE \E w \in Worker : RollbackReap(w)
  BY <1>6 DEF RollbackReap, NotReaping
<1>7. CASE \E w \in Worker, e \in 1..MaxEpoch, j \in Job : AssignJob(j, w, e)
  BY <1>7, BusyRow, AssignedRow DEF AssignJob, Assignable
<1>8. CASE \E w \in Worker, e \in 1..MaxEpoch : FreeWorker(w, e)
  BY <1>8, FreedRow DEF FreeWorker
<1>9. CASE \E w \in Worker : RequestDrain(w)
  BY <1>9, DrainedRow DEF RequestDrain
<1>10. CASE \E w \in Worker : ResumeDrain(w)
  BY <1>10, ResumedRow DEF ResumeDrain
<1>11. CASE \E j \in Job, m \in RetryRequests, c \in SUBSET Capability : Create(j, m, c)
  BY <1>11, StoreAssumption, CreatedRow DEF Create, JobRow, HistoryRows
<1>12. CASE \E j \in Job, e \in 1..MaxEpoch : MarkRunning(j, e)
  BY <1>12, MovedRow DEF MarkRunning, JobStatus
<1>13. CASE \E j \in Job, e \in 1..MaxEpoch,
               final \in {"SUCCESS", "CANCELLED"} : Complete(j, e, final)
  BY <1>13, MovedRow DEF Complete, JobStatus
<1>14. CASE \E j \in Job, e \in 1..MaxEpoch : RetryOrFail(j, e)
  <2>1. PICK j \in Job, e \in 1..MaxEpoch : RetryOrFail(j, e)
    BY <1>14
  <2>2. /\ jobs[j].retries \in Nat
        /\ jobs[j].max \in Nat
        /\ history[j].failed \in Nat
    BY DEF JobRow, HistoryRows
  <2>0. jobs[j].retries <= jobs[j].max /\ history[j].failed >= jobs[j].retries
    OBVIOUS
  <2>3. \A i \in Job \ {j} : jobs'[i] = jobs[i] /\ history'[i] = history[i]
    BY <2>1 DEF RetryOrFail
  <2>4. history'[j].failed = history[j].failed + 1
    BY <2>1 DEF RetryOrFail
  <2>5. CASE RetriesLeft(jobs[j])
    <3>1. jobs'[j] = Retrying(jobs[j])
      BY <2>1, <2>5 DEF RetryOrFail
    <3> QED
      BY <2>2, <2>3, <2>4, <2>5, <3>1, RetryingRow DEF RetriesLeft
  <2>6. CASE ~RetriesLeft(jobs[j])
    <3>1. jobs'[j] = Moved(jobs[j], "FAILED")
      BY <2>1, <2>6 DEF RetryOrFail
    <3>2. "FAILED" \in JobStatus
      BY DEF JobStatus
    <3>3. jobs'[j].retries = jobs[j].retries /\ jobs'[j].max = jobs[j].max
      BY <3>1, <3>2, MovedRow
    <3>4. jobs[j].retries = jobs[j].max
      <4> HIDE DEF TypeOK, FailedOnlyWhenExhausted
      <4> QED
        BY <2>0, <2>2, <2>6 DEF RetriesLeft
    <3> QED
      BY <2>0, <2>2, <2>3, <2>4, <3>3, <3>4
  <2> QED
    BY <2>5, <2>6
<1>15. CASE \E j \in Job : BackoffElapses(j)
  BY <1>15, DueRow DEF BackoffElapses
<1>16. CASE \E j \in Job : MarkQueuedFromRetry(j)
  BY <1>16, RetriedRow DEF MarkQueuedFromRetry
<1>17. CASE UNCHANGED storeVars
  BY <1>17 DEF storeVars
<1> QED
  BY <1>1, <1>2, <1>3, <1>4, <1>5, <1>6, <1>7, <1>8, <1>9, <1>10, <1>11, <1>12, <1>13, <1>14, <1>15, <1>16, <1>17 DEF Next, WorkerStep, JobStep

(* So is the correspondence between held jobs and registrations.            *)
LEMMA OwnedStep ==
  ASSUME TypeOK, OwnedByARegistration, [Next]_storeVars
  PROVE  OwnedByARegistration'
<1> USE DEF TypeOK, OwnedByARegistration, Held, Terminal
<1>1. CASE \E w \in Worker, n \in SlotRequests, c \in SUBSET Capability : Register(w, n, c)
  BY <1>1, StoreAssumption, UpsertedRow DEF Register, WorkerRow
<1>2. CASE \E w \in Worker : HeartbeatLapses(w)
  BY <1>2, LapsedRow DEF HeartbeatLapses
<1>3. CASE \E w \in Worker, e \in 1..MaxEpoch, s \in ReportedStatus,
               j \in Job \cup {None} : UpdateHeartbeat(w, e, s, j)
  BY <1>3, BeatenRow DEF UpdateHeartbeat
<1>4. CASE \E w \in Worker, e \in 1..MaxEpoch : BeginReap(w, e)
  BY <1>4 DEF BeginReap, HeldBy
<1>5. CASE \E w \in Worker : CommitReap(w)
  BY <1>5, DeadRow, RequeuedRow DEF CommitReap, HistoryRows, NotReaping
<1>6. CASE \E w \in Worker : RollbackReap(w)
  BY <1>6 DEF RollbackReap, NotReaping
<1>7. CASE \E w \in Worker, e \in 1..MaxEpoch, j \in Job : AssignJob(j, w, e)
  BY <1>7, BusyRow, AssignedRow, StoreAssumption DEF AssignJob, Assignable, EpochIs
<1>8. CASE \E w \in Worker, e \in 1..MaxEpoch : FreeWorker(w, e)
  BY <1>8, FreedRow DEF FreeWorker
<1>9. CASE \E w \in Worker : RequestDrain(w)
  BY <1>9, DrainedRow DEF RequestDrain
<1>10. CASE \E w \in Worker : ResumeDrain(w)
  BY <1>10, ResumedRow DEF ResumeDrain
<1>11. CASE \E j \in Job, m \in RetryRequests, c \in SUBSET Capability : Create(j, m, c)
  BY <1>11, StoreAssumption, CreatedRow DEF Create
<1>12. CASE \E j \in Job, e \in 1..MaxEpoch : MarkRunning(j, e)
  BY <1>12, MovedRow DEF MarkRunning, JobStatus, HeldAt
<1>13. CASE \E j \in Job, e \in 1..MaxEpoch,
               final \in {"SUCCESS", "CANCELLED"} : Complete(j, e, final)
  BY <1>13, MovedRow DEF Complete, JobStatus, HeldAt
<1>14. CASE \E j \in Job, e \in 1..MaxEpoch : RetryOrFail(j, e)
  BY <1>14, MovedRow, RetryingRow DEF RetryOrFail, JobStatus, HistoryRows, HeldAt
<1>15. CASE \E j \in Job : BackoffElapses(j)
  BY <1>15, DueRow DEF BackoffElapses
<1>16. CASE \E j \in Job : MarkQueuedFromRetry(j)
  BY <1>16, RetriedRow DEF MarkQueuedFromRetry
<1>17. CASE UNCHANGED storeVars
  BY <1>17 DEF storeVars
<1> QED
  BY <1>1, <1>2, <1>3, <1>4, <1>5, <1>6, <1>7, <1>8, <1>9, <1>10, <1>11, <1>12, <1>13, <1>14, <1>15, <1>16, <1>17 DEF Next, WorkerStep, JobStep

(* So is what an open MarkDeadAndRequeue knows of the worker's jobs.        *)
LEMMA ReapStep ==
  ASSUME TypeOK, OwnedByARegistration, ReapCoversHeld, [Next]_storeVars
  PROVE  ReapCoversHeld'
<1> USE DEF TypeOK, ReapCoversHeld, HeldBy, Held
<1>1. CASE \E w \in Worker, n \in SlotRequests, c \in SUBSET Capability : Register(w, n, c)
  BY <1>1, StoreAssumption, UpsertedRow DEF Register
<1>2. CASE \E w \in Worker : HeartbeatLapses(w)
  BY <1>2, LapsedRow DEF HeartbeatLapses
<1>3. CASE \E w \in Worker, e \in 1..MaxEpoch, s \in ReportedStatus,
               j \in Job \cup {None} : UpdateHeartbeat(w, e, s, j)
  BY <1>3, BeatenRow DEF UpdateHeartbeat
<1>4. CASE \E w \in Worker, e \in 1..MaxEpoch : BeginReap(w, e)
  BY <1>4 DEF BeginReap, HeldBy
<1>5. CASE \E w \in Worker : CommitReap(w)
  BY <1>5, DeadRow, RequeuedRow, StoreAssumption DEF CommitReap, HistoryRows, NotReaping
<1>6. CASE \E w \in Worker : RollbackReap(w)
  BY <1>6 DEF RollbackReap, NotReaping
<1>7. CASE \E w \in Worker, e \in 1..MaxEpoch, j \in Job : AssignJob(j, w, e)
  BY <1>7, BusyRow, AssignedRow DEF AssignJob, Assignable, Unlocked
<1>8. CASE \E w \in Worker, e \in 1..MaxEpoch : FreeWorker(w, e)
  BY <1>8, FreedRow DEF FreeWorker
<1>9. CASE \E w \in Worker : RequestDrain(w)
  BY <1>9, DrainedRow DEF RequestDrain
<1>10. CASE \E w \in Worker : ResumeDrain(w)
  BY <1>10, ResumedRow DEF ResumeDrain
<1>11. CASE \E j \in Job, m \in RetryRequests, c \in SUBSET Capability : Create(j, m, c)
  BY <1>11, StoreAssumption, CreatedRow, StoreAssumption DEF Create
<1>12. CASE \E j \in Job, e \in 1..MaxEpoch : MarkRunning(j, e)
  BY <1>12, MovedRow DEF MarkRunning, JobStatus, HeldAt
<1>13. CASE \E j \in Job, e \in 1..MaxEpoch,
               final \in {"SUCCESS", "CANCELLED"} : Complete(j, e, final)
  BY <1>13, MovedRow DEF Complete, JobStatus, HeldAt
<1>14. CASE \E j \in Job, e \in 1..MaxEpoch : RetryOrFail(j, e)
  BY <1>14, MovedRow, RetryingRow, StoreAssumption DEF RetryOrFail, JobStatus, HistoryRows, HeldAt
<1>15. CASE \E j \in Job : BackoffElapses(j)
  BY <1>15, DueRow DEF BackoffElapses
<1>16. CASE \E j \in Job : MarkQueuedFromRetry(j)
  BY <1>16, RetriedRow, StoreAssumption DEF MarkQueuedFromRetry, OwnedByARegistration, Terminal
<1>17. CASE UNCHANGED storeVars
  BY <1>17 DEF storeVars
<1> QED
  BY <1>1, <1>2, <1>3, <1>4, <1>5, <1>6, <1>7, <1>8, <1>9, <1>10, <1>11, <1>12, <1>13, <1>14, <1>15, <1>16, <1>17 DEF Next, WorkerStep, JobStep

(* So is the emptiness of a dead worker.                                    *)
LEMMA DeadStep ==
  ASSUME TypeOK, OwnedByARegistration, ReapCoversHeld, DeadHoldsNothing, [Next]_storeVars
  PROVE  DeadHoldsNothing'
<1> USE DEF TypeOK, ReapCoversHeld, DeadHoldsNothing, HeldBy, Held
<1>1. CASE \E w \in Worker, n \in SlotRequests, c \in SUBSET Capability : Register(w, n, c)
  BY <1>1, StoreAssumption, UpsertedRow DEF Register
<1>2. CASE \E w \in Worker : HeartbeatLapses(w)
  BY <1>2, LapsedRow DEF HeartbeatLapses
<1>3. CASE \E w \in Worker, e \in 1..MaxEpoch, s \in ReportedStatus,
               j \in Job \cup {None} : UpdateHeartbeat(w, e, s, j)
  BY <1>3, BeatenRow DEF UpdateHeartbeat
<1>4. CASE \E w \in Worker, e \in 1..MaxEpoch : BeginReap(w, e)
  BY <1>4 DEF BeginReap, HeldBy
<1>5. CASE \E w \in Worker : CommitReap(w)
  BY <1>5, DeadRow, RequeuedRow, StoreAssumption DEF CommitReap, HistoryRows, NotReaping
<1>6. CASE \E w \in Worker : RollbackReap(w)
  BY <1>6 DEF RollbackReap, NotReaping
<1>7. CASE \E w \in Worker, e \in 1..MaxEpoch, j \in Job : AssignJob(j, w, e)
  BY <1>7, BusyRow, AssignedRow DEF AssignJob, Assignable
<1>8. CASE \E w \in Worker, e \in 1..MaxEpoch : FreeWorker(w, e)
  BY <1>8, FreedRow DEF FreeWorker
<1>9. CASE \E w \in Worker : RequestDrain(w)
  BY <1>9, DrainedRow DEF RequestDrain
<1>10. CASE \E w \in Worker : ResumeDrain(w)
  BY <1>10, ResumedRow DEF ResumeDrain
<1>11. CASE \E j \in Job, m \in RetryRequests, c \in SUBSET Capability : Create(j, m, c)
  BY <1>11, StoreAssumption, CreatedRow, StoreAssumption DEF Create
<1>12. CASE \E j \in Job, e \in 1..MaxEpoch : MarkRunning(j, e)
  BY <1>12, MovedRow DEF MarkRunning, JobStatus, HeldAt
<1>13. CASE \E j \in Job, e \in 1..MaxEpoch,
               final \in {"SUCCESS", "CANCELLED"} : Complete(j, e, final)
  BY <1>13, MovedRow DEF Complete, JobStatus, HeldAt
<1>14. CASE \E j \in Job, e \in 1..MaxEpoch : RetryOrFail(j, e)
  BY <1>14, MovedRow, RetryingRow, StoreAssumption DEF RetryOrFail, JobStatus, HistoryRows, HeldAt
<1>15. CASE \E j \in Job : BackoffElapses(j)
  BY <1>15, DueRow DEF BackoffElapses
<1>16. CASE \E j \in Job : MarkQueuedFromRetry(j)
  BY <1>16, RetriedRow, StoreAssumption DEF MarkQueuedFromRetry, OwnedByARegistration, Terminal
<1>17. CASE UNCHANGED storeVars
  BY <1>17 DEF storeVars
<1> QED
  BY <1>1, <1>2, <1>3, <1>4, <1>5, <1>6, <1>7, <1>8, <1>9, <1>10, <1>11, <1>12, <1>13, <1>14, <1>15, <1>16, <1>17 DEF Next, WorkerStep, JobStep

(* A step that changes a recorded result is the commit of a reaper that     *)
(* had found the job.                                                       *)
LEMMA ReopenStep ==
  ASSUME TypeOK, [Next]_storeVars
  PROVE  \A j \in Job :
           jobs[j].status \in Terminal /\ jobs'[j] # jobs[j] =>
             \E w \in Worker : j \in reap[w].found /\ workers'[w].status = "DEAD"
<1> USE DEF TypeOK, Held, Terminal
<1>1. CASE \E w \in Worker, n \in SlotRequests, c \in SUBSET Capability : Register(w, n, c)
  BY <1>1, StoreAssumption, UpsertedRow DEF Register
<1>2. CASE \E w \in Worker : HeartbeatLapses(w)
  BY <1>2, LapsedRow DEF HeartbeatLapses
<1>3. CASE \E w \in Worker, e \in 1..MaxEpoch, s \in ReportedStatus,
               j \in Job \cup {None} : UpdateHeartbeat(w, e, s, j)
  BY <1>3, BeatenRow DEF UpdateHeartbeat
<1>4. CASE \E w \in Worker, e \in 1..MaxEpoch : BeginReap(w, e)
  BY <1>4 DEF BeginReap, HeldBy
<1>5. CASE \E w \in Worker : CommitReap(w)
  BY <1>5, DeadRow, RequeuedRow DEF CommitReap, HistoryRows, NotReaping
<1>6. CASE \E w \in Worker : RollbackReap(w)
  BY <1>6 DEF RollbackReap, NotReaping
<1>7. CASE \E w \in Worker, e \in 1..MaxEpoch, j \in Job : AssignJob(j, w, e)
  BY <1>7, BusyRow, AssignedRow DEF AssignJob, Assignable
<1>8. CASE \E w \in Worker, e \in 1..MaxEpoch : FreeWorker(w, e)
  BY <1>8, FreedRow DEF FreeWorker
<1>9. CASE \E w \in Worker : RequestDrain(w)
  BY <1>9, DrainedRow DEF RequestDrain
<1>10. CASE \E w \in Worker : ResumeDrain(w)
  BY <1>10, ResumedRow DEF ResumeDrain
<1>11. CASE \E j \in Job, m \in RetryRequests, c \in SUBSET Capability : Create(j, m, c)
  BY <1>11, StoreAssumption, CreatedRow DEF Create
<1>12. CASE \E j \in Job, e \in 1..MaxEpoch : MarkRunning(j, e)
  BY <1>12, MovedRow DEF MarkRunning, JobStatus, HeldAt
<1>13. CASE \E j \in Job, e \in 1..MaxEpoch,
               final \in {"SUCCESS", "CANCELLED"} : Complete(j, e, final)
  BY <1>13, MovedRow DEF Complete, JobStatus, HeldAt
<1>14. CASE \E j \in Job, e \in 1..MaxEpoch : RetryOrFail(j, e)
  BY <1>14, MovedRow, RetryingRow DEF RetryOrFail, JobStatus, HistoryRows, HeldAt
<1>15. CASE \E j \in Job : BackoffElapses(j)
  BY <1>15, DueRow DEF BackoffElapses
<1>16. CASE \E j \in Job : MarkQueuedFromRetry(j)
  BY <1>16, RetriedRow DEF MarkQueuedFromRetry
<1>17. CASE UNCHANGED storeVars
  BY <1>17 DEF storeVars
<1> QED
  BY <1>1, <1>2, <1>3, <1>4, <1>5, <1>6, <1>7, <1>8, <1>9, <1>10, <1>11, <1>12, <1>13, <1>14, <1>15, <1>16, <1>17 DEF Next, WorkerStep, JobStep

-------------------------------------------------------------------------------
(* What a step of the store does to the row of one job.                     *)

Waiting == {"QUEUED", "RETRYING"}

(* A step that assigns j takes it from QUEUED to ASSIGNED.                  *)
LEMMA AssignsRow ==
  ASSUME TypeOK, NEW j \in Job, Assigns(j)
  PROVE  /\ jobs[j].status = "QUEUED" /\ jobs'[j].status = "ASSIGNED"
         /\ jobs'[j].retries = jobs[j].retries
         /\ history'[j] = history[j]
  BY AssignedRow DEF TypeOK, Assigns, AssignJob, Assignable

(* A step that records a result of j ends its being held; it consumes a     *)
(* retry exactly if the job is to be retried.                               *)
LEMMA RecordsRow ==
  ASSUME TypeOK, NEW j \in Job, RecordsResult(j)
  PROVE  /\ jobs[j].status \in Held
         /\ \/ jobs'[j].status \in Terminal /\ jobs'[j].retries = jobs[j].retries
            \/ jobs'[j].status = "RETRYING" /\ jobs'[j].retries = jobs[j].retries + 1
         /\ history'[j].dead = history[j].dead
<1> USE DEF TypeOK, HeldAt, Terminal
<1>1. ASSUME NEW e \in 1..MaxEpoch, NEW final \in {"SUCCESS", "CANCELLED"}, Complete(j, e, final)
      PROVE  /\ jobs[j].status \in Held /\ jobs'[j].status = final
             /\ jobs'[j].retries = jobs[j].retries /\ history' = history
  BY <1>1, MovedRow DEF Complete, JobStatus
<1>2. ASSUME NEW e \in 1..MaxEpoch, RetryOrFail(j, e)
      PROVE  /\ jobs[j].status \in Held
             /\ \/ jobs'[j].status = "FAILED" /\ jobs'[j].retries = jobs[j].retries
                \/ jobs'[j].status = "RETRYING" /\ jobs'[j].retries = jobs[j].retries + 1
             /\ history'[j].dead = history[j].dead
  BY <1>2, MovedRow, RetryingRow DEF RetryOrFail, JobStatus
<1> QED BY <1>1, <1>2 DEF RecordsResult

(* j keeps its place: it is held before and after, or waits before and      *)
(* after, or neither, and nothing is charged to it.                         *)
Stays(j) ==
  /\ jobs'[j].status \in Held <=> jobs[j].status \in Held
  /\ jobs'[j].status \in Held =>
       jobs'[j].worker = jobs[j].worker /\ jobs'[j].epoch = jobs[j].epoch
  /\ jobs'[j].status \in Waiting <=> jobs[j].status \in Waiting
  /\ jobs'[j].status = "ABSENT" => jobs[j].status = "ABSENT"
  /\ jobs'[j].retries = jobs[j].retries
  /\ history'[j].dead = history[j].dead

(* j is requeued by MarkDeadAndRequeue, wherever it was.                    *)
Reopened(j) ==
  /\ jobs'[j].status = "QUEUED"
  /\ jobs'[j].retries = jobs[j].retries
  /\ history'[j].dead = history[j].dead + 1

(* What a step of the store can do to a job.                                *)
LEMMA JobMoves ==
  ASSUME TypeOK, [Next]_storeVars, NEW j \in Job
  PROVE  \/ Assigns(j)
         \/ RecordsResult(j)
         \/ Stays(j)
         \/ Reopened(j)
         \/ jobs[j].status = "ABSENT" /\ jobs'[j].status = "QUEUED" /\ history' = history
<1> USE DEF TypeOK
<1>1. ASSUME jobs'[j] = jobs[j], history'[j] = history[j]
      PROVE  Stays(j)
  BY <1>1 DEF Stays
<1>2. ASSUME NEW w \in Worker, CommitReap(w)
      PROVE  Stays(j) \/ Reopened(j)
  <2>1. CASE j \in reap[w].found
    BY <1>2, <2>1, RequeuedRow DEF CommitReap, Reopened
  <2>2. CASE j \notin reap[w].found
    BY <1>1, <1>2, <2>2 DEF CommitReap
  <2> QED BY <2>1, <2>2
<1>3. ASSUME NEW w \in Worker, NEW e \in 1..MaxEpoch, NEW i \in Job, AssignJob(i, w, e)
      PROVE  Assigns(j) \/ Stays(j)
  <2>1. CASE i = j
    BY <1>3, <2>1 DEF Assigns
  <2>2. CASE i # j
    BY <1>1, <1>3, <2>2 DEF AssignJob
  <2> QED BY <2>1, <2>2
<1>4. ASSUME NEW w \in Worker, WorkerStep(w)
      PROVE  Assigns(j) \/ Stays(j) \/ Reopened(j)
  <2>1. ASSUME jobs' = jobs, history' = history PROVE Stays(j)
    BY <1>1, <2>1
  <2> QED BY <1>2, <1>3, <1>4, <2>1
          DEF WorkerStep, Register, HeartbeatLapses, RollbackReap, RequestDrain, ResumeDrain,
              BeginReap, FreeWorker, UpdateHeartbeat
<1>5. ASSUME NEW i \in Job, JobStep(i), i # j
      PROVE  Stays(j)
  BY <1>1, <1>5 DEF JobStep, Create, BackoffElapses, MarkQueuedFromRetry, MarkRunning,
                    RetryOrFail, Complete
<1>6. ASSUME JobStep(j)
      PROVE  \/ RecordsResult(j) \/ Stays(j)
             \/ jobs[j].status = "ABSENT" /\ jobs'[j].status = "QUEUED" /\ history' = history
  <2>1. ASSUME NEW m \in RetryRequests, NEW c \in SUBSET Capability, Create(j, m, c)
        PROVE  jobs[j].status = "ABSENT" /\ jobs'[j].status = "QUEUED" /\ history' = history
    BY <2>1, CreatedRow, StoreAssumption DEF Create
  <2>2. CASE BackoffElapses(j)
    BY <2>2, DueRow DEF BackoffElapses, Stays, Held
  <2>3. CASE MarkQueuedFromRetry(j)
    BY <2>3, RetriedRow DEF MarkQueuedFromRetry, Stays, Held, Waiting
  <2>4. ASSUME NEW e \in 1..MaxEpoch, MarkRunning(j, e)
        PROVE  Stays(j)
    BY <2>4, MovedRow DEF MarkRunning, JobStatus, Stays, Held, Waiting
  <2> QED BY <1>6, <2>1, <2>2, <2>3, <2>4 DEF JobStep, RecordsResult
<1>7. CASE UNCHANGED storeVars
  BY <1>1, <1>7 DEF storeVars
<1> QED BY <1>4, <1>5, <1>6, <1>7 DEF Next

-------------------------------------------------------------------------------
(* The theorems.                                                            *)

(* The invariant holds in empty tables.                                     *)
LEMMA InitInv == Init => StoreInv
<1> SUFFICES ASSUME Init PROVE StoreInv
  OBVIOUS
<1>1. TypeOK
  BY StoreAssumption DEF Init, TypeOK, WorkerRow, JobRow, HistoryRows, WorkerStatus, NotReaping
<1>2. OwnedByARegistration
  BY DEF Init, OwnedByARegistration, Held, Terminal
<1>3. CapacityWithinSlots
  <2> SUFFICES ASSUME NEW w \in Worker
               PROVE  /\ workers[w].avail <= workers[w].slots
                      /\ ~ (workers[w].epoch > 0)
    BY DEF CapacityWithinSlots, Registered
  <2>1. workers[w].epoch = 0 /\ workers[w].slots = 0 /\ workers[w].avail = 0
    BY DEF Init
  <2> QED
    BY <2>1
<1>4. FailedOnlyWhenExhausted
  BY DEF Init, FailedOnlyWhenExhausted
<1>5. ReapCoversHeld /\ DeadHoldsNothing
  BY DEF Init, ReapCoversHeld, DeadHoldsNothing, HeldBy, Held, NotReaping
<1> QED
  BY <1>1, <1>2, <1>3, <1>4, <1>5 DEF StoreInv

(* The inductive invariant holds in every reachable state of the store,     *)
(* whoever calls its methods, and in whatever order.                        *)
THEOREM StoreInvariant == Spec => []StoreInv
<1>1. Init => StoreInv
  BY InitInv
<1>2. StoreInv /\ [Next]_storeVars => StoreInv'
  BY TypeStep, CapacityStep, RetryStep, OwnedStep, ReapStep, DeadStep DEF StoreInv
<1> QED
  BY <1>1, <1>2, PTL DEF Spec

(* Type correctness: in particular available_capacity stays a natural.      *)
THEOREM TypeCorrect == Spec => []TypeOK
  BY StoreInvariant, PTL DEF StoreInv

(* Held and finished jobs always name a registration their worker has had.  *)
THEOREM Owned == Spec => []OwnedByARegistration
  BY StoreInvariant, PTL DEF StoreInv

(* available_capacity never exceeds capacity_slots.                         *)
THEOREM Capacity == Spec => []CapacityWithinSlots
  BY StoreInvariant, PTL DEF StoreInv

(* A job is FAILED only after its whole retry budget, recorded in           *)
(* job_retry_history, is spent.                                             *)
THEOREM Exhausted == Spec => []FailedOnlyWhenExhausted
  BY StoreInvariant, PTL DEF StoreInv

(* MarkDeadAndRequeue never leaves a job with a dead worker.                *)
THEOREM DeadIsEmpty == Spec => []DeadHoldsNothing
  BY StoreInvariant, PTL DEF StoreInv

(* While MarkDeadAndRequeue is open on a worker, the worker holds only jobs *)
(* the transaction has selected and will requeue.                           *)
THEOREM ReapCovers == Spec => []ReapCoversHeld
  BY StoreInvariant, PTL DEF StoreInv

(* No report, retry or assignment ever changes a recorded result.           *)
THEOREM Reopening == Spec => OnlyTheReaperReopens
<1>1. TypeOK /\ [Next]_storeVars =>
        [\A j \in Job :
           jobs[j].status \in Terminal /\ jobs'[j] # jobs[j] =>
             \E w \in Worker : j \in reap[w].found /\ workers'[w].status = "DEAD"]_storeVars
  BY ReopenStep
<1> QED
  BY <1>1, TypeCorrect, PTL DEF Spec, OnlyTheReaperReopens

-------------------------------------------------------------------------------
(* The store implements Ownership.                                          *)

(* A step that leaves who holds what, and every epoch, as they are is a     *)
(* stuttering step of Ownership.                                            *)
LEMMA SameOwners ==
  ASSUME \A j \in Job : Owner(j)' = Owner(j),
         \A w \in Worker : workers'[w].epoch = workers[w].epoch
  PROVE  UNCHANGED <<Owners, Epochs>>
  BY DEF Owners, Epochs

(* Every step of the store is a step of Ownership, or changes no owner.     *)
LEMMA OwnershipStep ==
  ASSUME TypeOK, [Next]_storeVars
  PROVE  [Own!Next]_<<Owners, Epochs>>
<1> USE DEF TypeOK
<1>1. CASE \E w \in Worker, n \in SlotRequests, c \in SUBSET Capability : Register(w, n, c)
  <2>1. PICK w \in Worker, n \in SlotRequests, c \in SUBSET Capability : Register(w, n, c)
    BY <1>1
  <2>2. Epochs' = [Epochs EXCEPT ![w] = Epochs[w] + 1]
    <3>1. workers'[w].epoch = workers[w].epoch + 1
      BY <2>1, StoreAssumption, UpsertedRow DEF Register
    <3>2. \A v \in Worker \ {w} : workers'[v] = workers[v]
      BY <2>1 DEF Register
    <3> QED
      BY <3>1, <3>2 DEF Epochs
  <2>3. Owners' = Owners
    BY <2>1 DEF Register, Owners, Owner
  <2> QED
    BY <2>2, <2>3 DEF Own!Next, Own!Supersede
<1>2. CASE \E w \in Worker : HeartbeatLapses(w)
  BY <1>2, LapsedRow, SameOwners DEF HeartbeatLapses, Owner
<1>3. CASE \E w \in Worker, e \in 1..MaxEpoch, s \in ReportedStatus,
               j \in Job \cup {None} : UpdateHeartbeat(w, e, s, j)
  BY <1>3, BeatenRow, SameOwners DEF UpdateHeartbeat, Owner
<1>4. CASE \E w \in Worker, e \in 1..MaxEpoch : BeginReap(w, e)
  BY <1>4, SameOwners DEF BeginReap, Owner
<1>5. CASE \E w \in Worker : CommitReap(w)
  <2>1. PICK w \in Worker : CommitReap(w)
    BY <1>5
  <2>2. Epochs' = Epochs
    BY <2>1, DeadRow DEF CommitReap, Epochs
  <2>3. Owners' = [j \in Job |-> IF j \in reap[w].found THEN None ELSE Owners[j]]
    BY <2>1, RequeuedRow DEF CommitReap, Owners, Owner, Held
  <2>4. reap[w].found \in SUBSET Job
    OBVIOUS
  <2> QED
    BY <2>2, <2>3, <2>4 DEF Own!Next, Own!Release
<1>6. CASE \E w \in Worker : RollbackReap(w)
  BY <1>6, SameOwners DEF RollbackReap, Owner
<1>7. CASE \E w \in Worker, e \in 1..MaxEpoch, j \in Job : AssignJob(j, w, e)
  <2>1. PICK w \in Worker, e \in 1..MaxEpoch, j \in Job : AssignJob(j, w, e)
    BY <1>7
  <2>2. Epochs' = Epochs /\ Epochs[w] = e /\ e > 0
    BY <2>1, BusyRow DEF AssignJob, Assignable, EpochIs, Epochs
  <2>3. Owners[j] = None
    BY <2>1 DEF AssignJob, Assignable, Owners, Owner, Held
  <2>4. Owners' = [Owners EXCEPT ![j] = <<w, e>>]
    <3>1. Owner(j)' = <<w, e>>
      BY <2>1, AssignedRow DEF AssignJob, Owner, Held
    <3>2. \A i \in Job \ {j} : Owner(i)' = Owner(i)
      BY <2>1 DEF AssignJob, Owner
    <3> QED
      BY <3>1, <3>2 DEF Owners
  <2> QED
    BY <2>2, <2>3, <2>4 DEF Own!Next, Own!Grant
<1>8. CASE \E w \in Worker, e \in 1..MaxEpoch : FreeWorker(w, e)
  BY <1>8, FreedRow, SameOwners DEF FreeWorker, Owner
<1>9. CASE \E w \in Worker : RequestDrain(w)
  BY <1>9, DrainedRow, SameOwners DEF RequestDrain, Owner
<1>10. CASE \E w \in Worker : ResumeDrain(w)
  BY <1>10, ResumedRow, SameOwners DEF ResumeDrain, Owner
<1>11. CASE \E j \in Job, m \in RetryRequests, c \in SUBSET Capability : Create(j, m, c)
  BY <1>11, StoreAssumption, CreatedRow, SameOwners DEF Create, Owner, Held
<1>12. CASE \E j \in Job, e \in 1..MaxEpoch : MarkRunning(j, e)
  BY <1>12, MovedRow, SameOwners DEF MarkRunning, HeldAt, Owner, Held, JobStatus
<1>13. CASE \E j \in Job, e \in 1..MaxEpoch,
               final \in {"SUCCESS", "CANCELLED"} : Complete(j, e, final)
  <2>1. PICK j \in Job, e \in 1..MaxEpoch, final \in {"SUCCESS", "CANCELLED"} :
          Complete(j, e, final)
    BY <1>13
  <2>2. Epochs' = Epochs
    BY <2>1 DEF Complete, Epochs
  <2>3. Owners' = [i \in Job |-> IF i \in {j} THEN None ELSE Owners[i]]
    BY <2>1, MovedRow DEF Complete, Owners, Owner, Held, JobStatus
  <2>4. {j} \in SUBSET Job
    OBVIOUS
  <2> QED
    BY <2>2, <2>3, <2>4 DEF Own!Next, Own!Release
<1>14. CASE \E j \in Job, e \in 1..MaxEpoch : RetryOrFail(j, e)
  <2>1. PICK j \in Job, e \in 1..MaxEpoch : RetryOrFail(j, e)
    BY <1>14
  <2>2. Epochs' = Epochs
    BY <2>1 DEF RetryOrFail, Epochs
  <2>3. Owners' = [i \in Job |-> IF i \in {j} THEN None ELSE Owners[i]]
    BY <2>1, MovedRow, RetryingRow DEF RetryOrFail, Owners, Owner, Held, JobStatus
  <2>4. {j} \in SUBSET Job
    OBVIOUS
  <2> QED
    BY <2>2, <2>3, <2>4 DEF Own!Next, Own!Release
<1>15. CASE \E j \in Job : BackoffElapses(j)
  BY <1>15, DueRow, SameOwners DEF BackoffElapses, Owner
<1>16. CASE \E j \in Job : MarkQueuedFromRetry(j)
  BY <1>16, RetriedRow, SameOwners DEF MarkQueuedFromRetry, Owner, Held
<1>17. CASE UNCHANGED storeVars
  BY <1>17, SameOwners DEF storeVars, Owner
<1> QED
  BY <1>1, <1>2, <1>3, <1>4, <1>5, <1>6, <1>7, <1>8, <1>9, <1>10, <1>11, <1>12, <1>13, <1>14, <1>15, <1>16, <1>17 DEF Next, WorkerStep, JobStep

(* However the methods interleave, a job has one owner at a time, is        *)
(* granted only when free and only to a worker's latest registration, and   *)
(* is never handed over without a release.                                  *)
THEOREM Refinement == Spec => ImplementsOwnership
<1>1. Init => Own!Init
  BY DEF Init, Own!Init, Owners, Epochs, Owner, Held
<1>2. TypeOK /\ [Next]_storeVars => [Own!Next]_<<Owners, Epochs>>
  BY OwnershipStep
<1> QED
  BY <1>1, <1>2, TypeCorrect, PTL DEF Spec, ImplementsOwnership, Own!Spec, Own!vars
================================================================================
