------------------------------ MODULE AttemptProofs ------------------------------
(***************************************************************************)
(* Proofs about the attempts of a job in the composed system, for every    *)
(* set of workers and jobs and every budget of upsets: how many processes  *)
(* a job is given to, whose report ends it, and that the loop finds a      *)
(* worker for it when there is one.                                        *)
(***************************************************************************)
EXTENDS ControlPlaneProofs, FiniteSetTheorems, WellFoundedInduction

-------------------------------------------------------------------------------
(* How many processes a job is given to.  The bound alone is not inductive: *)
(* a job that waits must leave room for its next assignment, and a held job *)
(* must be on record already, so that only an assignment adds to it.        *)

Bounded(j) ==
  /\ IsFiniteSet(GrantsOf(j))
  /\ jobs[j].status = "ABSENT" => GrantsOf(j) = {}
  /\ Cardinality(GrantsOf(j)) + (IF jobs[j].status \in Waiting THEN 1 ELSE 0)
       <= 1 + jobs[j].retries + history[j].dead
  /\ jobs[j].status \in Held => <<j, jobs[j].worker, jobs[j].epoch>> \in granted

(* A step adds at most the present owner of j to the record.                *)
LEMMA GrantsGrow ==
  ASSUME Ghosts, NEW j \in Job
  PROVE  /\ jobs'[j].status \in Held =>
              /\ GrantsOf(j)' = GrantsOf(j) \cup {<<j, jobs'[j].worker, jobs'[j].epoch>>}
              /\ <<j, jobs'[j].worker, jobs'[j].epoch>> \in granted'
         /\ jobs'[j].status \notin Held => GrantsOf(j)' = GrantsOf(j)
<1>1. \A g : g \in granted' <=>
        \/ g \in granted
        \/ \E i \in Job : jobs'[i].status \in Held /\ g = <<i, jobs'[i].worker, jobs'[i].epoch>>
  BY DEF Ghosts
<1>2. \A g : g \in GrantsOf(j)' <=> g \in granted' /\ g[1] = j
  BY DEF GrantsOf
<1>3. \A g : g \in GrantsOf(j) <=> g \in granted /\ g[1] = j
  BY DEF GrantsOf
<1>4. \A g : g \in GrantsOf(j)' <=>
        \/ g \in GrantsOf(j)
        \/ jobs'[j].status \in Held /\ g = <<j, jobs'[j].worker, jobs'[j].epoch>>
  BY <1>1, <1>2, <1>3
<1> QED BY <1>1, <1>4

(* Adding one element adds at most one to the size.                         *)
LEMMA OneMore ==
  ASSUME NEW S, IsFiniteSet(S), NEW x
  PROVE  /\ IsFiniteSet(S \cup {x})
         /\ Cardinality(S) \in Nat
         /\ Cardinality(S \cup {x}) \in Nat
         /\ Cardinality(S \cup {x}) <= Cardinality(S) + 1
<1>1. /\ IsFiniteSet(S \cup {x})
      /\ Cardinality(S) \in Nat
      /\ Cardinality(S \cup {x}) \in Nat
  BY FS_AddElement, FS_CardinalityType
<1>2. Cardinality(S \cup {x}) = Cardinality(S) \/ Cardinality(S \cup {x}) = Cardinality(S) + 1
  BY FS_AddElement
<1> QED BY <1>1, <1>2

(* The bound is kept, job by job.                                           *)
LEMMA BoundedStep ==
  ASSUME TypeOK, TypeOK', [Next]_storeVars, Ghosts, NEW j \in Job, Bounded(j)
  PROVE  Bounded(j)'
<1> DEFINE t == <<j, jobs'[j].worker, jobs'[j].epoch>>
           G == GrantsOf(j)
           GG == GrantsOf(j)'
<1>1. /\ jobs[j].retries \in Nat /\ history[j].dead \in Nat
      /\ jobs'[j].retries \in Nat /\ history'[j].dead \in Nat
  BY DEF TypeOK, JobRow, HistoryRows
<1>2. IsFiniteSet(G) /\ Cardinality(G) \in Nat
  BY FS_CardinalityType DEF Bounded
<1>3. /\ jobs'[j].status \in Held => GG = G \cup {t} /\ t \in granted'
      /\ jobs'[j].status \notin Held => GG = G
  BY GrantsGrow
<1>4. IsFiniteSet(GG) /\ Cardinality(GG) \in Nat /\ Cardinality(GG) <= Cardinality(G) + 1
  <2> HIDE DEF t, G, GG
  <2>1. CASE GG = G
    BY <1>2, <2>1
  <2>2. CASE GG = G \cup {t}
    BY <1>2, <2>2, OneMore
  <2> QED BY <1>3, <2>1, <2>2
<1>5. /\ jobs[j].status = "ABSENT" => G = {}
      /\ Cardinality(G) + (IF jobs[j].status \in Waiting THEN 1 ELSE 0)
           <= 1 + jobs[j].retries + history[j].dead
      /\ jobs[j].status \in Held => <<j, jobs[j].worker, jobs[j].epoch>> \in G
  BY DEF Bounded, GrantsOf
<1>6. SUFFICES /\ jobs'[j].status = "ABSENT" => GG = {}
               /\ Cardinality(GG) + (IF jobs'[j].status \in Waiting THEN 1 ELSE 0)
                    <= 1 + jobs'[j].retries + history'[j].dead
  BY <1>3, <1>4 DEF Bounded
<1> HIDE DEF t, G, GG
<1>7. CASE Assigns(j)
  <2>1. /\ jobs[j].status = "QUEUED" /\ jobs'[j].status = "ASSIGNED"
        /\ jobs'[j].retries = jobs[j].retries /\ history'[j].dead = history[j].dead
    BY <1>7, AssignsRow
  <2> QED BY <1>1, <1>2, <1>4, <1>5, <2>1 DEF Waiting
<1>8. CASE RecordsResult(j)
  <2>1. GG = G /\ jobs'[j].status # "ABSENT"
    BY <1>3, <1>8, RecordsRow DEF Held, Terminal
  <2> QED BY <1>1, <1>2, <1>5, <1>8, <2>1, RecordsRow DEF Waiting, Held, Terminal
<1>9. CASE Stays(j)
  <2>1. GG = G
    <3>1. CASE jobs'[j].status \in Held
      BY <1>3, <1>5, <1>9, <3>1 DEF Stays, t
    <3> QED BY <1>3, <3>1
  <2> QED BY <1>1, <1>5, <1>9, <2>1 DEF Stays
<1>10. CASE Reopened(j)
  <2>1. GG = G
    BY <1>3, <1>10 DEF Reopened, Held
  <2> QED BY <1>1, <1>2, <1>5, <1>10, <2>1 DEF Reopened, Waiting
<1>11. CASE jobs[j].status = "ABSENT" /\ jobs'[j].status = "QUEUED" /\ history' = history
  <2>1. GG = {}
    BY <1>3, <1>5, <1>11 DEF Held
  <2>2. Cardinality(GG) = 0
    BY <2>1, FS_EmptySet
  <2> QED BY <1>1, <1>11, <2>1, <2>2 DEF Waiting
<1> QED BY <1>7, <1>8, <1>9, <1>10, <1>11, JobMoves

(* A job is given to at most one process, and to one more for every retry   *)
(* and every death on its record (AssignJob, RetryOrFail,                   *)
(* MarkDeadAndRequeue, and every path of the system that leads to them).    *)
THEOREM BoundedAttempts == SystemSpec => []AttemptsAreBounded
<1> DEFINE Inv == \A j \in Job : Bounded(j)
<1>1. SystemInit => Inv
  <2> SUFFICES ASSUME SystemInit, NEW j \in Job PROVE Bounded(j)
    OBVIOUS
  <2>1. GrantsOf(j) = {}
    BY DEF SystemInit, GrantsOf
  <2>2. /\ jobs[j].status = "ABSENT" /\ jobs[j].retries = 0 /\ history[j].dead = 0
    BY DEF SystemInit, Init
  <2> QED BY <2>1, <2>2, FS_EmptySet DEF Bounded, Waiting, Held
<1>2. StoreInv /\ StoreInv' /\ Control /\ Inv /\ [SystemNext]_systemVars => Inv'
  <2> SUFFICES ASSUME StoreInv, StoreInv', Control, Inv, [SystemNext]_systemVars,
                      NEW j \in Job
               PROVE  Bounded(j)'
    OBVIOUS
  <2>1. Bounded(j) /\ TypeOK /\ TypeOK' /\ [Next]_storeVars
    BY SystemUsesStore DEF StoreInv
  <2>2. CASE UNCHANGED systemVars
    BY <2>1, <2>2 DEF systemVars, storeVars, ghostVars, Bounded, GrantsOf
  <2> QED BY <2>1, <2>2, Steps, BoundedStep
<1>3. StoreInv /\ Inv => AttemptsAreBounded
  <2> SUFFICES ASSUME StoreInv, Inv, NEW j \in Job
               PROVE  Cardinality(GrantsOf(j)) <= 1 + jobs[j].retries + history[j].dead
    BY DEF AttemptsAreBounded
  <2>1. /\ Bounded(j)
        /\ jobs[j].retries \in Nat /\ history[j].dead \in Nat
    BY DEF StoreInv, TypeOK, JobRow, HistoryRows
  <2>2. Cardinality(GrantsOf(j)) \in Nat
    BY <2>1, FS_CardinalityType DEF Bounded
  <2> QED BY <2>1, <2>2 DEF Bounded
<1> QED
  BY <1>1, <1>2, <1>3, SystemInvariant, PTL DEF SystemSpec

-------------------------------------------------------------------------------
(* Whose report ends a job.                                                 *)

(* A report being handled is about a job its process was given, under the   *)
(* epoch of that process.                                                   *)
Entitled ==
  \A w \in Worker, e \in Epoch :
    report[w][e].pc \in {"get", "record"} => <<report[w][e].job, w, e>> \in granted

(* Every step keeps that: an agent reports what it ran, and the handler     *)
(* does not exchange the job.                                               *)
LEMMA EntitledStep ==
  ASSUME Control, Entitled, [SystemNext]_systemVars
  PROVE  Entitled'
<1>1. granted \subseteq granted'
  BY Grows
<1>2. report \in [Worker -> [Epoch -> ReportRow]]
  BY DEF Control, ReportInv
<1>3. ASSUME UNCHANGED report PROVE Entitled'
  BY <1>1, <1>3 DEF Entitled
<1>4. ASSUME NEW w \in Worker, NEW e \in Epoch, NEW r,
             report' = [report EXCEPT ![w][e] = r],
             r.pc \in {"get", "record"} => <<r.job, w, e>> \in granted
      PROVE  Entitled'
  <2> SUFFICES ASSUME NEW v \in Worker, NEW f \in Epoch, report'[v][f].pc \in {"get", "record"}
               PROVE  <<report'[v][f].job, v, f>> \in granted
    BY <1>1 DEF Entitled
  <2>1. CASE v = w /\ f = e
    BY <1>2, <1>4, <2>1
  <2>2. CASE v # w \/ f # e
    <3>1. report'[v][f] = report[v][f]
      BY <1>2, <1>4, <2>2
    <3> QED BY <3>1 DEF Entitled
  <2> QED BY <2>1, <2>2
<1>5. ASSUME NEW w \in Worker, NEW e \in Epoch, report' = [report EXCEPT ![w][e] = ReportIdle]
      PROVE  Entitled'
  <2>1. ReportIdle.pc = "idle"
    BY DEF ReportIdle
  <2> QED BY <1>4, <1>5, <2>1
<1>6. ASSUME NEW w \in Worker, NEW e \in Epoch, NEW status \in {"SUCCESS", "FAILED"},
             Finish(w, e, status)
      PROVE  Entitled'
  <2> DEFINE r == [pc |-> "get", job |-> agent[w].job, status |-> status, owner |-> None]
  <2>1. agent[w].epoch = e /\ agent[w].stage = "run"
    BY <1>6 DEF Finish, Up
  <2>2. <<agent[w].job, w, e>> \in granted
    BY <2>1, StoreAssumption DEF Control, AgentInv, AgentOK, Given
  <2>3. UNCHANGED report \/ report' = [report EXCEPT ![w][e] = r]
    BY <1>6 DEF Finish
  <2>4. r.job = agent[w].job
    OBVIOUS
  <2> HIDE DEF r
  <2> QED BY <1>3, <1>4, <2>2, <2>3, <2>4
<1>7. ASSUME NEW w \in Worker, NEW e \in Epoch, GetJob(w, e) PROVE Entitled'
  <2> DEFINE x == jobs[report[w][e].job].worker
             r == [report[w][e] EXCEPT !.pc = "record", !.owner = x]
  <2>1. \/ report' = [report EXCEPT ![w][e] = ReportIdle]
        \/ report' = [report EXCEPT ![w][e].pc = "record", ![w][e].owner = x]
    BY <1>7 DEF GetJob
  <2>2. <<report[w][e].job, w, e>> \in granted
    BY <1>7 DEF GetJob, Entitled
  <2> HIDE DEF x
  <2>3. CASE report' = [report EXCEPT ![w][e].pc = "record", ![w][e].owner = x]
    <3>1. report' = [report EXCEPT ![w][e] = r]
      BY <1>2, <2>3
    <3>2. r.job = report[w][e].job
      <4>1. report[w][e] \in ReportRow
        BY <1>2
      <4> QED BY <4>1 DEF ReportRow
    <3> HIDE DEF r
    <3> QED BY <1>4, <2>2, <3>1, <3>2
  <2> QED BY <1>5, <2>1, <2>3
<1>8. ASSUME NEW w \in Worker, NEW e \in Epoch, Record(w, e) PROVE Entitled'
  <2> DEFINE r == [report[w][e] EXCEPT !.pc = "free", !.status = ""]
  <2>1. report' = [report EXCEPT ![w][e] = ReportIdle] \/ report' = [report EXCEPT ![w][e] = r]
    BY <1>8 DEF Record
  <2>2. r.pc = "free"
    <3>1. report[w][e] \in ReportRow
      BY <1>2
    <3> QED BY <3>1 DEF ReportRow
  <2> HIDE DEF r
  <2> QED BY <1>4, <1>5, <2>1, <2>2
<1>9. ASSUME NEW w \in Worker, NEW e \in Epoch, Free(w, e) PROVE Entitled'
  <2> DEFINE x == Freed(workers[report[w][e].owner]).status
             r == [report[w][e] EXCEPT !.pc = "cache", !.status = x]
  <2>1. report' = [report EXCEPT ![w][e] = ReportIdle] \/ report' = [report EXCEPT ![w][e] = r]
    BY <1>9 DEF Free
  <2> HIDE DEF x
  <2>2. r.pc = "cache"
    <3>1. report[w][e] \in ReportRow
      BY <1>2
    <3> QED BY <3>1 DEF ReportRow
  <2> HIDE DEF r
  <2> QED BY <1>4, <1>5, <2>1, <2>2
<1>10. ASSUME NEW w \in Worker, NEW e \in Epoch, CacheFreed(w, e) \/ CancelReport(w, e)
       PROVE  Entitled'
  BY <1>5, <1>10 DEF CacheFreed, CancelReport
<1> QED
  BY <1>3, <1>6, <1>7, <1>8, <1>9, <1>10, ReportWriters

(* The step ends j, or parks it for a retry.                                *)
Ends(j) == jobs[j].status \in Held /\ jobs'[j].status \in Terminal \cup {"RETRYING"}

(* A row that gets another status than those ends no job.                   *)
LEMMA RowEndsNothing ==
  ASSUME TypeOK, NEW i \in Job, NEW r, r.status \notin Terminal \cup {"RETRYING"},
         jobs' = [jobs EXCEPT ![i] = r], NEW j \in Job
  PROVE  ~Ends(j)
<1>1. jobs'[j] = IF j = i THEN r ELSE jobs[j]
  BY DEF TypeOK
<1> QED BY <1>1 DEF Ends, Held, Terminal

(* Nor does a step that leaves the jobs alone.                              *)
LEMMA QuietEndsNothing ==
  ASSUME UNCHANGED jobs, NEW j \in Job
  PROVE  ~Ends(j)
  BY DEF Ends, Held, Terminal

(* The leader's goroutines end no job: the loop assigns, the poller and the *)
(* reaper requeue.                                                          *)
LEMMA LeaderEndsNothing ==
  ASSUME TypeOK, Control, LeaderStep, NEW j \in Job
  PROVE  ~Ends(j)
<1>1. CASE \/ \E i \in Job : LoopRead(i)
           \/ LoopCache \/ LoopAck \/ SweepList \/ SweepDelete \/ PollList \/ PollEnqueue \/ Failover
           \/ \E w \in Worker, e \in Epoch : SweepMark(w, e)
  <2>1. UNCHANGED jobs
    BY <1>1 DEF LoopRead, LoopCache, LoopAck, SweepList, SweepDelete, PollList, PollEnqueue,
                Failover, SweepMark, BeginReap, storeVars
  <2> QED BY <2>1, QuietEndsNothing
<1>2. ASSUME NEW i \in Job, PollMark(i) PROVE ~Ends(j)
  <2>1. CASE MarkQueuedFromRetry(i)
    <3>1. jobs' = [jobs EXCEPT ![i] = Retried(jobs[i])]
      BY <2>1 DEF MarkQueuedFromRetry
    <3>2. Retried(jobs[i]).status = "QUEUED"
      BY RetriedRow DEF TypeOK
    <3> QED BY <3>1, <3>2, RowEndsNothing DEF Terminal
  <2>2. CASE UNCHANGED storeVars
    BY <2>2, QuietEndsNothing DEF storeVars
  <2> QED BY <1>2, <2>1, <2>2 DEF PollMark
<1>3. CASE LoopAssign
  <2>1. loop.job \in Job /\ loop.worker \in Worker /\ loop.epoch \in 0..MaxEpoch
    BY <1>3 DEF LoopAssign, Control, LoopInv, LoopRow
  <2>2. CASE AssignJob(loop.job, loop.worker, loop.epoch)
    <3>1. loop.epoch \in 1..MaxEpoch
      BY <2>1, <2>2, StoreAssumption DEF AssignJob, Assignable, EpochIs
    <3>2. jobs' = [jobs EXCEPT ![loop.job] = Assigned(jobs[loop.job], loop.worker, loop.epoch)]
      BY <2>2 DEF AssignJob
    <3>3. Assigned(jobs[loop.job], loop.worker, loop.epoch).status = "ASSIGNED"
      BY <2>1, <3>1, AssignedRow DEF TypeOK
    <3> QED BY <2>1, <3>2, <3>3, RowEndsNothing DEF Terminal
  <2>3. CASE UNCHANGED storeVars
    BY <2>3, QuietEndsNothing DEF storeVars
  <2> QED BY <1>3, <2>2, <2>3 DEF LoopAssign
<1>4. CASE SweepCommit
  <2>1. sweep.worker \in Worker
    BY <1>4 DEF SweepCommit, Control, SweepInv
  <2>2. CASE CommitReap(sweep.worker)
    <3>1. jobs'[j] = Requeued(jobs[j]) \/ jobs'[j] = jobs[j]
      BY <2>2 DEF CommitReap
    <3>2. Requeued(jobs[j]).status = "QUEUED"
      BY RequeuedRow DEF TypeOK
    <3> QED BY <3>1, <3>2 DEF Ends, Held, Terminal
  <2>3. CASE RollbackReap(sweep.worker)
    BY <2>3, QuietEndsNothing DEF RollbackReap
  <2> QED BY <1>4, <2>2, <2>3 DEF SweepCommit
<1> QED BY <1>1, <1>2, <1>3, <1>4 DEF LeaderStep

(* A step that ends j is the recording of a report about j.                 *)
LEMMA ReportsEnd ==
  ASSUME TypeOK, Control, [SystemNext]_systemVars, NEW j \in Job, Ends(j)
  PROVE  \E w \in Worker, e \in Epoch :
           Record(w, e) /\ report[w][e].job = j /\ jobs[j].epoch = e
<1>1. ASSUME NEW w \in Worker, NEW e \in Epoch, Record(w, e)
      PROVE  report[w][e].job = j /\ jobs[j].epoch = e
  <2> DEFINE i == report[w][e].job
  <2>1. HeldAt(i, e) /\ \E r : jobs' = [jobs EXCEPT ![i] = r]
    <3>1. ~UNCHANGED jobs
      BY QuietEndsNothing
    <3> QED BY <1>1, <3>1 DEF Record, RetryOrFail, Complete, storeVars
  <2> HIDE DEF i
  <2>2. i = j
    <3>1. i # j => jobs'[j] = jobs[j]
      BY <2>1 DEF TypeOK
    <3> QED BY <3>1 DEF Ends, Held, Terminal
  <2> QED BY <2>1, <2>2 DEF i, HeldAt
<1>2. ASSUME NEW w \in Worker, NEW e \in Epoch, Confirm(w, e) PROVE FALSE
  <2>1. beat[w][e].job \in Job
    BY <1>2 DEF Confirm, Confirms, Control, BeatInv, BeatOK, BeatRow, MaybeJob
  <2>2. CASE MarkRunning(beat[w][e].job, e)
    <3> DEFINE r == Moved(jobs[beat[w][e].job], "RUNNING")
    <3>1. r.status = "RUNNING"
      BY <2>1, MovedRow DEF TypeOK, JobStatus
    <3>2. jobs' = [jobs EXCEPT ![beat[w][e].job] = r]
      BY <2>2 DEF MarkRunning
    <3> HIDE DEF r
    <3> QED BY <2>1, <3>1, <3>2, RowEndsNothing DEF Terminal
  <2>3. CASE UNCHANGED storeVars
    BY <2>3, QuietEndsNothing DEF storeVars
  <2> QED BY <1>2, <2>2, <2>3 DEF Confirm
<1>3. CASE AgentStep \/ BeatStep \/ ReportStep
  BY <1>1, <1>2, <1>3, QuietEndsNothing, WorkersWriteJobs
<1>4. CASE RestStep
  <2>1. ASSUME NEW i \in Job, NEW m \in RetryRequests, NEW c \in SUBSET Capability, Create(i, m, c)
        PROVE  FALSE
    <3>1. jobs' = [jobs EXCEPT ![i] = Created(m, c)]
      BY <2>1 DEF Create
    <3>2. Created(m, c).status = "QUEUED"
      BY CreatedRow, StoreAssumption
    <3> QED BY <3>1, <3>2, RowEndsNothing DEF Terminal
  <2>2. UNCHANGED jobs \/ \E i \in Job, m \in RetryRequests, c \in SUBSET Capability : Create(i, m, c)
    BY <1>4 DEF RestStep, SubmitJob, SubmitEnqueue, SubmitDies, SyncState, SyncFlag, Drain,
                RequestDrain, ResumeDrain, storeVars
  <2> QED BY <2>1, <2>2, QuietEndsNothing
<1>5. CASE TimeStep
  <2>1. PICK i \in Job : BackoffElapses(i)
    BY <1>5 DEF TimeStep
  <2>2. jobs[i].status = "RETRYING" /\ jobs' = [jobs EXCEPT ![i] = DueNow(jobs[i])]
    BY <2>1 DEF BackoffElapses
  <2>3. i # j => jobs'[j] = jobs[j]
    BY <2>2 DEF TypeOK
  <2> QED BY <2>2, <2>3 DEF Ends, Held, Terminal
<1>6. CASE UNCHANGED systemVars
  BY <1>6, QuietEndsNothing DEF systemVars, storeVars
<1> QED BY <1>3, <1>4, <1>5, <1>6, Steps, LeaderEndsNothing

(* What the epoch guard of Complete and RetryOrFail (jobs.go) gives: the    *)
(* report that ends an attempt comes from a process that was given the job  *)
(* under the epoch the job has now, whatever late reports, sweeps and       *)
(* restarts do.  It need not be the present owner: a former owner with an   *)
(* equal epoch passes the guard, and the theorem allows no other stranger.  *)
THEOREM Earning == SystemSpec => ResultsAreEarned
<1>1. SystemInit => Entitled
  <2>1. SystemInit => report = [w \in Worker |-> [e \in Epoch |-> ReportIdle]]
    BY Zenon DEF SystemInit, GatewayInit
  <2>2. ReportIdle.pc = "idle"
    BY DEF ReportIdle
  <2> QED BY <2>1, <2>2 DEF Entitled
<1>2. StoreInv /\ Control /\ Entitled /\ [SystemNext]_systemVars => Entitled'
  BY EntitledStep
<1>3. ASSUME StoreInv, Control, Entitled, [SystemNext]_systemVars, NEW j \in Job, Ends(j)
      PROVE  \E w \in Worker :
               LET e == jobs[j].epoch IN
               /\ <<j, w, e>> \in granted
               /\ report[w][e].pc = "record" /\ report[w][e].job = j
  <2>1. PICK w \in Worker, e \in Epoch : Record(w, e) /\ report[w][e].job = j /\ jobs[j].epoch = e
    BY <1>3, ReportsEnd DEF StoreInv
  <2>2. report[w][e].pc = "record"
    BY <2>1 DEF Record
  <2>3. <<j, w, e>> \in granted
    BY <1>3, <2>1, <2>2 DEF Entitled
  <2> QED BY <2>1, <2>2, <2>3
<1>4. StoreInv /\ Control /\ Entitled /\ [SystemNext]_systemVars =>
        \A j \in Job :
          jobs[j].status \in Held /\ jobs'[j].status \in Terminal \cup {"RETRYING"} =>
            \E w \in Worker :
              LET e == jobs[j].epoch IN
              /\ <<j, w, e>> \in granted
              /\ report[w][e].pc = "record" /\ report[w][e].job = j
  BY <1>3 DEF Ends
<1> QED
  BY <1>1, <1>2, <1>4, SystemInvariant, PTL DEF SystemSpec, ResultsAreEarned

-------------------------------------------------------------------------------
(* What the loop chooses.  A fraction avail / slots is compared by cross    *)
(* products, so that a best candidate exists needs an argument: comparing   *)
(* is transitive, and a smallest set without a best one has none to remove. *)

(* Comparing the fractions a/b, c/d and p/q is transitive.                  *)
LEMMA FractionsTransitive ==
  ASSUME NEW a \in Nat, NEW b \in Nat, NEW c \in Nat, NEW d \in Nat, NEW p \in Nat, NEW q \in Nat,
         d > 0, a * d >= c * b, c * q >= p * d
  PROVE  a * q >= p * b
<1>1. ASSUME NEW x \in Nat, NEW y \in Nat, NEW z \in Nat, x >= y PROVE x * z >= y * z
  BY <1>1
<1>2. ASSUME NEW x \in Nat, NEW y \in Nat, d * x >= d * y PROVE x >= y
  BY <1>2
<1>3. a * d \in Nat /\ c * b \in Nat /\ c * q \in Nat /\ p * d \in Nat /\ a * q \in Nat /\ p * b \in Nat
  OBVIOUS
<1>4. (a * d) * q >= (c * b) * q /\ (c * q) * b >= (p * d) * b
  BY <1>1, <1>3
<1>5. (a * d) * q = d * (a * q) /\ (c * b) * q = (c * q) * b /\ (p * d) * b = d * (p * b)
  OBVIOUS
<1>6. d * (a * q) >= d * (p * b)
  <2>1. d * (a * q) \in Nat /\ d * (p * b) \in Nat /\ (c * q) * b \in Nat
    BY <1>3
  <2> QED BY <1>4, <1>5, <2>1
<1> QED BY <1>2, <1>3, <1>6

(* A finite set of workers with slots that is not empty has a least loaded  *)
(* one.                                                                     *)
LEMMA LeastLoadedExists ==
  ASSUME NEW S, IsFiniteSet(S), S # {},
         \A w \in S : workers[w].avail \in Nat /\ workers[w].slots \in Nat /\ workers[w].slots > 0
  PROVE  SelectLeastLoaded(S) # {}
<1> DEFINE Stuck(T) == T # {} /\ SelectLeastLoaded(T) = {}
           B == {n \in Nat : \E T \in SUBSET S : Cardinality(T) = n /\ Stuck(T)}
<1>1. SUFFICES ASSUME SelectLeastLoaded(S) = {} PROVE FALSE
  OBVIOUS
<1>2. \A T \in SUBSET S : IsFiniteSet(T) /\ Cardinality(T) \in Nat
  BY FS_Subset, FS_CardinalityType
<1>3. B # {}
  <2>1. Cardinality(S) \in B
    BY <1>1, <1>2
  <2> QED BY <2>1
<1>4. PICK n \in B : \A m \in B : ~(m < n)
  <2> HIDE DEF B
  <2>1. B \subseteq Nat
    BY DEF B
  <2>2. PICK n \in B : \A m \in B : ~(<<m, n>> \in OpToRel(<, Nat))
    BY <1>3, <2>1, WFMin, NatLessThanWellFounded, Zenon
  <2> QED BY <2>1, <2>2 DEF OpToRel
<1>5. PICK T \in SUBSET S : Cardinality(T) = n /\ T # {} /\ SelectLeastLoaded(T) = {}
  OBVIOUS
<1>6. PICK x \in T : TRUE
  BY <1>5
<1> DEFINE U == T \ {x}
<1>7. Cardinality(U) \in Nat /\ Cardinality(U) < n /\ U \in SUBSET S
  BY <1>2, <1>5, <1>6, FS_RemoveElement
<1>8. U # {} => SelectLeastLoaded(U) # {}
  BY <1>4, <1>7
<1>9. CASE U = {}
  <2>1. x \in SelectLeastLoaded(T)
    BY <1>5, <1>6, <1>9 DEF SelectLeastLoaded
  <2> QED BY <1>5, <2>1
<1>10. CASE U # {}
  <2>1. PICK m \in SelectLeastLoaded(U) : TRUE
    BY <1>8, <1>10
  <2>2. /\ m \in T
        /\ \A v \in U : workers[m].avail * workers[v].slots >= workers[v].avail * workers[m].slots
    BY <2>1 DEF SelectLeastLoaded
  <2>3. CASE workers[m].avail * workers[x].slots >= workers[x].avail * workers[m].slots
    <3>1. m \in SelectLeastLoaded(T)
      BY <2>2, <2>3 DEF SelectLeastLoaded
    <3> QED BY <1>5, <3>1
  <2>4. CASE ~(workers[m].avail * workers[x].slots >= workers[x].avail * workers[m].slots)
    <3>1. workers[x].avail * workers[m].slots >= workers[m].avail * workers[x].slots
      BY <1>6, <2>2, <2>4
    <3>2. ASSUME NEW v \in T
          PROVE  workers[x].avail * workers[v].slots >= workers[v].avail * workers[x].slots
      <4>1. CASE v = x
        BY <1>6, <4>1
      <4>2. CASE v # x
        <5>1. workers[m].avail * workers[v].slots >= workers[v].avail * workers[m].slots
          BY <2>2, <4>2
        <5> QED BY <1>6, <2>2, <3>1, <5>1, FractionsTransitive
      <4> QED BY <4>1, <4>2
    <3>3. x \in SelectLeastLoaded(T)
      BY <1>6, <3>2 DEF SelectLeastLoaded
    <3> QED BY <1>5, <3>3
  <2> QED BY <2>3, <2>4
<1> QED BY <1>9, <1>10

(* The loop has a worker to choose for every job that has a candidate.      *)
CandidatesAreRanked ==
  \A j \in Job :
    ListReadyCandidates(j) # {} => SelectLeastLoaded(ListReadyCandidates(j)) # {}

(* SelectLeastLoaded (algorithm.go) skips rows without slots, and the loop  *)
(* leaves a job for the next tick when it returns nil.  It never does so    *)
(* while there is a candidate: a READY worker with a free slot has slots,   *)
(* whatever late frees and reaps have done to its row.                      *)
THEOREM Ranking ==
  ASSUME IsFiniteSet(Worker)
  PROVE  SystemSpec => []CandidatesAreRanked
<1>1. StoreInv => CandidatesAreRanked
  <2> SUFFICES ASSUME StoreInv, NEW j \in Job, ListReadyCandidates(j) # {}
               PROVE  SelectLeastLoaded(ListReadyCandidates(j)) # {}
    BY DEF CandidatesAreRanked
  <2>1. IsFiniteSet(ListReadyCandidates(j))
    <3>1. ListReadyCandidates(j) \subseteq Worker
      BY DEF ListReadyCandidates
    <3> QED BY <3>1, FS_Subset
  <2>2. ASSUME NEW w \in ListReadyCandidates(j)
        PROVE  workers[w].avail \in Nat /\ workers[w].slots \in Nat /\ workers[w].slots > 0
    <3>1. w \in Worker /\ workers[w].avail > 0
      BY DEF ListReadyCandidates
    <3>2. workers[w] \in WorkerRow /\ workers[w].avail <= workers[w].slots
      BY <3>1 DEF StoreInv, TypeOK, CapacityWithinSlots
    <3> QED BY <3>1, <3>2 DEF WorkerRow
  <2> QED BY <2>1, <2>2, LeastLoadedExists
<1> QED
  BY <1>1, SystemInvariant, PTL
================================================================================
