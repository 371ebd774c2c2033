--------------------------- MODULE ControlPlaneProofs ---------------------------
(***************************************************************************)
(* Proofs about the composed system, for every set of workers and jobs and *)
(* every budget of upsets: it uses the tables only as FleetStore says, an  *)
(* agent only runs what was granted to it, and a QUEUED job has an entry   *)
(* unless an enqueuer gave up or the reaper requeued it.                   *)
(*                                                                         *)
(* The invariant has one conjunct per variable.  A variable has few        *)
(* writers: lemma Steps groups the steps by the goroutine that takes them, *)
(* and the lemma that a conjunct is kept looks at its writers alone.       *)
(***************************************************************************)
EXTENDS ControlPlane, FleetStoreProofs

(* The steps by the goroutine that takes them.                              *)
LeaderStep ==
  \/ \E j \in Job : LoopRead(j) \/ PollMark(j)
  \/ LoopAssign \/ LoopCache \/ LoopAck
  \/ SweepList \/ SweepCommit \/ SweepDelete
  \/ PollList \/ PollEnqueue \/ Failover
  \/ \E w \in Worker, e \in Epoch : SweepMark(w, e)

AgentStep ==
  \E w \in Worker :
    \/ \E n \in SlotRequests, c \in SUBSET Capability : RegisterWorker(w, n, c)
    \/ AgentCrash(w) \/ Lapse(w) \/ Receive(w) \/ Exit(w)
    \/ \E e \in Epoch :
         \/ SeedCache(w, e) \/ CancelSeed(w, e)
         \/ \E status \in {"SUCCESS", "FAILED"} : Finish(w, e, status)
         \/ FinishJob(w, e)

BeatStep ==
  \E w \in Worker, e \in Epoch :
    \/ SendHeartbeat(w, e) \/ ReadState(w, e) \/ Fallback(w, e) \/ Push(w, e)
    \/ Confirm(w, e) \/ Flush(w, e) \/ WriteState(w, e) \/ CancelBeat(w, e)

ReportStep ==
  \E w \in Worker, e \in Epoch :
    GetJob(w, e) \/ Record(w, e) \/ Free(w, e) \/ CacheFreed(w, e) \/ CancelReport(w, e)

RestStep ==
  \/ \E j \in Job :
       \/ SubmitEnqueue(j) \/ SubmitDies(j)
       \/ \E m \in RetryRequests, c \in SUBSET Capability : SubmitJob(j, m, c)
  \/ \E w \in Worker : SyncState(w) \/ SyncFlag(w) \/ \E on \in BOOLEAN : Drain(w, on)

TimeStep ==
  (\E j \in Job : BackoffElapses(j)) /\ UNCHANGED <<redisVars, leaderVars, gatewayVars, apiVars>>

(* Every step belongs to one group, and leaves the others' variables alone. *)
LEMMA Steps ==
  ASSUME [SystemNext]_systemVars
  PROVE  \/ LeaderStep /\ UNCHANGED <<gatewayVars, apiVars>> /\ Ghosts
         \/ (AgentStep \/ BeatStep \/ ReportStep) /\ UNCHANGED <<leaderVars, apiVars>> /\ Ghosts
         \/ RestStep /\ UNCHANGED <<leaderVars, gatewayVars>> /\ Ghosts
         \/ TimeStep /\ Ghosts
         \/ UNCHANGED systemVars
<1>1. CASE UNCHANGED systemVars
  BY <1>1
<1>2. ASSUME NEW j \in Job,
             \/ Leader(LoopRead(j)) \/ Leader(PollMark(j))
             \/ Rest(SubmitEnqueue(j)) \/ Rest(SubmitDies(j))
             \/ \E m \in RetryRequests, c \in SUBSET Capability : Rest(SubmitJob(j, m, c))
             \/ Time(BackoffElapses(j))
      PROVE  \/ LeaderStep /\ UNCHANGED <<gatewayVars, apiVars>> /\ Ghosts
             \/ RestStep /\ UNCHANGED <<leaderVars, gatewayVars>> /\ Ghosts
             \/ TimeStep /\ Ghosts
  BY <1>2, Zenon DEF LeaderStep, RestStep, TimeStep, Leader, Rest, Time
<1>3. CASE \/ Leader(LoopAssign) \/ Leader(LoopCache) \/ Leader(LoopAck)
           \/ Leader(SweepList) \/ Leader(SweepCommit) \/ Leader(SweepDelete)
           \/ Leader(PollList) \/ Leader(PollEnqueue)
           \/ Leader(Failover)
  BY <1>3, Zenon DEF LeaderStep, Leader
<1>4. ASSUME NEW w \in Worker,
             \/ \E n \in SlotRequests, c \in SUBSET Capability : Grpc(RegisterWorker(w, n, c))
             \/ Grpc(AgentCrash(w)) \/ Grpc(Lapse(w))
             \/ Grpc(Receive(w)) \/ Grpc(Exit(w))
      PROVE  AgentStep /\ UNCHANGED <<leaderVars, apiVars>> /\ Ghosts
  BY <1>4, Zenon DEF AgentStep, Grpc
<1>5. ASSUME NEW w \in Worker,
             \/ Rest(SyncState(w)) \/ Rest(SyncFlag(w))
             \/ \E on \in BOOLEAN : Rest(Drain(w, on))
      PROVE  RestStep /\ UNCHANGED <<leaderVars, gatewayVars>> /\ Ghosts
  BY <1>5, Zenon DEF RestStep, Rest
<1>6. ASSUME NEW w \in Worker, NEW e \in Epoch, Leader(SweepMark(w, e))
      PROVE  LeaderStep /\ UNCHANGED <<gatewayVars, apiVars>> /\ Ghosts
  BY <1>6, Zenon DEF LeaderStep, Leader
<1>7. ASSUME NEW w \in Worker, NEW e \in Epoch,
             \/ Grpc(SeedCache(w, e)) \/ Grpc(CancelSeed(w, e))
             \/ \E status \in {"SUCCESS", "FAILED"} : Grpc(Finish(w, e, status))
             \/ Grpc(FinishJob(w, e))
      PROVE  AgentStep /\ UNCHANGED <<leaderVars, apiVars>> /\ Ghosts
  BY <1>7, Zenon DEF AgentStep, Grpc
<1>8. ASSUME NEW w \in Worker, NEW e \in Epoch,
             \/ Grpc(SendHeartbeat(w, e)) \/ Grpc(ReadState(w, e)) \/ Grpc(Fallback(w, e))
             \/ Grpc(Push(w, e)) \/ Grpc(Confirm(w, e)) \/ Grpc(Flush(w, e))
             \/ Grpc(WriteState(w, e)) \/ Grpc(CancelBeat(w, e))
      PROVE  BeatStep /\ UNCHANGED <<leaderVars, apiVars>> /\ Ghosts
  BY <1>8, Zenon DEF BeatStep, Grpc
<1>9. ASSUME NEW w \in Worker, NEW e \in Epoch,
             \/ Grpc(GetJob(w, e)) \/ Grpc(Record(w, e))
             \/ Grpc(Free(w, e)) \/ Grpc(CacheFreed(w, e)) \/ Grpc(CancelReport(w, e))
      PROVE  ReportStep /\ UNCHANGED <<leaderVars, apiVars>> /\ Ghosts
  BY <1>9, Zenon DEF ReportStep, Grpc
<1> QED
  BY <1>1, <1>2, <1>3, <1>4, <1>5, <1>6, <1>7, <1>8, <1>9, ZenonT(30) DEF SystemNext

-------------------------------------------------------------------------------
(* The invariant.                                                           *)

(* j is no job, or was once assigned to registration e of w.                *)
Given(j, w, e) == j = None \/ <<j, w, e>> \in granted

MaybeJob == Job \cup {None}
CacheRow ==
  [exists : BOOLEAN, epoch : 0..MaxEpoch, status : WorkerStatus \cup {""}, job : MaybeJob,
   drain : BOOLEAN, flushed : BOOLEAN]

RowsInv == \A w \in Worker : Given(workers[w].job, w, workers[w].epoch)

CacheInv ==
  /\ cache \in [Worker -> CacheRow]
  /\ \A w \in Worker : Given(cache[w].job, w, cache[w].epoch)

LoopRow ==
  [pc : {"read", "assign", "cache", "ack"}, job : MaybeJob, worker : Worker \cup {None},
   epoch : 0..MaxEpoch]
LoopInv ==
  /\ loop \in LoopRow
  /\ loop.pc # "read" => loop.job \in Job
  /\ loop.pc \in {"assign", "cache"} => loop.worker \in Worker
  /\ loop.pc = "cache" => <<loop.job, loop.worker, loop.epoch>> \in granted

(* Only the worker that the sweep is committing has an open transaction.    *)
SweepRow ==
  [pc : {"list", "mark", "commit", "delete"}, todo : SUBSET (Worker \X (1..MaxEpoch)),
   worker : Worker \cup {None}, epoch : 0..MaxEpoch]
SweepInv ==
  /\ sweep \in SweepRow
  /\ sweep.pc \in {"commit", "delete"} => sweep.worker \in Worker
  /\ \A w \in Worker :
       reap[w] = NotReaping \/ (reap[w].open /\ sweep.pc = "commit" /\ sweep.worker = w)

PollInv == poll \in [due : SUBSET Job, job : MaybeJob]

AgentRow ==
  [phase : {"down", "joining", "up"}, epoch : 0..MaxEpoch, job : MaybeJob, drain : BOOLEAN,
   stage : {"idle", "run", "wait"}]
AnswerRow == [kind : {"none", "ok", "reject"}, push : MaybeJob, drain : BOOLEAN]
AgentOK(a, n, w) ==
  /\ a \in AgentRow /\ n \in AnswerRow
  /\ a.stage = "run" => a.job \in Job
  /\ a.phase # "up" => n.push = None
  /\ Given(a.job, w, a.epoch) /\ Given(n.push, w, a.epoch)
AgentInv ==
  /\ agent \in [Worker -> AgentRow]
  /\ answer \in [Worker -> AnswerRow]
  /\ \A w \in Worker : AgentOK(agent[w], answer[w], w)

BeatRow ==
  [pc : {"idle", "read", "fallback", "act", "flush", "write"},
   status : ReportedStatus \cup {""}, job : MaybeJob, seen : CacheRow, push : MaybeJob]
BeatOK(b, w, e) ==
  /\ b \in BeatRow
  /\ b.pc # "idle" => b.status \in ReportedStatus
  /\ Given(b.job, w, e) /\ Given(b.seen.job, w, e) /\ Given(b.push, w, e)
BeatInv ==
  /\ beat \in [Worker -> [Epoch -> BeatRow]]
  /\ \A w \in Worker, e \in Epoch : BeatOK(beat[w][e], w, e)

ReportRow ==
  [pc : {"idle", "get", "record", "free", "cache"}, job : MaybeJob,
   status : {"", "SUCCESS", "FAILED", "READY", "DRAINING"}, owner : Worker \cup {None}]
ReportOK(r) ==
  /\ r \in ReportRow
  /\ r.pc \in {"get", "record"} => r.job \in Job /\ r.status \in {"SUCCESS", "FAILED"}
  /\ r.pc \in {"free", "cache"} => r.owner \in Worker
  /\ r.pc = "cache" => r.status \in {"READY", "DRAINING"}
ReportInv ==
  /\ report \in [Worker -> [Epoch -> ReportRow]]
  /\ \A w \in Worker, e \in Epoch : ReportOK(report[w][e])

DrainRow ==
  [pc : {"idle", "state", "flag"}, on : BOOLEAN, epoch : 0..MaxEpoch,
   status : WorkerStatus \cup {""}, job : MaybeJob]
DrainInv ==
  /\ drains \in [Worker -> DrainRow]
  /\ \A w \in Worker : Given(drains[w].job, w, drains[w].epoch)

Control ==
  /\ RowsInv /\ CacheInv /\ LoopInv /\ SweepInv /\ PollInv
  /\ AgentInv /\ BeatInv /\ ReportInv /\ DrainInv
  /\ seeds \subseteq Worker \X Epoch
  /\ submits \subseteq Job
  /\ left \in [Upsets -> Nat]

-------------------------------------------------------------------------------
(* The tables are used as FleetStore says.                                  *)

(* The leader's goroutines call the store or leave its tables alone.        *)
LEMMA LeaderUsesStore ==
  ASSUME TypeOK, Control, LeaderStep
  PROVE  [Next]_storeVars
<1>1. CASE \E j \in Job : LoopRead(j)
  BY <1>1 DEF LoopRead
<1>2. ASSUME NEW j \in Job, PollMark(j) PROVE [Next]_storeVars
  BY <1>2 DEF PollMark, Next, JobStep
<1>3. CASE LoopAssign
  <2>1. loop.pc = "assign" /\ loop.job \in Job /\ loop.worker \in Worker /\ loop.epoch \in 0..MaxEpoch
    BY <1>3 DEF LoopAssign, Control, LoopInv, LoopRow
  <2>2. CASE AssignJob(loop.job, loop.worker, loop.epoch)
    <3>1. loop.epoch \in 1..MaxEpoch
      BY <2>1, <2>2, StoreAssumption DEF AssignJob, Assignable, EpochIs
    <3> QED BY <2>1, <2>2, <3>1 DEF Next, WorkerStep
  <2> QED BY <1>3, <2>2 DEF LoopAssign
<1>4. CASE LoopCache \/ LoopAck \/ SweepList \/ SweepDelete \/ PollList \/ PollEnqueue
  BY <1>4 DEF LoopCache, LoopAck, SweepList, SweepDelete, PollList, PollEnqueue
<1>5. CASE SweepCommit
  <2>1. sweep.worker \in Worker
    BY <1>5 DEF SweepCommit, Control, SweepInv
  <2> QED BY <1>5, <2>1 DEF SweepCommit, Next, WorkerStep
<1>6. ASSUME NEW w \in Worker, NEW e \in Epoch, SweepMark(w, e) PROVE [Next]_storeVars
  BY <1>6 DEF SweepMark, Next, WorkerStep, Epoch
<1>7. CASE Failover
  <2>1. reap \in [Worker -> [open : BOOLEAN, found : SUBSET Job]]
    BY DEF TypeOK
  <2>2. reap' = [w \in Worker |-> NotReaping] /\ UNCHANGED <<workers, jobs, history>>
    BY <1>7 DEF Failover
  <2>3. CASE \A w \in Worker : reap[w] = NotReaping
    <3>1. reap' = reap
      BY <2>1, <2>2, <2>3
    <3> QED BY <2>2, <3>1 DEF storeVars
  <2>4. CASE \E w \in Worker : reap[w] # NotReaping
    <3>1. PICK w \in Worker : reap[w] # NotReaping
      BY <2>4
    <3>2. reap[w].open /\ \A v \in Worker \ {w} : reap[v] = NotReaping
      BY <3>1 DEF Control, SweepInv
    <3>3. reap' = [reap EXCEPT ![w] = NotReaping]
      BY <2>1, <2>2, <3>2
    <3>4. RollbackReap(w)
      BY <2>2, <3>2, <3>3 DEF RollbackReap
    <3> QED BY <3>4 DEF Next, WorkerStep
  <2> QED BY <2>3, <2>4
<1> QED BY <1>1, <1>2, <1>3, <1>4, <1>5, <1>6, <1>7 DEF LeaderStep

(* So do the agents and the gRPC handlers.                                  *)
LEMMA WorkersUseStore ==
  ASSUME TypeOK, Control, AgentStep \/ BeatStep \/ ReportStep
  PROVE  [Next]_storeVars
<1>1. ASSUME NEW w \in Worker,
             \/ \E n \in SlotRequests, c \in SUBSET Capability : RegisterWorker(w, n, c)
             \/ Lapse(w)
      PROVE  [Next]_storeVars
  BY <1>1 DEF RegisterWorker, Lapse, Next, WorkerStep
<1>2. ASSUME NEW w \in Worker, AgentCrash(w) \/ Receive(w) \/ Exit(w)
      PROVE  UNCHANGED storeVars
  BY <1>2 DEF AgentCrash, Receive, Exit
<1>3. ASSUME NEW w \in Worker, NEW e \in Epoch,
             \/ SeedCache(w, e) \/ CancelSeed(w, e) \/ FinishJob(w, e)
             \/ \E status \in {"SUCCESS", "FAILED"} : Finish(w, e, status)
      PROVE  UNCHANGED storeVars
  BY <1>3 DEF SeedCache, CancelSeed, FinishJob, Finish
<1>4. ASSUME NEW w \in Worker, NEW e \in Epoch,
             \/ SendHeartbeat(w, e) \/ ReadState(w, e) \/ Fallback(w, e) \/ Push(w, e)
             \/ WriteState(w, e) \/ CancelBeat(w, e)
      PROVE  UNCHANGED storeVars
  BY <1>4 DEF SendHeartbeat, ReadState, Fallback, Push, WriteState, CancelBeat
<1>5. ASSUME NEW w \in Worker, NEW e \in Epoch,
             GetJob(w, e) \/ CacheFreed(w, e) \/ CancelReport(w, e)
      PROVE  UNCHANGED storeVars
  BY <1>5 DEF GetJob, CacheFreed, CancelReport
<1>6. ASSUME NEW w \in Worker, NEW e \in Epoch, Confirm(w, e) PROVE [Next]_storeVars
  <2>1. beat[w][e].job \in Job
    BY <1>6 DEF Confirm, Confirms, Control, BeatInv, BeatOK, BeatRow, MaybeJob
  <2> QED BY <1>6, <2>1 DEF Confirm, Next, JobStep, Epoch
<1>7. ASSUME NEW w \in Worker, NEW e \in Epoch, Flush(w, e) PROVE [Next]_storeVars
  <2>1. beat[w][e].job \in Job \cup {None} /\ beat[w][e].status \in ReportedStatus
    BY <1>7 DEF Flush, Control, BeatInv, BeatOK, BeatRow, MaybeJob
  <2> QED BY <1>7, <2>1 DEF Flush, Next, WorkerStep, Epoch
<1>8. ASSUME NEW w \in Worker, NEW e \in Epoch, Record(w, e) PROVE [Next]_storeVars
  <2>1. report[w][e].job \in Job /\ report[w][e].status \in {"SUCCESS", "FAILED"}
    BY <1>8 DEF Record, Control, ReportInv, ReportOK
  <2> QED BY <1>8, <2>1 DEF Record, Next, JobStep, Epoch
<1>9. ASSUME NEW w \in Worker, NEW e \in Epoch, Free(w, e) PROVE [Next]_storeVars
  <2>1. report[w][e].owner \in Worker
    BY <1>9 DEF Free, Control, ReportInv, ReportOK
  <2> QED BY <1>9, <2>1 DEF Free, Next, WorkerStep, Epoch
<1> QED
  BY <1>1, <1>2, <1>3, <1>4, <1>5, <1>6, <1>7, <1>8, <1>9 DEF AgentStep, BeatStep, ReportStep

(* And so does every step of the system.                                    *)
LEMMA SystemUsesStore ==
  ASSUME TypeOK, Control, [SystemNext]_systemVars
  PROVE  [Next]_storeVars
<1>1. CASE RestStep
  BY <1>1 DEF RestStep, SubmitEnqueue, SubmitDies, SubmitJob, SyncState, SyncFlag, Drain,
              Next, JobStep, WorkerStep
<1>2. CASE TimeStep
  BY <1>2 DEF TimeStep, Next, JobStep
<1>3. CASE UNCHANGED systemVars
  BY <1>3 DEF systemVars
<1> QED
  BY <1>1, <1>2, <1>3, Steps, LeaderUsesStore, WorkersUseStore

-------------------------------------------------------------------------------
(* The invariant is kept, conjunct by conjunct.                             *)

(* What was once granted stays in the history of grants.                    *)
LEMMA Grows ==
  ASSUME [SystemNext]_systemVars
  PROVE  granted \subseteq granted'
<1>1. Ghosts => granted \subseteq granted'
  BY DEF Ghosts
<1>2. UNCHANGED systemVars => granted \subseteq granted'
  BY DEF systemVars, ghostVars
<1> QED BY <1>1, <1>2, Steps

(* A committed assignment is on record.                                     *)
LEMMA AssignGrants ==
  ASSUME TypeOK, NEW j \in Job, NEW w \in Worker, NEW e \in 1..MaxEpoch,
         AssignJob(j, w, e), Ghosts
  PROVE  <<j, w, e>> \in granted'
<1>1. /\ jobs' = [jobs EXCEPT ![j] = Assigned(jobs[j], w, e)]
      /\ jobs[j] \in JobRow /\ jobs \in [Job -> JobRow]
  BY DEF AssignJob, TypeOK
<1>2. jobs'[j].status \in Held /\ jobs'[j].worker = w /\ jobs'[j].epoch = e
  BY <1>1, AssignedRow DEF Held
<1> QED BY <1>2 DEF Ghosts

(* A row that says a worker runs a job was granted that job.                *)
LEMMA RowsKept ==
  ASSUME TypeOK, Control, [SystemNext]_systemVars
  PROVE  RowsInv'
<1> DEFINE Old(v) == workers'[v].job = workers[v].job /\ workers'[v].epoch = workers[v].epoch
<1>1. granted \subseteq granted'
  BY Grows
<1>2. ASSUME \A v \in Worker :
               Old(v) \/ workers'[v].job = None \/ <<workers'[v].job, v, workers'[v].epoch>> \in granted'
      PROVE  RowsInv'
  BY <1>1, <1>2 DEF Control, RowsInv, Given
<1>3. workers \in [Worker -> WorkerRow]
  BY DEF TypeOK
<1>4. ASSUME UNCHANGED workers PROVE RowsInv'
  BY <1>2, <1>4
<1>5. ASSUME NEW w \in Worker, NEW r,
             r.job = None \/ (r.job = workers[w].job /\ r.epoch = workers[w].epoch),
             workers' = [workers EXCEPT ![w] = r]
      PROVE  RowsInv'
  BY <1>2, <1>3, <1>5
<1>6. ASSUME LeaderStep, Ghosts PROVE RowsInv'
  <2>1. ASSUME NEW j \in Job, LoopRead(j) \/ PollMark(j) PROVE UNCHANGED workers
    BY <2>1 DEF LoopRead, PollMark, MarkQueuedFromRetry, storeVars
  <2>2. ASSUME LoopCache \/ LoopAck \/ SweepList \/ SweepDelete \/ PollList \/ PollEnqueue \/ Failover
        PROVE  UNCHANGED workers
    BY <2>2 DEF LoopCache, LoopAck, SweepList, SweepDelete, PollList, PollEnqueue, Failover, storeVars
  <2>3. ASSUME NEW w \in Worker, NEW e \in Epoch, SweepMark(w, e) PROVE UNCHANGED workers
    BY <2>3 DEF SweepMark, BeginReap, storeVars
  <2>4. ASSUME SweepCommit PROVE RowsInv'
    <3>1. sweep.worker \in Worker /\ workers[sweep.worker] \in WorkerRow
      BY <1>3, <2>4 DEF SweepCommit, Control, SweepInv
    <3>2. CASE CommitReap(sweep.worker)
      <4> DEFINE r == Dead(workers[sweep.worker])
      <4>1. r.job = workers[sweep.worker].job /\ r.epoch = workers[sweep.worker].epoch
        BY <3>1 DEF Dead, WorkerRow
      <4>2. workers' = [workers EXCEPT ![sweep.worker] = r]
        BY <3>2 DEF CommitReap
      <4> HIDE DEF r
      <4> QED BY <1>5, <3>1, <4>1, <4>2
    <3>3. CASE RollbackReap(sweep.worker)
      BY <1>4, <3>3 DEF RollbackReap
    <3> QED BY <2>4, <3>2, <3>3 DEF SweepCommit
  <2>5. ASSUME LoopAssign PROVE RowsInv'
    <3>1. loop.job \in Job /\ loop.worker \in Worker /\ loop.epoch \in 0..MaxEpoch
      BY <2>5 DEF LoopAssign, Control, LoopInv, LoopRow
    <3>2. CASE AssignJob(loop.job, loop.worker, loop.epoch)
      <4>1. loop.epoch \in 1..MaxEpoch /\ workers[loop.worker].epoch = loop.epoch
        BY <3>1, <3>2, StoreAssumption DEF AssignJob, Assignable, EpochIs
      <4>2. <<loop.job, loop.worker, loop.epoch>> \in granted'
        BY <1>6, <3>1, <3>2, <4>1, AssignGrants
      <4> DEFINE r == Busy(workers[loop.worker], loop.job)
      <4>3. r.job = loop.job /\ r.epoch = loop.epoch
        BY <1>3, <3>1, <4>1 DEF Busy, WorkerRow
      <4>4. workers' = [workers EXCEPT ![loop.worker] = r]
        BY <3>2 DEF AssignJob
      <4> HIDE DEF r
      <4> QED BY <1>2, <1>3, <3>1, <4>2, <4>3, <4>4
    <3> QED BY <1>4, <2>5, <3>2 DEF LoopAssign, storeVars
  <2> QED BY <1>4, <1>6, <2>1, <2>2, <2>3, <2>4, <2>5 DEF LeaderStep
<1>7. ASSUME AgentStep PROVE RowsInv'
  <2>1. ASSUME NEW w \in Worker, NEW n \in SlotRequests, NEW c \in SUBSET Capability,
               RegisterWorker(w, n, c)
        PROVE  RowsInv'
    <3> DEFINE r == Upserted(workers[w], n, c)
    <3>1. r.job = None /\ workers' = [workers EXCEPT ![w] = r]
      BY <2>1 DEF RegisterWorker, Register, Upserted
    <3> HIDE DEF r
    <3> QED BY <1>2, <1>3, <3>1
  <2>2. ASSUME NEW w \in Worker, Lapse(w) PROVE RowsInv'
    <3> DEFINE r == Lapsed(workers[w])
    <3>1. r.job = workers[w].job /\ r.epoch = workers[w].epoch
      BY <1>3 DEF Lapsed, WorkerRow
    <3>2. workers' = [workers EXCEPT ![w] = r]
      BY <2>2 DEF Lapse, HeartbeatLapses
    <3> HIDE DEF r
    <3> QED BY <1>5, <3>1, <3>2
  <2>3. ASSUME NEW w \in Worker, AgentCrash(w) \/ Receive(w) \/ Exit(w) PROVE UNCHANGED workers
    BY <2>3 DEF AgentCrash, Receive, Exit, storeVars
  <2>4. ASSUME NEW w \in Worker, NEW e \in Epoch,
               \/ SeedCache(w, e) \/ CancelSeed(w, e) \/ FinishJob(w, e)
               \/ \E status \in {"SUCCESS", "FAILED"} : Finish(w, e, status)
        PROVE  UNCHANGED workers
    BY <2>4 DEF SeedCache, CancelSeed, FinishJob, Finish, storeVars
  <2> QED BY <1>4, <1>7, <2>1, <2>2, <2>3, <2>4 DEF AgentStep
<1>8. ASSUME BeatStep PROVE RowsInv'
  <2>1. ASSUME NEW w \in Worker, NEW e \in Epoch,
               \/ SendHeartbeat(w, e) \/ ReadState(w, e) \/ Fallback(w, e) \/ Push(w, e)
               \/ WriteState(w, e) \/ CancelBeat(w, e) \/ Confirm(w, e)
        PROVE  UNCHANGED workers
    BY <2>1 DEF SendHeartbeat, ReadState, Fallback, Push, WriteState, CancelBeat, Confirm,
                MarkRunning, storeVars
  <2>2. ASSUME NEW w \in Worker, NEW e \in Epoch, Flush(w, e) PROVE RowsInv'
    <3> DEFINE b == beat[w][e]
               r == Beaten(workers[w], b.status, b.job)
    <3>1. CASE UpdateHeartbeat(w, e, b.status, b.job)
      <4>1. r.job = b.job /\ r.epoch = workers[w].epoch
        BY <1>3 DEF Beaten, WorkerRow
      <4>2. workers' = [workers EXCEPT ![w] = r] /\ workers[w].epoch = e
        BY <3>1 DEF UpdateHeartbeat, EpochIs
      <4>3. b.job = None \/ <<b.job, w, e>> \in granted'
        BY <1>1 DEF Control, BeatInv, BeatOK, Given
      <4> HIDE DEF r, b
      <4> QED BY <1>2, <1>3, <4>1, <4>2, <4>3
    <3> QED BY <1>4, <2>2, <3>1 DEF Flush, storeVars
  <2> QED BY <1>4, <1>8, <2>1, <2>2 DEF BeatStep
<1>9. ASSUME ReportStep PROVE RowsInv'
  <2>1. ASSUME NEW w \in Worker, NEW e \in Epoch,
               GetJob(w, e) \/ Record(w, e) \/ CacheFreed(w, e) \/ CancelReport(w, e)
        PROVE  UNCHANGED workers
    BY <2>1 DEF GetJob, Record, CacheFreed, CancelReport, RetryOrFail, Complete, storeVars
  <2>2. ASSUME NEW w \in Worker, NEW e \in Epoch, Free(w, e) PROVE RowsInv'
    <3> DEFINE o == report[w][e].owner
               r == Freed(workers[o])
    <3>1. o \in Worker
      BY <2>2 DEF Free, Control, ReportInv, ReportOK
    <3>2. CASE FreeWorker(o, e)
      <4>1. r.job = None /\ workers' = [workers EXCEPT ![o] = r]
        BY <1>3, <3>1, <3>2 DEF FreeWorker, Freed, WorkerRow
      <4> HIDE DEF r, o
      <4> QED BY <1>2, <1>3, <3>1, <4>1
    <3> QED BY <1>4, <2>2, <3>2 DEF Free, storeVars
  <2> QED BY <1>4, <1>9, <2>1, <2>2 DEF ReportStep
<1>10. ASSUME RestStep PROVE RowsInv'
  <2>1. ASSUME NEW j \in Job,
               \/ SubmitEnqueue(j) \/ SubmitDies(j)
               \/ \E m \in RetryRequests, c \in SUBSET Capability : SubmitJob(j, m, c)
        PROVE  UNCHANGED workers
    BY <2>1 DEF SubmitEnqueue, SubmitDies, SubmitJob, Create, storeVars
  <2>2. ASSUME NEW w \in Worker, SyncState(w) \/ SyncFlag(w) PROVE UNCHANGED workers
    BY <2>2 DEF SyncState, SyncFlag, storeVars
  <2>3. ASSUME NEW w \in Worker, NEW on \in BOOLEAN, Drain(w, on) PROVE RowsInv'
    <3>1. PICK r \in {Drained(workers[w]), Resumed(workers[w])} : workers' = [workers EXCEPT ![w] = r]
      BY <2>3 DEF Drain, RequestDrain, ResumeDrain
    <3>2. r.job = workers[w].job /\ r.epoch = workers[w].epoch
      BY <1>3, <3>1 DEF Drained, Resumed, WorkerRow
    <3> QED BY <1>5, <3>1, <3>2
  <2> QED BY <1>4, <1>10, <2>1, <2>2, <2>3 DEF RestStep
<1>11. ASSUME TimeStep \/ UNCHANGED systemVars PROVE RowsInv'
  BY <1>4, <1>11 DEF TimeStep, BackoffElapses, systemVars, storeVars
<1> QED
  BY <1>6, <1>7, <1>8, <1>9, <1>10, <1>11, Steps

(* The idle values of the leader's goroutines have their types.             *)
LEMMA Idles ==
  /\ LoopIdle \in LoopRow /\ LoopIdle.pc = "read"
  /\ SweepIdle \in SweepRow /\ SweepIdle.pc = "list"
  /\ PollIdle \in [due : SUBSET Job, job : MaybeJob]
  BY StoreAssumption
  DEF LoopIdle, LoopRow, SweepIdle, SweepRow, PollIdle, MaybeJob

(* The loop has a job in hand when its step needs one, and caches a granted *)
(* one.                                                                     *)
LEMMA LoopKept ==
  ASSUME TypeOK, Control, [SystemNext]_systemVars
  PROVE  LoopInv'
<1>1. granted \subseteq granted'
  BY Grows
<1>2. ASSUME UNCHANGED loop PROVE LoopInv'
  BY <1>1, <1>2 DEF Control, LoopInv
<1>3. ASSUME loop' = LoopIdle PROVE LoopInv'
  BY <1>3, Idles DEF LoopInv
<1>4. ASSUME NEW j \in Job, loop' = [LoopIdle EXCEPT !.pc = "ack", !.job = j] PROVE LoopInv'
  <2>1. loop' = [pc |-> "ack", job |-> j, worker |-> None, epoch |-> 0]
    BY <1>4 DEF LoopIdle
  <2>2. loop' \in LoopRow /\ loop'.pc = "ack" /\ loop'.job = j
    BY <2>1, StoreAssumption DEF LoopRow, MaybeJob
  <2> QED BY <2>2 DEF LoopInv
<1>5. ASSUME NEW j \in Job, LoopRead(j) PROVE LoopInv'
  <2>1. ASSUME NEW w \in ListReadyCandidates(j),
               loop' = [pc |-> "assign", job |-> j, worker |-> w, epoch |-> workers[w].epoch]
        PROVE  LoopInv'
    <3>1. w \in Worker /\ workers[w].epoch \in 0..MaxEpoch
      BY DEF ListReadyCandidates, TypeOK, WorkerRow
    <3>2. loop' \in LoopRow /\ loop'.pc = "assign" /\ loop'.job = j /\ loop'.worker = w
      BY <2>1, <3>1 DEF LoopRow, MaybeJob
    <3> QED BY <3>1, <3>2 DEF LoopInv
  <2> QED BY <1>2, <1>4, <1>5, <2>1 DEF LoopRead, SelectLeastLoaded
<1>6. ASSUME LoopAssign, Ghosts PROVE LoopInv'
  <2>1. /\ loop \in LoopRow /\ loop.job \in Job /\ loop.worker \in Worker
        /\ loop.epoch \in 0..MaxEpoch
    BY <1>6 DEF LoopAssign, Control, LoopInv, LoopRow
  <2>2. CASE AssignJob(loop.job, loop.worker, loop.epoch) /\ loop' = [loop EXCEPT !.pc = "cache"]
    <3>1. loop.epoch \in 1..MaxEpoch
      BY <2>1, <2>2, StoreAssumption DEF AssignJob, Assignable, EpochIs
    <3>2. <<loop.job, loop.worker, loop.epoch>> \in granted'
      BY <1>6, <2>1, <2>2, <3>1, AssignGrants
    <3>3. /\ loop' \in LoopRow /\ loop'.pc = "cache"
          /\ loop'.job = loop.job /\ loop'.worker = loop.worker /\ loop'.epoch = loop.epoch
      BY <2>1, <2>2 DEF LoopRow
    <3> QED BY <2>1, <3>2, <3>3 DEF LoopInv
  <2> QED BY <1>3, <1>6, <2>2 DEF LoopAssign
<1>7. ASSUME LoopCache PROVE LoopInv'
  BY <1>4, <1>7 DEF LoopCache, Control, LoopInv
<1>8. ASSUME LoopAck \/ Failover PROVE LoopInv'
  BY <1>3, <1>8 DEF LoopAck, Failover
<1>9. ASSUME NEW j \in Job, PollMark(j) PROVE UNCHANGED loop
  BY <1>9 DEF PollMark
<1>10. ASSUME SweepList \/ SweepCommit \/ SweepDelete \/ PollList \/ PollEnqueue PROVE UNCHANGED loop
  BY <1>10 DEF SweepList, SweepCommit, SweepDelete, PollList, PollEnqueue
<1>11. ASSUME NEW w \in Worker, NEW e \in Epoch, SweepMark(w, e) PROVE UNCHANGED loop
  BY <1>11 DEF SweepMark
<1>12. ASSUME LeaderStep, Ghosts PROVE LoopInv'
  BY <1>2, <1>5, <1>6, <1>7, <1>8, <1>9, <1>10, <1>11, <1>12 DEF LeaderStep
<1>13. (UNCHANGED leaderVars \/ UNCHANGED systemVars \/ TimeStep) => UNCHANGED loop
  BY DEF leaderVars, systemVars, TimeStep
<1> QED BY <1>2, <1>12, <1>13, Steps

(* The retry poller's list.                                                 *)
LEMMA PollKept ==
  ASSUME TypeOK, Control, [SystemNext]_systemVars
  PROVE  PollInv'
<1>1. ASSUME UNCHANGED poll PROVE PollInv'
  BY <1>1 DEF Control, PollInv
<1>2. ASSUME NEW j \in Job, PollMark(j) PROVE PollInv'
  BY <1>2 DEF PollMark, Control, PollInv, MaybeJob
<1>3. ASSUME PollList \/ PollEnqueue \/ Failover PROVE PollInv'
  BY <1>3, Idles DEF PollList, PollEnqueue, Failover, Control, PollInv, MaybeJob, ListDueRetries
<1>4. ASSUME NEW j \in Job, LoopRead(j) PROVE UNCHANGED poll
  BY <1>4 DEF LoopRead
<1>5. ASSUME LoopAssign \/ LoopCache \/ LoopAck \/ SweepList \/ SweepCommit \/ SweepDelete
      PROVE  UNCHANGED poll
  BY <1>5 DEF LoopAssign, LoopCache, LoopAck, SweepList, SweepCommit, SweepDelete
<1>6. ASSUME NEW w \in Worker, NEW e \in Epoch, SweepMark(w, e) PROVE UNCHANGED poll
  BY <1>6 DEF SweepMark
<1>7. ASSUME LeaderStep PROVE PollInv'
  BY <1>1, <1>2, <1>3, <1>4, <1>5, <1>6, <1>7 DEF LeaderStep
<1>8. (UNCHANGED leaderVars \/ UNCHANGED systemVars \/ TimeStep) => UNCHANGED poll
  BY DEF leaderVars, systemVars, TimeStep
<1> QED BY <1>1, <1>7, <1>8, Steps

(* The reaper's list, and the transaction it has open.                      *)
LEMMA SweepKept ==
  ASSUME TypeOK, Control, [SystemNext]_systemVars
  PROVE  SweepInv'
<1>1. reap \in [Worker -> [open : BOOLEAN, found : SUBSET Job]] /\ SweepInv
  BY DEF TypeOK, Control
<1>2. ASSUME UNCHANGED <<sweep, reap>> PROVE SweepInv'
  BY <1>1, <1>2 DEF SweepInv
<1>3. ASSUME sweep' \in SweepRow,
             sweep'.pc \in {"list", "mark", "delete"},
             sweep'.pc = "delete" => sweep'.worker \in Worker,
             \A w \in Worker : reap'[w] = NotReaping
      PROVE  SweepInv'
  BY <1>3 DEF SweepInv
<1>4. sweep.pc # "commit" => \A w \in Worker : reap[w] = NotReaping
  BY <1>1 DEF SweepInv
<1>5. SweepOn \in SweepRow /\ SweepOn.pc \in {"list", "mark"}
  BY <1>1, Idles DEF SweepOn, SweepIdle, SweepInv, SweepRow
<1>6. ASSUME SweepList PROVE SweepInv'
  <2>1. \A w \in ListStale : w \in Worker /\ workers[w].epoch \in 1..MaxEpoch
    BY StoreAssumption DEF ListStale, Present, Registered, TypeOK, WorkerRow
  <2>2. {<<w, workers[w].epoch>> : w \in ListStale} \in SUBSET (Worker \X (1..MaxEpoch))
    BY <2>1
  <2>3. sweep' \in SweepRow /\ sweep'.pc = "mark"
    <3>1. sweep' = [pc |-> "mark", todo |-> {<<w, workers[w].epoch>> : w \in ListStale},
                    worker |-> None, epoch |-> 0]
      BY <1>6 DEF SweepList, SweepIdle
    <3> QED BY <2>2, <3>1, StoreAssumption DEF SweepRow
  <2>4. UNCHANGED reap /\ sweep.pc # "commit"
    BY <1>6 DEF SweepList, storeVars
  <2> QED BY <1>3, <1>4, <2>3, <2>4
<1>7. ASSUME NEW w \in Worker, NEW e \in Epoch, SweepMark(w, e) PROVE SweepInv'
  <2>1. sweep.pc = "mark" /\ sweep.todo \ {<<w, e>>} \in SUBSET (Worker \X (1..MaxEpoch)) /\ e \in 0..MaxEpoch
    BY <1>1, <1>7, StoreAssumption DEF SweepMark, SweepInv, SweepRow, Epoch
  <2>2. CASE BeginReap(w, e)
    <3>1. sweep' \in SweepRow /\ sweep'.pc = "commit" /\ sweep'.worker = w
      <4>1. sweep' = [pc |-> "commit", todo |-> sweep.todo \ {<<w, e>>}, worker |-> w, epoch |-> e]
        BY <1>7, <2>2 DEF SweepMark, BeginReap, Unlocked
      <4> QED BY <2>1, <4>1 DEF SweepRow
    <3>2. reap' = [reap EXCEPT ![w] = [open |-> TRUE, found |-> HeldBy(w)]]
      BY <2>2 DEF BeginReap
    <3>3. reap'[w].open /\ \A v \in Worker \ {w} : reap'[v] = NotReaping
      BY <1>1, <1>4, <2>1, <3>2
    <3> QED BY <3>1, <3>3 DEF SweepInv
  <2>3. CASE ~(EpochIs(w, e) /\ Present(w))
    <3>1. /\ sweep' = [pc |-> "delete", todo |-> sweep.todo \ {<<w, e>>}, worker |-> w, epoch |-> e]
          /\ UNCHANGED reap
      BY <1>7, <2>3 DEF SweepMark, BeginReap, storeVars
    <3>2. sweep' \in SweepRow /\ sweep'.pc = "delete" /\ sweep'.worker = w
      BY <2>1, <3>1 DEF SweepRow
    <3> QED BY <1>3, <1>4, <2>1, <3>1, <3>2
  <2> QED BY <1>7, <2>2, <2>3 DEF SweepMark
<1>8. ASSUME SweepCommit PROVE SweepInv'
  <2>1. sweep.pc = "commit" /\ sweep \in SweepRow /\ sweep.worker \in Worker
    BY <1>1, <1>8 DEF SweepCommit, SweepInv
  <2>2. reap' = [reap EXCEPT ![sweep.worker] = NotReaping]
    BY <1>8 DEF SweepCommit, CommitReap, RollbackReap
  <2>3. \A w \in Worker : reap'[w] = NotReaping
    BY <1>1, <2>1, <2>2 DEF SweepInv
  <2>4. CASE sweep' = [sweep EXCEPT !.pc = "delete"]
    <3>1. sweep' \in SweepRow /\ sweep'.pc = "delete" /\ sweep'.worker = sweep.worker
      BY <2>1, <2>4 DEF SweepRow
    <3> QED BY <1>3, <2>1, <2>3, <3>1
  <2>5. CASE sweep' = SweepOn
    BY <1>3, <1>5, <2>3, <2>5
  <2> QED BY <1>8, <2>4, <2>5 DEF SweepCommit
<1>9. ASSUME SweepDelete PROVE SweepInv'
  BY <1>3, <1>4, <1>5, <1>9 DEF SweepDelete, storeVars
<1>10. ASSUME Failover PROVE SweepInv'
  BY <1>3, <1>10, Idles DEF Failover
<1>11. ASSUME NEW j \in Job, LoopRead(j) \/ PollMark(j) PROVE UNCHANGED <<sweep, reap>>
  BY <1>11 DEF LoopRead, PollMark, MarkQueuedFromRetry, storeVars
<1>12. ASSUME LoopAssign \/ LoopCache \/ LoopAck \/ PollList \/ PollEnqueue PROVE UNCHANGED <<sweep, reap>>
  BY <1>12 DEF LoopAssign, AssignJob, LoopCache, LoopAck, PollList, PollEnqueue, storeVars
<1>13. ASSUME LeaderStep PROVE SweepInv'
  BY <1>2, <1>6, <1>7, <1>8, <1>9, <1>10, <1>11, <1>12, <1>13 DEF LeaderStep
<1>14. ASSUME AgentStep PROVE UNCHANGED reap
  <2>1. ASSUME NEW w \in Worker, NEW n \in SlotRequests, NEW c \in SUBSET Capability, RegisterWorker(w, n, c)
        PROVE  UNCHANGED reap
    BY <2>1 DEF RegisterWorker, Register
  <2>2. ASSUME NEW w \in Worker, AgentCrash(w) \/ Lapse(w) \/ Receive(w) \/ Exit(w) PROVE UNCHANGED reap
    BY <2>2 DEF AgentCrash, Lapse, HeartbeatLapses, Receive, Exit, storeVars
  <2>3. ASSUME NEW w \in Worker, NEW e \in Epoch, SeedCache(w, e) \/ CancelSeed(w, e) \/ FinishJob(w, e)
        PROVE  UNCHANGED reap
    BY <2>3 DEF SeedCache, CancelSeed, FinishJob, storeVars
  <2>4. ASSUME NEW w \in Worker, NEW e \in Epoch, NEW status \in {"SUCCESS", "FAILED"}, Finish(w, e, status)
        PROVE  UNCHANGED reap
    BY <2>4 DEF Finish, storeVars
  <2> QED BY <1>14, <2>1, <2>2, <2>3, <2>4 DEF AgentStep
<1>15. ASSUME BeatStep PROVE UNCHANGED reap
  <2>1. ASSUME NEW w \in Worker, NEW e \in Epoch,
               \/ SendHeartbeat(w, e) \/ ReadState(w, e) \/ Fallback(w, e) \/ Push(w, e)
               \/ WriteState(w, e) \/ CancelBeat(w, e)
        PROVE  UNCHANGED reap
    BY <2>1 DEF SendHeartbeat, ReadState, Fallback, Push, WriteState, CancelBeat, storeVars
  <2>2. ASSUME NEW w \in Worker, NEW e \in Epoch, Confirm(w, e) \/ Flush(w, e) PROVE UNCHANGED reap
    BY <2>2 DEF Confirm, MarkRunning, Flush, UpdateHeartbeat, storeVars
  <2> QED BY <1>15, <2>1, <2>2 DEF BeatStep
<1>16. ASSUME ReportStep PROVE UNCHANGED reap
  <2>1. ASSUME NEW w \in Worker, NEW e \in Epoch,
               GetJob(w, e) \/ Record(w, e) \/ CacheFreed(w, e) \/ CancelReport(w, e)
        PROVE  UNCHANGED reap
    BY <2>1 DEF GetJob, Record, RetryOrFail, Complete, CacheFreed, CancelReport, storeVars
  <2>2. ASSUME NEW w \in Worker, NEW e \in Epoch, Free(w, e) PROVE UNCHANGED reap
    BY <2>2 DEF Free, FreeWorker, storeVars
  <2> QED BY <1>16, <2>1, <2>2 DEF ReportStep
<1>17. ASSUME RestStep PROVE UNCHANGED reap
  BY <1>17 DEF RestStep, SubmitEnqueue, SubmitDies, SubmitJob, Create, SyncState, SyncFlag, Drain,
               RequestDrain, ResumeDrain, storeVars
<1>18. UNCHANGED leaderVars => UNCHANGED sweep
  BY DEF leaderVars
<1>19. (UNCHANGED systemVars \/ TimeStep) => UNCHANGED <<sweep, reap>>
  BY DEF leaderVars, systemVars, storeVars, TimeStep, BackoffElapses
<1> QED BY <1>2, <1>13, <1>14, <1>15, <1>16, <1>17, <1>18, <1>19, Steps

(* Writing a granted job, or none, to the cache keeps the cache's           *)
(* invariant.                                                               *)
LEMMA SetStateKeeps ==
  ASSUME CacheInv, granted \subseteq granted', NEW w \in Worker, NEW e \in 0..MaxEpoch,
         NEW status \in WorkerStatus \cup {""}, NEW j \in MaybeJob, NEW flushed \in BOOLEAN,
         Given(j, w, e), SetState(w, e, status, j, flushed)
  PROVE  CacheInv'
<1>1. CASE UNCHANGED cache
  BY <1>1 DEF CacheInv, Given
<1>2. CASE cache' = [cache EXCEPT ![w] = [exists |-> TRUE, epoch |-> e, status |-> status, job |-> j,
                                         drain |-> cache[w].drain, flushed |-> flushed]]
  <2>1. cache[w].drain \in BOOLEAN
    BY DEF CacheInv, CacheRow
  <2> DEFINE r == [exists |-> TRUE, epoch |-> e, status |-> status, job |-> j,
                   drain |-> cache[w].drain, flushed |-> flushed]
  <2>2. r \in CacheRow /\ r.job = j /\ r.epoch = e
    BY <2>1 DEF CacheRow
  <2>3. cache' = [cache EXCEPT ![w] = r]
    BY <1>2
  <2> HIDE DEF r
  <2> QED BY <2>2, <2>3 DEF CacheInv, Given
<1> QED BY <1>1, <1>2 DEF SetState

(* An absent cache entry names no job.                                      *)
LEMMA MissingRow ==
  /\ Missing \in CacheRow /\ Missing.job = None
  /\ \A on \in BOOLEAN :
       [Missing EXCEPT !.drain = on] \in CacheRow /\ [Missing EXCEPT !.drain = on].job = None
<1>1. Missing \in CacheRow /\ Missing.job = None
  BY StoreAssumption DEF Missing, CacheRow, MaybeJob
<1>2. ASSUME NEW on \in BOOLEAN
      PROVE  [Missing EXCEPT !.drain = on] \in CacheRow /\ [Missing EXCEPT !.drain = on].job = None
  BY <1>1 DEF CacheRow
<1> QED BY <1>1, <1>2

(* A cache entry names only jobs granted to its worker and epoch.           *)
LEMMA CacheKept ==
  ASSUME TypeOK, Control, [SystemNext]_systemVars
  PROVE  CacheInv'
<1>1. granted \subseteq granted' /\ CacheInv
  BY Grows DEF Control
<1>2. ASSUME UNCHANGED cache PROVE CacheInv'
  BY <1>1, <1>2 DEF CacheInv, Given
<1>3. ReportedStatus \subseteq WorkerStatus /\ Epoch \subseteq 0..MaxEpoch
  BY StoreAssumption DEF ReportedStatus, WorkerStatus, Epoch
<1>4. ASSUME LoopCache PROVE CacheInv'
  <2>1. /\ loop.worker \in Worker /\ loop.epoch \in 0..MaxEpoch /\ loop.job \in MaybeJob
        /\ Given(loop.job, loop.worker, loop.epoch)
    BY <1>4 DEF LoopCache, Control, LoopInv, LoopRow, Given
  <2> QED BY <1>1, <1>4, <2>1, SetStateKeeps DEF LoopCache, WorkerStatus
<1>5. ASSUME SweepDelete PROVE CacheInv'
  <2>1. sweep.worker \in Worker
    BY <1>5 DEF SweepDelete, Control, SweepInv
  <2>2. CASE cache' = [cache EXCEPT ![sweep.worker] = Missing]
    BY <1>1, <2>1, <2>2, MissingRow DEF CacheInv, Given
  <2> QED BY <1>2, <1>5, <2>2 DEF SweepDelete, Delete
<1>6. ASSUME NEW w \in Worker, NEW e \in Epoch, SeedCache(w, e) PROVE CacheInv'
  <2>1. Given(None, w, e) /\ None \in MaybeJob /\ "READY" \in WorkerStatus
    BY DEF Given, MaybeJob, WorkerStatus
  <2> QED BY <1>1, <1>3, <1>6, <2>1, SetStateKeeps DEF SeedCache
<1>7. ASSUME NEW w \in Worker, NEW e \in Epoch, WriteState(w, e) PROVE CacheInv'
  <2> DEFINE b == beat[w][e]
  <2>1. BeatOK(b, w, e)
    BY DEF Control, BeatInv
  <2>2. b.pc # "idle" /\ SetState(w, e, b.status, b.job, b.seen.flushed)
    BY <1>7 DEF WriteState
  <2>3. /\ b.status \in WorkerStatus /\ b.job \in MaybeJob /\ b.seen.flushed \in BOOLEAN
        /\ Given(b.job, w, e)
    BY <1>3, <2>1, <2>2 DEF BeatOK, BeatRow, CacheRow
  <2> QED BY <1>1, <1>3, <2>2, <2>3, SetStateKeeps
<1>8. ASSUME NEW w \in Worker, NEW e \in Epoch, CacheFreed(w, e) PROVE CacheInv'
  <2> DEFINE r == report[w][e]
  <2>1. r.owner \in Worker /\ r.status \in WorkerStatus
    BY <1>8 DEF CacheFreed, Control, ReportInv, ReportOK, WorkerStatus
  <2>2. Given(None, r.owner, e) /\ None \in MaybeJob
    BY DEF Given, MaybeJob
  <2> QED BY <1>1, <1>3, <1>8, <2>1, <2>2, SetStateKeeps DEF CacheFreed
<1>9. ASSUME NEW w \in Worker, SyncState(w) PROVE CacheInv'
  <2>1. /\ drains[w].epoch \in 0..MaxEpoch /\ drains[w].status \in WorkerStatus \cup {""}
        /\ drains[w].job \in MaybeJob /\ Given(drains[w].job, w, drains[w].epoch)
    BY DEF Control, DrainInv, DrainRow
  <2> QED BY <1>1, <1>9, <2>1, SetStateKeeps DEF SyncState
<1>10. ASSUME NEW w \in Worker, SyncFlag(w) PROVE CacheInv'
  <2> DEFINE on == drains[w].on
             r == [cache[w] EXCEPT !.exists = TRUE, !.drain = on]
  <2>1. on \in BOOLEAN /\ cache[w] \in CacheRow
    BY <1>1 DEF Control, DrainInv, DrainRow, CacheInv
  <2>2. r \in CacheRow /\ r.job = cache[w].job /\ r.epoch = cache[w].epoch
    BY <2>1 DEF CacheRow
  <2>3. CASE cache' = [cache EXCEPT ![w].exists = TRUE, ![w].drain = on]
    <3>1. cache' = [cache EXCEPT ![w] = r]
      BY <1>1, <2>3 DEF CacheInv
    <3> HIDE DEF r
    <3> QED BY <1>1, <2>2, <3>1 DEF CacheInv, Given
  <2> QED BY <1>2, <1>10, <2>3 DEF SyncFlag, SetDrainRequested
<1>11. ASSUME LeaderStep PROVE CacheInv'
  <2>1. ASSUME NEW j \in Job, LoopRead(j) \/ PollMark(j) PROVE UNCHANGED cache
    BY <2>1 DEF LoopRead, ReadGroup, PollMark
  <2>2. ASSUME LoopAssign \/ LoopAck \/ SweepList \/ SweepCommit \/ PollList \/ PollEnqueue \/ Failover
        PROVE  UNCHANGED cache
    BY <2>2 DEF LoopAssign, LoopAck, Ack, SweepList, SweepCommit, PollList, PollEnqueue, Enqueue,
                Failover, redisVars
  <2>3. ASSUME NEW w \in Worker, NEW e \in Epoch, SweepMark(w, e) PROVE UNCHANGED cache
    BY <2>3 DEF SweepMark, redisVars
  <2> QED BY <1>2, <1>4, <1>5, <1>11, <2>1, <2>2, <2>3 DEF LeaderStep
<1>12. ASSUME AgentStep PROVE CacheInv'
  <2>1. ASSUME NEW w \in Worker, NEW n \in SlotRequests, NEW c \in SUBSET Capability,
               RegisterWorker(w, n, c)
        PROVE  UNCHANGED cache
    BY <2>1 DEF RegisterWorker, redisVars
  <2>2. ASSUME NEW w \in Worker, AgentCrash(w) \/ Lapse(w) \/ Receive(w) \/ Exit(w) PROVE UNCHANGED cache
    BY <2>2 DEF AgentCrash, Lapse, Receive, Exit, redisVars
  <2>3. ASSUME NEW w \in Worker, NEW e \in Epoch,
               \/ CancelSeed(w, e) \/ FinishJob(w, e)
               \/ \E status \in {"SUCCESS", "FAILED"} : Finish(w, e, status)
        PROVE  UNCHANGED cache
    BY <2>3 DEF CancelSeed, FinishJob, Finish, redisVars
  <2> QED BY <1>2, <1>6, <1>12, <2>1, <2>2, <2>3 DEF AgentStep
<1>13. ASSUME BeatStep PROVE CacheInv'
  <2>1. ASSUME NEW w \in Worker, NEW e \in Epoch,
               \/ SendHeartbeat(w, e) \/ ReadState(w, e) \/ Fallback(w, e) \/ Push(w, e)
               \/ Confirm(w, e) \/ Flush(w, e) \/ CancelBeat(w, e)
        PROVE  UNCHANGED cache
    BY <2>1 DEF SendHeartbeat, ReadState, Fallback, Push, Confirm, Flush, CancelBeat, redisVars
  <2> QED BY <1>2, <1>7, <1>13, <2>1 DEF BeatStep
<1>14. ASSUME ReportStep PROVE CacheInv'
  <2>1. ASSUME NEW w \in Worker, NEW e \in Epoch,
               GetJob(w, e) \/ Record(w, e) \/ Free(w, e) \/ CancelReport(w, e)
        PROVE  UNCHANGED cache
    BY <2>1 DEF GetJob, Record, Free, CancelReport, redisVars
  <2> QED BY <1>2, <1>8, <1>14, <2>1 DEF ReportStep
<1>15. ASSUME RestStep PROVE CacheInv'
  <2>1. ASSUME NEW j \in Job,
               \/ SubmitEnqueue(j) \/ SubmitDies(j)
               \/ \E m \in RetryRequests, c \in SUBSET Capability : SubmitJob(j, m, c)
        PROVE  UNCHANGED cache
    BY <2>1 DEF SubmitEnqueue, Enqueue, SubmitDies, SubmitJob, redisVars
  <2>2. ASSUME NEW w \in Worker, NEW on \in BOOLEAN, Drain(w, on) PROVE UNCHANGED cache
    BY <2>2 DEF Drain
  <2> QED BY <1>2, <1>9, <1>10, <1>15, <2>1, <2>2 DEF RestStep
<1>16. (TimeStep \/ UNCHANGED systemVars) => UNCHANGED cache
  BY DEF TimeStep, systemVars, redisVars
<1> QED BY <1>2, <1>11, <1>12, <1>13, <1>14, <1>15, <1>16, Steps

(* An agent and its answer replaced by ones that name granted jobs only.    *)
LEMMA AgentSet ==
  ASSUME AgentInv, granted \subseteq granted',
         NEW w \in Worker, NEW a \in AgentRow, NEW n \in AnswerRow,
         a.stage = "run" => a.job \in Job,
         a.phase # "up" => n.push = None,
         a.job = None \/ <<a.job, w, a.epoch>> \in granted',
         n.push = None \/ <<n.push, w, a.epoch>> \in granted',
         agent' = [agent EXCEPT ![w] = a], answer' = [answer EXCEPT ![w] = n]
  PROVE  AgentInv'
<1>1. /\ agent' \in [Worker -> AgentRow] /\ answer' \in [Worker -> AnswerRow]
      /\ agent'[w] = a /\ answer'[w] = n
      /\ \A v \in Worker \ {w} : agent'[v] = agent[v] /\ answer'[v] = answer[v]
  BY DEF AgentInv
<1>2. ASSUME NEW v \in Worker PROVE AgentOK(agent[v], answer[v], v)'
  <2>1. CASE v = w
    BY <1>1, <2>1 DEF AgentOK, Given
  <2>2. CASE v # w
    BY <1>1, <2>2 DEF AgentInv, AgentOK, Given
  <2> QED BY <2>1, <2>2
<1> QED BY <1>1, <1>2 DEF AgentInv

(* An agent runs, and is sent, only what was granted to its epoch.          *)
LEMMA AgentKept ==
  ASSUME TypeOK, Control, [SystemNext]_systemVars
  PROVE  AgentInv'
<1>1. granted \subseteq granted' /\ AgentInv
  BY Grows DEF Control
<1>2. ASSUME UNCHANGED <<agent, answer>> PROVE AgentInv'
  BY <1>1, <1>2 DEF AgentInv, AgentOK, Given
<1>3. ASSUME NEW w \in Worker, NEW a \in AgentRow, NEW n \in AnswerRow,
             a.stage = "run" => a.job \in Job,
             a.phase # "up" => n.push = None,
             a.job = None \/ <<a.job, w, a.epoch>> \in granted',
             n.push = None \/ <<n.push, w, a.epoch>> \in granted',
             agent' = [agent EXCEPT ![w] = a], answer' = [answer EXCEPT ![w] = n]
      PROVE  AgentInv'
  BY <1>1, <1>3, AgentSet
<1>4. ASSUME NEW w \in Worker
      PROVE  /\ agent[w] \in AgentRow /\ answer[w] \in AnswerRow
             /\ agent[w].stage = "run" => agent[w].job \in Job
             /\ agent[w].phase # "up" => answer[w].push = None
             /\ agent[w].job = None \/ <<agent[w].job, w, agent[w].epoch>> \in granted'
             /\ answer[w].push = None \/ <<answer[w].push, w, agent[w].epoch>> \in granted'
             /\ agent = [agent EXCEPT ![w] = agent[w]]
             /\ answer = [answer EXCEPT ![w] = answer[w]]
  BY <1>1 DEF AgentInv, AgentOK, Given
<1>5. /\ Down \in AgentRow /\ Down.stage = "idle" /\ Down.job = None
      /\ NoAnswer \in AnswerRow /\ NoAnswer.push = None
      /\ Rejected \in AnswerRow /\ Rejected.push = None
  BY StoreAssumption DEF Down, AgentRow, NoAnswer, Rejected, AnswerRow, MaybeJob
<1>6. ASSUME NEW w \in Worker, NEW n \in SlotRequests, NEW c \in SUBSET Capability,
             RegisterWorker(w, n, c)
      PROVE  AgentInv'
  <2> DEFINE a == [Down EXCEPT !.phase = "joining", !.epoch = workers[w].epoch + 1]
  <2>1. workers[w].epoch + 1 \in 0..MaxEpoch
    BY <1>6, StoreAssumption DEF RegisterWorker, Register, TypeOK, WorkerRow
  <2>2. a \in AgentRow
    BY <1>5, <2>1 DEF AgentRow
  <2>3. a.stage = "idle" /\ a.job = None
    BY <1>5 DEF AgentRow
  <2>4. agent' = [agent EXCEPT ![w] = a] /\ UNCHANGED answer /\ agent[w].phase = "down"
    BY <1>6 DEF RegisterWorker
  <2>5. answer[w].push = None /\ answer[w] \in AnswerRow /\ answer' = [answer EXCEPT ![w] = answer[w]]
    BY <1>4, <2>4
  <2> HIDE DEF a
  <2> QED BY <1>3, <2>2, <2>3, <2>4, <2>5
<1>7. ASSUME NEW w \in Worker, NEW e \in Epoch, SeedCache(w, e) PROVE AgentInv'
  <2> DEFINE a == [agent[w] EXCEPT !.phase = "up"]
  <2>1. UNCHANGED answer
    BY <1>7 DEF SeedCache
  <2>2. CASE agent' = [agent EXCEPT ![w].phase = "up"] /\ agent[w].phase = "joining"
    <3>1. agent' = [agent EXCEPT ![w] = a]
      BY <2>2
    <3>2. a \in AgentRow /\ a.phase = "up" /\ a.stage = agent[w].stage /\ a.job = agent[w].job
      BY <1>4 DEF AgentRow
    <3>3. answer[w].push = None
      BY <1>4, <2>2
    <3>4. a.epoch = agent[w].epoch
      BY <1>4 DEF AgentRow
    <3>5. /\ agent[w].job = None \/ <<agent[w].job, w, agent[w].epoch>> \in granted'
          /\ answer' = [answer EXCEPT ![w] = answer[w]] /\ answer[w] \in AnswerRow
          /\ agent[w].stage = "run" => agent[w].job \in Job
      BY <1>4, <2>1
    <3> HIDE DEF a
    <3> QED BY <1>3, <3>1, <3>2, <3>3, <3>4, <3>5
  <2> QED BY <1>2, <1>7, <2>1, <2>2 DEF SeedCache
<1>8. ASSUME NEW w \in Worker, AgentCrash(w) \/ Exit(w) PROVE AgentInv'
  <2>1. agent' = [agent EXCEPT ![w] = Down] /\ answer' = [answer EXCEPT ![w] = NoAnswer]
    BY <1>8 DEF AgentCrash, Exit
  <2> QED BY <1>3, <1>5, <2>1
<1>9. ASSUME NEW w \in Worker, Receive(w) PROVE AgentInv'
  <2> DEFINE starts == answer[w].push # None /\ agent[w].job = None /\ ~agent[w].drain
             a == [agent[w] EXCEPT !.job = IF starts THEN answer[w].push ELSE agent[w].job,
                                   !.stage = IF starts THEN "run" ELSE agent[w].stage,
                                   !.drain = answer[w].drain]
  <2>1. a \in AgentRow
    BY <1>4, ZenonT(20) DEF AgentRow, AnswerRow
  <2>2. /\ a.job = IF starts THEN answer[w].push ELSE agent[w].job
        /\ a.stage = IF starts THEN "run" ELSE agent[w].stage
        /\ a.epoch = agent[w].epoch
    BY <1>4 DEF AgentRow
  <2>3. agent' = [agent EXCEPT ![w] = a] /\ answer' = [answer EXCEPT ![w] = NoAnswer]
    BY <1>1, <1>9 DEF Receive, AgentInv
  <2>4. a.stage = "run" => a.job \in Job
    <3>1. answer[w].push # None => answer[w].push \in Job
      BY <1>4 DEF AnswerRow, MaybeJob
    <3>2. agent[w].stage = "run" => agent[w].job \in Job
      BY <1>4
    <3> HIDE DEF a
    <3>3. CASE starts
      BY <2>2, <3>1, <3>3
    <3>4. CASE ~starts
      BY <2>2, <3>2, <3>4
    <3> QED BY <3>3, <3>4
  <2>5. a.job = None \/ <<a.job, w, a.epoch>> \in granted'
    BY <1>4, <2>2
  <2> HIDE DEF a
  <2> QED BY <1>3, <1>5, <2>1, <2>3, <2>4, <2>5
<1>10. ASSUME NEW w \in Worker, NEW e \in Epoch, NEW status, Finish(w, e, status) PROVE AgentInv'
  <2> DEFINE a == [agent[w] EXCEPT !.stage = "wait"]
  <2>1. agent' = [agent EXCEPT ![w] = a] /\ UNCHANGED answer
    BY <1>10 DEF Finish
  <2>2. /\ a \in AgentRow /\ a.stage = "wait" /\ a.phase = agent[w].phase
        /\ a.job = agent[w].job /\ a.epoch = agent[w].epoch
    BY <1>4 DEF AgentRow
  <2>3. /\ agent[w].job = None \/ <<agent[w].job, w, agent[w].epoch>> \in granted'
        /\ answer[w].push = None \/ <<answer[w].push, w, agent[w].epoch>> \in granted'
        /\ answer' = [answer EXCEPT ![w] = answer[w]] /\ answer[w] \in AnswerRow
        /\ agent[w].phase # "up" => answer[w].push = None
    BY <1>4, <2>1
  <2> HIDE DEF a
  <2> QED BY <1>3, <2>1, <2>2, <2>3, ZenonT(20)
<1>11. ASSUME NEW w \in Worker, NEW e \in Epoch, FinishJob(w, e) PROVE AgentInv'
  <2> DEFINE a == [agent[w] EXCEPT !.stage = "idle", !.job = None]
  <2>1. agent' = [agent EXCEPT ![w] = a] /\ UNCHANGED answer
    BY <1>1, <1>11 DEF FinishJob, AgentInv
  <2>2. /\ a \in AgentRow /\ a.stage = "idle" /\ a.phase = agent[w].phase
        /\ a.job = None /\ a.epoch = agent[w].epoch
    BY <1>4 DEF AgentRow, MaybeJob
  <2>3. /\ agent[w].job = None \/ <<agent[w].job, w, agent[w].epoch>> \in granted'
        /\ answer[w].push = None \/ <<answer[w].push, w, agent[w].epoch>> \in granted'
        /\ answer' = [answer EXCEPT ![w] = answer[w]] /\ answer[w] \in AnswerRow
        /\ agent[w].phase # "up" => answer[w].push = None
    BY <1>4, <2>1
  <2> HIDE DEF a
  <2> QED BY <1>3, <2>1, <2>2, <2>3
<1>12. ASSUME NEW w \in Worker, NEW n \in AnswerRow, agent[w].phase = "up",
              n.push = None \/ <<n.push, w, agent[w].epoch>> \in granted',
              UNCHANGED agent, answer' = [answer EXCEPT ![w] = n]
       PROVE  AgentInv'
  <2>1. /\ agent' = [agent EXCEPT ![w] = agent[w]] /\ agent[w] \in AgentRow
        /\ agent[w].job = None \/ <<agent[w].job, w, agent[w].epoch>> \in granted'
        /\ agent[w].stage = "run" => agent[w].job \in Job
    BY <1>4, <1>12
  <2> QED BY <1>3, <1>12, <2>1
<1>13. ASSUME NEW w \in Worker, NEW e \in Epoch, ReadState(w, e) \/ Fallback(w, e) PROVE AgentInv'
  <2>1. /\ UNCHANGED agent
        /\ \/ UNCHANGED answer
           \/ Up(w, e) /\ answer' = [answer EXCEPT ![w] = Rejected]
    BY <1>13 DEF ReadState, Fallback, Proceed, Reject
  <2> QED BY <1>2, <1>5, <1>12, <2>1 DEF Up
<1>14. ASSUME NEW w \in Worker, NEW e \in Epoch, WriteState(w, e) PROVE AgentInv'
  <2> DEFINE b == beat[w][e]
             n == [kind |-> "ok", push |-> b.push, drain |-> b.seen.drain]
  <2>1. UNCHANGED agent /\ answer' = IF Up(w, e) THEN [answer EXCEPT ![w] = n] ELSE answer
    BY <1>14 DEF WriteState
  <2>2. b \in BeatRow /\ Given(b.push, w, e)
    BY DEF Control, BeatInv, BeatOK
  <2>3. n \in AnswerRow /\ n.push = b.push
    BY <2>2 DEF BeatRow, CacheRow, AnswerRow
  <2>4. n.push = None \/ <<n.push, w, e>> \in granted'
    BY <1>1, <2>2, <2>3 DEF Given
  <2> HIDE DEF n
  <2> QED BY <1>2, <1>12, <2>1, <2>3, <2>4 DEF Up
<1>15. ASSUME AgentStep PROVE AgentInv'
  <2>1. ASSUME NEW w \in Worker, Lapse(w) PROVE UNCHANGED <<agent, answer>>
    BY <2>1 DEF Lapse, gatewayVars
  <2>2. ASSUME NEW w \in Worker, NEW e \in Epoch, CancelSeed(w, e) PROVE UNCHANGED <<agent, answer>>
    BY <2>2 DEF CancelSeed
  <2> QED BY <1>2, <1>6, <1>7, <1>8, <1>9, <1>10, <1>11, <1>15, <2>1, <2>2 DEF AgentStep
<1>16. ASSUME BeatStep PROVE AgentInv'
  <2>1. ASSUME NEW w \in Worker, NEW e \in Epoch,
               \/ SendHeartbeat(w, e) \/ Push(w, e) \/ Confirm(w, e) \/ Flush(w, e) \/ CancelBeat(w, e)
        PROVE  UNCHANGED <<agent, answer>>
    BY <2>1 DEF SendHeartbeat, Push, Confirm, Flush, CancelBeat
  <2> QED BY <1>2, <1>13, <1>14, <1>16, <2>1 DEF BeatStep
<1>17. ASSUME ReportStep PROVE UNCHANGED <<agent, answer>>
  <2>1. ASSUME NEW w \in Worker, NEW e \in Epoch,
               \/ GetJob(w, e) \/ Record(w, e) \/ Free(w, e) \/ CacheFreed(w, e) \/ CancelReport(w, e)
        PROVE  UNCHANGED <<agent, answer>>
    BY <2>1 DEF GetJob, Record, Free, CacheFreed, CancelReport
  <2> QED BY <1>17, <2>1 DEF ReportStep
<1>18. (UNCHANGED gatewayVars \/ TimeStep \/ UNCHANGED systemVars) => UNCHANGED <<agent, answer>>
  BY DEF gatewayVars, TimeStep, systemVars
<1> QED BY <1>2, <1>15, <1>16, <1>17, <1>18, Steps

(* A handler replaced by one that has only granted jobs in hand.            *)
LEMMA BeatSet ==
  ASSUME BeatInv, granted \subseteq granted', NEW w \in Worker, NEW e \in Epoch, NEW b \in BeatRow,
         b.pc # "idle" => b.status \in ReportedStatus,
         b.job = None \/ <<b.job, w, e>> \in granted',
         b.seen.job = None \/ <<b.seen.job, w, e>> \in granted',
         b.push = None \/ <<b.push, w, e>> \in granted',
         beat' = [beat EXCEPT ![w][e] = b]
  PROVE  BeatInv'
<1>1. /\ beat' \in [Worker -> [Epoch -> BeatRow]]
      /\ beat'[w][e] = b
      /\ \A v \in Worker, f \in Epoch : v # w \/ f # e => beat'[v][f] = beat[v][f]
  BY DEF BeatInv
<1>2. ASSUME NEW v \in Worker, NEW f \in Epoch PROVE BeatOK(beat[v][f], v, f)'
  <2>1. CASE v = w /\ f = e
    BY <1>1, <2>1 DEF BeatOK, Given
  <2>2. CASE v # w \/ f # e
    BY <1>1, <2>2 DEF BeatInv, BeatOK, Given
  <2> QED BY <2>1, <2>2
<1> QED BY <1>1, <1>2 DEF BeatInv

(* A heartbeat handler has only granted jobs in hand.                       *)
LEMMA BeatKept ==
  ASSUME TypeOK, Control, [SystemNext]_systemVars
  PROVE  BeatInv'
<1>1. granted \subseteq granted' /\ BeatInv
  BY Grows DEF Control
<1>2. ASSUME UNCHANGED beat PROVE BeatInv'
  BY <1>1, <1>2 DEF BeatInv, BeatOK, Given
<1>3. ASSUME NEW w \in Worker, NEW e \in Epoch, NEW b \in BeatRow,
             b.pc # "idle" => b.status \in ReportedStatus,
             b.job = None \/ <<b.job, w, e>> \in granted',
             b.seen.job = None \/ <<b.seen.job, w, e>> \in granted',
             b.push = None \/ <<b.push, w, e>> \in granted',
             beat' = [beat EXCEPT ![w][e] = b]
      PROVE  BeatInv'
  BY <1>1, <1>3, BeatSet
<1>4. ASSUME NEW w \in Worker, NEW e \in Epoch
      PROVE  /\ beat[w][e] \in BeatRow
             /\ beat[w][e].pc # "idle" => beat[w][e].status \in ReportedStatus
             /\ beat[w][e].job = None \/ <<beat[w][e].job, w, e>> \in granted'
             /\ beat[w][e].seen.job = None \/ <<beat[w][e].seen.job, w, e>> \in granted'
             /\ beat[w][e].push = None \/ <<beat[w][e].push, w, e>> \in granted'
  BY <1>1 DEF BeatInv, BeatOK, Given
<1>5. /\ BeatIdle \in BeatRow /\ BeatIdle.pc = "idle" /\ BeatIdle.job = None
      /\ BeatIdle.seen.job = None /\ BeatIdle.push = None
  BY MissingRow DEF BeatIdle, BeatRow, MaybeJob
<1>6. ASSUME NEW w \in Worker, NEW e \in Epoch, beat' = [beat EXCEPT ![w][e] = BeatIdle]
      PROVE  BeatInv'
  BY <1>3, <1>5, <1>6
(* Steps that change the program counter only.                              *)
<1>7. ASSUME NEW w \in Worker, NEW e \in Epoch, NEW pc \in {"fallback", "act", "flush", "write"},
             beat[w][e].pc # "idle", beat' = [beat EXCEPT ![w][e].pc = pc]
      PROVE  BeatInv'
  <2> DEFINE b == [beat[w][e] EXCEPT !.pc = pc]
  <2>1. beat' = [beat EXCEPT ![w][e] = b]
    BY <1>7
  <2>2. b \in BeatRow
    BY <1>4 DEF BeatRow
  <2>3. /\ b.status = beat[w][e].status /\ b.job = beat[w][e].job
        /\ b.seen = beat[w][e].seen /\ b.push = beat[w][e].push
    BY <1>4 DEF BeatRow
  <2>4. /\ b.status \in ReportedStatus
        /\ b.job = None \/ <<b.job, w, e>> \in granted'
        /\ b.seen.job = None \/ <<b.seen.job, w, e>> \in granted'
        /\ b.push = None \/ <<b.push, w, e>> \in granted'
    BY <1>4, <1>7, <2>3
  <2> HIDE DEF b
  <2> QED BY <1>3, <2>1, <2>2, <2>4
<1>8. ASSUME NEW w \in Worker, NEW e \in Epoch, SendHeartbeat(w, e) PROVE BeatInv'
  <2> DEFINE b == [BeatIdle EXCEPT !.pc = "read", !.status = AgentStatus(agent[w]), !.job = agent[w].job]
  <2>1. beat' = [beat EXCEPT ![w][e] = b] /\ Up(w, e)
    BY <1>8 DEF SendHeartbeat
  <2>2. AgentStatus(agent[w]) \in ReportedStatus
    BY DEF AgentStatus, ReportedStatus
  <2>3. agent[w] \in AgentRow /\ agent[w].job \in MaybeJob /\ Given(agent[w].job, w, e)
    BY <2>1 DEF Control, AgentInv, AgentOK, AgentRow, Up
  <2>4. b \in BeatRow
    BY <1>5, <2>2, <2>3 DEF BeatRow
  <2>5. /\ b.status \in ReportedStatus /\ b.job = agent[w].job
        /\ b.seen = BeatIdle.seen /\ b.push = None
    BY <1>5, <2>2 DEF BeatRow
  <2>6. b.job = None \/ <<b.job, w, e>> \in granted'
    BY <1>1, <2>3, <2>5 DEF Given
  <2> HIDE DEF b
  <2> QED BY <1>3, <1>5, <2>1, <2>4, <2>5, <2>6
<1>9. ASSUME NEW w \in Worker, NEW e \in Epoch, NEW seen \in CacheRow,
             seen.job = None \/ <<seen.job, w, e>> \in granted',
             beat[w][e].pc # "idle", Proceed(w, e, seen)
      PROVE  BeatInv'
  <2> DEFINE pc == IF PushPending(beat[w][e], seen) \/ Confirms(beat[w][e]) THEN "act" ELSE "flush"
             b == [beat[w][e] EXCEPT !.seen = seen, !.pc = pc]
  <2>1. beat' = [beat EXCEPT ![w][e].seen = seen, ![w][e].pc = pc]
    BY <1>9 DEF Proceed
  <2> HIDE DEF pc
  <2>2. beat' = [beat EXCEPT ![w][e] = b]
    BY <1>1, <2>1 DEF BeatInv
  <2>3. pc \in {"act", "flush"}
    BY DEF pc
  <2>4. b \in BeatRow
    BY <1>4, <1>9, <2>3 DEF BeatRow
  <2>5. /\ b.status = beat[w][e].status /\ b.job = beat[w][e].job
        /\ b.seen = seen /\ b.push = beat[w][e].push
    BY <1>4 DEF BeatRow
  <2>6. /\ b.status \in ReportedStatus
        /\ b.job = None \/ <<b.job, w, e>> \in granted'
        /\ b.seen.job = None \/ <<b.seen.job, w, e>> \in granted'
        /\ b.push = None \/ <<b.push, w, e>> \in granted'
    BY <1>4, <1>9, <2>5
  <2> HIDE DEF b
  <2> QED BY <1>3, <2>2, <2>4, <2>6
<1>10. ASSUME NEW w \in Worker, NEW e \in Epoch, ReadState(w, e) PROVE BeatInv'
  <2>1. beat[w][e].pc = "read"
    BY <1>10 DEF ReadState
  <2>2. cache[w] \in CacheRow /\ (cache[w].job = None \/ <<cache[w].job, w, cache[w].epoch>> \in granted')
    BY <1>1 DEF Control, CacheInv, Given
  <2>3. CASE cache[w].epoch = e /\ Proceed(w, e, cache[w])
    BY <1>9, <2>1, <2>2, <2>3
  <2>4. CASE Reject(w, e)
    BY <1>6, <2>4 DEF Reject
  <2>5. CASE beat' = [beat EXCEPT ![w][e].pc = "fallback"]
    BY <1>7, <2>1, <2>5
  <2> QED BY <1>10, <2>3, <2>4, <2>5 DEF ReadState
<1>11. ASSUME NEW w \in Worker, NEW e \in Epoch, Fallback(w, e) PROVE BeatInv'
  <2> DEFINE seen == [Missing EXCEPT !.drain = workers[w].drain]
  <2>1. beat[w][e].pc = "fallback"
    BY <1>11 DEF Fallback
  <2>2. workers[w].drain \in BOOLEAN
    BY DEF TypeOK, WorkerRow
  <2>3. seen \in CacheRow /\ seen.job = None
    BY <2>2, MissingRow DEF CacheRow
  <2>4. CASE Proceed(w, e, seen)
    <3> HIDE DEF seen
    <3> QED BY <1>9, <2>1, <2>3, <2>4
  <2>5. CASE Reject(w, e)
    BY <1>6, <2>5 DEF Reject
  <2> QED BY <1>11, <2>4, <2>5 DEF Fallback
<1>12. ASSUME NEW w \in Worker, NEW e \in Epoch, Push(w, e) PROVE BeatInv'
  <2> DEFINE j == beat[w][e].seen.job
             x == IF jobs[j].status = "ASSIGNED" THEN j ELSE None
             b == [beat[w][e] EXCEPT !.pc = "flush", !.push = x]
  <2>1. beat[w][e].pc = "act"
    BY <1>12 DEF Push
  <2>2. CASE beat' = [beat EXCEPT ![w][e].pc = "flush"]
    BY <1>7, <2>1, <2>2
  <2>3. CASE beat' = [beat EXCEPT ![w][e].pc = "flush", ![w][e].push = x]
    <3>1. x = j \/ x = None
      OBVIOUS
    <3>2. j \in MaybeJob /\ (j = None \/ <<j, w, e>> \in granted')
      BY <1>4 DEF BeatRow, CacheRow
    <3>3. x \in MaybeJob /\ (x = None \/ <<x, w, e>> \in granted')
      BY <3>1, <3>2 DEF MaybeJob
    <3> HIDE DEF x, j
    <3>4. beat' = [beat EXCEPT ![w][e] = b]
      BY <1>1, <2>3 DEF BeatInv
    <3>5. b \in BeatRow
      BY <1>4, <3>3 DEF BeatRow
    <3>6. /\ b.status = beat[w][e].status /\ b.job = beat[w][e].job
          /\ b.seen = beat[w][e].seen /\ b.push = x
      BY <1>4, <3>3 DEF BeatRow
    <3>7. /\ b.status \in ReportedStatus
          /\ b.job = None \/ <<b.job, w, e>> \in granted'
          /\ b.seen.job = None \/ <<b.seen.job, w, e>> \in granted'
          /\ b.push = None \/ <<b.push, w, e>> \in granted'
      BY <1>4, <2>1, <3>3, <3>6
    <3> HIDE DEF b
    <3> QED BY <1>3, <3>4, <3>5, <3>7
  <2> QED BY <1>12, <2>2, <2>3 DEF Push
<1>13. ASSUME NEW w \in Worker, NEW e \in Epoch, Confirm(w, e) PROVE BeatInv'
  BY <1>7, <1>13 DEF Confirm
<1>14. ASSUME NEW w \in Worker, NEW e \in Epoch, Flush(w, e) PROVE BeatInv'
  <2>1. beat[w][e].pc = "flush"
    BY <1>14 DEF Flush
  <2>2. beat[w][e].seen \in CacheRow /\ beat[w][e].seen.flushed \in BOOLEAN
    BY <1>4 DEF BeatRow, CacheRow
  <2>3. PICK f \in BOOLEAN :
          beat' = [beat EXCEPT ![w][e].pc = "write", ![w][e].seen = StillUsed(@, f)]
    BY <1>14, <2>2 DEF Flush
  <2> DEFINE seen == StillUsed(beat[w][e].seen, f)
             b == [beat[w][e] EXCEPT !.pc = "write", !.seen = seen]
  <2>4. seen \in CacheRow /\ seen.job = None
    BY <2>2, MissingRow DEF StillUsed, CacheRow
  <2>5. beat' = [beat EXCEPT ![w][e] = b]
    BY <1>1, <2>3 DEF BeatInv
  <2> HIDE DEF seen
  <2>6. b \in BeatRow
    BY <1>4, <2>4 DEF BeatRow
  <2>7. /\ b.status = beat[w][e].status /\ b.job = beat[w][e].job
        /\ b.seen = seen /\ b.push = beat[w][e].push
    BY <1>4, <2>4 DEF BeatRow
  <2>8. /\ b.status \in ReportedStatus
        /\ b.job = None \/ <<b.job, w, e>> \in granted'
        /\ b.seen.job = None \/ <<b.seen.job, w, e>> \in granted'
        /\ b.push = None \/ <<b.push, w, e>> \in granted'
    BY <1>4, <2>1, <2>4, <2>7
  <2> HIDE DEF b
  <2> QED BY <1>3, <2>5, <2>6, <2>8
<1>15. ASSUME NEW w \in Worker, NEW e \in Epoch, WriteState(w, e) \/ CancelBeat(w, e) PROVE BeatInv'
  <2>1. beat' = [beat EXCEPT ![w][e] = BeatIdle]
    BY <1>15 DEF WriteState, CancelBeat
  <2> QED BY <1>6, <2>1
<1>16. BeatStep => BeatInv'
  BY <1>8, <1>10, <1>11, <1>12, <1>13, <1>14, <1>15 DEF BeatStep
<1>17. AgentStep \/ ReportStep => UNCHANGED beat
  <2>1. ASSUME NEW w \in Worker,
               \/ \E n \in SlotRequests, c \in SUBSET Capability : RegisterWorker(w, n, c)
               \/ AgentCrash(w) \/ Lapse(w) \/ Receive(w) \/ Exit(w)
        PROVE  UNCHANGED beat
    BY <2>1 DEF RegisterWorker, AgentCrash, Lapse, Receive, Exit, gatewayVars
  <2>2. ASSUME NEW w \in Worker, NEW e \in Epoch,
               \/ SeedCache(w, e) \/ CancelSeed(w, e) \/ FinishJob(w, e)
               \/ \E status \in {"SUCCESS", "FAILED"} : Finish(w, e, status)
        PROVE  UNCHANGED beat
    BY <2>2 DEF SeedCache, CancelSeed, Finish, FinishJob
  <2>3. ASSUME NEW w \in Worker, NEW e \in Epoch,
               \/ GetJob(w, e) \/ Record(w, e) \/ Free(w, e) \/ CacheFreed(w, e)
               \/ CancelReport(w, e)
        PROVE  UNCHANGED beat
    BY <2>3 DEF GetJob, Record, Free, CacheFreed, CancelReport
  <2> QED BY <2>1, <2>2, <2>3 DEF AgentStep, ReportStep
<1>18. UNCHANGED gatewayVars \/ TimeStep \/ UNCHANGED systemVars => UNCHANGED beat
  BY DEF gatewayVars, TimeStep, systemVars
<1> QED BY <1>2, <1>16, <1>17, <1>18, Steps

(* The steps that write the state of a report handler.                      *)
LEMMA ReportWriters ==
  ASSUME [SystemNext]_systemVars
  PROVE  \/ UNCHANGED report
         \/ \E w \in Worker, e \in Epoch :
              \/ \E status \in {"SUCCESS", "FAILED"} : Finish(w, e, status)
              \/ GetJob(w, e) \/ Record(w, e) \/ Free(w, e)
              \/ CacheFreed(w, e) \/ CancelReport(w, e)
<1>1. ASSUME NEW w \in Worker,
             \/ \E n \in SlotRequests, c \in SUBSET Capability : RegisterWorker(w, n, c)
             \/ AgentCrash(w) \/ Lapse(w) \/ Receive(w) \/ Exit(w)
      PROVE  UNCHANGED report
  BY <1>1 DEF RegisterWorker, AgentCrash, Lapse, Receive, Exit, gatewayVars
<1>2. ASSUME NEW w \in Worker, NEW e \in Epoch,
             SeedCache(w, e) \/ CancelSeed(w, e) \/ FinishJob(w, e)
      PROVE  UNCHANGED report
  BY <1>2 DEF SeedCache, CancelSeed, FinishJob
<1>3. ASSUME NEW w \in Worker, NEW e \in Epoch,
             \/ SendHeartbeat(w, e) \/ ReadState(w, e) \/ Fallback(w, e) \/ Push(w, e)
             \/ Confirm(w, e) \/ Flush(w, e) \/ WriteState(w, e) \/ CancelBeat(w, e)
      PROVE  UNCHANGED report
  BY <1>3 DEF SendHeartbeat, ReadState, Fallback, Push, Confirm, Flush, WriteState, CancelBeat
<1>4. UNCHANGED gatewayVars \/ TimeStep \/ UNCHANGED systemVars => UNCHANGED report
  BY DEF gatewayVars, TimeStep, systemVars
<1> QED
  BY <1>1, <1>2, <1>3, <1>4, Steps DEF AgentStep, BeatStep, ReportStep

(* A report handler keeps its types and what it has read.                   *)
LEMMA ReportKept ==
  ASSUME TypeOK, Control, [SystemNext]_systemVars
  PROVE  ReportInv'
<1>1. ReportInv
  BY DEF Control
<1>2. ASSUME UNCHANGED report PROVE ReportInv'
  BY <1>1, <1>2 DEF ReportInv, ReportOK
<1>3. ASSUME NEW w \in Worker, NEW e \in Epoch, NEW r, ReportOK(r),
             report' = [report EXCEPT ![w][e] = r]
      PROVE  ReportInv'
  <2>1. r \in ReportRow
    BY <1>3 DEF ReportOK
  <2>2. /\ report' \in [Worker -> [Epoch -> ReportRow]]
        /\ report'[w][e] = r
        /\ \A v \in Worker, f \in Epoch : v # w \/ f # e => report'[v][f] = report[v][f]
    BY <1>1, <1>3, <2>1 DEF ReportInv
  <2>3. ASSUME NEW v \in Worker, NEW f \in Epoch PROVE ReportOK(report[v][f])'
    <3>1. CASE v = w /\ f = e
      BY <1>3, <2>2, <3>1 DEF ReportOK
    <3>2. CASE v # w \/ f # e
      BY <1>1, <2>2, <3>2 DEF ReportInv, ReportOK
    <3> QED BY <3>1, <3>2
  <2> QED BY <2>2, <2>3 DEF ReportInv
<1>4. ReportOK(ReportIdle)
  BY DEF ReportOK, ReportIdle, ReportRow, MaybeJob
<1>5. ASSUME NEW w \in Worker, NEW e \in Epoch, report' = [report EXCEPT ![w][e] = ReportIdle]
      PROVE  ReportInv'
  BY <1>3, <1>4, <1>5
<1>6. ASSUME NEW w \in Worker, NEW e \in Epoch PROVE ReportOK(report[w][e])
  BY <1>1 DEF ReportInv
<1>7. ASSUME NEW w \in Worker, NEW e \in Epoch, NEW status \in {"SUCCESS", "FAILED"},
             Finish(w, e, status)
      PROVE  ReportInv'
  <2> DEFINE r == [pc |-> "get", job |-> agent[w].job, status |-> status, owner |-> None]
  <2>1. agent[w].job \in Job
    BY <1>7 DEF Finish, Control, AgentInv, AgentOK
  <2>2. ReportOK(r)
    BY <2>1 DEF ReportOK, ReportRow, MaybeJob
  <2>3. UNCHANGED report \/ report' = [report EXCEPT ![w][e] = r]
    BY <1>7 DEF Finish
  <2> HIDE DEF r
  <2> QED BY <1>2, <1>3, <2>2, <2>3
<1>8. ASSUME NEW w \in Worker, NEW e \in Epoch, GetJob(w, e) PROVE ReportInv'
  <2> DEFINE x == jobs[report[w][e].job].worker
             r == [report[w][e] EXCEPT !.pc = "record", !.owner = x]
  <2>1. /\ report[w][e] \in ReportRow /\ report[w][e].job \in Job
        /\ report[w][e].status \in {"SUCCESS", "FAILED"}
    BY <1>6, <1>8 DEF GetJob, ReportOK
  <2>2. x \in Worker \cup {None}
    BY <2>1 DEF TypeOK, JobRow
  <2>3. \/ report' = [report EXCEPT ![w][e] = ReportIdle]
        \/ report' = [report EXCEPT ![w][e].pc = "record", ![w][e].owner = x]
    BY <1>8 DEF GetJob
  <2> HIDE DEF x
  <2>4. r \in ReportRow /\ r.pc = "record" /\ r.job = report[w][e].job /\ r.status = report[w][e].status
    BY <2>1, <2>2 DEF ReportRow
  <2>5. ReportOK(r)
    BY <2>1, <2>4 DEF ReportOK
  <2>6. CASE report' = [report EXCEPT ![w][e].pc = "record", ![w][e].owner = x]
    <3>1. report' = [report EXCEPT ![w][e] = r]
      BY <1>1, <2>6 DEF ReportInv
    <3> HIDE DEF r
    <3> QED BY <1>3, <2>5, <3>1
  <2> QED BY <1>5, <2>3, <2>6
<1>9. ASSUME NEW w \in Worker, NEW e \in Epoch, Record(w, e) PROVE ReportInv'
  <2> DEFINE r == [report[w][e] EXCEPT !.pc = "free", !.status = ""]
  <2>1. report[w][e] \in ReportRow /\ report[w][e].owner \in Worker \cup {None}
    BY <1>6 DEF ReportOK, ReportRow
  <2>2. \/ report' = [report EXCEPT ![w][e] = ReportIdle]
        \/ report[w][e].owner # None /\ report' = [report EXCEPT ![w][e] = r]
    BY <1>9 DEF Record
  <2>3. r \in ReportRow /\ r.pc = "free" /\ r.owner = report[w][e].owner
    BY <2>1 DEF ReportRow
  <2>4. report[w][e].owner # None => ReportOK(r)
    BY <2>1, <2>3 DEF ReportOK
  <2> HIDE DEF r
  <2> QED BY <1>3, <1>5, <2>2, <2>4
<1>10. ASSUME NEW w \in Worker, NEW e \in Epoch, Free(w, e) PROVE ReportInv'
  <2> DEFINE x == Freed(workers[report[w][e].owner]).status
             r == [report[w][e] EXCEPT !.pc = "cache", !.status = x]
  <2>1. report[w][e] \in ReportRow /\ report[w][e].owner \in Worker
    BY <1>6, <1>10 DEF Free, ReportOK
  <2>2. CASE report' = [report EXCEPT ![w][e] = r] /\ FreeWorker(report[w][e].owner, e)
    <3>1. x \in {"READY", "DRAINING"}
      BY <2>1, <2>2 DEF FreeWorker, Freed, TypeOK, WorkerRow
    <3> HIDE DEF x
    <3>2. r \in ReportRow /\ r.pc = "cache" /\ r.owner = report[w][e].owner /\ r.status = x
      BY <2>1, <3>1 DEF ReportRow
    <3>3. ReportOK(r)
      BY <2>1, <3>1, <3>2 DEF ReportOK
    <3> HIDE DEF r
    <3> QED BY <1>3, <2>2, <3>3
  <2> QED BY <1>5, <1>10, <2>2 DEF Free
<1>11. ASSUME NEW w \in Worker, NEW e \in Epoch, CacheFreed(w, e) \/ CancelReport(w, e)
       PROVE  ReportInv'
  <2>1. report' = [report EXCEPT ![w][e] = ReportIdle]
    BY <1>11 DEF CacheFreed, CancelReport
  <2> QED BY <1>5, <2>1
<1> QED BY <1>2, <1>7, <1>8, <1>9, <1>10, <1>11, ReportWriters

(* A drain in progress carries a job granted to the row it has read.        *)
LEMMA DrainKept ==
  ASSUME TypeOK, Control, [SystemNext]_systemVars
  PROVE  DrainInv'
<1>1. granted \subseteq granted' /\ DrainInv
  BY Grows DEF Control
<1>2. ASSUME UNCHANGED drains PROVE DrainInv'
  BY <1>1, <1>2 DEF DrainInv, Given
<1>3. ASSUME NEW w \in Worker, NEW d \in DrainRow, d.job = None \/ <<d.job, w, d.epoch>> \in granted',
             drains' = [drains EXCEPT ![w] = d]
      PROVE  DrainInv'
  <2>1. /\ drains' \in [Worker -> DrainRow] /\ drains'[w] = d
        /\ \A v \in Worker \ {w} : drains'[v] = drains[v]
    BY <1>1, <1>3 DEF DrainInv
  <2>2. ASSUME NEW v \in Worker PROVE Given(drains[v].job, v, drains[v].epoch)'
    <3>1. CASE v = w
      BY <1>3, <2>1, <3>1 DEF Given
    <3>2. CASE v # w
      BY <1>1, <2>1, <3>2 DEF DrainInv, Given
    <3> QED BY <3>1, <3>2
  <2> QED BY <2>1, <2>2 DEF DrainInv
<1>4. ASSUME NEW w \in Worker
      PROVE  drains[w] \in DrainRow /\ (drains[w].job = None \/ <<drains[w].job, w, drains[w].epoch>> \in granted')
  BY <1>1 DEF DrainInv, Given
<1>5. ASSUME NEW w \in Worker, NEW on \in BOOLEAN, Drain(w, on) PROVE DrainInv'
  <2> DEFINE d == [pc |-> "state", on |-> on, epoch |-> workers[w].epoch,
                   status |-> workers'[w].status, job |-> workers[w].job]
  <2>1. TypeOK'
    BY SystemUsesStore, TypeStep
  <2>2. workers'[w].status \in WorkerStatus
    BY <2>1 DEF TypeOK, WorkerRow
  <2>3. workers[w].epoch \in 0..MaxEpoch /\ workers[w].job \in MaybeJob
    BY DEF TypeOK, WorkerRow, MaybeJob
  <2>4. workers[w].job = None \/ <<workers[w].job, w, workers[w].epoch>> \in granted'
    BY <1>1 DEF Control, RowsInv, Given
  <2>5. d \in DrainRow
    BY <2>2, <2>3 DEF DrainRow
  <2>6. drains' = [drains EXCEPT ![w] = d]
    BY <1>5 DEF Drain
  <2>7. d.job = None \/ <<d.job, w, d.epoch>> \in granted'
    BY <2>4
  <2> HIDE DEF d
  <2> QED BY <1>3, <2>5, <2>6, <2>7
<1>6. ASSUME NEW w \in Worker, SyncState(w) PROVE DrainInv'
  <2> DEFINE d == [drains[w] EXCEPT !.pc = "flag"]
  <2>1. drains' = [drains EXCEPT ![w] = d]
    BY <1>6 DEF SyncState
  <2>2. d \in DrainRow /\ d.job = drains[w].job /\ d.epoch = drains[w].epoch
    BY <1>4 DEF DrainRow
  <2> HIDE DEF d
  <2> QED BY <1>3, <1>4, <2>1, <2>2
<1>7. ASSUME NEW w \in Worker, SyncFlag(w) PROVE DrainInv'
  <2>1. DrainIdle \in DrainRow /\ DrainIdle.job = None
    BY StoreAssumption DEF DrainIdle, DrainRow, MaybeJob
  <2>2. drains' = [drains EXCEPT ![w] = DrainIdle]
    BY <1>7 DEF SyncFlag
  <2> QED BY <1>3, <2>1, <2>2
<1>8. ASSUME NEW j \in Job,
             \/ SubmitEnqueue(j) \/ SubmitDies(j)
             \/ \E m \in RetryRequests, c \in SUBSET Capability : SubmitJob(j, m, c)
      PROVE  UNCHANGED drains
  BY <1>8 DEF SubmitEnqueue, SubmitDies, SubmitJob
<1>9. RestStep => DrainInv'
  BY <1>2, <1>5, <1>6, <1>7, <1>8 DEF RestStep
<1>10. UNCHANGED apiVars \/ TimeStep \/ UNCHANGED systemVars => UNCHANGED drains
  BY DEF apiVars, TimeStep, systemVars
<1> QED BY <1>2, <1>9, <1>10, Steps

(* Calls in flight are calls of known workers and jobs.                     *)
LEMMA CallsKept ==
  ASSUME TypeOK, Control, [SystemNext]_systemVars
  PROVE  seeds' \subseteq Worker \X Epoch /\ submits' \subseteq Job
<1>1. seeds \subseteq Worker \X Epoch /\ submits \subseteq Job
  BY DEF Control
<1>2. RestStep => submits' \subseteq Job
  BY <1>1 DEF RestStep, SubmitEnqueue, SubmitDies, SubmitJob, SyncState, SyncFlag, Drain
<1>3. ASSUME NEW w \in Worker, NEW n \in SlotRequests, NEW c \in SUBSET Capability,
             RegisterWorker(w, n, c)
      PROVE  seeds' \subseteq Worker \X Epoch
  <2>1. workers[w].epoch + 1 \in Epoch
    BY <1>3, StoreAssumption DEF RegisterWorker, Register, TypeOK, WorkerRow, Epoch
  <2> QED BY <1>1, <1>3, <2>1 DEF RegisterWorker
<1>4. ASSUME NEW w \in Worker, AgentCrash(w) \/ Lapse(w) \/ Receive(w) \/ Exit(w)
      PROVE  UNCHANGED seeds
  BY <1>4 DEF AgentCrash, Lapse, Receive, Exit, gatewayVars
<1>5. ASSUME NEW w \in Worker, NEW e \in Epoch,
             \/ SeedCache(w, e) \/ CancelSeed(w, e) \/ FinishJob(w, e)
             \/ \E status \in {"SUCCESS", "FAILED"} : Finish(w, e, status)
      PROVE  seeds' \subseteq seeds
  BY <1>5 DEF SeedCache, CancelSeed, FinishJob, Finish
<1>6. ASSUME NEW w \in Worker, NEW e \in Epoch,
             \/ SendHeartbeat(w, e) \/ ReadState(w, e) \/ Fallback(w, e) \/ Push(w, e)
             \/ Confirm(w, e) \/ Flush(w, e) \/ WriteState(w, e) \/ CancelBeat(w, e)
      PROVE  UNCHANGED seeds
  BY <1>6 DEF SendHeartbeat, ReadState, Fallback, Push, Confirm, Flush, WriteState, CancelBeat
<1>7. ASSUME NEW w \in Worker, NEW e \in Epoch,
             \/ GetJob(w, e) \/ Record(w, e) \/ Free(w, e) \/ CacheFreed(w, e)
             \/ CancelReport(w, e)
      PROVE  UNCHANGED seeds
  BY <1>7 DEF GetJob, Record, Free, CacheFreed, CancelReport
<1>8. AgentStep \/ BeatStep \/ ReportStep => seeds' \subseteq Worker \X Epoch
  BY <1>1, <1>3, <1>4, <1>5, <1>6, <1>7 DEF AgentStep, BeatStep, ReportStep
<1>9. /\ UNCHANGED apiVars \/ TimeStep \/ UNCHANGED systemVars => UNCHANGED submits
      /\ UNCHANGED gatewayVars \/ TimeStep \/ UNCHANGED systemVars => UNCHANGED seeds
  BY DEF apiVars, gatewayVars, TimeStep, systemVars
<1> QED BY <1>1, <1>2, <1>8, <1>9, Steps

(* Budgets of upsets only shrink, to zero.                                  *)
LEMMA LeftKept ==
  ASSUME Control, [SystemNext]_systemVars
  PROVE  left' \in [Upsets -> Nat]
<1> DEFINE Goal == left' \in [Upsets -> Nat]
<1>1. left \in [Upsets -> Nat]
  BY DEF Control
<1>2. ASSUME NEW k \in Upsets, Upset(k) PROVE Goal
  BY <1>1, <1>2 DEF Upset
<1>3. /\ Upset("call") => Goal
      /\ Upset("delay") => Goal
      /\ Upset("crash") => Goal
      /\ Upset("failover") => Goal
      /\ Upset("drain") => Goal
      /\ Upset("submit") => Goal
  BY <1>2 DEF Upsets
<1> DEFINE Spent == UNCHANGED left \/ Upset("call")
<1>4. UNCHANGED left \/ Spent => Goal
  BY <1>1, <1>3
<1> HIDE DEF Goal
<1>5. /\ \A w, e, x, j, f : SetState(w, e, x, j, f) => Spent
      /\ \A w, on : SetDrainRequested(w, on) => Spent
      /\ \A w : Delete(w) => Spent
      /\ \A j : Enqueue(j) => Spent
      /\ \A j : ReadGroup(j) => UNCHANGED left
      /\ \A j : Ack(j) => Spent
  BY DEF SetState, SetDrainRequested, Delete, Enqueue, ReadGroup, Ack
<1>6. LeaderStep => Goal
  <2>1. ASSUME NEW j \in Job, LoopRead(j) \/ PollMark(j) PROVE Spent
    BY <1>5, <2>1 DEF LoopRead, PollMark
  <2>2. LoopAssign \/ LoopCache \/ LoopAck \/ SweepCommit \/ SweepDelete \/ PollEnqueue => Spent
    BY <1>5 DEF LoopAssign, LoopCache, LoopAck, SweepCommit, SweepDelete, PollEnqueue
  <2>3. SweepList \/ PollList \/ (\E w \in Worker, e \in Epoch : SweepMark(w, e)) => UNCHANGED left
    BY DEF SweepList, PollList, SweepMark, redisVars
  <2>4. Failover => Goal
    BY <1>3 DEF Failover
  <2> QED BY <1>4, <2>1, <2>2, <2>3, <2>4 DEF LeaderStep
<1>7. AgentStep => Goal
  <2>1. ASSUME NEW w \in Worker,
               \/ \E n \in SlotRequests, c \in SUBSET Capability : RegisterWorker(w, n, c)
               \/ Receive(w) \/ Exit(w)
        PROVE  UNCHANGED left
    BY <2>1 DEF RegisterWorker, Receive, Exit, redisVars
  <2>2. ASSUME NEW w \in Worker, AgentCrash(w) \/ Lapse(w) PROVE Goal
    BY <1>3, <1>4, <2>2 DEF AgentCrash, Lapse
  <2>3. ASSUME NEW w \in Worker, NEW e \in Epoch,
               \/ SeedCache(w, e) \/ CancelSeed(w, e)
               \/ \E status \in {"SUCCESS", "FAILED"} : Finish(w, e, status)
        PROVE  Spent
    BY <1>5, <2>3 DEF SeedCache, CancelSeed, Finish, redisVars
  <2>4. ASSUME NEW w \in Worker, NEW e \in Epoch, FinishJob(w, e) PROVE Goal
    BY <1>3, <1>4, <2>4 DEF FinishJob
  <2> QED BY <1>4, <2>1, <2>2, <2>3, <2>4 DEF AgentStep
<1>8. BeatStep => Goal
  <2>1. ASSUME NEW w \in Worker, NEW e \in Epoch,
               \/ SendHeartbeat(w, e) \/ ReadState(w, e) \/ Fallback(w, e) \/ Push(w, e)
        PROVE  Spent
    BY <2>1 DEF SendHeartbeat, ReadState, Fallback, Push, redisVars
  <2>2. ASSUME NEW w \in Worker, NEW e \in Epoch,
               Confirm(w, e) \/ Flush(w, e) \/ WriteState(w, e) \/ CancelBeat(w, e)
        PROVE  Spent
    BY <1>5, <2>2 DEF Confirm, Flush, WriteState, CancelBeat, redisVars
  <2> QED BY <1>4, <2>1, <2>2 DEF BeatStep
<1>9. ReportStep => Goal
  <2>1. ASSUME NEW w \in Worker, NEW e \in Epoch,
               \/ GetJob(w, e) \/ Record(w, e) \/ Free(w, e) \/ CacheFreed(w, e)
               \/ CancelReport(w, e)
        PROVE  Spent
    BY <1>5, <2>1 DEF GetJob, Record, Free, CacheFreed, CancelReport, redisVars
  <2> QED BY <1>4, <2>1 DEF ReportStep
<1>10. RestStep => Goal
  BY <1>3, <1>4, <1>5
     DEF RestStep, SubmitEnqueue, SubmitDies, SubmitJob, SyncState, SyncFlag, Drain, redisVars
<1>11. TimeStep \/ UNCHANGED systemVars => UNCHANGED left
  BY DEF TimeStep, systemVars, redisVars
<1>12. Goal
  BY <1>4, <1>6, <1>7, <1>8, <1>9, <1>10, <1>11, Steps
<1> QED BY <1>12 DEF Goal

(* All conjuncts together.                                                  *)
LEMMA ControlKept ==
  ASSUME TypeOK, Control, [SystemNext]_systemVars
  PROVE  Control'
BY RowsKept, CacheKept, LoopKept, SweepKept, PollKept, AgentKept, BeatKept, ReportKept, DrainKept,
   CallsKept, LeftKept DEF Control

(* The initial state satisfies the invariant.                               *)
LEMMA ControlInit == SystemInit => Control
<1> SUFFICES ASSUME SystemInit PROVE Control
  OBVIOUS
<1>1. RowsInv
  BY DEF SystemInit, Init, RowsInv, Given
<1>2. CacheInv
  <2>1. Missing \in CacheRow /\ Missing.job = None
    BY MissingRow
  <2>2. cache = [w \in Worker |-> Missing]
    BY DEF SystemInit, RedisInit
  <2> QED BY <2>1, <2>2 DEF CacheInv, Given
<1>3. LoopInv /\ PollInv
  <2>1. loop = LoopIdle /\ poll = PollIdle
    BY Zenon DEF SystemInit, SchedulerInit
  <2>2. LoopInv
    BY <2>1, StoreAssumption DEF LoopIdle, LoopInv, LoopRow, MaybeJob
  <2>3. PollInv
    BY <2>1 DEF PollIdle, PollInv, MaybeJob
  <2> QED BY <2>2, <2>3
<1>4. SweepInv
  <2>1. reap = [w \in Worker |-> NotReaping] /\ sweep = SweepIdle
    BY Zenon DEF SystemInit, SchedulerInit, Init
  <2> QED BY <2>1, Idles DEF SweepInv
<1>5. AgentInv
  <2>1. /\ Down \in AgentRow /\ Down.stage = "idle" /\ Down.job = None
        /\ NoAnswer \in AnswerRow /\ NoAnswer.push = None
    BY StoreAssumption, SMTT(20) DEF Down, AgentRow, NoAnswer, AnswerRow, MaybeJob
  <2>2. agent = [w \in Worker |-> Down] /\ answer = [w \in Worker |-> NoAnswer]
    BY DEF SystemInit, GatewayInit
  <2> QED BY <2>1, <2>2 DEF AgentInv, AgentOK, Given
<1>6. BeatInv
  <2>1. /\ BeatIdle \in BeatRow /\ BeatIdle.pc = "idle" /\ BeatIdle.job = None
        /\ BeatIdle.seen.job = None /\ BeatIdle.push = None
    BY MissingRow DEF BeatIdle, BeatRow, MaybeJob
  <2>2. beat = [w \in Worker |-> [e \in Epoch |-> BeatIdle]]
    BY DEF SystemInit, GatewayInit
  <2> QED BY <2>1, <2>2 DEF BeatInv, BeatOK, Given
<1>7. ReportInv
  <2>1. ReportIdle \in ReportRow /\ ReportIdle.pc = "idle"
    BY DEF ReportIdle, ReportRow, MaybeJob
  <2>2. report = [w \in Worker |-> [e \in Epoch |-> ReportIdle]]
    BY DEF SystemInit, GatewayInit
  <2> QED BY <2>1, <2>2 DEF ReportInv, ReportOK
<1>8. DrainInv
  <2>1. DrainIdle \in DrainRow /\ DrainIdle.job = None
    BY StoreAssumption DEF DrainIdle, DrainRow, MaybeJob
  <2> QED BY <2>1 DEF SystemInit, DrainInv, Given
<1>9. seeds \subseteq Worker \X Epoch /\ submits \subseteq Job /\ left \in [Upsets -> Nat]
  BY BudgetAssumption DEF SystemInit, GatewayInit, RedisInit
<1> QED BY <1>1, <1>2, <1>3, <1>4, <1>5, <1>6, <1>7, <1>8, <1>9 DEF Control

(* The tables and the control state of every component keep their           *)
(* invariants together: neither is inductive alone, since a handler acts on *)
(* what it has read and the tables rely on how the handlers call them.      *)
THEOREM SystemInvariant == SystemSpec => [](StoreInv /\ Control)
<1>1. SystemInit => StoreInv /\ Control
  BY InitInv, ControlInit DEF SystemInit
<1>2. StoreInv /\ Control /\ [SystemNext]_systemVars => (StoreInv /\ Control)'
  <2> SUFFICES ASSUME StoreInv, Control, [SystemNext]_systemVars PROVE (StoreInv /\ Control)'
    OBVIOUS
  <2>1. TypeOK /\ [Next]_storeVars
    BY SystemUsesStore DEF StoreInv
  <2>2. StoreInv'
    BY <2>1, TypeStep, CapacityStep, RetryStep, OwnedStep, ReapStep, DeadStep DEF StoreInv
  <2> QED BY <2>1, <2>2, ControlKept
<1> QED
  BY <1>1, <1>2, PTL DEF SystemSpec

(* Every step of the whole system, the failing calls, crashes, restarts and *)
(* failovers included, changes the tables by one method of the stores or    *)
(* not at all, so each theorem about FleetStore is one about the system.    *)
THEOREM StoreRefined == SystemSpec => UsesTheStore
<1>1. SystemInit => Init
  BY DEF SystemInit
<1>2. StoreInv /\ Control /\ [SystemNext]_systemVars => [Next]_storeVars
  BY SystemUsesStore DEF StoreInv
<1> QED
  BY <1>1, <1>2, SystemInvariant, PTL DEF SystemSpec, UsesTheStore, Spec

(* So the whole system implements Ownership: with the loop, the reaper, the *)
(* poller and the handlers of every worker process at work, a job has one   *)
(* owner at a time and is only given to a worker's latest registration.     *)
THEOREM SystemOwnership == SystemSpec => ImplementsOwnership
  BY StoreRefined, Refinement, PTL DEF UsesTheStore

(* And no system step but a reap changes a result that was recorded.        *)
THEOREM SystemReopening == SystemSpec => OnlyTheReaperReopens
  BY StoreRefined, Reopening, PTL DEF UsesTheStore

(* However stale the cache entry that a heartbeat handler pushed it from, a *)
(* job only ever runs on a registration that AssignJob gave it to.          *)
THEOREM Granted == SystemSpec => []RunsOnlyWhatWasGranted
<1>1. Control => RunsOnlyWhatWasGranted
  BY DEF Control, AgentInv, AgentOK, Given, RunsOnlyWhatWasGranted
<1> QED
  BY <1>1, SystemInvariant, PTL

-------------------------------------------------------------------------------
(* The streams.  EntriesAccounted is not inductive: between a committed     *)
(* assignment or the sight of a settled job and the acknowledgement, the    *)
(* loop has an entry in hand that it will take away, so a job that becomes  *)
(* QUEUED again meanwhile must not count on that entry.                     *)

InHand(j) == IF loop.pc \in {"cache", "ack"} /\ loop.job = j THEN 1 ELSE 0

Backed(j) ==
  \/ Entries(j) > InHand(j)
  \/ j \in Awaiting \cup unsent
  \/ history[j].dead > 0

QueueInv ==
  /\ queue \in [Job -> Nat] /\ pending \in [Job -> Nat]
  /\ loop.pc # "read" => pending[loop.job] > 0
  /\ \A j \in Job : jobs[j].status = "QUEUED" => Backed(j)

(* XREADGROUP moves an entry to the pending list and loses none.            *)
LEMMA ReadKeepsEntries ==
  ASSUME QueueInv, NEW i \in Job, ReadGroup(i)
  PROVE  /\ queue' \in [Job -> Nat] /\ pending' \in [Job -> Nat]
         /\ pending'[i] > 0
         /\ \A j \in Job : Entries(j)' = Entries(j)
<1>1. queue \in [Job -> Nat] /\ pending \in [Job -> Nat]
  BY DEF QueueInv
<1>2. CASE /\ queue[i] > 0 /\ queue' = [queue EXCEPT ![i] = @ - 1]
           /\ pending' = [pending EXCEPT ![i] = @ + 1]
  BY <1>1, <1>2 DEF Entries
<1>3. CASE pending[i] > 0 /\ UNCHANGED <<queue, pending>>
  BY <1>1, <1>3 DEF Entries
<1> QED BY <1>2, <1>3 DEF ReadGroup

(* XADD adds an entry or, when it fails, none.                              *)
LEMMA EnqueueAddsOne ==
  ASSUME QueueInv, NEW i \in Job, Enqueue(i)
  PROVE  /\ queue' \in [Job -> Nat] /\ UNCHANGED pending
         /\ \A j \in Job : Entries(j)' >= Entries(j)
         /\ \A j \in Job : queue'[j] # queue[j] => Entries(j)' = Entries(j) + 1
<1>1. queue \in [Job -> Nat] /\ pending \in [Job -> Nat]
  BY DEF QueueInv
<1>2. CASE queue' = [queue EXCEPT ![i] = @ + 1] /\ UNCHANGED pending
  BY <1>1, <1>2 DEF Entries
<1>3. CASE UNCHANGED <<queue, pending>>
  BY <1>1, <1>3 DEF Entries
<1> QED BY <1>2, <1>3 DEF Enqueue

(* XACK takes at most one entry, of the job it names.                       *)
LEMMA AckTakesOne ==
  ASSUME QueueInv, NEW i \in Job, pending[i] > 0, Ack(i)
  PROVE  /\ pending' \in [Job -> Nat] /\ UNCHANGED queue
         /\ \A j \in Job \ {i} : Entries(j)' = Entries(j)
         /\ Entries(i)' + 1 >= Entries(i)
<1>1. queue \in [Job -> Nat] /\ pending \in [Job -> Nat]
  BY DEF QueueInv
<1>2. CASE pending' = [pending EXCEPT ![i] = @ - 1] /\ UNCHANGED queue
  BY <1>1, <1>2 DEF Entries
<1>3. CASE UNCHANGED <<queue, pending>>
  BY <1>1, <1>3 DEF Entries
<1> QED BY <1>2, <1>3 DEF Ack

(* Who makes a job QUEUED: Create, MarkQueuedFromRetry and the reaper.      *)
NoneQueued ==
  \A j \in Job : /\ jobs'[j].status = "QUEUED" => jobs[j].status = "QUEUED"
                 /\ history'[j].dead >= history[j].dead

(* A row that changes to another status than QUEUED queues no job.          *)
LEMMA RowsMoved ==
  ASSUME TypeOK, NEW i \in Job, NEW r, r.status # "QUEUED", jobs' = [jobs EXCEPT ![i] = r],
         \A j \in Job : history'[j].dead = history[j].dead
  PROVE  NoneQueued
<1>1. jobs \in [Job -> JobRow] /\ \A j \in Job : history[j].dead \in Nat
  BY DEF TypeOK, HistoryRows
<1>2. \A j \in Job : jobs'[j] = IF j = i THEN r ELSE jobs[j]
  BY <1>1
<1> QED BY <1>1, <1>2 DEF NoneQueued

(* Nor does a step that leaves the jobs alone.                              *)
LEMMA JobsQuiet ==
  ASSUME TypeOK, UNCHANGED <<jobs, history>>
  PROVE  NoneQueued
BY DEF TypeOK, HistoryRows, NoneQueued

(* Of the workers' handlers, only a confirmed push and a report write jobs. *)
LEMMA WorkersWriteJobs ==
  ASSUME AgentStep \/ BeatStep \/ ReportStep
  PROVE  \/ UNCHANGED <<jobs, history>>
         \/ \E w \in Worker, e \in Epoch : Confirm(w, e) \/ Record(w, e)
<1>1. ASSUME NEW w \in Worker,
             \/ \E n \in SlotRequests, c \in SUBSET Capability : RegisterWorker(w, n, c)
             \/ AgentCrash(w) \/ Lapse(w) \/ Receive(w) \/ Exit(w)
      PROVE  UNCHANGED <<jobs, history>>
  BY <1>1 DEF RegisterWorker, Register, AgentCrash, Lapse, HeartbeatLapses, Receive, Exit, storeVars
<1>2. ASSUME NEW w \in Worker, NEW e \in Epoch,
             \/ SeedCache(w, e) \/ CancelSeed(w, e) \/ FinishJob(w, e)
             \/ \E status \in {"SUCCESS", "FAILED"} : Finish(w, e, status)
      PROVE  UNCHANGED <<jobs, history>>
  BY <1>2 DEF SeedCache, CancelSeed, FinishJob, Finish, storeVars
<1>3. ASSUME NEW w \in Worker, NEW e \in Epoch,
             \/ SendHeartbeat(w, e) \/ ReadState(w, e) \/ Fallback(w, e) \/ Push(w, e)
             \/ Flush(w, e) \/ WriteState(w, e) \/ CancelBeat(w, e)
      PROVE  UNCHANGED <<jobs, history>>
  BY <1>3 DEF SendHeartbeat, ReadState, Fallback, Push, Flush, UpdateHeartbeat, WriteState, CancelBeat,
              storeVars
<1>4. ASSUME NEW w \in Worker, NEW e \in Epoch,
             GetJob(w, e) \/ Free(w, e) \/ CacheFreed(w, e) \/ CancelReport(w, e)
      PROVE  UNCHANGED <<jobs, history>>
  BY <1>4 DEF GetJob, Free, FreeWorker, CacheFreed, CancelReport, storeVars
<1> QED
  BY <1>1, <1>2, <1>3, <1>4 DEF AgentStep, BeatStep, ReportStep

(* The handlers of the workers requeue nothing.                             *)
LEMMA WorkersQueueNothing ==
  ASSUME TypeOK, Control, AgentStep \/ BeatStep \/ ReportStep
  PROVE  NoneQueued
<1>1. ASSUME NEW w \in Worker, NEW e \in Epoch, Confirm(w, e) PROVE NoneQueued
  <2>1. beat[w][e].job \in Job
    BY <1>1 DEF Confirm, Confirms, Control, BeatInv, BeatOK, BeatRow, MaybeJob
  <2>2. CASE MarkRunning(beat[w][e].job, e)
    <3> DEFINE r == Moved(jobs[beat[w][e].job], "RUNNING")
    <3>1. r.status = "RUNNING"
      BY <2>1, MovedRow DEF TypeOK, JobStatus
    <3>2. jobs' = [jobs EXCEPT ![beat[w][e].job] = r] /\ UNCHANGED history
      BY <2>2 DEF MarkRunning
    <3> HIDE DEF r
    <3> QED BY <2>1, <3>1, <3>2, RowsMoved
  <2>3. CASE UNCHANGED storeVars
    BY <2>3, JobsQuiet DEF storeVars
  <2> QED BY <1>1, <2>2, <2>3 DEF Confirm
<1>2. ASSUME NEW w \in Worker, NEW e \in Epoch, Record(w, e) PROVE NoneQueued
  <2> DEFINE i == report[w][e].job
  <2>1. i \in Job /\ report[w][e].status \in {"SUCCESS", "FAILED"}
    BY <1>2 DEF Record, Control, ReportInv, ReportOK
  <2> HIDE DEF i
  <2>2. jobs[i] \in JobRow /\ history \in [Job -> HistoryRows]
    BY <2>1 DEF TypeOK
  <2>3. CASE RetryOrFail(i, e)
    <3> DEFINE r == IF RetriesLeft(jobs[i]) THEN Retrying(jobs[i]) ELSE Moved(jobs[i], "FAILED")
    <3>1. r.status # "QUEUED"
      BY <2>2, RetryingRow, MovedRow DEF JobStatus
    <3>2. jobs' = [jobs EXCEPT ![i] = r]
      BY <2>3 DEF RetryOrFail
    <3>3. \A j \in Job : history'[j].dead = history[j].dead
      BY <2>1, <2>2, <2>3 DEF RetryOrFail
    <3> HIDE DEF r
    <3> QED BY <2>1, <3>1, <3>2, <3>3, RowsMoved
  <2>4. CASE Complete(i, e, report[w][e].status) /\ report[w][e].status # "FAILED"
    <3> DEFINE r == Moved(jobs[i], "SUCCESS")
    <3>1. r.status = "SUCCESS"
      BY <2>2, MovedRow DEF JobStatus
    <3>2. jobs' = [jobs EXCEPT ![i] = r] /\ UNCHANGED history
      BY <2>1, <2>4 DEF Complete
    <3> HIDE DEF r
    <3> QED BY <2>1, <3>1, <3>2, RowsMoved
  <2>5. CASE UNCHANGED storeVars
    BY <2>5, JobsQuiet DEF storeVars
  <2> QED BY <1>2, <2>3, <2>4, <2>5 DEF Record, i
<1> QED
  BY <1>1, <1>2, JobsQuiet, WorkersWriteJobs

(* The handlers of the workers do not touch the streams.                    *)
LEMMA WorkersLeaveStreams ==
  ASSUME AgentStep \/ BeatStep \/ ReportStep
  PROVE  UNCHANGED <<queue, pending>>
<1>1. \A w, e, x, j, f : SetState(w, e, x, j, f) => UNCHANGED <<queue, pending>>
  BY DEF SetState
<1>2. ASSUME NEW w \in Worker,
             \/ \E n \in SlotRequests, c \in SUBSET Capability : RegisterWorker(w, n, c)
             \/ AgentCrash(w) \/ Lapse(w) \/ Receive(w) \/ Exit(w)
      PROVE  UNCHANGED <<queue, pending>>
  BY <1>2 DEF RegisterWorker, AgentCrash, Lapse, Receive, Exit, redisVars
<1>3. ASSUME NEW w \in Worker, NEW e \in Epoch,
             \/ SeedCache(w, e) \/ CancelSeed(w, e) \/ FinishJob(w, e)
             \/ \E status \in {"SUCCESS", "FAILED"} : Finish(w, e, status)
      PROVE  UNCHANGED <<queue, pending>>
  BY <1>1, <1>3 DEF SeedCache, CancelSeed, FinishJob, Finish, redisVars
<1>4. ASSUME NEW w \in Worker, NEW e \in Epoch,
             \/ SendHeartbeat(w, e) \/ ReadState(w, e) \/ Fallback(w, e) \/ Push(w, e)
             \/ Confirm(w, e) \/ Flush(w, e) \/ WriteState(w, e) \/ CancelBeat(w, e)
      PROVE  UNCHANGED <<queue, pending>>
  BY <1>1, <1>4 DEF SendHeartbeat, ReadState, Fallback, Push, Confirm, Flush, WriteState, CancelBeat,
                    redisVars
<1>5. ASSUME NEW w \in Worker, NEW e \in Epoch,
             \/ GetJob(w, e) \/ Record(w, e) \/ Free(w, e) \/ CacheFreed(w, e)
             \/ CancelReport(w, e)
      PROVE  UNCHANGED <<queue, pending>>
  BY <1>1, <1>5 DEF GetJob, Record, Free, CacheFreed, CancelReport, redisVars
<1> QED BY <1>2, <1>3, <1>4, <1>5 DEF AgentStep, BeatStep, ReportStep

(* Every step keeps a QUEUED job backed by an entry that nobody is about to *)
(* acknowledge.                                                             *)
LEMMA QueueKept ==
  ASSUME TypeOK, Control, QueueInv, [SystemNext]_systemVars
  PROVE  QueueInv'
<1>1. /\ queue \in [Job -> Nat] /\ pending \in [Job -> Nat]
      /\ \A j \in Job : Entries(j) \in Nat /\ InHand(j) \in {0, 1} /\ Entries(j) >= InHand(j)
  BY SMTT(20) DEF QueueInv, Entries, InHand
<1>2. Ghosts =>
        /\ unsent \subseteq unsent'
        /\ \A j \in Awaiting : j \in Awaiting' \/ j \in unsent' \/ queue'[j] # queue[j]
  BY DEF Ghosts
<1>3. \A j \in Job : history[j].dead \in Nat /\ history'[j].dead \in Nat
  <2>1. TypeOK'
    BY SystemUsesStore, TypeStep
  <2> QED BY <2>1 DEF TypeOK, HistoryRows
(* What is enough for a step that makes no job QUEUED.                      *)
<1>4. ASSUME queue' \in [Job -> Nat], pending' \in [Job -> Nat],
             loop'.pc # "read" => pending'[loop'.job] > 0,
             NoneQueued, unsent \subseteq unsent',
             \A j \in Job : jobs'[j].status = "QUEUED" /\ Entries(j) > InHand(j)
                             => Entries(j)' > InHand(j)',
             \A j \in Awaiting \cap Job :
                j \in Awaiting' \/ j \in unsent' \/ Entries(j)' > InHand(j)'
      PROVE  QueueInv'
  <2>1. ASSUME NEW j \in Job, jobs'[j].status = "QUEUED" PROVE Backed(j)'
    <3>1. Backed(j) /\ history'[j].dead >= history[j].dead
      BY <1>4, <2>1 DEF NoneQueued, QueueInv
    <3>2. history[j].dead > 0 => history'[j].dead > 0
      BY <1>3, <3>1
    <3>3. CASE Entries(j) > InHand(j)
      BY <1>4, <2>1, <3>3 DEF Backed
    <3>4. CASE j \in Awaiting
      BY <1>4, <3>4 DEF Backed
    <3>5. CASE j \in unsent \/ history[j].dead > 0
      BY <1>4, <3>2, <3>5 DEF Backed
    <3> QED BY <3>1, <3>3, <3>4, <3>5 DEF Backed
  <2> QED BY <1>4, <2>1 DEF QueueInv
(* Steps that touch neither the streams nor who is to enqueue.              *)
<1>5. ASSUME UNCHANGED <<queue, pending, loop, poll, submits>>, NoneQueued,
             unsent \subseteq unsent'
      PROVE  QueueInv'
  <2>1. \A j \in Job : Entries(j)' = Entries(j) /\ InHand(j)' = InHand(j)
    BY <1>5 DEF Entries, InHand
  <2>2. Awaiting' = Awaiting
    BY <1>5 DEF Awaiting
  <2> QED BY <1>1, <1>4, <1>5, <2>1, <2>2 DEF QueueInv
<1>6. (AgentStep \/ BeatStep \/ ReportStep) /\ UNCHANGED <<leaderVars, apiVars>> /\ Ghosts => QueueInv'
  BY <1>2, <1>5, WorkersQueueNothing, WorkersLeaveStreams DEF leaderVars, apiVars
<1>7. ASSUME NEW i \in Job, LoopRead(i), UNCHANGED apiVars, Ghosts PROVE QueueInv'
  <2>1. /\ queue' \in [Job -> Nat] /\ pending' \in [Job -> Nat] /\ pending'[i] > 0
        /\ \A j \in Job : Entries(j)' = Entries(j)
    BY <1>7, ReadKeepsEntries DEF LoopRead
  <2>2. loop.pc = "read" /\ UNCHANGED storeVars /\ UNCHANGED <<poll, submits>>
    BY <1>7 DEF LoopRead, apiVars
  <2>3. Awaiting' = Awaiting
    BY <2>2 DEF Awaiting
  <2>4. NoneQueued
    BY <2>2, JobsQuiet DEF storeVars
  <2>5. /\ loop'.pc # "read" => loop'.job = i
        /\ loop'.pc \in {"cache", "ack"} => jobs[i].status # "QUEUED"
    <3>1. CASE jobs[i].status # "QUEUED" /\ loop' = [LoopIdle EXCEPT !.pc = "ack", !.job = i]
      BY <3>1 DEF LoopIdle
    <3>2. ASSUME NEW w, NEW e, loop' = [pc |-> "assign", job |-> i, worker |-> w, epoch |-> e]
          PROVE  loop'.pc = "assign" /\ loop'.job = i
      BY <3>2
    <3>3. CASE UNCHANGED loop
      BY <2>2, <3>3
    <3> QED BY <1>7, <3>1, <3>2, <3>3 DEF LoopRead
  <2>7. \A j \in Job : jobs'[j].status = "QUEUED" => InHand(j)' = 0
    BY <2>2, <2>5 DEF InHand, storeVars
  <2>8. \A j \in Job : jobs'[j].status = "QUEUED" /\ Entries(j) > InHand(j) => Entries(j)' > InHand(j)'
    BY <1>1, <2>1, <2>7
  <2> QED BY <1>2, <1>4, <1>7, <2>1, <2>3, <2>4, <2>5, <2>8
<1>8. ASSUME NEW i \in Job, PollMark(i), UNCHANGED apiVars, Ghosts PROVE QueueInv'
  <2>1. /\ UNCHANGED <<queue, pending, loop, submits, history>> /\ poll.job = None
        /\ Awaiting = submits /\ submits \subseteq Awaiting'
    BY <1>8 DEF PollMark, MarkQueuedFromRetry, apiVars, storeVars, Awaiting
  <2>2. \A j \in Job : Entries(j)' = Entries(j) /\ InHand(j)' = InHand(j)
    BY <2>1 DEF Entries, InHand
  <2>3. CASE UNCHANGED storeVars
    <3>1. NoneQueued
      BY <2>3, JobsQuiet DEF storeVars
    <3> QED BY <1>1, <1>2, <1>4, <1>8, <2>1, <2>2, <3>1 DEF QueueInv
  <2>4. CASE MarkQueuedFromRetry(i) /\ poll' = [due |-> poll.due \ {i}, job |-> i]
    <3>1. i \in Awaiting'
      BY <2>4, StoreAssumption DEF Awaiting
    <3>2. \A j \in Job \ {i} : jobs'[j] = jobs[j]
      BY <2>4 DEF MarkQueuedFromRetry, TypeOK
    <3>3. ASSUME NEW j \in Job, jobs'[j].status = "QUEUED" PROVE Backed(j)'
      <4>1. CASE j = i
        BY <3>1, <4>1 DEF Backed
      <4>2. CASE j # i
        <5>1. Backed(j)
          BY <3>2, <3>3, <4>2 DEF QueueInv
        <5> QED BY <1>2, <1>8, <2>1, <2>2, <5>1 DEF Backed
      <4> QED BY <4>1, <4>2
    <3> QED BY <1>1, <2>1, <3>3 DEF QueueInv
  <2> QED BY <1>8, <2>3, <2>4 DEF PollMark
<1>9. CASE LoopAssign /\ UNCHANGED apiVars /\ Ghosts
  <2>1. /\ UNCHANGED <<queue, pending, poll, submits>> /\ loop.pc = "assign" /\ loop.job \in Job
        /\ loop \in LoopRow
    BY <1>9 DEF LoopAssign, apiVars, Control, LoopInv
  <2>2. Awaiting' = Awaiting /\ \A j \in Job : Entries(j)' = Entries(j)
    BY <2>1 DEF Awaiting, Entries
  <2>3. CASE loop' = LoopIdle /\ UNCHANGED storeVars
    <3>1. loop'.pc = "read" /\ \A j \in Job : InHand(j)' = 0
      BY <2>3 DEF InHand, LoopIdle
    <3>2. NoneQueued
      BY <2>3, JobsQuiet DEF storeVars
    <3>3. \A j \in Job : Entries(j) > InHand(j) => Entries(j)' > InHand(j)'
      BY <1>1, <2>2, <3>1
    <3> QED BY <1>1, <1>2, <1>4, <1>9, <2>1, <2>2, <3>1, <3>2, <3>3
  <2>4. CASE AssignJob(loop.job, loop.worker, loop.epoch) /\ loop' = [loop EXCEPT !.pc = "cache"]
    <3> DEFINE i == loop.job
               r == Assigned(jobs[i], loop.worker, loop.epoch)
    <3>1. loop'.pc = "cache" /\ loop'.job = i
      BY <2>1, <2>4 DEF LoopRow
    <3>2. r.status = "ASSIGNED"
      BY <2>1 DEF Assigned, TypeOK, JobRow
    <3>3. jobs' = [jobs EXCEPT ![i] = r] /\ UNCHANGED history
      BY <2>4 DEF AssignJob
    <3> HIDE DEF i, r
    <3>4. i \in Job /\ pending[i] > 0
      BY <2>1 DEF i, QueueInv
    <3>5. NoneQueued
      BY <3>2, <3>3, <3>4, RowsMoved
    <3>6. jobs'[i].status = "ASSIGNED"
      BY <3>2, <3>3, <3>4 DEF TypeOK
    <3>7. \A j \in Job : jobs'[j].status = "QUEUED" => InHand(j)' = 0
      BY <3>1, <3>6 DEF InHand
    <3>8. \A j \in Job : jobs'[j].status = "QUEUED" /\ Entries(j) > InHand(j) => Entries(j)' > InHand(j)'
      BY <1>1, <2>2, <3>7, SMTT(20)
    <3> QED BY <1>1, <1>2, <1>4, <1>9, <2>1, <2>2, <3>1, <3>4, <3>5, <3>8
  <2> QED BY <1>9, <2>3, <2>4 DEF LoopAssign
<1>10. CASE LoopCache /\ UNCHANGED apiVars /\ Ghosts
  <2>1. /\ UNCHANGED <<queue, pending, poll, submits>> /\ UNCHANGED storeVars
        /\ loop.pc = "cache" /\ loop'.pc = "ack" /\ loop'.job = loop.job
    BY <1>10 DEF LoopCache, SetState, LoopIdle, apiVars
  <2>2. Awaiting' = Awaiting /\ \A j \in Job : Entries(j)' = Entries(j) /\ InHand(j)' = InHand(j)
    BY <2>1 DEF Awaiting, Entries, InHand
  <2>3. NoneQueued
    BY <2>1, JobsQuiet DEF storeVars
  <2>4. pending'[loop'.job] > 0
    BY <2>1 DEF QueueInv
  <2> QED BY <1>1, <1>2, <1>4, <1>10, <2>1, <2>2, <2>3, <2>4
<1>11. CASE LoopAck /\ UNCHANGED apiVars /\ Ghosts
  <2>1. PICK i \in Job : i = loop.job /\ pending[i] > 0 /\ loop.pc = "ack" /\ Ack(i)
    BY <1>11 DEF LoopAck, Control, LoopInv, QueueInv
  <2>2. loop'.pc = "read" /\ UNCHANGED storeVars /\ UNCHANGED <<poll, submits>>
    BY <1>11 DEF LoopAck, LoopIdle, apiVars
  <2>3. InHand(i) = 1 /\ \A j \in Job : InHand(j)' = 0
    BY <2>1, <2>2 DEF InHand
  <2>4. /\ pending' \in [Job -> Nat] /\ queue' \in [Job -> Nat]
        /\ \A j \in Job \ {i} : Entries(j)' = Entries(j)
        /\ Entries(i)' + 1 >= Entries(i)
    BY <1>1, <2>1, AckTakesOne
  <2>5. Entries(i)' \in Nat
    BY <2>1, <2>4 DEF Entries
  <2>6. ASSUME NEW j \in Job, Entries(j) > InHand(j) PROVE Entries(j)' > InHand(j)'
    <3>1. CASE j = i
      BY <1>1, <2>3, <2>4, <2>5, <2>6, <3>1
    <3>2. CASE j # i
      BY <1>1, <2>3, <2>4, <2>6, <3>2
    <3> QED BY <3>1, <3>2
  <2>7. NoneQueued /\ Awaiting' = Awaiting
    BY <2>2, JobsQuiet DEF storeVars, Awaiting
  <2> QED BY <1>2, <1>4, <1>11, <2>2, <2>4, <2>6, <2>7
<1>12. CASE /\ SweepList \/ SweepDelete \/ \E w \in Worker, e \in Epoch : SweepMark(w, e)
            /\ UNCHANGED apiVars /\ Ghosts
  <2>1. UNCHANGED <<jobs, history>> /\ UNCHANGED <<queue, pending, loop, poll, submits>>
    BY <1>12 DEF SweepList, SweepDelete, Delete, SweepMark, BeginReap, storeVars, redisVars, apiVars
  <2> QED BY <1>2, <1>5, <1>12, <2>1, JobsQuiet
<1>13. CASE SweepCommit /\ UNCHANGED apiVars /\ Ghosts
  <2>1. UNCHANGED <<queue, pending, loop, poll, submits>>
    BY <1>13 DEF SweepCommit, apiVars
  <2>2. CASE RollbackReap(sweep.worker)
    BY <1>2, <1>5, <1>13, <2>1, <2>2, JobsQuiet DEF RollbackReap
  <2>3. CASE CommitReap(sweep.worker)
    <3> DEFINE F == reap[sweep.worker].found
    <3>1. /\ \A j \in Job : j \notin F => jobs'[j] = jobs[j] /\ history'[j] = history[j]
          /\ \A j \in Job : j \in F => history'[j].dead = history[j].dead + 1
      BY <2>3 DEF CommitReap
    <3> HIDE DEF F
    <3>2. Awaiting' = Awaiting /\ \A j \in Job : Entries(j)' = Entries(j) /\ InHand(j)' = InHand(j)
      BY <2>1 DEF Awaiting, Entries, InHand
    <3>3. ASSUME NEW j \in Job, jobs'[j].status = "QUEUED" PROVE Backed(j)'
      <4>1. CASE j \in F
        BY <1>3, <3>1, <4>1 DEF Backed
      <4>2. CASE j \notin F
        <5>1. Backed(j)
          BY <3>1, <3>3, <4>2 DEF QueueInv
        <5> QED BY <1>2, <1>13, <3>1, <3>2, <4>2, <5>1 DEF Backed
      <4> QED BY <4>1, <4>2
    <3> QED BY <1>1, <2>1, <3>3 DEF QueueInv
  <2> QED BY <1>13, <2>2, <2>3 DEF SweepCommit
(* A call of Enqueue that ends some enqueuer's work.                        *)
<1>14. ASSUME NEW i \in Job, Enqueue(i), UNCHANGED storeVars, UNCHANGED loop, Ghosts
       PROVE  QueueInv'
  <2>1. /\ queue' \in [Job -> Nat] /\ UNCHANGED pending
        /\ \A j \in Job : Entries(j)' >= Entries(j)
        /\ \A j \in Job : queue'[j] # queue[j] => Entries(j)' = Entries(j) + 1
    BY <1>14, EnqueueAddsOne
  <2>2. \A j \in Job : InHand(j)' = InHand(j) /\ Entries(j)' \in Nat
    BY <1>1, <1>14, <2>1 DEF InHand, Entries
  <2>3. NoneQueued
    BY <1>14, JobsQuiet DEF storeVars
  <2>4. \A j \in Job : Entries(j) > InHand(j) => Entries(j)' > InHand(j)'
    BY <1>1, <2>1, <2>2
  <2>5. \A j \in Job : queue'[j] # queue[j] => Entries(j)' > InHand(j)'
    BY <1>1, <2>1, <2>2
  <2>6. loop'.pc # "read" => pending'[loop'.job] > 0
    BY <1>14, <2>1 DEF QueueInv
  <2> QED BY <1>1, <1>2, <1>4, <1>14, <2>1, <2>3, <2>4, <2>5, <2>6
<1>15. CASE PollEnqueue /\ Ghosts
  <2>1. poll.job \in Job
    BY <1>15 DEF PollEnqueue, Control, PollInv, MaybeJob
  <2> QED BY <1>14, <1>15, <2>1 DEF PollEnqueue
<1>16. ASSUME NEW i \in Job, SubmitEnqueue(i), UNCHANGED leaderVars, Ghosts PROVE QueueInv'
  BY <1>14, <1>16 DEF SubmitEnqueue, leaderVars
(* An enqueuer dies, or has nothing to do.                                  *)
<1>17. ASSUME UNCHANGED <<queue, pending, jobs, history>>, loop'.pc = "read" \/ UNCHANGED loop, Ghosts
       PROVE  QueueInv'
  <2>1. \A j \in Job : Entries(j)' = Entries(j) /\ InHand(j)' \in {0, InHand(j)}
    BY <1>17 DEF Entries, InHand
  <2>2. NoneQueued
    BY <1>17, JobsQuiet
  <2>3. \A j \in Job : Entries(j) > InHand(j) => Entries(j)' > InHand(j)'
    BY <1>1, <2>1
  <2>4. loop'.pc # "read" => pending'[loop'.job] > 0
    BY <1>17 DEF QueueInv
  <2> QED BY <1>1, <1>2, <1>4, <1>17, <2>2, <2>3, <2>4
<1>18. CASE (PollList \/ Failover) /\ Ghosts
  <2>1. UNCHANGED <<queue, pending, jobs, history>> /\ (loop'.pc = "read" \/ UNCHANGED loop)
    BY <1>18 DEF PollList, Failover, LoopIdle, redisVars, storeVars
  <2> QED BY <1>17, <1>18, <2>1
<1>19. ASSUME NEW i \in Job, SubmitDies(i), UNCHANGED leaderVars, Ghosts PROVE QueueInv'
  <2>1. UNCHANGED <<queue, pending, jobs, history>> /\ UNCHANGED loop
    BY <1>19 DEF SubmitDies, leaderVars, storeVars
  <2> QED BY <1>17, <1>19, <2>1
<1>20. ASSUME NEW i \in Job, NEW m \in RetryRequests, NEW c \in SUBSET Capability,
              SubmitJob(i, m, c), UNCHANGED leaderVars, Ghosts
       PROVE  QueueInv'
  <2>1. /\ UNCHANGED <<queue, pending, loop, poll, history>> /\ submits' = submits \cup {i}
        /\ \A j \in Job \ {i} : jobs'[j] = jobs[j]
    BY <1>20 DEF SubmitJob, Create, TypeOK, redisVars, leaderVars
  <2>2. Awaiting \subseteq Awaiting' /\ i \in Awaiting'
    BY <2>1 DEF Awaiting
  <2>3. \A j \in Job : Entries(j)' = Entries(j) /\ InHand(j)' = InHand(j)
    BY <2>1 DEF Entries, InHand
  <2>4. ASSUME NEW j \in Job, jobs'[j].status = "QUEUED" PROVE Backed(j)'
    <3>1. CASE j = i
      BY <2>2, <3>1 DEF Backed
    <3>2. CASE j # i
      <4>1. Backed(j)
        BY <2>1, <2>4, <3>2 DEF QueueInv
      <4> QED BY <1>2, <1>20, <2>1, <2>2, <2>3, <4>1 DEF Backed
    <3> QED BY <3>1, <3>2
  <2> QED BY <1>1, <2>1, <2>4 DEF QueueInv
<1>21. ASSUME NEW w \in Worker, SyncState(w) \/ SyncFlag(w) \/ \E on \in BOOLEAN : Drain(w, on),
              UNCHANGED leaderVars, Ghosts
       PROVE  QueueInv'
  <2>1. UNCHANGED <<queue, pending, loop, poll, submits>> /\ UNCHANGED <<jobs, history>>
    BY <1>21 DEF SyncState, SetState, SyncFlag, SetDrainRequested, Drain, RequestDrain, ResumeDrain,
                 storeVars, leaderVars
  <2> QED BY <1>2, <1>5, <1>21, <2>1, JobsQuiet
<1>22. CASE TimeStep /\ Ghosts
  <2>1. UNCHANGED <<queue, pending, loop, poll, submits>>
    BY <1>22 DEF TimeStep, redisVars, leaderVars, apiVars
  <2>2. PICK i \in Job : BackoffElapses(i)
    BY <1>22 DEF TimeStep
  <2> DEFINE r == DueNow(jobs[i])
  <2>3. r.status = "RETRYING" /\ jobs' = [jobs EXCEPT ![i] = r] /\ UNCHANGED history
    BY <2>2, DueRow DEF BackoffElapses, TypeOK
  <2> HIDE DEF r
  <2>4. NoneQueued
    BY <2>3, RowsMoved
  <2> QED BY <1>2, <1>5, <1>22, <2>1, <2>4
<1>23. CASE UNCHANGED systemVars
  <2>1. /\ UNCHANGED <<queue, pending, loop, poll, submits>> /\ UNCHANGED <<jobs, history>>
        /\ unsent' = unsent
    BY <1>23 DEF systemVars, redisVars, leaderVars, apiVars, storeVars, ghostVars
  <2> QED BY <1>5, <2>1, JobsQuiet
<1>24. LeaderStep /\ UNCHANGED <<gatewayVars, apiVars>> /\ Ghosts => QueueInv'
  BY <1>7, <1>8, <1>9, <1>10, <1>11, <1>12, <1>13, <1>15, <1>18 DEF LeaderStep
<1>25. RestStep /\ UNCHANGED <<leaderVars, gatewayVars>> /\ Ghosts => QueueInv'
  BY <1>16, <1>19, <1>20, <1>21 DEF RestStep
<1> QED BY <1>6, <1>22, <1>23, <1>24, <1>25, Steps

(* There are no entries initially, and no jobs.                             *)
LEMMA QueueFirst == SystemInit => QueueInv
<1> SUFFICES ASSUME SystemInit PROVE QueueInv
  OBVIOUS
<1>1. /\ queue = [j \in Job |-> 0] /\ pending = [j \in Job |-> 0]
      /\ loop = LoopIdle
  BY Zenon DEF SystemInit, RedisInit, SchedulerInit
<1>2. jobs = [j \in Job |->
        [status |-> "ABSENT", worker |-> None, epoch |-> 0, retries |-> 0, max |-> 0,
         due |-> FALSE, requires |-> {}]]
  BY Zenon DEF SystemInit, Init
<1>3. \A j \in Job : jobs[j].status # "QUEUED"
  BY <1>2
<1> QED BY <1>1, <1>3, Idles DEF QueueInv

(* No acknowledgement, failed assignment, duplicate entry or failover of    *)
(* the loop loses the last entry of a QUEUED job: whoever lost one is an    *)
(* enqueuer that gave up, or the reaper, which adds none.                   *)
THEOREM Accounted == SystemSpec => []EntriesAccounted
<1>1. SystemInit => QueueInv
  BY QueueFirst
<1>2. StoreInv /\ Control /\ QueueInv /\ [SystemNext]_systemVars => QueueInv'
  BY QueueKept DEF StoreInv
<1>3. QueueInv => EntriesAccounted
  <2> SUFFICES ASSUME QueueInv, NEW j \in Job, jobs[j].status = "QUEUED"
               PROVE  Entries(j) > 0 \/ j \in Awaiting \cup unsent \/ history[j].dead > 0
    BY DEF EntriesAccounted
  <2>1. Backed(j) /\ Entries(j) \in Nat /\ InHand(j) \in {0, 1}
    BY DEF QueueInv, Entries, InHand
  <2> QED BY <2>1, SMTT(20) DEF Backed
<1> QED
  BY <1>1, <1>2, <1>3, SystemInvariant, PTL DEF SystemSpec

Records == granted \subseteq Job \X Worker \X Epoch /\ unsent \subseteq Job

(* Every table, cache entry, program counter and call in flight has its     *)
(* type, so no handler ever acts on a missing job, worker or epoch.         *)
THEOREM SystemTypes == SystemSpec => []SystemTypeOK
<1>1. SystemInit => QueueInv /\ Records
  BY QueueFirst DEF SystemInit, Records
<1>2. StoreInv /\ Control /\ QueueInv /\ [SystemNext]_systemVars => QueueInv'
  BY QueueKept DEF StoreInv
<1>3. ASSUME StoreInv, StoreInv', Control, Records, [SystemNext]_systemVars PROVE Records'
  <2>1. ASSUME NEW j \in Job, jobs'[j].status \in Held
        PROVE  jobs'[j].worker \in Worker /\ jobs'[j].epoch \in Epoch
    BY <1>3, <2>1, StoreAssumption, SMTT(20) DEF StoreInv, TypeOK, JobRow, OwnedByARegistration, Epoch
  <2>2. Awaiting \subseteq Job
    BY <1>3 DEF Awaiting, Control, PollInv, MaybeJob
  <2>3. Ghosts => Records'
    BY <1>3, <2>1, <2>2, SMTT(20) DEF Ghosts, Records
  <2>4. UNCHANGED systemVars => Records'
    BY <1>3 DEF systemVars, ghostVars, Records
  <2> QED BY <1>3, <2>3, <2>4, Steps
<1>4. StoreInv /\ Control /\ QueueInv /\ Records => SystemTypeOK
  <2> SUFFICES ASSUME StoreInv, Control, QueueInv, Records PROVE SystemTypeOK
    OBVIOUS
  <2>1. TypeOK
    BY DEF StoreInv
  <2>2. RedisTypeOK
    BY DEF Control, CacheInv, CacheRow, MaybeJob, QueueInv, RedisTypeOK
  <2>3. SchedulerTypeOK
    BY DEF Control, LoopInv, LoopRow, SweepInv, SweepRow, PollInv, MaybeJob, SchedulerTypeOK
  <2>4. GatewayTypeOK
    BY DEF Control, AgentInv, AgentRow, AnswerRow, BeatInv, BeatRow, CacheRow, ReportInv, ReportRow,
           MaybeJob, GatewayTypeOK
  <2> QED
    BY <2>1, <2>2, <2>3, <2>4 DEF Control, DrainInv, DrainRow, MaybeJob, Records, SystemTypeOK
<1> QED
  BY <1>1, <1>2, <1>3, <1>4, SystemInvariant, PTL DEF SystemSpec
================================================================================
