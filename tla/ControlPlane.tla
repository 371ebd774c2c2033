------------------------------ MODULE ControlPlane ------------------------------
(***************************************************************************)
(* FleetForge as a whole: the leader's goroutines, the gRPC handlers with  *)
(* the worker agents, and the REST handlers that submit jobs and drain     *)
(* workers, over the shared Postgres tables and Redis keys.  The           *)
(* autoscaler's scale-down makes the same three calls as the drain         *)
(* endpoint, so Drain stands for both.                                     *)
(***************************************************************************)
EXTENDS Gateway, Scheduler, FiniteSets

VARIABLES
  submits,  \* SubmitJob calls between Create and Enqueue
  drains,   \* DrainWorker, ResumeWorker or doScaleDown, one at a time per worker
  granted,  \* history: every assignment <<job, worker, epoch>> ever committed
  unsent    \* history: jobs whose enqueuer gave up, by an error or by dying

apiVars == <<submits, drains>>
ghostVars == <<granted, unsent>>
systemVars == <<storeVars, redisVars, leaderVars, gatewayVars, apiVars, ghostVars>>

DrainIdle == [pc |-> "idle", on |-> FALSE, epoch |-> 0, status |-> "", job |-> None]

SystemInit ==
  /\ Init /\ RedisInit /\ SchedulerInit /\ GatewayInit
  /\ submits = {}
  /\ drains = [w \in Worker |-> DrainIdle]
  /\ granted = {}
  /\ unsent = {}

-------------------------------------------------------------------------------
(* REST handlers.                                                           *)

SubmitJob(j, m, c) ==
  /\ Upset("submit")
  /\ Create(j, m, c)
  /\ submits' = submits \cup {j}
  /\ UNCHANGED <<cache, queue, pending, drains>>

SubmitEnqueue(j) ==
  /\ j \in submits
  /\ Enqueue(j)
  /\ submits' = submits \ {j}
  /\ UNCHANGED <<storeVars, drains>>

(* The replica that serves the request dies before it has enqueued.         *)
SubmitDies(j) ==
  /\ j \in submits
  /\ Upset("failover")
  /\ submits' = submits \ {j}
  /\ UNCHANGED <<storeVars, cache, queue, pending, drains>>

(* DrainWorker and ResumeWorker: the row first, then syncDrainToCache with  *)
(* what the update returned.                                                *)
Drain(w, on) ==
  /\ drains[w].pc = "idle"
  /\ Upset("drain")
  /\ IF on THEN RequestDrain(w) ELSE ResumeDrain(w)
  /\ drains' = [drains EXCEPT ![w] =
       [pc |-> "state", on |-> on, epoch |-> workers[w].epoch,
        status |-> workers'[w].status, job |-> workers[w].job]]
  /\ UNCHANGED <<cache, queue, pending, submits>>

SyncState(w) ==
  /\ drains[w].pc = "state"
  /\ SetState(w, drains[w].epoch, drains[w].status, drains[w].job, FALSE)
  /\ drains' = [drains EXCEPT ![w].pc = "flag"]
  /\ UNCHANGED <<storeVars, submits>>

SyncFlag(w) ==
  /\ drains[w].pc = "flag"
  /\ SetDrainRequested(w, drains[w].on)
  /\ drains' = [drains EXCEPT ![w] = DrainIdle]
  /\ UNCHANGED <<storeVars, submits>>

-------------------------------------------------------------------------------
(* Jobs in QUEUED whose stream entry is still to be added by someone.       *)
Awaiting == submits \cup ({poll.job} \ {None})

Ghosts ==
  /\ granted' = granted \cup
       {<<j, jobs'[j].worker, jobs'[j].epoch>> : j \in {i \in Job : jobs'[i].status \in Held}}
  /\ unsent' = unsent \cup {j \in Awaiting : j \notin Awaiting' /\ queue'[j] = queue[j]}

(* A step of the leader, of a handler or agent, or of a REST handler leaves *)
(* the others' program counters alone.                                      *)
Leader(A) == A /\ UNCHANGED <<gatewayVars, apiVars>> /\ Ghosts
Grpc(A) == A /\ UNCHANGED <<leaderVars, apiVars>> /\ Ghosts
Rest(A) == A /\ UNCHANGED <<leaderVars, gatewayVars>> /\ Ghosts
Time(A) == A /\ UNCHANGED <<redisVars, leaderVars, gatewayVars, apiVars>> /\ Ghosts

SystemNext ==
  \/ \E j \in Job :
       \/ Leader(LoopRead(j)) \/ Leader(PollMark(j))
       \/ Rest(SubmitEnqueue(j)) \/ Rest(SubmitDies(j))
       \/ \E m \in RetryRequests, c \in SUBSET Capability : Rest(SubmitJob(j, m, c))
       \/ Time(BackoffElapses(j))
  \/ Leader(LoopAssign) \/ Leader(LoopCache) \/ Leader(LoopAck)
  \/ Leader(SweepList) \/ Leader(SweepCommit) \/ Leader(SweepDelete)
  \/ Leader(PollList) \/ Leader(PollEnqueue)
  \/ Leader(Failover)
  \/ \E w \in Worker :
       \/ \E n \in SlotRequests, c \in SUBSET Capability : Grpc(RegisterWorker(w, n, c))
       \/ Grpc(AgentCrash(w)) \/ Grpc(Lapse(w))
       \/ Grpc(Receive(w)) \/ Grpc(Exit(w))
       \/ Rest(SyncState(w)) \/ Rest(SyncFlag(w))
       \/ \E on \in BOOLEAN : Rest(Drain(w, on))
  \/ \E w \in Worker, e \in Epoch :
       \/ Leader(SweepMark(w, e))
       \/ Grpc(SeedCache(w, e)) \/ Grpc(CancelSeed(w, e))
       \/ Grpc(SendHeartbeat(w, e)) \/ Grpc(ReadState(w, e)) \/ Grpc(Fallback(w, e))
       \/ Grpc(Push(w, e)) \/ Grpc(Confirm(w, e)) \/ Grpc(Flush(w, e))
       \/ Grpc(WriteState(w, e)) \/ Grpc(CancelBeat(w, e))
       \/ \E status \in {"SUCCESS", "FAILED"} : Grpc(Finish(w, e, status))
       \/ Grpc(FinishJob(w, e)) \/ Grpc(GetJob(w, e)) \/ Grpc(Record(w, e))
       \/ Grpc(Free(w, e)) \/ Grpc(CacheFreed(w, e)) \/ Grpc(CancelReport(w, e))

SystemSpec == SystemInit /\ [][SystemNext]_systemVars

(* Fairness: a goroutine that can take its next step takes it.  The         *)
(* coalescing interval of a stream ends again and again, so a heartbeat is  *)
(* flushed again and again; a ticker fires, a timer runs out and an         *)
(* execution ends.  Nothing makes the loop read one entry rather than       *)
(* another (a tick reads ten of a stream), a worker register, a user submit *)
(* or an upset happen.                                                      *)
ReaperFairness ==
  /\ WF_systemVars(Leader(\/ SweepList \/ SweepCommit \/ SweepDelete
                          \/ \E w \in Worker, e \in Epoch : SweepMark(w, e)))
  /\ \A w \in Worker : WF_systemVars(agent[w].phase = "down" /\ Grpc(Lapse(w)))

LeaderFairness ==
  /\ WF_systemVars(Leader(\/ LoopAssign \/ LoopCache \/ LoopAck
                          \/ \E j \in Job : LoopRead(j)))
  /\ WF_systemVars(Leader(PollList \/ PollEnqueue \/ \E j \in Job : PollMark(j)))

WorkerFairness ==
  \A w \in Worker :
    /\ WF_systemVars(Grpc(Receive(w) \/ Exit(w)))
    /\ \A e \in Epoch :
         /\ WF_systemVars(Grpc(SeedCache(w, e) \/ CancelSeed(w, e)))
         /\ WF_systemVars(Grpc(Beating(w, e)))
         /\ SF_systemVars(Grpc(Flush(w, e)))
         /\ WF_systemVars(Grpc(Running(w, e)))

RestFairness ==
  /\ \A w \in Worker : WF_systemVars(Rest(SyncState(w) \/ SyncFlag(w)))
  /\ \A j \in Job : WF_systemVars(Rest(SubmitEnqueue(j))) /\ WF_systemVars(Time(BackoffElapses(j)))

FairSystemSpec ==
  SystemSpec /\ ReaperFairness /\ LeaderFairness /\ WorkerFairness /\ RestFairness

(* The same with only the fairness that a property needs: the reaper runs   *)
(* and time passes; the leader's other goroutines run; the workers and the  *)
(* handlers they call do, and the reaper ends the transaction they may wait *)
(* for.  Nothing else need ever happen.                                     *)
ReapingSpec == SystemSpec /\ ReaperFairness
LeadingSpec ==
  /\ SystemSpec /\ LeaderFairness
  /\ \A j \in Job : WF_systemVars(Time(BackoffElapses(j)))
WorkingSpec ==
  /\ SystemSpec
  /\ \A w \in Worker :
       /\ WF_systemVars(Grpc(Receive(w) \/ Exit(w)))
       /\ \A e \in Epoch : WF_systemVars(Grpc(Beating(w, e))) /\ SF_systemVars(Grpc(Flush(w, e)))
  /\ \A w \in Worker : WF_systemVars(Rest(SyncState(w) \/ SyncFlag(w)))
  /\ WF_systemVars(Leader(SweepCommit))

-------------------------------------------------------------------------------
(* Properties.                                                              *)

(* The caches, program counters and in-flight calls have their types.       *)
SystemTypeOK ==
  /\ TypeOK /\ RedisTypeOK /\ SchedulerTypeOK /\ GatewayTypeOK
  /\ submits \subseteq Job
  /\ drains \in [Worker ->
       [pc : {"idle", "state", "flag"}, on : BOOLEAN, epoch : 0..MaxEpoch,
        status : WorkerStatus \cup {""}, job : Job \cup {None}]]
  /\ granted \subseteq Job \X Worker \X Epoch
  /\ unsent \subseteq Job

(* A QUEUED job has a stream entry, or its enqueuer is still at work.  The  *)
(* only ways to lose one are an enqueuer that gave up (SubmitJob's "known   *)
(* gap") and a requeue by the reaper: no acknowledgement, failed            *)
(* assignment, duplicate entry or failover of the loop does it.             *)
EntriesAccounted ==
  \A j \in Job :
    jobs[j].status = "QUEUED" =>
      \/ Entries(j) > 0
      \/ j \in Awaiting \cup unsent
      \/ history[j].dead > 0

(* An agent only runs a job that AssignJob once gave to its worker under    *)
(* the very epoch the agent registered with, however stale the cache entry  *)
(* the heartbeat handler pushed it from.                                    *)
RunsOnlyWhatWasGranted ==
  \A w \in Worker :
    agent[w].job # None => <<agent[w].job, w, agent[w].epoch>> \in granted

(* A job is given to at most one process, and to one more for every retry   *)
(* it has consumed and every worker_dead row in its history, however often  *)
(* workers restart and assignments are lost: with RunsOnlyWhatWasGranted,   *)
(* no more processes than that ever run it.                                 *)
GrantsOf(j) == {g \in granted : g[1] = j}
AttemptsAreBounded ==
  \A j \in Job : Cardinality(GrantsOf(j)) <= 1 + jobs[j].retries + history[j].dead

(* A job that is held ends, or is parked for a retry, only by the report of *)
(* a process that AssignJob gave the job to under the very epoch the job    *)
(* has: no sweep, push or late report of another epoch does it, nor does    *)
(* one of a process that never had the job.  A sweep puts the job back      *)
(* without charging a retry, as workers.go and docs/05 5.3 say; the "normal *)
(* retry-policy path" of docs/06-failure-scenarios.md is not what happens.  *)
ResultsAreEarned ==
  [][\A j \in Job :
       jobs[j].status \in Held /\ jobs'[j].status \in Terminal \cup {"RETRYING"} =>
         \E w \in Worker :
           LET e == jobs[j].epoch IN
           /\ <<j, w, e>> \in granted
           /\ report[w][e].pc = "record" /\ report[w][e].job = j]_systemVars

(* The components change the tables only as FleetStore's specification      *)
(* allows: all that is proved of FleetStore holds of the whole system.      *)
UsesTheStore == Spec

(* Jobs of a worker whose process is gone are given back, however late its  *)
(* last heartbeats are flushed and whatever was still being assigned to it  *)
(* (reaper.go), unless the process comes back first.                        *)
DeadWorkersAreReaped ==
  \A w \in Worker :
    (agent[w].phase = "down" /\ HeldBy(w) # {}) ~> (HeldBy(w) = {} \/ agent[w].phase # "down")

(* A job parked in RETRYING is brought back once its backoff is over, also  *)
(* when the leader dies between listing it and marking it (retrypoller.go). *)
RetriesComeBack ==
  \A j \in Job : jobs[j].status = "RETRYING" ~> jobs[j].status # "RETRYING"

(* A process declared DEAD while alive is not DEAD for ever: its heartbeats *)
(* are rejected and it exits, or they bring its row back to life, also when *)
(* the reaper's deletion of the cache entry fails, or a late cache write    *)
(* undoes it.                                                               *)
LiveWorkersSettle ==
  \A w \in Worker : <>[](agent[w].phase = "up" => workers[w].status # "DEAD")

(* The reaper is about to delete the cache entry of a drained worker, and   *)
(* drain_requested with it: whoever writes the entry next writes it without *)
(* the flag, and heartbeat.go trusts the entry.                             *)
ForgetsDrain(w) == sweep.pc = "delete" /\ sweep.worker = w /\ workers[w].drain


-------------------------------------------------------------------------------
(* What comments, docs and diagrams of the repository say, and the code     *)
(* does not do.                                                             *)

(* docs/05-sequence-diagrams.md, 5.3: the reaper re-enqueues what it        *)
(* requeues ("XADD queue:jobs:p{n} (the requeued job, ...)"), so a QUEUED   *)
(* job has an entry or someone about to add it.  sweep adds none.           *)
QueuedHasEntry ==
  \A j \in Job : jobs[j].status = "QUEUED" => Entries(j) > 0 \/ j \in Awaiting

(* loop.go, comment in processMessage: writing BUSY to the cache "is what   *)
(* makes the push actually fire on this worker's very next heartbeat".  So  *)
(* no assignment waits for ever.  A handler that read the cache before, or  *)
(* a registration that seeds it after, overwrites the pending assignment.   *)
AssignmentsArePushed ==
  \A j \in Job : jobs[j].status = "ASSIGNED" ~> jobs[j].status # "ASSIGNED"

(* workers.go, comment in Register: a restarted worker's job was requeued   *)
(* by the reaper "well before a real worker process could restart".  So a   *)
(* job held under a superseded epoch is given back.  After a quick restart  *)
(* the row is fresh again and nobody ever looks at the job.                 *)
SupersededIsReleased ==
  \A j \in Job :
    (jobs[j].status \in Held /\ jobs[j].epoch < workers[jobs[j].worker].epoch)
      ~> jobs[j].status \notin Held
================================================================================
