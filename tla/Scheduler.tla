------------------------------- MODULE Scheduler -------------------------------
(***************************************************************************)
(* The goroutines the leader runs: the matching loop (loop.go), the reaper *)
(* (reaper.go) and the retry poller (retrypoller.go).  Each is a program   *)
(* counter with the values it has read and still uses; a step is one call  *)
(* to Postgres or Redis together with the local code up to the next call.  *)
(* Reads that the following compare-and-swap repeats share its caller's    *)
(* first step.                                                             *)
(***************************************************************************)
EXTENDS Redis

VARIABLES
  loop,   \* processMessage: the entry in hand and the candidate chosen
  sweep,  \* Reaper.sweep: the stale workers still to mark, and the current one
  poll    \* RetryPoller.poll: the due jobs listed, and the one to enqueue

leaderVars == <<loop, sweep, poll>>

LoopIdle == [pc |-> "read", job |-> None, worker |-> None, epoch |-> 0]
SweepIdle == [pc |-> "list", todo |-> {}, worker |-> None, epoch |-> 0]
PollIdle == [due |-> {}, job |-> None]

SchedulerInit == loop = LoopIdle /\ sweep = SweepIdle /\ poll = PollIdle

SchedulerTypeOK ==
  /\ loop \in [pc : {"read", "assign", "cache", "ack"}, job : Job \cup {None},
               worker : Worker \cup {None}, epoch : 0..MaxEpoch]
  /\ sweep \in [pc : {"list", "mark", "commit", "delete"},
                todo : SUBSET (Worker \X (1..MaxEpoch)),
                worker : Worker \cup {None}, epoch : 0..MaxEpoch]
  /\ poll \in [due : SUBSET Job, job : Job \cup {None}]

-------------------------------------------------------------------------------
(* The loop.                                                                *)

(* The candidates with the largest fraction of their capacity free; the     *)
(* first of them in the query's unspecified order is chosen.  One without   *)
(* slots has no fraction and is passed over.                                *)
SelectLeastLoaded(S) ==
  LET ranked == {w \in S : workers[w].slots > 0} IN
  {w \in ranked : \A v \in ranked :
     workers[w].avail * workers[v].slots >= workers[v].avail * workers[w].slots}

AcksUnmatched(j) ==
  /\ loop.pc = "read"
  /\ ReadGroup(j)
  /\ \/ /\ jobs[j].status = "QUEUED"
        /\ \E w \in SelectLeastLoaded(ListReadyCandidates(j)) :
             loop' = [pc |-> "assign", job |-> j, worker |-> w, epoch |-> workers[w].epoch]
     \/ /\ jobs[j].status # "QUEUED" \/ SelectLeastLoaded(ListReadyCandidates(j)) = {}
        /\ loop' = [LoopIdle EXCEPT !.pc = "ack", !.job = j]
  /\ UNCHANGED <<storeVars, sweep, poll>>
(* Reads an entry and its job.  A job that is not QUEUED has its entry      *)
(* acknowledged; one nothing is chosen for leaves its entry pending.        *)
LoopRead(j) ==
  /\ loop.pc = "read"
  /\ ReadGroup(j)
  /\ \/ /\ jobs[j].status # "QUEUED"
        /\ loop' = [LoopIdle EXCEPT !.pc = "ack", !.job = j]
     \/ /\ jobs[j].status = "QUEUED"
        /\ \E w \in SelectLeastLoaded(ListReadyCandidates(j)) :
             loop' = [pc |-> "assign", job |-> j, worker |-> w, epoch |-> workers[w].epoch]
     \/ /\ jobs[j].status = "QUEUED"
        /\ SelectLeastLoaded(ListReadyCandidates(j)) = {}
        /\ UNCHANGED loop
  /\ UNCHANGED <<storeVars, sweep, poll>>

(* A lost race or an error leaves the entry pending.                        *)
LoopAssign ==
  /\ loop.pc = "assign"
  /\ Unlocked(loop.worker)
  /\ \/ /\ AssignJob(loop.job, loop.worker, loop.epoch)
        /\ loop' = [loop EXCEPT !.pc = "cache"]
        /\ UNCHANGED left
     \/ /\ ~Assignable(loop.job, loop.worker, loop.epoch)
        /\ loop' = LoopIdle
        /\ UNCHANGED <<storeVars, left>>
     \/ /\ Upset("call")
        /\ loop' = LoopIdle
        /\ UNCHANGED storeVars
  /\ UNCHANGED <<cache, queue, pending, sweep, poll>>

LoopCache ==
  /\ loop.pc = "cache"
  /\ SetState(loop.worker, loop.epoch, "BUSY", loop.job, FALSE)
  /\ loop' = [LoopIdle EXCEPT !.pc = "ack", !.job = loop.job]
  /\ UNCHANGED <<storeVars, sweep, poll>>

AcksAgain ==
  /\ loop.pc = "ack"
  /\ Ack(loop.job)
  /\ UNCHANGED <<storeVars, loop, sweep, poll>>
LoopAck ==
  /\ loop.pc = "ack"
  /\ Ack(loop.job)
  /\ loop' = LoopIdle
  /\ UNCHANGED <<storeVars, sweep, poll>>

-------------------------------------------------------------------------------
(* The reaper.                                                              *)

SweepList ==
  /\ sweep.pc = "list"
  /\ ListStale # {}
  /\ sweep' = [SweepIdle EXCEPT !.pc = "mark",
                                !.todo = {<<w, workers[w].epoch>> : w \in ListStale}]
  /\ UNCHANGED <<storeVars, redisVars, loop, poll>>

(* The next stale worker; after the last one, the sweep is over.            *)
SweepOn ==
  IF sweep.todo = {} THEN SweepIdle ELSE [SweepIdle EXCEPT !.pc = "mark", !.todo = sweep.todo]

(* When no row matches, the transaction ends and the cache entry is deleted *)
(* all the same.                                                            *)
SweepMark(w, e) ==
  /\ sweep.pc = "mark"
  /\ <<w, e>> \in sweep.todo
  /\ Unlocked(w)
  /\ \/ /\ BeginReap(w, e)
        /\ sweep' = [pc |-> "commit", todo |-> sweep.todo \ {<<w, e>>}, worker |-> w, epoch |-> e]
     \/ /\ ~(EpochIs(w, e) /\ Present(w))
        /\ sweep' = [pc |-> "delete", todo |-> sweep.todo \ {<<w, e>>}, worker |-> w, epoch |-> e]
        /\ UNCHANGED storeVars
  /\ UNCHANGED <<redisVars, loop, poll>>

NoTransaction ==
  /\ sweep.pc = "commit"
  /\ \/ /\ CommitReap(sweep.worker)
        /\ sweep' = [sweep EXCEPT !.pc = "delete"]
        /\ UNCHANGED left
     \/ /\ Upset("call")
        /\ workers' = [workers EXCEPT ![sweep.worker] = Dead(workers[sweep.worker])]
        /\ reap' = [reap EXCEPT ![sweep.worker] = NotReaping]
        /\ sweep' = SweepOn
        /\ UNCHANGED <<jobs, history>>
  /\ UNCHANGED <<cache, queue, pending, loop, poll>>
(* An error rolls back and goes on with the next worker.                    *)
SweepCommit ==
  /\ sweep.pc = "commit"
  /\ \/ /\ CommitReap(sweep.worker)
        /\ sweep' = [sweep EXCEPT !.pc = "delete"]
        /\ UNCHANGED left
     \/ /\ RollbackReap(sweep.worker)
        /\ Upset("call")
        /\ sweep' = SweepOn
  /\ UNCHANGED <<cache, queue, pending, loop, poll>>

SweepDelete ==
  /\ sweep.pc = "delete"
  /\ Delete(sweep.worker)
  /\ sweep' = SweepOn
  /\ UNCHANGED <<storeVars, loop, poll>>

-------------------------------------------------------------------------------
(* The retry poller.                                                        *)

PollList ==
  /\ poll = PollIdle
  /\ ListDueRetries # {}
  /\ poll' = [PollIdle EXCEPT !.due = ListDueRetries]
  /\ UNCHANGED <<storeVars, redisVars, loop, sweep>>

(* A job that is no longer RETRYING is passed over, as is one whose update  *)
(* fails.                                                                   *)
PollMark(j) ==
  /\ poll.job = None
  /\ j \in poll.due
  /\ \/ /\ MarkQueuedFromRetry(j)
        /\ poll' = [due |-> poll.due \ {j}, job |-> j]
        /\ UNCHANGED left
     \/ /\ (jobs[j].status # "RETRYING" /\ UNCHANGED left) \/ Upset("call")
        /\ poll' = [due |-> poll.due \ {j}, job |-> None]
        /\ UNCHANGED storeVars
  /\ UNCHANGED <<cache, queue, pending, loop, sweep>>

PollEnqueue ==
  /\ poll.job # None
  /\ Enqueue(poll.job)
  /\ poll' = [poll EXCEPT !.job = None]
  /\ UNCHANGED <<storeVars, loop, sweep>>

-------------------------------------------------------------------------------
(* The leader dies: what its goroutines held in memory is gone, the open    *)
(* transaction is rolled back, and the next leader starts afresh.           *)
Failover ==
  /\ Upset("failover")
  /\ loop' = LoopIdle /\ sweep' = SweepIdle /\ poll' = PollIdle
  /\ reap' = [w \in Worker |-> NotReaping]
  /\ UNCHANGED <<workers, jobs, history, cache, queue, pending>>
================================================================================
