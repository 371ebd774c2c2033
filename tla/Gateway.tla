-------------------------------- MODULE Gateway --------------------------------
(***************************************************************************)
(* The worker-facing side: the gRPC handlers RegisterWorker, Heartbeat and *)
(* ReportJobResult, and the worker agent that calls them.  A handler is a  *)
(* program counter with the values it has read; a step is one call to      *)
(* Postgres or Redis together with the local code up to the next call.     *)
(*                                                                         *)
(* A process of a worker is known by the epoch it registered under, and    *)
(* has one heartbeat stream.  A handler outlives the process that called   *)
(* it: it goes on until it ends or until the cancellation of its context   *)
(* stops it.  Bounds: a stream has at most one request being handled and   *)
(* one answer on its way, and a process one report being handled.          *)
(***************************************************************************)
EXTENDS Redis

VARIABLES
  agent,  \* the process of a worker: agentState, its epoch, runAssignment's stage
  seeds,  \* RegisterWorker calls between Register and the seeding of the cache
  beat,   \* handleHeartbeat, per worker and epoch
  answer, \* the HeartbeatResponse on its way to a worker, if any
  report  \* ReportJobResult, per worker and epoch

gatewayVars == <<agent, seeds, beat, answer, report>>

Epoch == 1..MaxEpoch

Down == [phase |-> "down", epoch |-> 0, job |-> None, drain |-> FALSE, stage |-> "idle"]
BeatIdle == [pc |-> "idle", status |-> "", job |-> None, seen |-> Missing, push |-> None]
NoAnswer == [kind |-> "none", push |-> None, drain |-> FALSE]
Rejected == [kind |-> "reject", push |-> None, drain |-> FALSE]
ReportIdle == [pc |-> "idle", job |-> None, status |-> "", owner |-> None]

GatewayInit ==
  /\ agent = [w \in Worker |-> Down]
  /\ seeds = {}
  /\ beat = [w \in Worker |-> [e \in Epoch |-> BeatIdle]]
  /\ answer = [w \in Worker |-> NoAnswer]
  /\ report = [w \in Worker |-> [e \in Epoch |-> ReportIdle]]

GatewayTypeOK ==
  /\ agent \in [Worker ->
       [phase : {"down", "joining", "up"}, epoch : 0..MaxEpoch, job : Job \cup {None},
        drain : BOOLEAN, stage : {"idle", "run", "wait"}]]
  /\ seeds \subseteq Worker \X Epoch
  /\ beat \in [Worker -> [Epoch ->
       [pc : {"idle", "read", "fallback", "act", "flush", "write"},
        status : ReportedStatus \cup {""}, job : Job \cup {None},
        seen : [exists : BOOLEAN, epoch : 0..MaxEpoch, status : WorkerStatus \cup {""},
                job : Job \cup {None}, drain : BOOLEAN, flushed : BOOLEAN],
        push : Job \cup {None}]]]
  /\ answer \in [Worker ->
       [kind : {"none", "ok", "reject"}, push : Job \cup {None}, drain : BOOLEAN]]
  /\ report \in [Worker -> [Epoch ->
       [pc : {"idle", "get", "record", "free", "cache"}, job : Job \cup {None},
        status : {"", "SUCCESS", "FAILED", "READY", "DRAINING"},
        owner : Worker \cup {None}]]]

Up(w, e) == agent[w].phase = "up" /\ agent[w].epoch = e

-------------------------------------------------------------------------------
(* Registration and the life of a worker process.                           *)

RegisterWorker(w, n, c) ==
  /\ agent[w].phase = "down"
  /\ Register(w, n, c)
  /\ agent' = [agent EXCEPT ![w] = [Down EXCEPT !.phase = "joining",
                                                !.epoch = workers[w].epoch + 1]]
  /\ seeds' = seeds \cup {<<w, workers[w].epoch + 1>>}
  /\ UNCHANGED <<redisVars, beat, answer, report>>

(* The response starts the process up, when it still waits for it.          *)
SeedCache(w, e) ==
  /\ <<w, e>> \in seeds
  /\ SetState(w, e, "READY", None, FALSE)
  /\ seeds' = seeds \ {<<w, e>>}
  /\ agent' = IF agent[w].phase = "joining" /\ agent[w].epoch = e
              THEN [agent EXCEPT ![w].phase = "up"] ELSE agent
  /\ UNCHANGED <<storeVars, beat, answer, report>>

(* The process dies; what it ran dies with it.                              *)
AgentCrash(w) ==
  /\ agent[w].phase # "down"
  /\ Upset("crash")
  /\ agent' = [agent EXCEPT ![w] = Down]
  /\ answer' = [answer EXCEPT ![w] = NoAnswer]
  /\ UNCHANGED <<storeVars, cache, queue, pending, seeds, beat, report>>

(* The context of a call whose caller is gone, or has given up, is          *)
(* cancelled.                                                               *)
CancelSeed(w, e) ==
  /\ <<w, e>> \in seeds
  /\ ~(agent[w].phase = "joining" /\ agent[w].epoch = e)
  /\ seeds' = seeds \ {<<w, e>>}
  /\ UNCHANGED <<storeVars, redisVars, agent, beat, answer, report>>

CancelBeat(w, e) ==
  /\ beat[w][e].pc # "idle"
  /\ ~Up(w, e)
  /\ beat' = [beat EXCEPT ![w][e] = BeatIdle]
  /\ UNCHANGED <<storeVars, redisVars, agent, seeds, answer, report>>

CancelReport(w, e) ==
  /\ report[w][e].pc # "idle"
  /\ ~(Up(w, e) /\ agent[w].stage = "wait")
  /\ report' = [report EXCEPT ![w][e] = ReportIdle]
  /\ UNCHANGED <<storeVars, redisVars, agent, seeds, beat, answer>>

(* last_heartbeat grows old: always, once no process refreshes it; and when *)
(* the heartbeats of a live one are late.  A registration in progress is    *)
(* given up (10s) before that.                                              *)
Lapse(w) ==
  /\ HeartbeatLapses(w)
  /\ \/ agent[w].phase = "down" /\ UNCHANGED left
     \/ agent[w].phase = "up" /\ Upset("delay")
  /\ UNCHANGED <<cache, queue, pending, gatewayVars>>

-------------------------------------------------------------------------------
(* Heartbeats.                                                              *)

(* The agent's status follows from its job and its draining flag.           *)
AgentStatus(a) == IF a.job # None THEN "BUSY" ELSE IF a.drain THEN "DRAINING" ELSE "READY"

SendHeartbeat(w, e) ==
  /\ Up(w, e)
  /\ beat[w][e].pc = "idle"
  /\ answer[w].kind # "reject"
  /\ beat' = [beat EXCEPT ![w][e] =
       [BeatIdle EXCEPT !.pc = "read", !.status = AgentStatus(agent[w]), !.job = agent[w].job]]
  /\ UNCHANGED <<storeVars, redisVars, agent, seeds, answer, report>>

IgnoresStale(w, e) == beat' = [beat EXCEPT ![w][e] = BeatIdle] /\ UNCHANGED answer
(* An error ends the stream; only a process still there hears of it.        *)
Reject(w, e) ==
  /\ beat' = [beat EXCEPT ![w][e] = BeatIdle]
  /\ answer' = IF Up(w, e) THEN [answer EXCEPT ![w] = Rejected] ELSE answer

PushPending(b, seen) ==
  seen.exists /\ seen.status = "BUSY" /\ seen.job # None /\ b.job = None
Confirms(b) == b.status = "BUSY" /\ b.job # None

(* The epoch check passed with what was seen of the worker.                 *)
Proceed(w, e, seen) ==
  /\ LET b == beat[w][e] IN
     beat' = [beat EXCEPT
       ![w][e].seen = seen,
       ![w][e].pc = IF PushPending(b, seen) \/ Confirms(b) THEN "act" ELSE "flush"]
  /\ UNCHANGED answer

SkipsEpochCheck(w, e) ==
  /\ beat[w][e].pc = "read"
  /\ \/ /\ cache[w].exists
        /\ Proceed(w, e, cache[w])
        /\ UNCHANGED left
     \/ /\ (~cache[w].exists /\ UNCHANGED left) \/ Upset("call")
        /\ beat' = [beat EXCEPT ![w][e].pc = "fallback"]
        /\ UNCHANGED answer
  /\ UNCHANGED <<storeVars, cache, queue, pending, agent, seeds, report>>
(* GetState, and on a hit the epoch check.  A failed read is a miss.        *)
ReadState(w, e) ==
  /\ beat[w][e].pc = "read"
  /\ \/ /\ cache[w].exists
        /\ IF cache[w].epoch = e THEN Proceed(w, e, cache[w]) ELSE Reject(w, e)
        /\ UNCHANGED left
     \/ /\ (~cache[w].exists /\ UNCHANGED left) \/ Upset("call")
        /\ beat' = [beat EXCEPT ![w][e].pc = "fallback"]
        /\ UNCHANGED answer
  /\ UNCHANGED <<storeVars, cache, queue, pending, agent, seeds, report>>

(* On a miss, GetEpochAndStatus decides; its failure rejects, too.          *)
Fallback(w, e) ==
  /\ beat[w][e].pc = "fallback"
  /\ \/ /\ Present(w) /\ EpochIs(w, e)
        /\ Proceed(w, e, [Missing EXCEPT !.drain = workers[w].drain])
        /\ UNCHANGED left
     \/ /\ (~(Present(w) /\ EpochIs(w, e)) /\ UNCHANGED left) \/ Upset("call")
        /\ Reject(w, e)
  /\ UNCHANGED <<storeVars, cache, queue, pending, agent, seeds, report>>

(* A pending assignment is pushed if its job is still ASSIGNED.  When the   *)
(* job cannot be loaded nothing is pushed.                                  *)
Push(w, e) ==
  /\ beat[w][e].pc = "act"
  /\ PushPending(beat[w][e], beat[w][e].seen)
  /\ LET j == beat[w][e].seen.job IN
     \/ /\ beat' = [beat EXCEPT ![w][e].pc = "flush",
                                ![w][e].push = IF jobs[j].status = "ASSIGNED" THEN j ELSE None]
        /\ UNCHANGED left
     \/ /\ Upset("call")
        /\ beat' = [beat EXCEPT ![w][e].pc = "flush"]
  /\ UNCHANGED <<storeVars, cache, queue, pending, agent, seeds, answer, report>>

(* The worker says it runs its job: ASSIGNED becomes RUNNING.               *)
Confirm(w, e) ==
  /\ beat[w][e].pc = "act"
  /\ Confirms(beat[w][e])
  /\ \/ MarkRunning(beat[w][e].job, e) /\ UNCHANGED left
     \/ /\ ~(HeldAt(beat[w][e].job, e) /\ jobs[beat[w][e].job].status = "ASSIGNED")
        /\ UNCHANGED <<storeVars, left>>
     \/ Upset("call") /\ UNCHANGED storeVars
  /\ beat' = [beat EXCEPT ![w][e].pc = "flush"]
  /\ UNCHANGED <<cache, queue, pending, agent, seeds, answer, report>>

(* The flush is due after a status change, on a miss, and once the          *)
(* coalescing interval is over; with last_pg_flush_unix at 0 it is over.    *)
MustFlush(b) == ~b.seen.exists \/ b.status # b.seen.status \/ ~b.seen.flushed

(* Of what was seen, the answer and the cache entry still need the drain    *)
(* flag and the time of the last flush.                                     *)
StillUsed(seen, flushed) == [Missing EXCEPT !.drain = seen.drain, !.flushed = flushed]

(* UpdateHeartbeat; matching no row counts as flushed, an error does not.   *)
Flush(w, e) ==
  /\ beat[w][e].pc = "flush"
  /\ Unlocked(w)
  /\ \/ /\ \/ UpdateHeartbeat(w, e, beat[w][e].status, beat[w][e].job)
           \/ ~EpochIs(w, e) /\ UNCHANGED storeVars
        /\ beat' = [beat EXCEPT ![w][e].pc = "write", ![w][e].seen = StillUsed(@, TRUE)]
        /\ UNCHANGED left
     \/ /\ Upset("call")
        /\ beat' = [beat EXCEPT ![w][e].pc = "write", ![w][e].seen = StillUsed(@, @.flushed)]
        /\ UNCHANGED storeVars
  /\ UNCHANGED <<cache, queue, pending, agent, seeds, answer, report>>

(* SetState and the response, which a process that is gone does not get.    *)
WriteState(w, e) ==
  LET b == beat[w][e] IN
  /\ b.pc = "write" \/ (b.pc = "flush" /\ ~MustFlush(b))
  /\ answer[w].kind = "none"
  /\ SetState(w, e, b.status, b.job, b.seen.flushed)
  /\ beat' = [beat EXCEPT ![w][e] = BeatIdle]
  /\ answer' = IF Up(w, e)
               THEN [answer EXCEPT ![w] = [kind |-> "ok", push |-> b.push, drain |-> b.seen.drain]]
               ELSE answer
  /\ UNCHANGED <<storeVars, agent, seeds, report>>

(* A pushed job starts unless the agent is busy or draining; then the       *)
(* draining flag follows the response.                                      *)
Receive(w) ==
  /\ agent[w].phase = "up"
  /\ answer[w].kind = "ok"
  /\ LET starts == answer[w].push # None /\ agent[w].job = None /\ ~agent[w].drain IN
     agent' = [agent EXCEPT
       ![w].job = IF starts THEN answer[w].push ELSE @,
       ![w].stage = IF starts THEN "run" ELSE @,
       ![w].drain = answer[w].drain]
  /\ answer' = [answer EXCEPT ![w] = NoAnswer]
  /\ UNCHANGED <<storeVars, redisVars, seeds, beat, report>>

(* A rejected process exits.                                                *)
Exit(w) ==
  /\ agent[w].phase = "up"
  /\ answer[w].kind = "reject"
  /\ agent' = [agent EXCEPT ![w] = Down]
  /\ answer' = [answer EXCEPT ![w] = NoAnswer]
  /\ UNCHANGED <<storeVars, redisVars, seeds, beat, report>>

-------------------------------------------------------------------------------
(* Results.                                                                 *)

(* The execution ends and its result is sent; the call may be lost.         *)
Finish(w, e, status) ==
  /\ Up(w, e)
  /\ agent[w].stage = "run"
  /\ report[w][e].pc = "idle"
  /\ agent' = [agent EXCEPT ![w].stage = "wait"]
  /\ \/ /\ report' = [report EXCEPT ![w][e] =
             [pc |-> "get", job |-> agent[w].job, status |-> status, owner |-> None]]
        /\ UNCHANGED left
     \/ Upset("call") /\ UNCHANGED report
  /\ UNCHANGED <<storeVars, cache, queue, pending, seeds, beat, answer>>

(* The call returns, or its 10s are over: the agent is free in any case.    *)
FinishJob(w, e) ==
  /\ Up(w, e)
  /\ agent[w].stage = "wait"
  /\ \/ report[w][e].pc = "idle" /\ UNCHANGED left
     \/ report[w][e].pc # "idle" /\ Upset("delay")
  /\ agent' = [agent EXCEPT ![w].stage = "idle", ![w].job = None]
  /\ UNCHANGED <<storeVars, cache, queue, pending, seeds, beat, answer, report>>

(* The job is loaded; its worker_id says whom to free later.                *)
GetJob(w, e) ==
  /\ report[w][e].pc = "get"
  /\ \/ /\ report' = [report EXCEPT ![w][e].pc = "record",
                                    ![w][e].owner = jobs[report[w][e].job].worker]
        /\ UNCHANGED left
     \/ /\ Upset("call")
        /\ report' = [report EXCEPT ![w][e] = ReportIdle]
  /\ UNCHANGED <<storeVars, cache, queue, pending, agent, seeds, beat, answer>>

(* Complete or RetryOrFail.  A result that matches no row is discarded.     *)
Record(w, e) ==
  LET r == report[w][e] IN
  /\ r.pc = "record"
  /\ \/ /\ IF r.status = "FAILED" THEN RetryOrFail(r.job, e) ELSE Complete(r.job, e, r.status)
        /\ report' = [report EXCEPT ![w][e] =
             IF r.owner # None THEN [r EXCEPT !.pc = "free", !.status = ""] ELSE ReportIdle]
        /\ UNCHANGED left
     \/ /\ ~HeldAt(r.job, e)
        /\ report' = [report EXCEPT ![w][e] = ReportIdle]
        /\ UNCHANGED <<storeVars, left>>
     \/ /\ Upset("call")
        /\ report' = [report EXCEPT ![w][e] = ReportIdle]
        /\ UNCHANGED storeVars
  /\ UNCHANGED <<cache, queue, pending, agent, seeds, beat, answer>>

(* FreeWorker; a worker that has registered again is left alone.            *)
Free(w, e) ==
  LET r == report[w][e] IN
  /\ r.pc = "free"
  /\ Unlocked(r.owner)
  /\ \/ /\ FreeWorker(r.owner, e)
        /\ report' = [report EXCEPT ![w][e] =
             [r EXCEPT !.pc = "cache", !.status = Freed(workers[r.owner]).status]]
        /\ UNCHANGED left
     \/ /\ ~EpochIs(r.owner, e)
        /\ report' = [report EXCEPT ![w][e] = ReportIdle]
        /\ UNCHANGED <<storeVars, left>>
     \/ /\ Upset("call")
        /\ report' = [report EXCEPT ![w][e] = ReportIdle]
        /\ UNCHANGED storeVars
  /\ UNCHANGED <<cache, queue, pending, agent, seeds, beat, answer>>

CacheFreed(w, e) ==
  LET r == report[w][e] IN
  /\ r.pc = "cache"
  /\ SetState(r.owner, e, r.status, None, TRUE)
  /\ report' = [report EXCEPT ![w][e] = ReportIdle]
  /\ UNCHANGED <<storeVars, agent, seeds, beat, answer>>

-------------------------------------------------------------------------------
(* The goroutines of one process: the heartbeat stream and the execution.   *)
Beating(w, e) ==
  \/ SendHeartbeat(w, e) \/ ReadState(w, e) \/ Fallback(w, e) \/ Push(w, e)
  \/ Confirm(w, e) \/ Flush(w, e) \/ WriteState(w, e) \/ CancelBeat(w, e)

Running(w, e) ==
  \/ \E status \in {"SUCCESS", "FAILED"} : Finish(w, e, status)
  \/ FinishJob(w, e) \/ GetJob(w, e) \/ Record(w, e) \/ Free(w, e) \/ CacheFreed(w, e)
  \/ CancelReport(w, e)
================================================================================
