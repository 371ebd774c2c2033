--------------------------------- MODULE Redis ---------------------------------
(***************************************************************************)
(* The Redis side: the worker:{id}:state hashes (WorkerCache) and the job  *)
(* streams with the consumer group's list of pending entries (StreamQueue  *)
(* and the reads of the scheduler loop).  Every call is atomic, and every  *)
(* call may fail: callers log the error and go on.                         *)
(*                                                                         *)
(* The ten priority streams are one bag of entries here, and an entry is   *)
(* the job it carries: any entry may be read next.  The alive keys of      *)
(* SetAlive are left out, since no code reads them.                        *)
(***************************************************************************)
EXTENDS FleetStore

CONSTANTS Budgets  \* bound: how often each kind of input may arrive, one of these

VARIABLES
  cache,    \* worker:{id}:state, per worker
  queue,    \* stream entries not yet delivered, per job
  pending,  \* entries delivered and not yet acknowledged, per job
  left      \* inputs of each kind that may still arrive

redisVars == <<cache, queue, pending, left>>

(* What the environment does to the system, each kind with its own budget.  *)
(* submit: a user submits a job.  drain: an operator or the autoscaler      *)
(* drains or resumes a worker.  call: a Redis, Postgres or gRPC call fails. *)
(* delay: a live worker's heartbeats are late, or its report times out.     *)
(* crash: a worker process dies.  failover: the leader dies and another     *)
(* replica takes over.                                                      *)
Upsets == {"submit", "drain", "call", "delay", "crash", "failover"}

ASSUME BudgetAssumption == Budgets \subseteq [Upsets -> Nat]

Upset(k) == left[k] > 0 /\ left' = [left EXCEPT ![k] = @ - 1]

(* A hash with no field does not exist.  flushed: last_pg_flush_unix is not *)
(* 0, the value that forces a flush on the next heartbeat.                  *)
Missing ==
  [exists |-> FALSE, epoch |-> 0, status |-> "", job |-> None, drain |-> FALSE,
   flushed |-> FALSE]

RedisTypeOK ==
  /\ cache \in [Worker ->
       [exists : BOOLEAN, epoch : 0..MaxEpoch, status : WorkerStatus \cup {""},
        job : Job \cup {None}, drain : BOOLEAN, flushed : BOOLEAN]]
  /\ queue \in [Job -> Nat]
  /\ pending \in [Job -> Nat]
  /\ left \in [Upsets -> Nat]

RedisInit ==
  /\ cache = [w \in Worker |-> Missing]
  /\ queue = [j \in Job |-> 0]
  /\ pending = [j \in Job |-> 0]
  /\ left \in Budgets

(* drain_requested is not one of the fields SetState writes.                *)
SetState(w, e, status, j, flushed) ==
  /\ \/ /\ cache' = [cache EXCEPT ![w] =
             [exists |-> TRUE, epoch |-> e, status |-> status, job |-> j,
              drain |-> @.drain, flushed |-> flushed]]
        /\ UNCHANGED left
     \/ Upset("call") /\ UNCHANGED cache
  /\ UNCHANGED <<queue, pending>>

(* HSET creates the hash when it is missing, with this field only.          *)
SetDrainRequested(w, on) ==
  /\ \/ cache' = [cache EXCEPT ![w].exists = TRUE, ![w].drain = on] /\ UNCHANGED left
     \/ Upset("call") /\ UNCHANGED cache
  /\ UNCHANGED <<queue, pending>>

Delete(w) ==
  /\ \/ cache' = [cache EXCEPT ![w] = Missing] /\ UNCHANGED left
     \/ Upset("call") /\ UNCHANGED cache
  /\ UNCHANGED <<queue, pending>>

Enqueue(j) ==
  /\ \/ queue' = [queue EXCEPT ![j] = @ + 1] /\ UNCHANGED left
     \/ Upset("call") /\ UNCHANGED queue
  /\ UNCHANGED <<cache, pending>>

(* XREADGROUP delivers a new entry (">") or reads a pending one again ("0"). *)
ReadGroup(j) ==
  /\ \/ queue[j] > 0 /\ queue' = [queue EXCEPT ![j] = @ - 1]
                     /\ pending' = [pending EXCEPT ![j] = @ + 1]
     \/ pending[j] > 0 /\ UNCHANGED <<queue, pending>>
  /\ UNCHANGED <<cache, left>>

Ack(j) ==
  /\ \/ pending' = [pending EXCEPT ![j] = @ - 1] /\ UNCHANGED left
     \/ Upset("call") /\ UNCHANGED pending
  /\ UNCHANGED <<cache, queue>>

Entries(j) == queue[j] + pending[j]
================================================================================
