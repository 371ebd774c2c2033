------------------------------- MODULE JobStreams -------------------------------
(***************************************************************************)
(* How a job gets into a priority stream and out of it again: submission   *)
(* with idempotency keys (SubmitJob, Create), the retry poller, the        *)
(* reaper's requeue, trimming by MAXLEN, and the ticks of the scheduler    *)
(* loop, which read up to Count entries of every stream, first new ones    *)
(* and then pending ones.                                                  *)
(*                                                                         *)
(* Any replica may tick: a standby becomes leader, and for a while two may *)
(* believe they lead (LeaderElection).  All read as the same consumer.     *)
(* Request j creates job j, if it creates one.  The fleet is only the set  *)
(* of jobs that some worker could take now.                                *)
(***************************************************************************)
EXTENDS Naturals, FiniteSets

CONSTANTS
  Replica, Job, Key, None,
  KeyOf,      \* the idempotency key a request carries, or None
  Priority,   \* the streams: 0..9 in the code
  PriorityOf, \* the priority a request asks for
  Count,      \* entries of each stream that one read returns
  MaxLen,     \* MAXLEN of a stream
  MaxRetries, \* bound: retries and reaps of all jobs
  MaxFaults   \* bound: failed calls and deaths of processes

ASSUME StreamsAssumption ==
  /\ None \notin Key /\ None \notin Job
  /\ KeyOf \in [Job -> Key \cup {None}]
  /\ Priority \subseteq Nat
  /\ PriorityOf \in [Job -> Priority]
  /\ Count \in Nat \ {0} /\ MaxLen \in Nat /\ MaxRetries \in Nat /\ MaxFaults \in Nat

VARIABLES
  request,    \* SubmitJob, per request
  status,     \* jobs.status; "none" before the row exists
  retries,    \* retries and reaps so far, of all jobs
  polled,     \* jobs the retry poller has marked QUEUED and has yet to enqueue
  ready,      \* jobs for which ListReadyCandidates is not empty
  entries,    \* every entry ever added to a stream
  low,        \* per stream, the last id that was trimmed
  delivered,  \* entries delivered to the consumer
  pel,        \* the consumer's pending entries
  loop,       \* the tick in progress, per replica
  faults,     \* faults so far
  raced,      \* history: pairs of requests of which one looked up its key
              \* while the other was between lookup and insert
  lost        \* history: jobs whose enqueuing failed, that the reaper requeued
              \* or an entry of which was trimmed before it was acknowledged,
              \* and that were not enqueued since

requestVars == <<request, raced>>
jobVars == <<status, retries, polled, ready>>
streamVars == <<entries, low, delivered, pel>>
vars == <<requestVars, jobVars, streamVars, loop, faults, lost>>

Entry == [stream : Priority, id : Nat \ {0}, job : Job]

Start == [pc |-> "read", pass |-> ">", batch |-> {}]

Init ==
  /\ request = [j \in Job |-> "unsent"]
  /\ status = [j \in Job |-> "none"]
  /\ retries = 0
  /\ polled = {} /\ ready = {} /\ entries = {} /\ delivered = {} /\ pel = {}
  /\ low = [p \in Priority |-> 0]
  /\ loop = [r \in Replica |-> Start]
  /\ faults = 0
  /\ raced = {} /\ lost = {}

Fault == faults < MaxFaults /\ faults' = faults + 1

-------------------------------------------------------------------------------
(* The streams.                                                             *)

In(p) == {e \in entries : e.stream = p}
Trimmed(e) == e.id <= low[e.stream]
Top(p) == Cardinality(In(p))

(* Enqueue: XADD with MAXLEN ~, which may keep more than MaxLen entries.    *)
(* What is trimmed is gone from the stream, read and acknowledged or not.   *)
Enqueue(j) ==
  LET p == PriorityOf[j] IN
  /\ entries' = entries \cup {[stream |-> p, id |-> Top(p) + 1, job |-> j]}
  /\ low' \in {[low EXCEPT ![p] = n] :
                 n \in {low[p]} \cup {m \in low[p]..Top(p) : m + MaxLen <= Top(p) + 1}}
  /\ lost' = (lost \ {j}) \cup
       {e.job : e \in {f \in In(p) : /\ f.job # j /\ f.id <= low'[p]
                                     /\ f \notin delivered \/ f \in pel}}
  /\ UNCHANGED <<delivered, pel>>

(* An enqueuer that fails, or dies before the call, is not made up for.     *)
NotEnqueued(j) == lost' = lost \cup {j} /\ UNCHANGED streamVars

-------------------------------------------------------------------------------
(* SubmitJob.                                                               *)

SameKey(i, j) == KeyOf[i] = KeyOf[j] /\ KeyOf[j] # None

FindsOpenJobs(j) == {i \in Job : SameKey(i, j) /\ status[i] = "QUEUED"}
getByIdempotencyKey(j) == {i \in Job : SameKey(i, j) /\ status[i] # "none"}

(* Create up to the lookup, which only a request with a key makes; a job    *)
(* that exists is answered with 409, and its enqueuing is not looked into.  *)
Lookup(j) ==
  /\ request[j] = "unsent"
  /\ \/ /\ getByIdempotencyKey(j) = {}
        /\ request' = [request EXCEPT ![j] = "looked"]
        /\ UNCHANGED faults
     \/ /\ getByIdempotencyKey(j) # {}
        /\ request' = [request EXCEPT ![j] = "conflict"]
        /\ UNCHANGED faults
     \/ /\ KeyOf[j] # None /\ Fault
        /\ request' = [request EXCEPT ![j] = "failed"]
  /\ raced' = raced \cup {<<i, j>> : i \in {k \in Job : SameKey(k, j) /\ request[k] = "looked"}}
  /\ UNCHANGED <<jobVars, streamVars, loop, lost>>

(* The INSERT.  When the call fails, or the replica dies, the row may have  *)
(* been committed.                                                          *)
Insert(j) ==
  /\ request[j] = "looked"
  /\ \/ /\ status' = [status EXCEPT ![j] = "QUEUED"]
        /\ request' = [request EXCEPT ![j] = "inserted"]
        /\ UNCHANGED <<faults, lost>>
     \/ /\ Fault
        /\ request' = [request EXCEPT ![j] = "failed"]
        /\ \/ status' = [status EXCEPT ![j] = "QUEUED"] /\ lost' = lost \cup {j}
           \/ UNCHANGED <<status, lost>>
  /\ UNCHANGED <<retries, polled, ready, streamVars, loop, raced>>

(* The answer is 202 also when the call fails.                              *)
Submit(j) ==
  /\ request[j] = "inserted"
  /\ request' = [request EXCEPT ![j] = "accepted"]
  /\ (Enqueue(j) /\ UNCHANGED faults) \/ (Fault /\ NotEnqueued(j))
  /\ UNCHANGED <<jobVars, loop, raced>>

-------------------------------------------------------------------------------
(* After an assignment: a job that fails is RETRYING, and the retry poller  *)
(* puts it back.                                                            *)
Retry(j) ==
  /\ status[j] = "ASSIGNED" /\ retries < MaxRetries
  /\ status' = [status EXCEPT ![j] = "RETRYING"]
  /\ retries' = retries + 1
  /\ UNCHANGED <<requestVars, polled, ready, streamVars, loop, faults, lost>>

(* A job of a dead worker is QUEUED again, without an entry: sweep adds     *)
(* none.  The job was selected while it was held; its worker's report may   *)
(* have made it RETRYING since.                                             *)
MarkDeadAndRequeue(j) ==
  /\ status[j] \in {"ASSIGNED", "RETRYING"} /\ retries < MaxRetries
  /\ status' = [status EXCEPT ![j] = "QUEUED"]
  /\ retries' = retries + 1
  /\ lost' = lost \cup {j}
  /\ UNCHANGED <<requestVars, polled, ready, streamVars, loop, faults>>

MarkQueuedFromRetry(j) ==
  /\ status[j] = "RETRYING"
  /\ status' = [status EXCEPT ![j] = "QUEUED"]
  /\ polled' = polled \cup {j}
  /\ UNCHANGED <<requestVars, retries, ready, streamVars, loop, faults, lost>>

Requeue(j) ==
  /\ j \in polled
  /\ polled' = polled \ {j}
  /\ (Enqueue(j) /\ UNCHANGED faults) \/ (Fault /\ NotEnqueued(j))
  /\ UNCHANGED <<requestVars, status, retries, ready, loop>>

(* Workers come, go and fill up; only candidates for a QUEUED job are asked *)
(* for.                                                                     *)
FleetChanges(j) ==
  /\ status[j] = "QUEUED"
  /\ ready' = IF j \in ready THEN ready \ {j} ELSE ready \cup {j}
  /\ UNCHANGED <<requestVars, status, retries, polled, streamVars, loop, faults, lost>>

-------------------------------------------------------------------------------
(* readAndProcess.                                                          *)

(* Up to Count of every stream, in the order of their ids.                  *)
Oldest(S) ==
  {e \in S : Cardinality({f \in S : f.stream = e.stream /\ f.id < e.id}) < Count}

Fresh == {e \in entries : ~Trimmed(e) /\ e \notin delivered}

(* A pending entry that has been trimmed is returned without its fields.    *)
Fields(e) == IF Trimmed(e) THEN [e EXCEPT !.job = None] ELSE e

(* The rest of the batch; after it the other pass, which is the next tick's *)
(* when this was the pending one.                                           *)
Onward(r, B) ==
  loop' = [loop EXCEPT ![r] =
    IF B # {} THEN [pc |-> "work", pass |-> loop[r].pass, batch |-> B]
    ELSE [Start EXCEPT !.pass = IF loop[r].pass = ">" THEN "0" ELSE ">"]]

(* A failed read may have delivered its entries all the same.               *)
ReadNew(r) ==
  LET B == Oldest(Fresh) IN
  /\ loop[r].pc = "read" /\ loop[r].pass = ">"
  /\ \/ Onward(r, B) /\ UNCHANGED faults
     \/ Onward(r, {}) /\ Fault
  /\ \/ delivered' = delivered \cup B /\ pel' = pel \cup B
     \/ faults' # faults /\ UNCHANGED <<delivered, pel>>
  /\ UNCHANGED <<requestVars, jobVars, entries, low, lost>>

SkipsPending(r) ==
  /\ loop[r].pc = "read" /\ loop[r].pass = "0"
  /\ Onward(r, {})
  /\ UNCHANGED <<requestVars, jobVars, streamVars, lost, faults>>
ReadPending(r) ==
  /\ loop[r].pc = "read" /\ loop[r].pass = "0"
  /\ \/ Onward(r, {Fields(e) : e \in Oldest(pel)}) /\ UNCHANGED faults
     \/ Onward(r, {}) /\ Fault
  /\ UNCHANGED <<requestVars, jobVars, streamVars, lost>>

(* Streams in the order of their priority, entries in the order of their    *)
(* ids.                                                                     *)
First(r) ==
  {e \in loop[r].batch : \A f \in loop[r].batch :
     e.stream < f.stream \/ (e.stream = f.stream /\ e.id <= f.id)}

AcksUnmatched(r, e) ==
  /\ loop[r].pc = "work" /\ e \in First(r)
  /\ loop' = [loop EXCEPT ![r].pc = "ack"]
  /\ IF e.job \in ready /\ status[e.job] = "QUEUED"
     THEN status' = [status EXCEPT ![e.job] = "ASSIGNED"]
     ELSE UNCHANGED status
  /\ UNCHANGED <<requestVars, retries, polled, ready, streamVars, lost, faults>>
LeavesSettled(r, e) ==
  /\ loop[r].pc = "work" /\ e \in First(r)
  /\ IF e.job = None \/ (e.job \in ready /\ status[e.job] = "QUEUED")
     THEN loop' = [loop EXCEPT ![r].pc = "ack"]
     ELSE Onward(r, loop[r].batch \ {e})
  /\ IF e.job \in ready /\ status[e.job] = "QUEUED"
     THEN status' = [status EXCEPT ![e.job] = "ASSIGNED"]
     ELSE UNCHANGED status
  /\ UNCHANGED <<requestVars, retries, polled, ready, streamVars, lost, faults>>
(* processMessage: an entry without fields, or of a job that is not QUEUED, *)
(* is acknowledged; one whose job can be assigned is, after that; one that  *)
(* finds no worker, or meets an error, is left, even when the assignment    *)
(* was committed.                                                           *)
Process(r, e) ==
  /\ loop[r].pc = "work" /\ e \in First(r)
  /\ \/ /\ e.job # None => status[e.job] # "QUEUED"
        /\ loop' = [loop EXCEPT ![r].pc = "ack"]
        /\ UNCHANGED <<status, faults>>
     \/ /\ e.job # None /\ status[e.job] = "QUEUED" /\ e.job \in ready
        /\ status' = [status EXCEPT ![e.job] = "ASSIGNED"]
        /\ loop' = [loop EXCEPT ![r].pc = "ack"]
        /\ UNCHANGED faults
     \/ /\ e.job # None /\ status[e.job] = "QUEUED" /\ e.job \notin ready
        /\ Onward(r, loop[r].batch \ {e})
        /\ UNCHANGED <<status, faults>>
     \/ /\ e.job # None
        /\ Onward(r, loop[r].batch \ {e})
        /\ Fault
        /\ \/ UNCHANGED status
           \/ /\ status[e.job] = "QUEUED" /\ e.job \in ready
              /\ status' = [status EXCEPT ![e.job] = "ASSIGNED"]
  /\ UNCHANGED <<requestVars, retries, polled, ready, streamVars, lost>>

(* XACK; when it fails the entry stays pending.                             *)
Ack(r, e) ==
  /\ loop[r].pc = "ack" /\ e \in First(r)
  /\ Onward(r, loop[r].batch \ {e})
  /\ \/ pel' = {f \in pel : f.stream # e.stream \/ f.id # e.id} /\ UNCHANGED faults
     \/ Fault /\ UNCHANGED pel
  /\ UNCHANGED <<requestVars, jobVars, entries, low, delivered, lost>>

(* The replica dies; the poller's half-done job is lost with it, if it was  *)
(* this replica's.                                                          *)
Die(r) ==
  /\ Fault
  /\ loop' = [loop EXCEPT ![r] = Start]
  /\ \E P \in SUBSET polled : polled' = polled \ P /\ lost' = lost \cup P
  /\ UNCHANGED <<requestVars, status, retries, ready, streamVars>>

LoopStep(r) ==
  \/ ReadNew(r) \/ ReadPending(r)
  \/ \E e \in loop[r].batch : Process(r, e) \/ Ack(r, e)

Next ==
  \/ \E j \in Job :
       \/ Lookup(j) \/ Insert(j) \/ Submit(j)
       \/ Retry(j) \/ MarkDeadAndRequeue(j)
       \/ MarkQueuedFromRetry(j) \/ Requeue(j)
       \/ FleetChanges(j)
  \/ \E r \in Replica : LoopStep(r) \/ Die(r)

Spec == Init /\ [][Next]_vars

(* Fairness: some replica leads, and its loop takes its next step.          *)
FairSpec == Spec /\ WF_vars(\E r \in Replica : LoopStep(r))

-------------------------------------------------------------------------------
(* Properties.                                                              *)

TypeOK ==
  /\ request \in [Job -> {"unsent", "looked", "inserted", "accepted", "conflict", "failed"}]
  /\ status \in [Job -> {"none", "QUEUED", "ASSIGNED", "RETRYING"}]
  /\ retries \in 0..MaxRetries
  /\ polled \subseteq Job /\ ready \subseteq Job /\ lost \subseteq Job
  /\ entries \subseteq Entry /\ delivered \subseteq entries /\ pel \subseteq delivered
  /\ low \in [Priority -> Nat]
  /\ \A r \in Replica :
       /\ loop[r].pc \in {"read", "work", "ack"} /\ loop[r].pass \in {">", "0"}
       /\ loop[r].batch = {} <=> loop[r].pc = "read"
       /\ \A e \in loop[r].batch : \E f \in delivered : e \in {f, [f EXCEPT !.job = None]}
  /\ raced \subseteq Job \X Job
  /\ faults \in 0..MaxFaults

(* Two jobs with one key come only from requests that were between lookup   *)
(* and insert at the same time; a retry after any failure finds the job.    *)
OneJobPerKey ==
  \A i, j \in Job :
    i # j /\ SameKey(i, j) /\ status[i] # "none" /\ status[j] # "none" =>
      <<i, j>> \in raced \/ <<j, i>> \in raced

Reachable(j) ==
  \E e \in entries : e.job = j /\ ~Trimmed(e) /\ (e \notin delivered \/ e \in pel)

(* A QUEUED job has an entry the loop can still read, whatever two leaders, *)
(* failed reads and failed acknowledgements have done to its entries.  The  *)
(* ways to lose it are the ones named in "lost": a failed Enqueue, MAXLEN,  *)
(* and the reaper (RequeuedWithoutEntry shows that one), until the job is   *)
(* enqueued again.                                                          *)
QueuedIsReachable ==
  \A j \in Job :
    status[j] = "QUEUED" => Reachable(j) \/ request[j] = "inserted" \/ j \in polled \/ j \in lost

Waits(j, S) == status[j] = "QUEUED" /\ j \in ready /\ \E e \in S : e.job = j /\ ~Trimmed(e)

(* A job whose entry is new, or among the Count oldest pending ones of its  *)
(* stream, is assigned once a worker can take it: after a failed read, a    *)
(* death of the leader and next to a second one.                            *)
OldestAreRetried == \A j \in Job : ~<>[]Waits(j, Fresh \cup Oldest(pel))

(* An entry of a job that is not QUEUED any more, a duplicate or one whose  *)
(* acknowledgement failed or died with the leader, does not stay among      *)
(* those a tick reads: processMessage acknowledges it.  (One behind Count   *)
(* older entries that find no worker is not read, and does stay.)           *)
SettledAreAcked ==
  \A j \in Job :
    ~<>[](status[j] # "QUEUED" /\ \E e \in Fresh \cup Oldest(pel) : e.job = j)
================================================================================
