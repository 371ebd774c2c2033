------------------------------- MODULE Freshness -------------------------------
(***************************************************************************)
(* How old the last_heartbeat of one worker gets.  Heartbeats arrive every *)
(* few seconds, but handleHeartbeat writes them to Postgres only on a      *)
(* status change or once the coalescing interval has passed since          *)
(* last_pg_flush_unix, a cache field that other handlers write, too; the   *)
(* reaper looks at Postgres alone.                                         *)
(*                                                                         *)
(* FleetStore has one bit for this (fresh) and ControlPlane lets it lapse. *)
(* Here time is counted, in ticks of which Hz make a second, and the       *)
(* handlers are single steps.  last_pg_flush_unix counts whole seconds of  *)
(* the wall clock, so phase, the place of the present tick in its second,  *)
(* is part of the state.                                                   *)
(***************************************************************************)
EXTENDS Naturals

CONSTANTS
  Hz,         \* ticks per second
  Coalesce,   \* pgFlushCoalesceInterval, in seconds
  Gap,        \* ticks between two heartbeats handled, at most
  Timeout,    \* the heartbeat timeout, in ticks
  SweepEvery, \* ticks between two sweeps of the reaper, at most
  MaxMissed   \* bound: flushes that fail in a row

ASSUME FreshnessAssumption ==
  /\ Hz \in Nat \ {0}
  /\ Coalesce \in Nat \ {0}
  /\ Gap \in Nat
  /\ Timeout \in Nat
  /\ SweepEvery \in Nat
  /\ MaxMissed \in Nat

VARIABLES
  up,      \* the worker's process runs and its stream is open
  dead,    \* the row says DEAD
  busy,    \* the agent reports BUSY with a job
  cached,  \* the status in the cache says BUSY
  since,   \* seconds by the clock since last_pg_flush_unix, up to Coalesce
  lag,     \* ticks since last_heartbeat
  quiet,   \* ticks since a heartbeat was last handled, or since registration
  swept,   \* ticks since the last sweep
  phase,   \* ticks since the last full second
  stamps,  \* results recorded since last_heartbeat was written
  missed   \* flushes that failed since last_heartbeat was written

worker == <<up, dead, busy, cached>>
counts == <<stamps, missed>>
vars == <<worker, counts, since, lag, quiet, swept, phase>>

Init ==
  /\ up = TRUE /\ dead = FALSE /\ busy = FALSE /\ cached = FALSE
  /\ since = Coalesce /\ lag = 0 /\ quiet = 0
  /\ stamps = 0 /\ missed = 0
  /\ swept = 0 /\ phase \in 0..(Hz - 1)

-------------------------------------------------------------------------------
(* RegisterWorker: last_heartbeat is now, and last_pg_flush_unix is 0,      *)
(* which is more than any interval ago.                                     *)
Register ==
  /\ ~up
  /\ up' = TRUE /\ dead' = FALSE /\ busy' = FALSE /\ cached' = FALSE
  /\ since' = Coalesce /\ lag' = 0 /\ quiet' = 0
  /\ stamps' = 0 /\ missed' = 0
  /\ UNCHANGED <<swept, phase>>

(* Time passes.  A heartbeat is never more than Gap, nor a sweep more than  *)
(* SweepEvery, behind the one before.                                       *)
Tick ==
  /\ up \/ ~dead
  /\ up => quiet < Gap
  /\ swept < SweepEvery
  /\ lag' = lag + 1 /\ quiet' = quiet + 1 /\ swept' = swept + 1
  /\ IF phase + 1 < Hz
     THEN phase' = phase + 1 /\ since' = since
     ELSE phase' = 0 /\ since' = IF since < Coalesce THEN since + 1 ELSE since
  /\ UNCHANGED <<worker, counts>>

FlushesLate == busy # cached \/ since > Coalesce
(* statusChanged || dueForFlush                                             *)
MustFlush == busy # cached \/ since >= Coalesce

StampsFailedFlush ==
  /\ up /\ ~dead
  /\ \/ /\ MustFlush
        /\ lag' = 0 /\ since' = 0 /\ stamps' = 0 /\ missed' = 0
     \/ /\ MustFlush
        /\ missed < MaxMissed
        /\ since' = 0 /\ missed' = missed + 1
        /\ UNCHANGED <<lag, stamps>>
     \/ /\ ~MustFlush
        /\ UNCHANGED <<lag, since, counts>>
  /\ quiet' = 0
  /\ cached' = busy
  /\ busy' = (busy \/ cached)
  /\ UNCHANGED <<up, dead, swept, phase>>
(* handleHeartbeat and the agent's reaction to the response: a pending      *)
(* assignment in the cache starts the job.  A failed UpdateHeartbeat leaves *)
(* last_pg_flush_unix as it was.                                            *)
Heartbeat ==
  /\ up /\ ~dead
  /\ \/ /\ MustFlush
        /\ lag' = 0 /\ since' = 0 /\ stamps' = 0 /\ missed' = 0
     \/ /\ MustFlush
        /\ missed < MaxMissed
        /\ missed' = missed + 1
        /\ UNCHANGED <<lag, since, stamps>>
     \/ /\ ~MustFlush
        /\ UNCHANGED <<lag, since, counts>>
  /\ quiet' = 0
  /\ cached' = busy
  /\ busy' = (busy \/ cached)
  /\ UNCHANGED <<up, dead, swept, phase>>

(* The heartbeat of a worker that is DEAD is answered with NotFound, and    *)
(* the agent exits.                                                         *)
Rejected ==
  /\ up /\ dead
  /\ up' = FALSE
  /\ UNCHANGED <<dead, busy, cached, counts, since, lag, quiet, swept, phase>>

Crash ==
  /\ up
  /\ up' = FALSE
  /\ UNCHANGED <<dead, busy, cached, counts, since, lag, quiet, swept, phase>>

(* processMessage commits an assignment and caches it, with                 *)
(* last_pg_flush_unix at 0.                                                 *)
Assign ==
  /\ ~dead /\ ~busy /\ ~cached
  /\ cached' = TRUE
  /\ since' = Coalesce
  /\ UNCHANGED <<up, dead, busy, counts, lag, quiet, swept, phase>>

(* ReportJobResult and finishJob.  A result that is recorded frees the      *)
(* worker and stamps its cache entry with the present time, although the    *)
(* row's last_heartbeat is not written.  One that is discarded (always so   *)
(* when the worker is DEAD, since its job was requeued), or after which a   *)
(* call fails, leaves the cache alone.                                      *)
Finish ==
  /\ up /\ busy
  /\ busy' = FALSE
  /\ \/ /\ ~dead
        /\ cached' = FALSE /\ since' = 0 /\ stamps' = stamps + 1
     \/ UNCHANGED <<cached, since, stamps>>
  /\ UNCHANGED <<up, dead, missed, lag, quiet, swept, phase>>

(* syncDrainToCache and doScaleDown write 0 as well, and the status they    *)
(* have just read from the row.                                             *)
SyncDrain ==
  /\ ~dead
  /\ since' = Coalesce
  /\ UNCHANGED <<worker, counts, lag, quiet, swept, phase>>

Stale == lag > Timeout

(* Reaper.sweep: ListStale and MarkDeadAndRequeue.                          *)
SkipsStale ==
  /\ swept' = 0
  /\ dead' = (dead \/ (Stale /\ ~busy))
  /\ UNCHANGED <<up, busy, cached, counts, since, lag, quiet, phase>>
Sweep ==
  /\ swept' = 0
  /\ dead' = (dead \/ Stale)
  /\ UNCHANGED <<up, busy, cached, counts, since, lag, quiet, phase>>

Next ==
  \/ Register \/ Tick \/ Heartbeat \/ Rejected \/ Crash
  \/ Assign \/ Finish \/ SyncDrain \/ Sweep

Spec == Init /\ [][Next]_vars

-------------------------------------------------------------------------------
(* Properties.                                                              *)

(* The types, and that heartbeats of a live worker are on time.             *)
TypeOK ==
  /\ up \in BOOLEAN /\ dead \in BOOLEAN /\ busy \in BOOLEAN /\ cached \in BOOLEAN
  /\ since \in 0..Coalesce /\ lag \in Nat /\ quiet \in Nat
  /\ swept \in 0..SweepEvery /\ phase \in 0..(Hz - 1)
  /\ stamps \in Nat /\ missed \in Nat
  /\ up => quiet <= Gap

(* The coalescing interval and the heartbeat that ends it, in ticks.        *)
Window == Coalesce * Hz + Gap

(* How far last_heartbeat lags behind a worker whose heartbeats are on      *)
(* time: one coalescing window; one more for every result recorded in       *)
(* between, since ReportJobResult restarts the interval without a write;    *)
(* and one heartbeat for every flush that failed.                           *)
LagIsBounded == up => lag < Window + stamps * Window + missed * Gap

(* With the coalescing window within the timeout (15s + 5s and 20s by       *)
(* default) the reaper never finds a live worker stale, except after a      *)
(* result or a failed flush.                                                *)
OnTimeIsFresh ==
  Window <= Timeout /\ up /\ stamps = 0 /\ missed = 0 => ~Stale

(* A worker that falls silent is DEAD at most one timeout and one sweep     *)
(* interval after its last heartbeat, whatever flushes were coalesced,      *)
(* failed or forced before: writing less often never delays the detection.  *)
SilenceIsNoticed == quiet > Timeout + SweepEvery => dead

-------------------------------------------------------------------------------
(* docs/01-architecture-overview.md: "DEAD after 20s silence".  A worker    *)
(* whose process runs becomes DEAD only after it was silent for the         *)
(* timeout.  After a result the worker's heartbeats are not written for     *)
(* another 15s, and the reaper takes it for dead between two of them.       *)
DeadMeansSilent == [][dead' /\ ~dead /\ up => quiet > Timeout]_vars
================================================================================
