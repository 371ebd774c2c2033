------------------------------- MODULE Autoscaler -------------------------------
(***************************************************************************)
(* The autoscaler (autoscaler.go) of every replica, gated by the election. *)
(* Its samples and the times of its last actions are in the memory of its  *)
(* process: a new process starts without them, and one that leads again    *)
(* still has those of its last term.                                       *)
(*                                                                         *)
(* The fleet is what the autoscaler's queries see of it; other parts of    *)
(* the system and an operator change it at any time.  Time is counted in   *)
(* ticker intervals.                                                       *)
(***************************************************************************)
EXTENDS LeaderElection, Sequences, FiniteSets

CONSTANTS
  Worker,                      \* numbered by registered_at, which Register sets once
  Up, Down, Unit,              \* thresholds: queued jobs per Unit workers
  UpCooldown, DownCooldown,    \* in ticker intervals
  Window,                      \* TrendWindowSamples
  MaxDepth,                    \* bound: queued jobs
  MaxStall                     \* bound: intervals a tick's calls may take

ASSUME AutoscalerAssumption ==
  /\ Worker \subseteq Nat
  /\ Up \in Nat /\ Down \in Nat /\ Down <= Up /\ Unit \in Nat \ {0}
  /\ UpCooldown \in Nat /\ DownCooldown \in Nat
  /\ Window \in Nat \ {0}
  /\ MaxDepth \in Nat /\ MaxStall \in Nat

VARIABLES
  fleet,      \* workers: status, whether all slots are free, drain_requested;
              \* its domain, the workers that ever register, does not change
  depth,      \* jobs QUEUED
  samples,    \* queueDepthSamples, per replica
  sinceUp,    \* intervals since lastScaleUp, up to the cooldown
  sinceDown,  \* intervals since lastScaleDown, up to the cooldown
  scan,       \* a tick in progress: its next call, the candidate, its age
  fired,      \* the ticker has fired since the last tick
  sinceDrain  \* history: intervals since the process last drained a worker

memory == <<samples, sinceUp, sinceDown, scan, fired, sinceDrain>>
fleetVars == <<fleet, depth>>
vars == <<electionVars, memory, fleetVars>>

Idle == [pc |-> "idle", worker |-> None, age |-> 0]

(* A process begins with the zero time for both actions: long ago.          *)
Init ==
  /\ ElectionInit
  /\ \E W \in SUBSET Worker :
       fleet = [w \in W |-> [status |-> "READY", free |-> TRUE, drain |-> FALSE]]
  /\ depth = 0
  /\ samples = [r \in Replica |-> <<>>]
  /\ sinceUp = [r \in Replica |-> UpCooldown]
  /\ sinceDown = [r \in Replica |-> DownCooldown]
  /\ scan = [r \in Replica |-> Idle]
  /\ fired = [r \in Replica |-> FALSE]
  /\ sinceDrain = [r \in Replica |-> DownCooldown]

-------------------------------------------------------------------------------
(* Decisions.                                                               *)

CountByStatus(s) == Cardinality({w \in DOMAIN fleet : fleet[w].status = s})
FleetSize == CountByStatus("READY") + CountByStatus("BUSY")

(* queuedPerWorker; queued jobs without any worker are over any threshold.  *)
Above(n) == IF FleetSize > 0 THEN depth * Unit > n * FleetSize ELSE depth > 0
Below(n) == IF FleetSize > 0 THEN depth * Unit < n * FleetSize ELSE depth = 0 /\ n > 0

recordSample(s, d) ==
  IF Len(s) < Window THEN Append(s, d) ELSE Append(Tail(s), d)

OnlyRising(s) == Len(s) >= Window /\ \A i \in 2..Len(s) : s[i] > s[i - 1]
trendIsFlatOrRising(s) ==
  Len(s) >= Window /\ \A i \in 2..Len(s) : s[i] >= s[i - 1]

IdleWorkers ==
  {w \in Worker \cap DOMAIN fleet :
     fleet[w].status = "READY" /\ fleet[w].free /\ ~fleet[w].drain}

(* ORDER BY registered_at LIMIT 1: the one that registered first, if any.   *)
PickDrainCandidate == {w \in IdleWorkers : \A v \in IdleWorkers : w <= v}

-------------------------------------------------------------------------------
(* tick: the two counts, the sample and the decision; a failed count ends   *)
(* the tick.                                                                *)
ScalesUp(s, r) == Above(Up) /\ trendIsFlatOrRising(s) /\ sinceUp[r] >= UpCooldown
SparesTheLast(r) ==
  Below(Down) /\ CountByStatus("READY") > 1 /\ sinceDown[r] >= DownCooldown
ScalesDown(r) ==
  Below(Down) /\ CountByStatus("READY") > 0 /\ sinceDown[r] >= DownCooldown

(* Nothing is provisioned: the recommendation is logged and its time kept.  *)
doScaleUp(r) == sinceUp' = [sinceUp EXCEPT ![r] = 0]

Tick(r) ==
  /\ fired[r] /\ IsLeader(r) /\ scan[r] = Idle
  /\ fired' = [fired EXCEPT ![r] = FALSE]
  /\ \/ /\ Fault
        /\ UNCHANGED <<samples, sinceUp, scan>>
     \/ LET s == recordSample(samples[r], depth) IN
        /\ samples' = [samples EXCEPT ![r] = s]
        /\ \/ /\ ScalesUp(s, r)
              /\ doScaleUp(r)
              /\ UNCHANGED scan
           \/ /\ ~ScalesUp(s, r) /\ ScalesDown(r)
              /\ scan' = [scan EXCEPT ![r] = [Idle EXCEPT !.pc = "pick"]]
              /\ UNCHANGED sinceUp
           \/ /\ ~ScalesUp(s, r) /\ ~ScalesDown(r)
              /\ UNCHANGED <<sinceUp, scan>>
        /\ UNCHANGED faults
  /\ UNCHANGED <<sinceDown, sinceDrain, fleetVars, up, conn, isLeader, checking, lock>>

(* doScaleDown: PickDrainCandidate.                                         *)
Pick(r) ==
  /\ scan[r].pc = "pick"
  /\ \/ /\ \E w \in PickDrainCandidate :
             scan' = [scan EXCEPT ![r].pc = "drain", ![r].worker = w]
        /\ UNCHANGED faults
     \/ /\ (PickDrainCandidate = {} /\ UNCHANGED faults) \/ Fault
        /\ scan' = [scan EXCEPT ![r] = Idle]
  /\ UNCHANGED <<samples, sinceUp, sinceDown, fired, sinceDrain, fleetVars>>
  /\ UNCHANGED <<up, conn, isLeader, checking, lock>>

Drained(f) ==
  [f EXCEPT !.drain = TRUE, !.status = IF f.status = "READY" THEN "DRAINING" ELSE f.status]

NoCooldown(r) ==
  LET w == scan[r].worker IN
  /\ scan[r].pc = "drain"
  /\ \/ /\ fleet[w].status # "DEAD"
        /\ fleet' = [fleet EXCEPT ![w] = Drained(fleet[w])]
        /\ sinceDrain' = [sinceDrain EXCEPT ![r] = 0]
        /\ UNCHANGED <<sinceDown, faults>>
     \/ /\ (fleet[w].status = "DEAD" /\ UNCHANGED faults) \/ Fault
        /\ UNCHANGED <<fleet, sinceDown, sinceDrain>>
  /\ scan' = [scan EXCEPT ![r] = Idle]
  /\ UNCHANGED <<samples, sinceUp, fired, depth, up, conn, isLeader, checking, lock>>
(* RequestDrain, whatever has become of the candidate since it was picked,  *)
(* and lastScaleDown, which is the time of the decision.  (The cache writes *)
(* in between are the ones of the drain endpoint, in ControlPlane.)         *)
Drain(r) ==
  LET w == scan[r].worker IN
  /\ scan[r].pc = "drain"
  /\ \/ /\ fleet[w].status # "DEAD"
        /\ fleet' = [fleet EXCEPT ![w] = Drained(fleet[w])]
        /\ sinceDown' = [sinceDown EXCEPT ![r] = scan[r].age]
        /\ sinceDrain' = [sinceDrain EXCEPT ![r] = 0]
        /\ UNCHANGED faults
     \/ /\ (fleet[w].status = "DEAD" /\ UNCHANGED faults) \/ Fault
        /\ UNCHANGED <<fleet, sinceDown, sinceDrain>>
  /\ scan' = [scan EXCEPT ![r] = Idle]
  /\ UNCHANGED <<samples, sinceUp, fired, depth, up, conn, isLeader, checking, lock>>

(* An interval passes.                                                      *)
Grown(n, cap) == IF n < cap THEN n + 1 ELSE n

Pass ==
  /\ \A r \in Replica : scan[r] # Idle => scan[r].age < MaxStall
  /\ sinceUp' = [r \in Replica |-> Grown(sinceUp[r], UpCooldown)]
  /\ sinceDown' = [r \in Replica |-> Grown(sinceDown[r], DownCooldown)]
  /\ sinceDrain' = [r \in Replica |-> Grown(sinceDrain[r], DownCooldown)]
  /\ scan' = [r \in Replica |->
       IF scan[r] = Idle THEN Idle ELSE [scan[r] EXCEPT !.age = @ + 1]]
  /\ fired' = [r \in Replica |-> TRUE]
  /\ UNCHANGED <<samples, fleetVars, electionVars>>

-------------------------------------------------------------------------------
(* The rest of the system.                                                  *)

Submit ==
  /\ depth < MaxDepth
  /\ depth' = depth + 1
  /\ UNCHANGED <<fleet, memory, electionVars>>

Take(w) ==
  /\ depth > 0
  /\ fleet[w].status = "READY" /\ fleet[w].free
  /\ depth' = depth - 1
  /\ fleet' = [fleet EXCEPT ![w].status = "BUSY", ![w].free = FALSE]
  /\ UNCHANGED <<memory, electionVars>>

Finish(w) ==
  /\ fleet[w].status = "BUSY"
  /\ fleet' = [fleet EXCEPT ![w].status = IF fleet[w].drain THEN "DRAINING" ELSE "READY", ![w].free = TRUE]
  /\ UNCHANGED <<depth, memory, electionVars>>

Reaped(w) ==
  /\ fleet[w].status # "DEAD"
  /\ fleet' = [fleet EXCEPT ![w].status = "DEAD", ![w].free = TRUE]
  /\ UNCHANGED <<depth, memory, electionVars>>

(* A worker that restarts is READY; drain_requested stays as it was.        *)
Register(w) ==
  /\ fleet' = [fleet EXCEPT ![w].status = "READY", ![w].free = TRUE]
  /\ UNCHANGED <<depth, memory, electionVars>>

ResumeDrain(w) ==
  /\ fleet[w].drain /\ fleet[w].status # "DEAD"
  /\ fleet' = [fleet EXCEPT ![w].drain = FALSE,
                            ![w].status = IF @ = "DRAINING" THEN "READY" ELSE @]
  /\ UNCHANGED <<depth, memory, electionVars>>

FleetStep ==
  \/ Submit
  \/ \E w \in DOMAIN fleet : Take(w) \/ Finish(w) \/ Reaped(w) \/ Register(w) \/ ResumeDrain(w)

-------------------------------------------------------------------------------
(* A process that stops takes its memory with it.                           *)
Forget(r) ==
  /\ samples' = [samples EXCEPT ![r] = <<>>]
  /\ sinceUp' = [sinceUp EXCEPT ![r] = UpCooldown]
  /\ sinceDown' = [sinceDown EXCEPT ![r] = DownCooldown]
  /\ scan' = [scan EXCEPT ![r] = Idle]
  /\ fired' = [fired EXCEPT ![r] = FALSE]
  /\ sinceDrain' = [sinceDrain EXCEPT ![r] = DownCooldown]

Next ==
  \/ \E r \in Replica : Tick(r) \/ Pick(r) \/ Drain(r)
  \/ \E r \in Replica : (Release(r) \/ Die(r)) /\ Forget(r) /\ UNCHANGED fleetVars
  \/ \E r \in Replica : (ElectorStep(r) \/ Start(r)) /\ UNCHANGED <<memory, fleetVars>>
  \/ (SessionLost \/ OrphanEnds) /\ UNCHANGED <<memory, fleetVars>>
  \/ Pass
  \/ FleetStep

Spec == Init /\ [][Next]_vars

(* Fairness: the tickers of the elector and of the autoscaler fire, calls   *)
(* return, time passes, a supervisor restarts a process that stopped and    *)
(* Postgres finds out about dead sessions.  No fault, no job and no change  *)
(* of the fleet need ever happen.                                           *)
Fairness ==
  /\ WF_vars(Pass)
  /\ WF_vars(OrphanEnds /\ UNCHANGED <<memory, fleetVars>>)
  /\ \A r \in Replica :
       /\ WF_vars(Tick(r) \/ Pick(r) \/ Drain(r))
       /\ WF_vars((ElectorStep(r) \/ Start(r)) /\ UNCHANGED <<memory, fleetVars>>)

-------------------------------------------------------------------------------
(* Properties.                                                              *)

(* A replica that goes on in the belief it leads, after Postgres has ended  *)
(* its session, finds out and steps down.  Since it cannot have the lock    *)
(* back while it believes that (ImplementsLeaderLock), stepping down is the *)
(* only way out of this state.                                              *)
StaleLeaderStepsDown ==
  \A r \in Replica : []<>(~isLeader[r] \/ lock = r)

(* There is always a rightful leader again, whoever died, lost its session  *)
(* or failed in the middle of taking the lock.                              *)
LeadershipReturns == []<>(\E r \in Replica : isLeader[r] /\ lock = r)

(* The drains of one process are a cooldown apart, less the time the calls  *)
(* of a tick take: lastScaleDown is when the drain was decided, not done.   *)
(* That holds across its terms as leader.                                   *)
DrainsAreSpaced ==
  [][\A r \in Replica :
       scan[r].pc = "drain" /\ sinceDrain'[r] = 0 /\ fleet' # fleet =>
         sinceDrain[r] + MaxStall >= DownCooldown]_vars

(* While the queue is empty the idle worker that registered first is        *)
(* drained in the end, whoever leads, the last READY one as well.  (Nothing *)
(* is said of the others: while that one is resumed again and again, it is  *)
(* drained again and again and they wait.)                                  *)
IdleIsDrained ==
  \A w \in Worker :
    []<>(depth > 0 \/ w \notin PickDrainCandidate)

(* A backlog that stays is reported again and again, since a flat queue     *)
(* counts as a trend, although every new leader begins without samples.     *)
BacklogIsReported ==
  <>[](depth = MaxDepth /\ Above(Up)) => []<>(\E r \in Replica : sinceUp[r] = 0)
================================================================================
