---------------------------- MODULE AutoscalerProofs ----------------------------
(***************************************************************************)
(* For any set of replicas, any cooldowns and any number of faults: the    *)
(* lock is never held by a replica that does not know it, the election     *)
(* implements LeaderLock, and the drains of one process are spaced.        *)
(***************************************************************************)
EXTENDS Autoscaler, TLAPS

(* What a replica knows of its session: it leads exactly while it keeps a   *)
(* connection, and tries for the lock only without one.                     *)
Election ==
  /\ ElectionTypeOK
  /\ LockIsUsed
  /\ \A r \in Replica :
       /\ isLeader[r] <=> conn[r]
       /\ checking[r] => up[r] /\ ~conn[r]

Stage == {"idle", "pick", "drain"}

(* lastScaleDown is at most MaxStall older than the drain it stands for,    *)
(* and a tick that is about to drain has found the cooldown over.           *)
Cooldown ==
  /\ scan \in [Replica -> [pc : Stage, worker : Worker \cup {None}, age : 0..MaxStall]]
  /\ sinceDown \in [Replica -> 0..(DownCooldown + MaxStall)]
  /\ sinceDrain \in [Replica -> 0..DownCooldown]
  /\ \A r \in Replica :
       /\ sinceDown[r] <= sinceDrain[r] + MaxStall
       /\ scan[r].pc # "idle" => sinceDown[r] >= DownCooldown
       /\ scan[r].pc = "idle" => scan[r] = Idle

-------------------------------------------------------------------------------
(* The election.                                                            *)

(* It holds initially.                                                      *)
LEMMA ElectionFirst == Init => Election
  BY ElectionAssumption
  DEF Init, ElectionInit, Election, ElectionTypeOK, LockIsUsed

(* A step that leaves the election alone, but for the count of faults.      *)
LEMMA ElsewhereStep ==
  ASSUME Election, UNCHANGED <<up, conn, isLeader, checking, lock>>,
         UNCHANGED faults \/ Fault
  PROVE  Election'
  BY DEF Election, ElectionTypeOK, LockIsUsed, Fault

(* tryAcquireOrVerify keeps it.                                             *)
LEMMA ElectorKeeps ==
  ASSUME Election, NEW r \in Replica, ElectorStep(r)
  PROVE  Election'
<1> USE ElectionAssumption
<1>1. CASE Check(r)
  BY <1>1 DEF Check, Election, ElectionTypeOK, LockIsUsed
<1>2. CASE PingFails(r)
  <2>1. /\ UNCHANGED up
        /\ conn' = [conn EXCEPT ![r] = FALSE]
        /\ isLeader' = [isLeader EXCEPT ![r] = FALSE]
        /\ checking' = [checking EXCEPT ![r] = TRUE]
        /\ up[r]
    BY <1>2 DEF PingFails
  <2>2. faults' \in Nat
    BY <1>2 DEF PingFails, Fault, Election, ElectionTypeOK
  <2>3. lock' \in Replica \cup {None, Orphan} /\ lock' # r /\ (lock' \in Replica => lock' = lock)
    BY <1>2 DEF PingFails, Closed, Election, ElectionTypeOK
  <2> QED BY <2>1, <2>2, <2>3 DEF Election, ElectionTypeOK, LockIsUsed
<1>3. CASE TryLock(r)
  <2>1. /\ UNCHANGED up
        /\ checking' = [checking EXCEPT ![r] = FALSE]
        /\ checking[r]
    BY <1>3 DEF TryLock
  <2>2. faults' \in Nat
    BY <1>3 DEF TryLock, Fault, Election, ElectionTypeOK
  <2>3. up[r] /\ lock # r
    BY <2>1 DEF Election, LockIsUsed
  <2>4. \/ /\ lock' = r
           /\ conn' = [conn EXCEPT ![r] = TRUE]
           /\ isLeader' = [isLeader EXCEPT ![r] = TRUE]
        \/ /\ lock' \in {lock, None, Orphan}
           /\ UNCHANGED <<conn, isLeader>>
    BY <1>3 DEF TryLock
  <2> QED BY <2>1, <2>2, <2>3, <2>4 DEF Election, ElectionTypeOK, LockIsUsed
<1> QED BY <1>1, <1>2, <1>3 DEF ElectorStep

(* So do the ends and the starts of processes.                              *)
LEMMA ProcessKeeps ==
  ASSUME Election, NEW r \in Replica, Release(r) \/ Die(r) \/ Start(r)
  PROVE  Election'
<1> USE ElectionAssumption
<1>1. CASE Release(r)
  BY <1>1 DEF Release, Closed, Fault, Election, ElectionTypeOK, LockIsUsed
<1>2. CASE Die(r)
  BY <1>2 DEF Die, Closed, Fault, Election, ElectionTypeOK, LockIsUsed
<1>3. CASE Start(r)
  BY <1>3 DEF Start, Election, ElectionTypeOK, LockIsUsed
<1> QED BY <1>1, <1>2, <1>3

(* So do the ends of sessions.                                              *)
LEMMA SessionKeeps ==
  ASSUME Election, SessionLost \/ OrphanEnds
  PROVE  Election'
  BY ElectionAssumption
  DEF SessionLost, OrphanEnds, Fault, Election, ElectionTypeOK, LockIsUsed

(* Every step keeps the election's invariant.                               *)
LEMMA ElectionStep == Election /\ [Next]_vars => Election'
<1> SUFFICES ASSUME Election, [Next]_vars PROVE Election'
  OBVIOUS
<1>1. ASSUME NEW r \in Replica, Tick(r) \/ Pick(r) \/ Drain(r) PROVE Election'
  BY <1>1, ElsewhereStep DEF Tick, doScaleUp, Pick, Drain
<1>2. ASSUME NEW r \in Replica, Release(r) \/ Die(r) PROVE Election'
  BY <1>2, ProcessKeeps
<1>3. ASSUME NEW r \in Replica, ElectorStep(r) \/ Start(r) PROVE Election'
  BY <1>3, ElectorKeeps, ProcessKeeps
<1>4. CASE SessionLost \/ OrphanEnds
  BY <1>4, SessionKeeps
<1>5. CASE Pass
  BY <1>5, ElsewhereStep DEF Pass, electionVars
<1>6. CASE FleetStep
  BY <1>6, ElsewhereStep
  DEF FleetStep, Submit, Take, Finish, Reaped, Register, ResumeDrain, electionVars
<1>7. CASE UNCHANGED vars
  BY <1>7, ElsewhereStep DEF vars, electionVars
<1> QED BY <1>1, <1>2, <1>3, <1>4, <1>5, <1>6, <1>7 DEF Next

(* The lock is held by a running process that knows it, by a session that   *)
(* Postgres will clean up, or by nobody (tryAcquireOrVerify, release).      *)
THEOREM LockInUse == Spec => []LockIsUsed
<1>1. Election => LockIsUsed
  BY DEF Election
<1> QED BY <1>1, ElectionFirst, ElectionStep, PTL DEF Spec

-------------------------------------------------------------------------------
(* The election implements LeaderLock.                                      *)

(* Neither the lock nor what the replicas believe changes.                  *)
LEMMA LockingStutters ==
  ASSUME UNCHANGED <<isLeader, lock>>
  PROVE  UNCHANGED Locking!vars
  BY DEF Locking!vars, Holder, Believers

(* A step of tryAcquireOrVerify takes the lock, steps down or stutters.     *)
LEMMA ElectorLocks ==
  ASSUME Election, NEW r \in Replica, ElectorStep(r)
  PROVE  [Locking!Next]_(Locking!vars)
<1> USE ElectionAssumption
<1>1. CASE Check(r)
  BY <1>1, LockingStutters DEF Check
<1>2. CASE PingFails(r)
  <2>1. isLeader[r] /\ isLeader' = [isLeader EXCEPT ![r] = FALSE] /\ lock' \in Closed(r)
    BY <1>2 DEF PingFails, Election
  <2>2. r \in Believers /\ Believers' = Believers \ {r}
    BY <2>1 DEF Believers, Election, ElectionTypeOK
  <2>3. Holder' = IF Holder = r THEN None ELSE Holder
    BY <2>1 DEF Holder, Closed
  <2> QED BY <2>2, <2>3 DEF Locking!Next, Locking!StepDown
<1>3. CASE TryLock(r)
  <2>1. CASE /\ lock = None /\ lock' = r
             /\ isLeader' = [isLeader EXCEPT ![r] = TRUE]
    <3>1. ~isLeader[r]
      BY <1>3 DEF TryLock, Election
    <3>2. r \notin Believers /\ Believers' = Believers \cup {r}
      BY <2>1, <3>1 DEF Believers, Election, ElectionTypeOK
    <3>3. Holder = None /\ Holder' = r
      BY <2>1 DEF Holder
    <3> QED BY <3>2, <3>3 DEF Locking!Next, Locking!Acquire
  <2>2. CASE UNCHANGED isLeader /\ lock' \in IF lock = None THEN {None, Orphan} ELSE {lock}
    <3>1. UNCHANGED Believers
      BY <2>2 DEF Believers
    <3>2. UNCHANGED Holder
      BY <2>2 DEF Holder
    <3> QED BY <3>1, <3>2 DEF Locking!vars
  <2> QED BY <1>3, <2>1, <2>2 DEF TryLock
<1> QED BY <1>1, <1>2, <1>3 DEF ElectorStep

(* A process that stops leads no more.                                      *)
LEMMA StoppingLocks ==
  ASSUME Election, NEW r \in Replica, Release(r) \/ Die(r)
  PROVE  [Locking!Next]_(Locking!vars)
<1> USE ElectionAssumption
<1>1. isLeader' = [isLeader EXCEPT ![r] = FALSE] /\ lock' \in Closed(r)
  BY DEF Release, Die
<1>2. Holder' = IF Holder = r THEN None ELSE Holder
  BY <1>1 DEF Holder, Closed
<1>3. Believers' = Believers \ {r}
  BY <1>1 DEF Believers, Election, ElectionTypeOK
<1>4. CASE r \in Believers
  BY <1>2, <1>3, <1>4 DEF Locking!Next, Locking!StepDown
<1>5. CASE r \notin Believers
  <2>1. Holder # r
    BY <1>5 DEF Holder, Believers, Election, LockIsUsed
  <2> QED BY <1>2, <1>3, <1>5, <2>1 DEF Locking!vars
<1> QED BY <1>4, <1>5

(* Postgres ends a session behind its client's back.                        *)
LEMMA SessionLocks ==
  ASSUME SessionLost \/ OrphanEnds
  PROVE  [Locking!Next]_(Locking!vars)
<1>1. UNCHANGED Believers /\ Holder' = None
  BY ElectionAssumption DEF SessionLost, OrphanEnds, Believers, Holder
<1> QED BY <1>1 DEF Locking!Next, Locking!Lose

(* Every step of the replicas is a step of LeaderLock or leaves it alone.   *)
LEMMA LockingStep == Election /\ [Next]_vars => [Locking!Next]_(Locking!vars)
<1> SUFFICES ASSUME Election, [Next]_vars PROVE [Locking!Next]_(Locking!vars)
  OBVIOUS
<1>1. ASSUME UNCHANGED <<isLeader, lock>> PROVE [Locking!Next]_(Locking!vars)
  BY <1>1, LockingStutters
<1>2. ASSUME NEW r \in Replica, Tick(r) \/ Pick(r) \/ Drain(r) \/ Start(r)
      PROVE  UNCHANGED <<isLeader, lock>>
  BY <1>2 DEF Tick, Pick, Drain, Start
<1>3. CASE Pass \/ FleetStep \/ UNCHANGED vars
  <2>1. UNCHANGED electionVars
    BY <1>3 DEF Pass, FleetStep, Submit, Take, Finish, Reaped, Register, ResumeDrain, vars
  <2> QED BY <1>1, <2>1 DEF electionVars
<1> QED
  BY <1>1, <1>2, <1>3, ElectorLocks, StoppingLocks, SessionLocks DEF Next

(* A replica leads only since it took a lock that nobody held, and a stale  *)
(* leader steps down before it tries again (tryAcquireOrVerify, release).   *)
THEOREM Locks == Spec => ImplementsLeaderLock
<1>1. Init => Locking!Init
  BY ElectionAssumption DEF Init, ElectionInit, Locking!Init, Holder, Believers
<1> QED
  BY <1>1, ElectionFirst, ElectionStep, LockingStep, PTL DEF Spec, ImplementsLeaderLock, Locking!Spec

-------------------------------------------------------------------------------
(* The cooldown.                                                            *)

(* It holds initially.                                                      *)
LEMMA CooldownFirst == Init => Cooldown
  BY AutoscalerAssumption DEF Init, Cooldown, Idle, Stage

(* tick keeps it: no drain is decided within the cooldown.                  *)
LEMMA TickKeeps ==
  ASSUME Cooldown, NEW r \in Replica, Tick(r)
  PROVE  Cooldown'
<1> USE AutoscalerAssumption
<1>1. UNCHANGED <<sinceDown, sinceDrain>>
  BY DEF Tick, doScaleUp
<1>2. scan' = scan \/ (ScalesDown(r) /\ scan' = [scan EXCEPT ![r] = [Idle EXCEPT !.pc = "pick"]])
  BY DEF Tick, doScaleUp
<1>3. [Idle EXCEPT !.pc = "pick"] = [pc |-> "pick", worker |-> None, age |-> 0]
  BY DEF Idle
<1>4. scan' \in [Replica -> [pc : Stage, worker : Worker \cup {None}, age : 0..MaxStall]]
  BY <1>2, <1>3 DEF Cooldown, Stage
<1>5. ASSUME NEW q \in Replica
      PROVE  /\ scan'[q].pc # "idle" => sinceDown[q] >= DownCooldown
             /\ scan'[q].pc = "idle" => scan'[q] = Idle
  <2>1. CASE scan'[q] = scan[q]
    BY <2>1 DEF Cooldown
  <2>2. CASE scan'[q] # scan[q]
    <3>1. q = r /\ ScalesDown(r) /\ scan'[q].pc = "pick"
      BY <1>2, <1>3, <2>2 DEF Cooldown
    <3> QED BY <3>1 DEF ScalesDown
  <2> QED BY <2>1, <2>2
<1> QED BY <1>1, <1>4, <1>5 DEF Cooldown

(* Picking a candidate keeps it.                                            *)
LEMMA PickKeeps ==
  ASSUME Cooldown, NEW r \in Replica, Pick(r)
  PROVE  Cooldown'
<1> USE AutoscalerAssumption
<1>1. UNCHANGED <<sinceDown, sinceDrain>> /\ scan[r].pc = "pick"
  BY DEF Pick
<1>2. \/ scan' = [scan EXCEPT ![r] = Idle]
      \/ \E w \in Worker : scan' = [scan EXCEPT ![r].pc = "drain", ![r].worker = w]
  BY DEF Pick, PickDrainCandidate, IdleWorkers
<1>3. scan[r] = [pc |-> scan[r].pc, worker |-> scan[r].worker, age |-> scan[r].age]
  BY DEF Cooldown
<1>4. \/ scan'[r] = Idle
      \/ \E w \in Worker : scan'[r] = [pc |-> "drain", worker |-> w, age |-> scan[r].age]
  <2>1. scan' = [scan EXCEPT ![r] = Idle] => scan'[r] = Idle
    BY DEF Cooldown
  <2>2. ASSUME NEW w \in Worker, scan' = [scan EXCEPT ![r].pc = "drain", ![r].worker = w]
        PROVE  scan'[r] = [pc |-> "drain", worker |-> w, age |-> scan[r].age]
    BY <1>3, <2>2 DEF Cooldown
  <2> QED BY <1>2, <2>1, <2>2
<1>5. \A q \in Replica : q # r => scan'[q] = scan[q]
  BY <1>2 DEF Cooldown
<1>6. scan'[r] \in [pc : Stage, worker : Worker \cup {None}, age : 0..MaxStall]
  <2>1. scan[r].age \in 0..MaxStall /\ 0 \in 0..MaxStall
    BY DEF Cooldown
  <2>2. CASE scan'[r] = Idle
    BY <2>1, <2>2 DEF Stage, Idle
  <2>3. ASSUME NEW w \in Worker, scan'[r] = [pc |-> "drain", worker |-> w, age |-> scan[r].age]
        PROVE  scan'[r] \in [pc : Stage, worker : Worker \cup {None}, age : 0..MaxStall]
    BY <2>1, <2>3 DEF Stage
  <2> QED BY <1>4, <2>2, <2>3
<1>7. scan' \in [Replica -> [pc : Stage, worker : Worker \cup {None}, age : 0..MaxStall]]
  BY <1>2, <1>5, <1>6 DEF Cooldown
<1>8. scan'[r].pc = "idle" => scan'[r] = Idle
  <2>1. ASSUME NEW w \in Worker, scan'[r] = [pc |-> "drain", worker |-> w, age |-> scan[r].age]
        PROVE  scan'[r].pc # "idle"
    BY <2>1
  <2> QED BY <1>4, <2>1
<1>9. sinceDown[r] >= DownCooldown
  BY <1>1 DEF Cooldown
<1> QED BY <1>1, <1>5, <1>7, <1>8, <1>9 DEF Cooldown

(* A drain restarts the cooldown from its decision.                         *)
LEMMA DrainKeeps ==
  ASSUME Cooldown, NEW r \in Replica, Drain(r)
  PROVE  Cooldown'
<1> USE AutoscalerAssumption
<1>1. scan' = [scan EXCEPT ![r] = Idle]
  BY DEF Drain
<1>2. \/ UNCHANGED <<sinceDown, sinceDrain>>
      \/ /\ sinceDown' = [sinceDown EXCEPT ![r] = scan[r].age]
         /\ sinceDrain' = [sinceDrain EXCEPT ![r] = 0]
  BY DEF Drain
<1>3. /\ scan' \in [Replica -> [pc : Stage, worker : Worker \cup {None}, age : 0..MaxStall]]
      /\ scan'[r] = Idle /\ scan'[r].pc = "idle"
      /\ \A q \in Replica : q # r => scan'[q] = scan[q]
  BY <1>1 DEF Cooldown, Stage, Idle
<1>4. scan[r].age \in 0..MaxStall
  BY DEF Cooldown
<1>5. /\ sinceDown' \in [Replica -> 0..(DownCooldown + MaxStall)]
      /\ sinceDrain' \in [Replica -> 0..DownCooldown]
      /\ \A q \in Replica : sinceDown'[q] <= sinceDrain'[q] + MaxStall
      /\ \A q \in Replica : q # r => sinceDown'[q] = sinceDown[q]
  BY <1>2, <1>4 DEF Cooldown
<1> QED BY <1>3, <1>5 DEF Cooldown

(* All clocks advance together.                                             *)
LEMMA PassKeeps ==
  ASSUME Cooldown, Pass
  PROVE  Cooldown'
<1> USE AutoscalerAssumption
<1>1. ASSUME NEW r \in Replica
      PROVE  /\ sinceDown'[r] \in 0..(DownCooldown + MaxStall)
             /\ sinceDrain'[r] \in 0..DownCooldown
             /\ sinceDown'[r] <= sinceDrain'[r] + MaxStall
             /\ sinceDown[r] >= DownCooldown => sinceDown'[r] >= DownCooldown
  BY DEF Pass, Cooldown, Grown
<1>2. ASSUME NEW r \in Replica
      PROVE  /\ scan'[r] \in [pc : Stage, worker : Worker \cup {None}, age : 0..MaxStall]
             /\ scan'[r].pc = scan[r].pc
             /\ scan[r].pc = "idle" => scan'[r] = Idle
  <2>1. CASE scan[r] = Idle
    BY <2>1 DEF Pass, Cooldown, Idle, Stage
  <2>2. CASE scan[r] # Idle
    BY <2>2 DEF Pass, Cooldown, Stage
  <2> QED BY <2>1, <2>2
<1> QED BY <1>1, <1>2 DEF Cooldown, Pass

(* A process that stops starts over.                                        *)
LEMMA ForgetKeeps ==
  ASSUME Cooldown, NEW r \in Replica, Forget(r)
  PROVE  Cooldown'
  BY AutoscalerAssumption DEF Cooldown, Forget, Idle, Stage

(* Every step keeps the cooldown's invariant.                               *)
LEMMA CooldownStep == Cooldown /\ [Next]_vars => Cooldown'
<1> SUFFICES ASSUME Cooldown, [Next]_vars PROVE Cooldown'
  OBVIOUS
<1>1. ASSUME UNCHANGED memory PROVE Cooldown'
  BY <1>1 DEF Cooldown, memory
<1>2. ASSUME NEW r \in Replica, Tick(r) \/ Pick(r) \/ Drain(r) PROVE Cooldown'
  BY <1>2, TickKeeps, PickKeeps, DrainKeeps
<1>3. CASE FleetStep
  BY <1>1, <1>3 DEF FleetStep, Submit, Take, Finish, Reaped, Register, ResumeDrain
<1>4. CASE UNCHANGED vars
  BY <1>1, <1>4 DEF vars
<1> QED BY <1>1, <1>2, <1>3, <1>4, PassKeeps, ForgetKeeps DEF Next

(* With it, a step that drains is far enough from the last one.             *)
LEMMA DrainStep == Cooldown /\ [Next]_vars =>
  [\A r \in Replica :
     scan[r].pc = "drain" /\ sinceDrain'[r] = 0 /\ fleet' # fleet =>
       sinceDrain[r] + MaxStall >= DownCooldown]_vars
  BY AutoscalerAssumption DEF Cooldown

(* The drains of one process are a cooldown apart, less what the calls of   *)
(* one tick take (tick, doScaleDown).                                       *)
THEOREM Spacing == Spec => DrainsAreSpaced
  BY CooldownFirst, CooldownStep, DrainStep, PTL DEF Spec, DrainsAreSpaced
================================================================================
