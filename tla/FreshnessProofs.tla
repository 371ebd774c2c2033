---------------------------- MODULE FreshnessProofs ----------------------------
(***************************************************************************)
(* Proofs about Freshness, for every tick length, interval, timeout and    *)
(* number of failed flushes.                                               *)
(***************************************************************************)
EXTENDS Freshness, TLAPS

(* What the results and failed flushes since the last write may add.        *)
Slack == stamps * Window + missed * Gap

(* While last_pg_flush_unix is within the interval, the lag is what the     *)
(* clock shows since then, and the slack.                                   *)
LagByTheClock == up /\ since < Coalesce => lag <= since * Hz + phase + Slack

(* At the last heartbeat the lag was less than the interval, and the slack. *)
LagAtHeartbeat == up => lag < Coalesce * Hz + quiet + Slack

(* At the last sweep a worker not DEAD was not stale.                       *)
SweptFresh == ~dead => lag <= Timeout + swept

Inv ==
  /\ TypeOK
  /\ LagByTheClock
  /\ LagAtHeartbeat
  /\ quiet <= lag
  /\ SweptFresh

-------------------------------------------------------------------------------
(* Arithmetic with a variable factor, which the provers need spelled out.   *)

(* Products, for the provers: one more factor.                              *)
LEMMA Successor ==
  ASSUME NEW m \in Nat, NEW n \in Nat
  PROVE  /\ (m + 1) * n = m * n + n
         /\ m * n \in Nat
         /\ 0 * n = 0
OBVIOUS

(* Fewer whole seconds are at least one second less.                        *)
LEMMA Whole ==
  ASSUME NEW m \in Nat, NEW k \in Nat, NEW n \in Nat, m < k
  PROVE  m * n + n <= k * n
<1>1. PICK d \in Nat : k = m + 1 + d
  <2>1. k - (m + 1) \in Nat /\ k = m + 1 + (k - (m + 1))
    OBVIOUS
  <2> QED BY <2>1
<1>2. k * n = (m + 1) * n + d * n
  BY <1>1
<1>3. (m + 1) * n = m * n + n /\ d * n \in Nat
  BY Successor
<1> QED
  BY <1>2, <1>3, Successor

(* A sum of naturals.                                                       *)
LEMMA Positive ==
  ASSUME NEW a \in Nat, NEW b \in Nat, NEW c \in Nat
  PROVE  0 <= a + b + c /\ (a > 0 => 0 < a + 0 + c)
OBVIOUS

(* The quantities of the bound are naturals.                                *)
LEMMA Sizes ==
  ASSUME TypeOK
  PROVE  /\ Window \in Nat /\ Coalesce * Hz \in Nat /\ Coalesce * Hz > 0
         /\ Slack \in Nat
         /\ since * Hz \in Nat
<1>1. Coalesce * Hz \in Nat /\ Coalesce * Hz > 0
  <2>1. 0 * Hz + Hz <= Coalesce * Hz
    BY Whole, FreshnessAssumption
  <2> QED BY <2>1, Successor, FreshnessAssumption
<1>2. Window \in Nat
  BY <1>1, FreshnessAssumption DEF Window
<1>3. stamps * Window \in Nat /\ missed * Gap \in Nat
  BY <1>2, Successor, FreshnessAssumption DEF TypeOK
<1>4. since \in Nat
  BY FreshnessAssumption DEF TypeOK
<1>5. since * Hz \in Nat
  BY <1>4, Successor, FreshnessAssumption
<1> QED BY <1>1, <1>2, <1>3, <1>5 DEF Slack

(* The lag bound follows from what it was at the last heartbeat.            *)
LEMMA BoundFromHeartbeat ==
  ASSUME Inv
  PROVE  LagIsBounded /\ (up => lag < Window + Slack)
<1> USE FreshnessAssumption
<1>1. up => quiet <= Gap /\ quiet \in Nat /\ lag \in Nat
  BY DEF Inv, TypeOK
<1>2. Slack \in Nat /\ Coalesce * Hz \in Nat /\ TypeOK
  BY Sizes DEF Inv
<1>3. up => lag < Window + Slack
  BY <1>1, <1>2 DEF Inv, LagAtHeartbeat, Window
<1>4. stamps * Window \in Nat /\ missed * Gap \in Nat /\ Window \in Nat
  BY <1>2, Sizes, Successor DEF TypeOK
<1> QED BY <1>3, <1>4 DEF LagIsBounded, Slack

-------------------------------------------------------------------------------
(* The invariant holds initially.                                           *)
LEMMA InitInv == Init => Inv
<1> SUFFICES ASSUME Init PROVE Inv
  OBVIOUS
<1> USE FreshnessAssumption
<1>1. TypeOK
  <2>1. up \in BOOLEAN /\ dead \in BOOLEAN /\ busy \in BOOLEAN /\ cached \in BOOLEAN
    BY Zenon DEF Init
  <2> QED BY <2>1 DEF Init, TypeOK
<1>2. Slack \in Nat /\ Coalesce * Hz > 0 /\ Coalesce * Hz \in Nat
  BY <1>1, Sizes
<1> QED
  BY <1>1, <1>2 DEF Init, Inv, LagByTheClock, LagAtHeartbeat, SweptFresh

(* The types are preserved by every step.                                   *)
LEMMA TypeStep == Inv /\ [Next]_vars => TypeOK'
<1> SUFFICES ASSUME Inv, [Next]_vars PROVE TypeOK'
  OBVIOUS
<1> USE FreshnessAssumption
<1>0. TypeOK
  BY DEF Inv
<1>1. up' \in BOOLEAN /\ dead' \in BOOLEAN /\ busy' \in BOOLEAN /\ cached' \in BOOLEAN
  BY <1>0, Zenon DEF TypeOK, Next, vars, worker, Register, Tick, Heartbeat, Rejected, Crash,
     Assign, Finish, SyncDrain, Sweep
<1>2. since' \in 0..Coalesce /\ lag' \in Nat /\ quiet' \in Nat
  BY <1>0 DEF TypeOK, Next, vars, counts, worker, Register, Tick, Heartbeat, Rejected, Crash,
     Assign, Finish, SyncDrain, Sweep
<1>3. swept' \in 0..SweepEvery /\ phase' \in 0..(Hz - 1)
  BY <1>0 DEF TypeOK, Next, vars, counts, worker, Register, Tick, Heartbeat, Rejected, Crash,
     Assign, Finish, SyncDrain, Sweep
<1>4. stamps' \in Nat /\ missed' \in Nat
  BY <1>0 DEF TypeOK, Next, vars, counts, worker, Register, Tick, Heartbeat, Rejected, Crash,
     Assign, Finish, SyncDrain, Sweep
<1>5. up' => quiet' <= Gap
  <2>1. \/ quiet' = 0
        \/ quiet' = quiet /\ (up' => up)
        \/ quiet' = quiet + 1 /\ (up' => quiet < Gap)
    BY Zenon DEF Next, vars, counts, worker, Register, Tick, Heartbeat, Rejected, Crash,
       Assign, Finish, SyncDrain, Sweep
  <2> QED BY <1>0, <2>1 DEF TypeOK
<1> QED BY <1>1, <1>2, <1>3, <1>4, <1>5 DEF TypeOK

(* Sweeping: a worker that escapes DEAD was not stale at the last sweep.    *)
LEMMA SweepStep == Inv /\ [Next]_vars => SweptFresh' /\ quiet' <= lag'
<1> SUFFICES ASSUME Inv, [Next]_vars PROVE SweptFresh' /\ quiet' <= lag'
  OBVIOUS
<1> USE FreshnessAssumption
<1>0. TypeOK /\ TypeOK' /\ quiet <= lag /\ SweptFresh
  BY TypeStep DEF Inv
<1>1. CASE Register
  BY <1>0, <1>1 DEF Register, SweptFresh, TypeOK
<1>2. CASE Tick
  BY <1>0, <1>2 DEF Tick, SweptFresh, TypeOK, worker
<1>3. CASE Heartbeat
  BY <1>0, <1>3 DEF Heartbeat, SweptFresh, TypeOK, counts
<1>4. CASE Sweep
  <2>1. UNCHANGED <<lag, quiet>> /\ swept' = 0 /\ (~dead' => ~Stale)
    BY <1>4, Zenon DEF Sweep
  <2> QED BY <1>0, <2>1 DEF Stale, SweptFresh, TypeOK
<1>5. CASE UNCHANGED <<dead, lag, swept, quiet>>
  BY <1>0, <1>5 DEF SweptFresh, TypeOK
<1> QED
  BY <1>1, <1>2, <1>3, <1>4, <1>5
  DEF Next, vars, worker, counts, Rejected, Crash, Assign, Finish, SyncDrain

(* Slack grows with every stamp and every failed flush.                     *)
LEMMA SlackStep ==
  ASSUME TypeOK, TypeOK'
  PROVE  /\ UNCHANGED counts => Slack' = Slack
         /\ stamps' = stamps + 1 /\ missed' = missed => Slack' = Slack + Window
         /\ stamps' = stamps /\ missed' = missed + 1 => Slack' = Slack + Gap
<1> USE FreshnessAssumption
<1>1. Window \in Nat /\ Window' = Window
  BY Sizes DEF Window
<1>2. stamps * Window \in Nat /\ missed * Gap \in Nat
  BY <1>1, Successor DEF TypeOK
<1>3. /\ (stamps + 1) * Window = stamps * Window + Window
      /\ (missed + 1) * Gap = missed * Gap + Gap
  BY <1>1, Successor DEF TypeOK
<1>4. UNCHANGED counts => Slack' = Slack
  BY <1>1 DEF counts, Slack
<1>5. stamps' = stamps + 1 /\ missed' = missed => Slack' = Slack + Window
  BY <1>1, <1>2, <1>3 DEF Slack
<1>6. stamps' = stamps /\ missed' = missed + 1 => Slack' = Slack + Gap
  BY <1>1, <1>2, <1>3 DEF Slack
<1> QED BY <1>4, <1>5, <1>6

(* The lag, by action.                                                      *)
LEMMA LagStep == Inv /\ [Next]_vars => LagByTheClock' /\ LagAtHeartbeat'
<1> SUFFICES ASSUME Inv, [Next]_vars PROVE LagByTheClock' /\ LagAtHeartbeat'
  OBVIOUS
<1> USE FreshnessAssumption
<1>0. TypeOK /\ TypeOK' /\ LagByTheClock /\ LagAtHeartbeat
  BY TypeStep DEF Inv
<1>1. /\ Slack \in Nat /\ Slack' \in Nat
      /\ Coalesce * Hz \in Nat /\ Coalesce * Hz > 0
      /\ since * Hz \in Nat /\ since' * Hz \in Nat
  <2>1. since' \in Nat /\ stamps' \in Nat /\ missed' \in Nat /\ Window \in Nat
    BY <1>0, Sizes DEF TypeOK
  <2>2. since' * Hz \in Nat /\ stamps' * Window \in Nat /\ missed' * Gap \in Nat
    BY <2>1, Successor
  <2>3. Slack' \in Nat
    BY <2>2 DEF Slack, Window
  <2> QED BY <1>0, <2>2, <2>3, Sizes
<1>2. CASE Register
  <2>1. lag' = 0 /\ quiet' = 0 /\ since' = Coalesce
    BY <1>2 DEF Register
  <2>2. 0 < Coalesce * Hz + 0 + Slack'
    BY <1>1, Positive
  <2>3. ~(Coalesce < Coalesce)
    OBVIOUS
  <2> QED BY <2>1, <2>2, <2>3 DEF LagByTheClock, LagAtHeartbeat
<1>3. CASE Tick
  <2>1. Slack' = Slack
    BY <1>0, <1>3, SlackStep DEF Tick
  <2>2. since' < Coalesce => lag' <= since' * Hz + phase' + Slack' \/ ~up
    <3>1. CASE phase + 1 < Hz
      BY <1>0, <1>1, <1>3, <2>1, <3>1 DEF Tick, LagByTheClock, TypeOK
    <3>2. CASE ~(phase + 1 < Hz)
      <4>1. phase = Hz - 1 /\ (since + 1) * Hz = since * Hz + Hz
        BY <1>0, <3>2, Successor DEF TypeOK
      <4>2. since' < Coalesce => since < Coalesce /\ since' = since + 1
        BY <1>0, <1>3, <3>2 DEF Tick, TypeOK
      <4>3. phase' = 0 /\ lag' = lag + 1
        BY <1>3, <3>2 DEF Tick
      <4> QED BY <1>0, <1>1, <2>1, <4>1, <4>2, <4>3 DEF LagByTheClock, TypeOK
    <3> QED BY <3>1, <3>2
  <2>3. LagAtHeartbeat'
    BY <1>0, <1>1, <1>3, <2>1 DEF Tick, LagAtHeartbeat, TypeOK, worker
  <2> QED BY <1>3, <2>2, <2>3 DEF LagByTheClock, Tick, worker
<1>4. CASE Heartbeat
  <2>1. CASE lag' = 0 /\ quiet' = 0
    <3>1. phase' \in Nat
      BY <1>0 DEF TypeOK
    <3>2. 0 <= since' * Hz + phase' + Slack' /\ 0 < Coalesce * Hz + 0 + Slack'
      BY <1>1, <3>1, Positive
    <3> QED BY <2>1, <3>2 DEF LagByTheClock, LagAtHeartbeat
  <2>2. CASE missed' = missed + 1 /\ UNCHANGED <<lag, since, stamps>>
    <3>1. Slack' = Slack + Gap
      BY <1>0, <2>2, SlackStep
    <3> QED BY <1>0, <1>1, <1>4, <2>2, <3>1 DEF Heartbeat, LagByTheClock, LagAtHeartbeat, TypeOK
  <2>3. CASE ~MustFlush /\ UNCHANGED <<lag, since, counts>>
    <3>1. Slack' = Slack
      BY <1>0, <2>3, SlackStep
    <3>2. since < Coalesce /\ since \in Nat
      BY <1>0, <2>3 DEF MustFlush, TypeOK
    <3>3. since * Hz + Hz <= Coalesce * Hz
      BY <3>2, Whole
    <3> QED
      BY <1>0, <1>1, <1>4, <2>3, <3>1, <3>2, <3>3
      DEF Heartbeat, LagByTheClock, LagAtHeartbeat, TypeOK
  <2> QED BY <1>4, <2>1, <2>2, <2>3 DEF Heartbeat
<1>5. CASE Finish
  <2>1. CASE UNCHANGED <<cached, since, stamps>>
    <3>1. Slack' = Slack
      BY <1>0, <1>5, <2>1, SlackStep DEF Finish, counts
    <3> QED BY <1>0, <1>5, <2>1, <3>1 DEF Finish, LagByTheClock, LagAtHeartbeat
  <2>2. CASE since' = 0 /\ stamps' = stamps + 1
    <3>1. Slack' = Slack + Window /\ Window \in Nat
      BY <1>0, <1>5, <2>2, SlackStep, Sizes DEF Finish
    <3>2. up => lag < Window + Slack
      BY BoundFromHeartbeat
    <3>3. /\ up /\ up' = up /\ since' = 0 /\ UNCHANGED <<lag, quiet, phase>>
          /\ 0 * Hz = 0 /\ phase \in Nat /\ lag \in Nat /\ quiet \in Nat
      BY <1>0, <1>5, <2>2, Successor DEF Finish, TypeOK
    <3>4. LagByTheClock'
      BY <1>1, <3>1, <3>2, <3>3 DEF LagByTheClock
    <3>5. LagAtHeartbeat'
      BY <1>0, <1>1, <3>1, <3>3 DEF LagAtHeartbeat
    <3> QED BY <3>4, <3>5
  <2> QED BY <1>5, <2>1, <2>2 DEF Finish
<1>6. CASE Assign \/ SyncDrain
  <2>1. Slack' = Slack
    BY <1>0, <1>6, SlackStep DEF Assign, SyncDrain
  <2> QED
    BY <1>0, <1>6, <2>1 DEF Assign, SyncDrain, worker, LagByTheClock, LagAtHeartbeat, TypeOK
<1>7. CASE Rejected \/ Crash \/ Sweep \/ UNCHANGED vars
  <2>1. Slack' = Slack
    BY <1>0, <1>7, SlackStep DEF Rejected, Crash, Sweep, vars
  <2> QED
    BY <1>0, <1>7, <2>1
    DEF Rejected, Crash, Sweep, vars, worker, LagByTheClock, LagAtHeartbeat
<1> QED
  BY <1>2, <1>3, <1>4, <1>5, <1>6, <1>7 DEF Next

-------------------------------------------------------------------------------
(* Every step keeps the invariant.                                          *)
LEMMA InvStep == Inv /\ [Next]_vars => Inv'
BY TypeStep, LagStep, SweepStep DEF Inv

(* Hence it always holds.                                                   *)
LEMMA Invariant == Spec => []Inv
BY InitInv, InvStep, PTL DEF Spec

(* Every write to last_heartbeat that handleHeartbeat leaves out is paid    *)
(* for by a bounded lag: this is the bound.                                 *)
THEOREM Lag == Spec => []LagIsBounded
<1>1. Inv => LagIsBounded
  BY BoundFromHeartbeat
<1> QED BY <1>1, Invariant, PTL

(* When the coalescing window fits into the heartbeat timeout, the reaper   *)
(* finds no live worker stale, but after a result or a failed flush.        *)
THEOREM Fresh == Spec => []OnTimeIsFresh
<1>1. Inv => OnTimeIsFresh
  <2> SUFFICES ASSUME Inv, Window <= Timeout, up, stamps = 0, missed = 0 PROVE ~Stale
    BY DEF OnTimeIsFresh
  <2> USE FreshnessAssumption
  <2>1. lag < Window + Slack /\ Window \in Nat /\ lag \in Nat
    BY BoundFromHeartbeat, Sizes DEF Inv, TypeOK
  <2>2. Slack = 0
    BY <2>1, Successor DEF Slack
  <2> QED BY <2>1, <2>2 DEF Stale
<1> QED BY <1>1, Invariant, PTL

(* Detection is never late: a silent worker is DEAD within the timeout and  *)
(* one sweep interval.                                                      *)
THEOREM Detection == Spec => []SilenceIsNoticed
<1>1. Inv => SilenceIsNoticed
  BY FreshnessAssumption DEF Inv, SilenceIsNoticed, SweptFresh, TypeOK
<1> QED BY <1>1, Invariant, PTL
================================================================================
