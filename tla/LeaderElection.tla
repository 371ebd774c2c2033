----------------------------- MODULE LeaderElection -----------------------------
(***************************************************************************)
(* Leader election (leader.go): every scheduler replica checks every two   *)
(* seconds whether the connection that holds the session's advisory lock   *)
(* still answers, or else tries to take the lock.  Postgres gives the lock *)
(* back when it notices that the session is over, which may be before or   *)
(* long after the replica notices.                                         *)
(*                                                                         *)
(* tryAcquireOrVerify holds the mutex that IsLeader needs, so a goroutine  *)
(* that asks IsLeader gets no answer in the middle of a check.             *)
(***************************************************************************)
EXTENDS Naturals

CONSTANTS
  Replica,   \* the scheduler processes
  None,      \* the lock is free
  Orphan,    \* the lock is held by a session whose client is gone
  MaxFaults  \* bound: lost sessions, failed calls and deaths of processes

ASSUME ElectionAssumption ==
  /\ None # Orphan
  /\ None \notin Replica
  /\ Orphan \notin Replica
  /\ MaxFaults \in Nat

VARIABLES
  up,        \* the process runs
  conn,      \* le.conn is set
  isLeader,  \* le.isLeader
  checking,  \* tryAcquireOrVerify is past the ping and about to try the lock
  lock,      \* whose session holds the advisory lock, as Postgres sees it
  faults     \* faults so far; part of the bound may be used up from the start

electionVars == <<up, conn, isLeader, checking, lock, faults>>

ElectionInit ==
  /\ up = [r \in Replica |-> TRUE]
  /\ conn = [r \in Replica |-> FALSE]
  /\ isLeader = [r \in Replica |-> FALSE]
  /\ checking = [r \in Replica |-> FALSE]
  /\ lock = None
  /\ faults \in 0..MaxFaults

Fault == faults < MaxFaults /\ faults' = faults + 1

(* The client closes r's session, or dies.  Postgres may hear of it at once *)
(* or later.                                                                *)
Closed(r) == IF lock = r THEN {None, Orphan} ELSE {lock}

-------------------------------------------------------------------------------
(* tryAcquireOrVerify without a connection goes straight to the lock.       *)
Check(r) ==
  /\ up[r] /\ ~checking[r] /\ ~conn[r]
  /\ checking' = [checking EXCEPT ![r] = TRUE]
  /\ UNCHANGED <<up, conn, isLeader, lock, faults>>

(* The ping fails: because the session is over, or for a fault although it  *)
(* is not.  The connection is given up and the lock is tried anew.  (A ping *)
(* that is answered changes nothing.)                                       *)
KeepsLeading(r) ==
  /\ up[r] /\ ~checking[r] /\ conn[r]
  /\ (lock # r /\ UNCHANGED faults) \/ (lock = r /\ Fault)
  /\ lock' \in Closed(r)
  /\ conn' = [conn EXCEPT ![r] = FALSE]
  /\ checking' = [checking EXCEPT ![r] = TRUE]
  /\ UNCHANGED <<up, isLeader>>
PingFails(r) ==
  /\ up[r] /\ ~checking[r] /\ conn[r]
  /\ (lock # r /\ UNCHANGED faults) \/ (lock = r /\ Fault)
  /\ lock' \in Closed(r)
  /\ conn' = [conn EXCEPT ![r] = FALSE]
  /\ isLeader' = [isLeader EXCEPT ![r] = FALSE]
  /\ checking' = [checking EXCEPT ![r] = TRUE]
  /\ UNCHANGED up

ForgetsConnection(r) ==
  /\ checking[r]
  /\ checking' = [checking EXCEPT ![r] = FALSE]
  /\ \/ /\ lock = None
        /\ lock' = r
        /\ UNCHANGED <<conn, isLeader, faults>>
     \/ /\ lock # None
        /\ UNCHANGED <<conn, isLeader, lock, faults>>
     \/ /\ Fault
        /\ lock' \in IF lock = None THEN {None, Orphan} ELSE {lock}
        /\ UNCHANGED <<conn, isLeader>>
  /\ UNCHANGED up
(* pg_try_advisory_lock: granted, refused, or failed.  A failed call may    *)
(* still have been granted, to a session that is then closed.               *)
TryLock(r) ==
  /\ checking[r]
  /\ checking' = [checking EXCEPT ![r] = FALSE]
  /\ \/ /\ lock = None
        /\ lock' = r
        /\ conn' = [conn EXCEPT ![r] = TRUE]
        /\ isLeader' = [isLeader EXCEPT ![r] = TRUE]
        /\ UNCHANGED faults
     \/ /\ lock # None
        /\ UNCHANGED <<conn, isLeader, lock, faults>>
     \/ /\ Fault
        /\ lock' \in IF lock = None THEN {None, Orphan} ELSE {lock}
        /\ UNCHANGED <<conn, isLeader>>
  /\ UNCHANGED up

(* release, when the process is told to stop: the unlock takes effect, or   *)
(* fails and the pool's connection is closed with the process.              *)
Release(r) ==
  /\ up[r] /\ ~checking[r]
  /\ Fault
  /\ lock' \in Closed(r)
  /\ up' = [up EXCEPT ![r] = FALSE]
  /\ conn' = [conn EXCEPT ![r] = FALSE]
  /\ isLeader' = [isLeader EXCEPT ![r] = FALSE]
  /\ UNCHANGED checking

Die(r) ==
  /\ up[r]
  /\ Fault
  /\ lock' \in Closed(r)
  /\ up' = [up EXCEPT ![r] = FALSE]
  /\ conn' = [conn EXCEPT ![r] = FALSE]
  /\ isLeader' = [isLeader EXCEPT ![r] = FALSE]
  /\ checking' = [checking EXCEPT ![r] = FALSE]

Start(r) ==
  /\ ~up[r]
  /\ up' = [up EXCEPT ![r] = TRUE]
  /\ UNCHANGED <<conn, isLeader, checking, lock, faults>>

-------------------------------------------------------------------------------
(* Postgres ends a session: a restart or failover of the server, or a       *)
(* broken connection.  The replica goes on in the belief it leads.          *)
SessionLost ==
  /\ lock \in Replica
  /\ Fault
  /\ lock' = None
  /\ UNCHANGED <<up, conn, isLeader, checking>>

(* Postgres notices that the client of a session is gone.                   *)
OrphanEnds ==
  /\ lock = Orphan
  /\ lock' = None
  /\ UNCHANGED <<up, conn, isLeader, checking, faults>>

ElectorStep(r) == Check(r) \/ PingFails(r) \/ TryLock(r)

ElectionNext ==
  \/ \E r \in Replica : ElectorStep(r) \/ Release(r) \/ Die(r) \/ Start(r)
  \/ SessionLost
  \/ OrphanEnds

ElectionSpec == ElectionInit /\ [][ElectionNext]_electionVars

(* IsLeader(), which waits for a check in progress.                         *)
IsLeader(r) == ~checking[r] /\ isLeader[r]

-------------------------------------------------------------------------------
(* Properties.                                                              *)

ElectionTypeOK ==
  /\ up \in [Replica -> BOOLEAN]
  /\ conn \in [Replica -> BOOLEAN]
  /\ isLeader \in [Replica -> BOOLEAN]
  /\ checking \in [Replica -> BOOLEAN]
  /\ lock \in Replica \cup {None, Orphan}
  /\ faults \in Nat

(* No replica sits on the lock without leading: the lock is held by a       *)
(* running process that knows it, by a session Postgres will clean up, or   *)
(* by nobody.  Otherwise every replica would wait for a leader for ever.    *)
LockIsUsed ==
  \A r \in Replica : lock = r => up[r] /\ conn[r] /\ isLeader[r] /\ ~checking[r]

(* The election implements LeaderLock: whatever sessions Postgres ends and  *)
(* whenever the replicas hear of it, a replica leads only since it took the *)
(* lock itself, and a stale leader steps down before it tries for it again. *)
Holder == IF lock \in Replica THEN lock ELSE None
Believers == {r \in Replica : isLeader[r]}

Locking == INSTANCE LeaderLock WITH holder <- Holder, believers <- Believers

ImplementsLeaderLock == Locking!Spec
================================================================================
