------------------------------- MODULE LeaderLock -------------------------------
(***************************************************************************)
(* What leader election promises, and nothing else.  At most one replica   *)
(* holds the lock, and any number may believe they lead: a replica whose   *)
(* session has ended goes on until it notices.  A replica starts to lead   *)
(* only by taking a lock that no replica holds, and one that has lost it   *)
(* gets it back only after it has stepped down.                            *)
(***************************************************************************)
CONSTANTS Replica, None

VARIABLES
  holder,    \* the replica whose session holds the lock, or None
  believers  \* the replicas that believe they lead

vars == <<holder, believers>>

Init == holder = None /\ believers = {}

Acquire(r) ==
  /\ holder = None
  /\ r \notin believers
  /\ holder' = r
  /\ believers' = believers \cup {r}

(* The session of the holder ends, and the holder does not know.            *)
Lose ==
  /\ holder' = None
  /\ UNCHANGED believers

(* A replica stops leading, and its session ends with that.                 *)
StepDown(r) ==
  /\ r \in believers
  /\ believers' = believers \ {r}
  /\ holder' = IF holder = r THEN None ELSE holder

Next == Lose \/ \E r \in Replica : Acquire(r) \/ StepDown(r)

Spec == Init /\ [][Next]_vars
================================================================================
