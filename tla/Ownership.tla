------------------------------- MODULE Ownership -------------------------------
(***************************************************************************)
(* What the store promises about who owns a job, and nothing else.  A job  *)
(* is owned by one registration of one worker: a pair of the worker and    *)
(* the epoch it got when it registered.  A job is granted only while       *)
(* nobody owns it, only to a worker that has registered, and only to that  *)
(* worker's latest registration.  It never passes from one owner to        *)
(* another without being released in between.                              *)
(***************************************************************************)
EXTENDS Integers

CONSTANTS Worker, Job, None

VARIABLES
  owner,  \* the registration that owns the job, or None
  epoch   \* how often the worker has registered

vars == <<owner, epoch>>

Init ==
  /\ owner = [j \in Job |-> None]
  /\ epoch = [w \in Worker |-> 0]

(* Registering again supersedes a registration; it releases nothing.        *)
Supersede(w) ==
  /\ epoch' = [epoch EXCEPT ![w] = @ + 1]
  /\ UNCHANGED owner

Grant(j, w) ==
  /\ owner[j] = None
  /\ epoch[w] > 0
  /\ owner' = [owner EXCEPT ![j] = <<w, epoch[w]>>]
  /\ UNCHANGED epoch

(* The result of the job is recorded, or the owner is declared dead and     *)
(* loses all its jobs at once.                                              *)
Release(S) ==
  /\ owner' = [j \in Job |-> IF j \in S THEN None ELSE owner[j]]
  /\ UNCHANGED epoch

Next ==
  \/ \E S \in SUBSET Job : Release(S)
  \/ \E w \in Worker : Supersede(w)
  \/ \E j \in Job, w \in Worker : Grant(j, w)

Spec == Init /\ [][Next]_vars
================================================================================
