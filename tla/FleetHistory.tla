------------------------------ MODULE FleetHistory ------------------------------
(***************************************************************************)
(* FleetStore with two history variables, for what can only be said of all *)
(* the assignments a job has had: how many there were, and how many        *)
(* results were recorded for them.  They observe the store's steps and     *)
(* restrict none.                                                          *)
(***************************************************************************)
EXTENDS FleetStore

VARIABLES
  grants,  \* history: assignments of the job so far
  results  \* history: results recorded for the job so far

historyVars == <<storeVars, grants, results>>

HistoryInit ==
  /\ Init
  /\ grants = [j \in Job |-> 0]
  /\ results = [j \in Job |-> 0]

Count ==
  \/ /\ jobs' = jobs
     /\ UNCHANGED <<grants, results>>
  \/ /\ jobs' # jobs
     /\ grants' = [j \in Job |-> IF Assigns(j) THEN grants[j] + 1 ELSE grants[j]]
     /\ results' = [j \in Job |-> IF RecordsResult(j) THEN results[j] + 1 ELSE results[j]]

HistoryNext ==
  \/ \E w \in Worker : WorkerStep(w) /\ Count
  \/ \E j \in Job : JobStep(j) /\ Count

HistorySpec == HistoryInit /\ [][HistoryNext]_historyVars

-------------------------------------------------------------------------------
(* Properties.                                                              *)

(* Every recorded result belongs to an assignment of its own: no report,    *)
(* however late or often it comes, is recorded for an assignment that has   *)
(* its result already or has been taken back (Complete, RetryOrFail).       *)
OneResultPerAssignment ==
  \A j \in Job :
    results[j] + (IF jobs[j].status \in Held THEN 1 ELSE 0) <= grants[j]

(* A job is assigned once, and once more for every retry it has consumed    *)
(* and every worker_dead row in its history.  So it runs at most            *)
(* 1 + max_retries times plus the deaths on record, whatever schedulers,    *)
(* retry pollers and reapers race for it.                                   *)
AssignmentsAreCounted ==
  \A j \in Job :
    grants[j] + (IF jobs[j].status \in {"QUEUED", "RETRYING"} THEN 1 ELSE 0)
      <= 1 + jobs[j].retries + history[j].dead
================================================================================
