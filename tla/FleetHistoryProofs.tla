--------------------------- MODULE FleetHistoryProofs ---------------------------
(***************************************************************************)
(* Proofs about all the assignments of a job, for every set of workers and *)
(* jobs and for every bound.  A step of the store is looked at through the *)
(* row of one job: lemma JobMoves says what can happen to it.              *)
(***************************************************************************)
EXTENDS FleetHistory, FleetStoreProofs

(* The inductive invariant: the two properties, and that a job without a    *)
(* row was never assigned.                                                  *)
Counted ==
  /\ grants \in [Job -> Nat]
  /\ results \in [Job -> Nat]
  /\ \A j \in Job : jobs[j].status = "ABSENT" => grants[j] = 0
  /\ OneResultPerAssignment
  /\ AssignmentsAreCounted

(* The history variables count the steps that assign j or record a result.  *)
LEMMA CountRow ==
  ASSUME TypeOK, Counted, Count, NEW j \in Job
  PROVE  /\ grants'[j] = IF Assigns(j) THEN grants[j] + 1 ELSE grants[j]
         /\ results'[j] = IF RecordsResult(j) THEN results[j] + 1 ELSE results[j]
<1>1. CASE UNCHANGED <<jobs, grants, results>>
  <2>1. ~Assigns(j)
    BY <1>1, AssignsRow
  <2>2. ~RecordsResult(j)
    BY <1>1, RecordsRow DEF Held, Terminal
  <2> QED BY <1>1, <2>1, <2>2
<1>2. CASE jobs' # jobs
  BY <1>2 DEF Count
<1> QED BY <1>1, <1>2 DEF Count

(* What the invariant says of one job, given the columns it reads.          *)
Balanced(status, retries, dead, g, n) ==
  /\ status = "ABSENT" => g = 0
  /\ n + (IF status \in Held THEN 1 ELSE 0) <= g
  /\ g + (IF status \in Waiting THEN 1 ELSE 0) <= 1 + retries + dead

(* The invariant, job by job.                                               *)
LEMMA CountedByJob ==
  Counted <=>
    /\ grants \in [Job -> Nat]
    /\ results \in [Job -> Nat]
    /\ \A j \in Job :
         Balanced(jobs[j].status, jobs[j].retries, history[j].dead, grants[j], results[j])
  BY DEF Counted, OneResultPerAssignment, AssignmentsAreCounted, Balanced, Waiting

(* A step of the store that is counted keeps the account of every job.      *)
LEMMA BalanceStep ==
  ASSUME TypeOK, TypeOK', Counted, Next, Count, NEW j \in Job
  PROVE  /\ grants'[j] \in Nat /\ results'[j] \in Nat
         /\ Balanced(jobs'[j].status, jobs'[j].retries, history'[j].dead,
                     grants'[j], results'[j])
<1>1. /\ jobs[j].retries \in Nat /\ history[j].dead \in Nat
      /\ jobs'[j].retries \in Nat /\ history'[j].dead \in Nat
      /\ grants[j] \in Nat /\ results[j] \in Nat
  BY DEF TypeOK, JobRow, HistoryRows, Counted
<1>2. Balanced(jobs[j].status, jobs[j].retries, history[j].dead, grants[j], results[j])
  BY CountedByJob
<1>3. /\ grants'[j] = IF Assigns(j) THEN grants[j] + 1 ELSE grants[j]
      /\ results'[j] = IF RecordsResult(j) THEN results[j] + 1 ELSE results[j]
  BY CountRow
<1> USE DEF Balanced, Held, Waiting, Terminal
<1>4. CASE Assigns(j)
  <2>1. ~RecordsResult(j)
    BY <1>4, AssignsRow, RecordsRow
  <2> QED BY <1>1, <1>2, <1>3, <1>4, <2>1, AssignsRow
<1>5. CASE RecordsResult(j)
  <2>1. ~Assigns(j)
    BY <1>5, AssignsRow, RecordsRow
  <2> QED BY <1>1, <1>2, <1>3, <1>5, <2>1, RecordsRow
<1>6. CASE ~Assigns(j) /\ ~RecordsResult(j)
  <2>1. grants'[j] = grants[j] /\ results'[j] = results[j]
    BY <1>3, <1>6
  <2>2. CASE Stays(j)
    BY <1>1, <1>2, <2>1, <2>2 DEF Stays
  <2>3. CASE Reopened(j)
    BY <1>1, <1>2, <2>1, <2>3 DEF Reopened
  <2>4. CASE jobs[j].status = "ABSENT" /\ jobs'[j].status = "QUEUED" /\ history' = history
    <3>1. grants[j] = 0 /\ results[j] <= 0
      BY <1>1, <1>2, <2>4
    <3>2. 0 + 1 <= 1 + jobs'[j].retries + history'[j].dead
      BY <1>1
    <3> QED BY <1>1, <2>1, <2>4, <3>1, <3>2
  <2> QED BY <1>6, <2>2, <2>3, <2>4, JobMoves
<1> QED BY <1>4, <1>5, <1>6

(* The account is kept by every step.                                       *)
LEMMA CountedStep ==
  ASSUME TypeOK, TypeOK', Counted, [HistoryNext]_historyVars
  PROVE  Counted'
<1>1. CASE UNCHANGED historyVars
  BY <1>1 DEF historyVars, storeVars, Counted, OneResultPerAssignment, AssignmentsAreCounted
<1>2. CASE HistoryNext
  <2>1. Next /\ Count
    BY <1>2 DEF HistoryNext, Next
  <2>2. /\ grants' = [j \in Job |-> grants'[j]]
        /\ results' = [j \in Job |-> results'[j]]
    BY <2>1 DEF Count, Counted
  <2>3. \A j \in Job :
          /\ grants'[j] \in Nat /\ results'[j] \in Nat
          /\ Balanced(jobs'[j].status, jobs'[j].retries, history'[j].dead,
                      grants'[j], results'[j])
    BY <2>1, BalanceStep
  <2>4. grants' \in [Job -> Nat] /\ results' \in [Job -> Nat]
    BY <2>2, <2>3
  <2> QED BY <2>3, <2>4, CountedByJob
          DEF Counted, OneResultPerAssignment, AssignmentsAreCounted, Balanced, Waiting
<1> QED BY <1>1, <1>2

(* The history variables restrict nothing: without them, the behaviours are *)
(* behaviours of the store.                                                 *)
THEOREM HistoryObserves == HistorySpec => Spec
<1>1. HistoryInit => Init
  BY DEF HistoryInit
<1>2. [HistoryNext]_historyVars => [Next]_storeVars
  BY DEF HistoryNext, Next, historyVars
<1> QED BY <1>1, <1>2, PTL DEF HistorySpec, Spec

(* The account holds in every reachable state.                              *)
THEOREM Account == HistorySpec => []Counted
<1>1. HistoryInit => Counted
  BY DEF HistoryInit, Init, Counted, OneResultPerAssignment, AssignmentsAreCounted, Held
<1>2. TypeOK /\ TypeOK' /\ Counted /\ [HistoryNext]_historyVars => Counted'
  BY CountedStep
<1> QED BY <1>1, <1>2, HistoryObserves, TypeCorrect, PTL DEF HistorySpec

(* No assignment ever has two results on record, however late and often     *)
(* reports arrive (Complete, RetryOrFail).                                  *)
THEOREM ResultsAreSingle == HistorySpec => []OneResultPerAssignment
  BY Account, PTL DEF Counted

(* A job is assigned at most once more than the retries it consumed and the *)
(* worker deaths on its record (AssignJob, RetryOrFail,                     *)
(* MarkQueuedFromRetry, MarkDeadAndRequeue).                                *)
THEOREM AssignmentsBounded == HistorySpec => []AssignmentsAreCounted
  BY Account, PTL DEF Counted
================================================================================
