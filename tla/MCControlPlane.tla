---------------------------- MODULE MCControlPlane ----------------------------
(* Instances of ControlPlane for TLC: the budgets of inputs the runs use.   *)
EXTENDS ControlPlane, TLC

Nothing == [k \in Upsets |-> 0]
Submits == [Nothing EXCEPT !["submit"] = Cardinality(Job)]
NoUpsets == {Submits}
OneCrash == {[Submits EXCEPT !["crash"] = 1]}
FaultAndFailover == {[Submits EXCEPT !["call"] = 1, !["failover"] = 1]}
CrashAndFault == {[Submits EXCEPT !["crash"] = 1, !["call"] = 1]}

(* With a job, one drain; without, delays with drains, and delays with      *)
(* faults.                                                                  *)
DelaysAndDrains ==
  {[Submits EXCEPT !["drain"] = 1],
   [Nothing EXCEPT !["delay"] = 1, !["drain"] = 1],
   [Nothing EXCEPT !["delay"] = 2, !["call"] = 1, !["crash"] = 1]}
===============================================================================
