------------------------------ MODULE MCAutoscaler ------------------------------
(* The instance of Autoscaler for TLC: one worker where there may be a      *)
(* fault, two where the faults are used up.                                 *)
EXTENDS Autoscaler

SmallInit == Init /\ DOMAIN fleet = 1..(1 + faults)

SmallSpec == SmallInit /\ [][Next]_vars /\ Fairness
================================================================================
