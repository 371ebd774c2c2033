------------------------------ MODULE MCJobStreams ------------------------------
(* Instances of JobStreams: the first two requests carry the same key.      *)
EXTENDS JobStreams

CONSTANTS a, b, k

SharedKey == [j \in Job |-> IF j \in {a, b} THEN k ELSE None]
OnePriority == [j \in Job |-> 0]
================================================================================
