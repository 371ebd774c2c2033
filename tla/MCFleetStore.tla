------------------------------ MODULE MCFleetStore ------------------------------
(* Small instances of FleetStore, with its history variables, for TLC. *)
EXTENDS FleetHistory, TLC

(* Workers are interchangeable, and so are jobs.                            *)
Symmetry == Permutations(Worker) \cup Permutations(Job)
================================================================================
