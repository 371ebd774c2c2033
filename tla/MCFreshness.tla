------------------------------ MODULE MCFreshness ------------------------------
(* Instances of Freshness for TLC, with the default settings: flushes       *)
(* coalesced over 15s (heartbeat.go), heartbeats every 5s and a timeout of  *)
(* 20s (config.go), sweeps every 5s (cmd/scheduler), half-second ticks.     *)
EXTENDS Freshness, RetryBackoff

HalfSeconds == 2
FiveSeconds == 5 * HalfSeconds
TwentySeconds == 20 * HalfSeconds
================================================================================
