----------------------------- MODULE MCLatency -----------------------------
(* TLC instance of Latency: an event every 2, latencies up to 8, feeds of   *)
(* up to six events that take no time, less than an interval, one, or more. *)
EXTENDS Latency

SomeTimes == {0, 1, 2, 5}
=============================================================================
