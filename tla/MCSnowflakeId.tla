---------------------------- MODULE MCSnowflakeId ---------------------------
(* Two processes with two threads each.  Two ids fit into a tick, so that  *)
(* the third of a tick waits, and the time of an id repeats after two      *)
(* ticks.  Threads are not symmetric in the run: it checks liveness.       *)
EXTENDS SnowflakeId
=============================================================================
