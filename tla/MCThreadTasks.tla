---------------------------- MODULE MCThreadTasks ----------------------------
(* ThreadTasks for TLC.  Two threads give siblings that contend for the      *)
(* mutex and a thread started by a thread.                                   *)
EXTENDS ThreadTasks
==============================================================================
