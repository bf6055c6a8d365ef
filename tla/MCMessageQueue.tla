---------------------------- MODULE MCMessageQueue ----------------------------
(* Two producers, two messages each, a run of at most two turns.             *)
EXTENDS MessageQueue
===============================================================================
