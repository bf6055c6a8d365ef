------------------------------- MODULE MCSession -------------------------------
(***************************************************************************)
(* Two turns of at most two model calls, and two calls of Queue, Append,   *)
(* SetLeaf and Close, with a queue of the host's and without.              *)
(***************************************************************************)
EXTENDS Session
===============================================================================
