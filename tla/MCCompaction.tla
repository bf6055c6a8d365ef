------------------------------ MODULE MCCompaction ------------------------------
(***************************************************************************)
(* One run whose messages are all of one size, so that a summary and the   *)
(* user's message after it are still more than the server takes.           *)
(***************************************************************************)
EXTENDS ContextWindow

OneSetting ==
  /\ WindowInit
  /\ <<armed, override, fallback, listed, served>> = <<TRUE, 0, 0, 5, 0>>

CompactionSpec == OneSetting /\ [][WindowNext]_wvars /\ WF_wvars(CompactionStep)
=================================================================================
