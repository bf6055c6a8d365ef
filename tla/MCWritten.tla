------------------------------- MODULE MCWritten -------------------------------
(***************************************************************************)
(* Every request of two dialects and two parameters, one of which has an   *)
(* attribute of its own, is written and read back.                         *)
(***************************************************************************)
EXTENDS Documents
================================================================================
