---------------------------- MODULE MCSubagentRuns ----------------------------
(* Two launches through a gate of one slot, two runs of at most three turns. *)
EXTENDS SubagentRuns

CONSTANTS a1, a2

OwnID == [a \in Agents |-> a]
===============================================================================
