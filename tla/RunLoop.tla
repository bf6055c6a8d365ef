-------------------------------- MODULE RunLoop --------------------------------
(***************************************************************************)
(* One run of the turn loop: runOn of internal/loop/run_loop.go, with the  *)
(* model call of run_call.go.  It follows what a host can observe of it:   *)
(* the durable row minted for each turn and every status it is finalized   *)
(* with, the tool calls the conversation holds without a result, the model *)
(* calls made, and how the run ends.                                       *)
(*                                                                         *)
(* The batch of a turn is one step here (ToolBatch details it), the        *)
(* registry of sub-agents is whether one is out or ready (SubagentRuns),   *)
(* and the queue is whether it holds a message (MessageQueue).             *)
(***************************************************************************)
EXTENDS Integers, Sequences

CONSTANTS
  MaxTurns,       \* Config.MaxTurns, set
  StuckNudgeAt,   \* identical turns in a row that get a nudge
  StuckFailAt,    \* identical turns in a row that end the run
  Batches,        \* fingerprints of tool batches
  NoBatch         \* a turn that asks for no tools

ASSUME TurnsAssumption == MaxTurns \in Nat \ {0}
ASSUME StuckAssumption ==
  /\ StuckNudgeAt \in Nat \ {0}
  /\ StuckFailAt \in Nat
  /\ StuckNudgeAt < StuckFailAt
ASSUME NoBatchIsNone == NoBatch \notin Batches

VARIABLES
  phase,         \* where runOn is
  turn,          \* the loop variable, from 0
  calls,         \* Result.Turns: model calls made
  row,           \* rows minted; the newest is the turn's
  inflight,      \* currentAssistantID # ""
  fin,           \* history: statuses each row was finalized with, in order
  got,           \* what the newest model call returned
  open,          \* the tree holds a call of the newest model turn without result
  lastBatch, repeats,
  overflowTurn,  \* the turn whose overflow was compacted once
  tools,         \* len(cfg.Tools) > 0
  subs,          \* the registry of sub-agents: none, out, or ready to report
  queued,        \* the message queue holds a message
  inbox,         \* the host's inbox holds a message
  outcome,       \* how the run ended
  ran,           \* history: the batches that were executed, in order
  nudged,        \* history: a nudge followed the newest executed batch
  silent         \* history: rows whose turn gave way to a report unwritten

vars == <<phase, turn, calls, row, inflight, fin, got, open, lastBatch, repeats,
          overflowTurn, tools, subs, queued, inbox, outcome, ran, nudged, silent>>

stuckVars == <<lastBatch, repeats, ran, nudged>>
world     == <<tools, subs, queued, inbox>>

MaxRows == 2 * MaxTurns
Rows    == 1 .. MaxRows
Ends    == {"returned", "panicked"}

\* A model call's outcome.  A call that failed may have streamed part of its
\* turn, and with it tool calls that will never run.
Outcomes ==
  [err   : {"none", "cancelled", "error", "overflow"},
   batch : Batches \cup {NoBatch},
   text  : BOOLEAN]

Nothing == [err |-> "error", batch |-> NoBatch, text |-> FALSE]
Streamed(g) == g.text \/ g.batch # NoBatch

moreTurnsAllowed == turn < MaxTurns - 1

Init ==
  /\ phase = "boundary"
  /\ turn = 0
  /\ calls = 0
  /\ row = 0
  /\ inflight = FALSE
  /\ fin = [r \in Rows |-> <<>>]
  /\ got = Nothing
  /\ open = FALSE
  /\ lastBatch = NoBatch
  /\ repeats = 0
  /\ overflowTurn = -1
  /\ tools \in BOOLEAN
  /\ subs \in {"none", "out", "ready"}
  /\ queued = FALSE
  /\ inbox = FALSE
  /\ outcome = "none"
  /\ ran = <<>>
  /\ nudged = FALSE
  /\ silent = {}

\* Nothing looks at the call's outcome once the row is finalized.
finalizeAssistant(status) ==
  /\ fin' = [fin EXCEPT ![row] = Append(@, status)]
  /\ inflight' = FALSE
  /\ got' = Nothing

returns(how) ==
  /\ phase' = "returned"
  /\ outcome' = how
  /\ turn' = turn

continues ==
  /\ phase' = "boundary"
  /\ turn' = turn + 1
  /\ outcome' = outcome

-------------------------------------------------------------------------------
(* The turn boundary, and the turn's row.                                   *)

\* What is ready from sub-agents, the queue and the inbox is delivered.
deliversArrivals ==
  /\ IF turn > 0 /\ subs = "ready" THEN subs' \in {"none", "out"} ELSE subs' = subs
  /\ queued' = FALSE
  /\ inbox' = FALSE

\* The host mints the row of the turn.
MintRow ==
  /\ phase = "boundary"
  /\ turn < MaxTurns
  /\ deliversArrivals
  /\ row' = row + 1
  /\ inflight' = TRUE
  /\ phase' = "call"
  /\ UNCHANGED <<turn, calls, fin, got, open, stuckVars, overflowTurn, tools, outcome, silent>>

\* The resource watch met a cancelled context, or the window cannot be met.
BoundaryFails ==
  /\ phase = "boundary"
  /\ deliversArrivals
  /\ returns("error")
  /\ UNCHANGED <<calls, row, inflight, fin, got, open, stuckVars, overflowTurn, tools, silent>>

\* The host failed to announce the row, or OnTurnBegin refused the call.
CallRefused ==
  /\ phase = "call"
  /\ finalizeAssistant("error")
  /\ returns("error")
  /\ UNCHANGED <<calls, row, open, stuckVars, overflowTurn, world, silent>>

-------------------------------------------------------------------------------
(* The model call and its failures.                                         *)

\* streamCall returned: its nodes are in the tree, calls without results.
ModelCall(g) ==
  /\ phase = "call"
  /\ calls' = calls + 1
  /\ got' = g
  /\ open' = (g.batch # NoBatch)
  /\ phase' = "got"
  /\ UNCHANGED <<turn, row, inflight, fin, stuckVars, overflowTurn, world, outcome, silent>>

\* A request larger than the window, and nothing streamed: compact and ask
\* again, once per turn.
OverflowRetries ==
  /\ phase = "got"
  /\ got.err = "overflow"
  /\ ~Streamed(got)
  /\ overflowTurn # turn
  /\ overflowTurn' = turn
  /\ finalizeAssistant("error")
  /\ phase' = "boundary"
  /\ UNCHANGED <<turn, calls, row, open, stuckVars, world, outcome, silent>>

\* Mutant: the calls a failed call streamed are left as they are.
CallFailsKeepsCalls ==
  /\ phase = "got"
  /\ got.err # "none"
  /\ finalizeAssistant(IF got.err = "cancelled" THEN "cancelled" ELSE "error")
  /\ returns("error")
  /\ UNCHANGED <<calls, row, open, stuckVars, overflowTurn, world, silent>>

\* Any other failure, or a compaction that failed: omitCalls, finalize, stop.
CallFails ==
  /\ phase = "got"
  /\ got.err # "none"
  /\ open' = FALSE
  /\ finalizeAssistant(IF got.err = "cancelled" THEN "cancelled" ELSE "error")
  /\ returns("error")
  /\ UNCHANGED <<calls, row, stuckVars, overflowTurn, world, silent>>

\* The model list named a window this run may not use.
ServedWindowFails ==
  /\ phase = "got"
  /\ got.err = "none"
  /\ open' = FALSE
  /\ finalizeAssistant("error")
  /\ returns("error")
  /\ UNCHANGED <<calls, row, stuckVars, overflowTurn, world, silent>>

-------------------------------------------------------------------------------
(* A turn that asks for tools and may still use them.                       *)

AsksTools == got.err = "none" /\ got.batch # NoBatch /\ moreTurnsAllowed

\* Mutant: the first turn of a row is not counted.
repeatsFromZero == IF got.batch = lastBatch THEN repeats + 1 ELSE 0

repeatsNow == IF got.batch = lastBatch THEN repeats + 1 ELSE 1

countBatch ==
  /\ lastBatch' = got.batch
  /\ repeats' = repeatsNow

Stuck ==
  /\ phase = "got"
  /\ AsksTools
  /\ repeatsNow >= StuckFailAt
  /\ countBatch
  /\ open' = FALSE
  /\ finalizeAssistant("complete")
  /\ returns("stuck")
  /\ UNCHANGED <<calls, row, overflowTurn, world, ran, nudged, silent>>

\* OnToolBatch failed, or left a batch no result could answer.
BatchRefused ==
  /\ phase = "got"
  /\ AsksTools
  /\ repeatsNow < StuckFailAt
  /\ countBatch
  /\ open' = FALSE
  /\ finalizeAssistant("cancelled")
  /\ returns("error")
  /\ UNCHANGED <<calls, row, overflowTurn, world, ran, nudged, silent>>

\* The row is complete with its calls before any of them runs.
BatchStarts ==
  /\ phase = "got"
  /\ AsksTools
  /\ repeatsNow < StuckFailAt
  /\ countBatch
  /\ ran' = Append(ran, got.batch)
  /\ nudged' = FALSE
  /\ finalizeAssistant("complete")
  /\ phase' = "tools"
  /\ UNCHANGED <<turn, calls, row, open, overflowTurn, world, outcome, silent>>

\* run_subagent may be among the tools.
mayLaunch == subs' = subs \/ (subs = "none" /\ tools /\ subs' = "out")

\* Every call has its result; a third identical turn is nudged after them.
BatchDone ==
  /\ phase = "tools"
  /\ mayLaunch
  /\ open' = FALSE
  /\ nudged' = (repeats = StuckNudgeAt)
  /\ continues
  /\ UNCHANGED <<calls, row, inflight, fin, got, lastBatch, repeats, ran,
                 overflowTurn, tools, queued, inbox, silent>>

\* abortBatch: a callback or an approval failed in the middle.
BatchAborts ==
  /\ phase = "tools"
  /\ mayLaunch
  /\ open' = FALSE
  /\ finalizeAssistant("cancelled")
  /\ returns("aborted")
  /\ UNCHANGED <<calls, row, stuckVars, overflowTurn, tools, queued, inbox, silent>>

-------------------------------------------------------------------------------
(* A turn that ends the loop, unless something is still to be answered.     *)

\* No call of this turn will run.
OmitCalls ==
  /\ phase = "got"
  /\ got.err = "none"
  /\ ~AsksTools
  /\ open' = FALSE
  /\ phase' = "ending"
  /\ UNCHANGED <<turn, calls, row, inflight, fin, got, lastBatch, repeats, ran, nudged,
                 overflowTurn, world, outcome, silent>>

\* The capped last turn: what arrived is delivered, the rest declared lost.
\* A report may land between the two.
CappedDelivers ==
  /\ phase = "ending"
  /\ subs # "none"
  /\ ~moreTurnsAllowed
  /\ finalizeAssistant("complete")
  /\ subs' \in {"none", "ready"}
  /\ queued' = FALSE
  /\ returns("capped")
  /\ UNCHANGED <<calls, row, open, stuckVars, overflowTurn, tools, inbox, silent>>

\* The only sub-agent still out reports between the two: nothing had arrived
\* and nobody is lost, and the turn ends as if none had been out.
CappedFindsNone ==
  /\ phase = "ending"
  /\ subs = "out"
  /\ ~moreTurnsAllowed
  /\ subs' = "ready"
  /\ phase' = "missed"
  /\ UNCHANGED <<turn, calls, row, inflight, fin, got, open, stuckVars, overflowTurn, tools,
                 queued, inbox, outcome, silent>>

\* Mutant: a cancelled wait returns without its row.
CollectCancelledUnsettled ==
  /\ phase = "ending"
  /\ subs = "out"
  /\ moreTurnsAllowed
  /\ returns("cancelled")
  /\ UNCHANGED <<calls, row, inflight, fin, got, open, stuckVars, overflowTurn, world, silent>>

\* The context ended while Collect slept.
CollectCancelled ==
  /\ phase = "ending"
  /\ subs = "out"
  /\ moreTurnsAllowed
  /\ finalizeAssistant("cancelled")
  /\ returns("cancelled")
  /\ UNCHANGED <<calls, row, open, stuckVars, overflowTurn, world, silent>>

\* Collect returned reports: they are queued for the next turn, and the row
\* of this one is finalized if it wrote anything.
CollectReports ==
  /\ phase = "ending"
  /\ subs = "ready"
  /\ moreTurnsAllowed
  /\ IF got.text
     THEN finalizeAssistant("complete") /\ silent' = silent
     ELSE UNCHANGED <<inflight, fin, got>> /\ silent' = silent \cup {row}
  /\ subs' \in {"none", "out"}
  /\ queued' = TRUE
  /\ continues
  /\ UNCHANGED <<calls, row, open, stuckVars, overflowTurn, tools, inbox>>

\* Nothing is out, or nothing was found to deliver.
pastSubagents == phase = "missed" \/ (phase = "ending" /\ subs = "none")

\* Mutant: a queued message is left to the stalled turn to find.
AnswersUnlessQueued ==
  /\ pastSubagents
  /\ got.text
  /\ ~queued
  /\ phase' = "answer"
  /\ UNCHANGED <<turn, calls, row, inflight, fin, got, open, stuckVars, overflowTurn, world,
                 outcome, silent>>

\* A written answer goes to the finish point.
Answers ==
  /\ pastSubagents
  /\ got.text
  /\ phase' = "answer"
  /\ UNCHANGED <<turn, calls, row, inflight, fin, got, open, stuckVars, overflowTurn, world,
                 outcome, silent>>

\* Nothing written, and a queued message is newer than any synthesis.
Stalls ==
  /\ pastSubagents
  /\ ~got.text
  /\ queued /\ moreTurnsAllowed
  /\ finalizeAssistant("complete")
  /\ continues
  /\ UNCHANGED <<calls, row, open, stuckVars, overflowTurn, world, silent>>

\* Nothing written, and no further call to make: the reasoning is the answer.
FallsBack ==
  /\ pastSubagents
  /\ ~got.text
  /\ ~(queued /\ moreTurnsAllowed)
  /\ ~(tools /\ moreTurnsAllowed)
  /\ phase' = "answer"
  /\ UNCHANGED <<turn, calls, row, inflight, fin, got, open, stuckVars, overflowTurn, world,
                 outcome, silent>>

\* The wrap-up: a tool-less call on the same row, whose turn may still hold
\* tool calls.
WrapUp ==
  /\ pastSubagents
  /\ ~got.text
  /\ ~queued
  /\ tools /\ moreTurnsAllowed
  /\ calls' = calls + 1
  /\ open' \in BOOLEAN
  /\ phase' = "wrapped"
  /\ UNCHANGED <<turn, row, inflight, fin, got, stuckVars, overflowTurn, world, outcome, silent>>

\* OnTurnBegin refused the wrap-up, which is then not made.
WrapUpRefused ==
  /\ pastSubagents
  /\ ~got.text
  /\ ~queued
  /\ tools /\ moreTurnsAllowed
  /\ phase' = "answer"
  /\ UNCHANGED <<turn, calls, row, inflight, fin, got, open, stuckVars, overflowTurn, world,
                 outcome, silent>>

\* Whatever it returned, its calls are omitted and some text is the answer.
WrapUpEnds ==
  /\ phase = "wrapped"
  /\ open' = FALSE
  /\ phase' = "answer"
  /\ UNCHANGED <<turn, calls, row, inflight, fin, got, stuckVars, overflowTurn, world,
                 outcome, silent>>

\* answer: OnStop, which may queue a message, and then the row.
FinalizeAnswer ==
  /\ phase = "answer"
  /\ finalizeAssistant("complete")
  /\ phase' = "settle"
  /\ UNCHANGED <<turn, calls, row, open, stuckVars, overflowTurn, world, outcome, silent>>

\* The rest of answer: another turn for a message, if one is left.
Settle ==
  /\ phase = "settle"
  /\ IF moreTurnsAllowed /\ (queued \/ inbox)
     THEN continues /\ inbox' = (queued /\ inbox)
     ELSE returns("answered") /\ inbox' = inbox
  /\ UNCHANGED <<calls, row, inflight, fin, got, open, stuckVars, overflowTurn, tools, subs,
                 queued, silent>>

-------------------------------------------------------------------------------
(* Panics, and what happens beside the run.                                 *)

\* Host code or a tool panics: the row in flight is finalized on the way up.
Panic ==
  /\ phase \notin Ends
  /\ IF inflight THEN finalizeAssistant("error") ELSE UNCHANGED <<inflight, fin, got>>
  /\ phase' = "panicked"
  /\ UNCHANGED <<turn, calls, row, open, stuckVars, overflowTurn, world, outcome, silent>>

HostQueues ==
  /\ phase \notin Ends
  /\ ~(queued /\ inbox)
  /\ \/ ~queued /\ queued' = TRUE /\ inbox' = inbox
     \/ ~inbox /\ inbox' = TRUE /\ queued' = queued
  /\ UNCHANGED <<phase, turn, calls, row, inflight, fin, got, open, stuckVars, overflowTurn,
                 tools, subs, outcome, silent>>

SubagentReports ==
  /\ phase \notin Ends
  /\ subs = "out"
  /\ subs' = "ready"
  /\ UNCHANGED <<phase, turn, calls, row, inflight, fin, got, open, stuckVars, overflowTurn,
                 tools, queued, inbox, outcome, silent>>

RunStep ==
  \/ MintRow \/ BoundaryFails \/ CallRefused
  \/ \E g \in Outcomes : ModelCall(g)
  \/ OverflowRetries \/ CallFails \/ ServedWindowFails
  \/ Stuck \/ BatchRefused \/ BatchStarts \/ BatchDone \/ BatchAborts
  \/ OmitCalls \/ CappedDelivers \/ CappedFindsNone \/ CollectReports \/ Answers \/ Stalls
  \/ FallsBack \/ WrapUp \/ WrapUpRefused \/ WrapUpEnds \/ FinalizeAnswer \/ Settle

Finished == phase \in Ends /\ UNCHANGED vars

Next ==
  \/ RunStep \/ CollectCancelled \/ Panic
  \/ HostQueues \/ SubagentReports
  \/ Finished

Spec == Init /\ [][Next]_vars

\* The run is never left by its goroutine, model calls and tools return, and
\* a sub-agent reports in the end.  The host need not cancel.
FairSpec == Spec /\ WF_vars(RunStep) /\ WF_vars(SubagentReports)

-------------------------------------------------------------------------------
(* Properties                                                               *)

Statuses == {"complete", "cancelled", "error"}

TypeOK ==
  /\ phase \in {"boundary", "call", "got", "tools", "ending", "missed", "wrapped", "answer", "settle"} \cup Ends
  /\ turn \in 0 .. MaxTurns - 1
  /\ calls \in Nat
  /\ row \in 0 .. MaxRows
  /\ inflight \in BOOLEAN
  /\ fin \in [Rows -> Seq(Statuses)]
  /\ got \in Outcomes
  /\ open \in BOOLEAN
  /\ lastBatch \in Batches \cup {NoBatch}
  /\ repeats \in Nat
  /\ overflowTurn \in -1 .. MaxTurns - 1
  /\ tools \in BOOLEAN
  /\ subs \in {"none", "out", "ready"}
  /\ queued \in BOOLEAN
  /\ inbox \in BOOLEAN
  /\ outcome \in {"none", "error", "stuck", "aborted", "capped", "cancelled", "answered"}
  /\ ran \in Seq(Batches)
  /\ nudged \in BOOLEAN
  /\ silent \in SUBSET Rows

\* No request carries a tool call without its result, and no run returns and
\* leaves one behind, on whichever of its exits: the conversation stays one
\* a provider accepts.
NothingUnanswered ==
  phase \in {"boundary", "call", "ending", "missed", "answer", "settle", "returned"} => ~open

\* Once a run is over, a panic included, its host's rows are settled: only a
\* turn that wrote nothing and gave way to a sub-agent's report leaves its
\* row open, and only the row of an aborted batch is finalized twice.
RowsSettled ==
  phase \in Ends =>
    /\ \A r \in 1 .. row : fin[r] = <<>> => r \in silent
    /\ \A r \in 1 .. row :
         Len(fin[r]) > 1 => r = row /\ outcome = "aborted" /\ fin[r] = <<"complete", "cancelled">>
    /\ \A r \in Rows : r > row => fin[r] = <<>>

\* A run makes at most three calls a turn, counting a retried overflow and
\* a wrap-up, and on its last permitted turn no wrap-up.
CallBudget ==
  /\ calls <= 3 * turn + 3
  /\ ~moreTurnsAllowed => calls <= 3 * MaxTurns - 1

\* The same batch is not executed StuckFailAt times in a row, and more than
\* StuckNudgeAt times only with a nudge the model has seen in between.
StuckIsCaught ==
  /\ \A i \in 1 .. Len(ran) - StuckFailAt + 1 :
       \E j \in i .. i + StuckFailAt - 1 : ran[j] # ran[i]
  /\ phase = "boundary" /\ Len(ran) >= StuckNudgeAt =>
       LET first == Len(ran) - StuckNudgeAt + 1
           block == \A j \in first .. Len(ran) : ran[j] = ran[Len(ran)]
       IN  (block /\ (first = 1 \/ ran[first - 1] # ran[first])) => nudged

\* The run ends, however many messages and reports keep arriving: the cap
\* and the capped last turn see to it.
RunEnds == <>(phase \in Ends)

===============================================================================
