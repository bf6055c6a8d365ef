----------------------------- MODULE RunLoopProofs -----------------------------
(***************************************************************************)
(* Theorems about RunLoop for any cap on turns and any thresholds of stuck *)
(* detection: types, the calls no exit leaves unanswered, the budget of    *)
(* model calls, and the rows settled on every exit.                        *)
(***************************************************************************)
EXTENDS RunLoop, SequenceTheorems, TLAPS

USE TurnsAssumption, StuckAssumption, NoBatchIsNone

\* Phases in which the turn's row has been minted and not finalized.
InRow == {"call", "got", "ending", "missed", "wrapped", "answer"}

\* Phases no wrap-up has been sent before.
BeforeWrapUp == {"got", "tools", "ending", "missed"}

\* One more boundary, and one more call, in a turn whose overflow was retried.
extra == IF overflowTurn = turn THEN 1 ELSE 0

\* A turn mints a row at each of its boundaries, one or two.  At a boundary
\* the rows are those of earlier attempts; afterwards the attempt's own too.
RowInv ==
  /\ overflowTurn <= turn
  /\ phase = "boundary" => row <= 2 * turn + extra
  /\ phase \notin Ends \cup {"boundary"} => 1 <= row /\ row <= 2 * turn + 1 + extra
  /\ phase = "tools" => moreTurnsAllowed
  /\ inflight => 1 <= row

\* A model call of each attempt, and one more for the wrap-up.
CountInv ==
  /\ phase \in {"boundary", "call"} => calls <= 3 * turn + extra
  /\ phase \in BeforeWrapUp => calls <= 3 * turn + 1 + extra
  /\ calls <= 3 * turn + 2 + extra
  /\ ~moreTurnsAllowed => calls <= 3 * turn + 1 + extra

TypeInv == TypeOK /\ RowInv

\* A run starts well typed.
LEMMA InitType == Init => TypeInv
<1> SUFFICES ASSUME Init PROVE TypeInv
  OBVIOUS
<1> USE DEF Init
<1>1. Nothing \in Outcomes
  BY DEF Nothing, Outcomes
<1>2. fin \in [Rows -> Seq(Statuses)]
  OBVIOUS
<1>3. /\ turn \in 0 .. MaxTurns - 1
      /\ row \in 0 .. MaxRows
      /\ overflowTurn \in -1 .. MaxTurns - 1
  BY DEF MaxRows
<1>4. ran \in Seq(Batches)
  OBVIOUS
<1>5. TypeOK
  BY <1>1, <1>2, <1>3, <1>4 DEF TypeOK
<1>6. RowInv
  BY DEF RowInv, extra, Ends
<1>7. QED
  BY <1>5, <1>6 DEF TypeInv

\* Finalizing the row in flight keeps the types.
LEMMA FinalizeType ==
  ASSUME TypeInv, 1 <= row, NEW status \in Statuses, finalizeAssistant(status)
  PROVE  /\ fin' \in [Rows -> Seq(Statuses)]
         /\ inflight' = FALSE
         /\ got' \in Outcomes
<1>1. row \in Rows
  BY DEF TypeInv, TypeOK, Rows, MaxRows
<1>2. Append(fin[row], status) \in Seq(Statuses)
  BY <1>1 DEF TypeInv, TypeOK
<1>3. Nothing \in Outcomes
  BY DEF Nothing, Outcomes
<1>4. QED
  BY <1>1, <1>2, <1>3 DEF finalizeAssistant, TypeInv, TypeOK

\* Another turn of the loop: the rows of the turn left are counted.
LEMMA NextTurn ==
  ASSUME TypeInv, phase \notin Ends \cup {"boundary"}, moreTurnsAllowed, continues,
         UNCHANGED <<row, overflowTurn>>
  PROVE  /\ turn' \in 0 .. MaxTurns - 1
         /\ overflowTurn' <= turn'
         /\ row' <= 2 * turn' + extra'
<1> USE DEF TypeInv, TypeOK, RowInv, continues, moreTurnsAllowed
<1>1. extra \in {0, 1} /\ extra' = 0
  BY DEF extra
<1>2. row <= 2 * turn + 2
  BY <1>1 DEF MaxRows
<1>3. QED
  BY <1>1, <1>2 DEF MaxRows

\* Steps that do not finalize a row.
LEMMA PlainSteps ==
  ASSUME TypeInv,
         \/ MintRow \/ BoundaryFails \/ (\E g \in Outcomes : ModelCall(g))
         \/ BatchDone \/ OmitCalls \/ CappedFindsNone \/ Answers \/ FallsBack
         \/ WrapUp \/ WrapUpRefused \/ WrapUpEnds \/ Settle
         \/ HostQueues \/ SubagentReports
  PROVE  TypeInv'
<1> USE DEF TypeInv, TypeOK, RowInv, extra, stuckVars, world, Ends, moreTurnsAllowed,
            returns, continues
<1>1. CASE MintRow
  <2>1. extra \in {0, 1} /\ extra' = extra
    BY <1>1 DEF MintRow
  <2>2. row' \in 0 .. MaxRows /\ 1 <= row' /\ row' <= 2 * turn + 1 + extra
    BY <1>1, <2>1 DEF MintRow, MaxRows
  <2>3. subs' \in {"none", "out", "ready"}
    BY <1>1 DEF MintRow, deliversArrivals
  <2>4. QED
    BY <1>1, <2>1, <2>2, <2>3 DEF MintRow, deliversArrivals
<1>2. CASE BoundaryFails
  BY <1>2 DEF BoundaryFails, deliversArrivals
<1>3. ASSUME NEW g \in Outcomes, ModelCall(g) PROVE TypeInv'
  BY <1>3 DEF ModelCall
<1>4. CASE BatchDone
  <2>1. nudged' \in BOOLEAN
    BY <1>4 DEF BatchDone
  <2>2. /\ turn' \in 0 .. MaxTurns - 1
        /\ overflowTurn' <= turn'
        /\ row' <= 2 * turn' + extra'
    BY <1>4, NextTurn DEF BatchDone
  <2>3. QED
    BY <1>4, <2>1, <2>2, ZenonT(60) DEF BatchDone, mayLaunch
<1>5. CASE OmitCalls
  BY <1>5, ZenonT(60) DEF OmitCalls
<1>6. CASE CappedFindsNone
  BY <1>6 DEF CappedFindsNone
<1>7. CASE Answers
  BY <1>7 DEF Answers, pastSubagents
<1>8. CASE FallsBack
  BY <1>8 DEF FallsBack, pastSubagents
<1>9. CASE WrapUp
  BY <1>9 DEF WrapUp, pastSubagents
<1>10. CASE WrapUpRefused
  BY <1>10 DEF WrapUpRefused, pastSubagents
<1>11. CASE WrapUpEnds
  BY <1>11, ZenonT(60) DEF WrapUpEnds
<1>12. CASE Settle
  BY <1>12 DEF Settle
<1>13. CASE HostQueues
  <2>1. queued' \in BOOLEAN /\ inbox' \in BOOLEAN
    BY <1>13 DEF HostQueues
  <2>2. QED
    BY <1>13, <2>1 DEF HostQueues
<1>14. CASE SubagentReports
  BY <1>14 DEF SubagentReports
<1>15. QED
  BY <1>1, <1>2, <1>3, <1>4, <1>5, <1>6, <1>7, <1>8, <1>9, <1>10, <1>11, <1>12, <1>13, <1>14

\* Counting a batch keeps the types.
LEMMA CountType ==
  ASSUME TypeInv, AsksTools, countBatch
  PROVE  /\ lastBatch' \in Batches \cup {NoBatch}
         /\ repeats' \in Nat
         /\ got.batch \in Batches
BY DEF TypeInv, TypeOK, AsksTools, countBatch, repeatsNow, Outcomes

\* Steps that finalize the row.
LEMMA RowSteps ==
  ASSUME TypeInv,
         \/ CallRefused \/ OverflowRetries \/ CallFails \/ ServedWindowFails
         \/ Stuck \/ BatchRefused \/ BatchStarts \/ BatchAborts
         \/ CappedDelivers \/ CollectCancelled \/ CollectReports \/ Stalls
         \/ FinalizeAnswer \/ Panic
  PROVE  TypeInv'
<1> USE DEF TypeInv, TypeOK, RowInv, extra, stuckVars, world, Ends, moreTurnsAllowed,
            returns, continues
<1> DEFINE Finalizes == \E s \in Statuses : finalizeAssistant(s)
<1> DEFINE Final == fin' \in [Rows -> Seq(Statuses)] /\ inflight' = FALSE /\ got' \in Outcomes
<1>0. ASSUME 1 <= row, Finalizes PROVE Final
  BY <1>0, FinalizeType
<1> HIDE DEF Final
<1>1. CASE CallRefused
  <2>1. Final
    BY <1>0, <1>1 DEF CallRefused, Statuses
  <2>2. QED
    BY <1>1, <2>1 DEF CallRefused, Final
<1>2. CASE OverflowRetries
  <2>1. Final
    BY <1>0, <1>2 DEF OverflowRetries, Statuses
  <2>2. QED
    <3>1. overflowTurn # turn /\ overflowTurn' = turn'
      BY <1>2 DEF OverflowRetries
    <3>2. row' <= 2 * turn' + extra'
      BY <1>2, <3>1 DEF OverflowRetries
    <3>3. /\ overflowTurn' \in -1 .. MaxTurns - 1
          /\ overflowTurn' <= turn'
          /\ phase' = "boundary"
          /\ inflight' = FALSE
      BY <1>2 DEF OverflowRetries, finalizeAssistant
    <3>4. TypeOK'
      BY <1>2, <2>1, <3>3, ZenonT(60) DEF OverflowRetries, Final
    <3>5. RowInv'
      <4> HIDE DEF extra
      <4>1. QED
        BY <3>2, <3>3
    <3>6. QED
      BY <3>4, <3>5
<1>3. CASE CallFails
  <2>1. Final
    BY <1>0, <1>3 DEF CallFails, Statuses
  <2>2. QED
    BY <1>3, <2>1 DEF CallFails, Final
<1>4. CASE ServedWindowFails
  <2>1. Final
    BY <1>0, <1>4 DEF ServedWindowFails, Statuses
  <2>2. QED
    BY <1>4, <2>1 DEF ServedWindowFails, Final
<1>5. CASE Stuck
  <2>1. Final
    BY <1>0, <1>5 DEF Stuck, Statuses
  <2>2. QED
    BY <1>5, <2>1, CountType DEF Stuck, Final
<1>6. CASE BatchRefused
  <2>1. Final
    BY <1>0, <1>6 DEF BatchRefused, Statuses
  <2>2. QED
    BY <1>6, <2>1, CountType DEF BatchRefused, Final
<1>7. CASE BatchStarts
  <2>1. Final
    BY <1>0, <1>7 DEF BatchStarts, Statuses
  <2>2. ran' \in Seq(Batches)
    BY <1>7, CountType DEF BatchStarts
  <2>3. moreTurnsAllowed
    BY <1>7 DEF BatchStarts, AsksTools
  <2>4. QED
    BY <1>7, <2>1, <2>2, <2>3, CountType DEF BatchStarts, Final
<1>8. CASE BatchAborts
  <2>1. Final
    BY <1>0, <1>8 DEF BatchAborts, Statuses
  <2>2. QED
    BY <1>8, <2>1 DEF BatchAborts, Final, mayLaunch
<1>9. CASE CappedDelivers
  <2>1. Final
    BY <1>0, <1>9 DEF CappedDelivers, Statuses
  <2>2. QED
    BY <1>9, <2>1 DEF CappedDelivers, Final
<1>10. CASE CollectCancelled
  <2>1. Final
    BY <1>0, <1>10 DEF CollectCancelled, Statuses
  <2>2. QED
    BY <1>10, <2>1 DEF CollectCancelled, Final
<1>11. CASE CollectReports
  <2>1. fin' \in [Rows -> Seq(Statuses)] /\ inflight' \in BOOLEAN /\ got' \in Outcomes
    <3>1. CASE got.text
      BY <1>0, <1>11, <3>1 DEF CollectReports, Statuses, Final
    <3>2. CASE ~got.text
      BY <1>11, <3>2 DEF CollectReports
    <3>3. QED
      BY <3>1, <3>2
  <2>2. silent' \in SUBSET Rows
    <3>1. row \in Rows
      BY <1>11 DEF CollectReports, Rows
    <3>2. QED
      BY <1>11, <3>1 DEF CollectReports
  <2>3. QED
    BY <1>11, <2>1, <2>2 DEF CollectReports
<1>12. CASE Stalls
  <2>1. Final
    BY <1>0, <1>12 DEF Stalls, Statuses, pastSubagents
  <2>2. QED
    <3>1. /\ turn' \in 0 .. MaxTurns - 1
          /\ overflowTurn' <= turn'
          /\ row' <= 2 * turn' + extra'
      BY <1>12, NextTurn DEF Stalls, pastSubagents
    <3>2. QED
      BY <1>12, <2>1, <3>1 DEF Stalls, Final, pastSubagents
<1>13. CASE FinalizeAnswer
  <2>1. Final
    BY <1>0, <1>13 DEF FinalizeAnswer, Statuses
  <2>2. QED
    BY <1>13, <2>1, ZenonT(60) DEF FinalizeAnswer, Final
<1>14. CASE Panic
  <2>1. fin' \in [Rows -> Seq(Statuses)] /\ inflight' = FALSE /\ got' \in Outcomes
    <3>1. CASE inflight
      BY <1>0, <1>14, <3>1 DEF Panic, Statuses, Final
    <3>2. CASE ~inflight
      BY <1>14, <3>2 DEF Panic
    <3>3. QED
      BY <3>1, <3>2
  <2>2. phase' = "panicked" /\ UNCHANGED <<turn, row, overflowTurn>>
    BY <1>14 DEF Panic
  <2>3. RowInv'
    BY <2>1, <2>2
  <2>4. TypeOK'
    BY <1>14, <2>1, ZenonT(60) DEF Panic
  <2>5. QED
    BY <2>3, <2>4
<1>15. QED
  BY <1>1, <1>2, <1>3, <1>4, <1>5, <1>6, <1>7, <1>8, <1>9, <1>10, <1>11, <1>12, <1>13, <1>14

\* Every step is one of the two kinds, or changes nothing.
LEMMA NextType == TypeInv /\ [Next]_vars => TypeInv'
<1> SUFFICES ASSUME TypeInv, [Next]_vars PROVE TypeInv'
  OBVIOUS
<1>1. CASE UNCHANGED vars
  BY <1>1 DEF vars, TypeInv, TypeOK, RowInv, extra, moreTurnsAllowed, Ends
<1>2. CASE Next
  BY <1>1, <1>2, PlainSteps, RowSteps DEF Next, RunStep, Finished
<1>3. QED
  BY <1>1, <1>2

\* The types of runOn's state, for every cap: a turn within the cap, and a
\* row for at most two attempts of each turn.
THEOREM TypeCorrect == Spec => []TypeOK
<1>1. TypeInv => TypeOK
  BY DEF TypeInv
<1>2. QED
  BY <1>1, InitType, NextType, PTL DEF Spec

LEMMA TypeInvariant == Spec => []TypeInv
BY InitType, NextType, PTL DEF Spec

-------------------------------------------------------------------------------
(* No exit leaves a call unanswered.                                        *)

\* Only a model call that just returned has calls without results, and only
\* those it streamed.
OpenInv ==
  /\ NothingUnanswered
  /\ phase = "got" /\ open => got.batch # NoBatch

LEMMA NextOpen == TypeInv /\ OpenInv /\ [Next]_vars => OpenInv'
<1> SUFFICES ASSUME TypeInv, OpenInv, [Next]_vars PROVE OpenInv'
  OBVIOUS
<1> USE DEF OpenInv, NothingUnanswered, returns, continues
<1>1. ASSUME NEW g \in Outcomes, ModelCall(g) PROVE OpenInv'
  BY <1>1 DEF ModelCall
<1>2. CASE OverflowRetries
  BY <1>2 DEF OverflowRetries, Streamed
<1>3. CASE \/ MintRow \/ BoundaryFails \/ CallRefused
           \/ CallFails \/ ServedWindowFails
           \/ Stuck \/ BatchRefused \/ BatchStarts \/ BatchDone \/ BatchAborts
  BY <1>3 DEF MintRow, BoundaryFails, CallRefused, CallFails, ServedWindowFails, Stuck,
     BatchRefused, BatchStarts, BatchDone, BatchAborts
<1>4. CASE \/ OmitCalls \/ CappedDelivers \/ CappedFindsNone \/ CollectReports
           \/ CollectCancelled \/ Answers \/ Stalls \/ FallsBack
  BY <1>4 DEF OmitCalls, CappedDelivers, CappedFindsNone, CollectReports, CollectCancelled,
     Answers, Stalls, FallsBack, pastSubagents
<1>5. CASE WrapUp \/ WrapUpRefused \/ WrapUpEnds \/ FinalizeAnswer \/ Settle \/ Panic
  BY <1>5 DEF WrapUp, WrapUpRefused, WrapUpEnds, FinalizeAnswer, Settle, Panic, pastSubagents
<1>6. CASE HostQueues \/ SubagentReports
  BY <1>6 DEF HostQueues, SubagentReports
<1>7. CASE UNCHANGED vars
  BY <1>7 DEF vars
<1>8. QED
  BY <1>1, <1>2, <1>3, <1>4, <1>5, <1>6, <1>7 DEF Next, RunStep, Finished

\* Every exit of runOn but a panic leaves each call of the conversation with a
\* result, and so does every step to another model call.
THEOREM CallsAnswered == Spec => []NothingUnanswered
<1>1. Init => OpenInv
  BY DEF Init, OpenInv, NothingUnanswered
<1>2. OpenInv => NothingUnanswered
  BY DEF OpenInv
<1>3. QED
  BY <1>1, <1>2, NextOpen, TypeInvariant, PTL DEF Spec

-------------------------------------------------------------------------------
(* The budget of model calls.                                               *)

\* A turn left behind has made at most three calls.
LEMMA NextTurnCounts ==
  ASSUME TypeInv, CountInv, continues, UNCHANGED <<calls, overflowTurn>>
  PROVE  /\ calls' <= 3 * turn' + extra'
         /\ calls' <= 3 * turn' + 1 + extra'
         /\ calls' <= 3 * turn' + 2 + extra'
<1> USE DEF TypeInv, TypeOK, RowInv, CountInv, continues
<1>1. extra \in {0, 1} /\ extra' = 0
  BY DEF extra
<1>2. calls <= 3 * turn + 3
  BY <1>1
<1>3. QED
  BY <1>1, <1>2

\* Steps within a turn, or to the end, that make no call.
LEMMA SameTurnCounts ==
  ASSUME TypeInv, CountInv, UNCHANGED <<turn, calls, overflowTurn>>,
         \/ phase' = phase
         \/ phase' \in Ends \cup {"answer", "settle"}
         \/ phase = "boundary" /\ phase' = "call"
         \/ phase \in BeforeWrapUp /\ phase' \in BeforeWrapUp
  PROVE  CountInv'
<1>1. extra' = extra /\ moreTurnsAllowed' = moreTurnsAllowed
  BY DEF extra, moreTurnsAllowed
<1>2. QED
  BY <1>1 DEF CountInv, BeforeWrapUp, Ends

LEMMA NextCount == TypeInv /\ CountInv /\ [Next]_vars => CountInv'
<1> SUFFICES ASSUME TypeInv, CountInv, [Next]_vars PROVE CountInv'
  OBVIOUS
<1>1. ASSUME NEW g \in Outcomes, ModelCall(g) PROVE CountInv'
  <2>1. extra' = extra /\ extra \in {0, 1} /\ moreTurnsAllowed' = moreTurnsAllowed
    BY <1>1 DEF ModelCall, extra, moreTurnsAllowed
  <2>2. QED
    BY <1>1, <2>1 DEF ModelCall, TypeInv, TypeOK, CountInv, BeforeWrapUp
<1>2. CASE OverflowRetries
  <2>1. extra = 0 /\ extra' = 1 /\ moreTurnsAllowed' = moreTurnsAllowed
    BY <1>2 DEF OverflowRetries, extra, moreTurnsAllowed
  <2>2. QED
    BY <1>2, <2>1 DEF OverflowRetries, TypeInv, TypeOK, CountInv, BeforeWrapUp
<1>3. CASE WrapUp
  <2>1. extra' = extra /\ extra \in {0, 1} /\ moreTurnsAllowed /\ moreTurnsAllowed'
    BY <1>3 DEF WrapUp, extra, moreTurnsAllowed
  <2>2. calls <= 3 * turn + 1 + extra
    BY <1>3 DEF WrapUp, pastSubagents, CountInv, BeforeWrapUp
  <2>3. QED
    BY <1>3, <2>1, <2>2 DEF WrapUp, TypeInv, TypeOK, CountInv, BeforeWrapUp
<1>4. ASSUME continues, UNCHANGED <<calls, overflowTurn>> PROVE CountInv'
  <2>1. phase' = "boundary"
    BY <1>4 DEF continues
  <2>2. QED
    BY <1>4, <2>1, NextTurnCounts DEF CountInv, BeforeWrapUp
<1>5. CASE BatchDone \/ CollectReports \/ Stalls
  BY <1>4, <1>5 DEF BatchDone, CollectReports, Stalls
<1>6. CASE Settle
  <2>1. CASE moreTurnsAllowed /\ (queued \/ inbox)
    BY <1>4, <1>6, <2>1 DEF Settle
  <2>2. CASE ~(moreTurnsAllowed /\ (queued \/ inbox))
    BY <1>6, <2>2, SameTurnCounts DEF Settle, returns, Ends
  <2>3. QED
    BY <2>1, <2>2
<1>7. CASE MintRow \/ BoundaryFails \/ CallRefused \/ CallFails \/ ServedWindowFails
  BY <1>7, SameTurnCounts
     DEF MintRow, BoundaryFails, CallRefused, CallFails, ServedWindowFails, returns, Ends
<1>8. CASE Stuck \/ BatchRefused \/ BatchStarts \/ BatchAborts
  BY <1>8, SameTurnCounts
     DEF Stuck, BatchRefused, BatchStarts, BatchAborts, returns, Ends, BeforeWrapUp
<1>9. CASE OmitCalls \/ CappedDelivers \/ CappedFindsNone \/ CollectCancelled
  BY <1>9, SameTurnCounts
     DEF OmitCalls, CappedDelivers, CappedFindsNone, CollectCancelled, returns, Ends, BeforeWrapUp
<1>10. CASE Answers \/ FallsBack \/ WrapUpRefused \/ WrapUpEnds \/ FinalizeAnswer \/ Panic
  BY <1>10, SameTurnCounts
     DEF Answers, FallsBack, WrapUpRefused, WrapUpEnds, FinalizeAnswer, Panic, Ends
<1>11. CASE HostQueues \/ SubagentReports
  BY <1>11, SameTurnCounts DEF HostQueues, SubagentReports
<1>12. CASE UNCHANGED vars
  BY <1>12, SameTurnCounts DEF vars
<1>13. QED
  BY <1>1, <1>2, <1>3, <1>5, <1>6, <1>7, <1>8, <1>9, <1>10, <1>11, <1>12
     DEF Next, RunStep, Finished

\* A run makes at most three model calls a turn, the retry of an overflow and
\* the wrap-up included, and no wrap-up on its last permitted turn: it never
\* makes more than 3 * MaxTurns - 1.
THEOREM CallsBudgeted == Spec => []CallBudget
<1>1. Init => CountInv
  BY DEF Init, CountInv, extra, BeforeWrapUp
<1>2. TypeInv /\ CountInv => CallBudget
  <2>1. extra \in {0, 1}
    BY DEF extra
  <2>2. QED
    BY <2>1 DEF TypeInv, TypeOK, CountInv, CallBudget, moreTurnsAllowed
<1>3. QED
  BY <1>1, <1>2, NextCount, TypeInvariant, PTL DEF Spec

-------------------------------------------------------------------------------
(* The host's rows.                                                         *)

\* Rows not minted yet are bare, earlier ones are finalized at most once and
\* silent if never, and the newest is in flight exactly until it is finalized:
\* a second time only by an aborted batch, which ends the run.
FinInv ==
  /\ \A r \in Rows : r > row => fin[r] = <<>>
  /\ \A r \in Rows : r < row => Len(fin[r]) <= 1 /\ (fin[r] = <<>> => r \in silent)
  /\ phase \in InRow => inflight
  /\ inflight => fin[row] = <<>>
  /\ phase = "tools" => fin[row] = <<"complete">>
  /\ 1 <= row /\ phase \notin InRow /\ fin[row] = <<>> => row \in silent
  /\ 1 <= row /\ Len(fin[row]) > 1 =>
       phase = "returned" /\ outcome = "aborted" /\ fin[row] = <<"complete", "cancelled">>

\* A row in flight gets its one status.
LEMMA FirstStatus ==
  ASSUME TypeInv, FinInv, inflight, NEW status \in Statuses, finalizeAssistant(status),
         UNCHANGED <<row, silent>>,
         \/ phase' \notin InRow \cup {"tools"}
         \/ phase' = "tools" /\ status = "complete"
  PROVE  FinInv'
<1>1. row \in Rows /\ fin[row] = <<>>
  BY DEF TypeInv, TypeOK, RowInv, FinInv, Rows, MaxRows
<1>2. fin' = [fin EXCEPT ![row] = <<status>>] /\ inflight' = FALSE
  BY <1>1 DEF finalizeAssistant
<1>3. fin'[row] = <<status>> /\ \A r \in Rows : r # row => fin'[r] = fin[r]
  BY <1>1, <1>2 DEF TypeInv, TypeOK
<1>4. row \in Int /\ \A r \in Rows : r \in Int
  BY <1>1 DEF Rows, MaxRows
<1>5. <<status>> # <<>> /\ Len(<<status>>) = 1
  OBVIOUS
<1>6. /\ \A r \in Rows : r > row' => fin'[r] = <<>>
      /\ \A r \in Rows : r < row' => Len(fin'[r]) <= 1 /\ (fin'[r] = <<>> => r \in silent')
  BY <1>3, <1>4 DEF FinInv
<1>7. QED
  BY <1>2, <1>3, <1>5, <1>6 DEF FinInv, InRow

\* A step that touches no row keeps them, unless it leaves one in flight behind.
LEMMA RowsKept ==
  ASSUME FinInv, UNCHANGED <<row, fin, inflight, silent>>,
         \/ phase \in InRow /\ phase' \in InRow
         \/ phase \notin InRow \cup Ends /\ phase' \notin InRow \cup {"tools"}
         \/ phase' = phase /\ outcome' = outcome
  PROVE  FinInv'
BY DEF FinInv, InRow, Ends

\* Before its end a run has finalized no row twice.
LEMMA NextFin == TypeInv /\ FinInv /\ [Next]_vars => FinInv'
<1> SUFFICES ASSUME TypeInv, FinInv, [Next]_vars PROVE FinInv'
  OBVIOUS
<1> USE DEF returns, continues
<1>1. CASE MintRow
  <2>1. /\ row + 1 \in Rows /\ row' = row + 1 /\ inflight' = TRUE /\ phase' = "call"
        /\ fin' = fin /\ silent' = silent
    <3>1. row' \in 0 .. MaxRows
      BY <1>1, PlainSteps DEF TypeInv, TypeOK
    <3>2. QED
      BY <1>1, <3>1 DEF MintRow, Rows, TypeInv, TypeOK
  <2>2. fin[row + 1] = <<>>
    BY <2>1 DEF FinInv, TypeInv, TypeOK
  <2>3. \A r \in Rows : r > row' => fin'[r] = <<>>
    BY <2>1 DEF FinInv, TypeInv, TypeOK, Rows
  <2>4. \A r \in Rows : r < row' => Len(fin'[r]) <= 1 /\ (fin'[r] = <<>> => r \in silent')
    <3>1. ASSUME NEW r \in Rows, r < row' PROVE r < row \/ r = row
      BY <2>1, <3>1 DEF Rows, TypeInv, TypeOK
    <3>2. 1 <= row => Len(fin[row]) <= 1 /\ (fin[row] = <<>> => row \in silent)
      <4>1. phase = "boundary"
        BY <1>1 DEF MintRow
      <4>2. 1 <= row => row \in Rows /\ Len(fin[row]) \in Nat
        BY DEF TypeInv, TypeOK, Rows
      <4>3. QED
        BY <4>1, <4>2 DEF FinInv, InRow
    <3>3. QED
      BY <2>1, <3>1, <3>2 DEF FinInv, Rows
  <2>5. QED
    BY <2>1, <2>2, <2>3, <2>4 DEF FinInv, InRow
<1>2. ASSUME NEW g \in Outcomes, ModelCall(g) PROVE FinInv'
  BY <1>2, RowsKept DEF ModelCall, InRow
<1>3. CASE BoundaryFails \/ BatchDone
  BY <1>3, RowsKept DEF BoundaryFails, BatchDone, InRow, Ends
<1>4. CASE CallRefused \/ OverflowRetries \/ CallFails \/ ServedWindowFails
  <2>1. inflight /\ \E s \in Statuses : finalizeAssistant(s)
    BY <1>4 DEF CallRefused, OverflowRetries, CallFails, ServedWindowFails, FinInv, InRow, Statuses
  <2>2. QED
    BY <1>4, <2>1, FirstStatus
       DEF CallRefused, OverflowRetries, CallFails, ServedWindowFails, InRow
<1>5. CASE Stuck \/ BatchRefused \/ BatchStarts
  <2>1. inflight
    BY <1>5 DEF Stuck, BatchRefused, BatchStarts, FinInv, InRow
  <2>2. QED
    <3>1. CASE Stuck
      BY <2>1, <3>1, FirstStatus DEF Stuck, Statuses, InRow
    <3>2. CASE BatchRefused
      BY <2>1, <3>2, FirstStatus DEF BatchRefused, Statuses, InRow
    <3>3. CASE BatchStarts
      BY <2>1, <3>3, FirstStatus DEF BatchStarts, Statuses
    <3>4. QED
      BY <1>5, <3>1, <3>2, <3>3
<1>6. CASE BatchAborts
  <2>1. row \in Rows /\ fin[row] = <<"complete">> /\ row \in Int
    BY <1>6 DEF BatchAborts, TypeInv, TypeOK, RowInv, FinInv, Rows, MaxRows, Ends
  <2>2. Append(fin[row], "cancelled") = <<"complete", "cancelled">>
    <3> DEFINE s == Append(<<"complete">>, "cancelled")
               t == <<"complete", "cancelled">>
    <3>1. s \in Seq(Statuses) /\ Len(s) = 2 /\ s[1] = "complete" /\ s[2] = "cancelled"
      BY DEF Statuses
    <3>2. t \in Seq(Statuses) /\ Len(t) = 2 /\ t[1] = "complete" /\ t[2] = "cancelled"
      BY DEF Statuses
    <3>3. \A i \in 1 .. Len(s) : s[i] = t[i]
      BY <3>1, <3>2
    <3>4. s = t
      BY <3>1, <3>2, <3>3, SeqEqual
    <3>5. QED
      BY <2>1, <3>4
  <2>3. fin' = [fin EXCEPT ![row] = <<"complete", "cancelled">>] /\ inflight' = FALSE
    BY <1>6, <2>2 DEF BatchAborts, finalizeAssistant
  <2>4. /\ fin'[row] = <<"complete", "cancelled">>
        /\ \A r \in Rows : r # row => fin'[r] = fin[r]
    BY <2>1, <2>3 DEF TypeInv, TypeOK
  <2>5. <<"complete", "cancelled">> # <<>>
    OBVIOUS
  <2>6. phase' = "returned" /\ outcome' = "aborted" /\ row' = row /\ silent' = silent
    BY <1>6 DEF BatchAborts
  <2>7. /\ \A r \in Rows : r > row' => fin'[r] = <<>>
        /\ \A r \in Rows : r < row' => Len(fin'[r]) <= 1 /\ (fin'[r] = <<>> => r \in silent')
    BY <2>1, <2>4, <2>6 DEF FinInv, Rows
  <2>8. QED
    BY <2>3, <2>4, <2>5, <2>6, <2>7 DEF FinInv, InRow
<1>7. CASE OmitCalls \/ CappedFindsNone \/ Answers \/ FallsBack \/ WrapUp \/ WrapUpRefused
           \/ WrapUpEnds
  BY <1>7, RowsKept DEF OmitCalls, CappedFindsNone, Answers, FallsBack, WrapUp, WrapUpRefused,
     WrapUpEnds, pastSubagents, InRow
<1>8. CASE CappedDelivers \/ CollectCancelled \/ Stalls \/ FinalizeAnswer
  <2>1. inflight
    BY <1>8 DEF CappedDelivers, CollectCancelled, Stalls, FinalizeAnswer, pastSubagents,
       FinInv, InRow
  <2>2. QED
    BY <1>8, <2>1, FirstStatus
       DEF CappedDelivers, CollectCancelled, Stalls, FinalizeAnswer, Statuses, InRow
<1>9. CASE CollectReports
  <2>1. inflight /\ phase' = "boundary"
    BY <1>9 DEF CollectReports, FinInv, InRow
  <2>2. CASE got.text
    BY <1>9, <2>1, <2>2, FirstStatus DEF CollectReports, Statuses, InRow
  <2>3. CASE ~got.text
    BY <1>9, <2>1, <2>3 DEF CollectReports, FinInv, InRow
  <2>4. QED
    BY <2>2, <2>3
<1>10. CASE Settle
  BY <1>10, RowsKept DEF Settle, InRow, Ends
<1>11. CASE Panic
  <2>1. CASE inflight
    BY <1>11, <2>1, FirstStatus DEF Panic, Statuses, InRow
  <2>2. CASE ~inflight
    BY <1>11, <2>2, RowsKept DEF Panic, FinInv, InRow, Ends
  <2>3. QED
    BY <2>1, <2>2
<1>12. CASE HostQueues \/ SubagentReports \/ UNCHANGED vars
  BY <1>12, RowsKept DEF HostQueues, SubagentReports, vars
<1>13. QED
  BY <1>1, <1>2, <1>3, <1>4, <1>5, <1>6, <1>7, <1>8, <1>9, <1>10, <1>11, <1>12
     DEF Next, RunStep, Finished

\* On every exit the host's rows are settled, with the two exceptions that
\* RowsSettled names.
THEOREM RowsAreSettled == Spec => []RowsSettled
<1>1. Init => FinInv
  BY DEF Init, FinInv, InRow
<1>2. TypeInv /\ FinInv => RowsSettled
  <2> SUFFICES ASSUME TypeInv, FinInv, phase \in Ends PROVE RowsSettled
    BY DEF RowsSettled
  <2>1. phase \notin InRow
    BY DEF Ends, InRow
  <2>2. ASSUME NEW r \in 1 .. row
        PROVE  /\ fin[r] = <<>> => r \in silent
               /\ Len(fin[r]) > 1 =>
                    r = row /\ outcome = "aborted" /\ fin[r] = <<"complete", "cancelled">>
    <3>1. r \in Rows /\ Len(fin[r]) \in Nat /\ row \in Int
      BY DEF TypeInv, TypeOK, Rows, MaxRows
    <3>2. CASE r < row
      BY <3>1, <3>2 DEF FinInv
    <3>3. CASE r = row
      BY <2>1, <3>1, <3>3 DEF FinInv
    <3>4. QED
      BY <3>1, <3>2, <3>3
  <2>3. QED
    BY <2>2 DEF RowsSettled, FinInv
<1>3. QED
  BY <1>1, <1>2, NextFin, TypeInvariant, PTL DEF Spec

-------------------------------------------------------------------------------
(* Stuck detection.                                                         *)

\* While the run goes on, the executed batches end in exactly `repeats` times
\* lastBatch, fewer than StuckFailAt, and the newest is nudged if it is the
\* StuckNudgeAt-th.
EndsInBlock ==
  /\ repeats <= Len(ran)
  /\ repeats < StuckFailAt
  /\ ran = <<>> => lastBatch = NoBatch
  /\ ran # <<>> => 1 <= repeats
  /\ \A j \in 1 .. Len(ran) : j > Len(ran) - repeats => ran[j] = lastBatch
  /\ repeats < Len(ran) => ran[Len(ran) - repeats] # lastBatch

\* No StuckFailAt batches in a row are one and the same.
Varied ==
  \A i \in 1 .. Len(ran) - StuckFailAt + 1 :
    \E j \in i .. i + StuckFailAt - 1 : ran[j] # ran[i]

Nudged == phase # "tools" /\ ran # <<>> /\ repeats = StuckNudgeAt => nudged

StuckInv == Varied /\ (phase \notin Ends => EndsInBlock /\ Nudged)

\* One more batch lengthens the block at the end, or begins one.
LEMMA BatchCounted ==
  ASSUME TypeInv, EndsInBlock, AsksTools, countBatch, repeatsNow < StuckFailAt,
         ran' = Append(ran, got.batch)
  PROVE  EndsInBlock'
<1>1. got.batch \in Batches /\ got.batch # NoBatch /\ ran \in Seq(Batches) /\ repeats \in Nat
  BY CountType DEF TypeInv, TypeOK
<1>2. /\ Len(ran') = Len(ran) + 1
      /\ ran'[Len(ran')] = got.batch
      /\ \A j \in 1 .. Len(ran) : ran'[j] = ran[j]
      /\ ran' # <<>>
      /\ Len(ran) \in Nat
  BY <1>1
<1>3. lastBatch' = got.batch /\ repeats' = repeatsNow
  BY DEF countBatch
<1>4. CASE got.batch = lastBatch
  <2>1. repeats' = repeats + 1
    BY <1>3, <1>4 DEF repeatsNow
  <2>2. \A j \in 1 .. Len(ran') : j > Len(ran') - repeats' => ran'[j] = lastBatch'
    BY <1>1, <1>2, <1>3, <1>4, <2>1 DEF EndsInBlock
  <2>3. repeats' < Len(ran') => ran'[Len(ran') - repeats'] # lastBatch'
    <3>1. Len(ran') - repeats' = Len(ran) - repeats
      BY <1>1, <1>2, <2>1
    <3>2. repeats < Len(ran) => Len(ran) - repeats \in 1 .. Len(ran)
      BY <1>1, <1>2, <1>4 DEF EndsInBlock
    <3>3. QED
      BY <1>1, <1>2, <1>3, <1>4, <2>1, <3>1, <3>2 DEF EndsInBlock
  <2>4. QED
    BY <1>1, <1>2, <1>3, <2>1, <2>2, <2>3 DEF EndsInBlock
<1>5. CASE got.batch # lastBatch
  <2>1. repeats' = 1
    BY <1>3, <1>5 DEF repeatsNow
  <2>2. 1 < Len(ran') => ran'[Len(ran') - 1] # lastBatch'
    <3>1. SUFFICES ASSUME 1 < Len(ran') PROVE ran[Len(ran)] # got.batch
      BY <1>2, <1>3
    <3>2. ran # <<>> /\ Len(ran) \in 1 .. Len(ran) /\ 1 <= repeats
      BY <1>1, <1>2, <3>1 DEF EndsInBlock
    <3>3. ran[Len(ran)] = lastBatch
      BY <1>1, <3>2 DEF EndsInBlock
    <3>4. QED
      BY <1>5, <3>3
  <2>3. QED
    BY <1>1, <1>2, <1>3, <2>1, <2>2 DEF EndsInBlock
<1>6. QED
  BY <1>4, <1>5

\* The block at the end is short of StuckFailAt, so no window ends in it alone.
LEMMA StaysVaried ==
  ASSUME TypeInv, Varied, EndsInBlock', NEW b \in Batches, ran' = Append(ran, b),
         repeats' \in Nat
  PROVE  Varied'
<1>1. ran \in Seq(Batches)
  BY DEF TypeInv, TypeOK
<1>2. /\ Len(ran') = Len(ran) + 1
      /\ \A j \in 1 .. Len(ran) : ran'[j] = ran[j]
      /\ Len(ran) \in Nat
      /\ ran' # <<>>
  BY <1>1
<1> SUFFICES ASSUME NEW i \in 1 .. Len(ran') - StuckFailAt + 1
             PROVE  \E j \in i .. i + StuckFailAt - 1 : ran'[j] # ran'[i]
  BY DEF Varied
<1>3. CASE i <= Len(ran) - StuckFailAt + 1
  <2>0. i \in 1 .. Len(ran) - StuckFailAt + 1
    BY <1>2, <1>3
  <2>1. PICK j \in i .. i + StuckFailAt - 1 : ran[j] # ran[i]
    BY <2>0 DEF Varied
  <2>2. i \in 1 .. Len(ran) /\ j \in 1 .. Len(ran)
    BY <1>2, <1>3
  <2>3. QED
    BY <1>2, <2>1, <2>2
<1>4. CASE i = Len(ran') - StuckFailAt + 1
  <2> DEFINE j == Len(ran') - repeats'
  <2>1. /\ repeats' < StuckFailAt
        /\ 1 <= repeats'
        /\ repeats' <= Len(ran')
    BY <1>2 DEF EndsInBlock
  <2>2. j \in i .. i + StuckFailAt - 1 /\ Len(ran') \in i .. i + StuckFailAt - 1
    BY <1>2, <1>4, <2>1
  <2>3. Len(ran') \in 1 .. Len(ran') /\ repeats' < Len(ran')
    BY <1>2, <1>4, <2>1
  <2>4. ran'[j] # lastBatch' /\ ran'[Len(ran')] = lastBatch'
    BY <1>2, <2>1, <2>3 DEF EndsInBlock
  <2>5. CASE ran'[i] = lastBatch'
    BY <2>2, <2>4, <2>5
  <2>6. CASE ran'[i] # lastBatch'
    BY <2>2, <2>4, <2>6
  <2>7. QED
    BY <2>5, <2>6
<1>5. QED
  BY <1>2, <1>3, <1>4

LEMMA NextStuck == TypeInv /\ StuckInv /\ [Next]_vars => StuckInv'
<1> SUFFICES ASSUME TypeInv, StuckInv, [Next]_vars PROVE StuckInv'
  OBVIOUS
<1>1. ASSUME UNCHANGED ran, phase' \in Ends PROVE StuckInv'
  BY <1>1 DEF StuckInv, Varied
<1>2. ASSUME UNCHANGED <<ran, repeats, lastBatch, nudged>>, phase \notin Ends,
             phase # "tools" \/ phase' = "tools"
      PROVE  StuckInv'
  BY <1>2 DEF StuckInv, Varied, EndsInBlock, Nudged
<1>3. CASE BatchStarts
  <2>1. EndsInBlock /\ AsksTools /\ countBatch /\ repeatsNow < StuckFailAt
        /\ ran' = Append(ran, got.batch) /\ phase' = "tools"
    BY <1>3 DEF BatchStarts, StuckInv, Ends
  <2>2. EndsInBlock'
    BY <2>1, BatchCounted
  <2>3. Varied'
    BY <2>1, <2>2, CountType, StaysVaried DEF StuckInv
  <2>4. QED
    BY <2>1, <2>2, <2>3 DEF StuckInv, Nudged
<1>4. CASE BatchDone
  <2>1. UNCHANGED <<ran, repeats, lastBatch>> /\ phase \notin Ends
    BY <1>4 DEF BatchDone, Ends
  <2>2. Nudged'
    BY <1>4 DEF BatchDone, Nudged
  <2>3. QED
    BY <2>1, <2>2 DEF StuckInv, Varied, EndsInBlock
<1>5. CASE BoundaryFails \/ CallRefused \/ CallFails \/ ServedWindowFails \/ Stuck \/ BatchRefused
           \/ BatchAborts \/ CappedDelivers \/ CollectCancelled \/ Panic
  BY <1>1, <1>5
     DEF BoundaryFails, CallRefused, CallFails, ServedWindowFails, Stuck, BatchRefused, BatchAborts,
         CappedDelivers, CollectCancelled, Panic, returns, Ends, stuckVars
<1>6. CASE MintRow \/ (\E g \in Outcomes : ModelCall(g)) \/ OverflowRetries \/ OmitCalls
           \/ CappedFindsNone \/ CollectReports
  BY <1>2, <1>6
     DEF MintRow, ModelCall, OverflowRetries, OmitCalls, CappedFindsNone, CollectReports, Ends,
         stuckVars
<1>7. CASE Answers \/ Stalls \/ FallsBack \/ WrapUp \/ WrapUpRefused \/ WrapUpEnds
           \/ FinalizeAnswer \/ Settle
  BY <1>2, <1>7
     DEF Answers, Stalls, FallsBack, WrapUp, WrapUpRefused, WrapUpEnds, FinalizeAnswer, Settle,
         pastSubagents, Ends, stuckVars
<1>8. CASE HostQueues \/ SubagentReports
  BY <1>2, <1>8 DEF HostQueues, SubagentReports, stuckVars
<1>9. CASE UNCHANGED vars
  BY <1>9 DEF vars, StuckInv, Varied, EndsInBlock, Nudged
<1>10. QED
  BY <1>3, <1>4, <1>5, <1>6, <1>7, <1>8, <1>9 DEF Next, RunStep, Finished

\* A block of StuckNudgeAt equal batches at a boundary is the counted one.
LEMMA BlockIsCounted ==
  ASSUME TypeInv, EndsInBlock, Len(ran) >= StuckNudgeAt,
         \A j \in Len(ran) - StuckNudgeAt + 1 .. Len(ran) : ran[j] = ran[Len(ran)],
         \/ Len(ran) - StuckNudgeAt + 1 = 1
         \/ ran[Len(ran) - StuckNudgeAt] # ran[Len(ran) - StuckNudgeAt + 1]
  PROVE  repeats = StuckNudgeAt /\ ran # <<>>
<1> DEFINE L == Len(ran)
           first == L - StuckNudgeAt + 1
<1>1. ran \in Seq(Batches) /\ L \in Nat /\ repeats \in Nat /\ StuckNudgeAt \in Nat \ {0}
  BY DEF TypeInv, TypeOK
<1>2. ran # <<>> /\ L \in 1 .. L /\ 1 <= repeats /\ repeats <= L /\ first \in 1 .. L
  BY <1>1 DEF EndsInBlock
<1>3. ran[L] = lastBatch
  BY <1>1, <1>2 DEF EndsInBlock
<1>4. ASSUME repeats < StuckNudgeAt PROVE FALSE
  <2>1. L - repeats \in first .. L /\ repeats < L
    BY <1>1, <1>2, <1>4
  <2>2. QED
    BY <1>3, <2>1 DEF EndsInBlock
<1>5. ASSUME repeats > StuckNudgeAt PROVE FALSE
  <2>1. L - StuckNudgeAt \in 1 .. L /\ L - StuckNudgeAt > L - repeats /\ first # 1
    BY <1>1, <1>2, <1>5
  <2>2. ran[L - StuckNudgeAt] = lastBatch /\ ran[first] = lastBatch
    BY <1>1, <1>2, <1>3, <2>1 DEF EndsInBlock
  <2>3. QED
    BY <2>1, <2>2
<1>6. QED
  BY <1>1, <1>2, <1>4, <1>5

\* The run is ended before the same batch has been executed StuckFailAt times in
\* a row, and the model has been nudged when StuckNudgeAt of them were.
THEOREM StuckCaught == Spec => []StuckIsCaught
<1>1. Init => StuckInv
  <2> SUFFICES ASSUME Init PROVE StuckInv
    OBVIOUS
  <2>1. ran = <<>> /\ Len(ran) = 0 /\ repeats = 0 /\ lastBatch = NoBatch
    BY DEF Init
  <2>2. QED
    BY <2>1 DEF StuckInv, Varied, EndsInBlock, Nudged
<1>2. TypeInv /\ StuckInv => StuckIsCaught
  <2> SUFFICES ASSUME TypeInv, StuckInv PROVE StuckIsCaught
    OBVIOUS
  <2> DEFINE first == Len(ran) - StuckNudgeAt + 1
  <2>1. ASSUME phase = "boundary", Len(ran) >= StuckNudgeAt,
               \A j \in first .. Len(ran) : ran[j] = ran[Len(ran)],
               first = 1 \/ ran[first - 1] # ran[first]
        PROVE  nudged
    <3>1. EndsInBlock /\ Nudged
      BY <2>1 DEF StuckInv, Ends
    <3>2. first - 1 = Len(ran) - StuckNudgeAt
      BY DEF TypeInv, TypeOK
    <3>3. repeats = StuckNudgeAt /\ ran # <<>>
      BY <2>1, <3>1, <3>2, BlockIsCounted
    <3>4. QED
      BY <2>1, <3>1, <3>3 DEF Nudged
  <2>2. QED
    BY <2>1 DEF StuckIsCaught, StuckInv, Varied
<1>3. QED
  BY <1>1, <1>2, NextStuck, TypeInvariant, PTL DEF Spec

===============================================================================
