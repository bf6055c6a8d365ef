-------------------------------- MODULE GoalLoop --------------------------------
(***************************************************************************)
(* goal/eval.go, goal.go, loop.go: goal mode.  At each stop of a run an    *)
(* evaluator is asked whether the user's condition holds on what the run   *)
(* did since the goal was set; a stop it refuses queues a directive, and   *)
(* the run takes another turn.                                             *)
(*                                                                         *)
(* The evaluator's answer is a verdict, something that is not one, or an   *)
(* error; the user may cancel the run between any two steps, and set,      *)
(* clear or re-arm the goal between runs.  Of the run (RunLoop) only the   *)
(* stop boundary and the queue are kept.  An entry of the transcript is    *)
(* its size in the evaluator's tokens, 0 for one that says nothing.        *)
(***************************************************************************)
EXTENDS Integers, Sequences, SequencesExt, FiniteSetsExt

CONSTANTS
  Reasons,         \* what a verdict may say is missing
  RepetitionLimit, \* repetitionLimit
  EvalTokens,      \* the window's budget
  EntrySizes,
  MaxTurns,        \* Config.MaxTurns, and the bound on turns of a run
  MaxRuns,         \* bound: runs
  MaxGoals         \* bound: conditions set

NoGoal  == 0
NoReason == "no reason"

VARIABLES
  condition,   \* State.Condition, NoGoal for a nil State
  lastReason, reasonRun, suspended,   \* of State
  step,        \* where the run is
  attempt,     \* of ask
  turnsTaken,
  stopped,     \* the run's context is done
  directive,   \* queued directives the run has not drained
  entries,     \* what the run recorded since the goal was set
  judged,      \* the part of it the evaluator is reading
  refusals,    \* history: the reasons stops were refused for, for this condition
  undelivered, \* directives the run ended without
  runs, goals

goalVars == <<condition, lastReason, reasonRun, suspended, step, attempt, turnsTaken, stopped, directive,
              entries, judged, refusals, undelivered, runs, goals>>
state  == <<condition, lastReason, reasonRun, suspended>>
others == <<turnsTaken, entries, refusals, undelivered, runs, goals>>

GoalInit ==
  /\ condition = NoGoal /\ lastReason = NoReason /\ reasonRun = 0 /\ suspended = FALSE
  /\ step = "idle" /\ attempt = 0 /\ turnsTaken = 0 /\ stopped = FALSE /\ directive = <<>>
  /\ entries = <<>> /\ judged = <<>> /\ refusals = <<>> /\ undelivered = <<>> /\ runs = 0 /\ goals = 0

(* The user's /goal between runs: set or replace, clear, retry.            *)
setState(c) ==
  /\ condition' = c /\ lastReason' = NoReason /\ reasonRun' = 0 /\ suspended' = FALSE
  /\ entries' = <<>> /\ refusals' = <<>>
SetGoal ==
  /\ step = "idle" /\ goals < MaxGoals /\ goals' = goals + 1 /\ setState(goals')
  /\ UNCHANGED <<step, attempt, turnsTaken, stopped, directive, judged, undelivered, runs>>
ClearGoal ==
  /\ step = "idle" /\ condition # NoGoal /\ setState(NoGoal)
  /\ UNCHANGED <<step, attempt, turnsTaken, stopped, directive, judged, undelivered, runs, goals>>
Retry ==
  /\ step = "idle" /\ suspended /\ suspended' = FALSE
  /\ UNCHANGED <<condition, lastReason, reasonRun, step, attempt, stopped, directive, judged, others>>

Send ==
  /\ step = "idle" /\ runs < MaxRuns /\ runs' = runs + 1
  /\ step' = "turn" /\ turnsTaken' = 0 /\ stopped' = FALSE
  /\ UNCHANGED <<state, attempt, directive, entries, judged, refusals, undelivered, goals>>

Cancel ==
  /\ step # "idle" /\ ~stopped /\ stopped' = TRUE
  /\ UNCHANGED <<state, step, attempt, directive, judged, others>>

endRun == step' = "idle" /\ directive' = <<>> /\ undelivered' = directive

(* A turn drains the queue and calls the model; one that answers comes to  *)
(* the stop boundary, one of a cancelled run fails.                        *)
Turn ==
  /\ step = "turn" /\ turnsTaken < MaxTurns /\ turnsTaken' = turnsTaken + 1
  /\ directive' = <<>>
  /\ \/ ~stopped /\ step' = "stop" /\ \E size \in EntrySizes : entries' = Append(entries, size)
     \/ stopped /\ step' = "idle" /\ UNCHANGED entries
  /\ UNCHANGED <<state, attempt, stopped, judged, refusals, undelivered, runs, goals>>

(* The window: what says something, newest first while the budget lasts,   *)
(* and never nothing.                                                      *)
rendered == SelectSeq(entries, LAMBDA size : size > 0)
tokens(seq) == FoldLeft(LAMBDA sum, size : sum + size, 0, seq)
lastOf(n) == SubSeq(rendered, Len(rendered) - n + 1, Len(rendered))
RenderWindow ==
  IF rendered = <<>> THEN <<>>
  ELSE lastOf(Max({1} \cup {n \in 1 .. Len(rendered) : tokens(lastOf(n)) <= EvalTokens}))

permit == step' = "permitted"
suspend == suspended' = TRUE /\ permit
StateKept == UNCHANGED <<condition, lastReason, reasonRun>>

(* Evaluate: cancellation wins without a model call, then what needs none. *)
Evaluate ==
  /\ step = "stop"
  /\ CASE stopped \/ condition = NoGoal \/ suspended -> permit /\ UNCHANGED <<suspended, attempt, judged>>
       [] OTHER ->
            \/ suspend /\ UNCHANGED <<attempt, judged>>          \* the transcript could not be read
            \/ step' = "ask" /\ attempt' = 1 /\ judged' = RenderWindow /\ UNCHANGED suspended
  /\ StateKept
  /\ UNCHANGED <<stopped, directive, others>>

(* As if a failure to evaluate never asked whether the run was cancelled.  *)
suspendAlways   == suspend

(* ask: no verdict twice in a row suspends the goal, unless the run was    *)
(* cancelled meanwhile.                                                    *)
suspendOrPermit == IF stopped THEN permit /\ UNCHANGED suspended ELSE suspend
NoVerdict ==
  /\ step = "ask"
  /\ IF attempt < 2
     THEN /\ \/ attempt' = attempt + 1 /\ UNCHANGED <<step, suspended>>
             \/ stopped /\ permit /\ UNCHANGED <<attempt, suspended>>   \* the call gave the cancellation back
     ELSE suspendOrPermit /\ UNCHANGED attempt
  /\ StateKept
  /\ UNCHANGED <<stopped, directive, judged, others>>

(* A verdict.  Met, impossible, or the same reason for the third time: the *)
(* host clears the goal.  Otherwise the stop is refused.                   *)
clears ==
  /\ permit
  /\ condition' = NoGoal /\ lastReason' = NoReason /\ reasonRun' = 0 /\ UNCHANGED suspended
Verdict ==
  /\ step = "ask" /\ clears
  /\ UNCHANGED <<attempt, stopped, directive, judged, others>>

sameReasons(reason) == IF reason = lastReason THEN reasonRun + 1 ELSE 1
repeated(reason)     == sameReasons(reason) >= RepetitionLimit
NotMet(reason) ==
  /\ step = "ask"
  /\ IF repeated(reason)
     THEN clears /\ UNCHANGED <<directive, refusals>>
     ELSE /\ lastReason' = reason /\ reasonRun' = sameReasons(reason)
          /\ directive' = Append(directive, reason) /\ refusals' = Append(refusals, reason)
          /\ step' = "permitted"
          /\ UNCHANGED <<condition, suspended>>
  /\ UNCHANGED <<attempt, turnsTaken, stopped, entries, judged, undelivered, runs, goals>>

(* The stop boundary ends: a queued directive takes another turn while the *)
(* host's cap allows one, else the run ends with it undelivered.           *)
Answer ==
  /\ step = "permitted"
  /\ IF directive # <<>> /\ turnsTaken < MaxTurns
     THEN step' = "turn" /\ UNCHANGED <<directive, undelivered>>
     ELSE endRun
  /\ UNCHANGED <<state, attempt, turnsTaken, stopped, entries, judged, refusals, runs, goals>>

GoalRests == step = "idle" /\ runs = MaxRuns /\ UNCHANGED goalVars

GoalNext ==
  \/ SetGoal \/ ClearGoal \/ Retry \/ Send \/ Cancel
  \/ Turn \/ Evaluate \/ NoVerdict \/ Verdict \/ (\E r \in Reasons : NotMet(r)) \/ Answer
  \/ GoalRests

GoalSpec == GoalInit /\ [][GoalNext]_goalVars

-----------------------------------------------------------------------------
(* A cancelled run never leaves the goal suspended by its own cancellation *)
(* ("suspending over the user's own stop makes them re-arm the goal"),     *)
(* whether the cancellation came before the evaluator call or during it.   *)
CancelNeverSuspends == [][stopped /\ ~suspended => ~suspended']_goalVars

(* A stop is never refused for the same reason RepetitionLimit times in a  *)
(* row for one condition, across runs, suspensions and retries: the goal   *)
(* fails instead, so an agent is not ground against a wall (Evaluate).     *)
NotGroundDown ==
  \A i \in 1 .. Len(refusals) - RepetitionLimit + 1 :
    \E j \in i + 1 .. i + RepetitionLimit - 1 : refusals[j] # refusals[i]

===============================================================================
