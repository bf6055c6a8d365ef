----------------------------- MODULE SubagentRuns -----------------------------
(***************************************************************************)
(* Asynchronous sub-agents: the registry of internal/loop/subagent_runs.go,*)
(* the Gate of gate.go, the goroutine `launched` of subagent_run.go that   *)
(* every launch starts, and the parent's run, which delivers reports at    *)
(* turn boundaries, waits in Collect before it ends, and on the last       *)
(* permitted turn takes what has arrived and abandons the rest.            *)
(*                                                                         *)
(* A step is one critical section of the registry's mutex, one channel     *)
(* operation or one callback: between any two of them another goroutine    *)
(* may run.                                                                *)
(***************************************************************************)
EXTENDS Naturals, Sequences, FiniteSets

CONSTANTS
  Agents,        \* one goroutine per launch
  CallIDs,       \* ids of run_subagent tool calls
  CallID,        \* the call id of each launch
  NoAgent,
  Slots,         \* capacity of the Gate, NewGate's n
  MaxTurns,      \* Config.MaxTurns, and the bound on the turns of a run
  MaxSends       \* bound: runs that share the registry, one after another

ASSUME CallIDType    == CallID \in [Agents -> CallIDs]
ASSUME NoAgentIsNone == NoAgent \notin Agents
ASSUME CountsAssumption ==
  /\ Slots \in Nat \ {0}
  /\ MaxTurns \in Nat \ {0}
  /\ MaxSends \in Nat \ {0}

VARIABLES
  active,      \* SubagentRuns.active: the launch registered under each id
  ready,       \* SubagentRuns.ready: reports in arrival order
  signal,      \* SubagentRuns.signal: the one-slot channel is full
  holders,     \* goroutines holding a slot of the Gate
  agent,       \* where each launched goroutine is
  born,        \* the run each was launched by, whose context it carries
  run,         \* where the parent's run is
  turn,        \* the run's turn, from 0
  sends,       \* runs begun on this registry
  cancelled,   \* the run's context is done
  taken,       \* the local `reports` of the capped last turn
  delivered,   \* history: reports appended to the conversation, in order
  abandoned,   \* history: launches declared abandoned
  mute         \* history: launches whose terminal update panicked in the host

vars == <<active, ready, signal, holders, agent, born, run, turn, sends,
          cancelled, taken, delivered, abandoned, mute>>

registry  == <<active, ready, signal>>
goroutine == <<holders, agent, born, mute>>
parent    == <<run, turn, sends, cancelled, taken, delivered, abandoned>>

Init ==
  /\ active = [id \in CallIDs |-> NoAgent]
  /\ ready = <<>>
  /\ signal = FALSE
  /\ holders = {}
  /\ agent = [a \in Agents |-> "unborn"]
  /\ born = [a \in Agents |-> 0]
  /\ run = "boundary"
  /\ turn = 0
  /\ sends = 1
  /\ cancelled = FALSE
  /\ taken = <<>>
  /\ delivered = <<>>
  /\ abandoned = {}
  /\ mute = {}

\* A run that has ended; its context is cancelled as it settles.
Ends       == {"answered", "capped", "stopped"}
ctxDone(a) == born[a] < sends \/ cancelled \/ run \in Ends
Elements(s) == {s[i] : i \in DOMAIN s}
Out        == {active[id] : id \in CallIDs} \ {NoAgent}
Pending    == Out # {} \/ ready # <<>>
lastTurn   == turn = MaxTurns - 1

-------------------------------------------------------------------------------
(* The goroutine `launched` of one sub-agent.                               *)

\* Gate.Acquire: the slot is free.
Acquire(a) ==
  /\ agent[a] = "gate"
  /\ Cardinality(holders) < Slots
  /\ holders' = holders \cup {a}
  /\ agent' = [agent EXCEPT ![a] = "running"]
  /\ UNCHANGED <<registry, born, mute, parent>>

\* Gate.Acquire: the context was done first; the report says so.
AcquireCancelled(a) ==
  /\ agent[a] = "gate"
  /\ ctxDone(a)
  /\ agent' = [agent EXCEPT ![a] = "report"]
  /\ UNCHANGED <<registry, holders, born, mute, parent>>

\* runGated returned, with findings or with an error text.
RunReturns(a) ==
  /\ agent[a] = "running"
  /\ agent' = [agent EXCEPT ![a] = "report"]
  /\ UNCHANGED <<registry, holders, born, mute, parent>>

\* A panic unwinds: the deferred release runs before the deferred recover,
\* which reports the crash.
Unwind(a) ==
  /\ holders' = holders \ {a}
  /\ agent' = [agent EXCEPT ![a] = "report"]

RunPanics(a) ==
  /\ agent[a] = "running"
  /\ Unwind(a)
  /\ UNCHANGED <<registry, born, mute, parent>>

\* Mutant: the reported run stays registered.
CompleteKnownKept(a) ==
  /\ agent[a] = "report"
  /\ active[CallID[a]] # NoAgent
  /\ ready' = Append(ready, a)
  /\ agent' = [agent EXCEPT ![a] = "emit"]
  /\ UNCHANGED <<active, signal, holders, born, mute, parent>>

\* Complete, to the unlock: an unknown id is ignored and nothing is poked.
CompleteKnown(a) ==
  /\ agent[a] = "report"
  /\ active[CallID[a]] # NoAgent
  /\ active' = [active EXCEPT ![CallID[a]] = NoAgent]
  /\ ready' = Append(ready, a)
  /\ agent' = [agent EXCEPT ![a] = "emit"]
  /\ UNCHANGED <<signal, holders, born, mute, parent>>

CompleteUnknown(a) ==
  /\ agent[a] = "report"
  /\ active[CallID[a]] = NoAgent
  /\ agent' = [agent EXCEPT ![a] = "return"]
  /\ UNCHANGED <<registry, holders, born, mute, parent>>

\* The emit of an ordinary exit's Complete panics in the host: the poke
\* below it is never reached, and the recovered Complete finds no entry.
EmitPanics(a) ==
  /\ agent[a] = "emit"
  /\ a \in holders
  /\ Unwind(a)
  /\ mute' = mute \cup {a}
  /\ UNCHANGED <<registry, born, parent>>

\* Mutant: nothing is sent on the signal.
PokeNone(a) ==
  /\ agent[a] = "emit"
  /\ agent' = [agent EXCEPT ![a] = "return"]
  /\ UNCHANGED <<registry, holders, born, mute, parent>>

\* Complete's last statement: a non-blocking send on the signal.
Poke(a) ==
  /\ agent[a] = "emit"
  /\ signal' = TRUE
  /\ agent' = [agent EXCEPT ![a] = "return"]
  /\ UNCHANGED <<active, ready, holders, born, mute, parent>>

\* Mutant: an exit that does not unwind keeps its slot.
ReturnKeepsSlot(a) ==
  /\ agent[a] = "return"
  /\ agent' = [agent EXCEPT ![a] = "gone"]
  /\ UNCHANGED <<registry, holders, born, mute, parent>>

\* The deferred release, if this exit still holds a slot.
Return(a) ==
  /\ agent[a] = "return"
  /\ holders' = holders \ {a}
  /\ agent' = [agent EXCEPT ![a] = "gone"]
  /\ UNCHANGED <<registry, born, mute, parent>>

AgentStep(a) ==
  \/ Acquire(a) \/ AcquireCancelled(a)
  \/ RunReturns(a) \/ RunPanics(a)
  \/ CompleteKnown(a) \/ CompleteUnknown(a) \/ EmitPanics(a) \/ Poke(a)
  \/ Return(a)

-------------------------------------------------------------------------------
(* The parent's run.                                                        *)

\* Execute of run_subagent during the tool batch of a turn: Launch registers
\* the id unless it is registered already; the goroutine starts either way.
Launch(a) ==
  /\ run = "tools"
  /\ agent[a] = "unborn"
  /\ agent' = [agent EXCEPT ![a] = "gate"]
  /\ born' = [born EXCEPT ![a] = sends]
  /\ active' = [active EXCEPT ![CallID[a]] = IF @ = NoAgent THEN a ELSE @]
  /\ UNCHANGED <<ready, signal, holders, mute, parent>>

\* The model asked for tools, and the turn may run them.
AskTools ==
  /\ run = "call"
  /\ ~lastTurn
  /\ run' = "tools"
  /\ UNCHANGED <<registry, goroutine, turn, sends, cancelled, taken, delivered, abandoned>>

\* The batch is recorded, and the loop continues.
ToolsDone ==
  /\ run = "tools"
  /\ turn' = turn + 1
  /\ run' = "boundary"
  /\ UNCHANGED <<registry, goroutine, sends, cancelled, taken, delivered, abandoned>>

\* The boundary of every turn but the first takes what is ready.
Boundary ==
  /\ run = "boundary"
  /\ run' = "call"
  /\ IF turn > 0
     THEN delivered' = delivered \o ready /\ ready' = <<>>
     ELSE UNCHANGED <<delivered, ready>>
  /\ UNCHANGED <<active, signal, goroutine, turn, sends, cancelled, taken, abandoned>>

\* A failed call, an aborting callback, a cancelled context.
RunFails ==
  /\ run \in {"boundary", "call", "tools"}
  /\ run' = "stopped"
  /\ UNCHANGED <<registry, goroutine, turn, sends, cancelled, taken, delivered, abandoned>>

\* Mutant: Running() is asked in place of Pending().
AnswerWhenIdle ==
  /\ run = "call"
  /\ Out = {}
  /\ run' = "answered"
  /\ UNCHANGED <<registry, goroutine, turn, sends, cancelled, taken, delivered, abandoned>>

\* The model asked for no tools, and Pending() decides what that means.
Answer ==
  /\ run = "call"
  /\ ~Pending
  /\ run' = "answered"
  /\ UNCHANGED <<registry, goroutine, turn, sends, cancelled, taken, delivered, abandoned>>

\* An answer, and a queued host message takes one more turn.
AnswerContinues ==
  /\ run = "call"
  /\ ~Pending
  /\ ~lastTurn
  /\ turn' = turn + 1
  /\ run' = "boundary"
  /\ UNCHANGED <<registry, goroutine, sends, cancelled, taken, delivered, abandoned>>

MustWait ==
  /\ run = "call"
  /\ Pending
  /\ run' = IF lastTurn THEN "take" ELSE "collect"
  /\ UNCHANGED <<registry, goroutine, turn, sends, cancelled, taken, delivered, abandoned>>

\* Collect's critical section: reports, or wait.  Its third way out, nothing
\* left to wait for, cannot be taken: runOn asked Pending() before, and only
\* runOn itself takes from the registry.
CollectReady ==
  /\ run = "collect"
  /\ ready # <<>>
  /\ delivered' = delivered \o ready
  /\ ready' = <<>>
  /\ turn' = turn + 1
  /\ run' = "boundary"
  /\ UNCHANGED <<active, signal, goroutine, sends, cancelled, taken, abandoned>>

CollectWaits ==
  /\ run = "collect"
  /\ ready = <<>>
  /\ Out # {}
  /\ run' = "wait"
  /\ UNCHANGED <<registry, goroutine, turn, sends, cancelled, taken, delivered, abandoned>>

Wake ==
  /\ run = "wait"
  /\ signal
  /\ signal' = FALSE
  /\ run' = "collect"
  /\ UNCHANGED <<active, ready, goroutine, turn, sends, cancelled, taken, delivered, abandoned>>

WaitCancelled ==
  /\ run = "wait"
  /\ cancelled
  /\ run' = "stopped"
  /\ UNCHANGED <<registry, goroutine, turn, sends, cancelled, taken, delivered, abandoned>>

\* The last permitted turn: Take, and then CancelRemaining.
CappedTake ==
  /\ run = "take"
  /\ taken' = ready
  /\ ready' = <<>>
  /\ run' = "cancel"
  /\ UNCHANGED <<active, signal, goroutine, turn, sends, cancelled, delivered, abandoned>>

CappedCancel ==
  /\ run = "cancel"
  /\ abandoned' = abandoned \cup Out
  /\ active' = [id \in CallIDs |-> NoAgent]
  /\ delivered' = delivered \o taken
  /\ taken' = <<>>
  /\ run' = "capped"
  /\ UNCHANGED <<ready, signal, goroutine, turn, sends, cancelled>>

\* The host cancels the turn, or its deadline passes.
CancelContext ==
  /\ run \notin Ends
  /\ ~cancelled
  /\ cancelled' = TRUE
  /\ UNCHANGED <<registry, goroutine, run, turn, sends, taken, delivered, abandoned>>

\* The session's next Send runs on the same registry.
Send ==
  /\ run \in Ends
  /\ sends < MaxSends
  /\ sends' = sends + 1
  /\ run' = "boundary"
  /\ turn' = 0
  /\ cancelled' = FALSE
  /\ UNCHANGED <<registry, goroutine, taken, delivered, abandoned>>

RunStep ==
  \/ Boundary \/ AskTools \/ ToolsDone \/ RunFails \/ Answer \/ AnswerContinues \/ MustWait
  \/ CollectReady \/ CollectWaits \/ Wake \/ WaitCancelled
  \/ CappedTake \/ CappedCancel

\* Every goroutine has returned and no further Send comes.
Finished ==
  /\ run \in Ends
  /\ sends = MaxSends
  /\ \A a \in Agents : agent[a] \in {"unborn", "gone"}
  /\ UNCHANGED vars

Next ==
  \/ \E a \in Agents : Launch(a) \/ AgentStep(a)
  \/ RunStep \/ CancelContext \/ Send
  \/ Finished

Spec == Init /\ [][Next]_vars

\* A goroutine that can run is run; a channel serves its waiters in order,
\* which is strong fairness of taking a slot.  A nested run ends (its calls
\* return and its context is done at the latest with the parent's), and so
\* does the parent's model call.  The host need not cancel or Send again.
Fairness ==
  /\ \A a \in Agents :
       /\ SF_vars(Acquire(a))
       /\ WF_vars(AgentStep(a))
  /\ WF_vars(RunStep)

FairSpec == Spec /\ Fairness

-------------------------------------------------------------------------------
(* Properties                                                               *)

Reports == Seq(Agents)

TypeOK ==
  /\ active \in [CallIDs -> Agents \cup {NoAgent}]
  /\ ready \in Reports
  /\ signal \in BOOLEAN
  /\ holders \in SUBSET Agents
  /\ agent \in [Agents -> {"unborn", "gate", "running", "report", "emit", "return", "gone"}]
  /\ born \in [Agents -> 0 .. MaxSends]
  /\ run \in {"boundary", "call", "tools", "collect", "wait", "take", "cancel"} \cup Ends
  /\ turn \in 0 .. MaxTurns - 1
  /\ sends \in 1 .. MaxSends
  /\ cancelled \in BOOLEAN
  /\ taken \in Reports
  /\ delivered \in Reports
  /\ abandoned \in SUBSET Agents
  /\ mute \in SUBSET Agents

\* The provider never repeats the id of a run_subagent call.
UniqueIDs == \A a, b \in Agents : CallID[a] = CallID[b] => a = b

\* Every report that has left its goroutine, in the order they arrived.
Told == delivered \o taken \o ready

\* The promise the launch receipt makes: each launch is still out, or has
\* reported, or was declared abandoned.  It reports at most once even when
\* it is cancelled or crashes, and a launch declared abandoned never turns
\* up in the conversation when its goroutine finishes later, not in the
\* next Send either.  A run that ends on an answer, unless it is the capped
\* turn's, has told the model every report there was, though reports land
\* at any moment (Complete, Take, CancelRemaining, answer).
EachLaunchReportsOnce ==
  /\ \A i, j \in DOMAIN Told : Told[i] = Told[j] => i = j
  /\ \A a \in Agents :
       agent[a] # "unborn" => a \in Out \cup Elements(Told) \cup abandoned
  /\ Elements(Told) \cap (Out \cup abandoned) = {}
  /\ Out \cap abandoned = {}
  /\ run = "answered" =>
       \A a \in Agents : agent[a] # "unborn" => a \in Elements(delivered) \cup abandoned

\* No lost wakeup: while Collect sleeps on a registry that holds a report,
\* the signal is set or a goroutine that will set it is on its way.  Only a
\* report whose own update panicked in the host can lie there unannounced.
WakeupPending ==
  run = "wait" =>
    /\ Pending
    /\ Elements(ready) \ mute # {} => signal \/ \E a \in Agents : agent[a] = "emit"

\* A run that ends on an answer leaves no sub-agent out and no report
\* unread, unless the cap took the turns it needed for them.
AnsweredWithNothingOut ==
  run = "answered" => ~Pending

\* A slot taken comes back on every way out of a sub-agent, so every launch
\* gets its slot or its cancellation and reaches its end.
EveryLaunchEnds ==
  \A a \in Agents : agent[a] = "gate" ~> agent[a] = "gone"

\* A run that waits for its sub-agents is not left waiting: a report takes
\* it to another turn, or its context ends it, in whatever order reports,
\* wakeups and gate slots come, as long as the host's callback does not
\* panic.
WaitIsKept ==
  run = "wait" ~> run \in {"boundary", "stopped"} \/ mute # {}

===============================================================================
