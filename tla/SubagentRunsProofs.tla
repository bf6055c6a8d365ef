-------------------------- MODULE SubagentRunsProofs --------------------------
(***************************************************************************)
(* Theorems about SubagentRuns for any number of launches, slots, turns    *)
(* and Sends: type correctness with the cap on turns, the bookkeeping of   *)
(* reports, the absence of lost wakeups, and what an answer may leave out. *)
(***************************************************************************)
EXTENDS SubagentRuns, SequenceTheorems, TLAPS

USE NoAgentIsNone, CallIDType, CountsAssumption

\* The steps of the run that leave the registry's entries and the
\* conversation as they are.
QuietRunStep ==
  AskTools \/ ToolsDone \/ RunFails \/ Answer \/ AnswerContinues \/ MustWait
    \/ CollectWaits \/ Wake \/ WaitCancelled

\* The run's pc after which tools, or a collected report, still have a turn.
RoomPCs == {"tools", "collect", "wait"}

TurnInv == run \in RoomPCs => turn < MaxTurns - 1

TypeInv == TypeOK /\ TurnInv

-------------------------------------------------------------------------------
(* Types and the cap on turns.                                              *)

\* The registry starts empty and the run on its first turn.
LEMMA InitType == Init => TypeInv
<1> SUFFICES ASSUME Init PROVE TypeInv
  OBVIOUS
<1>1. 0 \in 0 .. MaxTurns - 1 /\ 1 \in 1 .. MaxSends /\ 0 \in 0 .. MaxSends
  OBVIOUS
<1>2. <<>> \in Reports
  BY DEF Reports
<1>3. QED
  BY <1>1, <1>2 DEF Init, TypeInv, TypeOK, TurnInv, RoomPCs, Ends

\* Every step keeps every type, and enters a state that needs another turn
\* only where the cap leaves one.
LEMMA NextType == TypeInv /\ [Next]_vars => TypeInv'
<1> SUFFICES ASSUME TypeInv, [Next]_vars PROVE TypeInv'
  OBVIOUS
<1> USE DEF TypeInv, TypeOK, TurnInv, RoomPCs, Ends, Reports
<1>0. /\ <<>> \in Seq(Agents)
      /\ delivered \o ready \in Seq(Agents)
      /\ delivered \o taken \in Seq(Agents)
  OBVIOUS
<1>1. ASSUME NEW a \in Agents, Launch(a) PROVE TypeInv'
  <2>1. born' \in [Agents -> 0 .. MaxSends]
    BY <1>1 DEF Launch
  <2>2. active' \in [CallIDs -> Agents \cup {NoAgent}]
    BY <1>1 DEF Launch
  <2>3. QED
    BY <1>1, <2>1, <2>2 DEF Launch, parent
<1>2. ASSUME NEW a \in Agents, AgentStep(a) PROVE TypeInv'
  <2>1. CASE Acquire(a) \/ AcquireCancelled(a) \/ RunReturns(a) \/ RunPanics(a)
    BY <2>1 DEF Acquire, AcquireCancelled, RunReturns, RunPanics, Unwind, registry, parent
  <2>2. CASE CompleteKnown(a)
    <3>1. CallID[a] \in CallIDs
      OBVIOUS
    <3>2. ready' \in Seq(Agents)
      BY <2>2 DEF CompleteKnown
    <3>3. active' \in [CallIDs -> Agents \cup {NoAgent}]
      BY <2>2, <3>1 DEF CompleteKnown
    <3>4. QED
      BY <2>2, <3>2, <3>3 DEF CompleteKnown, parent
  <2>3. CASE CompleteUnknown(a) \/ EmitPanics(a) \/ Poke(a) \/ Return(a)
    BY <2>3 DEF CompleteUnknown, EmitPanics, Poke, Return, Unwind, registry, parent
  <2>4. QED
    BY <1>2, <2>1, <2>2, <2>3 DEF AgentStep
<1>3. CASE QuietRunStep
  <2>1. /\ UNCHANGED <<active, ready, goroutine, sends, cancelled, taken, delivered, abandoned>>
        /\ signal' \in BOOLEAN
    BY <1>3 DEF QuietRunStep, AskTools, ToolsDone, RunFails, Answer, AnswerContinues, MustWait,
       CollectWaits, Wake, WaitCancelled, registry
  <2>2. CASE ToolsDone \/ AnswerContinues
    <3>1. turn' = turn + 1 /\ turn # MaxTurns - 1 /\ run' = "boundary"
      BY <2>2 DEF ToolsDone, AnswerContinues, lastTurn
    <3>2. QED
      BY <2>1, <3>1 DEF goroutine
  <2>3. CASE ~(ToolsDone \/ AnswerContinues)
    <3>1. /\ turn' = turn
          /\ run' \in RoomPCs => turn < MaxTurns - 1
          /\ run' \in {"tools", "collect", "wait", "take"} \cup Ends
      BY <1>3, <2>3 DEF QuietRunStep, AskTools, RunFails, Answer, MustWait,
         CollectWaits, Wake, WaitCancelled, lastTurn
    <3>2. QED
      BY <2>1, <3>1 DEF goroutine
  <2>4. QED
    BY <2>2, <2>3
<1>4. CASE Boundary
  <2>1. /\ UNCHANGED <<active, signal, goroutine, turn, sends, cancelled, taken, abandoned>>
        /\ run' = "call"
    BY <1>4 DEF Boundary
  <2>2. delivered' \in Seq(Agents) /\ ready' \in Seq(Agents)
    BY <1>0, <1>4, Zenon DEF Boundary
  <2>3. QED
    BY <2>1, <2>2 DEF goroutine
<1>5. CASE CollectReady
  BY <1>5 DEF CollectReady, goroutine
<1>6. CASE CappedTake \/ CappedCancel
  <2>1. abandoned' \in SUBSET Agents
    BY <1>6 DEF CappedTake, CappedCancel, Out
  <2>2. /\ active' \in [CallIDs -> Agents \cup {NoAgent}]
        /\ run' \in {"cancel", "capped"}
        /\ UNCHANGED <<signal, goroutine, turn, sends, cancelled>>
    BY <1>6 DEF CappedTake, CappedCancel
  <2>3. ready' \in Seq(Agents) /\ taken' \in Seq(Agents) /\ delivered' \in Seq(Agents)
    BY <1>0, <1>6, Zenon DEF CappedTake, CappedCancel
  <2>4. QED
    BY <2>1, <2>2, <2>3 DEF goroutine
<1>7. CASE CancelContext
  BY <1>7 DEF CancelContext, registry, goroutine
<1>8. CASE Send
  <2>1. sends' \in 1 .. MaxSends /\ turn' \in 0 .. MaxTurns - 1
    BY <1>8 DEF Send
  <2>2. QED
    BY <1>8, <2>1 DEF Send, registry, goroutine
<1>9. CASE UNCHANGED vars
  BY <1>9 DEF vars
<1>10. QED
  BY <1>1, <1>2, <1>3, <1>4, <1>5, <1>6, <1>7, <1>8, <1>9
  DEF Next, RunStep, QuietRunStep, Finished

\* Every variable keeps its type, and no turn passes the cap: a run that
\* asks for tools or waits for reports has a turn left to answer them in.
THEOREM TypeCorrect == Spec => []TypeOK
<1>1. TypeInv => TypeOK
  BY DEF TypeInv
<1>2. QED
  BY <1>1, InitType, NextType, PTL DEF Spec

-------------------------------------------------------------------------------
(* Wakeups.                                                                 *)

\* Each report that Collect sleeps over is announced on its own account.
WakeInv ==
  run = "wait" =>
    /\ Pending
    /\ \A b \in Elements(ready) \ mute : signal \/ agent[b] = "emit"

\* What is out and what is pending are read from the registry alone.
LEMMA SamePending == UNCHANGED <<active, ready>> => UNCHANGED <<Out, Pending>>
<1> SUFFICES ASSUME UNCHANGED <<active, ready>> PROVE UNCHANGED <<Out, Pending>>
  OBVIOUS
<1>1. Out' = Out
  BY DEF Out
<1>2. Pending' = Pending
  BY <1>1 DEF Pending
<1>3. QED
  BY <1>1, <1>2

\* What appending one report adds to the set of reports.
LEMMA ElementsOfAppend ==
  ASSUME NEW S, NEW s \in Seq(S), NEW e \in S
  PROVE  Elements(Append(s, e)) = Elements(s) \cup {e}
<1>1. /\ Append(s, e) \in Seq(S)
      /\ Len(Append(s, e)) = Len(s) + 1
      /\ \A i \in 1 .. Len(s) : Append(s, e)[i] = s[i]
      /\ Append(s, e)[Len(s) + 1] = e
  OBVIOUS
<1>2. DOMAIN s = 1 .. Len(s) /\ DOMAIN Append(s, e) = 1 .. Len(s) + 1 /\ Len(s) \in Nat
  BY <1>1
<1>3. 1 .. Len(s) + 1 = (1 .. Len(s)) \cup {Len(s) + 1}
  BY <1>2
<1>4. QED
  BY <1>1, <1>2, <1>3 DEF Elements

\* A registry with nothing in it has nothing to announce.
LEMMA ElementsOfEmpty == Elements(<<>>) = {}
  BY DEF Elements

\* Every step keeps a sleeping Collect announced.
LEMMA NextWake == TypeInv /\ WakeInv /\ [Next]_vars => WakeInv'
<1> SUFFICES ASSUME TypeInv, WakeInv, [Next]_vars PROVE WakeInv'
  OBVIOUS
<1> USE DEF TypeInv, TypeOK, Reports, Ends
<1>1. ASSUME NEW a \in Agents, Launch(a) PROVE WakeInv'
  BY <1>1 DEF Launch, parent, WakeInv
<1>2. ASSUME NEW a \in Agents,
             Acquire(a) \/ AcquireCancelled(a) \/ RunReturns(a) \/ RunPanics(a)
               \/ CompleteUnknown(a) \/ Return(a)
      PROVE  WakeInv'
  <2>1. /\ UNCHANGED <<registry, mute, parent>>
        /\ agent[a] # "emit"
        /\ \A b \in Agents \ {a} : agent'[b] = agent[b]
    BY <1>2 DEF Acquire, AcquireCancelled, RunReturns, RunPanics, Unwind, CompleteUnknown, Return
  <2>2. Elements(ready) \subseteq Agents
    BY DEF Elements
  <2>3. QED
    BY <2>1, <2>2, SamePending DEF WakeInv, registry, parent
<1>3. ASSUME NEW a \in Agents, CompleteKnown(a) PROVE WakeInv'
  <2>1. Elements(ready') = Elements(ready) \cup {a}
    BY <1>3, ElementsOfAppend DEF CompleteKnown
  <2>2. ready' # <<>>
    BY <1>3 DEF CompleteKnown
  <2>3. agent'[a] = "emit" /\ \A b \in Agents \ {a} : agent'[b] = agent[b]
    BY <1>3 DEF CompleteKnown
  <2>4. UNCHANGED <<signal, mute, run>>
    BY <1>3 DEF CompleteKnown, parent
  <2>5. Elements(ready) \subseteq Agents
    BY DEF Elements
  <2>6. QED
    BY <2>1, <2>2, <2>3, <2>4, <2>5 DEF WakeInv, Pending
<1>4. ASSUME NEW a \in Agents, EmitPanics(a) PROVE WakeInv'
  <2>1. /\ UNCHANGED <<registry, parent>>
        /\ mute' = mute \cup {a}
        /\ \A b \in Agents \ {a} : agent'[b] = agent[b]
    BY <1>4 DEF EmitPanics, Unwind
  <2>2. Elements(ready) \subseteq Agents
    BY DEF Elements
  <2>3. QED
    BY <2>1, <2>2, SamePending DEF WakeInv, registry, parent
<1>5. ASSUME NEW a \in Agents, Poke(a) PROVE WakeInv'
  BY <1>5, SamePending DEF Poke, WakeInv, parent
<1>6. CASE CollectWaits
  <2>1. UNCHANGED <<active, ready>> /\ Pending /\ Elements(ready') = {}
    BY <1>6, ElementsOfEmpty DEF CollectWaits, registry, Pending
  <2>2. QED
    BY <2>1, SamePending DEF WakeInv
<1>7. CASE RunStep /\ ~CollectWaits
  <2>1. run' # "wait"
    BY <1>7 DEF RunStep, Boundary, AskTools, ToolsDone, RunFails, Answer, AnswerContinues,
       MustWait, CollectReady, Wake, WaitCancelled, CappedTake, CappedCancel
  <2>2. QED
    BY <2>1 DEF WakeInv
<1>8. CASE CancelContext
  BY <1>8, SamePending DEF CancelContext, WakeInv, registry, goroutine
<1>9. CASE Send
  BY <1>9 DEF Send, WakeInv
<1>10. CASE UNCHANGED vars
  BY <1>10, SamePending DEF vars, WakeInv
<1>11. QED
  BY <1>1, <1>2, <1>3, <1>4, <1>5, <1>6, <1>7, <1>8, <1>9, <1>10
  DEF Next, AgentStep, Finished

\* Collect never sleeps on a report that nobody will announce, unless the
\* host's own callback panicked on it.
THEOREM NoLostWakeup == Spec => []WakeupPending
<1>1. Init => WakeInv
  BY DEF Init, WakeInv
<1>2. TypeInv /\ WakeInv => WakeupPending
  BY DEF WakeInv, WakeupPending, TypeInv, TypeOK, Reports, Elements
<1>3. QED
  BY <1>1, <1>2, InitType, NextType, NextWake, PTL DEF Spec

-------------------------------------------------------------------------------
(* What an answer leaves out.                                               *)

\* Once a run has answered, nothing is out that could still report to it.
LEMMA NextAnswered ==
  TypeInv /\ AnsweredWithNothingOut /\ [Next]_vars => AnsweredWithNothingOut'
<1> SUFFICES ASSUME TypeInv, AnsweredWithNothingOut, [Next]_vars, run' = "answered"
             PROVE  ~Pending'
  BY DEF AnsweredWithNothingOut
<1> USE DEF TypeInv, TypeOK, AnsweredWithNothingOut, Ends
<1>1. ASSUME NEW a \in Agents, Launch(a) PROVE FALSE
  BY <1>1 DEF Launch, parent
<1>2. ASSUME NEW a \in Agents, AgentStep(a) PROVE ~Pending'
  <2>1. ~Pending
    BY <1>2 DEF AgentStep, Acquire, AcquireCancelled, RunReturns, RunPanics, CompleteKnown,
       CompleteUnknown, EmitPanics, Poke, Return, parent
  <2>2. ~CompleteKnown(a)
    <3>1. CallID[a] \in CallIDs
      OBVIOUS
    <3>2. active[CallID[a]] = NoAgent
      BY <2>1, <3>1 DEF Pending, Out
    <3>3. QED
      BY <3>2 DEF CompleteKnown
  <2>3. UNCHANGED <<active, ready>>
    BY <1>2, <2>2 DEF AgentStep, Acquire, AcquireCancelled, RunReturns, RunPanics,
       CompleteUnknown, EmitPanics, Poke, Return, registry
  <2>4. QED
    BY <2>1, <2>3, SamePending
<1>3. CASE RunStep
  <2>1. Answer
    BY <1>3 DEF RunStep, Boundary, AskTools, ToolsDone, RunFails, Answer, AnswerContinues, MustWait,
       CollectReady, CollectWaits, Wake, WaitCancelled, CappedTake, CappedCancel
  <2>2. ~Pending /\ UNCHANGED <<active, ready>>
    BY <2>1 DEF Answer, registry, Pending
  <2>3. QED
    BY <2>2, SamePending
<1>4. CASE CancelContext
  BY <1>4, SamePending DEF CancelContext, registry
<1>5. CASE Send
  BY <1>5 DEF Send
<1>6. CASE UNCHANGED vars
  BY <1>6, SamePending DEF vars
<1>7. QED
  BY <1>1, <1>2, <1>3, <1>4, <1>5, <1>6 DEF Next, Finished

\* A run ends on an answer only when every launch has been delivered or
\* declared abandoned.
THEOREM AnswerWaitsForAll == Spec => []AnsweredWithNothingOut
<1>1. Init => AnsweredWithNothingOut
  BY DEF Init, AnsweredWithNothingOut
<1>2. QED
  BY <1>1, InitType, NextType, NextAnswered, PTL DEF Spec

-------------------------------------------------------------------------------
(* Every launch reports once.                                               *)

\* An entry is the launch of its own id; the reports taken on the capped
\* turn are held only until CancelRemaining; and every launch is in one
\* place: out, told, or abandoned.
ReportInv ==
  /\ \A id \in CallIDs : active[id] # NoAgent => CallID[active[id]] = id
  /\ taken # <<>> => run = "cancel"
  /\ \A a \in Agents :
       agent[a] = "unborn" <=> a \notin Out \cup Elements(Told) \cup abandoned
  /\ \A i, j \in DOMAIN Told : Told[i] = Told[j] => i = j
  /\ Elements(Told) \cap (Out \cup abandoned) = {}
  /\ Out \cap abandoned = {}

\* The sequence of reports that have left their goroutines is one.
LEMMA ToldIsSeq == TypeInv => Told \in Seq(Agents)
  BY DEF TypeInv, TypeOK, Reports, Told

\* A report appended to ready is appended to all that was told.
LEMMA ToldAppend ==
  ASSUME TypeInv, NEW a \in Agents
  PROVE  (delivered \o taken) \o Append(ready, a) = Append(Told, a)
<1> DEFINE before == delivered \o taken
<1>1. before \in Seq(Agents) /\ ready \in Seq(Agents) /\ <<a>> \in Seq(Agents)
  BY DEF TypeInv, TypeOK, Reports
<1> HIDE DEF before
<1>2. before \o ready \in Seq(Agents)
  BY <1>1
<1>3. Append(ready, a) = ready \o <<a>>
  BY <1>1, AppendIsConcat
<1>4. Append(before \o ready, a) = (before \o ready) \o <<a>>
  BY <1>2, AppendIsConcat
<1>5. (before \o ready) \o <<a>> = before \o (ready \o <<a>>)
  BY <1>1, ConcatAssociative
<1>6. QED
  BY <1>3, <1>4, <1>5 DEF Told, before

\* Moving reports from ready through taken to the conversation changes
\* neither which were told nor in which order.
LEMMA ToldMoves ==
  ASSUME NEW d \in Seq(Agents), NEW r \in Seq(Agents)
  PROVE  /\ (d \o <<>>) \o r = d \o r
         /\ (d \o r) \o <<>> = d \o r
         /\ ((d \o r) \o <<>>) \o <<>> = d \o r
<1>1. d \o <<>> = d /\ d \o r \in Seq(Agents)
  BY ConcatEmptySeq
<1>2. (d \o r) \o <<>> = d \o r
  BY <1>1, ConcatEmptySeq
<1>3. QED
  BY <1>1, <1>2

\* Appending a launch not told before keeps every launch told once.
LEMMA AppendStaysInjective ==
  ASSUME NEW s \in Seq(Agents), NEW e \in Agents, e \notin Elements(s),
         \A i, j \in DOMAIN s : s[i] = s[j] => i = j
  PROVE  \A i, j \in DOMAIN Append(s, e) : Append(s, e)[i] = Append(s, e)[j] => i = j
<1>1. /\ Len(s) \in Nat
      /\ DOMAIN s = 1 .. Len(s)
      /\ DOMAIN Append(s, e) = 1 .. Len(s) + 1
      /\ \A i \in 1 .. Len(s) : Append(s, e)[i] = s[i]
      /\ Append(s, e)[Len(s) + 1] = e
  OBVIOUS
<1>2. \A i \in 1 .. Len(s) : s[i] # e
  BY <1>1 DEF Elements
<1>3. \A i \in 1 .. Len(s) + 1 : i \in 1 .. Len(s) \/ i = Len(s) + 1
  BY <1>1
<1>4. QED
  BY <1>1, <1>2, <1>3

\* Steps that leave the entries, what was told and what was abandoned alone.
LEMMA SameReports ==
  ASSUME ReportInv, UNCHANGED <<active, Told, abandoned>>,
         \A a \in Agents : agent'[a] = "unborn" <=> agent[a] = "unborn",
         taken' # <<>> => run' = "cancel"
  PROVE  ReportInv'
<1>1. Out' = Out
  BY DEF Out
<1>2. QED
  BY <1>1 DEF ReportInv

\* No launch is registered, told or abandoned when the registry is new.
LEMMA InitReports == Init => ReportInv
<1> SUFFICES ASSUME Init PROVE ReportInv
  OBVIOUS
<1>1. Told = <<>>
  BY ToldMoves DEF Init, Told
<1>2. Out = {} /\ Elements(Told) = {} /\ abandoned = {}
  BY <1>1, ElementsOfEmpty DEF Init, Out
<1>3. QED
  BY <1>1, <1>2 DEF Init, ReportInv

\* Every step keeps each launch in one place, when ids do not repeat.
LEMMA NextReports ==
  ASSUME UniqueIDs, TypeInv, ReportInv, [Next]_vars
  PROVE  ReportInv'
<1> USE DEF TypeInv, TypeOK, Reports, Ends
<1>0. /\ delivered \in Seq(Agents) /\ taken \in Seq(Agents) /\ ready \in Seq(Agents)
      /\ Told \in Seq(Agents)
      /\ CallID \in [Agents -> CallIDs]
  BY ToldIsSeq
<1>1. ASSUME NEW a \in Agents, Launch(a) PROVE ReportInv'
  <2>1. agent[a] = "unborn" /\ agent' = [agent EXCEPT ![a] = "gate"]
    BY <1>1 DEF Launch
  <2>2. a \notin Out \cup Elements(Told) \cup abandoned
    BY <2>1 DEF ReportInv
  <2>3. active[CallID[a]] = NoAgent
    <3>1. SUFFICES ASSUME active[CallID[a]] # NoAgent PROVE FALSE
      OBVIOUS
    <3>2. active[CallID[a]] \in Agents /\ CallID[active[CallID[a]]] = CallID[a]
      BY <1>0, <3>1 DEF ReportInv
    <3>3. active[CallID[a]] = a
      BY <3>2 DEF UniqueIDs
    <3>4. QED
      BY <1>0, <2>2, <3>3 DEF Out
  <2>4. active' = [active EXCEPT ![CallID[a]] = a]
    BY <1>0, <1>1, <2>3 DEF Launch
  <2>5. Out' = Out \cup {a}
    BY <1>0, <2>3, <2>4 DEF Out
  <2>6. UNCHANGED <<Told, abandoned, taken, run>>
    BY <1>1 DEF Launch, parent, Told
  <2>7. \A id \in CallIDs : active'[id] # NoAgent => CallID[active'[id]] = id
    BY <1>0, <2>4 DEF ReportInv
  <2>8. QED
    BY <2>1, <2>2, <2>5, <2>6, <2>7 DEF ReportInv
<1>2. ASSUME NEW a \in Agents, CompleteKnown(a) PROVE ReportInv'
  <2>1. active[CallID[a]] = a
    <3>1. active[CallID[a]] \in Agents /\ CallID[active[CallID[a]]] = CallID[a]
      BY <1>0, <1>2 DEF CompleteKnown, ReportInv
    <3>2. QED
      BY <3>1 DEF UniqueIDs
  <2>2. a \in Out /\ a \notin Elements(Told) /\ a \notin abandoned
    BY <1>0, <2>1 DEF Out, ReportInv
  <2>3. active' = [active EXCEPT ![CallID[a]] = NoAgent]
    BY <1>2 DEF CompleteKnown
  <2>4. Out' = Out \ {a}
    <3>1. \A id \in CallIDs : active[id] = a => id = CallID[a]
      BY DEF ReportInv
    <3>2. QED
      BY <1>0, <2>1, <2>3, <3>1 DEF Out
  <2>5. Told' = Append(Told, a)
    BY <1>2, ToldAppend DEF CompleteKnown, parent, Told
  <2>6. Elements(Told)' = Elements(Told) \cup {a}
    BY <1>0, <2>5, ElementsOfAppend
  <2>7. \A i, j \in DOMAIN Told' : Told'[i] = Told'[j] => i = j
    BY <1>0, <2>2, <2>5, AppendStaysInjective DEF ReportInv
  <2>8. UNCHANGED <<abandoned, taken, run>> /\ agent' = [agent EXCEPT ![a] = "emit"] /\ agent[a] = "report"
    BY <1>2 DEF CompleteKnown, parent
  <2>9. \A id \in CallIDs : active'[id] # NoAgent => CallID[active'[id]] = id
    BY <1>0, <2>3 DEF ReportInv
  <2>10. QED
    BY <2>2, <2>4, <2>6, <2>7, <2>8, <2>9 DEF ReportInv
<1>3. ASSUME NEW a \in Agents, AgentStep(a), ~CompleteKnown(a) PROVE ReportInv'
  <2>1. /\ UNCHANGED <<active, ready, parent>>
        /\ \A b \in Agents : agent'[b] = "unborn" <=> agent[b] = "unborn"
    BY <1>3 DEF AgentStep, Acquire, AcquireCancelled, RunReturns, RunPanics, Unwind,
       CompleteUnknown, EmitPanics, Poke, Return, registry
  <2>2. UNCHANGED <<Told, abandoned, taken, run>>
    BY <2>1 DEF parent, Told
  <2>3. taken # <<>> => run = "cancel"
    BY DEF ReportInv
  <2>4. QED
    BY <2>1, <2>2, <2>3, SameReports
<1>4. CASE Boundary \/ CollectReady \/ CappedTake
  <2>1. taken = <<>>
    BY <1>4 DEF Boundary, CollectReady, CappedTake, ReportInv
  <2>2. UNCHANGED <<active, goroutine, abandoned>>
    BY <1>4 DEF Boundary, CollectReady, CappedTake
  <2>3. taken' # <<>> => run' = "cancel"
    BY <1>4, <2>1 DEF Boundary, CollectReady, CappedTake
  <2>4. Told' = Told
    <3>1. Told = delivered \o ready
      BY <1>0, <2>1, ToldMoves DEF Told
    <3>2. \/ delivered' = delivered \o ready /\ taken' = <<>> /\ ready' = <<>>
          \/ delivered' = delivered /\ taken' = <<>> /\ ready' = ready
          \/ delivered' = delivered /\ taken' = ready /\ ready' = <<>>
      BY <1>4, <2>1 DEF Boundary, CollectReady, CappedTake
    <3>3. Told' = delivered \o ready
      BY <1>0, <3>2, ToldMoves, ZenonT(60) DEF Told
    <3>4. QED
      BY <3>1, <3>3
  <2>5. QED
    BY <2>2, <2>3, <2>4, SameReports DEF goroutine
<1>5. CASE CappedCancel
  <2>1. /\ abandoned' = abandoned \cup Out
        /\ active' = [id \in CallIDs |-> NoAgent]
        /\ delivered' = delivered \o taken /\ taken' = <<>> /\ ready' = ready
        /\ agent' = agent
    BY <1>5 DEF CappedCancel, goroutine
  <2>2. Out' = {}
    BY <2>1 DEF Out
  <2>3. Told' = Told
    BY <1>0, <2>1, ToldMoves DEF Told
  <2>4. QED
    BY <2>1, <2>2, <2>3 DEF ReportInv
<1>6. CASE QuietRunStep \/ CancelContext \/ Send
  <2>1. UNCHANGED <<active, ready, goroutine, taken, delivered, abandoned>>
    BY <1>6 DEF QuietRunStep, AskTools, ToolsDone, RunFails, Answer, AnswerContinues, MustWait,
       CollectWaits, Wake, WaitCancelled, CancelContext, Send, registry
  <2>2. run' = "cancel" <=> run = "cancel"
    BY <1>6 DEF QuietRunStep, AskTools, ToolsDone, RunFails, Answer, AnswerContinues, MustWait,
       CollectWaits, Wake, WaitCancelled, CancelContext, Send
  <2>3. taken' # <<>> => run' = "cancel"
    BY <2>1, <2>2 DEF ReportInv
  <2>4. Told' = Told
    BY <2>1 DEF Told
  <2>5. QED
    BY <2>1, <2>3, <2>4, SameReports DEF goroutine
<1>7. CASE UNCHANGED vars
  <2>1. UNCHANGED <<active, agent, taken, run, abandoned, Told>>
    BY <1>7 DEF vars, Told
  <2>2. taken' # <<>> => run' = "cancel"
    BY <2>1 DEF ReportInv
  <2>3. QED
    BY <2>1, <2>2, SameReports
<1>8. QED
  BY <1>1, <1>2, <1>3, <1>4, <1>5, <1>6, <1>7
  DEF Next, RunStep, QuietRunStep, Finished

\* If no call id repeats, every launch reports at most once, whichever way
\* its goroutine ends, is never both reported and declared abandoned, and
\* is never simply gone.
THEOREM ReportsOnce == UniqueIDs => (Spec => []EachLaunchReportsOnce)
<1> SUFFICES ASSUME UniqueIDs PROVE Spec => []EachLaunchReportsOnce
  OBVIOUS
<1>1. TypeInv /\ ReportInv /\ AnsweredWithNothingOut => EachLaunchReportsOnce
  <2>1. SUFFICES ASSUME TypeInv, ReportInv, AnsweredWithNothingOut, run = "answered",
                        NEW a \in Agents, agent[a] # "unborn"
                 PROVE  a \in Elements(delivered) \cup abandoned
    BY DEF ReportInv, EachLaunchReportsOnce
  <2>2. taken = <<>> /\ ready = <<>> /\ Out = {}
    BY <2>1 DEF ReportInv, AnsweredWithNothingOut, Pending, Out, TypeInv, TypeOK, Reports
  <2>3. Told = delivered
    BY <2>1, <2>2 DEF Told, TypeInv, TypeOK, Reports
  <2>4. QED
    BY <2>1, <2>2, <2>3 DEF ReportInv
<1>2. TypeInv /\ ReportInv /\ [Next]_vars => ReportInv'
  BY NextReports
<1>3. Init => AnsweredWithNothingOut
  BY DEF Init, AnsweredWithNothingOut
<1>4. QED
  BY <1>1, <1>2, <1>3, InitType, NextType, NextAnswered, InitReports, PTL DEF Spec
===============================================================================
