---------------------------- MODULE ToolBatchProofs ----------------------------
(***************************************************************************)
(* Theorems about ToolBatch for a batch of any size and any mix of calls,  *)
(* and about ArgHooks for calls of any text, cut anywhere.                 *)
(***************************************************************************)
EXTENDS ToolBatch, ArgHooks, SequenceTheorems, FiniteSetTheorems, NaturalsInduction,
        WellFoundedInduction, TLAPS

USE NAssumption

Loop  == {"dispatch", "barrier", "resolve", "drain"}
After == {"record", "message", "abort", "done", "aborted"}

\* What the dispatch loop has reached: nothing at or after its index has
\* begun, and everything before it is resolved or a read still at work.
LoopInv ==
  /\ \A c \in Calls :
       disp \in Loop /\ c >= next /\ ~(disp = "resolve" /\ c = next)
         => call[c] = "idle" /\ result[c] = "none"
  /\ \A c \in Calls :
       disp \in Loop \cup {"join"} /\ c < next
         => result[c] # "none" \/ (kind[c] = "read" /\ Busy(c))
  /\ disp \in {"barrier", "resolve"} => next \in Calls /\ kind[next] # "read"
  /\ disp = "message" => next \in Calls
  /\ disp = "resolve" => call[next] # "idle"
  /\ disp = "join" => next = N + 1 \/ firstErr

\* Results go with the calls: a call at work has none, one that is over has
\* one, and one that ran was executed.
ResultInv ==
  /\ \A c \in Calls : call[c] = "over" => result[c] # "none"
  /\ \A c \in Calls : Busy(c) => result[c] = "none"
  /\ \A c \in Calls : c \in executed <=> call[c] = "exec" \/ result[c] = "ran"
  /\ firstErr <=> \E c \in Calls : result[c] = "interrupted"
  /\ disp \in {"record", "message", "done"} => ~firstErr /\ \A c \in Calls : result[c] # "none"

\* A call that is not read-only is at work only on the dispatcher, alone.
BarrierInv ==
  \A c \in Calls :
    kind[c] # "read" /\ Busy(c) =>
      /\ disp \in {"resolve", "panicked"}
      /\ c = next
      /\ \A d \in Calls \ {c} :
           /\ ~Busy(d)
           /\ d > c => call[d] = "idle"
           /\ d < c => result[d] # "none"

\* Nothing is at work once recording began, and the nodes are the results
\* recorded so far.
NodesInv ==
  /\ disp \in After \/ nodes # <<>> => \A c \in Calls : ~Busy(c)
  /\ disp \in Loop \cup {"join"} => nodes = <<>>
  /\ disp = "record" => Len(nodes) = next - 1
  /\ disp = "message" => Len(nodes) = next
  /\ disp \in {"done", "aborted"} => Len(nodes) = N
  /\ Len(nodes) <= N
  /\ \A i \in 1 .. Len(nodes) :
       /\ nodes[i].call = i
       /\ nodes[i].how # "omitted" => nodes[i].how = result[i]
  /\ firstErr => \A i \in 1 .. Len(nodes) : nodes[i].how = "omitted"
  /\ disp # "aborted" => \A i \in 1 .. Len(nodes) : nodes[i].how # "omitted"

IInv == TypeOK /\ LoopInv /\ ResultInv /\ BarrierInv /\ NodesInv

\* A batch starts with nothing resolved and nothing recorded.
LEMMA InitInv == Init => IInv
<1> SUFFICES ASSUME Init PROVE IInv
  OBVIOUS
<1> USE DEF Init
<1>1. TypeOK
  <2>1. 1 \in 1 .. N + 1 /\ <<>> \in Seq(Node)
    OBVIOUS
  <2>2. /\ call \in [Calls -> {"idle", "ask", "exec", "over"}]
        /\ result \in [Calls -> (Answers \ {"omitted"}) \cup {"none", "interrupted"}]
    OBVIOUS
  <2>3. row \in Seq({"complete", "cancelled"})
    OBVIOUS
  <2>4. QED
    BY <2>1, <2>2, <2>3 DEF TypeOK
<1>2. LoopInv /\ ResultInv /\ BarrierInv
  BY DEF LoopInv, ResultInv, BarrierInv, Busy, Loop, Calls
<1>3. NodesInv
  BY DEF NodesInv, After, Loop, Busy
<1>4. QED
  BY <1>1, <1>2, <1>3 DEF IInv

\* The steps of the dispatch loop.
LEMMA LoopSteps ==
  ASSUME IInv,
         HookFails \/ Refused \/ SpawnRead \/ HookPasses \/ Barrier \/ Resolved \/ LoopEnds
  PROVE  IInv'
<1> USE DEF IInv, TypeOK, config, resolving, transcript, Ends, Kinds, Answers, Calls
<1>1. CASE HookFails
  BY <1>1 DEF HookFails, LoopInv, ResultInv, BarrierInv, NodesInv, Busy, Loop, After
<1>2. CASE Refused
  BY <1>2 DEF Refused, LoopInv, ResultInv, BarrierInv, NodesInv, Busy, Loop, After
<1>3. CASE SpawnRead
  BY <1>3 DEF SpawnRead, LoopInv, ResultInv, BarrierInv, NodesInv, Busy, Loop, After
<1>4. CASE HookPasses
  BY <1>4 DEF HookPasses, LoopInv, ResultInv, BarrierInv, NodesInv, Busy, Loop, After
<1>5. CASE Barrier
  BY <1>5 DEF Barrier, ReadsIdle, LoopInv, ResultInv, BarrierInv, NodesInv, Busy, Loop, After
<1>6. CASE Resolved
  BY <1>6 DEF Resolved, LoopInv, ResultInv, BarrierInv, NodesInv, Busy, Loop, After
<1>7. CASE LoopEnds
  BY <1>7 DEF LoopEnds, LoopInv, ResultInv, BarrierInv, NodesInv, Busy, Loop, After
<1>8. QED
  BY <1>1, <1>2, <1>3, <1>4, <1>5, <1>6, <1>7

\* The steps of resolveCall.
LEMMA ResolveSteps ==
  ASSUME IInv, NEW c \in Calls, Running(c), CallStep(c)
  PROVE  IInv'
<1> USE DEF IInv, TypeOK, config, transcript, Ends, Kinds, Answers, Calls, Resolve
<1>1. CASE Teach(c)
  <2>1. TypeOK'
    BY <1>1 DEF Teach
  <2>2. LoopInv' /\ BarrierInv'
    BY <1>1 DEF Teach, LoopInv, BarrierInv, Busy, Loop
  <2>3. ResultInv'
    BY <1>1 DEF Teach, ResultInv, NodesInv, Busy, After
  <2>4. NodesInv'
    BY <1>1 DEF Teach, NodesInv, Busy, Loop, After
  <2>5. QED
    BY <2>1, <2>2, <2>3, <2>4
<1>2. CASE Approve(c)
  BY <1>2, SMTT(30) DEF Approve, LoopInv, ResultInv, BarrierInv, NodesInv, Busy, Loop, After
<1>3. CASE Deny(c)
  <2>1. TypeOK'
    BY <1>3 DEF Deny
  <2>2. LoopInv' /\ BarrierInv'
    BY <1>3 DEF Deny, LoopInv, BarrierInv, Busy, Loop
  <2>3. ResultInv'
    BY <1>3 DEF Deny, ResultInv, NodesInv, Busy, After
  <2>4. NodesInv'
    BY <1>3 DEF Deny, NodesInv, Busy, Loop, After
  <2>5. QED
    BY <2>1, <2>2, <2>3, <2>4
<1>4. CASE AskFails(c)
  <2>1. TypeOK'
    BY <1>4 DEF AskFails
  <2>2. LoopInv' /\ BarrierInv'
    BY <1>4 DEF AskFails, LoopInv, BarrierInv, Busy, Loop
  <2>3. ResultInv'
    BY <1>4 DEF AskFails, ResultInv, NodesInv, Busy, After
  <2>4. NodesInv'
    BY <1>4 DEF AskFails, NodesInv, Busy, Loop, After
  <2>5. QED
    BY <2>1, <2>2, <2>3, <2>4
<1>5. CASE Executed(c)
  <2>1. TypeOK'
    BY <1>5 DEF Executed
  <2>2. LoopInv' /\ BarrierInv'
    BY <1>5 DEF Executed, LoopInv, BarrierInv, Busy, Loop
  <2>3. ResultInv'
    BY <1>5 DEF Executed, ResultInv, NodesInv, Busy, After
  <2>4. NodesInv'
    BY <1>5 DEF Executed, NodesInv, Busy, Loop, After
  <2>5. QED
    BY <2>1, <2>2, <2>3, <2>4
<1>6. QED
  BY <1>1, <1>2, <1>3, <1>4, <1>5 DEF CallStep

\* What omitCalls makes of the results recorded so far: they stay, and each
\* later call gets an omitted one.
LEMMA OmitCalls ==
  ASSUME nodes \in Seq(Node), NodesInv
  PROVE  /\ omitCalls \in Seq(Node) /\ Len(omitCalls) = N
         /\ \A i \in 1 .. N : omitCalls[i].call = i
         /\ \A i \in 1 .. N : omitCalls[i].how # "omitted" =>
              i \in 1 .. Len(nodes) /\ omitCalls[i] = nodes[i]
<1> DEFINE said == 1 .. Len(nodes)
           none(i) == [call |-> i, how |-> "omitted"]
<1>1. DOMAIN nodes = said /\ \A i \in said : nodes[i] \in Node
  OBVIOUS
<1>2. \A i \in said : i \in Calls /\ nodes[i].call = i
  BY DEF NodesInv, Calls
<1> HIDE DEF said
<1>3. answered = said
  <2>1. ASSUME NEW x \in answered PROVE x \in said
    <3>1. PICK i \in said : x = nodes[i].call
      BY <1>1, <2>1 DEF answered
    <3>2. QED
      BY <1>2, <3>1
  <2>2. ASSUME NEW x \in said PROVE x \in answered
    BY <1>1, <1>2, <2>2 DEF answered
  <2>3. QED
    BY <2>1, <2>2
<1>4. \A i \in Calls : none(i) \in Node /\ none(i).call = i /\ none(i).how = "omitted"
  BY DEF Node, Answers
<1>5. \A i \in Calls : omitCalls[i] = IF i \in said THEN nodes[i] ELSE none(i)
  BY <1>3, Zenon DEF omitCalls
<1> HIDE DEF none
<1>6. \A i \in Calls : omitCalls[i] \in Node /\ omitCalls[i].call = i
  BY <1>1, <1>2, <1>4, <1>5
<1>7. \A i \in Calls : omitCalls[i].how # "omitted" => i \in said /\ omitCalls[i] = nodes[i]
  BY <1>4, <1>5
<1>8. omitCalls \in [1 .. N -> Node]
  BY <1>6, Zenon DEF omitCalls, Calls
<1>9. omitCalls \in Seq(Node) /\ Len(omitCalls) = N
  <2> HIDE DEF omitCalls
  <2>1. QED
    BY <1>8
<1>10. QED
  BY <1>6, <1>7, <1>9 DEF Calls, said

\* The waits, the recording loop and the abort.
LEMMA RecordSteps ==
  ASSUME IInv,
         Join \/ Drain \/ RecordResult \/ StoreMessage \/ RecordFails \/ Recorded \/ AbortBatch \/ Panic
  PROVE  IInv'
<1> USE DEF IInv, TypeOK, config, resolving, transcript, Ends, Kinds, Answers, Calls
<1>1. CASE Join
  <2>1. TypeOK'
    BY <1>1 DEF Join
  <2>2. \A c \in Calls : ~Busy(c)
    BY <1>1 DEF Join, ReadsIdle, BarrierInv
  <2>3. LoopInv' /\ BarrierInv'
    BY <1>1, <2>2 DEF Join, LoopInv, BarrierInv, Busy, Loop
  <2>4. ~firstErr => \A c \in Calls : result[c] # "none"
    BY <1>1, <2>2 DEF Join, LoopInv, Loop
  <2>5. ResultInv'
    BY <1>1, <2>4 DEF Join, ResultInv, Busy
  <2>6. NodesInv'
    BY <1>1, <2>2 DEF Join, NodesInv, Busy, Loop, After
  <2>7. QED
    BY <2>1, <2>3, <2>5, <2>6
<1>2. CASE Drain
  BY <1>2 DEF Drain, ReadsIdle, LoopInv, ResultInv, BarrierInv, NodesInv, Busy, Loop, After
<1>3. CASE RecordResult
  BY <1>3 DEF RecordResult, Node, LoopInv, ResultInv, BarrierInv, NodesInv, Busy, Loop, After
<1>4. CASE StoreMessage
  BY <1>4 DEF StoreMessage, LoopInv, ResultInv, BarrierInv, NodesInv, Busy, Loop, After
<1>5. CASE RecordFails
  BY <1>5 DEF RecordFails, LoopInv, ResultInv, BarrierInv, NodesInv, Busy, Loop, After
<1>6. CASE Recorded
  BY <1>6 DEF Recorded, LoopInv, ResultInv, BarrierInv, NodesInv, Busy, Loop, After
<1>7. CASE AbortBatch
  <2>1. /\ omitCalls \in Seq(Node) /\ Len(omitCalls) = N
        /\ \A i \in 1 .. N : omitCalls[i].call = i
        /\ \A i \in 1 .. N : omitCalls[i].how # "omitted" =>
             i \in 1 .. Len(nodes) /\ omitCalls[i] = nodes[i]
    BY OmitCalls, Zenon DEF IInv
  <2>2. TypeOK'
    <3>1. nodes' \in Seq(Node) /\ disp' = "aborted"
      BY <1>7, <2>1, Zenon DEF AbortBatch
    <3>2. row' \in Seq({"complete", "cancelled"})
      BY <1>7 DEF AbortBatch
    <3>3. UNCHANGED <<kind, approver, next, call, result, firstErr, executed>>
      BY <1>7 DEF AbortBatch
    <3>4. QED
      BY <3>1, <3>2, <3>3
  <2>3. LoopInv' /\ ResultInv' /\ BarrierInv'
    BY <1>7 DEF AbortBatch, LoopInv, ResultInv, BarrierInv, NodesInv, Busy, Loop, After
  <2>4. NodesInv'
    <3>1. Len(nodes') = N /\ nodes' = omitCalls /\ disp' = "aborted"
      BY <1>7, <2>1, Zenon DEF AbortBatch
    <3>2. \A c \in Calls : ~Busy(c)'
      BY <1>7 DEF AbortBatch, NodesInv, After, Busy
    <3>3. \A i \in 1 .. N : omitCalls[i].how # "omitted" => omitCalls[i].how = result'[i]
      BY <1>7, <2>1 DEF AbortBatch, NodesInv
    <3>4. firstErr' => \A i \in 1 .. N : omitCalls[i].how = "omitted"
      BY <1>7, <2>1, SMTT(30) DEF AbortBatch, NodesInv
    <3>5. QED
      BY <2>1, <3>1, <3>2, <3>3, <3>4 DEF NodesInv, Loop
  <2>5. QED
    BY <2>2, <2>3, <2>4
<1>8. CASE Panic
  BY <1>8 DEF Panic, LoopInv, ResultInv, BarrierInv, NodesInv, Busy, Loop, After
<1>9. QED
  BY <1>1, <1>2, <1>3, <1>4, <1>5, <1>6, <1>7, <1>8

\* Every step keeps the invariant.
LEMMA NextInv == IInv /\ [Next]_vars => IInv'
<1> SUFFICES ASSUME IInv, [Next]_vars PROVE IInv'
  OBVIOUS
<1>1. CASE DispatcherStep \/ Panic
  BY <1>1, LoopSteps, RecordSteps DEF DispatcherStep
<1>2. ASSUME NEW c \in Calls, Running(c), CallStep(c) PROVE IInv'
  BY <1>2, ResolveSteps
<1>3. CASE UNCHANGED vars
  BY <1>3 DEF vars, IInv, TypeOK, LoopInv, ResultInv, BarrierInv, NodesInv, Busy
<1>4. QED
  BY <1>1, <1>2, <1>3 DEF Next, Finished

\* The inductive invariant holds throughout.
LEMMA Invariant == Spec => []IInv
  BY InitInv, NextInv, PTL DEF Spec

\* Every variable keeps its type, whatever the batch and its interleaving.
THEOREM TypeCorrect == Spec => []TypeOK
<1>1. IInv => TypeOK
  BY DEF IInv
<1>2. QED
  BY <1>1, Invariant, PTL

\* A call that is not read-only never overlaps another of its batch, and
\* reads on either side of it do not cross it.
THEOREM MutatingCallsAreBarriers == Spec => []MutatingIsBarrier
<1>1. IInv => MutatingIsBarrier
  BY DEF IInv, BarrierInv, MutatingIsBarrier
<1>2. QED
  BY <1>1, Invariant, PTL

\* However its calls interleave and wherever it is aborted, a batch leaves
\* one result per call, in call order, that says truthfully whether a
\* recorded call ran.
THEOREM ResultsInOrder == Spec => []AnsweredInOrder
<1>1. IInv => AnsweredInOrder
  <2> SUFFICES ASSUME IInv PROVE AnsweredInOrder
    OBVIOUS
  <2>1. DOMAIN nodes = 1 .. Len(nodes) /\ Len(nodes) \in Nat
    BY DEF IInv, TypeOK
  <2>2. ASSUME NEW i \in DOMAIN nodes, nodes[i].how # "omitted"
        PROVE  nodes[i].how = "ran" <=> i \in executed
    <3>1. i \in Calls /\ nodes[i].how = result[i]
      <4>1. i \in 1 .. Len(nodes) /\ Len(nodes) <= N
        BY <2>1 DEF IInv, NodesInv
      <4>2. nodes[i].how = result[i]
        BY <2>2, <4>1 DEF IInv, NodesInv
      <4>3. QED
        BY <2>1, <4>1, <4>2 DEF Calls
    <3>2. ~Busy(i)
      BY <2>2, <3>1 DEF IInv, NodesInv
    <3>3. QED
      BY <3>1, <3>2 DEF IInv, ResultInv, Busy
  <2>3. QED
    BY <2>1, <2>2 DEF IInv, NodesInv, AnsweredInOrder
<1>2. QED
  BY <1>1, Invariant, PTL

\* When recording or an abort begins, every goroutine of the batch is over.
THEOREM NoGoroutineOutlives == Spec => []NoneOutlivesBatch
<1>1. IInv => NoneOutlivesBatch
  BY DEF IInv, NodesInv, NoneOutlivesBatch, After
<1>2. QED
  BY <1>1, Invariant, PTL

\* An approval that never arrived is never lost among the other calls: the
\* batch is aborted and records none of its results.
THEOREM InterruptionIsKept == Spec => []InterruptionAborts
<1>1. IInv => InterruptionAborts
  BY DEF IInv, TypeOK, ResultInv, NodesInv, InterruptionAborts
<1>2. QED
  BY <1>1, Invariant, PTL

-----------------------------------------------------------------------------
(* Streamed-argument hooks: RefusalIsTheAnswer. *)

\* What stands in for induction here: a set of numbers that is not empty has a
\* least member, so the least counterexample of a claim is at hand.
LEMMA LeastOfNats == ASSUME NEW T, T \subseteq Nat, T # {} PROVE \E m \in T : \A k \in T : m <= k
<1>1. PICK m \in T : \A k \in T : ~(<<k, m>> \in OpToRel(<, Nat))
  BY NatLessThanWellFounded, WFMin
<1>2. \A k \in T : ~(k < m)
  BY <1>1 DEF OpToRel
<1>3. QED
  BY <1>2


\* What is made of a list place by place: the scanner behind a run of bytes, where a reader is in
\* a value, what a hook heeds of some members, and the text some members are written as.  A place
\* makes something of what the places before it came to.
place(list, s, i, sofar) ==
  CASE list = "scanned" -> StepScan(sofar, s[i])
    [] list = "read"    -> Reads(sofar, s[i])
    [] list = "heeded"  -> IF Watched(s.hooks, s.members[i]) THEN Append(sofar, s.members[i]) ELSE sofar
    [] list = "written" -> Joined(sofar, s, i)
Places(list, s, first, f, k) == f = [i \in 0 .. k |-> IF i = 0 THEN first ELSE place(list, s, i, f[i - 1])]

\* There is a function that goes through a list place by place.
LEMMA PlaceByPlace ==
  ASSUME NEW list, NEW s, NEW first, NEW n \in Nat
  PROVE  \E f : Places(list, s, first, f, n)
<1> DEFINE T == {k \in 0 .. n : ~\E f : Places(list, s, first, f, k)}
<1>1. CASE T = {}
  <2>1. n \notin T /\ n \in 0 .. n
    BY <1>1
  <2>2. QED
    BY <2>1
<1>2. CASE T # {}
  <2>1. T \subseteq Nat /\ \A k \in T : k \in 0 .. n /\ ~\E f : Places(list, s, first, f, k)
    OBVIOUS
  <2>2. \A k \in 0 .. n : k \notin T => \E f : Places(list, s, first, f, k)
    OBVIOUS
  <2> HIDE DEF T
  <2>3. PICK k \in T : \A j \in T : k <= j
    BY <1>2, <2>1, LeastOfNats
  <2>4. CASE k = 0
    <3> DEFINE g == [i \in 0 .. 0 |-> first]
    <3>1. g = [i \in 0 .. 0 |-> IF i = 0 THEN first ELSE place(list, s, i, g[i - 1])]
      OBVIOUS
    <3>2. Places(list, s, first, g, k)
      BY <2>4, <3>1 DEF Places
    <3>3. QED
      BY <2>1, <2>3, <3>2
  <2>5. CASE k # 0
    <3>1. k - 1 \in 0 .. n /\ k \in Nat /\ k \in 1 .. n /\ ~(k <= k - 1)
      BY <2>1, <2>3, <2>5
    <3>2. PICK f : Places(list, s, first, f, k - 1)
      BY <2>2, <2>3, <3>1
    <3> DEFINE h(i) == IF i = 0 THEN first ELSE place(list, s, i, f[i - 1])
    <3>3. f = [i \in 0 .. k - 1 |-> h(i)]
      BY <3>2 DEF Places
    <3> DEFINE g == [i \in 0 .. k |-> IF i < k THEN f[i] ELSE place(list, s, k, f[k - 1])]
    <3>4. ASSUME NEW i \in 0 .. k PROVE g[i] = IF i = 0 THEN first ELSE place(list, s, i, g[i - 1])
      <4>1. CASE i = 0
        <5>1. 0 \in 0 .. k - 1 /\ 0 < k /\ h(0) = first
          BY <3>1
        <5>2. g[0] = f[0]
          BY <3>1, <5>1
        <5> HIDE DEF h, g
        <5>3. f[0] = first
          BY <3>3, <5>1
        <5>4. QED
          BY <4>1, <5>2, <5>3
      <4>2. CASE i # 0
        <5>1. i - 1 \in 0 .. k /\ i - 1 < k /\ i - 1 \in 0 .. k - 1 /\ h(i) = place(list, s, i, f[i - 1])
          BY <3>1, <4>2
        <5>2. g[i - 1] = f[i - 1] /\ (i < k => g[i] = f[i]) /\ (i = k => g[i] = place(list, s, k, f[k - 1]))
          BY <3>1, <5>1
        <5> HIDE DEF h, g
        <5>3. CASE i < k
          <6>1. i \in 0 .. k - 1
            BY <3>1, <5>3
          <6>2. f[i] = h(i)
            BY <3>3, <6>1
          <6>3. QED
            BY <4>2, <5>1, <5>2, <5>3, <6>2
        <5>4. CASE i = k
          BY <4>2, <5>2, <5>4
        <5>5. QED
          BY <3>1, <5>3, <5>4
      <4>3. QED
        BY <4>1, <4>2
    <3>5. g = [i \in 0 .. k |-> g[i]]
      OBVIOUS
    <3> HIDE DEF g, h
    <3>6. g = [i \in 0 .. k |-> IF i = 0 THEN first ELSE place(list, s, i, g[i - 1])]
      BY <3>4, <3>5
    <3>7. Places(list, s, first, g, k)
      BY <3>6 DEF Places
    <3>8. QED
      BY <2>1, <2>3, <3>7
  <2>6. QED
    BY <2>4, <2>5
<1>3. QED
  BY <1>1, <1>2

\* Step by step.
LEMMA PlaceSteps ==
  ASSUME NEW list, NEW s, NEW first, NEW n \in Nat, NEW f, Places(list, s, first, f, n)
  PROVE  f[0] = first /\ \A i \in 1 .. n : f[i] = place(list, s, i, f[i - 1])
<1> DEFINE h(i) == IF i = 0 THEN first ELSE place(list, s, i, f[i - 1])
<1>1. f = [i \in 0 .. n |-> h(i)]
  BY DEF Places
<1>2. h(0) = first /\ \A i \in 1 .. n : h(i) = place(list, s, i, f[i - 1]) /\ i \in 0 .. n
  OBVIOUS
<1>3. 0 \in 0 .. n
  OBVIOUS
<1> HIDE DEF h
<1>4. \A i \in 0 .. n : f[i] = h(i)
  BY <1>1
<1>5. QED
  BY <1>2, <1>3, <1>4

\* What holds before the first place, and of a place when of the one before it, holds of all.
LEMMA UpTo ==
  ASSUME NEW n \in Nat, NEW G, 0 \in G, \A k \in 1 .. n : k - 1 \in G => k \in G
  PROVE  n \in G
<1> DEFINE T == {k \in 0 .. n : k \notin G}
<1>1. CASE T = {}
  <2>1. n \notin T /\ n \in 0 .. n
    BY <1>1
  <2>2. QED
    BY <2>1
<1>2. CASE T # {}
  <2>1. T \subseteq Nat /\ \A k \in T : k \in 0 .. n /\ k \notin G
    OBVIOUS
  <2>2. \A k \in 0 .. n : k \notin T => k \in G
    OBVIOUS
  <2> HIDE DEF T
  <2>3. PICK k \in T : \A j \in T : k <= j
    BY <1>2, <2>1, LeastOfNats
  <2>4. k # 0
    BY <2>1, <2>3
  <2>5. k \in 1 .. n /\ k - 1 \in 0 .. n /\ ~(k <= k - 1)
    <3>1. k \in 0 .. n
      BY <2>1, <2>3
    <3>2. QED
      BY <2>4, <3>1
  <2>6. QED
    BY <2>1, <2>2, <2>3, <2>5
<1>3. QED
  BY <1>1, <1>2

LEMMA ScannedByPlace ==
  ASSUME NEW s, NEW bytes, Len(bytes) \in Nat
  PROVE  \E f : Places("scanned", bytes, s, f, Len(bytes)) /\ Scanned(s, bytes) = f[Len(bytes)]
<1> DEFINE entry(f, i) == IF i = 0 THEN s ELSE StepScan(f[i - 1], bytes[i])
           Made(f) == f = [i \in 0 .. Len(bytes) |-> entry(f, i)]
           behind == CHOOSE f : Made(f)
<1>1. Scanned(s, bytes) = behind[Len(bytes)]
  BY Zenon DEF Scanned
<1>2. \A f, i : entry(f, i) = IF i = 0 THEN s ELSE place("scanned", bytes, i, f[i - 1])
  BY DEF place
<1> HIDE DEF entry
<1>3. \A f : Made(f) <=> Places("scanned", bytes, s, f, Len(bytes))
  <2> TAKE f
  <2>1. [i \in 0 .. Len(bytes) |-> entry(f, i)]
          = [i \in 0 .. Len(bytes) |-> IF i = 0 THEN s ELSE place("scanned", bytes, i, f[i - 1])]
    BY <1>2
  <2>2. QED
    BY <2>1 DEF Places
<1> HIDE DEF Made
<1>4. \E f : Made(f)
  BY <1>3, PlaceByPlace
<1>5. Made(behind)
  BY <1>4
<1> HIDE DEF behind
<1>6. QED
  BY <1>1, <1>3, <1>5

Behind(f, s, bytes) == f[0] = s /\ \A i \in 1 .. Len(bytes) : f[i] = StepScan(f[i - 1], bytes[i])

LEMMA ScannedSteps ==
  ASSUME NEW s, NEW bytes, Len(bytes) \in Nat
  PROVE  \E f : Behind(f, s, bytes) /\ Scanned(s, bytes) = f[Len(bytes)]
<1> DEFINE n == Len(bytes)
           list == "scanned"
<1>1. PICK f : Places(list, bytes, s, f, n) /\ Scanned(s, bytes) = f[n]
  BY ScannedByPlace
<1> HIDE DEF n, list
<1>2. n \in Nat
  BY DEF n
<1>3. f[0] = s /\ \A i \in 1 .. n : f[i] = place(list, bytes, i, f[i - 1])
  BY <1>1, <1>2, PlaceSteps
<1>4. \A i : place(list, bytes, i, f[i - 1]) = StepScan(f[i - 1], bytes[i])
  BY DEF place, list
<1>5. QED
  BY <1>1, <1>3, <1>4 DEF n, Behind

\* The scanner behind the first k bytes of a run.
Trace(s, bytes, k) == Scanned(s, SubSeq(bytes, 1, k))

\* Two runs over lists that agree up to a place agree up to there.
Runs(f, list, n)  == \A i \in 1 .. n : f[i] = StepScan(f[i - 1], list[i])
Agree(a, b, n)    == \A i \in 1 .. n : a[i] = b[i]
LEMMA SameRun ==
  ASSUME NEW n \in Nat, NEW f, NEW g, NEW a, NEW b, f[0] = g[0], Runs(f, a, n), Runs(g, b, n), Agree(a, b, n)
  PROVE  f[n] = g[n]
<1> DEFINE G == {k \in Nat : f[k] = g[k]}
<1>1. 0 \in G
  OBVIOUS
<1>2. \A k \in 1 .. n : k - 1 \in G => k \in G
  BY DEF Runs, Agree
<1> HIDE DEF G
<1>3. n \in G
  BY <1>1, <1>2, UpTo
<1>4. QED
  BY <1>3 DEF G

LEMMA TraceIs ==
  ASSUME NEW s, NEW bytes \in Seq(Byte)
  PROVE  \E f : Behind(f, s, bytes) /\ \A k \in 0 .. Len(bytes) : Trace(s, bytes, k) = f[k]
<1> DEFINE n == Len(bytes)
<1>1. n \in Nat /\ Len(bytes) \in Nat
  OBVIOUS
<1>2. PICK f : Behind(f, s, bytes)
  BY <1>1, ScannedSteps
<1>3. ASSUME NEW k \in 0 .. n PROVE Trace(s, bytes, k) = f[k]
  <2> DEFINE b == SubSeq(bytes, 1, k)
  <2>1. Len(b) = k /\ Len(b) \in Nat /\ (\A i \in 1 .. k : b[i] = bytes[i]) /\ k \in Nat /\ k <= n
    BY <1>1, <1>3
  <2>2. Trace(s, bytes, k) = Scanned(s, b)
    BY DEF Trace
  <2> HIDE DEF b
  <2>3. PICK g : Behind(g, s, b) /\ Scanned(s, b) = g[Len(b)]
    BY <2>1, ScannedSteps
  <2>4. f[0] = g[0] /\ Runs(f, bytes, k) /\ Runs(g, b, k) /\ Agree(bytes, b, k)
    BY <1>1, <1>2, <2>1, <2>3 DEF Behind, Runs, Agree
  <2>5. f[k] = g[k]
    BY <2>1, <2>4, SameRun
  <2>6. QED
    BY <2>1, <2>2, <2>3, <2>5
<1>4. QED
  BY <1>2, <1>3

LEMMA TraceSteps ==
  ASSUME NEW s, NEW bytes \in Seq(Byte)
  PROVE  /\ Trace(s, bytes, 0) = s /\ Trace(s, bytes, Len(bytes)) = Scanned(s, bytes)
         /\ \A k \in 1 .. Len(bytes) : Trace(s, bytes, k) = StepScan(Trace(s, bytes, k - 1), bytes[k])
<1> DEFINE n == Len(bytes)
<1>1. n \in Nat
  OBVIOUS
<1>2. PICK f : Behind(f, s, bytes) /\ \A k \in 0 .. n : Trace(s, bytes, k) = f[k]
  BY TraceIs
<1>3. f[0] = s /\ \A i \in 1 .. n : f[i] = StepScan(f[i - 1], bytes[i])
  BY <1>2 DEF Behind
<1>4. SubSeq(bytes, 1, n) = bytes
  BY SubSeqFull
<1>5. Trace(s, bytes, n) = Scanned(s, bytes)
  BY <1>4 DEF Trace
<1> HIDE DEF n
<1>6. \A k \in 1 .. n : k \in 0 .. n /\ k - 1 \in 0 .. n
  BY <1>1
<1>7. \A k \in 1 .. n : Trace(s, bytes, k) = StepScan(Trace(s, bytes, k - 1), bytes[k])
  BY <1>2, <1>3, <1>6
<1>8. Trace(s, bytes, 0) = s
  BY <1>1, <1>2, <1>3
<1>9. QED
  BY <1>5, <1>7, <1>8 DEF n

\* A run of bytes behind another one.
LEMMA TraceBoth ==
  ASSUME NEW s, NEW a \in Seq(Byte), NEW b \in Seq(Byte)
  PROVE  /\ a \o b \in Seq(Byte) /\ Len(a \o b) = Len(a) + Len(b)
         /\ \A k \in 0 .. Len(a) : Trace(s, a \o b, k) = Trace(s, a, k)
         /\ \A k \in 0 .. Len(b) : Trace(s, a \o b, Len(a) + k) = Trace(Scanned(s, a), b, k)
         /\ Scanned(s, a \o b) = Scanned(Scanned(s, a), b)
<1> DEFINE ab == a \o b
           m == Len(a)
           n == Len(b)
<1>1. m \in Nat /\ n \in Nat /\ Len(ab) = m + n /\ Len(ab) \in Nat /\ ab \in Seq(Byte)
  OBVIOUS
<1>2. (\A i \in 1 .. m : ab[i] = a[i]) /\ (\A i \in 1 .. n : ab[m + i] = b[i])
  OBVIOUS
<1> HIDE DEF ab
<1>3. PICK f : Behind(f, s, ab) /\ \A k \in 0 .. Len(ab) : Trace(s, ab, k) = f[k]
  BY <1>1, TraceIs
<1>4. PICK g : Behind(g, s, a) /\ \A k \in 0 .. m : Trace(s, a, k) = g[k]
  BY TraceIs
<1>5. PICK h : Behind(h, Scanned(s, a), b) /\ \A k \in 0 .. n : Trace(Scanned(s, a), b, k) = h[k]
  BY TraceIs
<1>6. /\ f[0] = s /\ \A i \in 1 .. Len(ab) : f[i] = StepScan(f[i - 1], ab[i])
      /\ g[0] = s /\ \A i \in 1 .. m : g[i] = StepScan(g[i - 1], a[i])
      /\ h[0] = Scanned(s, a) /\ \A i \in 1 .. n : h[i] = StepScan(h[i - 1], b[i])
  BY <1>3, <1>4, <1>5 DEF Behind
<1>7. Scanned(s, a) = Trace(s, a, m)
  BY TraceSteps
<1> HIDE DEF m, n
<1>8. h[0] = g[m]
  BY <1>1, <1>4, <1>6, <1>7
<1>9. ASSUME NEW k \in 0 .. m PROVE f[k] = g[k]
  <2>1. k \in Nat /\ k <= m
    BY <1>1, <1>9
  <2>2. Runs(f, ab, k) /\ Runs(g, a, k) /\ Agree(ab, a, k) /\ f[0] = g[0]
    <3>1. \A i \in 1 .. k : i \in 1 .. m /\ i \in 1 .. Len(ab)
      BY <1>1, <2>1
    <3>2. QED
      BY <1>2, <1>6, <3>1 DEF Runs, Agree
  <2>3. k \in Nat
    BY <2>1
  <2>4. QED
    BY Zenon, <2>2, <2>3, SameRun
<1>10. ASSUME NEW k \in 0 .. n PROVE f[m + k] = h[k]
  <2> DEFINE G == {j \in Nat : f[m + j] = h[j]}
  <2>1. 0 \in G
    BY <1>1, <1>8, <1>9
  <2>2. ASSUME NEW j \in 1 .. k, j - 1 \in G PROVE j \in G
    <3>1. /\ j \in 1 .. n /\ m + j \in 1 .. Len(ab) /\ (m + j) - 1 = m + (j - 1) /\ j \in Nat
      BY <1>1, <1>10
    <3>2. f[m + j] = StepScan(f[m + (j - 1)], ab[m + j]) /\ h[j] = StepScan(h[j - 1], b[j]) /\ ab[m + j] = b[j]
      BY <1>2, <1>6, <3>1
    <3>3. f[m + (j - 1)] = h[j - 1]
      BY <2>2
    <3>4. QED
      BY <3>1, <3>2, <3>3
  <2> HIDE DEF G
  <2>3. k \in G
    <3>1. k \in Nat
      BY <1>1
    <3>2. QED
      BY <2>1, <2>2, <3>1, UpTo
  <2>4. QED
    BY <2>3 DEF G
<1>11. \A k \in 0 .. m : Trace(s, ab, k) = Trace(s, a, k)
  <2>1. \A k \in 0 .. m : k \in 0 .. Len(ab)
    BY <1>1
  <2>2. QED
    BY <1>3, <1>4, <1>9, <2>1
<1>12. \A k \in 0 .. n : Trace(s, ab, m + k) = Trace(Scanned(s, a), b, k)
  <2>1. \A k \in 0 .. n : m + k \in 0 .. Len(ab)
    BY <1>1
  <2>2. QED
    BY <1>3, <1>5, <1>10, <2>1
<1>13. Scanned(s, ab) = Scanned(Scanned(s, a), b)
  <2>1. Scanned(s, ab) = Trace(s, ab, Len(ab)) /\ Scanned(Scanned(s, a), b) = Trace(Scanned(s, a), b, n)
    BY <1>1, TraceSteps DEF n
  <2>2. QED
    BY <1>1, <1>12, <2>1
<1>14. QED
  BY <1>1, <1>11, <1>12, <1>13 DEF ab, m, n

\* What holds at the start, and behind a byte when in front of it, holds behind every byte.
LEMMA TraceThrough ==
  ASSUME NEW s, NEW bytes \in Seq(Byte), NEW Y, s \in Y[0],
         \A i \in 1 .. Len(bytes) : \A y \in Y[i - 1] : StepScan(y, bytes[i]) \in Y[i],
         NEW k \in 0 .. Len(bytes)
  PROVE  Trace(s, bytes, k) \in Y[k]
<1> DEFINE G == {j \in Nat : Trace(s, bytes, j) \in Y[j]}
           n == Len(bytes)
<1>1. k \in Nat /\ k <= n /\ n \in Nat
  OBVIOUS
<1>2. /\ Trace(s, bytes, 0) = s
      /\ \A j \in 1 .. n : Trace(s, bytes, j) = StepScan(Trace(s, bytes, j - 1), bytes[j])
  BY TraceSteps
<1> HIDE DEF n
<1>3. 0 \in G
  BY <1>2
<1>4. ASSUME NEW j \in 1 .. k, j - 1 \in G PROVE j \in G
  <2>1. j \in 1 .. n /\ j \in Nat
    BY <1>1
  <2>2. Trace(s, bytes, j - 1) \in Y[j - 1]
    BY <1>4
  <2>3. StepScan(Trace(s, bytes, j - 1), bytes[j]) \in Y[j]
    BY <2>1, <2>2 DEF n
  <2>4. QED
    BY <1>2, <2>1, <2>3
<1> HIDE DEF G
<1>5. k \in G
  BY <1>1, <1>3, <1>4, UpTo
<1>6. QED
  BY <1>5 DEF G

\* Where a reader is in a value, byte by byte.
LEMMA ReadSteps ==
  ASSUME NEW b, Len(b) \in Nat
  PROVE  /\ ReadOf(b)[0] = [in |-> "value", depth |-> 0]
         /\ \A i \in 1 .. Len(b) : ReadOf(b)[i] = Reads(ReadOf(b)[i - 1], b[i])
<1> DEFINE n == Len(b)
           list == "read"
           first == [in |-> "value", depth |-> 0]
           entry(f, i) == IF i = 0 THEN first ELSE Reads(f[i - 1], b[i])
           Made(f) == f = [i \in 0 .. Len(b) |-> entry(f, i)]
           read == CHOOSE f : Made(f)
<1>1. ReadOf(b) = read
  BY Zenon DEF ReadOf
<1>2. \A f, i : entry(f, i) = IF i = 0 THEN first ELSE place(list, b, i, f[i - 1])
  BY DEF place
<1>3. \A i, x : place(list, b, i, x) = Reads(x, b[i])
  BY DEF place
<1> HIDE DEF entry, first, list
<1>4. \A f : Made(f) <=> Places(list, b, first, f, n)
  <2> TAKE f
  <2>1. [i \in 0 .. Len(b) |-> entry(f, i)] = [i \in 0 .. n |-> IF i = 0 THEN first ELSE place(list, b, i, f[i - 1])]
    BY <1>2
  <2>2. QED
    BY <2>1 DEF Places
<1> HIDE DEF Made
<1>5. \E f : Made(f)
  BY <1>4, PlaceByPlace
<1>6. Made(read)
  BY <1>5
<1> HIDE DEF read
<1>7. Places(list, b, first, read, n)
  BY <1>4, <1>6
<1>8. read[0] = first /\ \A i \in 1 .. n : read[i] = place(list, b, i, read[i - 1])
  BY <1>7, PlaceSteps
<1>9. QED
  BY <1>1, <1>3, <1>8 DEF first

HeededAt(hooks, members, f) ==
  /\ f[0] = <<>>
  /\ \A i \in 1 .. Len(members) :
       f[i] = IF Watched(hooks, members[i]) THEN Append(f[i - 1], members[i]) ELSE f[i - 1]

LEMMA HeededSteps ==
  ASSUME NEW hooks, NEW members, Len(members) \in Nat
  PROVE  \E f : HeededAt(hooks, members, f) /\ Heeded(hooks, members) = f[Len(members)]
<1> DEFINE n == Len(members)
           list == "heeded"
           s == [hooks |-> hooks, members |-> members]
           first == <<>>
           entry(f, i) == IF i = 0 THEN <<>>
                          ELSE IF Watched(hooks, members[i]) THEN Append(f[i - 1], members[i]) ELSE f[i - 1]
           Made(f) == f = [i \in 0 .. Len(members) |-> entry(f, i)]
           heeded == CHOOSE f : Made(f)
<1>1. Heeded(hooks, members) = heeded[Len(members)]
  BY Zenon DEF Heeded
<1>2. s.hooks = hooks /\ s.members = members
  OBVIOUS
<1> HIDE DEF s
<1>3. \A i, x : place(list, s, i, x) = IF Watched(hooks, members[i]) THEN Append(x, members[i]) ELSE x
  BY <1>2 DEF place
<1>4. \A f, i : entry(f, i) = IF i = 0 THEN first ELSE place(list, s, i, f[i - 1])
  BY <1>3
<1> HIDE DEF entry, first, list
<1>5. \A f : Made(f) <=> Places(list, s, first, f, n)
  <2> TAKE f
  <2>1. [i \in 0 .. Len(members) |-> entry(f, i)] = [i \in 0 .. n |-> IF i = 0 THEN first ELSE place(list, s, i, f[i - 1])]
    BY <1>4
  <2>2. QED
    BY <2>1 DEF Places
<1> HIDE DEF Made
<1>6. \E f : Made(f)
  BY <1>5, PlaceByPlace
<1>7. Made(heeded)
  BY <1>6
<1> HIDE DEF heeded
<1>8. Places(list, s, first, heeded, n)
  BY <1>5, <1>7
<1>9. heeded[0] = first /\ \A i \in 1 .. n : heeded[i] = place(list, s, i, heeded[i - 1])
  BY <1>8, PlaceSteps
<1>10. HeededAt(hooks, members, heeded)
  BY <1>3, <1>9 DEF first, HeededAt
<1>11. QED
  BY <1>1, <1>10

\* The text some members are written as, member by member.
Opened(t) == [bytes |-> <<"{">> \o t.gap, members |-> <<>>, at |-> <<>>]
WrittenBy(t, f) == f[0] = Opened(t) /\ \A i \in 1 .. Len(t.members) : f[i] = Joined(f[i - 1], t, i)

LEMMA WrittenSteps ==
  ASSUME NEW t, Len(t.members) \in Nat, Len(t.members) # 0
  PROVE  \E f : WrittenBy(t, f) /\ Written(t) = f[Len(t.members)]
<1> DEFINE n == Len(t.members)
           list == "written"
           first == [bytes |-> <<"{">> \o t.gap, members |-> <<>>, at |-> <<>>]
           entry(f, i) == IF i = 0 THEN first ELSE Joined(f[i - 1], t, i)
           Made(f) == f = [i \in 0 .. Len(t.members) |-> entry(f, i)]
           written == CHOOSE f : Made(f)
           none == [bytes |-> <<"{">> \o <<"}">>, members |-> <<>>, at |-> <<>>]
<1>1. Written(t) = IF Len(t.members) = 0 THEN none ELSE written[Len(t.members)]
  BY Zenon DEF Written
<1>2. \A i, x : place(list, t, i, x) = Joined(x, t, i)
  BY DEF place
<1>3. \A f, i : entry(f, i) = IF i = 0 THEN first ELSE place(list, t, i, f[i - 1])
  BY <1>2
<1> HIDE DEF entry, first, list, none
<1>4. \A f : Made(f) <=> Places(list, t, first, f, n)
  <2> TAKE f
  <2>1. [i \in 0 .. Len(t.members) |-> entry(f, i)] = [i \in 0 .. n |-> IF i = 0 THEN first ELSE place(list, t, i, f[i - 1])]
    BY <1>3
  <2>2. QED
    BY <2>1 DEF Places
<1> HIDE DEF Made
<1>5. \E f : Made(f)
  BY <1>4, PlaceByPlace
<1>6. Made(written)
  BY <1>5
<1> HIDE DEF written
<1>7. Places(list, t, first, written, n)
  BY <1>4, <1>6
<1>8. written[0] = first /\ \A i \in 1 .. n : written[i] = place(list, t, i, written[i - 1])
  <2>1. n \in Nat
    OBVIOUS
  <2> HIDE DEF n
  <2>2. \A a, b, c, m, f : m \in Nat /\ Places(a, b, c, f, m) => f[0] = c /\ \A i \in 1 .. m : f[i] = place(a, b, i, f[i - 1])
    BY PlaceSteps
  <2>3. QED
    BY <1>7, <2>1, <2>2
<1>9. first = Opened(t)
  BY DEF first, Opened
<1>10. WrittenBy(t, written)
  BY <1>2, <1>8, <1>9 DEF WrittenBy
<1>11. QED
  BY <1>1, <1>10

LEMMA OneMore ==
  ASSUME NEW S, NEW l \in Seq(S), NEW x \in S
  PROVE  /\ Append(l, x) \in Seq(S) /\ Len(Append(l, x)) = Len(l) + 1 /\ Len(l) \in Nat
         /\ Append(l, x)[Len(l) + 1] = x /\ \A i \in 1 .. Len(l) : Append(l, x)[i] = l[i]
  OBVIOUS

LEMMA FirstMore ==
  ASSUME NEW S, NEW l \in Seq(S), NEW k \in 1 .. Len(l)
  PROVE  /\ SubSeq(l, 1, k) \in Seq(S) /\ SubSeq(l, 1, k - 1) \in Seq(S) /\ l[k] \in S
         /\ SubSeq(l, 1, k) = Append(SubSeq(l, 1, k - 1), l[k])
  OBVIOUS

LEMMA BehindMore ==
  ASSUME NEW S, NEW a \in Seq(S), NEW b \in Seq(S), NEW x \in S
  PROVE  a \o Append(b, x) = Append(a \o b, x) /\ a \o b \in Seq(S)
  OBVIOUS

LEMMA HeededNone == ASSUME NEW hooks PROVE Heeded(hooks, <<>>) = <<>>
<1> DEFINE none == <<>>
<1>1. Len(none) = 0 /\ Len(none) \in Nat /\ none = <<>>
  OBVIOUS
<1> HIDE DEF none
<1>2. PICK f : HeededAt(hooks, none, f) /\ Heeded(hooks, none) = f[Len(none)]
  BY <1>1, HeededSteps
<1>3. QED
  BY <1>1, <1>2 DEF HeededAt

LEMMA HeededMore ==
  ASSUME NEW hooks, NEW S, NEW ms \in Seq(S), NEW m \in S
  PROVE  Heeded(hooks, Append(ms, m)) = IF Watched(hooks, m) THEN Append(Heeded(hooks, ms), m) ELSE Heeded(hooks, ms)
<1> DEFINE more == Append(ms, m)
           n == Len(ms)
<1>1. /\ more \in Seq(S) /\ Len(more) = n + 1 /\ n \in Nat /\ Len(more) \in Nat
      /\ more[n + 1] = m /\ \A i \in 1 .. n : more[i] = ms[i]
  BY OneMore
<1> HIDE DEF more
<1>2. PICK f : HeededAt(hooks, more, f) /\ Heeded(hooks, more) = f[Len(more)]
  BY <1>1, HeededSteps
<1>3. PICK g : HeededAt(hooks, ms, g) /\ Heeded(hooks, ms) = g[Len(ms)]
  BY <1>1, HeededSteps
<1> HIDE DEF n
<1>4. /\ f[0] = <<>> /\ g[0] = <<>>
      /\ \A i \in 1 .. n + 1 : f[i] = IF Watched(hooks, more[i]) THEN Append(f[i - 1], more[i]) ELSE f[i - 1]
      /\ \A i \in 1 .. n : g[i] = IF Watched(hooks, ms[i]) THEN Append(g[i - 1], ms[i]) ELSE g[i - 1]
  BY <1>1, <1>2, <1>3 DEF HeededAt, n
<1> DEFINE G == {k \in Nat : f[k] = g[k]}
<1>5. 0 \in G
  BY <1>4
<1>6. ASSUME NEW k \in 1 .. n, k - 1 \in G PROVE k \in G
  <2>1. k \in 1 .. n + 1 /\ k \in Nat /\ more[k] = ms[k] /\ f[k - 1] = g[k - 1]
    BY <1>1, <1>6
  <2>2. QED
    BY <1>4, <2>1
<1> HIDE DEF G
<1>7. n \in G
  BY <1>1, <1>5, <1>6, UpTo
<1>8. f[n] = g[n]
  BY <1>7 DEF G
<1>9. f[n + 1] = IF Watched(hooks, m) THEN Append(f[n], m) ELSE f[n]
  <2>1. n + 1 \in 1 .. n + 1 /\ (n + 1) - 1 = n
    BY <1>1
  <2>2. f[n + 1] = IF Watched(hooks, more[n + 1]) THEN Append(f[(n + 1) - 1], more[n + 1]) ELSE f[(n + 1) - 1]
    BY <1>4, <2>1
  <2>3. QED
    BY <1>1, <2>1, <2>2
<1>10. Heeded(hooks, more) = f[n + 1] /\ Heeded(hooks, ms) = g[n]
  BY <1>1, <1>2, <1>3 DEF n
<1>11. QED
  BY <1>8, <1>9, <1>10 DEF more

\* What a hook heeds of some members and then some more.
LEMMA HeededBoth ==
  ASSUME NEW hooks, NEW S, NEW a \in Seq(S), NEW b \in Seq(S)
  PROVE  /\ Heeded(hooks, a) \in Seq(S) /\ Heeded(hooks, b) \in Seq(S)
         /\ Heeded(hooks, a \o b) = Heeded(hooks, a) \o Heeded(hooks, b)
<1>1. ASSUME NEW l \in Seq(S) PROVE Heeded(hooks, l) \in Seq(S)
  <2> DEFINE n == Len(l)
             G == {k \in Nat : k <= n => Heeded(hooks, SubSeq(l, 1, k)) \in Seq(S)}
  <2>1. n \in Nat
    OBVIOUS
  <2> HIDE DEF n
  <2>2. 0 \in G
    <3>1. SubSeq(l, 1, 0) = <<>>
      OBVIOUS
    <3>2. <<>> \in Seq(S)
      OBVIOUS
    <3>3. QED
      BY <3>1, <3>2, HeededNone
  <2>3. ASSUME NEW k \in 1 .. n, k - 1 \in G PROVE k \in G
    <3> DEFINE p == SubSeq(l, 1, k - 1)
    <3>1. k \in 1 .. Len(l) /\ k \in Nat /\ k - 1 <= n /\ k <= n
      BY <2>1 DEF n
    <3>2. p \in Seq(S) /\ l[k] \in S /\ SubSeq(l, 1, k) = Append(p, l[k])
      BY <3>1, FirstMore
    <3>3. Heeded(hooks, p) \in Seq(S)
      BY <2>3, <3>1
    <3> HIDE DEF p
    <3>4. Heeded(hooks, Append(p, l[k])) = IF Watched(hooks, l[k]) THEN Append(Heeded(hooks, p), l[k]) ELSE Heeded(hooks, p)
      BY <3>2, HeededMore
    <3>5. Append(Heeded(hooks, p), l[k]) \in Seq(S)
      BY <3>2, <3>3, OneMore
    <3>6. Heeded(hooks, SubSeq(l, 1, k)) \in Seq(S)
      BY <3>2, <3>3, <3>4, <3>5
    <3>7. QED
      BY <3>1, <3>6
  <2> HIDE DEF G
  <2>4. n \in G
    BY <2>1, <2>2, <2>3, UpTo
  <2>5. Heeded(hooks, SubSeq(l, 1, n)) \in Seq(S)
    BY <2>1, <2>4 DEF G
  <2>6. SubSeq(l, 1, n) = l
    BY SubSeqFull DEF n
  <2>7. QED
    BY <2>5, <2>6
<1> DEFINE n == Len(b)
           G == {k \in Nat : k <= n => Heeded(hooks, a \o SubSeq(b, 1, k)) = Heeded(hooks, a) \o Heeded(hooks, SubSeq(b, 1, k))}
<1>2. n \in Nat
  OBVIOUS
<1> HIDE DEF n
<1>3. 0 \in G
  <2>1. SubSeq(b, 1, 0) = <<>> /\ a \o <<>> = a
    OBVIOUS
  <2>2. Heeded(hooks, a) \in Seq(S)
    BY <1>1
  <2>3. Heeded(hooks, a) \o <<>> = Heeded(hooks, a)
    BY <2>2, ConcatEmptySeq
  <2>4. QED
    BY <2>1, <2>3, HeededNone
<1>4. ASSUME NEW k \in 1 .. n, k - 1 \in G PROVE k \in G
  <2> DEFINE p == SubSeq(b, 1, k - 1)
             ap == a \o p
             x == b[k]
  <2>1. k \in 1 .. Len(b) /\ k \in Nat /\ k - 1 <= n /\ k <= n
    BY <1>2 DEF n
  <2>2. p \in Seq(S) /\ x \in S /\ SubSeq(b, 1, k) = Append(p, x)
    BY <2>1, FirstMore
  <2>3. Heeded(hooks, ap) = Heeded(hooks, a) \o Heeded(hooks, p)
    BY <1>4, <2>1
  <2> HIDE DEF p, x
  <2>4. a \o Append(p, x) = Append(ap, x) /\ ap \in Seq(S)
    BY <2>2, BehindMore
  <2> HIDE DEF ap
  <2>5. /\ Heeded(hooks, Append(ap, x)) = IF Watched(hooks, x) THEN Append(Heeded(hooks, ap), x) ELSE Heeded(hooks, ap)
        /\ Heeded(hooks, Append(p, x)) = IF Watched(hooks, x) THEN Append(Heeded(hooks, p), x) ELSE Heeded(hooks, p)
    BY <2>2, <2>4, HeededMore
  <2> DEFINE ha == Heeded(hooks, a)
             hp == Heeded(hooks, p)
  <2>6. ha \in Seq(S) /\ hp \in Seq(S)
    BY <1>1, <2>2
  <2> HIDE DEF ha, hp
  <2>7. ha \o Append(hp, x) = Append(ha \o hp, x)
    BY <2>2, <2>6, BehindMore
  <2>8. Heeded(hooks, Append(ap, x)) = ha \o Heeded(hooks, Append(p, x))
    BY <2>3, <2>5, <2>7 DEF ha, hp
  <2>9. Heeded(hooks, a \o SubSeq(b, 1, k)) = Heeded(hooks, a) \o Heeded(hooks, SubSeq(b, 1, k))
    BY <2>2, <2>4, <2>8 DEF ha
  <2>10. QED
    BY <2>1, <2>9
<1> HIDE DEF G
<1>5. n \in G
  BY <1>2, <1>3, <1>4, UpTo
<1>6. Heeded(hooks, a \o SubSeq(b, 1, n)) = Heeded(hooks, a) \o Heeded(hooks, SubSeq(b, 1, n))
  BY <1>2, <1>5 DEF G
<1>7. SubSeq(b, 1, n) = b
  BY SubSeqFull DEF n
<1>8. QED
  BY <1>1, <1>6, <1>7

LEMMA NothingHeeded ==
  ASSUME NEW S, NEW ms \in Seq(S)
  PROVE  Heeded({}, ms) = <<>>
<1> DEFINE n == Len(ms)
<1>1. n \in Nat /\ Len(ms) \in Nat
  OBVIOUS
<1>2. PICK f : HeededAt({}, ms, f) /\ Heeded({}, ms) = f[n]
  BY <1>1, HeededSteps
<1>3. f[0] = <<>> /\ \A i \in 1 .. n : f[i] = f[i - 1]
  BY <1>2 DEF HeededAt, Watched
<1> HIDE DEF n
<1> DEFINE G == {k \in Nat : f[k] = <<>>}
<1>4. 0 \in G /\ \A k \in 1 .. n : k - 1 \in G => k \in G
  BY <1>3
<1> HIDE DEF G
<1>5. n \in G
  BY <1>1, <1>4, UpTo
<1>6. QED
  BY <1>2, <1>5 DEF G

(* A reader of a value, and the scanner, one byte on. **********************)
\* The other bytes of a text, by name.
Brace     == "{"
EndBrace  == "}"
Comma     == ","
Colon     == ":"
Junk      == "x"
Delimiter == {Comma, EndBrace, Space}

Rd(in, depth) == [in |-> in, depth |-> depth]

LEMMA ReadsIs ==
  ASSUME NEW d \in Int, NEW c
  PROVE  /\ Reads(Rd("escape", d), c) = Rd("string", d)
         /\ Reads(Rd("string", d), c) = Rd(IF c = Escape THEN "escape" ELSE IF c = Quote THEN "value" ELSE "string", d)
         /\ c = Quote => Reads(Rd("value", d), c) = Rd("string", d)
         /\ c \in Opens => Reads(Rd("value", d), c) = Rd("value", d + 1)
         /\ c \in Shuts => Reads(Rd("value", d), c) = Rd("value", d - 1)
         /\ c \notin Opens \cup Shuts \cup {Quote} => Reads(Rd("value", d), c) = Rd("value", d)
<1>1. \A x : Rd(x, d).in = x /\ Rd(x, d).depth = d /\ \A y : [Rd(x, d) EXCEPT !.in = y] = Rd(y, d)
  BY DEF Rd
<1>2. \A l : l.in = "value" => Reads(l, c) =
         Rd(IF c = Quote THEN "string" ELSE "value",
            l.depth + (IF c \in Opens THEN 1 ELSE 0) - (IF c \in Shuts THEN 1 ELSE 0))
  BY DEF Reads, Rd
<1>3. \A l : l.in = "escape" => Reads(l, c) = [l EXCEPT !.in = "string"]
  BY DEF Reads
<1>4. \A l : l.in = "string" => Reads(l, c) = [l EXCEPT !.in = IF c = Escape THEN "escape" ELSE IF c = Quote THEN "value" ELSE "string"]
  BY DEF Reads
<1>5. (c = Quote => c \notin Opens \cup Shuts) /\ (c \in Opens => c \notin Shuts \cup {Quote}) /\ (c \in Shuts => c \notin Opens \cup {Quote})
  BY DEF Quote, Opens, Shuts
<1>6. Reads(Rd("escape", d), c) = Rd("string", d)
  BY <1>1, <1>3
<1>7. Reads(Rd("string", d), c) = Rd(IF c = Escape THEN "escape" ELSE IF c = Quote THEN "value" ELSE "string", d)
  BY <1>1, <1>4
<1>8. Reads(Rd("value", d), c) = Rd(IF c = Quote THEN "string" ELSE "value",
            d + (IF c \in Opens THEN 1 ELSE 0) - (IF c \in Shuts THEN 1 ELSE 0))
  BY <1>1, <1>2
<1>9. d + 0 - 0 = d /\ d + 1 - 0 = d + 1 /\ d + 0 - 1 = d - 1
  OBVIOUS
<1>10. QED
  BY <1>5, <1>6, <1>7, <1>8, <1>9

Sc(state, key, value, esc, inStr, depth, out) ==
  [state |-> state, key |-> key, value |-> value, esc |-> esc, inStr |-> inStr, depth |-> depth, out |-> out]

\* The two values of a flag, as things a field holds.
Yes == TRUE
No  == FALSE
LEMMA YesNo == Yes /\ ~No
  BY DEF Yes, No

\* What a scanner is, and with a field changed.
LEMMA ScIs ==
  ASSUME NEW w, NEW k, NEW v, NEW e, NEW i, NEW d, NEW o
  PROVE  LET s == Sc(w, k, v, e, i, d, o)
         IN  s.state = w /\ s.key = k /\ s.value = v /\ s.esc = e /\ s.inStr = i /\ s.depth = d /\ s.out = o
  BY DEF Sc

LEMMA ScState ==
  ASSUME NEW w, NEW k, NEW v, NEW e, NEW i, NEW d, NEW o, NEW x
  PROVE  [Sc(w, k, v, e, i, d, o) EXCEPT !.state = x] = Sc(x, k, v, e, i, d, o)
  BY DEF Sc
LEMMA ScKey ==
  ASSUME NEW w, NEW k, NEW v, NEW e, NEW i, NEW d, NEW o, NEW x
  PROVE  [Sc(w, k, v, e, i, d, o) EXCEPT !.key = x] = Sc(w, x, v, e, i, d, o)
  BY DEF Sc
LEMMA ScValue ==
  ASSUME NEW w, NEW k, NEW v, NEW e, NEW i, NEW d, NEW o, NEW x
  PROVE  [Sc(w, k, v, e, i, d, o) EXCEPT !.value = x] = Sc(w, k, x, e, i, d, o)
  BY DEF Sc
LEMMA ScEsc ==
  ASSUME NEW w, NEW k, NEW v, NEW e, NEW i, NEW d, NEW o, NEW x
  PROVE  [Sc(w, k, v, e, i, d, o) EXCEPT !.esc = x] = Sc(w, k, v, x, i, d, o)
  BY DEF Sc
LEMMA ScInStr ==
  ASSUME NEW w, NEW k, NEW v, NEW e, NEW i, NEW d, NEW o, NEW x
  PROVE  [Sc(w, k, v, e, i, d, o) EXCEPT !.inStr = x] = Sc(w, k, v, e, x, d, o)
  BY DEF Sc
LEMMA ScDepth ==
  ASSUME NEW w, NEW k, NEW v, NEW e, NEW i, NEW d, NEW o, NEW x
  PROVE  [Sc(w, k, v, e, i, d, o) EXCEPT !.depth = x] = Sc(w, k, v, e, i, x, o)
  BY DEF Sc
LEMMA ScOut ==
  ASSUME NEW w, NEW k, NEW v, NEW e, NEW i, NEW d, NEW o, NEW x
  PROVE  [Sc(w, k, v, e, i, d, o) EXCEPT !.out = x] = Sc(w, k, v, e, i, d, x)
  BY DEF Sc

LEMMA Twice ==
  ASSUME NEW s, NEW x, NEW y, NEW z
  PROVE  /\ [s EXCEPT !.state = z, !.key = x, !.esc = y] = [[[s EXCEPT !.state = z] EXCEPT !.key = x] EXCEPT !.esc = y]
         /\ [s EXCEPT !.key = x, !.esc = y] = [[s EXCEPT !.key = x] EXCEPT !.esc = y]
         /\ [s EXCEPT !.value = x, !.esc = y] = [[s EXCEPT !.value = x] EXCEPT !.esc = y]
         /\ [s EXCEPT !.state = x, !.out = y] = [[s EXCEPT !.state = x] EXCEPT !.out = y]
  OBVIOUS

LEMMA FreshIs ==
  ASSUME NEW s, NEW x, NEW y, NEW z, NEW d
  PROVE  [s EXCEPT !.value = x, !.esc = y, !.inStr = z, !.depth = d]
           = [[[[s EXCEPT !.value = x] EXCEPT !.esc = y] EXCEPT !.inStr = z] EXCEPT !.depth = d]
  OBVIOUS

LEMMA CompleteIs ==
  ASSUME NEW w, NEW k, NEW v, NEW e, NEW i, NEW d, NEW o
  PROVE  Complete(Sc(w, k, v, e, i, d, o)) =
           IF Decodes(k) THEN Sc("afterValue", k, v, e, i, d, Append(o, [key |-> Decoded(k), value |-> v]))
           ELSE Sc("dead", k, v, e, i, d, o)
<1> DEFINE s == Sc(w, k, v, e, i, d, o)
           m == Append(o, [key |-> Decoded(k), value |-> v])
           a == Sc("afterValue", k, v, e, i, d, o)
<1>1. s.key = k /\ s.value = v /\ s.out = o
  BY ScIs
<1>2. Goes(s, "dead") = Sc("dead", k, v, e, i, d, o) /\ [s EXCEPT !.state = "afterValue"] = a
  BY ScState DEF Goes
<1>3. \A x : [a EXCEPT !.out = x] = Sc("afterValue", k, v, e, i, d, x)
  BY ScOut
<1> HIDE DEF m
<1>4. [a EXCEPT !.out = m] = Sc("afterValue", k, v, e, i, d, m)
  BY Zenon, <1>3
<1> HIDE DEF s, a
<1>5. Complete(s) = IF Decodes(k) THEN [s EXCEPT !.state = "afterValue", !.out = m] ELSE Goes(s, "dead")
  BY <1>1 DEF Complete, m
<1>6. [s EXCEPT !.state = "afterValue", !.out = m] = [a EXCEPT !.out = m]
  BY <1>2, Twice
<1>7. QED
  BY Zenon, <1>2, <1>4, <1>5, <1>6 DEF s, m

LEMMA AddsIs ==
  ASSUME NEW w, NEW k, NEW v, NEW e, NEW i, NEW d, NEW o, NEW c
  PROVE  /\ Adds(Sc(w, k, v, e, i, d, o), c) = Sc(w, k, Append(v, c), No, i, d, o)
         /\ Escapes(Sc(w, k, v, e, i, d, o), c) = Sc(w, k, Append(v, c), Yes, i, d, o)
<1> DEFINE s == Sc(w, k, v, e, i, d, o)
           x == Append(v, c)
<1>1. s.value = v
  BY ScIs
<1> HIDE DEF x
<1>2. [s EXCEPT !.value = x] = Sc(w, k, x, e, i, d, o)
  BY ScValue
<1>3. \A f, g : [Sc(w, k, x, f, i, d, o) EXCEPT !.esc = g] = Sc(w, k, x, g, i, d, o)
  BY ScEsc
<1> HIDE DEF s
<1>4. Adds(s, c) = [s EXCEPT !.value = x, !.esc = No]
  BY <1>1 DEF Adds, No, x
<1>5. Adds(s, c) = Sc(w, k, x, No, i, d, o)
  BY <1>2, <1>3, <1>4, Twice
<1>6. Escapes(s, c) = [Adds(s, c) EXCEPT !.esc = Yes]
  BY DEF Escapes, Yes
<1>7. Escapes(s, c) = Sc(w, k, x, Yes, i, d, o)
  BY <1>3, <1>5, <1>6
<1>8. QED
  BY <1>5, <1>7 DEF s, x

LEMMA AfterValueIs ==
  ASSUME NEW w, NEW k, NEW v, NEW e, NEW i, NEW d, NEW o, NEW c
  PROVE  AfterValue(Sc(w, k, v, e, i, d, o), c) =
           IF w = "dead" \/ c = Space THEN Sc(w, k, v, e, i, d, o)
           ELSE IF c = Comma THEN Sc("keyOrEnd", k, v, e, i, d, o)
           ELSE IF c = EndBrace THEN Sc("done", k, v, e, i, d, o)
           ELSE Sc("dead", k, v, e, i, d, o)
<1> DEFINE s == Sc(w, k, v, e, i, d, o)
           x == Sc("keyOrEnd", k, v, e, i, d, o)
           y == Sc("done", k, v, e, i, d, o)
           z == Sc("dead", k, v, e, i, d, o)
<1>1. s.state = w
  BY ScIs
<1>2. Goes(s, "keyOrEnd") = x /\ Goes(s, "done") = y /\ Goes(s, "dead") = z
  BY ScState DEF Goes
<1> HIDE DEF s, x, y, z
<1>3. AfterValue(s, c) = IF w = "dead" \/ c = Space THEN s
                         ELSE Goes(s, CASE c = Comma -> "keyOrEnd" [] c = EndBrace -> "done" [] OTHER -> "dead")
  BY Zenon, <1>1 DEF AfterValue, Comma, EndBrace
<1>4. (CASE c = Comma -> "keyOrEnd" [] c = EndBrace -> "done" [] OTHER -> "dead")
        = IF c = Comma THEN "keyOrEnd" ELSE IF c = EndBrace THEN "done" ELSE "dead"
  BY Zenon DEF Comma, EndBrace
<1>5. AfterValue(s, c) = IF w = "dead" \/ c = Space THEN s ELSE IF c = Comma THEN x ELSE IF c = EndBrace THEN y ELSE z
  BY <1>2, <1>3, <1>4
<1>6. QED
  BY <1>5 DEF s, x, y, z

LEMMA StartIs ==
  ASSUME NEW k, NEW v, NEW e, NEW i, NEW d, NEW o
  PROVE  StepScan(Sc("start", k, v, e, i, d, o), Brace) = Sc("keyOrEnd", k, v, e, i, d, o)
  BY DEF StepScan, Goes, Sc, Space, Brace

LEMMA KeyOrEndIs ==
  ASSUME NEW k, NEW v, NEW e, NEW i, NEW d, NEW o
  PROVE  /\ StepScan(Sc("keyOrEnd", k, v, e, i, d, o), Space) = Sc("keyOrEnd", k, v, e, i, d, o)
         /\ StepScan(Sc("keyOrEnd", k, v, e, i, d, o), Quote) = Sc("key", <<>>, v, No, i, d, o)
         /\ StepScan(Sc("keyOrEnd", k, v, e, i, d, o), EndBrace) = Sc("done", k, v, e, i, d, o)
  BY DEF StepScan, Goes, Sc, Space, Quote, No, EndBrace

LEMMA KeyIs ==
  ASSUME NEW k, NEW v, NEW i, NEW d, NEW o, NEW c
  PROVE  /\ StepScan(Sc("key", k, v, Yes, i, d, o), c) = Sc("key", Append(k, c), v, No, i, d, o)
         /\ c = Escape => StepScan(Sc("key", k, v, No, i, d, o), c) = Sc("key", Append(k, c), v, Yes, i, d, o)
         /\ c = Quote => StepScan(Sc("key", k, v, No, i, d, o), c) = Sc("colon", k, v, No, i, d, o)
         /\ c \notin {Quote, Escape} => StepScan(Sc("key", k, v, No, i, d, o), c) = Sc("key", Append(k, c), v, No, i, d, o)
<1>1. ASSUME NEW e PROVE
        LET s == Sc("key", k, v, e, i, d, o)
            a == Sc("key", Append(k, c), v, e, i, d, o)
        IN  /\ StepScan(s, c) = InKey(s, c) /\ s.esc = e /\ [s EXCEPT !.key = Append(@, c)] = a
            /\ Goes(s, "colon") = Sc("colon", k, v, e, i, d, o)
            /\ \A y : [a EXCEPT !.esc = y] = Sc("key", Append(k, c), v, y, i, d, o)
  <2> DEFINE s == Sc("key", k, v, e, i, d, o)
             x == Append(k, c)
  <2>1. StepScan(s, c) = InKey(s, c)
    BY DEF StepScan, Sc
  <2>2. s.esc = e /\ s.key = k
    BY ScIs
  <2> HIDE DEF x
  <2>3. [s EXCEPT !.key = x] = Sc("key", x, v, e, i, d, o) /\ Goes(s, "colon") = Sc("colon", k, v, e, i, d, o)
        /\ \A y : [Sc("key", x, v, e, i, d, o) EXCEPT !.esc = y] = Sc("key", x, v, y, i, d, o)
    BY ScKey, ScState, ScEsc DEF Goes
  <2> HIDE DEF s
  <2>4. [s EXCEPT !.key = Append(@, c)] = [s EXCEPT !.key = x]
    BY <2>2 DEF x
  <2>5. QED
    BY Zenon, <2>1, <2>2, <2>3, <2>4 DEF s, x
<1> DEFINE s(e) == Sc("key", k, v, e, i, d, o)
           a(e) == Sc("key", Append(k, c), v, e, i, d, o)
           z(e) == Sc("colon", k, v, e, i, d, o)
<1>2. ASSUME NEW e PROVE StepScan(s(e), c) = IF e THEN a(FALSE) ELSE CASE c = Escape -> a(TRUE) [] c = Quote -> z(e) [] OTHER -> a(e)
  <2>1. /\ StepScan(s(e), c) = InKey(s(e), c) /\ s(e).esc = e /\ [s(e) EXCEPT !.key = Append(@, c)] = a(e)
        /\ Goes(s(e), "colon") = z(e) /\ \A y : [a(e) EXCEPT !.esc = y] = a(y)
    BY Zenon, <1>1
  <2> HIDE DEF s, a, z
  <2>2. QED
    BY Zenon, <2>1 DEF InKey
<1> HIDE DEF s, a, z
<1>3. StepScan(s(Yes), c) = a(No)
  BY Zenon, <1>2, YesNo DEF No
<1>4. StepScan(s(No), c) = CASE c = Escape -> a(Yes) [] c = Quote -> z(No) [] OTHER -> a(No)
  BY Zenon, <1>2, YesNo DEF Yes
<1>5. /\ c = Escape => StepScan(s(No), c) = a(Yes)
      /\ c = Quote => StepScan(s(No), c) = z(No)
      /\ c \notin {Quote, Escape} => StepScan(s(No), c) = a(No)
  <2> DEFINE x == a(Yes)
             y == z(No)
             w == a(No)
  <2> HIDE DEF x, y, w
  <2>1. StepScan(s(No), c) = CASE c = Escape -> x [] c = Quote -> y [] OTHER -> w
    BY Zenon, <1>4 DEF x, y, w
  <2>2. QED
    BY <2>1 DEF Quote, Escape, x, y, w
<1>6. QED
  BY Zenon, <1>3, <1>5 DEF s, a, z

LEMMA ColonIs ==
  ASSUME NEW k, NEW v, NEW e, NEW i, NEW d, NEW o
  PROVE  /\ StepScan(Sc("colon", k, v, e, i, d, o), Space) = Sc("colon", k, v, e, i, d, o)
         /\ StepScan(Sc("colon", k, v, e, i, d, o), Colon) = Sc("valueStart", k, v, e, i, d, o)
         /\ StepScan(Sc("valueStart", k, v, e, i, d, o), Space) = Sc("valueStart", k, v, e, i, d, o)
<1> DEFINE s == Sc("colon", k, v, e, i, d, o)
           w == Sc("valueStart", k, v, e, i, d, o)
<1>1. s.state = "colon" /\ w.state = "valueStart" /\ Goes(s, "valueStart") = w
  BY ScIs, ScState DEF Goes
<1> HIDE DEF s, w
<1>2. StepScan(s, Space) = s /\ StepScan(s, Colon) = Goes(s, "valueStart")
  BY <1>1 DEF StepScan, Space, Colon
<1>3. StepScan(w, Space) = ValueStart(w, Space)
  BY <1>1 DEF StepScan, Space
<1>4. ValueStart(w, Space) = w
  BY DEF ValueStart, Space, Quote, Opens
<1>5. QED
  BY Zenon, <1>1, <1>2, <1>3, <1>4 DEF s, w

LEMMA ValueStartIs ==
  ASSUME NEW k, NEW v, NEW e, NEW i, NEW d, NEW o, NEW c, c # Space,
         NEW l, l = <<c>>
  PROVE  /\ c = Quote => StepScan(Sc("valueStart", k, v, e, i, d, o), c) = Sc("valString", k, l, No, No, 1, o)
         /\ c \in Opens => StepScan(Sc("valueStart", k, v, e, i, d, o), c) = Sc("valNested", k, l, No, No, 1, o)
         /\ c \notin Opens \cup {Quote} => StepScan(Sc("valueStart", k, v, e, i, d, o), c) = Sc("valScalar", k, l, No, No, 1, o)
<1> DEFINE s == Sc("valueStart", k, v, e, i, d, o)
           fresh == [s EXCEPT !.value = l, !.esc = No, !.inStr = No, !.depth = 1]
           a == Sc("valueStart", k, l, No, No, 1, o)
<1>1. StepScan(s, c) = ValueStart(s, c)
  BY DEF StepScan, Sc
<1>2. fresh = [[[[s EXCEPT !.value = l] EXCEPT !.esc = No] EXCEPT !.inStr = No] EXCEPT !.depth = 1]
  <2> HIDE DEF s
  <2>1. QED
    BY FreshIs
<1>3. [s EXCEPT !.value = l] = Sc("valueStart", k, l, e, i, d, o)
  BY ScValue
<1>4. [Sc("valueStart", k, l, e, i, d, o) EXCEPT !.esc = No] = Sc("valueStart", k, l, No, i, d, o)
  BY ScEsc
<1>5. [Sc("valueStart", k, l, No, i, d, o) EXCEPT !.inStr = No] = Sc("valueStart", k, l, No, No, d, o)
  BY ScInStr
<1>6. [Sc("valueStart", k, l, No, No, d, o) EXCEPT !.depth = 1] = a
  BY ScDepth
<1>7. fresh = a
  <2>1. [[s EXCEPT !.value = l] EXCEPT !.esc = No] = Sc("valueStart", k, l, No, i, d, o)
    BY Zenon, <1>3, <1>4
  <2>2. [[[s EXCEPT !.value = l] EXCEPT !.esc = No] EXCEPT !.inStr = No] = Sc("valueStart", k, l, No, No, d, o)
    BY Zenon, <1>5, <2>1
  <2>3. QED
    BY Zenon, <1>2, <1>6, <2>2
<1>8. \A x : Goes(a, x) = Sc(x, k, l, No, No, 1, o)
  BY ScState DEF Goes
<1> DEFINE x == Goes(fresh, "valString")
           y == Goes(fresh, "valNested")
           z == Goes(fresh, "valScalar")
<1>9. ValueStart(s, c) = CASE c = Space -> s [] c = Quote -> x [] c \in Opens -> y [] OTHER -> z
  BY Zenon DEF ValueStart, No
<1>10. x = Sc("valString", k, l, No, No, 1, o) /\ y = Sc("valNested", k, l, No, No, 1, o) /\ z = Sc("valScalar", k, l, No, No, 1, o)
  BY Zenon, <1>7, <1>8
<1> HIDE DEF s, fresh, x, y, z
<1>11. (c = Quote => ValueStart(s, c) = x) /\ (c \in Opens => ValueStart(s, c) = y) /\ (c \notin Opens \cup {Quote} => ValueStart(s, c) = z)
  BY <1>9 DEF Opens, Quote, Space
<1>12. QED
  BY Zenon, <1>1, <1>10, <1>11 DEF s

LEMMA StringIs ==
  ASSUME NEW k, NEW v, NEW i, NEW d, NEW o, NEW c
  PROVE  /\ StepScan(Sc("valString", k, v, Yes, i, d, o), c) = Sc("valString", k, Append(v, c), No, i, d, o)
         /\ c = Escape => StepScan(Sc("valString", k, v, No, i, d, o), c) = Sc("valString", k, Append(v, c), Yes, i, d, o)
         /\ c = Quote => StepScan(Sc("valString", k, v, No, i, d, o), c) = Complete(Sc("valString", k, Append(v, c), No, i, d, o))
         /\ c \notin {Quote, Escape} => StepScan(Sc("valString", k, v, No, i, d, o), c) = Sc("valString", k, Append(v, c), No, i, d, o)
<1> DEFINE s(e) == Sc("valString", k, v, e, i, d, o)
           a == Sc("valString", k, Append(v, c), No, i, d, o)
           b == Sc("valString", k, Append(v, c), Yes, i, d, o)
<1>1. \A e : StepScan(s(e), c) = InString(s(e), c)
  BY DEF StepScan, Sc
<1>2. \A e : s(e).esc = e
  BY ScIs
<1>3. \A e : Adds(s(e), c) = a /\ Escapes(s(e), c) = b
  BY AddsIs
<1> HIDE DEF s, a, b
<1>4. InString(s(Yes), c) = a
  BY Zenon, <1>2, <1>3, YesNo DEF InString
<1>5. InString(s(No), c) = CASE c = Escape -> b [] c = Quote -> Complete(a) [] OTHER -> a
  <2> DEFINE n == s(No)
  <2>1. InString(n, c) = IF n.esc THEN Adds(n, c)
                         ELSE CASE c = Escape -> Escapes(n, c) [] c = Quote -> Complete(Adds(n, c)) [] OTHER -> Adds(n, c)
    BY Zenon DEF InString
  <2>2. n.esc = No /\ Adds(n, c) = a /\ Escapes(n, c) = b
    BY Zenon, <1>2, <1>3
  <2> HIDE DEF n
  <2>3. InString(n, c) = CASE c = Escape -> b [] c = Quote -> Complete(a) [] OTHER -> a
    BY Zenon, <2>1, <2>2, YesNo
  <2>4. QED
    BY Zenon, <2>3 DEF n
<1>6. /\ StepScan(s(Yes), c) = a
      /\ (c = Escape => StepScan(s(No), c) = b) /\ (c = Quote => StepScan(s(No), c) = Complete(a))
      /\ (c \notin {Quote, Escape} => StepScan(s(No), c) = a)
  BY <1>1, <1>4, <1>5 DEF Quote, Escape
<1>7. QED
  BY Zenon, <1>6 DEF s, a, b

LEMMA NestedIs ==
  ASSUME NEW k, NEW v, NEW d \in Int, NEW o, NEW c
  PROVE  /\ \A i : StepScan(Sc("valNested", k, v, Yes, i, d, o), c) = Sc("valNested", k, Append(v, c), No, i, d, o)
         /\ c = Escape => StepScan(Sc("valNested", k, v, No, Yes, d, o), c) = Sc("valNested", k, Append(v, c), Yes, Yes, d, o)
         /\ c = Quote => StepScan(Sc("valNested", k, v, No, Yes, d, o), c) = Sc("valNested", k, Append(v, c), No, No, d, o)
         /\ c \notin {Quote, Escape} => StepScan(Sc("valNested", k, v, No, Yes, d, o), c) = Sc("valNested", k, Append(v, c), No, Yes, d, o)
         /\ c = Quote => StepScan(Sc("valNested", k, v, No, No, d, o), c) = Sc("valNested", k, Append(v, c), No, Yes, d, o)
         /\ c \in Opens => StepScan(Sc("valNested", k, v, No, No, d, o), c) = Sc("valNested", k, Append(v, c), No, No, d + 1, o)
         /\ c \in Shuts /\ d = 1 => StepScan(Sc("valNested", k, v, No, No, d, o), c) = Complete(Sc("valNested", k, Append(v, c), No, No, 0, o))
         /\ c \in Shuts /\ d # 1 => StepScan(Sc("valNested", k, v, No, No, d, o), c) = Sc("valNested", k, Append(v, c), No, No, d - 1, o)
         /\ c \notin Opens \cup Shuts \cup {Quote} => StepScan(Sc("valNested", k, v, No, No, d, o), c) = Sc("valNested", k, Append(v, c), No, No, d, o)
<1> DEFINE s(e, i) == Sc("valNested", k, v, e, i, d, o)
           a(e, i, n) == Sc("valNested", k, Append(v, c), e, i, n, o)
<1>1. \A e, i : StepScan(s(e, i), c) = InNested(s(e, i), c)
  BY DEF StepScan, Sc
<1>2. \A e, i : s(e, i).esc = e /\ s(e, i).inStr = i /\ s(e, i).depth = d
  BY ScIs
<1>3. \A e, i : Adds(s(e, i), c) = a(No, i, d) /\ Escapes(s(e, i), c) = a(Yes, i, d)
  BY AddsIs
<1>4. \A e, i, x : [a(e, i, d) EXCEPT !.inStr = x] = a(e, x, d) /\ [a(e, i, d) EXCEPT !.depth = x] = a(e, i, x)
  <2> DEFINE l == Append(v, c)
  <2> HIDE DEF l
  <2>1. \A e, i, x : /\ [Sc("valNested", k, l, e, i, d, o) EXCEPT !.inStr = x] = Sc("valNested", k, l, e, x, d, o)
                     /\ [Sc("valNested", k, l, e, i, d, o) EXCEPT !.depth = x] = Sc("valNested", k, l, e, i, x, o)
    BY ScInStr, ScDepth
  <2>2. QED
    BY Zenon, <2>1 DEF l
<1> HIDE DEF s, a
<1>5. \A i : InNested(s(Yes, i), c) = a(No, i, d)
  BY Zenon, <1>2, <1>3, YesNo DEF InNested
<1>6. InNested(s(No, Yes), c) = CASE c = Escape -> a(Yes, Yes, d) [] c = Quote -> [a(No, Yes, d) EXCEPT !.inStr = No] [] OTHER -> a(No, Yes, d)
  BY Zenon, <1>2, <1>3, YesNo DEF InNested, No
<1> DEFINE n == s(No, No)
           m == Adds(n, c)
           mq == [m EXCEPT !.inStr = Yes]
           mo == [m EXCEPT !.depth = n.depth + 1]
           mz == Complete([m EXCEPT !.depth = 0])
           ms == [m EXCEPT !.depth = n.depth - 1]
<1>7. InNested(n, c) =
        IF n.esc THEN m
        ELSE IF n.inStr THEN CASE c = Escape -> Escapes(n, c) [] c = Quote -> [m EXCEPT !.inStr = FALSE] [] OTHER -> m
        ELSE CASE c = Quote -> mq [] c \in Opens -> mo [] c \in Shuts -> IF n.depth = 1 THEN mz ELSE ms [] OTHER -> m
  BY Zenon DEF InNested, Yes
<1> DEFINE yy == a(Yes, Yes, d)
           ny == a(No, Yes, d)
           nn == a(No, No, d)
           no == a(No, No, d + 1)
           nz == Complete(a(No, No, 0))
           ns == a(No, No, d - 1)
<1>8. InNested(s(No, Yes), c) = CASE c = Escape -> yy [] c = Quote -> nn [] OTHER -> ny
  BY Zenon, <1>4, <1>6
<1>9. n.esc = No /\ n.inStr = No /\ n.depth = d /\ m = nn
  BY Zenon, <1>2, <1>3
<1> HIDE DEF n, m
<1>10. mq = ny /\ mo = no /\ mz = nz /\ ms = ns
  <2>1. mq = ny
    BY <1>4, <1>9
  <2>2. mo = no
    BY <1>4, <1>9
  <2>3. mz = nz
    BY <1>4, <1>9
  <2>4. ms = ns
    BY <1>4, <1>9
  <2>5. QED
    BY <2>1, <2>2, <2>3, <2>4
<1> HIDE DEF yy, ny, nn, no, nz, ns, mq, mo, mz, ms
<1>11. /\ c = Escape => StepScan(s(No, Yes), c) = yy
       /\ c = Quote => StepScan(s(No, Yes), c) = nn
       /\ c \notin {Quote, Escape} => StepScan(s(No, Yes), c) = ny
  BY <1>1, <1>8 DEF Quote, Escape
<1>12. InNested(n, c) = CASE c = Quote -> mq [] c \in Opens -> mo [] c \in Shuts -> IF n.depth = 1 THEN mz ELSE ms [] OTHER -> m
  BY Zenon, <1>7, <1>9, YesNo
<1>13. /\ c = Quote => InNested(n, c) = ny
       /\ c \in Opens => InNested(n, c) = no
       /\ c \in Shuts /\ d = 1 => InNested(n, c) = nz
       /\ c \in Shuts /\ d # 1 => InNested(n, c) = ns
       /\ c \notin Opens \cup Shuts \cup {Quote} => InNested(n, c) = nn
  BY <1>9, <1>10, <1>12 DEF Opens, Shuts, Quote
<1>14. StepScan(s(No, No), c) = InNested(n, c)
  BY Zenon, <1>1 DEF n
<1>15. \A i : StepScan(s(Yes, i), c) = a(No, i, d)
  BY Zenon, <1>1, <1>5
<1>16. /\ c = Quote => StepScan(s(No, No), c) = ny
       /\ c \in Opens => StepScan(s(No, No), c) = no
       /\ c \in Shuts /\ d = 1 => StepScan(s(No, No), c) = nz
       /\ c \in Shuts /\ d # 1 => StepScan(s(No, No), c) = ns
       /\ c \notin Opens \cup Shuts \cup {Quote} => StepScan(s(No, No), c) = nn
  BY Zenon, <1>13, <1>14
<1>17. QED
  BY Zenon, <1>11, <1>15, <1>16 DEF s, a, yy, ny, nn, no, nz, ns

LEMMA ScalarIs ==
  ASSUME NEW k, NEW v, NEW e, NEW i, NEW d, NEW o, NEW c
  PROVE  StepScan(Sc("valScalar", k, v, e, i, d, o), c) =
           IF c \in Delimiter THEN AfterValue(Complete(Sc("valScalar", k, v, e, i, d, o)), c)
           ELSE Sc("valScalar", k, Append(v, c), No, i, d, o)
<1> DEFINE s == Sc("valScalar", k, v, e, i, d, o)
           a == Sc("valScalar", k, Append(v, c), No, i, d, o)
<1>1. StepScan(s, c) = InScalar(s, c)
  BY DEF StepScan, Sc
<1>2. Adds(s, c) = a
  BY AddsIs
<1> HIDE DEF s, a
<1>3. StepScan(s, c) = IF c \in Delimiter THEN AfterValue(Complete(s), c) ELSE a
  BY Zenon, <1>1, <1>2 DEF InScalar, Delimiter, Comma, EndBrace
<1>4. QED
  BY Zenon, <1>3 DEF s, a

LEMMA BehindIs ==
  ASSUME NEW k, NEW v, NEW e, NEW i, NEW d, NEW o, NEW c
  PROVE  /\ StepScan(Sc("afterValue", k, v, e, i, d, o), c) = AfterValue(Sc("afterValue", k, v, e, i, d, o), c)
         /\ StepScan(Sc("dead", k, v, e, i, d, o), c) = Sc("dead", k, v, e, i, d, o)
         /\ StepScan(Sc("done", k, v, e, i, d, o), c) = Sc("done", k, v, e, i, d, o)
  BY DEF StepScan, Sc

(* What a member is, byte by byte. *****************************************)

\* A trace is the one run there is.
LEMMA TraceExact ==
  ASSUME NEW s, NEW bytes \in Seq(Byte), NEW y, y[0] = s, Runs(y, bytes, Len(bytes))
  PROVE  Scanned(s, bytes) = y[Len(bytes)] /\ \A k \in 0 .. Len(bytes) : Trace(s, bytes, k) = y[k]
<1> DEFINE n == Len(bytes)
<1>1. n \in Nat
  OBVIOUS
<1>2. PICK f : Behind(f, s, bytes) /\ \A k \in 0 .. n : Trace(s, bytes, k) = f[k]
  BY TraceIs
<1>3. f[0] = y[0] /\ Runs(f, bytes, n)
  BY <1>2 DEF Behind, Runs
<1>4. Runs(y, bytes, n)
  OBVIOUS
<1>5. Scanned(s, bytes) = Trace(s, bytes, n)
  BY TraceSteps
<1> HIDE DEF n
<1>6. ASSUME NEW k \in 0 .. n PROVE f[k] = y[k]
  <2>1. k \in Nat /\ \A i \in 1 .. k : i \in 1 .. n
    BY <1>1
  <2>2. Runs(f, bytes, k) /\ Runs(y, bytes, k) /\ Agree(bytes, bytes, k)
    BY <1>3, <1>4, <2>1 DEF Runs, Agree
  <2>3. QED
    BY <1>3, <2>1, <2>2, SameRun
<1>7. n \in 0 .. n
  BY <1>1
<1>8. QED
  BY <1>2, <1>5, <1>6, <1>7 DEF n

\* Bytes that change nothing.
LEMMA Still ==
  ASSUME NEW x, NEW b \in Seq(Byte), \A i \in 1 .. Len(b) : StepScan(x, b[i]) = x
  PROVE  Scanned(x, b) = x /\ \A k \in 0 .. Len(b) : Trace(x, b, k) = x
<1> DEFINE n == Len(b)
           y == [k \in 0 .. n |-> x]
<1>1. n \in Nat /\ Len(b) = n
  OBVIOUS
<1> HIDE DEF n
<1>2. \A k \in 0 .. n : y[k] = x
  OBVIOUS
<1> HIDE DEF y
<1>3. y[0] = x /\ Runs(y, b, n) /\ y[n] = x
  <2>1. 0 \in 0 .. n /\ n \in 0 .. n /\ \A i \in 1 .. n : i \in 0 .. n /\ i - 1 \in 0 .. n
    BY <1>1
  <2>2. QED
    BY <1>1, <1>2, <2>1 DEF Runs
<1>4. Scanned(x, b) = y[n] /\ \A k \in 0 .. n : Trace(x, b, k) = y[k]
  BY <1>1, <1>3, TraceExact
<1>5. QED
  BY <1>1, <1>2, <1>3, <1>4

LEMMA RdIs ==
  ASSUME NEW x, NEW d
  PROVE  Rd(x, d).in = x /\ Rd(x, d).depth = d /\ (EndsAt(Rd(x, d)) <=> x = "value" /\ d = 0)
  BY DEF Rd, EndsAt

\* The bytes of a string: E are those behind which a reader is in an escape.
StringBy(b, E) ==
  /\ Len(b) >= 2 /\ 1 \notin E
  /\ \A i \in 2 .. Len(b) - 1 :
       /\ i - 1 \in E => i \notin E
       /\ i - 1 \notin E => b[i] # Quote
       /\ i - 1 \notin E /\ b[i] = Escape => i \in E
       /\ i - 1 \notin E /\ b[i] # Escape => i \notin E
  /\ Len(b) - 1 \notin E /\ b[Len(b)] = Quote

\* What reading a value comes to.
ReadIs(b, L) ==
  /\ Len(b) \in Nat /\ Len(b) >= 1 /\ L[0] = Rd("value", 0)
  /\ \A i \in 1 .. Len(b) : L[i] = Reads(L[i - 1], b[i])
  /\ \A i \in 1 .. Len(b) - 1 : ~EndsAt(L[i])
  /\ EndsAt(L[Len(b)])

LEMMA ClosesIs ==
  ASSUME NEW b \in Seq(Byte), Closes(b)
  PROVE  ReadIs(b, ReadOf(b))
<1> DEFINE L == ReadOf(b)
           n == Len(b)
<1>1. n \in Nat /\ n # 0
  <2>1. b # <<>>
    BY DEF Closes
  <2>2. QED
    BY <2>1
<1>2. L[0] = Rd("value", 0) /\ \A i \in 1 .. n : L[i] = Reads(L[i - 1], b[i])
  BY <1>1, ReadSteps DEF Rd
<1>3. (\A i \in 1 .. n - 1 : ~EndsAt(L[i])) /\ EndsAt(L[n])
  BY DEF Closes
<1> HIDE DEF L
<1>4. ReadIs(b, L)
  BY <1>1, <1>2, <1>3 DEF ReadIs
<1>5. QED
  BY <1>4 DEF L

LEMMA StringReads ==
  ASSUME NEW b \in Seq(Byte), Closes(b), b[1] = Quote
  PROVE  \E E : StringBy(b, E)
<1> DEFINE L == ReadOf(b)
           n == Len(b)
           E == {k \in 1 .. n : L[k] = Rd("escape", 0)}
<1>1. ReadIs(b, L)
  BY ClosesIs
<1> HIDE DEF L
<1>2. /\ n \in Nat /\ n >= 1 /\ L[0] = Rd("value", 0) /\ EndsAt(L[n])
      /\ \A i \in 1 .. n : L[i] = Reads(L[i - 1], b[i])
      /\ \A i \in 1 .. n - 1 : ~EndsAt(L[i])
  BY <1>1 DEF ReadIs
<1>3. L[1] = Rd("string", 0)
  <2>1. L[1] = Reads(L[0], b[1])
    BY <1>2
  <2>2. 0 \in Int
    OBVIOUS
  <2>3. QED
    BY <1>2, <2>1, <2>2, ReadsIs
<1>4. ~EndsAt(Rd("string", 0)) /\ EndsAt(Rd("value", 0)) /\ ~EndsAt(Rd("escape", 0)) /\ Rd("string", 0) # Rd("escape", 0)
  BY RdIs
<1>5. n >= 2
  BY <1>2, <1>3, <1>4
<1> HIDE DEF n
<1>6. ASSUME NEW i \in 1 .. n, i # 1
      PROVE  /\ L[i - 1] = Rd("escape", 0) => L[i] = Rd("string", 0)
             /\ L[i - 1] = Rd("string", 0) => L[i] = Rd(IF b[i] = Escape THEN "escape" ELSE IF b[i] = Quote THEN "value" ELSE "string", 0)
  <2>1. L[i] = Reads(L[i - 1], b[i]) /\ 0 \in Int
    BY <1>2
  <2>2. QED
    BY <2>1, ReadsIs
<1>7. ASSUME NEW j \in 1 .. n - 1 PROVE L[j] = Rd("string", 0) \/ L[j] = Rd("escape", 0)
  <2> DEFINE G == {k \in Nat : k = 0 \/ L[k] = Rd("string", 0) \/ L[k] = Rd("escape", 0)}
  <2>1. 0 \in G
    OBVIOUS
  <2>2. ASSUME NEW k \in 1 .. j, k - 1 \in G PROVE k \in G
    <3>1. k \in Nat /\ k \in 1 .. n /\ k \in 1 .. n - 1
      BY <1>2
    <3>2. CASE k = 1
      BY <1>3, <3>2
    <3>3. CASE k # 1
      <4>1. k - 1 # 0
        BY <3>1, <3>3
      <4>2. L[k - 1] = Rd("string", 0) \/ L[k - 1] = Rd("escape", 0)
        BY <2>2, <4>1
      <4>3. ~EndsAt(L[k])
        BY <1>2, <3>1
      <4>4. QED
        BY <1>4, <1>6, <3>1, <3>3, <4>2, <4>3
    <3>4. QED
      BY <3>2, <3>3
  <2> HIDE DEF G
  <2>3. j \in Nat
    BY <1>2
  <2>4. j \in G
    BY <2>1, <2>2, <2>3, UpTo
  <2>5. j # 0
    OBVIOUS
  <2>6. QED
    BY <2>4, <2>5 DEF G
<1>8. \A k \in 1 .. n : k \in E <=> L[k] = Rd("escape", 0)
  OBVIOUS
<1> HIDE DEF E
<1>9. 1 \notin E
  <2>1. 1 \in 1 .. n
    BY <1>5, <1>2
  <2>2. QED
    BY <1>3, <1>4, <1>8, <2>1
<1>10. ASSUME NEW i \in 2 .. n - 1
       PROVE  /\ i - 1 \in E => i \notin E
              /\ i - 1 \notin E => b[i] # Quote
              /\ i - 1 \notin E /\ b[i] = Escape => i \in E
              /\ i - 1 \notin E /\ b[i] # Escape => i \notin E
  <2>1. i \in 1 .. n /\ i # 1 /\ i - 1 \in 1 .. n - 1 /\ i - 1 \in 1 .. n /\ i \in 1 .. n - 1
    BY <1>2
  <2>2. ~EndsAt(L[i])
    BY <1>2, <2>1
  <2>3. L[i - 1] = Rd("string", 0) \/ L[i - 1] = Rd("escape", 0)
    BY <1>7, <2>1
  <2>4. CASE L[i - 1] = Rd("escape", 0)
    BY <1>4, <1>6, <1>8, <2>1, <2>4
  <2>5. CASE L[i - 1] = Rd("string", 0)
    <3>1. i - 1 \notin E
      BY <1>4, <1>8, <2>1, <2>5
    <3>2. L[i] = Rd(IF b[i] = Escape THEN "escape" ELSE IF b[i] = Quote THEN "value" ELSE "string", 0)
      BY <1>6, <2>1, <2>5
    <3>3. CASE b[i] = Escape
      <4>1. L[i] = Rd("escape", 0) /\ b[i] # Quote
        BY <3>2, <3>3 DEF Escape, Quote
      <4>2. QED
        BY <1>8, <2>1, <3>1, <3>3, <4>1
    <3>4. CASE b[i] # Escape
      <4>1. b[i] # Quote
        <5>1. CASE b[i] = Quote
          BY <1>4, <2>2, <3>2, <3>4, <5>1
        <5>2. QED
          BY <5>1
      <4>2. L[i] = Rd("string", 0)
        BY <3>2, <3>4, <4>1
      <4>3. QED
        BY <1>4, <1>8, <2>1, <3>1, <3>4, <4>1, <4>2
    <3>5. QED
      BY <3>3, <3>4
  <2>6. QED
    BY <2>3, <2>4, <2>5
<1>11. n - 1 \notin E /\ b[n] = Quote
  <2>1. n \in 1 .. n /\ n # 1 /\ n - 1 \in 1 .. n - 1 /\ n - 1 \in 1 .. n
    BY <1>2, <1>5
  <2>2. L[n - 1] # Rd("escape", 0)
    BY <1>2, <1>4, <1>6, <2>1
  <2>3. L[n - 1] = Rd("string", 0)
    BY <1>7, <2>1, <2>2
  <2>4. L[n] = Rd(IF b[n] = Escape THEN "escape" ELSE IF b[n] = Quote THEN "value" ELSE "string", 0)
    BY <1>6, <2>1, <2>3
  <2>5. b[n] = Quote
    BY <1>2, <1>4, <2>4
  <2>6. QED
    BY <1>8, <2>1, <2>2, <2>5
<1>12. StringBy(b, E)
  BY <1>5, <1>9, <1>10, <1>11 DEF StringBy, n
<1>13. QED
  BY <1>12

\* The bytes of an object or an array: behind those of I a reader is in a string, behind those of
\* E in an escape of one, and d is how deep it is.
NestedBy(b, E, I, d) ==
  /\ Len(b) >= 2 /\ 1 \notin E /\ 1 \notin I /\ d[1] = 1
  /\ \A i \in 1 .. Len(b) - 1 : d[i] \in Int /\ (i \in E => i \in I)
  /\ \A i \in 2 .. Len(b) - 1 :
       /\ i - 1 \in E => i \notin E /\ i \in I /\ d[i] = d[i - 1]
       /\ i - 1 \notin E /\ i - 1 \in I /\ b[i] = Escape => i \in E /\ d[i] = d[i - 1]
       /\ i - 1 \notin E /\ i - 1 \in I /\ b[i] = Quote => i \notin I /\ d[i] = d[i - 1]
       /\ i - 1 \notin E /\ i - 1 \in I /\ b[i] \notin {Quote, Escape} => i \in I /\ i \notin E /\ d[i] = d[i - 1]
       /\ i - 1 \notin I /\ b[i] = Quote => i \in I /\ i \notin E /\ d[i] = d[i - 1]
       /\ i - 1 \notin I /\ b[i] \in Opens => i \notin I /\ d[i] = d[i - 1] + 1
       /\ i - 1 \notin I /\ b[i] \in Shuts => i \notin I /\ d[i] = d[i - 1] - 1 /\ d[i - 1] # 1
       /\ i - 1 \notin I /\ b[i] \notin Opens \cup Shuts \cup {Quote} => i \notin I /\ d[i] = d[i - 1]
  /\ Len(b) - 1 \notin I /\ b[Len(b)] \in Shuts /\ d[Len(b) - 1] = 1

\* One step of a reader inside an object or an array.
Inside(l) == l = Rd(l.in, l.depth) /\ l.depth \in Int /\ l.depth >= 1 /\ l.in \in {"value", "string", "escape"}

LEMMA InsideOn ==
  ASSUME NEW l, NEW c, Inside(l), NEW m, m = Reads(l, c)
  PROVE  /\ m = Rd(m.in, m.depth) /\ m.depth \in Int /\ m.depth >= 0 /\ m.in \in {"value", "string", "escape"}
         /\ l.in = "escape" => m.in = "string" /\ m.depth = l.depth
         /\ l.in = "string" /\ c = Escape => m.in = "escape" /\ m.depth = l.depth
         /\ l.in = "string" /\ c = Quote => m.in = "value" /\ m.depth = l.depth
         /\ l.in = "string" /\ c \notin {Quote, Escape} => m.in = "string" /\ m.depth = l.depth
         /\ l.in = "value" /\ c = Quote => m.in = "string" /\ m.depth = l.depth
         /\ l.in = "value" /\ c \in Opens => m.in = "value" /\ m.depth = l.depth + 1
         /\ l.in = "value" /\ c \in Shuts => m.in = "value" /\ m.depth = l.depth - 1
         /\ l.in = "value" /\ c \notin Opens \cup Shuts \cup {Quote} => m.in = "value" /\ m.depth = l.depth
<1> DEFINE d == l.depth
<1>1. d \in Int /\ d >= 1 /\ l.in \in {"value", "string", "escape"} /\ l = Rd(l.in, d)
  BY DEF Inside
<1> HIDE DEF d
<1>2. \A x, n : Rd(x, n).in = x /\ Rd(x, n).depth = n
  BY RdIs
<1>3. CASE l.in = "escape"
  <2>1. m = Rd("string", d)
    BY <1>1, <1>3, ReadsIs
  <2>2. m.in = "string" /\ m.depth = d /\ m = Rd(m.in, m.depth)
    BY <1>2, <2>1
  <2>3. QED
    BY <1>1, <1>3, <2>2 DEF d
<1>4. CASE l.in = "string"
  <2>1. m = Rd(IF c = Escape THEN "escape" ELSE IF c = Quote THEN "value" ELSE "string", d)
    BY <1>1, <1>4, ReadsIs
  <2>2. /\ m.in = IF c = Escape THEN "escape" ELSE IF c = Quote THEN "value" ELSE "string"
        /\ m.depth = d /\ m = Rd(m.in, m.depth)
    BY <1>2, <2>1
  <2>3. Escape # Quote
    BY DEF Escape, Quote
  <2>4. QED
    BY <1>1, <1>4, <2>2, <2>3 DEF d
<1>5. CASE l.in = "value"
  <2>1. l = Rd("value", d)
    BY <1>1, <1>5
  <2>2. /\ c = Quote => m = Rd("string", d)
        /\ c \in Opens => m = Rd("value", d + 1)
        /\ c \in Shuts => m = Rd("value", d - 1)
        /\ c \notin Opens \cup Shuts \cup {Quote} => m = Rd("value", d)
    BY <1>1, <2>1, ReadsIs
  <2>3. (c = Quote => c \notin Opens \cup Shuts) /\ (c \in Opens => c \notin Shuts \cup {Quote}) /\ (c \in Shuts => c \notin Opens \cup {Quote})
    BY DEF Quote, Opens, Shuts
  <2>4. /\ c = Quote => m.in = "string" /\ m.depth = d
        /\ c \in Opens => m.in = "value" /\ m.depth = d + 1
        /\ c \in Shuts => m.in = "value" /\ m.depth = d - 1
        /\ c \notin Opens \cup Shuts \cup {Quote} => m.in = "value" /\ m.depth = d
        /\ m = Rd(m.in, m.depth)
    BY <1>2, <2>2, <2>3
  <2>5. m.depth \in Int /\ m.depth >= 0 /\ m.in \in {"value", "string"}
    BY <1>1, <2>4
  <2>6. QED
    BY <1>5, <2>3, <2>4, <2>5 DEF d
<1>6. QED
  BY <1>1, <1>3, <1>4, <1>5

LEMMA NestedReads ==
  ASSUME NEW b \in Seq(Byte), Closes(b), b[1] \in Opens
  PROVE  \E E, I, d : NestedBy(b, E, I, d)
<1> DEFINE L == ReadOf(b)
           n == Len(b)
           E == {k \in 1 .. n : L[k].in = "escape"}
           I == {k \in 1 .. n : L[k].in # "value"}
           d == [k \in 1 .. n |-> L[k].depth]
<1>1. ReadIs(b, L)
  BY ClosesIs
<1> HIDE DEF L
<1>2. /\ n \in Nat /\ n >= 1 /\ L[0] = Rd("value", 0) /\ EndsAt(L[n])
      /\ \A i \in 1 .. n : L[i] = Reads(L[i - 1], b[i])
      /\ \A i \in 1 .. n - 1 : ~EndsAt(L[i])
  BY <1>1 DEF ReadIs
<1>3. L[1] = Rd("value", 1)
  <2>1. L[1] = Reads(L[0], b[1]) /\ 0 + 1 = 1
    BY <1>2
  <2>2. 0 \in Int
    OBVIOUS
  <2>3. QED
    BY <1>2, <2>1, <2>2, ReadsIs
<1>4. L[1].in = "value" /\ L[1].depth = 1 /\ ~EndsAt(L[1]) /\ Inside(L[1])
  BY <1>3, RdIs DEF Inside
<1>5. n >= 2
  BY <1>2, <1>4
<1>6. \A l : EndsAt(l) <=> l.in = "value" /\ l.depth = 0
  BY DEF EndsAt
<1> HIDE DEF n
<1>7. ASSUME NEW j \in 1 .. n - 1 PROVE Inside(L[j])
  <2> DEFINE G == {k \in Nat : k = 0 \/ Inside(L[k])}
  <2>1. 0 \in G
    OBVIOUS
  <2>2. ASSUME NEW k \in 1 .. j, k - 1 \in G PROVE k \in G
    <3>1. k \in Nat /\ k \in 1 .. n /\ k \in 1 .. n - 1
      BY <1>2
    <3>2. CASE k = 1
      BY <1>4, <3>2
    <3>3. CASE k # 1
      <4>1. k - 1 # 0
        BY <3>1, <3>3
      <4> DEFINE l == L[k - 1]
                 m == L[k]
      <4>2. Inside(l)
        BY <2>2, <4>1
      <4>3. ~EndsAt(m) /\ m = Reads(l, b[k])
        BY <1>2, <3>1
      <4> HIDE DEF l, m
      <4>4. m = Rd(m.in, m.depth) /\ m.depth \in Int /\ m.depth >= 0 /\ m.in \in {"value", "string", "escape"}
            /\ (l.in = "escape" => m.depth = l.depth) /\ (l.in = "string" => m.depth = l.depth)
            /\ (m.in # "value" => m.depth = l.depth)
        BY <4>2, <4>3, InsideOn DEF Inside
      <4>5. l.depth >= 1 /\ l.depth \in Int
        BY <4>2 DEF Inside
      <4>6. m.depth >= 1
        BY <1>6, <4>3, <4>4, <4>5
      <4>7. Inside(L[k])
        BY <4>4, <4>6 DEF Inside, m
      <4>8. QED
        BY <3>1, <4>7
    <3>4. QED
      BY <3>2, <3>3
  <2> HIDE DEF G
  <2>3. j \in Nat
    BY <1>2
  <2>4. j \in G
    BY <2>1, <2>2, <2>3, UpTo
  <2>5. j # 0
    OBVIOUS
  <2>6. QED
    BY <2>4, <2>5 DEF G
<1>8. \A k \in 1 .. n : (k \in E <=> L[k].in = "escape") /\ (k \in I <=> L[k].in # "value") /\ d[k] = L[k].depth
  OBVIOUS
<1> HIDE DEF E, I, d
<1>9. 1 \notin E /\ 1 \notin I /\ d[1] = 1
  <2>1. 1 \in 1 .. n
    BY <1>5, <1>2
  <2>2. QED
    BY <1>4, <1>8, <2>1
<1>10. ASSUME NEW i \in 1 .. n - 1 PROVE d[i] \in Int /\ (i \in E => i \in I)
  <2>1. i \in 1 .. n
    BY <1>2
  <2>2. QED
    BY <1>7, <1>8, <2>1 DEF Inside
<1>11. ASSUME NEW i \in 2 .. n - 1
       PROVE  /\ i - 1 \in E => i \notin E /\ i \in I /\ d[i] = d[i - 1]
              /\ i - 1 \notin E /\ i - 1 \in I /\ b[i] = Escape => i \in E /\ d[i] = d[i - 1]
              /\ i - 1 \notin E /\ i - 1 \in I /\ b[i] = Quote => i \notin I /\ d[i] = d[i - 1]
              /\ i - 1 \notin E /\ i - 1 \in I /\ b[i] \notin {Quote, Escape} => i \in I /\ i \notin E /\ d[i] = d[i - 1]
              /\ i - 1 \notin I /\ b[i] = Quote => i \in I /\ i \notin E /\ d[i] = d[i - 1]
              /\ i - 1 \notin I /\ b[i] \in Opens => i \notin I /\ d[i] = d[i - 1] + 1
              /\ i - 1 \notin I /\ b[i] \in Shuts => i \notin I /\ d[i] = d[i - 1] - 1 /\ d[i - 1] # 1
              /\ i - 1 \notin I /\ b[i] \notin Opens \cup Shuts \cup {Quote} => i \notin I /\ d[i] = d[i - 1]
  <2> DEFINE l == L[i - 1]
             m == L[i]
  <2>1. i \in 1 .. n /\ i - 1 \in 1 .. n - 1 /\ i - 1 \in 1 .. n /\ i \in 1 .. n - 1
    BY <1>2
  <2>2. Inside(l) /\ m = Reads(l, b[i]) /\ ~EndsAt(m)
    BY <1>2, <1>7, <2>1
  <2>3. /\ (i \in E <=> m.in = "escape") /\ (i \in I <=> m.in # "value") /\ d[i] = m.depth
        /\ (i - 1 \in E <=> l.in = "escape") /\ (i - 1 \in I <=> l.in # "value") /\ d[i - 1] = l.depth
    BY <1>8, <2>1
  <2> HIDE DEF l, m
  <2>4. l.in \in {"value", "string", "escape"} /\ l.depth \in Int
    BY <2>2 DEF Inside
  <2>5. /\ l.in = "escape" => m.in = "string" /\ m.depth = l.depth
        /\ l.in = "string" /\ b[i] = Escape => m.in = "escape" /\ m.depth = l.depth
        /\ l.in = "string" /\ b[i] = Quote => m.in = "value" /\ m.depth = l.depth
        /\ l.in = "string" /\ b[i] \notin {Quote, Escape} => m.in = "string" /\ m.depth = l.depth
        /\ l.in = "value" /\ b[i] = Quote => m.in = "string" /\ m.depth = l.depth
        /\ l.in = "value" /\ b[i] \in Opens => m.in = "value" /\ m.depth = l.depth + 1
        /\ l.in = "value" /\ b[i] \in Shuts => m.in = "value" /\ m.depth = l.depth - 1
        /\ l.in = "value" /\ b[i] \notin Opens \cup Shuts \cup {Quote} => m.in = "value" /\ m.depth = l.depth
    BY <2>2, InsideOn
  <2>6. l.in = "value" /\ b[i] \in Shuts => l.depth # 1
    BY <1>6, <2>2, <2>4, <2>5
  <2>7. QED
    BY <2>3, <2>4, <2>5, <2>6
<1>12. n - 1 \notin I /\ b[n] \in Shuts /\ d[n - 1] = 1
  <2> DEFINE l == L[n - 1]
             m == L[n]
             c == b[n]
  <2>1. n - 1 \in 1 .. n - 1 /\ n - 1 \in 1 .. n /\ n \in 1 .. n
    BY <1>2, <1>5
  <2>2. Inside(l) /\ m = Reads(l, c) /\ EndsAt(m)
    BY <1>2, <1>7, <2>1
  <2>3. (n - 1 \in I <=> l.in # "value") /\ d[n - 1] = l.depth
    BY <1>8, <2>1
  <2> HIDE DEF l, m, c
  <2>4. l.in \in {"value", "string", "escape"} /\ l.depth \in Int /\ l.depth >= 1
    BY <2>2 DEF Inside
  <2>5. m.in = "value" /\ m.depth = 0
    BY <1>6, <2>2
  <2>6. /\ l.in = "escape" => m.in = "string" /\ m.depth = l.depth
        /\ l.in = "string" /\ c = Escape => m.in = "escape" /\ m.depth = l.depth
        /\ l.in = "string" /\ c = Quote => m.in = "value" /\ m.depth = l.depth
        /\ l.in = "string" /\ c \notin {Quote, Escape} => m.in = "string" /\ m.depth = l.depth
        /\ l.in = "value" /\ c = Quote => m.in = "string" /\ m.depth = l.depth
        /\ l.in = "value" /\ c \in Opens => m.in = "value" /\ m.depth = l.depth + 1
        /\ l.in = "value" /\ c \in Shuts => m.in = "value" /\ m.depth = l.depth - 1
        /\ l.in = "value" /\ c \notin Opens \cup Shuts \cup {Quote} => m.in = "value" /\ m.depth = l.depth
    BY <2>2, InsideOn
  <2>7. l.in = "value"
    BY <2>4, <2>5, <2>6
  <2>8. c \in Shuts /\ l.depth = 1
    BY <2>4, <2>5, <2>6, <2>7
  <2>9. QED
    BY <2>3, <2>7, <2>8 DEF c
<1>13. NestedBy(b, E, I, d)
  BY <1>5, <1>9, <1>10, <1>11, <1>12 DEF NestedBy, n
<1>14. QED
  BY <1>13

\* Bytes of which nothing is told, and bytes of which nothing is until the last.
Silent(x, b, o) == \A k \in 0 .. Len(b) : Trace(x, b, k).out = o
Waits(x, b, o)  == \A k \in 0 .. Len(b) - 1 : Trace(x, b, k).out = o

Flag(k, E) == IF k \in E THEN Yes ELSE No

LEMMA Concatenated ==
  ASSUME NEW S, NEW a \in Seq(S), NEW b \in Seq(S)
  PROVE  /\ a \o b \in Seq(S) /\ Len(a \o b) = Len(a) + Len(b) /\ Len(a) \in Nat /\ Len(b) \in Nat
         /\ \A i \in 1 .. Len(a) : (a \o b)[i] = a[i]
         /\ \A i \in 1 .. Len(b) : (a \o b)[Len(a) + i] = b[i]
  OBVIOUS

LEMMA ThreeRuns ==
  ASSUME NEW a \in Byte, NEW r \in Seq(Byte), NEW b \in Byte, NEW q, q = <<a>> \o r \o <<b>>
  PROVE  /\ q \in Seq(Byte) /\ Len(q) = Len(r) + 2 /\ Len(r) \in Nat /\ q[1] = a /\ q[Len(r) + 2] = b
         /\ \A j \in 2 .. Len(r) + 1 : q[j] = r[j - 1]
<1>1. PICK l, m : l = <<a>> /\ m = <<b>>
  OBVIOUS
<1>2. l \in Seq(Byte) /\ Len(l) = 1 /\ l[1] = a /\ m \in Seq(Byte) /\ Len(m) = 1 /\ m[1] = b
  BY <1>1
<1>3. PICK lr : lr = l \o r /\ q = lr \o m
  BY <1>1
<1>4. PICK n : n \in Nat /\ n = Len(r)
  OBVIOUS
<1>5. lr \in Seq(Byte) /\ Len(lr) = 1 + n /\ (\A i \in 1 .. 1 : lr[i] = l[i]) /\ \A i \in 1 .. n : lr[1 + i] = r[i]
  <2>1. /\ lr \in Seq(Byte) /\ Len(lr) = Len(l) + Len(r)
        /\ (\A i \in 1 .. Len(l) : lr[i] = l[i]) /\ \A i \in 1 .. Len(r) : lr[Len(l) + i] = r[i]
    BY <1>2, <1>3, Concatenated
  <2>2. QED
    BY <1>2, <1>4, <2>1
<1>6. q \in Seq(Byte) /\ Len(q) = (1 + n) + 1 /\ (\A i \in 1 .. 1 + n : q[i] = lr[i]) /\ \A i \in 1 .. 1 : q[1 + n + i] = m[i]
  <2>1. /\ q \in Seq(Byte) /\ Len(q) = Len(lr) + Len(m)
        /\ (\A i \in 1 .. Len(lr) : q[i] = lr[i]) /\ \A i \in 1 .. Len(m) : q[Len(lr) + i] = m[i]
    BY <1>2, <1>3, <1>5, Concatenated
  <2>2. QED
    BY <1>2, <1>4, <1>5, <2>1
<1>7. Len(q) = n + 2 /\ 1 \in 1 .. 1 + n /\ 1 \in 1 .. 1 /\ n + 2 = 1 + n + 1
  BY <1>4, <1>6
<1>8. q[1] = a /\ q[n + 2] = b
  BY <1>2, <1>5, <1>6, <1>7
<1>9. ASSUME NEW j \in 2 .. n + 1 PROVE q[j] = r[j - 1]
  <2>1. j - 1 \in 1 .. n /\ 1 + (j - 1) = j /\ j \in 1 .. 1 + n
    BY <1>4
  <2>2. QED
    BY <1>5, <1>6, <2>1
<1>10. QED
  BY <1>4, <1>6, <1>7, <1>8, <1>9

\* The run of a scanner over some bytes, up to a scanner it leaves.
RunTo(y, s, b, t) == y[0] = s /\ y[Len(b)] = t /\ Runs(y, b, Len(b))

LEMMA RunIs ==
  ASSUME NEW s, NEW b \in Seq(Byte), NEW t, NEW o, NEW y, RunTo(y, s, b, t)
  PROVE  /\ Scanned(s, b) = t
         /\ (\A j \in 0 .. Len(b) : y[j].out = o) => Silent(s, b, o)
         /\ (\A j \in 0 .. Len(b) - 1 : y[j].out = o) => Waits(s, b, o)
<1>1. y[0] = s /\ y[Len(b)] = t /\ Runs(y, b, Len(b)) /\ Len(b) \in Nat
  BY DEF RunTo
<1>2. Scanned(s, b) = y[Len(b)] /\ \A j \in 0 .. Len(b) : Trace(s, b, j) = y[j]
  BY <1>1, TraceExact
<1>3. \A j \in 0 .. Len(b) - 1 : j \in 0 .. Len(b)
  BY <1>1
<1>4. QED
  BY <1>1, <1>2, <1>3 DEF Silent, Waits

Quoted(q, raw) == q = <<Quote>> \o raw \o <<Quote>>

LEMMA KeyRead ==
  ASSUME NEW raw \in Seq(Byte), NEW q \in Seq(Byte), Quoted(q, raw), Closes(q),
         NEW k, NEW v, NEW e, NEW i, NEW d, NEW o, NEW x, x = Sc("keyOrEnd", k, v, e, i, d, o), Quote \in Byte
  PROVE  Silent(x, q, o) /\ Scanned(x, q) = Sc("colon", raw, v, No, i, d, o)
<1> DEFINE n == Len(q)
           r == Len(raw)
<1>1. n = r + 2 /\ r \in Nat /\ q[1] = Quote /\ q[n] = Quote /\ \A j \in 2 .. n - 1 : q[j] = raw[j - 1]
  <2>1. q = <<Quote>> \o raw \o <<Quote>>
    BY DEF Quoted
  <2>2. QED
    BY <2>1, ThreeRuns
<1>2. PICK E : StringBy(q, E)
  BY <1>1, StringReads
<1>3. /\ n >= 2 /\ 1 \notin E /\ n - 1 \notin E
      /\ \A j \in 2 .. n - 1 :
           /\ j - 1 \in E => j \notin E
           /\ j - 1 \notin E => q[j] # Quote
           /\ j - 1 \notin E /\ q[j] = Escape => j \in E
           /\ j - 1 \notin E /\ q[j] # Escape => j \notin E
  BY <1>2 DEF StringBy
<1> DEFINE mid(j) == Sc("key", SubSeq(raw, 1, j - 1), v, Flag(j, E), i, d, o)
           over == Sc("colon", raw, v, No, i, d, o)
<1> HIDE DEF n, r, mid, over
<1>4. PICK y : y[0] = x /\ y[n] = over /\ \A j \in 1 .. n - 1 : y[j] = mid(j)
  <2> DEFINE f == [j \in 0 .. n |-> IF j = 0 THEN x ELSE IF j < n THEN mid(j) ELSE over]
  <2>1. f[0] = x /\ f[n] = over /\ \A j \in 1 .. n - 1 : f[j] = mid(j)
    BY <1>1
  <2>2. QED
    BY <2>1
<1> USE DEF mid, over
<1>5. ASSUME NEW j \in 1 .. n PROVE y[j] = StepScan(y[j - 1], q[j])
  <2>1. CASE j = 1
    <3>1. y[1] = mid(1) /\ y[1 - 1] = x
      BY <1>1, <1>3, <1>4
    <3> DEFINE l == SubSeq(raw, 1, 1 - 1)
    <3>2. l = <<>> /\ Flag(1, E) = No /\ mid(1) = Sc("key", l, v, Flag(1, E), i, d, o)
      BY <1>3 DEF Flag
    <3> HIDE DEF l, mid
    <3>3. StepScan(x, Quote) = Sc("key", l, v, No, i, d, o)
      BY <3>2, KeyOrEndIs
    <3>4. QED
      BY <1>1, <2>1, <3>1, <3>2, <3>3
  <2>2. CASE j \in 2 .. n - 1
    <3> DEFINE p == SubSeq(raw, 1, j - 2)
               c == q[j]
    <3>1. j - 1 \in 1 .. r /\ (j - 1) - 1 = j - 2 /\ j \in 1 .. n - 1 /\ j - 1 \in 1 .. n - 1
      BY <1>1, <2>2
    <3>2. SubSeq(raw, 1, j - 1) = Append(p, c)
      <4>1. SubSeq(raw, 1, j - 1) = Append(SubSeq(raw, 1, (j - 1) - 1), raw[j - 1])
        BY <3>1, FirstMore DEF r
      <4>2. c = raw[j - 1]
        BY <1>1, <2>2
      <4>3. QED
        BY <3>1, <4>1, <4>2
    <3>3. y[j] = Sc("key", Append(p, c), v, Flag(j, E), i, d, o)
      BY <1>4, <3>1, <3>2
    <3>4. y[j - 1] = Sc("key", p, v, Flag(j - 1, E), i, d, o)
      <4>1. y[j - 1] = mid(j - 1)
        BY <1>4, <3>1
      <4>2. QED
        BY <3>1, <4>1
    <3> HIDE DEF p, c, mid
    <3>5. CASE j - 1 \in E
      <4>1. Flag(j - 1, E) = Yes /\ Flag(j, E) = No
        BY <1>3, <2>2, <3>5 DEF Flag
      <4>2. StepScan(Sc("key", p, v, Yes, i, d, o), c) = Sc("key", Append(p, c), v, No, i, d, o)
        BY KeyIs
      <4>3. QED
        BY Zenon, <3>3, <3>4, <4>1, <4>2 DEF c
    <3>6. CASE j - 1 \notin E /\ c = Escape
      <4>1. Flag(j - 1, E) = No /\ Flag(j, E) = Yes
        BY <1>3, <2>2, <3>6 DEF Flag, c
      <4>2. StepScan(Sc("key", p, v, No, i, d, o), c) = Sc("key", Append(p, c), v, Yes, i, d, o)
        BY <3>6, KeyIs
      <4>3. QED
        BY Zenon, <3>3, <3>4, <4>1, <4>2 DEF c
    <3>7. CASE j - 1 \notin E /\ c # Escape
      <4>1. Flag(j - 1, E) = No /\ Flag(j, E) = No /\ c \notin {Quote, Escape}
        BY <1>3, <2>2, <3>7 DEF Flag, c
      <4>2. StepScan(Sc("key", p, v, No, i, d, o), c) = Sc("key", Append(p, c), v, No, i, d, o)
        BY <4>1, KeyIs
      <4>3. QED
        BY Zenon, <3>3, <3>4, <4>1, <4>2 DEF c
    <3>8. QED
      BY <3>5, <3>6, <3>7
  <2>3. CASE j = n
    <3>1. n - 1 \in 1 .. n - 1 /\ n - 2 = r /\ (n - 1) - 1 = r
      BY <1>1, <1>3
    <3>2. SubSeq(raw, 1, r) = raw
      BY SubSeqFull DEF r
    <3>3. Flag(n - 1, E) = No
      BY <1>3 DEF Flag
    <3>4. y[n - 1] = mid(n - 1)
      BY <1>4, <3>1
    <3>5. y[n - 1] = Sc("key", raw, v, No, i, d, o)
      BY <3>1, <3>2, <3>3, <3>4
    <3> HIDE DEF mid
    <3>6. StepScan(Sc("key", raw, v, No, i, d, o), Quote) = Sc("colon", raw, v, No, i, d, o)
      BY KeyIs
    <3>7. QED
      BY <1>1, <1>4, <2>3, <3>5, <3>6
  <2>4. j = 1 \/ j \in 2 .. n - 1 \/ j = n
    BY <1>1, <1>3
  <2>5. QED
    BY <2>1, <2>2, <2>3, <2>4
<1>6. RunTo(y, x, q, over)
  <2>1. Runs(y, q, Len(q))
    BY <1>5 DEF Runs, n
  <2> HIDE DEF over, mid
  <2>2. QED
    BY <1>4, <2>1 DEF RunTo, n
<1>7. ASSUME NEW j \in 0 .. n PROVE y[j].out = o
  <2>1. x.out = o /\ over.out = o
    BY ScIs
  <2>2. mid(j).out = o
    BY ScIs
  <2>3. j = 0 \/ j = n \/ j \in 1 .. n - 1
    BY <1>1
  <2> HIDE DEF mid, over
  <2>4. QED
    BY <1>4, <2>1, <2>2, <2>3
<1> HIDE DEF mid, over
<1>8. \A j \in 0 .. Len(q) : y[j].out = o
  BY <1>7 DEF n
<1>9. Scanned(x, q) = over /\ Silent(x, q, o)
  BY Zenon, <1>6, <1>8, RunIs
<1>10. QED
  BY Zenon, <1>9 DEF over

\* What a value has come to behind j of its bytes.
LEMMA Grown ==
  ASSUME NEW b \in Seq(Byte), NEW j \in 1 .. Len(b)
  PROVE  /\ SubSeq(b, 1, j) = Append(SubSeq(b, 1, j - 1), b[j])
         /\ j = 1 => SubSeq(b, 1, j) = <<b[j]>>
         /\ j = Len(b) => SubSeq(b, 1, j) = b
<1>1. SubSeq(b, 1, j) = Append(SubSeq(b, 1, j - 1), b[j])
  BY FirstMore
<1>2. j = Len(b) => SubSeq(b, 1, j) = b
  BY SubSeqFull
<1>3. j = 1 => SubSeq(b, 1, j) = <<b[j]>>
  <2>1. ASSUME j = 1 PROVE SubSeq(b, 1, j - 1) = <<>>
    BY <2>1
  <2>2. Append(<<>>, b[j]) = <<b[j]>>
    OBVIOUS
  <2>3. QED
    BY <1>1, <2>1, <2>2
<1>4. QED
  BY <1>1, <1>2, <1>3

\* A value begins.
LEMMA BeginIs ==
  ASSUME NEW x, NEW k, NEW v, NEW e, NEW i, NEW d, NEW o, x = Sc("valueStart", k, v, e, i, d, o),
         NEW c, c # Space, NEW l, l = <<c>>
  PROVE  /\ c = Quote => StepScan(x, c) = Sc("valString", k, l, No, No, 1, o)
         /\ c \in Opens => StepScan(x, c) = Sc("valNested", k, l, No, No, 1, o)
         /\ c \notin Opens \cup {Quote} => StepScan(x, c) = Sc("valScalar", k, l, No, No, 1, o)
  BY ValueStartIs

LEMMA BytesApart ==
  /\ Quote # Space /\ Quote # Escape /\ Space # Escape /\ Space \notin Opens /\ Space \notin Shuts
  /\ \A c \in Opens : c # Space /\ c # Quote /\ c # Escape /\ c \notin Shuts
  BY Zenon DEF Quote, Space, Escape, Opens, Shuts

LEMMA StringRead ==
  ASSUME NEW b \in Seq(Byte), Closes(b), b[1] = Quote,
         NEW x, NEW k, NEW v, NEW e, NEW i, NEW d, NEW o, x = Sc("valueStart", k, v, e, i, d, o)
  PROVE  Waits(x, b, o) /\ Scanned(x, b) = Complete(Sc("valString", k, b, No, No, 1, o))
<1> DEFINE n == Len(b)
<1>1. PICK E : StringBy(b, E)
  BY StringReads
<1>2. /\ n \in Nat /\ n >= 2 /\ 1 \notin E /\ n - 1 \notin E /\ b[n] = Quote
      /\ \A j \in 2 .. n - 1 :
           /\ j - 1 \in E => j \notin E
           /\ j - 1 \notin E => b[j] # Quote
           /\ j - 1 \notin E /\ b[j] = Escape => j \in E
           /\ j - 1 \notin E /\ b[j] # Escape => j \notin E
  BY <1>1 DEF StringBy
<1> DEFINE mid(j) == Sc("valString", k, SubSeq(b, 1, j), Flag(j, E), No, 1, o)
           over == Complete(Sc("valString", k, b, No, No, 1, o))
<1>3. \A j \in 1 .. n : SubSeq(b, 1, j) = Append(SubSeq(b, 1, j - 1), b[j])
  BY Grown
<1>4. SubSeq(b, 1, 1) = <<b[1]>> /\ SubSeq(b, 1, n) = b
  BY <1>2, Grown
<1> HIDE DEF n, mid, over
<1>5. PICK y : y[0] = x /\ y[n] = over /\ \A j \in 1 .. n - 1 : y[j] = mid(j)
  <2> DEFINE f == [j \in 0 .. n |-> IF j = 0 THEN x ELSE IF j < n THEN mid(j) ELSE over]
  <2>1. f[0] = x /\ f[n] = over /\ \A j \in 1 .. n - 1 : f[j] = mid(j)
    BY <1>2
  <2>2. QED
    BY <2>1
<1> USE DEF mid, over
<1>6. ASSUME NEW j \in 1 .. n PROVE y[j] = StepScan(y[j - 1], b[j])
  <2> DEFINE p == SubSeq(b, 1, j - 1)
             c == b[j]
  <2>1. SubSeq(b, 1, j) = Append(p, c)
    BY <1>3
  <2>2. CASE j = 1
    <3>1. y[1] = mid(1) /\ y[1 - 1] = x /\ Flag(1, E) = No
      BY <1>2, <1>5 DEF Flag
    <3>2. PICK l : l = SubSeq(b, 1, 1) /\ l = <<b[1]>>
      BY <1>4
    <3>3. mid(1) = Sc("valString", k, l, No, No, 1, o)
      BY Zenon, <3>1, <3>2
    <3> HIDE DEF mid, over
    <3>4. StepScan(x, b[1]) = Sc("valString", k, l, No, No, 1, o)
      <4>1. b[1] # Space /\ b[1] = Quote
        BY BytesApart
      <4>2. PICK c1 : c1 = b[1]
        OBVIOUS
      <4>3. l = <<c1>> /\ c1 # Space /\ c1 = Quote
        BY Zenon, <3>2, <4>1, <4>2
      <4>4. StepScan(Sc("valueStart", k, v, e, i, d, o), c1) = Sc("valString", k, l, No, No, 1, o)
        BY <4>3, ValueStartIs
      <4>5. QED
        BY Zenon, <4>2, <4>4
    <3>5. QED
      BY <2>2, <3>1, <3>3, <3>4
  <2>3. CASE j \in 2 .. n - 1
    <3>1. j \in 1 .. n - 1 /\ j - 1 \in 1 .. n - 1
      BY <1>2, <2>3
    <3>2. y[j] = Sc("valString", k, Append(p, c), Flag(j, E), No, 1, o)
      BY <1>5, <2>1, <3>1
    <3>3. y[j - 1] = Sc("valString", k, p, Flag(j - 1, E), No, 1, o)
      BY <1>5, <3>1
    <3> HIDE DEF p, c, mid, over
    <3>4. CASE j - 1 \in E
      <4>1. Flag(j - 1, E) = Yes /\ Flag(j, E) = No
        BY <1>2, <2>3, <3>4 DEF Flag
      <4>2. StepScan(Sc("valString", k, p, Yes, No, 1, o), c) = Sc("valString", k, Append(p, c), No, No, 1, o)
        BY StringIs
      <4>3. QED
        BY Zenon, <3>2, <3>3, <4>1, <4>2 DEF c
    <3>5. CASE j - 1 \notin E /\ c = Escape
      <4>1. Flag(j - 1, E) = No /\ Flag(j, E) = Yes
        BY <1>2, <2>3, <3>5 DEF Flag, c
      <4>2. StepScan(Sc("valString", k, p, No, No, 1, o), c) = Sc("valString", k, Append(p, c), Yes, No, 1, o)
        BY <3>5, StringIs
      <4>3. QED
        BY Zenon, <3>2, <3>3, <4>1, <4>2 DEF c
    <3>6. CASE j - 1 \notin E /\ c # Escape
      <4>1. Flag(j - 1, E) = No /\ Flag(j, E) = No /\ c \notin {Quote, Escape}
        BY <1>2, <2>3, <3>6 DEF Flag, c
      <4>2. StepScan(Sc("valString", k, p, No, No, 1, o), c) = Sc("valString", k, Append(p, c), No, No, 1, o)
        BY <4>1, StringIs
      <4>3. QED
        BY Zenon, <3>2, <3>3, <4>1, <4>2 DEF c
    <3>7. QED
      BY <3>4, <3>5, <3>6
  <2>4. CASE j = n
    <3>1. n - 1 \in 1 .. n - 1 /\ Append(p, c) = b /\ c = Quote
      BY <1>2, <1>4, <2>1, <2>4
    <3>2. y[j - 1] = Sc("valString", k, p, Flag(n - 1, E), No, 1, o)
      BY <1>5, <2>4, <3>1
    <3>3. Flag(n - 1, E) = No
      BY <1>2 DEF Flag
    <3> HIDE DEF p, c, mid
    <3>4. StepScan(Sc("valString", k, p, No, No, 1, o), c) = Complete(Sc("valString", k, Append(p, c), No, No, 1, o))
      <4>1. c = Quote
        BY <3>1
      <4>2. QED
        BY <4>1, StringIs
    <3>5. y[j] = over
      BY <1>5, <2>4
    <3>6. QED
      BY Zenon, <3>1, <3>2, <3>3, <3>4, <3>5 DEF c
  <2>5. j = 1 \/ j \in 2 .. n - 1 \/ j = n
    BY <1>2
  <2>6. QED
    BY <2>2, <2>3, <2>4, <2>5
<1>7. RunTo(y, x, b, over)
  <2>1. Runs(y, b, Len(b))
    BY <1>6 DEF Runs, n
  <2> HIDE DEF over, mid
  <2>2. QED
    BY <1>5, <2>1 DEF RunTo, n
<1>8. ASSUME NEW j \in 0 .. n - 1 PROVE y[j].out = o
  <2>1. x.out = o
    BY ScIs
  <2>2. mid(j).out = o
    BY ScIs
  <2>3. j = 0 \/ j \in 1 .. n - 1
    BY <1>2
  <2> HIDE DEF mid, over
  <2>4. QED
    BY <1>5, <2>1, <2>2, <2>3
<1> HIDE DEF mid, over
<1>9. \A j \in 0 .. Len(b) - 1 : y[j].out = o
  BY <1>8 DEF n
<1>10. Scanned(x, b) = over /\ Waits(x, b, o)
  BY Zenon, <1>7, <1>9, RunIs
<1>11. QED
  BY Zenon, <1>10 DEF over

\* An object or an array.
LEMMA NestedRead ==
  ASSUME NEW b \in Seq(Byte), Closes(b), b[1] \in Opens,
         NEW x, NEW k, NEW v, NEW e, NEW i, NEW d, NEW o, x = Sc("valueStart", k, v, e, i, d, o)
  PROVE  Waits(x, b, o) /\ Scanned(x, b) = Complete(Sc("valNested", k, b, No, No, 0, o))
<1> DEFINE n == Len(b)
<1>1. PICK E, I, D : NestedBy(b, E, I, D)
  BY NestedReads
<1>2. /\ n \in Nat /\ n >= 2 /\ 1 \notin E /\ 1 \notin I /\ D[1] = 1
      /\ n - 1 \notin I /\ b[n] \in Shuts /\ D[n - 1] = 1
      /\ \A j \in 1 .. n - 1 : D[j] \in Int /\ (j \in E => j \in I)
  BY <1>1 DEF NestedBy
<1>3. ASSUME NEW j \in 2 .. n - 1
      PROVE  /\ j - 1 \in E => j \notin E /\ j \in I /\ D[j] = D[j - 1]
             /\ j - 1 \notin E /\ j - 1 \in I /\ b[j] = Escape => j \in E /\ D[j] = D[j - 1]
             /\ j - 1 \notin E /\ j - 1 \in I /\ b[j] = Quote => j \notin I /\ D[j] = D[j - 1]
             /\ j - 1 \notin E /\ j - 1 \in I /\ b[j] \notin {Quote, Escape} => j \in I /\ j \notin E /\ D[j] = D[j - 1]
             /\ j - 1 \notin I /\ b[j] = Quote => j \in I /\ j \notin E /\ D[j] = D[j - 1]
             /\ j - 1 \notin I /\ b[j] \in Opens => j \notin I /\ D[j] = D[j - 1] + 1
             /\ j - 1 \notin I /\ b[j] \in Shuts => j \notin I /\ D[j] = D[j - 1] - 1 /\ D[j - 1] # 1
             /\ j - 1 \notin I /\ b[j] \notin Opens \cup Shuts \cup {Quote} => j \notin I /\ D[j] = D[j - 1]
  BY <1>1, <1>3 DEF NestedBy
<1> DEFINE mid(j) == Sc("valNested", k, SubSeq(b, 1, j), Flag(j, E), Flag(j, I), D[j], o)
           over == Complete(Sc("valNested", k, b, No, No, 0, o))
<1>4. \A j \in 1 .. n : SubSeq(b, 1, j) = Append(SubSeq(b, 1, j - 1), b[j])
  BY Grown
<1>5. SubSeq(b, 1, 1) = <<b[1]>> /\ SubSeq(b, 1, n) = b
  BY <1>2, Grown
<1> HIDE DEF n, mid, over
<1>6. PICK y : y[0] = x /\ y[n] = over /\ \A j \in 1 .. n - 1 : y[j] = mid(j)
  <2> DEFINE f == [j \in 0 .. n |-> IF j = 0 THEN x ELSE IF j < n THEN mid(j) ELSE over]
  <2>1. f[0] = x /\ f[n] = over /\ \A j \in 1 .. n - 1 : f[j] = mid(j)
    BY <1>2
  <2>2. QED
    BY <2>1
<1>7. \A j : (j \in E => Flag(j, E) = Yes) /\ (j \notin E => Flag(j, E) = No)
             /\ (j \in I => Flag(j, I) = Yes) /\ (j \notin I => Flag(j, I) = No)
  BY DEF Flag
<1>8. ASSUME NEW j \in 1 .. n PROVE y[j] = StepScan(y[j - 1], b[j])
  <2>1. CASE j = 1
    <3>1. y[1] = mid(1) /\ y[1 - 1] = x /\ Flag(1, E) = No /\ Flag(1, I) = No
      BY <1>2, <1>6, <1>7
    <3>2. PICK l, c : l = SubSeq(b, 1, 1) /\ l = <<c>> /\ c = b[1]
      BY <1>5
    <3>3. mid(1) = Sc("valNested", k, l, No, No, 1, o)
      BY Zenon, <1>2, <3>1, <3>2 DEF mid
    <3>4. c # Space /\ c \in Opens
      BY <3>2, BytesApart
    <3>5. StepScan(Sc("valueStart", k, v, e, i, d, o), c) = Sc("valNested", k, l, No, No, 1, o)
      <4>1. l = <<c>> /\ c # Space /\ c \in Opens
        BY Zenon, <3>2, <3>4
      <4>2. QED
        BY <4>1, ValueStartIs
    <3>6. StepScan(x, c) = mid(1)
      BY Zenon, <3>3, <3>5
    <3>7. QED
      BY <2>1, <3>1, <3>2, <3>6
  <2>2. CASE j \in 2 .. n - 1
    <3>1. j \in 1 .. n - 1 /\ j - 1 \in 1 .. n - 1 /\ j \in 1 .. n
      BY <1>2, <2>2
    <3>2. PICK p, c, t : p = SubSeq(b, 1, j - 1) /\ c = b[j] /\ t = D[j - 1] /\ t \in Int
      BY <1>2, <3>1
    <3>3. y[j - 1] = Sc("valNested", k, p, Flag(j - 1, E), Flag(j - 1, I), t, o)
      BY Zenon, <1>6, <3>1, <3>2 DEF mid
    <3>4. y[j] = Sc("valNested", k, Append(p, c), Flag(j, E), Flag(j, I), D[j], o)
      BY Zenon, <1>4, <1>6, <3>1, <3>2 DEF mid
    <3>5. CASE j - 1 \in E
      <4>1. Flag(j - 1, E) = Yes /\ Flag(j - 1, I) = Yes /\ Flag(j, E) = No /\ Flag(j, I) = Yes /\ D[j] = t
        BY <1>2, <1>3, <1>7, <2>2, <3>1, <3>2, <3>5
      <4>2. StepScan(Sc("valNested", k, p, Yes, Yes, t, o), c) = Sc("valNested", k, Append(p, c), No, Yes, t, o)
        BY <3>2, NestedIs
      <4>3. QED
        BY Zenon, <3>2, <3>3, <3>4, <4>1, <4>2
    <3>6. CASE j - 1 \notin E /\ j - 1 \in I /\ c = Escape
      <4>1. Flag(j - 1, E) = No /\ Flag(j - 1, I) = Yes /\ Flag(j, E) = Yes /\ Flag(j, I) = Yes /\ D[j] = t
        BY <1>2, <1>3, <1>7, <2>2, <3>1, <3>2, <3>6
      <4>2. StepScan(Sc("valNested", k, p, No, Yes, t, o), c) = Sc("valNested", k, Append(p, c), Yes, Yes, t, o)
        BY <3>2, <3>6, NestedIs
      <4>3. QED
        BY Zenon, <3>2, <3>3, <3>4, <4>1, <4>2
    <3>7. CASE j - 1 \notin E /\ j - 1 \in I /\ c = Quote
      <4>1. Flag(j - 1, E) = No /\ Flag(j - 1, I) = Yes /\ Flag(j, E) = No /\ Flag(j, I) = No /\ D[j] = t
        BY <1>2, <1>3, <1>7, <2>2, <3>1, <3>2, <3>7
      <4>2. StepScan(Sc("valNested", k, p, No, Yes, t, o), c) = Sc("valNested", k, Append(p, c), No, No, t, o)
        BY <3>2, <3>7, NestedIs
      <4>3. QED
        BY Zenon, <3>2, <3>3, <3>4, <4>1, <4>2
    <3>8. CASE j - 1 \notin E /\ j - 1 \in I /\ c \notin {Quote, Escape}
      <4>1. Flag(j - 1, E) = No /\ Flag(j - 1, I) = Yes /\ Flag(j, E) = No /\ Flag(j, I) = Yes /\ D[j] = t
        BY <1>2, <1>3, <1>7, <2>2, <3>1, <3>2, <3>8
      <4>2. StepScan(Sc("valNested", k, p, No, Yes, t, o), c) = Sc("valNested", k, Append(p, c), No, Yes, t, o)
        BY <3>2, <3>8, NestedIs
      <4>3. QED
        BY Zenon, <3>2, <3>3, <3>4, <4>1, <4>2
    <3>9. CASE j - 1 \notin I
      <4>1. Flag(j - 1, E) = No /\ Flag(j - 1, I) = No /\ (j \notin I => Flag(j, E) = No /\ Flag(j, I) = No)
        BY <1>2, <1>7, <3>1, <3>9
      <4>2. y[j - 1] = Sc("valNested", k, p, No, No, t, o)
        BY Zenon, <3>3, <4>1
      <4>3. CASE c = Quote
        <5>1. Flag(j, E) = No /\ Flag(j, I) = Yes /\ D[j] = t
          BY <1>3, <1>7, <2>2, <3>2, <3>9, <4>3
        <5>2. StepScan(Sc("valNested", k, p, No, No, t, o), c) = Sc("valNested", k, Append(p, c), No, Yes, t, o)
          BY <3>2, <4>3, NestedIs
        <5>3. QED
          BY Zenon, <3>2, <3>4, <4>2, <5>1, <5>2
      <4>4. CASE c \in Opens
        <5>1. j \notin I /\ D[j] = t + 1
          BY <1>3, <2>2, <3>2, <3>9, <4>4
        <5>2. StepScan(Sc("valNested", k, p, No, No, t, o), c) = Sc("valNested", k, Append(p, c), No, No, t + 1, o)
          BY <3>2, <4>4, NestedIs
        <5>3. QED
          BY Zenon, <3>2, <3>4, <4>1, <4>2, <5>1, <5>2
      <4>5. CASE c \in Shuts
        <5>1. j \notin I /\ D[j] = t - 1 /\ t # 1
          BY <1>3, <2>2, <3>2, <3>9, <4>5
        <5>2. StepScan(Sc("valNested", k, p, No, No, t, o), c) = Sc("valNested", k, Append(p, c), No, No, t - 1, o)
          BY <3>2, <4>5, <5>1, NestedIs
        <5>3. QED
          BY Zenon, <3>2, <3>4, <4>1, <4>2, <5>1, <5>2
      <4>6. CASE c \notin Opens \cup Shuts \cup {Quote}
        <5>1. j \notin I /\ D[j] = t
          BY <1>3, <2>2, <3>2, <3>9, <4>6
        <5>2. StepScan(Sc("valNested", k, p, No, No, t, o), c) = Sc("valNested", k, Append(p, c), No, No, t, o)
          BY <3>2, <4>6, NestedIs
        <5>3. QED
          BY Zenon, <3>2, <3>4, <4>1, <4>2, <5>1, <5>2
      <4>7. QED
        BY <4>3, <4>4, <4>5, <4>6
    <3>10. QED
      BY <3>5, <3>6, <3>7, <3>8, <3>9
  <2>3. CASE j = n
    <3>1. n - 1 \in 1 .. n - 1 /\ n \in 1 .. n
      BY <1>2
    <3>2. PICK p, c : p = SubSeq(b, 1, n - 1) /\ c = b[n] /\ c \in Shuts /\ Append(p, c) = b
      BY <1>2, <1>4, <1>5, <3>1
    <3>3. Flag(n - 1, E) = No /\ Flag(n - 1, I) = No /\ D[n - 1] = 1
      BY <1>2, <1>7, <3>1
    <3>4. y[n - 1] = Sc("valNested", k, p, No, No, 1, o)
      BY Zenon, <1>6, <3>1, <3>2, <3>3 DEF mid
    <3>5. StepScan(Sc("valNested", k, p, No, No, 1, o), c) = Complete(Sc("valNested", k, Append(p, c), No, No, 0, o))
      BY <3>2, NestedIs
    <3>6. QED
      BY Zenon, <1>6, <2>3, <3>2, <3>4, <3>5 DEF over
  <2>4. j = 1 \/ j \in 2 .. n - 1 \/ j = n
    BY <1>2
  <2>5. QED
    BY <2>1, <2>2, <2>3, <2>4
<1>9. RunTo(y, x, b, over)
  <2>1. Runs(y, b, Len(b))
    BY <1>8 DEF Runs, n
  <2>2. QED
    BY <1>6, <2>1 DEF RunTo, n
<1>10. ASSUME NEW j \in 0 .. n - 1 PROVE y[j].out = o
  <2>1. x.out = o
    BY ScIs
  <2>2. mid(j).out = o
    BY ScIs DEF mid
  <2>3. j = 0 \/ j \in 1 .. n - 1
    BY <1>2
  <2>4. QED
    BY <1>6, <2>1, <2>2, <2>3
<1>11. \A j \in 0 .. Len(b) - 1 : y[j].out = o
  BY <1>10 DEF n
<1>12. Scanned(x, b) = over /\ Waits(x, b, o)
  BY Zenon, <1>9, <1>11, RunIs
<1>13. QED
  BY Zenon, <1>12 DEF over

\* Anything else.
LEMMA PlainIs ==
  ASSUME NEW b \in Seq(Byte), Plain(b)
  PROVE  b # <<>> /\ b[1] \notin Opens \cup {Quote} /\ \A j \in 1 .. Len(b) : b[j] \notin Delimiter
  BY Zenon DEF Plain, Delimiter, Comma, EndBrace

LEMMA PlainRead ==
  ASSUME NEW b \in Seq(Byte), Plain(b),
         NEW x, NEW k, NEW v, NEW e, NEW i, NEW d, NEW o, x = Sc("valueStart", k, v, e, i, d, o)
  PROVE  Silent(x, b, o) /\ Scanned(x, b) = Sc("valScalar", k, b, No, No, 1, o)
<1> DEFINE n == Len(b)
<1>1. b # <<>> /\ b[1] \notin Opens \cup {Quote} /\ \A j \in 1 .. n : b[j] \notin Delimiter
  BY PlainIs
<1>2. n \in Nat /\ n >= 1
  BY <1>1
<1> DEFINE mid(j) == Sc("valScalar", k, SubSeq(b, 1, j), No, No, 1, o)
<1>3. \A j \in 1 .. n : SubSeq(b, 1, j) = Append(SubSeq(b, 1, j - 1), b[j])
  BY Grown
<1>4. SubSeq(b, 1, 1) = <<b[1]>> /\ SubSeq(b, 1, n) = b
  BY <1>2, Grown
<1> HIDE DEF n, mid
<1>5. PICK y : y[0] = x /\ \A j \in 1 .. n : y[j] = mid(j)
  <2> DEFINE f == [j \in 0 .. n |-> IF j = 0 THEN x ELSE mid(j)]
  <2>1. f[0] = x /\ \A j \in 1 .. n : f[j] = mid(j)
    BY <1>2
  <2>2. QED
    BY <2>1
<1>6. ASSUME NEW j \in 1 .. n PROVE y[j] = StepScan(y[j - 1], b[j])
  <2>1. CASE j = 1
    <3>1. y[1] = mid(1) /\ y[1 - 1] = x /\ 1 \in 1 .. n
      BY <1>2, <1>5
    <3>2. PICK l, c : l = SubSeq(b, 1, 1) /\ l = <<c>> /\ c = b[1]
      BY <1>4
    <3>3. mid(1) = Sc("valScalar", k, l, No, No, 1, o)
      BY Zenon, <3>2 DEF mid
    <3>4. c # Space /\ c \notin Opens \cup {Quote}
      BY <1>1, <3>1, <3>2 DEF Delimiter
    <3>5. StepScan(Sc("valueStart", k, v, e, i, d, o), c) = Sc("valScalar", k, l, No, No, 1, o)
      <4>1. l = <<c>> /\ c # Space /\ c \notin Opens \cup {Quote}
        BY Zenon, <3>2, <3>4
      <4>2. QED
        BY <4>1, ValueStartIs
    <3>6. StepScan(x, c) = mid(1)
      BY Zenon, <3>3, <3>5
    <3>7. QED
      BY <2>1, <3>1, <3>2, <3>6
  <2>2. CASE j # 1
    <3>1. j \in 1 .. n /\ j - 1 \in 1 .. n
      BY <1>2, <2>2
    <3>2. PICK p, c : p = SubSeq(b, 1, j - 1) /\ c = b[j] /\ c \notin Delimiter
      BY <1>1, <3>1
    <3>3. y[j - 1] = Sc("valScalar", k, p, No, No, 1, o)
      BY Zenon, <1>5, <3>1, <3>2 DEF mid
    <3>4. y[j] = Sc("valScalar", k, Append(p, c), No, No, 1, o)
      BY Zenon, <1>3, <1>5, <3>1, <3>2 DEF mid
    <3>5. StepScan(Sc("valScalar", k, p, No, No, 1, o), c) = Sc("valScalar", k, Append(p, c), No, No, 1, o)
      BY <3>2, ScalarIs
    <3>6. QED
      BY Zenon, <3>2, <3>3, <3>4, <3>5
  <2>3. QED
    BY <2>1, <2>2
<1>7. RunTo(y, x, b, mid(n))
  <2>1. Runs(y, b, Len(b))
    BY <1>6 DEF Runs, n
  <2>2. n \in 1 .. n
    BY <1>2
  <2>3. QED
    BY <1>5, <2>1, <2>2 DEF RunTo, n
<1>8. ASSUME NEW j \in 0 .. n PROVE y[j].out = o
  <2>1. x.out = o
    BY ScIs
  <2>2. mid(j).out = o
    BY ScIs DEF mid
  <2>3. j = 0 \/ j \in 1 .. n
    BY <1>2
  <2>4. QED
    BY <1>5, <2>1, <2>2, <2>3
<1>9. \A j \in 0 .. Len(b) : y[j].out = o
  BY <1>8 DEF n
<1>10. Scanned(x, b) = mid(n) /\ Silent(x, b, o)
  BY Zenon, <1>7, <1>9, RunIs
<1>11. mid(n) = Sc("valScalar", k, b, No, No, 1, o)
  BY Zenon, <1>4 DEF mid
<1>12. QED
  BY Zenon, <1>10, <1>11

\* Bytes that lead from one scanner to another and tell nothing on the way.
Passes(x, b, y, o) == Silent(x, b, o) /\ Scanned(x, b) = y
\* Bytes that tell something at one of them.
Tells(x, b, o, p, r) == \A k \in 0 .. Len(b) : Trace(x, b, k).out = IF p <= k THEN r ELSE o

LEMMA PassesBoth ==
  ASSUME NEW x, NEW y, NEW z, NEW o, NEW a \in Seq(Byte), NEW b \in Seq(Byte), Passes(x, a, y, o), Passes(y, b, z, o)
  PROVE  Passes(x, a \o b, z, o) /\ a \o b \in Seq(Byte)
<1>1. /\ a \o b \in Seq(Byte) /\ Len(a \o b) = Len(a) + Len(b) /\ Len(a) \in Nat /\ Len(b) \in Nat
      /\ \A k \in 0 .. Len(a) : Trace(x, a \o b, k) = Trace(x, a, k)
      /\ \A k \in 0 .. Len(b) : Trace(x, a \o b, Len(a) + k) = Trace(Scanned(x, a), b, k)
      /\ Scanned(x, a \o b) = Scanned(Scanned(x, a), b)
  <2>1. Len(a) \in Nat /\ Len(b) \in Nat
    OBVIOUS
  <2>2. QED
    BY <2>1, TraceBoth
<1>2. /\ Scanned(x, a) = y /\ Scanned(y, b) = z
      /\ (\A k \in 0 .. Len(a) : Trace(x, a, k).out = o) /\ \A k \in 0 .. Len(b) : Trace(y, b, k).out = o
  BY DEF Passes, Silent
<1>3. ASSUME NEW k \in 0 .. Len(a \o b) PROVE Trace(x, a \o b, k).out = o
  <2>1. CASE k <= Len(a)
    <3>1. k \in 0 .. Len(a)
      BY <1>1, <2>1
    <3>2. QED
      BY <1>1, <1>2, <3>1
  <2>2. CASE ~(k <= Len(a))
    <3>1. k - Len(a) \in 0 .. Len(b) /\ Len(a) + (k - Len(a)) = k
      BY <1>1, <2>2
    <3>2. Trace(x, a \o b, Len(a) + (k - Len(a))) = Trace(y, b, k - Len(a))
      BY <1>1, <1>2, <3>1
    <3>3. Trace(y, b, k - Len(a)).out = o
      BY <1>2, <3>1
    <3>4. QED
      BY Zenon, <3>1, <3>2, <3>3
  <2>3. QED
    BY <2>1, <2>2
<1>4. QED
  BY <1>1, <1>2, <1>3 DEF Passes, Silent

LEMMA TellsBehind ==
  ASSUME NEW x, NEW y, NEW o, NEW a \in Seq(Byte), NEW b \in Seq(Byte), Passes(x, a, y, o),
         NEW p \in Nat, p # 0, NEW r, Tells(y, b, o, p, r)
  PROVE  Tells(x, a \o b, o, Len(a) + p, r)
<1>1. /\ a \o b \in Seq(Byte) /\ Len(a \o b) = Len(a) + Len(b) /\ Len(a) \in Nat /\ Len(b) \in Nat
      /\ \A k \in 0 .. Len(a) : Trace(x, a \o b, k) = Trace(x, a, k)
      /\ \A k \in 0 .. Len(b) : Trace(x, a \o b, Len(a) + k) = Trace(Scanned(x, a), b, k)
  <2>1. Len(a) \in Nat /\ Len(b) \in Nat
    OBVIOUS
  <2>2. QED
    BY <2>1, TraceBoth
<1>2. /\ Scanned(x, a) = y /\ (\A k \in 0 .. Len(a) : Trace(x, a, k).out = o)
      /\ \A k \in 0 .. Len(b) : Trace(y, b, k).out = IF p <= k THEN r ELSE o
  BY DEF Passes, Silent, Tells
<1>3. ASSUME NEW k \in 0 .. Len(a \o b) PROVE Trace(x, a \o b, k).out = IF Len(a) + p <= k THEN r ELSE o
  <2>1. CASE k <= Len(a)
    <3>1. k \in 0 .. Len(a) /\ ~(Len(a) + p <= k)
      BY <1>1, <2>1
    <3>2. QED
      BY <1>1, <1>2, <3>1
  <2>2. CASE ~(k <= Len(a))
    <3>1. k - Len(a) \in 0 .. Len(b) /\ Len(a) + (k - Len(a)) = k /\ (Len(a) + p <= k <=> p <= k - Len(a))
      BY <1>1, <2>2
    <3>2. Trace(x, a \o b, Len(a) + (k - Len(a))) = Trace(y, b, k - Len(a))
      BY <1>1, <1>2, <3>1
    <3>3. Trace(y, b, k - Len(a)).out = IF p <= k - Len(a) THEN r ELSE o
      BY <1>2, <3>1
    <3>4. QED
      BY Zenon, <3>1, <3>2, <3>3
  <2>3. QED
    BY <2>1, <2>2
<1>4. QED
  BY <1>3 DEF Tells

LEMMA TellsAhead ==
  ASSUME NEW x, NEW y, NEW z, NEW o, NEW r, NEW a \in Seq(Byte), a # <<>>, NEW b \in Seq(Byte),
         Waits(x, a, o), Scanned(x, a) = y, Passes(y, b, z, r)
  PROVE  Tells(x, a \o b, o, Len(a), r)
<1>1. /\ a \o b \in Seq(Byte) /\ Len(a \o b) = Len(a) + Len(b) /\ Len(a) \in Nat /\ Len(b) \in Nat /\ Len(a) # 0
      /\ \A k \in 0 .. Len(a) : Trace(x, a \o b, k) = Trace(x, a, k)
      /\ \A k \in 0 .. Len(b) : Trace(x, a \o b, Len(a) + k) = Trace(Scanned(x, a), b, k)
  <2>1. Len(a) # 0
    OBVIOUS
  <2>2. QED
    BY <2>1, TraceBoth
<1>2. /\ Scanned(x, a) = y /\ (\A k \in 0 .. Len(a) - 1 : Trace(x, a, k).out = o)
      /\ \A k \in 0 .. Len(b) : Trace(y, b, k).out = r
  BY DEF Passes, Silent, Waits
<1>3. ASSUME NEW k \in 0 .. Len(a \o b) PROVE Trace(x, a \o b, k).out = IF Len(a) <= k THEN r ELSE o
  <2>1. CASE k < Len(a)
    <3>1. k \in 0 .. Len(a) /\ k \in 0 .. Len(a) - 1 /\ ~(Len(a) <= k)
      BY <1>1, <2>1
    <3>2. QED
      BY <1>1, <1>2, <3>1
  <2>2. CASE ~(k < Len(a))
    <3>1. k - Len(a) \in 0 .. Len(b) /\ Len(a) + (k - Len(a)) = k /\ Len(a) <= k
      BY <1>1, <2>2
    <3>2. Trace(x, a \o b, Len(a) + (k - Len(a))) = Trace(y, b, k - Len(a))
      BY <1>1, <1>2, <3>1
    <3>3. Trace(y, b, k - Len(a)).out = r
      BY <1>2, <3>1
    <3>4. QED
      BY Zenon, <3>1, <3>2, <3>3
  <2>3. QED
    BY <2>1, <2>2
<1>4. QED
  BY <1>3 DEF Tells

\* One byte, and bytes that change nothing.
LEMMA OneByte ==
  ASSUME NEW x, NEW y, NEW o, NEW c \in Byte, NEW b, b = <<c>>, StepScan(x, c) = y, x.out = o, y.out = o
  PROVE  Passes(x, b, y, o) /\ b \in Seq(Byte)
<1>1. b \in Seq(Byte) /\ Len(b) = 1 /\ b[1] = c
  OBVIOUS
<1>2. PICK f : f[0] = x /\ f[1] = y
  <2> DEFINE g == [k \in 0 .. 1 |-> IF k = 0 THEN x ELSE y]
  <2>1. g[0] = x /\ g[1] = y
    OBVIOUS
  <2>2. QED
    BY <2>1
<1>3. \A i \in 1 .. 1 : i = 1 /\ i - 1 = 0
  OBVIOUS
<1>4. RunTo(f, x, b, y)
  BY <1>1, <1>2, <1>3 DEF RunTo, Runs
<1>5. \A j \in 0 .. Len(b) : f[j].out = o
  <2>1. \A j \in 0 .. 1 : j = 0 \/ j = 1
    OBVIOUS
  <2>2. QED
    BY <1>1, <1>2, <2>1
<1>6. QED
  <2>1. b \in Seq(Byte)
    BY <1>1
  <2>2. Scanned(x, b) = y /\ Silent(x, b, o)
    BY Zenon, <1>4, <1>5, <2>1, RunIs
  <2>3. QED
    BY <2>1, <2>2 DEF Passes

LEMMA StillPasses ==
  ASSUME NEW x, NEW o, x.out = o, NEW b \in Seq(Byte), \A i \in 1 .. Len(b) : StepScan(x, b[i]) = x
  PROVE  Passes(x, b, x, o)
<1>1. Scanned(x, b) = x /\ \A k \in 0 .. Len(b) : Trace(x, b, k) = x
  BY Still
<1>2. QED
  BY <1>1 DEF Passes, Silent

LEMMA GapPasses ==
  ASSUME NEW x, NEW o, x.out = o, NEW gap \in Seq({Space}), Space \in Byte, StepScan(x, Space) = x
  PROVE  Passes(x, gap, x, o) /\ gap \in Seq(Byte)
<1>1. gap \in Seq(Byte) /\ \A i \in 1 .. Len(gap) : gap[i] = Space
  <2>1. {Space} \subseteq Byte
    OBVIOUS
  <2>2. \A i \in 1 .. Len(gap) : gap[i] = Space
    OBVIOUS
  <2>3. gap \in Seq(Byte)
    BY <2>1
  <2>4. QED
    BY <2>2, <2>3
<1>2. QED
  BY <1>1, StillPasses

\* Two scanners that the first byte makes one.
LEMMA FirstSame ==
  ASSUME NEW x, NEW y, NEW o, NEW r, NEW z, NEW b \in Seq(Byte), b # <<>>, StepScan(x, b[1]) = StepScan(y, b[1]),
         x.out = o, Passes(y, b, z, r)
  PROVE  Tells(x, b, o, 1, r) /\ Scanned(x, b) = z
<1>1. Len(b) \in Nat /\ Len(b) >= 1
  OBVIOUS
<1>2. /\ Trace(x, b, 0) = x /\ Trace(x, b, Len(b)) = Scanned(x, b)
      /\ \A k \in 1 .. Len(b) : Trace(x, b, k) = StepScan(Trace(x, b, k - 1), b[k])
  BY TraceSteps
<1>3. /\ Trace(y, b, 0) = y /\ Trace(y, b, Len(b)) = Scanned(y, b)
      /\ \A k \in 1 .. Len(b) : Trace(y, b, k) = StepScan(Trace(y, b, k - 1), b[k])
  BY TraceSteps
<1>4. ASSUME NEW k \in 1 .. Len(b) PROVE Trace(x, b, k) = Trace(y, b, k)
  <2> DEFINE G == {j \in Nat : j = 0 \/ Trace(x, b, j) = Trace(y, b, j)}
  <2>1. 0 \in G
    OBVIOUS
  <2>2. ASSUME NEW j \in 1 .. k, j - 1 \in G PROVE j \in G
    <3>1. j \in 1 .. Len(b) /\ j \in Nat /\ (j - 1 = 0 => j = 1)
      BY <1>1
    <3>2. CASE j = 1
      <4>1. Trace(x, b, 1) = StepScan(x, b[1]) /\ Trace(y, b, 1) = StepScan(y, b[1])
        <5>1. 1 \in 1 .. Len(b) /\ 1 - 1 = 0
          BY <1>1
        <5>2. QED
          BY <1>2, <1>3, <5>1
      <4>2. QED
        BY <3>1, <3>2, <4>1
    <3>3. CASE j # 1
      <4>1. Trace(x, b, j - 1) = Trace(y, b, j - 1)
        BY <2>2, <3>1, <3>3
      <4>2. QED
        BY <1>2, <1>3, <3>1, <4>1
    <3>4. QED
      BY <3>2, <3>3
  <2> HIDE DEF G
  <2>3. k \in Nat /\ k # 0
    BY <1>1
  <2>4. k \in G
    BY <2>1, <2>2, <2>3, UpTo
  <2>5. QED
    BY <2>3, <2>4 DEF G
<1>5. Scanned(y, b) = z /\ \A k \in 0 .. Len(b) : Trace(y, b, k).out = r
  BY DEF Passes, Silent
<1>6. Scanned(x, b) = z
  <2>1. Len(b) \in 1 .. Len(b)
    BY <1>1
  <2>2. QED
    BY <1>2, <1>3, <1>4, <1>5, <2>1
<1>7. ASSUME NEW k \in 0 .. Len(b) PROVE Trace(x, b, k).out = IF 1 <= k THEN r ELSE o
  <2>1. CASE k = 0
    BY <1>2, <2>1
  <2>2. CASE k # 0
    <3>1. k \in 1 .. Len(b) /\ 1 <= k
      BY <1>1, <2>2
    <3>2. QED
      BY <1>4, <1>5, <3>1
  <2>3. QED
    BY <2>1, <2>2
<1>8. QED
  BY <1>6, <1>7 DEF Tells

LEMMA BytesThere ==
  /\ Quote \in Byte /\ Space \in Byte /\ Comma \in Byte /\ Colon \in Byte /\ Junk \in Byte /\ Brace \in Byte
  /\ EndBrace \in Byte /\ Comma # Space /\ EndBrace # Space /\ Junk # Space /\ Comma # EndBrace
  /\ Junk # Comma /\ Junk # EndBrace
<1>1. Opens \cup Shuts \cup {Quote, Escape, Space, ",", ":", "x"} \subseteq Byte
  BY LegalTurns
<1>2. /\ Quote \in Byte /\ Space \in Byte /\ Comma \in Byte /\ Colon \in Byte /\ Junk \in Byte
  BY Zenon, <1>1 DEF Comma, Colon, Junk
<1>3. Brace \in Byte /\ EndBrace \in Byte
  BY Zenon, <1>1 DEF Brace, EndBrace, Opens, Shuts
<1>4. /\ Comma # Space /\ EndBrace # Space /\ Junk # Space /\ Comma # EndBrace /\ Junk # Comma /\ Junk # EndBrace
  BY Zenon DEF Comma, EndBrace, Junk, Space
<1>5. QED
  BY <1>2, <1>3, <1>4

\* A member up to its value.
Lead(raw, gap) == <<Quote>> \o raw \o <<Quote>> \o gap \o <<Colon>> \o gap

LEMMA LeadRead ==
  ASSUME NEW raw \in Seq(Byte), NEW gap \in Seq({Space}), Closes(<<Quote>> \o raw \o <<Quote>>),
         NEW k, NEW v, NEW e, NEW i, NEW d, NEW o, NEW x, x = Sc("keyOrEnd", k, v, e, i, d, o)
  PROVE  Passes(x, Lead(raw, gap), Sc("valueStart", raw, v, No, i, d, o), o) /\ Lead(raw, gap) \in Seq(Byte)
<1>1. PICK q, c : q = <<Quote>> \o raw \o <<Quote>> /\ c = <<Colon>>
  OBVIOUS
<1>2. PICK y, z : y = Sc("colon", raw, v, No, i, d, o) /\ z = Sc("valueStart", raw, v, No, i, d, o)
  OBVIOUS
<1>3. Lead(raw, gap) = ((q \o gap) \o c) \o gap
  BY <1>1 DEF Lead
<1>4. Quote \in Byte /\ Space \in Byte /\ Colon \in Byte
  BY BytesThere
<1>5. y.out = o /\ z.out = o
  BY <1>2, ScIs
<1>6. q \in Seq(Byte)
  BY <1>1, <1>4, ThreeRuns
<1>7. Passes(x, q, y, o)
  <2>1. Closes(q) /\ Quoted(q, raw)
    BY <1>1 DEF Quoted
  <2>2. Silent(x, q, o) /\ Scanned(x, q) = Sc("colon", raw, v, No, i, d, o)
    BY <1>4, <1>6, <2>1, KeyRead
  <2>3. QED
    BY Zenon, <1>2, <2>2 DEF Passes
<1>8. StepScan(y, Space) = y /\ StepScan(y, Colon) = z /\ StepScan(z, Space) = z
  BY <1>2, ColonIs
<1>9. Passes(y, gap, y, o) /\ Passes(z, gap, z, o) /\ gap \in Seq(Byte)
  BY <1>4, <1>5, <1>8, GapPasses
<1>10. Passes(y, c, z, o) /\ c \in Seq(Byte)
  BY <1>1, <1>4, <1>5, <1>8, OneByte
<1>11. Passes(x, q \o gap, y, o) /\ q \o gap \in Seq(Byte)
  BY <1>6, <1>7, <1>9, PassesBoth
<1>12. Passes(x, (q \o gap) \o c, z, o) /\ (q \o gap) \o c \in Seq(Byte)
  BY <1>10, <1>11, PassesBoth
<1>13. Passes(x, ((q \o gap) \o c) \o gap, z, o) /\ ((q \o gap) \o c) \o gap \in Seq(Byte)
  BY <1>9, <1>12, PassesBoth
<1>14. QED
  BY Zenon, <1>2, <1>3, <1>13

\* Where a scanner is, and what it has told.
At(y, w, o) == \E k, v, e, i, d : y = Sc(w, k, v, e, i, d, o)

LEMMA AtIs == ASSUME NEW y, NEW w, NEW o, At(y, w, o) PROVE y.state = w /\ y.out = o
<1>1. PICK k, v, e, i, d : y = Sc(w, k, v, e, i, d, o)
  BY DEF At
<1>2. QED
  BY <1>1, ScIs

LEMMA AtBy == ASSUME NEW y, NEW w, NEW k, NEW v, NEW e, NEW i, NEW d, NEW o, y = Sc(w, k, v, e, i, d, o) PROVE At(y, w, o)
  BY DEF At

\* What follows a member.
LEMMA AtKeyOrEnd ==
  ASSUME NEW y, NEW o, At(y, "keyOrEnd", o)
  PROVE  StepScan(y, Space) = y /\ At(StepScan(y, EndBrace), "done", o)
<1>1. PICK k, v, e, i, d : y = Sc("keyOrEnd", k, v, e, i, d, o)
  BY DEF At
<1>2. StepScan(y, Space) = y /\ StepScan(y, EndBrace) = Sc("done", k, v, e, i, d, o)
  BY <1>1, KeyOrEndIs
<1>3. QED
  BY <1>2, AtBy

LEMMA AtAfterValue ==
  ASSUME NEW y, NEW o, At(y, "afterValue", o)
  PROVE  /\ StepScan(y, Space) = y /\ At(StepScan(y, Comma), "keyOrEnd", o)
         /\ At(StepScan(y, EndBrace), "done", o) /\ At(StepScan(y, Junk), "dead", o)
<1>1. PICK k, v, e, i, d : y = Sc("afterValue", k, v, e, i, d, o)
  BY DEF At
<1> DEFINE z(w) == Sc(w, k, v, e, i, d, o)
<1>2. \A c : StepScan(y, c) = AfterValue(y, c)
  BY <1>1, BehindIs
<1>3. \A c : AfterValue(y, c) = IF "afterValue" = "dead" \/ c = Space THEN z("afterValue")
           ELSE IF c = Comma THEN z("keyOrEnd") ELSE IF c = EndBrace THEN z("done") ELSE z("dead")
  BY <1>1, AfterValueIs
<1>4. At(z("keyOrEnd"), "keyOrEnd", o) /\ At(z("done"), "done", o) /\ At(z("dead"), "dead", o)
  BY AtBy
<1> HIDE DEF z
<1>5. y = z("afterValue")
  BY <1>1 DEF z
<1>6. StepScan(y, Space) = y /\ StepScan(y, Comma) = z("keyOrEnd") /\ StepScan(y, EndBrace) = z("done") /\ StepScan(y, Junk) = z("dead")
  BY <1>2, <1>3, <1>5, BytesThere
<1>7. QED
  BY <1>4, <1>6

LEMMA AtRest ==
  ASSUME NEW y, NEW o, NEW w, w \in {"done", "dead"}, At(y, w, o), NEW b \in Seq(Byte)
  PROVE  Passes(y, b, y, o)
<1>1. PICK k, v, e, i, d : y = Sc(w, k, v, e, i, d, o)
  BY DEF At
<1>2. \A c : StepScan(y, c) = y
  BY <1>1, BehindIs
<1>3. y.out = o
  BY AtIs
<1>4. QED
  BY <1>2, <1>3, StillPasses

LEMMA BetweenIs ==
  ASSUME NEW t, NEW i
  PROVE  Between(t, i) = IF i = t.broken THEN <<Space, Junk>>
                         ELSE t.gap \o (IF i < Len(t.members) THEN <<Comma>> ELSE <<EndBrace>>) \o t.gap
  BY Zenon DEF Between, Comma, EndBrace, Junk

LEMMA MemberIs ==
  ASSUME NEW m, NEW gap
  PROVE  Member(m, gap) = Lead(m.key, gap) \o m.value
  BY Zenon DEF Member, Lead, Colon

\* Where a scan is behind a member.
Next2(t, i) == IF i = t.broken THEN "dead" ELSE IF i < Len(t.members) THEN "keyOrEnd" ELSE "done"

LEMMA BetweenRead ==
  ASSUME NEW t, t.gap \in Seq({Space}), NEW i, NEW y, NEW o, At(y, "afterValue", o)
  PROVE  /\ \E z : Passes(y, Between(t, i), z, o) /\ At(z, Next2(t, i), o)
         /\ Between(t, i) \in Seq(Byte) /\ Between(t, i) # <<>> /\ Between(t, i)[1] \in Delimiter
<1>1. /\ StepScan(y, Space) = y /\ At(StepScan(y, Comma), "keyOrEnd", o)
      /\ At(StepScan(y, EndBrace), "done", o) /\ At(StepScan(y, Junk), "dead", o)
  BY AtAfterValue
<1>2. y.out = o
  BY AtIs
<1>3. /\ Quote \in Byte /\ Space \in Byte /\ Comma \in Byte /\ Junk \in Byte /\ EndBrace \in Byte
  BY BytesThere
<1>4. CASE i = t.broken
  <2>1. PICK a, b : a = <<Space>> /\ b = <<Junk>>
    OBVIOUS
  <2>2. Between(t, i) = a \o b
    <3>1. Between(t, i) = <<Space, Junk>>
      BY <1>4, BetweenIs
    <3>2. a \o b = <<Space, Junk>>
      <4>1. /\ a \in Seq(Byte) /\ b \in Seq(Byte) /\ Len(a) = 1 /\ Len(b) = 1 /\ a[1] = Space /\ b[1] = Junk
        BY <1>3, <2>1
      <4>2. PICK ab : ab = a \o b
        OBVIOUS
      <4>3. /\ ab \in Seq(Byte) /\ Len(ab) = Len(a) + Len(b)
            /\ (\A j \in 1 .. Len(a) : ab[j] = a[j]) /\ \A j \in 1 .. Len(b) : ab[Len(a) + j] = b[j]
        <5>1. a \in Seq(Byte) /\ b \in Seq(Byte)
          BY <4>1
        <5>2. /\ a \o b \in Seq(Byte) /\ Len(a \o b) = Len(a) + Len(b)
              /\ (\A j \in 1 .. Len(a) : (a \o b)[j] = a[j]) /\ \A j \in 1 .. Len(b) : (a \o b)[Len(a) + j] = b[j]
          BY <5>1, Concatenated
        <5>3. QED
          BY Zenon, <4>2, <5>2
      <4>4. ab \in Seq(Byte) /\ Len(ab) = 2 /\ ab[1] = Space /\ ab[2] = Junk
        <5>1. 1 \in 1 .. 1 /\ 1 + 1 = 2
          OBVIOUS
        <5>2. QED
          BY <4>1, <4>3, <5>1
      <4>5. ab = <<Space, Junk>>
        BY <4>4
      <4>6. QED
        BY <4>2, <4>5
    <3>3. QED
      BY <3>1, <3>2
  <2>3. Passes(y, a, y, o) /\ a \in Seq(Byte)
    BY <1>1, <1>2, <1>3, <2>1, OneByte
  <2>4. PICK z : z = StepScan(y, Junk) /\ At(z, "dead", o)
    BY <1>1
  <2>5. z.out = o
    BY <2>4, AtIs
  <2>6. Passes(y, b, z, o) /\ b \in Seq(Byte)
    BY <1>2, <1>3, <2>1, <2>4, <2>5, OneByte
  <2>7. Passes(y, a \o b, z, o) /\ a \o b \in Seq(Byte)
    BY <2>3, <2>6, PassesBoth
  <2>8. a \o b # <<>> /\ (a \o b)[1] = Space
    BY <2>1
  <2>9. Next2(t, i) = "dead"
    BY <1>4 DEF Next2
  <2>10. QED
    BY <2>2, <2>4, <2>7, <2>8, <2>9 DEF Delimiter
<1>5. CASE i # t.broken
  <2>1. PICK gap, c, w : gap = t.gap /\ c = (IF i < Len(t.members) THEN Comma ELSE EndBrace)
                         /\ w = (IF i < Len(t.members) THEN "keyOrEnd" ELSE "done")
    OBVIOUS
  <2>2. PICK b : b = <<c>>
    OBVIOUS
  <2>3. Between(t, i) = (gap \o b) \o gap
    BY <1>5, <2>1, <2>2, BetweenIs
  <2>4. PICK z : z = StepScan(y, c)
    OBVIOUS
  <2>5. At(z, w, o) /\ c \in Byte /\ c \in Delimiter /\ Next2(t, i) = w
    BY <1>1, <1>3, <1>5, <2>1, <2>4 DEF Next2, Delimiter
  <2>6. z.out = o
    BY <2>5, AtIs
  <2>7. Passes(y, gap, y, o) /\ gap \in Seq(Byte)
    <3>1. gap \in Seq({Space})
      BY <2>1
    <3>2. QED
      BY <1>1, <1>2, <1>3, <3>1, GapPasses
  <2>8. Passes(y, b, z, o) /\ b \in Seq(Byte)
    BY <1>2, <2>2, <2>4, <2>5, <2>6, OneByte
  <2>9. Passes(z, gap, z, o)
    <3>1. CASE w = "keyOrEnd"
      <4>1. StepScan(z, Space) = z
        BY <2>5, <3>1, AtKeyOrEnd
      <4>2. gap \in Seq({Space})
        BY <2>1
      <4>3. QED
        BY <1>3, <2>6, <4>1, <4>2, GapPasses
    <3>2. CASE w # "keyOrEnd"
      <4>1. w \in {"done", "dead"}
        BY <2>1, <3>2
      <4>2. QED
        BY <2>5, <2>7, <4>1, AtRest
    <3>3. QED
      BY <3>1, <3>2
  <2>10. Passes(y, gap \o b, z, o) /\ gap \o b \in Seq(Byte)
    BY <2>7, <2>8, PassesBoth
  <2>11. Passes(y, (gap \o b) \o gap, z, o) /\ (gap \o b) \o gap \in Seq(Byte)
    BY <2>7, <2>9, <2>10, PassesBoth
  <2>12. (gap \o b) \o gap # <<>> /\ ((gap \o b) \o gap)[1] \in Delimiter
    <3>1. gap \in Seq({Space}) /\ b \in Seq({c}) /\ Len(b) = 1 /\ b[1] = c /\ Len(gap) \in Nat
      BY <2>1, <2>2
    <3>2. /\ Len(gap \o b) = Len(gap) + 1 /\ gap \o b \in Seq(Byte)
          /\ (\A j \in 1 .. Len(gap) : (gap \o b)[j] = gap[j]) /\ \A j \in 1 .. 1 : (gap \o b)[Len(gap) + j] = b[j]
      BY <2>7, <2>8, <3>1, Concatenated
    <3>3. Len((gap \o b) \o gap) = (Len(gap) + 1) + Len(gap) /\ \A j \in 1 .. Len(gap) + 1 : ((gap \o b) \o gap)[j] = (gap \o b)[j]
      <4>1. PICK gb : gb = gap \o b
        OBVIOUS
      <4>2. gb \in Seq(Byte) /\ Len(gb) = Len(gap) + 1
        BY <3>2, <4>1
      <4>3. Len(gb \o gap) = Len(gb) + Len(gap) /\ \A j \in 1 .. Len(gb) : (gb \o gap)[j] = gb[j]
        <5>1. gb \in Seq(Byte) /\ gap \in Seq(Byte)
          BY <2>7, <4>2
        <5>2. QED
          BY <5>1, Concatenated
      <4>4. QED
        BY Zenon, <4>1, <4>2, <4>3
    <3>4. ((gap \o b) \o gap)[1] = (gap \o b)[1] /\ (gap \o b) \o gap # <<>>
      <4>1. 1 \in 1 .. Len(gap) + 1 /\ (Len(gap) + 1) + Len(gap) # 0
        BY <3>1
      <4>2. ((gap \o b) \o gap)[1] = (gap \o b)[1] /\ Len((gap \o b) \o gap) # 0
        BY <3>3, <4>1
      <4>3. QED
        BY <4>2
    <3>5. CASE Len(gap) = 0
      <4>1. 1 \in 1 .. 1 /\ Len(gap) + 1 = 1
        BY <3>5
      <4>2. (gap \o b)[1] = c
        BY <3>1, <3>2, <4>1
      <4>3. QED
        BY <2>5, <3>4, <4>2
    <3>6. CASE Len(gap) # 0
      <4>1. 1 \in 1 .. Len(gap)
        BY <3>1, <3>6
      <4>2. gap[1] = Space
        BY <3>1, <4>1
      <4>3. QED
        BY <3>2, <3>4, <4>1, <4>2 DEF Delimiter
    <3>7. QED
      BY <3>5, <3>6
  <2>13. QED
    BY <2>3, <2>5, <2>11, <2>12
<1>6. QED
  BY <1>4, <1>5

Pair(raw, v) == [key |-> Decoded(raw), value |-> v]

LEMMA CompletedIs ==
  ASSUME NEW w, NEW k, NEW v, NEW e, NEW i, NEW d, NEW o, NEW y, y = Complete(Sc(w, k, v, e, i, d, o))
  PROVE  /\ Decodes(k) => At(y, "afterValue", Append(o, Pair(k, v)))
         /\ ~Decodes(k) => At(y, "dead", o)
<1>1. y = IF Decodes(k) THEN Sc("afterValue", k, v, e, i, d, Append(o, Pair(k, v))) ELSE Sc("dead", k, v, e, i, d, o)
  BY CompleteIs DEF Pair
<1>2. QED
  BY <1>1, AtBy

LEMMA BetweenBytes ==
  ASSUME NEW t, t.gap \in Seq({Space}), NEW i
  PROVE  Between(t, i) \in Seq(Byte) /\ Between(t, i) # <<>> /\ Between(t, i)[1] \in Delimiter
<1>1. PICK y : At(y, "afterValue", 0)
  BY AtBy
<1>2. QED
  BY <1>1, BetweenRead

\* Behind a value that is whole.
LEMMA WholeRead ==
  ASSUME NEW t, t.gap \in Seq({Space}), NEW i,
         NEW w, NEW k, NEW v, NEW e, NEW f, NEW d, NEW o, NEW y, y = Complete(Sc(w, k, v, e, f, d, o)),
         NEW r, r = IF Decodes(k) THEN Append(o, Pair(k, v)) ELSE o
  PROVE  \E z : Passes(y, Between(t, i), z, r) /\ At(z, IF Decodes(k) THEN Next2(t, i) ELSE "dead", r)
<1>1. CASE Decodes(k)
  <2>1. At(y, "afterValue", r)
    BY <1>1, CompletedIs
  <2>2. QED
    BY <1>1, <2>1, BetweenRead
<1>2. CASE ~Decodes(k)
  <2>1. At(y, "dead", r)
    BY <1>2, CompletedIs
  <2>2. Passes(y, Between(t, i), y, r)
    BY <2>1, AtRest, BetweenBytes
  <2>3. QED
    BY <1>2, <2>1, <2>2
<1>3. QED
  BY <1>1, <1>2

\* Behind one that its delimiter completes, that is what the scanner is told at the delimiter.
LEMMA DelimiterIs ==
  ASSUME NEW k, NEW v, NEW e, NEW f, NEW d, NEW o, NEW c, c \in Delimiter,
         NEW x, x = Sc("valScalar", k, v, e, f, d, o)
  PROVE  StepScan(x, c) = StepScan(Complete(x), c)
<1>1. StepScan(x, c) = AfterValue(Complete(x), c)
  BY ScalarIs
<1>2. CASE Decodes(k)
  <2>1. Complete(x) = Sc("afterValue", k, v, e, f, d, Append(o, [key |-> Decoded(k), value |-> v]))
    BY <1>2, CompleteIs
  <2>2. PICK r : Complete(x) = Sc("afterValue", k, v, e, f, d, r)
    BY <2>1
  <2>3. QED
    BY <1>1, <2>2, BehindIs
<1>3. CASE ~Decodes(k)
  <2>1. PICK y : y = Sc("dead", k, v, e, f, d, o)
    OBVIOUS
  <2>2. Complete(x) = y
    <3>1. PICK z : z = Sc("afterValue", k, v, e, f, d, Append(o, [key |-> Decoded(k), value |-> v]))
      OBVIOUS
    <3>2. Complete(Sc("valScalar", k, v, e, f, d, o)) = IF Decodes(k) THEN z ELSE y
      BY <2>1, <3>1, CompleteIs
    <3>3. QED
      BY <1>3, <3>2
  <2>3. StepScan(y, c) = y
    BY <2>1, BehindIs
  <2>4. AfterValue(y, c) = y
    BY <2>1, AfterValueIs
  <2>5. QED
    BY <1>1, <2>2, <2>3, <2>4
<1>4. QED
  BY <1>2, <1>3

LEMMA Associates ==
  ASSUME NEW S, NEW a \in Seq(S), NEW b \in Seq(S), NEW c \in Seq(S)
  PROVE  (a \o b) \o c = a \o (b \o c)
  BY ConcatAssociative

\* From a value's beginning to the next member.
LEMMA ValueRead ==
  ASSUME NEW t, t.gap \in Seq({Space}), NEW i, NEW b \in Seq(Byte), Closes(b) \/ Plain(b),
         NEW k, NEW v, NEW e, NEW f, NEW d, NEW o, NEW u, u = Sc("valueStart", k, v, e, f, d, o),
         NEW r, r = IF Decodes(k) THEN Append(o, Pair(k, b)) ELSE o,
         NEW p, p = Len(b) + (IF b[1] \in Opens \cup {Quote} THEN 0 ELSE 1)
  PROVE  /\ b # <<>> /\ Tells(u, b \o Between(t, i), o, p, r)
         /\ At(Scanned(u, b \o Between(t, i)), IF Decodes(k) THEN Next2(t, i) ELSE "dead", r)
<1>1. PICK bt : bt = Between(t, i)
  OBVIOUS
<1>2. bt \in Seq(Byte) /\ bt # <<>> /\ bt[1] \in Delimiter
  BY <1>1, BetweenBytes
<1>3. PICK next2 : next2 = IF Decodes(k) THEN Next2(t, i) ELSE "dead"
  OBVIOUS
<1>4. Scanned(u, b \o bt) = Scanned(Scanned(u, b), bt)
  BY <1>2, TraceBoth
<1>5. CASE b[1] \in Opens \cup {Quote}
  <2>1. Closes(b) /\ b # <<>>
    BY <1>5, PlainIs DEF Closes
  <2>2. \E w, n : Waits(u, b, o) /\ Scanned(u, b) = Complete(Sc(w, k, b, No, No, n, o))
    <3>1. CASE b[1] = Quote
      BY <2>1, <3>1, StringRead
    <3>2. CASE b[1] \in Opens
      BY <2>1, <3>2, NestedRead
    <3>3. QED
      BY <1>5, <3>1, <3>2
  <2>3. PICK w, n, y : Waits(u, b, o) /\ Scanned(u, b) = y /\ y = Complete(Sc(w, k, b, No, No, n, o))
    BY <2>2
  <2>4. PICK z : Passes(y, bt, z, r) /\ At(z, next2, r)
    BY <1>1, <1>3, <2>3, WholeRead
  <2>5. Tells(u, b \o bt, o, Len(b), r)
    BY <1>2, <2>1, <2>3, <2>4, TellsAhead
  <2>6. Scanned(u, b \o bt) = z
    BY <1>4, <2>3, <2>4 DEF Passes
  <2>7. p = Len(b)
    BY <1>5
  <2>8. QED
    BY <1>1, <1>3, <2>1, <2>4, <2>5, <2>6, <2>7
<1>6. CASE b[1] \notin Opens \cup {Quote}
  <2>1. Plain(b) /\ b # <<>>
    BY <1>6, PlainIs DEF Closes
  <2>2. PICK x : x = Sc("valScalar", k, b, No, No, 1, o)
    OBVIOUS
  <2>3. Passes(u, b, x, o)
    BY <2>1, <2>2, PlainRead DEF Passes
  <2>4. PICK y : y = Complete(x)
    OBVIOUS
  <2>5. PICK z : Passes(y, bt, z, r) /\ At(z, next2, r)
    BY <1>1, <1>3, <2>2, <2>4, WholeRead
  <2>6. StepScan(x, bt[1]) = StepScan(y, bt[1])
    BY <1>2, <2>2, <2>4, DelimiterIs
  <2>7. x.out = o
    BY <2>2, ScIs
  <2>8. Tells(x, bt, o, 1, r) /\ Scanned(x, bt) = z
    BY <1>2, <2>5, <2>6, <2>7, FirstSame
  <2>9. 1 \in Nat /\ 1 # 0
    OBVIOUS
  <2>10. Tells(u, b \o bt, o, Len(b) + 1, r)
    BY <1>2, <2>3, <2>8, <2>9, TellsBehind
  <2>11. Scanned(u, b \o bt) = z
    BY <1>4, <2>3, <2>8 DEF Passes
  <2>12. p = Len(b) + 1
    BY <1>6
  <2>13. QED
    BY <1>1, <1>3, <2>1, <2>5, <2>10, <2>11, <2>12
<1>7. QED
  BY <1>5, <1>6

\* A member's bytes and those behind it.
LEMMA MemberRead ==
  ASSUME NEW t, t.gap \in Seq({Space}), NEW i, NEW m, LegalMember(m),
         NEW o, NEW x, At(x, "keyOrEnd", o), NEW b, b = Member(m, t.gap) \o Between(t, i),
         NEW r, r = IF Decodes(m.key) THEN Append(o, Pair(m.key, m.value)) ELSE o,
         NEW p, p = Len(Member(m, t.gap)) + (IF m.value[1] \in Opens \cup {Quote} THEN 0 ELSE 1)
  PROVE  /\ b \in Seq(Byte) /\ p \in 1 .. Len(b) /\ Tells(x, b, o, p, r)
         /\ At(Scanned(x, b), IF Decodes(m.key) THEN Next2(t, i) ELSE "dead", r)
<1>1. /\ m.key \in Seq(Byte) /\ m.value \in Seq(Byte) /\ Closes(<<Quote>> \o m.key \o <<Quote>>)
      /\ (Closes(m.value) \/ Plain(m.value))
  BY DEF LegalMember
<1>2. PICK raw, val, gap, bt : raw = m.key /\ val = m.value /\ gap = t.gap /\ bt = Between(t, i)
  OBVIOUS
<1>3. PICK k, v, e, f, d : x = Sc("keyOrEnd", k, v, e, f, d, o)
  BY DEF At
<1>4. PICK u : u = Sc("valueStart", raw, v, No, f, d, o)
  OBVIOUS
<1>5. PICK ld : ld = Lead(raw, gap)
  OBVIOUS
<1>6. Passes(x, ld, u, o) /\ ld \in Seq(Byte)
  <2>1. raw \in Seq(Byte) /\ gap \in Seq({Space}) /\ Closes(<<Quote>> \o raw \o <<Quote>>)
    BY <1>1, <1>2
  <2>2. Passes(x, Lead(raw, gap), Sc("valueStart", raw, v, No, f, d, o), o) /\ Lead(raw, gap) \in Seq(Byte)
    BY <1>3, <2>1, LeadRead
  <2>3. QED
    BY Zenon, <1>4, <1>5, <2>2
<1>7. bt \in Seq(Byte) /\ bt # <<>>
  BY <1>2, BetweenBytes
<1>8. val \in Seq(Byte) /\ (Closes(val) \/ Plain(val))
  BY <1>1, <1>2
<1>9. PICK q : q = Len(val) + (IF val[1] \in Opens \cup {Quote} THEN 0 ELSE 1)
  OBVIOUS
<1>10. r = IF Decodes(raw) THEN Append(o, Pair(raw, val)) ELSE o
  BY <1>2
<1>11. /\ val # <<>> /\ Tells(u, val \o bt, o, q, r)
       /\ At(Scanned(u, val \o bt), IF Decodes(raw) THEN Next2(t, i) ELSE "dead", r)
  <2>1. /\ val # <<>> /\ Tells(u, val \o Between(t, i), o, q, r)
        /\ At(Scanned(u, val \o Between(t, i)), IF Decodes(raw) THEN Next2(t, i) ELSE "dead", r)
    BY <1>4, <1>8, <1>9, <1>10, ValueRead
  <2>2. QED
    BY Zenon, <1>2, <2>1
<1>12. PICK vb, n : vb = val \o bt /\ n = Len(val)
  OBVIOUS
<1>13. /\ vb \in Seq(Byte) /\ Len(vb) = n + Len(bt) /\ n \in Nat /\ n # 0
       /\ Len(bt) \in Nat /\ Len(bt) # 0 /\ Len(ld) \in Nat
  BY <1>6, <1>7, <1>8, <1>11, <1>12
<1>14. b = ld \o vb
  <2>1. b = (ld \o val) \o bt
    <3>1. Member(m, t.gap) = ld \o val
      BY Zenon, <1>2, <1>5, MemberIs
    <3>2. QED
      BY Zenon, <1>2, <3>1
  <2>2. (ld \o val) \o bt = ld \o (val \o bt)
    <3>1. ld \in Seq(Byte) /\ val \in Seq(Byte) /\ bt \in Seq(Byte)
      BY <1>6, <1>7, <1>8
    <3>2. QED
      BY SMTT(30), <3>1, Associates
  <2>3. QED
    BY <1>12, <2>1, <2>2
<1>15. q \in Nat /\ q # 0 /\ q <= Len(vb)
  BY <1>9, <1>12, <1>13
<1>16. p = Len(ld) + q
  <2>1. Len(Member(m, t.gap)) = Len(ld) + n
    <3>1. Member(m, t.gap) = ld \o val
      BY Zenon, <1>2, <1>5, MemberIs
    <3>2. Len(ld \o val) = Len(ld) + Len(val)
      BY <1>6, <1>8, Concatenated
    <3>3. QED
      BY <1>12, <3>1, <3>2
  <2>2. PICK e1 : e1 = IF val[1] \in Opens \cup {Quote} THEN 0 ELSE 1
    OBVIOUS
  <2>3. p = (Len(ld) + n) + e1 /\ q = n + e1 /\ e1 \in Int
    BY <1>2, <1>9, <1>12, <2>1, <2>2
  <2>4. n \in Nat /\ Len(ld) \in Nat
    BY <1>13
  <2>5. QED
    BY <2>3, <2>4
<1>17. ld \o vb \in Seq(Byte) /\ Len(ld \o vb) = Len(ld) + Len(vb) /\ Scanned(x, ld \o vb) = Scanned(u, vb)
  <2>0. ld \in Seq(Byte) /\ vb \in Seq(Byte)
    BY <1>6, <1>13
  <2>1. /\ ld \o vb \in Seq(Byte) /\ Len(ld \o vb) = Len(ld) + Len(vb)
        /\ Scanned(x, ld \o vb) = Scanned(Scanned(x, ld), vb)
    BY <2>0, TraceBoth
  <2>2. QED
    BY <1>6, <2>1 DEF Passes
<1>18. Tells(x, ld \o vb, o, Len(ld) + q, r)
  BY <1>6, <1>11, <1>12, <1>13, <1>15, TellsBehind
<1>19. Tells(x, b, o, p, r) /\ b \in Seq(Byte)
  BY <1>14, <1>16, <1>17, <1>18
<1>20. p \in 1 .. Len(b)
  <2>1. Len(b) = Len(ld) + Len(vb)
    BY <1>14, <1>17
  <2>2. Len(vb) \in Nat
    BY <1>13
  <2>3. QED
    BY <1>13, <1>15, <1>16, <2>1, <2>2
<1>21. At(Scanned(x, b), IF Decodes(m.key) THEN Next2(t, i) ELSE "dead", r)
  BY Zenon, <1>2, <1>11, <1>12, <1>14, <1>17
<1>22. QED
  BY <1>19, <1>20, <1>21

\* What a scan tells of a text, as far as it has come: the members that were complete by then.
Mems == [key : {Decoded(k) : k \in Seq(Byte)}, value : Seq(Byte)]
Known(at, k, m)   == \A j \in 1 .. Len(at) : at[j] <= k <=> j <= m
OutAt(bytes, k)   == Trace(NewScanner, bytes, k).out
Reports(bytes, members, at) ==
  /\ bytes \in Seq(Byte) /\ members \in Seq(Mems) /\ at \in Seq(Nat) /\ Len(at) = Len(members)
  /\ \A j \in 1 .. Len(at) : at[j] \in 1 .. Len(bytes)
  /\ \A k \in 0 .. Len(bytes) : \E m \in 0 .. Len(members) :
       OutAt(bytes, k) = SubSeq(members, 1, m) /\ Known(at, k, m)

LEMMA ReportsNone ==
  ASSUME NEW b \in Seq(Byte), NEW y, Passes(NewScanner, b, y, <<>>), NEW none, none = <<>>
  PROVE  Reports(b, none, none)
<1>1. none \in Seq(Mems) /\ none \in Seq(Nat) /\ Len(none) = 0 /\ SubSeq(none, 1, 0) = none
  OBVIOUS
<1>2. \A k \in 0 .. Len(b) : OutAt(b, k) = none
  BY DEF Passes, Silent, OutAt
<1>3. \A k \in 0 .. Len(b) : Known(none, k, 0)
  BY <1>1 DEF Known
<1>4. 0 \in 0 .. Len(none) /\ \A j \in 1 .. Len(none) : FALSE
  BY <1>1
<1>5. QED
  BY <1>1, <1>2, <1>3, <1>4 DEF Reports

LEMMA ReportsQuiet ==
  ASSUME NEW a, NEW ms, NEW at, Reports(a, ms, at), NEW x, x = Scanned(NewScanner, a),
         NEW b \in Seq(Byte), NEW y, Passes(x, b, y, ms)
  PROVE  Reports(a \o b, ms, at)
<1>1. /\ a \in Seq(Byte) /\ ms \in Seq(Mems) /\ at \in Seq(Nat) /\ Len(at) = Len(ms)
      /\ \A j \in 1 .. Len(at) : at[j] \in 1 .. Len(a)
      /\ \A k \in 0 .. Len(a) : \E m \in 0 .. Len(ms) : OutAt(a, k) = SubSeq(ms, 1, m) /\ Known(at, k, m)
  BY DEF Reports
<1>2. PICK ab : ab = a \o b
  OBVIOUS
<1>3. /\ ab \in Seq(Byte) /\ Len(ab) = Len(a) + Len(b) /\ Len(a) \in Nat /\ Len(b) \in Nat
      /\ (\A k \in 0 .. Len(a) : Trace(NewScanner, ab, k) = Trace(NewScanner, a, k))
      /\ \A k \in 0 .. Len(b) : Trace(NewScanner, ab, Len(a) + k) = Trace(x, b, k)
  <2>1. a \in Seq(Byte) /\ Len(a) \in Nat /\ Len(b) \in Nat
    BY <1>1
  <2>2. /\ a \o b \in Seq(Byte) /\ Len(a \o b) = Len(a) + Len(b)
        /\ (\A k \in 0 .. Len(a) : Trace(NewScanner, a \o b, k) = Trace(NewScanner, a, k))
        /\ \A k \in 0 .. Len(b) : Trace(NewScanner, a \o b, Len(a) + k) = Trace(Scanned(NewScanner, a), b, k)
    BY <2>1, TraceBoth
  <2>3. QED
    BY Zenon, <1>2, <2>1, <2>2
<1>4. \A k \in 0 .. Len(b) : Trace(x, b, k).out = ms
  BY DEF Passes, Silent
<1>5. ASSUME NEW j \in 1 .. Len(at) PROVE at[j] \in 1 .. Len(ab)
  <2>1. at[j] \in 1 .. Len(a)
    BY <1>1
  <2>2. QED
    BY <1>3, <2>1
<1>6. ASSUME NEW k \in 0 .. Len(ab)
      PROVE  \E m \in 0 .. Len(ms) : OutAt(ab, k) = SubSeq(ms, 1, m) /\ Known(at, k, m)
  <2>1. CASE k <= Len(a)
    <3>1. k \in 0 .. Len(a)
      BY <1>3, <2>1
    <3>2. OutAt(ab, k) = OutAt(a, k)
      BY <1>3, <3>1 DEF OutAt
    <3>3. QED
      BY <1>1, <3>1, <3>2
  <2>2. CASE ~(k <= Len(a))
    <3>1. k - Len(a) \in 0 .. Len(b) /\ Len(a) + (k - Len(a)) = k
      BY <1>3, <2>2
    <3>2. Trace(NewScanner, ab, Len(a) + (k - Len(a))) = Trace(x, b, k - Len(a))
      BY <1>3, <3>1
    <3>3. Trace(x, b, k - Len(a)).out = ms
      BY <1>4, <3>1
    <3>4. OutAt(ab, k) = ms
      BY Zenon, <3>1, <3>2, <3>3 DEF OutAt
    <3>5. SubSeq(ms, 1, Len(ms)) = ms /\ Len(ms) \in Nat /\ Len(ms) \in 0 .. Len(ms)
      BY <1>1
    <3>6. Known(at, k, Len(ms))
      <4>1. ASSUME NEW j \in 1 .. Len(at) PROVE at[j] <= k /\ j <= Len(ms)
        <5>1. at[j] \in 1 .. Len(a)
          BY <1>1
        <5>2. at[j] <= k
          BY <1>3, <2>2, <5>1
        <5>3. j <= Len(ms)
          BY <1>1
        <5>4. QED
          BY <5>2, <5>3
      <4>2. QED
        BY <4>1 DEF Known
    <3>7. QED
      BY <3>4, <3>5, <3>6
  <2>3. QED
    BY <2>1, <2>2
<1>7. Reports(ab, ms, at)
  BY <1>1, <1>3, <1>5, <1>6 DEF Reports
<1>8. QED
  BY <1>2, <1>7

LEMMA ReportsMore ==
  ASSUME NEW a, NEW ms, NEW at, Reports(a, ms, at), NEW x, x = Scanned(NewScanner, a),
         NEW b \in Seq(Byte), NEW mem \in Mems, NEW p \in 1 .. Len(b), Tells(x, b, ms, p, Append(ms, mem))
  PROVE  Reports(a \o b, Append(ms, mem), Append(at, Len(a) + p))
<1>1. /\ a \in Seq(Byte) /\ ms \in Seq(Mems) /\ at \in Seq(Nat) /\ Len(at) = Len(ms)
      /\ \A j \in 1 .. Len(at) : at[j] \in 1 .. Len(a)
      /\ \A k \in 0 .. Len(a) : \E m \in 0 .. Len(ms) : OutAt(a, k) = SubSeq(ms, 1, m) /\ Known(at, k, m)
  BY DEF Reports
<1>2. PICK ab, ms1, at1, n : ab = a \o b /\ ms1 = Append(ms, mem) /\ at1 = Append(at, Len(a) + p) /\ n = Len(ms)
  OBVIOUS
<1>3. /\ ab \in Seq(Byte) /\ Len(ab) = Len(a) + Len(b) /\ Len(a) \in Nat /\ Len(b) \in Nat
      /\ (\A k \in 0 .. Len(a) : Trace(NewScanner, ab, k) = Trace(NewScanner, a, k))
      /\ \A k \in 0 .. Len(b) : Trace(NewScanner, ab, Len(a) + k) = Trace(x, b, k)
  <2>1. a \in Seq(Byte) /\ Len(a) \in Nat /\ Len(b) \in Nat
    BY <1>1
  <2>2. /\ a \o b \in Seq(Byte) /\ Len(a \o b) = Len(a) + Len(b)
        /\ (\A k \in 0 .. Len(a) : Trace(NewScanner, a \o b, k) = Trace(NewScanner, a, k))
        /\ \A k \in 0 .. Len(b) : Trace(NewScanner, a \o b, Len(a) + k) = Trace(Scanned(NewScanner, a), b, k)
    BY <2>1, TraceBoth
  <2>3. QED
    BY Zenon, <1>2, <2>1, <2>2
<1>4. \A k \in 0 .. Len(b) : Trace(x, b, k).out = IF p <= k THEN ms1 ELSE ms
  BY <1>2 DEF Tells
<1>5. /\ ms1 \in Seq(Mems) /\ Len(ms1) = n + 1 /\ n \in Nat /\ SubSeq(ms1, 1, n + 1) = ms1
      /\ SubSeq(ms, 1, n) = ms /\ \A m \in 0 .. n : SubSeq(ms1, 1, m) = SubSeq(ms, 1, m)
  BY <1>1, <1>2
<1>6. at1 \in Seq(Nat) /\ Len(at1) = n + 1 /\ at1[n + 1] = Len(a) + p /\ \A j \in 1 .. n : at1[j] = at[j]
  <2>1. PICK y : y = Len(a) + p
    OBVIOUS
  <2>2. y \in Nat
    BY <1>3, <2>1
  <2>3. at \in Seq(Nat) /\ Len(at) = n /\ at1 = Append(at, y)
    BY <1>1, <1>2, <2>1
  <2>4. at1 \in Seq(Nat) /\ Len(at1) = n + 1 /\ at1[n + 1] = y /\ \A j \in 1 .. n : at1[j] = at[j]
    BY <2>2, <2>3
  <2>5. QED
    BY <2>1, <2>4
<1>7. ASSUME NEW j \in 1 .. n PROVE at1[j] \in 1 .. Len(a)
  BY <1>1, <1>2, <1>6
<1>8. ASSUME NEW j \in 1 .. n + 1 PROVE at1[j] \in 1 .. Len(ab)
  <2>1. CASE j = n + 1
    BY <1>3, <1>6, <2>1
  <2>2. CASE j # n + 1
    <3>1. j \in 1 .. n
      BY <1>5, <2>2
    <3>2. at1[j] \in 1 .. Len(a)
      BY <1>7, <3>1
    <3>3. QED
      BY <1>3, <3>2
  <2>3. QED
    BY <2>1, <2>2
<1>9. ASSUME NEW k \in 0 .. Len(ab)
      PROVE  \E m \in 0 .. n + 1 : OutAt(ab, k) = SubSeq(ms1, 1, m) /\ Known(at1, k, m)
  <2>1. CASE k <= Len(a)
    <3>1. k \in 0 .. Len(a) /\ k \in Int
      BY <1>3, <2>1
    <3>2. OutAt(ab, k) = OutAt(a, k)
      BY <1>3, <3>1 DEF OutAt
    <3>3. PICK m \in 0 .. n : OutAt(a, k) = SubSeq(ms, 1, m) /\ Known(at, k, m)
      BY <1>1, <1>2, <3>1
    <3>4. Known(at1, k, m)
      <4>1. ASSUME NEW j \in 1 .. n + 1 PROVE at1[j] <= k <=> j <= m
        <5>1. CASE j = n + 1
          <6>1. ~(at1[j] <= k) /\ ~(j <= m)
            BY <1>3, <1>5, <1>6, <2>1, <3>1, <5>1
          <6>2. QED
            BY <6>1
        <5>2. CASE j # n + 1
          <6>0. Len(at) = n /\ n \in Nat
            BY <1>1, <1>2, <1>5
          <6>1. j \in 1 .. n /\ j \in 1 .. Len(at)
            BY <5>2, <6>0
          <6>2. QED
            BY <1>6, <3>3, <6>1 DEF Known
        <5>3. QED
          BY <5>1, <5>2
      <4>2. QED
        BY <1>6, <4>1 DEF Known
    <3>5. m \in 0 .. n + 1
      BY <1>5
    <3>6. QED
      BY <1>5, <3>2, <3>3, <3>4, <3>5
  <2>2. CASE ~(k <= Len(a))
    <3>1. k - Len(a) \in 0 .. Len(b) /\ Len(a) + (k - Len(a)) = k /\ k \in Nat
      BY <1>3, <2>2
    <3>2. Trace(NewScanner, ab, Len(a) + (k - Len(a))) = Trace(x, b, k - Len(a))
      BY <1>3, <3>1
    <3>3. Trace(x, b, k - Len(a)).out = IF p <= k - Len(a) THEN ms1 ELSE ms
      BY <1>4, <3>1
    <3>4. OutAt(ab, k) = IF p <= k - Len(a) THEN ms1 ELSE ms
      BY Zenon, <3>1, <3>2, <3>3 DEF OutAt
    <3>5. \A j \in 1 .. n : at1[j] <= k /\ j <= n /\ j <= n + 1
      <4>1. ASSUME NEW j \in 1 .. n PROVE at1[j] <= k /\ j <= n /\ j <= n + 1
        <5>1. at1[j] \in 1 .. Len(a)
          BY <1>7
        <5>2. at1[j] <= k
          BY <1>3, <2>2, <3>1, <5>1
        <5>3. QED
          BY <1>5, <5>2
      <4>2. QED
        BY <4>1
    <3>6. p <= k - Len(a) <=> at1[n + 1] <= k
      BY <1>3, <1>6, <3>1
    <3>7. n \in 0 .. n + 1 /\ n + 1 \in 0 .. n + 1 /\ n + 1 <= n + 1 /\ ~(n + 1 <= n) /\ \A j \in 1 .. n + 1 : j \in 1 .. n \/ j = n + 1
      BY <1>5
    <3>8. CASE p <= k - Len(a)
      <4>1. Known(at1, k, n + 1)
        BY <1>6, <3>5, <3>6, <3>7, <3>8 DEF Known
      <4>2. OutAt(ab, k) = SubSeq(ms1, 1, n + 1)
        BY <1>5, <3>4, <3>8
      <4>3. QED
        BY <3>7, <4>1, <4>2
    <3>9. CASE ~(p <= k - Len(a))
      <4>1. Known(at1, k, n)
        BY <1>6, <3>5, <3>6, <3>7, <3>9 DEF Known
      <4>2. OutAt(ab, k) = SubSeq(ms1, 1, n)
        <5>1. n \in 0 .. n
          BY <1>5
        <5>2. QED
          BY <1>5, <3>4, <3>9, <5>1
      <4>3. QED
        BY <3>7, <4>1, <4>2
    <3>10. QED
      BY <3>8, <3>9
  <2>3. QED
    BY <2>1, <2>2
<1>10. Reports(ab, ms1, at1)
  BY <1>3, <1>5, <1>6, <1>8, <1>9 DEF Reports
<1>11. QED
  BY <1>2, <1>10

LEMMA MemberBytes ==
  ASSUME NEW t, t.gap \in Seq({Space}), NEW i, NEW m, LegalMember(m)
  PROVE  /\ Member(m, t.gap) \in Seq(Byte) /\ Between(t, i) \in Seq(Byte)
         /\ Member(m, t.gap) \o Between(t, i) \in Seq(Byte) /\ Pair(m.key, m.value) \in Mems
<1>1. PICK raw, val, gap : raw = m.key /\ val = m.value /\ gap = t.gap
  OBVIOUS
<1>2. raw \in Seq(Byte) /\ val \in Seq(Byte) /\ gap \in Seq({Space}) /\ Closes(<<Quote>> \o raw \o <<Quote>>)
  BY <1>1 DEF LegalMember
<1>3. PICK x : x = Sc("keyOrEnd", <<>>, <<>>, No, No, 0, <<>>)
  OBVIOUS
<1>4. Lead(raw, gap) \in Seq(Byte)
  BY <1>2, <1>3, LeadRead
<1>5. Member(m, t.gap) = Lead(raw, gap) \o val
  BY Zenon, <1>1, MemberIs
<1>6. Lead(raw, gap) \o val \in Seq(Byte)
  BY <1>2, <1>4, Concatenated
<1>7. Between(t, i) \in Seq(Byte)
  BY BetweenBytes
<1>8. PICK mb, bt : mb = Member(m, t.gap) /\ bt = Between(t, i)
  OBVIOUS
<1>9. mb \in Seq(Byte) /\ bt \in Seq(Byte)
  BY <1>5, <1>6, <1>7, <1>8
<1>10. mb \o bt \in Seq(Byte)
  BY <1>9, Concatenated
<1>11. Pair(m.key, m.value) \in Mems
  <2>1. Decoded(raw) \in {Decoded(k) : k \in Seq(Byte)}
    BY <1>2
  <2>2. [key |-> Decoded(raw), value |-> val] \in [key : {Decoded(k) : k \in Seq(Byte)}, value : Seq(Byte)]
    BY <1>2, <2>1
  <2>3. QED
    BY Zenon, <1>1, <2>2 DEF Pair, Mems
<1>12. QED
  BY <1>8, <1>9, <1>10, <1>11

\* Whether a scan is told of member i, and where it is behind it.
Alive(t, i) == (\A j \in 1 .. i : Decodes(t.members[j].key)) /\ \A j \in 1 .. i - 1 : j # t.broken
Stands(t, i) == IF ~Alive(t, i) THEN "dead" ELSE IF i = 0 THEN "keyOrEnd" ELSE Next2(t, i)

LEMMA AliveOn ==
  ASSUME NEW t, NEW n \in Nat, Len(t.members) = n, NEW i \in 1 .. n
  PROVE  /\ Alive(t, 0)
         /\ Stands(t, i - 1) \in {"dead", "keyOrEnd"}
         /\ Stands(t, i - 1) = "dead" => ~Alive(t, i)
         /\ Stands(t, i - 1) = "keyOrEnd" => (Alive(t, i) <=> Decodes(t.members[i].key))
<1>1. Alive(t, 0)
  BY DEF Alive
<1>2. i - 1 \in 0 .. n /\ i \in Nat /\ i - 1 < n /\ (i - 1 # 0 => i - 1 \in 1 .. i - 1)
  OBVIOUS
<1>3. Alive(t, i) <=> Alive(t, i - 1) /\ (i - 1 = 0 \/ i - 1 # t.broken) /\ Decodes(t.members[i].key)
  <2>1. \A j \in 1 .. i : j \in 1 .. i - 1 \/ j = i
    BY <1>2
  <2>2. \A j \in 1 .. i - 1 : j \in 1 .. i /\ (j \in 1 .. (i - 1) - 1 \/ j = i - 1) /\ j # 0
    BY <1>2
  <2>3. i \in 1 .. i /\ \A j \in 1 .. (i - 1) - 1 : j \in 1 .. i - 1
    BY <1>2
  <2>4. QED
    BY <1>2, <2>1, <2>2, <2>3 DEF Alive
<1>4. Next2(t, i - 1) = IF i - 1 = t.broken THEN "dead" ELSE "keyOrEnd"
  BY <1>2 DEF Next2
<1>5. Stands(t, i - 1) = IF Alive(t, i - 1) /\ (i - 1 = 0 \/ i - 1 # t.broken) THEN "keyOrEnd" ELSE "dead"
  BY <1>1, <1>4 DEF Stands
<1>6. QED
  BY <1>1, <1>3, <1>5

\* The bytes of a member that a scan has to read to know it whole.
WholeAt(m, gap) == Len(Member(m, gap)) + (IF m.value[1] \in Opens \cup {Quote} THEN 0 ELSE 1)

Joins(after, before, t, i) ==
  /\ after.bytes = before.bytes \o (Member(t.members[i], t.gap) \o Between(t, i))
  /\ after.members = IF Alive(t, i) THEN Append(before.members, Pair(t.members[i].key, t.members[i].value)) ELSE before.members
  /\ after.at = IF Alive(t, i) THEN Append(before.at, Len(before.bytes) + WholeAt(t.members[i], t.gap)) ELSE before.at

LEMMA JoinedIs ==
  ASSUME NEW t, NEW i, NEW before, before.bytes \in Seq(Byte), Member(t.members[i], t.gap) \in Seq(Byte), Between(t, i) \in Seq(Byte)
  PROVE  Joins(Joined(before, t, i), before, t, i)
<1>0. PICK m, mb, bt, p : /\ m = t.members[i] /\ mb = Member(t.members[i], t.gap) /\ bt = Between(t, i)
                          /\ p = WholeAt(t.members[i], t.gap)
  OBVIOUS
<1>9. mb \in Seq(Byte) /\ bt \in Seq(Byte) /\ p = Len(mb) + (IF m.value[1] \in Opens \cup {Quote} THEN 0 ELSE 1)
  BY Zenon, <1>0 DEF WholeAt
<1>1. PICK pb, e : pb = before.bytes /\ e = IF m.value[1] \in Opens \cup {Quote} THEN 0 ELSE 1
  OBVIOUS
<1>2. pb \in Seq(Byte)
  BY <1>1
<1>3. (pb \o mb) \o bt = pb \o (mb \o bt)
  <2>1. mb \in Seq(Byte) /\ bt \in Seq(Byte)
    BY <1>9
  <2>2. QED
    BY SMTT(30), <1>2, <2>1, Associates
<1>4. Len(pb \o mb) + e = Len(pb) + p
  <2>1. p = Len(mb) + e /\ e \in Int
    BY <1>1, <1>9
  <2>2. Len(pb \o mb) = Len(pb) + Len(mb) /\ Len(pb) \in Nat /\ Len(mb) \in Nat
    BY <1>2, <1>9, Concatenated
  <2>3. PICK l, j, k : l = Len(pb \o mb) /\ j = Len(pb) /\ k = Len(mb)
    OBVIOUS
  <2>4. l = j + k /\ j \in Nat /\ k \in Nat /\ p = k + e
    BY Zenon, <2>1, <2>2, <2>3
  <2>5. l + e = j + p
    BY <2>1, <2>4
  <2>6. QED
    BY <2>3, <2>5
<1>5. PICK bytes, members, at :
        /\ bytes = (pb \o mb) \o bt
        /\ members = IF Alive(t, i) THEN Append(before.members, Pair(m.key, m.value)) ELSE before.members
        /\ at = IF Alive(t, i) THEN Append(before.at, Len(pb \o mb) + e) ELSE before.at
  OBVIOUS
<1>6. Joined(before, t, i) = [bytes |-> bytes, members |-> members, at |-> at]
  BY Zenon, <1>0, <1>1, <1>5 DEF Joined, Alive, Pair
<1>7. Joined(before, t, i).bytes = bytes /\ Joined(before, t, i).members = members /\ Joined(before, t, i).at = at
  BY <1>6
<1>8. QED
  BY Zenon, <1>0, <1>1, <1>3, <1>4, <1>5, <1>7 DEF Joins

\* A text with a member more is told as it should be when the text before it is.
LEMMA JoinedIsTold ==
  ASSUME NEW t, LegalText(t), NEW n, n = Len(t.members), NEW i \in 1 .. n,
         NEW pb, NEW pm, NEW pa, Reports(pb, pm, pa), At(Scanned(NewScanner, pb), Stands(t, i - 1), pm),
         NEW before, before.bytes = pb, before.members = pm, before.at = pa,
         NEW after, after = Joined(before, t, i)
  PROVE  /\ Reports(after.bytes, after.members, after.at)
         /\ At(Scanned(NewScanner, after.bytes), Stands(t, i), after.members)
<1>1. t.gap \in Seq({Space}) /\ n \in Nat /\ LegalMember(t.members[i])
  BY DEF LegalText
<1>2. PICK m : m = t.members[i]
  OBVIOUS
<1>3. LegalMember(m)
  BY <1>1, <1>2
<1>4. PICK mb, bt, b : mb = Member(m, t.gap) /\ bt = Between(t, i) /\ b = mb \o bt
  OBVIOUS
<1>5. mb \in Seq(Byte) /\ bt \in Seq(Byte) /\ b \in Seq(Byte) /\ Pair(m.key, m.value) \in Mems
  <2>1. /\ Member(m, t.gap) \in Seq(Byte) /\ Between(t, i) \in Seq(Byte)
        /\ Member(m, t.gap) \o Between(t, i) \in Seq(Byte) /\ Pair(m.key, m.value) \in Mems
    BY <1>1, <1>3, MemberBytes
  <2>2. QED
    BY Zenon, <1>4, <2>1
<1>6. PICK mem, p : mem = Pair(m.key, m.value) /\ p = Len(mb) + (IF m.value[1] \in Opens \cup {Quote} THEN 0 ELSE 1)
  OBVIOUS
<1>7. pb \in Seq(Byte)
  BY DEF Reports
<1>8. /\ after.bytes = pb \o b
      /\ after.members = IF Alive(t, i) THEN Append(pm, mem) ELSE pm
      /\ after.at = IF Alive(t, i) THEN Append(pa, Len(pb) + p) ELSE pa
  <2>1. /\ before.bytes \in Seq(Byte) /\ Member(t.members[i], t.gap) \in Seq(Byte) /\ Between(t, i) \in Seq(Byte)
    BY Zenon, <1>2, <1>4, <1>5, <1>7
  <2>2. Joins(after, before, t, i)
    BY <2>1, JoinedIs
  <2>3. WholeAt(t.members[i], t.gap) = p
    BY Zenon, <1>2, <1>4, <1>6 DEF WholeAt
  <2>4. QED
    BY Zenon, <1>2, <1>4, <1>6, <2>2, <2>3 DEF Joins
<1>9. PICK x : x = Scanned(NewScanner, pb)
  OBVIOUS
<1>10. Scanned(NewScanner, pb \o b) = Scanned(x, b)
  BY <1>5, <1>7, <1>9, TraceBoth
<1>11. /\ Stands(t, i - 1) \in {"dead", "keyOrEnd"}
       /\ Stands(t, i - 1) = "dead" => ~Alive(t, i)
       /\ Stands(t, i - 1) = "keyOrEnd" => (Alive(t, i) <=> Decodes(m.key))
  BY <1>1, <1>2, AliveOn
<1>12. i # 0
  OBVIOUS
<1>13. CASE Stands(t, i - 1) = "dead"
  <2>1. At(x, "dead", pm) /\ ~Alive(t, i)
    BY <1>9, <1>11, <1>13
  <2>2. Passes(x, b, x, pm)
    BY <1>5, <2>1, AtRest
  <2>3. Reports(pb \o b, pm, pa)
    BY <1>5, <1>9, <2>2, ReportsQuiet
  <2>4. Scanned(x, b) = x /\ Stands(t, i) = "dead"
    BY <2>1, <2>2 DEF Passes, Stands
  <2>5. after.bytes = pb \o b /\ after.members = pm /\ after.at = pa
    BY <1>8, <2>1
  <2>6. QED
    BY Zenon, <1>10, <2>1, <2>3, <2>4, <2>5
<1>14. CASE Stands(t, i - 1) = "keyOrEnd"
  <2>1. At(x, "keyOrEnd", pm) /\ (Alive(t, i) <=> Decodes(m.key))
    BY <1>9, <1>11, <1>14
  <2>2. PICK r : r = IF Decodes(m.key) THEN Append(pm, mem) ELSE pm
    OBVIOUS
  <2>3. /\ p \in 1 .. Len(b) /\ Tells(x, b, pm, p, r)
        /\ At(Scanned(x, b), IF Decodes(m.key) THEN Next2(t, i) ELSE "dead", r)
    <3>1. b = Member(m, t.gap) \o Between(t, i) /\ r = IF Decodes(m.key) THEN Append(pm, Pair(m.key, m.value)) ELSE pm
      BY Zenon, <1>4, <1>6, <2>2
    <3>2. p = Len(Member(m, t.gap)) + (IF m.value[1] \in Opens \cup {Quote} THEN 0 ELSE 1)
      BY Zenon, <1>4, <1>6
    <3>3. QED
      BY <1>1, <1>3, <2>1, <3>1, <3>2, MemberRead
  <2>4. Stands(t, i) = IF Decodes(m.key) THEN Next2(t, i) ELSE "dead"
    BY <1>12, <2>1 DEF Stands
  <2>5. after.members = r
    BY <1>8, <2>1, <2>2
  <2>6. At(Scanned(NewScanner, after.bytes), Stands(t, i), after.members)
    BY Zenon, <1>8, <1>10, <2>3, <2>4, <2>5
  <2>7. Reports(after.bytes, after.members, after.at)
    <3>1. CASE Decodes(m.key)
      <4>1. r = Append(pm, mem) /\ mem \in Mems
        BY <1>5, <1>6, <2>2, <3>1
      <4>2. Tells(x, b, pm, p, Append(pm, mem))
        BY <2>3, <4>1
      <4>3. Reports(pb \o b, Append(pm, mem), Append(pa, Len(pb) + p))
        BY <1>5, <1>9, <2>3, <4>1, <4>2, ReportsMore
      <4>4. after.bytes = pb \o b /\ after.members = Append(pm, mem) /\ after.at = Append(pa, Len(pb) + p)
        BY <1>8, <2>1, <3>1
      <4>5. QED
        BY Zenon, <4>3, <4>4
    <3>2. CASE ~Decodes(m.key)
      <4>1. r = pm
        BY <2>2, <3>2
      <4>2. Tells(x, b, pm, p, pm)
        BY <2>3, <4>1
      <4>3. Passes(x, b, Scanned(x, b), pm)
        BY <4>2 DEF Passes, Silent, Tells
      <4>4. Reports(pb \o b, pm, pa)
        BY <1>5, <1>9, <4>3, ReportsQuiet
      <4>5. after.bytes = pb \o b /\ after.members = pm /\ after.at = pa
        BY <1>8, <2>1, <3>2
      <4>6. QED
        BY Zenon, <4>4, <4>5
    <3>3. QED
      BY <3>1, <3>2
  <2>8. QED
    BY <2>6, <2>7
<1>15. QED
  BY <1>11, <1>13, <1>14

LEMMA NewIs == ASSUME NEW none, none = <<>> PROVE NewScanner = Sc("start", none, none, No, No, 0, none)
  BY DEF NewScanner, Sc, No

\* The bytes in front of the first member.
LEMMA OpenedRead ==
  ASSUME NEW gap \in Seq({Space}), NEW none, none = <<>>, NEW b, b = <<Brace>>
  PROVE  \E y : Passes(NewScanner, b \o gap, y, none) /\ At(y, "keyOrEnd", none) /\ b \in Seq(Byte) /\ b \o gap \in Seq(Byte)
                /\ Passes(NewScanner, b, y, none)
<1>1. PICK y : y = Sc("keyOrEnd", none, none, No, No, 0, none)
  OBVIOUS
<1>2. PICK x : x = Sc("start", none, none, No, No, 0, none) /\ x = NewScanner
  BY NewIs
<1>3. StepScan(x, Brace) = y /\ At(y, "keyOrEnd", none)
  BY <1>1, <1>2, StartIs, AtBy
<1>4. x.out = none /\ y.out = none
  BY <1>1, <1>2, ScIs
<1>5. Brace \in Byte /\ Space \in Byte
  BY BytesThere
<1>6. Passes(x, b, y, none) /\ b \in Seq(Byte)
  BY <1>3, <1>4, <1>5, OneByte
<1>7. StepScan(y, Space) = y
  BY <1>3, AtKeyOrEnd
<1>8. Passes(y, gap, y, none) /\ gap \in Seq(Byte)
  BY <1>4, <1>5, <1>7, GapPasses
<1>9. Passes(x, b \o gap, y, none) /\ b \o gap \in Seq(Byte)
  BY <1>6, <1>8, PassesBoth
<1>10. QED
  BY <1>2, <1>3, <1>6, <1>9

LEMMA EmptyRead ==
  ASSUME NEW none, none = <<>>, NEW b, b = <<Brace>>, NEW c, c = <<EndBrace>>
  PROVE  Reports(b \o c, none, none)
<1>1. none \in Seq({Space})
  OBVIOUS
<1>2. PICK y : At(y, "keyOrEnd", none) /\ b \in Seq(Byte) /\ Passes(NewScanner, b, y, none)
  BY <1>1, OpenedRead
<1>3. PICK z : z = StepScan(y, EndBrace) /\ At(z, "done", none)
  BY <1>2, AtKeyOrEnd
<1>4. EndBrace \in Byte
  BY BytesThere
<1>5. y.out = none /\ z.out = none
  BY <1>2, <1>3, AtIs
<1>6. Passes(y, c, z, none) /\ c \in Seq(Byte)
  BY <1>3, <1>4, <1>5, OneByte
<1>7. Passes(NewScanner, b \o c, z, none) /\ b \o c \in Seq(Byte)
  BY <1>2, <1>6, PassesBoth
<1>8. QED
  BY <1>7, ReportsNone

\* Of a legal text as written, a scan tells the members it should where it should.
LEMMA WrittenIsTold ==
  ASSUME NEW t, LegalText(t)
  PROVE  Reports(Written(t).bytes, Written(t).members, Written(t).at)
<1>1. PICK n : n = Len(t.members)
  OBVIOUS
<1>2. n \in Nat /\ t.gap \in Seq({Space})
  BY <1>1 DEF LegalText
<1>3. PICK none, b, c : none = <<>> /\ b = <<Brace>> /\ c = <<EndBrace>>
  OBVIOUS
<1>4. CASE n = 0
  <2>1. Reports(b \o c, none, none)
    BY <1>3, EmptyRead
  <2>2. Written(t) = [bytes |-> b \o c, members |-> none, at |-> none]
    BY Zenon, <1>1, <1>3, <1>4 DEF Written, Brace, EndBrace
  <2>3. PICK bc : bc = b \o c
    OBVIOUS
  <2>4. Written(t).bytes = bc /\ Written(t).members = none /\ Written(t).at = none
    <3>1. Written(t) = [bytes |-> bc, members |-> none, at |-> none]
      BY Zenon, <2>2, <2>3
    <3>2. QED
      BY <3>1
  <2>5. QED
    BY Zenon, <2>1, <2>3, <2>4
<1>5. CASE n # 0
  <2>1. PICK f : WrittenBy(t, f) /\ Written(t) = f[n]
    BY <1>1, <1>2, <1>5, WrittenSteps
  <2>2. f[0] = Opened(t) /\ \A i \in 1 .. n : f[i] = Joined(f[i - 1], t, i)
    BY Zenon, <1>1, <2>1 DEF WrittenBy
  <2>3. PICK bg : bg = b \o t.gap
    OBVIOUS
  <2>4. f[0].bytes = bg /\ f[0].members = none /\ f[0].at = none
    <3>1. Opened(t) = [bytes |-> bg, members |-> none, at |-> none]
      BY Zenon, <1>3, <2>3 DEF Opened, Brace
    <3>2. QED
      BY <2>2, <3>1
  <2> DEFINE Good(i) == /\ Reports(f[i].bytes, f[i].members, f[i].at)
                        /\ At(Scanned(NewScanner, f[i].bytes), Stands(t, i), f[i].members)
             G == {i \in Nat : i <= n => Good(i)}
  <2>5. Good(0)
    <3>1. PICK gap : gap = t.gap /\ gap \in Seq({Space})
      BY <1>2
    <3>2. PICK y : Passes(NewScanner, b \o gap, y, none) /\ At(y, "keyOrEnd", none) /\ b \o gap \in Seq(Byte)
      BY <1>3, <3>1, OpenedRead
    <3>3. Passes(NewScanner, bg, y, none) /\ bg \in Seq(Byte)
      BY <2>3, <3>1, <3>2
    <3>4. Reports(bg, none, none)
      BY <1>3, <3>3, ReportsNone
    <3>5. Scanned(NewScanner, bg) = y
      BY <3>3 DEF Passes
    <3>6. Stands(t, 0) = "keyOrEnd"
      BY DEF Stands, Alive
    <3>7. QED
      BY Zenon, <2>4, <3>2, <3>4, <3>5, <3>6
  <2>6. ASSUME NEW i \in 1 .. n, Good(i - 1) PROVE Good(i)
    <3>1. PICK before : before = f[i - 1]
      OBVIOUS
    <3>2. PICK pb, pm, pa : pb = before.bytes /\ pm = before.members /\ pa = before.at
      OBVIOUS
    <3>3. Reports(pb, pm, pa) /\ At(Scanned(NewScanner, pb), Stands(t, i - 1), pm)
      BY Zenon, <2>6, <3>1, <3>2
    <3>4. f[i] = Joined(before, t, i)
      BY Zenon, <2>2, <3>1
    <3> HIDE DEF Good
    <3>5. PICK after : after = Joined(before, t, i)
      OBVIOUS
    <3>6. /\ Reports(after.bytes, after.members, after.at)
          /\ At(Scanned(NewScanner, after.bytes), Stands(t, i), after.members)
      BY <1>1, <3>2, <3>3, <3>5, JoinedIsTold
    <3>7. QED
      BY Zenon, <3>4, <3>5, <3>6 DEF Good
  <2> HIDE DEF Good
  <2>7. 0 \in G /\ \A k \in 1 .. n : k - 1 \in G => k \in G
    <3>1. \A k \in 1 .. n : k \in Nat /\ k - 1 \in Nat /\ k - 1 <= n
      BY <1>2
    <3>2. QED
      BY <2>5, <2>6, <3>1
  <2> HIDE DEF G
  <2>8. n \in G
    BY <1>2, <2>7, UpTo
  <2>9. n <= n
    BY <1>2
  <2>10. Good(n)
    BY <2>8, <2>9 DEF G
  <2>11. QED
    BY Zenon, <2>1, <2>10 DEF Good
<1>6. QED
  BY <1>4, <1>5

\* The states of a scan.
Scanning == {"start", "keyOrEnd", "key", "colon", "valueStart", "valString", "valNested", "valScalar", "afterValue"}
States  == Scanning \cup {"done", "dead"}
LEMMA StatesAre ==
  /\ "start" \in States /\ "keyOrEnd" \in States /\ "key" \in States /\ "colon" \in States /\ "valueStart" \in States
  /\ "valString" \in States /\ "valNested" \in States /\ "valScalar" \in States /\ "afterValue" \in States
  /\ "done" \in States /\ "dead" \in States /\ "nil" \notin States /\ "unseen" \notin States
  BY DEF States, Scanning

\* Two scanners apart in what they have told: one has told q before what the other has.
Typed(k, v, e, i, d) == k \in Seq(Byte) /\ v \in Seq(Byte) /\ e \in {Yes, No} /\ i \in {Yes, No} /\ d \in Int
Apart(x, y, q) ==
  \E w, k, v, e, i, d, o : /\ w \in States /\ Typed(k, v, e, i, d) /\ o \in Seq(Mems)
                           /\ x = Sc(w, k, v, e, i, d, o) /\ y = Sc(w, k, v, e, i, d, q \o o)

LEMMA ApartBy ==
  ASSUME NEW w, w \in States, NEW k, NEW v, NEW e, NEW i, NEW d, Typed(k, v, e, i, d), NEW q, NEW o \in Seq(Mems), NEW p, p = q \o o,
         NEW x, x = Sc(w, k, v, e, i, d, o), NEW y, y = Sc(w, k, v, e, i, d, p)
  PROVE  Apart(x, y, q)
  BY DEF Apart

LEMMA CompleteApart ==
  ASSUME NEW q \in Seq(Mems), NEW o \in Seq(Mems), NEW p, p = q \o o,
         NEW w, NEW k, NEW v, NEW e, NEW i, NEW d, Typed(k, v, e, i, d),
         NEW x, x = Sc(w, k, v, e, i, d, o), NEW y, y = Sc(w, k, v, e, i, d, p)
  PROVE  Apart(Complete(x), Complete(y), q)
<1>1. PICK m, o2, p2 : m = [key |-> Decoded(k), value |-> v] /\ o2 = Append(o, m) /\ p2 = Append(p, m)
  OBVIOUS
<1>2. m \in Mems
  <2>1. k \in Seq(Byte) /\ v \in Seq(Byte)
    BY DEF Typed
  <2>2. Decoded(k) \in {Decoded(j) : j \in Seq(Byte)}
    BY <2>1
  <2>3. [key |-> Decoded(k), value |-> v] \in [key : {Decoded(j) : j \in Seq(Byte)}, value : Seq(Byte)]
    BY <2>1, <2>2
  <2>4. QED
    BY Zenon, <1>1, <2>3 DEF Mems
<1>3. o2 \in Seq(Mems) /\ p2 = q \o o2
  <2>1. Append(o, m) \in Seq(Mems)
    BY <1>2
  <2>2. q \o Append(o, m) = Append(q \o o, m)
    BY <1>2, BehindMore
  <2>3. QED
    BY <1>1, <2>1, <2>2
<1>4. CASE Decodes(k)
  <2>1. Complete(x) = Sc("afterValue", k, v, e, i, d, o2) /\ Complete(y) = Sc("afterValue", k, v, e, i, d, p2)
    <3>1. /\ Complete(x) = Sc("afterValue", k, v, e, i, d, Append(o, [key |-> Decoded(k), value |-> v]))
          /\ Complete(y) = Sc("afterValue", k, v, e, i, d, Append(p, [key |-> Decoded(k), value |-> v]))
      BY <1>4, CompleteIs
    <3>2. QED
      BY Zenon, <1>1, <3>1
  <2>2. QED
    BY <1>3, <2>1, ApartBy, StatesAre
<1>5. CASE ~Decodes(k)
  <2>1. PICK x2, y2 : x2 = Sc("dead", k, v, e, i, d, o) /\ y2 = Sc("dead", k, v, e, i, d, p)
    OBVIOUS
  <2>2. Complete(x) = x2 /\ Complete(y) = y2
    <3>1. PICK a, b : a = Sc("afterValue", k, v, e, i, d, Append(o, [key |-> Decoded(k), value |-> v]))
                      /\ b = Sc("afterValue", k, v, e, i, d, Append(p, [key |-> Decoded(k), value |-> v]))
      OBVIOUS
    <3>2. Complete(x) = (IF Decodes(k) THEN a ELSE x2) /\ Complete(y) = (IF Decodes(k) THEN b ELSE y2)
      BY <2>1, <3>1, CompleteIs
    <3>3. QED
      BY <1>5, <3>2
  <2>3. Apart(x2, y2, q)
    BY <2>1, ApartBy, StatesAre
  <2>4. QED
    BY <2>2, <2>3
<1>6. QED
  BY <1>4, <1>5

LEMMA AfterApart ==
  ASSUME NEW q \in Seq(Mems), NEW x, NEW y, Apart(x, y, q), NEW c
  PROVE  Apart(AfterValue(x, c), AfterValue(y, c), q)
<1>1. PICK w, k, v, e, i, d, o : /\ w \in States /\ Typed(k, v, e, i, d) /\ o \in Seq(Mems)
                                 /\ x = Sc(w, k, v, e, i, d, o) /\ y = Sc(w, k, v, e, i, d, q \o o)
  BY DEF Apart
<1>2. PICK p : p = q \o o
  OBVIOUS
<1>3. PICK w2 : w2 = IF w = "dead" \/ c = Space THEN w ELSE IF c = Comma THEN "keyOrEnd" ELSE IF c = EndBrace THEN "done" ELSE "dead"
  OBVIOUS
<1> DEFINE a(u) == Sc(u, k, v, e, i, d, o)
           b(u) == Sc(u, k, v, e, i, d, p)
<1>4. /\ AfterValue(a(w), c) = IF w = "dead" \/ c = Space THEN a(w) ELSE IF c = Comma THEN a("keyOrEnd")
                                ELSE IF c = EndBrace THEN a("done") ELSE a("dead")
      /\ AfterValue(b(w), c) = IF w = "dead" \/ c = Space THEN b(w) ELSE IF c = Comma THEN b("keyOrEnd")
                                ELSE IF c = EndBrace THEN b("done") ELSE b("dead")
  BY AfterValueIs
<1>5. x = a(w) /\ y = b(w)
  BY <1>1, <1>2
<1>0. w2 \in States
  BY <1>1, <1>3, StatesAre
<1>6. Apart(a(w2), b(w2), q)
  BY <1>0, <1>1, <1>2, ApartBy
<1> HIDE DEF a, b
<1>7. AfterValue(a(w), c) = a(w2) /\ AfterValue(b(w), c) = b(w2)
  BY <1>3, <1>4
<1>8. QED
  BY <1>5, <1>6, <1>7

\* The states a byte leads from, whatever the byte is.
LEMMA StartGoes ==
  ASSUME NEW k, NEW v, NEW e, NEW i, NEW d, NEW o, NEW c
  PROVE  StepScan(Sc("start", k, v, e, i, d, o), c) =
           IF c = Space THEN Sc("start", k, v, e, i, d, o) ELSE Sc(IF c = Brace THEN "keyOrEnd" ELSE "dead", k, v, e, i, d, o)
<1> DEFINE s == Sc("start", k, v, e, i, d, o)
           go(u) == Sc(u, k, v, e, i, d, o)
<1>1. s.state = "start" /\ \A u : Goes(s, u) = go(u)
  BY ScIs, ScState DEF Goes
<1> HIDE DEF s, go
<1>2. PICK u : u = IF c = Brace THEN "keyOrEnd" ELSE "dead"
  OBVIOUS
<1>3. StepScan(s, c) = IF c = Space THEN s ELSE Goes(s, u)
  BY Zenon, <1>1, <1>2 DEF StepScan, Brace
<1>4. Goes(s, u) = go(u)
  BY <1>1
<1>5. QED
  BY Zenon, <1>2, <1>3, <1>4 DEF s, go

LEMMA ColonGoes ==
  ASSUME NEW k, NEW v, NEW e, NEW i, NEW d, NEW o, NEW c
  PROVE  StepScan(Sc("colon", k, v, e, i, d, o), c) =
           IF c = Space THEN Sc("colon", k, v, e, i, d, o) ELSE Sc(IF c = Colon THEN "valueStart" ELSE "dead", k, v, e, i, d, o)
<1> DEFINE s == Sc("colon", k, v, e, i, d, o)
           go(u) == Sc(u, k, v, e, i, d, o)
<1>1. s.state = "colon" /\ \A u : Goes(s, u) = go(u)
  BY ScIs, ScState DEF Goes
<1> HIDE DEF s, go
<1>2. PICK u : u = IF c = Colon THEN "valueStart" ELSE "dead"
  OBVIOUS
<1>3. StepScan(s, c) = IF c = Space THEN s ELSE Goes(s, u)
  BY Zenon, <1>1, <1>2 DEF StepScan, Colon
<1>4. Goes(s, u) = go(u)
  BY <1>1
<1>5. QED
  BY Zenon, <1>2, <1>3, <1>4 DEF s, go

LEMMA KeyOrEndGoes ==
  ASSUME NEW k, NEW v, NEW e, NEW i, NEW d, NEW o, NEW c, c # Quote, c # Space
  PROVE  StepScan(Sc("keyOrEnd", k, v, e, i, d, o), c) =
           IF c = Comma THEN Sc("keyOrEnd", k, v, e, i, d, o) ELSE Sc(IF c = EndBrace THEN "done" ELSE "dead", k, v, e, i, d, o)
<1> DEFINE s == Sc("keyOrEnd", k, v, e, i, d, o)
           go(u) == Sc(u, k, v, e, i, d, o)
<1>1. s.state = "keyOrEnd" /\ \A u : Goes(s, u) = go(u)
  BY ScIs, ScState DEF Goes
<1> HIDE DEF s, go
<1>2. PICK h, u, g : h = [s EXCEPT !.state = "key", !.key = <<>>, !.esc = FALSE] /\ g = Goes(s, u)
                     /\ u = IF c = EndBrace THEN "done" ELSE "dead"
  OBVIOUS
<1>3. StepScan(s, c) = CASE c \in {Space, Comma} -> s [] c = Quote -> h [] OTHER -> g
  BY Zenon, <1>1, <1>2 DEF StepScan, Comma, EndBrace
<1>4. StepScan(s, c) = IF c = Comma THEN s ELSE g
  BY <1>3
<1>5. g = go(u)
  BY <1>1, <1>2
<1>6. QED
  BY Zenon, <1>2, <1>4, <1>5 DEF s, go

LEMMA RestIs ==
  ASSUME NEW x, x.state \notin Scanning, NEW c
  PROVE  StepScan(x, c) = x
  BY DEF StepScan, Scanning

LEMMA StartApart ==
  ASSUME NEW q \in Seq(Mems), NEW o \in Seq(Mems), NEW p, p = q \o o,
         NEW k, NEW v, NEW e, NEW i, NEW d, Typed(k, v, e, i, d), NEW c \in Byte,
         NEW x, x = Sc("start", k, v, e, i, d, o), NEW y, y = Sc("start", k, v, e, i, d, p)
  PROVE  Apart(StepScan(x, c), StepScan(y, c), q)
<1>1. PICK kc, vc, l, none : kc = Append(k, c) /\ vc = Append(v, c) /\ l = <<c>> /\ none = <<>>
  OBVIOUS
<1>2. /\ k \in Seq(Byte) /\ v \in Seq(Byte) /\ e \in {Yes, No} /\ i \in {Yes, No} /\ d \in Int
      /\ kc \in Seq(Byte) /\ vc \in Seq(Byte) /\ l \in Seq(Byte) /\ none \in Seq(Byte)
  <2>1. /\ k \in Seq(Byte) /\ v \in Seq(Byte) /\ e \in {Yes, No} /\ i \in {Yes, No} /\ d \in Int
    BY DEF Typed
  <2>2. QED
    BY <1>1, <2>1
<1>3. PICK u : u = IF c = Brace THEN "keyOrEnd" ELSE "dead"
  OBVIOUS
<1>4. CASE c = Space
  <2>1. PICK x2, y2 : x2 = Sc("start", k, v, e, i, d, o) /\ y2 = Sc("start", k, v, e, i, d, p)
    OBVIOUS
  <2>2. StepScan(x, c) = x2 /\ StepScan(y, c) = y2
    BY <1>1, <1>4, <1>3, <2>1, StartGoes
  <2>3. Typed(k, v, e, i, d)
    BY <1>2 DEF Typed
  <2>4. Apart(x2, y2, q)
    BY <1>3, <2>1, <2>3, ApartBy, StatesAre
  <2>5. QED
    BY <2>2, <2>4
<1>5. CASE c # Space
  <2>1. PICK x2, y2 : x2 = Sc(u, k, v, e, i, d, o) /\ y2 = Sc(u, k, v, e, i, d, p)
    OBVIOUS
  <2>2. StepScan(x, c) = x2 /\ StepScan(y, c) = y2
    BY <1>1, <1>5, <1>3, <2>1, StartGoes
  <2>3. Typed(k, v, e, i, d)
    BY <1>2 DEF Typed
  <2>4. Apart(x2, y2, q)
    BY <1>3, <2>1, <2>3, ApartBy, StatesAre
  <2>5. QED
    BY <2>2, <2>4
<1>6. QED
  BY <1>2, <1>4, <1>5

LEMMA ColonApart ==
  ASSUME NEW q \in Seq(Mems), NEW o \in Seq(Mems), NEW p, p = q \o o,
         NEW k, NEW v, NEW e, NEW i, NEW d, Typed(k, v, e, i, d), NEW c \in Byte,
         NEW x, x = Sc("colon", k, v, e, i, d, o), NEW y, y = Sc("colon", k, v, e, i, d, p)
  PROVE  Apart(StepScan(x, c), StepScan(y, c), q)
<1>1. PICK kc, vc, l, none : kc = Append(k, c) /\ vc = Append(v, c) /\ l = <<c>> /\ none = <<>>
  OBVIOUS
<1>2. /\ k \in Seq(Byte) /\ v \in Seq(Byte) /\ e \in {Yes, No} /\ i \in {Yes, No} /\ d \in Int
      /\ kc \in Seq(Byte) /\ vc \in Seq(Byte) /\ l \in Seq(Byte) /\ none \in Seq(Byte)
  <2>1. /\ k \in Seq(Byte) /\ v \in Seq(Byte) /\ e \in {Yes, No} /\ i \in {Yes, No} /\ d \in Int
    BY DEF Typed
  <2>2. QED
    BY <1>1, <2>1
<1>3. PICK u : u = IF c = Colon THEN "valueStart" ELSE "dead"
  OBVIOUS
<1>4. CASE c = Space
  <2>1. PICK x2, y2 : x2 = Sc("colon", k, v, e, i, d, o) /\ y2 = Sc("colon", k, v, e, i, d, p)
    OBVIOUS
  <2>2. StepScan(x, c) = x2 /\ StepScan(y, c) = y2
    BY <1>1, <1>4, <1>3, <2>1, ColonGoes
  <2>3. Typed(k, v, e, i, d)
    BY <1>2 DEF Typed
  <2>4. Apart(x2, y2, q)
    BY <1>3, <2>1, <2>3, ApartBy, StatesAre
  <2>5. QED
    BY <2>2, <2>4
<1>5. CASE c # Space
  <2>1. PICK x2, y2 : x2 = Sc(u, k, v, e, i, d, o) /\ y2 = Sc(u, k, v, e, i, d, p)
    OBVIOUS
  <2>2. StepScan(x, c) = x2 /\ StepScan(y, c) = y2
    BY <1>1, <1>5, <1>3, <2>1, ColonGoes
  <2>3. Typed(k, v, e, i, d)
    BY <1>2 DEF Typed
  <2>4. Apart(x2, y2, q)
    BY <1>3, <2>1, <2>3, ApartBy, StatesAre
  <2>5. QED
    BY <2>2, <2>4
<1>6. QED
  BY <1>2, <1>4, <1>5

LEMMA KeyOrEndApart ==
  ASSUME NEW q \in Seq(Mems), NEW o \in Seq(Mems), NEW p, p = q \o o,
         NEW k, NEW v, NEW e, NEW i, NEW d, Typed(k, v, e, i, d), NEW c \in Byte,
         NEW x, x = Sc("keyOrEnd", k, v, e, i, d, o), NEW y, y = Sc("keyOrEnd", k, v, e, i, d, p)
  PROVE  Apart(StepScan(x, c), StepScan(y, c), q)
<1>1. PICK kc, vc, l, none : kc = Append(k, c) /\ vc = Append(v, c) /\ l = <<c>> /\ none = <<>>
  OBVIOUS
<1>2. /\ k \in Seq(Byte) /\ v \in Seq(Byte) /\ e \in {Yes, No} /\ i \in {Yes, No} /\ d \in Int
      /\ kc \in Seq(Byte) /\ vc \in Seq(Byte) /\ l \in Seq(Byte) /\ none \in Seq(Byte)
  <2>1. /\ k \in Seq(Byte) /\ v \in Seq(Byte) /\ e \in {Yes, No} /\ i \in {Yes, No} /\ d \in Int
    BY DEF Typed
  <2>2. QED
    BY <1>1, <2>1
<1>3. PICK u : u = IF c = Comma THEN "keyOrEnd" ELSE IF c = EndBrace THEN "done" ELSE "dead"
  OBVIOUS
<1>4. CASE c = Space
  <2>1. PICK x2, y2 : x2 = Sc("keyOrEnd", k, v, e, i, d, o) /\ y2 = Sc("keyOrEnd", k, v, e, i, d, p)
    OBVIOUS
  <2>2. StepScan(x, c) = x2 /\ StepScan(y, c) = y2
    BY <1>1, <1>4, <1>3, <2>1, KeyOrEndIs
  <2>3. Typed(k, v, e, i, d)
    BY <1>2 DEF Typed
  <2>4. Apart(x2, y2, q)
    BY <1>3, <2>1, <2>3, ApartBy, StatesAre
  <2>5. QED
    BY <2>2, <2>4
<1>5. CASE c = Quote
  <2>1. PICK x2, y2 : x2 = Sc("key", none, v, No, i, d, o) /\ y2 = Sc("key", none, v, No, i, d, p)
    OBVIOUS
  <2>2. StepScan(x, c) = x2 /\ StepScan(y, c) = y2
    BY <1>1, <1>5, <1>3, <2>1, KeyOrEndIs
  <2>3. Typed(none, v, No, i, d)
    BY <1>2 DEF Typed
  <2>4. Apart(x2, y2, q)
    BY <1>3, <2>1, <2>3, ApartBy, StatesAre
  <2>5. QED
    BY <2>2, <2>4
<1>6. CASE c # Space /\ c # Quote
  <2>1. PICK x2, y2 : x2 = Sc(u, k, v, e, i, d, o) /\ y2 = Sc(u, k, v, e, i, d, p)
    OBVIOUS
  <2>2. StepScan(x, c) = x2 /\ StepScan(y, c) = y2
    BY <1>1, <1>6, <1>3, <2>1, KeyOrEndGoes
  <2>3. Typed(k, v, e, i, d)
    BY <1>2 DEF Typed
  <2>4. Apart(x2, y2, q)
    BY <1>3, <2>1, <2>3, ApartBy, StatesAre
  <2>5. QED
    BY <2>2, <2>4
<1>7. QED
  BY <1>2, <1>4, <1>5, <1>6

LEMMA KeyApart ==
  ASSUME NEW q \in Seq(Mems), NEW o \in Seq(Mems), NEW p, p = q \o o,
         NEW k, NEW v, NEW e, NEW i, NEW d, Typed(k, v, e, i, d), NEW c \in Byte,
         NEW x, x = Sc("key", k, v, e, i, d, o), NEW y, y = Sc("key", k, v, e, i, d, p)
  PROVE  Apart(StepScan(x, c), StepScan(y, c), q)
<1>1. PICK kc, vc, l, none : kc = Append(k, c) /\ vc = Append(v, c) /\ l = <<c>> /\ none = <<>>
  OBVIOUS
<1>2. /\ k \in Seq(Byte) /\ v \in Seq(Byte) /\ e \in {Yes, No} /\ i \in {Yes, No} /\ d \in Int
      /\ kc \in Seq(Byte) /\ vc \in Seq(Byte) /\ l \in Seq(Byte) /\ none \in Seq(Byte)
  <2>1. /\ k \in Seq(Byte) /\ v \in Seq(Byte) /\ e \in {Yes, No} /\ i \in {Yes, No} /\ d \in Int
    BY DEF Typed
  <2>2. QED
    BY <1>1, <2>1
<1>3. CASE e = Yes
  <2>1. PICK x2, y2 : x2 = Sc("key", kc, v, No, i, d, o) /\ y2 = Sc("key", kc, v, No, i, d, p)
    OBVIOUS
  <2>2. StepScan(x, c) = x2 /\ StepScan(y, c) = y2
    BY <1>1, <1>3, <2>1, KeyIs
  <2>3. Typed(kc, v, No, i, d)
    BY <1>2 DEF Typed
  <2>4. Apart(x2, y2, q)
    BY <2>1, <2>3, ApartBy, StatesAre
  <2>5. QED
    BY <2>2, <2>4
<1>4. CASE e = No /\ c = Escape
  <2>1. PICK x2, y2 : x2 = Sc("key", kc, v, Yes, i, d, o) /\ y2 = Sc("key", kc, v, Yes, i, d, p)
    OBVIOUS
  <2>2. StepScan(x, c) = x2 /\ StepScan(y, c) = y2
    BY <1>1, <1>4, <2>1, KeyIs
  <2>3. Typed(kc, v, Yes, i, d)
    BY <1>2 DEF Typed
  <2>4. Apart(x2, y2, q)
    BY <2>1, <2>3, ApartBy, StatesAre
  <2>5. QED
    BY <2>2, <2>4
<1>5. CASE e = No /\ c = Quote
  <2>1. PICK x2, y2 : x2 = Sc("colon", k, v, No, i, d, o) /\ y2 = Sc("colon", k, v, No, i, d, p)
    OBVIOUS
  <2>2. StepScan(x, c) = x2 /\ StepScan(y, c) = y2
    BY <1>1, <1>5, <2>1, KeyIs
  <2>3. Typed(k, v, No, i, d)
    BY <1>2 DEF Typed
  <2>4. Apart(x2, y2, q)
    BY <2>1, <2>3, ApartBy, StatesAre
  <2>5. QED
    BY <2>2, <2>4
<1>6. CASE e = No /\ c \notin {Quote, Escape}
  <2>1. PICK x2, y2 : x2 = Sc("key", kc, v, No, i, d, o) /\ y2 = Sc("key", kc, v, No, i, d, p)
    OBVIOUS
  <2>2. StepScan(x, c) = x2 /\ StepScan(y, c) = y2
    BY <1>1, <1>6, <2>1, KeyIs
  <2>3. Typed(kc, v, No, i, d)
    BY <1>2 DEF Typed
  <2>4. Apart(x2, y2, q)
    BY <2>1, <2>3, ApartBy, StatesAre
  <2>5. QED
    BY <2>2, <2>4
<1>7. QED
  BY <1>2, <1>3, <1>4, <1>5, <1>6

LEMMA ValueStartApart ==
  ASSUME NEW q \in Seq(Mems), NEW o \in Seq(Mems), NEW p, p = q \o o,
         NEW k, NEW v, NEW e, NEW i, NEW d, Typed(k, v, e, i, d), NEW c \in Byte,
         NEW x, x = Sc("valueStart", k, v, e, i, d, o), NEW y, y = Sc("valueStart", k, v, e, i, d, p)
  PROVE  Apart(StepScan(x, c), StepScan(y, c), q)
<1>1. PICK kc, vc, l, none : kc = Append(k, c) /\ vc = Append(v, c) /\ l = <<c>> /\ none = <<>>
  OBVIOUS
<1>2. /\ k \in Seq(Byte) /\ v \in Seq(Byte) /\ e \in {Yes, No} /\ i \in {Yes, No} /\ d \in Int
      /\ kc \in Seq(Byte) /\ vc \in Seq(Byte) /\ l \in Seq(Byte) /\ none \in Seq(Byte)
  <2>1. /\ k \in Seq(Byte) /\ v \in Seq(Byte) /\ e \in {Yes, No} /\ i \in {Yes, No} /\ d \in Int
    BY DEF Typed
  <2>2. QED
    BY <1>1, <2>1
<1>3. CASE c = Space
  <2>1. PICK x2, y2 : x2 = Sc("valueStart", k, v, e, i, d, o) /\ y2 = Sc("valueStart", k, v, e, i, d, p)
    OBVIOUS
  <2>2. StepScan(x, c) = x2 /\ StepScan(y, c) = y2
    BY <1>1, <1>3, <2>1, ColonIs
  <2>3. Typed(k, v, e, i, d)
    BY <1>2 DEF Typed
  <2>4. Apart(x2, y2, q)
    BY <2>1, <2>3, ApartBy, StatesAre
  <2>5. QED
    BY <2>2, <2>4
<1>4. CASE c # Space /\ c = Quote
  <2>1. PICK x2, y2 : x2 = Sc("valString", k, l, No, No, 1, o) /\ y2 = Sc("valString", k, l, No, No, 1, p)
    OBVIOUS
  <2>2. StepScan(x, c) = x2 /\ StepScan(y, c) = y2
    BY <1>1, <1>4, <2>1, ValueStartIs
  <2>3. Typed(k, l, No, No, 1)
    BY <1>2 DEF Typed
  <2>4. Apart(x2, y2, q)
    BY <2>1, <2>3, ApartBy, StatesAre
  <2>5. QED
    BY <2>2, <2>4
<1>5. CASE c # Space /\ c \in Opens
  <2>1. PICK x2, y2 : x2 = Sc("valNested", k, l, No, No, 1, o) /\ y2 = Sc("valNested", k, l, No, No, 1, p)
    OBVIOUS
  <2>2. StepScan(x, c) = x2 /\ StepScan(y, c) = y2
    BY <1>1, <1>5, <2>1, ValueStartIs
  <2>3. Typed(k, l, No, No, 1)
    BY <1>2 DEF Typed
  <2>4. Apart(x2, y2, q)
    BY <2>1, <2>3, ApartBy, StatesAre
  <2>5. QED
    BY <2>2, <2>4
<1>6. CASE c # Space /\ c \notin Opens \cup {Quote}
  <2>1. PICK x2, y2 : x2 = Sc("valScalar", k, l, No, No, 1, o) /\ y2 = Sc("valScalar", k, l, No, No, 1, p)
    OBVIOUS
  <2>2. StepScan(x, c) = x2 /\ StepScan(y, c) = y2
    BY <1>1, <1>6, <2>1, ValueStartIs
  <2>3. Typed(k, l, No, No, 1)
    BY <1>2 DEF Typed
  <2>4. Apart(x2, y2, q)
    BY <2>1, <2>3, ApartBy, StatesAre
  <2>5. QED
    BY <2>2, <2>4
<1>7. QED
  BY <1>2, <1>3, <1>4, <1>5, <1>6

LEMMA StringApart ==
  ASSUME NEW q \in Seq(Mems), NEW o \in Seq(Mems), NEW p, p = q \o o,
         NEW k, NEW v, NEW e, NEW i, NEW d, Typed(k, v, e, i, d), NEW c \in Byte,
         NEW x, x = Sc("valString", k, v, e, i, d, o), NEW y, y = Sc("valString", k, v, e, i, d, p)
  PROVE  Apart(StepScan(x, c), StepScan(y, c), q)
<1>1. PICK kc, vc, l, none : kc = Append(k, c) /\ vc = Append(v, c) /\ l = <<c>> /\ none = <<>>
  OBVIOUS
<1>2. /\ k \in Seq(Byte) /\ v \in Seq(Byte) /\ e \in {Yes, No} /\ i \in {Yes, No} /\ d \in Int
      /\ kc \in Seq(Byte) /\ vc \in Seq(Byte) /\ l \in Seq(Byte) /\ none \in Seq(Byte)
  <2>1. /\ k \in Seq(Byte) /\ v \in Seq(Byte) /\ e \in {Yes, No} /\ i \in {Yes, No} /\ d \in Int
    BY DEF Typed
  <2>2. QED
    BY <1>1, <2>1
<1>3. CASE e = Yes
  <2>1. PICK x2, y2 : x2 = Sc("valString", k, vc, No, i, d, o) /\ y2 = Sc("valString", k, vc, No, i, d, p)
    OBVIOUS
  <2>2. StepScan(x, c) = x2 /\ StepScan(y, c) = y2
    BY <1>1, <1>3, <2>1, StringIs
  <2>3. Typed(k, vc, No, i, d)
    BY <1>2 DEF Typed
  <2>4. Apart(x2, y2, q)
    BY <2>1, <2>3, ApartBy, StatesAre
  <2>5. QED
    BY <2>2, <2>4
<1>4. CASE e = No /\ c = Escape
  <2>1. PICK x2, y2 : x2 = Sc("valString", k, vc, Yes, i, d, o) /\ y2 = Sc("valString", k, vc, Yes, i, d, p)
    OBVIOUS
  <2>2. StepScan(x, c) = x2 /\ StepScan(y, c) = y2
    BY <1>1, <1>4, <2>1, StringIs
  <2>3. Typed(k, vc, Yes, i, d)
    BY <1>2 DEF Typed
  <2>4. Apart(x2, y2, q)
    BY <2>1, <2>3, ApartBy, StatesAre
  <2>5. QED
    BY <2>2, <2>4
<1>5. CASE e = No /\ c = Quote
  <2>1. PICK x2, y2 : x2 = Sc("valString", k, vc, No, i, d, o) /\ y2 = Sc("valString", k, vc, No, i, d, p)
    OBVIOUS
  <2>2. StepScan(x, c) = Complete(x2) /\ StepScan(y, c) = Complete(y2)
    BY <1>1, <1>5, <2>1, StringIs
  <2>3. Typed(k, vc, No, i, d)
    BY <1>2 DEF Typed
  <2>4. Apart(Complete(x2), Complete(y2), q)
    BY <2>1, <2>3, CompleteApart
  <2>5. QED
    BY <2>2, <2>4
<1>6. CASE e = No /\ c \notin {Quote, Escape}
  <2>1. PICK x2, y2 : x2 = Sc("valString", k, vc, No, i, d, o) /\ y2 = Sc("valString", k, vc, No, i, d, p)
    OBVIOUS
  <2>2. StepScan(x, c) = x2 /\ StepScan(y, c) = y2
    BY <1>1, <1>6, <2>1, StringIs
  <2>3. Typed(k, vc, No, i, d)
    BY <1>2 DEF Typed
  <2>4. Apart(x2, y2, q)
    BY <2>1, <2>3, ApartBy, StatesAre
  <2>5. QED
    BY <2>2, <2>4
<1>7. QED
  BY <1>2, <1>3, <1>4, <1>5, <1>6

LEMMA NestedApart ==
  ASSUME NEW q \in Seq(Mems), NEW o \in Seq(Mems), NEW p, p = q \o o,
         NEW k, NEW v, NEW e, NEW i, NEW d, Typed(k, v, e, i, d), NEW c \in Byte,
         NEW x, x = Sc("valNested", k, v, e, i, d, o), NEW y, y = Sc("valNested", k, v, e, i, d, p)
  PROVE  Apart(StepScan(x, c), StepScan(y, c), q)
<1>1. PICK kc, vc, l, none : kc = Append(k, c) /\ vc = Append(v, c) /\ l = <<c>> /\ none = <<>>
  OBVIOUS
<1>2. /\ k \in Seq(Byte) /\ v \in Seq(Byte) /\ e \in {Yes, No} /\ i \in {Yes, No} /\ d \in Int
      /\ kc \in Seq(Byte) /\ vc \in Seq(Byte) /\ l \in Seq(Byte) /\ none \in Seq(Byte)
  <2>1. /\ k \in Seq(Byte) /\ v \in Seq(Byte) /\ e \in {Yes, No} /\ i \in {Yes, No} /\ d \in Int
    BY DEF Typed
  <2>2. QED
    BY <1>1, <2>1
<1>3. CASE e = Yes
  <2>1. PICK x2, y2 : x2 = Sc("valNested", k, vc, No, i, d, o) /\ y2 = Sc("valNested", k, vc, No, i, d, p)
    OBVIOUS
  <2>2. StepScan(x, c) = x2 /\ StepScan(y, c) = y2
    BY <1>1, <1>3, <2>1, <1>2, NestedIs
  <2>3. Typed(k, vc, No, i, d)
    BY <1>2 DEF Typed
  <2>4. Apart(x2, y2, q)
    BY <2>1, <2>3, ApartBy, StatesAre
  <2>5. QED
    BY <2>2, <2>4
<1>4. CASE e = No /\ i = Yes /\ c = Escape
  <2>1. PICK x2, y2 : x2 = Sc("valNested", k, vc, Yes, Yes, d, o) /\ y2 = Sc("valNested", k, vc, Yes, Yes, d, p)
    OBVIOUS
  <2>2. StepScan(x, c) = x2 /\ StepScan(y, c) = y2
    BY <1>1, <1>4, <2>1, <1>2, NestedIs
  <2>3. Typed(k, vc, Yes, Yes, d)
    BY <1>2 DEF Typed
  <2>4. Apart(x2, y2, q)
    BY <2>1, <2>3, ApartBy, StatesAre
  <2>5. QED
    BY <2>2, <2>4
<1>5. CASE e = No /\ i = Yes /\ c = Quote
  <2>1. PICK x2, y2 : x2 = Sc("valNested", k, vc, No, No, d, o) /\ y2 = Sc("valNested", k, vc, No, No, d, p)
    OBVIOUS
  <2>2. StepScan(x, c) = x2 /\ StepScan(y, c) = y2
    BY <1>1, <1>5, <2>1, <1>2, NestedIs
  <2>3. Typed(k, vc, No, No, d)
    BY <1>2 DEF Typed
  <2>4. Apart(x2, y2, q)
    BY <2>1, <2>3, ApartBy, StatesAre
  <2>5. QED
    BY <2>2, <2>4
<1>6. CASE e = No /\ i = Yes /\ c \notin {Quote, Escape}
  <2>1. PICK x2, y2 : x2 = Sc("valNested", k, vc, No, Yes, d, o) /\ y2 = Sc("valNested", k, vc, No, Yes, d, p)
    OBVIOUS
  <2>2. StepScan(x, c) = x2 /\ StepScan(y, c) = y2
    BY <1>1, <1>6, <2>1, <1>2, NestedIs
  <2>3. Typed(k, vc, No, Yes, d)
    BY <1>2 DEF Typed
  <2>4. Apart(x2, y2, q)
    BY <2>1, <2>3, ApartBy, StatesAre
  <2>5. QED
    BY <2>2, <2>4
<1>7. CASE e = No /\ i = No /\ c = Quote
  <2>1. PICK x2, y2 : x2 = Sc("valNested", k, vc, No, Yes, d, o) /\ y2 = Sc("valNested", k, vc, No, Yes, d, p)
    OBVIOUS
  <2>2. StepScan(x, c) = x2 /\ StepScan(y, c) = y2
    BY <1>1, <1>7, <2>1, <1>2, NestedIs
  <2>3. Typed(k, vc, No, Yes, d)
    BY <1>2 DEF Typed
  <2>4. Apart(x2, y2, q)
    BY <2>1, <2>3, ApartBy, StatesAre
  <2>5. QED
    BY <2>2, <2>4
<1>8. CASE e = No /\ i = No /\ c \in Opens
  <2>1. PICK x2, y2 : x2 = Sc("valNested", k, vc, No, No, d + 1, o) /\ y2 = Sc("valNested", k, vc, No, No, d + 1, p)
    OBVIOUS
  <2>2. StepScan(x, c) = x2 /\ StepScan(y, c) = y2
    BY <1>1, <1>8, <2>1, <1>2, NestedIs
  <2>3. Typed(k, vc, No, No, d + 1)
    BY <1>2 DEF Typed
  <2>4. Apart(x2, y2, q)
    BY <2>1, <2>3, ApartBy, StatesAre
  <2>5. QED
    BY <2>2, <2>4
<1>9. CASE e = No /\ i = No /\ c \in Shuts /\ d = 1
  <2>1. PICK x2, y2 : x2 = Sc("valNested", k, vc, No, No, 0, o) /\ y2 = Sc("valNested", k, vc, No, No, 0, p)
    OBVIOUS
  <2>2. StepScan(x, c) = Complete(x2) /\ StepScan(y, c) = Complete(y2)
    BY <1>1, <1>9, <2>1, <1>2, NestedIs
  <2>3. Typed(k, vc, No, No, 0)
    BY <1>2 DEF Typed
  <2>4. Apart(Complete(x2), Complete(y2), q)
    BY <2>1, <2>3, CompleteApart
  <2>5. QED
    BY <2>2, <2>4
<1>10. CASE e = No /\ i = No /\ c \in Shuts /\ d # 1
  <2>1. PICK x2, y2 : x2 = Sc("valNested", k, vc, No, No, d - 1, o) /\ y2 = Sc("valNested", k, vc, No, No, d - 1, p)
    OBVIOUS
  <2>2. StepScan(x, c) = x2 /\ StepScan(y, c) = y2
    BY <1>1, <1>10, <2>1, <1>2, NestedIs
  <2>3. Typed(k, vc, No, No, d - 1)
    BY <1>2 DEF Typed
  <2>4. Apart(x2, y2, q)
    BY <2>1, <2>3, ApartBy, StatesAre
  <2>5. QED
    BY <2>2, <2>4
<1>11. CASE e = No /\ i = No /\ c \notin Opens \cup Shuts \cup {Quote}
  <2>1. PICK x2, y2 : x2 = Sc("valNested", k, vc, No, No, d, o) /\ y2 = Sc("valNested", k, vc, No, No, d, p)
    OBVIOUS
  <2>2. StepScan(x, c) = x2 /\ StepScan(y, c) = y2
    BY <1>1, <1>11, <2>1, <1>2, NestedIs
  <2>3. Typed(k, vc, No, No, d)
    BY <1>2 DEF Typed
  <2>4. Apart(x2, y2, q)
    BY <2>1, <2>3, ApartBy, StatesAre
  <2>5. QED
    BY <2>2, <2>4
<1>12. QED
  BY <1>2, <1>3, <1>4, <1>5, <1>6, <1>7, <1>8, <1>9, <1>10, <1>11

LEMMA ScalarApart ==
  ASSUME NEW q \in Seq(Mems), NEW o \in Seq(Mems), NEW p, p = q \o o,
         NEW k, NEW v, NEW e, NEW i, NEW d, Typed(k, v, e, i, d), NEW c \in Byte,
         NEW x, x = Sc("valScalar", k, v, e, i, d, o), NEW y, y = Sc("valScalar", k, v, e, i, d, p)
  PROVE  Apart(StepScan(x, c), StepScan(y, c), q)
<1>1. PICK kc, vc, l, none : kc = Append(k, c) /\ vc = Append(v, c) /\ l = <<c>> /\ none = <<>>
  OBVIOUS
<1>2. /\ k \in Seq(Byte) /\ v \in Seq(Byte) /\ e \in {Yes, No} /\ i \in {Yes, No} /\ d \in Int
      /\ kc \in Seq(Byte) /\ vc \in Seq(Byte) /\ l \in Seq(Byte) /\ none \in Seq(Byte)
  <2>1. /\ k \in Seq(Byte) /\ v \in Seq(Byte) /\ e \in {Yes, No} /\ i \in {Yes, No} /\ d \in Int
    BY DEF Typed
  <2>2. QED
    BY <1>1, <2>1
<1>3. CASE c \in Delimiter
  <2>1. PICK x2, y2 : x2 = Sc("valScalar", k, v, e, i, d, o) /\ y2 = Sc("valScalar", k, v, e, i, d, p)
    OBVIOUS
  <2>2. StepScan(x, c) = AfterValue(Complete(x2), c) /\ StepScan(y, c) = AfterValue(Complete(y2), c)
    BY <1>1, <1>3, <2>1, ScalarIs
  <2>3. Typed(k, v, e, i, d)
    BY <1>2 DEF Typed
  <2>4. Apart(Complete(x2), Complete(y2), q)
    BY <2>1, <2>3, CompleteApart
  <2>5. Apart(AfterValue(Complete(x2), c), AfterValue(Complete(y2), c), q)
    BY <2>4, AfterApart
  <2>6. QED
    BY <2>2, <2>5
<1>4. CASE c \notin Delimiter
  <2>1. PICK x2, y2 : x2 = Sc("valScalar", k, vc, No, i, d, o) /\ y2 = Sc("valScalar", k, vc, No, i, d, p)
    OBVIOUS
  <2>2. StepScan(x, c) = x2 /\ StepScan(y, c) = y2
    BY <1>1, <1>4, <2>1, ScalarIs
  <2>3. Typed(k, vc, No, i, d)
    BY <1>2 DEF Typed
  <2>4. Apart(x2, y2, q)
    BY <2>1, <2>3, ApartBy, StatesAre
  <2>5. QED
    BY <2>2, <2>4
<1>5. QED
  BY <1>2, <1>3, <1>4

LEMMA BehindApart ==
  ASSUME NEW q \in Seq(Mems), NEW o \in Seq(Mems), NEW p, p = q \o o,
         NEW k, NEW v, NEW e, NEW i, NEW d, Typed(k, v, e, i, d), NEW c \in Byte,
         NEW x, x = Sc("afterValue", k, v, e, i, d, o), NEW y, y = Sc("afterValue", k, v, e, i, d, p)
  PROVE  Apart(StepScan(x, c), StepScan(y, c), q)
<1>1. PICK kc, vc, l, none : kc = Append(k, c) /\ vc = Append(v, c) /\ l = <<c>> /\ none = <<>>
  OBVIOUS
<1>2. /\ k \in Seq(Byte) /\ v \in Seq(Byte) /\ e \in {Yes, No} /\ i \in {Yes, No} /\ d \in Int
      /\ kc \in Seq(Byte) /\ vc \in Seq(Byte) /\ l \in Seq(Byte) /\ none \in Seq(Byte)
  <2>1. /\ k \in Seq(Byte) /\ v \in Seq(Byte) /\ e \in {Yes, No} /\ i \in {Yes, No} /\ d \in Int
    BY DEF Typed
  <2>2. QED
    BY <1>1, <2>1
<1>3. CASE TRUE
  <2>1. PICK x2, y2 : x2 = Sc("afterValue", k, v, e, i, d, o) /\ y2 = Sc("afterValue", k, v, e, i, d, p)
    OBVIOUS
  <2>2. StepScan(x, c) = AfterValue(x2, c) /\ StepScan(y, c) = AfterValue(y2, c)
    BY <1>1, <1>3, <2>1, BehindIs
  <2>3. Typed(k, v, e, i, d)
    BY <1>2 DEF Typed
  <2>4. Apart(x2, y2, q)
    BY <2>1, <2>3, ApartBy, StatesAre
  <2>5. Apart(AfterValue(x2, c), AfterValue(y2, c), q)
    BY <2>4, AfterApart
  <2>6. QED
    BY <2>2, <2>5
<1>4. QED
  BY <1>2, <1>3

LEMMA StepApart ==
  ASSUME NEW q \in Seq(Mems), NEW x, NEW y, Apart(x, y, q), NEW c \in Byte
  PROVE  Apart(StepScan(x, c), StepScan(y, c), q)
<1>1. PICK w, k, v, e, i, d, o : /\ w \in States /\ Typed(k, v, e, i, d) /\ o \in Seq(Mems)
                                 /\ x = Sc(w, k, v, e, i, d, o) /\ y = Sc(w, k, v, e, i, d, q \o o)
  BY DEF Apart
<1>2. PICK p : p = q \o o
  OBVIOUS
<1>3. w \in States /\ Typed(k, v, e, i, d) /\ o \in Seq(Mems) /\ x = Sc(w, k, v, e, i, d, o) /\ y = Sc(w, k, v, e, i, d, p)
  BY Zenon, <1>1, <1>2
<1>4. CASE w = "start"
  BY <1>2, <1>3, <1>4, StartApart
<1>5. CASE w = "keyOrEnd"
  BY <1>2, <1>3, <1>5, KeyOrEndApart
<1>6. CASE w = "key"
  BY <1>2, <1>3, <1>6, KeyApart
<1>7. CASE w = "colon"
  BY <1>2, <1>3, <1>7, ColonApart
<1>8. CASE w = "valueStart"
  BY <1>2, <1>3, <1>8, ValueStartApart
<1>9. CASE w = "valString"
  BY <1>2, <1>3, <1>9, StringApart
<1>10. CASE w = "valNested"
  BY <1>2, <1>3, <1>10, NestedApart
<1>11. CASE w = "valScalar"
  BY <1>2, <1>3, <1>11, ScalarApart
<1>12. CASE w = "afterValue"
  BY <1>2, <1>3, <1>12, BehindApart
<1>13. CASE w \notin Scanning
  <2>1. StepScan(x, c) = x /\ StepScan(y, c) = y
    <3>1. x.state = w /\ y.state = w
      BY <1>3, ScIs
    <3>2. QED
      BY <1>13, <3>1, RestIs
  <2>2. QED
    BY <2>1
<1>14. QED
  BY <1>4, <1>5, <1>6, <1>7, <1>8, <1>9, <1>10, <1>11, <1>12, <1>13 DEF Scanning

\* What a scanner has told does not change what it tells next.
LEMMA ScanApart ==
  ASSUME NEW q \in Seq(Mems), NEW x, NEW y, Apart(x, y, q), NEW b \in Seq(Byte)
  PROVE  Apart(Scanned(x, b), Scanned(y, b), q)
<1>1. PICK n : n = Len(b) /\ n \in Nat
  OBVIOUS
<1>2. /\ Trace(x, b, 0) = x /\ Trace(x, b, n) = Scanned(x, b)
      /\ \A k \in 1 .. n : Trace(x, b, k) = StepScan(Trace(x, b, k - 1), b[k])
  BY <1>1, TraceSteps
<1>3. /\ Trace(y, b, 0) = y /\ Trace(y, b, n) = Scanned(y, b)
      /\ \A k \in 1 .. n : Trace(y, b, k) = StepScan(Trace(y, b, k - 1), b[k])
  BY <1>1, TraceSteps
<1> DEFINE G == {k \in Nat : k <= n => Apart(Trace(x, b, k), Trace(y, b, k), q)}
<1>4. 0 \in G
  BY <1>2, <1>3
<1>5. ASSUME NEW k \in 1 .. n, k - 1 \in G PROVE k \in G
  <2>1. k - 1 <= n /\ k \in Nat /\ b[k] \in Byte
    BY <1>1
  <2>2. PICK x1, y1 : x1 = Trace(x, b, k - 1) /\ y1 = Trace(y, b, k - 1)
    OBVIOUS
  <2>3. Apart(x1, y1, q)
    BY <1>5, <2>1, <2>2
  <2>4. Apart(StepScan(x1, b[k]), StepScan(y1, b[k]), q)
    BY <2>1, <2>3, StepApart
  <2>5. Trace(x, b, k) = StepScan(x1, b[k]) /\ Trace(y, b, k) = StepScan(y1, b[k])
    BY <1>2, <1>3, <2>2
  <2>6. QED
    BY <2>1, <2>4, <2>5
<1> HIDE DEF G
<1>6. n \in G /\ n <= n
  BY <1>1, <1>4, <1>5, UpTo
<1>7. QED
  BY <1>2, <1>3, <1>6 DEF G

\* A scanner as it is put away between two fragments.
Away(x) == [x EXCEPT !.out = <<>>]

LEMMA ApartIs ==
  ASSUME NEW q \in Seq(Mems), NEW x, NEW y, Apart(x, y, q)
  PROVE  /\ x.state = y.state /\ y.state \in States /\ Away(x).state = x.state /\ x.out \in Seq(Mems) /\ y.out = q \o x.out /\ Away(x) = Away(y)
         /\ Apart(Away(y), y, y.out)
<1>1. PICK w, k, v, e, i, d, o : /\ w \in States /\ Typed(k, v, e, i, d) /\ o \in Seq(Mems)
                                 /\ x = Sc(w, k, v, e, i, d, o) /\ y = Sc(w, k, v, e, i, d, q \o o)
  BY DEF Apart
<1>2. PICK p, none : p = q \o o /\ none = <<>>
  OBVIOUS
<1>3. w \in States /\ Typed(k, v, e, i, d) /\ o \in Seq(Mems) /\ x = Sc(w, k, v, e, i, d, o) /\ y = Sc(w, k, v, e, i, d, p)
  BY Zenon, <1>1, <1>2
<1>4. x.state = w /\ y.state = w /\ x.out = o /\ y.out = p
  BY <1>3, ScIs
<1>5. PICK a : a = Sc(w, k, v, e, i, d, none)
  OBVIOUS
<1>6. [x EXCEPT !.out = none] = a /\ [y EXCEPT !.out = none] = a
  BY <1>3, <1>5, ScOut
<1>7. Away(x) = a /\ Away(y) = a /\ a.state = w
  <2>1. a.state = w
    BY <1>5, ScIs
  <2>2. QED
    BY Zenon, <1>2, <1>6, <2>1 DEF Away
<1>8. p \in Seq(Mems) /\ none \in Seq(Mems) /\ p = p \o none
  BY <1>2, <1>3
<1>9. Apart(a, y, p)
  BY <1>3, <1>5, <1>8, ApartBy
<1>10. QED
  BY <1>2, <1>3, <1>4, <1>7, <1>9

LEMMA PartsJoin ==
  ASSUME NEW S, NEW ms \in Seq(S), NEW i \in 0 .. Len(ms), NEW j \in i .. Len(ms), NEW k \in j .. Len(ms)
  PROVE  /\ SubSeq(ms, i + 1, k) = SubSeq(ms, i + 1, j) \o SubSeq(ms, j + 1, k)
         /\ SubSeq(ms, i + 1, j) \in Seq(S) /\ SubSeq(ms, j + 1, k) \in Seq(S) /\ SubSeq(ms, j + 1, j) = <<>>
  OBVIOUS

\* Of the bytes of a text, what a scanner put away behind some of them tells of the next ones.
FedOn(b, l, n, fed) ==
  /\ Away(fed).state \in States /\ fed.out \in Seq(Mems) /\ OutAt(b, n) = OutAt(b, l) \o fed.out
  /\ Away(fed) = Away(Trace(NewScanner, b, n))

LEMMA FeedIs ==
  ASSUME NEW b \in Seq(Byte), NEW l \in 0 .. Len(b), NEW n \in l .. Len(b)
  PROVE  FedOn(b, l, n, Feed(Away(Trace(NewScanner, b, l)), SubSeq(b, l + 1, n)))
<1>17. PICK s, fed : s = Away(Trace(NewScanner, b, l)) /\ fed = Feed(s, SubSeq(b, l + 1, n))
  OBVIOUS
<1>0. PICK none : none = <<>>
  OBVIOUS
<1>1. none = <<>> /\ none \in Seq(Mems) /\ none \in Seq(Byte) /\ none = none \o none
  <2>1. none \in Seq(Mems) /\ none \in Seq(Byte)
    BY <1>0
  <2>2. none = none \o none
    BY <1>0
  <2>3. QED
    BY <1>0, <2>1, <2>2
<1>2. PICK f, r, d : f = SubSeq(b, 1, l) /\ r = SubSeq(b, 1, n) /\ d = SubSeq(b, l + 1, n)
  OBVIOUS
<1>3. f \in Seq(Byte) /\ r \in Seq(Byte) /\ d \in Seq(Byte) /\ r = f \o d
  <2>1. 0 \in 0 .. Len(b) /\ l \in 0 .. Len(b) /\ n \in l .. Len(b)
    OBVIOUS
  <2>2. r = f \o d /\ f \in Seq(Byte) /\ d \in Seq(Byte)
    <3>1. /\ SubSeq(b, 0 + 1, n) = SubSeq(b, 0 + 1, l) \o SubSeq(b, l + 1, n)
          /\ SubSeq(b, 0 + 1, l) \in Seq(Byte) /\ SubSeq(b, l + 1, n) \in Seq(Byte)
      BY <2>1, PartsJoin
    <3>2. 0 + 1 = 1
      OBVIOUS
    <3>3. QED
      BY Zenon, <1>2, <3>1, <3>2
  <2>3. f \o d \in Seq(Byte)
    BY <2>2
  <2>4. QED
    BY Zenon, <2>2, <2>3
<1>4. PICK z, x, y : z = NewScanner /\ x = Scanned(z, f) /\ y = Scanned(z, r)
  OBVIOUS
<1>5. Apart(z, z, none)
  <2>1. z = Sc("start", none, none, No, No, 0, none)
    BY <1>1, <1>4, NewIs
  <2>2. Typed(none, none, No, No, 0)
    BY <1>1 DEF Typed
  <2>3. QED
    BY <1>1, <2>1, <2>2, ApartBy, StatesAre
<1>6. Apart(x, x, none)
  BY <1>1, <1>3, <1>4, <1>5, ScanApart
<1>7. x.out \in Seq(Mems) /\ Apart(Away(x), x, x.out)
  BY <1>1, <1>6, ApartIs
<1>8. y = Scanned(x, d)
  BY <1>3, <1>4, TraceBoth
<1>9. s = Away(x) /\ OutAt(b, l) = x.out /\ OutAt(b, n) = y.out /\ Trace(NewScanner, b, n) = y
  BY Zenon, <1>2, <1>4, <1>17 DEF Trace, OutAt
<1>10. Away(s) = s
  <2>1. PICK u : u = Away(x)
    OBVIOUS
  <2>2. Away(u) = u
    BY <2>1 DEF Away
  <2>3. QED
    BY <1>9, <2>1, <2>2
<1>11. fed = Scanned(s, d)
  BY Zenon, <1>2, <1>10, <1>17 DEF Feed, Away
<1>12. PICK q : q = x.out /\ q \in Seq(Mems)
  BY <1>7
<1>13. Apart(s, x, q)
  BY <1>7, <1>9, <1>12
<1>14. Apart(fed, y, q)
  BY <1>3, <1>8, <1>11, <1>12, <1>13, ScanApart
<1>15. Away(fed).state \in States /\ fed.out \in Seq(Mems) /\ y.out = q \o fed.out /\ Away(fed) = Away(y)
  <2>1. q \in Seq(Mems)
    BY <1>12
  <2>2. PICK g : g = fed
    OBVIOUS
  <2>3. Apart(g, y, q)
    BY <1>14, <2>2
  <2>4. g.state = y.state /\ y.state \in States /\ Away(g).state = g.state /\ g.out \in Seq(Mems) /\ y.out = q \o g.out /\ Away(g) = Away(y)
    BY <2>1, <2>3, ApartIs
  <2>5. QED
    BY <2>2, <2>4
<1>16. FedOn(b, l, n, fed)
  BY Zenon, <1>9, <1>12, <1>15 DEF FedOn
<1>18. QED
  BY Zenon, <1>16, <1>17

LEMMA Cancels ==
  ASSUME NEW S, NEW a \in Seq(S), NEW x \in Seq(S), NEW y \in Seq(S), a \o x = a \o y
  PROVE  x = y
<1>1. Len(a) + Len(x) = Len(a) + Len(y)
  <2>1. Len(a \o x) = Len(a) + Len(x) /\ Len(a \o y) = Len(a) + Len(y)
    OBVIOUS
  <2>2. QED
    BY <2>1
<1>2. Len(x) = Len(y)
  <2>1. Len(a) \in Nat /\ Len(x) \in Nat /\ Len(y) \in Nat
    OBVIOUS
  <2>2. QED
    BY <1>1, <2>1
<1>3. ASSUME NEW i \in 1 .. Len(x) PROVE x[i] = y[i]
  <2>1. (a \o x)[Len(a) + i] = x[i]
    OBVIOUS
  <2>2. (a \o y)[Len(a) + i] = y[i]
    BY <1>2
  <2>3. QED
    BY <2>1, <2>2
<1>4. QED
  BY <1>2, <1>3

\* The members that are whole by a byte.
LEMMA WholeByIs ==
  ASSUME NEW text, Reports(text.bytes, text.members, text.at), NEW k \in 0 .. Len(text.bytes)
  PROVE  /\ WholeBy(text, k) \in 0 .. Len(text.members)
         /\ OutAt(text.bytes, k) = SubSeq(text.members, 1, WholeBy(text, k))
         /\ Known(text.at, k, WholeBy(text, k))
<1>1. PICK at, ms : at = text.at /\ ms = text.members
  OBVIOUS
<1>2. at \in Seq(Nat) /\ Len(at) = Len(ms) /\ Len(ms) \in Nat
  BY <1>1 DEF Reports
<1>3. PICK m \in 0 .. Len(ms) : OutAt(text.bytes, k) = SubSeq(ms, 1, m) /\ Known(at, k, m)
  BY <1>1 DEF Reports
<1>4. {i \in DOMAIN at : at[i] <= k} = 1 .. m
  <2>1. DOMAIN at = 1 .. Len(at)
    BY <1>2
  <2>2. \A j \in 1 .. Len(at) : at[j] <= k <=> j <= m
    BY <1>3 DEF Known
  <2>3. \A j \in 1 .. m : j \in 1 .. Len(at) /\ j <= m
    BY <1>2
  <2>4. \A j \in 1 .. Len(at) : j <= m => j \in 1 .. m
    BY <1>2
  <2>5. QED
    BY <2>1, <2>2, <2>3, <2>4
<1>5. Cardinality(1 .. m) = m
  <2>1. Cardinality(1 .. m) = IF 1 > m THEN 0 ELSE m - 1 + 1
    BY FS_Interval
  <2>2. QED
    BY <2>1
<1>6. WholeBy(text, k) = m
  BY <1>1, <1>4, <1>5 DEF WholeBy
<1>7. QED
  BY <1>1, <1>3, <1>6

LEMMA WholeByGrows ==
  ASSUME NEW text, Reports(text.bytes, text.members, text.at), NEW k \in 0 .. Len(text.bytes), NEW l \in k .. Len(text.bytes)
  PROVE  WholeBy(text, k) <= WholeBy(text, l)
<1>1. l \in 0 .. Len(text.bytes)
  OBVIOUS
<1>2. PICK m, n : m = WholeBy(text, k) /\ n = WholeBy(text, l)
  OBVIOUS
<1>3. PICK at : at = text.at
  OBVIOUS
<1>4. m \in 0 .. Len(at) /\ n \in 0 .. Len(at) /\ Known(at, k, m) /\ Known(at, l, n) /\ at \in Seq(Nat)
  <2>1. Len(text.at) = Len(text.members) /\ text.at \in Seq(Nat)
    BY DEF Reports
  <2>2. QED
    BY <1>1, <1>2, <1>3, <2>1, WholeByIs
<1>5. CASE m = 0
  BY <1>2, <1>4, <1>5
<1>6. CASE m # 0
  <2>1. m \in 1 .. Len(at) /\ m <= m
    BY <1>4, <1>6
  <2>2. at[m] <= k
    BY <1>4, <2>1 DEF Known
  <2>3. at[m] <= l
    <3>1. at[m] \in Nat
      BY <1>4, <2>1
    <3>2. QED
      BY <2>2, <3>1
  <2>4. QED
    BY <1>2, <1>4, <2>1, <2>3 DEF Known
<1>7. QED
  BY <1>5, <1>6

\* What is due to a call's hooks, by what it asks and what has arrived.
DueOf(hooks, text, n, a) ==
  IF n = Unnamed THEN <<>> ELSE Heeded(hooks, SubSeq(text.members, WholeBy(text, n) + 1, WholeBy(text, a)))

DueMore(text, hooks, a, to, n, at, fo) ==
  LET h == IF at = Unnamed THEN {} ELSE hooks
  IN  /\ DueOf(hooks, text, at, to) = DueOf(hooks, text, n, a) \o Heeded(h, fo)
      /\ DueOf(hooks, text, n, a) \in Seq(Mems) /\ Heeded(h, fo) \in Seq(Mems)

LEMMA DueOn ==
  ASSUME NEW text, Reports(text.bytes, text.members, text.at), NEW hooks,
         NEW a \in 0 .. Len(text.bytes), NEW to \in a .. Len(text.bytes), NEW n, n = Unnamed \/ n \in 0 .. a,
         NEW at, at = n \/ (n = Unnamed /\ at = a), NEW fo \in Seq(Mems), OutAt(text.bytes, to) = OutAt(text.bytes, a) \o fo
  PROVE  DueMore(text, hooks, a, to, n, at, fo)
<1>11. PICK h : h = IF at = Unnamed THEN {} ELSE hooks
  OBVIOUS
<1>12. SUFFICES /\ DueOf(hooks, text, at, to) = DueOf(hooks, text, n, a) \o Heeded(h, fo)
                /\ DueOf(hooks, text, n, a) \in Seq(Mems) /\ Heeded(h, fo) \in Seq(Mems)
  BY Zenon, <1>11 DEF DueMore
<1>1. PICK ms : ms = text.members
  OBVIOUS
<1>2. ms \in Seq(Mems)
  BY <1>1 DEF Reports
<1>3. PICK w, w2 : w = WholeBy(text, a) /\ w2 = WholeBy(text, to)
  OBVIOUS
<1>4. /\ w \in 0 .. Len(ms) /\ w2 \in w .. Len(ms) /\ OutAt(text.bytes, a) = SubSeq(ms, 1, w) /\ OutAt(text.bytes, to) = SubSeq(ms, 1, w2)
  <2>1. to \in 0 .. Len(text.bytes)
    OBVIOUS
  <2>2. /\ w \in 0 .. Len(ms) /\ w2 \in 0 .. Len(ms) /\ OutAt(text.bytes, a) = SubSeq(ms, 1, w) /\ OutAt(text.bytes, to) = SubSeq(ms, 1, w2)
    BY <1>1, <1>3, <2>1, WholeByIs
  <2>3. w <= w2
    BY <1>3, WholeByGrows
  <2>4. w \in Int /\ w2 \in Int /\ w2 <= Len(ms)
    BY <2>2
  <2>5. w2 \in w .. Len(ms)
    BY <2>2, <2>3, <2>4
  <2>6. QED
    BY <2>2, <2>5
<1>5. fo = SubSeq(ms, w + 1, w2)
  <2>1. PICK z, p, q : z = 0 /\ p = SubSeq(ms, 1, w) /\ q = SubSeq(ms, w + 1, w2)
    OBVIOUS
  <2>2. SubSeq(ms, 1, w2) = p \o q /\ p \in Seq(Mems) /\ q \in Seq(Mems)
    <3>1. 0 \in 0 .. Len(ms) /\ w \in 0 .. Len(ms) /\ w2 \in w .. Len(ms) /\ 0 + 1 = 1
      BY <1>2, <1>4
    <3>2. /\ SubSeq(ms, 0 + 1, w2) = SubSeq(ms, 0 + 1, w) \o SubSeq(ms, w + 1, w2)
          /\ SubSeq(ms, 0 + 1, w) \in Seq(Mems) /\ SubSeq(ms, w + 1, w2) \in Seq(Mems)
      BY <1>2, <3>1, PartsJoin
    <3>3. QED
      BY <2>1, <3>1, <3>2
  <2>3. p \o fo = p \o q
    BY <1>4, <2>1, <2>2
  <2>4. QED
    BY <2>1, <2>2, <2>3, Cancels
<1>6. Heeded(h, fo) \in Seq(Mems)
  BY HeededBoth
<1>7. CASE at = Unnamed
  <2>1. n = Unnamed /\ h = {}
    <3>1. a # Unnamed
      BY DEF Unnamed
    <3>2. QED
      BY <1>7, <1>11, <3>1
  <2>2. Heeded(h, fo) = <<>>
    BY <2>1, NothingHeeded
  <2>3. DueOf(hooks, text, at, to) = <<>> /\ DueOf(hooks, text, n, a) = <<>>
    BY <1>7, <2>1 DEF DueOf
  <2>4. PICK none : none = <<>>
    OBVIOUS
  <2>5. none \in Seq(Mems) /\ none = none \o none
    <3>1. none \in Seq(Mems)
      BY <2>4
    <3>2. none = none \o none
      BY <2>4
    <3>3. QED
      BY <3>1, <3>2
  <2>6. QED
    BY <2>2, <2>3, <2>4, <2>5
<1>8. CASE at # Unnamed /\ n = Unnamed
  <2>1. at = a /\ h = hooks
    BY <1>8, <1>11
  <2>2. DueOf(hooks, text, n, a) = <<>>
    BY <1>8 DEF DueOf
  <2>3. DueOf(hooks, text, at, to) = Heeded(h, fo)
    BY <1>1, <1>3, <1>5, <1>8, <2>1 DEF DueOf
  <2>4. <<>> \o Heeded(h, fo) = Heeded(h, fo)
    BY <1>6
  <2>5. QED
    BY <1>6, <2>2, <2>3, <2>4
<1>9. CASE at # Unnamed /\ n # Unnamed
  <2>1. at = n /\ h = hooks /\ n \in 0 .. a
    BY <1>9, <1>11
  <2>2. PICK v : v = WholeBy(text, n)
    OBVIOUS
  <2>3. v \in 0 .. Len(ms) /\ w \in v .. Len(ms)
    <3>1. n \in 0 .. Len(text.bytes) /\ a \in n .. Len(text.bytes)
      BY <2>1
    <3>2. v \in 0 .. Len(ms)
      BY <1>1, <2>2, <3>1, WholeByIs
    <3>3. v <= w
      BY <1>3, <2>2, <3>1, WholeByGrows
    <3>4. QED
      BY <1>4, <3>2, <3>3
  <2>4. PICK p, q : p = SubSeq(ms, v + 1, w) /\ q = SubSeq(ms, w + 1, w2)
    OBVIOUS
  <2>5. SubSeq(ms, v + 1, w2) = p \o q /\ p \in Seq(Mems) /\ q \in Seq(Mems)
    <3>1. ms \in Seq(Mems) /\ v \in 0 .. Len(ms) /\ w \in v .. Len(ms) /\ w2 \in w .. Len(ms)
      BY <1>2, <1>4, <2>3
    <3>2. /\ SubSeq(ms, v + 1, w2) = SubSeq(ms, v + 1, w) \o SubSeq(ms, w + 1, w2)
          /\ SubSeq(ms, v + 1, w) \in Seq(Mems) /\ SubSeq(ms, w + 1, w2) \in Seq(Mems)
      BY <3>1, PartsJoin
    <3>3. QED
      BY <2>4, <3>2
  <2>6. Heeded(hooks, p \o q) = Heeded(hooks, p) \o Heeded(hooks, q) /\ Heeded(hooks, p) \in Seq(Mems)
    BY <2>5, HeededBoth
  <2>7. DueOf(hooks, text, n, a) = Heeded(hooks, p) /\ DueOf(hooks, text, at, to) = Heeded(hooks, SubSeq(ms, v + 1, w2))
    BY Zenon, <1>1, <1>3, <1>9, <2>1, <2>2, <2>4 DEF DueOf
  <2>8. QED
    BY <1>5, <1>6, <2>1, <2>4, <2>5, <2>6, <2>7
<1>10. QED
  BY <1>7, <1>8, <1>9

(* The calls of a turn. *****************************************************)

LEMMA PrefixIs ==
  ASSUME NEW S, NEW h \in Seq(S), NEW t \in Seq(S), NEW j \in 1 .. Len(t)
  PROVE  h \o SubSeq(t, 1, j) # <<>> /\ IsPrefix(h \o SubSeq(t, 1, j), h \o t) /\ h \o SubSeq(t, 1, j) \in Seq(S)
<1>1. PICK f, p, all : f = SubSeq(t, 1, j) /\ p = h \o f /\ all = h \o t
  OBVIOUS
<1>2. f \in Seq(S) /\ Len(f) = j /\ (\A i \in 1 .. j : f[i] = t[i]) /\ Len(h) \in Nat /\ Len(t) \in Nat
  BY <1>1
<1>3. /\ p \in Seq(S) /\ Len(p) = Len(h) + j /\ all \in Seq(S) /\ Len(all) = Len(h) + Len(t)
      /\ (\A i \in 1 .. Len(h) : p[i] = h[i]) /\ (\A i \in 1 .. j : p[Len(h) + i] = f[i])
      /\ (\A i \in 1 .. Len(h) : all[i] = h[i]) /\ \A i \in 1 .. Len(t) : all[Len(h) + i] = t[i]
  <2>1. /\ p \in Seq(S) /\ Len(p) = Len(h) + Len(f)
        /\ (\A i \in 1 .. Len(h) : p[i] = h[i]) /\ \A i \in 1 .. Len(f) : p[Len(h) + i] = f[i]
    BY <1>1, <1>2, Concatenated
  <2>2. /\ all \in Seq(S) /\ Len(all) = Len(h) + Len(t)
        /\ (\A i \in 1 .. Len(h) : all[i] = h[i]) /\ \A i \in 1 .. Len(t) : all[Len(h) + i] = t[i]
    BY <1>1, Concatenated
  <2>3. QED
    BY <1>2, <2>1, <2>2
<1>4. Len(p) \in Nat /\ Len(p) # 0 /\ Len(p) <= Len(all) /\ Len(all) \in Nat
  BY <1>2, <1>3
<1>5. ASSUME NEW i \in 1 .. Len(p) PROVE p[i] = all[i]
  <2>1. CASE i <= Len(h)
    <3>1. i \in 1 .. Len(h)
      BY <1>2, <2>1
    <3>2. QED
      BY <1>3, <3>1
  <2>2. CASE ~(i <= Len(h))
    <3>1. i - Len(h) \in 1 .. j /\ i - Len(h) \in 1 .. Len(t) /\ Len(h) + (i - Len(h)) = i
      BY <1>2, <1>3, <2>2
    <3>2. p[Len(h) + (i - Len(h))] = f[i - Len(h)] /\ all[Len(h) + (i - Len(h))] = t[i - Len(h)] /\ f[i - Len(h)] = t[i - Len(h)]
      BY <1>2, <1>3, <3>1
    <3>3. QED
      BY <3>1, <3>2
  <2>3. QED
    BY <2>1, <2>2
<1>6. SubSeq(p, 1, Len(p)) = SubSeq(all, 1, Len(p))
  <2>1. PICK n : n = Len(p) /\ n \in Nat /\ n <= Len(all)
    BY <1>4
  <2>2. PICK g, l : g = SubSeq(p, 1, n) /\ l = SubSeq(all, 1, n)
    OBVIOUS
  <2>3. g \in Seq(S) /\ l \in Seq(S) /\ Len(g) = n /\ Len(l) = n
    BY <1>3, <2>1, <2>2
  <2>4. \A i \in 1 .. n : g[i] = p[i] /\ l[i] = all[i]
    BY <1>3, <2>1, <2>2
  <2>5. \A i \in 1 .. n : g[i] = l[i]
    BY <1>5, <2>1, <2>4
  <2>6. g = l
    BY <2>3, <2>5
  <2>7. QED
    BY <2>1, <2>2, <2>6
<1>7. p # <<>>
  BY <1>4
<1>8. QED
  BY <1>1, <1>3, <1>4, <1>6, <1>7 DEF IsPrefix

\* Nothing is due to a call that names no tool, or did with the last byte, or watches nothing.
LEMMA DueNone ==
  ASSUME NEW text, Reports(text.bytes, text.members, text.at), NEW hooks, NEW n, NEW a,
         n = Unnamed \/ n = a \/ hooks = {}
  PROVE  n \in {Unnamed} \cup 0 .. a /\ a \in 0 .. Len(text.bytes) => DueOf(hooks, text, n, a) = <<>>
<1> HAVE n \in {Unnamed} \cup 0 .. a /\ a \in 0 .. Len(text.bytes)
<1>1. PICK ms : ms = text.members
  OBVIOUS
<1>2. ms \in Seq(Mems)
  BY <1>1 DEF Reports
<1>3. CASE n = Unnamed
  BY <1>3 DEF DueOf
<1>4. CASE n # Unnamed /\ n = a
  <2>1. PICK w : w = WholeBy(text, a) /\ w \in 0 .. Len(ms)
    BY <1>1, WholeByIs
  <2>2. SubSeq(ms, w + 1, w) = <<>>
    BY <1>2, <2>1
  <2>3. DueOf(hooks, text, n, a) = Heeded(hooks, <<>>)
    BY Zenon, <1>1, <1>4, <2>1, <2>2 DEF DueOf
  <2>4. QED
    BY <2>3, HeededNone
<1>5. CASE n # Unnamed /\ hooks = {}
  <2>1. n \in 0 .. a /\ n \in 0 .. Len(text.bytes)
    BY <1>5
  <2>2. PICK v, w : v = WholeBy(text, n) /\ w = WholeBy(text, a) /\ v \in 0 .. Len(ms) /\ w \in 0 .. Len(ms)
    BY <1>1, <2>1, WholeByIs
  <2>3. SubSeq(ms, v + 1, w) \in Seq(Mems)
    BY <1>2, <2>2
  <2>4. Heeded({}, SubSeq(ms, v + 1, w)) = <<>>
    BY <2>3, NothingHeeded
  <2>5. QED
    BY Zenon, <1>1, <1>5, <2>2, <2>4 DEF DueOf
<1>6. QED
  BY <1>3, <1>4, <1>5

\* What holds of a call: what it asks, the calls begun, what has arrived of it, when it was named,
\* its scanner, what its hooks heard, the calls refused, how the stream ended.
Asked(w) == Reports(w.text.bytes, w.text.members, w.text.at) /\ w.cuts \subseteq Nat
CallOK(c, w, bgn, a, n, s, h, rfs, e) ==
  /\ Asked(w) /\ a \in 0 .. Len(w.text.bytes) /\ n \in {Unnamed} \cup 0 .. a /\ h \in Seq(Mems)
  /\ c \notin bgn => s.state = "unseen"
  /\ s.state = "unseen" /\ e = "no" => a = 0 /\ h = <<>>
  /\ s.state = "nil" => s = Nil /\ (c \notin rfs => n # Unnamed /\ w.hooks = {})
  /\ s.state \notin {"unseen", "nil"} => s = Away(Trace(NewScanner, w.text.bytes, a))
  /\ s.state # "unseen" => IF c \in rfs THEN h # <<>> /\ IsPrefix(h, DueOf(w.hooks, w.text, n, a))
                           ELSE h = DueOf(w.hooks, w.text, n, a)

LEMMA SameCall ==
  ASSUME NEW c, NEW w, NEW bgn, NEW a, NEW n, NEW s, NEW h, NEW rfs, NEW e, CallOK(c, w, bgn, a, n, s, h, rfs, e),
         NEW bgn2, c \in bgn => c \in bgn2, NEW rfs2, c \in rfs <=> c \in rfs2, NEW e2, e2 = "no" => e = "no"
  PROVE  CallOK(c, w, bgn2, a, n, s, h, rfs2, e2)
  BY DEF CallOK

LEMMA UnseenCall ==
  ASSUME NEW c, NEW w, Asked(w), NEW bgn, NEW a \in 0 .. Len(w.text.bytes), NEW n \in {Unnamed} \cup 0 .. a,
         NEW s, s.state = "unseen", NEW h \in Seq(Mems), NEW rfs, NEW e, e = "no" => a = 0 /\ h = <<>>
  PROVE  CallOK(c, w, bgn, a, n, s, h, rfs, e)
  BY DEF CallOK

\* A fragment without bytes.
LEMMA QuietCall ==
  ASSUME NEW c, NEW w, NEW bgn, NEW a, NEW n, NEW s, NEW h, NEW rfs, CallOK(c, w, bgn, a, n, s, h, rfs, "no"), c \notin rfs,
         NEW at, at = n \/ (n = Unnamed /\ at = a), NEW bgn2, c \in bgn2
  PROVE  CallOK(c, w, bgn2, a, at, s, h, rfs, "no")
<1>1. /\ Asked(w) /\ a \in 0 .. Len(w.text.bytes) /\ n \in {Unnamed} \cup 0 .. a /\ h \in Seq(Mems)
      /\ s.state = "unseen" => a = 0 /\ h = <<>>
      /\ s.state = "nil" => s = Nil /\ n # Unnamed /\ w.hooks = {}
      /\ s.state \notin {"unseen", "nil"} => s = Away(Trace(NewScanner, w.text.bytes, a))
      /\ s.state # "unseen" => h = DueOf(w.hooks, w.text, n, a)
  BY DEF CallOK
<1>2. at \in {Unnamed} \cup 0 .. a
  BY <1>1
<1>3. PICK hooks, text : hooks = w.hooks /\ text = w.text
  OBVIOUS
<1>4. DueOf(hooks, text, at, a) = DueOf(hooks, text, n, a)
  <2>1. CASE at = n
    BY <2>1
  <2>2. CASE n = Unnamed /\ at = a
    <3>1. Reports(text.bytes, text.members, text.at) /\ a \in 0 .. Len(text.bytes)
      BY <1>1, <1>3 DEF Asked
    <3>2. DueOf(hooks, text, at, a) = <<>> /\ DueOf(hooks, text, n, a) = <<>>
      BY <1>1, <1>2, <2>2, <3>1, DueNone
    <3>3. QED
      BY <3>2
  <2>3. QED
    BY <2>1, <2>2
<1>5. s.state = "nil" => at # Unnamed
  BY <1>1
<1>6. QED
  BY Zenon, <1>1, <1>2, <1>3, <1>4, <1>5 DEF CallOK

LEMMA NilIs ==
  /\ Nil.state = "nil" /\ Nil.out = <<>> /\ Away(Nil) = Nil /\ ScanEnded(Nil)
  /\ Unseen.state = "unseen" /\ NewScanner.state = "start" /\ Away(NewScanner) = NewScanner
<1>1. PICK none : none = <<>>
  OBVIOUS
<1>2. PICK z : z = Sc("start", none, none, No, No, 0, none) /\ NewScanner = z
  BY <1>1, NewIs
<1>3. PICK u, v : u = Sc("nil", none, none, No, No, 0, none) /\ v = Sc("unseen", none, none, No, No, 0, none)
  OBVIOUS
<1>4. [z EXCEPT !.state = "nil"] = u /\ [z EXCEPT !.state = "unseen"] = v
  BY <1>2, <1>3, ScState
<1>5. Nil = u /\ Unseen = v
  BY Zenon, <1>2, <1>4 DEF Nil, Unseen
<1>6. u.state = "nil" /\ u.out = none /\ v.state = "unseen" /\ z.state = "start"
  BY <1>2, <1>3, ScIs
<1>7. [u EXCEPT !.out = none] = u /\ [z EXCEPT !.out = none] = z
  BY <1>2, <1>3, ScOut
<1>8. Away(u) = u /\ Away(z) = z
  BY Zenon, <1>1, <1>7 DEF Away
<1>9. ScanEnded(u)
  BY <1>6 DEF ScanEnded
<1>10. QED
  BY <1>1, <1>2, <1>5, <1>6, <1>8, <1>9

\* A scan that is over rests.
Resting(s) == s.state \in {"done", "dead"} /\ Away(s) = s

LEMMA OverRests ==
  ASSUME NEW s, Resting(s), NEW b \in Seq(Byte)
  PROVE  Feed(s, b) = s
<1>1. \A c : StepScan(s, c) = s
  BY RestIs DEF Scanning, Resting
<1>2. Scanned(s, b) = s
  BY <1>1, Still
<1>3. QED
  BY Zenon, <1>2 DEF Feed, Away, Resting

\* The scanner a fragment finds.
Finds(w, at, s) == IF s.state # "unseen" THEN s ELSE IF at = Unnamed \/ w.hooks # {} THEN NewScanner ELSE Nil

\* A fragment with bytes, and the scanner runs.
ToldOn(w, a, n, to, at, fed, told) ==
  /\ told \in Seq(Mems) /\ DueOf(w.hooks, w.text, at, to) = DueOf(w.hooks, w.text, n, a) \o told
  /\ Away(fed) = Away(Trace(NewScanner, w.text.bytes, to)) /\ Away(fed).state \in States

LEMMA RunningCall ==
  ASSUME NEW w, Asked(w), NEW a \in 0 .. Len(w.text.bytes), NEW n \in {Unnamed} \cup 0 .. a,
         NEW old, old = Away(Trace(NewScanner, w.text.bytes, a)), old.state # "nil",
         NEW to \in a .. Len(w.text.bytes), NEW at, at = n \/ (n = Unnamed /\ at = a),
         NEW delta, delta = SubSeq(w.text.bytes, a + 1, to),
         NEW fed, fed = IF ScanEnded(old) THEN old ELSE Feed(old, delta),
         NEW hk, hk = IF at = Unnamed THEN {} ELSE w.hooks, NEW told, told = Heeded(hk, fed.out)
  PROVE  ToldOn(w, a, n, to, at, fed, told)
<1>1. PICK b, text, hooks : b = w.text.bytes /\ text = w.text /\ hooks = w.hooks
  OBVIOUS
<1>2. Reports(text.bytes, text.members, text.at) /\ b = text.bytes /\ b \in Seq(Byte)
  BY <1>1 DEF Asked, Reports
<1>3. delta \in Seq(Byte)
  BY <1>1, <1>2
<1>4. Away(old) = old
  <2>1. PICK u : u = Trace(NewScanner, b, a)
    OBVIOUS
  <2>2. Away(Away(u)) = Away(u)
    BY DEF Away
  <2>3. QED
    BY Zenon, <1>1, <2>1, <2>2
<1>5. fed = Feed(old, delta)
  <2>1. CASE ScanEnded(old)
    <3>1. old.state \in {"done", "dead"}
      BY <2>1 DEF ScanEnded
    <3>2. Resting(old)
      BY Zenon, <1>4, <3>1 DEF Resting
    <3>3. Feed(old, delta) = old
      BY Zenon, <1>3, <3>2, OverRests
    <3>4. QED
      BY Zenon, <2>1, <3>3
  <2>2. CASE ~ScanEnded(old)
    BY <2>2
  <2>3. QED
    BY <2>1, <2>2
<1>6. FedOn(b, a, to, fed)
  <2>1. a \in 0 .. Len(b) /\ to \in a .. Len(b)
    BY <1>1
  <2>2. FedOn(b, a, to, Feed(Away(Trace(NewScanner, b, a)), SubSeq(b, a + 1, to)))
    BY <1>2, <2>1, FeedIs
  <2>3. QED
    BY Zenon, <1>1, <1>5, <2>2
<1>7. PICK fo : fo = fed.out /\ fo \in Seq(Mems) /\ OutAt(b, to) = OutAt(b, a) \o fo
  BY <1>6 DEF FedOn
<1>8. DueMore(text, hooks, a, to, n, at, fo)
  <2>1. /\ a \in 0 .. Len(text.bytes) /\ to \in a .. Len(text.bytes) /\ (n = Unnamed \/ n \in 0 .. a)
        /\ OutAt(text.bytes, to) = OutAt(text.bytes, a) \o fo
    BY <1>1, <1>2, <1>7
  <2>2. QED
    BY <1>2, <1>7, <2>1, DueOn
<1>9. told = Heeded(IF at = Unnamed THEN {} ELSE hooks, fo)
  BY Zenon, <1>1, <1>7
<1>10. QED
  BY Zenon, <1>1, <1>6, <1>8, <1>9 DEF FedOn, DueMore, ToldOn

HearsOn(c, w, bgn, to, at, fed, h, told, rfs) ==
  /\ CallOK(c, w, bgn, to, at, Away(fed), h \o told, rfs, "no")
  /\ \A j \in 1 .. Len(told) : CallOK(c, w, bgn, to, at, Nil, h \o SubSeq(told, 1, j), rfs \cup {c}, "no")

\* A fragment with bytes: its hook accepts what it is told, or refuses at one of the members.
LEMMA ToldCall ==
  ASSUME NEW c, NEW w, NEW bgn, NEW a, NEW n, NEW s, NEW h, NEW rfs, CallOK(c, w, bgn, a, n, s, h, rfs, "no"), c \notin rfs,
         NEW bgn2, c \in bgn2, NEW to \in a .. Len(w.text.bytes), NEW at, at = n \/ (n = Unnamed /\ at = a),
         NEW delta, delta = SubSeq(w.text.bytes, a + 1, to), NEW old, old = Finds(w, at, s),
         NEW fed, fed = IF ScanEnded(old) THEN old ELSE Feed(old, delta),
         NEW hk, hk = IF at = Unnamed THEN {} ELSE w.hooks, NEW told, told = Heeded(hk, fed.out)
  PROVE  HearsOn(c, w, bgn2, to, at, fed, h, told, rfs)
<1>1. /\ Asked(w) /\ a \in 0 .. Len(w.text.bytes) /\ n \in {Unnamed} \cup 0 .. a /\ h \in Seq(Mems)
      /\ s.state = "unseen" => a = 0 /\ h = <<>>
      /\ s.state = "nil" => s = Nil /\ n # Unnamed /\ w.hooks = {}
      /\ s.state \notin {"unseen", "nil"} => s = Away(Trace(NewScanner, w.text.bytes, a))
      /\ s.state # "unseen" => h = DueOf(w.hooks, w.text, n, a)
  BY DEF CallOK
<1>2. at \in {Unnamed} \cup 0 .. to /\ to \in 0 .. Len(w.text.bytes)
  BY <1>1
<1>3. PICK b, text, hooks : b = w.text.bytes /\ text = w.text /\ hooks = w.hooks
  OBVIOUS
<1>4. Reports(text.bytes, text.members, text.at) /\ b = text.bytes /\ b \in Seq(Byte)
  BY <1>1, <1>3 DEF Asked, Reports
<1>5. h = DueOf(hooks, text, n, a)
  <2>1. CASE s.state = "unseen"
    <3>1. a = 0 /\ h = <<>> /\ (n = Unnamed \/ n = a) /\ a \in 0 .. Len(text.bytes)
      BY <1>1, <1>3, <2>1
    <3>2. DueOf(hooks, text, n, a) = <<>>
      BY <1>1, <1>4, <3>1, DueNone
    <3>3. QED
      BY <3>1, <3>2
  <2>2. CASE s.state # "unseen"
    BY <1>1, <1>3, <2>2
  <2>3. QED
    BY <2>1, <2>2
<1>6. CASE old.state = "nil"
  <2>1. old = Nil /\ at # Unnamed /\ hooks = {}
    <3>1. CASE s.state = "unseen"
      <4>1. old = IF at = Unnamed \/ hooks # {} THEN NewScanner ELSE Nil
        BY <1>3, <3>1 DEF Finds
      <4>2. old # NewScanner
        BY <1>6, NilIs
      <4>3. QED
        BY <4>1, <4>2
    <3>2. CASE s.state # "unseen"
      <4>1. old = s
        BY <3>2 DEF Finds
      <4>2. QED
        BY <1>1, <1>3, <1>6, <4>1
    <3>3. QED
      BY <3>1, <3>2
  <2>2. PICK none : none = <<>>
    OBVIOUS
  <2>3. fed = Nil /\ hk = {} /\ fed.out = none /\ Away(fed) = Nil
    BY <1>3, <2>1, <2>2, NilIs
  <2>4. told = none /\ none \in Seq(Mems) /\ Len(none) = 0
    <3>1. Heeded({}, none) = none
      BY <2>2, HeededNone
    <3>2. told = none
      BY Zenon, <2>3, <3>1
    <3>3. none \in Seq(Mems) /\ Len(none) = 0
      BY <2>2
    <3>4. QED
      BY <3>2, <3>3
  <2>5. DueOf(hooks, text, at, to) = none /\ h = none
    <3>1. to \in 0 .. Len(text.bytes) /\ a \in 0 .. Len(text.bytes)
      BY <1>1, <1>2, <1>3
    <3>2. DueOf(hooks, text, at, to) = <<>>
      BY <1>2, <1>4, <2>1, <3>1, DueNone
    <3>3. DueOf(hooks, text, n, a) = <<>>
      BY <1>1, <1>4, <2>1, <3>1, DueNone
    <3>4. QED
      BY <1>5, <2>2, <3>2, <3>3
  <2>6. h \o told = none
    BY <2>2, <2>4, <2>5
  <2>7. CallOK(c, w, bgn2, to, at, Nil, none, rfs, "no")
    BY Zenon, <1>1, <1>2, <1>3, <2>1, <2>4, <2>5, NilIs DEF CallOK
  <2>8. \A j \in 1 .. Len(told) : FALSE
    BY <2>4
  <2>9. CallOK(c, w, bgn2, to, at, Away(fed), h \o told, rfs, "no")
    BY Zenon, <2>3, <2>6, <2>7
  <2>10. QED
    BY Zenon, <2>8, <2>9 DEF HearsOn
<1>7. CASE old.state # "nil"
  <2>1. old = Away(Trace(NewScanner, b, a))
    <3>1. CASE s.state = "unseen"
      <4>1. old = NewScanner
        <5>1. old = IF at = Unnamed \/ hooks # {} THEN NewScanner ELSE Nil
          BY <1>3, <3>1 DEF Finds
        <5>2. old # Nil
          BY <1>7, NilIs
        <5>3. QED
          BY <5>1, <5>2
      <4>2. Trace(NewScanner, b, 0) = NewScanner /\ a = 0
        BY <1>1, <1>4, <3>1, TraceSteps
      <4>3. QED
        BY <4>1, <4>2, NilIs
    <3>2. CASE s.state # "unseen"
      <4>1. old = s
        BY <3>2 DEF Finds
      <4>2. QED
        BY <1>1, <1>3, <1>7, <3>2, <4>1
    <3>3. QED
      BY <3>1, <3>2
  <2>2. /\ told \in Seq(Mems) /\ DueOf(w.hooks, w.text, at, to) = DueOf(w.hooks, w.text, n, a) \o told
        /\ Away(fed) = Away(Trace(NewScanner, w.text.bytes, to)) /\ Away(fed).state \in States
    <3>1. old = Away(Trace(NewScanner, w.text.bytes, a)) /\ Asked(w) /\ a \in 0 .. Len(w.text.bytes) /\ n \in {Unnamed} \cup 0 .. a
      BY <1>1, <1>3, <2>1
    <3>2. ToldOn(w, a, n, to, at, fed, told)
      BY <1>7, <3>1, RunningCall
    <3>3. QED
      BY Zenon, <3>2 DEF ToldOn
  <2>3. PICK due, x : due = h \o told /\ x = Away(fed)
    OBVIOUS
  <2>4. due \in Seq(Mems) /\ due = DueOf(w.hooks, w.text, at, to)
    BY <1>1, <1>3, <1>5, <2>2, <2>3
  <2>5. x = Away(Trace(NewScanner, w.text.bytes, to)) /\ x.state \notin {"unseen", "nil"}
    BY <2>2, <2>3, StatesAre
  <2>6. CallOK(c, w, bgn2, to, at, x, due, rfs, "no")
    <3>1. x.state # "unseen" /\ x.state # "nil"
      BY <2>5
    <3>2. QED
      BY Zenon, <1>1, <1>2, <2>4, <2>5, <3>1 DEF CallOK
  <2>7. ASSUME NEW j \in 1 .. Len(told) PROVE CallOK(c, w, bgn2, to, at, Nil, h \o SubSeq(told, 1, j), rfs \cup {c}, "no")
    <3>1. PICK p : p = h \o SubSeq(told, 1, j)
      OBVIOUS
    <3>2. p # <<>> /\ IsPrefix(p, due) /\ p \in Seq(Mems)
      <4>1. told \in Seq(Mems) /\ h \in Seq(Mems)
        BY <1>1, <2>2
      <4>2. h \o SubSeq(told, 1, j) # <<>> /\ IsPrefix(h \o SubSeq(told, 1, j), h \o told) /\ h \o SubSeq(told, 1, j) \in Seq(Mems)
        BY <4>1, PrefixIs
      <4>3. QED
        BY Zenon, <2>3, <3>1, <4>2
    <3>3. c \in rfs \cup {c}
      OBVIOUS
    <3>4. CallOK(c, w, bgn2, to, at, Nil, p, rfs \cup {c}, "no")
      BY Zenon, <1>1, <1>2, <2>4, <3>2, <3>3, NilIs DEF CallOK
    <3>5. QED
      BY <3>1, <3>4
  <2>8. QED
    BY Zenon, <2>3, <2>6, <2>7 DEF HearsOn
<1>8. QED
  BY <1>6, <1>7

\* The invariant of the calls of a turn.
CallInv(c) == CallOK(c, wants[c], begun, arrived[c], named[c], scan[c], heard[c], refusers, ended)
CallsInv   == \A c \in TurnCalls : CallInv(c)
Tracked    == DOMAIN arrived = TurnCalls /\ DOMAIN named = TurnCalls /\ DOMAIN scan = TurnCalls /\ DOMAIN heard = TurnCalls
BegunInv   == /\ begun \subseteq TurnCalls /\ inChunk \subseteq begun /\ refusers \subseteq begun
              /\ ended = "no" => refusers \subseteq inChunk /\ answers = <<>>
IdsApart   == \A c, d \in TurnCalls : wants[c].id = wants[d].id => c = d \/ wants[c].id = NoId
KeptInv    == /\ DOMAIN refused = {wants[c].id : c \in refusers}
              /\ \A id \in DOMAIN refused : refused[id] \in refusers /\ wants[refused[id]].id = id
AnswerTo(c) == IF wants[c].id \in DOMAIN refused THEN refused[wants[c].id] ELSE "ran"
AnsweredInv == answers = <<>> \/ (ended # "no" /\ answers = [c \in begun |-> AnswerTo(c)])
HooksInv   == CallsInv /\ Tracked /\ BegunInv /\ IdsApart /\ KeptInv /\ AnsweredInv

LEMMA HooksBegin == HooksInit => HooksInv
<1> SUFFICES ASSUME HooksInit PROVE HooksInv
  OBVIOUS
<1>1. PICK turn \in Turns : wants = [c \in TurnCalls |-> [turn[c] EXCEPT !.text = Written(@)]]
  BY DEF HooksInit
<1>2. /\ begun = {} /\ arrived = [c \in TurnCalls |-> 0] /\ named = [c \in TurnCalls |-> Unnamed]
      /\ scan = [c \in TurnCalls |-> Unseen] /\ heard = [c \in TurnCalls |-> <<>>] /\ refused = <<>> /\ refusers = {}
      /\ inChunk = {} /\ ended = "no" /\ answers = <<>>
  BY DEF HooksInit
<1>3. /\ \A c \in TurnCalls : LegalAsk(turn[c])
      /\ \A c, d \in TurnCalls : turn[c].id = turn[d].id => c = d \/ turn[c].id = NoId
  BY LegalTurns
<1>4. ASSUME NEW c \in TurnCalls PROVE Asked(wants[c]) /\ wants[c].id = turn[c].id
  <2>1. PICK t, ask : ask = turn[c] /\ t = ask.text
    OBVIOUS
  <2>2. DOMAIN ask = {"text", "hooks", "id", "late", "cuts"} /\ LegalText(t) /\ ask.cuts \subseteq Nat
    BY <1>3, <2>1 DEF LegalAsk
  <2>3. PICK text, w : text = Written(t) /\ w = [ask EXCEPT !.text = text]
    OBVIOUS
  <2>4. wants[c] = w
    <3>1. wants[c] = [ask EXCEPT !.text = Written(@)]
      BY Zenon, <1>1, <2>1
    <3>2. [ask EXCEPT !.text = Written(@)] = [ask EXCEPT !.text = Written(ask.text)]
      OBVIOUS
    <3>3. QED
      BY Zenon, <2>1, <2>3, <3>1, <3>2
  <2>5. w.text = text /\ w.cuts = ask.cuts /\ w.id = ask.id
    BY <2>2, <2>3
  <2>6. Reports(text.bytes, text.members, text.at)
    BY <2>2, <2>3, WrittenIsTold
  <2>7. Asked(w)
    BY Zenon, <2>2, <2>5, <2>6 DEF Asked
  <2>8. QED
    BY <2>1, <2>4, <2>5, <2>7
<1>5. ASSUME NEW c \in TurnCalls PROVE CallInv(c)
  <2>1. PICK w, none : w = wants[c] /\ none = <<>>
    OBVIOUS
  <2>2. Asked(w)
    BY <1>4, <2>1
  <2>3. 0 \in 0 .. Len(w.text.bytes) /\ Unnamed \in {Unnamed} \cup 0 .. 0 /\ none \in Seq(Mems)
    <3>1. w.text.bytes \in Seq(Byte)
      BY <2>2 DEF Asked, Reports
    <3>2. QED
      BY <2>1, <3>1
  <2>4. CallOK(c, w, begun, 0, Unnamed, Unseen, none, refusers, ended)
    BY <2>1, <2>2, <2>3, NilIs, UnseenCall
  <2>5. arrived[c] = 0 /\ named[c] = Unnamed /\ scan[c] = Unseen /\ heard[c] = none
    BY <1>2, <2>1
  <2>6. QED
    BY Zenon, <2>1, <2>4, <2>5 DEF CallInv
<1>6. Tracked
  BY <1>2 DEF Tracked
<1>7. BegunInv /\ AnsweredInv
  BY <1>2 DEF BegunInv, AnsweredInv
<1>8. IdsApart
  BY <1>3, <1>4 DEF IdsApart
<1>9. KeptInv
  <2>1. DOMAIN <<>> = {}
    OBVIOUS
  <2>2. QED
    BY <1>2, <2>1 DEF KeptInv
<1>10. QED
  BY <1>5, <1>6, <1>7, <1>8, <1>9 DEF HooksInv, CallsInv

\* A step that leaves the calls as they are, but that more may have begun or the stream have ended.
LEMMA CallsStay ==
  ASSUME HooksInv, UNCHANGED <<wants, begun, arrived, named, scan, heard, refused, refusers>>, ended' = "no" => ended = "no"
  PROVE  CallsInv' /\ Tracked' /\ IdsApart' /\ KeptInv'
<1>1. CallsInv'
  <2> SUFFICES ASSUME NEW c \in TurnCalls PROVE CallInv(c)'
    BY DEF CallsInv
  <2>1. CallOK(c, wants[c], begun, arrived[c], named[c], scan[c], heard[c], refusers, ended)
    BY DEF HooksInv, CallsInv, CallInv
  <2>2. CallOK(c, wants[c], begun, arrived[c], named[c], scan[c], heard[c], refusers, ended')
    BY <2>1, SameCall
  <2>3. QED
    BY Zenon, <2>2 DEF CallInv
<1>2. Tracked' /\ IdsApart' /\ KeptInv'
  BY DEF HooksInv, Tracked, IdsApart, KeptInv
<1>3. QED
  BY <1>1, <1>2

LEMMA ChunkEndsKeeps == ASSUME HooksInv, ChunkEnds PROVE HooksInv'
<1>1. /\ ended = "no" /\ inChunk' = {} /\ ended' = (IF refusers # {} THEN "refused" ELSE "no")
      /\ UNCHANGED <<wants, begun, arrived, named, scan, heard, refused, refusers, answers>>
  BY DEF ChunkEnds
<1>2. CallsInv' /\ Tracked' /\ IdsApart' /\ KeptInv'
  BY <1>1, CallsStay
<1>3. BegunInv /\ AnsweredInv
  BY DEF HooksInv
<1>4. BegunInv' /\ AnsweredInv'
  BY <1>1, <1>3 DEF BegunInv, AnsweredInv
<1>5. QED
  BY <1>2, <1>4 DEF HooksInv

LEMMA StreamEndsKeeps == ASSUME HooksInv, HookStreamEnds PROVE HooksInv'
<1>1. /\ ended = "no" /\ ended' # "no"
      /\ UNCHANGED <<wants, begun, arrived, named, scan, heard, refused, refusers, inChunk, answers>>
  BY DEF HookStreamEnds
<1>2. CallsInv' /\ Tracked' /\ IdsApart' /\ KeptInv'
  BY <1>1, CallsStay
<1>3. BegunInv
  BY DEF HooksInv
<1>4. BegunInv' /\ AnsweredInv'
  BY <1>1, <1>3 DEF BegunInv, AnsweredInv
<1>5. QED
  BY <1>2, <1>4 DEF HooksInv

LEMMA DispatchKeeps == ASSUME HooksInv, Dispatch PROVE HooksInv'
<1>1. /\ ended # "no" /\ answers' = [c \in begun |-> AnswerTo(c)]
      /\ UNCHANGED <<wants, begun, arrived, named, scan, heard, refused, refusers, inChunk, ended>>
  BY DEF Dispatch, AnswerTo
<1>2. CallsInv' /\ Tracked' /\ IdsApart' /\ KeptInv'
  BY <1>1, CallsStay
<1>3. BegunInv
  BY DEF HooksInv
<1>4. BegunInv'
  BY <1>1, <1>3 DEF BegunInv
<1>5. AnsweredInv'
  BY <1>1 DEF AnsweredInv, AnswerTo
<1>6. QED
  BY <1>2, <1>4, <1>5 DEF HooksInv

LEMMA RetryKeeps == ASSUME HooksInv, Retry PROVE HooksInv'
<1>1. /\ ended = "no" /\ inChunk = {} /\ arrived' = [c \in TurnCalls |-> 0]
      /\ named' = [c \in TurnCalls |-> IF IsNamed(named[c]) THEN 0 ELSE Unnamed]
      /\ scan' = [c \in TurnCalls |-> Unseen] /\ heard' = [c \in TurnCalls |-> <<>>]
      /\ UNCHANGED <<wants, begun, refused, refusers, inChunk, ended, answers>>
  BY DEF Retry
<1>2. ASSUME NEW c \in TurnCalls PROVE CallInv(c)'
  <2>1. PICK w, none, n : w = wants[c] /\ none = <<>> /\ n = IF IsNamed(named[c]) THEN 0 ELSE Unnamed
    OBVIOUS
  <2>2. Asked(w)
    BY <2>1 DEF HooksInv, CallsInv, CallInv, CallOK
  <2>3. 0 \in 0 .. Len(w.text.bytes) /\ n \in {Unnamed} \cup 0 .. 0 /\ none \in Seq(Mems)
    <3>1. w.text.bytes \in Seq(Byte)
      BY <2>2 DEF Asked, Reports
    <3>2. QED
      BY <2>1, <3>1
  <2>4. CallOK(c, w, begun, 0, n, Unseen, none, refusers, ended)
    BY <2>1, <2>2, <2>3, NilIs, UnseenCall
  <2>5. arrived'[c] = 0 /\ named'[c] = n /\ scan'[c] = Unseen /\ heard'[c] = none
    BY <1>1, <2>1
  <2>6. QED
    BY Zenon, <1>1, <2>1, <2>4, <2>5 DEF CallInv
<1>3. Tracked'
  BY <1>1 DEF Tracked
<1>4. BegunInv' /\ IdsApart' /\ KeptInv' /\ AnsweredInv'
  BY <1>1 DEF HooksInv, BegunInv, IdsApart, KeptInv, AnsweredInv, AnswerTo
<1>5. QED
  BY <1>2, <1>3, <1>4 DEF HooksInv, CallsInv

LEMMA WholeKeeps == ASSUME HooksInv, CallsArriveWhole PROVE HooksInv'
<1>1. /\ ended = "no" /\ begun = {} /\ begun' \subseteq TurnCalls /\ ended' = "done"
      /\ named' = [c \in TurnCalls |-> IF c \in begun' THEN 0 ELSE Unnamed]
      /\ arrived' = [c \in TurnCalls |-> IF c \in begun' THEN Len(wants[c].text.bytes) ELSE 0]
      /\ UNCHANGED <<wants, scan, heard, refused, refusers, inChunk, answers>>
  BY DEF CallsArriveWhole
<1>2. ASSUME NEW c \in TurnCalls PROVE CallInv(c)'
  <2>1. PICK w, n, a : /\ w = wants[c] /\ n = (IF c \in begun' THEN 0 ELSE Unnamed)
                       /\ a = (IF c \in begun' THEN Len(wants[c].text.bytes) ELSE 0)
    OBVIOUS
  <2>2. Asked(w) /\ scan[c].state = "unseen" /\ heard[c] \in Seq(Mems)
    BY <1>1, <2>1 DEF HooksInv, CallsInv, CallInv, CallOK
  <2>3. a \in 0 .. Len(w.text.bytes) /\ n \in {Unnamed} \cup 0 .. a
    <3>1. w.text.bytes \in Seq(Byte)
      BY <2>2 DEF Asked, Reports
    <3>2. Len(w.text.bytes) \in Nat
      BY <3>1
    <3>3. a \in {0, Len(w.text.bytes)} /\ n \in {0, Unnamed}
      BY <2>1
    <3>4. QED
      BY <3>2, <3>3
  <2>4. ended' # "no"
    BY <1>1
  <2>5. CallOK(c, w, begun', a, n, scan[c], heard[c], refusers, ended')
    BY <2>2, <2>3, <2>4, UnseenCall
  <2>6. arrived'[c] = a /\ named'[c] = n
    BY <1>1, <2>1
  <2>7. QED
    BY Zenon, <1>1, <2>1, <2>5, <2>6 DEF CallInv
<1>3. Tracked'
  BY <1>1 DEF HooksInv, Tracked
<1>4. BegunInv' /\ IdsApart' /\ KeptInv' /\ AnsweredInv'
  BY <1>1 DEF HooksInv, BegunInv, IdsApart, KeptInv, AnsweredInv
<1>5. QED
  BY <1>2, <1>3, <1>4 DEF HooksInv, CallsInv

\* A fragment, with its names as parameters.
Brings(c, to, at, delta, old, fed, told) ==
  /\ ended = "no" /\ c \notin inChunk
  /\ to \in wants[c].cuts \cap (arrived[c] .. Len(wants[c].text.bytes))
  /\ at = named[c] \/ (named[c] = Unnamed /\ at = arrived[c])
  /\ delta = SubSeq(wants[c].text.bytes, arrived[c] + 1, to)
  /\ old = ScannerFor(c, at) /\ fed = (IF ScanEnded(old) THEN old ELSE Feed(old, delta)) /\ told = Told(c, at, fed.out)
  /\ arrived' = [arrived EXCEPT ![c] = to] /\ named' = [named EXCEPT ![c] = at]
  /\ \/ delta = <<>> /\ UNCHANGED <<scan, heard, refused, refusers>>
     \/ Accepts(c, fed, told)
     \/ Refuses(c, told)
  /\ begun' = begun \cup {c} /\ inChunk' = inChunk \cup {c} /\ UNCHANGED <<wants, ended, answers>>

LEMMA FragmentBrings ==
  ASSUME NEW c \in TurnCalls, Fragment(c)
  PROVE  \E to, at, delta, old, fed, told : Brings(c, to, at, delta, old, fed, told)
<1>1. PICK to, names :
        LET at    == IF names /\ ~IsNamed(named[c]) THEN arrived[c] ELSE named[c]
            delta == SubSeq(wants[c].text.bytes, arrived[c] + 1, to)
            old   == ScannerFor(c, at)
            fed   == IF ScanEnded(old) THEN old ELSE Feed(old, delta)
            told  == Told(c, at, fed.out)
        IN  /\ to \in wants[c].cuts \cap (arrived[c] .. Len(wants[c].text.bytes))
            /\ arrived' = [arrived EXCEPT ![c] = to]
            /\ named' = [named EXCEPT ![c] = at]
            /\ \/ delta = <<>> /\ UNCHANGED <<scan, heard, refused, refusers>>
               \/ Accepts(c, fed, told)
               \/ Refuses(c, told)
  BY Zenon DEF Fragment
<1>2. PICK at : at = IF names /\ ~IsNamed(named[c]) THEN arrived[c] ELSE named[c]
  OBVIOUS
<1>3. PICK delta : delta = SubSeq(wants[c].text.bytes, arrived[c] + 1, to)
  OBVIOUS
<1>4. PICK old : old = ScannerFor(c, at)
  OBVIOUS
<1>5. PICK fed : fed = IF ScanEnded(old) THEN old ELSE Feed(old, delta)
  OBVIOUS
<1>6. PICK told : told = Told(c, at, fed.out)
  OBVIOUS
<1>7. /\ arrived' = [arrived EXCEPT ![c] = to] /\ named' = [named EXCEPT ![c] = at]
      /\ \/ delta = <<>> /\ UNCHANGED <<scan, heard, refused, refusers>>
         \/ Accepts(c, fed, told)
         \/ Refuses(c, told)
  BY Zenon, <1>1, <1>2, <1>3, <1>4, <1>5, <1>6
<1>8. at = named[c] \/ (named[c] = Unnamed /\ at = arrived[c])
  BY Zenon, <1>2 DEF IsNamed
<1>9. ended = "no" /\ c \notin inChunk /\ begun' = begun \cup {c} /\ inChunk' = inChunk \cup {c} /\ UNCHANGED <<wants, ended, answers>>
  BY Zenon DEF Fragment
<1>10. Brings(c, to, at, delta, old, fed, told)
  BY Zenon, <1>1, <1>3, <1>4, <1>5, <1>6, <1>7, <1>8, <1>9 DEF Brings
<1>11. QED
  BY Zenon, <1>10

\* The call a fragment is of.
LEMMA BroughtCall ==
  ASSUME HooksInv, NEW c \in TurnCalls, NEW to, NEW at, NEW delta, NEW old, NEW fed, NEW told,
         Brings(c, to, at, delta, old, fed, told)
  PROVE  /\ c \notin refusers
         /\ delta = <<>> => CallOK(c, wants[c], begun', to, at, scan[c], heard[c], refusers, "no")
         /\ CallOK(c, wants[c], begun', to, at, Away(fed), heard[c] \o told, refusers, "no")
         /\ \A j \in 1 .. Len(told) :
              CallOK(c, wants[c], begun', to, at, Nil, heard[c] \o SubSeq(told, 1, j), refusers \cup {c}, "no")
<1>1. PICK w, a, n, s, h : w = wants[c] /\ a = arrived[c] /\ n = named[c] /\ s = scan[c] /\ h = heard[c]
  OBVIOUS
<1>2. /\ ended = "no" /\ c \notin inChunk /\ to \in a .. Len(w.text.bytes) /\ (at = n \/ (n = Unnamed /\ at = a))
      /\ delta = SubSeq(w.text.bytes, a + 1, to) /\ c \in begun'
      /\ old = ScannerFor(c, at) /\ fed = (IF ScanEnded(old) THEN old ELSE Feed(old, delta)) /\ told = Told(c, at, fed.out)
  BY <1>1 DEF Brings
<1>3. c \notin refusers
  BY <1>2 DEF HooksInv, BegunInv
<1>4. CallOK(c, w, begun, a, n, s, h, refusers, "no")
  BY Zenon, <1>1, <1>2 DEF HooksInv, CallsInv, CallInv
<1>5. PICK hk : hk = IF at = Unnamed THEN {} ELSE w.hooks
  OBVIOUS
<1>6. old = Finds(w, at, s)
  BY Zenon, <1>1, <1>2 DEF Finds, ScannerFor, Hooks, IsNamed
<1>7. Hooks(c, at) = hk
  BY <1>1, <1>5 DEF Hooks, IsNamed
<1>8. told = Heeded(hk, fed.out)
  BY Zenon, <1>2, <1>7 DEF Told
<1>9. /\ CallOK(c, w, begun', to, at, Away(fed), h \o told, refusers, "no")
      /\ \A j \in 1 .. Len(told) : CallOK(c, w, begun', to, at, Nil, h \o SubSeq(told, 1, j), refusers \cup {c}, "no")
  <2>1. PICK bgn : bgn = begun'
    OBVIOUS
  <2>2. /\ to \in a .. Len(w.text.bytes) /\ (at = n \/ (n = Unnamed /\ at = a)) /\ c \in bgn
        /\ delta = SubSeq(w.text.bytes, a + 1, to) /\ fed = (IF ScanEnded(old) THEN old ELSE Feed(old, delta))
    BY <1>2, <2>1
  <2>3. HearsOn(c, w, bgn, to, at, fed, h, told, refusers)
    BY <1>3, <1>4, <1>5, <1>6, <1>8, <2>2, ToldCall
  <2>4. QED
    BY Zenon, <2>1, <2>3 DEF HearsOn
<1>10. ASSUME delta = <<>> PROVE CallOK(c, w, begun', to, at, s, h, refusers, "no")
  <2>1. to = a
    <3>1. w.text.bytes \in Seq(Byte) /\ a \in 0 .. Len(w.text.bytes)
      BY <1>4 DEF CallOK, Asked, Reports
    <3>2. Len(SubSeq(w.text.bytes, a + 1, to)) = to - a
      BY <1>2, <3>1
    <3>3. QED
      BY <1>2, <1>10, <3>1, <3>2
  <2>2. CallOK(c, w, begun', a, at, s, h, refusers, "no")
    BY <1>2, <1>3, <1>4, QuietCall
  <2>3. QED
    BY <2>1, <2>2
<1>11. QED
  BY Zenon, <1>1, <1>3, <1>9, <1>10

LEMMA FragmentKeeps == ASSUME HooksInv, NEW c \in TurnCalls, Fragment(c) PROVE HooksInv'
<1>1. PICK to, at, delta, old, fed, told : Brings(c, to, at, delta, old, fed, told)
  BY FragmentBrings
<1>2. /\ ended = "no" /\ c \notin inChunk /\ arrived' = [arrived EXCEPT ![c] = to] /\ named' = [named EXCEPT ![c] = at]
      /\ \/ delta = <<>> /\ UNCHANGED <<scan, heard, refused, refusers>>
         \/ Accepts(c, fed, told)
         \/ Refuses(c, told)
      /\ begun' = begun \cup {c} /\ inChunk' = inChunk \cup {c} /\ UNCHANGED <<wants, ended, answers>>
  BY <1>1 DEF Brings
<1>3. /\ c \notin refusers
      /\ delta = <<>> => CallOK(c, wants[c], begun', to, at, scan[c], heard[c], refusers, "no")
      /\ CallOK(c, wants[c], begun', to, at, Away(fed), heard[c] \o told, refusers, "no")
      /\ \A j \in 1 .. Len(told) :
           CallOK(c, wants[c], begun', to, at, Nil, heard[c] \o SubSeq(told, 1, j), refusers \cup {c}, "no")
  BY <1>1, BroughtCall
<1>4. Tracked /\ BegunInv /\ KeptInv
  BY DEF HooksInv
<1>5. /\ arrived'[c] = to /\ named'[c] = at /\ DOMAIN arrived' = TurnCalls /\ DOMAIN named' = TurnCalls
      /\ \A d \in TurnCalls : d # c => arrived'[d] = arrived[d] /\ named'[d] = named[d]
  BY <1>2, <1>4 DEF Tracked
\* The scan and what was heard, of this call and of the others.
<1>6. /\ CallOK(c, wants[c], begun', to, at, scan'[c], heard'[c], refusers', "no")
      /\ DOMAIN scan' = TurnCalls /\ DOMAIN heard' = TurnCalls
      /\ \A d \in TurnCalls : d # c => scan'[d] = scan[d] /\ heard'[d] = heard[d]
      /\ refusers \subseteq refusers' /\ refusers' \subseteq refusers \cup {c} /\ KeptInv'
  <2>1. CASE delta = <<>> /\ UNCHANGED <<scan, heard, refused, refusers>>
    <3>1. KeptInv'
      BY <1>2, <1>4, <2>1 DEF KeptInv
    <3>2. CallOK(c, wants[c], begun', to, at, scan'[c], heard'[c], refusers', "no")
      BY Zenon, <1>3, <2>1
    <3>3. QED
      BY <1>4, <2>1, <3>1, <3>2 DEF Tracked
  <2>2. CASE Accepts(c, fed, told)
    <3>1. PICK put, all : put = Away(fed) /\ all = heard[c] \o told
      OBVIOUS
    <3>2. scan' = [scan EXCEPT ![c] = put] /\ heard' = [heard EXCEPT ![c] = all] /\ refused' = refused /\ refusers' = refusers
      <4>1. scan' = [scan EXCEPT ![c] = [fed EXCEPT !.out = <<>>]] /\ refused' = refused /\ refusers' = refusers
        BY Zenon, <2>2 DEF Accepts
      <4>2. heard' = [heard EXCEPT ![c] = heard[c] \o told]
        BY <2>2 DEF Accepts
      <4>3. QED
        BY Zenon, <3>1, <4>1, <4>2 DEF Away
    <3>3. /\ scan'[c] = put /\ heard'[c] = all /\ DOMAIN scan' = TurnCalls /\ DOMAIN heard' = TurnCalls
          /\ \A d \in TurnCalls : d # c => scan'[d] = scan[d] /\ heard'[d] = heard[d]
      BY <1>4, <3>2 DEF Tracked
    <3>4. KeptInv'
      BY <1>2, <1>4, <3>2 DEF KeptInv
    <3>5. CallOK(c, wants[c], begun', to, at, scan'[c], heard'[c], refusers', "no")
      BY Zenon, <1>3, <3>1, <3>2, <3>3
    <3>6. QED
      BY <3>2, <3>3, <3>4, <3>5
  <2>3. CASE Refuses(c, told)
    <3>1. PICK j \in 1 .. Len(told) :
            /\ scan' = [scan EXCEPT ![c] = Nil] /\ heard' = [heard EXCEPT ![c] = @ \o SubSeq(told, 1, j)]
            /\ refused' = [id \in DOMAIN refused \cup {wants[c].id} |-> IF id = wants[c].id THEN c ELSE refused[id]]
            /\ refusers' = refusers \cup {c}
      BY Zenon, <2>3 DEF Refuses
    <3>2. PICK put, all : put = Nil /\ all = heard[c] \o SubSeq(told, 1, j)
      OBVIOUS
    <3>3. scan' = [scan EXCEPT ![c] = put] /\ heard' = [heard EXCEPT ![c] = all]
      <4>1. heard' = [heard EXCEPT ![c] = heard[c] \o SubSeq(told, 1, j)]
        BY <3>1
      <4>2. QED
        BY Zenon, <3>1, <3>2, <4>1
    <3>4. /\ scan'[c] = put /\ heard'[c] = all /\ DOMAIN scan' = TurnCalls /\ DOMAIN heard' = TurnCalls
          /\ \A d \in TurnCalls : d # c => scan'[d] = scan[d] /\ heard'[d] = heard[d]
      BY <1>4, <3>3 DEF Tracked
    <3>5. KeptInv'
      <4>1. DOMAIN refused = {wants[d].id : d \in refusers} /\ \A id \in DOMAIN refused : refused[id] \in refusers /\ wants[refused[id]].id = id
        BY <1>4 DEF KeptInv
      <4>2. wants' = wants
        BY <1>2
      <4>3. DOMAIN refused' = {wants[d].id : d \in refusers'}
        BY <3>1, <4>1
      <4>4. \A id \in DOMAIN refused' : refused'[id] \in refusers' /\ wants[refused'[id]].id = id
        BY <3>1, <4>1
      <4>5. QED
        BY <4>2, <4>3, <4>4 DEF KeptInv
    <3>6. CallOK(c, wants[c], begun', to, at, scan'[c], heard'[c], refusers', "no")
      BY Zenon, <1>3, <3>1, <3>2, <3>4
    <3>7. QED
      BY <3>1, <3>4, <3>5, <3>6
  <2>4. QED
    BY <1>2, <2>1, <2>2, <2>3
<1>7. ASSUME NEW d \in TurnCalls PROVE CallInv(d)'
  <2>1. wants' = wants /\ ended' = "no"
    BY <1>2
  <2>2. CASE d = c
    BY Zenon, <1>5, <1>6, <2>1, <2>2 DEF CallInv
  <2>3. CASE d # c
    <3>1. CallOK(d, wants[d], begun, arrived[d], named[d], scan[d], heard[d], refusers, ended)
      BY DEF HooksInv, CallsInv, CallInv
    <3>2. (d \in begun => d \in begun') /\ (d \in refusers <=> d \in refusers') /\ (ended' = "no" => ended = "no")
      BY <1>2, <1>6, <2>3
    <3>3. CallOK(d, wants[d], begun', arrived[d], named[d], scan[d], heard[d], refusers', ended')
      BY <3>1, <3>2, SameCall
    <3>4. arrived'[d] = arrived[d] /\ named'[d] = named[d] /\ scan'[d] = scan[d] /\ heard'[d] = heard[d]
      BY <1>5, <1>6, <2>3
    <3>5. QED
      BY Zenon, <2>1, <3>3, <3>4 DEF CallInv
  <2>4. QED
    BY <2>2, <2>3
<1>8. Tracked'
  BY <1>5, <1>6 DEF Tracked
<1>9. BegunInv'
  BY <1>2, <1>4, <1>6 DEF BegunInv
<1>10. IdsApart' /\ AnsweredInv'
  BY <1>2, <1>4 DEF HooksInv, BegunInv, IdsApart, AnsweredInv
<1>11. QED
  BY <1>6, <1>7, <1>8, <1>9, <1>10 DEF HooksInv, CallsInv

\* A step that leaves every variable as it is.
LEMMA StillKeeps == ASSUME HooksInv, UNCHANGED hookVars PROVE HooksInv'
<1>1. /\ UNCHANGED <<wants, begun, arrived, named, scan, heard, refused, refusers, inChunk, ended, answers>>
  BY DEF hookVars
<1>2. CallsInv' /\ Tracked' /\ IdsApart' /\ KeptInv'
  BY <1>1, CallsStay
<1>3. BegunInv' /\ AnsweredInv'
  BY <1>1 DEF HooksInv, BegunInv, AnsweredInv, AnswerTo
<1>4. QED
  BY <1>2, <1>3 DEF HooksInv

LEMMA HooksStep == HooksInv /\ [HooksNext]_hookVars => HooksInv'
<1> SUFFICES ASSUME HooksInv, [HooksNext]_hookVars PROVE HooksInv'
  OBVIOUS
<1>1. ASSUME NEW c \in TurnCalls, Fragment(c) PROVE HooksInv'
  BY <1>1, FragmentKeeps
<1>2. CASE ChunkEnds
  BY <1>2, ChunkEndsKeeps
<1>3. CASE Retry
  BY <1>3, RetryKeeps
<1>4. CASE HookStreamEnds
  BY <1>4, StreamEndsKeeps
<1>5. CASE CallsArriveWhole
  BY <1>5, WholeKeeps
<1>6. CASE Dispatch
  BY <1>6, DispatchKeeps
<1>7. CASE UNCHANGED hookVars
  BY <1>7, StillKeeps
<1>8. QED
  BY <1>1, <1>2, <1>3, <1>4, <1>5, <1>6, <1>7 DEF HooksNext

LEMMA DueIs == \A c : Due(c) = DueOf(wants[c].hooks, wants[c].text, named[c], arrived[c])
  BY Zenon DEF Due, DueOf, IsNamed

\* The invariant says what the calls were told, and who is answered with a refusal.
LEMMA HooksInvTells == HooksInv => RefusalIsTheAnswer
<1> SUFFICES ASSUME HooksInv PROVE RefusalIsTheAnswer
  OBVIOUS
<1>1. BegunInv /\ IdsApart /\ KeptInv /\ AnsweredInv
  BY DEF HooksInv
<1>2. ASSUME NEW c \in begun, scan[c].state # "unseen"
      PROVE  IF c \in refusers THEN heard[c] # <<>> /\ IsPrefix(heard[c], Due(c)) ELSE heard[c] = Due(c)
  <2>1. c \in TurnCalls
    BY <1>1 DEF BegunInv
  <2>2. CallOK(c, wants[c], begun, arrived[c], named[c], scan[c], heard[c], refusers, ended)
    BY <2>1 DEF HooksInv, CallsInv, CallInv
  <2>3. QED
    BY Zenon, <1>2, <2>2, DueIs DEF CallOK
<1>3. ASSUME NEW c \in DOMAIN answers
      PROVE  /\ c \in refusers /\ wants[c].id # NoId => answers[c] = c
             /\ c \in refusers => answers[c] # "ran"
             /\ answers[c] # "ran" => answers[c] = c \/ wants[c].id = NoId
  <2>1. answers # <<>>
    <3>1. DOMAIN <<>> = {}
      OBVIOUS
    <3>2. QED
      BY <1>3, <3>1
  <2>2. c \in begun /\ answers[c] = AnswerTo(c) /\ c \in TurnCalls
    BY <1>1, <2>1 DEF AnsweredInv, BegunInv
  <2>3. CASE wants[c].id \in DOMAIN refused
    <3>1. PICK d : d = refused[wants[c].id]
      OBVIOUS
    <3>2. d \in refusers /\ d \in TurnCalls /\ wants[d].id = wants[c].id /\ answers[c] = d
      BY <1>1, <2>2, <2>3, <3>1 DEF KeptInv, BegunInv, AnswerTo
    <3>3. d # "ran"
      BY <3>2, LegalTurns
    <3>4. d = c \/ wants[c].id = NoId
      BY <1>1, <2>2, <3>2 DEF IdsApart
    <3>5. QED
      BY <3>2, <3>3, <3>4
  <2>4. CASE wants[c].id \notin DOMAIN refused
    <3>1. answers[c] = "ran" /\ c \notin refusers
      BY <1>1, <2>2, <2>4 DEF KeptInv, AnswerTo
    <3>2. QED
      BY <3>1
  <2>5. QED
    BY <2>3, <2>4
<1>4. QED
  BY <1>2, <1>3 DEF RefusalIsTheAnswer

\* RefusalIsTheAnswer, for every text, every way to cut it and every order of the calls: a hook hears
\* each value of its argument once, whole, in order and as soon as it is, and a retry starts over; a
\* call its own hook refused is answered with that refusal and not run, and no other call that has an
\* id is answered with one (watchArgs, argScanner, callSink.Retry, runOn's dispatch).
THEOREM RefusalsAnswer == HooksSpec => []RefusalIsTheAnswer
<1>1. HooksInit => HooksInv
  BY HooksBegin
<1>2. HooksInv /\ [HooksNext]_hookVars => HooksInv'
  BY HooksStep
<1>3. HooksInv => RefusalIsTheAnswer
  BY HooksInvTells
<1>4. QED
  BY <1>1, <1>2, <1>3, PTL DEF HooksSpec

================================================================================
