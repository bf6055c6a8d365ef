----------------------------- MODULE SessionProofs -----------------------------
(***************************************************************************)
(* Theorems about Session for any number of turns, messages and calls:     *)
(* types, one turn at a time, what Done and Close promise, and the branch  *)
(* of a turn.                                                              *)
(***************************************************************************)
EXTENDS Session, SequenceTheorems, TLAPS

USE BoundsAreCounts

PCs == {"unsent", "append", "start", "boundary", "deliver", "asked",
        "close", "finish", "settle", "done"}

\* A turn is the running one from Send to finish.
Idle == {"unsent", "settle", "done"}

TurnInv ==
  /\ \A i \in Sends : pc[i] \notin Idle <=> running = i
  /\ \A i \in Sends : pc[i] = "unsent" <=> i > sends

TypeInv == TypeOK /\ TurnInv

\* A session starts well typed, with no turn.
LEMMA InitType == Init => TypeInv
<1> SUFFICES ASSUME Init PROVE TypeInv
  OBVIOUS
<1> USE DEF Init
<1>1. /\ pending \in Seq(Messages)
      /\ undelivered \in Seq(Messages)
      /\ nodes \in Seq(Node)
      /\ batch \in Seq(Messages)
      /\ Len(nodes) = 0
  OBVIOUS
<1>2. /\ items \in [Sends -> Seq(Messages)]
      /\ left \in [Sends -> Seq(Messages)]
  OBVIOUS
<1>3. /\ pc \in [Sends -> PCs]
      /\ result \in [Sends -> {"none", "error", "panic", "kept"}]
      /\ open \in [Sends -> BOOLEAN]
  BY DEF PCs
<1>4. /\ running \in 0 .. MaxSends /\ awaited \in 0 .. MaxSends /\ sends \in 0 .. MaxSends
      /\ turn \in 0 .. MaxTurns - 1 /\ accepted \in 0 .. MaxMessages
      /\ sides \in 0 .. MaxCalls
  OBVIOUS
<1>5. leaf \in 0 .. Len(nodes) /\ looked \in NoLook .. Len(nodes)
  BY <1>1 DEF NoLook
<1>6. /\ hostQueue \in BOOLEAN /\ closed \in BOOLEAN /\ raced \in SUBSET Sends
      /\ closer \in {"idle", "wait", "ended", "gaveUp"}
  OBVIOUS
<1> HIDE DEF Init
<1>7. TypeOK
  BY <1>1, <1>2, <1>3, <1>4, <1>5, <1>6 DEF TypeOK, PCs
<1>8. TurnInv
  BY DEF Init, TurnInv, Idle, Sends
<1>9. QED
  BY <1>7, <1>8 DEF TypeInv

\* The running turn's number, and its queue, are those of a turn.
LEMMA TurnFacts ==
  ASSUME TypeInv, NEW i \in Sends
  PROVE  /\ queueOf(i) \in Sends
         /\ items[queueOf(i)] \in Seq(Messages)
         /\ left[i] \in Seq(Messages)
BY DEF TypeInv, TypeOK, queueOf, Sends

\* A node under the leaf keeps the types of the tree.
LEMMA AddType ==
  ASSUME TypeInv, NEW i \in Sends, NEW m \in 0 .. MaxMessages, add(i, m)
  PROVE  /\ nodes' \in Seq(Node)
         /\ Len(nodes') = Len(nodes) + 1
         /\ leaf' \in 0 .. Len(nodes')
         /\ looked' = looked => looked' \in NoLook .. Len(nodes')
<1>1. [by |-> i, parent |-> leaf, msg |-> m] \in Node
  BY DEF TypeInv, TypeOK, Node, Sends
<1>2. nodes \in Seq(Node) /\ Len(nodes) \in Nat /\ looked \in NoLook .. Len(nodes)
  BY DEF TypeInv, TypeOK
<1>3. nodes' \in Seq(Node) /\ Len(nodes') = Len(nodes) + 1
  BY <1>1, <1>2 DEF add
<1>4. QED
  BY <1>2, <1>3 DEF add, NoLook

\* Calls of the host.
LEMMA HostSteps ==
  ASSUME TypeInv,
         \/ Send \/ Queue \/ AppendNode \/ SetLeafLook \/ SetLeafWrite
         \/ CloseBegins \/ CloseEnds \/ CloseGivesUp
  PROVE  TypeInv'
<1> USE DEF TypeInv, TypeOK, public, queues, tree, local, counts, leafCaller, closeCaller
<1>1. CASE Send
  <2> DEFINE i == sends + 1
  <2>1. i \in Sends /\ pc[i] = "unsent" /\ i \in 0 .. MaxSends
    BY <1>1 DEF Send, Sends, TurnInv
  <2>2. items' \in [Sends -> Seq(Messages)]
    <3>1. queueOf(i) \in Sends /\ items[queueOf(i)] \o pending \in Seq(Messages)
      BY <2>1, TurnFacts
    <3>2. QED
      BY <1>1, <3>1 DEF Send
  <2>3. pending' \in Seq(Messages)
    BY <1>1 DEF Send
  <2>4. pc' = [pc EXCEPT ![i] = "append"] /\ running' = i /\ sends' = i /\ running = 0
    BY <1>1 DEF Send
  <2>5. pc' \in [Sends -> PCs]
    BY <2>4 DEF PCs
  <2>6. TurnInv'
    BY <2>1, <2>4 DEF TurnInv, Idle, Sends
  <2>7. QED
    BY <1>1, <2>1, <2>2, <2>3, <2>4, <2>5, <2>6 DEF Send, PCs
<1>2. CASE Queue
  <2>1. accepted' \in Messages /\ accepted' \in 0 .. MaxMessages
    BY <1>2 DEF Queue, Messages
  <2>2. items' \in [Sends -> Seq(Messages)] /\ pending' \in Seq(Messages)
    <3>1. CASE running # 0 /\ open[queueOf(running)]
      <4>1. running \in Sends
        BY <3>1 DEF Sends
      <4>2. Append(items[queueOf(running)], accepted') \in Seq(Messages)
        BY <2>1, <4>1, TurnFacts
      <4>3. QED
        BY <1>2, <3>1, <4>1, <4>2, TurnFacts DEF Queue
    <3>2. CASE ~(running # 0 /\ open[queueOf(running)])
      <4>1. items' = items /\ pending' = Append(pending, accepted')
        BY <1>2, <3>2 DEF Queue
      <4>2. pending \in Seq(Messages) /\ items \in [Sends -> Seq(Messages)]
        OBVIOUS
      <4>3. Append(pending, accepted') \in Seq(Messages)
        BY <2>1, <4>2
      <4>4. QED
        BY <4>1, <4>2, <4>3
    <3>3. QED
      BY <3>1, <3>2
  <2>3. QED
    BY <1>2, <2>1, <2>2 DEF Queue, TurnInv
<1>3. CASE AppendNode
  <2>1. [by |-> 0, parent |-> leaf, msg |-> 0] \in Node
    BY DEF Node
  <2>2. nodes' \in Seq(Node) /\ Len(nodes') = Len(nodes) + 1
    BY <1>3, <2>1 DEF AppendNode
  <2>3. leaf' \in 0 .. Len(nodes') /\ looked' \in NoLook .. Len(nodes')
    BY <1>3, <2>2 DEF AppendNode, NoLook
  <2>4. sides' \in 0 .. MaxCalls
    BY <1>3 DEF AppendNode, Calls
  <2>5. QED
    BY <1>3, <2>2, <2>3, <2>4 DEF AppendNode, TurnInv
<1>4. CASE SetLeafLook
  <2>1. sides' \in 0 .. MaxCalls
    BY <1>4 DEF SetLeafLook, Calls
  <2>2. looked' \in NoLook .. Len(nodes')
    BY <1>4 DEF SetLeafLook, NoLook
  <2>3. QED
    BY <1>4, <2>1, <2>2 DEF SetLeafLook, TurnInv
<1>5. CASE SetLeafWrite
  <2>1. leaf' \in 0 .. Len(nodes') /\ looked' \in NoLook .. Len(nodes')
    BY <1>5 DEF SetLeafWrite, NoLook
  <2>2. raced' \in SUBSET Sends
    BY <1>5 DEF SetLeafWrite, Sends
  <2>3. QED
    BY <1>5, <2>1, <2>2 DEF SetLeafWrite, TurnInv
<1>6. CASE CloseBegins \/ CloseEnds \/ CloseGivesUp
  BY <1>6 DEF CloseBegins, CloseEnds, CloseGivesUp, TurnInv
<1>7. QED
  BY <1>1, <1>2, <1>3, <1>4, <1>5, <1>6

\* A turn's own steps move it only; it is running before, and until finish.
LEMMA TurnMoves ==
  ASSUME TypeInv, NEW i \in Sends, NEW at \in PCs \ {"unsent"}, pc[i] # "unsent",
         pc' = [pc EXCEPT ![i] = at], UNCHANGED sends,
         \/ running' = running /\ (pc[i] \in Idle <=> at \in Idle)
         \/ running' = 0 /\ pc[i] \notin Idle /\ at \in Idle
  PROVE  pc' \in [Sends -> PCs] /\ TurnInv'
BY SMTT(30) DEF TypeInv, TypeOK, TurnInv, PCs, Idle, Sends

LEMMA TurnSteps ==
  ASSUME TypeInv, NEW i \in Sends,
         TurnStep(i) \/ RunFailsEarly(i) \/ Fails(i) \/ Panics(i)
  PROVE  TypeInv'
<1> USE DEF TypeInv, TypeOK, public, queues, tree, local, counts, leafCaller, closeCaller
<1> DEFINE Moved == pc' \in [Sends -> PCs] /\ TurnInv'
<1>1. CASE AppendMessages(i)
  <2>1. Moved
    BY <1>1, TurnMoves DEF AppendMessages, PCs, Idle
  <2>2. QED
    BY <1>1, <2>1, AddType DEF AppendMessages, PCs
<1>2. CASE Drain(i)
  <2>1. Moved
    BY <1>2, TurnMoves DEF Drain, PCs, Idle
  <2>2. batch' \in Seq(Messages) /\ items' \in [Sends -> Seq(Messages)]
    BY <1>2, TurnFacts DEF Drain
  <2>3. QED
    BY <1>2, <2>1, <2>2 DEF Drain, PCs
<1>3. CASE DeliverOne(i)
  <2>1. Head(batch) \in 0 .. MaxMessages /\ Tail(batch) \in Seq(Messages)
    BY <1>3 DEF DeliverOne, Messages
  <2>2. QED
    BY <1>3, <2>1, AddType DEF DeliverOne, TurnInv
<1>4. CASE ModelCall(i)
  <2>1. Moved
    BY <1>4, TurnMoves DEF ModelCall, PCs, Idle
  <2>2. QED
    BY <1>4, <2>1, AddType DEF ModelCall, PCs
<1>5. CASE Continues(i)
  <2>1. Moved
    BY <1>5, TurnMoves DEF Continues, PCs, Idle
  <2>2. turn' \in 0 .. MaxTurns - 1
    BY <1>5 DEF Continues, moreTurnsAllowed
  <2>3. QED
    BY <1>5, <2>1, <2>2 DEF Continues, PCs
<1>6. CASE Ends(i) \/ Fails(i) \/ Panics(i) \/ RunFailsEarly(i)
  <2>1. Moved
    BY <1>6, TurnMoves DEF Ends, Fails, Panics, RunFailsEarly, PCs, Idle
  <2>2. result' \in [Sends -> {"none", "error", "panic", "kept"}]
    BY <1>6 DEF Ends, Fails, Panics, RunFailsEarly
  <2>3. batch' \in Seq(Messages)
    <3>1. batch' = batch \/ batch' = <<>>
      BY <1>6 DEF Ends, Fails, Panics, RunFailsEarly
    <3>2. batch \in Seq(Messages) /\ <<>> \in Seq(Messages)
      OBVIOUS
    <3>3. QED
      BY <3>1, <3>2
  <2>4. QED
    BY <1>6, <2>1, <2>2, <2>3 DEF Ends, Fails, Panics, RunFailsEarly, PCs
<1>7. CASE CloseQueue(i)
  <2>1. Moved
    BY <1>7, TurnMoves DEF CloseQueue, PCs, Idle
  <2>2. /\ open' \in [Sends -> BOOLEAN]
        /\ items' \in [Sends -> Seq(Messages)]
    BY <1>7, TurnFacts DEF CloseQueue
  <2>3. left' \in [Sends -> Seq(Messages)]
    BY <1>7, TurnFacts DEF CloseQueue
  <2>4. QED
    BY <1>7, <2>1, <2>2, <2>3 DEF CloseQueue, PCs
<1>8. CASE Finish(i)
  <2>1. Moved
    BY <1>8, TurnMoves DEF Finish, PCs, Idle
  <2>2. undelivered' \in Seq(Messages)
    BY <1>8, TurnFacts DEF Finish
  <2>3. QED
    BY <1>8, <2>1, <2>2 DEF Finish, PCs
<1>9. CASE Settle(i)
  <2>1. Moved
    BY <1>9, TurnMoves DEF Settle, PCs, Idle
  <2>2. QED
    BY <1>9, <2>1 DEF Settle, PCs
<1>10. QED
  BY <1>1, <1>2, <1>3, <1>4, <1>5, <1>6, <1>7, <1>8, <1>9 DEF TurnStep

LEMMA NextType == TypeInv /\ [Next]_vars => TypeInv'
<1> SUFFICES ASSUME TypeInv, [Next]_vars PROVE TypeInv'
  OBVIOUS
<1>1. CASE UNCHANGED vars
  BY <1>1 DEF vars, TypeInv, TypeOK, TurnInv
<1>2. CASE Next
  BY <1>1, <1>2, HostSteps, TurnSteps DEF Next, Finished
<1>3. QED
  BY <1>1, <1>2

\* The types of the session's state, for any number of turns and calls.
THEOREM TypeCorrect == Spec => []TypeOK
<1>1. TypeInv => TypeOK
  BY DEF TypeInv
<1>2. QED
  BY <1>1, InitType, NextType, PTL DEF Spec

LEMMA TypeInvariant == Spec => []TypeInv
BY InitType, NextType, PTL DEF Spec

-------------------------------------------------------------------------------
(* What Done and Close promise.                                             *)

\* What is appended to a list leaves what was in it, and is in it.
LEMMA ConcatSets ==
  ASSUME NEW S, NEW s \in Seq(S), NEW t \in Seq(S)
  PROVE  ToSet(s) \subseteq ToSet(s \o t) /\ ToSet(t) \subseteq ToSet(s \o t)
<1>1. ASSUME NEW k \in DOMAIN s PROVE s[k] \in ToSet(s \o t)
  <2>1. k \in DOMAIN (s \o t) /\ (s \o t)[k] = s[k]
    OBVIOUS
  <2>2. QED
    BY <2>1 DEF ToSet
<1>2. ASSUME NEW k \in DOMAIN t PROVE t[k] \in ToSet(s \o t)
  <2>1. Len(s) + k \in DOMAIN (s \o t) /\ (s \o t)[Len(s) + k] = t[k]
    OBVIOUS
  <2>2. QED
    BY <2>1 DEF ToSet
<1>3. QED
  BY <1>1, <1>2 DEF ToSet

\* The turns that finish has seen left in the session what they returned.
SettledInv ==
  \A i \in Sends : pc[i] \in {"settle", "done"} => ToSet(left[i]) \subseteq ToSet(undelivered)

\* Past Close's beginning the session is closed, and of turns only the one
\* Close waits for can be running.
CloseInv ==
  /\ closer # "idle" => closed /\ running \in {0, awaited}
  /\ closer = "ended" => running = 0

LEMMA InitPromises == Init => SettledInv /\ CloseInv
BY DEF Init, SettledInv, CloseInv, Sends

LEMMA NextSettled == TypeInv /\ SettledInv /\ [Next]_vars => SettledInv'
<1> SUFFICES ASSUME TypeInv, SettledInv, [Next]_vars PROVE SettledInv'
  OBVIOUS
<1> USE DEF public, queues, tree, local, counts, leafCaller, closeCaller
<1>t. pc \in [Sends -> PCs] /\ left \in [Sends -> Seq(Messages)]
  BY DEF TypeInv, TypeOK, PCs
<1>1. CASE UNCHANGED <<pc, left, undelivered>>
  BY <1>1 DEF SettledInv
<1>2. CASE Send
  <2>1. /\ UNCHANGED <<left, undelivered>>
        /\ pc' = [pc EXCEPT ![sends + 1] = "append"]
    BY <1>2 DEF Send
  <2>2. QED
    BY <1>t, <2>1 DEF SettledInv
<1>3. ASSUME NEW i \in Sends, TurnStep(i) \/ RunFailsEarly(i) \/ Fails(i) \/ Panics(i)
      PROVE  SettledInv'
  <2>1. CASE ~(CloseQueue(i) \/ Finish(i) \/ Settle(i))
    <3>1. /\ UNCHANGED <<left, undelivered>>
          /\ \A j \in Sends : pc'[j] \in {"settle", "done"} => pc'[j] = pc[j]
      BY <1>t, <1>3, <2>1
         DEF TurnStep, AppendMessages, Drain, DeliverOne, ModelCall, Continues, Ends,
             RunFailsEarly, Fails, Panics
    <3>2. QED
      BY <3>1 DEF SettledInv
  <2>2. CASE CloseQueue(i)
    <3>1. /\ pc' = [pc EXCEPT ![i] = "finish"]
          /\ UNCHANGED undelivered
          /\ \A j \in Sends \ {i} : left'[j] = left[j]
      BY <1>t, <2>2 DEF CloseQueue
    <3>2. QED
      BY <1>t, <3>1 DEF SettledInv
  <2>3. CASE Finish(i)
    <3>1. /\ pc' = [pc EXCEPT ![i] = "settle"]
          /\ undelivered' = undelivered \o left[i]
          /\ UNCHANGED left
      BY <2>3 DEF Finish
    <3>2. undelivered \in Seq(Messages) /\ left[i] \in Seq(Messages)
      BY <1>t DEF TypeInv, TypeOK
    <3>3. /\ ToSet(undelivered) \subseteq ToSet(undelivered')
          /\ ToSet(left[i]) \subseteq ToSet(undelivered')
      BY <3>1, <3>2, ConcatSets
    <3>4. QED
      BY <1>t, <3>1, <3>3 DEF SettledInv
  <2>4. CASE Settle(i)
    BY <1>t, <2>4 DEF Settle, SettledInv
  <2>5. QED
    BY <2>1, <2>2, <2>3, <2>4
<1>4. QED
  BY <1>1, <1>2, <1>3
     DEF Next, Queue, AppendNode, SetLeafLook, SetLeafWrite, CloseBegins, CloseEnds,
         CloseGivesUp, Finished, vars

LEMMA NextClose == TypeInv /\ CloseInv /\ [Next]_vars => CloseInv'
<1> SUFFICES ASSUME TypeInv, CloseInv, [Next]_vars PROVE CloseInv'
  OBVIOUS
<1> USE DEF public, queues, tree, local, counts, leafCaller, closeCaller
<1>1. CASE UNCHANGED <<closed, running, closer, awaited>>
  BY <1>1 DEF CloseInv
<1>2. CASE Send
  BY <1>2 DEF Send, CloseInv
<1>3. ASSUME NEW i \in Sends, Finish(i) PROVE CloseInv'
  BY <1>3 DEF Finish, CloseInv
<1>4. CASE CloseBegins
  BY <1>4 DEF CloseBegins, CloseInv
<1>5. CASE CloseEnds
  <2>1. running \in {0, awaited} /\ closed
    BY <1>5 DEF CloseEnds, CloseInv
  <2>2. running = 0
    BY <1>5, <2>1 DEF CloseEnds, TypeInv, TypeOK, TurnInv, Idle, Sends
  <2>3. QED
    BY <1>5, <2>1, <2>2 DEF CloseEnds, CloseInv
<1>6. CASE CloseGivesUp
  BY <1>6 DEF CloseGivesUp, CloseInv
<1>7. QED
  BY <1>1, <1>2, <1>3, <1>4, <1>5, <1>6
     DEF Next, Queue, AppendNode, SetLeafLook, SetLeafWrite, Finished, vars, TurnStep,
         AppendMessages, Drain, DeliverOne, ModelCall, Continues, Ends, CloseQueue, Settle,
         RunFailsEarly, Fails, Panics

\* Whoever has seen Done finds the session free and what the turn could not
\* deliver in its state, whatever came between finish and the wake-up.
THEOREM DoneIsSettled == Spec => []DoneMeansSettled
<1>1. TypeInv /\ SettledInv => DoneMeansSettled
  BY DEF TypeInv, TypeOK, TurnInv, Idle, SettledInv, DoneMeansSettled, Sends
<1>2. QED
  BY <1>1, TypeInvariant, InitPromises, NextSettled, PTL DEF Spec

\* Close that did not give up leaves no turn behind, whichever turn began
\* last before it.
THEOREM CloseIsLast == Spec => []CloseWaits
<1>1. TypeInv /\ CloseInv => CloseWaits
  BY DEF TypeInv, TypeOK, TurnInv, Idle, CloseInv, CloseWaits, Sends
<1>2. QED
  BY <1>1, TypeInvariant, InitPromises, NextClose, PTL DEF Spec

-------------------------------------------------------------------------------
(* The branch of a turn.                                                    *)

\* A node's parent is older; a turn that has not appended has no node; and the
\* leaf of a turn that has is its own newest node, unless a SetLeaf moved it.
BranchInv ==
  /\ \A k \in DOMAIN nodes : nodes[k].parent < k
  /\ \A k \in DOMAIN nodes : nodes[k].by # 0 => pc[nodes[k].by] \notin {"unsent", "append"}
  /\ \A i \in Sends \ raced :
       pc[i] \notin Idle \cup {"append"} =>
         /\ leaf # 0
         /\ nodes[leaf].by = i
         /\ \A k \in DOMAIN nodes : nodes[k].by = i => k <= leaf
  /\ TurnStaysOnItsBranch

LEMMA InitBranch == Init => BranchInv
<1> SUFFICES ASSUME Init PROVE BranchInv
  OBVIOUS
<1>1. DOMAIN nodes = {}
  BY DEF Init
<1>2. \A i \in Sends : pc[i] \in Idle
  BY DEF Init, Idle
<1>3. QED
  BY <1>1, <1>2 DEF BranchInv, TurnStaysOnItsBranch

\* The nodes there are stay where they are when one is appended under the leaf.
LEMMA Appended ==
  ASSUME TypeInv, BranchInv, NEW n \in Node, n.parent = leaf, nodes' = Append(nodes, n)
  PROVE  /\ DOMAIN nodes' = DOMAIN nodes \cup {Len(nodes) + 1}
         /\ \A k \in DOMAIN nodes : nodes'[k] = nodes[k]
         /\ nodes'[Len(nodes) + 1] = n
         /\ \A k \in DOMAIN nodes' : nodes'[k].parent < k
<1>1. nodes \in Seq(Node) /\ leaf \in 0 .. Len(nodes)
  BY DEF TypeInv, TypeOK
<1>2. /\ DOMAIN nodes' = DOMAIN nodes \cup {Len(nodes) + 1}
      /\ \A k \in DOMAIN nodes : nodes'[k] = nodes[k]
      /\ nodes'[Len(nodes) + 1] = n
  BY <1>1
<1>3. \A k \in DOMAIN nodes : nodes[k].parent < k
  BY DEF BranchInv
<1>4. QED
  BY <1>1, <1>2, <1>3

\* The branches already there do not change, and a node of the host is on none.
LEMMA OldBranches ==
  ASSUME TypeInv, BranchInv, NEW n \in Node, n.parent = leaf, nodes' = Append(nodes, n),
         raced \subseteq raced', NEW k \in DOMAIN nodes,
         nodes[k].by # 0, nodes[k].by \notin raced', NEW j \in 1 .. k - 1,
         nodes'[j].by = nodes[k].by
  PROVE  j <= nodes'[k].parent /\ nodes'[nodes'[k].parent].by = nodes[k].by
<1>1. nodes \in Seq(Node) /\ k \in 1 .. Len(nodes) /\ DOMAIN nodes = 1 .. Len(nodes)
  BY DEF TypeInv, TypeOK
<1>2. \A l \in DOMAIN nodes : nodes'[l] = nodes[l]
  BY Appended
<1>3. j \in DOMAIN nodes
  BY <1>1
<1>4. nodes[j].by = nodes[k].by
  BY <1>2, <1>3
<1>5. nodes[k].parent \in Nat /\ nodes[k].parent < k
  <2>1. nodes[k] \in Node
    BY <1>1
  <2>2. QED
    BY <2>1 DEF BranchInv, Node
<1>6. j <= nodes[k].parent /\ nodes[nodes[k].parent].by = nodes[k].by
  BY <1>4 DEF BranchInv, TurnStaysOnItsBranch
<1>7. nodes[k].parent \in DOMAIN nodes
  BY <1>1, <1>5, <1>6
<1>8. QED
  BY <1>2, <1>6, <1>7

\* A turn's node hangs under the turn's newest one.
LEMMA AddBranch ==
  ASSUME TypeInv, BranchInv, NEW i \in Sends, NEW m \in 0 .. MaxMessages, add(i, m),
         UNCHANGED raced, pc[i] \notin Idle,
         \A j \in Sends \ {i} : pc'[j] = pc[j], pc'[i] \notin {"unsent", "append"}
  PROVE  BranchInv'
<1> DEFINE n == [by |-> i, parent |-> leaf, msg |-> m]
           new == Len(nodes) + 1
<1>1. nodes \in Seq(Node) /\ leaf \in 0 .. Len(nodes) /\ DOMAIN nodes = 1 .. Len(nodes)
  BY DEF TypeInv, TypeOK
<1>2. n \in Node /\ n.parent = leaf /\ n.by = i /\ i # 0
  BY <1>1 DEF Node, Sends
<1>3. nodes' = Append(nodes, n) /\ leaf' = new
  BY DEF add
<1> HIDE DEF n
<1>4. /\ DOMAIN nodes' = DOMAIN nodes \cup {new}
      /\ \A k \in DOMAIN nodes : nodes'[k] = nodes[k]
      /\ nodes'[new] = n
      /\ \A k \in DOMAIN nodes' : nodes'[k].parent < k
  BY <1>2, <1>3, Appended
<1>5. \A k \in DOMAIN nodes : nodes[k].by \in 0 .. MaxSends
  <2>1. \A k \in DOMAIN nodes : nodes[k] \in Node
    BY <1>1
  <2>2. QED
    BY <2>1 DEF Node
<1>6. \A k \in DOMAIN nodes' : nodes'[k].by # 0 => pc'[nodes'[k].by] \notin {"unsent", "append"}
  BY <1>2, <1>4, <1>5 DEF BranchInv, Sends
<1>7. ASSUME NEW j \in Sends \ raced', pc'[j] \notin Idle \cup {"append"}
      PROVE  /\ leaf' # 0 /\ nodes'[leaf'].by = j
             /\ \A k \in DOMAIN nodes' : nodes'[k].by = j => k <= leaf'
  <2>1. j = i
    BY <1>7 DEF TypeInv, TurnInv, Idle
  <2>2. QED
    BY <1>1, <1>2, <1>3, <1>4, <2>1
<1>8. TurnStaysOnItsBranch'
  <2>1. SUFFICES ASSUME NEW k \in DOMAIN nodes', nodes'[k].by # 0, nodes'[k].by \notin raced',
                        NEW j \in 1 .. k - 1, nodes'[j].by = nodes'[k].by
                 PROVE  j <= nodes'[k].parent /\ nodes'[nodes'[k].parent].by = nodes'[k].by
    BY DEF TurnStaysOnItsBranch
  <2>2. CASE k \in DOMAIN nodes
    BY <1>2, <1>3, <1>4, <2>1, <2>2, OldBranches
  <2>3. CASE k = new
    <3>1. j \in DOMAIN nodes /\ nodes[j].by = i /\ i \notin raced
      BY <1>1, <1>2, <1>4, <2>1, <2>3
    <3>2. pc[i] \notin {"unsent", "append"}
      BY <1>2, <3>1 DEF BranchInv
    <3>3. leaf # 0 /\ nodes[leaf].by = i /\ j <= leaf
      BY <3>1, <3>2 DEF BranchInv
    <3>4. leaf \in DOMAIN nodes
      BY <1>1, <3>3
    <3>5. QED
      BY <1>2, <1>4, <2>3, <3>3, <3>4
  <2>4. QED
    BY <1>4, <2>2, <2>3
<1>9. QED
  BY <1>4, <1>6, <1>7, <1>8 DEF BranchInv

LEMMA NextBranch == TypeInv /\ BranchInv /\ [Next]_vars => BranchInv'
<1> SUFFICES ASSUME TypeInv, BranchInv, [Next]_vars PROVE BranchInv'
  OBVIOUS
<1> USE DEF public, queues, tree, local, counts, leafCaller, closeCaller
<1>t. /\ pc \in [Sends -> PCs] /\ batch \in Seq(Messages)
      /\ nodes \in Seq(Node) /\ leaf \in 0 .. Len(nodes) /\ running \in 0 .. MaxSends
  BY DEF TypeInv, TypeOK, PCs
<1>u. \A k \in DOMAIN nodes : nodes[k].by \in 0 .. MaxSends
  <2>1. \A k \in DOMAIN nodes : nodes[k] \in Node
    BY <1>t
  <2>2. QED
    BY <2>1 DEF Node
<1>1. CASE UNCHANGED <<nodes, leaf, raced, pc>>
  BY <1>1 DEF BranchInv, TurnStaysOnItsBranch
<1>2. CASE Send
  <2>1. /\ UNCHANGED <<nodes, leaf, raced>>
        /\ pc' = [pc EXCEPT ![sends + 1] = "append"]
        /\ sends + 1 \in Sends /\ pc[sends + 1] = "unsent"
    BY <1>2 DEF Send, TypeInv, TypeOK, TurnInv, Sends
  <2> DEFINE i == sends + 1
  <2>2. /\ pc'[i] = "append"
        /\ \A j \in Sends \ {i} : pc'[j] = pc[j]
    BY <1>t, <2>1
  <2>3. \A k \in DOMAIN nodes : nodes[k].by # 0 => pc'[nodes[k].by] \notin {"unsent", "append"}
    <3>1. SUFFICES ASSUME NEW k \in DOMAIN nodes, nodes[k].by # 0
                   PROVE  pc'[nodes[k].by] \notin {"unsent", "append"}
      OBVIOUS
    <3>2. pc[nodes[k].by] \notin {"unsent", "append"} /\ nodes[k].by \in Sends
      BY <1>u, <3>1 DEF BranchInv, Sends
    <3>3. QED
      BY <2>1, <2>2, <3>2
  <2>4. \A j \in Sends : pc'[j] \notin Idle \cup {"append"} => pc'[j] = pc[j]
    BY <2>2
  <2>5. QED
    BY <2>1, <2>3, <2>4 DEF BranchInv, TurnStaysOnItsBranch
<1>3. CASE AppendNode
  <2> DEFINE n == [by |-> 0, parent |-> leaf, msg |-> 0]
  <2>1. n \in Node /\ n.parent = leaf /\ n.by = 0
    BY <1>t DEF Node
  <2>2. nodes' = Append(nodes, n) /\ UNCHANGED <<leaf, raced, pc>>
    BY <1>3 DEF AppendNode
  <2> HIDE DEF n
  <2>3. /\ DOMAIN nodes' = DOMAIN nodes \cup {Len(nodes) + 1}
        /\ \A k \in DOMAIN nodes : nodes'[k] = nodes[k]
        /\ nodes'[Len(nodes) + 1] = n
        /\ \A k \in DOMAIN nodes' : nodes'[k].parent < k
    BY <2>1, <2>2, Appended
  <2>4. \A k \in DOMAIN nodes' : nodes'[k].by # 0 => pc'[nodes'[k].by] \notin {"unsent", "append"}
    BY <2>1, <2>2, <2>3 DEF BranchInv
  <2>5. ASSUME NEW j \in Sends \ raced', pc'[j] \notin Idle \cup {"append"}
        PROVE  /\ leaf' # 0 /\ nodes'[leaf'].by = j
               /\ \A k \in DOMAIN nodes' : nodes'[k].by = j => k <= leaf'
    <3>1. /\ leaf # 0 /\ nodes[leaf].by = j /\ j # 0
          /\ \A k \in DOMAIN nodes : nodes[k].by = j => k <= leaf
      BY <2>2, <2>5 DEF BranchInv, Sends
    <3>2. leaf \in DOMAIN nodes
      BY <1>t, <3>1
    <3>3. QED
      BY <2>1, <2>2, <2>3, <3>1, <3>2
  <2>6. TurnStaysOnItsBranch'
    <3>1. SUFFICES ASSUME NEW k \in DOMAIN nodes', nodes'[k].by # 0, nodes'[k].by \notin raced',
                          NEW j \in 1 .. k - 1, nodes'[j].by = nodes'[k].by
                   PROVE  j <= nodes'[k].parent /\ nodes'[nodes'[k].parent].by = nodes'[k].by
      BY DEF TurnStaysOnItsBranch
    <3>2. k \in DOMAIN nodes
      BY <2>1, <2>3, <3>1
    <3>3. QED
      BY <2>1, <2>2, <2>3, <3>1, <3>2, OldBranches
  <2>7. QED
    BY <2>3, <2>4, <2>5, <2>6 DEF BranchInv
<1>4. CASE SetLeafWrite
  <2>1. /\ UNCHANGED <<nodes, pc>>
        /\ raced' = raced \cup ({running} \ {0})
    BY <1>4 DEF SetLeafWrite
  <2>2. \A i \in Sends \ raced' : i \notin raced /\ pc'[i] \in Idle
    BY <2>1 DEF TypeInv, TurnInv, Sends
  <2>3. QED
    BY <2>1, <2>2 DEF BranchInv, TurnStaysOnItsBranch
<1>5. ASSUME NEW i \in Sends, TurnStep(i) \/ RunFailsEarly(i) \/ Fails(i) \/ Panics(i)
      PROVE  BranchInv'
  <2>1. CASE AppendMessages(i) \/ ModelCall(i)
    <3>1. /\ add(i, 0) /\ UNCHANGED raced /\ pc[i] \notin Idle
          /\ \A j \in Sends \ {i} : pc'[j] = pc[j]
          /\ pc'[i] \notin {"unsent", "append"}
      BY <1>t, <2>1 DEF AppendMessages, ModelCall, Idle
    <3>2. QED
      BY <3>1, AddBranch
  <2>2. CASE DeliverOne(i)
    <3>1. /\ Head(batch) \in 0 .. MaxMessages
          /\ add(i, Head(batch)) /\ UNCHANGED <<raced, pc>> /\ pc[i] = "deliver"
      BY <1>t, <2>2 DEF DeliverOne, Messages
    <3>2. QED
      BY <3>1, AddBranch DEF Idle
  <2>3. CASE ~(AppendMessages(i) \/ ModelCall(i) \/ DeliverOne(i))
    <3>1. /\ UNCHANGED <<nodes, leaf, raced>>
          /\ \A j \in Sends \ {i} : pc'[j] = pc[j]
          /\ pc[i] \notin {"unsent", "append"} /\ pc'[i] \notin {"unsent", "append"}
          /\ pc[i] \in Idle => pc'[i] \in Idle
      BY <1>t, <1>5, <2>3
         DEF TurnStep, Drain, Continues, Ends, CloseQueue, Finish, Settle,
             RunFailsEarly, Fails, Panics, Idle
    <3>2. QED
      BY <1>u, <3>1 DEF BranchInv, TurnStaysOnItsBranch, Sends
  <2>4. QED
    BY <2>1, <2>2, <2>3
<1>6. QED
  BY <1>1, <1>2, <1>3, <1>4, <1>5
     DEF Next, Queue, SetLeafLook, CloseBegins, CloseEnds, CloseGivesUp, Finished, vars

\* A turn builds one branch, whatever Append, Queue and other turns do to the
\* tree between its steps; only a SetLeaf that looked before it began tears it.
THEOREM BranchIsWhole == Spec => []TurnStaysOnItsBranch
<1>1. BranchInv => TurnStaysOnItsBranch
  BY DEF BranchInv
<1>2. QED
  BY <1>1, TypeInvariant, InitBranch, NextBranch, PTL DEF Spec

-------------------------------------------------------------------------------
(* A queued message is kept.                                                *)

Going == {"unsent", "append", "start", "boundary", "deliver", "asked"}

\* Between drain and append the turn is delivering; an open queue of the
\* running turn takes what would be pending; a turn that finishes with a
\* result has closed and emptied its queue; only then has it something left
\* over; and the queue of a turn not begun is open and empty.
QueueInv ==
  /\ batch # <<>> => running # 0 /\ pc[running] = "deliver"
  /\ running # 0 /\ open[queueOf(running)] => pending = <<>>
  /\ \A i \in Sends :
       /\ pc[i] = "finish" /\ result[i] = "kept" => ~open[queueOf(i)] /\ items[queueOf(i)] = <<>>
       /\ result[i] = "none" <=> pc[i] \in Going
       /\ pc[i] \notin {"finish", "settle", "done"} => left[i] = <<>>
       /\ i > sends => items[i] = <<>> /\ open[i]

LEMMA InitQueue == Init => QueueInv
BY DEF Init, QueueInv, Going, Sends, queueOf

\* The queue of a turn is the queue of a turn that has begun.
LEMMA BegunQueue ==
  ASSUME TypeInv, NEW i \in Sends, pc[i] # "unsent"
  PROVE  queueOf(i) \in Sends /\ queueOf(i) <= sends /\ i <= sends
BY DEF TypeInv, TypeOK, TurnInv, Sends, queueOf

LEMMA NextQueue == TypeInv /\ QueueInv /\ [Next]_vars => QueueInv'
<1> SUFFICES ASSUME TypeInv, QueueInv, [Next]_vars PROVE QueueInv'
  OBVIOUS
<1> USE DEF public, queues, tree, local, counts, leafCaller, closeCaller
<1>t. /\ pc \in [Sends -> PCs] /\ open \in [Sends -> BOOLEAN]
      /\ items \in [Sends -> Seq(Messages)] /\ left \in [Sends -> Seq(Messages)]
      /\ result \in [Sends -> {"none", "error", "panic", "kept"}]
      /\ running \in 0 .. MaxSends /\ sends \in 0 .. MaxSends
      /\ \A i \in Sends : i \in 1 .. MaxSends
  BY DEF TypeInv, TypeOK, PCs, Sends
<1>u. /\ \A i \in Sends : pc[i] \notin Idle <=> running = i
      /\ \A i \in Sends : pc[i] = "unsent" <=> i > sends
      /\ running # 0 => running \in Sends
  BY <1>t DEF TypeInv, TurnInv, Sends
<1>1. CASE UNCHANGED <<batch, running, pc, open, hostQueue, pending, items, result, left, sends>>
  BY <1>1 DEF QueueInv, queueOf
<1>2. CASE Send
  <2> DEFINE i == sends + 1
  <2>1. /\ running = 0 /\ i \in Sends /\ pc[i] = "unsent" /\ batch = <<>>
        /\ pc' = [pc EXCEPT ![i] = "append"] /\ running' = i /\ sends' = i /\ pending' = <<>>
        /\ UNCHANGED <<open, result, left, batch, hostQueue>>
    BY <1>2, <1>t, <1>u DEF Send, Sends, QueueInv
  <2>2. /\ \A q \in Sends : q # queueOf(i) => items'[q] = items[q]
        /\ queueOf(i) \in Sends /\ queueOf(i) <= sends'
    BY <1>2, <1>t, <2>1 DEF Send, queueOf, Sends
  <2>3. ASSUME NEW j \in Sends PROVE pc'[j] # "finish"
    <3>1. running # j /\ pc[j] \in Idle
      BY <1>t, <1>u, <2>1
    <3>2. pc'[j] = pc[j] \/ pc'[j] = "append"
      BY <1>t, <2>1
    <3>3. QED
      BY <3>1, <3>2 DEF Idle
  <2>4. \A j \in Sends : j > sends' => items'[j] = <<>> /\ open'[j]
    BY <1>t, <2>1, <2>2 DEF QueueInv
  <2>5. \A j \in Sends : result'[j] = "none" <=> pc'[j] \in Going
    BY <1>t, <2>1 DEF QueueInv, Going
  <2>6. \A j \in Sends : pc'[j] \notin {"finish", "settle", "done"} => left'[j] = <<>>
    BY <1>t, <2>1 DEF QueueInv
  <2>7. batch' = <<>> /\ pending' = <<>>
    BY <2>1
  <2> HIDE DEF i
  <2>8. QED
    BY <2>3, <2>4, <2>5, <2>6, <2>7 DEF QueueInv
<1>3. CASE Queue
  <2>1. UNCHANGED <<batch, running, pc, open, hostQueue, result, left, sends>>
    BY <1>3 DEF Queue
  <2>2. CASE running # 0 /\ open[queueOf(running)]
    <3>1. /\ pending' = pending
          /\ \A q \in Sends : q # queueOf(running) => items'[q] = items[q]
      BY <1>3, <1>t, <2>2 DEF Queue
    <3>2. queueOf(running) <= sends /\ queueOf(running) \in Sends
      BY <1>u, <2>2, BegunQueue DEF Idle
    <3>3. \A i \in Sends : pc[i] = "finish" => i = running
      BY <1>u DEF Idle
    <3>4. \A i \in Sends : i > sends => i # queueOf(running)
      BY <1>t, <3>2 DEF Sends
    <3>5. \A i \in Sends : queueOf(i)' = queueOf(i) /\ queueOf(i) \in Sends
      BY <2>1, TurnFacts DEF queueOf
    <3>6. QED
      BY <2>1, <2>2, <3>1, <3>3, <3>4, <3>5 DEF QueueInv, queueOf
  <2>3. CASE ~(running # 0 /\ open[queueOf(running)])
    <3>1. UNCHANGED items
      BY <1>3, <2>3 DEF Queue
    <3>2. QED
      BY <2>1, <2>3, <3>1 DEF QueueInv, queueOf
  <2>4. QED
    BY <2>2, <2>3
<1>4. ASSUME NEW i \in Sends, TurnStep(i) \/ RunFailsEarly(i) \/ Fails(i) \/ Panics(i)
      PROVE  QueueInv'
  <2>a. \A j \in Sends : j # i => queueOf(j)' = queueOf(j)
    BY <1>4 DEF TurnStep, AppendMessages, Drain, DeliverOne, ModelCall, Continues, Ends, CloseQueue,
       Finish, Settle, RunFailsEarly, Fails, Panics, queueOf
  <2>1. CASE AppendMessages(i) \/ ModelCall(i) \/ Continues(i)
    <3>1. /\ pc[i] \in Going /\ pc[i] # "unsent"
          /\ \E p \in {"start", "asked", "boundary"} : pc' = [pc EXCEPT ![i] = p]
      BY <2>1 DEF AppendMessages, ModelCall, Continues, Going
    <3>2. /\ UNCHANGED <<running, open, hostQueue, pending, items, result, left, sends, batch>>
          /\ batch # <<>> => Continues(i)
      BY <2>1, <1>u DEF AppendMessages, ModelCall, Continues, QueueInv, Idle
    <3>3. batch = <<>>
      BY <3>2, <1>u, <2>1 DEF Continues, QueueInv, Idle
    <3>4. /\ \A j \in Sends : pc'[j] = "finish" => pc[j] = "finish"
          /\ \A j \in Sends : pc'[j] \in Going <=> pc[j] \in Going
          /\ \A j \in Sends : pc'[j] \notin {"finish", "settle", "done"} =>
               pc[j] \notin {"finish", "settle", "done"}
      BY <1>t, <3>1 DEF Going
    <3>5. QED
      BY <3>2, <3>3, <3>4 DEF QueueInv, queueOf
  <2>2. CASE DeliverOne(i)
    BY <1>t, <1>u, <2>2 DEF DeliverOne, QueueInv, queueOf, Idle
  <2>3. CASE Drain(i)
    <3>1. running = i /\ batch = <<>>
      BY <1>u, <2>3 DEF Drain, Idle, QueueInv
    <3>2. queueOf(i) \in Sends /\ \A q \in Sends : items'[q] = <<>> \/ items'[q] = items[q]
      BY <1>t, <2>3, TurnFacts DEF Drain
    <3>3. QED
      BY <1>t, <1>u, <2>3, <3>1, <3>2 DEF Drain, QueueInv, Going, queueOf
  <2>4. CASE Ends(i) \/ Fails(i)
    <3>1. running = i /\ batch = <<>>
      BY <1>u, <2>4 DEF Ends, Fails, Idle, QueueInv
    <3>2. QED
      BY <1>t, <1>u, <2>4, <3>1 DEF Ends, Fails, QueueInv, Going, queueOf
  <2>5. CASE Panics(i)
    BY <1>t, <1>u, <2>5 DEF Panics, QueueInv, Going, queueOf
  <2>6. CASE RunFailsEarly(i)
    <3>1. running = i /\ batch = <<>>
      BY <1>u, <2>6 DEF RunFailsEarly, Idle, QueueInv
    <3>2. QED
      BY <1>t, <1>u, <2>6, <3>1 DEF RunFailsEarly, QueueInv, Going, queueOf
  <2>7. CASE CloseQueue(i)
    <3>1. running = i /\ batch = <<>>
      BY <1>u, <2>7 DEF CloseQueue, Idle, QueueInv
    <3>2. queueOf(i) \in Sends /\ queueOf(i) <= sends
      BY <2>7, BegunQueue DEF CloseQueue
    <3>3. /\ \A q \in Sends : items'[q] = <<>> \/ items'[q] = items[q]
          /\ items'[queueOf(i)] = <<>> /\ ~open'[queueOf(i)]
          /\ \A q \in Sends : q # queueOf(i) => open'[q] = open[q]
          /\ \A q \in Sends : open'[q] => open[q]
          /\ \A j \in Sends : j # i => left'[j] = left[j] /\ pc'[j] = pc[j]
          /\ pc'[i] = "finish"
          /\ UNCHANGED <<batch, running, result, pending, hostQueue, sends>>
      BY <1>t, <2>7, <3>2 DEF CloseQueue
    <3>4. \A j \in Sends : j # i => pc[j] # "finish"
      BY <1>u, <3>1 DEF Idle
    <3>5. pc[i] = "close" /\ \A j \in Sends : queueOf(j)' = queueOf(j)
      BY <2>7, <3>3 DEF CloseQueue, queueOf
    <3>6. \A j \in Sends : j > sends => j # queueOf(i)
      BY <1>t, <3>2
    <3>7. QED
      BY <3>1, <3>2, <3>3, <3>4, <3>5, <3>6 DEF QueueInv, Going
  <2>8. CASE Finish(i)
    <3>1. running = i /\ batch = <<>>
      BY <1>u, <2>8 DEF Finish, Idle, QueueInv
    <3>2. QED
      BY <1>t, <1>u, <2>8, <3>1 DEF Finish, QueueInv, Going, queueOf
  <2>9. CASE Settle(i)
    BY <1>t, <1>u, <2>9 DEF Settle, QueueInv, Going, queueOf, Idle
  <2>10. QED
    BY <1>4, <2>1, <2>2, <2>3, <2>4, <2>5, <2>6, <2>7, <2>8, <2>9 DEF TurnStep
<1>5. QED
  BY <1>1, <1>2, <1>3, <1>4
     DEF Next, AppendNode, SetLeafLook, SetLeafWrite, CloseBegins, CloseEnds, CloseGivesUp,
         Finished, vars

\* A turn without a result, or a host queue on its second turn, may lose one.
Excuse == (\E i \in Sends : NoResult(i)) \/ (hostQueue /\ sends > 1)

LEMMA ExcuseStays == TypeInv /\ QueueInv /\ [Next]_vars /\ Excuse => Excuse'
<1> SUFFICES ASSUME TypeInv, QueueInv, [Next]_vars, Excuse PROVE Excuse'
  OBVIOUS
<1> USE DEF public, queues, tree, local, counts, leafCaller, closeCaller
<1>1. /\ result \in [Sends -> {"none", "error", "panic", "kept"}]
      /\ sends \in Nat
  BY DEF TypeInv, TypeOK
<1>2. hostQueue' = hostQueue /\ (sends' = sends \/ sends' = sends + 1)
  BY DEF Next, Send, Queue, AppendNode, SetLeafLook, SetLeafWrite, CloseBegins, CloseEnds,
     CloseGivesUp, Finished, vars, TurnStep, AppendMessages, Drain, DeliverOne, ModelCall,
     Continues, Ends, CloseQueue, Finish, Settle, RunFailsEarly, Fails, Panics
<1>3. ASSUME NEW i \in Sends, NoResult(i) PROVE NoResult(i)'
  <2>1. result[i] # "none" /\ pc[i] \notin Going
    BY <1>3 DEF QueueInv, NoResult
  <2>2. result'[i] = result[i]
    BY <1>1, <2>1
       DEF Next, Send, Queue, AppendNode, SetLeafLook, SetLeafWrite, CloseBegins, CloseEnds,
           CloseGivesUp, Finished, vars, TurnStep, AppendMessages, Drain, DeliverOne, ModelCall,
           Continues, Ends, CloseQueue, Finish, Settle, RunFailsEarly, Fails, Panics, Going
  <2>3. QED
    BY <1>3, <2>2 DEF NoResult
<1>4. QED
  BY <1>1, <1>2, <1>3 DEF Excuse

\* What sequences of messages hold, and when they rise.
LEMMA HeldMessages ==
  ASSUME NEW s \in Seq(Messages)
  PROVE  Held(s) = ToSet(s) /\ Held(s) \subseteq Messages
<1>1. \A i \in DOMAIN s : s[i] \in Messages /\ s[i] # 0
  BY DEF Messages
<1>2. QED
  BY <1>1 DEF Held, ToSet

LEMMA HeldEmpty == Held(<<>>) = {} /\ ToSet(<<>>) = {} /\ Rising(<<>>)
BY DEF Held, ToSet, Rising

\* One more number at the end; 0 stands for no message.
LEMMA HeldAppend ==
  ASSUME NEW s \in Seq(Nat), NEW m \in Nat
  PROVE  /\ Held(Append(s, m)) = Held(s) \cup ({m} \ {0})
         /\ Rising(s) /\ Earlier(Held(s), {m} \ {0}) => Rising(Append(s, m))
<1>1. /\ DOMAIN Append(s, m) = DOMAIN s \cup {Len(s) + 1}
      /\ \A i \in DOMAIN s : Append(s, m)[i] = s[i] /\ i < Len(s) + 1
      /\ Append(s, m)[Len(s) + 1] = m
      /\ \A i, j \in DOMAIN Append(s, m) : i < j => i \in DOMAIN s
  OBVIOUS
<1>2. ToSet(Append(s, m)) = ToSet(s) \cup {m}
  BY <1>1 DEF ToSet
<1>3. \A i \in DOMAIN s : s[i] # 0 => s[i] \in Held(s)
  BY DEF Held, ToSet
<1>4. ASSUME Rising(s), Earlier(Held(s), {m} \ {0}) PROVE Rising(Append(s, m))
  BY <1>1, <1>3, <1>4 DEF Rising, Earlier
<1>5. QED
  BY <1>2, <1>4 DEF Held

\* One list behind another.
LEMMA HeldConcat ==
  ASSUME NEW s \in Seq(Messages), NEW t \in Seq(Messages)
  PROVE  /\ Held(s \o t) = Held(s) \cup Held(t)
         /\ Rising(s) /\ Rising(t) /\ Earlier(Held(s), Held(t)) => Rising(s \o t)
<1> DEFINE w == s \o t
<1>1. /\ \A i \in DOMAIN w :
           \/ i \in DOMAIN s /\ w[i] = s[i]
           \/ i \notin DOMAIN s /\ i - Len(s) \in DOMAIN t /\ w[i] = t[i - Len(s)]
      /\ \A i, j \in DOMAIN w : i < j => i - Len(s) < j - Len(s) /\ (j \in DOMAIN s => i \in DOMAIN s)
      /\ \A i \in DOMAIN s : i \in DOMAIN w /\ w[i] = s[i]
      /\ \A i \in DOMAIN t : Len(s) + i \in DOMAIN w /\ w[Len(s) + i] = t[i]
  OBVIOUS
<1> HIDE DEF w
<1>2. ToSet(w) = ToSet(s) \cup ToSet(t)
  BY <1>1 DEF ToSet
<1>3. /\ \A i \in DOMAIN s : s[i] # 0 => s[i] \in Held(s)
      /\ \A i \in DOMAIN t : t[i] # 0 => t[i] \in Held(t)
  BY DEF Held, ToSet
<1>4. ASSUME Rising(s), Rising(t), Earlier(Held(s), Held(t)) PROVE Rising(w)
  BY <1>1, <1>3, <1>4 DEF Rising, Earlier
<1>5. QED
  BY <1>2, <1>4 DEF Held, w

\* The first message of a list, and the list without it.
LEMMA HeldHeadTail ==
  ASSUME NEW s \in Seq(Messages), s # <<>>, Rising(s)
  PROVE  /\ Held(s) = {Head(s)} \cup Held(Tail(s))
         /\ Rising(Tail(s)) /\ Earlier({Head(s)}, Held(Tail(s)))
<1>1. /\ Head(s) = s[1] /\ 1 \in DOMAIN s /\ Tail(s) \in Seq(Messages)
      /\ \A i \in DOMAIN Tail(s) : i + 1 \in DOMAIN s /\ Tail(s)[i] = s[i + 1] /\ 1 < i + 1
      /\ \A i \in DOMAIN s : i # 1 => i - 1 \in DOMAIN Tail(s) /\ Tail(s)[i - 1] = s[i]
      /\ \A i, j \in DOMAIN Tail(s) : i < j => i + 1 < j + 1
      /\ \A i \in DOMAIN s : s[i] \in Messages /\ s[i] # 0
  BY DEF Messages
<1>2. ToSet(s) = {Head(s)} \cup ToSet(Tail(s))
  <2> DEFINE t == Tail(s)
  <2>1. \A i \in DOMAIN t : t[i] \in ToSet(s)
    BY <1>1 DEF ToSet
  <2>2. \A i \in DOMAIN s : s[i] = Head(s) \/ s[i] \in ToSet(t)
    BY <1>1 DEF ToSet
  <2> HIDE DEF t
  <2>3. ToSet(s) \subseteq {Head(s)} \cup ToSet(t) /\ Head(s) \in ToSet(s)
    BY <1>1, <2>2 DEF ToSet
  <2>4. ToSet(t) \subseteq ToSet(s)
    BY <2>1 DEF ToSet
  <2>5. QED
    BY <2>3, <2>4 DEF t
<1>3. Held(s) = {Head(s)} \cup Held(Tail(s))
  BY <1>1, <1>2, HeldMessages
<1>4. Rising(Tail(s))
  BY <1>1 DEF Rising
<1>5. Earlier({Head(s)}, ToSet(Tail(s)))
  BY <1>1 DEF Rising, Earlier, ToSet
<1>6. QED
  BY <1>1, <1>3, <1>4, <1>5, HeldMessages

\* The nodes appended since: the same messages and one more, or none.
LEMMA DeliveredGrows ==
  ASSUME TypeInv, NEW n \in Node, nodes' = Append(nodes, n)
  PROVE  Delivered \in Seq(Nat) /\ Delivered' = Append(Delivered, n.msg) /\ n.msg \in Nat
<1>1. nodes \in Seq(Node) /\ n.msg \in Nat
  BY DEF TypeInv, TypeOK, Node
<1>2. \A k \in DOMAIN nodes : nodes[k].msg \in Nat
  <2>1. \A k \in DOMAIN nodes : nodes[k] \in Node
    BY <1>1
  <2>2. QED
    BY <2>1 DEF Node
<1>3. Delivered \in Seq(Nat) /\ Len(Delivered) = Len(nodes)
  BY <1>1, <1>2 DEF Delivered
<1>4. /\ DOMAIN nodes' = 1 .. Len(nodes) + 1
      /\ \A k \in 1 .. Len(nodes) : nodes'[k] = nodes[k]
      /\ nodes'[Len(nodes) + 1] = n
  BY <1>1
<1>5. Delivered' = [k \in 1 .. Len(nodes) + 1 |-> nodes'[k].msg]
  BY <1>4 DEF Delivered
<1>6. \A k \in 1 .. Len(nodes) : Delivered[k] = nodes[k].msg
  BY <1>1 DEF Delivered
<1>7. /\ Append(Delivered, n.msg) \in Seq(Nat) /\ Len(Append(Delivered, n.msg)) = Len(nodes) + 1
      /\ \A k \in 1 .. Len(nodes) : Append(Delivered, n.msg)[k] = Delivered[k]
      /\ Append(Delivered, n.msg)[Len(nodes) + 1] = n.msg
  BY <1>1, <1>3
<1>8. Delivered' \in Seq(Nat) /\ Len(Delivered') = Len(nodes) + 1
  <2>1. \A k \in 1 .. Len(nodes) + 1 : nodes'[k].msg \in Nat
    BY <1>1, <1>2, <1>4
  <2>2. QED
    BY <1>1, <1>5, <2>1
<1>9. \A k \in 1 .. Len(nodes) + 1 : Delivered'[k] = Append(Delivered, n.msg)[k]
  BY <1>1, <1>4, <1>5, <1>6, <1>7
<1>10. QED
  BY <1>1, <1>3, <1>7, <1>8, <1>9, SeqEqual

\* QueuedIsKept place by place, and no message that was not taken.
InRow(D, B, Q, P) ==
  /\ Earlier(D, B) /\ Earlier(D, Q) /\ Earlier(D, P)
  /\ Earlier(B, Q) /\ Earlier(B, P) /\ Earlier(Q, P)

KeptInv ==
  /\ Rising(Delivered) /\ Rising(batch) /\ Rising(liveQueue) /\ Rising(pending)
  /\ InRow(Held(Delivered), Held(batch), Held(liveQueue), Held(pending))
  /\ InLine \cup Returned \subseteq 1 .. accepted
  /\ InLine \cap Returned = {}
  /\ Lost # {} => Excuse

LEMMA LineIs ==
  /\ InLine = Held(Delivered) \cup Held(batch) \cup Held(liveQueue) \cup Held(pending)
  /\ InLine' = Held(Delivered') \cup Held(batch') \cup Held(liveQueue') \cup Held(pending')
<1>1. /\ DOMAIN Line = 1 .. 4
      /\ Line[1] = Delivered /\ Line[2] = batch /\ Line[3] = liveQueue /\ Line[4] = pending
  BY DEF Line
<1>2. /\ DOMAIN Line' = 1 .. 4
      /\ Line'[1] = Delivered' /\ Line'[2] = batch' /\ Line'[3] = liveQueue' /\ Line'[4] = pending'
  BY DEF Line
<1>3. 1 .. 4 = {1, 2, 3, 4}
  OBVIOUS
<1>4. InLine' = UNION {Held(Line'[x]) : x \in DOMAIN Line'}
  BY DEF InLine
<1> HIDE DEF Line
<1>5. InLine = Held(Delivered) \cup Held(batch) \cup Held(liveQueue) \cup Held(pending)
  BY <1>1, <1>3 DEF InLine
<1>6. InLine' = Held(Delivered') \cup Held(batch') \cup Held(liveQueue') \cup Held(pending')
  BY <1>2, <1>3, <1>4
<1>7. QED
  BY <1>5, <1>6

LEMMA LiveType == TypeInv => liveQueue \in Seq(Messages)
<1> SUFFICES ASSUME TypeInv PROVE liveQueue \in Seq(Messages)
  OBVIOUS
<1>1. 1 \in Sends /\ (running # 0 => running \in Sends)
  BY DEF TypeInv, TypeOK, Sends
<1>2. <<>> \in Seq(Messages) /\ items[1] \in Seq(Messages)
  BY <1>1 DEF TypeInv, TypeOK
<1>3. QED
  BY <1>1, <1>2, TurnFacts DEF liveQueue

LEMMA InitKept == Init => KeptInv
<1> SUFFICES ASSUME Init PROVE KeptInv
  OBVIOUS
<1>1. Delivered = <<>> /\ batch = <<>> /\ pending = <<>> /\ accepted = 0
  BY DEF Init, Delivered
<1>2. liveQueue = <<>>
  BY DEF Init, liveQueue, Sends
<1>3. InLine = {}
  BY <1>1, <1>2, LineIs, HeldEmpty
<1>4. Returned = {}
  <2>1. \A i \in Sends : ToSet(left[i]) = {}
    BY HeldEmpty DEF Init
  <2>2. undelivered = <<>>
    BY DEF Init
  <2>3. QED
    BY <2>1, <2>2, HeldEmpty DEF Returned
<1>5. 1 .. accepted = {}
  BY <1>1
<1>6. QED
  BY <1>1, <1>2, <1>3, <1>4, <1>5, HeldEmpty DEF KeptInv, InRow, Earlier, Lost

\* A step that moves messages along the line, hands some back, and loses one
\* only with an excuse.
LEMMA KeptMoves ==
  ASSUME KeptInv, accepted' = accepted,
         Rising(Delivered)', Rising(batch)', Rising(liveQueue)', Rising(pending)',
         InRow(Held(Delivered), Held(batch), Held(liveQueue), Held(pending))',
         InLine' \subseteq InLine,
         Returned' \subseteq Returned \cup (InLine \ InLine'),
         Excuse => Excuse',
         Excuse' \/ InLine \cup Returned \subseteq InLine' \cup Returned'
  PROVE  KeptInv'
<1>1. InLine' \cup Returned' \subseteq 1 .. accepted'
  BY DEF KeptInv
<1>2. InLine' \cap Returned' = {}
  BY DEF KeptInv
<1>3. Lost' # {} => Excuse'
  <2>1. CASE Excuse'
    BY <2>1
  <2>2. CASE InLine \cup Returned \subseteq InLine' \cup Returned' /\ ~Excuse
    BY <2>2 DEF KeptInv, Lost
  <2>3. QED
    BY <2>1, <2>2
<1>4. QED
  BY <1>1, <1>2, <1>3 DEF KeptInv

\* A step of something else.
LEMMA KeptRests ==
  ASSUME KeptInv, Excuse => Excuse',
         UNCHANGED <<nodes, batch, items, running, hostQueue, pending, left, undelivered, accepted>>
  PROVE  KeptInv'
<1>1. /\ Delivered' = Delivered /\ liveQueue' = liveQueue /\ Returned' = Returned
  BY DEF Delivered, liveQueue, queueOf, Returned
<1>2. InLine' = InLine
  BY <1>1, LineIs
<1>3. QED
  BY <1>1, <1>2, KeptMoves DEF KeptInv

\* A node that is no queued message joins the tree.
LEMMA KeptNode ==
  ASSUME TypeInv, KeptInv, Excuse => Excuse', NEW n \in Node, n.msg = 0, nodes' = Append(nodes, n),
         UNCHANGED <<batch, items, running, hostQueue, pending, left, undelivered, accepted>>
  PROVE  KeptInv'
<1>1. Delivered \in Seq(Nat) /\ Delivered' = Append(Delivered, 0)
  BY DeliveredGrows
<1>2. ASSUME NEW m \in Nat, m = 0
      PROVE  Held(Append(Delivered, m)) = Held(Delivered) /\ Rising(Append(Delivered, m))
  <2>1. {m} \ {0} = {}
    BY <1>2
  <2>2. Earlier(Held(Delivered), {m} \ {0})
    BY <2>1 DEF Earlier
  <2>3. /\ Held(Append(Delivered, m)) = Held(Delivered) \cup ({m} \ {0})
        /\ Rising(Delivered) /\ Earlier(Held(Delivered), {m} \ {0}) => Rising(Append(Delivered, m))
    BY <1>1, HeldAppend
  <2>4. QED
    BY <2>1, <2>2, <2>3 DEF KeptInv
<1>3. Held(Delivered') = Held(Delivered) /\ Rising(Delivered')
  BY <1>1, <1>2 DEF KeptInv, Earlier
<1>4. /\ liveQueue' = liveQueue /\ Returned' = Returned
  BY DEF liveQueue, queueOf, Returned
<1>5. InLine' = InLine
  BY <1>3, <1>4, LineIs
<1>6. QED
  BY <1>3, <1>4, <1>5, KeptMoves DEF KeptInv

\* A drained message is delivered: it was the first that was not.
LEMMA KeptDelivery ==
  ASSUME TypeInv, KeptInv, Excuse => Excuse', NEW i \in Sends, DeliverOne(i)
  PROVE  KeptInv'
<1> DEFINE m == Head(batch)
           n == [by |-> i, parent |-> leaf, msg |-> m]
<1>1. /\ batch \in Seq(Messages) /\ batch # <<>> /\ batch' = Tail(batch) /\ m \in Messages /\ m # 0
      /\ n \in Node /\ n.msg = m /\ nodes' = Append(nodes, n)
      /\ UNCHANGED <<items, running, hostQueue, pending, left, undelivered, accepted>>
  <2>1. batch \in Seq(Messages) /\ leaf \in 0 .. Len(nodes) /\ nodes \in Seq(Node)
    BY DEF TypeInv, TypeOK
  <2>2. batch # <<>> /\ batch' = Tail(batch) /\ nodes' = Append(nodes, n)
    BY DEF DeliverOne, add
  <2>3. UNCHANGED <<items, running, hostQueue, pending, left, undelivered, accepted>>
    BY DEF DeliverOne, public, queues, counts
  <2>4. m \in Messages /\ i \in 0 .. MaxSends /\ leaf \in Nat
    BY <2>1, <2>2 DEF Sends
  <2>5. m \in 0 .. MaxMessages /\ m # 0
    BY <2>4 DEF Messages
  <2>6. n \in Node /\ n.msg = m
    BY <2>4, <2>5 DEF Node
  <2>7. QED
    BY <2>1, <2>2, <2>3, <2>4, <2>5, <2>6
<1> HIDE DEF m, n
<1>2. Delivered \in Seq(Nat) /\ Delivered' = Append(Delivered, m) /\ m \in Nat
  BY <1>1, DeliveredGrows
<1>3. /\ Held(batch) = {m} \cup Held(batch')
      /\ Rising(batch') /\ Earlier({m}, Held(batch'))
  BY <1>1, HeldHeadTail DEF KeptInv, m
<1>4. Held(Delivered') = Held(Delivered) \cup {m}
  BY <1>1, <1>2, HeldAppend
<1>5. Rising(Delivered')
  <2>1. Earlier(Held(Delivered), {m} \ {0})
    BY <1>3 DEF KeptInv, InRow, Earlier
  <2>2. QED
    BY <1>2, <2>1, HeldAppend DEF KeptInv
<1>6. /\ liveQueue' = liveQueue /\ Returned' = Returned
  BY <1>1 DEF liveQueue, queueOf, Returned
<1>7. InLine' = InLine
  BY <1>1, <1>3, <1>4, <1>6, LineIs
<1>8. InRow(Held(Delivered'), Held(batch'), Held(liveQueue'), Held(pending'))
  BY <1>1, <1>3, <1>4, <1>6 DEF KeptInv, InRow, Earlier
<1>9. QED
  BY <1>1, <1>3, <1>5, <1>6, <1>7, <1>8, KeptMoves DEF KeptInv

\* Send moves what is pending behind what the turn's queue holds already; a
\* queue that an earlier turn closed is the host's, and not on its first turn.
LEMMA KeptSend ==
  ASSUME TypeInv, QueueInv, KeptInv, Excuse => Excuse', Send
  PROVE  KeptInv'
<1> DEFINE i == sends + 1
           q == queueOf(i)
<1>1. /\ running = 0 /\ running' = i /\ sends' = i /\ i \in Sends /\ q \in Sends /\ i # 0
      /\ i > sends /\ sends \in Nat /\ pending' = <<>>
      /\ pending \in Seq(Messages) /\ items \in [Sends -> Seq(Messages)]
      /\ UNCHANGED <<nodes, batch, hostQueue, left, undelivered, accepted>>
      /\ items' = IF open[q] THEN [items EXCEPT ![q] = items[q] \o pending] ELSE items
  <2>1. /\ pending \in Seq(Messages) /\ items \in [Sends -> Seq(Messages)]
        /\ sends \in 0 .. MaxSends
    BY DEF TypeInv, TypeOK
  <2>2. running = 0 /\ running' = i /\ sends' = i /\ pending' = <<>> /\ sends < MaxSends
    BY DEF Send
  <2>3. UNCHANGED <<nodes, batch, hostQueue, left, undelivered, accepted>>
    BY DEF Send, tree, local
  <2>4. i \in Sends /\ i # 0 /\ i > sends /\ sends \in Nat /\ 1 \in Sends
    BY <2>1, <2>2 DEF Sends
  <2>5. q \in Sends
    BY <2>4 DEF queueOf
  <2>6. items' = IF open[q] THEN [items EXCEPT ![q] = items[q] \o pending] ELSE items
    BY DEF Send
  <2>7. QED
    BY <2>1, <2>2, <2>3, <2>4, <2>5, <2>6
<1>2. q = IF hostQueue THEN 1 ELSE i
  BY DEF queueOf
<1>3. liveQueue = items[q]
  <2>1. CASE hostQueue
    BY <1>1, <1>2, <2>1 DEF liveQueue
  <2>2. CASE ~hostQueue
    BY <1>1, <1>2, <2>2 DEF liveQueue, QueueInv
  <2>3. QED
    BY <2>1, <2>2
<1>4. liveQueue' = items'[q]
  BY <1>1 DEF liveQueue, queueOf
<1>5. Delivered' = Delivered /\ Returned' = Returned
  BY <1>1 DEF Delivered, Returned
<1>6. liveQueue \in Seq(Messages)
  BY LiveType
<1> HIDE DEF i, q
<1>7. CASE open[q]
  <2>1. liveQueue' = liveQueue \o pending
    BY <1>1, <1>3, <1>4, <1>7
  <2>2. Held(liveQueue') = Held(liveQueue) \cup Held(pending) /\ Rising(liveQueue')
    BY <1>1, <1>6, <2>1, HeldConcat DEF KeptInv, InRow
  <2>3. InLine' = InLine
    BY <1>1, <1>5, <2>2, LineIs, HeldEmpty
  <2>4. InRow(Held(Delivered'), Held(batch'), Held(liveQueue'), Held(pending'))
    BY <1>1, <1>5, <2>2, HeldEmpty DEF KeptInv, InRow, Earlier
  <2>5. QED
    BY <1>1, <1>5, <2>2, <2>3, <2>4, HeldEmpty, KeptMoves DEF KeptInv
<1>8. CASE ~open[q]
  <2>1. liveQueue' = liveQueue
    BY <1>1, <1>3, <1>4, <1>8
  <2>2. ~(q > sends)
    BY <1>1, <1>8 DEF QueueInv
  <2>3. hostQueue /\ sends' > 1
    BY <1>1, <1>2, <2>2
  <2>4. Excuse'
    BY <1>1, <2>3 DEF Excuse
  <2>5. InLine' \subseteq InLine
    BY <1>1, <1>5, <2>1, LineIs, HeldEmpty
  <2>6. InRow(Held(Delivered'), Held(batch'), Held(liveQueue'), Held(pending'))
    BY <1>1, <1>5, <2>1, HeldEmpty DEF KeptInv, InRow, Earlier
  <2>7. QED
    BY <1>1, <1>5, <2>1, <2>4, <2>5, <2>6, HeldEmpty, KeptMoves DEF KeptInv
<1>9. QED
  BY <1>7, <1>8

\* Queue puts the newest message last: into the open queue of the running
\* turn, when nothing is pending, or behind what is.
LEMMA KeptQueue ==
  ASSUME TypeInv, QueueInv, KeptInv, Excuse => Excuse', Queue
  PROVE  KeptInv'
<1> DEFINE m == accepted + 1
<1>1. /\ accepted' = m /\ accepted \in Nat /\ m \in Nat /\ m # 0
      /\ pending \in Seq(Messages) /\ pending \in Seq(Nat)
      /\ liveQueue \in Seq(Messages) /\ liveQueue \in Seq(Nat)
      /\ UNCHANGED <<nodes, batch, running, hostQueue, left, undelivered>>
  <2>1. \A s \in Seq(Messages) : s \in Seq(Nat)
    BY DEF Messages
  <2>2. QED
    BY <2>1, LiveType DEF Queue, TypeInv, TypeOK, tree, local
<1>2. Delivered' = Delivered /\ Returned' = Returned
  BY <1>1 DEF Delivered, Returned
<1>3. /\ \A n \in InLine : n < m
      /\ \A n \in Returned : n < m
      /\ 1 .. m = (1 .. accepted) \cup {m}
  <2>1. \A n \in 1 .. accepted : n < m
    BY <1>1
  <2>2. 1 .. m = (1 .. accepted) \cup {m}
    BY <1>1
  <2>3. QED
    BY <2>1, <2>2 DEF KeptInv
<1> HIDE DEF m
<1>4. /\ Earlier(Held(Delivered), {m}) /\ Earlier(Held(batch), {m})
      /\ Earlier(Held(liveQueue), {m}) /\ Earlier(Held(pending), {m})
      /\ {m} \ {0} = {m}
  BY <1>1, <1>3, LineIs DEF Earlier
<1>5. ASSUME InLine' = InLine \cup {m},
             Rising(liveQueue'), Rising(pending'),
             InRow(Held(Delivered), Held(batch), Held(liveQueue'), Held(pending'))
      PROVE  KeptInv'
  <2>1. m \notin Returned
    <3>1. ~(m < m)
      BY <1>1
    <3>2. QED
      BY <1>3, <3>1, Zenon
  <2>2. InLine' \cup Returned' \subseteq 1 .. accepted' /\ InLine' \cap Returned' = {}
    BY <1>1, <1>2, <1>3, <1>5, <2>1 DEF KeptInv
  <2>3. Lost' \subseteq Lost
    BY <1>1, <1>2, <1>3, <1>5 DEF Lost
  <2>4. QED
    BY <1>1, <1>2, <1>5, <2>2, <2>3 DEF KeptInv
<1>6. CASE running # 0 /\ open[queueOf(running)]
  <2>1. running \in Sends /\ queueOf(running) \in Sends /\ items \in [Sends -> Seq(Messages)]
    <3>1. running \in Sends /\ items \in [Sends -> Seq(Messages)]
      BY <1>6 DEF TypeInv, TypeOK, Sends
    <3>2. QED
      BY <3>1, TurnFacts
  <2>2. liveQueue' = Append(liveQueue, m) /\ pending' = pending /\ pending = <<>>
    BY <1>1, <1>6, <2>1 DEF Queue, liveQueue, queueOf, QueueInv, m
  <2>3. Held(liveQueue') = Held(liveQueue) \cup {m} /\ Rising(liveQueue')
    BY <1>1, <1>4, <2>2, HeldAppend DEF KeptInv
  <2>4. InLine' = InLine \cup {m}
    BY <1>1, <1>2, <2>2, <2>3, LineIs
  <2>5. InRow(Held(Delivered), Held(batch), Held(liveQueue'), Held(pending'))
    BY <1>4, <2>2, <2>3, HeldEmpty DEF KeptInv, InRow, Earlier
  <2>6. QED
    BY <1>5, <2>2, <2>3, <2>4, <2>5, HeldEmpty
<1>7. CASE ~(running # 0 /\ open[queueOf(running)])
  <2>1. pending' = Append(pending, m) /\ items' = items
    BY <1>7 DEF Queue, m
  <2>2. liveQueue' = liveQueue
    BY <1>1, <2>1 DEF liveQueue, queueOf
  <2>3. Held(pending') = Held(pending) \cup {m} /\ Rising(pending')
    BY <1>1, <1>4, <2>1, HeldAppend DEF KeptInv
  <2>4. InLine' = InLine \cup {m}
    BY <1>1, <1>2, <2>2, <2>3, LineIs
  <2>5. InRow(Held(Delivered), Held(batch), Held(liveQueue'), Held(pending'))
    BY <1>4, <2>2, <2>3 DEF KeptInv, InRow, Earlier
  <2>6. Rising(liveQueue')
    BY <2>2 DEF KeptInv
  <2>7. QED
    BY <1>5, <2>3, <2>4, <2>5, <2>6
<1>8. QED
  BY <1>6, <1>7

\* The running turn's place in the line.
LEMMA RunningQueue ==
  ASSUME TypeInv, QueueInv, NEW i \in Sends, pc[i] \notin Idle
  PROVE  /\ running = i /\ queueOf(i) \in Sends
         /\ liveQueue = items[queueOf(i)]
         /\ items \in [Sends -> Seq(Messages)] /\ left \in [Sends -> Seq(Messages)]
         /\ pc[i] # "deliver" => batch = <<>>
<1>1. running = i /\ i # 0
  BY DEF TypeInv, TurnInv, Sends
<1>2. QED
  BY <1>1, TurnFacts DEF TypeInv, TypeOK, liveQueue, QueueInv

\* Drain takes the whole queue into an empty batch.
LEMMA KeptDrain ==
  ASSUME TypeInv, QueueInv, KeptInv, Excuse => Excuse', NEW i \in Sends, Drain(i)
  PROVE  KeptInv'
<1>1. pc[i] \notin Idle /\ pc[i] # "deliver"
  BY DEF Drain, Idle
<1>2. /\ running = i /\ queueOf(i) \in Sends /\ i # 0
      /\ liveQueue = items[queueOf(i)] /\ items \in [Sends -> Seq(Messages)]
      /\ batch = <<>>
  BY <1>1, RunningQueue DEF Sends
<1>3. /\ batch' = liveQueue /\ items'[queueOf(i)] = <<>>
      /\ UNCHANGED <<nodes, running, hostQueue, pending, left, undelivered, accepted>>
  BY <1>2 DEF Drain, public, tree, counts
<1>4. Delivered' = Delivered /\ Returned' = Returned /\ liveQueue' = <<>>
  BY <1>2, <1>3 DEF Delivered, Returned, liveQueue, queueOf
<1>5. InLine' = InLine
  BY <1>2, <1>3, <1>4, LineIs, HeldEmpty
<1>6. InRow(Held(Delivered'), Held(batch'), Held(liveQueue'), Held(pending'))
  BY <1>2, <1>3, <1>4, HeldEmpty DEF KeptInv, InRow, Earlier
<1>7. QED
  BY <1>3, <1>4, <1>5, <1>6, HeldEmpty, KeptMoves DEF KeptInv

\* A panic drops what the turn had drained; that is its excuse.
LEMMA KeptPanic ==
  ASSUME TypeInv, QueueInv, KeptInv, NEW i \in Sends, Panics(i)
  PROVE  KeptInv'
<1>1. /\ batch' = <<>> /\ result'[i] = "panic"
      /\ UNCHANGED <<nodes, items, running, hostQueue, pending, left, undelivered, accepted>>
  BY DEF Panics, public, queues, tree, counts, TypeInv, TypeOK
<1>2. Excuse'
  BY <1>1 DEF Excuse, NoResult
<1>3. Delivered' = Delivered /\ Returned' = Returned /\ liveQueue' = liveQueue
  BY <1>1 DEF Delivered, Returned, liveQueue, queueOf
<1>4. InLine' \subseteq InLine
  BY <1>1, <1>3, LineIs, HeldEmpty
<1>5. InRow(Held(Delivered'), Held(batch'), Held(liveQueue'), Held(pending'))
  BY <1>1, <1>3, HeldEmpty DEF KeptInv, InRow, Earlier
<1>6. QED
  BY <1>1, <1>2, <1>3, <1>4, <1>5, HeldEmpty, KeptMoves DEF KeptInv

\* The run's Close hands back what was still queued, unless the result that
\* would carry it is lost.
LEMMA KeptClose ==
  ASSUME TypeInv, QueueInv, KeptInv, Excuse => Excuse', NEW i \in Sends, CloseQueue(i)
  PROVE  KeptInv'
<1>1. pc[i] \notin Idle /\ pc[i] \notin {"deliver", "finish", "settle", "done"} /\ pc[i] \notin Going
  BY DEF CloseQueue, Idle, Going
<1>2. /\ running = i /\ queueOf(i) \in Sends /\ i # 0
      /\ liveQueue = items[queueOf(i)] /\ items \in [Sends -> Seq(Messages)]
      /\ left \in [Sends -> Seq(Messages)]
  BY <1>1, RunningQueue DEF Sends
<1>3. left[i] = <<>> /\ result[i] \in {"error", "panic", "kept"}
  BY <1>1 DEF QueueInv, TypeInv, TypeOK
<1>4. /\ items'[queueOf(i)] = <<>>
      /\ left' = [left EXCEPT ![i] = IF result[i] = "kept" THEN liveQueue ELSE <<>>]
      /\ UNCHANGED <<nodes, batch, running, hostQueue, pending, undelivered, accepted, result>>
  BY <1>2 DEF CloseQueue, public, tree, counts
<1>5. Delivered' = Delivered /\ liveQueue' = <<>>
  BY <1>2, <1>4 DEF Delivered, liveQueue, queueOf
<1>6. /\ InLine' = Held(Delivered) \cup Held(batch) \cup Held(pending)
      /\ InLine = InLine' \cup Held(liveQueue) /\ InLine' \cap Held(liveQueue) = {}
  <2>1. /\ InLine' = Held(Delivered) \cup Held(batch) \cup Held(pending)
        /\ InLine = InLine' \cup Held(liveQueue)
    BY <1>4, <1>5, LineIs, HeldEmpty
  <2>2. Held(liveQueue) \subseteq Nat
    BY HeldMessages, LiveType DEF Messages
  <2>3. \A m \in Held(liveQueue) : ~(m < m)
    BY <2>2
  <2>4. \A m \in Held(liveQueue) : m \notin Held(Delivered) /\ m \notin Held(batch) /\ m \notin Held(pending)
    BY <2>3, Zenon DEF KeptInv, InRow, Earlier
  <2>5. QED
    BY <2>1, <2>4
<1>7. \A j \in Sends : ToSet(left'[j]) = IF j = i THEN ToSet(left'[i]) ELSE ToSet(left[j])
  BY <1>2, <1>4
<1>8. Returned' = Returned \cup ToSet(left'[i])
  <2>1. ToSet(left[i]) = {}
    BY <1>3, HeldEmpty
  <2>2. UNION {ToSet(left'[j]) : j \in Sends} = (UNION {ToSet(left[j]) : j \in Sends}) \cup ToSet(left'[i])
    BY <1>7, <2>1
  <2>3. QED
    BY <1>4, <2>2 DEF Returned
<1>9. ToSet(left'[i]) = IF result[i] = "kept" THEN Held(liveQueue) ELSE {}
  BY <1>2, <1>4, LiveType, HeldMessages, HeldEmpty
<1>10. Excuse' \/ InLine \cup Returned \subseteq InLine' \cup Returned'
  <2>1. CASE result[i] = "kept"
    BY <1>6, <1>8, <1>9, <2>1
  <2>2. CASE result[i] # "kept"
    BY <1>3, <1>4, <2>2 DEF Excuse, NoResult
  <2>3. QED
    BY <2>1, <2>2
<1>11. Returned' \subseteq Returned \cup (InLine \ InLine')
  BY <1>6, <1>8, <1>9
<1>12. InRow(Held(Delivered'), Held(batch'), Held(liveQueue'), Held(pending'))
  BY <1>4, <1>5, HeldEmpty DEF KeptInv, InRow, Earlier
<1>13. InLine' \subseteq InLine
  BY <1>6
<1>14. QED
  BY <1>4, <1>5, <1>10, <1>11, <1>12, <1>13, HeldEmpty, KeptMoves DEF KeptInv

\* finish keeps in the session what the turn handed back; a queue of the
\* turn's own goes with it, empty unless the run never came to close it.
LEMMA KeptFinish ==
  ASSUME TypeInv, QueueInv, KeptInv, Excuse => Excuse', NEW i \in Sends, Finish(i)
  PROVE  KeptInv'
<1>1. pc[i] = "finish" /\ pc[i] \notin Idle
  BY DEF Finish, Idle
<1>2. /\ running = i /\ queueOf(i) \in Sends /\ i # 0
      /\ liveQueue = items[queueOf(i)] /\ items \in [Sends -> Seq(Messages)]
      /\ left[i] \in Seq(Messages) /\ undelivered \in Seq(Messages)
  <2>1. left[i] \in Seq(Messages) /\ undelivered \in Seq(Messages)
    BY TurnFacts DEF TypeInv, TypeOK
  <2>2. QED
    BY <1>1, <2>1, RunningQueue DEF Sends
<1>3. /\ running' = 0 /\ undelivered' = undelivered \o left[i]
      /\ UNCHANGED <<nodes, batch, items, hostQueue, pending, left, accepted, result>>
  BY DEF Finish, queues, tree, counts
<1>4. Delivered' = Delivered /\ Returned' = Returned
  <2>1. ToSet(undelivered') = ToSet(undelivered) \cup ToSet(left[i])
    <3>1. undelivered \o left[i] \in Seq(Messages)
      BY <1>2
    <3>2. Held(undelivered \o left[i]) = Held(undelivered) \cup Held(left[i])
      BY <1>2, HeldConcat
    <3>3. QED
      BY <1>2, <1>3, <3>1, <3>2, HeldMessages
  <2>2. QED
    BY <1>3, <2>1 DEF Delivered, Returned
<1>5. /\ liveQueue' = IF hostQueue THEN liveQueue ELSE <<>>
  BY <1>2, <1>3 DEF liveQueue, queueOf
<1>6. liveQueue' = liveQueue \/ (liveQueue' = <<>> /\ (liveQueue = <<>> \/ Excuse'))
  <2>1. CASE result[i] = "kept"
    BY <1>1, <1>2, <1>5, <2>1 DEF QueueInv
  <2>2. CASE result[i] # "kept"
    <3>1. result[i] # "none"
      BY <1>1 DEF QueueInv, Going
    <3>2. Excuse'
      BY <1>3, <2>2, <3>1 DEF Excuse, NoResult, TypeInv, TypeOK
    <3>3. QED
      BY <1>5, <3>2
  <2>3. QED
    BY <2>1, <2>2
<1>7. /\ InLine' \subseteq InLine /\ Rising(liveQueue')
      /\ InLine' = InLine \/ Excuse'
  BY <1>3, <1>4, <1>6, LineIs, HeldEmpty DEF KeptInv
<1>8. InRow(Held(Delivered'), Held(batch'), Held(liveQueue'), Held(pending'))
  BY <1>3, <1>4, <1>6, HeldEmpty DEF KeptInv, InRow, Earlier
<1>9. QED
  BY <1>3, <1>4, <1>7, <1>8, KeptMoves DEF KeptInv

LEMMA NextKept == TypeInv /\ QueueInv /\ KeptInv /\ [Next]_vars => KeptInv'
<1> SUFFICES ASSUME TypeInv, QueueInv, KeptInv, [Next]_vars PROVE KeptInv'
  OBVIOUS
<1> USE DEF public, queues, tree, local, counts, leafCaller, closeCaller
<1>0. Excuse => Excuse'
  BY ExcuseStays
<1>1. CASE UNCHANGED <<nodes, batch, items, running, hostQueue, pending, left, undelivered, accepted>>
  BY <1>0, <1>1, KeptRests
<1>2. CASE Send \/ Queue
  BY <1>0, <1>2, KeptSend, KeptQueue
<1>3. CASE AppendNode
  <2>1. [by |-> 0, parent |-> leaf, msg |-> 0] \in Node
    BY DEF Node, TypeInv, TypeOK
  <2>2. QED
    BY <1>0, <1>3, <2>1, KeptNode DEF AppendNode
<1>4. ASSUME NEW i \in Sends, AppendMessages(i) \/ ModelCall(i) PROVE KeptInv'
  <2>1. [by |-> i, parent |-> leaf, msg |-> 0] \in Node
    BY DEF Node, TypeInv, TypeOK, Sends
  <2>2. QED
    BY <1>0, <1>4, <2>1, KeptNode DEF AppendMessages, ModelCall, add
<1>5. ASSUME NEW i \in Sends,
             Drain(i) \/ DeliverOne(i) \/ CloseQueue(i) \/ Finish(i) \/ Panics(i)
      PROVE  KeptInv'
  BY <1>0, <1>5, KeptDrain, KeptDelivery, KeptClose, KeptFinish, KeptPanic
<1>6. ASSUME NEW i \in Sends, Continues(i) \/ Ends(i) \/ Settle(i) \/ RunFailsEarly(i) \/ Fails(i)
      PROVE  KeptInv'
  BY <1>1, <1>6 DEF Continues, Ends, Settle, RunFailsEarly, Fails
<1>7. CASE SetLeafLook \/ SetLeafWrite \/ CloseBegins \/ CloseEnds \/ CloseGivesUp \/ Finished \/ UNCHANGED vars
  BY <1>1, <1>7 DEF SetLeafLook, SetLeafWrite, CloseBegins, CloseEnds, CloseGivesUp, Finished, vars
<1>8. QED
  BY <1>2, <1>3, <1>4, <1>5, <1>6, <1>7 DEF Next, TurnStep

\* For any number of turns and messages, what Queue took is delivered in the
\* order it was taken or handed back, never both, and lost only with a turn
\* that had no result to hand it back in, or in a host's queue that a second
\* turn was given.
THEOREM QueuedStays == Spec => []QueuedIsKept
<1>1. TypeInv /\ KeptInv => QueuedIsKept
  <2> SUFFICES ASSUME KeptInv PROVE QueuedIsKept
    OBVIOUS
  <2>1. /\ DOMAIN Line = {1, 2, 3, 4}
        /\ Line[1] = Delivered /\ Line[2] = batch /\ Line[3] = liveQueue /\ Line[4] = pending
    BY DEF Line
  <2> HIDE DEF Line
  <2>2. \A x \in DOMAIN Line : Rising(Line[x])
    BY <2>1 DEF KeptInv
  <2>3. \A x, y \in DOMAIN Line : x < y => Earlier(Held(Line[x]), Held(Line[y]))
    <3>1. \A x, y \in {1, 2, 3, 4} : x < y => <<x, y>> \in {<<1, 2>>, <<1, 3>>, <<1, 4>>, <<2, 3>>, <<2, 4>>, <<3, 4>>}
      OBVIOUS
    <3>2. QED
      BY <2>1, <3>1 DEF KeptInv, InRow
  <2>4. QED
    BY <2>2, <2>3 DEF KeptInv, QueuedIsKept, Excuse
<1>2. Spec => [](TypeInv /\ QueueInv /\ KeptInv)
  BY TypeInvariant, InitQueue, NextQueue, InitKept, NextKept, PTL DEF Spec
<1>3. QED
  BY <1>1, <1>2, PTL
===============================================================================
