-------------------------- MODULE MessageQueueProofs --------------------------
(***************************************************************************)
(* Theorems about MessageQueue for any number of producers, messages and   *)
(* turns: type correctness, mutual exclusion with the closed flag, and     *)
(* the safety part of what Mailbox promises.                               *)
(***************************************************************************)
EXTENDS MessageQueue, TLAPS

Goroutines == Producers \cup {Run}

RunPCs      == {"boundary", "take", "call", "close", "done"}
ProducerPCs == {"idle", "lock", "check", "enqueue"}

\* TypeOK sharpened by who may be where, and by whose message is in hand.
TypeInv ==
  /\ TypeOK
  /\ pc[Run] \in RunPCs
  /\ \A p \in Producers : pc[p] \in ProducerPCs
  /\ \A p \in Producers : msg[p].from = p
  /\ \A p \in Producers : pc[p] # "idle" => msg[p].number = sent[p] /\ msg[p] \in Message

USE ProcessesDiffer, BoundsAreCounts

\* The queue starts empty and open, its run at the first boundary.
LEMMA InitType == Init => TypeInv
<1> SUFFICES ASSUME Init PROVE TypeInv
  OBVIOUS
<1>1. msg \in [Producers -> [from : Producers, number : 0 .. MaxMessages, kind : Kinds]]
  BY DEF Init, Kinds
<1>2. 0 \in 0 .. MaxTurns - 1 /\ 0 \in 0 .. MaxMessages
  OBVIOUS
<1>3. /\ pc \in [Goroutines -> RunPCs \cup ProducerPCs]
      /\ pc[Run] = "boundary"
      /\ \A p \in Producers : pc[p] = "idle"
  BY DEF Init, Goroutines, RunPCs, ProducerPCs
<1>4. sent \in [Producers -> 0 .. MaxMessages]
  BY <1>2 DEF Init
<1>5. TypeOK
  <2>1. <<>> \in Seq(Message) /\ <<>> \in Seq(Seq(Message))
    OBVIOUS
  <2>2. pc \in [Producers \cup {Run} ->
                {"idle", "lock", "check", "enqueue",
                 "boundary", "take", "call", "close", "done"}]
    BY DEF Init
  <2>3. turn \in 0 .. MaxTurns - 1
    BY <1>2 DEF Init
  <2>4. QED
    BY <1>1, <1>4, <2>1, <2>2, <2>3 DEF Init, TypeOK
<1>6. \A p \in Producers : msg[p].from = p
  BY DEF Init
<1>7. QED
  BY <1>3, <1>5, <1>6 DEF TypeInv, RunPCs, ProducerPCs

\* Every step keeps the types: a producer goes through Queue's points only,
\* the run through its own, and a message in hand is its producer's newest.
LEMMA NextType == TypeInv /\ [Next]_vars => TypeInv'
<1> SUFFICES ASSUME TypeInv, [Next]_vars PROVE TypeInv'
  OBVIOUS
<1> USE DEF TypeInv, TypeOK, RunPCs, ProducerPCs
<1>1. ASSUME NEW p \in Producers, QueueCall(p) PROVE TypeInv'
  <2>1. UNCHANGED <<items, closed, mu, accepted, system, user, batches, leftover, turn, ended, answeredAt>>
    BY <1>1 DEF QueueCall, runVars
  <2>2. /\ sent[p] + 1 \in 1 .. MaxMessages /\ sent' = [sent EXCEPT ![p] = sent[p] + 1]
        /\ pc' = [pc EXCEPT ![p] = "lock"]
    BY <1>1 DEF QueueCall
  <2>3. PICK k \in Kinds : msg' = [msg EXCEPT ![p] = [from |-> p, number |-> sent[p] + 1, kind |-> k]]
    BY <1>1 DEF QueueCall
  <2>4. msg'[p] \in Message /\ msg'[p].from = p /\ msg'[p].number = sent'[p]
    BY <2>2, <2>3 DEF Message
  <2>5. msg' \in [Producers -> [from : Producers, number : 0 .. MaxMessages, kind : Kinds]]
    BY <2>2, <2>3
  <2>6. \A q \in Producers : q # p => msg'[q] = msg[q] /\ sent'[q] = sent[q] /\ pc'[q] = pc[q]
    BY <2>2, <2>3
  <2>7. pc'[p] = "lock" /\ pc'[Run] = pc[Run]
    BY <2>2
  <2>8. ASSUME NEW q \in Producers
        PROVE  /\ pc'[q] \in ProducerPCs /\ msg'[q].from = q
               /\ pc'[q] # "idle" => msg'[q].number = sent'[q] /\ msg'[q] \in Message
    <3>1. CASE q = p
      BY <2>4, <2>7, <3>1
    <3>2. CASE q # p
      <4>1. /\ pc[q] \in ProducerPCs /\ msg[q].from = q
            /\ pc[q] # "idle" => msg[q].number = sent[q] /\ msg[q] \in Message
        OBVIOUS
      <4>2. QED
        BY <2>6, <3>2, <4>1
    <3>3. QED
      BY <3>1, <3>2
  <2>9. sent' \in [Producers -> 0 .. MaxMessages] /\ pc' \in [Producers \cup {Run} -> RunPCs \cup ProducerPCs]
    BY <2>2
  <2> HIDE DEF RunPCs, ProducerPCs
  <2>10. TypeOK' /\ pc'[Run] \in RunPCs
    <3>1. RunPCs \cup ProducerPCs = {"idle", "lock", "check", "enqueue", "boundary", "take", "call", "close", "done"}
      BY DEF RunPCs, ProducerPCs
    <3>2. QED
      BY <2>1, <2>5, <2>7, <2>9, <3>1
  <2> HIDE DEF TypeOK
  <2>11. QED
    BY <2>8, <2>10
<1>2. ASSUME NEW p \in Producers, QueueLock(p) PROVE TypeInv'
  BY <1>2 DEF QueueLock, runVars, producerVars
<1>3. ASSUME NEW p \in Producers, QueueRefuse(p) PROVE TypeInv'
  BY <1>3 DEF QueueRefuse, runVars, producerVars
<1>4. ASSUME NEW p \in Producers, QueueOpen(p) PROVE TypeInv'
  BY <1>4 DEF QueueOpen, runVars, producerVars
<1>5. ASSUME NEW p \in Producers, QueueEnqueue(p) PROVE TypeInv'
  BY <1>5 DEF QueueEnqueue, runVars, producerVars
<1>6. ASSUME DrainLock PROVE TypeInv'
  BY <1>6 DEF DrainLock, runVars, producerVars
<1>7. ASSUME CloseLock PROVE TypeInv'
  BY <1>7 DEF CloseLock, runVars, producerVars
<1>8. ASSUME TakeOne PROVE TypeInv'
  <2>1. Head(items) \in Message /\ Tail(items) \in Seq(Message)
    BY <1>8 DEF TakeOne
  <2>2. /\ Append(system, Head(items)) \in Seq(Message)
        /\ Append(user, Head(items)) \in Seq(Message)
    BY <2>1
  <2>3. items' \in Seq(Message) /\ system' \in Seq(Message) /\ user' \in Seq(Message)
    BY <1>8, <2>1, <2>2 DEF TakeOne
  <2>4. UNCHANGED <<closed, mu, pc, msg, sent, accepted, batches, leftover, turn, ended, answeredAt>>
    BY <1>8 DEF TakeOne, producerVars
  <2>5. QED
    BY <2>3, <2>4
<1>9. ASSUME TakeDone PROVE TypeInv'
  <2>1. system \o user \in Seq(Message)
    OBVIOUS
  <2>2. Append(batches, system \o user) \in Seq(Seq(Message))
    BY <2>1
  <2>3. /\ batches' \in Seq(Seq(Message))
        /\ leftover' \in Seq(Message)
        /\ system' \in Seq(Message)
        /\ user' \in Seq(Message)
    BY <1>9, <2>1, <2>2 DEF TakeDone
  <2>4. /\ mu' \in Producers \cup {Run, Free}
        /\ \A p \in Producers : pc'[p] = pc[p]
        /\ pc'[Run] \in RunPCs
        /\ pc' \in [Goroutines -> RunPCs \cup ProducerPCs]
    BY <1>9 DEF TakeDone, Goroutines
  <2>5. UNCHANGED <<items, closed, msg, sent, accepted, turn, ended, answeredAt>>
    BY <1>9 DEF TakeDone, producerVars
  <2>6. QED
    BY <2>3, <2>4, <2>5 DEF Goroutines
<1>10. ASSUME ModelCall PROVE TypeInv'
  BY <1>10, SMTT(30) DEF ModelCall, ToolTurn, AnswerContinues, AnswerEnds, CapEnds, RunFails,
     moreTurnsAllowed, runVars, producerVars
<1>11. CASE UNCHANGED vars
  BY <1>11 DEF vars
<1>12. QED
  BY <1>1, <1>2, <1>3, <1>4, <1>5, <1>6, <1>7, <1>8, <1>9, <1>10, <1>11
  DEF Next, Queue, RunStep, drainLocked, Finished

\* Every variable of the queue and of its run keeps its type.
THEOREM TypeCorrect == Spec => []TypeOK
<1>1. TypeInv => TypeOK
  BY DEF TypeInv
<1>2. QED
  BY <1>1, InitType, NextType, PTL DEF Spec

\* The sharpened invariant, for the proofs that need who may be where.
LEMMA TypeInvariant == Spec => []TypeInv
  BY InitType, NextType, PTL DEF Spec

-------------------------------------------------------------------------------
(* Mutual exclusion and the closed flag.                                    *)

\* The goroutine between Lock and Unlock is the holder, and there is one.
MutexInv ==
  \A g \in Goroutines : pc[g] \in {"check", "enqueue", "take"} <=> mu = g

\* The flag is set from Close's Lock on, so a producer that has found it
\* clear still holds the mutex; the slices are empty outside drainLocked;
\* and what Close leaves behind is an empty queue.
CloseInv ==
  /\ \A p \in Producers : pc[p] = "enqueue" => ~closed
  /\ closed <=> (pc[Run] = "done" \/ (pc[Run] = "take" /\ ended # "no"))
  /\ pc[Run] \in {"boundary", "call"} => ended = "no"
  /\ pc[Run] \in {"close", "done"} => ended # "no"
  /\ pc[Run] # "take" => system = <<>> /\ user = <<>>
  /\ pc[Run] = "done" => items = <<>>
  /\ pc[Run] # "done" => leftover = <<>>

LockInv == MutexInv /\ CloseInv

\* Nobody holds the mutex of a new queue.
LEMMA InitLock == Init => LockInv
  BY DEF Init, LockInv, MutexInv, CloseInv, Goroutines

\* Every step keeps mutual exclusion and what the closed flag stands for.
LEMMA NextLock == TypeInv /\ LockInv /\ [Next]_vars => LockInv'
<1> SUFFICES ASSUME TypeInv, LockInv, [Next]_vars PROVE LockInv'
  OBVIOUS
<1> USE DEF TypeInv, TypeOK, LockInv, MutexInv, CloseInv, Goroutines, RunPCs, ProducerPCs
<1>1. ASSUME NEW p \in Producers, QueueCall(p) PROVE LockInv'
  BY <1>1 DEF QueueCall, runVars
<1>2. ASSUME NEW p \in Producers, QueueLock(p) PROVE LockInv'
  BY <1>2 DEF QueueLock, runVars, producerVars
<1>3. ASSUME NEW p \in Producers, QueueRefuse(p) PROVE LockInv'
  BY <1>3 DEF QueueRefuse, runVars, producerVars
<1>4. ASSUME NEW p \in Producers, QueueOpen(p) PROVE LockInv'
  BY <1>4 DEF QueueOpen, runVars, producerVars
<1>5. ASSUME NEW p \in Producers, QueueEnqueue(p) PROVE LockInv'
  BY <1>5 DEF QueueEnqueue, runVars, producerVars
<1>6. ASSUME DrainLock PROVE LockInv'
  BY <1>6 DEF DrainLock, runVars, producerVars
<1>7. ASSUME CloseLock PROVE LockInv'
  BY <1>7 DEF CloseLock, runVars, producerVars
<1>8. ASSUME TakeOne PROVE LockInv'
  BY <1>8 DEF TakeOne, runVars, producerVars
<1>9. ASSUME TakeDone PROVE LockInv'
  BY <1>9 DEF TakeDone, runVars, producerVars
<1>10. ASSUME ModelCall PROVE LockInv'
  <2>1. CASE ToolTurn
    BY <2>1 DEF ToolTurn, producerVars
  <2>2. CASE AnswerContinues
    BY <2>2 DEF AnswerContinues, producerVars
  <2>3. CASE AnswerEnds
    BY <2>3 DEF AnswerEnds, producerVars
  <2>4. CASE CapEnds
    BY <2>4 DEF CapEnds, producerVars
  <2>5. CASE RunFails
    BY <2>5 DEF RunFails, producerVars
  <2>6. QED
    BY <1>10, <2>1, <2>2, <2>3, <2>4, <2>5 DEF ModelCall
<1>11. CASE UNCHANGED vars
  BY <1>11 DEF vars
<1>12. QED
  BY <1>1, <1>2, <1>3, <1>4, <1>5, <1>6, <1>7, <1>8, <1>9, <1>10, <1>11
  DEF Next, Queue, RunStep, drainLocked, Finished

\* The mutex and the flag agree with the program counters throughout.
LEMMA LockInvariant == Spec => []LockInv
  BY InitLock, NextLock, TypeInvariant, PTL DEF Spec

\* Close is final for any number of producers: once it has returned, the
\* queue and the slices it drained into are empty, whatever calls race it.
THEOREM NoMessageStranded == Spec => []NothingStranded
<1>1. LockInv => NothingStranded
  BY DEF LockInv, CloseInv, NothingStranded, Waiting, Elements
<1>2. QED
  BY <1>1, LockInvariant, PTL

-------------------------------------------------------------------------------
(* The queue implements Mailbox.                                            *)

\* A message some producer is about to enqueue is new: everything that was
\* taken from that producer before carries a smaller number.
Everywhere == Waiting \cup Delivered \cup Elements(leftover)

FreshInv ==
  /\ \A m \in Everywhere :
       /\ m \in Message
       /\ m.number <= sent[m.from]
       /\ pc[m.from] # "idle" => m.number < sent[m.from]

\* An empty sequence holds nothing.
LEMMA ElementsEmpty == Elements(<<>>) = {}
  BY DEF Elements

\* What an enqueue adds to the set of messages held.
LEMMA ElementsAppend ==
  ASSUME NEW S, NEW s \in Seq(S), NEW e \in S
  PROVE  Elements(Append(s, e)) = Elements(s) \cup {e}
<1>1. DOMAIN Append(s, e) = DOMAIN s \cup {Len(s) + 1}
  OBVIOUS
<1>2. \A i \in DOMAIN s : Append(s, e)[i] = s[i]
  OBVIOUS
<1>3. Append(s, e)[Len(s) + 1] = e
  OBVIOUS
<1>4. QED
  BY <1>1, <1>2, <1>3 DEF Elements

\* What a dequeue takes from it.
LEMMA ElementsHeadTail ==
  ASSUME NEW S, NEW s \in Seq(S), s # <<>>
  PROVE  Elements(s) = {Head(s)} \cup Elements(Tail(s))
<1>1. Head(s) = s[1] /\ 1 \in DOMAIN s
  OBVIOUS
<1>2. \A i \in DOMAIN Tail(s) : Tail(s)[i] = s[i + 1] /\ i + 1 \in DOMAIN s
  OBVIOUS
<1>3. ASSUME NEW i \in DOMAIN s, i # 1
      PROVE  i - 1 \in DOMAIN Tail(s) /\ Tail(s)[i - 1] = s[i]
  BY <1>3
<1>4. Elements(s) \subseteq {Head(s)} \cup Elements(Tail(s))
  BY <1>1, <1>3 DEF Elements
<1>5. {Head(s)} \cup Elements(Tail(s)) \subseteq Elements(s)
  BY <1>1, <1>2 DEF Elements
<1>6. QED
  BY <1>4, <1>5

\* Joining the two slices loses nothing and adds nothing.
LEMMA ElementsConcat ==
  ASSUME NEW S, NEW s \in Seq(S), NEW t \in Seq(S)
  PROVE  Elements(s \o t) = Elements(s) \cup Elements(t)
<1>1. /\ DOMAIN (s \o t) = 1 .. Len(s) + Len(t)
      /\ DOMAIN s = 1 .. Len(s)
      /\ DOMAIN t = 1 .. Len(t)
  OBVIOUS
<1>2. \A i \in DOMAIN s : i \in DOMAIN (s \o t) /\ (s \o t)[i] = s[i]
  BY <1>1
<1>3. \A i \in DOMAIN t : Len(s) + i \in DOMAIN (s \o t) /\ (s \o t)[Len(s) + i] = t[i]
  BY <1>1
<1>4. ASSUME NEW i \in DOMAIN (s \o t)
      PROVE  i \in DOMAIN s \/ (i - Len(s) \in DOMAIN t /\ (s \o t)[i] = t[i - Len(s)])
  BY <1>1
<1>5. Elements(s \o t) \subseteq Elements(s) \cup Elements(t)
  BY <1>2, <1>4 DEF Elements
<1>6. Elements(s) \cup Elements(t) \subseteq Elements(s \o t)
  BY <1>2, <1>3 DEF Elements
<1>7. QED
  BY <1>5, <1>6

\* What each action does to the four places Mailbox speaks of.
places == <<Waiting, Delivered, Elements(leftover), closed>>

\* An enqueue puts one message among those that wait.
LEMMA EnqueueEffect ==
  ASSUME TypeInv, NEW p \in Producers, QueueEnqueue(p)
  PROVE  /\ msg[p] \in Message
         /\ Waiting' = Waiting \cup {msg[p]}
         /\ UNCHANGED <<Delivered, Elements(leftover), closed>>
<1>1. msg[p] \in Message /\ items \in Seq(Message)
  BY DEF TypeInv, TypeOK, QueueEnqueue
<1>2. Elements(items') = Elements(items) \cup {msg[p]}
  BY <1>1, ElementsAppend DEF QueueEnqueue
<1>3. QED
  BY <1>1, <1>2, ZenonT(60) DEF QueueEnqueue, runVars, Waiting, Delivered, Elements

\* A dequeue moves a message to a slice, where it still waits.
LEMMA TakeOneEffect ==
  ASSUME TypeInv, TakeOne
  PROVE  UNCHANGED places
<1>1. /\ items \in Seq(Message) /\ items # <<>>
      /\ system \in Seq(Message) /\ user \in Seq(Message)
      /\ Head(items) \in Message
  BY DEF TypeInv, TypeOK, TakeOne
<1>2. Elements(items) = {Head(items)} \cup Elements(items')
  BY <1>1, ElementsHeadTail DEF TakeOne
<1>3. Elements(system') \cup Elements(user')
        = Elements(system) \cup Elements(user) \cup {Head(items)}
  <2>1. /\ Elements(Append(system, Head(items))) = Elements(system) \cup {Head(items)}
        /\ Elements(Append(user, Head(items))) = Elements(user) \cup {Head(items)}
    BY <1>1, ElementsAppend
  <2>2. CASE system' = Append(system, Head(items)) /\ user' = user
    BY <2>1, <2>2
  <2>3. CASE user' = Append(user, Head(items)) /\ system' = system
    BY <2>1, <2>3
  <2>4. QED
    BY <2>2, <2>3 DEF TakeOne
<1>4. Waiting' = Waiting
  BY <1>2, <1>3 DEF Waiting
<1>5. QED
  BY <1>4 DEF places, TakeOne, Delivered, Elements

\* The end of a drain hands over everything that waited: to the
\* conversation while the run goes on, back to the caller once it is over.
LEMMA TakeDoneEffect ==
  ASSUME TypeInv, LockInv, TakeDone
  PROVE  /\ Waiting' = {}
         /\ closed' = closed
         /\ \/ /\ ~closed
               /\ Delivered' = Delivered \cup Waiting
               /\ Elements(leftover)' = Elements(leftover)
            \/ /\ closed
               /\ Elements(leftover)' = Elements(leftover) \cup Waiting
               /\ Delivered' = Delivered
<1>1. /\ system \in Seq(Message) /\ user \in Seq(Message)
      /\ batches \in Seq(Seq(Message)) /\ items = <<>>
      /\ system \o user \in Seq(Message)
  BY DEF TypeInv, TypeOK, TakeDone
<1>2. Elements(system \o user) = Waiting
  BY <1>1, ElementsConcat, ElementsEmpty DEF Waiting
<1>3. Waiting' = {}
  BY <1>1, ElementsEmpty DEF TakeDone, Waiting
<1>4. CASE ended = "no"
  <2>1. Elements(Append(batches, system \o user)) = Elements(batches) \cup {system \o user}
    BY <1>1, ElementsAppend
  <2>2. batches' = Append(batches, system \o user) /\ UNCHANGED <<leftover, closed>>
    BY <1>4 DEF TakeDone
  <2>3. Delivered' = Delivered \cup Waiting
    BY <1>2, <2>1, <2>2 DEF Delivered
  <2>4. ~closed
    BY <1>4 DEF TakeDone, LockInv, CloseInv
  <2>5. QED
    BY <1>3, <2>2, <2>3, <2>4 DEF Elements
<1>5. CASE ended # "no"
  <2>1. leftover' = system \o user /\ UNCHANGED <<batches, closed>>
    BY <1>5 DEF TakeDone
  <2>2. leftover = <<>> /\ closed
    BY <1>5 DEF TakeDone, LockInv, CloseInv
  <2>3. QED
    BY <1>2, <1>3, <2>1, <2>2, ElementsEmpty DEF Delivered, Elements
<1>6. QED
  BY <1>4, <1>5

\* The remaining steps move no message and leave the flag alone.
LEMMA OtherEffect ==
  ASSUME TypeInv,
         \/ \E p \in Producers :
              QueueCall(p) \/ QueueLock(p) \/ QueueRefuse(p) \/ QueueOpen(p)
         \/ DrainLock \/ ModelCall \/ UNCHANGED vars
  PROVE  UNCHANGED places
<1>1. UNCHANGED <<items, system, user, batches, leftover, closed>>
  BY DEF QueueCall, QueueLock, QueueRefuse, QueueOpen, DrainLock, ModelCall, ToolTurn,
     AnswerContinues, AnswerEnds, CapEnds, RunFails, runVars, producerVars, vars
<1>2. QED
  BY <1>1 DEF places, Waiting, Delivered, Elements

\* Close's Lock shuts the queue and moves no message.
LEMMA CloseLockEffect ==
  ASSUME LockInv, CloseLock
  PROVE  /\ ~closed /\ closed'
         /\ UNCHANGED <<Waiting, Delivered, Elements(leftover)>>
  BY DEF CloseLock, runVars, LockInv, CloseInv, Waiting, Delivered, Elements

\* No message is anywhere before it is offered.
LEMMA InitFresh == Init => FreshInv
  BY ElementsEmpty DEF Init, FreshInv, Everywhere, Waiting, Delivered

\* A message is in one place, and one not yet offered is in none.
LEMMA NextFresh == TypeInv /\ LockInv /\ FreshInv /\ [Next]_vars => FreshInv'
<1> SUFFICES ASSUME TypeInv, LockInv, FreshInv, [Next]_vars PROVE FreshInv'
  OBVIOUS
<1>1. ASSUME NEW p \in Producers, QueueEnqueue(p) PROVE FreshInv'
  <2>1. Everywhere' = Everywhere \cup {msg[p]} /\ msg[p] \in Message
    BY <1>1, EnqueueEffect DEF Everywhere
  <2>2. /\ sent' = sent
        /\ \A g \in Producers : g # p => pc'[g] = pc[g]
        /\ pc'[p] = "idle"
    BY <1>1 DEF QueueEnqueue, TypeInv, TypeOK
  <2>3. msg[p].from = p /\ msg[p].number = sent[p] /\ sent[p] \in Nat
    BY <1>1 DEF QueueEnqueue, TypeInv, TypeOK
  <2>4. \A m \in Message : m.from \in Producers /\ m.number \in Nat
    BY DEF Message
  <2>5. QED
    BY <2>1, <2>2, <2>3, <2>4 DEF FreshInv
<1>2. ASSUME NEW p \in Producers, QueueCall(p) PROVE FreshInv'
  <2>1. Everywhere' = Everywhere
    BY <1>2, OtherEffect DEF Everywhere, places
  <2>2. /\ sent' = [sent EXCEPT ![p] = sent[p] + 1]
        /\ pc[p] = "idle"
        /\ pc' = [pc EXCEPT ![p] = "lock"]
    BY <1>2 DEF QueueCall
  <2>3. \A m \in Message : m.from \in Producers /\ m.number \in Nat /\ sent[m.from] \in Nat
    BY DEF Message, TypeInv, TypeOK
  <2>4. ASSUME NEW m \in Everywhere
        PROVE  /\ m \in Message
               /\ m.number <= sent'[m.from]
               /\ pc'[m.from] # "idle" => m.number < sent'[m.from]
    <3>1. m \in Message /\ m.from \in Producers /\ m.number \in Nat /\ sent[m.from] \in Nat
      BY <2>3, <2>4 DEF FreshInv
    <3>2. m.number <= sent[m.from] /\ (pc[m.from] # "idle" => m.number < sent[m.from])
      BY <2>4 DEF FreshInv
    <3>3. CASE m.from = p
      BY <3>1, <3>2, <3>3, <2>2 DEF TypeInv, TypeOK
    <3>4. CASE m.from # p
      BY <3>1, <3>2, <3>4, <2>2 DEF TypeInv, TypeOK
    <3>5. QED
      BY <3>3, <3>4
  <2>5. QED
    BY <2>1, <2>4 DEF FreshInv
<1>3. ASSUME UNCHANGED sent,
             Everywhere' = Everywhere,
             \A p \in Producers : pc'[p] = "idle" \/ pc[p] # "idle"
      PROVE  FreshInv'
  BY <1>3 DEF FreshInv, Message
<1>4. ASSUME NEW p \in Producers, QueueLock(p) \/ QueueRefuse(p) \/ QueueOpen(p)
      PROVE  FreshInv'
  <2>1. Everywhere' = Everywhere
    BY <1>4, OtherEffect DEF Everywhere, places
  <2>2. UNCHANGED sent
    BY <1>4 DEF QueueLock, QueueRefuse, QueueOpen, producerVars
  <2>3. \A g \in Producers : pc'[g] = "idle" \/ pc[g] # "idle"
    BY <1>4 DEF QueueLock, QueueRefuse, QueueOpen, TypeInv, TypeOK
  <2>4. QED
    BY <1>3, <2>1, <2>2, <2>3
<1>5. ASSUME RunStep \/ UNCHANGED vars
      PROVE  FreshInv'
  <2>1. UNCHANGED sent
    BY <1>5 DEF RunStep, DrainLock, CloseLock, drainLocked, TakeOne, TakeDone, ModelCall,
       ToolTurn, AnswerContinues, AnswerEnds, CapEnds, RunFails, producerVars, vars
  <2>2. \A g \in Producers : pc'[g] = pc[g]
    BY <1>5, ProcessesDiffer DEF RunStep, DrainLock, CloseLock, drainLocked, TakeOne,
       TakeDone, ModelCall, ToolTurn, AnswerContinues, AnswerEnds, CapEnds, RunFails, vars,
       TypeInv, TypeOK
  <2>3. Everywhere' = Everywhere
    <3>1. CASE DrainLock \/ ModelCall \/ UNCHANGED vars
      BY <3>1, OtherEffect DEF Everywhere, places
    <3>2. CASE CloseLock
      BY <3>2, CloseLockEffect DEF Everywhere
    <3>3. CASE TakeOne
      BY <3>3, TakeOneEffect DEF Everywhere, places
    <3>4. CASE TakeDone
      BY <3>4, TakeDoneEffect DEF Everywhere
    <3>5. QED
      BY <1>5, <3>1, <3>2, <3>3, <3>4 DEF RunStep, drainLocked
  <2>4. QED
    BY <1>3, <2>1, <2>2, <2>3
<1>6. QED
  BY <1>1, <1>2, <1>4, <1>5 DEF Next, Queue, Finished

\* The initial states of the queue are those of the mailbox.
LEMMA InitMailbox == Init => Abstract!Init
  BY ElementsEmpty DEF Init, Abstract!Init, Waiting, Delivered

\* Every step of the queue is a step of the mailbox or a stutter.
LEMMA NextMailbox ==
  TypeInv /\ LockInv /\ FreshInv /\ [Next]_vars => [Abstract!Next]_(Abstract!vars)
<1> SUFFICES ASSUME TypeInv, LockInv, FreshInv, [Next]_vars
             PROVE  [Abstract!Next]_(Abstract!vars)
  OBVIOUS
<1>1. ASSUME NEW p \in Producers, QueueEnqueue(p)
      PROVE  \E m \in Message : Abstract!Accept(m)
  <2>1. /\ msg[p] \in Message
        /\ Waiting' = Waiting \cup {msg[p]}
        /\ UNCHANGED <<Delivered, Elements(leftover), closed>>
    BY <1>1, EnqueueEffect
  <2>2. ~closed
    BY <1>1 DEF QueueEnqueue, LockInv, CloseInv
  <2>3. msg[p].from = p /\ msg[p].number = sent[p] /\ sent[p] \in Nat /\ pc[p] # "idle"
    BY <1>1 DEF QueueEnqueue, TypeInv, TypeOK
  <2>4. msg[p] \notin Everywhere
    BY <2>3 DEF FreshInv
  <2>5. Abstract!Accept(msg[p])
    BY <2>1, <2>2, <2>4 DEF Abstract!Accept, Abstract!Everywhere, Everywhere
  <2>6. QED
    BY <2>1, <2>5
<1>2. ASSUME CloseLock PROVE Abstract!Shut
  BY <1>2, CloseLockEffect DEF Abstract!Shut
<1>3. ASSUME TakeDone PROVE Abstract!Deliver \/ Abstract!HandBack
  BY <1>3, TakeDoneEffect DEF Abstract!Deliver, Abstract!HandBack
<1>4. ASSUME UNCHANGED places PROVE UNCHANGED Abstract!vars
  BY <1>4 DEF places, Abstract!vars
<1>5. ASSUME \/ \E p \in Producers :
                  QueueCall(p) \/ QueueLock(p) \/ QueueRefuse(p) \/ QueueOpen(p)
             \/ DrainLock \/ ModelCall \/ UNCHANGED vars \/ TakeOne
      PROVE  UNCHANGED places
  BY <1>5, OtherEffect, TakeOneEffect
<1>6. QED
  BY <1>1, <1>2, <1>3, <1>4, <1>5
  DEF Next, Queue, RunStep, drainLocked, Finished, Abstract!Next

\* The queue with its mutex, its flag and its two slices implements Mailbox:
\* a message Queue returned true for is waiting, delivered or handed back,
\* in one of these places and never back in an earlier one, and after Close
\* nothing more is taken.
THEOREM MailboxImplemented == Spec => ImplementsMailbox
<1>1. Spec => [](TypeInv /\ LockInv /\ FreshInv)
  BY TypeInvariant, LockInvariant, InitFresh, NextFresh, PTL DEF Spec
<1>2. QED
  BY <1>1, InitMailbox, NextMailbox, PTL DEF Spec, ImplementsMailbox, Abstract!Safety

-------------------------------------------------------------------------------
(* The order of arrival survives the queue, its slices and its batches.     *)

\* What was accepted earlier stays so when one more message is accepted.
LEMMA OrderGrows ==
  ASSUME NEW acc \in Seq(Message), NEW m \in Message, NEW s, NEW t
  PROVE  /\ Ahead(acc, s, t) => Ahead(Append(acc, m), s, t)
         /\ InOrder(acc, s) => InOrder(Append(acc, m), s)
<1> DEFINE more == Append(acc, m)
<1>1. \A i \in DOMAIN acc : i \in DOMAIN more /\ more[i] = acc[i]
  OBVIOUS
<1>2. ASSUME NEW a, NEW b, Precedes(acc, a, b) PROVE Precedes(more, a, b)
  BY <1>1, <1>2 DEF Precedes
<1> HIDE DEF more
<1>3. QED
  BY <1>2 DEF Ahead, InOrder, more

\* The message accepted last is behind every other.
LEMMA NewestIsLast ==
  ASSUME NEW acc \in Seq(Message), NEW m \in Message, NEW s, Elements(s) \subseteq Elements(acc)
  PROVE  Ahead(Append(acc, m), s, <<m>>)
<1> DEFINE more == Append(acc, m)
<1>1. /\ \A i \in DOMAIN acc : i \in DOMAIN more /\ more[i] = acc[i] /\ i < Len(acc) + 1
      /\ Len(acc) + 1 \in DOMAIN more /\ more[Len(acc) + 1] = m
  OBVIOUS
<1>2. ASSUME NEW a \in Elements(acc) PROVE Precedes(more, a, m)
  BY <1>1 DEF Precedes, Elements
<1>3. \A i \in DOMAIN s : s[i] \in Elements(acc)
  BY DEF Elements
<1>4. \A j \in DOMAIN <<m>> : <<m>>[j] = m
  OBVIOUS
<1> HIDE DEF more
<1>5. QED
  BY <1>2, <1>3, <1>4 DEF Ahead, more

\* One more message at the end of a place.
LEMMA OrderAppend ==
  ASSUME NEW acc, NEW s \in Seq(Message), NEW t \in Seq(Message), NEW m \in Message
  PROVE  /\ InOrder(acc, s) /\ Ahead(acc, s, <<m>>) => InOrder(acc, Append(s, m))
         /\ Ahead(acc, t, s) /\ Ahead(acc, t, <<m>>) => Ahead(acc, t, Append(s, m))
         /\ Ahead(acc, s, t) /\ Ahead(acc, <<m>>, t) => Ahead(acc, Append(s, m), t)
<1>1. /\ DOMAIN Append(s, m) = DOMAIN s \cup {Len(s) + 1}
      /\ \A i \in DOMAIN s : Append(s, m)[i] = s[i] /\ i < Len(s) + 1
      /\ Append(s, m)[Len(s) + 1] = m
  OBVIOUS
<1>2. \A i, j \in DOMAIN Append(s, m) : i < j => i \in DOMAIN s
  OBVIOUS
<1>3. 1 \in DOMAIN <<m>> /\ <<m>>[1] = m
  OBVIOUS
<1>4. InOrder(acc, s) /\ Ahead(acc, s, <<m>>) => InOrder(acc, Append(s, m))
  BY <1>1, <1>2, <1>3 DEF InOrder, Ahead
<1>5. Ahead(acc, t, s) /\ Ahead(acc, t, <<m>>) => Ahead(acc, t, Append(s, m))
  BY <1>1, <1>3 DEF Ahead
<1>6. Ahead(acc, s, t) /\ Ahead(acc, <<m>>, t) => Ahead(acc, Append(s, m), t)
  BY <1>1, <1>3 DEF Ahead
<1>7. QED
  BY <1>4, <1>5, <1>6

\* The first message of a place, and the place without it.
LEMMA OrderHeadTail ==
  ASSUME NEW acc, NEW s \in Seq(Message), s # <<>>, NEW t
  PROVE  /\ InOrder(acc, s) => InOrder(acc, Tail(s)) /\ Ahead(acc, <<Head(s)>>, Tail(s))
         /\ Ahead(acc, t, s) => Ahead(acc, t, Tail(s)) /\ Ahead(acc, t, <<Head(s)>>)
<1>1. \A i \in DOMAIN Tail(s) : i + 1 \in DOMAIN s /\ Tail(s)[i] = s[i + 1] /\ 1 < i + 1
  OBVIOUS
<1>2. \A i, j \in DOMAIN Tail(s) : i < j => i + 1 < j + 1
  OBVIOUS
<1>3. 1 \in DOMAIN s /\ \A i \in DOMAIN <<Head(s)>> : <<Head(s)>>[i] = s[1]
  OBVIOUS
<1>4. InOrder(acc, s) => InOrder(acc, Tail(s))
  BY <1>1, <1>2 DEF InOrder
<1>5. InOrder(acc, s) => Ahead(acc, <<Head(s)>>, Tail(s))
  BY <1>1, <1>3 DEF InOrder, Ahead
<1>6. Ahead(acc, t, s) => Ahead(acc, t, Tail(s)) /\ Ahead(acc, t, <<Head(s)>>)
  BY <1>1, <1>3 DEF Ahead
<1>7. QED
  BY <1>4, <1>5, <1>6

\* The two slices joined.
OnlyKind(s, k) == \A i \in DOMAIN s : s[i].kind = k

LEMMA OrderJoin ==
  ASSUME NEW acc, NEW s \in Seq(Message), NEW u \in Seq(Message),
         OnlyKind(s, "system"), OnlyKind(u, "user")
  PROVE  /\ InOrder(acc, s) /\ InOrder(acc, u) => InOrder(acc, s \o u)
         /\ \A t : Ahead(acc, t, s) /\ Ahead(acc, t, u) => Ahead(acc, t, s \o u)
         /\ SystemFirst(s \o u)
<1> DEFINE w == s \o u
<1>1. /\ \A i \in DOMAIN w :
           \/ i \in DOMAIN s /\ w[i] = s[i]
           \/ i - Len(s) \in DOMAIN u /\ w[i] = u[i - Len(s)] /\ i \notin DOMAIN s
      /\ \A i \in DOMAIN s, j \in DOMAIN w : j \notin DOMAIN s => i < j
      /\ \A i, j \in DOMAIN w : i < j => i - Len(s) < j - Len(s)
  OBVIOUS
<1> HIDE DEF w
<1>2. \A i \in DOMAIN w : i \in DOMAIN s <=> w[i].kind = "system"
  BY <1>1 DEF OnlyKind
<1>3. InOrder(acc, s) /\ InOrder(acc, u) => InOrder(acc, w)
  BY <1>1, <1>2 DEF InOrder
<1>4. ASSUME NEW t, Ahead(acc, t, s), Ahead(acc, t, u) PROVE Ahead(acc, t, w)
  BY <1>1, <1>4 DEF Ahead
<1>5. SystemFirst(w)
  BY <1>1, <1>2 DEF SystemFirst, OnlyKind
<1>6. QED
  BY <1>3, <1>4, <1>5 DEF w

\* ArrivalOrderKept place by place, and what a slice holds.
Settled == {leftover, system, user, items}

OrderInv ==
  /\ Elements(accepted) = Everywhere
  /\ \A x \in DOMAIN batches :
       /\ InOrder(accepted, batches[x])
       /\ SystemFirst(batches[x])
       /\ \A y \in DOMAIN batches : x < y => Ahead(accepted, batches[x], batches[y])
       /\ \A s \in Settled : Ahead(accepted, batches[x], s)
  /\ \A s \in Settled : InOrder(accepted, s)
  /\ Ahead(accepted, system, items) /\ Ahead(accepted, user, items)
  /\ OnlyKind(system, "system") /\ OnlyKind(user, "user")
  /\ SystemFirst(leftover)

\* While the run looks for more it has handed nothing back, and the slices
\* differ in kind: the invariant is what the property says of the whole road.
LEMMA OrderIsKept ==
  ASSUME TypeInv, LockInv, OrderInv
  PROVE  \A x \in DOMAIN Road :
           /\ InOrder(accepted, Road[x])
           /\ \A y \in DOMAIN Road : x < y => Ahead(accepted, Road[x], Road[y])
<1> DEFINE n == Len(batches)
<1>1. batches \in Seq(Seq(Message)) /\ n \in Nat
  BY DEF TypeInv, TypeOK
<1>2. /\ DOMAIN Road = 1 .. n + 4
      /\ \A x \in 1 .. n : x \in DOMAIN batches /\ Road[x] = batches[x]
      /\ Road[n + 1] = leftover /\ Road[n + 2] = system /\ Road[n + 3] = user /\ Road[n + 4] = items
  BY <1>1 DEF Road
<1>3. leftover = <<>> \/ (system = <<>> /\ user = <<>> /\ items = <<>>)
  BY DEF LockInv, CloseInv
<1>4. Ahead(accepted, leftover, system) /\ Ahead(accepted, leftover, user) /\ Ahead(accepted, leftover, items)
  BY <1>3 DEF Ahead
<1>5. Ahead(accepted, system, user)
  BY DEF Ahead, OrderInv, OnlyKind
<1>6. /\ \A s \in Settled : InOrder(accepted, s)
      /\ \A x \in 1 .. n, s \in Settled : Ahead(accepted, batches[x], s)
      /\ \A x \in 1 .. n : InOrder(accepted, batches[x])
      /\ \A x, y \in 1 .. n : x < y => Ahead(accepted, batches[x], batches[y])
      /\ Ahead(accepted, system, items) /\ Ahead(accepted, user, items)
  BY <1>2 DEF OrderInv
<1>7. \A x \in 1 .. n + 4 : x \in 1 .. n \/ x = n + 1 \/ x = n + 2 \/ x = n + 3 \/ x = n + 4
  BY <1>1
<1>8. {Road[n + 1], Road[n + 2], Road[n + 3], Road[n + 4]} = Settled
  BY <1>2 DEF Settled
<1>9. ASSUME NEW x \in DOMAIN Road PROVE InOrder(accepted, Road[x])
  BY <1>2, <1>6, <1>7, <1>8
<1>10. ASSUME NEW x \in DOMAIN Road, NEW y \in DOMAIN Road, x < y
       PROVE  Ahead(accepted, Road[x], Road[y])
  <2>1. CASE y \in 1 .. n
    <3>1. x \in 1 .. n /\ Road[x] = batches[x] /\ Road[y] = batches[y]
      BY <1>1, <1>2, <1>10, <2>1
    <3>2. QED
      BY <3>1, <1>6, <1>10, <2>1
  <2>2. CASE x \in 1 .. n /\ y \notin 1 .. n
    BY <1>2, <1>6, <1>7, <1>8, <1>10, <2>2
  <2>3. CASE x \notin 1 .. n
    <3>1. \/ x = n + 1 /\ y \in {n + 2, n + 3, n + 4}
          \/ x = n + 2 /\ y \in {n + 3, n + 4}
          \/ x = n + 3 /\ y = n + 4
      BY <1>1, <1>2, <1>7, <1>10, <2>3
    <3>2. QED
      BY <3>1, <1>2, <1>4, <1>5, <1>6
  <2>4. QED
    BY <2>1, <2>2, <2>3
<1>11. QED
  BY <1>9, <1>10

\* Nothing is anywhere in a new queue.
LEMMA InitOrder == Init => OrderInv
<1> SUFFICES ASSUME Init PROVE OrderInv
  OBVIOUS
<1>1. Elements(accepted) = Everywhere
  BY ElementsEmpty DEF Init, Everywhere, Waiting, Delivered
<1>2. QED
  BY <1>1 DEF Init, OrderInv, Settled, InOrder, Ahead, OnlyKind, SystemFirst

\* A step that accepts and moves nothing.
LEMMA RestOrder ==
  ASSUME OrderInv, UNCHANGED <<items, system, user, batches, leftover, accepted>>
  PROVE  OrderInv'
<1>1. Settled' = Settled /\ Everywhere' = Everywhere /\ Elements(accepted)' = Elements(accepted)
  BY DEF Settled, Everywhere, Waiting, Delivered, Elements
<1>2. QED
  BY <1>1 DEF OrderInv

\* An enqueue: the message is behind all that were accepted before it.
LEMMA EnqueueOrder ==
  ASSUME TypeInv, OrderInv, NEW p \in Producers, QueueEnqueue(p)
  PROVE  OrderInv'
<1> DEFINE m == msg[p]
           more == Append(accepted, m)
<1>1. /\ m \in Message /\ accepted \in Seq(Message) /\ items \in Seq(Message)
      /\ accepted' = more /\ items' = Append(items, m)
      /\ UNCHANGED <<system, user, batches, leftover>>
  BY DEF QueueEnqueue, runVars, TypeInv, TypeOK
<1>2. Everywhere' = Everywhere \cup {m} /\ Elements(more) = Elements(accepted) \cup {m}
  BY <1>1, EnqueueEffect, ElementsAppend DEF Everywhere
<1>3. /\ \A s \in Settled : Elements(s) \subseteq Elements(accepted)
      /\ \A x \in DOMAIN batches : Elements(batches[x]) \subseteq Elements(accepted)
  BY DEF OrderInv, Everywhere, Waiting, Delivered, Settled, Elements
<1>4. /\ \A s, t : Ahead(accepted, s, t) => Ahead(more, s, t)
      /\ \A s : InOrder(accepted, s) => InOrder(more, s)
      /\ \A s : Elements(s) \subseteq Elements(accepted) => Ahead(more, s, <<m>>)
  BY <1>1, OrderGrows, NewestIsLast
<1>5. /\ \A s \in Settled : InOrder(more, s) /\ Ahead(more, s, <<m>>)
      /\ \A x \in DOMAIN batches :
           /\ InOrder(more, batches[x]) /\ Ahead(more, batches[x], <<m>>)
           /\ \A y \in DOMAIN batches : x < y => Ahead(more, batches[x], batches[y])
           /\ \A s \in Settled : Ahead(more, batches[x], s)
      /\ Ahead(more, system, items) /\ Ahead(more, user, items)
  BY <1>3, <1>4 DEF OrderInv
<1>6. /\ items \in Settled /\ system \in Settled /\ user \in Settled
      /\ system \in Seq(Message) /\ user \in Seq(Message)
      /\ \A x \in DOMAIN batches : batches[x] \in Seq(Message)
  BY DEF Settled, TypeInv, TypeOK
<1> HIDE DEF m, more
<1>7. InOrder(more, Append(items, m))
  BY <1>1, <1>5, <1>6, OrderAppend
<1>8. /\ Ahead(more, system, Append(items, m)) /\ Ahead(more, user, Append(items, m))
      /\ \A x \in DOMAIN batches : Ahead(more, batches[x], Append(items, m))
  BY <1>1, <1>5, <1>6, OrderAppend
<1>9. Settled' \subseteq Settled \cup {Append(items, m)}
  BY <1>1 DEF Settled
<1>10. OnlyKind(system, "system")' /\ OnlyKind(user, "user")' /\ SystemFirst(leftover)'
  BY <1>1 DEF OrderInv, OnlyKind, SystemFirst
<1>11. Elements(accepted)' = Everywhere'
  BY <1>1, <1>2 DEF OrderInv, Elements
<1>12. \A x \in DOMAIN batches : SystemFirst(batches[x])
  BY DEF OrderInv
<1>13. /\ \A s \in Settled' : InOrder(more, s)
       /\ \A x \in DOMAIN batches : \A s \in Settled' : Ahead(more, batches[x], s)
  BY <1>5, <1>7, <1>8, <1>9
<1>14. \A x \in DOMAIN batches' :
         /\ InOrder(accepted', batches'[x]) /\ SystemFirst(batches'[x])
         /\ \A y \in DOMAIN batches' : x < y => Ahead(accepted', batches'[x], batches'[y])
         /\ \A s \in Settled' : Ahead(accepted', batches'[x], s)
  BY <1>1, <1>5, <1>12, <1>13
<1>15. \A s \in Settled' : InOrder(accepted', s)
  BY <1>1, <1>13
<1>16. Ahead(accepted', system', items') /\ Ahead(accepted', user', items')
  BY <1>1, <1>8
<1>17. QED
  BY <1>10, <1>11, <1>14, <1>15, <1>16 DEF OrderInv

\* A dequeue: the message was ahead of the queue and behind its slice.
LEMMA TakeOneOrder ==
  ASSUME TypeInv, LockInv, OrderInv, TakeOne
  PROVE  OrderInv'
<1> DEFINE m == Head(items)
<1>1. /\ items \in Seq(Message) /\ items # <<>> /\ m \in Message /\ items' = Tail(items)
      /\ system \in Seq(Message) /\ user \in Seq(Message) /\ leftover = <<>>
      /\ items' \in Seq(Message)
      /\ UNCHANGED <<batches, leftover, accepted>>
  BY DEF TakeOne, producerVars, TypeInv, TypeOK, LockInv, CloseInv
<1>2. Elements(accepted)' = Everywhere'
  BY <1>1, TakeOneEffect DEF OrderInv, Everywhere, places, Elements
<1>3. \A x \in DOMAIN batches : batches[x] \in Seq(Message)
  BY DEF TypeInv, TypeOK
<1> HIDE DEF m
<1>4. /\ InOrder(accepted, items') /\ Ahead(accepted, <<m>>, items')
      /\ \A x \in DOMAIN batches :
           Ahead(accepted, batches[x], items') /\ Ahead(accepted, batches[x], <<m>>)
      /\ \A s \in {system, user} : Ahead(accepted, s, items') /\ Ahead(accepted, s, <<m>>)
  BY <1>1, OrderHeadTail DEF OrderInv, Settled, m
<1>5. ASSUME NEW s \in {system, user}
      PROVE  /\ InOrder(accepted, Append(s, m))
             /\ Ahead(accepted, Append(s, m), items')
             /\ \A x \in DOMAIN batches : Ahead(accepted, batches[x], Append(s, m))
  <2>1. s \in Seq(Message) /\ InOrder(accepted, s)
    BY <1>1 DEF OrderInv, Settled
  <2>2. \A x \in DOMAIN batches : Ahead(accepted, batches[x], s)
    BY DEF OrderInv, Settled
  <2>3. QED
    BY <1>1, <1>3, <1>4, <2>1, <2>2, OrderAppend
<1>6. \/ system' = Append(system, m) /\ user' = user /\ m.kind = "system"
      \/ user' = Append(user, m) /\ system' = system /\ m.kind = "user"
  <2>1. m.kind \in Kinds
    BY <1>1 DEF Message
  <2>2. QED
    BY <2>1 DEF TakeOne, Kinds, m
<1>7. OnlyKind(system', "system") /\ OnlyKind(user', "user")
  <2>1. ASSUME NEW s \in {system, user}, NEW k, OnlyKind(s, k), m.kind = k
        PROVE  OnlyKind(Append(s, m), k)
    <3>1. \A i \in DOMAIN Append(s, m) : (i \in DOMAIN s /\ Append(s, m)[i] = s[i]) \/ Append(s, m)[i] = m
      BY <1>1
    <3>2. QED
      BY <2>1, <3>1 DEF OnlyKind
  <2>2. QED
    BY <1>6, <2>1 DEF OrderInv
<1>8. /\ Settled' \subseteq {leftover, items', system, user, system', user'}
      /\ \A s \in Settled' : s = leftover \/ s = items' \/ s = system' \/ s = user'
  BY <1>1 DEF Settled
<1>9. /\ \A s \in {leftover, system, user} : InOrder(accepted, s)
      /\ \A x \in DOMAIN batches, s \in {leftover, system, user} : Ahead(accepted, batches[x], s)
  BY DEF OrderInv, Settled
<1>10. /\ \A s \in Settled' : InOrder(accepted, s)
       /\ \A x \in DOMAIN batches, s \in Settled' : Ahead(accepted, batches[x], s)
  BY <1>4, <1>5, <1>6, <1>8, <1>9
<1>11. Ahead(accepted, system', items') /\ Ahead(accepted, user', items')
  BY <1>4, <1>5, <1>6
<1>12. /\ SystemFirst(leftover)
       /\ \A x \in DOMAIN batches :
            /\ InOrder(accepted, batches[x]) /\ SystemFirst(batches[x])
            /\ \A y \in DOMAIN batches : x < y => Ahead(accepted, batches[x], batches[y])
  BY DEF OrderInv
<1>13. QED
  BY <1>1, <1>2, <1>7, <1>10, <1>11, <1>12 DEF OrderInv

\* The end of a drain: the slices, joined, become the last batch or what is
\* handed back, and nothing is left behind them.
LEMMA TakeDoneOrder ==
  ASSUME TypeInv, LockInv, OrderInv, TakeDone
  PROVE  OrderInv'
<1> DEFINE w == system \o user
<1>1. /\ system \in Seq(Message) /\ user \in Seq(Message) /\ leftover = <<>> /\ w \in Seq(Message)
      /\ batches \in Seq(Seq(Message)) /\ accepted' = accepted
      /\ items' = <<>> /\ system' = <<>> /\ user' = <<>>
  BY DEF TakeDone, producerVars, TypeInv, TypeOK, LockInv, CloseInv
<1>2. Elements(accepted)' = Everywhere'
  <2>1. Everywhere' = Everywhere
    BY TakeDoneEffect DEF Everywhere
  <2>2. QED
    BY <1>1, <2>1 DEF OrderInv, Elements
<1>3. /\ InOrder(accepted, w) /\ SystemFirst(w)
      /\ \A x \in DOMAIN batches : Ahead(accepted, batches[x], w)
  BY <1>1, OrderJoin DEF OrderInv, Settled
<1> HIDE DEF w
<1>4. /\ InOrder(accepted, <<>>) /\ SystemFirst(<<>>)
      /\ \A s : Ahead(accepted, s, <<>>) /\ Ahead(accepted, <<>>, s)
      /\ \A k : OnlyKind(<<>>, k)
  BY DEF InOrder, SystemFirst, Ahead, OnlyKind
<1>5. \A x \in DOMAIN batches :
        /\ InOrder(accepted, batches[x]) /\ SystemFirst(batches[x])
        /\ \A y \in DOMAIN batches : x < y => Ahead(accepted, batches[x], batches[y])
  BY DEF OrderInv
<1>6. CASE batches' = Append(batches, w) /\ leftover' = leftover
  <2>1. /\ \A x \in DOMAIN batches' :
             (x \in DOMAIN batches /\ batches'[x] = batches[x]) \/ (x = Len(batches) + 1 /\ batches'[x] = w)
        /\ \A x \in DOMAIN batches : x < Len(batches) + 1
        /\ \A x, y \in DOMAIN batches' : x < y => x \in DOMAIN batches
    BY <1>1, <1>6
  <2>2. \A x \in DOMAIN batches' :
          /\ InOrder(accepted, batches'[x]) /\ SystemFirst(batches'[x])
          /\ \A y \in DOMAIN batches' : x < y => Ahead(accepted, batches'[x], batches'[y])
    BY <1>3, <1>5, <2>1
  <2>3. Settled' = {<<>>}
    BY <1>1, <1>6 DEF Settled
  <2>4. QED
    BY <1>1, <1>2, <1>4, <1>6, <2>2, <2>3 DEF OrderInv
<1>7. CASE leftover' = w /\ batches' = batches
  <2>1. Settled' = {<<>>, w}
    BY <1>1, <1>7 DEF Settled
  <2>2. QED
    BY <1>1, <1>2, <1>3, <1>4, <1>5, <1>7, <2>1 DEF OrderInv
<1>8. QED
  BY <1>6, <1>7 DEF TakeDone, w

\* Every step keeps the order of arrival.
LEMMA NextOrder == TypeInv /\ LockInv /\ OrderInv /\ [Next]_vars => OrderInv'
<1> SUFFICES ASSUME TypeInv, LockInv, OrderInv, [Next]_vars PROVE OrderInv'
  OBVIOUS
<1>1. ASSUME \/ \E p \in Producers :
                  QueueCall(p) \/ QueueLock(p) \/ QueueRefuse(p) \/ QueueOpen(p)
             \/ DrainLock \/ CloseLock \/ ModelCall \/ UNCHANGED vars
      PROVE  UNCHANGED <<items, system, user, batches, leftover, accepted>>
  BY <1>1 DEF QueueCall, QueueLock, QueueRefuse, QueueOpen, DrainLock, CloseLock, ModelCall,
     ToolTurn, AnswerContinues, AnswerEnds, CapEnds, RunFails, runVars, producerVars, vars
<1>2. QED
  BY <1>1, RestOrder, EnqueueOrder, TakeOneOrder, TakeDoneOrder
  DEF Next, Queue, RunStep, drainLocked, Finished

\* Once the run has ended on an answer, whatever has not been delivered was
\* accepted after answer() looked: the queue and the slices were empty then.
Late == {accepted[i] : i \in answeredAt + 1 .. Len(accepted)}

LateInv ==
  /\ answeredAt <= Len(accepted)
  /\ ended = "answered" => Waiting \cup Elements(leftover) \subseteq Late

LEMMA InitLate == Init => LateInv
  BY DEF Init, LateInv

LEMMA NextLate == TypeInv /\ LockInv /\ LateInv /\ [Next]_vars => LateInv'
<1> SUFFICES ASSUME TypeInv, LockInv, LateInv, [Next]_vars PROVE LateInv'
  OBVIOUS
<1> USE DEF LateInv
<1>1. ASSUME NEW p \in Producers, QueueEnqueue(p) PROVE LateInv'
  <2>1. /\ accepted \in Seq(Message) /\ msg[p] \in Message /\ answeredAt \in Nat
        /\ accepted' = Append(accepted, msg[p]) /\ UNCHANGED <<answeredAt, ended>>
    BY <1>1 DEF QueueEnqueue, runVars, TypeInv, TypeOK
  <2>2. Waiting' = Waiting \cup {msg[p]} /\ Elements(leftover)' = Elements(leftover)
    BY <1>1, EnqueueEffect
  <2>3. /\ Len(accepted') = Len(accepted) + 1 /\ accepted'[Len(accepted) + 1] = msg[p]
        /\ \A i \in 1 .. Len(accepted) : accepted'[i] = accepted[i]
    BY <2>1
  <2>4. Late \cup {msg[p]} \subseteq Late'
    BY <2>1, <2>3 DEF Late
  <2>5. QED
    BY <2>1, <2>2, <2>3, <2>4
<1>2. CASE AnswerEnds
  <2>1. items = <<>> /\ system = <<>> /\ user = <<>> /\ leftover = <<>>
    BY <1>2 DEF AnswerEnds, LockInv, CloseInv
  <2>2. UNCHANGED <<items, system, user, leftover>> /\ answeredAt' = Len(accepted) /\ accepted' = accepted
    BY <1>2 DEF AnswerEnds, producerVars
  <2>3. Len(accepted) \in Nat
    BY DEF TypeInv, TypeOK
  <2>4. QED
    BY <2>1, <2>2, <2>3, ElementsEmpty DEF Waiting
<1>3. ASSUME Waiting' \cup Elements(leftover)' \subseteq Waiting \cup Elements(leftover),
             UNCHANGED <<accepted, answeredAt>>, ended' = "answered" => ended = "answered"
      PROVE  LateInv'
  BY <1>3 DEF Late
<1>4. CASE TakeDone
  <2>1. UNCHANGED <<accepted, answeredAt, ended>>
    BY <1>4 DEF TakeDone, producerVars
  <2>2. Waiting' \cup Elements(leftover)' \subseteq Waiting \cup Elements(leftover)
    BY <1>4, TakeDoneEffect
  <2>3. QED
    BY <1>3, <2>1, <2>2
<1>5. CASE \/ \E p \in Producers :
                QueueCall(p) \/ QueueLock(p) \/ QueueRefuse(p) \/ QueueOpen(p)
           \/ DrainLock \/ CloseLock \/ ToolTurn \/ AnswerContinues \/ CapEnds \/ RunFails
           \/ UNCHANGED vars \/ TakeOne
  <2>1. Waiting' = Waiting /\ Elements(leftover)' = Elements(leftover)
    BY <1>5, OtherEffect, CloseLockEffect, TakeOneEffect DEF places, ModelCall
  <2>2. UNCHANGED <<accepted, answeredAt>> /\ (ended' = "answered" => ended = "answered")
    BY <1>5 DEF QueueCall, QueueLock, QueueRefuse, QueueOpen, DrainLock, CloseLock, ToolTurn,
       AnswerContinues, CapEnds, RunFails, TakeOne, runVars, producerVars, vars
  <2>3. QED
    BY <1>3, <2>1, <2>2
<1>6. QED
  BY <1>1, <1>2, <1>4, <1>5 DEF Next, Queue, RunStep, drainLocked, ModelCall, Finished

\* No message is lost, doubled or overtaken by one of its kind, whatever the
\* producers' calls interleave with: what was accepted is, kind by kind and in
\* the order it was accepted, what was delivered, handed back, or still waits;
\* and a run that answered leaves over only what came after its last look.
THEOREM ArrivalOrder == Spec => []ArrivalOrderKept
<1>1. TypeInv /\ LockInv /\ OrderInv /\ LateInv => ArrivalOrderKept
  <2> SUFFICES ASSUME TypeInv, LockInv, OrderInv, LateInv PROVE ArrivalOrderKept
    OBVIOUS
  <2>1. Elements(accepted) = Waiting \cup Delivered \cup Elements(leftover)
    BY DEF OrderInv, Everywhere
  <2>2. \A s \in Elements(batches) \cup {leftover} : SystemFirst(s)
    BY DEF OrderInv, Elements
  <2>3. ended = "answered" => Elements(leftover) \subseteq Late
    BY DEF LateInv
  <2>4. QED
    BY <2>1, <2>2, <2>3, OrderIsKept DEF ArrivalOrderKept, Late
<1>2. Spec => [](TypeInv /\ LockInv /\ OrderInv /\ LateInv)
  BY TypeInvariant, LockInvariant, InitOrder, NextOrder, InitLate, NextLate, PTL DEF Spec
<1>3. QED
  BY <1>1, <1>2, PTL
===============================================================================
