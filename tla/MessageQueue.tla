----------------------------- MODULE MessageQueue -----------------------------
(***************************************************************************)
(* internal/loop/message_queue.go: the queue that carries messages from    *)
(* any goroutine of the host into a running loop, and the run that reads   *)
(* it at each turn boundary, asks Pending() when the model has answered    *)
(* and closes the queue on every way out (runOn's deferred Close).         *)
(*                                                                         *)
(* One step is what one goroutine does between two points another can see: *)
(* taking the mutex, reading the closed flag, the enqueue, one TryDequeue. *)
(* Pending() takes no mutex, so it may look in the middle of any of these. *)
(***************************************************************************)
EXTENDS Naturals, Sequences

CONSTANTS
  Producers,     \* goroutines that call Queue
  Run,           \* the goroutine of runOn
  Free,          \* the mutex has no holder
  MaxMessages,   \* bound: Queue calls per producer
  MaxTurns       \* Config.MaxTurns, and the bound on the turns of the run

ASSUME ProcessesDiffer ==
  /\ Run \notin Producers
  /\ Free \notin Producers \cup {Run}
ASSUME BoundsAreCounts ==
  /\ MaxMessages \in Nat
  /\ MaxTurns \in Nat \ {0}

Kinds    == {"system", "user"}
Message  == [from : Producers, number : 1 .. MaxMessages, kind : Kinds]
Elements(s) == {s[i] : i \in DOMAIN s}

VARIABLES
  items,      \* MessageQueue.items
  closed,     \* MessageQueue.closed
  mu,         \* holder of MessageQueue.mu
  pc,         \* where each goroutine is
  msg,        \* the argument of each producer's Queue call
  sent,       \* Queue calls each producer has begun
  system,     \* drainLocked's two slices
  user,
  accepted,   \* history: messages Queue returned true for, in arrival order
  batches,    \* history: what each Drain returned
  leftover,   \* what Close returned, Result.Undelivered
  turn,       \* the run's turn, from 0
  ended,      \* why the run stopped
  answeredAt  \* history: messages accepted when answer() asked Pending last

vars == <<items, closed, mu, pc, msg, sent, system, user, accepted, batches,
          leftover, turn, ended, answeredAt>>

producerVars == <<msg, sent, accepted>>
runVars      == <<system, user, batches, leftover, turn, ended, answeredAt>>

Init ==
  /\ items = <<>>
  /\ closed = FALSE
  /\ mu = Free
  /\ pc = [g \in Producers \cup {Run} |-> IF g = Run THEN "boundary" ELSE "idle"]
  /\ msg = [p \in Producers |-> [from |-> p, number |-> 0, kind |-> "user"]]
  /\ sent = [p \in Producers |-> 0]
  /\ system = <<>>
  /\ user = <<>>
  /\ accepted = <<>>
  /\ batches = <<>>
  /\ leftover = <<>>
  /\ turn = 0
  /\ ended = "no"
  /\ answeredAt = 0

-------------------------------------------------------------------------------
(* A producer's Queue call.                                                 *)

\* The call begins with the next message of this producer.
QueueCall(p) ==
  /\ pc[p] = "idle"
  /\ sent[p] < MaxMessages
  /\ \E k \in Kinds :
       msg' = [msg EXCEPT ![p] = [from |-> p, number |-> sent[p] + 1, kind |-> k]]
  /\ sent' = [sent EXCEPT ![p] = @ + 1]
  /\ pc' = [pc EXCEPT ![p] = "lock"]
  /\ UNCHANGED <<items, closed, mu, accepted, runVars>>

\* Mutant of QueueLock: the flag is read and the message enqueued unlocked.
QueueLockNone(p) ==
  /\ pc[p] = "lock"
  /\ pc' = [pc EXCEPT ![p] = "check"]
  /\ UNCHANGED <<items, closed, mu, producerVars, runVars>>

\* q.mu.Lock()
QueueLock(p) ==
  /\ pc[p] = "lock"
  /\ mu = Free
  /\ mu' = p
  /\ pc' = [pc EXCEPT ![p] = "check"]
  /\ UNCHANGED <<items, closed, producerVars, runVars>>

\* The closed flag is set: the call returns false.
QueueRefuse(p) ==
  /\ pc[p] = "check"
  /\ closed
  /\ mu' = Free
  /\ pc' = [pc EXCEPT ![p] = "idle"]
  /\ UNCHANGED <<items, closed, producerVars, runVars>>

\* Mutant of QueueOpen: Queue does not look at the closed flag.
QueueOpenAlways(p) ==
  /\ pc[p] = "check"
  /\ pc' = [pc EXCEPT ![p] = "enqueue"]
  /\ UNCHANGED <<items, closed, mu, producerVars, runVars>>

\* The closed flag is clear: the call goes on to the enqueue.
QueueOpen(p) ==
  /\ pc[p] = "check"
  /\ ~closed
  /\ pc' = [pc EXCEPT ![p] = "enqueue"]
  /\ UNCHANGED <<items, closed, mu, producerVars, runVars>>

\* Enqueue, unlock, and the call returns true.
QueueEnqueue(p) ==
  /\ pc[p] = "enqueue"
  /\ items' = Append(items, msg[p])
  /\ accepted' = Append(accepted, msg[p])
  /\ mu' = Free
  /\ pc' = [pc EXCEPT ![p] = "idle"]
  /\ UNCHANGED <<closed, msg, sent, runVars>>

-------------------------------------------------------------------------------
(* The run: Drain at the boundary, Pending at the answer, Close at the end. *)

\* Drain takes the mutex; the queue is drained into empty slices.
DrainLock ==
  /\ pc[Run] = "boundary"
  /\ mu = Free
  /\ mu' = Run
  /\ pc' = [pc EXCEPT ![Run] = "take"]
  /\ UNCHANGED <<items, closed, producerVars, runVars>>

\* Close takes the mutex and sets the flag before it drains.
CloseLock ==
  /\ pc[Run] = "close"
  /\ mu = Free
  /\ mu' = Run
  /\ closed' = TRUE
  /\ pc' = [pc EXCEPT ![Run] = "take"]
  /\ UNCHANGED <<items, producerVars, runVars>>

\* Mutant of TakeOne: a slice is built newest first.
TakeOneReversed ==
  /\ pc[Run] = "take"
  /\ items # <<>>
  /\ items' = Tail(items)
  /\ \/ /\ Head(items).kind = "system"
        /\ system' = <<Head(items)>> \o system
        /\ UNCHANGED user
     \/ /\ Head(items).kind # "system"
        /\ user' = <<Head(items)>> \o user
        /\ UNCHANGED system
  /\ UNCHANGED <<closed, mu, pc, producerVars, batches, leftover, turn, ended, answeredAt>>

\* One TryDequeue of the take loop: system and user messages part here.
TakeOne ==
  /\ pc[Run] = "take"
  /\ items # <<>>
  /\ items' = Tail(items)
  /\ \/ /\ Head(items).kind = "system"
        /\ system' = Append(system, Head(items))
        /\ UNCHANGED user
     \/ /\ Head(items).kind # "system"
        /\ user' = Append(user, Head(items))
        /\ UNCHANGED system
  /\ UNCHANGED <<closed, mu, pc, producerVars, batches, leftover, turn, ended, answeredAt>>

\* The queue looks empty: the slices are joined and the mutex released.  A
\* Drain's batch is appended to the conversation, a Close's is handed back.
TakeDone ==
  /\ pc[Run] = "take"
  /\ items = <<>>
  /\ \/ /\ ended = "no"
        /\ batches' = Append(batches, system \o user)
        /\ pc' = [pc EXCEPT ![Run] = "call"]
        /\ UNCHANGED leftover
     \/ /\ ended # "no"
        /\ leftover' = system \o user
        /\ pc' = [pc EXCEPT ![Run] = "done"]
        /\ UNCHANGED batches
  /\ system' = <<>>
  /\ user' = <<>>
  /\ mu' = Free
  /\ UNCHANGED <<items, closed, producerVars, turn, ended, answeredAt>>

moreTurnsAllowed == turn < MaxTurns - 1

\* The model asked for tools and they ran: the loop continues.
ToolTurn ==
  /\ pc[Run] = "call"
  /\ moreTurnsAllowed
  /\ turn' = turn + 1
  /\ pc' = [pc EXCEPT ![Run] = "boundary"]
  /\ UNCHANGED <<items, closed, mu, producerVars, system, user, batches, leftover, ended, answeredAt>>

\* The model answered, and answer() finds a message pending: one more turn.
AnswerContinues ==
  /\ pc[Run] = "call"
  /\ moreTurnsAllowed
  /\ items # <<>>
  /\ turn' = turn + 1
  /\ pc' = [pc EXCEPT ![Run] = "boundary"]
  /\ UNCHANGED <<items, closed, mu, producerVars, system, user, batches, leftover, ended, answeredAt>>

\* The model answered and nothing was pending when answer() looked.
AnswerEnds ==
  /\ pc[Run] = "call"
  /\ moreTurnsAllowed
  /\ items = <<>>
  /\ ended' = "answered"
  /\ answeredAt' = Len(accepted)
  /\ pc' = [pc EXCEPT ![Run] = "close"]
  /\ UNCHANGED <<items, closed, mu, producerVars, system, user, batches, leftover, turn>>

\* The last permitted turn answers whatever is pending.
CapEnds ==
  /\ pc[Run] = "call"
  /\ ~moreTurnsAllowed
  /\ ended' = "capped"
  /\ pc' = [pc EXCEPT ![Run] = "close"]
  /\ UNCHANGED <<items, closed, mu, producerVars, system, user, batches, leftover, turn, answeredAt>>

\* Mutant of RunFails: the error path returns without the deferred Close.
RunFailsNoClose ==
  /\ pc[Run] = "call"
  /\ ended' = "failed"
  /\ pc' = [pc EXCEPT ![Run] = "done"]
  /\ UNCHANGED <<items, closed, mu, producerVars, system, user, batches, leftover, turn, answeredAt>>

\* A cancelled context, a failed call or an aborting callback.
RunFails ==
  /\ pc[Run] = "call"
  /\ ended' = "failed"
  /\ pc' = [pc EXCEPT ![Run] = "close"]
  /\ UNCHANGED <<items, closed, mu, producerVars, system, user, batches, leftover, turn, answeredAt>>

-------------------------------------------------------------------------------
Queue(p)     == QueueLock(p) \/ QueueRefuse(p) \/ QueueOpen(p) \/ QueueEnqueue(p)
drainLocked  == TakeOne \/ TakeDone
ModelCall    == ToolTurn \/ AnswerContinues \/ AnswerEnds \/ CapEnds \/ RunFails
RunStep      == DrainLock \/ CloseLock \/ drainLocked \/ ModelCall

\* Everyone has returned: the run is done and no producer has a call left.
Finished ==
  /\ pc[Run] = "done"
  /\ \A p \in Producers : pc[p] = "idle" /\ sent[p] = MaxMessages
  /\ UNCHANGED vars

Next ==
  \/ \E p \in Producers : QueueCall(p) \/ Queue(p)
  \/ RunStep
  \/ Finished

Spec == Init /\ [][Next]_vars

\* A goroutine that can run is run; Go's mutex hands itself to a waiter that
\* has starved for a millisecond, which is strong fairness of taking it.  A
\* producer need not begin a call.
Fairness ==
  /\ \A p \in Producers :
       /\ SF_vars(QueueLock(p))
       /\ WF_vars(QueueRefuse(p) \/ QueueOpen(p) \/ QueueEnqueue(p))
  /\ SF_vars(DrainLock)
  /\ SF_vars(CloseLock)
  /\ WF_vars(drainLocked)
  /\ WF_vars(ModelCall)

FairSpec == Spec /\ Fairness

-------------------------------------------------------------------------------
(* Properties                                                               *)

TypeOK ==
  /\ items \in Seq(Message)
  /\ closed \in BOOLEAN
  /\ mu \in Producers \cup {Run, Free}
  /\ pc \in [Producers \cup {Run} ->
              {"idle", "lock", "check", "enqueue",
               "boundary", "take", "call", "close", "done"}]
  /\ msg \in [Producers -> [from : Producers, number : 0 .. MaxMessages, kind : Kinds]]
  /\ sent \in [Producers -> 0 .. MaxMessages]
  /\ system \in Seq(Message)
  /\ user \in Seq(Message)
  /\ accepted \in Seq(Message)
  /\ batches \in Seq(Seq(Message))
  /\ leftover \in Seq(Message)
  /\ turn \in 0 .. MaxTurns - 1
  /\ ended \in {"no", "answered", "capped", "failed"}
  /\ answeredAt \in Nat

Delivered == UNION {Elements(s) : s \in Elements(batches)}
Waiting   == Elements(items) \cup Elements(system) \cup Elements(user)

\* Where a message can be, the place it reaches last first.
Road == batches \o <<leftover, system, user, items>>

\* Message m was accepted before message n, in the order acc; so was every
\* message of s before every message of its kind in t, or later in s itself.
Precedes(acc, m, n) == \E i, j \in DOMAIN acc : i < j /\ acc[i] = m /\ acc[j] = n
Ahead(acc, s, t) ==
  \A i \in DOMAIN s, j \in DOMAIN t : s[i].kind = t[j].kind => Precedes(acc, s[i], t[j])
InOrder(acc, s) ==
  \A i, j \in DOMAIN s : i < j /\ s[i].kind = s[j].kind => Precedes(acc, s[i], s[j])

\* In what one Drain or Close returns no user message precedes a system one.
SystemFirst(s) == \A i, j \in DOMAIN s : s[i].kind = "user" /\ s[j].kind = "system" => j < i

\* Close is final: once it has returned, no message sits in a queue that
\* nobody will read.  A Queue call that has checked the closed flag holds
\* the mutex until its enqueue, so it cannot land behind the last drain.
NothingStranded ==
  pc[Run] = "done" => Waiting = {}

\* Every message Queue returned true for is queued, in one of drainLocked's
\* slices, delivered in a batch, or handed back, and nothing else is.  Of two
\* messages of one kind the one accepted first is ahead on that road or in
\* the same place, so none is in two places; a system message overtakes the
\* user messages of its own batch only.  A run that ended on an answer had
\* delivered every message it could know of: what Undelivered holds was
\* accepted after answer() asked Pending().
ArrivalOrderKept ==
  /\ Elements(accepted) = Waiting \cup Delivered \cup Elements(leftover)
  /\ \A x \in DOMAIN Road :
       /\ InOrder(accepted, Road[x])
       /\ \A y \in DOMAIN Road : x < y => Ahead(accepted, Road[x], Road[y])
  /\ \A s \in Elements(batches) \cup {leftover} : SystemFirst(s)
  /\ ended = "answered" =>
       Elements(leftover) \subseteq
         {accepted[i] : i \in answeredAt + 1 .. Len(accepted)}

\* No message that was taken is kept in the dark for ever: it reaches the
\* conversation or comes back to the caller.  The run's steps and the mutex
\* are fair; the producers begin calls or not.
EveryMessageSettles ==
  \A m \in Message :
    m \in Elements(accepted) ~> m \in Delivered \cup Elements(leftover)

\* The locked, step-by-step queue does what Mailbox promises.
Abstract == INSTANCE Mailbox WITH
  waiting   <- Waiting,
  delivered <- Delivered,
  returned  <- Elements(leftover),
  open      <- ~closed
ImplementsMailbox == Abstract!Safety
===============================================================================
