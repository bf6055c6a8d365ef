-------------------------------- MODULE Session --------------------------------
(***************************************************************************)
(* internal/loop/session_api.go: one conversation that several goroutines  *)
(* of the host share.  Send runs the loop in a goroutine of its own, one   *)
(* at a time; Queue carries a message to the running turn or keeps it for  *)
(* the next; Append and SetLeaf change the tree; Close waits.              *)
(*                                                                         *)
(* The methods meet in the session's two mutexes, mu for the turn and s.mu *)
(* for the leaf: a step is one critical section of either, or one step of  *)
(* a turn that another goroutine can see.  The queue into the run is       *)
(* MessageQueue's, a call of it one step here; of the run (RunLoop) only   *)
(* what it does with the queue and the tree is kept.                       *)
(***************************************************************************)
EXTENDS Integers, Sequences, SequencesExt

CONSTANTS
  MaxSends,      \* bound: turns of the session
  MaxMessages,   \* bound: messages queued
  MaxTurns,      \* Config.MaxTurns, and the bound on the model calls of a turn
  MaxCalls       \* bound: calls of Queue, Append, SetLeaf and Close

ASSUME BoundsAreCounts ==
  /\ MaxSends \in Nat \ {0}
  /\ MaxMessages \in Nat
  /\ MaxTurns \in Nat \ {0}
  /\ MaxCalls \in Nat

Sends    == 1 .. MaxSends
Messages == 1 .. MaxMessages

VARIABLES
  hostQueue,    \* Config.Messages is set: every turn is given that queue
  running,      \* publicSession.running: the turn it is the future of, 0 for nil
  pending,      \* publicSession.pending
  closed,       \* publicSession.closed
  undelivered,  \* SessionState.Undelivered
  items, open,  \* the queues turns are given: what each holds, and not closed
  nodes,        \* the tree: each node's turn (0: the host), parent and message
  leaf,         \* session.leaf, 0 for nil
  pc,           \* where each turn is
  batch,        \* what the running turn has drained and not yet appended
  turn,         \* the running turn's loop variable
  result,       \* what each turn returned: "kept" is a Result, with an error or not
  left,         \* Result.Undelivered of each turn
  sends,        \* turns begun
  accepted,     \* messages Queue took; a message is its number
  looked,       \* the node SetLeaf is about to move to
  sides,        \* Append and SetLeaf calls begun
  raced,        \* history: turns during which a SetLeaf moved the leaf
  closer,       \* where Close's goroutine is
  awaited       \* the turn it waits for

vars == <<hostQueue, running, pending, closed, undelivered, items, open, nodes, leaf, pc, batch,
          turn, result, left, sends, accepted, looked, sides, raced, closer, awaited>>

public  == <<running, pending, closed, undelivered>>
queues  == <<items, open>>
tree    == <<nodes, leaf>>
local   == <<batch, turn, result, left>>
counts  == <<hostQueue, sends, accepted>>
leafCaller == <<looked, sides, raced>>
closeCaller == <<closer, awaited>>

NoLook == -1

Init ==
  /\ hostQueue \in BOOLEAN
  /\ running = 0
  /\ pending = <<>>
  /\ closed = FALSE
  /\ undelivered = <<>>
  /\ items = [q \in Sends |-> <<>>]
  /\ open = [q \in Sends |-> TRUE]
  /\ nodes = <<>>
  /\ leaf = 0
  /\ pc = [i \in Sends |-> "unsent"]
  /\ batch = <<>>
  /\ turn = 0
  /\ result = [i \in Sends |-> "none"]
  /\ left = [i \in Sends |-> <<>>]
  /\ sends = 0
  /\ accepted = 0
  /\ looked = NoLook
  /\ sides = 0
  /\ raced = {}
  /\ closer = "idle"
  /\ awaited = 0

\* The queue of a turn: the host's one, or one of its own.
queueOf(i) == IF hostQueue THEN 1 ELSE i

\* session.add: a node under the leaf becomes the leaf.
add(i, m) ==
  /\ nodes' = Append(nodes, [by |-> i, parent |-> leaf, msg |-> m])
  /\ leaf' = Len(nodes) + 1

\* Calls of the host other than Send.
Calls == accepted + sides + (IF closer = "idle" THEN 0 ELSE 1)

-------------------------------------------------------------------------------
(* Send, Queue, Append, SetLeaf: calls of the host.                         *)

\* Mutant of Send: a turn that runs already is not looked at.
SendWhileBusy ==
  /\ ~closed
  /\ sends < MaxSends
  /\ LET i == sends + 1 IN
       /\ items' = IF open[queueOf(i)] THEN [items EXCEPT ![queueOf(i)] = @ \o pending] ELSE items
       /\ running' = i
       /\ sends' = i
       /\ pc' = [pc EXCEPT ![i] = "append"]
  /\ pending' = <<>>
  /\ UNCHANGED <<closed, undelivered, open, tree, local, hostQueue, accepted,
                 leafCaller, closeCaller>>

\* Send under mu: what is pending goes to the turn's queue, which takes it
\* unless it is the host's and an earlier turn closed it.  A closed or busy
\* session refuses and nothing changes.
Send ==
  /\ ~closed
  /\ running = 0
  /\ sends < MaxSends
  /\ LET i == sends + 1 IN
       /\ items' = IF open[queueOf(i)] THEN [items EXCEPT ![queueOf(i)] = @ \o pending] ELSE items
       /\ running' = i
       /\ sends' = i
       /\ pc' = [pc EXCEPT ![i] = "append"]
  /\ pending' = <<>>
  /\ UNCHANGED <<closed, undelivered, open, tree, local, hostQueue, accepted,
                 leafCaller, closeCaller>>

\* The rest of Send, unlocked: the message is appended and the run started.
AppendMessages(i) ==
  /\ pc[i] = "append"
  /\ add(i, 0)
  /\ pc' = [pc EXCEPT ![i] = "start"]
  /\ UNCHANGED <<public, queues, local, counts, leafCaller, closeCaller>>

\* Mutant of Queue: what the turn's queue refuses is not kept for the next.
QueueOrDrop ==
  /\ ~closed
  /\ accepted < MaxMessages
  /\ Calls < MaxCalls
  /\ accepted' = accepted + 1
  /\ IF running # 0
     THEN items' = [items EXCEPT ![queueOf(running)] =
                      IF open[queueOf(running)] THEN Append(@, accepted') ELSE @]
          /\ UNCHANGED pending
     ELSE pending' = Append(pending, accepted') /\ UNCHANGED items
  /\ UNCHANGED <<running, closed, undelivered, open, tree, pc, local, hostQueue, sends,
                 leafCaller, closeCaller>>

\* Queue under mu: the running turn's queue, or the next Send's.
Queue ==
  /\ ~closed
  /\ accepted < MaxMessages
  /\ Calls < MaxCalls
  /\ accepted' = accepted + 1
  /\ IF running # 0 /\ open[queueOf(running)]
     THEN items' = [items EXCEPT ![queueOf(running)] = Append(@, accepted')] /\ UNCHANGED pending
     ELSE pending' = Append(pending, accepted') /\ UNCHANGED items
  /\ UNCHANGED <<running, closed, undelivered, open, tree, pc, local, hostQueue, sends,
                 leafCaller, closeCaller>>

\* Append: a node under the leaf, for any parent; the leaf stays.
AppendNode ==
  /\ Calls < MaxCalls
  /\ nodes' = Append(nodes, [by |-> 0, parent |-> leaf, msg |-> 0])
  /\ sides' = sides + 1
  /\ UNCHANGED <<public, queues, leaf, pc, local, counts, looked, raced, closeCaller>>

\* SetLeaf finds the node in the tree (the root or the newest, for any) and,
\* under mu, no turn running.
SetLeafLook ==
  /\ Calls < MaxCalls
  /\ looked = NoLook
  /\ running = 0
  /\ looked' \in {0, Len(nodes)}
  /\ sides' = sides + 1
  /\ UNCHANGED <<public, queues, tree, pc, local, counts, raced, closeCaller>>

\* And then moves the leaf, under s.mu: a Send may have come between.
SetLeafWrite ==
  /\ looked # NoLook
  /\ leaf' = looked
  /\ looked' = NoLook
  /\ raced' = raced \cup ({running} \ {0})
  /\ UNCHANGED <<public, queues, nodes, pc, local, counts, sides, closeCaller>>

-------------------------------------------------------------------------------
(* The turn's goroutine.                                                    *)

\* The window's configuration is refused, or a callback panics, before runOn
\* has set up its Close: no result, and the queue is left as it is.
RunFailsEarly(i) ==
  /\ pc[i] = "start"
  /\ \E r \in {"error", "panic"} : result' = [result EXCEPT ![i] = r]
  /\ pc' = [pc EXCEPT ![i] = "finish"]
  /\ UNCHANGED <<public, queues, tree, batch, turn, left, counts, leafCaller, closeCaller>>

Drain(i) ==
  /\ pc[i] \in {"start", "boundary"}
  /\ batch' = items[queueOf(i)]
  /\ items' = [items EXCEPT ![queueOf(i)] = <<>>]
  /\ pc' = [pc EXCEPT ![i] = "deliver"]
  /\ UNCHANGED <<public, open, tree, turn, result, left, counts, leafCaller, closeCaller>>

\* A drained message is announced to the host and joins the tree.
DeliverOne(i) ==
  /\ pc[i] = "deliver"
  /\ batch # <<>>
  /\ add(i, Head(batch))
  /\ batch' = Tail(batch)
  /\ UNCHANGED <<public, queues, pc, turn, result, left, counts, leafCaller, closeCaller>>

\* The model's answer joins the tree.
ModelCall(i) ==
  /\ pc[i] = "deliver"
  /\ batch = <<>>
  /\ add(i, 0)
  /\ pc' = [pc EXCEPT ![i] = "asked"]
  /\ UNCHANGED <<public, queues, local, counts, leafCaller, closeCaller>>

moreTurnsAllowed == turn < MaxTurns - 1

\* Tools ran, or a message is pending: one more turn of the loop.
Continues(i) ==
  /\ pc[i] = "asked"
  /\ moreTurnsAllowed
  /\ turn' = turn + 1
  /\ pc' = [pc EXCEPT ![i] = "boundary"]
  /\ UNCHANGED <<public, queues, tree, batch, result, left, counts, leafCaller, closeCaller>>

\* An answer with nothing pending, or on the last permitted turn.
Ends(i) ==
  /\ pc[i] = "asked"
  /\ items[queueOf(i)] = <<>> \/ ~moreTurnsAllowed
  /\ result' = [result EXCEPT ![i] = "kept"]
  /\ pc' = [pc EXCEPT ![i] = "close"]
  /\ UNCHANGED <<public, queues, tree, batch, turn, left, counts, leafCaller, closeCaller>>

\* A cancelled context or a failed call: a result with an error.
Fails(i) ==
  /\ (pc[i] = "deliver" /\ batch = <<>>) \/ pc[i] = "asked"
  /\ result' = [result EXCEPT ![i] = "kept"]
  /\ pc' = [pc EXCEPT ![i] = "close"]
  /\ UNCHANGED <<public, queues, tree, batch, turn, left, counts, leafCaller, closeCaller>>

\* Mutant: nothing recovers the turn's panic for the session.
PanicsUnrecovered(i) ==
  /\ pc[i] \in {"deliver", "asked"}
  /\ result' = [result EXCEPT ![i] = "panic"]
  /\ batch' = <<>>
  /\ pc' = [pc EXCEPT ![i] = "dead"]
  /\ UNCHANGED <<public, queues, tree, turn, left, counts, leafCaller, closeCaller>>

\* A panic unwinds through the deferred Close, and its result is lost.
Panics(i) ==
  /\ pc[i] \in {"deliver", "asked"}
  /\ result' = [result EXCEPT ![i] = "panic"]
  /\ batch' = <<>>
  /\ pc' = [pc EXCEPT ![i] = "close"]
  /\ UNCHANGED <<public, queues, tree, turn, left, counts, leafCaller, closeCaller>>

\* runOn's deferred Close of the queue.
CloseQueue(i) ==
  /\ pc[i] = "close"
  /\ open' = [open EXCEPT ![queueOf(i)] = FALSE]
  /\ items' = [items EXCEPT ![queueOf(i)] = <<>>]
  /\ left' = [left EXCEPT ![i] = IF result[i] = "kept" THEN items[queueOf(i)] ELSE <<>>]
  /\ pc' = [pc EXCEPT ![i] = "finish"]
  /\ UNCHANGED <<public, tree, batch, turn, result, counts, leafCaller, closeCaller>>

\* finish, under mu: the session is free, and keeps what the turn did not
\* deliver.
Finish(i) ==
  /\ pc[i] = "finish"
  /\ running' = 0
  /\ undelivered' = undelivered \o left[i]
  /\ pc' = [pc EXCEPT ![i] = "settle"]
  /\ turn' = 0
  /\ UNCHANGED <<pending, closed, queues, tree, batch, result, left, counts, leafCaller, closeCaller>>

\* Mutant: the future is settled first, and finish never reached.
SettleFirst(i) ==
  /\ pc[i] \in {"finish", "settle"}
  /\ pc' = [pc EXCEPT ![i] = "done"]
  /\ UNCHANGED <<public, queues, tree, local, counts, leafCaller, closeCaller>>

\* The future is settled: Done is closed, and Wait returns.
Settle(i) ==
  /\ pc[i] = "settle"
  /\ pc' = [pc EXCEPT ![i] = "done"]
  /\ UNCHANGED <<public, queues, tree, local, counts, leafCaller, closeCaller>>

TurnStep(i) ==
  \/ AppendMessages(i) \/ Drain(i) \/ DeliverOne(i) \/ ModelCall(i)
  \/ Continues(i) \/ Ends(i) \/ CloseQueue(i) \/ Finish(i) \/ Settle(i)

-------------------------------------------------------------------------------
(* Close.                                                                   *)

\* Mutant: the running turn is not the one to wait for.
CloseBeginsBlind ==
  /\ closer = "idle"
  /\ Calls < MaxCalls
  /\ closed' = TRUE
  /\ awaited' = 0
  /\ closer' = "wait"
  /\ UNCHANGED <<running, pending, undelivered, queues, tree, pc, local, counts, leafCaller>>

\* Under mu: no further turn, and the running one is the one to wait for.
CloseBegins ==
  /\ closer = "idle"
  /\ Calls < MaxCalls
  /\ closed' = TRUE
  /\ awaited' = running
  /\ closer' = "wait"
  /\ UNCHANGED <<running, pending, undelivered, queues, tree, pc, local, counts, leafCaller>>

CloseEnds ==
  /\ closer = "wait"
  /\ awaited # 0 => pc[awaited] = "done"
  /\ closer' = "ended"
  /\ UNCHANGED <<public, queues, tree, pc, local, counts, leafCaller, awaited>>

\* Close's own context ended first.
CloseGivesUp ==
  /\ closer = "wait"
  /\ awaited # 0
  /\ closer' = "gaveUp"
  /\ UNCHANGED <<public, queues, tree, pc, local, counts, leafCaller, awaited>>

Finished ==
  /\ \A i \in Sends : pc[i] \in {"unsent", "done"}
  /\ UNCHANGED vars

Next ==
  \/ Send \/ Queue \/ AppendNode \/ SetLeafLook \/ SetLeafWrite
  \/ \E i \in Sends : TurnStep(i) \/ RunFailsEarly(i) \/ Fails(i) \/ Panics(i)
  \/ CloseBegins \/ CloseEnds \/ CloseGivesUp
  \/ Finished

Spec == Init /\ [][Next]_vars

\* A turn's goroutine runs when it can, and model calls return; so does the
\* goroutine of Close.  The host need not call anything.
FairSpec == Spec /\ WF_vars(CloseEnds) /\ \A i \in Sends : WF_vars(TurnStep(i))

-------------------------------------------------------------------------------
(* Properties                                                               *)

Node == [by : 0 .. MaxSends, parent : Nat, msg : 0 .. MaxMessages]

TypeOK ==
  /\ hostQueue \in BOOLEAN
  /\ running \in 0 .. MaxSends
  /\ pending \in Seq(Messages)
  /\ closed \in BOOLEAN
  /\ undelivered \in Seq(Messages)
  /\ items \in [Sends -> Seq(Messages)]
  /\ open \in [Sends -> BOOLEAN]
  /\ nodes \in Seq(Node)
  /\ leaf \in 0 .. Len(nodes)
  /\ pc \in [Sends -> {"unsent", "append", "start", "boundary", "deliver", "asked",
                       "close", "finish", "settle", "done"}]
  /\ batch \in Seq(Messages)
  /\ turn \in 0 .. MaxTurns - 1
  /\ result \in [Sends -> {"none", "error", "panic", "kept"}]
  /\ left \in [Sends -> Seq(Messages)]
  /\ sends \in 0 .. MaxSends
  /\ accepted \in 0 .. MaxMessages
  /\ looked \in NoLook .. Len(nodes)
  /\ sides \in 0 .. MaxCalls
  /\ raced \in SUBSET Sends
  /\ closer \in {"idle", "wait", "ended", "gaveUp"}
  /\ awaited \in 0 .. MaxSends

\* Messages in the conversation (a node that is none counts 0), and then those
\* on their way to it, through the queue of the running turn (or the host's),
\* and the session.
Delivered == [k \in DOMAIN nodes |-> nodes[k].msg]
liveQueue == IF running # 0 THEN items[queueOf(running)]
             ELSE IF hostQueue THEN items[1] ELSE <<>>
Line      == <<Delivered, batch, liveQueue, pending>>

Held(s)       == ToSet(s) \ {0}
InLine        == UNION {Held(Line[x]) : x \in DOMAIN Line}
Rising(s)     == \A j, k \in DOMAIN s : j < k /\ 0 \notin {s[j], s[k]} => s[j] < s[k]
Earlier(A, B) == \A m \in A, n \in B : m < n

\* Messages handed back to the host.
Returned == (UNION {ToSet(left[i]) : i \in Sends}) \cup ToSet(undelivered)

Lost == (1 .. accepted) \ (InLine \cup Returned)

\* A turn that ended without a result: it panicked, or failed before its loop
\* began.
NoResult(i) == result[i] \in {"error", "panic"}

\* A message Queue took is delivered once and in order, or handed back, and
\* never both, whichever of the turn's queue and the session's own list it
\* came to while turns began and ended.  Only a turn without a result or a
\* host queue given to a second turn loses one.
QueuedIsKept ==
  /\ \A x \in DOMAIN Line :
       /\ Rising(Line[x])
       /\ \A y \in DOMAIN Line : x < y => Earlier(Held(Line[x]), Held(Line[y]))
  /\ InLine \cap Returned = {}
  /\ Lost # {} => (\E i \in Sends : NoResult(i)) \/ (hostQueue /\ sends > 1)

\* What one turn adds is one branch: each node hangs under the turn's node
\* before it, so a call's request carries the message it answers.  Only a
\* SetLeaf that looked before the turn began can still tear it.
TurnStaysOnItsBranch ==
  \A k \in DOMAIN nodes :
    LET i == nodes[k].by
        before == {j \in 1 .. k - 1 : nodes[j].by = i}
    IN  i # 0 /\ i \notin raced /\ before # {} =>
          \A j \in before : j <= nodes[k].parent /\ nodes[nodes[k].parent].by = i

\* Who has seen Done can Send again, and finds in the session's state what
\* the turn left undelivered.
DoneMeansSettled ==
  \A i \in Sends :
    pc[i] = "done" => running # i /\ ToSet(left[i]) \subseteq ToSet(undelivered)

\* Once Close has ended without giving up, no turn works on the conversation
\* and none will: not one that was between its check and its start.
CloseWaits ==
  closer = "ended" =>
    /\ running = 0
    /\ \A i \in Sends : pc[i] \in {"unsent", "settle", "done"}

\* Every turn settles, a panicking one too, and so does every Close.
SendSettles ==
  /\ \A i \in Sends : pc[i] = "append" ~> pc[i] = "done"
  /\ closer = "wait" ~> closer \in {"ended", "gaveUp"}

\* USAGE.md: "A queued message always reaches the model", by the running
\* turn or the next; what a turn that ended first could not deliver is handed
\* back.  Turns that panicked are left out.
AcceptedIsNeverLost == (\A i \in Sends : result[i] # "panic") => Lost = {}
===============================================================================
