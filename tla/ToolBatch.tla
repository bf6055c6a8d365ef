------------------------------- MODULE ToolBatch -------------------------------
(***************************************************************************)
(* One turn's batch of tool calls, from the finalized assistant row to the *)
(* last recorded result: the dispatch loop, resolveCall, the recording     *)
(* loop and abortBatch of internal/loop/run_loop.go and run_tools.go.      *)
(*                                                                         *)
(* A read-only call runs in a goroutine of its own; any other call waits   *)
(* for the reads before it and runs on the dispatcher.  A step is one      *)
(* callback, one decision of the approver, one tool's return, or one wait. *)
(***************************************************************************)
EXTENDS Naturals, Sequences

CONSTANT N     \* calls in the batch

ASSUME NAssumption == N \in Nat \ {0}

Calls == 1 .. N

\* A tool that declares Readonly, one that does not, a name the run does not
\* offer, and a call its tool refused from its streamed arguments.
Kinds == {"read", "write", "unknown", "refused"}

\* How a call was resolved: nothing yet, or the approval never arrived, and
\* what a result recorded in the conversation says.
Answers == {"ran", "denied", "taught", "refused", "omitted"}

VARIABLES
  kind,       \* kind of each call
  approver,   \* Config.Approver is set
  disp,       \* where the dispatcher is
  next,       \* the loop index i, of the dispatch and then of the recording
  call,       \* where resolveCall is, for each call
  result,     \* results[i]
  firstErr,   \* an approval was interrupted
  nodes,      \* tool-result nodes added to the tree, in order
  row,        \* statuses the turn's row was finalized with, in order
  executed    \* history: calls whose tool was executed

vars == <<kind, approver, disp, next, call, result, firstErr, nodes, row, executed>>

resolving == <<call, result, firstErr, executed>>
transcript == <<nodes, row>>
config == <<kind, approver>>

Init ==
  /\ kind \in [Calls -> Kinds]
  /\ approver \in BOOLEAN
  /\ disp = "dispatch"
  /\ next = 1
  /\ call = [c \in Calls |-> "idle"]
  /\ result = [c \in Calls |-> "none"]
  /\ firstErr = FALSE
  /\ nodes = <<>>
  /\ row = <<"complete">>
  /\ executed = {}

Ends == {"done", "aborted", "panicked"}

\* A goroutine of the batch is at work; reads and wg count the same ones.
Busy(c)  == call[c] \in {"ask", "exec"}
ReadsIdle == \A c \in Calls : kind[c] = "read" => ~Busy(c)

Resolve(c, how) ==
  /\ call' = [call EXCEPT ![c] = "over"]
  /\ result' = [result EXCEPT ![c] = how]

-------------------------------------------------------------------------------
(* The dispatch loop: OnToolCall is asked about each call in turn.          *)

\* OnToolCall returned an error: wait for the reads, then abort.
HookFails ==
  /\ disp = "dispatch"
  /\ next \in Calls
  /\ disp' = "drain"
  /\ UNCHANGED <<config, next, resolving, transcript>>

\* The tool answered this call from its streamed arguments.
Refused ==
  /\ disp = "dispatch"
  /\ next \in Calls
  /\ kind[next] = "refused"
  /\ result' = [result EXCEPT ![next] = "refused"]
  /\ next' = next + 1
  /\ UNCHANGED <<config, disp, call, firstErr, transcript, executed>>

SpawnRead ==
  /\ disp = "dispatch"
  /\ next \in Calls
  /\ kind[next] = "read"
  /\ call' = [call EXCEPT ![next] = "ask"]
  /\ next' = next + 1
  /\ UNCHANGED <<config, disp, result, firstErr, transcript, executed>>

\* A call that is not read-only goes on to the barrier.
HookPasses ==
  /\ disp = "dispatch"
  /\ next \in Calls
  /\ kind[next] \in {"write", "unknown"}
  /\ disp' = "barrier"
  /\ UNCHANGED <<config, next, resolving, transcript>>

\* Mutant: a mutating call does not wait for the reads before it.
BarrierNoWait ==
  /\ disp = "barrier"
  /\ call' = [call EXCEPT ![next] = "ask"]
  /\ disp' = "resolve"
  /\ UNCHANGED <<config, next, result, firstErr, transcript, executed>>

\* Mutant: the barrier counts the refused calls too, which never finish.
BarrierCountsAll ==
  /\ disp = "barrier"
  /\ \A c \in 1 .. next - 1 : call[c] = "over"
  /\ call' = [call EXCEPT ![next] = "ask"]
  /\ disp' = "resolve"
  /\ UNCHANGED <<config, next, result, firstErr, transcript, executed>>

\* reads.Wait(), then resolveCall in place.
Barrier ==
  /\ disp = "barrier"
  /\ ReadsIdle
  /\ call' = [call EXCEPT ![next] = "ask"]
  /\ disp' = "resolve"
  /\ UNCHANGED <<config, next, result, firstErr, transcript, executed>>

\* resolveCall returned to the loop; its own error breaks it.
Resolved ==
  /\ disp = "resolve"
  /\ call[next] = "over"
  /\ IF result[next] = "interrupted"
     THEN disp' = "join" /\ next' = next
     ELSE disp' = "dispatch" /\ next' = next + 1
  /\ UNCHANGED <<config, resolving, transcript>>

LoopEnds ==
  /\ disp = "dispatch"
  /\ next = N + 1
  /\ disp' = "join"
  /\ UNCHANGED <<config, next, resolving, transcript>>

\* wg.Wait(), and what was found out.
Join ==
  /\ disp = "join"
  /\ ReadsIdle
  /\ IF firstErr
     THEN disp' = "abort" /\ next' = next
     ELSE disp' = "record" /\ next' = 1
  /\ UNCHANGED <<config, resolving, transcript>>

\* Mutant: the abort does not wait for the reads in flight.
DrainNoWait ==
  /\ disp = "drain"
  /\ disp' = "abort"
  /\ UNCHANGED <<config, next, resolving, transcript>>

Drain ==
  /\ disp = "drain"
  /\ ReadsIdle
  /\ disp' = "abort"
  /\ UNCHANGED <<config, next, resolving, transcript>>

-------------------------------------------------------------------------------
(* resolveCall of one call, in its goroutine or on the dispatcher.          *)

Teach(c) ==
  /\ call[c] = "ask"
  /\ kind[c] = "unknown"
  /\ Resolve(c, "taught")
  /\ UNCHANGED <<config, disp, next, firstErr, transcript, executed>>

\* The approver said yes, or there is none and the tool only reads.
Approve(c) ==
  /\ call[c] = "ask"
  /\ IF approver THEN kind[c] # "unknown" ELSE kind[c] = "read"
  /\ call' = [call EXCEPT ![c] = "exec"]
  /\ executed' = executed \cup {c}
  /\ UNCHANGED <<config, disp, next, result, firstErr, transcript>>

Deny(c) ==
  /\ call[c] = "ask"
  /\ IF approver THEN kind[c] # "unknown" ELSE kind[c] = "write"
  /\ Resolve(c, "denied")
  /\ UNCHANGED <<config, disp, next, firstErr, transcript, executed>>

\* Approver.Ask returned an error: the decision never arrived.
AskFails(c) ==
  /\ call[c] = "ask"
  /\ approver
  /\ kind[c] # "unknown"
  /\ Resolve(c, "interrupted")
  /\ firstErr' = TRUE
  /\ UNCHANGED <<config, disp, next, transcript, executed>>

\* Execute returned a result, or an error that becomes the result's text.
Executed(c) ==
  /\ call[c] = "exec"
  /\ Resolve(c, "ran")
  /\ UNCHANGED <<config, disp, next, firstErr, transcript, executed>>

CallStep(c) == Teach(c) \/ Approve(c) \/ Deny(c) \/ AskFails(c) \/ Executed(c)

-------------------------------------------------------------------------------
(* Recording, in call order.                                                *)

\* OnToolResult accepted the result, and its node joins the tree.
RecordResult ==
  /\ disp = "record"
  /\ next \in Calls
  /\ nodes' = Append(nodes, [call |-> next, how |-> result[next]])
  /\ disp' = "message"
  /\ UNCHANGED <<config, next, resolving, row>>

\* OnToolMessage stored it.
StoreMessage ==
  /\ disp = "message"
  /\ next' = next + 1
  /\ disp' = "record"
  /\ UNCHANGED <<config, resolving, transcript>>

\* OnToolResult or OnToolMessage returned an error.
RecordFails ==
  /\ disp \in {"record", "message"}
  /\ next \in Calls
  /\ disp' = "abort"
  /\ UNCHANGED <<config, next, resolving, transcript>>

Recorded ==
  /\ disp = "record"
  /\ next = N + 1
  /\ disp' = "done"
  /\ UNCHANGED <<config, next, resolving, transcript>>

answered == {nodes[i].call : i \in DOMAIN nodes}

\* omitCalls adds a result node for every call no result answers, in order:
\* recording goes in call order, so these are the calls after the last one.
omitCalls == [i \in Calls |->
  IF i \in answered THEN nodes[i] ELSE [call |-> i, how |-> "omitted"]]

AbortBatch ==
  /\ disp = "abort"
  /\ nodes' = omitCalls
  /\ row' = Append(row, "cancelled")
  /\ disp' = "aborted"
  /\ UNCHANGED <<config, next, resolving>>

\* A callback or a tool panics on the dispatcher; runOn finalizes no row,
\* the batch's is finalized already, and Send recovers the panic.
Panic ==
  /\ \/ disp \in {"dispatch", "record", "message"} /\ next \in Calls
     \/ disp = "resolve" /\ Busy(next)
  /\ disp' = "panicked"
  /\ UNCHANGED <<config, next, resolving, transcript>>

DispatcherStep ==
  \/ HookFails \/ Refused \/ SpawnRead \/ HookPasses \/ Barrier \/ Resolved \/ LoopEnds \/ Join \/ Drain
  \/ RecordResult \/ StoreMessage \/ RecordFails \/ Recorded \/ AbortBatch

\* A panicked dispatcher takes the call it was resolving down with it.
Running(c) == disp = "panicked" => kind[c] = "read"

Finished ==
  /\ disp \in Ends
  /\ \A c \in Calls : Running(c) => ~Busy(c)
  /\ UNCHANGED vars

Next ==
  \/ DispatcherStep
  \/ Panic
  \/ \E c \in Calls : Running(c) /\ CallStep(c)
  \/ Finished

Spec == Init /\ [][Next]_vars

\* The dispatcher runs when it can; approvals are decided and tools return,
\* if only because the turn's context ends.
Fairness ==
  /\ WF_vars(DispatcherStep)
  /\ \A c \in Calls : WF_vars(Running(c) /\ CallStep(c))

FairSpec == Spec /\ Fairness

-------------------------------------------------------------------------------
(* Properties                                                               *)

Node == [call : Calls, how : Answers]

TypeOK ==
  /\ kind \in [Calls -> Kinds]
  /\ approver \in BOOLEAN
  /\ disp \in {"dispatch", "barrier", "resolve", "join", "drain", "record", "message", "abort"} \cup Ends
  /\ next \in 1 .. N + 1
  /\ call \in [Calls -> {"idle", "ask", "exec", "over"}]
  /\ result \in [Calls -> (Answers \ {"omitted"}) \cup {"none", "interrupted"}]
  /\ firstErr \in BOOLEAN
  /\ nodes \in Seq(Node)
  /\ row \in Seq({"complete", "cancelled"})
  /\ executed \in SUBSET Calls

\* A mutating call is a barrier: while it is put to the approver or runs, no
\* other call of the batch does, and every call before it is through; a read
\* never overtakes the mutating call before it.
MutatingIsBarrier ==
  \A c \in Calls :
    kind[c] # "read" /\ Busy(c) =>
      \A d \in Calls \ {c} :
        /\ ~Busy(d)
        /\ d > c => call[d] = "idle"
        /\ d < c => result[d] \notin {"none"}

\* The tree holds the batch's results in call order, one to a call, whatever
\* order the goroutines finished in; a result says the tool ran exactly when
\* it did; and a batch that ended, by an abort too, leaves no call without a
\* result.  A result nobody computed is never recorded.
AnsweredInOrder ==
  /\ \A i \in DOMAIN nodes : nodes[i].call = i
  /\ \A i \in DOMAIN nodes :
       nodes[i].how # "omitted" => (nodes[i].how = "ran" <=> i \in executed)
  /\ disp \in {"done", "aborted"} => Len(nodes) = N

\* No goroutine of the batch outlives it, on the abort path either.
NoneOutlivesBatch ==
  disp \in {"record", "message", "abort", "done", "aborted"} => \A c \in Calls : ~Busy(c)

\* An approval that never arrived ends the batch, whichever goroutine met it
\* and however many calls finished after it: nothing of it is recorded.
InterruptionAborts ==
  (\E c \in Calls : result[c] = "interrupted") =>
    /\ disp \notin {"record", "message", "done"}
    /\ \A i \in DOMAIN nodes : nodes[i].how = "omitted"

\* The batch ends: no wait in it is for a goroutine that was never started.
BatchEnds == <>(disp \in Ends)

===============================================================================
