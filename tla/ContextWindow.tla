----------------------------- MODULE ContextWindow -----------------------------
(***************************************************************************)
(* What of a conversation a request carries (internal/loop: autocompact,   *)
(* compact, contextwindow, dedup; session.go; core/tree.go, convert.go).   *)
(* The tree only grows; a finished summary becomes a node, and the window  *)
(* starts there.  A run summarizes when the last turn filled its share of  *)
(* the window, when the next request would exceed it, and once a turn when *)
(* the server answers that a request was too large.                        *)
(*                                                                         *)
(* A message is its size, who wrote it, what it shows, and which nodes it  *)
(* speaks for.  The turn's other work (RunLoop, ToolBatch) is here only as *)
(* the nodes it adds.  The server's refusal is a matter of size alone.     *)
(***************************************************************************)
EXTENDS Integers, Sequences, SequencesExt, FiniteSetsExt

CONSTANTS
  Outputs,     \* what a read-only tool may answer
  Sizes,       \* the sizes of what enters a conversation
  Limit,       \* what the server takes in one request
  Windows,     \* what the model list and the host may name as the window
  DedupCap,    \* maxDedupEntries
  MaxNodes,    \* bound: nodes of the tree
  MaxSends     \* bound: runs over the conversation

NoOutput == <<"nothing">>
Unknown  == -1         \* no completion, or one that reported no usage

VARIABLES
  nodes,      \* the tree in the order nodes joined it
  leaf,       \* session.leaf, 0 for the root
  start,      \* session.window: the summary requests start at, 0 for nil
  keys,       \* OutputDeduper.keys, oldest first
  armed,      \* Request.AutoCompact > 0
  override, fallback,   \* Config.ContextWindowOverride, ContextWindowFallback
  listed, served,       \* what the model list says of the model asked for and of the one that answered
  window,     \* Config.window; reported is Config.windowReported
  reported, asked,
  pc,         \* where the run is
  lastComp,   \* prompt tokens of the last call
  lastSent,   \* messages the last call carried
  overflowed, \* overflowTurn is this turn
  stack,      \* calls of compactToFit in progress, the outermost first
  sends

wvars == <<nodes, leaf, start, keys, armed, override, fallback, listed, served, window, reported,
           asked, pc, lastComp, lastSent, overflowed, stack, sends>>
settings    == <<armed, override, fallback, listed, served>>
windowState == <<window, reported, asked>>
recent      == <<lastComp, lastSent, overflowed>>
tree        == <<nodes, leaf, start>>

-----------------------------------------------------------------------------
(* The tree and the messages of a path.                                    *)

PathIn(ns, n) ==
  LET up[i \in 0 .. Len(ns)] == IF i = 0 THEN <<>> ELSE Append(up[ns[i].parent], i)
  IN  up[n]
PathTo(n) == PathIn(nodes, n)

(* A window that is not on the path to the leaf hides nothing.             *)
windowPath ==
  LET path == PathTo(leaf)
  IN  IF start # 0 /\ Contains(path, start)
      THEN SubSeq(path, SelectInSeq(path, LAMBDA n : n = start), Len(path))
      ELSE path

messageOf(n) == [role |-> nodes[n].role, size |-> nodes[n].size, says |-> nodes[n].says, covers |-> {n}]
messages == [i \in DOMAIN windowPath |-> messageOf(windowPath[i])]
sizeOf(msgs) == FoldLeft(LAMBDA sum, m : sum + m.size, 0, msgs)

withNode(seq, parent, role, size, says) ==
  Append(seq, [parent |-> parent, role |-> role, size |-> size, says |-> says])
Room == Len(nodes) < MaxNodes - 2      \* two summaries may follow before the next addition
add(role, size, says) ==
  /\ nodes' = withNode(nodes, leaf, role, size, says)
  /\ leaf' = Len(nodes')

-----------------------------------------------------------------------------
(* The window.  What the host and the model list say, settled before the   *)
(* first call, and again by the name a response gives while no list has    *)
(* named a window.  A named window that an override would raise ends the   *)
(* run.                                                                    *)

wantsWindow == armed \/ override > 0 \/ fallback > 0
contradicts(found) == found > 0 /\ override > found
windowFrom(found) ==
  CASE override > 0 -> override
    [] override = 0 /\ found > 0 -> found
    [] OTHER -> fallback
applyWindow(found) == window' = windowFrom(found) /\ reported' = (found > 0)

WindowInit ==
  /\ nodes = <<>> /\ leaf = 0 /\ start = 0 /\ keys = <<>>
  /\ armed \in BOOLEAN
  /\ override \in Windows \cup {0} /\ fallback \in Windows \cup {0}
  /\ override = 0 \/ fallback = 0
  /\ listed \in Windows \cup {0} /\ served \in Windows \cup {0}
  /\ window = 0 /\ reported = FALSE /\ asked = FALSE
  /\ pc = "idle" /\ lastComp = Unknown /\ lastSent = 0 /\ overflowed = FALSE
  /\ stack = <<>> /\ sends = 0

End == pc' = "idle" /\ stack' = <<>>

(* A run: the host's message joins, the window is settled, and the dedup   *)
(* memory is new.                                                          *)
StartRun(size) ==
  /\ pc = "idle" /\ sends < MaxSends /\ sends' = sends + 1
  /\ Room /\ add("user", size, NoOutput)
  /\ IF wantsWindow
     THEN IF contradicts(listed)
          THEN UNCHANGED <<window, reported>> /\ pc' = "idle"
          ELSE applyWindow(listed) /\ pc' = "top"
     ELSE window' = 0 /\ reported' = FALSE /\ pc' = "top"
  /\ asked' = FALSE /\ keys' = <<>>
  /\ lastComp' = Unknown /\ lastSent' = 0 /\ overflowed' = FALSE
  /\ UNCHANGED <<start, settings, stack>>

(* Between runs the host may carry on from any node.                       *)
SetLeaf(n) ==
  /\ pc = "idle" /\ leaf # n /\ sends < MaxSends
  /\ leaf' = n
  /\ UNCHANGED <<nodes, start, keys, settings, windowState, pc, recent, stack, sends>>

-----------------------------------------------------------------------------
(* Compaction.  A frame is one call of compactToFit: its messages, and how *)
(* many of them a call it is waiting for is summarizing.                   *)

frame(msgs) == [msgs |-> msgs, cut |-> 0]
distance(msgs, i) == LET d == i - Len(msgs) \div 2 IN IF d < 0 THEN -d ELSE d

(* The number of messages before the user message nearest the middle, 0    *)
(* when none but the first is a user's.                                    *)
splitPoint(msgs) ==
  LET users == {i \in 1 .. Len(msgs) - 1 : msgs[i + 1].role = "user"}
  IN  IF users = {} THEN 0
      ELSE Min({i \in users : \A j \in users : distance(msgs, i) <= distance(msgs, j)})

summaryOf(msgs) ==
  [role |-> "user", size |-> 1, says |-> NoOutput,
   covers |-> UNION {msgs[i].covers : i \in DOMAIN msgs}]

(* The call's result stands in for the half it summarized.                 *)
(* As if it stood in for one message more.                                 *)
standInPast(f, summary) == frame(<<summary>> \o SubSeq(f.msgs, f.cut + 2, Len(f.msgs)))
standIn(f, summary) == frame(<<summary>> \o SubSeq(f.msgs, f.cut + 1, Len(f.msgs)))

Top == stack[Len(stack)]
tooLarge(msgs) == sizeOf(msgs) + 1 > Limit

StartCompaction(at) == stack' = <<frame(messages)>> /\ pc' = at

(* Where a run goes on from a compaction, and from one that failed.        *)
afterSummary(at) == CASE at = "compact" -> "boundary" [] at = "cap-compact" -> "call" [] OTHER -> "top"
afterFailedAt(at) == IF at = "compact" THEN "boundary" ELSE "idle"

(* compactNow's end: the summary joins the tree, the window starts at it,  *)
(* and what the tools said before it is forgotten.                         *)
(* As if the memory outlived what it remembers.                            *)
keepOutputs   == keys' = keys
forgetOutputs == keys' = <<>>
compact(msgs) ==
  /\ add("user", 1, NoOutput)
  /\ start' = leaf'
  /\ forgetOutputs
  /\ lastComp' = Unknown /\ lastSent' = IF pc = "cap-compact" THEN lastSent ELSE 0
  /\ pc' = afterSummary(pc)

Compacting == pc \in {"compact", "cap-compact", "overflow-compact"}

Summarized ==
  /\ Compacting /\ ~tooLarge(Top.msgs)
  /\ IF Len(stack) = 1
     THEN /\ compact(Top.msgs)
          /\ stack' = <<>>
     ELSE /\ stack' = LET rest == Front(stack) IN ReplaceAt(rest, Len(rest), standIn(Last(rest), summaryOf(Top.msgs)))
          /\ UNCHANGED <<tree, keys, pc, lastComp, lastSent>>
  /\ UNCHANGED <<settings, windowState, overflowed, sends>>

Split ==
  /\ Compacting /\ tooLarge(Top.msgs) /\ splitPoint(Top.msgs) > 0
  /\ LET cut == splitPoint(Top.msgs)
     IN  stack' = Append(ReplaceAt(stack, Len(stack), [Top EXCEPT !.cut = cut]),
                         frame(SubSeq(Top.msgs, 1, cut)))
  /\ UNCHANGED <<tree, keys, settings, windowState, pc, recent, sends>>

(* Too large and nowhere to split, or a summary call that failed some      *)
(* other way: every call of compactToFit gives the error back.             *)
CompactionFails ==
  /\ Compacting
  /\ pc' = afterFailedAt(pc) /\ stack' = <<>>
  /\ UNCHANGED <<tree, keys, settings, windowState, recent, sends>>

-----------------------------------------------------------------------------
(* A turn.                                                                 *)

shouldCompact == armed /\ window > 0 /\ lastComp # Unknown /\ 2 * lastComp >= window

compactHere ==
  /\ pc = "top"
  /\ IF shouldCompact THEN StartCompaction("compact") ELSE pc' = "boundary" /\ UNCHANGED stack
  /\ UNCHANGED <<tree, keys, settings, windowState, recent, sends>>

(* What the turn boundary delivers: a queued message or a notice, or none. *)
Boundary ==
  /\ pc = "boundary" /\ pc' = "cap"
  /\ (Room /\ \E size \in Sizes : add("user", size, NoOutput)) \/ UNCHANGED <<nodes, leaf>>
  /\ UNCHANGED <<start, keys, settings, windowState, recent, stack, sends>>

nextPromptEstimate ==
  IF lastComp = Unknown THEN 0
  ELSE lastComp + sizeOf(SubSeq(messages, lastSent + 1, Len(messages)))

capToWindow ==
  /\ pc = "cap"
  /\ IF window <= 0 \/ lastSent > Len(messages) \/ nextPromptEstimate < window
     THEN pc' = "call" /\ UNCHANGED stack
     ELSE IF armed THEN StartCompaction("cap-compact") ELSE End
  /\ UNCHANGED <<tree, keys, settings, windowState, recent, sends>>

(* The server takes the request: the turn's nodes join, and the window may *)
(* be settled by the name the response gives.                              *)
resolveServedWindow ==
  IF wantsWindow /\ ~reported /\ ~asked
  THEN /\ asked' = TRUE
       /\ IF served > 0 /\ ~contradicts(served) THEN applyWindow(served) ELSE UNCHANGED <<window, reported>>
  ELSE UNCHANGED windowState

CallModel ==
  /\ pc = "call" /\ sizeOf(messages) <= Limit
  /\ Room /\ \E size \in Sizes : add("turn", size, NoOutput)
  /\ \E usage \in {Unknown, sizeOf(messages)} : lastComp' = usage
  /\ lastSent' = Len(messages)
  /\ resolveServedWindow
  /\ pc' \in IF wantsWindow /\ ~reported /\ ~asked /\ contradicts(served) THEN {"idle"} ELSE {"tools", "idle"}
  /\ overflowed' = FALSE
  /\ UNCHANGED <<start, keys, settings, stack, sends>>

(* A request past the server's limit is compacted and asked again, once a  *)
(* turn.                                                                   *)
CallOverflows ==
  /\ pc = "call" /\ sizeOf(messages) > Limit
  /\ lastSent' = Len(messages)
  /\ IF armed /\ ~overflowed
     THEN StartCompaction("overflow-compact") /\ overflowed' = TRUE
     ELSE End /\ UNCHANGED overflowed
  /\ UNCHANGED <<tree, keys, settings, windowState, lastComp, sends>>

CallFails ==
  /\ pc = "call" /\ End /\ lastSent' = Len(messages)
  /\ UNCHANGED <<tree, keys, settings, windowState, lastComp, overflowed, sends>>

(* The output as the turn records it: itself, or a mark that it was given  *)
(* before.                                                                 *)
collapsed(out) == IF Contains(keys, out) THEN <<"unchanged", out>> ELSE <<"shown", out>>
remember(out) ==
  IF Contains(keys, out) THEN keys
  ELSE LET all == Append(keys, out) IN IF Len(all) > DedupCap THEN Tail(all) ELSE all

ToolResults(out, size) ==
  /\ pc = "tools" /\ pc' = "top"
  /\ Room /\ add("tool", IF Contains(keys, out) THEN 1 ELSE size, collapsed(out))
  /\ keys' = remember(out)
  /\ UNCHANGED <<start, settings, windowState, recent, stack, sends>>

Stops ==
  /\ \/ pc = "idle" /\ (sends = MaxSends \/ ~Room)
     \/ pc = "tools" /\ ~Room
  /\ UNCHANGED wvars

CompactionStep == Summarized \/ Split \/ CompactionFails

WindowNext ==
  \/ \E size \in Sizes : StartRun(size)
  \/ \E n \in 0 .. Len(nodes) : SetLeaf(n)
  \/ compactHere \/ CompactionStep
  \/ Boundary \/ capToWindow \/ CallModel \/ CallOverflows \/ CallFails
  \/ \E out \in Outputs, size \in Sizes : ToolResults(out, size)
  \/ Stops

(* A compaction in progress goes on: its model call answers.               *)
WindowSpec == WindowInit /\ [][WindowNext]_wvars /\ WF_wvars(CompactionStep)

-----------------------------------------------------------------------------
(* A tool result that only says it repeats an earlier one has that earlier *)
(* one in the window the model reads, whatever was summarized meanwhile    *)
(* and whichever outputs the bounded memory dropped (Collapse, Reset).     *)
MarkersResolve ==
  pc # "idle" =>
    \A i \in DOMAIN messages :
      messages[i].says # NoOutput /\ messages[i].says[1] = "unchanged" =>
        \E j \in 1 .. i - 1 : messages[j].says = <<"shown", messages[i].says[2]>>

(* While a window is summarized in parts, the parts together speak for     *)
(* every message of it, each message once (compactToFit: a half's summary  *)
(* stands in for that half).                                               *)
coveredBy(msgs) == UNION {msgs[i].covers : i \in DOMAIN msgs}
SummaryCoversWindow ==
  /\ Compacting => coveredBy(stack[1].msgs) = ToSet(windowPath)
  /\ \A d \in 1 .. Len(stack) - 1 :
       coveredBy(stack[d + 1].msgs) = coveredBy(SubSeq(stack[d].msgs, 1, stack[d].cut))
  /\ \A d \in DOMAIN stack : \A i, j \in DOMAIN stack[d].msgs :
       i # j => stack[d].msgs[i].covers \cap stack[d].msgs[j].covers = {}

(* "A failure does not end the run: OnCompactionFailed reports it, and the *)
(* run continues on the window it had" (autocompact.go, compactNow): every *)
(* compaction comes to an end.                                             *)
CompactionEnds == Compacting ~> ~Compacting

===============================================================================
