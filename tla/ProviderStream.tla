----------------------------- MODULE ProviderStream -----------------------------
(***************************************************************************)
(* core/*_stream.go, core/callsink.go and core/streamstring.go: one model  *)
(* call as its events arrive, decoded by the endpoint's dialect into       *)
(* nodes; and http/stream.go with socket/stream.go, which write the answer *)
(* document from the callbacks of that call while it runs.                 *)
(*                                                                         *)
(* A piece of text is the number of the event that brought it; Blank is    *)
(* the leading blank of a completions answer, Blob an opaque reasoning     *)
(* value, Correction a text the endpoint states only when an item ends.    *)
(***************************************************************************)
EXTENDS Integers, Sequences, FiniteSets, SequencesExt

CONSTANTS
  Dialects,     \* a subset of {"openai", "anthropic", "responses", "completions"}
  ItemKeys,         \* the indices or item ids an endpoint uses
  MaxEvents     \* bound: events of a stream

ASSUME StreamBounds ==
  /\ Dialects \subseteq {"openai", "anthropic", "responses", "completions"}
  /\ MaxEvents \in Nat

VARIABLES
  dialect,
  call,     \* the decoder's state, its nodes, and what the sink was told
  doc,      \* the answer document
  phase,    \* "streaming", "returned" to the server, or "closed" by it
  comp,     \* the Completion, and whether an error came with it
  gone,     \* writes to the client fail
  events    \* events received

vars == <<dialect, call, doc, phase, comp, gone, events>>

Blank == 0
Blob == -1
Correction == -2
NoKey == "none"
NoNode == 0

Text == "text"
Thinking == "thinking"
ToolCall == "call"
Kinds == {Text, Thinking, ToolCall}

NoComp == [has |-> FALSE, parts |-> <<>>, streamed |-> FALSE, err |-> FALSE]

Init ==
  /\ dialect \in Dialects
  /\ call = [order |-> <<>>, node |-> <<>>, key |-> [k \in ItemKeys |-> NoNode], think |-> NoNode, text |-> NoNode,
             announced |-> {}, details |-> FALSE, parts |-> <<>>, got |-> {}, torn |-> FALSE, saw |-> FALSE, err |-> FALSE, failure |-> FALSE]
  /\ doc = [begun |-> FALSE, parts |-> <<>>, open |-> FALSE, pending |-> <<>>, sent |-> 0, ended |-> "no"]
  /\ phase = "streaming"
  /\ comp = NoComp
  /\ gone = FALSE
  /\ events = 0

------------------------------------------------------------------------------
\* A stream field: value, done, and the values it held before.

Open(kind)     == [kind |-> kind, value |-> <<>>, done |-> FALSE, revs |-> <<>>, blob |-> FALSE]
Whole(kind, v) == [Open(kind) EXCEPT !.value = v, !.done = TRUE]

\* Mutant of Append1: the late piece starts from nothing and the ended value is dropped.
AppendFresh(f, piece) ==
  [f EXCEPT !.value = IF f.done THEN <<piece>> ELSE Append(@, piece), !.done = FALSE]

\* A late piece after the end restarts the field and keeps the ended value.
Append1(f, piece) ==
  [f EXCEPT !.value = Append(@, piece), !.done = FALSE, !.revs = IF f.done THEN Append(@, f.value) ELSE @]

FinishWith(f, final) ==
  [f EXCEPT !.value = final, !.done = TRUE,
            !.revs = IF ~f.done /\ f.value # <<>> /\ final # f.value THEN Append(@, f.value) ELSE @]

FinishNode(f) == IF f.done THEN f ELSE FinishWith(f, f.value)

partOf(f) == [kind |-> f.kind, text |-> f.value, blob |-> f.blob]
isPart(f) == f.kind # Text \/ f.value # <<>>

MessageFromNodes(s) ==
  LET parts[i \in 0 .. Len(s.order)] ==
        IF i = 0 THEN <<>>
        ELSE LET f == s.node[s.order[i]]
             IN  IF isPart(f) THEN Append(parts[i - 1], partOf(f)) ELSE parts[i - 1]
  IN parts[Len(s.order)]

------------------------------------------------------------------------------
\* What a callback writes into the document.  Deltas extend the open <text>; a
\* part, a usage or timings close it.

docText(d, pieces) ==
  LET n == Len(d.parts)
      extended == [d.parts EXCEPT ![n].text = @ \o pieces]
      opened == Append(d.parts, partOf(Whole(Text, pieces)))
  IN [d EXCEPT !.begun = TRUE, !.open = TRUE, !.pending = @ \o pieces,
               !.parts = IF gone THEN @ ELSE IF d.open THEN extended ELSE opened]

\* The text of a finished part is already there, delta by delta.
isPending(d, part) == part.kind = Text /\ part.text = d.pending

\* Mutant of docPart: what OnPart wrote is not counted.
docPartUncounted(d, part) ==
  [d EXCEPT !.begun = TRUE, !.pending = <<>>, !.open = @ /\ isPending(d, part),
            !.parts = IF gone \/ isPending(d, part) THEN @ ELSE Append(@, part)]

docPart(d, part) ==
  [d EXCEPT !.begun = TRUE, !.sent = @ + 1, !.pending = <<>>, !.open = @ /\ isPending(d, part),
            !.parts = IF gone \/ isPending(d, part) THEN @ ELSE Append(@, part)]

docUsage(d) == [d EXCEPT !.begun = TRUE, !.open = FALSE]

------------------------------------------------------------------------------
\* The sink.  A change to the call is a pair of the call and the document.

\* History: other nodes have parts that are not announced yet.
pendingBeside(s, n, kinds) == \E m \in 1 .. Len(s.node) \ {n} :
  s.node[m].kind \in kinds /\ isPart(s.node[m]) /\ m \notin s.announced

Start(s, kind) ==
  [s EXCEPT !.node = Append(@, Open(kind)), !.order = Append(@, Len(s.node) + 1)]
newest(s) == Len(s.node)

SinkDelta(s, n, piece) ==
  [s EXCEPT !.node[n] = Append1(@, piece), !.got = @ \cup {piece},
            !.torn = @ \/ (s.node[n].kind = Text /\ pendingBeside(s, n, Kinds)), !.err = @ \/ (gone /\ s.node[n].kind = Text)]

Delta(s, d, n, piece) ==
  /\ call' = SinkDelta(s, n, piece)
  /\ doc' = IF s.node[n].kind = Text THEN docText(d, <<piece>>) ELSE d


\* The call and document once node n is announced as finished.
Announced(p, n) ==
  LET ended == [p.s EXCEPT !.node[n] = FinishNode(@), !.announced = @ \cup {n}]
      part == partOf(ended.node[n])
  IN IF isPart(ended.node[n])
     THEN [s |-> [ended EXCEPT !.parts = Append(@, part), !.err = @ \/ gone, !.torn = @ \/ pendingBeside(ended, n, {Text})],
           d |-> docPart(p.d, part)]
     ELSE [s |-> ended, d |-> p.d]

Now == [s |-> call, d |-> doc]
Becomes(p) == call' = p.s /\ doc' = p.d

saw(s) == [s EXCEPT !.saw = TRUE]
piece1 == events + 1

Receives ==
  /\ phase = "streaming"
  /\ ~call.err
  /\ events < MaxEvents
  /\ events' = events + 1
  /\ UNCHANGED <<dialect, phase, comp, gone>>

\* Usage, timings and progress reach the caller, and close the open <text>.
UsageReport ==
  /\ Receives
  /\ call' = [saw(call) EXCEPT !.err = gone]
  /\ doc' = docUsage(doc)

------------------------------------------------------------------------------
\* OpenAI: one text node, reasoning nodes that end when content begins, calls by
\* index, and structured reasoning that has no node until the stream ends.

closeReasoning(p) ==
  LET n == p.s.think
  IN IF n = NoNode \/ p.s.node[n].done THEN p ELSE Announced(p, n)

OpenaiContent ==
  /\ dialect = "openai" /\ Receives
  /\ LET p == closeReasoning([Now EXCEPT !.s = saw(@)])
         s == IF p.s.text # NoNode THEN p.s
              ELSE [Start(p.s, Text) EXCEPT !.text = newest(p.s) + 1]
     IN Delta(s, p.d, s.text, piece1)

OpenaiReasoning ==
  /\ dialect = "openai" /\ Receives
  /\ LET open == call.think # NoNode /\ ~call.node[call.think].done
         s == IF open THEN saw(call)
              ELSE [Start(saw(call), Thinking) EXCEPT !.think = newest(call) + 1]
     IN Delta(s, doc, s.think, piece1)

OpenaiToolCall(k) ==
  /\ dialect = "openai" /\ Receives
  /\ LET known == call.key[k] # NoNode
         s == IF known THEN saw(call)
              ELSE [Start(saw(call), ToolCall) EXCEPT !.key[k] = newest(call) + 1]
     IN Delta(s, doc, s.key[k], piece1)

OpenaiDetails ==
  /\ dialect = "openai" /\ Receives
  /\ call' = [saw(call) EXCEPT !.details = TRUE]
  /\ UNCHANGED doc

------------------------------------------------------------------------------
\* Anthropic: a node for each content block, announced when the block stops.
\* The endpoint sends its blocks one after the other.

block(k) == call.key[k]
blockOpen(k) == block(k) # NoNode /\ ~call.node[block(k)].done
OthersStopped(k) == \A j \in ItemKeys \ {k} : ~blockOpen(j)

AnthropicStart(k, kind) ==
  /\ dialect = "anthropic" /\ Receives
  /\ OthersStopped(k)
  /\ LET p == IF blockOpen(k) THEN Announced([Now EXCEPT !.s = saw(@)], block(k)) ELSE [Now EXCEPT !.s = saw(@)]
     IN Becomes([p EXCEPT !.s = [Start(@, kind) EXCEPT !.key[k] = newest(p.s) + 1]])

\* A delta for a block that was never announced still keeps its text; arguments do not.
AnthropicDelta(k, kind) ==
  /\ dialect = "anthropic" /\ Receives
  /\ OthersStopped(k)
  /\ block(k) # NoNode => call.node[block(k)].kind = kind
  /\ IF block(k) = NoNode /\ kind = ToolCall
     THEN call' = saw(call) /\ UNCHANGED doc
     ELSE LET s == IF block(k) # NoNode THEN saw(call)
                   ELSE [Start(saw(call), kind) EXCEPT !.key[k] = newest(call) + 1]
          IN Delta(s, doc, s.key[k], piece1)

AnthropicSignature(k) ==
  /\ dialect = "anthropic" /\ Receives
  /\ blockOpen(k) /\ call.node[block(k)].kind = Thinking
  /\ call' = [saw(call) EXCEPT !.node[block(k)].blob = TRUE]
  /\ UNCHANGED doc

AnthropicStop(k) ==
  /\ dialect = "anthropic" /\ Receives
  /\ IF blockOpen(k) THEN Becomes(Announced([Now EXCEPT !.s = saw(@)], block(k)))
     ELSE call' = saw(call) /\ UNCHANGED doc

------------------------------------------------------------------------------
\* Responses: items with or without an id, ended by an output_item.done whose
\* values are authoritative.  One message item streams at a time.

keyed(n) == \E k \in ItemKeys : call.key[k] = n
candidates(k, kind) ==
  {n \in 1 .. Len(call.node) : call.node[n].kind = kind /\ ~call.node[n].done /\ (k # NoKey => ~keyed(n))}

SetKey(s, k, n) == IF k = NoKey THEN s ELSE [s EXCEPT !.key[k] = n]
makeNode(s, k, kind) == SetKey(Start(s, kind), k, newest(s) + 1)

\* The call with the node of an item, and that node.
nodeFor(k, kind) ==
  LET s == saw(call)
      known == k # NoKey /\ call.key[k] # NoNode /\ call.node[call.key[k]].kind = kind
      adopted == CHOOSE n \in candidates(k, kind) : \A m \in candidates(k, kind) : m <= n
  IN CASE known -> [s |-> s, n |-> call.key[k]]
       [] ~known /\ candidates(k, kind) # {} -> [s |-> SetKey(s, k, adopted), n |-> adopted]
       [] OTHER -> [s |-> makeNode(s, k, kind), n |-> newest(call) + 1]

\* The endpoint's order: another message begins when the one before has ended.
OneMessageAtATime(n) == \A m \in 1 .. Len(call.node) : call.node[m].kind = Text /\ m # n => call.node[m].done

ResponsesAdded(k, kind) ==
  /\ dialect = "responses" /\ Receives
  /\ kind = Text => OneMessageAtATime(NoNode)
  /\ call' = makeNode(saw(call), k, kind)
  /\ UNCHANGED doc

ResponsesDelta(k, kind) ==
  /\ dialect = "responses" /\ Receives
  /\ kind = Text => OneMessageAtATime(nodeFor(k, kind).n)
  /\ LET f == nodeFor(k, kind) IN Delta(f.s, doc, f.n, piece1)

\* finishItem: a bare item keeps what streamed, but for arguments.  The endpoint ends
\* an item once.
ResponsesDone(k, kind, final) ==
  /\ dialect = "responses" /\ Receives
  /\ kind = Text => OneMessageAtATime(nodeFor(k, kind).n)
  /\ LET f == nodeFor(k, kind) IN ~f.s.node[f.n].done
  /\ LET f == nodeFor(k, kind)
         field == f.s.node[f.n]
         value == IF final = "as streamed" THEN field.value
                  ELSE IF final = "corrected" THEN <<Correction>> ELSE <<>>
         ended == IF value # <<>> \/ field.value = <<>> \/ kind = ToolCall THEN FinishWith(field, value) ELSE field
         full == IF kind = Thinking THEN [ended EXCEPT !.blob = TRUE] ELSE ended
     IN Becomes(Announced([s |-> [f.s EXCEPT !.node[f.n] = full], d |-> doc], f.n))

\* failed and error events are remembered; the stream goes on.
ResponsesFailed ==
  /\ dialect = "responses" /\ Receives
  /\ call' = [call EXCEPT !.failure = TRUE]
  /\ UNCHANGED doc

------------------------------------------------------------------------------
\* Completions: plain text, whose leading blank is not part of the message.

CompletionsText(pieces) ==
  /\ dialect = "completions" /\ Receives
  /\ LET s == IF call.text # NoNode THEN saw(call)
              ELSE [Start(saw(call), Text) EXCEPT !.text = newest(call) + 1]
     IN /\ call' = [s EXCEPT !.node[s.text].value = @ \o pieces, !.got = @ \cup {piece1}, !.err = gone]
        /\ doc' = docText(doc, pieces)

trimmed(parts) ==
  IF parts # <<>> /\ parts[1].text[1] = Blank
  THEN IF Len(parts[1].text) = 1 THEN Tail(parts) ELSE [parts EXCEPT ![1].text = Tail(@)]
  ELSE parts

------------------------------------------------------------------------------
\* The end of the stream.

\* finishNodes: structured reasoning without a reasoning node gets one, in front.
withDetails(s) ==
  IF ~s.details THEN s
  ELSE IF s.think # NoNode THEN [s EXCEPT !.node[s.think].blob = TRUE]
  ELSE [s EXCEPT !.node = Append(@, [Open(Thinking) EXCEPT !.blob = TRUE]), !.think = Len(s.node) + 1,
                 !.order = <<Len(s.node) + 1>> \o @]

allFinished(s) == [s EXCEPT !.node = [n \in DOMAIN @ |-> FinishNode(@[n])]]
finished(s) == allFinished(IF dialect = "openai" THEN withDetails(s) ELSE s)

completion(s) == IF dialect = "completions" THEN trimmed(MessageFromNodes(s)) ELSE MessageFromNodes(s)

\* announceRemaining, in the order of the message.
announceRemaining(p) ==
  LET upTo[i \in 0 .. Len(p.s.order)] ==
        IF i = 0 THEN p
        ELSE IF p.s.order[i] \in upTo[i - 1].s.announced THEN upTo[i - 1] ELSE Announced(upTo[i - 1], p.s.order[i])
  IN upTo[Len(p.s.order)]

StreamEnds ==
  /\ phase = "streaming" /\ ~call.err
  /\ phase' = "returned"
  /\ LET s == finished(call)
         p == IF dialect = "openai" THEN announceRemaining([s |-> s, d |-> doc]) ELSE [s |-> s, d |-> doc]
     IN /\ Becomes(p)
        /\ comp' = [has |-> ~s.failure \/ s.saw, parts |-> completion(s), streamed |-> TRUE,
                    err |-> s.failure \/ p.s.err]
  /\ UNCHANGED <<dialect, gone, events>>

\* The connection breaks, the endpoint reports an error, or a callback failed: what
\* was received is kept, and nothing more is announced.
StreamBreaks ==
  /\ phase = "streaming"
  /\ phase' = "returned"
  /\ call' = finished(call)
  /\ comp' = [has |-> call.saw, parts |-> completion(finished(call)), streamed |-> TRUE, err |-> TRUE]
  /\ UNCHANGED <<dialect, doc, gone, events>>

\* A server that ignored stream:true: the nodes arrive whole and unannounced.
ArrivesWhole(kinds) ==
  /\ phase = "streaming" /\ events = 0
  /\ LET s == [call EXCEPT !.node = [i \in DOMAIN kinds |-> Whole(kinds[i], <<i>>)], !.order = [i \in DOMAIN kinds |-> i],
                           !.saw = TRUE]
     IN /\ call' = s
        /\ comp' = [has |-> TRUE, parts |-> MessageFromNodes(s), streamed |-> FALSE, err |-> FALSE]
        /\ events' = Len(kinds)
  /\ phase' = "returned"
  /\ UNCHANGED <<dialect, doc, gone>>

\* The tail that was never announced; its text may be the element still open.
wroteRest(d, part) ==
  IF isPending(d, part) THEN [d EXCEPT !.pending = <<>>]
  ELSE [d EXCEPT !.parts = IF gone THEN @ ELSE Append(@, part), !.open = FALSE]

tail(d, parts) ==
  LET wrote[i \in 0 .. Len(parts)] ==
        IF i = 0 THEN d ELSE IF i <= d.sent THEN wrote[i - 1] ELSE wroteRest(wrote[i - 1], parts[i])
  IN wrote[Len(parts)]

\* finish: the server closes the document with what the call came to.
Finish ==
  /\ phase = "returned"
  /\ phase' = "closed"
  /\ doc' = IF ~comp.has
            THEN IF doc.begun THEN [doc EXCEPT !.ended = "error", !.open = FALSE] ELSE doc
            ELSE [tail(doc, comp.parts) EXCEPT !.begun = TRUE, !.open = FALSE,
                                               !.ended = IF comp.err THEN "error" ELSE "result"]
  /\ UNCHANGED <<dialect, call, comp, gone, events>>

ClientLeaves ==
  /\ ~gone /\ phase # "closed"
  /\ gone' = TRUE
  /\ UNCHANGED <<dialect, call, doc, phase, comp, events>>

Finals == {"as streamed", "corrected", "empty"}

Next ==
  \/ UsageReport
  \/ OpenaiContent \/ OpenaiReasoning \/ OpenaiDetails
  \/ \E k \in ItemKeys : OpenaiToolCall(k) \/ AnthropicSignature(k) \/ AnthropicStop(k)
  \/ \E k \in ItemKeys, kind \in Kinds : AnthropicStart(k, kind) \/ AnthropicDelta(k, kind)
  \/ \E k \in ItemKeys \cup {NoKey}, kind \in Kinds :
        ResponsesAdded(k, kind) \/ ResponsesDelta(k, kind) \/ \E final \in Finals : ResponsesDone(k, kind, final)
  \/ ResponsesFailed
  \/ CompletionsText(<<piece1>>) \/ CompletionsText(<<Blank, piece1>>)
  \/ StreamEnds \/ StreamBreaks
  \/ \E kinds \in UNION {[1 .. n -> Kinds] : n \in 1 .. 2} : ArrivesWhole(kinds)
  \/ Finish
  \/ ClientLeaves

Spec == Init /\ [][Next]_vars

------------------------------------------------------------------------------
\* Properties.

pieces(seqs) == UNION {{t[i] : i \in DOMAIN t} : t \in seqs}
held(f) == pieces({f.value} \cup Range(f.revs))

\* What the stream brought stays: whatever ended the call, every piece it delivered is
\* in the message it returns, or, where an item's end corrected it, in the revisions of
\* its field, and in one node only (streamstring.go Append, Finish; the decoders'
\* nodeFor, blockFor, finishNodes and completion).
NothingReceivedIsLost ==
  phase # "streaming" =>
    /\ call.got # {} => comp.has
    /\ call.got \subseteq pieces({comp.parts[i].text : i \in DOMAIN comp.parts})
                          \cup UNION {pieces(Range(call.node[n].revs)) : n \in 1 .. Len(call.node)}
    /\ \A m, n \in 1 .. Len(call.node) :
          m # n => held(call.node[m]) \cap held(call.node[n]) \subseteq {Correction}

\* The text parts of a list that follow each other, taken as one.
joined(parts, part) ==
  IF parts # <<>> /\ parts[Len(parts)].kind = Text /\ part.kind = Text
  THEN [parts EXCEPT ![Len(parts)].text = @ \o part.text]
  ELSE Append(parts, part)

merged(parts) ==
  LET taken[i \in 0 .. Len(parts)] == IF i = 0 THEN <<>> ELSE joined(taken[i - 1], parts[i])
  IN taken[Len(parts)]

\* The parts were announced as the message has them, in the order they began, each text
\* begun after the part before it was announced and announced before the part after it.
AnnouncedInTurn ==
  /\ IsPrefix(call.parts, comp.parts)
  /\ \A i \in DOMAIN call.order : call.order[i] = i
  /\ ~call.torn

NoTextRevised == \A n \in 1 .. Len(call.node) : call.node[n].kind = Text => call.node[n].revs = <<>>
NoBlankTrimmed == comp.parts = MessageFromNodes(call)

\* The document a client reads is the message the call returned, written once, though
\* its text went out as it streamed, its finished parts as they were announced and the
\* rest at the end, and however the stream broke off.  Three cases are excepted, in
\* which the code writes a text a second time: the parts were announced in another
\* order or state than the message's, or one of them while a text was under way (an
\* OpenAI stream does both, as it announces only reasoning before it ends); a text was
\* corrected when its item ended; a completions answer lost its leading blank
\* (stream.go OnText, OnPart, finish).
DocumentIsTheMessage ==
  phase = "closed" /\ comp.has /\ ~gone /\ AnnouncedInTurn /\ NoTextRevised /\ NoBlankTrimmed
    => merged(doc.parts) = merged(comp.parts)

=============================================================================
