-------------------------------- MODULE ArgHooks --------------------------------
(***************************************************************************)
(* internal/loop/arghook.go, argscan.go and callSink in session.go: a tool *)
(* watches one argument of its calls, is told its value the moment it has  *)
(* streamed whole, and may refuse the call there.  A refusal ends the      *)
(* model call, and the batch answers the refused call with it unrun.       *)
(*                                                                         *)
(* Arguments arrive in fragments split anywhere, calls beside each other,  *)
(* names late and ids perhaps never (an id that comes late finds the call  *)
(* as one that never came would, for a refusal ends the stream).  The      *)
(* bytes are those the scanner tells apart: k spells the watched key and o *)
(* another one, an escape before k still spells k, one before o is none.   *)
(***************************************************************************)
EXTENDS Integers, Sequences, SequencesExt, FiniteSets

CONSTANTS
  Byte,         \* the bytes of a text, those the scanner tells apart among them
  Decodes(_), Decoded(_),   \* json.Unmarshal of a key: whether it can, and the result
  TurnCalls,    \* the calls a model may make in the turn
  Turns,        \* what the calls of a turn may be: text, tool and id of each
  MaxRetries    \* times the request is sent again

Quote  == "\""
Escape == "\\"
Space  == " "
Opens  == {"{", "["}
Shuts  == {"}", "]"}
NoId   == ""

-----------------------------------------------------------------------------
(* The texts a call's arguments may be: members between braces, gaps or    *)
(* none, perhaps broken off behind one of the members.  A turn gives each  *)
(* call a text, what its tool watches, its id, whether its tool may be     *)
(* named late, and where its fragments may end.                            *)

\* Where the bytes of a value so far leave a reader: in a string or its
\* escape, and inside how many objects and arrays.
Reads(l, c) ==
  CASE l.in = "escape" -> [l EXCEPT !.in = "string"]
    [] l.in = "string" -> [l EXCEPT !.in = IF c = Escape THEN "escape" ELSE IF c = Quote THEN "value" ELSE "string"]
    [] l.in = "value"  -> [in |-> IF c = Quote THEN "string" ELSE "value",
                           depth |-> l.depth + (IF c \in Opens THEN 1 ELSE 0) - (IF c \in Shuts THEN 1 ELSE 0)]
ReadOf(b) ==
  LET L[i \in 0 .. Len(b)] == IF i = 0 THEN [in |-> "value", depth |-> 0] ELSE Reads(L[i - 1], b[i])
  IN  L
EndsAt(l) == l.in = "value" /\ l.depth = 0

\* A string, an object or an array ends at its last byte and not before, and
\* any other value holds nothing that would end it.
Closes(b) ==
  /\ b # <<>> /\ b[1] \in Opens \cup {Quote}
  /\ \A i \in 1 .. Len(b) - 1 : ~EndsAt(ReadOf(b)[i])
  /\ EndsAt(ReadOf(b)[Len(b)])
Plain(b) ==
  /\ b # <<>> /\ b[1] \notin Opens \cup {Quote}
  /\ \A i \in 1 .. Len(b) : b[i] \notin {",", "}", Space}

LegalMember(m) ==
  /\ m \in [key : Seq(Byte), value : Seq(Byte)]
  /\ Closes(<<Quote>> \o m.key \o <<Quote>>) /\ (Closes(m.value) \/ Plain(m.value))
LegalText(t) ==
  /\ DOMAIN t = {"members", "gap", "broken"}
  /\ t.gap \in Seq({Space}) /\ t.broken \in Nat
  /\ Len(t.members) \in Nat /\ DOMAIN t.members = 1 .. Len(t.members)
  /\ \A i \in 1 .. Len(t.members) : LegalMember(t.members[i])
LegalAsk(ask) ==
  /\ DOMAIN ask = {"text", "hooks", "id", "late", "cuts"}
  /\ LegalText(ask.text) /\ ask.late \in BOOLEAN /\ ask.cuts \subseteq Nat

\* The arguments are JSON as far as they go, and an id is one call's.
ASSUME LegalTurns ==
  /\ Opens \cup Shuts \cup {Quote, Escape, Space, ",", ":", "x"} \subseteq Byte
  /\ MaxRetries \in Nat /\ "ran" \notin TurnCalls
  /\ \A turn \in Turns :
       /\ DOMAIN turn = TurnCalls
       /\ \A c \in TurnCalls : LegalAsk(turn[c])
       /\ \A c, d \in TurnCalls : turn[c].id = turn[d].id => c = d \/ turn[c].id = NoId

VARIABLES
  wants,        \* what each call asks
  begun,        \* the calls that have begun
  arrived,      \* bytes of each call's arguments in this try
  named,        \* bytes that had arrived before the tool's name; Unnamed
  scan,         \* callSink.scans
  heard,        \* history: what each call's hook was told in this try
  refused,      \* callSink.refused: for an id, the call whose refusal is kept
  refusers,     \* history: the calls whose hook refused
  inChunk,      \* the calls the current chunk has brought a fragment of
  ended,        \* how the stream ended, or "no"
  answers,      \* what the batch answered each call
  retries

hookVars ==
  <<wants, begun, arrived, named, scan, heard, refused, refusers, inChunk, ended, answers,
    retries>>

-----------------------------------------------------------------------------
(* What a text is written as.                                              *)
Member(m, gap) == <<Quote>> \o m.key \o <<Quote>> \o gap \o <<":">> \o gap \o m.value

\* What stands between member i and the next: a comma, or what ends the scan.
Between(t, i) ==
  IF i = t.broken THEN <<Space, "x">>
  ELSE t.gap \o (IF i < Len(t.members) THEN <<",">> ELSE <<"}">>) \o t.gap

\* A text with one member more.  It is known to be whole at the last byte of a
\* string, object or array, and one byte later for anything else.
Joined(before, t, i) ==
  LET m      == t.members[i]
      upto   == before.bytes \o Member(m, t.gap)
      heeded == /\ \A j \in 1 .. i : Decodes(t.members[j].key)
                /\ \A j \in 1 .. i - 1 : j # t.broken
  IN  [bytes   |-> upto \o Between(t, i),
       members |-> IF heeded THEN Append(before.members, [key |-> Decoded(m.key), value |-> m.value])
                   ELSE before.members,
       at      |-> IF heeded THEN Append(before.at, Len(upto) + (IF m.value[1] \in Opens \cup {Quote} THEN 0 ELSE 1))
                   ELSE before.at]

\* The bytes of a text, and the members a scan should report of it with the
\* bytes that complete them: none behind a break or a key that does not decode.
Written(t) ==
  LET Part[i \in 0 .. Len(t.members)] ==
        IF i = 0 THEN [bytes |-> <<"{">> \o t.gap, members |-> <<>>, at |-> <<>>]
        ELSE Joined(Part[i - 1], t, i)
  IN  IF Len(t.members) = 0 THEN [bytes |-> <<"{">> \o <<"}">>, members |-> <<>>, at |-> <<>>]
      ELSE Part[Len(t.members)]

-----------------------------------------------------------------------------
(* argScanner: a byte at a time.                                           *)
NewScanner ==
  [state |-> "start", key |-> <<>>, value |-> <<>>, esc |-> FALSE, inStr |-> FALSE,
   depth |-> 0, out |-> <<>>]
Unseen == [NewScanner EXCEPT !.state = "unseen"]
Nil    == [NewScanner EXCEPT !.state = "nil"]
ScanEnded(s) == s.state \in {"nil", "done", "dead"}

Goes(s, state) == [s EXCEPT !.state = state]
Adds(s, c)     == [s EXCEPT !.value = Append(@, c), !.esc = FALSE]
Escapes(s, c)  == [Adds(s, c) EXCEPT !.esc = TRUE]

\* complete: a key that does not decode stops the scan.
Complete(s) ==
  IF Decodes(s.key)
  THEN [s EXCEPT !.state = "afterValue",
                 !.out = Append(@, [key |-> Decoded(s.key), value |-> s.value])]
  ELSE Goes(s, "dead")

AfterValue(s, c) ==
  IF s.state = "dead" \/ c = Space THEN s
  ELSE Goes(s, CASE c = "," -> "keyOrEnd" [] c = "}" -> "done" [] OTHER -> "dead")

InKey(s, c) ==
  LET more == [s EXCEPT !.key = Append(@, c)]
  IN  IF s.esc THEN [more EXCEPT !.esc = FALSE]
      ELSE CASE c = Escape -> [more EXCEPT !.esc = TRUE]
             [] c = Quote -> Goes(s, "colon")
             [] OTHER -> more

ValueStart(s, c) ==
  LET fresh == [s EXCEPT !.value = <<c>>, !.esc = FALSE, !.inStr = FALSE, !.depth = 1]
  IN  CASE c = Space -> s
        [] c = Quote -> Goes(fresh, "valString")
        [] c \in Opens -> Goes(fresh, "valNested")
        [] OTHER -> Goes(fresh, "valScalar")

InString(s, c) ==
  IF s.esc THEN Adds(s, c)
  ELSE CASE c = Escape -> Escapes(s, c)
         [] c = Quote -> Complete(Adds(s, c))
         [] OTHER -> Adds(s, c)

InNested(s, c) ==
  IF s.esc THEN Adds(s, c)
  ELSE IF s.inStr THEN
    CASE c = Escape -> Escapes(s, c)
      [] c = Quote -> [Adds(s, c) EXCEPT !.inStr = FALSE]
      [] OTHER -> Adds(s, c)
  ELSE
    CASE c = Quote -> [Adds(s, c) EXCEPT !.inStr = TRUE]
      [] c \in Opens -> [Adds(s, c) EXCEPT !.depth = s.depth + 1]
      [] c \in Shuts ->
           IF s.depth = 1 THEN Complete([Adds(s, c) EXCEPT !.depth = 0])
           ELSE [Adds(s, c) EXCEPT !.depth = s.depth - 1]
      [] OTHER -> Adds(s, c)

\* The delimiter of a scalar belongs to the object.
InScalar(s, c) ==
  IF c \in {",", "}", Space} THEN AfterValue(Complete(s), c) ELSE Adds(s, c)

\* step; a state that is over stays.
StepScan(s, c) ==
  CASE s.state = "start" ->
         IF c = Space THEN s ELSE Goes(s, IF c = "{" THEN "keyOrEnd" ELSE "dead")
    [] s.state = "keyOrEnd" ->
         CASE c \in {Space, ","} -> s
           [] c = Quote -> [s EXCEPT !.state = "key", !.key = <<>>, !.esc = FALSE]
           [] OTHER -> Goes(s, IF c = "}" THEN "done" ELSE "dead")
    [] s.state = "key" -> InKey(s, c)
    [] s.state = "colon" ->
         IF c = Space THEN s ELSE Goes(s, IF c = ":" THEN "valueStart" ELSE "dead")
    [] s.state = "valueStart" -> ValueStart(s, c)
    [] s.state = "valString" -> InString(s, c)
    [] s.state = "valNested" -> InNested(s, c)
    [] s.state = "valScalar" -> InScalar(s, c)
    [] s.state = "afterValue" -> AfterValue(s, c)
    [] OTHER -> s

\* feed: the scanner behind the delta, with the members it completed in out.
Scanned(s, delta) ==
  LET Fed[n \in 0 .. Len(delta)] == IF n = 0 THEN s ELSE StepScan(Fed[n - 1], delta[n])
  IN  Fed[Len(delta)]
Feed(s, delta) == Scanned([s EXCEPT !.out = <<>>], delta)

-----------------------------------------------------------------------------
Unnamed == -1
IsNamed(at) == at # Unnamed

\* The hooks of the tool a call names, and what they are told of some members;
\* OnArg's hook is of a string.
Hooks(c, at) == IF IsNamed(at) THEN wants[c].hooks ELSE {}
Watched(hooks, m) == m.key \in hooks /\ m.value[1] = Quote
Heeded(hooks, members) ==
  LET Of[i \in 0 .. Len(members)] ==
        IF i = 0 THEN <<>>
        ELSE IF Watched(hooks, members[i]) THEN Append(Of[i - 1], members[i]) ELSE Of[i - 1]
  IN  Of[Len(members)]
Told(c, at, members) == Heeded(Hooks(c, at), members)

HooksInit ==
  /\ \E turn \in Turns : wants = [c \in TurnCalls |-> [turn[c] EXCEPT !.text = Written(@)]]
  /\ begun = {}
  /\ arrived = [c \in TurnCalls |-> 0]
  /\ named = [c \in TurnCalls |-> Unnamed]
  /\ scan = [c \in TurnCalls |-> Unseen]
  /\ heard = [c \in TurnCalls |-> <<>>]
  /\ refused = <<>>
  /\ refusers = {}
  /\ inChunk = {}
  /\ ended = "no"
  /\ answers = <<>>
  /\ retries = 0

\* watchArgs' look-up: a name that has arrived and watches nothing is never
\* scanned.
ScannerFor(c, at) ==
  IF scan[c].state # "unseen" THEN scan[c]
  ELSE IF ~IsNamed(at) \/ Hooks(c, at) # {} THEN NewScanner ELSE Nil

\* A hook passes on what it is told; the scan goes on.
Accepts(c, fed, told) ==
  /\ scan' = [scan EXCEPT ![c] = [fed EXCEPT !.out = <<>>]]
  /\ heard' = [heard EXCEPT ![c] = @ \o told]
  /\ UNCHANGED <<refused, refusers>>

\* Or it refuses at one of the members: the rest of them are not looked at.
Refuses(c, told) ==
  \E j \in 1 .. Len(told) :
    /\ scan' = [scan EXCEPT ![c] = Nil]
    /\ heard' = [heard EXCEPT ![c] = @ \o SubSeq(told, 1, j)]
    /\ refused' = [id \in DOMAIN refused \cup {wants[c].id} |-> IF id = wants[c].id THEN c ELSE refused[id]]
    /\ refusers' = refusers \cup {c}

\* A fragment of a chunk: a call begins or goes on, by some bytes or none, its
\* tool is perhaps named.  The chunk's other fragments follow even a refusal.
Fragment(c) ==
  /\ ended = "no"
  /\ c \notin inChunk
  /\ \E to \in wants[c].cuts \cap (arrived[c] .. Len(wants[c].text.bytes)), names \in BOOLEAN :
       LET at    == IF names /\ ~IsNamed(named[c]) THEN arrived[c] ELSE named[c]
           delta == SubSeq(wants[c].text.bytes, arrived[c] + 1, to)
           old   == ScannerFor(c, at)
           fed   == IF ScanEnded(old) THEN old ELSE Feed(old, delta)
           told  == Told(c, at, fed.out)
       IN  /\ c \in begun => delta # <<>> \/ at # named[c]
           /\ names => ~IsNamed(named[c])
           /\ ~wants[c].late => (names <=> c \notin begun)
           /\ arrived' = [arrived EXCEPT ![c] = to]
           /\ named' = [named EXCEPT ![c] = at]
           /\ \/ delta = <<>> /\ UNCHANGED <<scan, heard, refused, refusers>>
              \/ delta # <<>> /\ Accepts(c, fed, told)
              \/ delta # <<>> /\ Refuses(c, told)
  /\ begun' = begun \cup {c}
  /\ inChunk' = inChunk \cup {c}
  /\ UNCHANGED <<wants, ended, answers, retries>>

\* The decoder asks the sink once a chunk is done; a refusal ends the call.
ChunkEnds ==
  /\ ended = "no"
  /\ inChunk # {}
  /\ inChunk' = {}
  /\ ended' = IF refusers # {} THEN "refused" ELSE "no"
  /\ UNCHANGED <<wants, begun, arrived, named, scan, heard, refused, refusers, answers, retries>>

\* Mutant: the scans of the last try go on.
RetryKeepsScans ==
  /\ ended = "no"
  /\ inChunk = {}
  /\ retries < MaxRetries
  /\ retries' = retries + 1
  /\ arrived' = [c \in TurnCalls |-> 0]
  /\ named' = [c \in TurnCalls |-> IF IsNamed(named[c]) THEN 0 ELSE Unnamed]
  /\ heard' = [c \in TurnCalls |-> <<>>]
  /\ UNCHANGED <<wants, begun, scan, refused, refusers, inChunk, ended, answers>>

\* The provider sends the call again into the same nodes: the arguments start
\* over, and every scan does too.
Retry ==
  /\ ended = "no"
  /\ inChunk = {}
  /\ retries < MaxRetries
  /\ retries' = retries + 1
  /\ arrived' = [c \in TurnCalls |-> 0]
  /\ named' = [c \in TurnCalls |-> IF IsNamed(named[c]) THEN 0 ELSE Unnamed]
  /\ scan' = [c \in TurnCalls |-> Unseen]
  /\ heard' = [c \in TurnCalls |-> <<>>]
  /\ UNCHANGED <<wants, begun, refused, refusers, inChunk, ended, answers>>

\* The stream ends, broken off or failed by another callback, or whole.
HookStreamEnds ==
  /\ ended = "no"
  /\ inChunk = {}
  /\ ended' \in {"done", "failed"}
  /\ UNCHANGED <<wants, begun, arrived, named, scan, heard, refused, refusers, inChunk,
                 answers, retries>>

\* A provider that cannot stream: the calls are added when it returns.
CallsArriveWhole ==
  /\ ended = "no"
  /\ begun = {}
  /\ begun' \in SUBSET TurnCalls
  /\ named' = [c \in TurnCalls |-> IF c \in begun' THEN 0 ELSE Unnamed]
  /\ arrived' = [c \in TurnCalls |-> IF c \in begun' THEN Len(wants[c].text.bytes) ELSE 0]
  /\ ended' = "done"
  /\ UNCHANGED <<wants, scan, heard, refused, refusers, inChunk, answers, retries>>

\* The batch: a refused call is answered with the refusal, any other runs.
Dispatch ==
  /\ ended \in {"done", "refused"}
  /\ answers = <<>>
  /\ answers' = [c \in begun |->
                   IF wants[c].id \in DOMAIN refused THEN refused[wants[c].id] ELSE "ran"]
  /\ UNCHANGED <<wants, begun, arrived, named, scan, heard, refused, refusers, inChunk, ended,
                 retries>>

HooksNext ==
  \/ \E c \in TurnCalls : Fragment(c)
  \/ ChunkEnds \/ Retry \/ HookStreamEnds \/ CallsArriveWhole \/ Dispatch

HooksSpec == HooksInit /\ [][HooksNext]_hookVars

-----------------------------------------------------------------------------
\* What the hooks should have been told: what streamed whole after the name came.
WholeBy(text, n) == Cardinality({i \in DOMAIN text.at : text.at[i] <= n})
Due(c) ==
  LET text == wants[c].text
  IN  IF ~IsNamed(named[c]) THEN <<>>
      ELSE Heeded(wants[c].hooks, SubSeq(text.members, WholeBy(text, named[c]) + 1, WholeBy(text, arrived[c])))

\* A hook hears each value of its argument once, whole, in order and as soon as
\* it is, wherever the stream was split, however calls interleave and after a
\* retry; only what was whole before the tool's name came is passed over.  A
\* call that its own hook refused is answered with that refusal and not run,
\* and no other call is, but for calls without an id beside a refused one of
\* those (watchArgs, argScanner, callSink.Retry, runOn's dispatch).
RefusalIsTheAnswer ==
  /\ \A c \in begun : scan[c].state # "unseen" =>
       IF c \in refusers
       THEN heard[c] # <<>> /\ IsPrefix(heard[c], Due(c))
       ELSE heard[c] = Due(c)
  /\ \A c \in DOMAIN answers :
       /\ c \in refusers /\ wants[c].id # NoId => answers[c] = c
       /\ c \in refusers => answers[c] # "ran"
       /\ answers[c] # "ran" => answers[c] = c \/ wants[c].id = NoId

================================================================================
