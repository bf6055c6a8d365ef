---------------------------- MODULE DocumentStream -----------------------------
(***************************************************************************)
(* Documents that ride back to back on a stream (core/docread.go): there   *)
(* is no framing, a document ends where its root element closes.  A peer   *)
(* writes legal XML a token at a time and the stream may end anywhere; the *)
(* reader follows the bytes through docScanner.                            *)
(*                                                                         *)
(* A byte is one of the characters the scanner tells apart; any other is   *)
(* Letter, a name is one Letter, and so is CDATA[.  maxDocument is not     *)
(* modelled.                                                               *)
(***************************************************************************)
EXTENDS Integers, Sequences, SequencesExt

CONSTANTS
  MaxDocuments, MaxDepth, MaxTokens,   \* bounds: documents, their depth, and tokens of one
  AttributeLists,   \* what the attributes of a tag may be: lists of a quote and a value
  CharTexts, DataBodies, CommentBodies, Instructions   \* what else a document may hold

Letter == "x"
White  == " "
Quotes == {"\"", "'"}
Byte   == {"<", ">", "/", "!", "?", "-", "[", "]", "=", White, Letter} \cup Quotes

Within(part, body) ==
  \E i \in 0 .. Len(body) - Len(part) : SubSeq(body, i + 1, i + Len(part)) = part

(* What XML lets a peer write, which forbids any -- in a comment.          *)
ASSUME LegalXML ==
  /\ MaxDocuments \in Nat /\ MaxDepth \in Nat /\ MaxTokens \in Nat
  /\ \A l \in AttributeLists :
        l \in Seq([quote : Quotes, value : Seq(Byte)]) /\ \A i \in 1 .. Len(l) : ~Within(<<l[i].quote>>, l[i].value)
  /\ \A b \in CharTexts : b \in Seq(Byte \ {"<"})
  /\ \A b \in DataBodies : b \in Seq(Byte) /\ ~Within(<<"]", "]", ">">>, b)
  /\ \A b \in CommentBodies : b \in Seq(Byte) /\ ~Within(<<"-", "-", ">">>, b)
  /\ \A b \in Instructions : b \in Seq(Byte) /\ b # <<>> /\ b[1] = Letter /\ ~Within(<<"?", ">">>, b)

(* No comment begins with what would end it behind its own "<!--".         *)
NoneCutShort == \A b \in CommentBodies : \A e \in {<<">">>, <<"-", ">">>} : ~IsPrefix(e, b)

VARIABLES
  depth,     \* elements the peer has open
  tokens,    \* tokens of the document the peer is writing, none between documents
  written,   \* documents the peer has finished
  scanner,   \* docScanner
  begun,     \* ReadDocument has bytes of a document
  returned,  \* documents ReadDocument has returned
  over       \* how the stream ended: no, cleanly, or inside a document

streamVars == <<depth, tokens, written, scanner, begun, returned, over>>

newScanner == [state |-> "outside", depth |-> 0, started |-> FALSE, tagKind |-> "open", lead |-> <<>>,
               quote |-> "none", ended |-> FALSE]
StreamInit ==
  /\ depth = 0 /\ tokens = 0 /\ written = 0
  /\ scanner = newScanner /\ begun = FALSE /\ returned = 0 /\ over = "no"

-----------------------------------------------------------------------------
(* docScanner: one byte, and the tag it may end.                           *)

closeTag(s) ==
  LET t == [s EXCEPT !.state = "outside"]
  IN  CASE s.tagKind = "selfClosing" -> [t EXCEPT !.started = TRUE, !.ended = ~s.started]
        [] s.tagKind = "open"        -> [t EXCEPT !.started = TRUE, !.depth = @ + 1]
        [] s.tagKind = "close"       -> [t EXCEPT !.depth = @ - 1, !.ended = s.started /\ s.depth = 1]

(* What a tag is, from the bytes right after its "<".                      *)
lead(s, b) ==
  LET l == Append(s.lead, b)
      t == [s EXCEPT !.lead = l]
      inTag(kind) == IF b = ">" THEN closeTag([t EXCEPT !.tagKind = kind])
                     ELSE [t EXCEPT !.state = "tag", !.tagKind = kind]
  IN  CASE l[1] = "?" -> [t EXCEPT !.state = "PI"]
        [] l[1] = "!" -> CASE l = <<"!", "-", "-">>    -> [t EXCEPT !.state = "comment"]
                           [] l = <<"!", "[", Letter>> -> [t EXCEPT !.state = "CDATA"]
                           [] IsStrictPrefix(l, <<"!", "-", "-">>) \/ IsStrictPrefix(l, <<"!", "[", Letter>>) -> t
                           [] OTHER -> inTag("open")
        [] l[1] = "/" -> inTag("close")
        [] OTHER      -> inTag("open")

(* tagUnquoted is as if a delimiter inside an attribute's value counted.   *)
tagUnquoted(s, b) ==
  CASE b = "/" -> [s EXCEPT !.tagKind = "selfClosing"]
    [] b = ">" -> closeTag(s)
    [] OTHER   -> [s EXCEPT !.tagKind = IF @ = "selfClosing" /\ b # White THEN "open" ELSE @]
tag(s, b) ==
  CASE s.quote # "none" -> [s EXCEPT !.quote = IF b = @ THEN "none" ELSE @]
    [] s.quote = "none" /\ b \in Quotes -> [s EXCEPT !.quote = b]
    [] OTHER -> tagUnquoted(s, b)

until(s, b, end) ==
  LET l == Append(s.lead, b)
  IN  [s EXCEPT !.lead = l, !.state = IF IsSuffix(end, l) THEN "outside" ELSE @]

feed(s, b) ==
  CASE s.ended             -> s
    [] s.state = "outside" -> IF b = "<" THEN [s EXCEPT !.state = "lead", !.lead = <<>>] ELSE s
    [] s.state = "lead"    -> lead(s, b)
    [] s.state = "tag"     -> tag(s, b)
    [] s.state = "comment" -> until(s, b, <<"-", "-", ">">>)
    [] s.state = "CDATA"   -> until(s, b, <<"]", "]", ">">>)
    [] s.state = "PI"      -> until(s, b, <<"?", ">">>)

(* ReadDocument over the bytes of one token; a token holds no more than    *)
(* one document's end.                                                     *)
scanned(s, bytes) ==
  LET behind[i \in 0 .. Len(bytes)] == IF i = 0 THEN s ELSE feed(behind[i - 1], bytes[i])
  IN  behind[Len(bytes)]

ReadDocument(bytes) ==
  LET s == scanned(scanner, bytes)
  IN  IF s.ended
      THEN scanner' = newScanner /\ begun' = FALSE /\ returned' = returned + 1
      ELSE scanner' = s /\ begun' = (begun \/ \E b \in ToSet(bytes) : b # White) /\ UNCHANGED returned

-----------------------------------------------------------------------------
(* The peer's tokens.                                                      *)

attribute(a) == <<White, Letter, "=", a.quote>> \o a.value \o <<a.quote>>
attributes(list) ==
  LET upTo[i \in 0 .. Len(list)] == IF i = 0 THEN <<>> ELSE upTo[i - 1] \o attribute(list[i])
  IN  upTo[Len(list)]

TagEnds   == {<<">">>, <<White, ">">>}
Opening   == {<<"<", Letter>> \o attributes(l) \o end : l \in AttributeLists, end \in TagEnds}
EmptyTags == {<<"<", Letter>> \o attributes(l) \o end : l \in AttributeLists, end \in {<<"/", ">">>, <<White, "/", ">">>}}
Closing   == {<<"<", "/", Letter>> \o end : end \in TagEnds}
Comments  == {<<"<", "!", "-", "-">> \o b \o <<"-", "-", ">">> : b \in CommentBodies}
Data      == {<<"<", "!", "[", Letter>> \o b \o <<"]", "]", ">">> : b \in DataBodies}
PIs       == {<<"<", "?">> \o b \o <<"?", ">">> : b \in Instructions}

MayWrite == over = "no" /\ written < MaxDocuments /\ tokens < MaxTokens
Put(bytes, deeper) ==
  /\ depth' = depth + deeper
  /\ LET closed == depth + deeper = 0 /\ bytes \in EmptyTags \cup Closing
     IN  /\ written' = IF closed THEN written + 1 ELSE written
         /\ tokens' = IF closed THEN 0 ELSE tokens + 1
  /\ ReadDocument(bytes) /\ UNCHANGED over

Opens   == MayWrite /\ depth < MaxDepth /\ \E t \in Opening : Put(t, 1)
Empty   == MayWrite /\ \E t \in EmptyTags : Put(t, 0)
Close   == over = "no" /\ written < MaxDocuments /\ depth > 0 /\ \E t \in Closing : Put(t, -1)
Content == MayWrite /\ depth > 0 /\ \E t \in CharTexts \cup Data \cup Comments \cup PIs : Put(t, 0)
Misc    == MayWrite /\ depth = 0 /\ \E t \in {<<White>>} \cup Comments \cup PIs : Put(t, 0)

(* The stream ends, in a document or between two.                          *)
Ends ==
  /\ over = "no" /\ over' = IF begun THEN "inside" ELSE "cleanly"
  /\ UNCHANGED <<depth, tokens, written, scanner, begun, returned>>
Rests == over # "no" /\ UNCHANGED streamVars

StreamNext == Opens \/ Empty \/ Close \/ Content \/ Misc \/ Ends \/ Rests
StreamSpec == StreamInit /\ [][StreamNext]_streamVars

-----------------------------------------------------------------------------
(* The reader has returned just the documents the peer has finished, and a *)
(* stream that ends is cut inside a document exactly when the peer had one *)
(* begun: whatever looks like a tag in a comment, a CDATA section, a       *)
(* processing instruction or an attribute's value (ReadDocument).          *)
DocumentsComeApart ==
  /\ returned = written
  /\ over = "cleanly" => depth = 0
  /\ begun => tokens > 0

===============================================================================
