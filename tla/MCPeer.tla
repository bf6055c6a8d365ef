--------------------------------- MODULE MCPeer ---------------------------------
(***************************************************************************)
(* What the peer of one small instance writes: attributes of either quote  *)
(* that hold the other, a slash or the end of a tag, and in a text, a      *)
(* comment, a CDATA section or an instruction what looks like a tag and    *)
(* the beginning of its own end.                                           *)
(***************************************************************************)
EXTENDS DocumentStream

PeerValues     == {<<Letter>>, <<"/", ">">>, <<"'", "/">>, <<">", "\"">>}
PeerAttributes ==
  {<<>>} \cup {<<a>> : a \in {x \in [quote : Quotes, value : PeerValues] : ~Within(<<x.quote>>, x.value)}}
    \cup {<<[quote |-> "'", value |-> <<>>], [quote |-> "\"", value |-> <<"/", ">">>]>>}
PeerTexts        == {<<Letter>>, <<White>>, <<"/", ">">>, <<"'">>}
PeerData         == {<<>>, <<"<", "/", Letter, ">">>, <<"]", ">">>, <<"<", Letter, "/", ">", "]">>}
PeerComments     == {<<>>, <<"<", "/", Letter, ">">>, <<"-", Letter, ">">>, <<"'", "<", Letter, "/", ">">>}
PeerInstructions == {<<Letter, White, "'", "?", "'", ">", Letter>>}

(* A comment that is legal but begins with what would end it.              *)
CutComments == {<<"-", ">", "<", Letter, ">">>}

=================================================================================
