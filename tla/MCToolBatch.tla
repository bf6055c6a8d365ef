------------------------------ MODULE MCToolBatch ------------------------------
(***************************************************************************)
(* What becomes of a turn's calls, in two parts that share no state: a     *)
(* behavior is one of the chosen part, and the other rests.                *)
(*                                                                         *)
(*   batch  three calls of every combination of kinds, with and without    *)
(*          an approver                                                    *)
(*   hooks  two calls: one of any text, named early or late, beside a      *)
(*          short one; two short ones, with ids or without; one retry      *)
(***************************************************************************)
EXTENDS ToolBatch, ArgHooks

VARIABLE part

JsonDecodes(raw) == ~ \E i \in 1 .. Len(raw) - 1 : raw[i] = Escape /\ raw[i + 1] = "o"
JsonDecoded(raw) == SelectSeq(raw, LAMBDA b : b # Escape)

(* What the first call may ask: each kind of key and of value before a     *)
(* watched string or a watched number or nothing, or broken off.  An       *)
(* escape before k still spells k, one before o is none.                   *)
HookBytes  == {"{", "}", "[", "]", "\"", "\\", " ", ",", ":", "k", "o", "x"}
HookKeys   == {<<"k">>, <<"o">>, <<"\\", "k">>, <<"o", "\\", "\"">>, <<"\\", "o">>}
HookString == <<"\"", "x", "\"">>
HookValues ==
  {HookString, <<"\"", "\\", "\"", "\\", "\\", "\"">>, <<"x", "x">>,
   <<"{", "\"", "}", "\\", "\"", "\"", "[", "]", "}">>}
HookText(members, gap, broken) == [members |-> members, gap |-> gap, broken |-> broken]
HookFirst  == [key |-> <<"k">>, value |-> HookString]
HookTexts ==
  {HookText(<<m, HookFirst>>, <<>>, 0) : m \in [key : HookKeys, value : HookValues]}
    \cup {HookText(<<HookFirst, [key |-> <<"k">>, value |-> v]>>, <<" ">>, b) :
            v \in HookValues, b \in {0, 1}}
    \cup {HookText(<<>>, <<>>, 0)}

HookAsk(text, hooked, id, late, cuts) ==
  [text |-> text, hooks |-> IF hooked THEN {<<"k">>} ELSE {}, id |-> id, late |-> late, cuts |-> cuts]
HookTurns ==
  LET Turn(text, id, late, hooked, secondId) ==
        [first  |-> HookAsk(text, TRUE, id, late, 0 .. 40),
         second |-> HookAsk(HookText(<<HookFirst>>, <<>>, 0), hooked, secondId, FALSE, {0, 5, 9})]
  IN  {Turn(text, "1", late, TRUE, "2") : text \in HookTexts, late \in BOOLEAN}
        \cup {Turn(HookText(<<HookFirst>>, <<>>, 0), id, FALSE, hooked, secondId) :
                id \in {"1", ""}, hooked \in BOOLEAN, secondId \in {"2", ""}}

BatchRests ==
  /\ disp = "done" /\ kind = [c \in Calls |-> "read"] /\ approver = FALSE /\ next = N + 1
  /\ call = [c \in Calls |-> "over"] /\ result = [c \in Calls |-> "ran"] /\ firstErr = FALSE
  /\ nodes = [c \in Calls |-> [call |-> c, how |-> "ran"]] /\ row = <<"complete">> /\ executed = Calls
HooksRest ==
  /\ wants = <<>> /\ begun = {} /\ arrived = <<>> /\ named = <<>> /\ scan = <<>>
  /\ heard = <<>> /\ refused = <<>> /\ refusers = {} /\ inChunk = {} /\ ended = "done"
  /\ answers = <<>> /\ retries = 0

TurnInit ==
  \/ part = "batch" /\ Init /\ HooksRest
  \/ part = "hooks" /\ HooksInit /\ BatchRests
BatchStep == part = "batch" /\ Next /\ UNCHANGED <<part, hookVars>>
HooksStep == part = "hooks" /\ HooksNext /\ UNCHANGED <<part, vars>>
HooksDone == part = "hooks" /\ (ended = "failed" \/ answers # <<>>) /\ UNCHANGED <<part, vars, hookVars>>
TurnNext  == BatchStep \/ HooksStep \/ HooksDone
TurnSpec  == TurnInit /\ [][TurnNext]_<<part, vars, hookVars>> /\ Fairness

================================================================================
