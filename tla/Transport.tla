-------------------------------- MODULE Transport --------------------------------
(***************************************************************************)
(* How one model call becomes requests: the layers a client stacks on a    *)
(* provider, and the rate limiter every request passes.                    *)
(*                                                                         *)
(*   paramStripper    core/paramstrip.go    drops a parameter an endpoint  *)
(*                                          refuses, and remembers it      *)
(*   retryingProvider extras/retry.go       transient failures and empty   *)
(*                                          completions                    *)
(*   signature repair core/thinkingrepair.go   (anthropic)                 *)
(*   completeOnce     core/openai.go        without the default            *)
(*                                          stream_options (openai)        *)
(*   RateLimiter      extras/ratelimit.go                                  *)
(*                                                                         *)
(* Several callers use one stack; the stripper's and the repair's memories *)
(* and the limiter are what they share.  A response goes up layer by       *)
(* layer; a layer passes it on or sends again.                             *)
(***************************************************************************)
EXTENDS Integers, FiniteSets

CONSTANTS
  Callers,
  Keys,          \* parameters a caller may put into Extra
  Spelling,      \* the name a key stands for, whatever its case and underscores
  Sigs,          \* thinking signatures replayed with a conversation
  Attempts,      \* RetryPolicy.Attempts
  Interval,      \* RateLimiter.interval
  MaxTime,       \* bound: ticks of the clock
  MaxCalls       \* bound: model calls

ASSUME AttemptsBegin == Attempts \in Nat \ {0} /\ Interval \in Nat \ {0}
ASSUME SpellingsAreNames == DOMAIN Spelling = Keys

VARIABLES
  stripped,  \* paramStripper.stripped
  bad,       \* thinkingSignatureRepair.bad
  next,      \* RateLimiter.next
  clock,
  stage,     \* where each caller is
  call,      \* its call
  calls,
  slots,     \* history: the starts the limiter gave out
  refused    \* history: names an endpoint refused and the stripper acted on

transportVars == <<stripped, bad, next, clock, stage, call, calls, slots, refused>>

NoName  == "none"
NoReply == [comp |-> "none", err |-> "none", name |-> NoName, sig |-> NoName]
NoCall  == [dialect |-> "plain", keys |-> {}, sigs |-> {}, base |-> {}, repaired |-> FALSE, opts |-> TRUE,
            attempt |-> 1, again |-> FALSE, reply |-> NoReply, slot |-> 0,
            saw |-> FALSE, sends |-> 0, known |-> {}, knownSigs |-> {}]

TransportInit ==
  /\ stripped = {} /\ bad = {} /\ next = 0 /\ clock = 0
  /\ stage = [c \in Callers |-> "idle"]
  /\ call = [c \in Callers |-> NoCall]
  /\ calls = 0 /\ slots = {} /\ refused = {}

Moves(c, step)  == stage' = [stage EXCEPT ![c] = step]
Keeps(c, entry) == call' = [call EXCEPT ![c] = entry]
limiter       == <<next, clock, slots>>
memory        == <<stripped, bad, refused>>

\* Mutant: names are compared as they are spelled.
normalizeAsIs(key) == key

normalizeParamName(key) == Spelling[key]

withoutStripped(keys)   == {k \in keys : normalizeParamName(k) \notin stripped}
withoutBadSignatures(s) == s \ bad

\* Complete on the outermost layer: what is remembered is left out.
Begin(c) ==
  /\ stage[c] = "idle" /\ calls < MaxCalls
  /\ calls' = calls + 1
  /\ \E dialect \in {"openai", "anthropic", "plain"}, keys \in SUBSET Keys, sigs \in SUBSET Sigs :
       /\ dialect # "anthropic" => sigs = {}
       /\ Keeps(c, [NoCall EXCEPT !.dialect = dialect, !.keys = withoutStripped(keys),
                  !.base = sigs, !.sigs = withoutBadSignatures(sigs),
                  !.known = refused, !.knownSigs = bad])
  /\ Moves(c, "send")
  /\ UNCHANGED <<memory, limiter>>

---------------------------------------------------------------------------
(* The limiter.  A caller that gives up keeps the slot it reserved.        *)

\* Mutant: a caller that finds the gate closed does not move it on.
WaitSharesSlot(c) ==
  /\ stage[c] = "send"
  /\ slots' = slots \cup {<<c, IF clock >= next THEN clock ELSE next>>}
  /\ IF clock >= next
     THEN next' = clock + Interval /\ Moves(c, "flight") /\ Keeps(c, [call[c] EXCEPT !.sends = @ + 1])
     ELSE UNCHANGED next /\ Moves(c, "sleep") /\ Keeps(c, [call[c] EXCEPT !.slot = next])
  /\ UNCHANGED <<memory, clock, calls>>

Wait(c) ==
  /\ stage[c] = "send"
  /\ LET start == IF clock >= next THEN clock ELSE next IN
       /\ next' = start + Interval
       /\ slots' = slots \cup {<<c, start>>}
       /\ IF start = clock
          THEN Moves(c, "flight") /\ Keeps(c, [call[c] EXCEPT !.sends = @ + 1])
          ELSE Moves(c, "sleep") /\ Keeps(c, [call[c] EXCEPT !.slot = start])
  /\ UNCHANGED <<memory, clock, calls>>

SleepEnds(c) ==
  /\ stage[c] = "sleep" /\ clock >= call[c].slot
  /\ Moves(c, "flight") /\ Keeps(c, [call[c] EXCEPT !.sends = @ + 1])
  /\ UNCHANGED <<memory, limiter, calls>>

SleepCancelled(c) ==
  /\ stage[c] = "sleep"
  /\ Moves(c, "dialect") /\ Keeps(c, [call[c] EXCEPT !.reply = [NoReply EXCEPT !.err = "canceled"]])
  /\ UNCHANGED <<memory, limiter, calls>>

Tick ==
  /\ clock < MaxTime
  /\ clock' = clock + 1
  /\ UNCHANGED <<memory, next, slots, stage, call, calls>>

---------------------------------------------------------------------------
(* The endpoint.  A reply holds a completion, an error or both; an error   *)
(* may name a parameter or a signature.                                    *)

Replies(c) ==
  [comp : {"some", "empty"}, err : {"none"}, name : {NoName}, sig : {NoName}]
  \cup [comp : {"none", "some"}, err : {"transient", "bad_request"}, name : {NoName}, sig : {NoName}]
  \cup [comp : {"none", "some"}, err : {"bad_request"}, name : Keys, sig : {NoName}]
  \cup [comp : {"none", "some"}, err : {"bad_request"}, name : {NoName}, sig : call[c].sigs]

Respond(c) ==
  /\ stage[c] = "flight"
  /\ \E reply \in Replies(c) :
       Keeps(c, [call[c] EXCEPT !.reply = reply, !.saw = @ \/ reply.comp = "some"])
  /\ Moves(c, "dialect")
  /\ UNCHANGED <<memory, limiter, calls>>

---------------------------------------------------------------------------
(* The layers, from the inside                                             *)

NothingCame(c) == call[c].reply.err # "none" /\ call[c].reply.comp = "none"

\* completeOnce: a refusal that names no parameter, of a request that carried
\* the default stream_options.
shouldRetryWithoutStreamOptions(c) ==
  /\ call[c].dialect = "openai" /\ call[c].opts
  /\ NothingCame(c) /\ call[c].reply.err = "bad_request" /\ call[c].reply.name = NoName

WithoutStreamOptions(c) ==
  /\ stage[c] = "dialect" /\ shouldRetryWithoutStreamOptions(c)
  /\ Keeps(c, [call[c] EXCEPT !.opts = FALSE]) /\ Moves(c, "send")
  /\ UNCHANGED <<memory, limiter, calls>>

\* Mutant: a call that already streamed is repaired and sent again.
findRejectedAlways(c) ==
  /\ call[c].dialect = "anthropic" /\ ~call[c].repaired
  /\ call[c].reply.err # "none" /\ call[c].reply.sig \in call[c].sigs

findRejectedSignature(c) ==
  /\ call[c].dialect = "anthropic" /\ ~call[c].repaired
  /\ NothingCame(c) /\ call[c].reply.sig \in call[c].sigs

RepairSignature(c) ==
  /\ stage[c] = "dialect" /\ findRejectedSignature(c)
  /\ bad' = bad \cup {call[c].reply.sig}
  /\ Keeps(c, [call[c] EXCEPT !.repaired = TRUE, !.sigs = @ \ bad']) /\ Moves(c, "send")
  /\ UNCHANGED <<stripped, refused, limiter, calls>>

DialectPasses(c) ==
  /\ stage[c] = "dialect"
  /\ ~shouldRetryWithoutStreamOptions(c) /\ ~findRejectedSignature(c)
  /\ Moves(c, "retry")
  /\ UNCHANGED <<call, memory, limiter, calls>>

\* retryWith: an empty completion, or a transient failure of which nothing
\* was streamed.
retryable(c) ==
  \/ call[c].reply.err = "none" /\ call[c].reply.comp = "empty"
  \/ NothingCame(c) /\ call[c].reply.err = "transient"

\* The next attempt starts from the request the stripper handed down.
Retry(c) ==
  /\ stage[c] = "retry" /\ retryable(c) /\ call[c].attempt < Attempts
  /\ \/ /\ Keeps(c, [call[c] EXCEPT !.attempt = @ + 1, !.opts = TRUE, !.repaired = FALSE,
                                  !.sigs = withoutBadSignatures(call[c].base)])
        /\ Moves(c, "send")
     \/ \* the announce callback stops it: its error, and what came
        /\ Keeps(c, [call[c] EXCEPT !.reply.err = "callback"])
        /\ Moves(c, "strip")
     \/ \* the backoff is cancelled: the failure itself
        Moves(c, "strip") /\ UNCHANGED call
  /\ UNCHANGED <<memory, limiter, calls>>

RetryPasses(c) ==
  /\ stage[c] = "retry" /\ ~(retryable(c) /\ call[c].attempt < Attempts)
  /\ Moves(c, "strip")
  /\ UNCHANGED <<call, memory, limiter, calls>>

\* paramStripper.do: one of the keys that match the name, once a call.
matchRejectedKey(c) ==
  {k \in call[c].keys : NothingCame(c) /\ call[c].reply.name # NoName
                         /\ normalizeParamName(k) = normalizeParamName(call[c].reply.name)}

Strip(c) ==
  /\ stage[c] = "strip" /\ ~call[c].again
  /\ \E k \in matchRejectedKey(c) :
       /\ stripped' = stripped \cup {normalizeParamName(k)}
       /\ refused' = refused \cup {Spelling[call[c].reply.name]}
       /\ Keeps(c, [call[c] EXCEPT !.keys = @ \ {k}, !.again = TRUE, !.attempt = 1, !.opts = TRUE,
                  !.repaired = FALSE, !.sigs = withoutBadSignatures(call[c].base)])
  /\ Moves(c, "send")
  /\ UNCHANGED <<bad, limiter, calls>>

StripPasses(c) ==
  /\ stage[c] = "strip" /\ (call[c].again \/ matchRejectedKey(c) = {})
  /\ Moves(c, "idle") /\ Keeps(c, NoCall)
  /\ UNCHANGED <<memory, limiter, calls>>

---------------------------------------------------------------------------

Limiter(c) == Wait(c) \/ SleepEnds(c) \/ SleepCancelled(c)
Layers(c)  == \/ WithoutStreamOptions(c) \/ RepairSignature(c) \/ DialectPasses(c)
              \/ Retry(c) \/ RetryPasses(c) \/ Strip(c) \/ StripPasses(c)

TransportNext == Tick \/ \E c \in Callers : Begin(c) \/ Limiter(c) \/ Respond(c) \/ Layers(c)
TransportSpec == TransportInit /\ [][TransportNext]_transportVars

---------------------------------------------------------------------------
(* Properties                                                              *)

\* Nothing is sent again for a call of which a caller has seen output, by any
\* of the four layers, and their retries multiply to a bounded number of
\* requests (the Provider contract; retryWith, do, completeOnce).
OutputIsNeverResent ==
  \A c \in Callers :
    /\ stage[c] \in {"send", "sleep", "flight"} => ~call[c].saw
    /\ call[c].sends <= 4 * Attempts

\* A parameter that was refused, and a signature that was rejected, before a
\* call began is not in any request of that call, however it was spelled and
\* whichever of several concurrent calls met the refusal (withoutStripped,
\* withoutBadSignatures).
RefusedStaysOut ==
  \A c \in Callers : stage[c] = "flight" =>
    /\ \A k \in call[c].keys : Spelling[k] \notin call[c].known
    /\ call[c].sigs \cap call[c].knownSigs = {}

\* The starts given out are an interval apart, also to callers that wait at
\* the same time and when some of them give up (RateLimiter.Wait).
StartsAreApart ==
  \A s, t \in slots : s # t => s[2] - t[2] >= Interval \/ t[2] - s[2] >= Interval
=================================================================================
