-------------------------------- MODULE Serving --------------------------------
(***************************************************************************)
(* http/server.go and socket/socket.go: connections that answer requests   *)
(* and keep conversations in a ConversationStore.                          *)
(*                                                                         *)
(* A connection serves one document at a time.  A step of it is one use of *)
(* the store, the model call, or the end of the answer's document; what    *)
(* the document holds is AnswerDocument's.  Request k posts the message    *)
(* u(k) and its answer is a(k).                                            *)
(***************************************************************************)
EXTENDS ConversationStore, TLC

CONSTANTS
  MaxRequests,   \* bound: documents received
  MaxRestarts    \* bound: restarts of the process

ASSUME ServingBounds == MaxRequests \in Nat /\ MaxRestarts \in Nat

VARIABLES
  kind,      \* "http" or "socket", of each connection
  at,        \* where each connection is
  job,       \* the request it serves
  out,       \* the answer written so far: none, open, done, failed or refused, and its status
  asked,     \* documents received
  restarts,
  orphaned   \* history: requests whose conversation was deleted, replaced or lost since

vars == <<backend, convs, seq, writing, kind, at, job, out, asked, restarts, orphaned>>
history == <<restarts, orphaned>>

Requests == 1 .. MaxRequests
u(k) == k
a(k) == -k

\* A request states a model or leaves it to the conversation.
Stated   == "stated"
Unstated == "default"

NoJob == [n |-> 0, id |-> BadId, stateful |-> FALSE, model |-> Unstated, sent |-> NoConv,
          comp |-> FALSE, err |-> FALSE]

NoAnswer == [what |-> "none", status |-> 0]

Init ==
  /\ StoreInit
  /\ kind \in [Clients -> {"http", "socket"}]
  /\ at = [c \in Clients |-> "idle"]
  /\ job = [c \in Clients |-> NoJob]
  /\ out = [c \in Clients |-> NoAnswer]
  /\ asked = 0
  /\ restarts = 0
  /\ orphaned = {}

Go(c, step)    == at' = [at EXCEPT ![c] = step]
Tell(c, what, status) == out' = [out EXCEPT ![c] = [what |-> what, status |-> status]]
Set(c, j)       == job' = [job EXCEPT ![c] = j]
Refuse(c, status) == Go(c, "idle") /\ Tell(c, "refused", status) /\ Set(c, NoJob)

\* The status of a failure; one of the provider's own is its status or 502.
StatusFor(error) ==
  CASE error = "not_found"   -> 404
    [] error = "upstream"    -> 502
    [] error = "unsupported" -> 422
    [] error = "bad_request" -> 400
    [] error = "canceled"    -> 499
    [] OTHER                 -> 500

\* A turn's own fields over the conversation's, for the turn only.
Overlay(stored, model) == [stored EXCEPT !.model = IF model = Stated THEN Stated ELSE @]

---------------------------------------------------------------------------
(* A document comes in                                                     *)

Arrive(c) ==
  /\ at[c] = "idle"
  /\ asked < MaxRequests
  /\ asked' = asked + 1

\* readRequest and answer refuse a body that is no document of the format.
ReceiveBad(c) ==
  /\ Arrive(c)
  /\ Refuse(c, StatusFor("bad_request"))
  /\ UNCHANGED <<storeVars, kind, history>>

\* handleComplete, and a <request> on a socket.
ReceiveStateless(c) ==
  /\ Arrive(c)
  /\ Go(c, "call") /\ Tell(c, "none", 0)
  /\ Set(c, [NoJob EXCEPT !.n = asked'])
  /\ UNCHANGED <<storeVars, kind, history>>

\* haveStore's 501, and the error decode gives a socket.
ReceiveWithoutStore(c) ==
  /\ Arrive(c)
  /\ ~HasStore
  /\ Refuse(c, IF kind[c] = "http" THEN 501 ELSE StatusFor("bad_request"))
  /\ UNCHANGED <<storeVars, kind, history>>

ReceiveCreate(c) ==
  /\ Arrive(c)
  /\ HasStore /\ kind[c] = "http"
  /\ Go(c, "create") /\ Tell(c, "none", 0)
  /\ Set(c, [NoJob EXCEPT !.n = asked'])
  /\ UNCHANGED <<storeVars, kind, history>>

ReceiveTurn(c) ==
  /\ Arrive(c)
  /\ HasStore
  /\ \E id \in Ids \cup {BadId}, model \in {Stated, Unstated} :
       Set(c, [NoJob EXCEPT !.n = asked', !.id = id, !.stateful = TRUE, !.model = model])
  /\ Go(c, "append") /\ Tell(c, "none", 0)
  /\ UNCHANGED <<storeVars, kind, history>>

\* handleGet and handleList read and answer.
HandleRead(c) ==
  /\ Arrive(c)
  /\ HasStore /\ kind[c] = "http" /\ Free
  /\ \/ \E id \in Ids \cup {BadId} :
          /\ LookupError(id) # "none"
          /\ Refuse(c, StatusFor(LookupError(id)))
     \/ Go(c, "idle") /\ Tell(c, "done", 200) /\ Set(c, NoJob)
  /\ UNCHANGED <<storeVars, kind, history>>

HandleDelete(c) ==
  /\ Arrive(c)
  /\ HasStore /\ kind[c] = "http" /\ Free
  /\ \E id \in Ids \cup {BadId} :
       \/ /\ Delete(id)
          /\ Go(c, "idle") /\ Tell(c, "done", 204) /\ Set(c, NoJob)
          /\ orphaned' = orphaned \cup {k \in Requests : u(k) \in ToSet(convs[id].msgs)}
       \/ /\ LookupError(id) # "none"
          /\ Refuse(c, StatusFor(LookupError(id)))
          /\ UNCHANGED <<storeVars, orphaned>>
  /\ UNCHANGED <<kind, restarts>>

---------------------------------------------------------------------------
(* The request's own writes                                                *)

HandleCreate(c) ==
  /\ at[c] = "create"
  /\ Create(c, [model |-> Unstated, msgs |-> <<u(job[c].n)>>])
  /\ Go(c, "creating")
  /\ UNCHANGED <<kind, job, out, asked, history>>

\* handleTurn and decode append the turn; only a socket starts a conversation
\* under an id nobody holds, in a second use of the store.
AppendTurn(c) ==
  /\ at[c] = "append" /\ Free
  /\ LET error == LookupError(job[c].id) IN
       \/ /\ Append2(c, job[c].id, <<u(job[c].n)>>)
          /\ Set(c, [job[c] EXCEPT !.sent = Overlay(Appended(job[c].id, <<u(job[c].n)>>), job[c].model)])
          /\ Go(c, "appending")
          /\ UNCHANGED out
       \/ /\ error = "not_found" /\ kind[c] = "socket"
          /\ Go(c, "put")
          /\ UNCHANGED <<storeVars, job, out>>
       \/ /\ error # "none" /\ (error # "not_found" \/ kind[c] = "http")
          /\ Refuse(c, StatusFor(error))
          /\ UNCHANGED storeVars
  /\ UNCHANGED <<kind, asked, history>>

PutTurn(c) ==
  /\ at[c] = "put" /\ Free
  /\ LET conv == [model |-> job[c].model, msgs |-> <<u(job[c].n)>>] IN
       \/ /\ Put(c, job[c].id, conv)
          /\ Set(c, [job[c] EXCEPT !.sent = Overlay(conv, job[c].model)])
          /\ Go(c, "putting")
          /\ UNCHANGED out
       \/ /\ PutError(job[c].id) # "none"
          /\ Refuse(c, StatusFor(PutError(job[c].id)))
          /\ UNCHANGED storeVars
  /\ UNCHANGED <<kind, asked, history>>

\* Requests whose messages a committed write takes out of a conversation.
Displaced ==
  IF writing.id \in DOMAIN convs
  THEN {k \in Requests : u(k) \in ToSet(convs[writing.id].msgs) \ ToSet(writing.conv.msgs)}
  ELSE {}

WriteEnds(c) ==
  /\ Commit(c)
  /\ orphaned' = orphaned \cup Displaced
  /\ CASE at[c] = "creating"  -> Go(c, "idle") /\ Tell(c, "done", 201)
       [] at[c] = "recording" -> /\ Go(c, IF kind[c] = "http" THEN "idle" ELSE "finish")
                                 /\ UNCHANGED out
       [] OTHER               -> Go(c, "call") /\ UNCHANGED out
  /\ UNCHANGED <<kind, job, asked, restarts>>

\* Append's error for the answer is dropped by both servers.
WriteIsRefused(c) ==
  /\ WriteFails(c)
  /\ IF at[c] = "recording"
     THEN /\ Go(c, IF kind[c] = "http" THEN "idle" ELSE "finish")
          /\ UNCHANGED <<job, out>>
     ELSE Refuse(c, StatusFor("failed"))
  /\ UNCHANGED <<kind, asked, history>>

---------------------------------------------------------------------------
(* The call and its answer                                                 *)

\* The provider returns a completion, an error, or both; started says that
\* an event opened the document during the call.
CallEnds(c) ==
  /\ at[c] = "call"
  /\ \E comp, err, started \in BOOLEAN :
       /\ comp \/ err
       /\ IF ~started /\ err
          THEN \E error \in {"upstream", "unsupported", "bad_request", "canceled", "failed"} :
                 Refuse(c, StatusFor(error))
          ELSE /\ Set(c, [job[c] EXCEPT !.comp = comp, !.err = err])
               /\ Tell(c, "open", 200)
               /\ Go(c, IF kind[c] = "socket" /\ job[c].stateful /\ comp THEN "record" ELSE "finish")
  /\ UNCHANGED <<storeVars, kind, asked, history>>

\* stream.finish closes the document, with the failure in it if there is one.
Finish(c) ==
  /\ at[c] = "finish"
  /\ Tell(c, IF job[c].err THEN "failed" ELSE "done", 200)
  /\ Go(c, IF kind[c] = "http" /\ job[c].stateful /\ job[c].comp THEN "record" ELSE "idle")
  /\ UNCHANGED <<storeVars, kind, job, asked, history>>

RecordAnswer(c) ==
  /\ at[c] = "record" /\ Free
  /\ \/ /\ Append2(c, job[c].id, <<a(job[c].n)>>)
        /\ Go(c, "recording")
     \/ /\ LookupError(job[c].id) # "none"
        /\ Go(c, IF kind[c] = "http" THEN "idle" ELSE "finish")
        /\ UNCHANGED storeVars
  /\ UNCHANGED <<kind, job, out, asked, history>>

\* The process ends at any point and starts again with no connections.
Restart ==
  /\ restarts < MaxRestarts
  /\ restarts' = restarts + 1
  /\ StoreRestart
  /\ at' = [c \in Clients |-> "idle"]
  /\ job' = [c \in Clients |-> NoJob]
  /\ out' = [c \in Clients |-> NoAnswer]
  /\ orphaned' = IF backend = "file" THEN orphaned ELSE 1 .. asked
  /\ UNCHANGED <<kind, asked>>

Receive(c) ==
  \/ ReceiveBad(c) \/ ReceiveStateless(c) \/ ReceiveWithoutStore(c)
  \/ ReceiveCreate(c) \/ ReceiveTurn(c) \/ HandleRead(c) \/ HandleDelete(c)

Serve(c) ==
  \/ HandleCreate(c) \/ AppendTurn(c) \/ PutTurn(c)
  \/ WriteEnds(c) \/ WriteIsRefused(c)
  \/ CallEnds(c) \/ Finish(c) \/ RecordAnswer(c)

Next == Restart \/ \E c \in Clients : Receive(c) \/ Serve(c)

Spec == Init /\ [][Next]_vars

---------------------------------------------------------------------------
(* Properties                                                              *)

Messages == {u(k) : k \in Requests} \cup {a(k) : k \in Requests}

Held(id, m) == id \in DOMAIN convs /\ m \in ToSet(convs[id].msgs)

\* A turn whose call is being made, or that was answered, is in its stored
\* conversation: two connections that append at once lose neither, and a crash
\* or a failed write in the middle of another turn's append leaves it there.
\* Only a delete, a write over the whole conversation, or the end of a memory
\* store takes it out (File.Append, File.write).
StoredTurnSurvives ==
  /\ \A c \in Clients :
       (job[c].stateful /\ at[c] \in {"call", "finish", "record", "recording"})
         => Held(job[c].id, u(job[c].n)) \/ job[c].n \in orphaned
  /\ \A id \in DOMAIN convs, k \in Requests :
       a(k) \in ToSet(convs[id].msgs) => Held(id, u(k)) \/ k \in orphaned

\* An answer is in a transcript at most once, and after the turn it answers,
\* however turns of several connections interleave (http.run, socket.answer).
AnswerFollowsItsTurn ==
  \A id \in DOMAIN convs : LET m == convs[id].msgs IN
    \A i \in DOMAIN m : m[i] < 0 =>
      /\ \A j \in DOMAIN m : m[j] = m[i] => j = i
      /\ (\E j \in 1 .. (i - 1) : m[j] = -m[i]) \/ -m[i] \in orphaned

===============================================================================
