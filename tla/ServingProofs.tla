------------------------------ MODULE ServingProofs ------------------------------
(***************************************************************************)
(* Theorems about the two ends of the wire.  Serving: any number of        *)
(* connections, conversations, requests and restarts, over either store.   *)
(* Transport: any number of callers, parameters, spellings, signatures and *)
(* attempts, and any interval.                                             *)
(***************************************************************************)
EXTENDS Serving, Transport, TLAPS

(* Serving *****************************************************************)

USE IdsAreCounted, ServingBounds

Models == {"none", Stated, Unstated}
Conv   == [model : Models, msgs : Seq(Int)]
AnyId  == Ids \cup {BadId}
Job    == [n : 0 .. MaxRequests, id : AnyId, stateful : BOOLEAN, model : Models, sent : Conv,
           comp : BOOLEAN, err : BOOLEAN]
WriteT == [by : Clients \cup {NoClient}, id : AnyId, conv : Conv]

Writing == {"creating", "appending", "putting", "recording"}
Steps   == {"idle", "create", "append", "put", "call", "finish", "record"} \cup Writing

TypeInv ==
  /\ kind \in [Clients -> {"http", "socket"}]
  /\ at \in [Clients -> Steps]
  /\ job \in [Clients -> Job]
  /\ asked \in 0 .. MaxRequests
  /\ orphaned \subseteq Requests
  /\ writing \in WriteT
  /\ writing.by = NoClient => writing = NoWrite
  /\ \A id \in DOMAIN convs : convs[id] \in Conv

\* The mutex is held by the one connection that is writing, and what it
\* writes is still the conversation with its own message added, or the whole
\* of a conversation it starts.
WritesItsOwn(c) ==
  /\ writing.by = c <=> at[c] \in Writing
  /\ at[c] \in {"appending", "recording"} => writing.id = job[c].id /\ writing.id \in DOMAIN convs
  /\ at[c] = "appending" => writing.conv.msgs = convs[writing.id].msgs \o <<u(job[c].n)>>
  /\ at[c] = "recording" => writing.conv.msgs = convs[writing.id].msgs \o <<a(job[c].n)>>
  /\ at[c] \in {"creating", "putting"} => writing.conv.msgs = <<u(job[c].n)>>
  /\ at[c] = "putting" => writing.id = job[c].id

\* A request that is served has a number of its own, its turn is stored before
\* the call, and its answer is nowhere until it is recorded.
TurnStored(c) ==
  job[c].stateful /\ at[c] \in {"call", "finish", "record", "recording"}
    => Held(job[c].id, u(job[c].n)) \/ job[c].n \in orphaned

Unanswered(c) == at[c] # "idle" /\ ~(kind[c] = "socket" /\ at[c] = "finish")

ClientOK(c) ==
  /\ at[c] # "idle" => job[c].n \in 1 .. asked
  /\ at[c] \in {"append", "appending", "put", "putting", "record", "recording"} => job[c].stateful
  /\ WritesItsOwn(c)
  /\ TurnStored(c)
  /\ Unanswered(c) => \A id \in DOMAIN convs : a(job[c].n) \notin ToSet(convs[id].msgs)

Apart ==
  \A c, d \in Clients : c # d /\ at[c] # "idle" /\ at[d] # "idle" => job[c].n # job[d].n

\* Of a transcript: its answers are to requests there were, each is there once,
\* and behind its turn unless the turn was taken away.
Follows(m, i, gone) == (\E j \in 1 .. (i - 1) : m[j] = -m[i]) \/ -m[i] \in gone
TranscriptOK(m, known, gone) ==
  \A i \in DOMAIN m : m[i] < 0 =>
    /\ -m[i] \in 1 .. known
    /\ \A j \in DOMAIN m : m[j] = m[i] => j = i
    /\ Follows(m, i, gone)

IInv ==
  /\ TypeInv
  /\ \A c \in Clients : ClientOK(c)
  /\ Apart
  /\ \A id \in DOMAIN convs : TranscriptOK(convs[id].msgs, asked, orphaned)

----------------------------------------------------------------------------

LEMMA NoJobTyped == NoJob \in Job /\ NoWrite \in WriteT
<1>1. NoConv \in Conv
  BY DEF NoConv, Conv, Models
<1>2. 0 \in 0 .. MaxRequests /\ BadId \in AnyId
  BY DEF AnyId
<1>3. NoJob \in Job
  BY <1>1, <1>2, Zenon DEF NoJob, Job, Models
<1>4. NoWrite \in WriteT
  BY <1>1, <1>2 DEF NoWrite, WriteT
<1>5. QED
  BY <1>3, <1>4

LEMMA InitInv == Init => IInv
<1> SUFFICES ASSUME Init PROVE IInv
  OBVIOUS
<1>1. convs = <<>> /\ DOMAIN convs = {} /\ writing = NoWrite /\ writing.by = NoClient
  BY DEF Init, StoreInit, NoWrite
<1>2. TypeInv
  BY <1>1, NoJobTyped DEF Init, TypeInv, Steps
<1>3. \A c \in Clients : at[c] = "idle" /\ job[c] = NoJob
  BY DEF Init
<1>4. \A c \in Clients : ClientOK(c)
  BY <1>1, <1>3 DEF ClientOK, WritesItsOwn, TurnStored, Unanswered, Writing
<1>5. Apart
  BY <1>3 DEF Apart
<1>6. QED
  BY <1>1, <1>2, <1>4, <1>5 DEF IInv

\* A step of one connection that leaves the conversations as they are, and
\* the mutex to whoever else holds it, leaves the others as they were.
LEMMA OneClient ==
  ASSUME IInv, NEW c \in Clients, NEW step \in Steps, NEW j \in Job,
         Go(c, step), Set(c, j), UNCHANGED <<convs, orphaned, kind>>,
         asked' \in 0 .. MaxRequests, asked' >= asked,
         writing' \in WriteT, writing'.by = NoClient => writing' = NoWrite,
         writing' = writing \/ (Free /\ writing'.by = c) \/ (writing.by = c /\ writing' = NoWrite),
         step # "idle" => (at[c] # "idle" /\ j.n = job[c].n) \/ j.n > asked,
         ClientOK(c)'
  PROVE  IInv'
<1>1. TypeInv'
  BY DEF IInv, TypeInv, Go, Set
<1>2. ASSUME NEW d \in Clients, d # c PROVE ClientOK(d)'
  <2>1. at'[d] = at[d] /\ job'[d] = job[d] /\ kind'[d] = kind[d]
    BY <1>2 DEF IInv, TypeInv, Go, Set
  <2>2. ClientOK(d)
    BY DEF IInv
  <2>3. d # NoClient
    OBVIOUS
  <2>4. writing'.by = d <=> writing.by = d
    BY <1>2, <2>3 DEF Free, NoWrite
  <2>5. writing.by = d => writing' = writing
    BY <1>2, <2>3 DEF Free, NoWrite
  <2>6. WritesItsOwn(d)'
    <3>1. CASE writing.by = d
      BY <2>1, <2>2, <2>5, <3>1 DEF ClientOK, WritesItsOwn
    <3>2. CASE writing.by # d
      BY <2>1, <2>2, <2>4, <3>2 DEF ClientOK, WritesItsOwn, Writing
    <3>3. QED
      BY <3>1, <3>2
  <2>7. TurnStored(d)'
    BY <2>1, <2>2 DEF ClientOK, TurnStored, Held
  <2>8. at'[d] # "idle" => job'[d].n \in 1 .. asked'
    BY <2>1, <2>2 DEF ClientOK, IInv, TypeInv
  <2>9. QED
    BY <2>1, <2>2, <2>6, <2>7, <2>8 DEF ClientOK, Unanswered
<1>3. Apart'
  <2> SUFFICES ASSUME NEW d \in Clients, NEW f \in Clients, d # f, at'[d] # "idle", at'[f] # "idle"
               PROVE  job'[d].n # job'[f].n
    BY DEF Apart
  <2>1. \A x \in Clients : at[x] # "idle" => job[x].n \in 1 .. asked
    BY DEF IInv, ClientOK
  <2>2. \A x \in Clients \ {c} : at'[x] = at[x] /\ job'[x] = job[x]
    BY DEF IInv, TypeInv, Go, Set
  <2>3. at'[c] = step /\ job'[c] = j
    BY DEF IInv, TypeInv, Go, Set
  <2>4. j.n \in Int /\ asked \in Int
    BY DEF Job, IInv, TypeInv
  <2>5. QED
    BY <2>1, <2>2, <2>3, <2>4 DEF IInv, Apart
<1>4. ASSUME NEW id \in DOMAIN convs' PROVE TranscriptOK(convs'[id].msgs, asked', orphaned')
  <2>1. TranscriptOK(convs[id].msgs, asked, orphaned)
    BY DEF IInv
  <2>2. asked \in Int /\ asked' \in Int
    BY DEF IInv, TypeInv
  <2>3. \A k \in 1 .. asked : k \in 1 .. asked'
    BY <2>2
  <2>4. QED
    BY <2>1, <2>3 DEF TranscriptOK, Follows
<1>5. QED
  BY <1>1, <1>2, <1>3, <1>4 DEF IInv

\* A connection that comes to rest.
LEMMA Rests ==
  ASSUME IInv, NEW c \in Clients, NEW j \in Job,
         Go(c, "idle"), Set(c, j), UNCHANGED <<convs, orphaned, kind>>,
         asked' \in 0 .. MaxRequests, asked' >= asked,
         (at[c] \notin Writing /\ writing' = writing) \/ (writing.by = c /\ writing' = NoWrite)
  PROVE  IInv'
<1>1. at'[c] = "idle" /\ job'[c] = j
  BY DEF IInv, TypeInv, Go, Set
<1>2. writing'.by # c
  <2>1. WritesItsOwn(c)
    BY DEF IInv, ClientOK
  <2>2. QED
    BY <2>1 DEF WritesItsOwn, NoWrite
<1>3. ClientOK(c)'
  BY <1>1, <1>2 DEF ClientOK, WritesItsOwn, TurnStored, Unanswered, Writing
<1>4. writing' \in WriteT /\ (writing'.by = NoClient => writing' = NoWrite)
  BY NoJobTyped DEF IInv, TypeInv
<1>5. writing' = writing \/ (Free /\ writing'.by = c) \/ (writing.by = c /\ writing' = NoWrite)
  OBVIOUS
<1>6. "idle" \in Steps /\ ("idle" # "idle" => (at[c] # "idle" /\ j.n = job[c].n) \/ j.n > asked)
  BY DEF Steps
<1>7. QED
  BY <1>3, <1>4, <1>5, <1>6, OneClient

LEMMA NewNumber ==
  ASSUME IInv
  PROVE  \A id \in DOMAIN convs : a(asked + 1) \notin ToSet(convs[id].msgs)
<1> SUFFICES ASSUME NEW id \in DOMAIN convs, NEW i \in DOMAIN convs[id].msgs, convs[id].msgs[i] = a(asked + 1)
             PROVE  FALSE
  BY DEF ToSet
<1>1. asked \in Nat
  BY DEF IInv, TypeInv
<1>2. convs[id].msgs[i] < 0 /\ -convs[id].msgs[i] = asked + 1
  BY <1>1 DEF a
<1>3. -convs[id].msgs[i] \in 1 .. asked
  BY <1>2 DEF IInv, TranscriptOK
<1>4. QED
  BY <1>1, <1>2, <1>3

LEMMA NotWriting == ASSUME IInv, NEW c \in Clients, at[c] \notin Writing PROVE writing.by # c
  BY DEF IInv, ClientOK, WritesItsOwn

\* A document that comes in and opens work has a number nobody had.
LEMMA ReceiveKeeps ==
  ASSUME IInv, NEW c \in Clients, NEW step \in {"create", "append", "call"}, NEW j \in Job,
         Arrive(c), Go(c, step), Set(c, j), j.n = asked', step = "append" <=> j.stateful,
         UNCHANGED <<storeVars, kind, history>>
  PROVE  IInv'
<1>1. asked' = asked + 1 /\ asked' \in 0 .. MaxRequests /\ at[c] = "idle" /\ asked \in Nat
  BY DEF Arrive, IInv, TypeInv
<1>2. at'[c] = step /\ job'[c] = j
  BY DEF IInv, TypeInv, Go, Set
<1>3. UNCHANGED <<convs, orphaned, kind>> /\ writing' = writing
  BY DEF storeVars, history
<1>4. writing.by # c
  BY <1>1, NotWriting DEF Writing
<1>5. ClientOK(c)'
  BY <1>1, <1>2, <1>3, <1>4, NewNumber DEF ClientOK, WritesItsOwn, TurnStored, Unanswered, Writing
<1>6. writing' \in WriteT /\ (writing'.by = NoClient => writing' = NoWrite)
  BY <1>3 DEF IInv, TypeInv
<1>7. /\ step \in Steps /\ asked' >= asked
      /\ step # "idle" => (at[c] # "idle" /\ j.n = job[c].n) \/ j.n > asked
      /\ writing' = writing \/ (Free /\ writing'.by = c) \/ (writing.by = c /\ writing' = NoWrite)
  BY <1>1, <1>3 DEF Steps
<1>8. QED
  BY <1>1, <1>3, <1>5, <1>6, <1>7, OneClient

LEMMA ArriveKeeps ==
  ASSUME IInv, NEW c \in Clients,
         \/ ReceiveBad(c) \/ ReceiveStateless(c) \/ ReceiveWithoutStore(c)
         \/ ReceiveCreate(c) \/ ReceiveTurn(c) \/ HandleRead(c)
  PROVE  IInv'
<1>1. Arrive(c) /\ UNCHANGED <<storeVars, kind, history>>
  BY DEF ReceiveBad, ReceiveStateless, ReceiveWithoutStore, ReceiveCreate, ReceiveTurn, HandleRead
<1>2. asked' = asked + 1 /\ asked' \in 0 .. MaxRequests /\ at[c] = "idle" /\ asked \in Nat
  BY <1>1 DEF Arrive, IInv, TypeInv
<1>3. NoJob \in Job
  BY NoJobTyped
<1>4. CASE ReceiveStateless(c) \/ ReceiveCreate(c)
  <2> DEFINE j == [NoJob EXCEPT !.n = asked']
  <2>1. j \in Job /\ j.n = asked' /\ ~j.stateful
    BY <1>2, <1>3 DEF Job, NoJob
  <2>2. Set(c, j) /\ (Go(c, "call") \/ Go(c, "create"))
    BY <1>4 DEF ReceiveStateless, ReceiveCreate
  <2> HIDE DEF j
  <2>3. QED
    BY <1>1, <2>1, <2>2, ReceiveKeeps
<1>5. CASE ReceiveTurn(c)
  <2>1. PICK id \in AnyId, model \in {Stated, Unstated} :
          Set(c, [NoJob EXCEPT !.n = asked', !.id = id, !.stateful = TRUE, !.model = model])
    BY <1>5 DEF ReceiveTurn, AnyId
  <2> DEFINE j == [NoJob EXCEPT !.n = asked', !.id = id, !.stateful = TRUE, !.model = model]
  <2>2. j \in Job /\ j.n = asked' /\ j.stateful
    BY <1>2, <1>3 DEF Job, NoJob, Models
  <2>3. Set(c, j) /\ Go(c, "append")
    BY <1>5, <2>1 DEF ReceiveTurn
  <2> HIDE DEF j
  <2>4. QED
    BY <1>1, <2>2, <2>3, ReceiveKeeps
<1>6. CASE Go(c, "idle") /\ Set(c, NoJob)
  <2>1. UNCHANGED <<convs, orphaned, kind>> /\ writing' = writing
    BY <1>1 DEF storeVars, history
  <2>2. asked' >= asked /\ at[c] \notin Writing
    BY <1>2 DEF Writing
  <2>3. QED
    BY <1>2, <1>3, <1>6, <2>1, <2>2, Rests
<1>7. ReceiveBad(c) \/ ReceiveWithoutStore(c) \/ HandleRead(c) => Go(c, "idle") /\ Set(c, NoJob)
  BY DEF ReceiveBad, ReceiveWithoutStore, HandleRead, Refuse
<1>8. QED
  BY <1>4, <1>5, <1>6, <1>7

\* A connection that takes the mutex to write its own message.
LEMMA Opens ==
  ASSUME IInv, NEW c \in Clients, NEW step \in Writing, NEW j \in Job, NEW id \in AnyId, NEW conv \in Conv,
         \/ at[c] = "create" /\ step = "creating"
         \/ at[c] = "append" /\ step = "appending"
         \/ at[c] = "put" /\ step = "putting"
         \/ at[c] = "record" /\ step = "recording",
         j.n = job[c].n, j.id = job[c].id, j.stateful = job[c].stateful,
         Write(c, id, conv), Go(c, step), Set(c, j), UNCHANGED <<orphaned, kind, asked>>,
         step \in {"appending", "recording"} => id = j.id /\ id \in DOMAIN convs,
         step = "appending" => conv.msgs = convs[id].msgs \o <<u(j.n)>>,
         step = "recording" => conv.msgs = convs[id].msgs \o <<a(j.n)>>,
         step \in {"creating", "putting"} => conv.msgs = <<u(j.n)>>,
         step = "putting" => id = j.id
  PROVE  IInv'
<1>1. Free /\ writing' = [by |-> c, id |-> id, conv |-> conv] /\ convs' = convs
  BY DEF Write
<1>2. writing' \in WriteT /\ writing'.by = c /\ writing'.id = id /\ writing'.conv = conv /\ c # NoClient
  BY <1>1 DEF WriteT
<1>3. at'[c] = step /\ job'[c] = j /\ at[c] # "idle"
  BY DEF IInv, TypeInv, Go, Set
<1>4. ClientOK(c)
  BY DEF IInv
<1>5. WritesItsOwn(c)'
  BY <1>1, <1>2, <1>3 DEF WritesItsOwn
<1>6. ClientOK(c)'
  BY <1>1, <1>3, <1>4, <1>5 DEF ClientOK, TurnStored, Unanswered, Held, Writing
<1>7. /\ UNCHANGED <<convs, orphaned, kind>>
      /\ writing' = writing \/ (Free /\ writing'.by = c) \/ (writing.by = c /\ writing' = NoWrite)
      /\ writing'.by = NoClient => writing' = NoWrite
  BY <1>1, <1>2
<1>8. /\ step \in Steps
      /\ step # "idle" => (at[c] # "idle" /\ j.n = job[c].n) \/ j.n > asked
      /\ asked' \in 0 .. MaxRequests /\ asked' >= asked
  BY <1>3 DEF Steps, IInv, TypeInv
<1>9. QED
  BY <1>2, <1>6, <1>7, <1>8, OneClient

\* A connection that goes on without the store.
LEMMA GoesOn ==
  ASSUME IInv, NEW c \in Clients, NEW step \in {"put", "call", "record", "finish"}, NEW j \in Job,
         at[c] # "idle",
         j.n = job[c].n, j.id = job[c].id, j.stateful = job[c].stateful,
         Go(c, step), Set(c, j), UNCHANGED <<convs, orphaned, kind, asked>>,
         (at[c] \notin Writing /\ writing' = writing) \/ (writing.by = c /\ writing' = NoWrite),
         step \in {"put", "record"} => j.stateful,
         step \in {"call", "finish", "record"} /\ j.stateful => at[c] \in {"call", "finish", "record", "recording"},
         at[c] = "finish" => kind[c] = "http"
  PROVE  IInv'
<1>1. at'[c] = step /\ job'[c] = j
  BY DEF IInv, TypeInv, Go, Set
<1>2. ClientOK(c)
  BY DEF IInv
<1>3. writing'.by # c
  BY <1>2 DEF ClientOK, WritesItsOwn, NoWrite
<1>4. ClientOK(c)'
  BY <1>1, <1>2, <1>3 DEF ClientOK, WritesItsOwn, TurnStored, Unanswered, Held, Writing
<1>5. writing' \in WriteT /\ (writing'.by = NoClient => writing' = NoWrite)
  BY NoJobTyped DEF IInv, TypeInv
<1>6. /\ step \in Steps
      /\ step # "idle" => (at[c] # "idle" /\ j.n = job[c].n) \/ j.n > asked
      /\ asked' \in 0 .. MaxRequests /\ asked' >= asked
      /\ UNCHANGED <<convs, orphaned, kind>>
      /\ writing' = writing \/ (Free /\ writing'.by = c) \/ (writing.by = c /\ writing' = NoWrite)
  BY DEF Steps, IInv, TypeInv
<1>7. QED
  BY <1>4, <1>5, <1>6, OneClient

----------------------------------------------------------------------------
(* Each step of a connection at work                                       *)

LEMMA Typed ==
  ASSUME IInv, NEW c \in Clients
  PROVE  /\ job[c] \in Job /\ at[c] \in Steps /\ ClientOK(c)
         /\ job[c].n \in Int /\ u(job[c].n) \in Int /\ a(job[c].n) \in Int
         /\ Set(c, job[c]) <=> job' = job
         /\ asked \in 0 .. MaxRequests
<1>1. job[c] \in Job /\ at[c] \in Steps /\ ClientOK(c) /\ asked \in 0 .. MaxRequests
  BY DEF IInv, TypeInv
<1>2. job[c].n \in Int
  BY <1>1 DEF Job
<1>3. u(job[c].n) \in Int /\ a(job[c].n) \in Int
  BY <1>2 DEF u, a
<1>4. Set(c, job[c]) <=> job' = job
  BY DEF Set, IInv, TypeInv
<1>5. QED
  BY <1>1, <1>2, <1>3, <1>4

\* A message added to the end of a conversation.
LEMMA AppendedIs ==
  ASSUME IInv, NEW id \in DOMAIN convs, NEW m \in Int
  PROVE  /\ Appended(id, <<m>>) \in Conv
         /\ Appended(id, <<m>>).msgs = convs[id].msgs \o <<m>>
         /\ Appended(id, <<m>>).model = convs[id].model
<1>1. convs[id] \in Conv /\ <<m>> \in Seq(Int)
  BY DEF IInv, TypeInv
<1>2. convs[id].msgs \o <<m>> \in Seq(Int)
  BY <1>1 DEF Conv
<1>3. QED
  BY <1>1, <1>2 DEF Appended, Conv

LEMMA OverlayTyped ==
  ASSUME NEW conv \in Conv, NEW model \in Models
  PROVE  Overlay(conv, model) \in Conv
  BY DEF Overlay, Conv, Models

LEMMA Found == \A id : LookupError(id) = "none" => id \in DOMAIN convs
  BY DEF LookupError

LEMMA HandleCreateKeeps ==
  ASSUME IInv, NEW c \in Clients, HandleCreate(c)
  PROVE  IInv'
<1> DEFINE conv == [model |-> Unstated, msgs |-> <<u(job[c].n)>>]
<1>1. PICK n \in Ids : Write(c, n, conv)
  BY DEF HandleCreate, Create
<1>2. conv \in Conv /\ conv.msgs = <<u(job[c].n)>>
  BY Typed DEF Conv, Models
<1>3. n \in AnyId /\ "creating" \in Writing
  BY DEF AnyId, Writing
<1>4. at[c] = "create" /\ Go(c, "creating") /\ Set(c, job[c]) /\ UNCHANGED <<orphaned, kind, asked>>
  BY Typed DEF HandleCreate, history
<1> HIDE DEF conv
<1>5. QED
  BY <1>1, <1>2, <1>3, <1>4, Typed, Opens

LEMMA AppendTurnKeeps ==
  ASSUME IInv, NEW c \in Clients, AppendTurn(c)
  PROVE  IInv'
<1> DEFINE id   == job[c].id
           conv == Appended(id, <<u(job[c].n)>>)
           j    == [job[c] EXCEPT !.sent = Overlay(conv, job[c].model)]
<1>1. at[c] = "append" /\ UNCHANGED <<orphaned, kind, asked>> /\ job[c].stateful /\ id \in AnyId
  BY Typed DEF AppendTurn, history, ClientOK, Job
<1>2. CASE Append2(c, id, <<u(job[c].n)>>) /\ Set(c, j) /\ Go(c, "appending")
  <2>1. id \in DOMAIN convs /\ Write(c, id, conv)
    BY <1>2, Found DEF Append2
  <2>2. conv \in Conv /\ conv.msgs = convs[id].msgs \o <<u(job[c].n)>>
    BY <2>1, Typed, AppendedIs
  <2>3. Overlay(conv, job[c].model) \in Conv
    BY <2>2, Typed, OverlayTyped DEF Job
  <2>4. j \in Job /\ j.n = job[c].n /\ j.id = job[c].id /\ j.stateful = job[c].stateful
    BY <2>3, Typed DEF Job
  <2>5. "appending" \in Writing
    BY DEF Writing
  <2> HIDE DEF j, conv, id
  <2>6. QED
    BY <1>1, <1>2, <2>1, <2>2, <2>4, <2>5, Opens DEF id
<1>3. CASE Go(c, "put") /\ UNCHANGED <<storeVars, job, out>>
  <2>1. UNCHANGED <<convs, orphaned, kind, asked>> /\ writing' = writing /\ at[c] \notin Writing /\ at[c] # "idle"
    BY <1>1, <1>3 DEF storeVars, Writing
  <2>2. QED
    BY <1>1, <1>3, <2>1, Typed, GoesOn
<1>4. CASE Go(c, "idle") /\ Set(c, NoJob) /\ UNCHANGED storeVars
  <2>1. UNCHANGED <<convs, orphaned, kind>> /\ writing' = writing /\ at[c] \notin Writing
    BY <1>1, <1>4 DEF storeVars, Writing
  <2>2. asked' \in 0 .. MaxRequests /\ asked' >= asked
    BY <1>1, Typed
  <2>3. QED
    BY <1>4, <2>1, <2>2, NoJobTyped, Rests
<1>5. QED
  BY <1>2, <1>3, <1>4 DEF AppendTurn, Refuse

LEMMA PutTurnKeeps ==
  ASSUME IInv, NEW c \in Clients, PutTurn(c)
  PROVE  IInv'
<1> DEFINE conv == [model |-> job[c].model, msgs |-> <<u(job[c].n)>>]
           j    == [job[c] EXCEPT !.sent = Overlay(conv, job[c].model)]
<1>1. at[c] = "put" /\ UNCHANGED <<orphaned, kind, asked>> /\ job[c].id \in AnyId
  BY Typed DEF PutTurn, history, Job
<1>2. CASE Put(c, job[c].id, conv) /\ Set(c, j) /\ Go(c, "putting")
  <2>1. Write(c, job[c].id, conv)
    BY <1>2 DEF Put
  <2>2. conv \in Conv /\ conv.msgs = <<u(job[c].n)>>
    BY Typed DEF Conv, Job
  <2>3. Overlay(conv, job[c].model) \in Conv
    BY <2>2, Typed, OverlayTyped DEF Job
  <2>4. j \in Job /\ j.n = job[c].n /\ j.id = job[c].id /\ j.stateful = job[c].stateful
    BY <2>3, Typed DEF Job
  <2>5. "putting" \in Writing
    BY DEF Writing
  <2> HIDE DEF j, conv
  <2>6. QED
    BY <1>1, <1>2, <2>1, <2>2, <2>4, <2>5, Opens
<1>3. CASE Go(c, "idle") /\ Set(c, NoJob) /\ UNCHANGED storeVars
  <2>1. UNCHANGED <<convs, orphaned, kind>> /\ writing' = writing /\ at[c] \notin Writing
    BY <1>1, <1>3 DEF storeVars, Writing
  <2>2. asked' \in 0 .. MaxRequests /\ asked' >= asked
    BY <1>1, Typed
  <2>3. QED
    BY <1>3, <2>1, <2>2, NoJobTyped, Rests
<1>4. QED
  BY <1>2, <1>3 DEF PutTurn, Refuse

LEMMA CallEndsKeeps ==
  ASSUME IInv, NEW c \in Clients, CallEnds(c)
  PROVE  IInv'
<1>1. at[c] = "call" /\ UNCHANGED <<convs, orphaned, kind, asked>> /\ writing' = writing
  BY DEF CallEnds, storeVars, history
<1>2. at[c] \notin Writing /\ at[c] # "idle" /\ asked' \in 0 .. MaxRequests /\ asked' >= asked
  BY <1>1, Typed DEF Writing
<1>3. PICK comp \in BOOLEAN, err \in BOOLEAN :
        \/ Go(c, "idle") /\ Set(c, NoJob)
        \/ /\ Set(c, [job[c] EXCEPT !.comp = comp, !.err = err])
           /\ Go(c, IF kind[c] = "socket" /\ job[c].stateful /\ comp THEN "record" ELSE "finish")
  BY DEF CallEnds, Refuse
<1> DEFINE j    == [job[c] EXCEPT !.comp = comp, !.err = err]
           step == IF kind[c] = "socket" /\ job[c].stateful /\ comp THEN "record" ELSE "finish"
<1>4. j \in Job /\ j.n = job[c].n /\ j.id = job[c].id /\ j.stateful = job[c].stateful
  BY Typed DEF Job
<1>5. step \in {"put", "call", "record", "finish"} /\ (step = "record" => j.stateful) /\ step # "put"
  BY <1>4
<1> HIDE DEF j, step
<1>6. CASE Set(c, j) /\ Go(c, step)
  <2>1. (step \in {"put", "record"} => j.stateful)
        /\ (step \in {"call", "finish", "record"} /\ j.stateful => at[c] \in {"call", "finish", "record", "recording"})
        /\ (at[c] = "finish" => kind[c] = "http")
    BY <1>1, <1>5
  <2>2. QED
    BY <1>1, <1>2, <1>4, <1>5, <1>6, <2>1, GoesOn
<1>7. CASE Go(c, "idle") /\ Set(c, NoJob)
  BY <1>1, <1>2, <1>7, NoJobTyped, Rests
<1>8. QED
  BY <1>3, <1>6, <1>7 DEF j, step

LEMMA FinishKeeps ==
  ASSUME IInv, NEW c \in Clients, Finish(c)
  PROVE  IInv'
<1>1. at[c] = "finish" /\ UNCHANGED <<convs, orphaned, kind, asked>> /\ writing' = writing /\ Set(c, job[c])
  BY Typed DEF Finish, storeVars, history
<1>2. at[c] \notin Writing /\ at[c] # "idle" /\ asked' \in 0 .. MaxRequests /\ asked' >= asked
  BY <1>1, Typed DEF Writing
<1>3. CASE kind[c] = "http" /\ job[c].stateful /\ Go(c, "record")
  BY <1>1, <1>2, <1>3, Typed, GoesOn
<1>4. CASE Go(c, "idle")
  BY <1>1, <1>2, <1>4, Typed, Rests
<1>5. QED
  BY <1>3, <1>4 DEF Finish

LEMMA RecordAnswerKeeps ==
  ASSUME IInv, NEW c \in Clients, RecordAnswer(c)
  PROVE  IInv'
<1> DEFINE id   == job[c].id
           conv == Appended(id, <<a(job[c].n)>>)
<1>1. at[c] = "record" /\ UNCHANGED <<orphaned, kind, asked>> /\ Set(c, job[c]) /\ id \in AnyId /\ job[c].stateful
  BY Typed DEF RecordAnswer, history, Job, ClientOK
<1>2. at[c] \notin Writing /\ at[c] # "idle" /\ asked' \in 0 .. MaxRequests /\ asked' >= asked
  BY <1>1, Typed DEF Writing
<1>3. CASE Append2(c, id, <<a(job[c].n)>>) /\ Go(c, "recording")
  <2>1. id \in DOMAIN convs /\ Write(c, id, conv)
    BY <1>3, Found DEF Append2
  <2>2. conv \in Conv /\ conv.msgs = convs[id].msgs \o <<a(job[c].n)>>
    BY <2>1, Typed, AppendedIs
  <2>3. "recording" \in Writing
    BY DEF Writing
  <2> HIDE DEF conv, id
  <2>4. QED
    BY <1>1, <1>3, <2>1, <2>2, <2>3, Typed, Opens DEF id
<1>4. CASE Go(c, IF kind[c] = "http" THEN "idle" ELSE "finish") /\ UNCHANGED storeVars
  <2>1. UNCHANGED <<convs, orphaned, kind, asked>> /\ writing' = writing
    BY <1>1, <1>4 DEF storeVars
  <2>2. CASE kind[c] = "http"
    BY <1>1, <1>2, <1>4, <2>1, <2>2, Typed, Rests
  <2>3. CASE kind[c] # "http"
    BY <1>1, <1>2, <1>4, <2>1, <2>3, Typed, GoesOn
  <2>4. QED
    BY <2>2, <2>3
<1>5. QED
  BY <1>3, <1>4 DEF RecordAnswer

\* A write that fails leaves the conversation it was about as it was.
LEMMA WriteIsRefusedKeeps ==
  ASSUME IInv, NEW c \in Clients, WriteIsRefused(c)
  PROVE  IInv'
<1>1. writing.by = c /\ writing' = NoWrite /\ UNCHANGED <<convs, orphaned, kind, asked>>
  BY DEF WriteIsRefused, WriteFails, history
<1>2. at[c] \in Writing /\ at[c] # "idle" /\ asked' \in 0 .. MaxRequests /\ asked' >= asked
  <2>1. ClientOK(c) /\ asked \in 0 .. MaxRequests
    BY Typed
  <2>2. at[c] \in Writing
    BY <1>1, <2>1 DEF ClientOK, WritesItsOwn
  <2>3. at[c] # "idle"
    BY <2>2 DEF Writing
  <2>4. QED
    BY <1>1, <2>1, <2>2, <2>3
<1>3. CASE at[c] = "recording" /\ Set(c, job[c]) /\ kind[c] = "http" /\ Go(c, "idle")
  BY <1>1, <1>2, <1>3, Typed, Rests
<1>4. CASE at[c] = "recording" /\ Set(c, job[c]) /\ Go(c, "finish")
  BY <1>1, <1>2, <1>4, Typed, GoesOn
<1>5. CASE Go(c, "idle") /\ Set(c, NoJob)
  BY <1>1, <1>2, <1>5, NoJobTyped, Rests
<1>6. QED
  BY <1>3, <1>4, <1>5, Typed DEF WriteIsRefused, Refuse

\* A deleted conversation takes its turns with it, and they are known to be gone.
LEMMA HandleDeleteKeeps ==
  ASSUME IInv, NEW c \in Clients, HandleDelete(c)
  PROVE  IInv'
<1>1. /\ Arrive(c) /\ Go(c, "idle") /\ Set(c, NoJob) /\ UNCHANGED kind
      /\ at[c] = "idle" /\ asked' = asked + 1 /\ asked' \in 0 .. MaxRequests /\ asked \in Nat
  BY DEF HandleDelete, Refuse, Arrive, IInv, TypeInv
<1>2. CASE UNCHANGED <<storeVars, orphaned>>
  <2>1. UNCHANGED <<convs, orphaned, kind>> /\ writing' = writing /\ at[c] \notin Writing /\ asked' >= asked
    BY <1>1, <1>2 DEF storeVars, Writing
  <2>2. QED
    BY <1>1, <2>1, NoJobTyped, Rests
<1>3. ASSUME NEW id \in AnyId, Delete(id),
             orphaned' = orphaned \cup {k \in Requests : u(k) \in ToSet(convs[id].msgs)}
      PROVE  IInv'
  <2>1. writing' = NoWrite /\ writing = NoWrite /\ \A d \in Clients : writing'.by # d /\ at[d] \notin Writing
    BY <1>3, Typed DEF Delete, Free, NoWrite, ClientOK, WritesItsOwn
  <2>2. /\ DOMAIN convs' = DOMAIN convs \ {id}
        /\ \A x \in DOMAIN convs' : convs'[x] = convs[x]
    BY <1>3 DEF Delete
  <2>3. at' = [at EXCEPT ![c] = "idle"] /\ job' = [job EXCEPT ![c] = NoJob]
    BY <1>1 DEF Go, Set
  <2>4. TypeInv'
    BY <1>1, <1>3, <2>1, <2>2, <2>3, NoJobTyped DEF IInv, TypeInv, Steps
  <2>5. ASSUME NEW x, NEW k \in Requests, Held(x, u(k)) PROVE Held(x, u(k))' \/ k \in orphaned'
    BY <1>3, <2>2, <2>5 DEF Held, u
  <2>6. ASSUME NEW d \in Clients PROVE ClientOK(d)'
    <3>1. CASE d = c
      BY <1>1, <2>1, <2>3, <3>1 DEF IInv, TypeInv, ClientOK, WritesItsOwn, TurnStored, Unanswered, Writing
    <3>2. CASE d # c
      <4>1. at'[d] = at[d] /\ job'[d] = job[d] /\ kind'[d] = kind[d] /\ ClientOK(d)
        BY <1>1, <2>3, <3>2, Typed DEF IInv, TypeInv
      <4>2. WritesItsOwn(d)'
        BY <2>1, <4>1 DEF WritesItsOwn, Writing
      <4>3. at[d] # "idle" => job[d].n \in Requests /\ job'[d].n \in 1 .. asked'
        BY <1>1, <4>1 DEF ClientOK, Requests
      <4>4. TurnStored(d)'
        BY <1>3, <2>5, <4>1, <4>3 DEF ClientOK, TurnStored
      <4>5. QED
        BY <2>2, <4>1, <4>2, <4>3, <4>4 DEF ClientOK, Unanswered
    <3>3. QED
      BY <3>1, <3>2
  <2>7. Apart'
    BY <2>3 DEF IInv, TypeInv, Apart
  <2>8. ASSUME NEW x \in DOMAIN convs' PROVE TranscriptOK(convs'[x].msgs, asked', orphaned')
    <3>1. TranscriptOK(convs[x].msgs, asked, orphaned) /\ convs'[x] = convs[x]
      BY <2>2 DEF IInv
    <3>2. orphaned \subseteq orphaned' /\ \A k \in 1 .. asked : k \in 1 .. asked'
      BY <1>1, <1>3
    <3>3. QED
      BY <3>1, <3>2 DEF TranscriptOK, Follows
  <2>9. QED
    BY <2>4, <2>6, <2>7, <2>8 DEF IInv
<1>4. QED
  BY <1>2, <1>3 DEF HandleDelete, AnyId

\* A process that starts again serves nobody; the directory is as it was, and
\* what only memory held is known to be gone.
LEMMA RestartKeeps ==
  ASSUME IInv, Restart
  PROVE  IInv'
<1>1. /\ at' = [c \in Clients |-> "idle"] /\ job' = [c \in Clients |-> NoJob]
      /\ writing' = NoWrite /\ kind' = kind /\ asked' = asked
  BY DEF Restart, StoreRestart
<1>2. \/ convs' = convs /\ orphaned' = orphaned
      \/ DOMAIN convs' = {} /\ orphaned' = 1 .. asked
  BY DEF Restart, StoreRestart
<1>3. TypeInv'
  <2>1. at' \in [Clients -> Steps] /\ job' \in [Clients -> Job]
    BY <1>1, NoJobTyped DEF Steps
  <2>2. orphaned' \subseteq Requests
    <3>1. asked \in 0 .. MaxRequests /\ orphaned \subseteq Requests
      BY DEF IInv, TypeInv
    <3>2. 1 .. asked \subseteq 1 .. MaxRequests
      BY <3>1
    <3>3. QED
      BY <1>2, <3>1, <3>2 DEF Requests
  <2>3. \A id \in DOMAIN convs' : convs'[id] \in Conv
    BY <1>2 DEF IInv, TypeInv
  <2>4. QED
    BY <1>1, <2>1, <2>2, <2>3, NoJobTyped DEF IInv, TypeInv
<1>4. \A c \in Clients : ClientOK(c)'
  BY <1>1 DEF ClientOK, WritesItsOwn, TurnStored, Unanswered, Writing, NoWrite, NoJob
<1>5. Apart'
  BY <1>1 DEF Apart
<1>6. ASSUME NEW x \in DOMAIN convs' PROVE TranscriptOK(convs'[x].msgs, asked', orphaned')
  BY <1>1, <1>2 DEF IInv, TranscriptOK, Follows
<1>7. QED
  BY <1>3, <1>4, <1>5, <1>6 DEF IInv

----------------------------------------------------------------------------
(* The write takes effect                                                  *)

LEMMA Committed ==
  ASSUME NEW c, Commit(c)
  PROVE  /\ DOMAIN convs' = DOMAIN convs \cup {writing.id}
         /\ convs'[writing.id] = writing.conv
         /\ \A x \in DOMAIN convs : x # writing.id => convs'[x] = convs[x]
         /\ writing' = NoWrite
  BY DEF Commit

LEMMA EndOf == ASSUME NEW S, NEW s \in Seq(S), NEW m \in S
               PROVE  /\ s \o <<m>> \in Seq(S) /\ DOMAIN (s \o <<m>>) = 1 .. Len(s) + 1
                      /\ DOMAIN s = 1 .. Len(s) /\ Len(s) \in Nat
                      /\ \A i \in 1 .. Len(s) : (s \o <<m>>)[i] = s[i]
                      /\ (s \o <<m>>)[Len(s) + 1] = m
                      /\ ToSet(s \o <<m>>) = ToSet(s) \cup {m}
<1>1. /\ s \o <<m>> \in Seq(S) /\ DOMAIN (s \o <<m>>) = 1 .. Len(s) + 1
      /\ DOMAIN s = 1 .. Len(s) /\ Len(s) \in Nat
      /\ \A i \in 1 .. Len(s) : (s \o <<m>>)[i] = s[i]
      /\ (s \o <<m>>)[Len(s) + 1] = m
  OBVIOUS
<1>2. ToSet(s \o <<m>>) = ToSet(s) \cup {m}
  BY <1>1 DEF ToSet
<1>3. QED
  BY <1>1, <1>2

LEMMA OnlyOne == ASSUME NEW m PROVE ToSet(<<m>>) = {m} /\ DOMAIN <<m>> = {1} /\ <<m>>[1] = m
  BY DEF ToSet

LEMMA NotAnswer == \A k, n \in 1 .. MaxRequests : u(k) # a(n) /\ u(k) > 0 /\ a(n) < 0 /\ -a(n) = n
  BY DEF u, a

\* What a commit displaces from a conversation is known to be gone.
LEMMA DisplacedAreKnown ==
  ASSUME IInv, NEW c \in Clients, WriteEnds(c), NEW x, NEW k \in Requests, Held(x, u(k))
  PROVE  (x \in DOMAIN convs' /\ u(k) \in ToSet(convs'[x].msgs)) \/ k \in orphaned'
<1>1. Commit(c) /\ orphaned' = orphaned \cup Displaced
  BY DEF WriteEnds
<1>2. CASE x # writing.id
  BY <1>1, <1>2, Committed DEF Held, u
<1>3. CASE x = writing.id /\ u(k) \in ToSet(writing.conv.msgs)
  BY <1>1, <1>3, Committed DEF Held, u
<1>4. CASE x = writing.id /\ u(k) \notin ToSet(writing.conv.msgs)
  BY <1>1, <1>4 DEF Held, Displaced, u
<1>5. QED
  BY <1>2, <1>3, <1>4

\* A transcript with one more message at its end: a turn, or an answer that was
\* not there before and whose turn is, or is known to be gone.
LEMMA LongerIsOK ==
  ASSUME NEW s \in Seq(Int), NEW m \in Int, NEW known \in Nat, NEW gone, NEW goneNow,
         TranscriptOK(s, known, gone), gone \subseteq goneNow,
         m < 0 => -m \in 1 .. known /\ m \notin ToSet(s) /\ (-m \in ToSet(s) \/ -m \in gone)
  PROVE  TranscriptOK(s \o <<m>>, known, goneNow)
<1> DEFINE t == s \o <<m>>
<1>1. /\ DOMAIN t = 1 .. Len(s) + 1 /\ DOMAIN s = 1 .. Len(s) /\ Len(s) \in Nat
      /\ \A i \in 1 .. Len(s) : t[i] = s[i]
      /\ t[Len(s) + 1] = m
  BY EndOf
<1> HIDE DEF t
<1> SUFFICES ASSUME NEW i \in DOMAIN t, t[i] < 0
             PROVE  -t[i] \in 1 .. known /\ (\A j \in DOMAIN t : t[j] = t[i] => j = i) /\ Follows(t, i, goneNow)
  BY DEF TranscriptOK, t
<1>2. CASE i \in 1 .. Len(s)
  <2>1. s[i] = t[i] /\ s[i] \in ToSet(s)
    BY <1>1, <1>2 DEF ToSet
  <2>2. -s[i] \in 1 .. known /\ (\A j \in DOMAIN s : s[j] = s[i] => j = i) /\ Follows(s, i, gone)
    BY <1>1, <1>2, <2>1 DEF TranscriptOK
  <2>3. ASSUME NEW j \in DOMAIN t, t[j] = t[i] PROVE j = i
    <3>1. CASE j \in 1 .. Len(s)
      BY <1>1, <2>1, <2>2, <2>3, <3>1
    <3>2. CASE j = Len(s) + 1
      BY <1>1, <2>1, <2>3, <3>2
    <3>3. QED
      BY <1>1, <3>1, <3>2
  <2>4. Follows(t, i, goneNow)
    <3>1. CASE \E j \in 1 .. (i - 1) : s[j] = -s[i]
      <4>1. PICK j \in 1 .. (i - 1) : s[j] = -s[i]
        BY <3>1
      <4>2. j \in 1 .. Len(s)
        BY <1>1, <1>2
      <4>3. t[j] = -t[i]
        BY <1>1, <2>1, <4>1, <4>2
      <4>4. QED
        BY <4>3 DEF Follows
    <3>2. CASE -s[i] \in gone
      BY <2>1, <3>2 DEF Follows
    <3>3. QED
      BY <2>2, <3>1, <3>2 DEF Follows
  <2>5. QED
    BY <2>1, <2>2, <2>3, <2>4
<1>3. CASE i = Len(s) + 1
  <2>1. t[i] = m /\ m < 0
    BY <1>1, <1>3
  <2>2. \A j \in 1 .. Len(s) : s[j] # m
    BY <1>1, <2>1 DEF ToSet
  <2>3. \A j \in DOMAIN t : t[j] = t[i] => j = i
    BY <1>1, <1>3, <2>1, <2>2
  <2>4. CASE -m \in ToSet(s)
    <3>1. PICK j \in 1 .. Len(s) : s[j] = -m
      BY <1>1, <2>4 DEF ToSet
    <3>2. j \in 1 .. (i - 1) /\ t[j] = -t[i]
      BY <1>1, <1>3, <2>1, <3>1
    <3>3. QED
      BY <2>1, <2>3, <3>2 DEF Follows
  <2>5. CASE -m \in gone
    BY <2>1, <2>3, <2>5 DEF Follows
  <2>6. QED
    BY <2>1, <2>4, <2>5
<1>4. QED
  BY <1>1, <1>2, <1>3

LEMMA StartIsOK ==
  ASSUME NEW m \in Int, m > 0, NEW known, NEW gone
  PROVE  TranscriptOK(<<m>>, known, gone)
  BY OnlyOne DEF TranscriptOK

\* What a connection writes is in order, and the one answer that is new in it
\* is its own.
LEMMA WrittenIsOK ==
  ASSUME IInv, NEW c \in Clients, WriteEnds(c)
  PROVE  /\ TranscriptOK(writing.conv.msgs, asked', orphaned')
         /\ \A m \in ToSet(writing.conv.msgs) :
              m < 0 => \/ at[c] = "recording" /\ m = a(job[c].n)
                       \/ writing.id \in DOMAIN convs /\ m \in ToSet(convs[writing.id].msgs)
<1> DEFINE n == job[c].n
           s == convs[writing.id].msgs
<1>1. writing.by = c /\ asked' = asked /\ orphaned \subseteq orphaned'
  BY DEF WriteEnds, Commit
<1>2. ClientOK(c) /\ WritesItsOwn(c) /\ at[c] \in Writing /\ asked \in 0 .. MaxRequests
  BY <1>1, Typed DEF ClientOK, WritesItsOwn
<1>3. n \in 1 .. asked /\ n \in 1 .. MaxRequests
  BY <1>2 DEF ClientOK, Writing
<1>4. u(n) \in Int /\ u(n) > 0 /\ a(n) \in Int /\ -a(n) = n
  BY <1>3 DEF u, a
<1>5. CASE at[c] \in {"creating", "putting"}
  <2>1. writing.conv.msgs = <<u(n)>>
    BY <1>2, <1>5 DEF WritesItsOwn
  <2>2. QED
    BY <1>4, <2>1, StartIsOK, OnlyOne
<1>6. CASE at[c] \in {"appending", "recording"}
  <2>1. writing.id \in DOMAIN convs /\ writing.id = job[c].id
    BY <1>2, <1>6 DEF WritesItsOwn
  <2>2. s \in Seq(Int) /\ TranscriptOK(s, asked, orphaned)
    BY <2>1 DEF IInv, TypeInv, Conv
  <2>3. CASE at[c] = "appending"
    <3>1. writing.conv.msgs = s \o <<u(n)>>
      BY <1>2, <2>3 DEF WritesItsOwn
    <3>2. TranscriptOK(s \o <<u(n)>>, asked, orphaned')
      BY <1>1, <1>2, <1>4, <2>2, LongerIsOK
    <3>3. ToSet(s \o <<u(n)>>) = ToSet(s) \cup {u(n)}
      BY <1>4, <2>2, EndOf
    <3>4. QED
      BY <1>1, <1>4, <2>1, <3>1, <3>2, <3>3
  <2>4. CASE at[c] = "recording"
    <3>1. writing.conv.msgs = s \o <<a(n)>>
      BY <1>2, <2>4 DEF WritesItsOwn
    <3>2. a(n) \notin ToSet(s)
      BY <1>2, <2>1, <2>4 DEF ClientOK, Unanswered
    <3>3. n \in ToSet(s) \/ n \in orphaned
      BY <1>2, <2>1, <2>4 DEF ClientOK, TurnStored, Held, u
    <3>4. TranscriptOK(s \o <<a(n)>>, asked, orphaned')
      BY <1>1, <1>2, <1>3, <1>4, <2>2, <3>2, <3>3, LongerIsOK
    <3>5. ToSet(s \o <<a(n)>>) = ToSet(s) \cup {a(n)}
      BY <1>4, <2>2, EndOf
    <3>6. QED
      BY <1>1, <2>1, <2>4, <3>1, <3>4, <3>5
  <2>5. QED
    BY <1>6, <2>3, <2>4
<1>7. QED
  BY <1>2, <1>5, <1>6 DEF Writing

LEMMA WriteEndsKeeps ==
  ASSUME IInv, NEW c \in Clients, WriteEnds(c)
  PROVE  IInv'
<1>1. /\ Commit(c) /\ writing.by = c /\ writing' = NoWrite
      /\ orphaned' = orphaned \cup Displaced /\ UNCHANGED <<kind, job, asked>>
  BY DEF WriteEnds, Commit
<1>2. ClientOK(c) /\ WritesItsOwn(c) /\ at[c] \in Writing /\ asked \in 0 .. MaxRequests
  BY <1>1, Typed DEF ClientOK, WritesItsOwn
<1>3. \/ at[c] \in {"creating", "recording"} /\ Go(c, "idle")
      \/ at[c] = "recording" /\ kind[c] = "socket" /\ Go(c, "finish")
      \/ at[c] \in {"appending", "putting"} /\ Go(c, "call")
  BY <1>2 DEF WriteEnds, Writing, IInv, TypeInv
<1>4. PICK step \in {"idle", "finish", "call"} : Go(c, step)
  BY <1>3
<1>5. at'[c] = step /\ (\A d \in Clients : d # c => at'[d] = at[d]) /\ at' \in [Clients -> Steps]
  BY <1>4 DEF Go, IInv, TypeInv, Steps
<1>6. \A d \in Clients : writing'.by # d
  BY <1>1 DEF NoWrite
<1>7. \A d \in Clients : at[d] # "idle" => job[d].n \in 1 .. asked /\ job[d].n \in Requests
  <2>1. \A d \in Clients : at[d] # "idle" => job[d].n \in 1 .. asked
    BY DEF IInv, ClientOK
  <2>2. QED
    BY <1>2, <2>1 DEF Requests
<1>8. TypeInv'
  <2>1. \A id \in DOMAIN convs' : convs'[id] \in Conv
    BY <1>1, Committed DEF IInv, TypeInv, WriteT
  <2>2. orphaned' \subseteq Requests
    BY <1>1 DEF Displaced, IInv, TypeInv
  <2>3. QED
    BY <1>1, <1>5, <2>1, <2>2, NoJobTyped DEF IInv, TypeInv
<1>9. \A m, id : id \in DOMAIN convs' /\ m \in ToSet(convs'[id].msgs) /\ m < 0 =>
        \/ at[c] = "recording" /\ m = a(job[c].n)
        \/ \E x \in DOMAIN convs : m \in ToSet(convs[x].msgs)
  BY <1>1, Committed, WrittenIsOK
<1>10. ASSUME NEW d \in Clients, at[d] # "idle", Unanswered(d), d = c => at[c] # "recording"
       PROVE  \A id \in DOMAIN convs' : a(job[d].n) \notin ToSet(convs'[id].msgs)
  <2>1. job[d].n \in 1 .. asked /\ job[c].n \in 1 .. asked
    BY <1>2, <1>7, <1>10 DEF Writing
  <2>2. a(job[d].n) < 0 /\ (a(job[d].n) = a(job[c].n) => job[d].n = job[c].n)
    BY <2>1 DEF a
  <2>3. \A id \in DOMAIN convs : a(job[d].n) \notin ToSet(convs[id].msgs)
    BY <1>10 DEF IInv, ClientOK
  <2>4. d # c => job[d].n # job[c].n
    BY <1>2, <1>10 DEF IInv, Apart, Writing
  <2>5. QED
    BY <1>9, <1>10, <2>2, <2>3, <2>4
<1>11. ClientOK(c)'
  <2>1. CASE step = "idle"
    BY <1>5, <1>6, <2>1 DEF ClientOK, WritesItsOwn, TurnStored, Unanswered, Writing
  <2>2. CASE at[c] = "recording" /\ kind[c] = "socket" /\ step = "finish"
    <3>1. WritesItsOwn(c)' /\ ~Unanswered(c)'
      BY <1>1, <1>5, <1>6, <2>2 DEF WritesItsOwn, Unanswered, Writing
    <3>2. TurnStored(c)'
      <4>1. Held(job[c].id, u(job[c].n)) \/ job[c].n \in orphaned
        BY <1>2, <2>2 DEF ClientOK, TurnStored
      <4>2. job[c].n \in Requests
        BY <1>7, <2>2
      <4>3. \/ job[c].id \in DOMAIN convs' /\ u(job[c].n) \in ToSet(convs'[job[c].id].msgs)
            \/ job[c].n \in orphaned'
        BY <1>1, <4>1, <4>2, DisplacedAreKnown
      <4>4. QED
        BY <1>1, <4>3 DEF TurnStored, Held, u
    <3>3. QED
      BY <1>1, <1>5, <1>7, <2>2, <3>1, <3>2 DEF ClientOK
  <2>3. CASE at[c] \in {"appending", "putting"} /\ step = "call"
    <3>1. WritesItsOwn(c)'
      BY <1>5, <1>6, <2>3 DEF WritesItsOwn, Writing
    <3>2. writing.id = job[c].id /\ u(job[c].n) \in ToSet(writing.conv.msgs)
      <4>1. CASE at[c] = "putting"
        BY <1>2, <4>1, OnlyOne DEF WritesItsOwn
      <4>2. CASE at[c] = "appending"
        <5>1. convs[writing.id].msgs \in Seq(Int)
          BY <1>2, <4>2 DEF WritesItsOwn, IInv, TypeInv, Conv
        <5>2. u(job[c].n) \in ToSet(convs[writing.id].msgs \o <<u(job[c].n)>>)
          BY <5>1, EndOf, Typed
        <5>3. QED
          BY <1>2, <4>2, <5>2 DEF WritesItsOwn
      <4>3. QED
        BY <2>3, <4>1, <4>2
    <3>3. TurnStored(c)'
      BY <1>1, <3>2, Committed DEF TurnStored, Held, u
    <3>4. \A id \in DOMAIN convs' : a(job[c].n) \notin ToSet(convs'[id].msgs)
      BY <1>10, <2>3 DEF Unanswered
    <3>5. QED
      BY <1>1, <1>5, <1>7, <2>3, <3>1, <3>3, <3>4 DEF ClientOK, a
  <2>4. QED
    BY <1>3, <1>5, <2>1, <2>2, <2>3 DEF Go, IInv, TypeInv
<1>12. ASSUME NEW d \in Clients, d # c PROVE ClientOK(d)'
  <2>1. at'[d] = at[d] /\ job'[d] = job[d] /\ kind'[d] = kind[d] /\ ClientOK(d)
    BY <1>1, <1>5, <1>12, Typed
  <2>2. at[d] \notin Writing
    BY <1>1, <1>12, <2>1 DEF ClientOK, WritesItsOwn
  <2>3. WritesItsOwn(d)'
    BY <1>6, <2>1, <2>2 DEF WritesItsOwn, Writing
  <2>4. TurnStored(d)'
    <3>1. SUFFICES ASSUME job[d].stateful, at[d] \in {"call", "finish", "record", "recording"}
                   PROVE  \/ job[d].id \in DOMAIN convs' /\ u(job[d].n) \in ToSet(convs'[job[d].id].msgs)
                          \/ job[d].n \in orphaned'
      BY <1>1, <2>1 DEF TurnStored, Held, u
    <3>2. Held(job[d].id, u(job[d].n)) \/ job[d].n \in orphaned
      BY <2>1, <3>1 DEF ClientOK, TurnStored
    <3>3. job[d].n \in Requests
      BY <1>7, <3>1
    <3>4. QED
      BY <1>1, <3>2, <3>3, DisplacedAreKnown
  <2>5. QED
    BY <1>1, <1>7, <1>10, <1>12, <2>1, <2>3, <2>4 DEF ClientOK, Unanswered, a
<1>13. Apart'
  BY <1>1, <1>2, <1>5 DEF IInv, Apart, Writing
<1>14. ASSUME NEW x \in DOMAIN convs' PROVE TranscriptOK(convs'[x].msgs, asked', orphaned')
  <2>1. CASE x = writing.id
    BY <1>1, <2>1, Committed, WrittenIsOK
  <2>2. CASE x # writing.id
    <3>1. x \in DOMAIN convs /\ convs'[x] = convs[x] /\ TranscriptOK(convs[x].msgs, asked, orphaned)
      BY <1>1, <2>2, Committed DEF IInv
    <3>2. orphaned \subseteq orphaned' /\ asked' = asked
      BY <1>1
    <3>3. QED
      BY <3>1, <3>2 DEF TranscriptOK, Follows
  <2>3. QED
    BY <2>1, <2>2
<1>15. QED
  BY <1>8, <1>11, <1>12, <1>13, <1>14 DEF IInv

----------------------------------------------------------------------------

LEMMA StepInv == IInv /\ [Next]_vars => IInv'
<1> SUFFICES ASSUME IInv, [Next]_vars PROVE IInv'
  OBVIOUS
<1>1. CASE Restart
  BY <1>1, RestartKeeps
<1>2. ASSUME NEW c \in Clients, Receive(c) PROVE IInv'
  BY <1>2, ArriveKeeps, HandleDeleteKeeps DEF Receive
<1>3. ASSUME NEW c \in Clients, Serve(c) PROVE IInv'
  BY <1>3, HandleCreateKeeps, AppendTurnKeeps, PutTurnKeeps, WriteEndsKeeps, WriteIsRefusedKeeps,
     CallEndsKeeps, FinishKeeps, RecordAnswerKeeps DEF Serve
<1>4. CASE UNCHANGED vars
  <2>1. TypeInv' /\ Apart'
    BY <1>4 DEF vars, IInv, TypeInv, Apart
  <2>2. ASSUME NEW c \in Clients PROVE ClientOK(c)'
    BY <1>4 DEF vars, IInv, ClientOK, WritesItsOwn, TurnStored, Unanswered, Held, u, a
  <2>3. ASSUME NEW x \in DOMAIN convs' PROVE TranscriptOK(convs'[x].msgs, asked', orphaned')
    BY <1>4 DEF vars, IInv
  <2>4. QED
    BY <2>1, <2>2, <2>3 DEF IInv
<1>5. QED
  BY <1>1, <1>2, <1>3, <1>4 DEF Next

THEOREM Invariant == Spec => []IInv
  BY InitInv, StepInv, PTL DEF Spec

\* An answer is in a transcript once and behind its turn, for any number of
\* connections, conversations, requests and restarts.
THEOREM AnswersAreInPlace == Spec => []AnswerFollowsItsTurn
<1>1. IInv => AnswerFollowsItsTurn
  <2> SUFFICES ASSUME IInv, NEW id \in DOMAIN convs
               PROVE  \A i \in DOMAIN convs[id].msgs : convs[id].msgs[i] < 0 =>
                        /\ \A j \in DOMAIN convs[id].msgs : convs[id].msgs[j] = convs[id].msgs[i] => j = i
                        /\ Follows(convs[id].msgs, i, orphaned)
    BY DEF AnswerFollowsItsTurn, Follows
  <2>1. TranscriptOK(convs[id].msgs, asked, orphaned)
    BY DEF IInv
  <2>2. QED
    BY <2>1 DEF TranscriptOK
<1>2. QED
  BY <1>1, Invariant, PTL

\* A turn that was accepted stays in its conversation under two connections'
\* appends, failed writes and crashes in the middle of one, until it is deleted,
\* overwritten as a whole, or was only in memory.
THEOREM TurnsAreKept == Spec => []StoredTurnSurvives
<1>1. IInv => StoredTurnSurvives
  <2> SUFFICES ASSUME IInv PROVE StoredTurnSurvives
    OBVIOUS
  <2>1. \A c \in Clients : TurnStored(c)
    BY DEF IInv, ClientOK
  <2>2. ASSUME NEW id \in DOMAIN convs, NEW k \in Requests, a(k) \in ToSet(convs[id].msgs)
        PROVE  Held(id, u(k)) \/ k \in orphaned
    <3>1. PICK i \in DOMAIN convs[id].msgs : convs[id].msgs[i] = a(k)
      BY <2>2 DEF ToSet
    <3>2. a(k) < 0 /\ -a(k) = k
      BY DEF a, Requests
    <3>3. Follows(convs[id].msgs, i, orphaned)
      BY <3>1, <3>2 DEF IInv, TranscriptOK
    <3>4. convs[id].msgs \in Seq(Int)
      BY DEF IInv, TypeInv, Conv
    <3>5. CASE \E j \in 1 .. (i - 1) : convs[id].msgs[j] = k
      <4>1. PICK j \in 1 .. (i - 1) : convs[id].msgs[j] = k
        BY <3>5
      <4>2. j \in DOMAIN convs[id].msgs
        BY <3>1, <3>4, <4>1
      <4>3. QED
        BY <4>1, <4>2 DEF Held, ToSet, u
    <3>6. QED
      BY <3>1, <3>2, <3>3, <3>5 DEF Follows
  <2>3. QED
    BY <2>1, <2>2 DEF TurnStored, StoredTurnSurvives
<1>2. QED
  BY <1>1, Invariant, PTL

(* Transport ***************************************************************)

USE AttemptsBegin, SpellingsAreNames

Spellings == {Spelling[k] : k \in Keys}

Stages    == {"idle", "send", "sleep", "flight", "dialect", "retry", "strip"}
Comps    == {"none", "some", "empty"}
Errs     == {"none", "transient", "bad_request", "canceled", "callback"}
Dialects == {"openai", "anthropic", "plain"}

Reply == [comp : Comps, err : Errs, name : Keys \cup {NoName}, sig : Sigs \cup {NoName}]
Call  == [dialect : Dialects, keys : SUBSET Keys, sigs : SUBSET Sigs, base : SUBSET Sigs,
          repaired : BOOLEAN, opts : BOOLEAN, attempt : 1 .. Attempts, again : BOOLEAN,
          reply : Reply, slot : Nat, saw : BOOLEAN, sends : Nat,
          known : SUBSET Spellings, knownSigs : SUBSET Sigs]

Waiting  == {"send", "sleep"}
Answered == {"dialect", "retry", "strip"}

\* Whether a call's caller has seen output is what its last reply says: as
\* long as more may be sent, nothing was seen.
Unseen(step, e) ==
  /\ step \in Waiting \cup {"flight"} => ~e.saw
  /\ step \in Answered => (e.saw => e.reply.comp = "some")

\* The requests a call has behind it when it waits to send: two for each
\* attempt that is over, one if this attempt's own repair is spent.
Spent(e) ==
  2 * ((IF e.again THEN Attempts ELSE 0) + e.attempt - 1) + (IF e.repaired \/ ~e.opts THEN 1 ELSE 0)

Counted(step, e) ==
  /\ ~e.opts => e.dialect = "openai"
  /\ e.repaired => e.dialect = "anthropic"
  /\ e.sends <= Spent(e) + (IF step \in Waiting THEN 0 ELSE 1)

\* What was known to be refused when the call began is not in it, and the
\* memory of bad signatures only grows, so a later attempt leaves it out too.
Excluded(e, badNow) ==
  /\ \A k \in e.keys : Spelling[k] \notin e.known
  /\ e.sigs \cap e.knownSigs = {}
  /\ e.knownSigs \subseteq badNow

CallOK(step, e, badNow) == e \in Call /\ Unseen(step, e) /\ Counted(step, e) /\ Excluded(e, badNow)

CallsInv ==
  /\ stage \in [Callers -> Stages]
  /\ call \in [Callers -> Call]
  /\ \A c \in Callers : CallOK(stage[c], call[c], bad)

MemoryInv ==
  /\ bad \subseteq Sigs
  /\ refused \subseteq Spellings
  /\ refused \subseteq stripped

LimiterInv ==
  /\ next \in Nat /\ clock \in Nat
  /\ \A s \in slots : s[2] \in Nat /\ s[2] + Interval <= next
  /\ StartsAreApart

TransportInv == CallsInv /\ MemoryInv /\ LimiterInv

----------------------------------------------------------------------------

\* A caller that makes no call is as every call must be.
LEMMA NoCallOK == \A step \in Stages : \A b : CallOK(step, NoCall, b)
<1>1. NoReply \in Reply
  BY DEF NoReply, Reply, Comps, Errs
<1>2. NoCall \in Call
  <2>1. 1 \in 1 .. Attempts /\ 0 \in Nat
    OBVIOUS
  <2>2. QED
    BY <1>1, <2>1, Zenon DEF NoCall, Call, Dialects
<1>3. \A step \in Stages : Unseen(step, NoCall) /\ Counted(step, NoCall)
  BY DEF Unseen, Counted, Spent, NoCall, NoReply, Answered
<1>4. \A b : Excluded(NoCall, b)
  BY DEF Excluded, NoCall
<1>5. QED
  BY <1>2, <1>3, <1>4 DEF CallOK

LEMMA TransportStart == TransportInit => TransportInv
<1> SUFFICES ASSUME TransportInit PROVE TransportInv
  OBVIOUS
<1>1. CallsInv
  <2>1. NoCall \in Call
    BY NoCallOK DEF CallOK, Stages
  <2>2. stage \in [Callers -> Stages] /\ call \in [Callers -> Call]
    BY <2>1 DEF TransportInit, Stages
  <2>3. \A c \in Callers : CallOK(stage[c], call[c], bad)
    BY <2>2, NoCallOK DEF TransportInit, Stages
  <2>4. QED
    BY <2>2, <2>3 DEF CallsInv
<1>2. MemoryInv /\ LimiterInv
  BY DEF TransportInit, MemoryInv, LimiterInv, StartsAreApart
<1>3. QED
  BY <1>1, <1>2 DEF TransportInv

\* A step of one caller's call leaves the others' as good as they were, as
\* long as no rejected signature is forgotten.
LEMMA OneCall ==
  ASSUME CallsInv, NEW c \in Callers, NEW step \in Stages, NEW e,
         Moves(c, step), Keeps(c, e), CallOK(step, e, bad'), bad \subseteq bad'
  PROVE  CallsInv'
<1>1. stage' \in [Callers -> Stages] /\ call' \in [Callers -> Call]
  BY DEF CallsInv, Moves, Keeps, CallOK
<1>2. ASSUME NEW d \in Callers PROVE CallOK(stage'[d], call'[d], bad')
  <2>1. CASE d = c
    BY <2>1 DEF CallsInv, Moves, Keeps
  <2>2. CASE d # c
    <3>1. stage'[d] = stage[d] /\ call'[d] = call[d]
      BY <2>2 DEF CallsInv, Moves, Keeps
    <3>2. CallOK(stage[d], call[d], bad)
      BY DEF CallsInv
    <3>3. QED
      BY <3>1, <3>2 DEF CallOK, Excluded
  <2>3. QED
    BY <2>1, <2>2
<1>3. QED
  BY <1>1, <1>2 DEF CallsInv

\* A step that leaves the call as it is.
LEMMA SameCall ==
  ASSUME CallsInv, NEW c \in Callers, NEW step \in Stages,
         Moves(c, step), call' = call, CallOK(step, call[c], bad'), bad \subseteq bad'
  PROVE  CallsInv'
<1>1. Keeps(c, call[c])
  BY DEF CallsInv, Keeps
<1>2. QED
  BY <1>1, OneCall

\* The starts the limiter gives out stay apart: a new one is no earlier than
\* the gate, and the gate moves an interval past it.
LEMMA WaitKeepsApart ==
  ASSUME LimiterInv, NEW c \in Callers, Wait(c)
  PROVE  LimiterInv'
<1> DEFINE start == IF clock >= next THEN clock ELSE next
<1>1. start \in Nat /\ start >= next
  BY DEF LimiterInv
<1>2. next' = start + Interval /\ slots' = slots \cup {<<c, start>>} /\ clock' = clock
  BY DEF Wait
<1> HIDE DEF start
<1>3. next' \in Nat /\ clock' \in Nat
  BY <1>1, <1>2 DEF LimiterInv
<1>4. \A s \in slots' : s[2] \in Nat /\ s[2] + Interval <= next'
  BY <1>1, <1>2 DEF LimiterInv
<1>5. \A s \in slots : start - s[2] >= Interval
  BY <1>1, <1>2 DEF LimiterInv
<1>6. StartsAreApart'
  BY <1>1, <1>2, <1>5 DEF LimiterInv, StartsAreApart
<1>7. QED
  BY <1>3, <1>4, <1>6 DEF LimiterInv

LEMMA LimiterRests == LimiterInv /\ UNCHANGED <<next, clock, slots>> => LimiterInv'
  BY DEF LimiterInv, StartsAreApart

LEMMA MemoryRests == MemoryInv /\ UNCHANGED <<stripped, bad, refused>> => MemoryInv'
  BY DEF MemoryInv

----------------------------------------------------------------------------
(* What each action does to the call it is about                           *)

LEMMA BeginKeeps ==
  ASSUME TransportInv, NEW c \in Callers, Begin(c)
  PROVE  CallsInv'
<1>1. PICK dialect \in Dialects, keys \in SUBSET Keys, sigs \in SUBSET Sigs :
        Keeps(c, [NoCall EXCEPT !.dialect = dialect, !.keys = withoutStripped(keys),
                !.base = sigs, !.sigs = withoutBadSignatures(sigs),
                !.known = refused, !.knownSigs = bad])
  BY DEF Begin, Dialects
<1> DEFINE e == [NoCall EXCEPT !.dialect = dialect, !.keys = withoutStripped(keys),
                 !.base = sigs, !.sigs = withoutBadSignatures(sigs),
                 !.known = refused, !.knownSigs = bad]
<1>2. bad' = bad /\ Moves(c, "send")
  BY DEF Begin, memory
<1>3. NoCall \in Call
  BY NoCallOK DEF CallOK, Stages
<1>4. withoutStripped(keys) \in SUBSET Keys /\ withoutBadSignatures(sigs) \in SUBSET Sigs
  BY DEF withoutStripped, withoutBadSignatures
<1>5. e \in Call
  BY <1>3, <1>4 DEF Call, TransportInv, MemoryInv
<1>6. Unseen("send", e) /\ Counted("send", e)
  BY <1>3 DEF Unseen, Counted, Spent, NoCall, Call, Waiting, Answered
<1>7. Excluded(e, bad)
  <2>1. e.keys = withoutStripped(keys) /\ e.known = refused /\ e.sigs = sigs \ bad /\ e.knownSigs = bad
    BY DEF NoCall, withoutBadSignatures
  <2>2. QED
    BY <2>1 DEF Excluded, withoutStripped, normalizeParamName, TransportInv, MemoryInv
<1>8. CallOK("send", e, bad')
  BY <1>2, <1>5, <1>6, <1>7 DEF CallOK
<1>9. QED
  BY <1>1, <1>2, <1>8, OneCall DEF TransportInv, Stages

LEMMA WaitKeeps ==
  ASSUME TransportInv, NEW c \in Callers, Wait(c)
  PROVE  CallsInv'
<1> DEFINE start == IF clock >= next THEN clock ELSE next
           sent  == [call[c] EXCEPT !.sends = @ + 1]
           waits == [call[c] EXCEPT !.slot = start]
<1>1. start \in Nat
  BY DEF TransportInv, LimiterInv
<1>2. CallOK("send", call[c], bad) /\ bad' = bad
  BY DEF TransportInv, CallsInv, Wait, memory
<1>3. CallOK("flight", sent, bad')
  BY <1>2 DEF CallOK, Call, Unseen, Counted, Spent, Excluded, Waiting, Answered
<1>4. CallOK("sleep", waits, bad')
  BY <1>1, <1>2 DEF CallOK, Call, Unseen, Counted, Spent, Excluded, Waiting, Answered
<1>5. \/ Moves(c, "flight") /\ Keeps(c, sent)
      \/ Moves(c, "sleep") /\ Keeps(c, waits)
  BY DEF Wait
<1> HIDE DEF sent, waits
<1>6. QED
  BY <1>2, <1>3, <1>4, <1>5, OneCall DEF TransportInv, Stages

LEMMA SleepKeeps ==
  ASSUME TransportInv, NEW c \in Callers, SleepEnds(c) \/ SleepCancelled(c)
  PROVE  CallsInv'
<1> DEFINE sent  == [call[c] EXCEPT !.sends = @ + 1]
           gone  == [call[c] EXCEPT !.reply = [NoReply EXCEPT !.err = "canceled"]]
<1>1. CallOK("sleep", call[c], bad) /\ bad' = bad
  BY DEF TransportInv, CallsInv, SleepEnds, SleepCancelled, memory
<1>2. CallOK("flight", sent, bad')
  BY <1>1 DEF CallOK, Call, Unseen, Counted, Spent, Excluded, Waiting, Answered
<1>3. [NoReply EXCEPT !.err = "canceled"] \in Reply
  BY DEF NoReply, Reply, Comps, Errs
<1>4. CallOK("dialect", gone, bad')
  BY <1>1, <1>3 DEF CallOK, Call, Unseen, Counted, Spent, Excluded, Waiting, Answered
<1>5. \/ Moves(c, "flight") /\ Keeps(c, sent)
      \/ Moves(c, "dialect") /\ Keeps(c, gone)
  BY DEF SleepEnds, SleepCancelled
<1> HIDE DEF sent, gone
<1>6. QED
  BY <1>1, <1>2, <1>4, <1>5, OneCall DEF TransportInv, Stages

\* What the caller has seen when the reply is in is what the reply brought.
LEMMA RespondKeeps ==
  ASSUME TransportInv, NEW c \in Callers, Respond(c)
  PROVE  CallsInv'
<1>1. CallOK("flight", call[c], bad) /\ bad' = bad
  BY DEF TransportInv, CallsInv, Respond, memory
<1>2. PICK reply \in Replies(c) :
        Keeps(c, [call[c] EXCEPT !.reply = reply, !.saw = @ \/ reply.comp = "some"])
  BY DEF Respond
<1> DEFINE e == [call[c] EXCEPT !.reply = reply, !.saw = @ \/ reply.comp = "some"]
<1>3. call[c].sigs \subseteq Sigs
  BY <1>1 DEF CallOK, Call
<1>4. reply \in Reply
  BY <1>3 DEF Replies, Reply, Comps, Errs
<1>5. e \in Call
  BY <1>1, <1>4 DEF CallOK, Call
<1>6. CallOK("dialect", e, bad')
  BY <1>1, <1>5 DEF CallOK, Call, Unseen, Counted, Spent, Excluded, Waiting, Answered
<1>7. Moves(c, "dialect")
  BY DEF Respond
<1> HIDE DEF e
<1>8. QED
  BY <1>1, <1>2, <1>6, <1>7, OneCall DEF TransportInv, Stages, e

\* The dialect's own repair is spent once an attempt, whichever it is.
LEMMA DialectKeeps ==
  ASSUME TransportInv, NEW c \in Callers, WithoutStreamOptions(c) \/ RepairSignature(c) \/ DialectPasses(c)
  PROVE  CallsInv'
<1>1. CallOK("dialect", call[c], bad)
  BY DEF TransportInv, CallsInv, WithoutStreamOptions, RepairSignature, DialectPasses
<1>2. call[c] \in Call
  BY <1>1 DEF CallOK
<1>3. CASE WithoutStreamOptions(c)
  <2> DEFINE e == [call[c] EXCEPT !.opts = FALSE]
  <2>1. Moves(c, "send") /\ Keeps(c, e) /\ bad' = bad /\ shouldRetryWithoutStreamOptions(c)
    BY <1>3 DEF WithoutStreamOptions, memory
  <2>2. e \in Call
    BY <1>2 DEF Call
  <2>3. Counted("send", e)
    BY <1>1, <1>2, <2>1 DEF CallOK, Call, Counted, Spent, Waiting, shouldRetryWithoutStreamOptions
  <2>4. Unseen("send", e) /\ Excluded(e, bad')
    BY <1>1, <1>2, <2>1 DEF CallOK, Call, Unseen, Excluded, Waiting, Answered,
       shouldRetryWithoutStreamOptions, NothingCame
  <2>5. CallOK("send", e, bad')
    BY <2>2, <2>3, <2>4 DEF CallOK
  <2> HIDE DEF e
  <2>6. QED
    BY <2>1, <2>5, OneCall DEF TransportInv, Stages
<1>4. CASE RepairSignature(c)
  <2> DEFINE e == [call[c] EXCEPT !.repaired = TRUE, !.sigs = @ \ bad']
  <2>1. Moves(c, "send") /\ Keeps(c, e) /\ findRejectedSignature(c) /\ bad \subseteq bad'
    BY <1>4 DEF RepairSignature
  <2>2. e \in Call
    BY <1>2 DEF Call
  <2>3. Counted("send", e)
    BY <1>1, <1>2, <2>1 DEF CallOK, Call, Counted, Spent, Waiting, findRejectedSignature
  <2>4. Unseen("send", e)
    BY <1>1, <1>2, <2>1 DEF CallOK, Call, Unseen, Waiting, Answered, findRejectedSignature, NothingCame
  <2>5. Excluded(e, bad')
    <3>1. e.keys = call[c].keys /\ e.known = call[c].known /\ e.knownSigs = call[c].knownSigs
          /\ e.sigs = call[c].sigs \ bad'
      BY <1>2 DEF Call
    <3>2. QED
      BY <1>1, <2>1, <3>1 DEF CallOK, Excluded
  <2>6. CallOK("send", e, bad')
    BY <2>2, <2>3, <2>4, <2>5 DEF CallOK
  <2> HIDE DEF e
  <2>7. QED
    BY <2>1, <2>6, OneCall DEF TransportInv, Stages
<1>5. CASE DialectPasses(c)
  <2>1. Moves(c, "retry") /\ call' = call /\ bad' = bad
    BY <1>5 DEF DialectPasses, memory
  <2>2. CallOK("retry", call[c], bad')
    BY <1>1, <2>1 DEF CallOK, Unseen, Counted, Waiting, Answered
  <2>3. QED
    BY <2>1, <2>2, SameCall DEF TransportInv, Stages
<1>6. QED
  BY <1>3, <1>4, <1>5

\* A new attempt starts from the request of the first, with the two requests
\* of the attempt before it counted.
LEMMA RetryKeeps ==
  ASSUME TransportInv, NEW c \in Callers, Retry(c) \/ RetryPasses(c)
  PROVE  CallsInv'
<1>1. CallOK("retry", call[c], bad) /\ bad' = bad
  BY DEF TransportInv, CallsInv, Retry, RetryPasses, memory
<1>2. call[c] \in Call
  BY <1>1 DEF CallOK
<1> DEFINE again == [call[c] EXCEPT !.attempt = @ + 1, !.opts = TRUE, !.repaired = FALSE,
                                   !.sigs = withoutBadSignatures(call[c].base)]
           ends  == [call[c] EXCEPT !.reply.err = "callback"]
<1>3. CASE Retry(c) /\ Moves(c, "send") /\ Keeps(c, again)
  <2>1. call[c].attempt + 1 \in 1 .. Attempts /\ retryable(c)
    BY <1>2, <1>3 DEF Retry, Call
  <2>2. again \in Call
    BY <1>2, <2>1 DEF Call, withoutBadSignatures
  <2>3. Counted("send", again)
    BY <1>1, <1>2, <2>1 DEF CallOK, Call, Counted, Spent, Waiting
  <2>4. Unseen("send", again) /\ Excluded(again, bad')
    BY <1>1, <1>2, <2>1 DEF CallOK, Call, Unseen, Excluded, Waiting, Answered,
       withoutBadSignatures, retryable, NothingCame
  <2>5. CallOK("send", again, bad')
    BY <2>2, <2>3, <2>4 DEF CallOK
  <2> HIDE DEF again
  <2>6. QED
    BY <1>1, <1>3, <2>5, OneCall DEF TransportInv, Stages
<1>4. CASE Moves(c, "strip") /\ Keeps(c, ends)
  <2>1. ends \in Call
    BY <1>2 DEF Call, Reply, Errs
  <2>2. CallOK("strip", ends, bad')
    BY <1>1, <1>2, <2>1 DEF CallOK, Call, Reply, Unseen, Counted, Spent, Excluded, Waiting, Answered
  <2> HIDE DEF ends
  <2>3. QED
    BY <1>1, <1>4, <2>2, OneCall DEF TransportInv, Stages
<1>5. CASE Moves(c, "strip") /\ call' = call
  <2>1. CallOK("strip", call[c], bad')
    BY <1>1 DEF CallOK, Unseen, Counted, Waiting, Answered
  <2>2. QED
    BY <1>1, <1>5, <2>1, SameCall DEF TransportInv, Stages
<1> HIDE DEF again, ends
<1>6. QED
  BY <1>3, <1>4, <1>5 DEF Retry, RetryPasses, again, ends

\* The stripper's one repeat starts the attempts anew, once a call.
LEMMA StripKeeps ==
  ASSUME TransportInv, NEW c \in Callers, Strip(c)
  PROVE  CallsInv' /\ MemoryInv'
<1>1. CallOK("strip", call[c], bad) /\ bad' = bad
  BY DEF TransportInv, CallsInv, Strip
<1>2. call[c] \in Call /\ ~call[c].again
  BY <1>1 DEF CallOK, Strip
<1>3. PICK k \in matchRejectedKey(c) :
        /\ stripped' = stripped \cup {normalizeParamName(k)}
        /\ refused' = refused \cup {Spelling[call[c].reply.name]}
        /\ Keeps(c, [call[c] EXCEPT !.keys = @ \ {k}, !.again = TRUE, !.attempt = 1, !.opts = TRUE,
                   !.repaired = FALSE, !.sigs = withoutBadSignatures(call[c].base)])
  BY DEF Strip
<1> DEFINE e == [call[c] EXCEPT !.keys = @ \ {k}, !.again = TRUE, !.attempt = 1, !.opts = TRUE,
                 !.repaired = FALSE, !.sigs = withoutBadSignatures(call[c].base)]
<1>4. NothingCame(c) /\ call[c].reply.name # NoName /\ Spelling[k] = Spelling[call[c].reply.name]
  BY <1>3 DEF matchRejectedKey, normalizeParamName
<1>5. e \in Call
  <2>1. 1 \in 1 .. Attempts
    OBVIOUS
  <2>2. call[c].base \ bad \in SUBSET Sigs
    BY <1>2 DEF Call
  <2>3. QED
    BY <1>2, <2>1, <2>2 DEF Call, withoutBadSignatures
<1>6. Counted("send", e)
  BY <1>1, <1>2 DEF CallOK, Call, Counted, Spent, Waiting
<1>7. Unseen("send", e) /\ Excluded(e, bad')
  BY <1>1, <1>2, <1>4 DEF CallOK, Call, Unseen, Excluded, Waiting, Answered,
     withoutBadSignatures, NothingCame
<1>8. CallOK("send", e, bad')
  BY <1>5, <1>6, <1>7 DEF CallOK
<1>9. Moves(c, "send")
  BY DEF Strip
<1>10. CallsInv'
  <2> HIDE DEF e
  <2>1. QED
    BY <1>1, <1>3, <1>8, <1>9, OneCall DEF TransportInv, Stages, e
<1>11. call[c].reply.name \in Keys
  BY <1>2, <1>4 DEF Call, Reply
<1>12. MemoryInv'
  BY <1>1, <1>3, <1>4, <1>11 DEF TransportInv, MemoryInv, normalizeParamName, Spellings
<1>13. QED
  BY <1>10, <1>12

LEMMA StripPassesKeeps ==
  ASSUME TransportInv, NEW c \in Callers, StripPasses(c)
  PROVE  CallsInv'
<1>1. Moves(c, "idle") /\ Keeps(c, NoCall) /\ bad' = bad
  BY DEF StripPasses, memory
<1>2. CallOK("idle", NoCall, bad')
  BY NoCallOK DEF Stages
<1>3. QED
  BY <1>1, <1>2, OneCall DEF TransportInv, Stages

----------------------------------------------------------------------------

LEMMA TransportStep == TransportInv /\ [TransportNext]_transportVars => TransportInv'
<1> SUFFICES ASSUME TransportInv, [TransportNext]_transportVars PROVE TransportInv'
  OBVIOUS
<1>1. ASSUME Tick PROVE TransportInv'
  <2>1. CallsInv'
    BY <1>1 DEF Tick, memory, TransportInv, CallsInv
  <2>2. MemoryInv'
    BY <1>1, MemoryRests DEF Tick, memory, TransportInv
  <2>3. LimiterInv'
    BY <1>1 DEF Tick, TransportInv, LimiterInv, StartsAreApart
  <2>4. QED
    BY <2>1, <2>2, <2>3 DEF TransportInv
<1>2. ASSUME NEW c \in Callers, Begin(c) PROVE TransportInv'
  BY <1>2, BeginKeeps, MemoryRests, LimiterRests DEF Begin, memory, limiter, TransportInv
<1>3. ASSUME NEW c \in Callers, Wait(c) PROVE TransportInv'
  BY <1>3, WaitKeeps, WaitKeepsApart, MemoryRests DEF Wait, memory, TransportInv
<1>4. ASSUME NEW c \in Callers, SleepEnds(c) \/ SleepCancelled(c) PROVE TransportInv'
  BY <1>4, SleepKeeps, MemoryRests, LimiterRests DEF SleepEnds, SleepCancelled, memory, limiter, TransportInv
<1>5. ASSUME NEW c \in Callers, Respond(c) PROVE TransportInv'
  BY <1>5, RespondKeeps, MemoryRests, LimiterRests DEF Respond, memory, limiter, TransportInv
<1>6. ASSUME NEW c \in Callers, WithoutStreamOptions(c) \/ DialectPasses(c) PROVE TransportInv'
  BY <1>6, DialectKeeps, MemoryRests, LimiterRests DEF WithoutStreamOptions, DialectPasses, memory, limiter, TransportInv
<1>7. ASSUME NEW c \in Callers, RepairSignature(c) PROVE TransportInv'
  <2>1. bad' = bad \cup {call[c].reply.sig} /\ call[c].reply.sig \in call[c].sigs
    BY <1>7 DEF RepairSignature, findRejectedSignature
  <2>2. call[c].sigs \subseteq Sigs
    BY DEF TransportInv, CallsInv, Call
  <2>3. MemoryInv'
    BY <1>7, <2>1, <2>2 DEF RepairSignature, TransportInv, MemoryInv
  <2>4. QED
    BY <1>7, <2>3, DialectKeeps, LimiterRests DEF RepairSignature, limiter, TransportInv
<1>8. ASSUME NEW c \in Callers, Retry(c) \/ RetryPasses(c) PROVE TransportInv'
  BY <1>8, RetryKeeps, MemoryRests, LimiterRests DEF Retry, RetryPasses, memory, limiter, TransportInv
<1>9. ASSUME NEW c \in Callers, Strip(c) PROVE TransportInv'
  BY <1>9, StripKeeps, LimiterRests DEF Strip, limiter, TransportInv
<1>10. ASSUME NEW c \in Callers, StripPasses(c) PROVE TransportInv'
  BY <1>10, StripPassesKeeps, MemoryRests, LimiterRests DEF StripPasses, memory, limiter, TransportInv
<1>11. CASE UNCHANGED transportVars
  <2>1. CallsInv'
    BY <1>11 DEF transportVars, TransportInv, CallsInv
  <2>2. QED
    BY <1>11, <2>1, MemoryRests, LimiterRests DEF transportVars, TransportInv
<1>12. QED
  BY <1>1, <1>2, <1>3, <1>4, <1>5, <1>6, <1>7, <1>8, <1>9, <1>10, <1>11 DEF TransportNext, Limiter, Layers

THEOREM TransportInvariant == TransportSpec => []TransportInv
  BY TransportStart, TransportStep, PTL DEF TransportSpec

\* Whatever the layers retry, a call whose caller has seen output sends
\* nothing more, and no call makes more than four requests an attempt.
THEOREM NothingIsResent == TransportSpec => []OutputIsNeverResent
<1>1. TransportInv => OutputIsNeverResent
  <2> SUFFICES ASSUME TransportInv, NEW c \in Callers
               PROVE  /\ stage[c] \in {"send", "sleep", "flight"} => ~call[c].saw
                      /\ call[c].sends <= 4 * Attempts
    BY DEF OutputIsNeverResent
  <2>1. CallOK(stage[c], call[c], bad)
    BY DEF TransportInv, CallsInv
  <2>2. stage[c] \in {"send", "sleep", "flight"} => ~call[c].saw
    BY <2>1 DEF CallOK, Unseen, Waiting
  <2>3. call[c].sends <= 4 * Attempts
    BY <2>1 DEF CallOK, Call, Counted, Spent
  <2>4. QED
    BY <2>2, <2>3
<1>2. QED
  BY <1>1, TransportInvariant, PTL

\* What an endpoint refused before a call began is in none of its requests,
\* however often the call is sent again and whoever met the refusal.
THEOREM RefusalsAreKept == TransportSpec => []RefusedStaysOut
<1>1. TransportInv => RefusedStaysOut
  BY DEF TransportInv, CallsInv, CallOK, Excluded, RefusedStaysOut
<1>2. QED
  BY <1>1, TransportInvariant, PTL

\* Any number of callers start their requests an interval apart.
THEOREM RequestsArePaced == TransportSpec => []StartsAreApart
<1>1. TransportInv => StartsAreApart
  BY DEF TransportInv, LimiterInv
<1>2. QED
  BY <1>1, TransportInvariant, PTL

=================================================================================
