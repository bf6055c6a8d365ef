------------------------------ MODULE SearchIndex ------------------------------
(***************************************************************************)
(* search/: the index over a host's conversations.  Ingest copies what     *)
(* moved into the text tables, EmbedPending adds vectors for messages that *)
(* have none, Search reads both halves, and Open rebuilds a half whose     *)
(* schema is another version's.  The database has one connection, so a     *)
(* statement or a transaction is one step; the source, the embedding       *)
(* endpoint and a crash come in between.                                   *)
(*                                                                         *)
(* A message is <<conversation, position>>, as sessionsource.go names it.  *)
(* A text is a number, unique to what was written, and its length decides  *)
(* how many chunks it takes; a vector is the text it was made from.        *)
(***************************************************************************)
EXTENDS Integers, Sequences, FiniteSets, SequencesExt, FiniteSetsExt

CONSTANTS
  Convs, Owners,
  MaxChanges,     \* bound: changes of the source
  MaxUpkeep,      \* bound: crashes, schema rebuilds and model drops
  MaxQueries,     \* bound: searches
  ChunkRunes, ChunkOverlap, MaxChunks,    \* chunkContent's constants
  BatchSize,      \* embedBatchSize
  PassLimit,      \* EmbedPending's limit
  HitLimit        \* Query.Limit

ASSUME SearchBounds ==
  /\ Convs \subseteq Nat
  /\ ChunkRunes \in Nat /\ ChunkOverlap \in 0 .. (ChunkRunes - 1)
  /\ BatchSize \in Nat /\ MaxChunks \in 1 .. BatchSize
  /\ PassLimit \in Nat /\ HitLimit \in Nat

VARIABLES
  src,        \* the host: conversation -> [owner, texts, rev]
  retired,    \* ids the host deleted; it gives out each id once
  sourceChanges,  \* changes of the source so far, and the last text and revision given out
  convRows,   \* indexed_conversations: conversation -> [owner, rev]
  msgRows,    \* indexed_messages: message -> [owner, text]
  vectors,    \* embeddings: [msg, chunk, of], of being the chunk it was made from
  embStatus,  \* embed_status: message -> [chunks, total]
  ing,        \* the Ingest pass under way
  emb,        \* the EmbedPending pass under way
  qry,        \* the Search under way, and the hits of the last one
  upkeep, queries

tables     == <<convRows, msgRows, vectors, embStatus>>
source     == <<src, retired, sourceChanges>>
counts     == <<upkeep, queries>>
searchVars == <<src, retired, sourceChanges, convRows, msgRows, vectors, embStatus, ing, emb, qry, upkeep, queries>>

\* A table with some rows taken out, and with others written over it.
Without(f, S)   == [x \in DOMAIN f \ S |-> f[x]]
Over(new, f)    == [x \in DOMAIN new \cup DOMAIN f |-> IF x \in DOMAIN new THEN new[x] ELSE f[x]]
Entry(x, v)     == [y \in {x} |-> v]
MessagesOf(c, texts) == {<<c, i>> : i \in DOMAIN texts}

\* A set in a total order, given as its pairs: each member at the place that
\* the number of those before it says.
Sorted(S, before) ==
  [k \in 1 .. Cardinality(S) |-> CHOOSE x \in S : Cardinality({y \in S : <<y, x>> \in before}) = k - 1]

---------------------------------------------------------------------------
(* chunkContent: windows of ChunkRunes, each repeating ChunkOverlap        *)

Length(text) == 2 * text
Stride       == ChunkRunes - ChunkOverlap

\* The windows a text needs: one, and one more for each stride until the end
\* is inside.
TotalChunks(len) ==
  IF len <= ChunkRunes THEN 1 ELSE 1 + ((len - ChunkRunes + Stride - 1) \div Stride)
KeptChunks(len) == IF TotalChunks(len) <= MaxChunks THEN TotalChunks(len) ELSE MaxChunks
ChunksOf(text)  == [j \in 1 .. KeptChunks(Length(text)) |-> [text |-> text, chunk |-> j - 1]]
Chunk(len, i)   == {r \in 0 .. (len - 1) : i * Stride <= r /\ r < i * Stride + ChunkRunes}

---------------------------------------------------------------------------
(* The source                                                              *)

Change(c, conv) ==
  /\ sourceChanges < MaxChanges
  /\ sourceChanges' = sourceChanges + 1
  /\ src' = Over(Entry(c, [conv EXCEPT !.rev = sourceChanges']), src)
  /\ UNCHANGED <<retired, tables, ing, emb, qry, counts>>

\* A transcript only grows; a conversation comes into being with one message.
HostAppends ==
  \E c \in Convs, o \in Owners :
    IF c \in DOMAIN src
    THEN o = src[c].owner /\ Change(c, [src[c] EXCEPT !.texts = Append(@, sourceChanges')])
    ELSE /\ c \notin retired
         /\ Change(c, [owner |-> o, texts |-> <<sourceChanges'>>, rev |-> 0])

HostTransfers ==
  \E c \in DOMAIN src : \E o \in Owners \ {src[c].owner} : Change(c, [src[c] EXCEPT !.owner = o])

HostDeletes ==
  /\ sourceChanges < MaxChanges
  /\ sourceChanges' = sourceChanges + 1
  /\ \E c \in DOMAIN src : (src' = Without(src, {c}) /\ retired' = retired \cup {c})
  /\ UNCHANGED <<tables, ing, emb, qry, counts>>

---------------------------------------------------------------------------
(* Ingest                                                                  *)

\* Status' staleCount: what the index has not read at the source's revision.
StaleConversations(o) ==
  {c \in DOMAIN src : src[c].owner = o /\ (c \notin DOMAIN convRows \/ convRows[c].rev # src[c].rev)}

NoPass == [at |-> "idle", listed |-> <<>>, stale |-> {}, gone |-> {}, conv |-> 0, texts |-> <<>>]

\* Conversations' revisions and knownRevisions.
IngestStart ==
  /\ ing.at = "idle"
  /\ LET known == {c \in DOMAIN convRows : c \in DOMAIN src /\ convRows[c].rev = src[c].rev} IN
       ing' = [NoPass EXCEPT !.at = "read", !.listed = src,
                             !.stale = DOMAIN src \ known,
                             !.gone = DOMAIN convRows \ DOMAIN src]
  /\ UNCHANGED <<source, tables, emb, qry, counts>>

\* Messages of one of the changed conversations, in the map's order; one that
\* is no longer there ends the pass with an error.
IngestRead ==
  /\ ing.at = "read"
  /\ \E c \in ing.stale :
       ing' = IF c \in DOMAIN src
              THEN [ing EXCEPT !.at = "write", !.conv = c, !.texts = src[c].texts]
              ELSE NoPass
  /\ UNCHANGED <<source, tables, emb, qry, counts>>

\* Mutant: the revision is asked for when the rows are written.
ReindexLatest ==
  /\ ing.at = "write"
  /\ LET c == ing.conv IN
       /\ msgRows' = Over([m \in MessagesOf(c, ing.texts) |->
                              [owner |-> ing.listed[c].owner, text |-> ing.texts[m[2]]]],
                           Without(msgRows, {m \in DOMAIN msgRows : m[1] = c}))
       /\ convRows' = Over(Entry(c, [owner |-> ing.listed[c].owner,
                                   rev |-> IF c \in DOMAIN src THEN src[c].rev ELSE 0]), convRows)
       /\ ing' = [ing EXCEPT !.at = "read", !.stale = @ \ {c}]
  /\ UNCHANGED <<source, vectors, embStatus, emb, qry, counts>>

\* reindex: the rows and the revision they were listed at, in one transaction.
Reindex ==
  /\ ing.at = "write"
  /\ LET c == ing.conv IN
       /\ msgRows' = Over([m \in MessagesOf(c, ing.texts) |->
                              [owner |-> ing.listed[c].owner, text |-> ing.texts[m[2]]]],
                           Without(msgRows, {m \in DOMAIN msgRows : m[1] = c}))
       /\ convRows' = Over(Entry(c, [owner |-> ing.listed[c].owner, rev |-> ing.listed[c].rev]), convRows)
       /\ ing' = [ing EXCEPT !.at = "read", !.stale = @ \ {c}]
  /\ UNCHANGED <<source, vectors, embStatus, emb, qry, counts>>

\* forget: a conversation the source did not list, its rows and its vectors.
Forget ==
  /\ ing.at = "read" /\ ing.stale = {}
  /\ \E c \in ing.gone :
       LET mine == {m \in DOMAIN msgRows : m[1] = c} IN
       /\ vectors' = {v \in vectors : v.msg \notin mine}
       /\ embStatus' = Without(embStatus, mine)
       /\ msgRows' = Without(msgRows, mine)
       /\ convRows' = Without(convRows, {c})
       /\ ing' = [ing EXCEPT !.gone = @ \ {c}]
  /\ UNCHANGED <<source, emb, qry, counts>>

\* dropOrphanedVectors is two statements.
DropOrphanedVectors ==
  /\ ing.at = "read" /\ ing.stale = {} /\ ing.gone = {}
  /\ vectors' = {v \in vectors : v.msg \in DOMAIN msgRows}
  /\ ing' = [ing EXCEPT !.at = "sweep"]
  /\ UNCHANGED <<source, convRows, msgRows, embStatus, emb, qry, counts>>

DropOrphanedStatus ==
  /\ ing.at = "sweep"
  /\ embStatus' = Without(embStatus, DOMAIN embStatus \ DOMAIN msgRows)
  /\ ing' = NoPass
  /\ UNCHANGED <<source, convRows, msgRows, vectors, emb, qry, counts>>

---------------------------------------------------------------------------
(* EmbedPending                                                            *)

NoQuery == [at |-> "idle", owner |-> 0, text |-> <<>>, hits |-> <<>>]

Pending(o) == {m \in DOMAIN msgRows : msgRows[m].owner = o /\ m \notin DOMAIN embStatus}

\* Texts are numbered in the order they were written.
Newest(S) == Sorted(S, {p \in S \X S : msgRows[p[1]].text > msgRows[p[2]].text})
AtMost(n, s) == SubSeq(s, 1, IF Len(s) < n THEN Len(s) ELSE n)

NoEmbed == [at |-> "idle", todo |-> <<>>, batch |-> <<>>, vecs |-> <<>>]

\* PendingForModel: the newest of what has no embed_status.
PendingForModel ==
  /\ emb.at = "idle"
  /\ \E o \in Owners :
       LET some == AtMost(PassLimit, Newest(Pending(o))) IN
         /\ some # <<>>
         /\ emb' = [NoEmbed EXCEPT !.at = "batch",
                      !.todo = [i \in DOMAIN some |-> [id |-> some[i], text |-> msgRows[some[i]].text]]]
  /\ UNCHANGED <<source, tables, ing, qry, counts>>

\* The chunks of the first so many of some messages, in the order they are sent.
BatchTexts(msgs) ==
  LET texts[i \in 0 .. Len(msgs)] == IF i = 0 THEN <<>> ELSE texts[i - 1] \o ChunksOf(msgs[i].text)
  IN texts

\* A message's chunks never span two requests: a batch is the longest prefix
\* whose chunks fit.
FillBatch ==
  /\ emb.at = "batch" /\ emb.todo # <<>>
  /\ LET n == Max({k \in 1 .. Len(emb.todo) : Len(BatchTexts(emb.todo)[k]) <= BatchSize})
     IN emb' = [emb EXCEPT !.at = "request", !.batch = SubSeq(emb.todo, 1, n),
                           !.todo = SubSeq(@, n + 1, Len(@))]
  /\ UNCHANGED <<source, tables, ing, qry, counts>>

Inputs(batch) == BatchTexts(batch)[Len(batch)]

\* HTTPEmbedder.post puts the answer's entries in the order of their indexes
\* and refuses one that does not cover 0, 1, ...
InOrder(answer) == {e.index : e \in ToSet(answer)} = DOMAIN answer
Indexed(answer) == [i \in DOMAIN answer |-> CHOOSE e \in ToSet(answer) : e.index = i]

\* The endpoint answers with its entries in any order, leaves one out or
\* names one twice; EmbedDocuments and embedBatch refuse what does not match.
Answers(inputs) ==
  LET all   == [i \in DOMAIN inputs |-> [index |-> i, of |-> inputs[i]]]
      Twist(f) == [i \in DOMAIN all |-> all[f[i]]]
  IN {Reverse(all), all, Front(all), Twist([i \in DOMAIN all |-> 1])}

\* Mutant: the vectors are taken in the order of the answer.
EndpointUnordered(answer) ==
  /\ emb.at = "request"
  /\ LET inputs == Inputs(emb.batch) IN
       /\ answer \in Answers(inputs)
       /\ emb' = IF Len(answer) = Len(inputs) /\ InOrder(answer)
                 THEN [emb EXCEPT !.at = "store",
                         !.vecs = [i \in DOMAIN answer |-> answer[i].of]]
                 ELSE NoEmbed
  /\ UNCHANGED <<source, tables, ing, qry, counts>>

EndpointAnswers(answer) ==
  /\ emb.at = "request"
  /\ LET inputs == Inputs(emb.batch) IN
       /\ answer \in Answers(inputs)
       /\ emb' = IF Len(answer) = Len(inputs) /\ InOrder(answer)
                 THEN [emb EXCEPT !.at = "store",
                         !.vecs = [i \in DOMAIN answer |-> Indexed(answer)[i].of]]
                 ELSE NoEmbed
  /\ UNCHANGED <<source, tables, ing, qry, counts>>

EndpointFails ==
  /\ emb.at = "request"
  /\ emb' = NoEmbed
  /\ UNCHANGED <<source, tables, ing, qry, counts>>

\* The rows embedBatch writes: chunk j of message i takes the next vector.
NewVectors ==
  UNION {LET at == Len(BatchTexts(emb.batch)[i - 1]) IN
           {[msg |-> emb.batch[i].id, chunk |-> j, of |-> emb.vecs[at + j + 1]] :
              j \in 0 .. (KeptChunks(Length(emb.batch[i].text)) - 1)} : i \in DOMAIN emb.batch}

Replaces(new) == {v \in vectors : \E w \in new : w.msg = v.msg /\ w.chunk = v.chunk}

\* embedBatch's transaction.
StoreBatch ==
  /\ emb.at = "store"
  /\ vectors' = (vectors \ Replaces(NewVectors)) \cup NewVectors
  /\ embStatus' = Over([m \in {b.id : b \in ToSet(emb.batch)} |->
                          LET len == Length((CHOOSE b \in ToSet(emb.batch) : b.id = m).text)
                          IN [chunks |-> KeptChunks(len), total |-> TotalChunks(len)]],
                        embStatus)
  /\ emb' = IF emb.todo = <<>> THEN NoEmbed ELSE [NoEmbed EXCEPT !.at = "batch", !.todo = emb.todo]
  /\ UNCHANGED <<source, convRows, msgRows, ing, qry, counts>>

---------------------------------------------------------------------------
(* Upkeep                                                                  *)

Upkeep == upkeep < MaxUpkeep /\ upkeep' = upkeep + 1

\* DropModel, in one transaction.
DropModel ==
  /\ Upkeep
  /\ vectors' = {}
  /\ embStatus' = <<>>
  /\ UNCHANGED <<source, convRows, msgRows, ing, emb, qry, queries>>

\* The process ends where it is and Open's applySchema rebuilds the half whose
\* version or shape is not this one's; each half is dropped without the other.
Reopen ==
  /\ Upkeep
  /\ ing' = NoPass /\ emb' = NoEmbed /\ qry' = NoQuery
  /\ \/ convRows' = <<>> /\ msgRows' = <<>> /\ UNCHANGED <<vectors, embStatus>>
     \/ vectors' = {} /\ embStatus' = <<>> /\ UNCHANGED <<convRows, msgRows>>
     \/ UNCHANGED tables
  /\ UNCHANGED <<source, queries>>

---------------------------------------------------------------------------
(* Search: the text half, the query's embedding, the vector scan and the   *)
(* hydration are separate reads                                            *)

WordMatch(text)      == text % 2 = 0
SubstringMatch(text) == text % 3 # 0
OwnersRows(o)        == {m \in DOMAIN msgRows : msgRows[m].owner = o}
HitsOf(list)         == [i \in DOMAIN list |-> [msg |-> list[i], owner |-> msgRows[list[i]].owner]]

SearchText ==
  /\ qry.at = "idle" /\ queries < MaxQueries
  /\ queries' = queries + 1
  /\ \E o \in Owners :
       qry' = [NoQuery EXCEPT !.at = "semantic", !.owner = o,
         !.text = AtMost(2 * HitLimit, Newest({m \in OwnersRows(o) : WordMatch(msgRows[m].text)}))]
  /\ UNCHANGED <<source, tables, ing, emb, upkeep>>

\* A message contributes its best chunk; ties go to the smaller id.
Before(m, n) == m[1] < n[1] \/ (m[1] = n[1] /\ m[2] < n[2])
Scanned(o) ==
  LET found == {m \in OwnersRows(o) : \E v \in vectors : v.msg = m}
  IN Sorted(found, {p \in found \X found : Before(p[1], p[2])})

\* Reciprocal rank fusion: the score of a message as a fraction, and the order
\* of scores with ties broken by id.
RankIn(list, m) == CHOOSE i \in DOMAIN list : list[i] = m
Score(text, semantic, m) ==
  LET i == IF m \in ToSet(text) THEN 60 + RankIn(text, m) ELSE 0
      j == IF m \in ToSet(semantic) THEN 60 + RankIn(semantic, m) ELSE 0
  IN IF i = 0 THEN <<1, j>> ELSE IF j = 0 THEN <<1, i>> ELSE <<i + j, i * j>>
Beats(x, y) == x[1] * y[2] > y[1] * x[2]
Fuse(text, semantic) ==
  LET found == ToSet(text) \cup ToSet(semantic)
      score == [m \in found |-> Score(text, semantic, m)]
      ahead(m, n) == \/ Beats(score[m], score[n])
                     \/ ~Beats(score[n], score[m]) /\ Before(m, n)
  IN Sorted(found, {p \in found \X found : ahead(p[1], p[2])})

\* The second half runs when the caller has an embedder; a failed one ends the
\* search.  With nothing from either half the literal search answers instead.
SearchSemantic ==
  /\ qry.at = "semantic"
  /\ \E semantic \in {<<>>, AtMost(2 * HitLimit, Scanned(qry.owner))} :
       qry' = IF qry.text = <<>> /\ semantic = <<>>
              THEN LET literal == {m \in OwnersRows(qry.owner) : SubstringMatch(msgRows[m].text)}
                   IN [NoQuery EXCEPT !.owner = qry.owner, !.hits = HitsOf(AtMost(HitLimit, Newest(literal)))]
              ELSE [qry EXCEPT !.at = "hydrate", !.text = AtMost(HitLimit, Fuse(@, semantic))]
  /\ UNCHANGED <<source, tables, ing, emb, counts>>

QueryFails ==
  /\ qry.at = "semantic"
  /\ qry' = NoQuery
  /\ UNCHANGED <<source, tables, ing, emb, counts>>

\* Those of a ranked list in some set, in the order of the list.
Among(ranked, S) ==
  LET found  == {i \in DOMAIN ranked : ranked[i] \in S}
      places == Sorted(found, {p \in found \X found : p[1] < p[2]})
  IN [k \in DOMAIN places |-> ranked[places[k]]]

\* Mutant: the ids are looked up whoever owns them now.
HydratedAny(o, ranked) == HitsOf(Among(ranked, DOMAIN msgRows))

\* The stored fields of the ranked ids, for the owner only; an id that left the
\* index in between is passed over.
Hydrated(o, ranked) == HitsOf(Among(ranked, OwnersRows(o)))

Hydrate ==
  /\ qry.at = "hydrate"
  /\ qry' = [NoQuery EXCEPT !.owner = qry.owner, !.hits = Hydrated(qry.owner, qry.text)]
  /\ UNCHANGED <<source, tables, ing, emb, counts>>

---------------------------------------------------------------------------

Host       == HostAppends \/ HostTransfers \/ HostDeletes
Ingest     == IngestStart \/ IngestRead \/ Reindex \/ Forget \/ DropOrphanedVectors \/ DropOrphanedStatus
EmbedStep  == PendingForModel \/ FillBatch \/ StoreBatch
Endpoint   == EndpointFails \/ \E answer \in Answers(Inputs(emb.batch)) : EndpointAnswers(answer)
Search     == SearchText \/ SearchSemantic \/ QueryFails \/ Hydrate

SearchInit ==
  /\ src = <<>> /\ retired = {} /\ sourceChanges = 0
  /\ convRows = <<>> /\ msgRows = <<>> /\ vectors = {} /\ embStatus = <<>>
  /\ ing = NoPass /\ emb = NoEmbed /\ qry = NoQuery
  /\ upkeep = 0 /\ queries = 0

SearchNext == Host \/ Ingest \/ EmbedStep \/ Endpoint \/ DropModel \/ Reopen \/ Search

SearchSpec       == SearchInit /\ [][SearchNext]_searchVars

---------------------------------------------------------------------------
(* Properties                                                              *)

\* A conversation that Status does not count as stale has exactly the source's
\* messages and owner in the index, whatever was written, ended or reopened
\* while it was read (Ingest lists revisions before it reads transcripts).
CurrentMeansEqual ==
  \A o \in Owners : \A c \in {d \in DOMAIN src : src[d].owner = o} \ StaleConversations(o) :
      /\ convRows[c].owner = o
      /\ {m \in DOMAIN msgRows : m[1] = c} = MessagesOf(c, src[c].texts)
      /\ \A m \in MessagesOf(c, src[c].texts) :
           msgRows[m] = [owner |-> src[c].owner, text |-> src[c].texts[m[2]]]

\* A vector of an indexed message was made from the text that is indexed under
\* its id, also when the endpoint answers out of order or an Ingest ran while
\* it was answering; and a message that counts as embedded has every chunk that
\* was kept, which cover its text unless the record says that it was cut
\* (embedBatch, HTTPEmbedder.post, chunkContent, dropOrphanedVectors).
VectorsMatchText ==
  /\ \A v \in vectors : v.msg \in DOMAIN msgRows
       => v.of = [text |-> msgRows[v.msg].text, chunk |-> v.chunk]
  /\ \A m \in DOMAIN embStatus \cap DOMAIN msgRows :
       LET st == embStatus[m] IN
         /\ {v.chunk : v \in {w \in vectors : w.msg = m}} = 0 .. (st.chunks - 1)
         /\ st.total = st.chunks =>
              UNION {Chunk(Length(msgRows[m].text), i) : i \in 0 .. (st.chunks - 1)}
                = 0 .. (Length(msgRows[m].text) - 1)

\* A search answers only with messages that were its owner's when they were
\* read, each once, though rows change hands between ranking and reading
\* (hydrate).
HitsAreTheOwners ==
  /\ \A i \in DOMAIN qry.hits : qry.hits[i].owner = qry.owner
  /\ Len(qry.hits) <= HitLimit
  /\ \A i, j \in DOMAIN qry.hits : qry.hits[i].msg = qry.hits[j].msg => i = j
===============================================================================
