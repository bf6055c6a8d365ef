# agentic-loop in TLA+

`agentic-loop` is a Go library that runs the loop of a tool-using language model: it calls a
provider, executes the tools the model asks for, feeds the results back and stops on an answer.
Around that loop several goroutines meet: hosts that queue messages while a turn runs, sub-agents
that report when they are done, read-only tools that run side by side, a session whose methods may
be called from anywhere, servers that keep conversations for several connections. Below it lie
the layers of a model call, its decoders and its documents; beside it a search index, a resource
watch, a task list, goal mode and repository tools. These modules model all of that, TLC checks it
on small instances, and TLAPS proves the main safety properties for all values of the constants.

## Reading order

| Module | Source | What it models |
|---|---|---|
| `Mailbox` | none: a promise | the abstract queue: taken, delivered, handed back |
| `MessageQueue` | `message_queue.go`, the drain and close points of `run_loop.go` | the queue under its mutex, step by step |
| `SubagentRuns` | `subagent_runs.go`, `gate.go`, `subagent/subagent_run.go` | asynchronous sub-agents, the gate, and the waiting parent |
| `ToolBatch` | the batch part of `run_loop.go`, `run_tools.go`, `session.go` | one turn's calls, their goroutines and their results |
| `RunLoop` | `run_loop.go`, `run_call.go` | every exit of `runOn`, rows, unanswered calls, model calls, stuck detection |
| `Session` | `session_api.go`, with `session.go` | Send, Queue, Append, SetLeaf, Close around turns |
| `ContextWindow` | `autocompact.go`, `compact.go`, `contextwindow.go`, `dedup.go` | what of a conversation a request carries |
| `ArgHooks` | `argscan.go`, `arghook.go`, `callSink` of `session.go` | tools that watch and refuse an argument while it streams |
| `Transport` | `core/paramstrip.go`, `core/thinkingrepair.go`, `extras/` | the retrying layers of one call and the rate limiter |
| `ProviderStream` | `core/*_stream.go`, `core/streamstring.go`, `http/stream.go`, `socket/stream.go` | four decoders into one message, and the document written meanwhile |
| `DocumentStream` | `core/docread.go` | bytes of a socket cut into documents |
| `Documents` | `core/xmlencode.go`, `xmldecode.go`, `dialectparams.go` | a request or a failure, written and read back |
| `ConversationStore` | `session/session.go`, `session/file.go` | the memory and the file store |
| `Serving` | `http/server.go`, `socket/socket.go` | connections over a `ConversationStore`, which it extends |
| `SearchIndex` | `search/` | ingest, embedding, upkeep and search, transaction by transaction |
| `ResourceWatch` | `resources/` | a poll from stored snapshots to the notice |
| `TodoList` | `todo/todo.go` | the task list and the host's copy of it |
| `GoalLoop` | `goal/` | a goal, its evaluator and the stop boundary |
| `RepoReads`, `RepoWrites` | `repo/` | requests over several credentials, the replay cache; writes of several steps |
| `ModelList` | `core/modellist.go`, `modellimits.go` | the paged, cached list of models |
| `MessageQueueProofs`, `SubagentRunsProofs`, `ToolBatchProofs`, `RunLoopProofs`, `SessionProofs`, `ServingProofs`, `PartsProofs`, `DocumentsProofs` | | theorems and their proofs |
| `MC*` | | instances for TLC |

A path without a directory is in `src/internal/loop/`, any other below `src/`. `PROJECT.json` names,
for every definition that models code, the lines it stands for.

## Inventory of the system

| Component | State | Operations | What is hard | What makes it correct |
|---|---|---|---|---|
| Message queue | items, closed, mutex | Queue, Drain, Close, Pending | producers race the run's last drain and its close | accepted means delivered or handed back; order of arrival within a kind |
| Run loop | turn, rows of the host, last batch, retried turn, result | one call of `runOn` | over a dozen exits, panics, retries that take the turn number back | no call left without a result, rows settled, the run returns |
| Tool batch | results, first error, two wait groups | dispatch, resolve, record, abort | reads in goroutines, approvals that are interrupted | a mutating call is a barrier; results in call order; nothing outlives the batch |
| Asynchronous sub-agents | active, ready, one-place signal, slots | Launch, MarkRunning, Complete, Take, Collect, CancelRemaining | wake-ups, cancellation in the gate, panics, the capped turn | each launch reports once, no lost wake-up, slots come back |
| Session | running turn, pending messages, closed, leaf, tree | Send, Queue, Append, SetLeaf, Close, finish | two mutexes, checks that are stale when used, futures | one turn at a time on one branch; no message lost between turns; Close waits |
| Compaction, window, deduplication | first node of the window, memory of 512 outputs | compactNow, compactToFit, resolveWindow, Collapse, Reset | folds away what later turns refer to; a summary that is itself too large | a marker's original is in the window; each message is summarized once |
| Argument hooks | a scanner per call, refusals by id | feed, watchArgs, Retry | fragments split anywhere, names late, ids absent | each value heard once and whole; a refusal answers its own call |
| Call layers | stripped names, rejected signatures, next start | do, retryWith, Wait | concurrent calls share what was refused; layers multiply | output is never requested twice; a refusal is remembered; starts keep apart |
| Decoders, answer documents | nodes, keys of the dialect, open element | events, finish, OnText, OnPart | interleaved parts, late ones, broken streams | nothing received is lost; the document is the message |
| XML format | the scanner's state; the tree of elements | ReadDocument, encode, decode | no framing on a socket; attributes and trees joined | documents come apart; what is written reads back |
| Conversation stores, servers | documents by id, one mutex; open answers | Create, Get, Put, Append, Delete; one document per connection at a time | crash between write and rename, turns of several connections | a stored turn stays; an answer follows its turn |
| Search index | text rows, vectors, embed status, revisions | Ingest, EmbedPending, DropModel, Search | the endpoint's answer meets a re-indexed message; revisions are read first | current means equal; a vector is of the text indexed; hits are the owner's |
| Resource watch | snapshots, changes, warnings | Poll, record | crash or failure between change, snapshot and notice | told is what is stored |
| Task list | the list, the next id | add, edit, cancel, complete | the host's Write fails after the change | an id names one task |
| Goal mode | condition, armed, repeated reason | set, clear, retry, Evaluate | cancellation during the evaluator's call | an own stop never suspends; no endless refusals |
| Repository tools | winner, tags with bodies | reads, create, update, branch, pull request | several credentials, lost answers, a shared replay cache | a replay is whole; what was created is reported |
| Model list | pages so far, the cache | entries, entryFor | two request forms, a cap on pages, failures | a list is kept only whole |
| Events, state checks, helpers, client, files, web, command line | | adapters | I/O and formatting | not modelled, see the end |

Interaction: `Send` starts a goroutine that runs `runOn` with the session's tree and one queue;
`Queue` reaches that queue through the session; `runOn` drains it at turn boundaries, polls the
watched resources, compacts the window, and calls the model through the call layers into a decoder,
whose nodes go to the session's sink and, in a server, into the answer's document. It hands the
model's calls to the batch, whose `run_subagent` calls register in the sub-agent registry; their
goroutines wait at the gate, run a nested loop and report through the registry; the loop takes or
awaits reports when the model asks for no more tools, and goal mode may refuse the stop. Servers
append turns and answers to a store, which the search index follows. Callbacks of the host run
synchronously on whichever goroutine emits them.

## The modules

**MessageQueue.** A step is one acquisition of the mutex, one test, one dequeue, or one model
call. `Pending` reads the queue without the lock of `Close`, as `answer` does. `drainLocked` is
the loop `TakeOne` and its end `TakeDone`, with the two slices as variables. `Abstract`
instantiates `Mailbox` (waiting = items and slices, delivered = batches, returned = leftover), and
`ImplementsMailbox` says each step is one of Mailbox's or none: an acceptance that raced the last
drain would show up as a message leaving from nowhere or staying after the hand-back.

**SubagentRuns.** `agent[a]` is where the goroutine of a launch is: at the gate, running, about to
complete, emitting, unwinding its defers. `Complete` is three steps because the host's callback
runs between storing the report and the poke; a panic there is an action (`EmitPanics`). `signal`
is the one-place channel. The parent is `runOn` reduced to what it does with the registry:
boundary, tools, Collect (a test, then a wait), the capped turn's Take and CancelRemaining, and a
second `Send` over the same registry. Branches of `Collect` that its caller cannot reach (an empty
registry, as `runOn` asks `Pending` first and only it removes entries) are left out.

**ToolBatch.** One batch of `N` calls. `kind` is what the dispatcher finds (a read-only tool, a
mutating one, an unknown name, a call refused from its streamed arguments). A read runs
concurrently with the dispatcher; any other call waits for the reads (`Barrier`), runs on the
dispatcher, and the dispatcher goes on. A failing hook drains and aborts; an interrupted approval
stops the dispatch and aborts after the join. Recording goes in call order with the storing of each
message, and either may fail. `omitCalls` gives every call without a result an omitted one.

**RunLoop.** One run. The batch is one step, the registry, the queue and the inbox are whether they hold
something, and the model's call is its outcome: an error class, a batch or none, text or not. `fin`
collects the statuses of every row the host minted, `open` says the tree holds a call without a
result, `calls` counts `Result.Turns`. Compaction appears as the retried overflow.

**Session.** `running`, `pending`, `closed`, `undelivered` are the fields of `publicSession`; each
turn has its queue, or all have the host's. A method is one critical section, or two where the code
has two: `SetLeaf` looks under one mutex and writes under another; `Send` leaves the mutex before
it appends. A node of the tree is its turn, its parent and its message, all that the properties
need. The turn's goroutine is the loop as far as queue and tree see it, with the early return
before the deferred `Close`, panics, `finish` and the settling of the future.

**ContextWindow.** The tree grows, a path is read from its leaf, and the window starts at a summary
when there is one on the path. A message is its size, who wrote it, what output it shows and which
nodes it speaks for. `stack` is the recursion of `compactToFit`: a frame is a list of messages and
how many of them a call below it is summarizing. A run compacts at its share of the window, before a
request that would not fit, and once a turn when the server refuses one. `keys` is the bounded
memory of outputs, dropped with each summary.

**ArgHooks.** Two calls of a turn stream fragments, in chunks, to the sink, which runs a byte-level
scanner over each (`StepScan` is `argScanner.step`). `Written` builds the text of a call together
with where each of its members is whole, which is the reference the scanner is compared with. What a
text may be is the assumption `LegalTurns`: JSON as far as it goes, perhaps broken off. A key is
decoded by json.Unmarshal, which is external: `Decodes` and `Decoded` are constants. A hook
passes or refuses; the chunk is finished, the stream ends, and the batch looks the refusal up by id.

**Transport.** A call is a place in the stack of layers. A reply goes up from the dialect through the
retry to the parameter stripper, and each layer passes it on or sends again; every send takes a start
from the limiter, in which a caller reserves, sleeps, and may give up. Remembered names and
signatures and the limiter's clock are shared. A key stands for its normalized spelling.

**ProviderStream.** An event of one of four dialects changes nodes and what the sink was told; a
piece of text is the number of the event that brought it, so that a piece lost, doubled or moved
shows. Streams end, break, fail in a callback, or arrive whole. `doc` is the document the servers
write from the callbacks while the call runs, closed by `finish` with what was never announced.

**DocumentStream.** A peer writes legal tokens (tags with attributes, comments, CDATA, processing
instructions, text) and the scanner follows the bytes; a byte is one of the characters it tells apart.
What the tokens hold is given by constants, under the assumption `LegalXML`: what XML itself forbids
inside them. `MCPeer` gives them for TLC, with quotes in quotes, tags in comments, beginnings of an end.

**Documents.** Requests of a small instance, with messages, calls, tools, tri-state facts and
parameters per dialect, and failures of every kind, become a tree of elements and are read back; an
empty field is absent, an attribute comes back as text, a panic is a step of its own.

**ConversationStore, Serving.** A write of the file store is two steps, the temporary file and the
rename, under the mutex; a crash falls anywhere. A connection takes one document at a time: the turn
is appended, the call made, the answer written, then recorded, each in a step of its own. Request k
posts message u(k), and its answer is a(k).

**SearchIndex.** A transaction is a step; the host's changes, the endpoint, a second pass, a model
drop and a reopen with another schema come in between. A vector is the text it was made from, a
chunk its place in the text, an answer of the endpoint a list of indexed entries in any order.

**ResourceWatch, TodoList, GoalLoop, RepoReads, RepoWrites, ModelList.** Each is the whole of its
component at the grain of its calls to the outside (a read, a store call, a request, a page, an
evaluator call), each of which may fail, be lost or be cancelled as the code lets it.

## Runs

Bounds are CONSTANTS, named at their declaration, and given in the `.cfg` or, for `Documents` in
`MCDocuments`, in the `INSTANCE`.

| Run | Checks | States |
|---|---|---|
| `message_queue` | nothing stranded, order kept, refinement of `Mailbox`, every accepted message settles | 87 k |
| `subagent_runs` | one report per launch and an answer that leaves none untold, a wait ends, every launch ends | 91 k |
| `tool_batch` | barrier, no goroutine left, the batch ends; a refusal is the answer | 688 k |
| `run_loop` | calls answered on every exit, rows settled, stuck detection, the run ends | 1.09 M |
| `session` | accepted messages kept in order, a turn is one branch, Done and Close mean what they say, turns settle | 439 k |
| `serving` | a stored turn survives, an answer follows its turn; output never requested twice, refusals remembered, starts apart | 5.1 M |
| `documents` | nothing received is lost, the document is the message, documents come apart, a request survives | 2.64 M |
| `parts` | eleven properties of eight parts | 1.79 M |
| `accepted_messages`, `endless_compaction`, `unreadable_document`, `cut_comment` | one statement of the documentation or a comment each, which the code does not keep | |

`tool_batch`, `serving`, `parts` and `documents` each check several modules that share no state. The initial state
chooses one of them; it starts there, and the variables of the others rest, so the run has the sum of
the parts' states and not their product. A module that a proof module extends is extended here too, and
rests at its beginning while another is on, so that each property is checked as it stands and as the
theorem has it; `MCDocuments` instantiates `Documents`, whose property it states under its part.

Why the bounds are enough:

- `message_queue`: two producers, two messages each, two model calls. Both kinds of message of
  both producers meet in one drain; a message lands before, between and after both drains, and
  between `Pending` and `Close`.
- `subagent_runs`: two launches and one slot, so one waits at the gate; two Sends of three turns,
  so a report may land in a boundary, in a wait, on the capped turn, or in the next Send.
- `tool_batch`: three calls of every kind, so a read before, beside and after a mutating call. Of the
  hooks two calls: one with every kind of key and of value before another member, split at every
  byte, with a name that may come at any fragment; one cut in two; a retry.
- `run_loop`: four turns, so a retry, a nudge, a stuck end and a capped turn all occur; the
  thresholds 3 and 6 of stuck detection become 2 and 3.
- `session`: two turns of at most two model calls and two calls of Queue, Append, SetLeaf or
  Close. Two messages show order; a call and a Send show each race of two methods; a SetLeaf with
  an Append shows a branch under another leaf.
- `serving`: two connections, two ids, three requests: two turns on one conversation with a request
  between them that deletes, overwrites or creates it, and a restart at any point.
  Two callers with two calls each, so that a second call meets what either first one learned; two
  spellings of one parameter and one signature, so each layer retries once and they multiply; two
  attempts; two ticks and an interval of two, so that a reserved start comes and one given up is a gap.
- `documents`: four events over two keys: two parts that interleave, a late piece after an end, and
  the end of an item out of order. Two documents of at most five tokens and three elements deep put
  each kind of markup inside and between elements. A known and an unknown parameter of two dialects
  take each road of `Documents`.
- `parts`: two conversations, two owners, texts of one, two and more chunks than are kept, batches of
  three, so a message waits for the next request, and two hits asked for, so that one is cut off; a window that holds fewer messages than a run
  brings, so a summary is split, and a memory of one output; two resources over a cap of one; a
  list of two and four calls; two goals, a third equal reason; two readers of which one caps the
  body, two tokens, one cached tag; two write tokens, two calls and two steps of other people; four
  models, one to a page, two pages.

Symmetry is used where callers, connections or keys are interchangeable, and only with invariants.
`CHECK_DEADLOCK FALSE` is set where a system may rest: the servers with no more requests, a stack
with no more calls, a part that has spent its bound.

Fairness is only of goroutines and of what the code waits for. A goroutine that can step does
(weak fairness). Taking the queue's mutex or a slot of the gate is strongly fair: a Go mutex hands
itself to a waiter that has starved, and a channel serves its waiters in order. Model calls, tools,
approvals and nested runs return, if only because their context ends; in `ContextWindow` this is
weak fairness of a compaction that is under way. Nothing makes a host queue, send, cancel or close,
a client connect, or an endpoint succeed. The temporal properties of `session` are of turns and of
`Close`, never of a call the host might make.

### What the documentation says and the code does not do

Four are runs, each with a behaviour TLC finds:

1. **`accepted_messages`**: a message queued into a turn whose window configuration is refused is
   neither delivered nor in `Undelivered`.
2. **`endless_compaction`**: when a summary and the user's message behind it are together more than
   the server takes, `compactToFit` splits between the two, summarizes the summary, and is where it
   was: the same two calls for ever.
3. **`unreadable_document`**: a request whose dialect parameters are all trees is written, and
   reading it assigns to a nil map.
4. **`cut_comment`**: a comment that begins with `>` or with `->` is over for the scanner at once. It
   looks for `-->` in everything behind the `<`, the two dashes that began the comment among it, and
   what looks like a tag in the comment's rest then counts, though comments are recognized so that it
   does not. `NoneCutShort` names the comments of which it is not so.

Others are not runs of their own; each is an exception named in a formula, or a fact met on the way:

- Loop: on the capped turn, a report between `Take` and `CancelRemaining` is neither delivered nor
  declared lost; a host callback that panics inside `Complete` skips the poke (`WaitIsKept`'s
  exception); an abort answers calls that ran as if they had not; an aborted batch's row is finalized
  twice, a blank turn's that awaits a sub-agent never (`RowsSettled`); a turn without tools does not
  clear the repetition count; `deliver` ignores what a host queue closed from outside answers; a window that
  is not on the path after `SetLeaf` is passed over and the whole path used.
- Argument hooks: two calls without an id share one refusal; a refusal ends the stream under the
  turn's other calls, which then run on what they had; a host that replaces the batch may rename a
  refused call, which then runs; what is whole before a late name is not heard.
- Decoders and documents: an OpenAI stream announces a reasoning part before its structured details
  have come; a completions answer that loses its leading blank, and a text that its item's end
  corrects, are written twice into the document (`DocumentIsTheMessage`); finishing a streamed string
  that is already done drops the value; a dialect parameter that rides as an attribute comes back as text
  where `docs/format.md` says it comes back the way it was supplied; a cancelled call or a failed
  callback, read back from its `<error>`, is transient.
- Stores and index: `Memory.Create` may overwrite an id that was put before; a transcript that is
  replaced as a whole keeps its old vectors.
- Tasks, resources: ids are used again by a toolset built again, and the host's Write receives the
  store's own slice; a change that was stored is never said when the run is cancelled or dies there
  (`ToldWhatIsStored`'s exception).
- Repositories: a failed token attempt at the transport lets the anonymous failure be reported; an
  anonymous rate limit outranks a token's failure when owners are listed; a replayed body ignores the
  caller's own cap; a first credential's branch stays behind when its file was refused and the path
  was taken meanwhile, though a refused call is said to create nothing; a lost answer to a write is a
  failure though the write was made; a listing whose later page fails is not marked as cut.

## Proofs

All for arbitrary constants; the assumptions are the named `ASSUME`s of the modules.

- `MessageQueueProofs`: the type invariant sharpened with which goroutine may be at which point;
  `LockInv`, that whoever is between lock and unlock holds the mutex and that a goroutine past the
  closed test found the queue open; from both `NoMessageStranded`. `FreshInv`, that a message in
  hand was nowhere before, makes each enqueue an `Accept`, and with an effect lemma per action
  `MailboxImplemented`. `Mailbox` needs messages to be distinct, which is why a producer numbers
  them, and that in turn why `FreshInv` relates `sent` and every place.
  `ArrivalOrder` needs `OrderInv`, the property place by place along the `Road` (batches, what was
  handed back, the two slices of a drain, the queue): each place in the order of acceptance, earlier
  batches ahead of everything else, the slices ahead of the queue and each of one kind. `LateInv`
  says that once the run ended on an answer, everything undelivered was accepted after its last look.
- `SubagentRunsProofs`: `NoLostWakeup` needs `WakeInv`, that a ready report not yet announced has
  its goroutine at the poke, or the signal is set, wherever the parent is about to wait.
  `AnswerWaitsForAll`, that a run which answered has nothing out and nothing ready, is inductive with
  the types. `ReportsOnce` needs `ReportInv`, the place of each launch related to its goroutine, and
  the assumption `UniqueIDs`: a provider never repeats a call id. Without it a second launch under
  an id that is out is ignored and its report lost. With `AnswerWaitsForAll` it says that every
  launch of a run that answered was told or declared lost.
- `ToolBatchProofs`: one inductive invariant relates dispatcher, loop index, each call's place and
  its result (calls before the index were dispatched, those after are idle, only reads are busy
  while the dispatcher is free); barrier, order, no goroutine left and the kept interruption follow.
  Of `ArgHooks`: `RefusalIsTheAnswer` rests on `HooksInv`, which says of each call (`CallOK`) that a
  scan put away is the scan of all bytes that arrived in this try, however they were cut, that a call
  without a scanner watches nothing or was refused, and that its hook has heard what is due, or a
  beginning of it that ends where it refused. What is due is said of the members the text was written
  from, so what a scan tells of the bytes has to be what was written (`Reports`, by `WrittenIsTold`):
  member after member, the scanner goes through the gap, the key with its escapes, the colon, the value and
  what follows it, and completes the value at the byte the writer names. A value is a string, an
  object or an array that ends at its last byte and not before (the scanner's depth is a reader's), or
  holds no delimiter. Behind a break or a key that does not decode it stays dead. Beside it, ids are
  apart (`IdsApart`), a kept refusal is of a call that refused (`KeptInv`), and a chunk that saw a
  refusal is the last (`BegunInv`).
- `RunLoopProofs`: `RowInv` bounds the rows by two attempts a turn, `CountInv` the model calls by
  phase (one per attempt, one for a wrap-up, none of those on the last permitted turn), with the
  turn that was retried counted in both: `CallsBudgeted`. `OpenInv` says that only a call that just
  returned leaves calls open, and only those it streamed: `CallsAnswered`. `FinInv` says that rows
  past the newest are bare, earlier ones finalized once or silent, and the newest in flight until it
  is finalized: `RowsAreSettled`. `StuckInv` says the executed batches end in a block of equal ones
  exactly as long as the counter, short of the limit while the run goes on: `StuckCaught`.
- `SessionProofs`: `TurnInv`, that a turn has begun and not finished exactly while it is `running`,
  is inductive with the types and gives one turn at a time. `SettledInv` adds what finish stored,
  `CloseInv` that past Close's beginning only the awaited turn can run: `DoneIsSettled` and
  `CloseIsLast`. `BranchInv` says the leaf of a turn past its first append is the turn's own newest
  node, as the leaf moves by its nodes only (a stale SetLeaf apart): `BranchIsWhole`.
  `QueuedStays` rests on `QueueInv` (between drain and append the turn is delivering; while the
  running turn's queue is open nothing is pending; a turn with a result closed and emptied its queue)
  and on `KeptInv`, that the four places in `Line` hold rising numbers, each place before the next,
  apart from what was handed back, and that nothing is lost without an `Excuse`: a turn without a
  result, or a host's queue on its second turn.
- `ServingProofs`: the invariant is per connection, then per pair of connections, then per
  transcript. `ClientOK` says what a connection is writing is its own request, that its turn is stored
  while its call is out (unless a named exception took it out), and that it is unanswered until it
  records; `Apart` that no two connections hold one request and at most one is in a write;
  `TranscriptOK` that answers are single and behind their turns. Since a step changes one connection,
  lemmas say what survives for the others (`OneClient`, `Opens`, `GoesOn`, `Rests`,
  `WriteEndsKeeps`), and both theorems follow: `TurnsAreKept` and `AnswersAreInPlace`.
  Of `Transport`: a call in isolation satisfies `CallOK`: its types; that output seen means no
  layer below has asked again; that its requests are at most two for each attempt so far, over at
  most two rounds, hence four an attempt; and that its request is without what was remembered when it
  began. Beside it `MemoryInv`, that what was refused is stripped, and `LimiterInv`, that each start
  given out lies an interval before the next. A step of a caller disturbs only its own `CallOK`:
  `NothingIsResent`, `RefusalsAreKept`, `RequestsArePaced`.
- `PartsProofs`, seven parts one after the other:
  - Goal mode: `OwnStopKeepsGoal` is a step property and needs no invariant. `NobodyIsGroundDown`
    rests on `RunCounted`, that the goal's counter is the length of the block of equal refusals at the
    end of its history, and on a limit of at least one.
  - Model list: `ListIsWhole` rests on `ListInv`, that the pages read are the list's beginning up to
    the cursor.
  - Repository: `BranchReportIsTrue` rests on `WriteInv`, that a call's note of a branch it made is
    true whichever credential made it; `AnswersAreWhole` on `ReadInv`, that no entry of the replay
    cache is cut, nor the one a request in flight was sent with.
  - Resource watch: `NoChangeIsSkipped` rests on `WatchInv`. While a poll lists, it captures each
    resource once and none of a source it has not come to (`ListingOK`). The differences still to be
    recorded and those recorded are of one resource each and apart; the recorded ones are in the
    snapshots, and everything else is as the notices say (`RecordingOK`). A warning given is told, on
    its way, or lost with its run (`WarningsOK`).
  - Task list: `IdsAreNotReused` rests on `TodoInv`: ids are apart in the list and in the host's copy,
    every id of either or ever shown is below the next one, and an id shown stays with its task.
    That a toolset built anew starts above all of them needs a greatest id to exist (`GreatestOfNats`).
  - Search index: `CurrentRowsAreTheSource` rests on `SearchInv`: nothing carries a revision the
    source has not reached (`RevisionsGiven`); as long as a listed revision is the source's, so are
    the owner and the transcript that was read after it (`PassIsCurrent`); and so are the rows
    (`RowsAreCurrent`). That revisions are read before transcripts is what makes it inductive.
    `VectorsAreTheirTexts` adds `VectorInv`. An id has one text for good, wherever a row, a vector,
    a pass or a request says so, since the host gives an id out once and transcripts only grow
    (`TextsAgree`). A pass that comes to its end has rows for all that has a vector and is still at
    the source (`PassCovers`), so only a message that left for good loses its vectors while its
    status stands, between the two statements of `dropOrphanedVectors` (`AllEmbedded`). The chunks
    of a batch are where its texts end one by one (`BatchIsInOrder`), an accepted answer is put in
    that order (`AnswerIsInOrder`), and the windows leave no gap (`ChunksCover`).
    `HitsAreOnlyTheOwners` needs texts to be apart, so that the newest come in one order, and the
    order of fused scores to be a strict one (`ScoresCompare`, `FusedIsApart`): what is ranked then
    has each message once, and hydration only drops some.
  - Context window: paths of the tree ascend, nest, and stay when a node joins (`PathAscends`,
    `PathsNest`, `PathsStay`). `MarksAreReadable` rests on `MarksAnswered`, that a mark's original is
    on the way to it and not before the summary that starts the window, and `KeysAreVisible`, that
    what is remembered is in the window: each summary must drop the memory with it. On a window that
    is no longer on the path the whole path is used, and both still hold. `SummariesCoverTheWindow`
    rests on `StackOK`: each frame's messages are apart, the first covers the window, and each other
    one the half it was split off.
- `DocumentsProofs`, what is read and written while it streams:
  - The message: `NothingIsLost` rests on `SinkInv`: whatever index, item or pointer the
    decoder holds names a node of the call (`Pointers`), every node has a place in the order of the
    message (`Ordered`), every piece received is in some node, and nothing else (`Heard`), and in one
    only, but for the correction an endpoint may state of any (`HeldOnce`). A piece is younger than
    every piece held, so a node that gains it shares nothing with the others (`NodeChanged`); each event
    of each dialect comes down to that, by a lemma of its own. At the end, a piece is in the message or was corrected
    (`MessageHolds`), whichever way the call returned; the message is built place by place along the
    order. A completions endpoint needs also that it has one node at most, which its only field is.
  - The document of the answer: `DocumentIsMessage` rests on `DocInv` beside `SinkInv`. While the call
    streams, the document `Follows` it: it holds the parts announced and the text received since
    (`Written`); that text is all of a node which is still to be announced, after every part begun before
    it, and no other text waits (`Awaiting`); and an announced text stays as it was announced
    (`ToldAsIs`). Or the call is `Amiss`, and stays so: it was torn or a text revised, which the
    property excepts. Each event either tells nothing and
    changes nothing told, or goes on with the text under way, or tells the next part; the end of a call,
    which finishes and announces what remains node after node, is taken place by place. Once the call
    returned, `Rest` says that the parts of the message behind the ones sent, and the text
    held back, are what the document still lacks, and the last write makes the two equal. They are
    compared with neighbouring texts joined, and so is the invariant (`merged`), since the decoder and
    the document cut a text at different places.
  - The documents of a socket: `DocumentsApart` rests on `ApartInv`: between two tokens the scanner is
    `Idle` at the depth of the peer, has returned what the peer finished, and has begun a document once
    the peer wrote a token that is more than space. So each kind of token has a lemma that takes the scanner from idle to idle, byte
    by byte: a tag through its attributes one after the other, whose values never hold their own
    quote; and a comment, a CDATA section or an instruction by `RunToken`: what ends it is not in its
    text, its last byte is none of its others, and behind the bytes that began it nothing ends early,
    so it ends first where the peer ended it. For comments that last needs `NoneCutShort`, which is the
    hypothesis of the theorem, as `cut_comment` shows that without it the statement is false.

Where a definition recurses (a path, a greatest number, a message from its nodes, the requests of a
batch, the bytes behind a scanner), its facts are proved by least
counterexample (`LeastOfNats`): the library's induction theorems take an operator, which the provers
cannot instantiate, but the well-foundedness of the numbers takes a set.

Only model-checked: the liveness properties, since fairness and ENABLED are beyond these provers; and
`DocumentSurvives`, whose encoder and decoder recurse over a tree of elements of any depth by
RECURSIVE operators, which no module with a theorem may use.

## Not modelled

- The components with status `not_modelled` in `PROJECT.json`, with the reason there: events (a
  fan-out of callbacks, whose failures are inputs of the models), the state-loss checks (they report
  and change nothing), the sub-agent tool's schema and context (pure functions over strings), loop
  helpers, blobs and metadata, the client's wiring, file and web tools, the command line.
- Inside modelled ones: texts, formats, timing and usage numbers; the synchronous `run_subagent` path;
  retracting and moving nodes; the words of prompts and notices; the requests the dialects build;
  responses, conversations and images in the XML format and its schema validation; the websocket's
  framing; the ranking of a search beyond its order; the repository's status, search and listing
  tools, which are sequences of the modelled reads; parsing of model entries and prices.
- A file's revision is its size and its modification time (`session/file.go:133`): two writes of one
  size within the clock's grain look like one. `SearchIndex` lets a revision change with every write.
- A panic in a read-only tool ends the process, and with it the model. A host's callback is any of
  its outcomes: it returns, fails or panics, at the points where the code lets it.
