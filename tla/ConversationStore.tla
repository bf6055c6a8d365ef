--------------------------- MODULE ConversationStore ---------------------------
(***************************************************************************)
(* session/session.go and session/file.go: conversations kept by id, in    *)
(* memory or as one document per conversation in a directory.              *)
(*                                                                         *)
(* Both stores serve several goroutines under one mutex.  A write of the   *)
(* file store is a temporary file and a rename with the mutex held, so it  *)
(* is two steps here, Write and Commit or WriteFails, and a crash can fall *)
(* between them; the memory store's is Write and Commit with nothing that  *)
(* can be seen in between.  An id is the number n of the name "c<n>" that  *)
(* Create gives out; a caller may name the same ids itself.                *)
(***************************************************************************)
EXTENDS Integers, Sequences, SequencesExt

CONSTANTS
  Clients,   \* the goroutines that use the store
  NoClient,
  MaxIds     \* bound: ids in use

ASSUME IdsAreCounted == MaxIds \in Nat \ {0} /\ NoClient \notin Clients

Ids   == 1 .. MaxIds
BadId == 0           \* an id validID refuses

VARIABLES
  backend,   \* "memory", "file", or "none": a server without a store
  convs,     \* id -> [model, msgs], a function on the ids that are held
  seq,       \* File.seq, Memory.seq
  writing    \* who holds the mutex with a write under way, and what it writes

storeVars == <<backend, convs, seq, writing>>

NoConv  == [model |-> "none", msgs |-> <<>>]
NoWrite == [by |-> NoClient, id |-> BadId, conv |-> NoConv]

StoreInit ==
  /\ backend \in {"memory", "file", "none"}
  /\ convs = <<>>
  /\ seq = 0
  /\ writing = NoWrite

Free    == writing = NoWrite
HasStore == backend # "none"
ValidId(id) == id # BadId

\* What Get, Append and Delete answer for an id: the file store looks at the
\* id first, the memory store only in its map.
LookupError(id) ==
  IF id \in DOMAIN convs THEN "none"
  ELSE IF ValidId(id) \/ backend = "memory" THEN "not_found" ELSE "invalid"

PutError(id) == IF ValidId(id) THEN "none" ELSE "invalid"

\* Mutant: the new messages go to the front.
Prepended(id, msgs) == [convs[id] EXCEPT !.msgs = msgs \o @]

Appended(id, msgs) == [convs[id] EXCEPT !.msgs = @ \o msgs]

\* The id Create gives out.  The file store passes over a document that
\* outlived the process; the memory store counts on.
FileTakes(n)   == n > seq /\ n \notin DOMAIN convs /\ \A m \in (seq + 1) .. (n - 1) : m \in DOMAIN convs
MemoryTakes(n) == n = seq + 1
NextId(n)      == IF backend = "file" THEN FileTakes(n) ELSE MemoryTakes(n)

\* File.write up to the temporary file, Memory up to its assignment.
Write(c, id, conv) ==
  /\ Free
  /\ writing' = [by |-> c, id |-> id, conv |-> conv]
  /\ UNCHANGED <<backend, convs>>

Create(c, conv) ==
  \E n \in Ids :
    /\ NextId(n)
    /\ seq' = n
    /\ Write(c, n, conv)

Put(c, id, conv) == ValidId(id) /\ Write(c, id, conv) /\ UNCHANGED seq

Append2(c, id, msgs) ==
  /\ LookupError(id) = "none"
  /\ Write(c, id, Appended(id, msgs))
  /\ UNCHANGED seq

\* The rename, or the assignment to the map.
Commit(c) ==
  /\ writing.by = c
  /\ convs' = [i \in DOMAIN convs \cup {writing.id} |-> IF i = writing.id THEN writing.conv ELSE convs[i]]
  /\ writing' = NoWrite
  /\ UNCHANGED <<backend, seq>>

\* Mutant: the document is written in place, so that a failure loses it.
WriteFailsInPlace(c) ==
  /\ writing.by = c
  /\ backend = "file"
  /\ convs' = [i \in DOMAIN convs \ {writing.id} |-> convs[i]]
  /\ writing' = NoWrite
  /\ UNCHANGED <<backend, seq>>

\* Encoding, the temporary file or the rename fails; the document stays.
WriteFails(c) ==
  /\ writing.by = c
  /\ backend = "file"
  /\ writing' = NoWrite
  /\ UNCHANGED <<backend, convs, seq>>

Delete(id) ==
  /\ Free
  /\ LookupError(id) = "none"
  /\ convs' = [i \in DOMAIN convs \ {id} |-> convs[i]]
  /\ UNCHANGED <<backend, seq, writing>>

\* The process ends and starts again: the directory is what is left.
StoreRestart ==
  /\ convs' = IF backend = "file" THEN convs ELSE <<>>
  /\ seq' = 0
  /\ writing' = NoWrite
  /\ UNCHANGED backend
===============================================================================
