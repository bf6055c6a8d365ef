------------------------------- MODULE RepoReads --------------------------------
(***************************************************************************)
(* How the repository tools read (repo/github.go, repo_github.go, etag.go, *)
(* repo_failure.go): several callers fetch one file, each with its own cap *)
(* on the body and each going from credential to credential.  They share   *)
(* what they learn of which credential works, and the cache that replays a *)
(* body the server says has not changed.                                   *)
(*                                                                         *)
(* The server may refuse any request for its rate, and any request or      *)
(* answer may be lost.  A body is its version and whether it is longer     *)
(* than the small cap.  Of a refusal its kind is kept; the sentence the    *)
(* model reads (explainFailure) is not.                                    *)
(***************************************************************************)
EXTENDS Integers, Sequences, SequencesExt, FiniteSets

CONSTANTS
  ReadTokens,   \* GitHubConfig.Tokens, in order
  Readers,      \* callers that read at the same time
  ShortReaders, \* those whose cap a long body exceeds
  ETagEntries,  \* etagCacheEntries
  MaxFetches, MaxVersions   \* bounds: reads, and new versions of the file

ASSUME ReadAssumption == ETagEntries \in Nat

Anonymous == "anonymous"
Unset     == "none"
Creds     == ToSet(ReadTokens) \cup {Anonymous}

VARIABLES
  readable,   \* credentials the server lets read the repository
  body,       \* the file: its version, and whether it is long
  readWinner, \* RepoKeyCache's entry for the repository
  etags,      \* etagCache, the most recently used entry first
  reading,    \* each reader's FetchURLOpts
  answer,     \* what each reader's last one returned, and history: what the file was then
  fetches, versions

readVars == <<readable, body, readWinner, etags, reading, answer, fetches, versions>>

NoEntry   == [cred |-> Unset, version |-> -1, cut |-> FALSE]
NoFailure == [cred |-> Unset, says |-> Unset]
atRest    == [left |-> <<>>, asking |-> FALSE, sent |-> NoEntry, best |-> NoFailure, bestAuthed |-> NoFailure,
              lost |-> FALSE]
noAnswer  == [says |-> Unset, version |-> 0, cut |-> FALSE, cred |-> Unset, now |-> 0, long |-> FALSE]

ReadInit ==
  /\ readable \in SUBSET Creds /\ body \in [version : {0}, long : BOOLEAN]
  /\ readWinner \in ToSet(ReadTokens) \cup {"another", Unset} /\ etags = <<>>
  /\ reading = [r \in Readers |-> atRest] /\ answer = [r \in Readers |-> noAnswer]
  /\ fetches = 0 /\ versions = 0

(* The cached winner first; what is cached may be no token of this list.   *)
tokenOrder(noAnonymous) ==
  (IF Contains(ReadTokens, readWinner) THEN <<readWinner>> \o SelectSeq(ReadTokens, LAMBDA t : t # readWinner) ELSE ReadTokens)
  \o (IF noAnonymous THEN <<>> ELSE <<Anonymous>>)
Remember(cred) == readWinner' = IF cred = Anonymous THEN readWinner ELSE cred

-----------------------------------------------------------------------------
(* Reads.                                                                  *)

entryOf(cred) == SelectInSeq(etags, LAMBDA x : x.cred = cred)
withoutEntry(cred) == IF entryOf(cred) = 0 THEN etags ELSE RemoveAt(etags, entryOf(cred))
store(entry) ==
  LET all == <<entry>> \o withoutEntry(entry.cred)
  IN  SubSeq(all, 1, IF Len(all) > ETagEntries THEN ETagEntries ELSE Len(all))

failureRank(f) ==
  CASE f = NoFailure -> 0
    [] f.cred = Anonymous -> (CASE f.says = "denied" -> 1 [] f.says = "missing" -> 2 [] OTHER -> 4)
    [] OTHER -> IF f.says = "limited" THEN 5 ELSE 3
moreInformative(f, best) == IF failureRank(f) > failureRank(best) THEN f ELSE best

FetchURLOpts(r, noAnonymous) ==
  /\ reading[r] = atRest /\ fetches < MaxFetches /\ fetches' = fetches + 1
  /\ LET order == tokenOrder(noAnonymous)
     IN  /\ reading' = [reading EXCEPT ![r].left = order]
         /\ answer' = [answer EXCEPT ![r] = noAnswer]
  /\ UNCHANGED <<readable, body, readWinner, etags, versions>>

(* A request takes along the etag stored for its credential, and keeps the *)
(* body stored with it.                                                    *)
Request(r) ==
  /\ reading[r].left # <<>> /\ ~reading[r].asking
  /\ LET cred == Head(reading[r].left)
         at   == entryOf(cred)
     IN  IF at = 0
         THEN reading' = [reading EXCEPT ![r].asking = TRUE, ![r].sent = NoEntry] /\ UNCHANGED etags
         ELSE /\ reading' = [reading EXCEPT ![r].asking = TRUE, ![r].sent = etags[at]]
              /\ etags' = <<etags[at]>> \o withoutEntry(cred)
  /\ UNCHANGED <<readable, body, readWinner, answer, fetches, versions>>

(* As if a truncated body were kept like any other; it is never replayed.  *)
storableCut(cut) == TRUE
storable(cut)    == ~cut

Found(r) ==
  /\ reading[r].asking
  /\ LET cred  == Head(reading[r].left)
         sent  == reading[r].sent
         fresh == [cred |-> cred, version |-> body.version, cut |-> body.long /\ r \in ShortReaders]
         same  == sent.version = body.version
         res   == IF same THEN sent ELSE fresh
     IN  /\ cred \in readable
         /\ etags' = IF ~same /\ storable(fresh.cut) THEN store(fresh) ELSE etags
         /\ answer' = [answer EXCEPT ![r] = [says |-> "found", version |-> res.version, cut |-> res.cut,
                                             cred |-> cred, now |-> body.version, long |-> body.long]]
         /\ Remember(cred)
  /\ reading' = [reading EXCEPT ![r] = atRest]
  /\ UNCHANGED <<readable, body, fetches, versions>>

(* The most informative failure, a token's before any anonymous one.       *)
report(f) ==
  IF f.bestAuthed # NoFailure THEN [noAnswer EXCEPT !.says = f.bestAuthed.says, !.cred = f.bestAuthed.cred]
  ELSE IF f.best = NoFailure /\ f.lost THEN [noAnswer EXCEPT !.says = "lost"]
  ELSE [noAnswer EXCEPT !.says = f.best.says, !.cred = f.best.cred]
afterRefusal(r, f) ==
  /\ reading' = [reading EXCEPT ![r] = IF Tail(f.left) = <<>> THEN atRest
                                       ELSE [f EXCEPT !.left = Tail(f.left), !.asking = FALSE, !.sent = NoEntry]]
  /\ answer' = IF Tail(f.left) = <<>> THEN [answer EXCEPT ![r] = report(f)] ELSE answer
  /\ UNCHANGED <<readable, body, readWinner, etags, fetches, versions>>

denials(cred) == {"limited"} \cup
  (IF cred \in readable THEN {} ELSE IF cred = Anonymous THEN {"denied", "missing"} ELSE {"missing"})

Denied(r) ==
  /\ reading[r].asking
  /\ LET cred == Head(reading[r].left)
     IN  \E says \in denials(cred) :
           LET f == [cred |-> cred, says |-> says]
           IN  afterRefusal(r, IF cred = Anonymous
                               THEN [reading[r] EXCEPT !.best = moreInformative(f, @)]
                               ELSE [reading[r] EXCEPT !.bestAuthed = moreInformative(f, @)])
Lost(r) == reading[r].asking /\ afterRefusal(r, [reading[r] EXCEPT !.lost = TRUE])

-----------------------------------------------------------------------------
EditFile(long) ==
  /\ versions < MaxVersions /\ versions' = versions + 1
  /\ body' = [version |-> body.version + 1, long |-> long]
  /\ UNCHANGED <<readable, readWinner, etags, reading, answer, fetches>>

ReadsRest ==
  /\ \A r \in Readers : reading[r] = atRest
  /\ fetches = MaxFetches /\ UNCHANGED readVars

ReadNext ==
  \/ \E r \in Readers :
       (\E noAnonymous \in BOOLEAN : FetchURLOpts(r, noAnonymous)) \/ Request(r) \/ Found(r) \/ Denied(r) \/ Lost(r)
  \/ (\E long \in BOOLEAN : EditFile(long)) \/ ReadsRest

ReadSpec == ReadInit /\ [][ReadNext]_readVars

-----------------------------------------------------------------------------
(* What a read returns is the file as it was when the server answered, and *)
(* cut short only when that file is too long for this caller's own cap,    *)
(* whichever other callers filled the replay cache (etagCache.store).      *)
AnswerIsWhole ==
  \A r \in Readers :
    answer[r].says = "found" =>
      /\ answer[r].version = answer[r].now
      /\ answer[r].cut => answer[r].long /\ r \in ShortReaders

===============================================================================
