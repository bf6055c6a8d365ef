----------------------------- MODULE ResourceWatch -----------------------------
(***************************************************************************)
(* resources/resource_watch.go, resource_record.go and the loop's use of a *)
(* poll (internal/loop/run_loop.go): at every turn boundary the watched    *)
(* resources are listed and read, each difference from the stored snapshot *)
(* is recorded as a change, the snapshot follows, and the model is told.   *)
(*                                                                         *)
(* The resources change while they are read; a listing, a read and every   *)
(* call of the host's store may fail; the run may be cancelled and the     *)
(* process may die between any two steps.  A capture is its content: a     *)
(* hash tells contents apart, and sizes, labels and diffs are wording.     *)
(***************************************************************************)
EXTENDS Integers, Sequences, FiniteSets, FiniteSetsExt, SequencesExt

CONSTANTS
  Sources,        \* configured ResourceSources
  Uris,           \* what a source may advertise
  Contents,       \* what a resource may hold
  MaxResources,   \* the per-source cap
  MaxLiveEdits,   \* bound: changes of the resources
  MaxPolls        \* bound: polls begun

ASSUME WatchAssumption == IsFiniteSet(Sources) /\ IsFiniteSet(Uris) /\ Contents # {}

Absent == "absent"
Keys   == Sources \X Uris        \* snapshotKey

VARIABLES
  live,       \* what each source holds now
  snapshots,  \* the host's stored snapshots
  changeLog,  \* the host's change log: each record's resource, before and after
  warned,     \* resourceWatcher.warned
  at,         \* where the poll is
  prev,       \* the snapshots the poll compares with
  unlisted,   \* sources the poll has not listed yet
  unread,     \* advertised resources of the source in hand, not read yet
  captures,   \* what the poll read of each resource
  warnings,   \* what it could not account for: a source, and what of it
  pending,    \* differences not recorded yet
  logged,     \* RecordChange answered for the first of them
  found,      \* ResourcePoll.Changes, as resources
  fresh,      \* ResourcePoll.Warnings
  failed,     \* Poll returns an error
  cancelled,  \* the run's context is done
  noticed,    \* what the notices in the conversation say of each resource
  standing,   \* warnings told and not over
  missed,     \* history: resources, and <<source>>s, whose notice was lost with the run
  polls, liveEdits

watchVars == <<live, snapshots, changeLog, warned, at, prev, unlisted, unread, captures, warnings, pending,
               logged, found, fresh, failed, cancelled, noticed, standing, missed, polls, liveEdits>>
pass   == <<prev, unlisted, unread, captures, warnings, pending, logged, found, fresh, failed>>
stored == <<snapshots, changeLog>>
model  == <<noticed, standing, missed>>

Nothing == [k \in Keys |-> Absent]
noPass ==
  /\ prev' = Nothing /\ unlisted' = {} /\ unread' = {} /\ captures' = {} /\ warnings' = {}
  /\ pending' = <<>> /\ logged' = FALSE /\ found' = {} /\ fresh' = {} /\ failed' = FALSE

WatchInit ==
  /\ live \in [Keys -> {Absent, CHOOSE c \in Contents : TRUE}] /\ snapshots = Nothing /\ changeLog = <<>> /\ warned = {}
  /\ at = "idle" /\ prev = Nothing /\ unlisted = {} /\ unread = {} /\ captures = {} /\ warnings = {}
  /\ pending = <<>> /\ logged = FALSE /\ found = {} /\ fresh = {} /\ failed = FALSE
  /\ cancelled = FALSE /\ noticed = Nothing /\ standing = {} /\ missed = {} /\ polls = 0 /\ liveEdits = 0

EditResource(k, content) ==
  /\ liveEdits < MaxLiveEdits /\ live[k] # content
  /\ live' = [live EXCEPT ![k] = content] /\ liveEdits' = liveEdits + 1
  /\ UNCHANGED <<stored, warned, at, pass, cancelled, model, polls>>

(* Poll: the stored snapshots, then one source after another.              *)
BeginPoll ==
  /\ at = "idle" /\ polls < MaxPolls /\ polls' = polls + 1
  /\ cancelled' = FALSE
  /\ \/ at' = "list" /\ prev' = snapshots /\ unlisted' = Sources /\ UNCHANGED failed
     \/ at' = "deliver" /\ failed' = TRUE /\ UNCHANGED <<prev, unlisted>>
  /\ UNCHANGED <<live, stored, warned, unread, captures, warnings, pending, logged, found, fresh, model, liveEdits>>

notListed(s) == <<s, "list">>
notAll(s)    == <<s, "cut">>
notRead(k)   == <<k[1], k[2]>>
advertised(s) == {k \in {s} \X Uris : live[k] # Absent}

ListSource(s) ==
  /\ at = "list" /\ unread = {} /\ s \in unlisted
  /\ unlisted' = unlisted \ {s}
  /\ \/ /\ warnings' = warnings \cup {notListed(s)}
        /\ UNCHANGED unread
     \/ LET cut == Cardinality(advertised(s)) > MaxResources
        IN  /\ unread' \in IF cut THEN kSubset(MaxResources, advertised(s)) ELSE {advertised(s)}
            /\ warnings' = IF cut THEN warnings \cup {notAll(s)} ELSE warnings
  /\ UNCHANGED <<live, stored, warned, at, prev, captures, pending, logged, found, fresh, failed, cancelled, model, polls, liveEdits>>

(* Reads of one source run concurrently; what each finds is what the       *)
(* resource holds when it is read.                                         *)
Read(k) ==
  /\ k \in unread /\ unread' = unread \ {k}
  /\ \/ live[k] # Absent /\ captures' = captures \cup {<<k, live[k]>>} /\ UNCHANGED warnings
     \/ warnings' = warnings \cup {notRead(k)} /\ UNCHANGED captures
  /\ UNCHANGED <<live, stored, warned, at, prev, unlisted, pending, logged, found, fresh, failed, cancelled, model, polls, liveEdits>>

(* As if only a listing that failed left a source unaccounted for.         *)
sourceUnlisted(s) == notListed(s) \in warnings
sourceFailed(s) == \E w \in warnings : w[1] = s
newWarnings == warnings \ warned

(* What the pass found different: captures first, then what vanished from  *)
(* a source that was fully accounted for.                                  *)
different == {c \in captures : prev[c[1]] # c[2]}
seen      == {c[1] : c \in captures}
removals  == {<<k, Absent>> : k \in {j \in Keys : prev[j] # Absent /\ j \notin seen /\ ~sourceFailed(j[1])}}

Compare ==
  /\ at = "list" /\ unlisted = {} /\ unread = {}
  /\ fresh' = newWarnings /\ warned' = warnings
  /\ \E first \in SetToSeqs(different), last \in SetToSeqs(removals) : pending' = first \o last
  /\ at' = "record"
  /\ UNCHANGED <<live, stored, prev, unlisted, unread, captures, warnings, logged, found, failed, cancelled, model, polls, liveEdits>>

(* record and recordRemoval: the change is logged, then the snapshot       *)
(* follows.  Either call failing ends the pass with what it has found.     *)
recordFails == at' = "deliver" /\ failed' = TRUE
RecordChange ==
  /\ at = "record" /\ pending # <<>> /\ ~logged
  /\ \/ LET k == Head(pending)[1]
        IN  /\ changeLog' = Append(changeLog, [of |-> k, before |-> prev[k], after |-> Head(pending)[2]])
            /\ logged' = TRUE /\ UNCHANGED <<at, failed>>
     \/ recordFails /\ UNCHANGED <<changeLog, logged>>
  /\ UNCHANGED <<live, snapshots, warned, prev, unlisted, unread, captures, warnings, pending, found, fresh, cancelled, model, polls, liveEdits>>

PutSnapshot ==
  /\ at = "record" /\ logged /\ logged' = FALSE
  /\ \/ /\ snapshots' = [snapshots EXCEPT ![Head(pending)[1]] = Head(pending)[2]]
        /\ found' = found \cup {Head(pending)} /\ pending' = Tail(pending)
        /\ UNCHANGED <<at, failed>>
     \/ recordFails /\ UNCHANGED <<snapshots, found, pending>>
  /\ UNCHANGED <<live, changeLog, warned, prev, unlisted, unread, captures, warnings, fresh, cancelled, model, polls, liveEdits>>

Recorded ==
  /\ at = "record" /\ pending = <<>> /\ at' = "deliver"
  /\ UNCHANGED <<live, stored, warned, pass, cancelled, model, polls, liveEdits>>

(* The run's end of a poll: an error of a cancelled run ends the run with  *)
(* nothing said, any other becomes a warning beside what was found.        *)
findings == {c[1] : c \in found}
(* As if any error dropped what the poll had found.                        *)
droppedOnError == failed
dropped        == failed /\ cancelled
Deliver ==
  /\ at = "deliver" /\ at' = "idle" /\ noPass
  /\ IF dropped
     THEN /\ missed' = IF cancelled THEN missed \cup findings \cup {<<w[1]>> : w \in fresh} ELSE missed
          /\ UNCHANGED <<noticed, standing>>
     ELSE /\ noticed' = [k \in Keys |-> IF \E c \in found : c[1] = k THEN (CHOOSE c \in found : c[1] = k)[2] ELSE noticed[k]]
          /\ standing' = (standing \cap warned) \cup fresh
          /\ missed' = missed \ findings
  /\ UNCHANGED <<live, stored, warned, cancelled, polls, liveEdits>>

CancelRun ==
  /\ at # "idle" /\ ~cancelled /\ cancelled' = TRUE
  /\ UNCHANGED <<live, stored, warned, at, pass, model, polls, liveEdits>>

(* The process dies: the store and the conversation remain, a new watcher  *)
(* has warned of nothing.                                                  *)
Crash ==
  /\ at # "idle" /\ at' = "idle" /\ noPass
  /\ warned' = {} /\ missed' = missed \cup findings
  /\ UNCHANGED <<live, stored, cancelled, noticed, standing, polls, liveEdits>>

Rest == at = "idle" /\ polls = MaxPolls /\ UNCHANGED watchVars

WatchNext ==
  \/ \E k \in Keys, c \in Contents \cup {Absent} : EditResource(k, c)
  \/ BeginPoll \/ (\E s \in Sources : ListSource(s)) \/ (\E k \in Keys : Read(k))
  \/ Compare \/ RecordChange \/ PutSnapshot \/ Recorded \/ Deliver
  \/ CancelRun \/ Crash \/ Rest

WatchSpec == WatchInit /\ [][WatchNext]_watchVars

-----------------------------------------------------------------------------
(* Between polls the notices in the conversation agree with the snapshots  *)
(* the next poll compares with, so no change can be skipped for good; the  *)
(* same of warnings.  Except what a cancelled run or a dead process had    *)
(* stored and not said (Poll, and the run's use of its result).            *)
ToldWhatIsStored ==
  at = "idle" =>
    /\ \A k \in Keys : k \in missed \/ noticed[k] = snapshots[k]
    /\ \A w \in warned : <<w[1]>> \in missed \/ w \in standing

===============================================================================
