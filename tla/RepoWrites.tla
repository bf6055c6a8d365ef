------------------------------- MODULE RepoWrites -------------------------------
(***************************************************************************)
(* How the repository tools write (repo/repo_write.go,                     *)
(* repo_write_failure.go): a call creates one file on a branch, made for   *)
(* it when asked, or opens a pull request.  The whole flow is run by one   *)
(* credential after another until one is not refused.                      *)
(*                                                                         *)
(* The server is one repository: the branch may not exist, the path may be *)
(* taken there or on the base, and other people work on it meanwhile.  It  *)
(* may refuse any request, and any request or answer may be lost.  The     *)
(* GETs are not replayed from the cache here: a replayed answer is the     *)
(* server's present one (RepoReads, AnswerIsWhole).                        *)
(***************************************************************************)
EXTENDS Integers, Sequences, SequencesExt, FiniteSets

CONSTANTS
  Tokens,       \* the tokens of GitHubConfig.Tokens
  WriteTokens,  \* GitHubConfig.WriteTokens, in order
  MaxWrites, MaxEdits   \* bounds: calls, and steps of other people

None == "none"

VARIABLES
  canRead, canWrite,  \* credentials the server lets read and write the repository
  branch,     \* the branch to write to is there
  taken,      \* refs on which the written path exists
  pulls,      \* pull requests open
  winner,     \* RepoKeyCache's entry for the repository
  writing,    \* runWrite
  reply,      \* what the last call returned
  made,       \* history: the call in hand was told that it made the branch
  writes, edits

writeVars == <<canRead, canWrite, branch, taken, pulls, winner, writing, reply, made, writes, edits>>

noWrite == [step |-> "idle", call |-> None, left |-> <<>>, create |-> FALSE, need |-> FALSE, created |-> FALSE,
            best |-> None]
noReply == [says |-> None, created |-> FALSE]

(* The winner was left by an earlier read or write, of any token.          *)
WriteInit ==
  /\ canRead \in SUBSET ToSet(WriteTokens) /\ canWrite \in SUBSET canRead
  /\ branch \in BOOLEAN /\ taken \in {{}, {"base"}} /\ pulls = 0
  /\ winner \in Tokens \cup ToSet(WriteTokens) \cup {None}
  /\ writing = noWrite /\ reply = noReply /\ made = FALSE
  /\ writes = 0 /\ edits = 0

writeTokenOrder ==
  IF Contains(WriteTokens, winner) THEN <<winner>> \o SelectSeq(WriteTokens, LAMBDA t : t # winner) ELSE WriteTokens

-----------------------------------------------------------------------------
(* Each credential runs the whole flow.                                    *)

Begin(call, create) ==
  /\ writing = noWrite /\ writes < MaxWrites /\ writes' = writes + 1
  /\ IF WriteTokens = <<>> THEN reply' = [noReply EXCEPT !.says = "no token"] /\ UNCHANGED writing
     ELSE /\ writing' = [noWrite EXCEPT !.step = "meta", !.call = call, !.left = writeTokenOrder, !.create = create]
          /\ reply' = noReply
  /\ made' = FALSE
  /\ UNCHANGED <<canRead, canWrite, branch, taken, pulls, winner, edits>>

Asking == {"meta", "branch", "base", "check", "create", "put", "pull"}
using == Head(writing.left)
goTo(step) == writing' = [writing EXCEPT !.step = step]
ReplyWith(says) == reply' = [noReply EXCEPT !.says = says] /\ writing' = noWrite

authFailureRank(says) == CASE says = None -> 0 [] says = "missing" -> 10 [] OTHER -> 20
MoreInformativeAuthFailure(says) ==
  IF authFailureRank(says) >= authFailureRank(writing.best) THEN says ELSE writing.best

(* The next credential starts the flow over; what was created stays known. *)
(* rotateForgets is as if each credential started from nothing.            *)
nextTry(says) ==
  [noWrite EXCEPT !.call = writing.call, !.left = Tail(writing.left), !.create = writing.create,
                  !.step = IF Len(writing.left) > 1 THEN "meta" ELSE "explain",
                  !.best = MoreInformativeAuthFailure(says)]
rotateForgets(says) == writing' = nextTry(says)
rotate(says)        == writing' = [nextTry(says) EXCEPT !.created = writing.created]
AtStep(step) ==
  /\ writing.step = step
  /\ UNCHANGED <<canRead, canWrite, writes, edits>>
Untouched == UNCHANGED <<branch, taken, pulls, winner, made>>

(* A step the server would not let this credential take, or not now; and a *)
(* request that was lost, which ends the call.                             *)
StepRefused ==
  /\ writing.step \in Asking /\ AtStep(writing.step) /\ Untouched
  /\ UNCHANGED reply
  /\ \/ rotate("denied")                                                    \* 403: its rate, or its rights
     \/ using \notin canRead /\ writing.step = "meta" /\ rotate("missing")  \* 404
     \/ using \notin canWrite /\ writing.step \in {"create", "put", "pull"} /\ rotate("missing")
StepLost ==
  /\ writing.step \in Asking /\ AtStep(writing.step) /\ Untouched
  /\ ReplyWith("lost")

repoMeta ==
  /\ AtStep("meta") /\ Untouched /\ using \in canRead
  /\ goTo(IF writing.call = "file" THEN "branch" ELSE "pull") /\ UNCHANGED reply

lookUpBranch ==
  /\ AtStep("branch") /\ Untouched /\ using \in canRead
  /\ IF branch THEN goTo("check") /\ UNCHANGED reply
     ELSE IF writing.create THEN goTo("base") /\ UNCHANGED reply
     ELSE ReplyWith("no branch")

(* The ref to start from, which the caller may have named wrongly.         *)
resolveRefSHA ==
  /\ AtStep("base") /\ Untouched
  /\ \/ writing' = [writing EXCEPT !.step = "check", !.need = TRUE] /\ UNCHANGED reply
     \/ ReplyWith("no base")

(* CREATE-ONLY: the path must be free on the ref its content comes from.   *)
checkRef == IF writing.need THEN "base" ELSE "branch"
checkFile ==
  /\ AtStep("check") /\ Untouched /\ using \in canRead
  /\ IF checkRef \in taken THEN ReplyWith("exists")
     ELSE goTo(IF writing.need THEN "create" ELSE "put") /\ UNCHANGED reply

(* The new branch is made from the base, unless someone else was quicker.  *)
branchFromBase == branch' = TRUE /\ taken' = IF "base" \in taken THEN {"base", "branch"} ELSE {}
createBranch ==
  /\ AtStep("create") /\ using \in canWrite
  /\ IF ~branch
     THEN /\ branchFromBase
          /\ \/ writing' = [writing EXCEPT !.step = "put", !.created = TRUE] /\ made' = TRUE /\ UNCHANGED reply
             \/ ReplyWith("lost") /\ UNCHANGED made   \* done, and the answer lost
     ELSE ReplyWith("branch taken") /\ UNCHANGED <<branch, taken, made>>
  /\ UNCHANGED <<pulls, winner>>

putFile ==
  /\ AtStep("put") /\ using \in canWrite
  /\ IF branch /\ "branch" \notin taken
     THEN /\ taken' = taken \cup {"branch"}
          /\ \/ reply' = [says |-> "created", created |-> writing.created] /\ writing' = noWrite /\ winner' = using
             \/ ReplyWith("lost") /\ UNCHANGED winner
     ELSE ReplyWith("refused") /\ UNCHANGED <<taken, winner>>
  /\ UNCHANGED <<branch, pulls, made>>

(* tryPRCreate's request: the head must exist, and there is no second pull *)
(* request for it.                                                         *)
createPull ==
  /\ AtStep("pull") /\ using \in canWrite
  /\ IF branch /\ pulls = 0
     THEN /\ pulls' = 1
          /\ \/ reply' = [noReply EXCEPT !.says = "opened"] /\ writing' = noWrite /\ winner' = using
             \/ ReplyWith("lost") /\ UNCHANGED winner
     ELSE ReplyWith("refused") /\ UNCHANGED <<pulls, winner>>
  /\ UNCHANGED <<branch, taken, made>>

(* Why every credential failed: whether any of them can see the repository *)
(* (a request that never arrived counts as one that can).                  *)
explainExhaustedWrite ==
  /\ AtStep("explain") /\ Untouched
  /\ \/ ToSet(WriteTokens) \cap canRead # {} /\ ReplyWith("cannot write")
     \/ ToSet(WriteTokens) \cap canRead = {} /\ ReplyWith("cannot read")
     \/ ReplyWith("cannot write")

-----------------------------------------------------------------------------
(* Other people make or delete the branch, or take the path.               *)
Others ==
  /\ edits < MaxEdits /\ edits' = edits + 1
  /\ \/ ~branch /\ branchFromBase
     \/ branch /\ branch' = FALSE /\ taken' = taken \ {"branch"}
     \/ branch /\ taken' = taken \cup {"branch"} /\ UNCHANGED branch
  /\ UNCHANGED <<canRead, canWrite, pulls, winner, writing, reply, made, writes>>

WritesRest == writing = noWrite /\ writes = MaxWrites /\ UNCHANGED writeVars

WriteNext ==
  \/ (\E create \in BOOLEAN : Begin("file", create)) \/ Begin("pull", FALSE)
  \/ StepRefused \/ StepLost \/ repoMeta \/ lookUpBranch \/ resolveRefSHA \/ checkFile
  \/ createBranch \/ putFile \/ createPull \/ explainExhaustedWrite
  \/ Others \/ WritesRest

WriteSpec == WriteInit /\ [][WriteNext]_writeVars

-----------------------------------------------------------------------------
(* A write that succeeds says that it made the branch exactly when it did, *)
(* with whichever of its credentials, and whoever else made or deleted the *)
(* branch meanwhile ("branchCreated survives across credential attempts"). *)
BranchIsReported == reply.says = "created" => (reply.created <=> made)

===============================================================================
