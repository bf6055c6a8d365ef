------------------------------- MODULE PartsProofs -------------------------------
(***************************************************************************)
(* Theorems about the parts of the loop that share nothing with each       *)
(* other: goal mode, the model list, the reads and the writes of a         *)
(* repository, the resource watch, the task list, the search index and the *)
(* context window.                                                         *)
(***************************************************************************)
EXTENDS SearchIndex, ContextWindow, ResourceWatch, TodoList, GoalLoop, RepoReads, RepoWrites, ModelList,
        SequenceTheorems, FiniteSetTheorems, NaturalsInduction, WellFoundedInduction, TLAPS

\* What stands in for induction here: a set of numbers that is not empty has a
\* least member, so the least counterexample of a claim is at hand.
LEMMA LeastOfNats == ASSUME NEW T, T \subseteq Nat, T # {} PROVE \E m \in T : \A k \in T : m <= k
<1>1. PICK m \in T : \A k \in T : ~(<<k, m>> \in OpToRel(<, Nat))
  BY NatLessThanWellFounded, WFMin
<1>2. \A k \in T : ~(k < m)
  BY <1>1 DEF OpToRel
<1>3. QED
  BY <1>2

(* Goal mode ***************************************************************)

\* A step of a run that was cancelled does not suspend its goal: none of the
\* ways to give up on the evaluator does once the run is cancelled.
THEOREM OwnStopKeepsGoal == GoalSpec => CancelNeverSuspends
<1>1. ASSUME [GoalNext]_goalVars, stopped, ~suspended PROVE ~suspended'
  <2>1. CASE SetGoal \/ ClearGoal \/ Retry \/ Send \/ Cancel
    BY <1>1, <2>1 DEF SetGoal, ClearGoal, Retry, Send, Cancel, setState, state
  <2>2. CASE Turn \/ Answer
    BY <1>1, <2>2 DEF Turn, Answer, state
  <2>3. CASE Evaluate
    BY <1>1, <2>3 DEF Evaluate, permit
  <2>4. CASE NoVerdict
    BY <1>1, <2>4 DEF NoVerdict, suspendOrPermit, permit
  <2>5. CASE Verdict
    BY <1>1, <2>5 DEF Verdict, clears
  <2>6. ASSUME NEW r \in Reasons, NotMet(r) PROVE ~suspended'
    BY <1>1, <2>6 DEF NotMet, clears
  <2>7. CASE GoalRests \/ UNCHANGED goalVars
    BY <1>1, <2>7 DEF GoalRests, goalVars
  <2>8. QED
    BY <1>1, <2>1, <2>2, <2>3, <2>4, <2>5, <2>6, <2>7 DEF GoalNext
<1>2. [GoalNext]_goalVars => [stopped /\ ~suspended => ~suspended']_goalVars
  BY <1>1
<1>3. QED
  BY <1>2, PTL DEF GoalSpec, CancelNeverSuspends

\* Refusals for one reason that end the history are counted: as many as there
\* are of them, the run of that reason is at least as long.
Trailing(s, i) == \A j \in i .. Len(s) : s[j] = s[i]
RunCounted(s, reason, count) ==
  \A i \in 1 .. Len(s) : Trailing(s, i) => s[i] = reason /\ Len(s) - i + 1 <= count

GoalInv ==
  /\ refusals \in Seq(Reasons) /\ reasonRun \in Nat
  /\ step = "ask" => condition # NoGoal
  /\ condition # NoGoal => reasonRun < RepetitionLimit /\ RunCounted(refusals, lastReason, reasonRun)
  /\ NotGroundDown

\* One more refusal that does not reach the limit.
LEMMA RefusedOnceMore ==
  ASSUME RepetitionLimit \in Nat \ {0}, NEW s \in Seq(Reasons), NEW r \in Reasons,
         NEW last, NEW count \in Nat, NEW more \in Nat,
         RunCounted(s, last, count),
         more = (IF r = last THEN count + 1 ELSE 1), more < RepetitionLimit,
         \A i \in 1 .. Len(s) - RepetitionLimit + 1 : \E j \in i + 1 .. i + RepetitionLimit - 1 : s[j] # s[i]
  PROVE  LET t == Append(s, r) IN
           /\ RunCounted(t, r, more)
           /\ \A i \in 1 .. Len(t) - RepetitionLimit + 1 : \E j \in i + 1 .. i + RepetitionLimit - 1 : t[j] # t[i]
<1> DEFINE t == Append(s, r)
<1>1. /\ Len(t) = Len(s) + 1 /\ Len(s) \in Nat /\ t[Len(s) + 1] = r
      /\ \A i \in 1 .. Len(s) : t[i] = s[i]
  OBVIOUS
<1> HIDE DEF t
<1>2. RunCounted(t, r, more)
  <2> SUFFICES ASSUME NEW i \in 1 .. Len(t), Trailing(t, i) PROVE t[i] = r /\ Len(t) - i + 1 <= more
    BY DEF RunCounted
  <2>1. t[i] = r
    BY <1>1 DEF Trailing
  <2>2. CASE i = Len(s) + 1
    BY <1>1, <2>1, <2>2
  <2>3. CASE i \in 1 .. Len(s)
    <3>1. Trailing(s, i) /\ s[i] = r
      BY <1>1, <2>1, <2>3 DEF Trailing
    <3>2. r = last /\ Len(s) - i + 1 <= count
      BY <2>3, <3>1 DEF RunCounted
    <3>3. QED
      BY <1>1, <2>1, <2>3, <3>2
  <2>4. QED
    BY <1>1, <2>2, <2>3
<1>3. ASSUME NEW i \in 1 .. Len(t) - RepetitionLimit + 1
      PROVE  \E j \in i + 1 .. i + RepetitionLimit - 1 : t[j] # t[i]
  <2>1. CASE i <= Len(s) - RepetitionLimit + 1
    <3>1. PICK j \in i + 1 .. i + RepetitionLimit - 1 : s[j] # s[i]
      <4>1. i \in 1 .. Len(s) - RepetitionLimit + 1
        BY <1>1, <2>1
      <4>2. QED
        BY <4>1
    <3>2. i \in 1 .. Len(s) /\ j \in 1 .. Len(s)
      BY <1>1, <2>1
    <3>3. QED
      BY <1>1, <3>1, <3>2
  <2>2. CASE i = Len(t) - RepetitionLimit + 1
    <3>1. i \in 1 .. Len(t) /\ i + RepetitionLimit - 1 = Len(t) /\ Len(t) - i + 1 = RepetitionLimit
      BY <1>1, <2>2
    <3>2. ~Trailing(t, i)
      BY <1>2, <3>1 DEF RunCounted
    <3>3. PICK j \in i .. Len(t) : t[j] # t[i]
      BY <3>2 DEF Trailing
    <3>4. j \in i + 1 .. i + RepetitionLimit - 1
      BY <1>1, <3>1, <3>3
    <3>5. QED
      BY <3>3, <3>4
  <2>3. QED
    BY <1>1, <2>1, <2>2
<1>4. QED
  BY <1>2, <1>3 DEF t

LEMMA GoalInvInit == ASSUME RepetitionLimit \in Nat \ {0} PROVE GoalInit => GoalInv
<1> SUFFICES ASSUME GoalInit PROVE GoalInv
  OBVIOUS
<1>1. refusals = <<>> /\ Len(refusals) = 0 /\ refusals \in Seq(Reasons)
  BY DEF GoalInit
<1>2. NotGroundDown
  BY <1>1 DEF NotGroundDown
<1>3. QED
  BY <1>1, <1>2 DEF GoalInit, GoalInv, NoGoal

LEMMA GoalInvStep == ASSUME RepetitionLimit \in Nat \ {0} PROVE GoalInv /\ [GoalNext]_goalVars => GoalInv'
<1> SUFFICES ASSUME GoalInv, [GoalNext]_goalVars PROVE GoalInv'
  OBVIOUS
\* The user's commands between runs: the history starts anew, or stays.
<1>1. ASSUME step = "idle", step' = step, refusals' = <<>>, reasonRun' = 0 PROVE GoalInv'
  <2>1. refusals' \in Seq(Reasons) /\ Len(refusals') = 0
    BY <1>1
  <2>2. RunCounted(refusals', lastReason', reasonRun') /\ NotGroundDown'
    BY <2>1 DEF RunCounted, NotGroundDown
  <2>3. QED
    BY <1>1, <2>1, <2>2 DEF GoalInv
<1>2. CASE SetGoal \/ ClearGoal
  BY <1>1, <1>2 DEF SetGoal, ClearGoal, setState
\* Nothing is refused and nothing is counted.
<1>3. ASSUME UNCHANGED <<condition, lastReason, reasonRun, refusals>>,
             step' = "ask" => step = "ask" \/ condition # NoGoal
      PROVE  GoalInv'
  <2>1. RunCounted(refusals', lastReason', reasonRun') <=> RunCounted(refusals, lastReason, reasonRun)
    BY <1>3
  <2>2. NotGroundDown' <=> NotGroundDown
    BY <1>3 DEF NotGroundDown
  <2>3. QED
    BY <1>3, <2>1, <2>2 DEF GoalInv
<1>4. CASE Retry \/ Send \/ Cancel
  BY <1>3, <1>4 DEF Retry, Send, Cancel, state, others
<1>5. CASE Turn \/ Answer
  BY <1>3, <1>5 DEF Turn, Answer, endRun, state
<1>6. CASE Evaluate
  BY <1>3, <1>6 DEF Evaluate, StateKept, others, suspend, permit
<1>7. CASE NoVerdict
  BY <1>3, <1>7 DEF NoVerdict, StateKept, others
<1>8. CASE GoalRests \/ UNCHANGED goalVars
  BY <1>3, <1>8 DEF GoalRests, goalVars
\* The goal is over: no stop is evaluated before the next one is set.
<1>9. ASSUME clears, refusals' = refusals PROVE GoalInv'
  BY <1>9 DEF clears, permit, GoalInv, NotGroundDown
<1>10. CASE Verdict
  BY <1>9, <1>10 DEF Verdict, others
<1>11. ASSUME NEW r \in Reasons, NotMet(r) PROVE GoalInv'
  <2>1. CASE repeated(r)
    BY <1>9, <1>11, <2>1 DEF NotMet
  <2>2. CASE ~repeated(r)
    <3>1. /\ lastReason' = r /\ reasonRun' = sameReasons(r)
          /\ refusals' = Append(refusals, r) /\ step' = "permitted" /\ condition' = condition
          /\ condition # NoGoal
      BY <1>11, <2>2 DEF NotMet, GoalInv
    <3>2. /\ sameReasons(r) = (IF r = lastReason THEN reasonRun + 1 ELSE 1)
          /\ sameReasons(r) \in Nat /\ sameReasons(r) < RepetitionLimit
      BY <2>2 DEF repeated, sameReasons, GoalInv
    <3>3. /\ RunCounted(refusals', r, sameReasons(r))
          /\ NotGroundDown'
      BY <3>1, <3>2, RefusedOnceMore DEF GoalInv, NotGroundDown
    <3>4. QED
      BY <3>1, <3>2, <3>3 DEF GoalInv
  <2>3. QED
    BY <2>1, <2>2
<1>12. QED
  BY <1>2, <1>4, <1>5, <1>6, <1>7, <1>8, <1>10, <1>11 DEF GoalNext

\* Whatever number of times a reason may be repeated, no stop is refused that
\* often for it, over runs, suspensions and retries of one goal.
THEOREM NobodyIsGroundDown == ASSUME RepetitionLimit \in Nat \ {0} PROVE GoalSpec => []NotGroundDown
<1>1. GoalInv => NotGroundDown
  BY DEF GoalInv
<1>2. QED
  BY <1>1, GoalInvInit, GoalInvStep, PTL DEF GoalSpec

(* The model list **********************************************************)

\* What was listed when a reading began, as far as the cursor is, is on the
\* pages that were read; models only join the end of the list.
ListInv ==
  /\ listing \in Seq(ModelIds)
  /\ fetch \in [form : {"openai", "anthropic"}, pages : Seq(SUBSET ModelIds), after : Nat]
  /\ before \subseteq ToSet(listing)
  /\ fetch.after <= Len(listing)
  /\ \A i \in 1 .. Len(listing) : i <= fetch.after => listing[i] \in mergeModelLists(fetch.pages)
  /\ KeptListIsWhole

LEMMA NothingFetched ==
  /\ noFetch \in [form : {"openai", "anthropic"}, pages : Seq(SUBSET ModelIds), after : Nat]
  /\ noFetch.after = 0
<1>1. <<>> \in Seq(SUBSET ModelIds)
  OBVIOUS
<1>2. QED
  BY <1>1 DEF noFetch

LEMMA ListInvInit == ListInit => ListInv
<1> SUFFICES ASSUME ListInit PROVE ListInv
  OBVIOUS
<1>1. listing \in Seq(ModelIds)
  <2>1. listing \in UNION {[1 .. m -> ModelIds] : m \in 0 .. Cardinality(ModelIds)}
    BY DEF ListInit, BoundedSeq, SeqOf
  <2>2. PICK m \in 0 .. Cardinality(ModelIds) : listing \in [1 .. m -> ModelIds]
    BY <2>1
  <2>3. m \in Nat
    OBVIOUS
  <2>4. QED
    BY <2>2, <2>3
<1>2. fetch = noFetch /\ fetch.after = 0
  BY NothingFetched DEF ListInit
<1>3. before = {} /\ KeptListIsWhole
  BY DEF ListInit, KeptListIsWhole
<1>4. \A i \in 1 .. Len(listing) : ~(i <= fetch.after)
  BY <1>1, <1>2
<1>5. QED
  BY <1>1, <1>2, <1>3, <1>4, NothingFetched DEF ListInv

\* A page brings all that is between the cursor and its end.
LEMMA PageBrings ==
  ASSUME PageSize \in Nat, ListInv
  PROVE  /\ allPages \in Seq(SUBSET ModelIds)
         /\ \A i \in 1 .. Len(listing) : i <= fetch.after + PageSize => listing[i] \in mergeModelLists(allPages)
<1> DEFINE last == IF fetch.after + PageSize < Len(listing) THEN fetch.after + PageSize ELSE Len(listing)
<1>1. /\ listing \in Seq(ModelIds) /\ Len(listing) \in Nat /\ fetch.after \in Nat
      /\ fetch.pages \in Seq(SUBSET ModelIds)
  BY DEF ListInv
<1>2. last \in 0 .. Len(listing) /\ last \in Int
  BY <1>1
<1>3. page = SubSeq(listing, fetch.after + 1, last)
  BY DEF page
<1> HIDE DEF last
<1>4. \A i \in fetch.after + 1 .. last : listing[i] \in ToSet(page)
  <2> SUFFICES ASSUME NEW i \in fetch.after + 1 .. last PROVE listing[i] \in ToSet(page)
    OBVIOUS
  <2>1. i - fetch.after \in 1 .. Len(page) /\ page[i - fetch.after] = listing[i]
    BY <1>1, <1>2, <1>3
  <2>2. i - fetch.after \in DOMAIN page
    BY <1>1, <1>2, <1>3, <2>1
  <2>3. QED
    BY <2>1, <2>2 DEF ToSet
<1>5. ToSet(page) \subseteq ModelIds
  BY <1>1, <1>2, <1>3 DEF ToSet
<1>6. allPages \in Seq(SUBSET ModelIds)
  BY <1>1, <1>5 DEF allPages
<1>7. ToSet(allPages) = ToSet(fetch.pages) \cup {ToSet(page)}
  BY <1>1, <1>5 DEF allPages, ToSet
<1>8. ASSUME NEW i \in 1 .. Len(listing), i <= fetch.after + PageSize
      PROVE  listing[i] \in mergeModelLists(allPages)
  <2>1. CASE i <= fetch.after
    BY <1>7, <2>1 DEF ListInv, mergeModelLists
  <2>2. CASE i > fetch.after
    <3>1. i \in fetch.after + 1 .. last
      BY <1>1, <1>8, <2>2 DEF last
    <3>2. QED
      BY <1>4, <1>7, <3>1 DEF mergeModelLists
  <2>3. QED
    BY <1>1, <2>1, <2>2
<1>9. QED
  BY <1>6, <1>8

LEMMA ListInvStep == ASSUME PageSize \in Nat PROVE ListInv /\ [ListNext]_listVars => ListInv'
<1> SUFFICES ASSUME ListInv, [ListNext]_listVars PROVE ListInv'
  OBVIOUS
<1> USE DEF KeptListIsWhole
<1>1. ASSUME UNCHANGED <<listing, before>>, cache' = cache, fetch' = noFetch PROVE ListInv'
  BY <1>1, NothingFetched DEF ListInv
<1>2. ASSUME UNCHANGED <<listing, before, cache, fetch>> PROVE ListInv'
  BY <1>2 DEF ListInv
<1>3. ASSUME NEW x \in Askers, limits(x) PROVE ListInv'
  <2>1. CASE cache = NoList
    <3>1. /\ fetch' = noFetch /\ before' = ToSet(listing) /\ listing' = listing /\ cache' = cache
      BY <1>3, <2>1 DEF limits
    <3>2. QED
      BY <2>1, <3>1, NothingFetched DEF ListInv
  <2>2. CASE cache # NoList
    BY <1>2, <1>3, <2>2 DEF limits
  <2>3. QED
    BY <2>1, <2>2
<1>4. ASSUME NEW x \in Askers, Refused(x) PROVE ListInv'
  <2>1. fetch' = [fetch EXCEPT !.form = "anthropic"] /\ UNCHANGED <<listing, before, cache>>
    BY <1>4 DEF Refused, Reading
  <2>2. QED
    BY <2>1 DEF ListInv
<1>5. ASSUME NEW x \in Askers, PageArrives(x) PROVE ListInv'
  <2>1. listing' = listing /\ before' = before
    BY <1>5 DEF PageArrives, Reading
  <2>2. CASE tooLong
    BY <1>1, <1>5, <2>1, <2>2 DEF PageArrives, giveUp
  <2>3. CASE ~tooLong /\ lastPage
    <3>1. cache' = mergeModelLists(allPages) /\ fetch' = noFetch
      BY <1>5, <2>3 DEF PageArrives
    <3>2. ~hasMore
      BY <2>3 DEF tooLong, lastPage
    <3>3. \A i \in 1 .. Len(listing) : i <= fetch.after + PageSize
      BY <3>2 DEF hasMore, ListInv
    <3>4. ToSet(listing) \subseteq cache'
      BY <3>1, <3>3, PageBrings DEF ToSet, ListInv
    <3>5. QED
      BY <2>1, <3>1, <3>4, NothingFetched DEF ListInv
  <2>4. CASE ~tooLong /\ ~lastPage
    <3>1. fetch' = [fetch EXCEPT !.pages = allPages, !.after = @ + PageSize] /\ cache' = cache
      BY <1>5, <2>4 DEF PageArrives
    <3>2. hasMore
      BY <2>4 DEF lastPage
    <3>3. fetch \in [form : {"openai", "anthropic"}, pages : Seq(SUBSET ModelIds), after : Nat]
      BY DEF ListInv
    <3>4. fetch.after + PageSize \in Nat /\ fetch.after + PageSize <= Len(listing)
      BY <3>2, <3>3 DEF hasMore, ListInv
    <3>5. /\ fetch' \in [form : {"openai", "anthropic"}, pages : Seq(SUBSET ModelIds), after : Nat]
          /\ fetch'.after = fetch.after + PageSize /\ fetch'.pages = allPages
      BY <3>1, <3>3, <3>4, PageBrings
    <3>6. QED
      BY <2>1, <3>1, <3>4, <3>5, PageBrings DEF ListInv
  <2>5. QED
    BY <2>2, <2>3, <2>4
<1>6. ASSUME NEW x \in Askers, RequestFails(x) PROVE ListInv'
  BY <1>1, <1>6 DEF RequestFails, Reading, giveUp
<1>7. ASSUME NEW x \in Askers, NEW name \in Names, ModelLimits(x, name) PROVE ListInv'
  BY <1>2, <1>7 DEF ModelLimits
<1>8. ASSUME NEW id \in ModelIds, Published(id) PROVE ListInv'
  <2>1. listing' = Append(listing, id) /\ UNCHANGED <<fetch, before, cache>>
    BY <1>8 DEF Published
  <2>2. /\ listing' \in Seq(ModelIds) /\ Len(listing') = Len(listing) + 1 /\ Len(listing) \in Nat
        /\ \A i \in 1 .. Len(listing) : listing'[i] = listing[i]
    BY <1>8, <2>1 DEF ListInv
  <2>3. ToSet(listing) \subseteq ToSet(listing')
    BY <2>2 DEF ToSet, ListInv
  <2>4. fetch.after \in Nat /\ fetch.after <= Len(listing)
    BY DEF ListInv
  <2>5. \A i \in 1 .. Len(listing') : i <= fetch.after => listing'[i] \in mergeModelLists(fetch.pages)
    BY <2>2, <2>4 DEF ListInv
  <2>6. QED
    BY <2>1, <2>2, <2>3, <2>4, <2>5 DEF ListInv
<1>9. CASE ListRests \/ UNCHANGED listVars
  BY <1>2, <1>9 DEF ListRests, listVars
<1>10. QED
  BY <1>3, <1>4, <1>5, <1>6, <1>7, <1>8, <1>9 DEF ListNext

\* The list that is kept has all that was listed when its reading began, for
\* pages of any size and models that join meanwhile.
THEOREM ListIsWhole == ASSUME PageSize \in Nat PROVE ListSpec => []KeptListIsWhole
<1>1. ListInv => KeptListIsWhole
  BY DEF ListInv
<1>2. QED
  BY <1>1, ListInvInit, ListInvStep, PTL DEF ListSpec

(* Writes of a repository **************************************************)

\* What the flow remembers of its branch, whichever credential is at it, is
\* what the server told it.
WriteInv ==
  /\ writing = [step |-> writing.step, call |-> writing.call, left |-> writing.left, create |-> writing.create,
                need |-> writing.need, created |-> writing.created, best |-> writing.best]
  /\ writing.step # "idle" => (writing.created <=> made) /\ reply.says # "created"
  /\ BranchIsReported

LEMMA WriteInvInit == WriteInit => WriteInv
  BY DEF WriteInit, WriteInv, noWrite, noReply, BranchIsReported

LEMMA WriteInvStep == WriteInv /\ [WriteNext]_writeVars => WriteInv'
<1> SUFFICES ASSUME WriteInv, [WriteNext]_writeVars PROVE WriteInv'
  OBVIOUS
<1> USE DEF BranchIsReported
\* A call that ends without a file.
<1>1. ASSUME writing' = noWrite, reply'.says # "created" PROVE WriteInv'
  BY <1>1 DEF WriteInv, noWrite
<1>2. ASSUME NEW says \in {"no token", "lost", "no branch", "no base", "exists", "branch taken", "refused",
                         "cannot write", "cannot read"}, ReplyWith(says)
      PROVE  WriteInv'
  BY <1>1, <1>2 DEF ReplyWith, noReply
\* A call that goes on as it was, by this credential or the next one.
<1>3. ASSUME NEW next, writing' = next, next.created = writing.created, writing.step # "idle",
             next = [step |-> next.step, call |-> next.call, left |-> next.left, create |-> next.create,
                     need |-> next.need, created |-> next.created, best |-> next.best],
             UNCHANGED <<reply, made>>
      PROVE  WriteInv'
  BY <1>3 DEF WriteInv
<1>4. ASSUME NEW s, goTo(s), writing.step # "idle", UNCHANGED <<reply, made>> PROVE WriteInv'
  BY <1>3, <1>4 DEF goTo, WriteInv
<1>5. ASSUME NEW says, rotate(says), writing.step # "idle", UNCHANGED <<reply, made>> PROVE WriteInv'
  BY <1>3, <1>5 DEF rotate, nextTry, noWrite, WriteInv
<1>6. ASSUME NEW bid, NEW create, Begin(bid, create) PROVE WriteInv'
  <2>1. made' = FALSE
    BY <1>6 DEF Begin
  <2>2. CASE WriteTokens = <<>>
    BY <1>1, <1>6, <2>2 DEF Begin, noReply
  <2>3. CASE WriteTokens # <<>>
    <3>1. /\ writing' = [noWrite EXCEPT !.step = "meta", !.call = bid, !.left = writeTokenOrder, !.create = create]
          /\ reply' = noReply
      BY <1>6, <2>3 DEF Begin
    <3>2. /\ writing' = [step |-> "meta", call |-> bid, left |-> writeTokenOrder, create |-> create,
                         need |-> FALSE, created |-> FALSE, best |-> None]
          /\ writing'.step = "meta" /\ writing'.created = FALSE
      BY <3>1 DEF noWrite
    <3>3. writing' = [step |-> writing'.step, call |-> writing'.call, left |-> writing'.left,
                      create |-> writing'.create, need |-> writing'.need,
                      created |-> writing'.created, best |-> writing'.best]
      BY <3>2
    <3>4. reply'.says # "created"
      BY <3>1 DEF noReply, None
    <3>5. QED
      BY <2>1, <3>2, <3>3, <3>4 DEF WriteInv
  <2>4. QED
    BY <2>2, <2>3
<1>7. CASE StepRefused
  BY <1>5, <1>7 DEF StepRefused, Untouched, Asking
<1>8. CASE StepLost
  BY <1>2, <1>8 DEF StepLost
<1>9. CASE repoMeta
  BY <1>4, <1>9 DEF repoMeta, AtStep, Untouched
<1>10. CASE lookUpBranch
  BY <1>2, <1>4, <1>10 DEF lookUpBranch, AtStep, Untouched
<1>11. CASE resolveRefSHA
  <2>1. CASE ReplyWith("no base")
    BY <1>2, <2>1
  <2>2. CASE writing' = [writing EXCEPT !.step = "check", !.need = TRUE] /\ UNCHANGED reply
    BY <1>3, <1>11, <2>2 DEF resolveRefSHA, AtStep, Untouched, WriteInv
  <2>3. QED
    BY <1>11, <2>1, <2>2 DEF resolveRefSHA
<1>12. CASE checkFile
  BY <1>2, <1>4, <1>12 DEF checkFile, AtStep, Untouched
<1>13. CASE createBranch
  <2>1. CASE ReplyWith("lost") \/ ReplyWith("branch taken")
    BY <1>2, <2>1
  <2>2. CASE /\ writing' = [writing EXCEPT !.step = "put", !.created = TRUE] /\ made' = TRUE /\ UNCHANGED reply
    BY <1>13, <2>2 DEF createBranch, AtStep, WriteInv
  <2>3. QED
    BY <1>13, <2>1, <2>2 DEF createBranch
<1>14. CASE putFile
  <2>1. CASE ReplyWith("lost") \/ ReplyWith("refused")
    BY <1>2, <2>1
  <2>2. CASE reply' = [says |-> "created", created |-> writing.created] /\ writing' = noWrite
    BY <1>14, <2>2 DEF putFile, AtStep, WriteInv, noWrite
  <2>3. QED
    BY <1>14, <2>1, <2>2 DEF putFile
<1>15. CASE createPull
  <2>1. CASE ReplyWith("lost") \/ ReplyWith("refused")
    BY <1>2, <2>1
  <2>2. CASE reply' = [noReply EXCEPT !.says = "opened"] /\ writing' = noWrite
    BY <1>1, <2>2 DEF noReply
  <2>3. QED
    BY <1>15, <2>1, <2>2 DEF createPull
<1>16. CASE explainExhaustedWrite
  BY <1>2, <1>16 DEF explainExhaustedWrite
<1>17. CASE Others \/ WritesRest \/ UNCHANGED writeVars
  BY <1>17 DEF Others, WritesRest, writeVars, WriteInv
<1>18. QED
  BY <1>6, <1>7, <1>8, <1>9, <1>10, <1>11, <1>12, <1>13, <1>14, <1>15, <1>16, <1>17 DEF WriteNext

\* A file that was written comes with the truth about its branch, for any
\* credentials in any order and whatever other people do meanwhile.
THEOREM BranchReportIsTrue == WriteSpec => []BranchIsReported
<1>1. WriteInv => BranchIsReported
  BY DEF WriteInv
<1>2. QED
  BY <1>1, WriteInvInit, WriteInvStep, PTL DEF WriteSpec

(* Reads of a repository ***************************************************)

\* No body in the replay cache, and none that a request in flight could be
\* answered with, was cut by the cap of the caller it was read for.
Cache == etags \in Seq(ToSet(etags)) /\ \A i \in 1 .. Len(etags) : ~etags[i].cut
IsAttempt(f) ==
  /\ DOMAIN f = {"left", "asking", "sent", "best", "bestAuthed", "lost"}
  /\ f.best.says # "found" /\ f.bestAuthed.says # "found"
ReadInv ==
  /\ Cache
  /\ reading = [r \in Readers |-> reading[r]] /\ answer = [r \in Readers |-> answer[r]]
  /\ \A r \in Readers : IsAttempt(reading[r]) /\ ~reading[r].sent.cut
  /\ AnswerIsWhole

LEMMA EntryInCache ==
  ASSUME NEW cred, Cache, entryOf(cred) # 0
  PROVE  entryOf(cred) \in 1 .. Len(etags)
<1> DEFINE I == {i \in 1 .. Len(etags) : etags[i].cred = cred}
<1>1. entryOf(cred) = IF I # {} THEN Min(I) ELSE 0
  BY DEF entryOf, SelectInSeq
<1>2. I # {}
  BY <1>1
<1>3. I \subseteq Nat /\ Len(etags) \in Nat
  BY DEF Cache
<1>4. PICK m \in I : \A k \in I : m <= k
  BY <1>2, <1>3, LeastOfNats
<1>5. Min(I) \in I
  BY <1>4 DEF Min
<1>6. QED
  BY <1>1, <1>2, <1>5

\* What is left of a cache without some of its entries, and with a whole one.
LEMMA CacheWithout == ASSUME NEW cred, Cache
  PROVE  /\ withoutEntry(cred) \in Seq(ToSet(etags))
         /\ \A i \in 1 .. Len(withoutEntry(cred)) : ~withoutEntry(cred)[i].cut
<1> DEFINE pos == entryOf(cred)
           S  == ToSet(etags)
<1>0. etags \in Seq(S) /\ Len(etags) \in Nat
  BY DEF Cache
<1>1. CASE pos = 0
  BY <1>0, <1>1 DEF withoutEntry, Cache
<1>2. CASE pos # 0
  <2>1. pos \in 1 .. Len(etags)
    BY <1>2, EntryInCache
  <2> HIDE DEF pos, S
  <2> DEFINE a == SubSeq(etags, 1, pos - 1)
             b == SubSeq(etags, pos + 1, Len(etags))
  <2>2. a \in Seq(S) /\ Len(a) = pos - 1 /\ \A i \in 1 .. pos - 1 : a[i] = etags[i]
    BY <1>0, <2>1
  <2>3. b \in Seq(S) /\ Len(b) = Len(etags) - pos /\ \A i \in 1 .. Len(etags) - pos : b[i] = etags[pos + i]
    BY <1>0, <2>1
  <2> HIDE DEF a, b
  <2>4. /\ a \o b \in Seq(S) /\ Len(a \o b) = Len(a) + Len(b)
        /\ \A i \in 1 .. Len(a) + Len(b) : (a \o b)[i] = IF i <= Len(a) THEN a[i] ELSE b[i - Len(a)]
    BY <2>2, <2>3, ConcatProperties
  <2>5. withoutEntry(cred) = a \o b
    BY <1>2 DEF withoutEntry, RemoveAt, pos, a, b
  <2>6. ASSUME NEW i \in 1 .. Len(a \o b) PROVE ~(a \o b)[i].cut
    <3>1. \A j \in 1 .. Len(etags) : ~etags[j].cut
      BY DEF Cache
    <3>2. CASE i <= Len(a)
      BY <1>0, <2>1, <2>2, <2>3, <2>4, <3>1, <3>2
    <3>3. CASE i > Len(a)
      <4>1. i - Len(a) \in 1 .. Len(etags) - pos /\ pos + (i - Len(a)) \in 1 .. Len(etags)
        BY <1>0, <2>1, <2>2, <2>3, <2>4, <3>3
      <4>2. (a \o b)[i] = etags[pos + (i - Len(a))]
        BY <1>0, <2>1, <2>2, <2>3, <2>4, <3>3, <4>1
      <4>3. QED
        BY <3>1, <4>1, <4>2
    <3>4. QED
      BY <1>0, <2>1, <2>2, <2>3, <2>4, <3>2, <3>3
  <2>7. QED
    BY <2>4, <2>5, <2>6 DEF S
<1>3. QED
  BY <1>1, <1>2 DEF S

LEMMA CacheWith == ASSUME NEW cred, NEW e, ~e.cut, Cache
  PROVE  LET all == <<e>> \o withoutEntry(cred)
         IN  /\ all \in Seq(ToSet(etags) \cup {e}) /\ Len(all) \in Nat
             /\ \A i \in 1 .. Len(all) : ~all[i].cut
<1> DEFINE S == ToSet(etags) \cup {e}
           w == withoutEntry(cred)
<1>1. w \in Seq(S) /\ \A i \in 1 .. Len(w) : ~w[i].cut
  BY CacheWithout, SeqMonotonic
<1>2. <<e>> \in Seq(S) /\ Len(<<e>>) = 1 /\ <<e>>[1] = e
  OBVIOUS
<1> HIDE DEF S, w
<1>3. /\ <<e>> \o w \in Seq(S) /\ Len(<<e>> \o w) = 1 + Len(w) /\ Len(w) \in Nat
      /\ \A i \in 1 .. 1 + Len(w) : (<<e>> \o w)[i] = IF i <= 1 THEN <<e>>[i] ELSE w[i - 1]
  BY <1>1, <1>2, ConcatProperties
<1>4. QED
  BY <1>1, <1>2, <1>3 DEF S, w

LEMMA IsCache == ASSUME NEW s, NEW S, s \in Seq(S), \A i \in 1 .. Len(s) : ~s[i].cut, etags' = s
  PROVE  Cache'
<1>1. s \in Seq(ToSet(s))
  <2>1. DOMAIN s = 1 .. Len(s) /\ Len(s) \in Nat
    OBVIOUS
  <2>2. \A i \in 1 .. Len(s) : s[i] \in ToSet(s)
    BY <2>1 DEF ToSet
  <2>3. s \in [1 .. Len(s) -> ToSet(s)]
    BY <2>1, <2>2
  <2>4. QED
    BY <2>1, <2>3
<1>2. QED
  BY <1>1 DEF Cache

LEMMA ReadInvInit == ReadInit => ReadInv
<1> SUFFICES ASSUME ReadInit PROVE ReadInv
  OBVIOUS
<1>1. Cache
  <2>1. etags = <<>> /\ Len(etags) = 0
    BY DEF ReadInit
  <2>2. QED
    BY <2>1 DEF Cache
<1>2. QED
  BY <1>1 DEF ReadInit, ReadInv, IsAttempt, AnswerIsWhole, atRest, noAnswer, NoEntry, NoFailure, Unset

\* One reader goes on; its request takes nothing along that was cut.
LEMMA ReaderGoesOn ==
  ASSUME ReadInv, NEW r \in Readers, NEW f, IsAttempt(f), ~f.sent.cut,
         reading' = [reading EXCEPT ![r] = f]
  PROVE  /\ reading' = [x \in Readers |-> reading'[x]]
         /\ \A x \in Readers : IsAttempt(reading'[x]) /\ ~reading'[x].sent.cut
  BY DEF ReadInv

LEMMA ReadInvStep == ReadInv /\ [ReadNext]_readVars => ReadInv'
<1> SUFFICES ASSUME ReadInv, [ReadNext]_readVars PROVE ReadInv'
  OBVIOUS
<1>0. IsAttempt(atRest) /\ ~atRest.sent.cut
  BY DEF IsAttempt, atRest, NoEntry, NoFailure, Unset
\* Nothing is answered, or something that was not found.
<1>1. ASSUME NEW r \in Readers, NEW a, a.says # "found", answer' = [answer EXCEPT ![r] = a]
      PROVE  answer' = [x \in Readers |-> answer'[x]] /\ AnswerIsWhole'
  BY <1>1 DEF ReadInv, AnswerIsWhole
<1>2. ASSUME NEW r \in Readers, NEW noAnonymous \in BOOLEAN, FetchURLOpts(r, noAnonymous) PROVE ReadInv'
  <2> DEFINE f == [atRest EXCEPT !.left = tokenOrder(noAnonymous)]
  <2>1. reading' = [reading EXCEPT ![r] = f] /\ answer' = [answer EXCEPT ![r] = noAnswer] /\ etags' = etags
    BY <1>2 DEF FetchURLOpts, ReadInv
  <2>2. IsAttempt(f) /\ ~f.sent.cut
    BY <1>0 DEF IsAttempt
  <2> HIDE DEF f
  <2>3. noAnswer.says # "found"
    BY DEF noAnswer, Unset
  <2>4. QED
    BY <1>1, <2>1, <2>2, <2>3, ReaderGoesOn DEF ReadInv, Cache
<1>3. ASSUME NEW r \in Readers, Request(r) PROVE ReadInv'
  <2> DEFINE cred == Head(reading[r].left)
             pos  == entryOf(cred)
             e    == IF pos = 0 THEN NoEntry ELSE etags[pos]
             f    == [reading[r] EXCEPT !.asking = TRUE, !.sent = e]
  <2>0. answer' = answer
    BY <1>3 DEF Request
  <2>1. reading' = [reading EXCEPT ![r] = f]
    BY <1>3 DEF Request, ReadInv
  <2>2. etags' = IF pos = 0 THEN etags ELSE <<e>> \o withoutEntry(cred)
    BY <1>3 DEF Request
  <2>3. ~e.cut
    BY EntryInCache DEF ReadInv, Cache, NoEntry
  <2> HIDE DEF e
  <2>4. IsAttempt(f) /\ f.sent = e
    BY DEF IsAttempt, ReadInv
  <2> HIDE DEF cred, f
  <2>5. IsAttempt(f) /\ ~f.sent.cut
    BY <2>3, <2>4 DEF IsAttempt, ReadInv
  <2>6. Cache'
    BY <2>2, <2>3, CacheWith, IsCache DEF ReadInv, Cache
  <2>7. QED
    BY <2>0, <2>1, <2>5, <2>6, ReaderGoesOn DEF ReadInv, AnswerIsWhole
<1>4. ASSUME NEW r \in Readers, Found(r) PROVE ReadInv'
  <2> DEFINE cred  == Head(reading[r].left)
             sent  == reading[r].sent
             renewed == [cred |-> cred, version |-> body.version, cut |-> body.long /\ r \in ShortReaders]
             same  == sent.version = body.version
             res   == IF same THEN sent ELSE renewed
             a     == [says |-> "found", version |-> res.version, cut |-> res.cut,
                       cred |-> cred, now |-> body.version, long |-> body.long]
  <2>1. /\ reading' = [reading EXCEPT ![r] = atRest] /\ answer' = [answer EXCEPT ![r] = a]
        /\ etags' = IF ~same /\ ~renewed.cut THEN store(renewed) ELSE etags
    BY <1>4 DEF Found, storable
  <2>2. a.version = a.now /\ (a.cut => a.long /\ r \in ShortReaders)
    BY DEF ReadInv
  <2> HIDE DEF a
  <2>3. answer' = [x \in Readers |-> answer'[x]] /\ AnswerIsWhole'
    BY <2>1, <2>2 DEF ReadInv, AnswerIsWhole
  <2> HIDE DEF renewed, same
  <2>4. Cache'
    <3>1. CASE ~same /\ ~renewed.cut
      <4> DEFINE all == <<renewed>> \o withoutEntry(renewed.cred)
                 n   == IF Len(all) > ETagEntries THEN ETagEntries ELSE Len(all)
                 S   == ToSet(etags) \cup {renewed}
      <4>1. all \in Seq(S) /\ Len(all) \in Nat /\ \A i \in 1 .. Len(all) : ~all[i].cut
        BY <3>1, CacheWith DEF ReadInv
      <4>2. etags' = SubSeq(all, 1, n)
        BY <2>1, <3>1 DEF store
      <4> HIDE DEF all, S
      <4>3. n \in Int /\ n <= Len(all)
        BY <4>1, ReadAssumption
      <4> HIDE DEF n
      <4>4. /\ SubSeq(all, 1, n) \in Seq(S)
            /\ \A i \in 1 .. Len(SubSeq(all, 1, n)) : ~SubSeq(all, 1, n)[i].cut
        BY <4>1, <4>3
      <4>5. QED
        BY <4>2, <4>4, IsCache
    <3>2. CASE ~(~same /\ ~renewed.cut)
      BY <2>1, <3>2 DEF ReadInv, Cache
    <3>3. QED
      BY <3>1, <3>2
  <2>5. QED
    BY <1>0, <2>1, <2>3, <2>4, ReaderGoesOn DEF ReadInv
<1>5. ASSUME NEW r \in Readers, NEW f, IsAttempt(f), afterRefusal(r, f) PROVE ReadInv'
  <2>1. etags' = etags
    BY <1>5 DEF afterRefusal
  <2>2. CASE Tail(f.left) = <<>>
    <3>1. reading' = [reading EXCEPT ![r] = atRest] /\ answer' = [answer EXCEPT ![r] = report(f)]
      BY <1>5, <2>2 DEF afterRefusal
    <3>2. report(f).says # "found"
      BY <1>5 DEF report, noAnswer, Unset, IsAttempt
    <3>3. QED
      BY <1>0, <1>1, <2>1, <3>1, <3>2, ReaderGoesOn DEF ReadInv, Cache
  <2>3. CASE Tail(f.left) # <<>>
    <3> DEFINE g == [f EXCEPT !.left = Tail(f.left), !.asking = FALSE, !.sent = NoEntry]
    <3>1. reading' = [reading EXCEPT ![r] = g] /\ answer' = answer
      BY <1>5, <2>3 DEF afterRefusal
    <3>2. IsAttempt(g) /\ ~g.sent.cut
      BY <1>5 DEF IsAttempt, NoEntry
    <3> HIDE DEF g
    <3>3. QED
      BY <2>1, <3>1, <3>2, ReaderGoesOn DEF ReadInv, Cache, AnswerIsWhole
  <2>4. QED
    BY <2>2, <2>3
<1>6. ASSUME NEW r \in Readers, Denied(r) \/ Lost(r) PROVE ReadInv'
  <2>1. IsAttempt(reading[r])
    BY DEF ReadInv
  <2>2. IsAttempt([reading[r] EXCEPT !.lost = TRUE])
    BY <2>1 DEF IsAttempt
  <2>3. ASSUME NEW x, x.says # "found"
        PROVE  /\ IsAttempt([reading[r] EXCEPT !.best = moreInformative(x, @)])
               /\ IsAttempt([reading[r] EXCEPT !.bestAuthed = moreInformative(x, @)])
    <3>1. /\ moreInformative(x, reading[r].best).says # "found"
          /\ moreInformative(x, reading[r].bestAuthed).says # "found"
      BY <2>1, <2>3 DEF moreInformative, IsAttempt
    <3>2. QED
      BY <2>1, <3>1 DEF IsAttempt
  <2>4. CASE Lost(r)
    BY <1>5, <2>2, <2>4 DEF Lost
  <2>5. CASE Denied(r)
    <3> DEFINE cred == Head(reading[r].left)
    <3>1. PICK says \in denials(cred) :
            afterRefusal(r, IF cred = Anonymous
                            THEN [reading[r] EXCEPT !.best = moreInformative([cred |-> cred, says |-> says], @)]
                            ELSE [reading[r] EXCEPT !.bestAuthed = moreInformative([cred |-> cred, says |-> says], @)])
      BY <2>5 DEF Denied
    <3>2. says # "found"
      BY DEF denials
    <3>3. QED
      BY <1>5, <2>3, <3>1, <3>2
  <2>6. QED
    BY <1>6, <2>4, <2>5
<1>7. CASE (\E long \in BOOLEAN : EditFile(long)) \/ ReadsRest \/ UNCHANGED readVars
  BY <1>7 DEF EditFile, ReadsRest, readVars, ReadInv, Cache, AnswerIsWhole
<1>8. QED
  BY <1>2, <1>3, <1>4, <1>6, <1>7 DEF ReadNext

\* However many callers share the replay cache, and however the file changes
\* under them, an answer is the whole file as it was then, or cut at the
\* caller's own cap.
THEOREM AnswersAreWhole == ReadSpec => []AnswerIsWhole
<1>1. ReadInv => AnswerIsWhole
  BY DEF ReadInv
<1>2. QED
  BY <1>1, ReadInvInit, ReadInvStep, PTL DEF ReadSpec

(* The resource watch ******************************************************)

Captures == Keys \X (Contents \cup {Absent})
OfOneEach(S) == \A c, d \in S : c[1] = d[1] => c = d

\* While a poll lists, each resource is read at most once.
ListingOK ==
  /\ captures \subseteq Captures /\ IsFiniteSet(captures) /\ OfOneEach(captures)
  /\ unread \subseteq Keys
  /\ \A k \in unread : k \notin seen /\ k[1] \notin unlisted
  /\ \A c \in captures : c[1][1] \notin unlisted
  /\ at # "list" => unread = {}
  /\ at = "idle" => captures = {}

\* The differences of a poll are of one resource each, those recorded apart
\* from those to come; what was recorded is in the store, and all else is as
\* the notices say.
RecordingOK ==
  /\ found \subseteq Captures /\ OfOneEach(found)
  /\ pending \in Seq(Captures)
  /\ \A i, j \in 1 .. Len(pending) : i # j => pending[i][1] # pending[j][1]
  /\ \A i \in 1 .. Len(pending) : pending[i][1] \notin findings
  /\ at \in {"idle", "list"} => found = {} /\ fresh = {} /\ pending = <<>> /\ ~logged
  /\ logged => pending # <<>>
  /\ \A c \in found : snapshots[c[1]] = c[2]
  /\ \A k \in Keys \ findings : k \in missed \/ noticed[k] = snapshots[k]

\* A warning that was given is in the conversation, on its way there, or lost
\* with its run.
WarningsOK == \A w \in warned : <<w[1]>> \in missed \/ w \in standing \/ w \in fresh

WatchInv ==
  /\ live \in [Keys -> Contents \cup {Absent}]
  /\ DOMAIN snapshots = Keys
  /\ ListingOK /\ RecordingOK /\ WarningsOK

LEMMA KeysAreFinite == IsFiniteSet(Keys)
  BY WatchAssumption, FS_Product DEF Keys

\* An order of a finite set names each of its members once.
LEMMA OrderOfSet ==
  ASSUME NEW S, IsFiniteSet(S), NEW f \in SetToSeqs(S)
  PROVE  f \in Seq(S) /\ \A i, j \in 1 .. Len(f) : i # j => f[i] # f[j]
<1>1. Cardinality(S) \in Nat
  BY FS_CardinalityType
<1>2. f \in [1 .. Cardinality(S) -> S] /\ \A i, j \in 1 .. Cardinality(S) : i # j => f[i] # f[j]
  BY DEF SetToSeqs
<1>3. QED
  BY <1>1, <1>2

\* What a comparison finds: one difference of a resource each.
LEMMA DifferencesApart ==
  ASSUME WatchInv, NEW first \in SetToSeqs(different), NEW last \in SetToSeqs(removals)
  PROVE  /\ first \o last \in Seq(Captures)
         /\ \A i, j \in 1 .. Len(first \o last) : i # j => (first \o last)[i][1] # (first \o last)[j][1]
<1>1. /\ different \subseteq captures /\ different \subseteq Captures
      /\ IsFiniteSet(different) /\ OfOneEach(different)
  BY FS_Subset DEF different, WatchInv, ListingOK, OfOneEach
<1>2. removals \subseteq Captures /\ OfOneEach(removals) /\ IsFiniteSet(removals)
  <2>1. removals \subseteq Captures /\ OfOneEach(removals)
    BY DEF removals, Captures, OfOneEach
  <2>2. removals \subseteq Keys \X {Absent}
    BY DEF removals
  <2>3. IsFiniteSet(Keys \X {Absent})
    BY KeysAreFinite, FS_Singleton, FS_Product
  <2>4. QED
    BY <2>1, <2>2, <2>3, FS_Subset
<1>3. \A c \in different, d \in removals : c[1] # d[1]
  BY <1>1 DEF removals, seen
<1>4. /\ first \in Seq(different) /\ last \in Seq(removals)
      /\ \A i, j \in 1 .. Len(first) : i # j => first[i] # first[j]
      /\ \A i, j \in 1 .. Len(last) : i # j => last[i] # last[j]
  BY <1>1, <1>2, OrderOfSet
<1>5. /\ \A i, j \in 1 .. Len(first) : i # j => first[i][1] # first[j][1]
      /\ \A i, j \in 1 .. Len(last) : i # j => last[i][1] # last[j][1]
  <2>1. \A i \in 1 .. Len(first) : first[i] \in different
    BY <1>4
  <2>2. \A i \in 1 .. Len(last) : last[i] \in removals
    BY <1>4
  <2>3. QED
    BY <1>1, <1>2, <1>4, <2>1, <2>2 DEF OfOneEach
<1>6. \A i \in 1 .. Len(first), j \in 1 .. Len(last) : first[i][1] # last[j][1]
  BY <1>3, <1>4
<1>7. first \in Seq(Captures) /\ last \in Seq(Captures)
  BY <1>1, <1>2, <1>4, SeqMonotonic
<1>8. /\ first \o last \in Seq(Captures) /\ Len(first \o last) = Len(first) + Len(last)
      /\ \A i \in 1 .. Len(first) + Len(last) :
           (first \o last)[i] = IF i <= Len(first) THEN first[i] ELSE last[i - Len(first)]
  BY <1>7, ConcatProperties
<1>9. Len(first) \in Nat /\ Len(last) \in Nat
  BY <1>7
<1> DEFINE both == first \o last
<1> HIDE DEF both
<1>10. ASSUME NEW i \in 1 .. Len(both), NEW j \in 1 .. Len(both), i # j PROVE both[i][1] # both[j][1]
  <2>1. \A k \in 1 .. Len(both) : k <= Len(first) => both[k] = first[k] /\ k \in 1 .. Len(first)
    BY <1>8, <1>9 DEF both
  <2>2. \A k \in 1 .. Len(both) :
          ~(k <= Len(first)) => both[k] = last[k - Len(first)] /\ k - Len(first) \in 1 .. Len(last)
    BY <1>8, <1>9 DEF both
  <2>3. CASE i <= Len(first) /\ j <= Len(first)
    BY <1>5, <1>10, <2>1, <2>3
  <2>4. CASE ~(i <= Len(first)) /\ ~(j <= Len(first))
    <3>1. i - Len(first) # j - Len(first)
      BY <1>8, <1>9, <1>10 DEF both
    <3> DEFINE m == i - Len(first)
               n == j - Len(first)
    <3>2. both[i] = last[m] /\ m \in 1 .. Len(last) /\ both[j] = last[n] /\ n \in 1 .. Len(last)
      BY <2>2, <2>4
    <3> HIDE DEF m, n
    <3>3. QED
      BY <1>5, <3>1, <3>2 DEF m, n
  <2>5. CASE i <= Len(first) /\ ~(j <= Len(first))
    BY <1>6, <2>1, <2>2, <2>5
  <2>6. CASE ~(i <= Len(first)) /\ j <= Len(first)
    <3>1. both[j][1] # both[i][1]
      BY <1>6, <2>1, <2>2, <2>6
    <3>2. QED
      BY <3>1
  <2>7. QED
    BY <2>3, <2>4, <2>5, <2>6
<1>11. QED
  BY <1>8, <1>10 DEF both

LEMMA WatchInvInit == WatchInit => WatchInv
<1> SUFFICES ASSUME WatchInit PROVE WatchInv
  OBVIOUS
<1>1. live \in [Keys -> Contents \cup {Absent}] /\ DOMAIN snapshots = Keys
  <2>1. (CHOOSE c \in Contents : TRUE) \in Contents
    BY WatchAssumption
  <2>2. QED
    BY <2>1 DEF WatchInit, Nothing
<1>2. ListingOK
  BY FS_EmptySet DEF WatchInit, ListingOK, OfOneEach, seen
<1>3. RecordingOK
  <2>1. pending = <<>> /\ pending \in Seq(Captures) /\ Len(pending) = 0
    BY DEF WatchInit
  <2>2. QED
    BY <2>1 DEF WatchInit, RecordingOK, OfOneEach, findings, Nothing
<1>4. QED
  BY <1>1, <1>2, <1>3 DEF WatchInit, WatchInv, WarningsOK

\* The poll is over, and nothing of it is left.
LEMMA PollOver ==
  ASSUME at' = "idle", noPass, UNCHANGED <<live, snapshots>>, WatchInv,
         \A k \in Keys : k \in missed' \/ noticed'[k] = snapshots[k],
         \A w \in warned' : <<w[1]>> \in missed' \/ w \in standing'
  PROVE  WatchInv'
<1>1. pending' = <<>> /\ pending' \in Seq(Captures) /\ Len(pending') = 0
  BY DEF noPass
<1>2. ListingOK'
  BY FS_EmptySet DEF noPass, ListingOK, OfOneEach, seen
<1>3. RecordingOK'
  BY <1>1 DEF noPass, RecordingOK, OfOneEach, findings
<1>4. QED
  BY <1>2, <1>3 DEF WatchInv, WarningsOK

LEMMA WatchInvStep == WatchInv /\ [WatchNext]_watchVars => WatchInv'
<1> SUFFICES ASSUME WatchInv, [WatchNext]_watchVars PROVE WatchInv'
  OBVIOUS
\* What neither records nor tells leaves the differences alone.
<1>1. ASSUME UNCHANGED <<at, pending, logged, found, fresh, snapshots, missed, noticed, warned, standing>>
      PROVE  RecordingOK' /\ WarningsOK' /\ DOMAIN snapshots' = Keys
  BY <1>1 DEF WatchInv, RecordingOK, WarningsOK, findings
<1>2. ASSUME UNCHANGED <<captures, unread, unlisted>>, at' # "list" => unread = {}, at' = "idle" => captures = {}
      PROVE  ListingOK'
  BY <1>2 DEF WatchInv, ListingOK, seen
<1>3. ASSUME NEW k \in Keys, NEW c \in Contents \cup {Absent}, EditResource(k, c) PROVE WatchInv'
  <2>1. live' \in [Keys -> Contents \cup {Absent}]
    BY <1>3 DEF EditResource, WatchInv
  <2>2. QED
    BY <1>1, <1>2, <1>3, <2>1 DEF EditResource, stored, pass, model, WatchInv, ListingOK
<1>4. CASE BeginPoll
  <2>1. UNCHANGED <<live, snapshots, warned, unread, captures, pending, logged, found, fresh, noticed, standing, missed>>
    BY <1>4 DEF BeginPoll, stored, model
  <2>2. at = "idle" /\ captures = {} /\ unread = {} /\ at' \in {"list", "deliver"}
    BY <1>4 DEF BeginPoll, WatchInv, ListingOK
  <2>3. ListingOK'
    BY <2>1, <2>2 DEF ListingOK, WatchInv
  <2>4. RecordingOK' /\ WarningsOK'
    BY <2>1, <2>2 DEF RecordingOK, WarningsOK, WatchInv, findings
  <2>5. QED
    BY <2>1, <2>3, <2>4 DEF WatchInv
<1>5. ASSUME NEW s \in Sources, ListSource(s) PROVE WatchInv'
  <2>1. UNCHANGED <<live, snapshots, warned, at, captures, pending, logged, found, fresh, noticed, standing, missed>>
    BY <1>5 DEF ListSource, stored, model
  <2>2. /\ at = "list" /\ unread = {} /\ s \in unlisted /\ unlisted' = unlisted \ {s}
        /\ unread' \subseteq advertised(s)
    BY <1>5 DEF ListSource, kSubset
  <2>3. advertised(s) \subseteq {k \in Keys : k[1] = s}
    BY DEF advertised, Keys
  <2>4. ListingOK'
    <3>1. unread' \subseteq Keys /\ \A k \in unread' : k[1] = s
      BY <2>2, <2>3
    <3>2. \A k \in unread' : k \notin seen'
      BY <2>1, <2>2, <3>1 DEF ListingOK, WatchInv, seen
    <3>3. QED
      BY <2>1, <2>2, <3>1, <3>2 DEF ListingOK, WatchInv
  <2>5. QED
    BY <1>1, <2>1, <2>4 DEF WatchInv
<1>6. ASSUME NEW k \in Keys, Read(k) PROVE WatchInv'
  <2>1. UNCHANGED <<live, snapshots, warned, at, unlisted, pending, logged, found, fresh, noticed, standing, missed>>
    BY <1>6 DEF Read, stored, model
  <2>2. k \in unread /\ unread' = unread \ {k} /\ at = "list" /\ k \notin seen /\ k[1] \notin unlisted
    BY <1>6 DEF Read, WatchInv, ListingOK
  <2>3. CASE captures' = captures
    BY <1>1, <2>1, <2>2, <2>3 DEF ListingOK, WatchInv, seen
  <2>4. CASE captures' = captures \cup {<<k, live[k]>>}
    <3>1. <<k, live[k]>> \in Captures
      BY DEF WatchInv, Captures
    <3>2. captures' \subseteq Captures /\ IsFiniteSet(captures') /\ OfOneEach(captures')
      <4>1. captures \subseteq Captures /\ IsFiniteSet(captures) /\ OfOneEach(captures)
        BY DEF ListingOK, WatchInv
      <4>2. \A c \in captures : c[1] # k
        BY <2>2 DEF seen
      <4>3. OfOneEach(captures')
        BY <2>4, <4>1, <4>2 DEF OfOneEach
      <4>4. QED
        BY <2>4, <3>1, <4>1, <4>3, FS_AddElement
    <3>3. seen' = seen \cup {k}
      <4>1. \A c : c \in captures' <=> c \in captures \/ c = <<k, live[k]>>
        BY <2>4
      <4>2. <<k, live[k]>>[1] = k
        OBVIOUS
      <4>3. \A x : x \in seen' <=> x \in seen \/ x = k
        BY <4>1, <4>2 DEF seen
      <4>4. QED
        BY <4>3
    <3>4. ListingOK'
      BY <2>1, <2>2, <2>4, <3>2, <3>3 DEF ListingOK, WatchInv
    <3>5. QED
      BY <1>1, <2>1, <3>4 DEF WatchInv
  <2>5. QED
    BY <1>6, <2>3, <2>4 DEF Read
<1>7. CASE Compare
  <2>1. /\ UNCHANGED <<live, snapshots, unlisted, unread, captures, logged, found, noticed, standing, missed>>
        /\ at = "list" /\ unread = {} /\ at' = "record" /\ fresh' = warnings \ warned /\ warned' = warnings
    BY <1>7 DEF Compare, stored, model, newWarnings
  <2>2. PICK first \in SetToSeqs(different), last \in SetToSeqs(removals) : pending' = first \o last
    BY <1>7 DEF Compare
  <2>3. pending' \in Seq(Captures) /\ \A i, j \in 1 .. Len(pending') : i # j => pending'[i][1] # pending'[j][1]
    BY <2>2, DifferencesApart
  <2>4. found = {} /\ findings = {} /\ ~logged /\ findings' = findings
    BY <2>1 DEF WatchInv, RecordingOK, findings
  <2>5. RecordingOK'
    BY <2>1, <2>3, <2>4 DEF RecordingOK, WatchInv
  <2>6. WarningsOK'
    BY <2>1 DEF WatchInv, RecordingOK, WarningsOK
  <2>7. QED
    BY <1>2, <2>1, <2>5, <2>6 DEF WatchInv
<1>8. CASE RecordChange
  <2>1. /\ UNCHANGED <<live, snapshots, warned, unlisted, unread, captures, pending, found, fresh, noticed, standing, missed>>
        /\ at = "record" /\ at' \in {"record", "deliver"} /\ pending # <<>>
    BY <1>8 DEF RecordChange, recordFails, model
  <2>2. ListingOK'
    BY <1>2, <2>1 DEF WatchInv, ListingOK
  <2>3. RecordingOK' /\ WarningsOK'
    BY <2>1 DEF WatchInv, RecordingOK, WarningsOK, findings
  <2>4. QED
    BY <2>1, <2>2, <2>3 DEF WatchInv
<1>9. CASE PutSnapshot
  <2>1. /\ UNCHANGED <<live, warned, unlisted, unread, captures, fresh, noticed, standing, missed>>
        /\ at = "record" /\ at' \in {"record", "deliver"} /\ ~logged' /\ pending # <<>>
    BY <1>9 DEF PutSnapshot, recordFails, model, WatchInv, RecordingOK
  <2>2. ListingOK'
    BY <1>2, <2>1 DEF WatchInv, ListingOK
  <2>3. CASE UNCHANGED <<snapshots, found, pending>>
    BY <2>1, <2>2, <2>3 DEF WatchInv, RecordingOK, WarningsOK, findings
  <2>4. CASE ~UNCHANGED <<snapshots, found, pending>>
    <3> DEFINE h == Head(pending)
    <3>1. /\ snapshots' = [snapshots EXCEPT ![h[1]] = h[2]]
          /\ found' = found \cup {h} /\ pending' = Tail(pending)
      BY <1>9, <2>4 DEF PutSnapshot
    <3>2. /\ pending \in Seq(Captures) /\ h \in Captures /\ h = pending[1] /\ 1 \in 1 .. Len(pending)
          /\ pending' \in Seq(Captures) /\ Len(pending') = Len(pending) - 1
          /\ \A i \in 1 .. Len(pending') : pending'[i] = pending[i + 1] /\ i + 1 \in 1 .. Len(pending)
      BY <2>1, <3>1 DEF WatchInv, RecordingOK
    <3>3. h[1] \in Keys /\ h[1] \notin findings /\ findings' = findings \cup {h[1]}
      <4>1. h[1] \in Keys
        BY <3>2 DEF Captures
      <4>2. h[1] \notin findings
        BY <3>2 DEF WatchInv, RecordingOK
      <4> HIDE DEF h
      <4>3. findings' = findings \cup {h[1]}
        BY <3>1 DEF findings
      <4>4. QED
        BY <4>1, <4>2, <4>3
    <3> HIDE DEF h
    <3>4. /\ \A i, j \in 1 .. Len(pending') : i # j => pending'[i][1] # pending'[j][1]
          /\ \A i \in 1 .. Len(pending') : pending'[i][1] \notin findings'
      <4>1. \A i, j \in 1 .. Len(pending) : i # j => pending[i][1] # pending[j][1]
        BY DEF WatchInv, RecordingOK
      <4>2. ASSUME NEW i \in 1 .. Len(pending'), NEW j \in 1 .. Len(pending'), i # j
            PROVE  pending'[i][1] # pending'[j][1]
        <5>1. i + 1 # j + 1 /\ i + 1 \in 1 .. Len(pending) /\ j + 1 \in 1 .. Len(pending)
          BY <3>2, <4>2
        <5>2. pending'[i] = pending[i + 1] /\ pending'[j] = pending[j + 1]
          BY <3>2
        <5>3. pending[i + 1][1] # pending[j + 1][1]
          BY <4>1, <5>1, Zenon
        <5>4. QED
          BY <5>2, <5>3
      <4>3. ASSUME NEW i \in 1 .. Len(pending') PROVE pending'[i][1] \notin findings'
        <5> DEFINE k == i + 1
        <5>1. pending'[i] = pending[k] /\ k \in 1 .. Len(pending) /\ k # 1 /\ 1 \in 1 .. Len(pending)
          <6>1. pending'[i] = pending[i + 1] /\ i + 1 \in 1 .. Len(pending) /\ 1 \in 1 .. Len(pending)
            BY <3>2, Zenon
          <6>2. i \in Nat /\ i >= 1
            OBVIOUS
          <6>3. k # 1
            BY <6>2
          <6>4. QED
            BY <6>1, <6>3
        <5> HIDE DEF k
        <5>2. pending[k][1] # pending[1][1]
          BY <4>1, <5>1, Zenon
        <5>3. pending[k][1] \notin findings
          BY <5>1 DEF WatchInv, RecordingOK
        <5>4. QED
          BY <3>2, <3>3, <5>1, <5>2, <5>3
      <4>4. QED
        BY <4>2, <4>3
    <3>5. /\ DOMAIN snapshots' = Keys /\ snapshots'[h[1]] = h[2]
          /\ \A k \in Keys : k # h[1] => snapshots'[k] = snapshots[k]
      BY <3>1, <3>3 DEF WatchInv
    <3>6. /\ found' \subseteq Captures /\ OfOneEach(found')
          /\ \A c \in found' : snapshots'[c[1]] = c[2]
      <4>1. \A c \in found : c[1] \in Keys /\ c[1] # h[1] /\ c \in Captures /\ snapshots[c[1]] = c[2]
        BY <3>3 DEF WatchInv, RecordingOK, Captures, findings
      <4>2. OfOneEach(found)
        BY DEF WatchInv, RecordingOK
      <4>3. QED
        BY <3>1, <3>2, <3>5, <4>1, <4>2 DEF OfOneEach
    <3>7. \A k \in Keys \ findings' : k \in missed' \/ noticed'[k] = snapshots'[k]
      BY <2>1, <3>3, <3>5 DEF WatchInv, RecordingOK
    <3>8. RecordingOK'
      BY <2>1, <3>2, <3>4, <3>6, <3>7 DEF RecordingOK
    <3>9. QED
      BY <2>1, <2>2, <3>5, <3>8 DEF WatchInv, WarningsOK
  <2>5. QED
    BY <2>3, <2>4
<1>10. CASE Recorded
  <2>1. /\ UNCHANGED <<live, snapshots, warned, unlisted, unread, captures, pending, logged, found, fresh, noticed, standing, missed>>
        /\ at = "record" /\ at' = "deliver"
    BY <1>10 DEF Recorded, stored, pass, model
  <2>2. ListingOK' /\ RecordingOK' /\ WarningsOK'
    BY <1>2, <2>1 DEF WatchInv, ListingOK, RecordingOK, WarningsOK, findings
  <2>3. QED
    BY <2>1, <2>2 DEF WatchInv
<1>11. CASE Deliver
  <2>1. at' = "idle" /\ noPass /\ UNCHANGED <<live, snapshots, warned>>
    BY <1>11 DEF Deliver, stored
  <2>2. CASE dropped
    <3>1. missed' = missed \cup findings \cup {<<w[1]>> : w \in fresh} /\ UNCHANGED <<noticed, standing>>
      BY <1>11, <2>2 DEF Deliver, dropped
    <3>2. \A k \in Keys : k \in missed' \/ noticed'[k] = snapshots[k]
      BY <3>1 DEF WatchInv, RecordingOK
    <3>3. \A w \in warned' : <<w[1]>> \in missed' \/ w \in standing'
      BY <2>1, <3>1 DEF WatchInv, WarningsOK
    <3>4. QED
      BY <2>1, <3>2, <3>3, PollOver
  <2>3. CASE ~dropped
    <3>1. /\ noticed' = [k \in Keys |-> IF \E c \in found : c[1] = k THEN (CHOOSE c \in found : c[1] = k)[2] ELSE noticed[k]]
          /\ standing' = (standing \cap warned) \cup fresh
          /\ missed' = missed \ findings
      BY <1>11, <2>3 DEF Deliver
    <3>2. ASSUME NEW k \in Keys PROVE k \in missed' \/ noticed'[k] = snapshots[k]
      <4>1. CASE k \in findings
        <5>1. \E c \in found : c[1] = k
          BY <4>1 DEF findings
        <5>2. (CHOOSE c \in found : c[1] = k) \in found /\ (CHOOSE c \in found : c[1] = k)[1] = k
          BY <5>1
        <5>3. QED
          BY <3>1, <5>1, <5>2 DEF WatchInv, RecordingOK
      <4>2. CASE k \notin findings
        <5>1. ~\E c \in found : c[1] = k
          BY <4>2 DEF findings
        <5>2. QED
          BY <3>1, <4>2, <5>1 DEF WatchInv, RecordingOK
      <4>3. QED
        BY <4>1, <4>2
    <3>3. ASSUME NEW w \in warned' PROVE <<w[1]>> \in missed' \/ w \in standing'
      <4>1. findings \subseteq Keys
        BY DEF WatchInv, RecordingOK, Captures, findings
      <4>2. <<w[1]>> \notin Keys
        BY DEF Keys
      <4>3. QED
        BY <2>1, <3>1, <3>3, <4>1, <4>2 DEF WatchInv, WarningsOK
    <3>4. QED
      BY <2>1, <3>2, <3>3, PollOver
  <2>4. QED
    BY <2>2, <2>3
<1>12. CASE CancelRun
  BY <1>1, <1>2, <1>12 DEF CancelRun, stored, pass, model, WatchInv, ListingOK
<1>13. CASE Crash
  <2>1. /\ at' = "idle" /\ noPass /\ UNCHANGED <<live, snapshots, noticed, standing>>
        /\ warned' = {} /\ missed' = missed \cup findings
    BY <1>13 DEF Crash, stored
  <2>2. \A k \in Keys : k \in missed' \/ noticed'[k] = snapshots[k]
    BY <2>1 DEF WatchInv, RecordingOK
  <2>3. QED
    BY <2>1, <2>2, PollOver
<1>14. CASE Rest \/ UNCHANGED watchVars
  BY <1>1, <1>2, <1>14 DEF Rest, watchVars, WatchInv, ListingOK
<1>15. QED
  BY <1>3, <1>4, <1>5, <1>6, <1>7, <1>8, <1>9, <1>10, <1>11, <1>12, <1>13, <1>14 DEF WatchNext

\* Whatever fails or dies between a record, its snapshot and its notice, and
\* however many resources there are, no change and no warning is passed over
\* by the polls to come, but those whose notice a lost run had in hand.
THEOREM NoChangeIsSkipped == WatchSpec => []ToldWhatIsStored
<1>1. WatchInv => ToldWhatIsStored
  BY DEF WatchInv, RecordingOK, WarningsOK, ToldWhatIsStored, findings
<1>2. QED
  BY <1>1, WatchInvInit, WatchInvStep, PTL DEF WatchSpec

(* The task list ***********************************************************)

\* The numbers of a sequence are bounded, and a bounded set has a greatest.
LEMMA NumbersAreBounded ==
  ASSUME NEW n \in Nat, NEW f \in [1 .. n -> Nat]
  PROVE  \E u \in Nat : \A i \in 1 .. n : f[i] <= u
<1> DEFINE T == {k \in 0 .. n : ~\E u \in Nat : \A i \in 1 .. k : f[i] <= u}
<1>1. CASE T = {}
  <2>1. n \notin T
    BY <1>1
  <2>2. QED
    BY <2>1
<1>2. CASE T # {}
  <2>1. T \subseteq Nat
    OBVIOUS
  <2>2. PICK k \in T : \A j \in T : k <= j
    BY <1>2, <2>1, LeastOfNats
  <2>3. k # 0
    <3>1. \A i \in 1 .. 0 : f[i] <= 0
      OBVIOUS
    <3>2. QED
      BY <3>1, <2>2
  <2>4. k - 1 \in 0 .. n /\ ~(k <= k - 1)
    BY <2>2, <2>3
  <2>5. k - 1 \notin T
    BY <2>2, <2>4
  <2>6. PICK u \in Nat : \A i \in 1 .. k - 1 : f[i] <= u
    BY <2>4, <2>5
  <2>7. k \in 1 .. n /\ f[k] \in Nat
    BY <2>2, <2>3
  <2> DEFINE v == IF f[k] > u THEN f[k] ELSE u
  <2>8. v \in Nat /\ f[k] <= v /\ u <= v
    BY <2>6, <2>7
  <2> HIDE DEF v
  <2>9. ASSUME NEW i \in 1 .. k PROVE f[i] <= v
    <3>1. f[i] \in Nat
      BY <2>7
    <3>2. CASE i = k
      BY <2>8, <3>2
    <3>3. CASE i # k
      <4>1. i \in 1 .. k - 1
        BY <2>7, <3>3
      <4>2. f[i] <= u
        BY <2>6, <4>1
      <4>3. QED
        BY <2>8, <3>1, <4>2
    <3>4. QED
      BY <3>2, <3>3
  <2>10. QED
    BY <2>2, <2>8, <2>9
<1>3. QED
  BY <1>1, <1>2

LEMMA GreatestOfNats ==
  ASSUME NEW T, T \subseteq Nat, T # {}, NEW u \in Nat, \A t \in T : t <= u
  PROVE  Max(T) \in T /\ \A t \in T : t <= Max(T)
<1> DEFINE U == {v \in Nat : \A t \in T : t <= v}
<1>1. PICK m \in U : \A v \in U : m <= v
  <2>1. U \subseteq Nat /\ U # {}
    OBVIOUS
  <2>2. QED
    BY <2>1, LeastOfNats
<1>2. m \in T
  <2> SUFFICES ASSUME m \notin T PROVE FALSE
    OBVIOUS
  <2>1. \A t \in T : t < m
    BY <1>1
  <2>2. PICK t \in T : TRUE
    OBVIOUS
  <2>3. m \in Nat /\ t \in Nat /\ t < m
    BY <2>1, <2>2, <1>1
  <2>4. m - 1 \in Nat
    BY <2>3
  <2>5. \A w \in T : w <= m - 1
    BY <2>1, <2>3
  <2>6. m <= m - 1
    BY <1>1, <2>4, <2>5
  <2>7. QED
    BY <2>3, <2>6
<1>3. m \in T /\ \A t \in T : m >= t
  BY <1>1, <1>2
<1>4. QED
  BY <1>3 DEF Max

\* A sequence without the element at one position.
LEMMA WithoutPosition ==
  ASSUME NEW S, NEW s \in Seq(S), NEW pos \in 1 .. Len(s)
  PROVE  /\ RemoveAt(s, pos) \in Seq(S) /\ Len(RemoveAt(s, pos)) = Len(s) - 1
         /\ \A i \in 1 .. Len(s) - 1 : RemoveAt(s, pos)[i] = IF i < pos THEN s[i] ELSE s[i + 1]
<1> DEFINE a == SubSeq(s, 1, pos - 1)
           b == SubSeq(s, pos + 1, Len(s))
<1>1. a \in Seq(S) /\ Len(a) = pos - 1 /\ \A i \in 1 .. pos - 1 : a[i] = s[i]
  OBVIOUS
<1>2. b \in Seq(S) /\ Len(b) = Len(s) - pos /\ \A i \in 1 .. Len(s) - pos : b[i] = s[pos + i]
  OBVIOUS
<1>3. RemoveAt(s, pos) = a \o b
  BY DEF RemoveAt
<1> HIDE DEF a, b
<1>4. /\ a \o b \in Seq(S) /\ Len(a \o b) = Len(a) + Len(b)
      /\ \A i \in 1 .. Len(a) + Len(b) : (a \o b)[i] = IF i <= Len(a) THEN a[i] ELSE b[i - Len(a)]
  BY <1>1, <1>2, ConcatProperties
<1>5. Len(s) \in Nat /\ Len(a \o b) = Len(s) - 1
  BY <1>1, <1>2, <1>4
<1>6. ASSUME NEW i \in 1 .. Len(s) - 1 PROVE (a \o b)[i] = IF i < pos THEN s[i] ELSE s[i + 1]
  <2>1. i \in 1 .. Len(a) + Len(b)
    BY <1>4, <1>5
  <2>2. CASE i < pos
    BY <1>1, <1>4, <2>1, <2>2
  <2>3. CASE ~(i < pos)
    <3>1. ~(i <= Len(a)) /\ i - Len(a) \in 1 .. Len(s) - pos /\ pos + (i - Len(a)) = i + 1
      BY <1>1, <1>5, <2>3
    <3>2. QED
      BY <1>2, <1>4, <2>1, <2>3, <3>1
  <2>4. QED
    BY <2>2, <2>3
<1>7. QED
  BY <1>3, <1>4, <1>5, <1>6

Task == [id : Nat, serial : Nat, title : Titles \cup {NotGiven}, state : TodoStates]
IdsApart(list) == \A i, j \in 1 .. Len(list) : list[i].id = list[j].id => i = j
NamesKept(list) == \A a \in shown : \A i \in 1 .. Len(list) : list[i].id = a[1] => list[i].serial = a[2]

\* No id comes twice in a list, and none that was ever shown is minted again.
TodoInv ==
  /\ items \in Seq(Task) /\ IdsApart(items)
  /\ kept \in Seq(Task) /\ IdsApart(kept)
  /\ shown \subseteq Nat \X Nat /\ nextId \in Nat /\ serial \in Nat
  /\ \A i \in 1 .. Len(items) : items[i].id < nextId
  /\ \A a \in shown : a[1] < nextId
  /\ NamesKept(items)

\* What the proofs use of a list of tasks.
LEMMA TaskFields ==
  ASSUME NEW list \in Seq(Task)
  PROVE  /\ Len(list) \in Nat /\ DOMAIN list = 1 .. Len(list)
         /\ \A i \in 1 .. Len(list) : list[i] \in Task /\ list[i].id \in Nat /\ list[i].serial \in Nat
<1>1. Len(list) \in Nat /\ DOMAIN list = 1 .. Len(list) /\ \A i \in 1 .. Len(list) : list[i] \in Task
  OBVIOUS
<1>2. \A t \in Task : t.id \in Nat /\ t.serial \in Nat
  BY DEF Task
<1>3. QED
  BY <1>1, <1>2

LEMMA MintedAbove ==
  ASSUME NEW list \in Seq(Task)
  PROVE  nextAbove(list) \in Nat /\ \A i \in 1 .. Len(list) : list[i].id < nextAbove(list)
<1> DEFINE f == [i \in 1 .. Len(list) |-> list[i].id]
           T == {0} \cup {list[i].id : i \in DOMAIN list}
<1>1. Len(list) \in Nat /\ DOMAIN list = 1 .. Len(list) /\ \A i \in 1 .. Len(list) : list[i].id \in Nat
  BY TaskFields
<1>2. f \in [1 .. Len(list) -> Nat]
  BY <1>1
<1>3. PICK u \in Nat : \A i \in 1 .. Len(list) : f[i] <= u
  BY <1>1, <1>2, NumbersAreBounded
<1>4. T \subseteq Nat /\ T # {} /\ \A t \in T : t <= u
  BY <1>1, <1>3
<1> HIDE DEF T
<1>5. Max(T) \in T /\ \A t \in T : t <= Max(T)
  BY <1>4, GreatestOfNats
<1>6. Max(T) \in Nat /\ nextAbove(list) = Max(T) + 1
  BY <1>4, <1>5 DEF nextAbove, T
<1>7. ASSUME NEW i \in 1 .. Len(list) PROVE list[i].id < nextAbove(list)
  <2>1. list[i].id \in T
    BY <1>1 DEF T
  <2>2. list[i].id \in Nat /\ list[i].id <= Max(T)
    BY <1>1, <1>5, <2>1
  <2>3. QED
    BY <1>6, <2>2
<1>8. QED
  BY <1>6, <1>7

LEMMA NamedPairs ==
  ASSUME NEW list \in Seq(Task)
  PROVE  /\ named(list) \subseteq Nat \X Nat
         /\ \A a \in named(list) : \E i \in 1 .. Len(list) : a = <<list[i].id, list[i].serial>>
<1>1. Len(list) \in Nat /\ DOMAIN list = 1 .. Len(list)
      /\ \A i \in 1 .. Len(list) : list[i].id \in Nat /\ list[i].serial \in Nat
  BY TaskFields
<1>2. QED
  BY <1>1 DEF named

\* A list and what the model reads of it, from the beginning.
LEMMA ShownAnew ==
  ASSUME NEW list \in Seq(Task), IdsApart(list), items' = list, kept' \in Seq(Task), IdsApart(kept'),
         shown' = named(list), nextId' = nextAbove(list), serial' \in Nat
  PROVE  TodoInv'
<1>1. /\ nextId' \in Nat /\ \A i \in 1 .. Len(list) : list[i].id < nextId'
  BY MintedAbove
<1>2. /\ shown' \subseteq Nat \X Nat
      /\ \A a \in shown' : \E i \in 1 .. Len(list) : a = <<list[i].id, list[i].serial>>
  BY NamedPairs
<1>3. \A a \in shown' : a[1] < nextId'
  BY <1>1, <1>2
<1>4. NamesKept(items)'
  BY <1>2 DEF NamesKept, IdsApart
<1>5. QED
  BY <1>1, <1>2, <1>3, <1>4 DEF TodoInv

LEMMA TodoInvInit == TodoInit => TodoInv
<1> SUFFICES ASSUME TodoInit PROVE TodoInv
  OBVIOUS
<1>1. items \in Seq(Task) /\ IdsApart(items)
  <2> DEFINE t == [id |-> 2, serial |-> 0, title |-> NotGiven, state |-> "pending"]
  <2>1. t \in Task
    BY DEF Task, TodoStates
  <2> HIDE DEF t
  <2>2. items = <<>> \/ items = <<t>>
    BY DEF TodoInit, initialLists, t
  <2>3. CASE items = <<>>
    BY <2>3 DEF IdsApart
  <2>4. CASE items = <<t>>
    <3>1. items \in Seq(Task) /\ Len(items) = 1
      BY <2>1, <2>4
    <3>2. QED
      BY <3>1 DEF IdsApart
  <2>5. QED
    BY <2>2, <2>3, <2>4
<1>2. nextId \in Nat /\ \A i \in 1 .. Len(items) : items[i].id < nextId
  BY <1>1, MintedAbove DEF TodoInit
<1>3. /\ shown \subseteq Nat \X Nat
      /\ \A a \in shown : \E i \in 1 .. Len(items) : a = <<items[i].id, items[i].serial>>
  BY <1>1, NamedPairs DEF TodoInit
<1>4. NamesKept(items) /\ \A a \in shown : a[1] < nextId
  BY <1>1, <1>2, <1>3 DEF NamesKept, IdsApart
<1>5. QED
  BY <1>1, <1>2, <1>3, <1>4 DEF TodoInit, TodoInv

\* A list that was written, whether the host kept it or not.
LEMMA WrittenList ==
  ASSUME TodoInv, NEW list \in Seq(Task), IdsApart(list), NamesKept(list), writeList(list),
         nextId' \in Nat, nextId <= nextId', serial' \in Nat, \A i \in 1 .. Len(list) : list[i].id < nextId'
  PROVE  TodoInv'
<1>1. items' = list /\ ((kept' = list /\ shown' = shown \cup named(list)) \/ UNCHANGED <<kept, shown>>)
  BY DEF writeList
<1>2. /\ shown \subseteq Nat \X Nat /\ nextId \in Nat /\ \A a \in shown : a[1] < nextId
      /\ kept \in Seq(Task) /\ IdsApart(kept)
  BY DEF TodoInv
<1>3. /\ named(list) \subseteq Nat \X Nat
      /\ \A a \in named(list) : \E i \in 1 .. Len(list) : a = <<list[i].id, list[i].serial>>
  BY NamedPairs
<1>4. shown' \subseteq Nat \X Nat /\ \A a \in shown' : a[1] < nextId'
  BY <1>1, <1>2, <1>3
<1>5. NamesKept(items)'
  <2>1. \A a \in named(list) : \A i \in 1 .. Len(list) : list[i].id = a[1] => list[i].serial = a[2]
    BY <1>3 DEF IdsApart
  <2>2. QED
    BY <1>1, <2>1 DEF NamesKept
<1>6. QED
  BY <1>1, <1>2, <1>4, <1>5 DEF TodoInv

LEMMA ResolvedIndex == ASSUME NEW id, TodoInv, resolves(id) PROVE indexOf(id) \in 1 .. Len(items)
<1>1. {i \in DOMAIN items : items[i].id = id} # {}
  BY FS_EmptySet DEF resolves
<1>2. indexOf(id) \in DOMAIN items
  BY <1>1 DEF indexOf
<1>3. QED
  BY <1>2 DEF TodoInv

\* A task that is changed keeps its id and what the id names.
LEMMA ChangedTask ==
  ASSUME TodoInv, NEW k \in 1 .. Len(items), NEW t \in Task, t.id = items[k].id, t.serial = items[k].serial,
         writeList([items EXCEPT ![k] = t]), UNCHANGED <<nextId, serial>>
  PROVE  TodoInv'
<1> DEFINE list == [items EXCEPT ![k] = t]
<1>1. /\ list \in Seq(Task) /\ Len(list) = Len(items)
      /\ \A i \in 1 .. Len(items) : list[i].id = items[i].id /\ list[i].serial = items[i].serial
  BY DEF TodoInv
<1> HIDE DEF list
<1>2. IdsApart(list) /\ NamesKept(list) /\ \A i \in 1 .. Len(list) : list[i].id < nextId'
  BY <1>1 DEF TodoInv, IdsApart, NamesKept
<1>3. nextId' \in Nat /\ nextId <= nextId' /\ serial' \in Nat
  BY DEF TodoInv
<1>4. QED
  BY <1>1, <1>2, <1>3, WrittenList DEF list

LEMMA TodoInvStep == TodoInv /\ [TodoNext]_todoVars => TodoInv'
<1> SUFFICES ASSUME TodoInv, [TodoNext]_todoVars PROVE TodoInv'
  OBVIOUS
<1>1. ASSUME UNCHANGED <<items, kept, shown, nextId, serial>> PROVE TodoInv'
  BY <1>1 DEF TodoInv, NamesKept
<1>2. CASE NewTodoTools
  BY <1>2, ShownAnew DEF NewTodoTools, TodoInv
<1>3. ASSUME NEW title \in Titles \cup {NotGiven, Blank, TooLong},
             NEW st \in TodoStates \cup {NotGiven, NoSuchState}, doAdd(title, st)
      PROVE  TodoInv'
  <2> DEFINE t    == [id |-> nextId, serial |-> serial + 1, title |-> title,
                      state |-> IF st = NotGiven THEN "pending" ELSE st]
             list == Append(items, t)
  <2>1. CASE usableTitle(title) /\ title # NotGiven /\ usableState(st) /\ Len(items) < MaxItems
    <3>1. nextId' = nextId + 1 /\ serial' = serial + 1 /\ writeList(list)
      BY <1>3, <2>1 DEF doAdd, mint, writeList
    <3>2. t \in Task
      <4>1. nextId \in Nat /\ serial + 1 \in Nat
        BY DEF TodoInv
      <4>2. title \in Titles \cup {NotGiven}
        BY <2>1 DEF usableTitle
      <4>3. (IF st = NotGiven THEN "pending" ELSE st) \in TodoStates
        BY <2>1 DEF usableState, TodoStates
      <4>4. QED
        BY <4>1, <4>2, <4>3 DEF Task
    <3>3. t.id = nextId
      OBVIOUS
    <3> HIDE DEF t
    <3>4. /\ list \in Seq(Task) /\ Len(list) = Len(items) + 1 /\ Len(items) \in Nat
          /\ list[Len(items) + 1] = t /\ \A i \in 1 .. Len(items) : list[i] = items[i]
      <4>1. items \in Seq(Task)
        BY DEF TodoInv
      <4>2. QED
        BY <3>2, <4>1
    <3> HIDE DEF list
    <3>5. nextId \in Nat /\ (\A i \in 1 .. Len(items) : items[i].id < nextId /\ items[i].id \in Nat)
          /\ \A a \in shown : a[1] < nextId /\ a[1] \in Nat
      BY TaskFields DEF TodoInv
    <3>6. IdsApart(list)
      <4>1. IdsApart(items)
        BY DEF TodoInv
      <4>2. ASSUME NEW i \in 1 .. Len(list), NEW j \in 1 .. Len(list), list[i].id = list[j].id PROVE i = j
        <5>1. CASE i <= Len(items) /\ j <= Len(items)
          BY <3>4, <4>1, <4>2, <5>1 DEF IdsApart
        <5>2. CASE i <= Len(items) /\ j = Len(items) + 1
          BY <3>3, <3>4, <3>5, <4>2, <5>2
        <5>3. CASE i = Len(items) + 1 /\ j <= Len(items)
          BY <3>3, <3>4, <3>5, <4>2, <5>3
        <5>4. QED
          BY <3>4, <5>1, <5>2, <5>3
      <4>3. QED
        BY <4>2 DEF IdsApart
    <3>7. NamesKept(list)
      <4>1. NamesKept(items)
        BY DEF TodoInv
      <4>2. ASSUME NEW a \in shown, NEW i \in 1 .. Len(list), list[i].id = a[1] PROVE list[i].serial = a[2]
        <5>1. CASE i <= Len(items)
          BY <3>4, <4>1, <4>2, <5>1 DEF NamesKept
        <5>2. CASE i = Len(items) + 1
          BY <3>3, <3>4, <3>5, <4>2, <5>2
        <5>3. QED
          BY <3>4, <5>1, <5>2
      <4>3. QED
        BY <4>2 DEF NamesKept
    <3>8. \A i \in 1 .. Len(list) : list[i].id < nextId'
      <4>1. ASSUME NEW i \in 1 .. Len(list) PROVE list[i].id < nextId + 1
        <5>1. CASE i <= Len(items)
          <6>1. list[i] = items[i] /\ items[i].id < nextId /\ items[i].id \in Nat
            BY <3>4, <3>5, <5>1
          <6>2. QED
            BY <3>5, <6>1
        <5>2. CASE i = Len(items) + 1
          BY <3>3, <3>4, <3>5, <5>2
        <5>3. QED
          BY <3>4, <5>1, <5>2
      <4>2. QED
        BY <3>1, <4>1
    <3>9. nextId' \in Nat /\ nextId <= nextId' /\ serial' \in Nat
      BY <3>1, <3>5 DEF TodoInv
    <3>10. QED
      BY <3>1, <3>4, <3>6, <3>7, <3>8, <3>9, WrittenList
  <2>2. CASE ~(usableTitle(title) /\ title # NotGiven /\ usableState(st) /\ Len(items) < MaxItems)
    BY <1>1, <1>3, <2>2 DEF doAdd, refuse
  <2>3. QED
    BY <2>1, <2>2
<1>4. ASSUME NEW title \in Titles \cup {NotGiven, Blank, TooLong},
             NEW st \in TodoStates \cup {NotGiven, NoSuchState}, NEW id \in Ids, doEdit(id, title, st)
      PROVE  TodoInv'
  <2>1. CASE refuse
    BY <1>1, <1>4, <2>1 DEF doEdit, refuse
  <2>2. CASE ~refuse
    <3> DEFINE k == indexOf(id)
               t == edited(items[k], title, st)
    <3>1. /\ resolves(id) /\ usableTitle(title) /\ usableState(st) /\ UNCHANGED <<nextId, serial>>
          /\ writeList([items EXCEPT ![k] = edited(@, title, st)])
      BY <1>4, <2>2 DEF doEdit
    <3>2. k \in 1 .. Len(items)
      BY <3>1, ResolvedIndex
    <3>3. items[k] \in Task
      BY <3>2 DEF TodoInv
    <3>4. t \in Task /\ t.id = items[k].id /\ t.serial = items[k].serial
      <4> HIDE DEF k
      <4>1. /\ title = NotGiven \/ title \in Titles \cup {NotGiven}
            /\ st = NotGiven \/ st \in TodoStates
        BY <3>1 DEF usableTitle, usableState
      <4>2. QED
        BY <3>3, <4>1 DEF edited, Task
    <3>5. writeList([items EXCEPT ![k] = t])
      <4> HIDE DEF k
      <4>1. QED
        BY <3>1, <3>2 DEF TodoInv
    <3> HIDE DEF k, t
    <3>6. QED
      BY <3>1, <3>2, <3>4, <3>5, ChangedTask
  <2>3. QED
    BY <2>1, <2>2
<1>5. ASSUME NEW id \in Ids, doCancel(id) PROVE TodoInv'
  <2>1. CASE ~resolves(id)
    BY <1>1, <1>5, <2>1 DEF doCancel, refuse
  <2>2. CASE resolves(id)
    <3> DEFINE k == indexOf(id)
               list == RemoveAt(items, k)
    <3>1. writeList(list) /\ UNCHANGED <<nextId, serial>> /\ k \in 1 .. Len(items) /\ items \in Seq(Task)
      BY <1>5, <2>2, ResolvedIndex DEF doCancel, TodoInv
    <3> HIDE DEF k
    <3>2. /\ list \in Seq(Task) /\ Len(list) = Len(items) - 1
          /\ \A i \in 1 .. Len(items) - 1 : list[i] = IF i < k THEN items[i] ELSE items[i + 1]
      BY <3>1, WithoutPosition
    <3> HIDE DEF list
    <3>3. ASSUME NEW i \in 1 .. Len(list), NEW j \in 1 .. Len(list), list[i].id = list[j].id PROVE i = j
      <4> DEFINE up(n) == IF n < k THEN n ELSE n + 1
      <4>1. list[i] = items[up(i)] /\ list[j] = items[up(j)] /\ up(i) \in 1 .. Len(items) /\ up(j) \in 1 .. Len(items)
        BY <3>1, <3>2
      <4>2. up(i) = up(j)
        BY <3>3, <4>1 DEF TodoInv, IdsApart
      <4>3. QED
        BY <3>1, <3>2, <4>2
    <3>4. \A i \in 1 .. Len(list) : \E j \in 1 .. Len(items) : list[i] = items[j]
      BY <3>1, <3>2
    <3>5. NamesKept(list)
      BY <3>4 DEF TodoInv, NamesKept
    <3>6. IdsApart(list)
      BY <3>3 DEF IdsApart
    <3>7. \A i \in 1 .. Len(list) : list[i].id < nextId'
      BY <3>1, <3>4 DEF TodoInv
    <3>8. nextId' \in Nat /\ nextId <= nextId' /\ serial' \in Nat
      BY <3>1 DEF TodoInv
    <3>9. QED
      BY <3>1, <3>2, <3>5, <3>6, <3>7, <3>8, WrittenList
  <2>3. QED
    BY <2>1, <2>2
<1>6. ASSUME NEW id \in Ids, doComplete(id) PROVE TodoInv'
  <2>1. CASE ~resolves(id)
    BY <1>1, <1>6, <2>1 DEF doComplete, refuse
  <2>2. CASE resolves(id)
    <3> DEFINE k == indexOf(id)
               t == [items[k] EXCEPT !.state = "done"]
    <3>1. writeList([items EXCEPT ![k].state = "done"]) /\ UNCHANGED <<nextId, serial>> /\ k \in 1 .. Len(items)
      BY <1>6, <2>2, ResolvedIndex DEF doComplete
    <3>2. t \in Task /\ t.id = items[k].id /\ t.serial = items[k].serial
      <4> HIDE DEF k
      <4>1. items[k] \in Task
        BY <3>1 DEF TodoInv
      <4>2. QED
        BY <4>1 DEF Task, TodoStates
    <3>3. writeList([items EXCEPT ![k] = t])
      BY <3>1
    <3> HIDE DEF k, t
    <3>4. QED
      BY <3>1, <3>2, <3>3, ChangedTask
  <2>3. QED
    BY <2>1, <2>2
<1>7. CASE TodoRests \/ UNCHANGED todoVars
  BY <1>1, <1>7 DEF TodoRests, todoVars
<1>8. QED
  BY <1>2, <1>3, <1>4, <1>5, <1>6, <1>7 DEF TodoNext

\* However long a list is worked on, and whatever the host refused to keep, an
\* id the model has read is never that of another task.
THEOREM IdsAreNotReused == TodoSpec => []IdNamesOneTask
<1>1. TodoInv => IdNamesOneTask
  BY DEF TodoInv, NamesKept, IdNamesOneTask
<1>2. QED
  BY <1>1, TodoInvInit, TodoInvStep, PTL DEF TodoSpec

(* The search index ********************************************************)

Conv       == [owner : Owners, texts : Seq(Nat), rev : Nat]
ConvRow    == [owner : Owners, rev : Nat]
SourceMaps == UNION {[S -> Conv] : S \in SUBSET Convs}
RowMaps    == UNION {[S -> ConvRow] : S \in SUBSET Convs}
Passes     == [at : {"idle", "read", "write", "sweep"}, listed : SourceMaps, stale : SUBSET Convs,
               gone : SUBSET Convs, conv : Convs \cup {0}, texts : Seq(Nat)]

SearchTypes ==
  /\ sourceChanges \in Nat /\ src \in SourceMaps /\ convRows \in RowMaps /\ ing \in Passes
  /\ ing.stale \subseteq DOMAIN ing.listed
  /\ ing.at = "write" => ing.conv \in DOMAIN ing.listed

\* A revision is given out once: nothing carries one the source has not reached.
RevisionsGiven ==
  /\ \A c \in DOMAIN src : src[c].rev <= sourceChanges
  /\ \A c \in DOMAIN ing.listed : ing.listed[c].rev <= sourceChanges
  /\ \A c \in DOMAIN convRows : convRows[c].rev <= sourceChanges

\* What a pass listed is the source's as long as the revision is; so is the
\* transcript it read afterwards.
PassIsCurrent ==
  \A c \in DOMAIN ing.listed \cap DOMAIN src : ing.listed[c].rev = src[c].rev =>
    /\ ing.listed[c].owner = src[c].owner
    /\ ing.at = "write" /\ ing.conv = c => ing.texts = src[c].texts

Equals(c) ==
  /\ convRows[c].owner = src[c].owner
  /\ {m \in DOMAIN msgRows : m[1] = c} = MessagesOf(c, src[c].texts)
  /\ \A m \in MessagesOf(c, src[c].texts) :
       msgRows[m] = [owner |-> src[c].owner, text |-> src[c].texts[m[2]]]
RowsAreCurrent ==
  \A c \in DOMAIN convRows \cap DOMAIN src : convRows[c].rev = src[c].rev => Equals(c)

SearchInv == SearchTypes /\ RevisionsGiven /\ PassIsCurrent /\ RowsAreCurrent

\* A table of entries of one kind, and what writing and removing entries does.
LEMMA IsTable ==
  ASSUME NEW K, NEW V, NEW f
  PROVE  f \in UNION {[S -> V] : S \in SUBSET K} <=> f \in [DOMAIN f -> V] /\ DOMAIN f \subseteq K
  OBVIOUS

LEMMA WrittenTable ==
  ASSUME NEW K, NEW V, NEW f, f \in UNION {[S -> V] : S \in SUBSET K}, NEW x \in K, NEW v \in V
  PROVE  Over(Entry(x, v), f) \in UNION {[S -> V] : S \in SUBSET K}
<1> DEFINE g == Over(Entry(x, v), f)
<1>1. g = [y \in {x} \cup DOMAIN f |-> IF y = x THEN v ELSE f[y]]
  BY DEF Over, Entry
<1> HIDE DEF g
<1>2. f \in [DOMAIN f -> V] /\ DOMAIN f \subseteq K
  BY IsTable
<1>3. g \in [DOMAIN g -> V] /\ DOMAIN g \subseteq K
  BY <1>1, <1>2
<1>4. QED
  BY <1>3, IsTable DEF g

LEMMA ReducedTable ==
  ASSUME NEW K, NEW V, NEW f, f \in UNION {[S -> V] : S \in SUBSET K}, NEW R
  PROVE  Without(f, R) \in UNION {[S -> V] : S \in SUBSET K}
<1> DEFINE g == Without(f, R)
<1>1. g = [y \in DOMAIN f \ R |-> f[y]]
  BY DEF Without
<1> HIDE DEF g
<1>2. f \in [DOMAIN f -> V] /\ DOMAIN f \subseteq K
  BY IsTable
<1>3. g \in [DOMAIN g -> V] /\ DOMAIN g \subseteq K
  BY <1>1, <1>2
<1>4. QED
  BY <1>3, IsTable DEF g

LEMMA NoPassIsPass ==
  /\ NoPass \in Passes /\ NoPass.at = "idle" /\ NoPass.stale = {} /\ NoPass.gone = {}
  /\ NoPass.listed = <<>> /\ DOMAIN NoPass.listed = {} /\ <<>> \in RowMaps /\ <<>> \in SourceMaps
<1>1. DOMAIN <<>> = {} /\ <<>> \in Seq(Nat)
  OBVIOUS
<1>2. <<>> \in [{} -> Conv] /\ <<>> \in [{} -> ConvRow]
  OBVIOUS
<1>3. <<>> \in SourceMaps /\ <<>> \in RowMaps
  BY <1>1, <1>2, IsTable DEF SourceMaps, RowMaps
<1>4. QED
  BY <1>1, <1>3 DEF NoPass, Passes

LEMMA SearchInvInit == SearchInit => SearchInv
<1> SUFFICES ASSUME SearchInit PROVE SearchInv
  OBVIOUS
<1>1. src = <<>> /\ convRows = <<>> /\ ing = NoPass /\ sourceChanges = 0 /\ DOMAIN <<>> = {}
  BY DEF SearchInit
<1>2. DOMAIN src = {} /\ DOMAIN convRows = {} /\ DOMAIN ing.listed = {}
  BY <1>1, NoPassIsPass
<1>3. SearchTypes
  BY <1>1, NoPassIsPass DEF SearchTypes
<1>4. RevisionsGiven /\ PassIsCurrent /\ RowsAreCurrent
  BY <1>2 DEF RevisionsGiven, PassIsCurrent, RowsAreCurrent
<1>5. QED
  BY <1>3, <1>4 DEF SearchInv

\* What the source says of a conversation the index has read is as it was read,
\* or newer.
LEMMA SourceMoves ==
  ASSUME SearchInv, NEW C, src' \in SourceMaps, sourceChanges' = sourceChanges + 1,
         UNCHANGED <<convRows, msgRows, ing>>,
         \A c \in DOMAIN src' \ C : c \in DOMAIN src /\ src'[c] = src[c],
         \A c \in DOMAIN src' \cap C : src'[c].rev = sourceChanges'
  PROVE  SearchInv'
<1>1. SearchTypes'
  BY DEF SearchInv, SearchTypes
<1>2. /\ sourceChanges \in Nat /\ src \in SourceMaps /\ convRows \in RowMaps /\ ing \in Passes
      /\ RevisionsGiven /\ PassIsCurrent /\ RowsAreCurrent
  BY DEF SearchInv, SearchTypes
<1>3. /\ \A c \in DOMAIN convRows : convRows[c].rev \in Nat
      /\ \A c \in DOMAIN src : src[c].rev \in Nat
      /\ \A c \in DOMAIN ing.listed : ing.listed[c].rev \in Nat
  <2>1. ing.listed \in SourceMaps
    BY <1>2 DEF Passes
  <2>2. \A f \in SourceMaps : \A c \in DOMAIN f : f[c] \in Conv
    BY IsTable DEF SourceMaps
  <2>3. \A f \in RowMaps : \A c \in DOMAIN f : f[c] \in ConvRow
    BY IsTable DEF RowMaps
  <2>4. (\A x \in Conv : x.rev \in Nat) /\ (\A x \in ConvRow : x.rev \in Nat)
    BY DEF Conv, ConvRow
  <2>5. QED
    BY <1>2, <2>1, <2>2, <2>3, <2>4
<1>4. RevisionsGiven'
  <2>1. \A c \in DOMAIN src' : src'[c].rev <= sourceChanges'
    BY <1>2, <1>3 DEF RevisionsGiven
  <2>2. \A c \in DOMAIN ing.listed : ing.listed[c].rev <= sourceChanges'
    BY <1>2, <1>3 DEF RevisionsGiven
  <2>3. \A c \in DOMAIN convRows : convRows[c].rev <= sourceChanges'
    BY <1>2, <1>3 DEF RevisionsGiven
  <2>4. QED
    BY <2>1, <2>2, <2>3 DEF RevisionsGiven
<1>5. PassIsCurrent'
  <2>1. ASSUME NEW c \in DOMAIN ing.listed \cap DOMAIN src', ing.listed[c].rev = src'[c].rev
        PROVE  c \in DOMAIN src /\ src'[c] = src[c]
    <3>1. ing.listed[c].rev <= sourceChanges /\ ing.listed[c].rev \in Nat
      BY <1>2, <1>3 DEF RevisionsGiven
    <3>2. c \notin C
      BY <1>2, <2>1, <3>1
    <3>3. QED
      BY <3>2
  <2>2. QED
    BY <1>2, <2>1 DEF PassIsCurrent
<1>6. RowsAreCurrent'
  <2>1. ASSUME NEW c \in DOMAIN convRows \cap DOMAIN src', convRows[c].rev = src'[c].rev
        PROVE  Equals(c)'
    <3>1. convRows[c].rev <= sourceChanges /\ convRows[c].rev \in Nat
      BY <1>2, <1>3 DEF RevisionsGiven
    <3>2. c \in DOMAIN src /\ src'[c] = src[c]
      BY <1>2, <2>1, <3>1
    <3>3. Equals(c)
      BY <1>2, <2>1, <3>2 DEF RowsAreCurrent
    <3>4. QED
      BY <3>2, <3>3 DEF Equals
  <2>2. QED
    BY <2>1 DEF RowsAreCurrent
<1>7. QED
  BY <1>1, <1>4, <1>5, <1>6 DEF SearchInv

LEMMA SourceChanged ==
  ASSUME SearchInv, NEW c \in Convs, NEW conv \in Conv, Change(c, conv)
  PROVE  SearchInv'
<1> DEFINE new == [conv EXCEPT !.rev = sourceChanges + 1]
<1>1. /\ sourceChanges' = sourceChanges + 1 /\ src' = Over(Entry(c, new), src)
      /\ UNCHANGED <<convRows, msgRows, ing>>
  BY DEF Change, tables
<1>2. sourceChanges \in Nat /\ src \in SourceMaps
  BY DEF SearchInv, SearchTypes
<1>3. new \in Conv /\ new.rev = sourceChanges + 1
  BY <1>2 DEF Conv
<1> HIDE DEF new
<1>4. /\ DOMAIN src' = {c} \cup DOMAIN src /\ src'[c] = new
      /\ \A d \in DOMAIN src : d # c => src'[d] = src[d]
  BY <1>1 DEF Over, Entry
<1>5. src' \in SourceMaps
  BY <1>1, <1>2, <1>3, WrittenTable DEF SourceMaps
<1>6. /\ \A d \in DOMAIN src' \ {c} : d \in DOMAIN src /\ src'[d] = src[d]
      /\ \A d \in DOMAIN src' \cap {c} : src'[d].rev = sourceChanges'
  BY <1>1, <1>3, <1>4
<1>7. QED
  BY <1>1, <1>5, <1>6, SourceMoves

LEMMA HostKeepsCurrent == ASSUME SearchInv, Host PROVE SearchInv'
<1>1. src \in SourceMaps /\ DOMAIN src \subseteq Convs /\ \A c \in DOMAIN src : src[c] \in Conv
  BY IsTable DEF SearchInv, SearchTypes, SourceMaps
<1>2. CASE HostAppends
  <2>1. PICK c \in Convs, o \in Owners :
          IF c \in DOMAIN src
          THEN o = src[c].owner /\ Change(c, [src[c] EXCEPT !.texts = Append(@, sourceChanges')])
          ELSE /\ c \notin retired
               /\ Change(c, [owner |-> o, texts |-> <<sourceChanges'>>, rev |-> 0])
    BY <1>2 DEF HostAppends
  <2>2. sourceChanges' \in Nat
    BY <2>1 DEF Change, SearchInv, SearchTypes
  <2>3. CASE c \in DOMAIN src
    <3> DEFINE conv == [src[c] EXCEPT !.texts = Append(@, sourceChanges')]
    <3>1. conv \in Conv
      <4>1. Append(src[c].texts, sourceChanges') \in Seq(Nat)
        BY <1>1, <2>2, <2>3 DEF Conv
      <4>2. QED
        BY <1>1, <2>3, <4>1 DEF Conv
    <3>2. Change(c, conv)
      BY <2>1, <2>3
    <3> HIDE DEF conv
    <3>3. QED
      BY <3>1, <3>2, SourceChanged
  <2>4. CASE c \notin DOMAIN src
    <3> DEFINE conv == [owner |-> o, texts |-> <<sourceChanges'>>, rev |-> 0]
    <3>1. conv \in Conv
      BY <2>2 DEF Conv
    <3>2. Change(c, conv)
      BY <2>1, <2>4
    <3> HIDE DEF conv
    <3>3. QED
      BY <3>1, <3>2, SourceChanged
  <2>5. QED
    BY <2>3, <2>4
<1>3. CASE HostTransfers
  <2>1. PICK c \in DOMAIN src, o \in Owners : Change(c, [src[c] EXCEPT !.owner = o])
    BY <1>3 DEF HostTransfers
  <2> DEFINE conv == [src[c] EXCEPT !.owner = o]
  <2>2. conv \in Conv /\ c \in Convs
    BY <1>1, <2>1 DEF Conv
  <2>3. Change(c, conv)
    BY <2>1
  <2> HIDE DEF conv
  <2>4. QED
    BY <2>2, <2>3, SourceChanged
<1>4. CASE HostDeletes
  <2>1. PICK c \in DOMAIN src : src' = Without(src, {c})
    BY <1>4 DEF HostDeletes
  <2>2. sourceChanges' = sourceChanges + 1 /\ UNCHANGED <<convRows, msgRows, ing>>
    BY <1>4 DEF HostDeletes, tables
  <2>3. src' \in SourceMaps
    BY <1>1, <2>1, ReducedTable DEF SourceMaps
  <2>4. DOMAIN src' = DOMAIN src \ {c} /\ \A d \in DOMAIN src' : src'[d] = src[d]
    BY <2>1 DEF Without
  <2>5. /\ \A d \in DOMAIN src' \ {} : d \in DOMAIN src /\ src'[d] = src[d]
        /\ \A d \in DOMAIN src' \cap {} : src'[d].rev = sourceChanges'
    BY <2>4
  <2>6. QED
    BY <2>2, <2>3, <2>5, SourceMoves
<1>5. QED
  BY <1>2, <1>3, <1>4 DEF Host

\* A pass that goes on with what it listed, or gives up, says nothing new.
LEMMA PassGoesOn ==
  ASSUME SearchInv, ing' \in Passes, UNCHANGED <<src, sourceChanges, convRows, msgRows>>,
         ing'.listed \in {ing.listed, src, <<>>}, ing'.stale \subseteq DOMAIN ing'.listed,
         ing'.at = "write" => /\ ing'.listed = ing.listed /\ ing'.conv \in DOMAIN ing.listed
                              /\ ing'.conv \in DOMAIN src => ing'.texts = src[ing'.conv].texts
  PROVE  SearchInv'
<1>1. SearchTypes'
  BY DEF SearchInv, SearchTypes
<1>2. RevisionsGiven' /\ PassIsCurrent'
  <2>1. RevisionsGiven /\ PassIsCurrent
    BY DEF SearchInv
  <2>2. CASE ing'.listed = ing.listed
    <3>1. RevisionsGiven'
      BY <2>1, <2>2 DEF RevisionsGiven
    <3>2. ASSUME NEW c \in DOMAIN ing.listed \cap DOMAIN src, ing.listed[c].rev = src[c].rev
          PROVE  /\ ing.listed[c].owner = src[c].owner
                 /\ ing'.at = "write" /\ ing'.conv = c => ing'.texts = src[c].texts
      BY <2>1, <3>2 DEF PassIsCurrent
    <3>3. QED
      BY <2>2, <3>1, <3>2 DEF PassIsCurrent
  <2>3. CASE ing'.listed = src /\ ing'.at # "write"
    BY <2>1, <2>3 DEF RevisionsGiven, PassIsCurrent
  <2>4. CASE ing'.listed = <<>>
    <3>1. DOMAIN ing'.listed = {}
      BY <2>4
    <3>2. QED
      BY <2>1, <3>1 DEF RevisionsGiven, PassIsCurrent
  <2>5. QED
    BY <2>2, <2>3, <2>4
<1>3. RowsAreCurrent'
  BY DEF SearchInv, RowsAreCurrent, Equals
<1>4. QED
  BY <1>1, <1>2, <1>3 DEF SearchInv

LEMMA PassFields ==
  ASSUME SearchInv
  PROVE  /\ ing \in Passes /\ ing.listed \in SourceMaps /\ ing.stale \subseteq DOMAIN ing.listed
         /\ ing.at = "write" => ing.conv \in DOMAIN ing.listed /\ ing.texts \in Seq(Nat)
         /\ src \in SourceMaps /\ DOMAIN src \subseteq Convs /\ \A c \in DOMAIN src : src[c] \in Conv
         /\ DOMAIN ing.listed \subseteq Convs /\ \A c \in DOMAIN ing.listed : ing.listed[c] \in Conv
         /\ convRows \in RowMaps /\ DOMAIN convRows \subseteq Convs
<1>1. /\ ing \in Passes /\ ing.stale \subseteq DOMAIN ing.listed /\ (ing.at = "write" => ing.conv \in DOMAIN ing.listed)
      /\ src \in SourceMaps /\ convRows \in RowMaps
  BY DEF SearchInv, SearchTypes
<1>2. ing.listed \in SourceMaps /\ ing.texts \in Seq(Nat)
  BY <1>1 DEF Passes
<1>3. \A f \in SourceMaps : DOMAIN f \subseteq Convs /\ \A c \in DOMAIN f : f[c] \in Conv
  BY IsTable DEF SourceMaps
<1>4. DOMAIN convRows \subseteq Convs
  BY <1>1, IsTable DEF RowMaps
<1>5. QED
  BY <1>1, <1>2, <1>3, <1>4

LEMMA PassStartsCurrent == ASSUME SearchInv, IngestStart PROVE SearchInv'
<1> DEFINE known == {c \in DOMAIN convRows : c \in DOMAIN src /\ convRows[c].rev = src[c].rev}
<1>1. /\ ing' = [NoPass EXCEPT !.at = "read", !.listed = src, !.stale = DOMAIN src \ known,
                              !.gone = DOMAIN convRows \ DOMAIN src]
      /\ UNCHANGED <<src, sourceChanges, convRows, msgRows>>
  BY DEF IngestStart, source, tables
<1>2. /\ ing'.at = "read" /\ ing'.listed = src /\ ing'.stale \subseteq DOMAIN src
      /\ ing' \in Passes
  <2>1. /\ NoPass \in Passes /\ src \in SourceMaps /\ DOMAIN src \ known \in SUBSET Convs
        /\ DOMAIN convRows \ DOMAIN src \in SUBSET Convs
    BY PassFields, NoPassIsPass
  <2> HIDE DEF known
  <2>2. /\ ing'.at = "read" /\ ing'.listed = src /\ ing'.stale = DOMAIN src \ known /\ ing' \in Passes
    BY <1>1, <2>1 DEF Passes
  <2>3. QED
    BY <2>2
<1>3. QED
  BY <1>1, <1>2, PassGoesOn

LEMMA PassReadsCurrent == ASSUME SearchInv, IngestRead PROVE SearchInv'
<1>1. PICK c \in ing.stale :
        ing' = IF c \in DOMAIN src
               THEN [ing EXCEPT !.at = "write", !.conv = c, !.texts = src[c].texts]
               ELSE NoPass
  BY DEF IngestRead
<1>2. UNCHANGED <<src, sourceChanges, convRows, msgRows>>
  BY DEF IngestRead, source, tables
<1>3. CASE c \in DOMAIN src
  <2>1. c \in Convs /\ src[c].texts \in Seq(Nat) /\ ing \in Passes /\ ing.stale \subseteq DOMAIN ing.listed
    BY <1>3, PassFields DEF Conv
  <2>2. /\ ing' \in Passes /\ ing'.at = "write" /\ ing'.conv = c /\ ing'.texts = src[c].texts
        /\ ing'.listed = ing.listed /\ ing'.stale = ing.stale
    BY <1>1, <1>3, <2>1 DEF Passes
  <2>3. QED
    BY <1>2, <2>1, <2>2, PassGoesOn
<1>4. CASE c \notin DOMAIN src
  BY <1>1, <1>2, <1>4, NoPassIsPass, PassGoesOn
<1>5. QED
  BY <1>3, <1>4

LEMMA ReindexKeepsCurrent == ASSUME SearchInv, Reindex PROVE SearchInv'
<1> DEFINE c    == ing.conv
           old  == {m \in DOMAIN msgRows : m[1] = c}
           row  == [owner |-> ing.listed[c].owner, rev |-> ing.listed[c].rev]
           rows == [m \in MessagesOf(c, ing.texts) |-> [owner |-> ing.listed[c].owner, text |-> ing.texts[m[2]]]]
<1>1. /\ ing.at = "write" /\ msgRows' = Over(rows, Without(msgRows, old)) /\ convRows' = Over(Entry(c, row), convRows)
      /\ ing' = [ing EXCEPT !.at = "read", !.stale = @ \ {c}]
      /\ UNCHANGED <<src, sourceChanges>>
  BY DEF Reindex, source
<1>2. /\ ing \in Passes /\ ing.stale \subseteq DOMAIN ing.listed /\ c \in DOMAIN ing.listed
      /\ c \in Convs /\ ing.listed[c] \in Conv /\ convRows \in RowMaps /\ src \in SourceMaps
  BY <1>1, PassFields
<1>3. /\ RevisionsGiven /\ PassIsCurrent /\ RowsAreCurrent /\ sourceChanges \in Nat
  BY DEF SearchInv, SearchTypes
<1>4. row \in ConvRow /\ row.rev = ing.listed[c].rev /\ row.owner = ing.listed[c].owner
  BY <1>2 DEF Conv, ConvRow
<1>5. /\ DOMAIN convRows' = {c} \cup DOMAIN convRows /\ convRows'[c] = row
      /\ \A d \in DOMAIN convRows : d # c => convRows'[d] = convRows[d]
  <2> HIDE DEF c, row
  <2>1. QED
    BY <1>1 DEF Over, Entry
<1>6. /\ DOMAIN msgRows' = MessagesOf(c, ing.texts) \cup (DOMAIN msgRows \ old)
      /\ \A m \in MessagesOf(c, ing.texts) :
           msgRows'[m] = [owner |-> ing.listed[c].owner, text |-> ing.texts[m[2]]]
      /\ \A m \in DOMAIN msgRows \ old : m \notin MessagesOf(c, ing.texts) => msgRows'[m] = msgRows[m]
  <2> HIDE DEF old
  <2>1. Without(msgRows, old) = [m \in DOMAIN msgRows \ old |-> msgRows[m]]
    BY DEF Without
  <2>2. msgRows' = [m \in DOMAIN rows \cup DOMAIN Without(msgRows, old) |->
                      IF m \in DOMAIN rows THEN rows[m] ELSE Without(msgRows, old)[m]]
    BY <1>1 DEF Over
  <2>3. DOMAIN rows = MessagesOf(c, ing.texts)
    OBVIOUS
  <2>4. \A m \in MessagesOf(c, ing.texts) : rows[m] = [owner |-> ing.listed[c].owner, text |-> ing.texts[m[2]]]
    OBVIOUS
  <2> HIDE DEF rows
  <2>5. QED
    BY <2>1, <2>2, <2>3, <2>4
<1>7. /\ ing' \in Passes /\ ing'.at = "read" /\ ing'.listed = ing.listed /\ ing'.stale = ing.stale \ {c}
  BY <1>1, <1>2 DEF Passes
<1> HIDE DEF c, rows, row
<1>8. SearchTypes'
  <2>1. convRows' \in RowMaps
    BY <1>1, <1>2, <1>4, WrittenTable DEF RowMaps
  <2>2. QED
    BY <1>1, <1>2, <1>3, <1>7, <2>1 DEF SearchTypes
<1>9. RevisionsGiven'
  BY <1>1, <1>2, <1>3, <1>4, <1>5, <1>7 DEF RevisionsGiven
<1>10. PassIsCurrent'
  BY <1>1, <1>3, <1>7 DEF PassIsCurrent
<1>11. RowsAreCurrent'
  <2>1. ASSUME NEW d \in DOMAIN convRows' \cap DOMAIN src, convRows'[d].rev = src[d].rev
        PROVE  Equals(d)'
    <3>1. CASE d = c
      <4>1. ing.listed[c].rev = src[c].rev /\ c \in DOMAIN ing.listed \cap DOMAIN src
        BY <1>2, <1>4, <1>5, <2>1, <3>1
      <4>2. ing.listed[c].owner = src[c].owner /\ ing.texts = src[c].texts
        BY <1>1, <1>3, <4>1 DEF PassIsCurrent, c
      <4>3. convRows'[c].owner = src[c].owner
        BY <1>4, <1>5, <4>2
      <4>4. \A m \in MessagesOf(c, ing.texts) : m[1] = c
        BY DEF MessagesOf
      <4>5. {m \in DOMAIN msgRows' : m[1] = c} = MessagesOf(c, src[c].texts)
        BY <1>6, <4>2, <4>4
      <4>6. \A m \in MessagesOf(c, src[c].texts) : msgRows'[m] = [owner |-> src[c].owner, text |-> src[c].texts[m[2]]]
        BY <1>6, <4>2
      <4>7. QED
        BY <1>1, <3>1, <4>3, <4>5, <4>6 DEF Equals
    <3>2. CASE d # c
      <4>1. d \in DOMAIN convRows /\ convRows'[d] = convRows[d]
        BY <1>5, <2>1, <3>2
      <4>2. Equals(d)
        BY <1>3, <2>1, <4>1 DEF RowsAreCurrent
      <4>3. \A m \in MessagesOf(c, ing.texts) : m[1] = c
        BY DEF MessagesOf
      <4>4. \A m \in MessagesOf(d, src[d].texts) : m[1] = d
        BY DEF MessagesOf
      <4>5. {m \in DOMAIN msgRows' : m[1] = d} = {m \in DOMAIN msgRows : m[1] = d}
        BY <1>6, <3>2, <4>3
      <4>6. \A m \in DOMAIN msgRows : m[1] = d => msgRows'[m] = msgRows[m]
        BY <1>6, <3>2, <4>3
      <4>7. {m \in DOMAIN msgRows : m[1] = d} = MessagesOf(d, src[d].texts)
        BY <4>2 DEF Equals
      <4>8. \A m \in MessagesOf(d, src[d].texts) : msgRows'[m] = [owner |-> src[d].owner, text |-> src[d].texts[m[2]]]
        BY <4>2, <4>4, <4>6, <4>7 DEF Equals
      <4>9. convRows'[d].owner = src[d].owner
        BY <4>1, <4>2 DEF Equals
      <4>10. QED
        BY <1>1, <4>5, <4>7, <4>8, <4>9 DEF Equals
    <3>3. QED
      BY <3>1, <3>2
  <2>2. QED
    BY <1>1, <2>1 DEF RowsAreCurrent
<1>12. QED
  BY <1>8, <1>9, <1>10, <1>11 DEF SearchInv

LEMMA ForgetKeepsCurrent == ASSUME SearchInv, Forget PROVE SearchInv'
<1>1. PICK c \in ing.gone :
        LET mine == {m \in DOMAIN msgRows : m[1] = c} IN
        /\ msgRows' = Without(msgRows, mine) /\ convRows' = Without(convRows, {c})
        /\ ing' = [ing EXCEPT !.gone = @ \ {c}]
  BY DEF Forget
<1> DEFINE mine == {m \in DOMAIN msgRows : m[1] = c}
<1>2. UNCHANGED <<src, sourceChanges>> /\ ing.at = "read"
  BY DEF Forget, source
<1>3. /\ RevisionsGiven /\ PassIsCurrent /\ RowsAreCurrent /\ SearchTypes
      /\ ing \in Passes /\ convRows \in RowMaps
  BY DEF SearchInv, SearchTypes
<1>4. DOMAIN convRows' = DOMAIN convRows \ {c} /\ \A d \in DOMAIN convRows' : convRows'[d] = convRows[d]
  BY <1>1 DEF Without
<1>5. DOMAIN msgRows' = DOMAIN msgRows \ mine /\ \A m \in DOMAIN msgRows' : msgRows'[m] = msgRows[m]
  <2> HIDE DEF mine
  <2>1. msgRows' = Without(msgRows, mine)
    BY <1>1 DEF mine
  <2>2. QED
    BY <2>1 DEF Without
<1>6. /\ ing' \in Passes /\ ing'.at = "read" /\ ing'.listed = ing.listed /\ ing'.stale = ing.stale
  BY <1>1, <1>2, <1>3 DEF Passes
<1>7. SearchTypes'
  <2>1. convRows' \in RowMaps
    BY <1>1, <1>3, ReducedTable DEF RowMaps
  <2>2. QED
    BY <1>2, <1>3, <1>6, <2>1 DEF SearchTypes
<1>8. RevisionsGiven' /\ PassIsCurrent'
  BY <1>2, <1>3, <1>4, <1>6 DEF RevisionsGiven, PassIsCurrent
<1>9. RowsAreCurrent'
  <2>1. ASSUME NEW d \in DOMAIN convRows' \cap DOMAIN src, convRows'[d].rev = src[d].rev
        PROVE  Equals(d)'
    <3>1. d # c /\ convRows'[d] = convRows[d] /\ Equals(d)
      BY <1>3, <1>4, <2>1 DEF RowsAreCurrent
    <3>2. \A m \in MessagesOf(d, src[d].texts) : m[1] = d
      BY DEF MessagesOf
    <3>3. {m \in DOMAIN msgRows' : m[1] = d} = {m \in DOMAIN msgRows : m[1] = d}
      BY <1>5, <3>1
    <3>4. \A m \in DOMAIN msgRows : m[1] = d => msgRows'[m] = msgRows[m]
      BY <1>5, <3>1
    <3>5. QED
      BY <1>2, <3>1, <3>2, <3>3, <3>4 DEF Equals
  <2>2. QED
    BY <1>2, <2>1 DEF RowsAreCurrent
<1>10. QED
  BY <1>7, <1>8, <1>9 DEF SearchInv

LEMMA ReopenKeepsCurrent == ASSUME SearchInv, Reopen PROVE SearchInv'
<1>1. ing' = NoPass /\ UNCHANGED <<src, sourceChanges>>
  BY DEF Reopen, source
<1>2. CASE UNCHANGED <<convRows, msgRows>>
  BY <1>1, <1>2, NoPassIsPass, PassGoesOn
<1>3. CASE convRows' = <<>>
  <2>1. DOMAIN convRows' = {} /\ DOMAIN ing'.listed = {}
    BY <1>1, <1>3, NoPassIsPass
  <2>2. SearchTypes'
    BY <1>1, <1>3, NoPassIsPass DEF SearchInv, SearchTypes
  <2>3. RevisionsGiven' /\ PassIsCurrent' /\ RowsAreCurrent'
    BY <1>1, <2>1 DEF SearchInv, RevisionsGiven, PassIsCurrent, RowsAreCurrent
  <2>4. QED
    BY <2>2, <2>3 DEF SearchInv
<1>4. QED
  BY <1>2, <1>3 DEF Reopen, tables

LEMMA SearchInvStep == SearchInv /\ [SearchNext]_searchVars => SearchInv'
<1> SUFFICES ASSUME SearchInv, [SearchNext]_searchVars PROVE SearchInv'
  OBVIOUS
<1>1. ASSUME UNCHANGED <<src, sourceChanges, convRows, msgRows, ing>> PROVE SearchInv'
  <2>1. SearchTypes' /\ RevisionsGiven' /\ PassIsCurrent'
    BY <1>1 DEF SearchInv, SearchTypes, RevisionsGiven, PassIsCurrent
  <2>2. RowsAreCurrent'
    BY <1>1 DEF SearchInv, RowsAreCurrent, Equals
  <2>3. QED
    BY <2>1, <2>2 DEF SearchInv
<1>2. CASE Ingest
  <2>1. CASE DropOrphanedVectors
    <3>1. ing' = [ing EXCEPT !.at = "sweep"] /\ UNCHANGED <<src, sourceChanges, convRows, msgRows>>
      BY <2>1 DEF DropOrphanedVectors, source
    <3>2. ing \in Passes /\ ing.stale \subseteq DOMAIN ing.listed
      BY PassFields
    <3>3. ing' \in Passes /\ ing'.at = "sweep" /\ ing'.listed = ing.listed /\ ing'.stale = ing.stale
      BY <3>1, <3>2 DEF Passes
    <3>4. QED
      BY <3>1, <3>2, <3>3, PassGoesOn
  <2>2. CASE DropOrphanedStatus
    <3>1. ing' = NoPass /\ UNCHANGED <<src, sourceChanges, convRows, msgRows>>
      BY <2>2 DEF DropOrphanedStatus, source
    <3>2. QED
      BY <3>1, NoPassIsPass, PassGoesOn
  <2>3. QED
    BY <1>2, <2>1, <2>2, PassStartsCurrent, PassReadsCurrent, ReindexKeepsCurrent, ForgetKeepsCurrent DEF Ingest
<1>3. CASE EmbedStep
  BY <1>1, <1>3 DEF EmbedStep, PendingForModel, FillBatch, StoreBatch, source, tables
<1>4. CASE Endpoint
  BY <1>1, <1>4 DEF Endpoint, EndpointAnswers, EndpointFails, source, tables
<1>5. CASE Search
  BY <1>1, <1>5 DEF Search, SearchText, SearchSemantic, QueryFails, Hydrate, source, tables
<1>6. CASE DropModel
  BY <1>1, <1>6 DEF DropModel, source
<1>7. CASE UNCHANGED searchVars
  BY <1>1, <1>7 DEF searchVars
<1>8. QED
  BY <1>2, <1>3, <1>4, <1>5, <1>6, <1>7, HostKeepsCurrent, ReopenKeepsCurrent DEF SearchNext

\* A conversation whose revision the index has is in the index as the source
\* has it, however a pass, the host's changes and a rebuild fell together.
THEOREM CurrentRowsAreTheSource == SearchSpec => []CurrentMeansEqual
<1>1. SearchInv => CurrentMeansEqual
  <2> SUFFICES ASSUME SearchInv, NEW o \in Owners,
                      NEW c \in {d \in DOMAIN src : src[d].owner = o} \ StaleConversations(o)
               PROVE  /\ convRows[c].owner = o
                      /\ {m \in DOMAIN msgRows : m[1] = c} = MessagesOf(c, src[c].texts)
                      /\ \A m \in MessagesOf(c, src[c].texts) :
                           msgRows[m] = [owner |-> src[c].owner, text |-> src[c].texts[m[2]]]
    BY DEF CurrentMeansEqual
  <2>1. c \in DOMAIN src /\ src[c].owner = o /\ c \in DOMAIN convRows /\ convRows[c].rev = src[c].rev
    BY DEF StaleConversations
  <2>2. Equals(c)
    BY <2>1 DEF SearchInv, RowsAreCurrent
  <2>3. QED
    BY <2>1, <2>2 DEF Equals
<1>2. QED
  BY <1>1, SearchInvInit, SearchInvStep, PTL DEF SearchSpec

StrictOrder(S, prior) ==
  /\ \A x \in S : <<x, x>> \notin prior
  /\ \A x, y \in S : x # y => <<x, y>> \in prior \/ <<y, x>> \in prior
  /\ \A x, y, z \in S : <<x, y>> \in prior /\ <<y, z>> \in prior => <<x, z>> \in prior

\* A finite set in a total order, sorted, has each member once.
LEMMA SortedListsAll ==
  ASSUME NEW S, IsFiniteSet(S), NEW prior, StrictOrder(S, prior)
  PROVE  /\ Sorted(S, prior) \in Seq(S) /\ Len(Sorted(S, prior)) = Cardinality(S)
         /\ Cardinality(S) \in Nat
         /\ \A i, j \in 1 .. Cardinality(S) : Sorted(S, prior)[i] = Sorted(S, prior)[j] => i = j
<1> DEFINE under(x) == {y \in S : <<y, x>> \in prior}
           rank(x)  == Cardinality(under(x))
           n        == Cardinality(S)
           f        == [x \in S |-> rank(x) + 1]
           s        == Sorted(S, prior)
<1>1. n \in Nat
  BY FS_CardinalityType
<1>2. ASSUME NEW x \in S PROVE IsFiniteSet(under(x)) /\ rank(x) \in 0 .. (n - 1)
  <2>1. under(x) \in SUBSET S /\ x \notin under(x)
    BY DEF StrictOrder
  <2>2. under(x) # S
    BY <2>1
  <2> HIDE DEF under
  <2>3. IsFiniteSet(under(x)) /\ rank(x) <= n /\ rank(x) # n
    BY <2>1, <2>2, FS_Subset
  <2>4. rank(x) \in Nat
    BY <2>3, FS_CardinalityType
  <2>5. QED
    BY <1>1, <2>3, <2>4
<1>3. ASSUME NEW x \in S, NEW y \in S, <<x, y>> \in prior PROVE rank(x) < rank(y)
  <2>1. under(x) \in SUBSET under(y) /\ x \in under(y) /\ x \notin under(x)
    BY <1>3 DEF StrictOrder
  <2>2. IsFiniteSet(under(y)) /\ rank(x) \in Nat /\ rank(y) \in Nat
    BY <1>1, <1>2
  <2> HIDE DEF under
  <2>3. rank(x) <= rank(y) /\ rank(x) # rank(y)
    BY <2>1, <2>2, FS_Subset
  <2>4. QED
    BY <2>2, <2>3
<1>4. \A x \in S : rank(x) \in 0 .. (n - 1)
  BY <1>2
<1>5. \A x, y \in S : rank(x) = rank(y) => x = y
  <2> SUFFICES ASSUME NEW x \in S, NEW y \in S, x # y PROVE rank(x) # rank(y)
    OBVIOUS
  <2>1. <<x, y>> \in prior \/ <<y, x>> \in prior
    BY DEF StrictOrder
  <2>2. rank(x) < rank(y) \/ rank(y) < rank(x)
    BY <1>3, <2>1
  <2>3. rank(x) \in Int /\ rank(y) \in Int
    BY <1>1, <1>4
  <2> HIDE DEF rank
  <2>4. QED
    BY <2>2, <2>3
<1> HIDE DEF rank
<1>6. f \in Injection(S, 1 .. n)
  <2>1. f \in [S -> 1 .. n]
    BY <1>1, <1>4
  <2>2. \A x, y \in S : f[x] = f[y] => x = y
    BY <1>1, <1>4, <1>5
  <2>3. QED
    BY <2>1, <2>2, Zenon DEF Injection, IsInjective
<1>7. f \in Surjection(S, 1 .. n)
  <2>1. IsFiniteSet(1 .. n) /\ Cardinality(1 .. n) = n
    BY <1>1, FS_Interval
  <2> HIDE DEF f
  <2>2. QED
    BY <1>6, <2>1, FS_Injection
<1>8. \A k \in 1 .. n : \E x \in S : rank(x) = k - 1
  <2>1. \A k \in 1 .. n : \E x \in S : f[x] = k
    BY <1>7 DEF Surjection
  <2>2. QED
    BY <1>1, <1>4, <2>1
<1>9. s = [k \in 1 .. n |-> CHOOSE x \in S : rank(x) = k - 1]
  BY DEF Sorted, rank
<1> HIDE DEF s, n
<1>10. \A k \in 1 .. n : s[k] \in S /\ rank(s[k]) = k - 1
  BY <1>8, <1>9
<1>11. s \in Seq(S) /\ Len(s) = n
  BY <1>1, <1>9, <1>10
<1>12. \A i, j \in 1 .. n : s[i] = s[j] => i = j
  BY <1>1, <1>10
<1>13. QED
  BY <1>1, <1>11, <1>12 DEF s, n

\* The beginning of a list whose members are apart.
EachOnce(s) == \A i, j \in 1 .. Len(s) : s[i] = s[j] => i = j

LEMMA BeginningIsApart ==
  ASSUME NEW S, NEW s \in Seq(S), EachOnce(s), NEW n \in Nat
  PROVE  /\ AtMost(n, s) \in Seq(S) /\ Len(AtMost(n, s)) <= n /\ EachOnce(AtMost(n, s))
         /\ \A i \in 1 .. Len(AtMost(n, s)) : AtMost(n, s)[i] \in S
<1> DEFINE m == IF Len(s) < n THEN Len(s) ELSE n
           t == AtMost(n, s)
<1>1. m \in 0 .. Len(s) /\ m <= n
  OBVIOUS
<1>2. t = SubSeq(s, 1, m)
  BY DEF AtMost
<1> HIDE DEF m, t
<1>3. t \in Seq(S) /\ Len(t) = m /\ \A i \in 1 .. m : t[i] = s[i] /\ i \in 1 .. Len(s)
  BY <1>1, <1>2
<1>4. QED
  BY <1>1, <1>3 DEF t, EachOnce

Msgs == Convs \X (Nat \ {0})

\* What a batch of messages asks for, place by place.
place(s, i, sofar) == sofar \o ChunksOf(s[i].text)
Places(s, first, f, k) == f = [i \in 0 .. k |-> IF i = 0 THEN first ELSE place(s, i, f[i - 1])]

\* There is a function that goes through a list place by place.
LEMMA PlaceByPlace ==
  ASSUME NEW s, NEW first, NEW n \in Nat
  PROVE  \E f : Places(s, first, f, n)
<1> DEFINE T == {k \in 0 .. n : ~\E f : Places(s, first, f, k)}
<1>1. CASE T = {}
  <2>1. n \notin T /\ n \in 0 .. n
    BY <1>1
  <2>2. QED
    BY <2>1
<1>2. CASE T # {}
  <2>1. T \subseteq Nat /\ \A k \in T : k \in 0 .. n /\ ~\E f : Places(s, first, f, k)
    OBVIOUS
  <2>2. \A k \in 0 .. n : k \notin T => \E f : Places(s, first, f, k)
    OBVIOUS
  <2> HIDE DEF T
  <2>3. PICK k \in T : \A j \in T : k <= j
    BY <1>2, <2>1, LeastOfNats
  <2>4. CASE k = 0
    <3> DEFINE g == [i \in 0 .. 0 |-> first]
    <3>1. g = [i \in 0 .. 0 |-> IF i = 0 THEN first ELSE place(s, i, g[i - 1])]
      OBVIOUS
    <3>2. Places(s, first, g, k)
      BY <2>4, <3>1 DEF Places
    <3>3. QED
      BY <2>1, <2>3, <3>2
  <2>5. CASE k # 0
    <3>1. k - 1 \in 0 .. n /\ k \in Nat /\ k \in 1 .. n /\ ~(k <= k - 1)
      BY <2>1, <2>3, <2>5
    <3>2. PICK f : Places(s, first, f, k - 1)
      BY <2>2, <2>3, <3>1
    <3> DEFINE h(i) == IF i = 0 THEN first ELSE place(s, i, f[i - 1])
    <3>3. f = [i \in 0 .. k - 1 |-> h(i)]
      BY <3>2 DEF Places
    <3> DEFINE g == [i \in 0 .. k |-> IF i < k THEN f[i] ELSE place(s, k, f[k - 1])]
    <3>4. ASSUME NEW i \in 0 .. k PROVE g[i] = IF i = 0 THEN first ELSE place(s, i, g[i - 1])
      <4>1. CASE i = 0
        <5>1. 0 \in 0 .. k - 1 /\ 0 < k /\ h(0) = first
          BY <3>1
        <5>2. g[0] = f[0]
          BY <3>1, <5>1
        <5> HIDE DEF h, g
        <5>3. f[0] = first
          BY <3>3, <5>1
        <5>4. QED
          BY <4>1, <5>2, <5>3
      <4>2. CASE i # 0
        <5>1. i - 1 \in 0 .. k /\ i - 1 < k /\ i - 1 \in 0 .. k - 1 /\ h(i) = place(s, i, f[i - 1])
          BY <3>1, <4>2
        <5>2. g[i - 1] = f[i - 1] /\ (i < k => g[i] = f[i]) /\ (i = k => g[i] = place(s, k, f[k - 1]))
          BY <3>1, <5>1
        <5> HIDE DEF h, g
        <5>3. CASE i < k
          <6>1. i \in 0 .. k - 1
            BY <3>1, <5>3
          <6>2. f[i] = h(i)
            BY <3>3, <6>1
          <6>3. QED
            BY <4>2, <5>1, <5>2, <5>3, <6>2
        <5>4. CASE i = k
          BY <4>2, <5>2, <5>4
        <5>5. QED
          BY <3>1, <5>3, <5>4
      <4>3. QED
        BY <4>1, <4>2
    <3>5. g = [i \in 0 .. k |-> g[i]]
      OBVIOUS
    <3> HIDE DEF g, h
    <3>6. g = [i \in 0 .. k |-> IF i = 0 THEN first ELSE place(s, i, g[i - 1])]
      BY <3>4, <3>5
    <3>7. Places(s, first, g, k)
      BY <3>6 DEF Places
    <3>8. QED
      BY <2>1, <2>3, <3>7
  <2>6. QED
    BY <2>4, <2>5
<1>3. QED
  BY <1>1, <1>2

\* Step by step.
LEMMA PlaceSteps ==
  ASSUME NEW s, NEW first, NEW n \in Nat, NEW f, Places(s, first, f, n)
  PROVE  f[0] = first /\ \A i \in 1 .. n : f[i] = place(s, i, f[i - 1])
<1> DEFINE h(i) == IF i = 0 THEN first ELSE place(s, i, f[i - 1])
<1>1. f = [i \in 0 .. n |-> h(i)]
  BY DEF Places
<1>2. h(0) = first /\ \A i \in 1 .. n : h(i) = place(s, i, f[i - 1]) /\ i \in 0 .. n
  OBVIOUS
<1>3. 0 \in 0 .. n
  OBVIOUS
<1> HIDE DEF h
<1>4. \A i \in 0 .. n : f[i] = h(i)
  BY <1>1
<1>5. QED
  BY <1>2, <1>3, <1>4

\* What the endpoint is sent for a message: at least one chunk, and no more than fit a batch.
LEMMA SomeChunks ==
  ASSUME NEW text \in Nat
  PROVE  /\ Length(text) \in Nat /\ TotalChunks(Length(text)) \in Nat \ {0}
         /\ KeptChunks(Length(text)) \in 1 .. MaxChunks /\ KeptChunks(Length(text)) <= TotalChunks(Length(text))
         /\ Len(ChunksOf(text)) = KeptChunks(Length(text)) /\ ChunksOf(text) \in Seq([text : {text}, chunk : Nat])
         /\ \A j \in 0 .. (KeptChunks(Length(text)) - 1) : ChunksOf(text)[j + 1] = [text |-> text, chunk |-> j]
<1> DEFINE len == Length(text)
           many == KeptChunks(len)
<1>1. len \in Nat
  BY DEF Length
<1> HIDE DEF len
<1>2. Stride \in Nat \ {0} /\ ChunkRunes \in Nat /\ MaxChunks \in Nat \ {0}
  BY SearchBounds DEF Stride
<1>3. TotalChunks(len) \in Nat \ {0}
  <2>1. CASE len <= ChunkRunes
    BY <2>1 DEF TotalChunks
  <2>2. CASE ~(len <= ChunkRunes)
    <3>1. len - ChunkRunes + Stride - 1 \in Nat
      BY <1>1, <1>2, <2>2
    <3>2. \A a \in Nat, b \in Nat \ {0} : a \div b \in Nat
      OBVIOUS
    <3>3. (len - ChunkRunes + Stride - 1) \div Stride \in Nat
      BY <1>2, <3>1, <3>2
    <3>4. QED
      BY <2>2, <3>3 DEF TotalChunks
  <2>3. QED
    BY <2>1, <2>2
<1>4. many \in 1 .. MaxChunks /\ many <= TotalChunks(len)
  BY <1>2, <1>3 DEF KeptChunks
<1>5. ChunksOf(text) = [j \in 1 .. many |-> [text |-> text, chunk |-> j - 1]]
  BY DEF ChunksOf, len
<1> HIDE DEF many
<1>6. /\ ChunksOf(text) \in Seq([text : {text}, chunk : Nat]) /\ Len(ChunksOf(text)) = many
      /\ \A j \in 0 .. (many - 1) : ChunksOf(text)[j + 1] = [text |-> text, chunk |-> j]
  BY <1>4, <1>5
<1>7. QED
  BY <1>1, <1>3, <1>4, <1>6 DEF len, many

Item  == [id : Msgs, text : Nat \ {0}]
AChunk == [text : Nat, chunk : Nat]

LEMMA BatchSteps ==
  ASSUME NEW msgs, Len(msgs) \in Nat
  PROVE  /\ DOMAIN BatchTexts(msgs) = 0 .. Len(msgs) /\ BatchTexts(msgs)[0] = <<>>
         /\ \A i \in 1 .. Len(msgs) : BatchTexts(msgs)[i] = BatchTexts(msgs)[i - 1] \o ChunksOf(msgs[i].text)
<1> DEFINE entry(f, i) == IF i = 0 THEN <<>> ELSE f[i - 1] \o ChunksOf(msgs[i].text)
           Made(f) == f = [i \in 0 .. Len(msgs) |-> entry(f, i)]
           texts == CHOOSE f : Made(f)
           first == <<>>
           n     == Len(msgs)
<1>1. BatchTexts(msgs) = texts
  BY Zenon DEF BatchTexts
<1>2. \A f, i : entry(f, i) = IF i = 0 THEN first ELSE place(msgs, i, f[i - 1])
  BY DEF place
<1> HIDE DEF entry
<1>3. \A f : Made(f) <=> Places(msgs, first, f, n)
  <2> TAKE f
  <2>1. [i \in 0 .. n |-> entry(f, i)] = [i \in 0 .. n |-> IF i = 0 THEN first ELSE place(msgs, i, f[i - 1])]
    BY <1>2, Zenon
  <2>2. QED
    BY <2>1, Zenon DEF Places
<1>4. n \in Nat
  OBVIOUS
<1> HIDE DEF Made, first, n
<1>5. \E f : Places(msgs, first, f, n)
  BY <1>4, PlaceByPlace
<1>6. Made(texts)
  BY <1>3, <1>5
<1>7. Places(msgs, first, texts, n)
  BY <1>3, <1>6
<1> HIDE DEF texts
<1>8. texts[0] = first /\ \A i \in 1 .. n : texts[i] = place(msgs, i, texts[i - 1])
  <2>1. n \in Nat /\ Places(msgs, first, texts, n)
    BY <1>4, <1>7
  <2>2. QED
    BY <2>1, PlaceSteps
<1>9. DOMAIN texts = 0 .. n
  BY <1>7 DEF Places
<1>10. QED
  BY <1>1, <1>8, <1>9 DEF place, first, n

\* A batch is sent chunk by chunk: where the chunks of each message are in it.
LEMMA BatchIsInOrder ==
  ASSUME NEW msgs \in Seq(Item)
  PROVE  /\ Inputs(msgs) \in Seq(AChunk)
         /\ \A i \in 0 .. Len(msgs) : BatchTexts(msgs)[i] \in Seq(AChunk)
         /\ \A i \in 1 .. Len(msgs) : \A j \in 0 .. (KeptChunks(Length(msgs[i].text)) - 1) :
              /\ Len(BatchTexts(msgs)[i - 1]) + j + 1 \in 1 .. Len(Inputs(msgs))
              /\ Inputs(msgs)[Len(BatchTexts(msgs)[i - 1]) + j + 1] = [text |-> msgs[i].text, chunk |-> j]
<1> DEFINE t == BatchTexts(msgs)
           n == Len(msgs)
           many(i) == KeptChunks(Length(msgs[i].text))
           sent(i) == ChunksOf(msgs[i].text)
<1>1. n \in Nat /\ DOMAIN msgs = 1 .. n /\ \A i \in 1 .. n : msgs[i] \in Item
  OBVIOUS
<1>2. t[0] = <<>> /\ \A i \in 1 .. n : t[i] = t[i - 1] \o sent(i)
  BY <1>1, BatchSteps
<1>3. ASSUME NEW i \in 1 .. n
      PROVE  /\ sent(i) \in Seq(AChunk) /\ many(i) \in Nat /\ Len(sent(i)) = many(i)
             /\ \A j \in 0 .. (many(i) - 1) : sent(i)[j + 1] = [text |-> msgs[i].text, chunk |-> j]
  <2>1. msgs[i].text \in Nat
    BY <1>1 DEF Item
  <2> DEFINE text == msgs[i].text
  <2> HIDE DEF text
  <2>2. /\ KeptChunks(Length(text)) \in 1 .. MaxChunks
        /\ Len(ChunksOf(text)) = KeptChunks(Length(text)) /\ ChunksOf(text) \in Seq([text : {text}, chunk : Nat])
        /\ \A j \in 0 .. (KeptChunks(Length(text)) - 1) : ChunksOf(text)[j + 1] = [text |-> text, chunk |-> j]
    BY <2>1, SomeChunks DEF text
  <2>3. [text : {text}, chunk : Nat] \subseteq AChunk
    BY <2>1 DEF AChunk, text
  <2>4. ChunksOf(text) \in Seq(AChunk)
    <3> DEFINE s == ChunksOf(text)
               own == [text : {text}, chunk : Nat]
    <3>1. s \in Seq(own) /\ own \subseteq AChunk
      BY <2>2, <2>3
    <3> HIDE DEF s, own
    <3>2. \A k \in 1 .. Len(s) : s[k] \in AChunk
      BY <3>1
    <3>3. QED
      BY <3>1, <3>2 DEF s
  <2>5. QED
    BY <2>2, <2>4, SearchBounds DEF text
<1> HIDE DEF t, n, many, sent
<1>4. \A i \in 0 .. n : t[i] \in Seq(AChunk)
  <2> DEFINE T == {i \in 0 .. n : t[i] \notin Seq(AChunk)}
  <2>1. CASE T = {}
    BY <2>1
  <2>2. CASE T # {}
    <3>1. T \subseteq Nat
      BY <1>1
    <3>2. PICK i \in T : \A k \in T : i <= k
      BY <2>2, <3>1, LeastOfNats
    <3>3. i \in 0 .. n /\ t[i] \notin Seq(AChunk)
      OBVIOUS
    <3>4. i # 0
      <4>1. <<>> \in Seq(AChunk)
        OBVIOUS
      <4>2. QED
        BY <1>2, <3>3, <4>1
    <3>5. i \in 1 .. n /\ i - 1 \in 0 .. n /\ ~(i <= i - 1)
      BY <1>1, <3>3, <3>4
    <3>6. i - 1 \notin T
      BY <3>2, <3>5
    <3>7. t[i - 1] \in Seq(AChunk)
      BY <3>5, <3>6
    <3>8. t[i] = t[i - 1] \o sent(i) /\ sent(i) \in Seq(AChunk)
      BY <1>2, <1>3, <3>5
    <3>9. t[i] \in Seq(AChunk)
      BY <3>7, <3>8
    <3>10. QED
      BY <3>3, <3>9
  <2>3. QED
    BY <2>1, <2>2
<1>5. ASSUME NEW i \in 1 .. n
      PROVE  /\ Len(t[i - 1]) \in Nat /\ Len(t[i]) = Len(t[i - 1]) + many(i)
             /\ \A p \in 1 .. Len(t[i - 1]) : t[i][p] = t[i - 1][p]
             /\ \A j \in 0 .. (many(i) - 1) : t[i][Len(t[i - 1]) + j + 1] = [text |-> msgs[i].text, chunk |-> j]
  <2>1. i - 1 \in 0 .. n /\ i \in 0 .. n
    BY <1>1
  <2>2. t[i - 1] \in Seq(AChunk) /\ t[i] = t[i - 1] \o sent(i)
    BY <1>2, <1>4, <2>1
  <2>3. sent(i) \in Seq(AChunk) /\ Len(sent(i)) = many(i) /\ many(i) \in Nat
    BY <1>3
  <2>4. \A j \in 0 .. (many(i) - 1) : sent(i)[j + 1] = [text |-> msgs[i].text, chunk |-> j]
    BY <1>3
  <2> DEFINE a == t[i - 1]
             b == sent(i)
  <2>5. a \in Seq(AChunk) /\ b \in Seq(AChunk) /\ t[i] = a \o b /\ Len(b) = many(i)
    BY <2>2, <2>3
  <2> HIDE DEF a, b
  <2>6. Len(a) \in Nat /\ Len(t[i]) = Len(a) + many(i) /\ \A p \in 1 .. Len(a) : t[i][p] = a[p]
    <3>1. Len(a) \in Nat /\ Len(b) \in Nat
      BY <2>5
    <3>2. /\ Len(a \o b) = Len(a) + Len(b)
          /\ \A p \in 1 .. (Len(a) + Len(b)) : (a \o b)[p] = IF p <= Len(a) THEN a[p] ELSE b[p - Len(a)]
      BY <2>5, ConcatProperties
    <3>3. QED
      BY <2>5, <3>1, <3>2
  <2>7. \A j \in 0 .. (many(i) - 1) : t[i][Len(a) + j + 1] = b[j + 1]
    <3>1. Len(a) \in Nat /\ Len(b) \in Nat
      BY <2>5
    <3>2. \A p \in 1 .. (Len(a) + Len(b)) : (a \o b)[p] = IF p <= Len(a) THEN a[p] ELSE b[p - Len(a)]
      BY <2>5, ConcatProperties
    <3>3. ASSUME NEW j \in 0 .. (many(i) - 1) PROVE t[i][Len(a) + j + 1] = b[j + 1]
      <4>1. Len(a) + j + 1 \in 1 .. (Len(a) + Len(b)) /\ ~(Len(a) + j + 1 <= Len(a)) /\ (Len(a) + j + 1) - Len(a) = j + 1
        BY <2>5, <3>1
      <4>2. QED
        BY <2>5, <3>2, <4>1
    <3>4. QED
      BY <3>3
  <2>8. QED
    BY <2>4, <2>6, <2>7 DEF a, b
<1>6. ASSUME NEW i \in 0 .. n
      PROVE  \A k \in i .. n : Len(t[i]) <= Len(t[k]) /\ \A p \in 1 .. Len(t[i]) : t[k][p] = t[i][p]
  <2> DEFINE Begins(k) == Len(t[i]) <= Len(t[k]) /\ \A p \in 1 .. Len(t[i]) : t[k][p] = t[i][p]
             T == {k \in i .. n : ~Begins(k)}
  <2>1. CASE T = {}
    BY <2>1
  <2>2. CASE T # {}
    <3>1. T \subseteq Nat
      BY <1>1
    <3>2. PICK k \in T : \A l \in T : k <= l
      BY <2>2, <3>1, LeastOfNats
    <3>3. k \in i .. n /\ ~Begins(k)
      OBVIOUS
    <3>4. Len(t[i]) \in Nat
      BY <1>4
    <3>5. k # i
      BY <3>3, <3>4
    <3>6. k \in 1 .. n /\ k - 1 \in i .. n /\ ~(k <= k - 1)
      BY <1>1, <3>3, <3>5
    <3>7. k - 1 \notin T
      BY <3>2, <3>6
    <3>8. Begins(k - 1)
      BY <3>6, <3>7
    <3>9. Len(t[k]) = Len(t[k - 1]) + many(k) /\ many(k) \in Nat /\ Len(t[k - 1]) \in Nat
      BY <1>3, <1>5, <3>6
    <3>10. \A p \in 1 .. Len(t[k - 1]) : t[k][p] = t[k - 1][p]
      BY <1>5, <3>6
    <3>11. Begins(k)
      BY <3>4, <3>8, <3>9, <3>10
    <3>12. QED
      BY <3>3, <3>11
  <2>3. QED
    BY <2>1, <2>2
<1>7. Inputs(msgs) = t[n] /\ n \in 0 .. n
  BY <1>1 DEF Inputs, t, n
<1>8. ASSUME NEW i \in 1 .. n, NEW j \in 0 .. (many(i) - 1)
      PROVE  /\ Len(t[i - 1]) + j + 1 \in 1 .. Len(t[n])
             /\ t[n][Len(t[i - 1]) + j + 1] = [text |-> msgs[i].text, chunk |-> j]
  <2>1. many(i) \in Nat /\ i \in 0 .. n /\ n \in i .. n /\ Len(t[n]) \in Nat /\ Len(t[i]) \in Nat
    BY <1>1, <1>3, <1>4, <1>7
  <2>2. /\ Len(t[i - 1]) \in Nat /\ Len(t[i]) = Len(t[i - 1]) + many(i)
        /\ t[i][Len(t[i - 1]) + j + 1] = [text |-> msgs[i].text, chunk |-> j]
    BY <1>5
  <2>3. Len(t[i]) <= Len(t[n]) /\ \A p \in 1 .. Len(t[i]) : t[n][p] = t[i][p]
    BY <1>6, <2>1
  <2>4. Len(t[i - 1]) + j + 1 \in 1 .. Len(t[i])
    <3> DEFINE a == Len(t[i - 1])
               b == Len(t[i])
    <3>1. j \in Nat /\ j + 1 <= many(i)
      BY <2>1
    <3>2. a \in Nat /\ b = a + many(i) /\ b \in Nat
      BY <2>1, <2>2
    <3> HIDE DEF a, b
    <3>3. a + j + 1 \in 1 .. b
      BY <2>1, <3>1, <3>2
    <3>4. QED
      BY <3>3 DEF a, b
  <2> DEFINE r == Len(t[i - 1]) + j + 1
             a == Len(t[i])
             b == Len(t[n])
  <2>5. r \in 1 .. b
    <3>1. r \in 1 .. a /\ a <= b /\ a \in Nat /\ b \in Nat
      BY <2>1, <2>3, <2>4
    <3> HIDE DEF r, a, b
    <3>2. QED
      BY <3>1
  <2>6. t[n][r] = t[i][r]
    BY <2>3, <2>4
  <2>7. QED
    BY <2>2, <2>5, <2>6
<1>9. QED
  BY <1>4, <1>7, <1>8 DEF t, n, many

\* The windows that are kept cover the text when none was cut.
LEMMA ChunksCover ==
  ASSUME NEW text \in Nat, TotalChunks(Length(text)) = KeptChunks(Length(text))
  PROVE  UNION {Chunk(Length(text), i) : i \in 0 .. (KeptChunks(Length(text)) - 1)} = 0 .. (Length(text) - 1)
<1> DEFINE len  == Length(text)
           many == KeptChunks(len)
           q    == (len - ChunkRunes + Stride - 1) \div Stride
<1>1. len \in Nat /\ many \in Nat \ {0} /\ many = TotalChunks(len)
  BY SomeChunks, SearchBounds
<1>2. Stride \in Nat \ {0} /\ ChunkRunes \in Nat /\ Stride <= ChunkRunes
  BY SearchBounds DEF Stride
<1> HIDE DEF len, many
<1>3. ASSUME NEW r \in 0 .. (len - 1) PROVE \E i \in 0 .. (many - 1) : i * Stride <= r /\ r < i * Stride + ChunkRunes
  <2>1. CASE len <= ChunkRunes
    <3>1. many = 1
      BY <1>1, <2>1 DEF TotalChunks
    <3>2. 0 \in 0 .. (many - 1) /\ 0 * Stride = 0 /\ r < ChunkRunes
      BY <1>1, <1>2, <2>1, <3>1
    <3>3. QED
      BY <1>1, <1>2, <3>2
  <2>2. CASE ~(len <= ChunkRunes)
    <3>1. \A a \in Nat, b \in Nat \ {0} : a \div b \in Nat /\ (a \div b) * b <= a /\ a < (a \div b) * b + b
      OBVIOUS
    <3>2. many = 1 + q
      BY <1>1, <2>2 DEF TotalChunks
    <3>3. len - ChunkRunes + Stride - 1 \in Nat
      BY <1>1, <1>2, <2>2
    <3>4. q \in Nat /\ len - ChunkRunes + Stride - 1 < q * Stride + Stride
      BY <1>2, <3>1, <3>3
    <3> DEFINE d == r \div Stride
    <3>5. d \in Nat /\ d * Stride <= r /\ r < d * Stride + Stride /\ r \in Nat
      BY <1>1, <1>2, <3>1
    <3> HIDE DEF q, d
    <3>6. CASE d <= q
      <4>1. d * Stride \in Nat
        BY <1>2, <3>5
      <4>2. d \in 0 .. (many - 1) /\ r < d * Stride + ChunkRunes
        BY <1>2, <3>2, <3>4, <3>5, <3>6, <4>1
      <4>3. QED
        BY <3>5, <4>2
    <3>7. CASE ~(d <= q)
      <4>1. q * Stride <= d * Stride
        <5>1. \A x, y, z \in Nat : x <= y => x * z <= y * z
          OBVIOUS
        <5>2. QED
          BY <1>2, <3>4, <3>5, <3>7, <5>1
      <4>2. q * Stride \in Nat /\ d * Stride \in Nat
        BY <1>2, <3>4, <3>5
      <4>3. q \in 0 .. (many - 1) /\ q * Stride <= r /\ r < q * Stride + ChunkRunes
        BY <1>1, <1>2, <3>2, <3>4, <3>5, <4>1, <4>2
      <4>4. QED
        BY <4>3
    <3>8. QED
      BY <3>6, <3>7
  <2>3. QED
    BY <2>1, <2>2
<1>4. \A r \in 0 .. (len - 1) : \E i \in 0 .. (many - 1) : r \in Chunk(len, i)
  BY <1>3 DEF Chunk
<1>5. \A i \in 0 .. (many - 1) : Chunk(len, i) \subseteq 0 .. (len - 1)
  BY DEF Chunk
<1>6. UNION {Chunk(len, i) : i \in 0 .. (many - 1)} = 0 .. (len - 1)
  BY <1>4, <1>5
<1>7. QED
  BY <1>6 DEF len, many

\* An answer that is accepted is put in the order of what was sent.
LEMMA AnswerIsInOrder ==
  ASSUME NEW inputs \in Seq(AChunk), NEW given \in Answers(inputs), Len(given) = Len(inputs), InOrder(given)
  PROVE  [i \in DOMAIN given |-> Indexed(given)[i].of] = inputs
<1> DEFINE n == Len(inputs)
           entry(i) == [index |-> i, of |-> inputs[i]]
           all == [i \in 1 .. n |-> entry(i)]
           Twist(f) == [i \in DOMAIN all |-> all[f[i]]]
<1>1. n \in Nat /\ DOMAIN inputs = 1 .. n
  OBVIOUS
<1>2. given \in {Reverse(all), all, Front(all), Twist([i \in DOMAIN all |-> 1])}
  BY <1>1 DEF Answers
<1>3. /\ all \in Seq({entry(i) : i \in 1 .. n}) /\ Len(all) = n /\ DOMAIN all = 1 .. n
      /\ \A i \in 1 .. n : all[i] = entry(i)
  BY <1>1
<1>4. DOMAIN given = 1 .. n /\ \A i \in 1 .. n : \E k \in 1 .. n : given[i] = entry(k)
  <2> HIDE DEF all, n
  <2>1. CASE given = Reverse(all)
    <3>1. given = [i \in 1 .. n |-> all[(n - i) + 1]]
      BY <1>3, <2>1 DEF Reverse
    <3>2. \A i \in 1 .. n : (n - i) + 1 \in 1 .. n
      BY <1>1
    <3>3. QED
      BY <1>3, <3>1, <3>2
  <2>2. CASE given = all
    BY <1>3, <2>2
  <2>3. CASE given = Front(all)
    <3>1. given = SubSeq(all, 1, n - 1)
      BY <1>3, <2>3 DEF Front
    <3>2. CASE n = 0
      <4>1. Len(given) = 0
        BY <3>2 DEF n
      <4>2. given = <<>>
        BY <1>1, <1>3, <3>1, <3>2
      <4>3. QED
        BY <3>2, <4>2
    <3>3. CASE n # 0
      <4>1. Len(given) = n - 1
        BY <1>1, <1>3, <3>1, <3>3
      <4>2. QED
        BY <1>1, <4>1 DEF n
    <3>4. QED
      BY <3>2, <3>3
  <2>4. CASE given = Twist([i \in DOMAIN all |-> 1])
    <3>1. given = [i \in 1 .. n |-> all[1]]
      BY <1>3, <2>4
    <3>2. \A i \in 1 .. n : 1 \in 1 .. n
      BY <1>1
    <3>3. QED
      BY <1>3, <3>1, <3>2
  <2>5. QED
    BY <1>2, <2>1, <2>2, <2>3, <2>4
<1> HIDE DEF all, n
<1>5. ToSet(given) = {given[i] : i \in 1 .. n}
  BY <1>4 DEF ToSet
<1>6. {e.index : e \in ToSet(given)} = 1 .. n
  BY <1>4 DEF InOrder
<1>7. ASSUME NEW i \in 1 .. n PROVE Indexed(given)[i].of = inputs[i]
  <2>1. Indexed(given)[i] = CHOOSE e \in ToSet(given) : e.index = i
    BY <1>4 DEF Indexed
  <2>2. \E e \in ToSet(given) : e.index = i
    BY <1>6
  <2> DEFINE e == Indexed(given)[i]
  <2>3. e \in ToSet(given) /\ e.index = i
    BY <2>1, <2>2
  <2> HIDE DEF e
  <2>4. PICK k \in 1 .. n : e = entry(k)
    <3>1. e \in {given[j] : j \in 1 .. n}
      BY <1>5, <2>3
    <3>2. PICK j \in 1 .. n : e = given[j]
      BY <3>1
    <3>3. \E k \in 1 .. n : given[j] = entry(k)
      BY <1>4
    <3>4. QED
      BY <3>2, <3>3
  <2>5. k = i
    BY <2>3, <2>4
  <2>6. QED
    BY <2>4, <2>5 DEF e
<1>8. inputs = [i \in 1 .. n |-> inputs[i]]
  BY <1>1
<1>9. QED
  BY <1>4, <1>7, <1>8

\* What a message's vectors are when each is made from its own chunk.
OwnVector(b, j) == [msg |-> b.id, chunk |-> j, of |-> [text |-> b.text, chunk |-> j]]

LEMMA NewVectorsAreOwn ==
  ASSUME emb.batch \in Seq(Item), emb.vecs = Inputs(emb.batch)
  PROVE  /\ \A w \in NewVectors : \E i \in 1 .. Len(emb.batch) :
              \E j \in 0 .. (KeptChunks(Length(emb.batch[i].text)) - 1) : w = OwnVector(emb.batch[i], j)
         /\ \A i \in 1 .. Len(emb.batch) : \A j \in 0 .. (KeptChunks(Length(emb.batch[i].text)) - 1) :
              OwnVector(emb.batch[i], j) \in NewVectors
<1> DEFINE msgs == emb.batch
           many(i) == KeptChunks(Length(msgs[i].text))
           offset(i) == Len(BatchTexts(msgs)[i - 1])
           row(i, j) == [msg |-> msgs[i].id, chunk |-> j, of |-> emb.vecs[offset(i) + j + 1]]
<1>1. DOMAIN msgs = 1 .. Len(msgs)
  OBVIOUS
<1>2. NewVectors = UNION {{row(i, j) : j \in 0 .. (many(i) - 1)} : i \in 1 .. Len(msgs)}
  BY <1>1 DEF NewVectors
<1>3. ASSUME NEW i \in 1 .. Len(msgs), NEW j \in 0 .. (many(i) - 1)
      PROVE  row(i, j) = OwnVector(msgs[i], j)
  <2>1. Inputs(msgs)[offset(i) + j + 1] = [text |-> msgs[i].text, chunk |-> j]
    BY BatchIsInOrder
  <2>2. QED
    BY <2>1 DEF OwnVector
<1> HIDE DEF msgs, many, row
<1>4. \A w \in NewVectors : \E i \in 1 .. Len(msgs) : \E j \in 0 .. (many(i) - 1) : w = row(i, j)
  BY <1>2
<1>5. \A i \in 1 .. Len(msgs) : \A j \in 0 .. (many(i) - 1) : row(i, j) \in NewVectors
  BY <1>2
<1>6. QED
  BY <1>3, <1>4, <1>5 DEF msgs, many

\* A message by the text it has: where an index row, a vector, a pass or a request says so,
\* and at the source.
RowTexts    == {<<m, msgRows[m].text>> : m \in DOMAIN msgRows}
VectorTexts == {<<v.msg, v.of.text>> : v \in vectors}
ListTexts(list) == {<<list[i].id, list[i].text>> : i \in DOMAIN list}
ReadTexts   == IF ing.at = "write" THEN {<< <<ing.conv, i>>, ing.texts[i]>> : i \in DOMAIN ing.texts} ELSE {}
IndexTexts  == RowTexts \cup VectorTexts \cup ListTexts(emb.todo) \cup ListTexts(emb.batch) \cup ReadTexts
SourceTexts == {<<m, src[m[1]].texts[m[2]]>> : m \in UNION {MessagesOf(c, src[c].texts) : c \in DOMAIN src}}
AllTexts    == IndexTexts \cup SourceTexts

\* An id has one text for good, and a text one id; the index has no text the source has not
\* given out, and of a conversation the source still has none that is not there.
TextsAgree ==
  /\ retired \subseteq Convs /\ retired \cap DOMAIN src = {}
  /\ \A p \in AllTexts : p[1] \in Msgs /\ p[2] \in 1 .. sourceChanges /\ p[1][1] \in DOMAIN src \cup retired
  /\ \A p, q \in AllTexts : p[1] = q[1] <=> p[2] = q[2]
  /\ \A p \in IndexTexts : p[1][1] \in DOMAIN src => p[1] \in MessagesOf(p[1][1], src[p[1][1]].texts)

\* What has a vector, or is about to, and what the index has in all.
Stored == {p[1] : p \in VectorTexts \cup ListTexts(emb.todo) \cup ListTexts(emb.batch)}
Held   == Stored \cup DOMAIN msgRows

\* A pass that comes to its end has rows for every message that has a vector and is still at
\* the source: it has read each conversation it listed, whole, and the index others not at all.
StoredHaveRows == \A m \in Stored : m[1] \in DOMAIN convRows => m \in DOMAIN msgRows
ReadCovers == ing.at = "write" => \A m \in Held : m[1] = ing.conv => m \in MessagesOf(ing.conv, ing.texts)
ListCovers ==
  ing.at \in {"read", "write"} =>
    /\ DOMAIN ing.listed \subseteq ing.stale \cup DOMAIN convRows
    /\ ing.gone \cap DOMAIN ing.listed = {}
    /\ \A m \in Held : m[1] \in DOMAIN src => m[1] \in DOMAIN ing.listed
PassCovers == StoredHaveRows /\ ReadCovers /\ ListCovers

\* A message that counts as embedded has all its vectors, or has left the source and the index.
Counts(text) == [chunks |-> KeptChunks(Length(text)), total |-> TotalChunks(Length(text))]
Embedded(m) ==
  \E w \in vectors :
    /\ w.msg = m /\ embStatus[m] = Counts(w.of.text)
    /\ \A j \in 0 .. (KeptChunks(Length(w.of.text)) - 1) : \E v \in vectors : v.msg = m /\ v.chunk = j
HasLeft(m) ==
  m[1] \in retired /\ m \notin DOMAIN msgRows /\ ~(ing.at = "write" /\ ing.conv = m[1])

OwnChunks   ==
  \A v \in vectors : v.of = [text |-> v.of.text, chunk |-> v.chunk] /\ v.chunk \in 0 .. (KeptChunks(Length(v.of.text)) - 1)
AnswersKept == emb.at = "store" => emb.vecs = Inputs(emb.batch)
AllEmbedded == \A m \in DOMAIN embStatus : Embedded(m) \/ HasLeft(m)
VectorsAreWhole == OwnChunks /\ AnswersKept /\ AllEmbedded

EmbedPasses == [at : {"idle", "batch", "request", "store"}, todo : Seq(Item), batch : Seq(Item), vecs : Seq(AChunk)]
VectorTypes == emb \in EmbedPasses /\ IsFiniteSet(DOMAIN msgRows)
VectorInv   == VectorTypes /\ TextsAgree /\ PassCovers /\ VectorsAreWhole

LEMMA NoEmbedIsPass ==
  /\ NoEmbed \in EmbedPasses /\ NoEmbed.at = "idle" /\ NoEmbed.todo = <<>> /\ NoEmbed.batch = <<>>
  /\ NoEmbed.vecs = <<>> /\ ListTexts(<<>>) = {}
<1>1. <<>> \in Seq(Item) /\ <<>> \in Seq(AChunk) /\ DOMAIN <<>> = {}
  OBVIOUS
<1>2. QED
  BY <1>1 DEF NoEmbed, EmbedPasses, ListTexts

LEMMA VectorInvInit == SearchInit => VectorInv
<1> SUFFICES ASSUME SearchInit PROVE VectorInv
  OBVIOUS
<1>1. /\ src = <<>> /\ retired = {} /\ sourceChanges = 0 /\ convRows = <<>> /\ msgRows = <<>> /\ vectors = {}
      /\ embStatus = <<>> /\ ing = NoPass /\ emb = NoEmbed /\ DOMAIN <<>> = {}
  BY DEF SearchInit
<1>2. DOMAIN src = {} /\ DOMAIN convRows = {} /\ DOMAIN msgRows = {} /\ DOMAIN embStatus = {}
  BY <1>1
<1>3. RowTexts = {} /\ VectorTexts = {} /\ ListTexts(emb.todo) = {} /\ ListTexts(emb.batch) = {}
  BY <1>1, <1>2, NoEmbedIsPass DEF RowTexts, VectorTexts
<1>4. ReadTexts = {} /\ SourceTexts = {}
  BY <1>1, <1>2, NoPassIsPass DEF ReadTexts, SourceTexts
<1>5. IndexTexts = {} /\ AllTexts = {} /\ Stored = {} /\ Held = {}
  BY <1>2, <1>3, <1>4 DEF IndexTexts, AllTexts, Stored, Held
<1>6. TextsAgree
  BY <1>1, <1>5 DEF TextsAgree
<1>7. PassCovers
  BY <1>1, <1>5, NoPassIsPass DEF PassCovers, StoredHaveRows, ReadCovers, ListCovers
<1>8. VectorsAreWhole
  BY <1>1, <1>2, NoEmbedIsPass DEF VectorsAreWhole, OwnChunks, AnswersKept, AllEmbedded
<1>9. VectorTypes
  BY <1>1, <1>2, NoEmbedIsPass, FS_EmptySet DEF VectorTypes
<1>10. QED
  BY <1>6, <1>7, <1>8, <1>9 DEF VectorInv

\* The source's texts, message by message.
LEMMA SourceHas ==
  /\ \A c \in DOMAIN src : \A i \in DOMAIN src[c].texts : << <<c, i>>, src[c].texts[i]>> \in SourceTexts
  /\ \A p \in SourceTexts : \E c \in DOMAIN src : \E i \in DOMAIN src[c].texts : p = << <<c, i>>, src[c].texts[i]>>
<1>1. ASSUME NEW c \in DOMAIN src, NEW i \in DOMAIN src[c].texts PROVE << <<c, i>>, src[c].texts[i]>> \in SourceTexts
  <2> DEFINE m == <<c, i>>
  <2>1. m \in MessagesOf(c, src[c].texts) /\ m[1] = c /\ m[2] = i
    BY DEF MessagesOf
  <2>2. QED
    BY <2>1 DEF SourceTexts
<1>2. ASSUME NEW p \in SourceTexts
      PROVE \E c \in DOMAIN src : \E i \in DOMAIN src[c].texts : p = << <<c, i>>, src[c].texts[i]>>
  <2>1. PICK m \in UNION {MessagesOf(c, src[c].texts) : c \in DOMAIN src} : p = <<m, src[m[1]].texts[m[2]]>>
    BY DEF SourceTexts
  <2>2. PICK c \in DOMAIN src : m \in MessagesOf(c, src[c].texts)
    BY <2>1
  <2>3. PICK i \in DOMAIN src[c].texts : m = <<c, i>>
    BY <2>2 DEF MessagesOf
  <2>4. QED
    BY <2>1, <2>3
<1>3. QED
  BY <1>1, <1>2

\* What the index has of a message is what is known of it.
LEMMA HeldIsKnown ==
  ASSUME TextsAgree, NEW m \in Held
  PROVE  /\ m \in Msgs /\ m[1] \in DOMAIN src \cup retired
         /\ m[1] \in DOMAIN src => m \in MessagesOf(m[1], src[m[1]].texts)
<1>1. \E p \in IndexTexts : p[1] = m
  <2>1. CASE m \in Stored
    BY <2>1 DEF Stored, IndexTexts
  <2>2. CASE m \in DOMAIN msgRows
    <3> DEFINE p == <<m, msgRows[m].text>>
    <3>1. p \in RowTexts /\ p[1] = m
      BY <2>2 DEF RowTexts
    <3>2. p \in IndexTexts
      BY <3>1 DEF IndexTexts
    <3>3. QED
      BY <3>1, <3>2
  <2>3. QED
    BY <2>1, <2>2 DEF Held
<1>2. QED
  BY <1>1 DEF TextsAgree, AllTexts

\* A step of the index that has every text from where one was.
LEMMA TextsKept ==
  ASSUME TextsAgree, UNCHANGED <<src, retired, sourceChanges>>, IndexTexts' \subseteq AllTexts
  PROVE  TextsAgree'
<1>1. SourceTexts' = SourceTexts
  BY DEF SourceTexts
<1>2. AllTexts' \subseteq AllTexts
  BY <1>1 DEF AllTexts
<1>3. ASSUME NEW p \in IndexTexts', p[1][1] \in DOMAIN src PROVE p[1] \in MessagesOf(p[1][1], src[p[1][1]].texts)
  <2>1. CASE p \in IndexTexts
    BY <1>3, <2>1 DEF TextsAgree
  <2>2. CASE p \in SourceTexts
    <3>1. PICK c \in DOMAIN src : \E i \in DOMAIN src[c].texts : p = << <<c, i>>, src[c].texts[i]>>
      BY <2>2, SourceHas
    <3>2. QED
      BY <3>1 DEF MessagesOf
  <2>3. QED
    BY <2>1, <2>2 DEF AllTexts
<1>4. QED
  BY <1>2, <1>3 DEF TextsAgree

\* A change of the source that gives out at most one new text, to a message no one knows.
LEMMA HostKeepsTexts ==
  ASSUME SearchInv, TextsAgree, UNCHANGED <<tables, ing, emb>>, sourceChanges' = sourceChanges + 1,
         retired \subseteq retired', retired' \subseteq Convs, retired' \cap DOMAIN src' = {},
         DOMAIN src \subseteq DOMAIN src' \cup retired',
         NEW c \in Convs, c \notin retired, NEW n \in Nat \ {0},
         c \in DOMAIN src => <<c, n>> \notin MessagesOf(c, src[c].texts),
         SourceTexts' \subseteq SourceTexts \cup {<< <<c, n>>, sourceChanges'>>},
         << <<c, n>>, sourceChanges'>> \in SourceTexts' => c \in DOMAIN src',
         \A d \in DOMAIN src' \cap DOMAIN src : MessagesOf(d, src[d].texts) \subseteq MessagesOf(d, src'[d].texts),
         \A d \in DOMAIN src' \ DOMAIN src : d = c
  PROVE  TextsAgree'
<1> DEFINE new == << <<c, n>>, sourceChanges'>>
<1>1. IndexTexts' = IndexTexts
  BY DEF tables, IndexTexts, RowTexts, VectorTexts, ListTexts, ReadTexts
<1>2. sourceChanges \in Nat
  BY DEF SearchInv, SearchTypes
<1>3. new[1] = <<c, n>> /\ new[2] = sourceChanges' /\ new[1][1] = c /\ new[1] \in Msgs
  BY DEF Msgs
<1>4. \A p \in AllTexts : p[2] # sourceChanges' /\ p[2] \in 1 .. sourceChanges'
  BY <1>2 DEF TextsAgree
<1>5. ASSUME NEW p \in AllTexts PROVE p[1] # <<c, n>>
  <2> SUFFICES ASSUME p[1] = <<c, n>> PROVE FALSE
    OBVIOUS
  <2>1. p[1][1] = c /\ c \in DOMAIN src
    BY DEF TextsAgree
  <2>2. <<c, n>> \in MessagesOf(c, src[c].texts)
    <3>1. CASE p \in IndexTexts
      BY <2>1, <3>1 DEF TextsAgree
    <3>2. CASE p \in SourceTexts
      <4>1. PICK d \in DOMAIN src : \E i \in DOMAIN src[d].texts : p = << <<d, i>>, src[d].texts[i]>>
        BY <3>2, SourceHas
      <4>2. PICK i \in DOMAIN src[d].texts : p = << <<d, i>>, src[d].texts[i]>>
        BY <4>1
      <4>3. d = c /\ i = n
        BY <4>2
      <4>4. QED
        BY <4>2, <4>3 DEF MessagesOf
    <3>3. QED
      BY <3>1, <3>2 DEF AllTexts
  <2>3. QED
    BY <2>1, <2>2
<1>6. AllTexts' \subseteq AllTexts \cup {new} /\ (new \in AllTexts' => new \in SourceTexts')
  <2>1. AllTexts' \subseteq AllTexts \cup {new}
    BY <1>1 DEF AllTexts
  <2>2. new \notin IndexTexts
    BY <1>3, <1>4 DEF AllTexts
  <2>3. QED
    BY <1>1, <2>1, <2>2 DEF AllTexts
<1> HIDE DEF new
<1>7. \A p \in AllTexts' : p[1] \in Msgs /\ p[2] \in 1 .. sourceChanges' /\ p[1][1] \in DOMAIN src' \cup retired'
  <2> TAKE p \in AllTexts'
  <2>1. CASE p = new
    BY <1>2, <1>3, <1>6, <2>1 DEF new
  <2>2. CASE p \in AllTexts
    BY <1>4, <2>2 DEF TextsAgree
  <2>3. QED
    BY <1>6, <2>1, <2>2
<1>8. \A p, q \in AllTexts' : p[1] = q[1] <=> p[2] = q[2]
  <2> TAKE p, q \in AllTexts'
  <2>1. CASE p \in AllTexts /\ q \in AllTexts
    BY <2>1 DEF TextsAgree
  <2>2. CASE p = new \/ q = new
    BY <1>3, <1>4, <1>5, <1>6, <2>2
  <2>3. QED
    BY <1>6, <2>1, <2>2
<1>9. ASSUME NEW p \in IndexTexts, p[1][1] \in DOMAIN src' PROVE p[1] \in MessagesOf(p[1][1], src'[p[1][1]].texts)
  <2>1. p \in AllTexts
    BY DEF AllTexts
  <2>2. p[1][1] \in DOMAIN src \cup retired
    BY <2>1 DEF TextsAgree
  <2>3. p[1][1] \in DOMAIN src
    BY <1>9, <2>2
  <2>4. p[1] \in MessagesOf(p[1][1], src[p[1][1]].texts)
    BY <2>3 DEF TextsAgree
  <2>5. QED
    BY <1>9, <2>3, <2>4
<1>10. QED
  BY <1>1, <1>7, <1>8, <1>9 DEF TextsAgree

\* What a change of the source is for the texts.
LEMMA ChangeKeepsTexts ==
  ASSUME SearchInv, TextsAgree, NEW c \in Convs, c \notin retired, NEW conv \in Conv, Change(c, conv),
         NEW n \in Nat \ {0}, c \in DOMAIN src => n = Len(src[c].texts) + 1,
         c \in DOMAIN src => \A i \in DOMAIN src[c].texts : i \in DOMAIN conv.texts /\ conv.texts[i] = src[c].texts[i],
         \A i \in DOMAIN conv.texts : (i = n /\ conv.texts[i] = sourceChanges')
                                        \/ (c \in DOMAIN src /\ i \in DOMAIN src[c].texts)
  PROVE  TextsAgree' /\ retired \subseteq retired' /\ retired' \cap DOMAIN src' = {}
<1> DEFINE put == [conv EXCEPT !.rev = sourceChanges + 1]
           new == << <<c, n>>, sourceChanges'>>
<1>1. /\ sourceChanges' = sourceChanges + 1 /\ src' = Over(Entry(c, put), src)
      /\ UNCHANGED <<retired, tables, ing, emb>>
  BY DEF Change
<1>2. put.texts = conv.texts
  BY DEF Conv
<1> HIDE DEF put
<1>3. /\ DOMAIN src' = {c} \cup DOMAIN src /\ src'[c] = put
      /\ \A d \in DOMAIN src : d # c => src'[d] = src[d]
  BY <1>1 DEF Over, Entry
<1>4. retired \subseteq Convs /\ retired' \cap DOMAIN src' = {}
  BY <1>1, <1>3 DEF TextsAgree
<1>5. c \in DOMAIN src => <<c, n>> \notin MessagesOf(c, src[c].texts)
  <2> SUFFICES ASSUME c \in DOMAIN src PROVE <<c, n>> \notin MessagesOf(c, src[c].texts)
    OBVIOUS
  <2>1. src[c].texts \in Seq(Nat)
    BY PassFields DEF Conv
  <2>2. n \notin DOMAIN src[c].texts
    BY <2>1
  <2>3. QED
    BY <2>2 DEF MessagesOf
<1>6. SourceTexts' \subseteq SourceTexts \cup {new}
  <2> SUFFICES ASSUME NEW p \in SourceTexts', p \notin SourceTexts PROVE p = new
    OBVIOUS
  <2>1. PICK m \in UNION {MessagesOf(d, src'[d].texts) : d \in DOMAIN src'} : p = <<m, src'[m[1]].texts[m[2]]>>
    BY DEF SourceTexts
  <2>2. PICK d \in DOMAIN src' : m \in MessagesOf(d, src'[d].texts)
    BY <2>1
  <2>3. PICK i \in DOMAIN src'[d].texts : m = <<d, i>>
    BY <2>2 DEF MessagesOf
  <2>4. p = << <<d, i>>, src'[d].texts[i]>>
    BY <2>1, <2>3
  <2>5. CASE d = c
    <3>1. i \in DOMAIN conv.texts /\ p = << <<c, i>>, conv.texts[i]>>
      BY <1>2, <1>3, <2>4, <2>5
    <3>2. CASE i = n /\ conv.texts[i] = sourceChanges'
      BY <3>1, <3>2
    <3>3. CASE c \in DOMAIN src /\ i \in DOMAIN src[c].texts
      <4>1. p = << <<c, i>>, src[c].texts[i]>>
        BY <3>1, <3>3
      <4>2. p \in SourceTexts
        BY <3>3, <4>1, SourceHas
      <4>3. QED
        BY <4>2
    <3>4. QED
      BY <3>1, <3>2, <3>3
  <2>6. CASE d # c
    <3>1. d \in DOMAIN src /\ src'[d] = src[d]
      BY <1>3, <2>6
    <3>2. p \in SourceTexts
      BY <2>3, <2>4, <3>1, SourceHas
    <3>3. QED
      BY <3>2
  <2>7. QED
    BY <2>5, <2>6
<1>7. ASSUME NEW d \in DOMAIN src' \cap DOMAIN src PROVE MessagesOf(d, src[d].texts) \subseteq MessagesOf(d, src'[d].texts)
  <2>1. CASE d = c
    BY <1>2, <1>3, <2>1 DEF MessagesOf
  <2>2. CASE d # c
    BY <1>3, <2>2
  <2>3. QED
    BY <2>1, <2>2
<1>8. TextsAgree'
  BY <1>1, <1>3, <1>4, <1>5, <1>6, <1>7, HostKeepsTexts
<1>9. QED
  BY <1>1, <1>4, <1>8

LEMMA HostTexts ==
  ASSUME SearchInv, TextsAgree, Host
  PROVE  TextsAgree' /\ retired \subseteq retired' /\ retired' \cap DOMAIN src' = {}
<1>1. /\ DOMAIN src \subseteq Convs /\ (\A c \in DOMAIN src : src[c] \in Conv) /\ sourceChanges \in Nat
      /\ retired \cap DOMAIN src = {}
  BY PassFields DEF SearchInv, SearchTypes, TextsAgree
<1>2. \A c \in DOMAIN src : src[c].texts \in Seq(Nat) /\ Len(src[c].texts) + 1 \in Nat \ {0}
  BY <1>1 DEF Conv
<1>3. CASE HostAppends
  <2>1. PICK c \in Convs, o \in Owners :
          IF c \in DOMAIN src
          THEN o = src[c].owner /\ Change(c, [src[c] EXCEPT !.texts = Append(@, sourceChanges')])
          ELSE /\ c \notin retired
               /\ Change(c, [owner |-> o, texts |-> <<sourceChanges'>>, rev |-> 0])
    BY <1>3 DEF HostAppends
  <2>2. sourceChanges' \in Nat
    BY <1>1, <2>1 DEF Change
  <2>3. CASE c \in DOMAIN src
    <3> DEFINE old  == src[c].texts
               conv == [src[c] EXCEPT !.texts = Append(@, sourceChanges')]
               n    == Len(old) + 1
    <3>1. conv \in Conv /\ conv.texts = Append(old, sourceChanges')
      <4>1. Append(src[c].texts, sourceChanges') \in Seq(Nat)
        BY <1>2, <2>2, <2>3
      <4>2. QED
        BY <1>1, <2>3, <4>1 DEF Conv
    <3>2. Change(c, conv) /\ c \notin retired /\ n \in Nat \ {0}
      BY <1>1, <1>2, <2>1, <2>3
    <3>3. old \in Seq(Nat)
      BY <1>2, <2>3
    <3> HIDE DEF old
    <3>4. /\ DOMAIN Append(old, sourceChanges') = 1 .. n /\ Append(old, sourceChanges')[n] = sourceChanges'
          /\ DOMAIN old = 1 .. Len(old)
          /\ \A i \in 1 .. Len(old) : Append(old, sourceChanges')[i] = old[i]
      BY <2>2, <3>3
    <3>5. /\ \A i \in DOMAIN old : i \in DOMAIN conv.texts /\ conv.texts[i] = old[i]
          /\ \A i \in DOMAIN conv.texts : (i = n /\ conv.texts[i] = sourceChanges') \/ i \in DOMAIN old
      BY <3>1, <3>3, <3>4
    <3> HIDE DEF conv, n
    <3>6. n = Len(src[c].texts) + 1
      BY DEF n, old
    <3>7. /\ \A i \in DOMAIN src[c].texts : i \in DOMAIN conv.texts /\ conv.texts[i] = src[c].texts[i]
          /\ \A i \in DOMAIN conv.texts : (i = n /\ conv.texts[i] = sourceChanges') \/ i \in DOMAIN src[c].texts
      BY <3>5 DEF old
    <3>8. QED
      BY <2>3, <3>1, <3>2, <3>6, <3>7, ChangeKeepsTexts
  <2>4. CASE c \notin DOMAIN src
    <3> DEFINE conv == [owner |-> o, texts |-> <<sourceChanges'>>, rev |-> 0]
               n    == 1
    <3>1. conv \in Conv /\ conv.texts = <<sourceChanges'>> /\ n \in Nat \ {0}
      BY <2>2 DEF Conv
    <3>2. Change(c, conv) /\ c \notin retired
      BY <2>1, <2>4
    <3>3. \A i \in DOMAIN conv.texts : i = n /\ conv.texts[i] = sourceChanges'
      BY <3>1
    <3> HIDE DEF conv, n
    <3>4. QED
      BY <2>4, <3>1, <3>2, <3>3, ChangeKeepsTexts
  <2>5. QED
    BY <2>3, <2>4
<1>4. CASE HostTransfers
  <2>1. PICK c \in DOMAIN src, o \in Owners : Change(c, [src[c] EXCEPT !.owner = o])
    BY <1>4 DEF HostTransfers
  <2> DEFINE conv == [src[c] EXCEPT !.owner = o]
             n    == Len(src[c].texts) + 1
  <2>2. conv \in Conv /\ c \in Convs /\ c \notin retired /\ conv.texts = src[c].texts /\ n \in Nat \ {0}
    BY <1>1, <1>2, <2>1 DEF Conv
  <2>3. Change(c, conv)
    BY <2>1
  <2> HIDE DEF conv, n
  <2>4. c \in DOMAIN src /\ n = Len(src[c].texts) + 1
    BY <2>1 DEF n
  <2>5. QED
    BY <2>2, <2>3, <2>4, ChangeKeepsTexts
<1>5. CASE HostDeletes
  <2>1. PICK c \in DOMAIN src : src' = Without(src, {c}) /\ retired' = retired \cup {c}
    BY <1>5 DEF HostDeletes
  <2>2. sourceChanges' = sourceChanges + 1 /\ UNCHANGED <<tables, ing, emb>>
    BY <1>5 DEF HostDeletes
  <2>3. DOMAIN src' = DOMAIN src \ {c} /\ \A d \in DOMAIN src' : src'[d] = src[d]
    BY <2>1 DEF Without
  <2>4. retired \subseteq retired' /\ retired' \subseteq Convs /\ retired' \cap DOMAIN src' = {} /\ c \in Convs
    BY <1>1, <2>1, <2>3 DEF TextsAgree
  <2> DEFINE n == Len(src[c].texts) + 1
  <2>5. n \in Nat \ {0} /\ <<c, n>> \notin MessagesOf(c, src[c].texts)
    <3>1. src[c].texts \in Seq(Nat)
      BY <1>2
    <3>2. n \in Nat \ {0} /\ n \notin DOMAIN src[c].texts
      BY <3>1
    <3>3. QED
      BY <3>2 DEF MessagesOf
  <2> HIDE DEF n
  <2>6. SourceTexts' \subseteq SourceTexts
    <3> SUFFICES ASSUME NEW p \in SourceTexts' PROVE p \in SourceTexts
      OBVIOUS
    <3>1. PICK m \in UNION {MessagesOf(d, src'[d].texts) : d \in DOMAIN src'} : p = <<m, src'[m[1]].texts[m[2]]>>
      BY DEF SourceTexts
    <3>2. PICK d \in DOMAIN src' : m \in MessagesOf(d, src'[d].texts)
      BY <3>1
    <3>3. PICK i \in DOMAIN src'[d].texts : m = <<d, i>>
      BY <3>2 DEF MessagesOf
    <3>4. d \in DOMAIN src /\ src'[d] = src[d]
      BY <2>3
    <3>5. p = << <<d, i>>, src[d].texts[i]>> /\ i \in DOMAIN src[d].texts
      BY <3>1, <3>3, <3>4
    <3>6. QED
      BY <3>4, <3>5, SourceHas
  <2>7. << <<c, n>>, sourceChanges'>> \notin SourceTexts'
    <3>1. \A p \in SourceTexts : p[2] \in 1 .. sourceChanges
      BY DEF TextsAgree, AllTexts
    <3>2. QED
      BY <1>1, <2>2, <2>6, <3>1
  <2>8. c \notin retired /\ DOMAIN src \subseteq DOMAIN src' \cup retired'
    BY <1>1, <2>1, <2>3
  <2>9. TextsAgree'
    BY <2>2, <2>3, <2>4, <2>5, <2>6, <2>7, <2>8, HostKeepsTexts
  <2>10. QED
    BY <2>4, <2>9
<1>6. QED
  BY <1>3, <1>4, <1>5 DEF Host

LEMMA HostKeepsVectors == ASSUME SearchInv, VectorInv, Host PROVE VectorInv'
<1>1. TextsAgree' /\ retired \subseteq retired' /\ retired' \cap DOMAIN src' = {} /\ TextsAgree
  BY HostTexts DEF VectorInv
<1>2. UNCHANGED <<convRows, msgRows, vectors, embStatus, ing, emb>>
  BY DEF Host, HostAppends, HostTransfers, HostDeletes, Change, tables
<1>3. Stored' = Stored /\ Held' = Held
  BY <1>2 DEF Stored, Held, VectorTexts, ListTexts
<1>4. VectorTypes'
  BY <1>2 DEF VectorInv, VectorTypes
<1>5. PassCovers'
  <2>1. StoredHaveRows' /\ ReadCovers'
    BY <1>2, <1>3 DEF VectorInv, PassCovers, StoredHaveRows, ReadCovers
  <2>2. \A m \in Held : m[1] \in DOMAIN src' => m[1] \in DOMAIN src
    BY <1>1, HeldIsKnown
  <2>3. ListCovers'
    BY <1>2, <1>3, <2>2 DEF VectorInv, PassCovers, ListCovers
  <2>4. QED
    BY <2>1, <2>3 DEF PassCovers
<1>6. VectorsAreWhole'
  <2>1. OwnChunks' /\ AnswersKept'
    BY <1>2 DEF VectorInv, VectorsAreWhole, OwnChunks, AnswersKept
  <2>2. \A m : (Embedded(m) => Embedded(m)') /\ (HasLeft(m) => HasLeft(m)')
    BY <1>1, <1>2 DEF Embedded, HasLeft
  <2>3. AllEmbedded'
    BY <1>2, <2>2 DEF VectorInv, VectorsAreWhole, AllEmbedded
  <2>4. QED
    BY <2>1, <2>3 DEF VectorsAreWhole
<1>7. QED
  BY <1>1, <1>4, <1>5, <1>6 DEF VectorInv

\* A pass that reads the source, and writes nothing.
LEMMA PassKeepsVectors ==
  ASSUME VectorInv, UNCHANGED <<src, retired, sourceChanges, convRows, msgRows, vectors, embStatus, emb>>,
         ReadTexts' \subseteq SourceTexts, ReadCovers', ListCovers',
         ing'.at = "write" => ing'.conv \notin retired
  PROVE  VectorInv'
<1>1. RowTexts' = RowTexts /\ VectorTexts' = VectorTexts /\ Stored' = Stored /\ Held' = Held
  BY DEF RowTexts, VectorTexts, Stored, Held, ListTexts
<1>2. IndexTexts' \subseteq AllTexts
  BY <1>1 DEF IndexTexts, AllTexts, ListTexts
<1>3. TextsAgree'
  BY <1>2, TextsKept DEF VectorInv
<1>4. VectorTypes'
  BY DEF VectorInv, VectorTypes
<1>5. PassCovers'
  BY <1>1 DEF VectorInv, PassCovers, StoredHaveRows
<1>6. VectorsAreWhole'
  <2>1. OwnChunks' /\ AnswersKept'
    BY DEF VectorInv, VectorsAreWhole, OwnChunks, AnswersKept
  <2>2. \A m : (Embedded(m) => Embedded(m)') /\ (HasLeft(m) => HasLeft(m)')
    BY DEF Embedded, HasLeft
  <2>3. AllEmbedded'
    BY <2>2 DEF VectorInv, VectorsAreWhole, AllEmbedded
  <2>4. QED
    BY <2>1, <2>3 DEF VectorsAreWhole
<1>7. QED
  BY <1>3, <1>4, <1>5, <1>6 DEF VectorInv

LEMMA PassStartsWhole == ASSUME SearchInv, VectorInv, IngestStart PROVE VectorInv'
<1> DEFINE known == {c \in DOMAIN convRows : c \in DOMAIN src /\ convRows[c].rev = src[c].rev}
<1>1. /\ ing' = [NoPass EXCEPT !.at = "read", !.listed = src, !.stale = DOMAIN src \ known,
                              !.gone = DOMAIN convRows \ DOMAIN src]
      /\ UNCHANGED <<src, retired, sourceChanges, convRows, msgRows, vectors, embStatus, emb>>
  BY DEF IngestStart, source, tables
<1>2. known \subseteq DOMAIN convRows
  OBVIOUS
<1> HIDE DEF known
<1>3. /\ ing'.at = "read" /\ ing'.listed = src /\ ing'.stale = DOMAIN src \ known
      /\ ing'.gone = DOMAIN convRows \ DOMAIN src
  BY <1>1 DEF NoPass
<1>4. ReadTexts' \subseteq SourceTexts /\ ReadCovers'
  BY <1>3 DEF ReadTexts, ReadCovers
<1>5. ListCovers'
  BY <1>1, <1>2, <1>3 DEF ListCovers
<1>6. QED
  BY <1>1, <1>3, <1>4, <1>5, PassKeepsVectors

LEMMA PassReadsWhole == ASSUME SearchInv, VectorInv, IngestRead PROVE VectorInv'
<1>1. PICK c \in ing.stale :
        ing' = IF c \in DOMAIN src
               THEN [ing EXCEPT !.at = "write", !.conv = c, !.texts = src[c].texts]
               ELSE NoPass
  BY DEF IngestRead
<1>2. /\ UNCHANGED <<src, retired, sourceChanges, convRows, msgRows, vectors, embStatus, emb>> /\ ing.at = "read"
      /\ ing \in Passes /\ TextsAgree
  BY PassFields DEF IngestRead, source, tables, VectorInv
<1>3. CASE c \in DOMAIN src
  <2>1. /\ ing'.at = "write" /\ ing'.conv = c /\ ing'.texts = src[c].texts /\ ing'.listed = ing.listed
        /\ ing'.stale = ing.stale /\ ing'.gone = ing.gone
    BY <1>1, <1>2, <1>3 DEF Passes
  <2>2. ReadTexts' \subseteq SourceTexts
    BY <1>3, <2>1, SourceHas DEF ReadTexts
  <2>3. c \notin retired
    BY <1>2, <1>3 DEF TextsAgree
  <2>4. Held' = Held
    BY <1>2 DEF Held, Stored, VectorTexts, ListTexts
  <2>5. ReadCovers'
    <3>1. \A m \in Held : m[1] = c => m \in MessagesOf(c, src[c].texts)
      BY <1>2, <1>3, HeldIsKnown
    <3>2. QED
      BY <2>1, <2>4, <3>1 DEF ReadCovers
  <2>6. ListCovers'
    BY <1>2, <2>1, <2>4 DEF ListCovers, VectorInv, PassCovers
  <2>7. QED
    BY <1>2, <2>1, <2>2, <2>3, <2>5, <2>6, PassKeepsVectors
<1>4. CASE c \notin DOMAIN src
  <2>1. ing'.at = "idle"
    BY <1>1, <1>4, NoPassIsPass
  <2>2. ReadTexts' \subseteq SourceTexts /\ ReadCovers' /\ ListCovers'
    BY <2>1 DEF ReadTexts, ReadCovers, ListCovers
  <2>3. QED
    BY <1>2, <2>1, <2>2, PassKeepsVectors
<1>5. QED
  BY <1>3, <1>4

LEMMA MessagesAreFinite == ASSUME NEW c, NEW texts \in Seq(Nat) PROVE IsFiniteSet(MessagesOf(c, texts))
<1> DEFINE n == Len(texts)
           g == [i \in 1 .. n |-> <<c, i>>]
<1>1. n \in Nat /\ DOMAIN texts = 1 .. n
  OBVIOUS
<1>2. MessagesOf(c, texts) = {<<c, i>> : i \in 1 .. n}
  BY <1>1 DEF MessagesOf
<1>3. g \in Surjection(1 .. n, MessagesOf(c, texts))
  BY <1>2 DEF Surjection
<1>4. IsFiniteSet(1 .. n)
  BY <1>1, FS_Interval
<1> HIDE DEF g, n
<1>5. QED
  BY <1>3, <1>4, FS_Surjection

LEMMA ReindexKeepsVectors == ASSUME SearchInv, VectorInv, Reindex PROVE VectorInv'
<1> DEFINE c    == ing.conv
           old  == {m \in DOMAIN msgRows : m[1] = c}
           own  == MessagesOf(c, ing.texts)
           row  == [owner |-> ing.listed[c].owner, rev |-> ing.listed[c].rev]
           rows == [m \in own |-> [owner |-> ing.listed[c].owner, text |-> ing.texts[m[2]]]]
<1>1. /\ ing.at = "write" /\ msgRows' = Over(rows, Without(msgRows, old)) /\ convRows' = Over(Entry(c, row), convRows)
      /\ ing' = [ing EXCEPT !.at = "read", !.stale = @ \ {c}]
      /\ UNCHANGED <<src, retired, sourceChanges, vectors, embStatus, emb>>
  BY DEF Reindex, source
<1>2. /\ ing \in Passes /\ c \in DOMAIN ing.listed /\ ing.texts \in Seq(Nat)
      /\ TextsAgree /\ VectorTypes /\ PassCovers /\ VectorsAreWhole
  BY <1>1, PassFields DEF VectorInv
<1>3. /\ ing'.at = "read" /\ ing'.listed = ing.listed /\ ing'.stale = ing.stale \ {c} /\ ing'.gone = ing.gone
  BY <1>1, <1>2 DEF Passes
<1>4. DOMAIN convRows' = {c} \cup DOMAIN convRows
  <2> HIDE DEF c, row
  <2>1. QED
    BY <1>1 DEF Over, Entry
<1>5. /\ DOMAIN msgRows' = own \cup (DOMAIN msgRows \ old)
      /\ \A m \in own : msgRows'[m].text = ing.texts[m[2]]
      /\ \A m \in DOMAIN msgRows \ old : m \notin own => msgRows'[m] = msgRows[m]
  <2> HIDE DEF old, own
  <2>1. Without(msgRows, old) = [m \in DOMAIN msgRows \ old |-> msgRows[m]]
    BY DEF Without
  <2>2. msgRows' = [m \in DOMAIN rows \cup DOMAIN Without(msgRows, old) |->
                      IF m \in DOMAIN rows THEN rows[m] ELSE Without(msgRows, old)[m]]
    BY <1>1 DEF Over
  <2>3. DOMAIN rows = own /\ \A m \in own : rows[m].text = ing.texts[m[2]]
    OBVIOUS
  <2> HIDE DEF rows
  <2>4. QED
    BY <2>1, <2>2, <2>3
<1>6. \A m \in own : m[1] = c
  BY DEF MessagesOf
<1> HIDE DEF rows, row
<1>7. Stored' = Stored /\ Held' \subseteq Held \cup own
  <2>1. Stored' = Stored
    BY <1>1 DEF Stored, VectorTexts, ListTexts
  <2> HIDE DEF own, old
  <2>2. DOMAIN msgRows' \subseteq DOMAIN msgRows \cup own
    BY <1>5
  <2>3. QED
    BY <2>1, <2>2 DEF Held
<1>8. TextsAgree'
  <2>1. RowTexts' \subseteq RowTexts \cup ReadTexts
    <3> SUFFICES ASSUME NEW m \in DOMAIN msgRows' PROVE <<m, msgRows'[m].text>> \in RowTexts \cup ReadTexts
      BY DEF RowTexts
    <3>1. CASE m \in own
      <4>1. PICK i \in DOMAIN ing.texts : m = <<c, i>>
        BY <3>1 DEF MessagesOf
      <4>2. <<m, msgRows'[m].text>> = << <<c, i>>, ing.texts[i]>>
        BY <1>5, <3>1, <4>1
      <4>3. QED
        BY <1>1, <4>2 DEF ReadTexts
    <3>2. CASE m \notin own
      BY <1>5, <3>2 DEF RowTexts
    <3>3. QED
      BY <3>1, <3>2
  <2>2. ReadTexts' = {} /\ VectorTexts' = VectorTexts
    BY <1>1, <1>3 DEF ReadTexts, VectorTexts
  <2>3. IndexTexts' \subseteq AllTexts
    BY <1>1, <2>1, <2>2 DEF IndexTexts, AllTexts, ListTexts
  <2>4. QED
    BY <1>1, <1>2, <2>3, TextsKept
<1>9. VectorTypes'
  <2>1. IsFiniteSet(own) /\ IsFiniteSet(DOMAIN msgRows \ old)
    BY <1>2, MessagesAreFinite, FS_Subset DEF VectorTypes
  <2> HIDE DEF own, old
  <2>2. IsFiniteSet(DOMAIN msgRows')
    BY <1>5, <2>1, FS_Union
  <2>3. QED
    BY <1>1, <1>2, <2>2 DEF VectorTypes
<1>10. PassCovers'
  <2>1. \A m \in Stored : m[1] = c => m \in own
    BY <1>1, <1>2 DEF PassCovers, ReadCovers, Held
  <2>2. StoredHaveRows'
    BY <1>2, <1>4, <1>5, <1>7, <2>1 DEF PassCovers, StoredHaveRows
  <2>3. ReadCovers'
    BY <1>3 DEF ReadCovers
  <2>4. ListCovers'
    <3>1. /\ DOMAIN ing.listed \subseteq ing.stale \cup DOMAIN convRows /\ ing.gone \cap DOMAIN ing.listed = {}
          /\ \A m \in Held : m[1] \in DOMAIN src => m[1] \in DOMAIN ing.listed
      BY <1>1, <1>2 DEF PassCovers, ListCovers
    <3>2. \A m \in Held' : m[1] \in DOMAIN src' => m[1] \in DOMAIN ing.listed
      BY <1>1, <1>2, <1>6, <1>7, <3>1
    <3>3. QED
      BY <1>3, <1>4, <3>1, <3>2 DEF ListCovers
  <2>5. QED
    BY <2>2, <2>3, <2>4 DEF PassCovers
<1>11. VectorsAreWhole'
  <2>1. OwnChunks' /\ AnswersKept'
    BY <1>1, <1>2 DEF VectorsAreWhole, OwnChunks, AnswersKept
  <2>2. \A m : (Embedded(m) => Embedded(m)') /\ (HasLeft(m) => HasLeft(m)')
    BY <1>1, <1>3, <1>5, <1>6 DEF Embedded, HasLeft
  <2>3. AllEmbedded'
    BY <1>1, <1>2, <2>2 DEF VectorsAreWhole, AllEmbedded
  <2>4. QED
    BY <2>1, <2>3 DEF VectorsAreWhole
<1>12. QED
  BY <1>8, <1>9, <1>10, <1>11 DEF VectorInv

LEMMA ForgetKeepsVectors == ASSUME SearchInv, VectorInv, Forget PROVE VectorInv'
<1>1. PICK c \in ing.gone :
        LET mine == {m \in DOMAIN msgRows : m[1] = c} IN
        /\ vectors' = {v \in vectors : v.msg \notin mine} /\ embStatus' = Without(embStatus, mine)
        /\ msgRows' = Without(msgRows, mine) /\ convRows' = Without(convRows, {c})
        /\ ing' = [ing EXCEPT !.gone = @ \ {c}]
  BY DEF Forget
<1> DEFINE mine == {m \in DOMAIN msgRows : m[1] = c}
<1>2. UNCHANGED <<src, retired, sourceChanges, emb>> /\ ing.at = "read"
  BY DEF Forget, source
<1>3. /\ ing \in Passes /\ TextsAgree /\ VectorTypes /\ PassCovers /\ VectorsAreWhole
  BY PassFields DEF VectorInv
<1>4. DOMAIN convRows' = DOMAIN convRows \ {c}
  BY <1>1 DEF Without
<1>5. /\ vectors' = {v \in vectors : v.msg \notin mine} /\ embStatus' = Without(embStatus, mine)
      /\ msgRows' = Without(msgRows, mine)
  BY <1>1
<1>6. \A m \in mine : m[1] = c
  OBVIOUS
<1>7. /\ ing'.at = "read" /\ ing'.listed = ing.listed /\ ing'.stale = ing.stale /\ ing'.gone = ing.gone \ {c}
  BY <1>1, <1>2, <1>3 DEF Passes
<1>8. \A m \in DOMAIN msgRows : m[1] = c => m \in mine
  OBVIOUS
<1> HIDE DEF mine
<1>9. DOMAIN msgRows' = DOMAIN msgRows \ mine /\ \A m \in DOMAIN msgRows' : msgRows'[m] = msgRows[m]
  BY <1>5 DEF Without
<1>10. DOMAIN embStatus' = DOMAIN embStatus \ mine /\ \A m \in DOMAIN embStatus' : embStatus'[m] = embStatus[m]
  BY <1>5 DEF Without
<1>11. VectorTexts' \subseteq VectorTexts /\ RowTexts' \subseteq RowTexts /\ ReadTexts' = {}
  BY <1>5, <1>7, <1>9 DEF VectorTexts, RowTexts, ReadTexts
<1>12. Stored' \subseteq Stored /\ Held' \subseteq Held
  BY <1>2, <1>9, <1>11 DEF Stored, Held, ListTexts
<1>13. TextsAgree'
  <2>1. IndexTexts' \subseteq AllTexts
    BY <1>2, <1>11 DEF IndexTexts, AllTexts, ListTexts
  <2>2. QED
    BY <1>2, <1>3, <2>1, TextsKept
<1>14. VectorTypes'
  <2>1. IsFiniteSet(DOMAIN msgRows')
    BY <1>3, <1>9, FS_Subset DEF VectorTypes
  <2>2. QED
    BY <1>2, <1>3, <2>1 DEF VectorTypes
<1>15. PassCovers'
  <2>1. StoredHaveRows'
    BY <1>3, <1>4, <1>6, <1>9, <1>12 DEF PassCovers, StoredHaveRows
  <2>2. ReadCovers'
    BY <1>7 DEF ReadCovers
  <2>3. ListCovers'
    <3>1. /\ DOMAIN ing.listed \subseteq ing.stale \cup DOMAIN convRows /\ ing.gone \cap DOMAIN ing.listed = {}
          /\ \A m \in Held : m[1] \in DOMAIN src => m[1] \in DOMAIN ing.listed
      BY <1>2, <1>3 DEF PassCovers, ListCovers
    <3>2. c \notin DOMAIN ing.listed
      BY <3>1
    <3>3. QED
      BY <1>2, <1>4, <1>7, <1>12, <3>1, <3>2 DEF ListCovers
  <2>4. QED
    BY <2>1, <2>2, <2>3 DEF PassCovers
<1>16. VectorsAreWhole'
  <2>1. OwnChunks' /\ AnswersKept'
    BY <1>2, <1>3, <1>5 DEF VectorsAreWhole, OwnChunks, AnswersKept
  <2>2. \A m \in DOMAIN embStatus' : (Embedded(m) => Embedded(m)') /\ (HasLeft(m) => HasLeft(m)')
    BY <1>2, <1>5, <1>7, <1>9, <1>10 DEF Embedded, HasLeft
  <2>3. AllEmbedded'
    BY <1>3, <1>10, <2>2 DEF VectorsAreWhole, AllEmbedded
  <2>4. QED
    BY <2>1, <2>3 DEF VectorsAreWhole
<1>17. QED
  BY <1>13, <1>14, <1>15, <1>16 DEF VectorInv

\* Only a message that has left the source for good loses its vectors at the end of a pass.
LEMMA OrphansHaveLeft == ASSUME SearchInv, VectorInv, DropOrphanedVectors PROVE VectorInv'
<1>1. /\ ing.at = "read" /\ ing.stale = {} /\ ing.gone = {}
      /\ vectors' = {v \in vectors : v.msg \in DOMAIN msgRows} /\ ing' = [ing EXCEPT !.at = "sweep"]
      /\ UNCHANGED <<src, retired, sourceChanges, convRows, msgRows, embStatus, emb>>
  BY DEF DropOrphanedVectors, source
<1>2. /\ ing \in Passes /\ TextsAgree /\ VectorTypes /\ PassCovers /\ VectorsAreWhole
  BY PassFields DEF VectorInv
<1>3. ing'.at = "sweep"
  BY <1>1, <1>2 DEF Passes
<1>4. VectorTexts' \subseteq VectorTexts /\ RowTexts' = RowTexts /\ ReadTexts' = {}
  BY <1>1, <1>3 DEF VectorTexts, RowTexts, ReadTexts
<1>5. Stored' \subseteq Stored
  BY <1>1, <1>4 DEF Stored, ListTexts
<1>6. TextsAgree'
  <2>1. IndexTexts' \subseteq AllTexts
    BY <1>1, <1>4 DEF IndexTexts, AllTexts, ListTexts
  <2>2. QED
    BY <1>1, <1>2, <2>1, TextsKept
<1>7. VectorTypes'
  BY <1>1, <1>2 DEF VectorTypes
<1>8. PassCovers'
  BY <1>1, <1>2, <1>3, <1>5 DEF PassCovers, StoredHaveRows, ReadCovers, ListCovers
<1>9. VectorsAreWhole'
  <2>1. OwnChunks' /\ AnswersKept'
    BY <1>1, <1>2 DEF VectorsAreWhole, OwnChunks, AnswersKept
  <2>2. ASSUME NEW m \in DOMAIN embStatus, m \in DOMAIN msgRows PROVE Embedded(m)'
    <3>1. Embedded(m)
      BY <1>2, <2>2 DEF VectorsAreWhole, AllEmbedded, HasLeft
    <3>2. QED
      BY <1>1, <2>2, <3>1 DEF Embedded
  <2>3. ASSUME NEW m \in DOMAIN embStatus, m \notin DOMAIN msgRows PROVE HasLeft(m)'
    <3>1. CASE HasLeft(m)
      BY <1>1, <1>3, <3>1 DEF HasLeft
    <3>2. CASE Embedded(m)
      <4>1. PICK w \in vectors : w.msg = m
        BY <3>2 DEF Embedded
      <4>2. m \in Stored
        <5> DEFINE p == <<w.msg, w.of.text>>
        <5>1. p \in VectorTexts /\ p[1] = m
          BY <4>1 DEF VectorTexts
        <5>2. QED
          BY <5>1 DEF Stored
      <4>3. m \in Held /\ m[1] \in DOMAIN src \cup retired
        BY <1>2, <4>2, HeldIsKnown DEF Held
      <4>4. m[1] \notin DOMAIN src
        <5> SUFFICES ASSUME m[1] \in DOMAIN src PROVE FALSE
          OBVIOUS
        <5>1. m[1] \in DOMAIN convRows
          BY <1>1, <1>2, <4>3 DEF PassCovers, ListCovers
        <5>2. QED
          BY <1>2, <2>3, <4>2, <5>1 DEF PassCovers, StoredHaveRows
      <4>5. QED
        BY <1>1, <1>3, <2>3, <4>3, <4>4 DEF HasLeft
    <3>3. QED
      BY <1>2, <3>1, <3>2 DEF VectorsAreWhole, AllEmbedded
  <2>4. AllEmbedded'
    BY <1>1, <2>2, <2>3 DEF AllEmbedded
  <2>5. QED
    BY <2>1, <2>4 DEF VectorsAreWhole
<1>10. QED
  BY <1>6, <1>7, <1>8, <1>9 DEF VectorInv

\* A step that takes vectors out only with all of embed_status, or none, and ends the pass or leaves it.
LEMMA DropsKeepVectors ==
  ASSUME VectorInv, DropOrphanedStatus \/ DropModel \/ Reopen PROVE VectorInv'
<1>1. /\ UNCHANGED <<src, retired, sourceChanges>>
      /\ UNCHANGED <<convRows, msgRows>> \/ (convRows' = <<>> /\ msgRows' = <<>>)
      /\ vectors' = vectors \/ (vectors' = {} /\ embStatus' = <<>>)
      /\ UNCHANGED embStatus \/ embStatus' = <<>> \/ embStatus' = Without(embStatus, DOMAIN embStatus \ DOMAIN msgRows)
      /\ (ing' = ing /\ UNCHANGED <<convRows, msgRows>>) \/ ing' = NoPass
      /\ emb' = emb \/ emb' = NoEmbed
  BY DEF DropOrphanedStatus, DropModel, Reopen, source, tables
<1>2. TextsAgree /\ VectorTypes /\ PassCovers /\ VectorsAreWhole
  BY DEF VectorInv
<1>3. DOMAIN <<>> = {} /\ (ing' = NoPass => ing'.at = "idle")
  BY NoPassIsPass
<1>4. /\ DOMAIN msgRows' \subseteq DOMAIN msgRows /\ \A m \in DOMAIN msgRows' : msgRows'[m] = msgRows[m]
      /\ (DOMAIN convRows' = DOMAIN convRows /\ msgRows' = msgRows) \/ DOMAIN convRows' = {}
  BY <1>1, <1>3
<1>5. DOMAIN embStatus' \subseteq DOMAIN embStatus /\ \A m \in DOMAIN embStatus' : embStatus'[m] = embStatus[m]
  BY <1>1, <1>3 DEF Without
<1>6. RowTexts' \subseteq RowTexts /\ VectorTexts' \subseteq VectorTexts
  BY <1>1, <1>4 DEF RowTexts, VectorTexts
<1>7. /\ ListTexts(emb.todo)' \subseteq ListTexts(emb.todo) /\ ListTexts(emb.batch)' \subseteq ListTexts(emb.batch)
  <2>1. CASE emb' = emb
    BY <2>1 DEF ListTexts
  <2>2. CASE emb' = NoEmbed
    BY <2>2, <1>3, NoEmbedIsPass DEF ListTexts
  <2>3. QED
    BY <1>1, <2>1, <2>2
<1>8. ReadTexts' \subseteq ReadTexts
  BY <1>1, <1>3 DEF ReadTexts
<1>9. TextsAgree'
  <2>1. IndexTexts' \subseteq AllTexts
    BY <1>6, <1>7, <1>8 DEF IndexTexts, AllTexts
  <2>2. QED
    BY <1>1, <1>2, <2>1, TextsKept
<1>10. Stored' \subseteq Stored /\ Held' \subseteq Held
  BY <1>4, <1>6, <1>7 DEF Stored, Held
<1>11. VectorTypes'
  <2>1. IsFiniteSet(DOMAIN msgRows')
    BY <1>2, <1>4, FS_Subset DEF VectorTypes
  <2>2. QED
    BY <1>1, <1>2, <2>1, NoEmbedIsPass DEF VectorTypes
<1>12. PassCovers'
  <2>1. StoredHaveRows'
    BY <1>2, <1>4, <1>10 DEF PassCovers, StoredHaveRows
  <2>2. CASE ing' = ing /\ UNCHANGED <<convRows, msgRows>>
    BY <1>1, <1>2, <1>10, <2>1, <2>2 DEF PassCovers, ReadCovers, ListCovers
  <2>3. CASE ing'.at = "idle"
    BY <2>1, <2>3 DEF PassCovers, ReadCovers, ListCovers
  <2>4. QED
    BY <1>1, <1>3, <2>2, <2>3
<1>13. VectorsAreWhole'
  <2>1. OwnChunks'
    BY <1>1, <1>2 DEF VectorsAreWhole, OwnChunks
  <2>2. AnswersKept'
    BY <1>1, <1>2, NoEmbedIsPass DEF VectorsAreWhole, AnswersKept
  <2>3. ASSUME NEW m \in DOMAIN embStatus' PROVE (Embedded(m) => Embedded(m)') /\ (HasLeft(m) => HasLeft(m)')
    <3>1. vectors' = vectors /\ embStatus'[m] = embStatus[m]
      BY <1>1, <1>3, <1>5
    <3>2. HasLeft(m) => HasLeft(m)'
      BY <1>1, <1>3, <1>4 DEF HasLeft
    <3>3. QED
      BY <3>1, <3>2 DEF Embedded
  <2>4. AllEmbedded'
    BY <1>2, <1>5, <2>3 DEF VectorsAreWhole, AllEmbedded
  <2>5. QED
    BY <2>1, <2>2, <2>4 DEF VectorsAreWhole
<1>14. QED
  BY <1>9, <1>11, <1>12, <1>13 DEF VectorInv

\* A pass over what is not embedded goes on with messages it has, or takes rows.
LEMMA EmbedKeepsVectors ==
  ASSUME VectorInv, UNCHANGED <<src, retired, sourceChanges, convRows, msgRows, vectors, embStatus, ing>>,
         emb' \in EmbedPasses, AnswersKept',
         ListTexts(emb'.todo) \subseteq ListTexts(emb.todo) \cup RowTexts,
         ListTexts(emb'.batch) \subseteq ListTexts(emb.batch) \cup ListTexts(emb.todo)
  PROVE  VectorInv'
<1>1. TextsAgree /\ VectorTypes /\ PassCovers /\ VectorsAreWhole
  BY DEF VectorInv
<1>2. /\ RowTexts' = RowTexts /\ VectorTexts' = VectorTexts /\ ReadTexts' = ReadTexts
      /\ ListTexts(emb.todo)' = ListTexts(emb'.todo) /\ ListTexts(emb.batch)' = ListTexts(emb'.batch)
  BY DEF RowTexts, VectorTexts, ReadTexts, ListTexts
<1>3. TextsAgree'
  <2>1. IndexTexts' \subseteq AllTexts
    BY <1>2 DEF IndexTexts, AllTexts
  <2>2. QED
    BY <1>1, <2>1, TextsKept
<1>4. \A p \in RowTexts : p[1] \in DOMAIN msgRows
  BY DEF RowTexts
<1>5. Stored' \subseteq Stored \cup DOMAIN msgRows
  BY <1>2, <1>4 DEF Stored
<1>6. Held' \subseteq Held
  BY <1>5 DEF Held
<1>7. VectorTypes'
  BY <1>1 DEF VectorTypes
<1>8. PassCovers'
  BY <1>1, <1>5, <1>6 DEF PassCovers, StoredHaveRows, ReadCovers, ListCovers
<1>9. VectorsAreWhole'
  <2>1. OwnChunks'
    BY <1>1 DEF VectorsAreWhole, OwnChunks
  <2>2. \A m : (Embedded(m) => Embedded(m)') /\ (HasLeft(m) => HasLeft(m)')
    BY DEF Embedded, HasLeft
  <2>3. AllEmbedded'
    BY <1>1, <2>2 DEF VectorsAreWhole, AllEmbedded
  <2>4. QED
    BY <2>1, <2>3 DEF VectorsAreWhole
<1>10. QED
  BY <1>3, <1>7, <1>8, <1>9 DEF VectorInv

\* No two indexed messages have the same text, so the newest of some come in one order.
LEMMA NewestListsAll ==
  ASSUME SearchInv, VectorInv, NEW S \in SUBSET DOMAIN msgRows
  PROVE  Newest(S) \in Seq(S) /\ EachOnce(Newest(S)) /\ S \subseteq Msgs /\ IsFiniteSet(S)
<1> DEFINE prior == {p \in S \X S : msgRows[p[1]].text > msgRows[p[2]].text}
<1>1. TextsAgree /\ sourceChanges \in Nat /\ IsFiniteSet(DOMAIN msgRows)
  BY DEF VectorInv, VectorTypes, SearchInv, SearchTypes
<1>2. \A m \in S : <<m, msgRows[m].text>> \in AllTexts
  BY DEF RowTexts, IndexTexts, AllTexts
<1>3. ASSUME NEW m \in S PROVE m \in Msgs /\ msgRows[m].text \in Nat
  <2> DEFINE p == <<m, msgRows[m].text>>
  <2>1. p \in AllTexts /\ p[1] = m /\ p[2] = msgRows[m].text
    BY <1>2
  <2> HIDE DEF p
  <2>2. p[1] \in Msgs /\ p[2] \in 1 .. sourceChanges
    BY <1>1, <2>1 DEF TextsAgree
  <2>3. QED
    BY <1>1, <2>1, <2>2
<1>4. ASSUME NEW m \in S, NEW n \in S, m # n PROVE msgRows[m].text # msgRows[n].text
  <2> DEFINE p == <<m, msgRows[m].text>>
             q == <<n, msgRows[n].text>>
  <2>1. p \in AllTexts /\ q \in AllTexts /\ p[1] # q[1] /\ p[2] = msgRows[m].text /\ q[2] = msgRows[n].text
    BY <1>2, <1>4
  <2> HIDE DEF p, q
  <2>2. p[2] # q[2]
    BY <1>1, <2>1 DEF TextsAgree
  <2>3. QED
    BY <2>1, <2>2
<1>5. \A m, n \in S : <<m, n>> \in prior <=> msgRows[m].text > msgRows[n].text
  OBVIOUS
<1>6. StrictOrder(S, prior)
  <2> HIDE DEF prior
  <2>1. QED
    BY <1>3, <1>4, <1>5 DEF StrictOrder
<1>7. IsFiniteSet(S)
  BY <1>1, FS_Subset
<1>8. Newest(S) = Sorted(S, prior)
  BY DEF Newest
<1> HIDE DEF prior
<1>9. Newest(S) \in Seq(S) /\ EachOnce(Newest(S))
  <2> DEFINE s == Sorted(S, prior)
  <2>1. s \in Seq(S) /\ Len(s) = Cardinality(S) /\ \A i, j \in 1 .. Cardinality(S) : s[i] = s[j] => i = j
    BY <1>6, <1>7, SortedListsAll
  <2> HIDE DEF s
  <2>2. EachOnce(s)
    BY <2>1 DEF EachOnce
  <2>3. QED
    BY <1>8, <2>1, <2>2 DEF s
<1>10. QED
  BY <1>3, <1>7, <1>9

LEMMA PendingKeepsVectors == ASSUME SearchInv, VectorInv, PendingForModel PROVE VectorInv'
<1>1. PICK o \in Owners :
        LET some == AtMost(PassLimit, Newest(Pending(o))) IN
          emb' = [NoEmbed EXCEPT !.at = "batch",
                    !.todo = [i \in DOMAIN some |-> [id |-> some[i], text |-> msgRows[some[i]].text]]]
  BY DEF PendingForModel
<1> DEFINE all  == Newest(Pending(o))
           some == AtMost(PassLimit, all)
           todo == [i \in DOMAIN some |-> [id |-> some[i], text |-> msgRows[some[i]].text]]
<1>2. UNCHANGED <<src, retired, sourceChanges, convRows, msgRows, vectors, embStatus, ing>>
  BY DEF PendingForModel, source, tables
<1>3. Pending(o) \in SUBSET DOMAIN msgRows
  BY DEF Pending
<1>4. all \in Seq(Pending(o)) /\ EachOnce(all) /\ PassLimit \in Nat
  BY <1>3, NewestListsAll, SearchBounds
<1>5. some \in Seq(Pending(o)) /\ DOMAIN some = 1 .. Len(some) /\ Len(some) \in Nat
  <2> HIDE DEF all
  <2>1. some \in Seq(Pending(o))
    BY <1>4, BeginningIsApart
  <2>2. QED
    BY <2>1
<1> HIDE DEF some
<1>6. ASSUME NEW i \in 1 .. Len(some)
      PROVE  /\ [id |-> some[i], text |-> msgRows[some[i]].text] \in Item
             /\ <<some[i], msgRows[some[i]].text>> \in RowTexts
  <2>1. some[i] \in DOMAIN msgRows
    BY <1>3, <1>5
  <2> DEFINE p == <<some[i], msgRows[some[i]].text>>
  <2>2. p \in RowTexts /\ p[1] = some[i] /\ p[2] = msgRows[some[i]].text
    BY <2>1 DEF RowTexts
  <2>3. p \in AllTexts
    BY <2>2 DEF IndexTexts, AllTexts
  <2> HIDE DEF p
  <2>4. p[1] \in Msgs /\ p[2] \in 1 .. sourceChanges
    BY <2>3 DEF VectorInv, TextsAgree
  <2>5. some[i] \in Msgs /\ msgRows[some[i]].text \in Nat \ {0}
    BY <2>2, <2>4 DEF SearchInv, SearchTypes
  <2>6. QED
    BY <2>2, <2>5 DEF Item, p
<1>7. todo \in Seq(Item) /\ DOMAIN todo = 1 .. Len(some)
  <2> DEFINE item(i) == [id |-> some[i], text |-> msgRows[some[i]].text]
  <2>1. (\A i \in 1 .. Len(some) : item(i) \in Item) /\ todo = [i \in 1 .. Len(some) |-> item(i)]
    BY <1>5, <1>6
  <2> HIDE DEF item, todo
  <2>2. QED
    BY <1>5, <2>1
<1>8. ListTexts(todo) \subseteq RowTexts
  BY <1>5, <1>6 DEF ListTexts
<1>9. emb' = [NoEmbed EXCEPT !.at = "batch", !.todo = todo]
  BY <1>1 DEF some
<1> HIDE DEF todo
<1>10. emb' \in EmbedPasses /\ emb'.at = "batch" /\ emb'.todo = todo /\ emb'.batch = <<>>
  BY <1>7, <1>9, NoEmbedIsPass DEF EmbedPasses
<1>11. AnswersKept'
  BY <1>10 DEF AnswersKept
<1>12. QED
  BY <1>2, <1>8, <1>10, <1>11, NoEmbedIsPass, EmbedKeepsVectors

\* A batch is a beginning of what is to do, and not an empty one.
LEMMA FillKeepsVectors == ASSUME VectorInv, FillBatch PROVE VectorInv'
<1> DEFINE todo == emb.todo
           fits == {k \in 1 .. Len(todo) : Len(BatchTexts(todo)[k]) <= BatchSize}
           n    == Max(fits)
<1>1. /\ emb.at = "batch" /\ todo # <<>>
      /\ emb' = [emb EXCEPT !.at = "request", !.batch = SubSeq(todo, 1, n), !.todo = SubSeq(todo, n + 1, Len(todo))]
      /\ UNCHANGED <<src, retired, sourceChanges, convRows, msgRows, vectors, embStatus, ing>>
  BY DEF FillBatch, source, tables
<1>2. emb \in EmbedPasses /\ todo \in Seq(Item)
  BY DEF VectorInv, VectorTypes, EmbedPasses
<1> HIDE DEF todo
<1>3. Len(todo) \in Nat \ {0} /\ DOMAIN todo = 1 .. Len(todo) /\ todo[1] \in Item
  BY <1>1, <1>2
<1>4. 1 \in fits
  <2> DEFINE text == todo[1].text
             sent == ChunksOf(text)
             own  == [text : {text}, chunk : Nat]
             upTo == BatchTexts(todo)
  <2>1. upTo[0] = <<>> /\ upTo[1] = upTo[0] \o sent
    <3>1. upTo[0] = <<>> /\ \A i \in 1 .. Len(todo) : upTo[i] = upTo[i - 1] \o ChunksOf(todo[i].text)
      BY <1>3, BatchSteps
    <3>2. 1 \in 1 .. Len(todo) /\ 1 - 1 = 0
      BY <1>3
    <3> HIDE DEF upTo
    <3>3. QED
      BY <3>1, <3>2
  <2>2. text \in Nat
    BY <1>3 DEF Item
  <2> HIDE DEF text, upTo
  <2>3. sent \in Seq(own) /\ Len(sent) <= MaxChunks /\ Len(sent) \in Nat
    <3>1. ChunksOf(text) \in Seq([text : {text}, chunk : Nat]) /\ Len(ChunksOf(text)) \in 1 .. MaxChunks
      <4>1. /\ KeptChunks(Length(text)) \in 1 .. MaxChunks /\ Len(ChunksOf(text)) = KeptChunks(Length(text))
            /\ ChunksOf(text) \in Seq([text : {text}, chunk : Nat])
        BY <2>2, SomeChunks
      <4>2. QED
        BY <4>1
    <3>2. MaxChunks \in Nat
      BY SearchBounds
    <3> HIDE DEF own
    <3>3. Len(sent) <= MaxChunks /\ Len(sent) \in Nat
      BY <3>1, <3>2
    <3>4. QED
      BY <3>1, <3>3 DEF own
  <2> HIDE DEF sent, own
  <2>4. upTo[1] = sent
    BY <2>1, <2>3
  <2>5. Len(sent) <= BatchSize
    BY <2>3, SearchBounds
  <2>6. QED
    BY <1>3, <2>4, <2>5 DEF upTo
<1>5. n \in 1 .. Len(todo)
  <2>1. fits \subseteq Nat /\ fits # {} /\ (\A k \in fits : k <= Len(todo)) /\ fits \subseteq 1 .. Len(todo)
    BY <1>3, <1>4
  <2> HIDE DEF fits
  <2>2. n \in fits
    BY <1>3, <2>1, GreatestOfNats
  <2>3. QED
    BY <2>1, <2>2
<1> HIDE DEF n
<1> DEFINE batch == SubSeq(todo, 1, n)
           rest  == SubSeq(todo, n + 1, Len(todo))
<1>6. /\ batch \in Seq(Item) /\ DOMAIN batch = 1 .. n /\ \A i \in 1 .. n : batch[i] = todo[i] /\ i \in DOMAIN todo
  BY <1>2, <1>3, <1>5
<1>7. /\ rest \in Seq(Item) /\ DOMAIN rest = 1 .. (Len(todo) - n)
      /\ \A i \in 1 .. (Len(todo) - n) : rest[i] = todo[n + i] /\ n + i \in DOMAIN todo
  <2>1. n + 1 \in 1 .. (Len(todo) + 1) /\ Len(todo) \in Nat
    BY <1>3, <1>5
  <2>2. rest \in Seq(Item) /\ Len(rest) = Len(todo) - n
    BY <1>2, <1>5, <2>1
  <2>3. \A i \in 1 .. (Len(todo) - n) : rest[i] = todo[n + i] /\ n + i \in DOMAIN todo
    BY <1>2, <1>3, <1>5, <2>1
  <2>4. QED
    BY <2>2, <2>3
<1> HIDE DEF batch, rest
<1>8. ListTexts(batch) \subseteq ListTexts(todo) /\ ListTexts(rest) \subseteq ListTexts(todo)
  <2>1. ASSUME NEW i \in DOMAIN batch PROVE <<batch[i].id, batch[i].text>> \in ListTexts(todo)
    BY <1>6 DEF ListTexts
  <2>2. ASSUME NEW i \in DOMAIN rest PROVE <<rest[i].id, rest[i].text>> \in ListTexts(todo)
    BY <1>7 DEF ListTexts
  <2>3. QED
    BY <2>1, <2>2 DEF ListTexts
<1>9. emb' \in EmbedPasses /\ emb'.at = "request" /\ emb'.todo = rest /\ emb'.batch = batch
  <2>1. emb' = [emb EXCEPT !.at = "request", !.batch = batch, !.todo = rest]
    BY <1>1 DEF batch, rest
  <2>2. QED
    BY <1>2, <1>6, <1>7, <2>1 DEF EmbedPasses
<1>10. AnswersKept'
  BY <1>9 DEF AnswersKept
<1>11. QED
  BY <1>1, <1>8, <1>9, <1>10, EmbedKeepsVectors DEF todo

\* The answer of the endpoint is kept as the vectors of what it was sent, or the pass ends.
LEMMA EndpointKeepsVectors == ASSUME VectorInv, Endpoint PROVE VectorInv'
<1>1. UNCHANGED <<src, retired, sourceChanges, convRows, msgRows, vectors, embStatus, ing>>
  BY DEF Endpoint, EndpointFails, EndpointAnswers, source, tables
<1>2. emb \in EmbedPasses /\ emb.batch \in Seq(Item) /\ emb.todo \in Seq(Item)
  BY DEF VectorInv, VectorTypes, EmbedPasses
<1>3. CASE emb' = NoEmbed
  <2>1. AnswersKept'
    BY <1>3, NoEmbedIsPass DEF AnswersKept
  <2>2. QED
    BY <1>1, <1>3, <2>1, NoEmbedIsPass, EmbedKeepsVectors
<1>4. CASE emb' # NoEmbed
  <2> DEFINE inputs == Inputs(emb.batch)
  <2>1. PICK given \in Answers(inputs) : EndpointAnswers(given)
    BY <1>4 DEF Endpoint, EndpointFails
  <2> DEFINE vecs == [i \in DOMAIN given |-> Indexed(given)[i].of]
  <2>2. Len(given) = Len(inputs) /\ InOrder(given) /\ emb' = [emb EXCEPT !.at = "store", !.vecs = vecs]
    BY <1>4, <2>1 DEF EndpointAnswers
  <2>3. inputs \in Seq(AChunk)
    BY <1>2, BatchIsInOrder
  <2>4. vecs = inputs
    <3> HIDE DEF inputs
    <3>1. QED
      BY <2>1, <2>2, <2>3, AnswerIsInOrder
  <2> HIDE DEF vecs
  <2>5. emb' \in EmbedPasses /\ emb'.todo = emb.todo /\ emb'.batch = emb.batch /\ emb'.vecs = inputs
    BY <1>2, <2>2, <2>3, <2>4 DEF EmbedPasses
  <2>6. AnswersKept'
    BY <2>5 DEF AnswersKept
  <2>7. QED
    BY <1>1, <2>5, <2>6, EmbedKeepsVectors
<1>5. QED
  BY <1>3, <1>4

\* A message's vectors are replaced by vectors of the same text, all of them.
LEMMA StoreKeepsVectors == ASSUME SearchInv, VectorInv, StoreBatch PROVE VectorInv'
<1> DEFINE msgs == emb.batch
           ids == {b.id : b \in ToSet(msgs)}
           of(m) == CHOOSE b \in ToSet(msgs) : b.id = m
           status == [m \in ids |-> LET len == Length(of(m).text)
                                    IN [chunks |-> KeptChunks(len), total |-> TotalChunks(len)]]
<1>1. /\ emb.at = "store"
      /\ vectors' = (vectors \ Replaces(NewVectors)) \cup NewVectors
      /\ embStatus' = Over(status, embStatus)
      /\ emb' = IF emb.todo = <<>> THEN NoEmbed ELSE [NoEmbed EXCEPT !.at = "batch", !.todo = emb.todo]
      /\ UNCHANGED <<src, retired, sourceChanges, convRows, msgRows, ing>>
  BY DEF StoreBatch, source
<1>2. /\ TextsAgree /\ VectorTypes /\ PassCovers /\ VectorsAreWhole
      /\ emb \in EmbedPasses /\ msgs \in Seq(Item) /\ emb.todo \in Seq(Item)
  BY DEF VectorInv, VectorTypes, EmbedPasses
<1>3. /\ \A w \in NewVectors : \E i \in 1 .. Len(msgs) :
           \E j \in 0 .. (KeptChunks(Length(msgs[i].text)) - 1) : w = OwnVector(msgs[i], j)
      /\ \A i \in 1 .. Len(msgs) : \A j \in 0 .. (KeptChunks(Length(msgs[i].text)) - 1) :
           OwnVector(msgs[i], j) \in NewVectors
  <2>1. emb.vecs = Inputs(emb.batch)
    BY <1>1, <1>2 DEF VectorsAreWhole, AnswersKept
  <2>2. QED
    BY <1>2, <2>1, NewVectorsAreOwn
<1>4. DOMAIN msgs = 1 .. Len(msgs) /\ ToSet(msgs) = {msgs[i] : i \in 1 .. Len(msgs)}
  BY <1>2 DEF ToSet
<1>5. \A m \in ids : of(m).text = of(m).text /\ status[m] = Counts(of(m).text)
  BY DEF Counts
<1>6. ids = {msgs[i].id : i \in 1 .. Len(msgs)}
  BY <1>4
<1>7. DOMAIN status = ids
  OBVIOUS
<1> HIDE DEF status, ids
<1>8. /\ DOMAIN embStatus' = ids \cup DOMAIN embStatus
      /\ \A m \in ids : embStatus'[m] = status[m]
      /\ \A m \in DOMAIN embStatus : m \notin ids => embStatus'[m] = embStatus[m]
  BY <1>1, <1>7 DEF Over
<1>9. /\ emb' \in EmbedPasses /\ emb'.at # "store" /\ emb'.batch = <<>>
      /\ emb'.todo = emb.todo
  BY <1>1, <1>2, NoEmbedIsPass DEF EmbedPasses
<1>10. ASSUME NEW i \in 1 .. Len(msgs) PROVE of(msgs[i].id).text = msgs[i].text
  <2> DEFINE b == of(msgs[i].id)
  <2>1. b \in ToSet(msgs) /\ b.id = msgs[i].id
    BY <1>4
  <2> HIDE DEF b
  <2>2. PICK k \in 1 .. Len(msgs) : b = msgs[k]
    BY <1>4, <2>1
  <2> DEFINE p == <<msgs[k].id, msgs[k].text>>
             q == <<msgs[i].id, msgs[i].text>>
  <2>3. p \in ListTexts(msgs) /\ q \in ListTexts(msgs)
    BY <1>4 DEF ListTexts
  <2>4. p \in AllTexts /\ q \in AllTexts
    BY <2>3 DEF IndexTexts, AllTexts
  <2>5. p[1] = q[1] /\ p[2] = msgs[k].text /\ q[2] = msgs[i].text
    BY <2>1, <2>2
  <2> HIDE DEF p, q
  <2>6. p[2] = q[2]
    BY <1>2, <2>4, <2>5 DEF TextsAgree
  <2>7. QED
    BY <2>2, <2>5, <2>6 DEF b
<1> HIDE DEF of
<1>11. VectorTexts' \subseteq VectorTexts \cup ListTexts(msgs)
  <2> SUFFICES ASSUME NEW v \in vectors', v \notin vectors PROVE <<v.msg, v.of.text>> \in ListTexts(msgs)
    BY DEF VectorTexts
  <2>1. v \in NewVectors
    BY <1>1
  <2>2. PICK i \in 1 .. Len(msgs) : \E j \in 0 .. (KeptChunks(Length(msgs[i].text)) - 1) : v = OwnVector(msgs[i], j)
    BY <1>3, <2>1
  <2>3. v.msg = msgs[i].id /\ v.of.text = msgs[i].text
    BY <2>2 DEF OwnVector
  <2>4. QED
    BY <1>4, <2>3 DEF ListTexts
<1>12. /\ RowTexts' = RowTexts /\ ReadTexts' = ReadTexts
       /\ ListTexts(emb.todo)' = ListTexts(emb.todo) /\ ListTexts(emb.batch)' = {}
  BY <1>1, <1>9, NoEmbedIsPass DEF RowTexts, ReadTexts, ListTexts
<1>13. TextsAgree'
  <2>1. IndexTexts' \subseteq AllTexts
    BY <1>11, <1>12 DEF IndexTexts, AllTexts
  <2>2. QED
    BY <1>1, <1>2, <2>1, TextsKept
<1>14. Stored' \subseteq Stored /\ Held' \subseteq Held
  <2>1. Stored' \subseteq Stored
    BY <1>11, <1>12 DEF Stored
  <2>2. QED
    BY <1>1, <2>1 DEF Held
<1>15. VectorTypes'
  BY <1>1, <1>2, <1>9 DEF VectorTypes
<1>16. PassCovers'
  BY <1>1, <1>2, <1>14 DEF PassCovers, StoredHaveRows, ReadCovers, ListCovers
<1>17. OwnChunks'
  <2> SUFFICES ASSUME NEW v \in vectors'
               PROVE  /\ v.of = [text |-> v.of.text, chunk |-> v.chunk]
                      /\ v.chunk \in 0 .. (KeptChunks(Length(v.of.text)) - 1)
    BY DEF OwnChunks
  <2>1. CASE v \in vectors
    BY <1>2, <2>1 DEF VectorsAreWhole, OwnChunks
  <2>2. CASE v \in NewVectors
    <3>1. PICK i \in 1 .. Len(msgs) : \E j \in 0 .. (KeptChunks(Length(msgs[i].text)) - 1) : v = OwnVector(msgs[i], j)
      BY <1>3, <2>2
    <3>2. PICK j \in 0 .. (KeptChunks(Length(msgs[i].text)) - 1) : v = OwnVector(msgs[i], j)
      BY <3>1
    <3>3. QED
      BY <3>2 DEF OwnVector
  <2>3. QED
    BY <1>1, <2>1, <2>2
<1>18. ASSUME NEW m \in ids PROVE Embedded(m)'
  <2>1. PICK i \in 1 .. Len(msgs) : m = msgs[i].id
    BY <1>6
  <2> DEFINE many == KeptChunks(Length(msgs[i].text))
             w == OwnVector(msgs[i], 0)
  <2>2. many \in Nat \ {0}
    <3> DEFINE text == msgs[i].text
    <3>1. text \in Nat
      <4>1. msgs[i] \in Item
        BY <1>2
      <4>2. QED
        BY <4>1 DEF Item
    <3> HIDE DEF text
    <3>2. KeptChunks(Length(text)) \in 1 .. MaxChunks
      BY <3>1, SomeChunks
    <3>3. MaxChunks \in Nat
      BY SearchBounds
    <3>4. QED
      BY <3>2, <3>3 DEF text
  <2>3. \A j \in 0 .. (many - 1) : OwnVector(msgs[i], j) \in vectors'
    BY <1>1, <1>3
  <2>4. w \in vectors' /\ w.msg = m /\ w.of.text = msgs[i].text
    BY <2>1, <2>2, <2>3 DEF OwnVector
  <2>5. embStatus'[m] = Counts(msgs[i].text)
    BY <1>5, <1>8, <1>10, <2>1
  <2>6. \A j \in 0 .. (many - 1) : \E v \in vectors' : v.msg = m /\ v.chunk = j
    BY <2>1, <2>3 DEF OwnVector
  <2> HIDE DEF w
  <2>7. QED
    BY <2>4, <2>5, <2>6 DEF Embedded
<1>19. ASSUME NEW m \in DOMAIN embStatus, m \notin ids, Embedded(m) PROVE Embedded(m)'
  <2>1. \A v \in vectors : v.msg = m => v \in vectors'
    <3> SUFFICES ASSUME NEW v \in vectors, v.msg = m PROVE v \notin Replaces(NewVectors)
      BY <1>1
    <3>1. \A w \in NewVectors : w.msg \in ids
      BY <1>3, <1>6 DEF OwnVector
    <3>2. QED
      BY <1>19, <3>1 DEF Replaces
  <2>2. embStatus'[m] = embStatus[m]
    BY <1>8, <1>19
  <2>3. QED
    BY <1>19, <2>1, <2>2 DEF Embedded
<1>20. \A m : HasLeft(m) => HasLeft(m)'
  BY <1>1 DEF HasLeft
<1>21. VectorsAreWhole'
  <2>1. AllEmbedded'
    BY <1>2, <1>8, <1>18, <1>19, <1>20 DEF VectorsAreWhole, AllEmbedded
  <2>2. AnswersKept'
    BY <1>9 DEF AnswersKept
  <2>3. QED
    BY <1>17, <2>1, <2>2 DEF VectorsAreWhole
<1>22. QED
  BY <1>13, <1>15, <1>16, <1>21 DEF VectorInv

LEMMA VectorInvStep == SearchInv /\ VectorInv /\ [SearchNext]_searchVars => VectorInv'
<1> SUFFICES ASSUME SearchInv, VectorInv, [SearchNext]_searchVars PROVE VectorInv'
  OBVIOUS
<1>1. ASSUME UNCHANGED <<src, retired, sourceChanges, convRows, msgRows, vectors, embStatus, ing, emb>> PROVE VectorInv'
  <2>1. emb \in EmbedPasses /\ AnswersKept
    BY DEF VectorInv, VectorTypes, VectorsAreWhole
  <2>2. emb' \in EmbedPasses /\ AnswersKept'
    BY <1>1, <2>1 DEF AnswersKept
  <2>3. QED
    BY <1>1, <2>2, EmbedKeepsVectors
<1>2. CASE Ingest
  BY <1>2, PassStartsWhole, PassReadsWhole, ReindexKeepsVectors, ForgetKeepsVectors, OrphansHaveLeft,
     DropsKeepVectors DEF Ingest
<1>3. CASE EmbedStep
  BY <1>3, PendingKeepsVectors, FillKeepsVectors, StoreKeepsVectors DEF EmbedStep
<1>4. CASE Search
  BY <1>1, <1>4 DEF Search, SearchText, SearchSemantic, QueryFails, Hydrate, source, tables
<1>5. CASE UNCHANGED searchVars
  BY <1>1, <1>5 DEF searchVars
<1>6. QED
  BY <1>2, <1>3, <1>4, <1>5, HostKeepsVectors, EndpointKeepsVectors, DropsKeepVectors DEF SearchNext

LEMMA VectorsMatch == ASSUME SearchInv, VectorInv PROVE VectorsMatchText
<1>1. TextsAgree /\ OwnChunks /\ AllEmbedded /\ sourceChanges \in Nat
  BY DEF VectorInv, VectorsAreWhole, SearchInv, SearchTypes
<1>2. ASSUME NEW v \in vectors, v.msg \in DOMAIN msgRows
      PROVE  v.of.text = msgRows[v.msg].text /\ msgRows[v.msg].text \in Nat
  <2> DEFINE p == <<v.msg, v.of.text>>
             q == <<v.msg, msgRows[v.msg].text>>
  <2>1. p \in AllTexts /\ q \in AllTexts /\ p[1] = q[1] /\ p[2] = v.of.text /\ q[2] = msgRows[v.msg].text
    BY <1>2 DEF VectorTexts, RowTexts, IndexTexts, AllTexts
  <2> HIDE DEF p, q
  <2>2. p[2] = q[2] /\ q[2] \in 1 .. sourceChanges
    BY <1>1, <2>1 DEF TextsAgree
  <2>3. QED
    BY <1>1, <2>1, <2>2
<1>3. ASSUME NEW m \in DOMAIN embStatus \cap DOMAIN msgRows
      PROVE  LET st == embStatus[m] IN
               /\ {v.chunk : v \in {w \in vectors : w.msg = m}} = 0 .. (st.chunks - 1)
               /\ st.total = st.chunks =>
                    UNION {Chunk(Length(msgRows[m].text), i) : i \in 0 .. (st.chunks - 1)}
                      = 0 .. (Length(msgRows[m].text) - 1)
  <2>1. PICK w \in vectors :
          /\ w.msg = m /\ embStatus[m] = Counts(w.of.text)
          /\ \A j \in 0 .. (KeptChunks(Length(w.of.text)) - 1) : \E v \in vectors : v.msg = m /\ v.chunk = j
    BY <1>1 DEF AllEmbedded, Embedded, HasLeft
  <2> DEFINE text == msgRows[m].text
             many == KeptChunks(Length(text))
  <2>2. w.of.text = text /\ text \in Nat
    BY <1>2, <2>1
  <2>3. embStatus[m].chunks = many /\ embStatus[m].total = TotalChunks(Length(text))
    BY <2>1, <2>2 DEF Counts
  <2>4. {v.chunk : v \in {x \in vectors : x.msg = m}} = 0 .. (many - 1)
    <3>1. \A v \in vectors : v.msg = m => v.chunk \in 0 .. (many - 1)
      BY <1>1, <1>2 DEF OwnChunks
    <3>2. \A j \in 0 .. (many - 1) : \E v \in vectors : v.msg = m /\ v.chunk = j
      BY <2>1, <2>2
    <3> HIDE DEF many
    <3>3. QED
      BY <3>1, <3>2
  <2>5. TotalChunks(Length(text)) = many =>
          UNION {Chunk(Length(text), i) : i \in 0 .. (many - 1)} = 0 .. (Length(text) - 1)
    <3> HIDE DEF text
    <3>1. QED
      BY <2>2, ChunksCover
  <2>6. QED
    BY <2>3, <2>4, <2>5
<1>4. \A v \in vectors : v.msg \in DOMAIN msgRows => v.of = [text |-> msgRows[v.msg].text, chunk |-> v.chunk]
  BY <1>1, <1>2 DEF OwnChunks
<1>5. QED
  BY <1>3, <1>4 DEF VectorsMatchText

\* Of an indexed message, each vector is of the text that is indexed, and when it counts as
\* embedded it has them all, however Ingest, the endpoint's answers, deletions at the host and
\* rebuilds of either half fall together.
THEOREM VectorsAreTheirTexts == SearchSpec => []VectorsMatchText
<1>1. SearchInit => SearchInv /\ VectorInv
  BY SearchInvInit, VectorInvInit
<1>2. SearchInv /\ VectorInv /\ [SearchNext]_searchVars => SearchInv' /\ VectorInv'
  BY SearchInvStep, VectorInvStep
<1>3. SearchInv /\ VectorInv => VectorsMatchText
  BY VectorsMatch
<1>4. QED
  BY <1>1, <1>2, <1>3, PTL DEF SearchSpec

LEMMA IdsAreOrdered ==
  ASSUME NEW S \in SUBSET Msgs PROVE StrictOrder(S, {p \in S \X S : Before(p[1], p[2])})
<1> DEFINE prior == {p \in S \X S : Before(p[1], p[2])}
<1>1. ASSUME NEW m \in S PROVE m[1] \in Nat /\ m[2] \in Nat /\ m = <<m[1], m[2]>>
  <2>1. Convs \subseteq Nat
    BY SearchBounds
  <2>2. PICK c \in Convs, n \in Nat \ {0} : m = <<c, n>>
    BY DEF Msgs
  <2>3. QED
    BY <2>1, <2>2
<1>2. \A m, n \in S : <<m, n>> \in prior <=> Before(m, n)
  OBVIOUS
<1> HIDE DEF prior
<1>3. \A m \in S : ~Before(m, m)
  BY <1>1 DEF Before
<1>4. ASSUME NEW m \in S, NEW n \in S, m # n PROVE Before(m, n) \/ Before(n, m)
  <2>1. m[1] # n[1] \/ m[2] # n[2]
    BY <1>1, <1>4
  <2>2. QED
    BY <1>1, <2>1 DEF Before
<1>5. \A m, n, k \in S : Before(m, n) /\ Before(n, k) => Before(m, k)
  BY <1>1 DEF Before
<1>6. QED
  BY <1>2, <1>3, <1>4, <1>5 DEF StrictOrder, prior

\* Scores are compared as fractions.
Fraction == Nat \X (Nat \ {0})

LEMMA ScoresCompare ==
  ASSUME NEW x \in Fraction, NEW y \in Fraction, NEW z \in Fraction, ~Beats(x, y), ~Beats(y, z)
  PROVE  ~Beats(x, z)
<1> DEFINE a == x[1]  b == x[2]  c == y[1]  d == y[2]  e == z[1]  f == z[2]
<1>1. a \in Nat /\ b \in Nat \ {0} /\ c \in Nat /\ d \in Nat \ {0} /\ e \in Nat /\ f \in Nat \ {0}
  BY DEF Fraction
<1>2. a * d <= c * b /\ c * f <= e * d
  BY <1>1 DEF Beats
<1> HIDE DEF a, b, c, d, e, f
<1>3. \A i, j, k \in Nat : i <= j => i * k <= j * k
  OBVIOUS
<1>4. a * d \in Nat /\ c * b \in Nat /\ c * f \in Nat /\ e * d \in Nat /\ a * f \in Nat /\ e * b \in Nat
  BY <1>1
<1>5. (a * d) * f <= (c * b) * f /\ (c * f) * b <= (e * d) * b
  BY <1>1, <1>2, <1>3, <1>4
<1>6. (a * d) * f = (a * f) * d /\ (c * b) * f = (c * f) * b /\ (e * d) * b = (e * b) * d
  BY <1>1
<1>7. (a * f) * d <= (e * b) * d
  BY <1>1, <1>4, <1>5, <1>6
<1>8. \A i, j \in Nat, k \in Nat \ {0} : i * k <= j * k => i <= j
  OBVIOUS
<1>9. a * f <= e * b
  BY <1>1, <1>4, <1>7, <1>8
<1>10. QED
  BY <1>4, <1>9 DEF Beats, a, b, c, d, e, f

LEMMA ScoreIsFraction ==
  ASSUME NEW S, NEW text \in Seq(S), NEW semantic \in Seq(S), NEW m \in ToSet(text) \cup ToSet(semantic)
  PROVE  Score(text, semantic, m) \in Fraction
<1>1. \A list \in Seq(S) : m \in ToSet(list) => 60 + RankIn(list, m) \in Nat \ {0}
  <2> SUFFICES ASSUME NEW list \in Seq(S), m \in ToSet(list) PROVE 60 + RankIn(list, m) \in Nat \ {0}
    OBVIOUS
  <2>1. \E i \in DOMAIN list : list[i] = m
    BY DEF ToSet
  <2>2. RankIn(list, m) \in DOMAIN list
    BY <2>1 DEF RankIn
  <2>3. DOMAIN list = 1 .. Len(list)
    OBVIOUS
  <2>4. QED
    BY <2>2, <2>3
<1> DEFINE i == 60 + RankIn(text, m)
           j == 60 + RankIn(semantic, m)
<1>2. (m \in ToSet(text) => i \in Nat \ {0}) /\ (m \in ToSet(semantic) => j \in Nat \ {0})
  BY <1>1
<1>3. \A k, l \in Nat \ {0} : k * l \in Nat \ {0} /\ k + l \in Nat
  OBVIOUS
<1> DEFINE x == IF m \in ToSet(text) THEN i ELSE 0
           y == IF m \in ToSet(semantic) THEN j ELSE 0
<1>4. Score(text, semantic, m) = IF x = 0 THEN <<1, y>> ELSE IF y = 0 THEN <<1, x>> ELSE <<x + y, x * y>>
  BY DEF Score
<1>5. x \in Nat /\ y \in Nat /\ (x # 0 \/ y # 0)
  BY <1>2
<1> HIDE DEF x, y, i, j
<1>6. QED
  BY <1>3, <1>4, <1>5 DEF Fraction

\* The two halves' lists are fused into one that has each of their messages once.
LEMMA FusedIsApart ==
  ASSUME NEW text \in Seq(Msgs), NEW semantic \in Seq(Msgs)
  PROVE  Fuse(text, semantic) \in Seq(Msgs) /\ EachOnce(Fuse(text, semantic))
<1> DEFINE those == ToSet(text) \cup ToSet(semantic)
           score == [m \in those |-> Score(text, semantic, m)]
           ahead(m, n) == \/ Beats(score[m], score[n])
                          \/ ~Beats(score[n], score[m]) /\ Before(m, n)
           prior == {p \in those \X those : ahead(p[1], p[2])}
           byId   == {p \in those \X those : Before(p[1], p[2])}
<1>1. \A list \in Seq(Msgs) : IsFiniteSet(ToSet(list)) /\ ToSet(list) \subseteq Msgs
  <2> SUFFICES ASSUME NEW list \in Seq(Msgs) PROVE IsFiniteSet(ToSet(list)) /\ ToSet(list) \subseteq Msgs
    OBVIOUS
  <2>1. ToSet(list) = {list[i] : i \in 1 .. Len(list)} /\ Len(list) \in Nat
    BY DEF ToSet
  <2> DEFINE g == [i \in 1 .. Len(list) |-> list[i]]
  <2>2. g \in Surjection(1 .. Len(list), ToSet(list))
    BY <2>1 DEF Surjection
  <2>3. IsFiniteSet(1 .. Len(list))
    BY <2>1, FS_Interval
  <2> HIDE DEF g
  <2>4. IsFiniteSet(ToSet(list))
    BY <2>2, <2>3, FS_Surjection
  <2>5. QED
    BY <2>1, <2>4
<1>2. IsFiniteSet(those) /\ those \in SUBSET Msgs
  BY <1>1, FS_Union
<1>3. \A m \in those : score[m] \in Fraction
  BY ScoreIsFraction
<1>4. Fuse(text, semantic) = Sorted(those, prior)
  BY DEF Fuse
<1> HIDE DEF those, score
<1>5. \A m, n \in those : (<<m, n>> \in prior <=> ahead(m, n)) /\ (<<m, n>> \in byId <=> Before(m, n))
  OBVIOUS
<1>6. StrictOrder(those, byId)
  BY <1>2, IdsAreOrdered
<1>7. \A m, n \in those : ~(Beats(score[m], score[n]) /\ Beats(score[n], score[m]))
  <2> SUFFICES ASSUME NEW m \in those, NEW n \in those PROVE ~(Beats(score[m], score[n]) /\ Beats(score[n], score[m]))
    OBVIOUS
  <2> DEFINE x == score[m]
             y == score[n]
  <2>1. x[1] \in Nat /\ x[2] \in Nat /\ y[1] \in Nat /\ y[2] \in Nat
    BY <1>3 DEF Fraction
  <2> DEFINE a == x[1]
             b == x[2]
             c == y[1]
             d == y[2]
  <2> HIDE DEF x, y
  <2>2. x[1] * y[2] \in Nat /\ y[1] * x[2] \in Nat
    <3>1. a \in Nat /\ b \in Nat /\ c \in Nat /\ d \in Nat
      BY <2>1
    <3> HIDE DEF a, b, c, d
    <3>2. a * d \in Nat /\ c * b \in Nat
      BY <3>1
    <3>3. QED
      BY <3>2 DEF a, b, c, d
  <2>3. ~(Beats(x, y) /\ Beats(y, x))
    BY <2>2 DEF Beats
  <2>4. QED
    BY <2>3 DEF x, y
<1>8. \A m, n, k \in those : ~Beats(score[m], score[n]) /\ ~Beats(score[n], score[k]) => ~Beats(score[m], score[k])
  BY <1>3, ScoresCompare
<1>9. StrictOrder(those, prior)
  <2>1. \A m \in those : ~ahead(m, m)
    BY <1>5, <1>6, <1>7 DEF StrictOrder
  <2>2. \A m, n \in those : m # n => ahead(m, n) \/ ahead(n, m)
    BY <1>5, <1>6 DEF StrictOrder
  <2>3. \A m, n, k \in those : Before(m, n) /\ Before(n, k) => Before(m, k)
    BY <1>5, <1>6 DEF StrictOrder
  <2>4. ASSUME NEW m \in those, NEW n \in those, NEW k \in those, ahead(m, n), ahead(n, k) PROVE ahead(m, k)
    <3>1. ~Beats(score[n], score[m]) /\ ~Beats(score[k], score[n])
      BY <1>7, <2>4
    <3>2. ~Beats(score[k], score[m])
      BY <1>8, <3>1
    <3>3. CASE Beats(score[m], score[n]) \/ Beats(score[n], score[k])
      BY <1>8, <3>1, <3>3
    <3>4. CASE Before(m, n) /\ Before(n, k)
      BY <2>3, <3>2, <3>4
    <3>5. QED
      BY <2>4, <3>3, <3>4
  <2> HIDE DEF ahead, prior
  <2>5. QED
    BY <1>5, <2>1, <2>2, <2>4 DEF StrictOrder
<1> HIDE DEF prior
<1> DEFINE s == Sorted(those, prior)
<1>10. s \in Seq(those) /\ Len(s) = Cardinality(those) /\ \A i, j \in 1 .. Cardinality(those) : s[i] = s[j] => i = j
  BY <1>2, <1>9, SortedListsAll
<1> HIDE DEF s
<1>11. s \in Seq(Msgs) /\ EachOnce(s)
  BY <1>2, <1>10 DEF EachOnce
<1>12. QED
  BY <1>4, <1>11 DEF s

\* Those of a ranked list that are in a set.
LEMMA AmongIsApart ==
  ASSUME NEW ranked \in Seq(Msgs), EachOnce(ranked), NEW S
  PROVE  Among(ranked, S) \in Seq(S) /\ EachOnce(Among(ranked, S)) /\ Len(Among(ranked, S)) <= Len(ranked)
<1> DEFINE those  == {i \in DOMAIN ranked : ranked[i] \in S}
           prior == {p \in those \X those : p[1] < p[2]}
           places == Sorted(those, prior)
<1>1. DOMAIN ranked = 1 .. Len(ranked) /\ Len(ranked) \in Nat
  OBVIOUS
<1>2. IsFiniteSet(1 .. Len(ranked)) /\ Cardinality(1 .. Len(ranked)) = Len(ranked)
  BY <1>1, FS_Interval
<1>3. those \in SUBSET (1 .. Len(ranked)) /\ \A i \in those : ranked[i] \in S
  BY <1>1
<1>4. Among(ranked, S) = [k \in DOMAIN places |-> ranked[places[k]]]
  BY DEF Among
<1>5. \A i, j \in those : <<i, j>> \in prior <=> i < j
  OBVIOUS
<1> HIDE DEF those, prior
<1>6. IsFiniteSet(those) /\ Cardinality(those) <= Len(ranked)
  BY <1>2, <1>3, FS_Subset
<1>7. StrictOrder(those, prior)
  <2>1. \A i \in those : i \in Nat
    BY <1>3
  <2>2. QED
    BY <1>5, <2>1 DEF StrictOrder
<1>8. /\ places \in Seq(those) /\ Len(places) = Cardinality(those) /\ Cardinality(those) \in Nat
      /\ \A i, j \in 1 .. Cardinality(those) : places[i] = places[j] => i = j
  BY <1>6, <1>7, SortedListsAll
<1> HIDE DEF places
<1> DEFINE n == Cardinality(those)
           t == [k \in 1 .. n |-> ranked[places[k]]]
<1>9. Among(ranked, S) = t /\ n \in Nat /\ \A k \in 1 .. n : places[k] \in those
  BY <1>4, <1>8
<1> HIDE DEF n
<1>10. t \in Seq(S) /\ Len(t) = n
  <2> DEFINE member(k) == ranked[places[k]]
  <2>1. (\A k \in 1 .. n : member(k) \in S) /\ t = [k \in 1 .. n |-> member(k)]
    BY <1>3, <1>9
  <2> HIDE DEF member
  <2>2. QED
    BY <1>9, <2>1
<1>11. EachOnce(t)
  <2> SUFFICES ASSUME NEW i \in 1 .. n, NEW j \in 1 .. n, ranked[places[i]] = ranked[places[j]]
               PROVE  i = j
    BY <1>9, <1>10 DEF EachOnce
  <2>1. places[i] \in 1 .. Len(ranked) /\ places[j] \in 1 .. Len(ranked)
    BY <1>3, <1>9
  <2>2. places[i] = places[j]
    BY <2>1 DEF EachOnce
  <2>3. QED
    BY <1>8, <2>2 DEF n
<1>12. QED
  BY <1>6, <1>9, <1>10, <1>11 DEF n

\* The hits of a search, and what it ranked before it reads them.
OwnHits(hits, o) ==
  /\ \A i \in DOMAIN hits : hits[i].owner = o
  /\ Len(hits) <= HitLimit
  /\ \A i, j \in DOMAIN hits : hits[i].msg = hits[j].msg => i = j
QueryInv ==
  /\ qry = [at |-> qry.at, owner |-> qry.owner, text |-> qry.text, hits |-> qry.hits]
  /\ qry.text \in Seq(Msgs) /\ EachOnce(qry.text) /\ (qry.at = "hydrate" => Len(qry.text) <= HitLimit)
  /\ OwnHits(qry.hits, qry.owner)

LEMMA ReadHitsAreOwn ==
  ASSUME NEW o, NEW list \in Seq(OwnersRows(o)), EachOnce(list), Len(list) <= HitLimit
  PROVE  OwnHits(HitsOf(list), o)
<1> DEFINE hits == HitsOf(list)
           n    == Len(list)
<1>1. DOMAIN list = 1 .. n /\ n \in Nat /\ \A i \in 1 .. n : list[i] \in OwnersRows(o)
  OBVIOUS
<1>2. hits = [i \in 1 .. n |-> [msg |-> list[i], owner |-> msgRows[list[i]].owner]]
  BY <1>1 DEF HitsOf
<1> HIDE DEF hits
<1>3. DOMAIN hits = 1 .. n /\ Len(hits) = n
  BY <1>1, <1>2
<1>4. \A i \in 1 .. n : hits[i].msg = list[i] /\ hits[i].owner = msgRows[list[i]].owner
  BY <1>2
<1>5. \A i \in 1 .. n : msgRows[list[i]].owner = o
  BY <1>1 DEF OwnersRows
<1>6. \A i, j \in 1 .. n : list[i] = list[j] => i = j
  BY DEF EachOnce
<1>7. QED
  BY <1>3, <1>4, <1>5, <1>6 DEF OwnHits, hits

LEMMA SeqOfFewer == ASSUME NEW S, NEW T, S \subseteq T, NEW s \in Seq(S) PROVE s \in Seq(T)
<1>1. \A i \in 1 .. Len(s) : s[i] \in T
  OBVIOUS
<1>2. QED
  BY <1>1

\* The newest of some indexed messages, so many at most.
LEMMA NewestFew ==
  ASSUME SearchInv, VectorInv, NEW S \in SUBSET DOMAIN msgRows, NEW n \in Nat
  PROVE  /\ AtMost(n, Newest(S)) \in Seq(S) /\ AtMost(n, Newest(S)) \in Seq(Msgs)
         /\ EachOnce(AtMost(n, Newest(S))) /\ Len(AtMost(n, Newest(S))) <= n
<1> DEFINE s == Newest(S)
           t == AtMost(n, s)
<1>1. s \in Seq(S) /\ EachOnce(s) /\ S \subseteq Msgs
  BY NewestListsAll
<1> HIDE DEF s
<1>2. t \in Seq(S) /\ Len(t) <= n /\ EachOnce(t)
  BY <1>1, BeginningIsApart
<1> HIDE DEF t
<1>3. t \in Seq(Msgs)
  BY <1>1, <1>2, SeqOfFewer
<1>4. QED
  BY <1>2, <1>3 DEF s, t

LEMMA NoQueryIsOwn ==
  /\ <<>> \in Seq(Msgs) /\ EachOnce(<<>>) /\ Len(<<>>) <= HitLimit /\ \A o : OwnHits(<<>>, o)
<1>1. DOMAIN <<>> = {} /\ Len(<<>>) = 0 /\ <<>> \in Seq(Msgs)
  OBVIOUS
<1>2. HitLimit \in Nat
  BY SearchBounds
<1>3. EachOnce(<<>>) /\ \A o : OwnHits(<<>>, o)
  BY <1>1, <1>2 DEF EachOnce, OwnHits
<1>4. QED
  BY <1>1, <1>2, <1>3

LEMMA SearchTextIsOwn == ASSUME SearchInv, VectorInv, SearchText PROVE QueryInv'
<1>1. PICK o \in Owners :
        qry' = [NoQuery EXCEPT !.at = "semantic", !.owner = o,
          !.text = AtMost(2 * HitLimit, Newest({m \in OwnersRows(o) : WordMatch(msgRows[m].text)}))]
  BY DEF SearchText
<1> DEFINE S == {m \in OwnersRows(o) : WordMatch(msgRows[m].text)}
           text == AtMost(2 * HitLimit, Newest(S))
<1>2. qry' = [at |-> "semantic", owner |-> o, text |-> text, hits |-> <<>>]
  BY <1>1 DEF NoQuery
<1>3. S \in SUBSET DOMAIN msgRows
  BY DEF OwnersRows
<1>4. 2 * HitLimit \in Nat
  BY SearchBounds
<1> HIDE DEF S
<1>5. text \in Seq(Msgs) /\ EachOnce(text)
  BY <1>3, <1>4, NewestFew
<1> HIDE DEF text
<1>6. QED
  BY <1>2, <1>5, NoQueryIsOwn DEF QueryInv

LEMMA SearchSemanticIsOwn == ASSUME SearchInv, VectorInv, QueryInv, SearchSemantic PROVE QueryInv'
<1> DEFINE scanned == AtMost(2 * HitLimit, Scanned(qry.owner))
           literal == {m \in OwnersRows(qry.owner) : SubstringMatch(msgRows[m].text)}
<1>1. PICK semantic \in {<<>>, scanned} :
        qry' = IF qry.text = <<>> /\ semantic = <<>>
               THEN [NoQuery EXCEPT !.owner = qry.owner, !.hits = HitsOf(AtMost(HitLimit, Newest(literal)))]
               ELSE [qry EXCEPT !.at = "hydrate", !.text = AtMost(HitLimit, Fuse(@, semantic))]
  BY DEF SearchSemantic
<1>2. HitLimit \in Nat /\ 2 * HitLimit \in Nat
  BY SearchBounds
<1>3. CASE qry.text = <<>> /\ semantic = <<>>
  <2> DEFINE list == AtMost(HitLimit, Newest(literal))
  <2>1. qry' = [at |-> "idle", owner |-> qry.owner, text |-> <<>>, hits |-> HitsOf(list)]
    BY <1>1, <1>3 DEF NoQuery
  <2>2. literal \in SUBSET DOMAIN msgRows /\ literal \subseteq OwnersRows(qry.owner)
    BY DEF OwnersRows
  <2> HIDE DEF literal
  <2>3. list \in Seq(literal) /\ EachOnce(list) /\ Len(list) <= HitLimit
    BY <1>2, <2>2, NewestFew
  <2> HIDE DEF list
  <2>4. list \in Seq(OwnersRows(qry.owner))
    BY <2>2, <2>3, SeqOfFewer
  <2>5. OwnHits(HitsOf(list), qry.owner)
    BY <2>3, <2>4, ReadHitsAreOwn
  <2>6. QED
    BY <2>1, <2>5, NoQueryIsOwn DEF QueryInv
<1>4. CASE ~(qry.text = <<>> /\ semantic = <<>>)
  <2>1. qry.text \in Seq(Msgs)
    BY DEF QueryInv
  <2>2. semantic \in Seq(Msgs)
    <3>1. CASE semantic = <<>>
      BY <3>1
    <3>2. CASE semantic = scanned
      <4> DEFINE those == {m \in OwnersRows(qry.owner) : \E v \in vectors : v.msg = m}
                 prior == {p \in those \X those : Before(p[1], p[2])}
                 s == Sorted(those, prior)
      <4>1. those \in SUBSET DOMAIN msgRows
        BY DEF OwnersRows
      <4>2. Scanned(qry.owner) = s
        BY DEF Scanned
      <4> HIDE DEF those
      <4>3. those \in SUBSET Msgs /\ IsFiniteSet(those)
        BY <4>1, NewestListsAll
      <4>4. StrictOrder(those, prior)
        BY <4>3, IdsAreOrdered
      <4> HIDE DEF prior
      <4>5. s \in Seq(those) /\ Len(s) = Cardinality(those) /\ \A i, j \in 1 .. Cardinality(those) : s[i] = s[j] => i = j
        BY <4>3, <4>4, SortedListsAll
      <4> HIDE DEF s
      <4>6. s \in Seq(Msgs) /\ EachOnce(s)
        BY <4>3, <4>5, SeqOfFewer DEF EachOnce
      <4>7. AtMost(2 * HitLimit, s) \in Seq(Msgs)
        BY <1>2, <4>6, BeginningIsApart
      <4>8. QED
        BY <3>2, <4>2, <4>7
    <3>3. QED
      BY <1>1, <3>1, <3>2
  <2> DEFINE fused == Fuse(qry.text, semantic)
             text  == AtMost(HitLimit, fused)
  <2>3. fused \in Seq(Msgs) /\ EachOnce(fused)
    BY <2>1, <2>2, FusedIsApart
  <2> HIDE DEF fused
  <2>4. text \in Seq(Msgs) /\ EachOnce(text) /\ Len(text) <= HitLimit
    BY <1>2, <2>3, BeginningIsApart
  <2>5. qry' = [qry EXCEPT !.at = "hydrate", !.text = text]
    BY <1>1, <1>4 DEF fused
  <2> HIDE DEF text
  <2>6. qry' = [at |-> "hydrate", owner |-> qry.owner, text |-> text, hits |-> qry.hits]
    <3>1. qry = [at |-> qry.at, owner |-> qry.owner, text |-> qry.text, hits |-> qry.hits]
      BY DEF QueryInv
    <3>2. QED
      BY <2>5, <3>1
  <2>7. OwnHits(qry.hits, qry.owner)
    BY DEF QueryInv
  <2>8. QED
    BY <2>4, <2>6, <2>7 DEF QueryInv
<1>5. QED
  BY <1>3, <1>4

LEMMA HydrateIsOwn == ASSUME QueryInv, Hydrate PROVE QueryInv'
<1> DEFINE list == Among(qry.text, OwnersRows(qry.owner))
<1>1. qry' = [at |-> "idle", owner |-> qry.owner, text |-> <<>>, hits |-> HitsOf(list)] /\ qry.at = "hydrate"
  BY DEF Hydrate, Hydrated, NoQuery
<1>2. qry.text \in Seq(Msgs) /\ EachOnce(qry.text) /\ Len(qry.text) <= HitLimit
  BY <1>1 DEF QueryInv
<1>3. list \in Seq(OwnersRows(qry.owner)) /\ EachOnce(list) /\ Len(list) <= Len(qry.text)
  BY <1>2, AmongIsApart
<1> HIDE DEF list
<1>4. Len(list) <= HitLimit
  <2>1. Len(list) \in Nat /\ Len(qry.text) \in Nat /\ HitLimit \in Nat
    BY <1>2, <1>3, SearchBounds
  <2>2. QED
    BY <1>2, <1>3, <2>1
<1>5. OwnHits(HitsOf(list), qry.owner)
  BY <1>3, <1>4, ReadHitsAreOwn
<1>6. QED
  BY <1>1, <1>5, NoQueryIsOwn DEF QueryInv

LEMMA QueryInvInit == SearchInit => QueryInv
<1> SUFFICES ASSUME SearchInit PROVE QueryInv
  OBVIOUS
<1>1. qry = [at |-> "idle", owner |-> 0, text |-> <<>>, hits |-> <<>>]
  BY DEF SearchInit, NoQuery
<1>2. QED
  BY <1>1, NoQueryIsOwn DEF QueryInv

LEMMA QueryInvStep == SearchInv /\ VectorInv /\ QueryInv /\ [SearchNext]_searchVars => QueryInv'
<1> SUFFICES ASSUME SearchInv, VectorInv, QueryInv, [SearchNext]_searchVars PROVE QueryInv'
  OBVIOUS
<1>1. CASE UNCHANGED qry
  BY <1>1 DEF QueryInv
<1>2. CASE qry' = NoQuery
  <2>1. qry' = [at |-> "idle", owner |-> 0, text |-> <<>>, hits |-> <<>>]
    BY <1>2 DEF NoQuery
  <2>2. QED
    BY <2>1, NoQueryIsOwn DEF QueryInv
<1>3. CASE SearchText \/ SearchSemantic \/ Hydrate
  BY <1>3, SearchTextIsOwn, SearchSemanticIsOwn, HydrateIsOwn
<1>4. UNCHANGED qry \/ qry' = NoQuery \/ SearchText \/ SearchSemantic \/ Hydrate
  <2>1. CASE Host
    BY <2>1 DEF Host, HostAppends, HostTransfers, HostDeletes, Change
  <2>2. CASE Ingest
    BY <2>2 DEF Ingest, IngestStart, IngestRead, Reindex, Forget, DropOrphanedVectors, DropOrphanedStatus
  <2>3. CASE EmbedStep
    BY <2>3 DEF EmbedStep, PendingForModel, FillBatch, StoreBatch
  <2>4. CASE Endpoint
    BY <2>4 DEF Endpoint, EndpointFails, EndpointAnswers
  <2>5. CASE DropModel \/ Reopen \/ QueryFails
    BY <2>5 DEF DropModel, Reopen, QueryFails
  <2>6. CASE UNCHANGED searchVars
    BY <2>6 DEF searchVars
  <2>7. QED
    BY <2>1, <2>2, <2>3, <2>4, <2>5, <2>6 DEF SearchNext, Search
<1>5. QED
  BY <1>1, <1>2, <1>3, <1>4

\* What a search answers was its owner's when it was read, each message once and no more than
\* were asked for, whatever moved between the ranking and the reading.
THEOREM HitsAreOnlyTheOwners == SearchSpec => []HitsAreTheOwners
<1>1. SearchInit => SearchInv /\ VectorInv /\ QueryInv
  BY SearchInvInit, VectorInvInit, QueryInvInit
<1>2. SearchInv /\ VectorInv /\ QueryInv /\ [SearchNext]_searchVars => SearchInv' /\ VectorInv' /\ QueryInv'
  BY SearchInvStep, VectorInvStep, QueryInvStep
<1>3. QueryInv => HitsAreTheOwners
  BY DEF QueryInv, OwnHits, HitsAreTheOwners
<1>4. QED
  BY <1>1, <1>2, <1>3, PTL DEF SearchSpec

(* The context window ******************************************************)

Rooted(ns) == Len(ns) \in Nat /\ \A i \in 1 .. Len(ns) : ns[i].parent \in 0 .. i - 1

LEMMA PathsExist ==
  ASSUME NEW ns, Rooted(ns)
  PROVE  \E f : f = [i \in 0 .. Len(ns) |-> IF i = 0 THEN <<>> ELSE Append(f[ns[i].parent], i)]
<1> DEFINE Paths(f, k) == f = [i \in 0 .. k |-> IF i = 0 THEN <<>> ELSE Append(f[ns[i].parent], i)]
           T == {k \in 0 .. Len(ns) : ~\E f : Paths(f, k)}
<1>1. Len(ns) \in Nat /\ \A i \in 1 .. Len(ns) : ns[i].parent \in 0 .. i - 1
  BY DEF Rooted
<1>2. CASE T = {}
  <2>1. Len(ns) \notin T
    BY <1>2
  <2>2. \E f : Paths(f, Len(ns))
    BY <1>1, <2>1
  <2>3. QED
    BY <2>2
<1>3. CASE T # {}
  <2>1. T \subseteq Nat
    BY <1>1
  <2>2. PICK k \in T : \A j \in T : k <= j
    <3> HIDE DEF T
    <3>1. QED
      BY <1>3, <2>1, LeastOfNats
  <2>3. CASE k = 0
    <3> DEFINE g == [i \in {0} |-> <<>>]
    <3>1. g = [i \in 0 .. 0 |-> IF i = 0 THEN <<>> ELSE Append(g[ns[i].parent], i)]
      OBVIOUS
    <3>2. Paths(g, k)
      BY <2>3, <3>1
    <3>3. QED
      BY <2>2, <3>2
  <2>4. CASE k # 0
    <3>1. k - 1 \in 0 .. Len(ns) /\ k \in 1 .. Len(ns) /\ k - 1 \notin T /\ k \in Nat
      <4>1. k \in 0 .. Len(ns)
        OBVIOUS
      <4> HIDE DEF T
      <4>2. k \in 1 .. Len(ns) /\ k \in Nat /\ ~(k <= k - 1)
        BY <1>1, <2>4, <4>1
      <4>3. k - 1 \notin T
        BY <2>2, <4>2
      <4>4. QED
        BY <1>1, <4>2, <4>3
    <3>2. PICK f : Paths(f, k - 1)
      <4>1. T = {j \in 0 .. Len(ns) : ~\E f : Paths(f, j)}
        OBVIOUS
      <4> HIDE DEF T, Paths
      <4>2. ~(~\E f : Paths(f, k - 1))
        BY <3>1, <4>1
      <4>3. QED
        BY <4>2
    <3> DEFINE h(i) == IF i = 0 THEN <<>> ELSE Append(f[ns[i].parent], i)
    <3>3. \A i \in 0 .. k - 1 : f[i] = h(i)
      <4>1. f = [i \in 0 .. k - 1 |-> h(i)]
        BY <3>2
      <4> HIDE DEF h, T, Paths
      <4>2. QED
        BY <4>1
    <3> DEFINE g == [i \in 0 .. k |-> IF i < k THEN f[i] ELSE Append(f[ns[k].parent], k)]
    <3>4. ASSUME NEW i \in 0 .. k PROVE g[i] = IF i = 0 THEN <<>> ELSE Append(g[ns[i].parent], i)
      <4>1. CASE i = 0
        <5>1. 0 \in 0 .. k - 1 /\ 0 < k
          BY <3>1
        <5>2. h(0) = <<>>
          OBVIOUS
        <5> HIDE DEF h, T, Paths
        <5>3. f[0] = <<>>
          BY <3>3, <5>1, <5>2
        <5>4. g[0] = f[0]
          BY <3>1, <5>1
        <5>5. QED
          BY <4>1, <5>3, <5>4
      <4>2. CASE i # 0
        <5>1. ns[i].parent \in 0 .. i - 1 /\ ns[i].parent \in 0 .. k /\ ns[i].parent < k
          BY <1>1, <3>1, <4>2
        <5>2. g[ns[i].parent] = f[ns[i].parent]
          BY <5>1
        <5>3. CASE i < k
          <6>1. g[i] = f[i] /\ i \in 0 .. k - 1
            BY <3>1, <5>3
          <6>2. f[i] = Append(f[ns[i].parent], i)
            <7>1. h(i) = Append(f[ns[i].parent], i)
              BY <4>2
            <7> HIDE DEF h
            <7>2. QED
              BY <3>3, <6>1, <7>1
          <6>3. QED
            BY <4>2, <5>2, <6>1, <6>2
        <5>4. CASE i = k
          <6>1. g[i] = Append(f[ns[k].parent], k)
            BY <3>1, <5>4
          <6>2. QED
            BY <4>2, <5>2, <5>4, <6>1
        <5>5. QED
          BY <3>1, <5>3, <5>4
      <4>3. QED
        BY <4>1, <4>2
    <3>5. g = [i \in 0 .. k |-> IF i = 0 THEN <<>> ELSE Append(g[ns[i].parent], i)]
      <4>1. DOMAIN g = 0 .. k /\ g = [i \in 0 .. k |-> g[i]]
        OBVIOUS
      <4> HIDE DEF g
      <4>2. QED
        BY <3>4, <4>1
    <3> HIDE DEF g
    <3>6. Paths(g, k)
      BY <3>5
    <3>7. QED
      BY <2>2, <3>6
  <2>5. QED
    BY <2>3, <2>4
<1>4. QED
  BY <1>2, <1>3

LEMMA PathStep ==
  ASSUME NEW ns, Rooted(ns)
  PROVE  \A n \in 0 .. Len(ns) : PathIn(ns, n) = IF n = 0 THEN <<>> ELSE Append(PathIn(ns, ns[n].parent), n)
<1> DEFINE up == CHOOSE f : f = [i \in 0 .. Len(ns) |-> IF i = 0 THEN <<>> ELSE Append(f[ns[i].parent], i)]
<1>1. up = [i \in 0 .. Len(ns) |-> IF i = 0 THEN <<>> ELSE Append(up[ns[i].parent], i)]
  BY PathsExist
<1>2. \A n : PathIn(ns, n) = up[n]
  BY Zenon DEF PathIn
<1> HIDE DEF up
<1>3. QED
  BY <1>1, <1>2 DEF Rooted

\* The nodes of a path grow, and none is past the one it leads to.
Ascending(p, n) ==
  /\ p \in Seq(Nat) /\ \A i \in 1 .. Len(p) : p[i] \in 1 .. n
  /\ \A i, j \in 1 .. Len(p) : i < j => p[i] < p[j]

LEMMA AscendingAppend ==
  ASSUME NEW p, NEW n \in Nat, NEW k \in 0 .. n - 1, Ascending(p, k)
  PROVE  Ascending(Append(p, n), n)
<1>1. /\ p \in Seq(Nat) /\ Len(p) \in Nat /\ \A i \in 1 .. Len(p) : p[i] \in 1 .. k
      /\ \A i, j \in 1 .. Len(p) : i < j => p[i] < p[j]
  BY DEF Ascending
<1> DEFINE q == Append(p, n)
<1>2. /\ q \in Seq(Nat) /\ Len(q) = Len(p) + 1 /\ q[Len(p) + 1] = n /\ \A i \in 1 .. Len(p) : q[i] = p[i]
  BY <1>1
<1> HIDE DEF q
<1>3. ASSUME NEW i \in 1 .. Len(q) PROVE q[i] \in 1 .. n
  <2>1. CASE i = Len(p) + 1
    BY <1>2, <2>1
  <2>2. CASE i \in 1 .. Len(p)
    <3>1. q[i] \in 1 .. k
      BY <1>1, <1>2, <2>2
    <3>2. QED
      BY <3>1
  <2>3. QED
    BY <1>1, <1>2, <2>1, <2>2
<1>4. ASSUME NEW i \in 1 .. Len(q), NEW j \in 1 .. Len(q), i < j PROVE q[i] < q[j]
  <2>1. i \in 1 .. Len(p)
    BY <1>1, <1>2, <1>4
  <2>2. CASE j = Len(p) + 1
    <3>1. q[i] \in 1 .. k /\ q[j] = n
      BY <1>1, <1>2, <2>1, <2>2
    <3>2. QED
      BY <3>1
  <2>3. CASE j \in 1 .. Len(p)
    BY <1>1, <1>2, <1>4, <2>1, <2>3
  <2>4. QED
    BY <1>1, <1>2, <2>2, <2>3
<1>5. QED
  BY <1>2, <1>3, <1>4 DEF Ascending, q

LEMMA PathAscends ==
  ASSUME NEW ns, Rooted(ns)
  PROVE  \A n \in 0 .. Len(ns) : Ascending(PathIn(ns, n), n)
<1> DEFINE T == {n \in 0 .. Len(ns) : ~Ascending(PathIn(ns, n), n)}
<1>1. Len(ns) \in Nat /\ \A i \in 1 .. Len(ns) : ns[i].parent \in 0 .. i - 1
  BY DEF Rooted
<1>2. CASE T # {}
  <2>1. T \subseteq Nat
    BY <1>1
  <2>2. PICK n \in T : \A j \in T : n <= j
    <3> HIDE DEF T
    <3>1. QED
      BY <1>2, <2>1, LeastOfNats
  <2>3. n \in 0 .. Len(ns) /\ ~Ascending(PathIn(ns, n), n)
    OBVIOUS
  <2>4. PathIn(ns, n) = IF n = 0 THEN <<>> ELSE Append(PathIn(ns, ns[n].parent), n)
    BY <2>3, PathStep
  <2>5. CASE n = 0
    <3>1. Ascending(<<>>, 0)
      BY DEF Ascending
    <3>2. QED
      BY <2>3, <2>4, <2>5, <3>1
  <2>6. CASE n # 0
    <3> DEFINE k == ns[n].parent
    <3>1. n \in Nat /\ k \in 0 .. n - 1 /\ k \in 0 .. Len(ns)
      BY <1>1, <2>3, <2>6
    <3>2. Ascending(PathIn(ns, k), k)
      BY <2>2, <3>1
    <3> HIDE DEF k
    <3>3. Ascending(Append(PathIn(ns, k), n), n)
      BY <3>1, <3>2, AscendingAppend
    <3>4. QED
      BY <2>3, <2>4, <2>6, <3>3 DEF k
  <2>7. QED
    BY <2>5, <2>6
<1>3. QED
  BY <1>2

\* The nodes on a path, as a set.
On(ns, n) == ToSet(PathIn(ns, n))

LEMMA OnPath ==
  ASSUME NEW ns, Rooted(ns)
  PROVE  /\ On(ns, 0) = {}
         /\ \A n \in 1 .. Len(ns) : On(ns, n) = On(ns, ns[n].parent) \cup {n}
         /\ \A n \in 0 .. Len(ns) : On(ns, n) \subseteq 1 .. n
<1>1. Len(ns) \in Nat /\ \A i \in 1 .. Len(ns) : ns[i].parent \in 0 .. i - 1
  BY DEF Rooted
<1>2. On(ns, 0) = {}
  <2>1. PathIn(ns, 0) = <<>>
    BY <1>1, PathStep
  <2>2. QED
    BY <2>1 DEF On, ToSet
<1>3. ASSUME NEW n \in 1 .. Len(ns) PROVE On(ns, n) = On(ns, ns[n].parent) \cup {n}
  <2> DEFINE p == PathIn(ns, ns[n].parent)
  <2>1. ns[n].parent \in 0 .. Len(ns) /\ n \in 0 .. Len(ns) /\ n # 0
    BY <1>1
  <2>2. PathIn(ns, n) = Append(p, n)
    BY <2>1, PathStep
  <2>3. p \in Seq(Nat)
    BY <2>1, PathAscends DEF Ascending
  <2> HIDE DEF p
  <2>4. ToSet(Append(p, n)) = ToSet(p) \cup {n}
    <3> DEFINE q == Append(p, n)
    <3>1. /\ Len(p) \in Nat /\ DOMAIN p = 1 .. Len(p) /\ DOMAIN q = 1 .. Len(p) + 1
          /\ q[Len(p) + 1] = n /\ \A i \in 1 .. Len(p) : q[i] = p[i]
      BY <2>1, <2>3
    <3>2. \A i \in DOMAIN q : q[i] = n \/ (i \in DOMAIN p /\ q[i] = p[i])
      BY <3>1
    <3>3. Len(p) + 1 \in DOMAIN q /\ \A i \in DOMAIN p : i \in DOMAIN q /\ q[i] = p[i]
      BY <3>1
    <3> HIDE DEF q
    <3>4. ToSet(q) = ToSet(p) \cup {n}
      BY <3>1, <3>2, <3>3 DEF ToSet
    <3>5. QED
      BY <3>4 DEF q
  <2>5. QED
    BY <2>2, <2>4 DEF On, p
<1>4. ASSUME NEW n \in 0 .. Len(ns) PROVE On(ns, n) \subseteq 1 .. n
  <2>1. Ascending(PathIn(ns, n), n)
    BY PathAscends
  <2>2. QED
    BY <2>1 DEF Ascending, On, ToSet
<1>5. QED
  BY <1>2, <1>3, <1>4

\* A node's own path is the part of any path through it that leads to it.
LEMMA PathsNest ==
  ASSUME NEW ns, Rooted(ns)
  PROVE  \A n \in 0 .. Len(ns) : \A m \in On(ns, n) :
           On(ns, m) \subseteq On(ns, n) /\ \A k \in On(ns, n) : k <= m => k \in On(ns, m)
<1> DEFINE Nested(n) == \A m \in On(ns, n) :
             On(ns, m) \subseteq On(ns, n) /\ \A k \in On(ns, n) : k <= m => k \in On(ns, m)
           T == {n \in 0 .. Len(ns) : ~Nested(n)}
<1>1. Len(ns) \in Nat /\ \A i \in 1 .. Len(ns) : ns[i].parent \in 0 .. i - 1
  BY DEF Rooted
<1>2. CASE T # {}
  <2>1. T \subseteq Nat
    BY <1>1
  <2>2. PICK n \in T : \A j \in T : n <= j
    <3> HIDE DEF T
    <3>1. QED
      BY <1>2, <2>1, LeastOfNats
  <2>3. n \in 0 .. Len(ns) /\ ~Nested(n)
    OBVIOUS
  <2>4. n # 0
    BY <2>3, OnPath
  <2> DEFINE p == ns[n].parent
  <2>5. n \in 1 .. Len(ns) /\ p \in 0 .. n - 1 /\ p \in 0 .. Len(ns)
    BY <1>1, <2>3, <2>4
  <2>6. Nested(p)
    BY <2>2, <2>5
  <2>7. On(ns, n) = On(ns, p) \cup {n} /\ On(ns, p) \subseteq 1 .. p /\ On(ns, n) \subseteq 1 .. n
    BY <2>3, <2>5, OnPath
  <2> HIDE DEF p
  <2>8. ASSUME NEW m \in On(ns, n)
        PROVE  On(ns, m) \subseteq On(ns, n) /\ \A k \in On(ns, n) : k <= m => k \in On(ns, m)
    <3>1. CASE m = n
      BY <3>1
    <3>2. CASE m \in On(ns, p)
      <4>1. On(ns, m) \subseteq On(ns, n)
        BY <2>6, <2>7, <3>2
      <4>2. ASSUME NEW k \in On(ns, n), k <= m PROVE k \in On(ns, m)
        <5>1. m \in 1 .. p /\ n \in Nat /\ p < n /\ p \in Nat
          BY <2>5, <2>7, <3>2
        <5>2. k # n
          BY <4>2, <5>1
        <5>3. k \in On(ns, p)
          BY <2>7, <5>2
        <5>4. QED
          BY <2>6, <3>2, <4>2, <5>3
      <4>3. QED
        BY <4>1, <4>2
    <3>3. QED
      BY <2>7, <3>1, <3>2
  <2>9. QED
    BY <2>3, <2>8
<1>3. QED
  BY <1>2

SamePaths(ns, ms) == \A n \in 0 .. Len(ns) : PathIn(ms, n) = PathIn(ns, n)

\* A node that joins leaves every path as it was.
LEMMA PathsStay ==
  ASSUME NEW S, NEW ns, NEW x, NEW ms, ns \in Seq(S), x \in S, ms = Append(ns, x),
         Rooted(ns), x.parent \in 0 .. Len(ns)
  PROVE  /\ Rooted(ms) /\ Len(ms) = Len(ns) + 1
         /\ SamePaths(ns, ms)
<1>1. Len(ns) \in Nat /\ \A i \in 1 .. Len(ns) : ns[i].parent \in 0 .. i - 1
  BY DEF Rooted
<1>2. ms \in Seq(S) /\ Len(ms) = Len(ns) + 1 /\ ms[Len(ns) + 1] = x /\ \A i \in 1 .. Len(ns) : ms[i] = ns[i]
  OBVIOUS
<1>3. Rooted(ms)
  <2>1. ASSUME NEW i \in 1 .. Len(ms) PROVE ms[i].parent \in 0 .. i - 1
    <3>1. CASE i \in 1 .. Len(ns)
      BY <1>1, <1>2, <3>1
    <3>2. CASE i = Len(ns) + 1
      BY <1>1, <1>2, <3>2
    <3>3. QED
      BY <1>1, <1>2, <3>1, <3>2
  <2>2. QED
    BY <1>1, <1>2, <2>1 DEF Rooted
<1> DEFINE T == {n \in 0 .. Len(ns) : PathIn(ms, n) # PathIn(ns, n)}
<1>4. CASE T # {}
  <2>1. T \subseteq Nat
    BY <1>1
  <2>2. PICK n \in T : \A j \in T : n <= j
    <3> HIDE DEF T
    <3>1. QED
      BY <1>4, <2>1, LeastOfNats
  <2>3. n \in 0 .. Len(ns) /\ n \in 0 .. Len(ms) /\ PathIn(ms, n) # PathIn(ns, n)
    BY <1>1, <1>2
  <2>4. /\ PathIn(ns, n) = IF n = 0 THEN <<>> ELSE Append(PathIn(ns, ns[n].parent), n)
        /\ PathIn(ms, n) = IF n = 0 THEN <<>> ELSE Append(PathIn(ms, ms[n].parent), n)
    BY <1>3, <2>3, PathStep
  <2>5. n # 0
    BY <2>3, <2>4
  <2>6. ms[n].parent = ns[n].parent /\ ns[n].parent \in 0 .. n - 1 /\ ns[n].parent \in 0 .. Len(ns)
    BY <1>1, <1>2, <2>3, <2>5
  <2>7. PathIn(ms, ns[n].parent) = PathIn(ns, ns[n].parent)
    BY <2>2, <2>6
  <2>8. QED
    BY <2>3, <2>4, <2>6, <2>7
<1>5. \A n \in 0 .. Len(ns) : PathIn(ms, n) = PathIn(ns, n)
  BY <1>4 DEF SamePaths
<1> HIDE DEF T
<1>7. QED
  BY <1>2, <1>3, <1>5 DEF SamePaths

(* The window **************************************************************)

Said == {NoOutput} \cup {<<"shown", o>> : o \in Outputs} \cup {<<"unchanged", o>> : o \in Outputs}
Node == [parent : Nat, role : {"user", "turn", "tool"}, size : Sizes \cup {1}, says : Said]
TreeOK == nodes \in Seq(Node) /\ Rooted(nodes) /\ leaf \in 0 .. Len(nodes) /\ start \in 0 .. Len(nodes)

\* The window as a set of nodes, and as the sequence the code walks.
Shown(ns, l, s) == {n \in On(ns, l) : s \in On(ns, l) => s <= n}
WindowOf(ns, l, s) ==
  LET path == PathIn(ns, l)
  IN  IF s # 0 /\ Contains(path, s)
      THEN SubSeq(path, SelectInSeq(path, LAMBDA n : n = s), Len(path))
      ELSE path

LEMMA WindowShape ==
  ASSUME NEW ns, Rooted(ns), NEW l \in 0 .. Len(ns), NEW s \in 0 .. Len(ns)
  PROVE  Ascending(WindowOf(ns, l, s), l) /\ ToSet(WindowOf(ns, l, s)) = Shown(ns, l, s)
<1> DEFINE path == PathIn(ns, l)
           I == {i \in 1 .. Len(path) : path[i] = s}
<1>1. Ascending(path, l) /\ Len(ns) \in Nat
  BY PathAscends DEF Rooted
<1>2. /\ path \in Seq(Nat) /\ Len(path) \in Nat /\ \A i \in 1 .. Len(path) : path[i] \in 1 .. l
      /\ \A i, j \in 1 .. Len(path) : i < j => path[i] < path[j]
  BY <1>1 DEF Ascending
<1>3. On(ns, l) = {path[i] : i \in 1 .. Len(path)}
  <2>1. DOMAIN path = 1 .. Len(path)
    BY <1>2
  <2>2. On(ns, l) = ToSet(path)
    BY DEF On
  <2> HIDE DEF path
  <2>3. QED
    BY <2>1, <2>2 DEF ToSet
<1> HIDE DEF path
<1>4. CASE s # 0 /\ Contains(path, s)
  <2>1. I # {} /\ I \subseteq Nat
    BY <1>2, <1>4 DEF Contains
  <2>2. PICK k \in I : \A j \in I : k <= j
    <3> HIDE DEF I
    <3>1. QED
      BY <2>1, LeastOfNats
  <2>3. Min(I) \in I
    <3> HIDE DEF I
    <3>1. QED
      BY <2>2 DEF Min
  <2> DEFINE q == Min(I)
             w == SubSeq(path, q, Len(path))
  <2>4. WindowOf(ns, l, s) = w
    BY <1>4, <2>1 DEF WindowOf, SelectInSeq, path
  <2>5. q \in 1 .. Len(path) /\ path[q] = s
    BY <2>3
  <2> HIDE DEF q, I
  <2>6. /\ w \in Seq(Nat) /\ Len(w) = Len(path) - q + 1
        /\ \A i \in 1 .. Len(path) - q + 1 : w[i] = path[q + i - 1]
    BY <1>2, <2>5
  <2> HIDE DEF w
  <2>7. \A i \in 1 .. Len(w) : q + i - 1 \in 1 .. Len(path) /\ w[i] = path[q + i - 1]
    BY <1>2, <2>5, <2>6
  <2>8. Ascending(w, l)
    <3>1. \A i \in 1 .. Len(w) : w[i] \in 1 .. l
      BY <1>2, <2>7
    <3>2. ASSUME NEW i \in 1 .. Len(w), NEW j \in 1 .. Len(w), i < j PROVE w[i] < w[j]
      <4>1. q + i - 1 < q + j - 1
        BY <2>5, <3>2
      <4>2. QED
        BY <1>2, <2>7, <4>1
    <3>3. QED
      BY <2>6, <3>1, <3>2 DEF Ascending
  <2>9. ASSUME NEW n \in ToSet(w) PROVE n \in Shown(ns, l, s)
    <3>1. PICK i \in 1 .. Len(w) : n = w[i]
      <4>1. DOMAIN w = 1 .. Len(w)
        BY <2>6
      <4>2. QED
        BY <4>1 DEF ToSet
    <3>2. PICK t \in 1 .. Len(path) : n = path[t] /\ (q < t \/ q = t)
      <4>1. q + i - 1 \in 1 .. Len(path) /\ (q < q + i - 1 \/ q = q + i - 1)
        BY <2>5, <2>7, <3>1
      <4>2. QED
        BY <2>7, <3>1, <4>1
    <3>3. n \in On(ns, l)
      BY <1>3, <3>2
    <3>4. s <= n
      <4>1. path[q] \in Nat /\ path[t] \in Nat
        BY <1>2, <2>5, <3>2
      <4>2. CASE q < t
        <5>1. path[q] < path[t]
          BY <1>2, <2>5, <3>2, <4>2
        <5>2. QED
          BY <2>5, <3>2, <4>1, <5>1
      <4>3. CASE q = t
        BY <2>5, <3>2, <4>1, <4>3
      <4>4. QED
        BY <3>2, <4>2, <4>3
    <3>5. QED
      BY <3>3, <3>4 DEF Shown
  <2>10. ASSUME NEW n \in Shown(ns, l, s) PROVE n \in ToSet(w)
    <3>1. s \in On(ns, l)
      BY <1>3, <2>5
    <3>2. PICK i \in 1 .. Len(path) : n = path[i] /\ s <= n
      BY <1>3, <3>1 DEF Shown
    <3>3. ~(i < q)
      BY <1>2, <2>5, <3>2
    <3>4. i - q + 1 \in 1 .. Len(w) /\ q + (i - q + 1) - 1 = i
      BY <1>2, <2>5, <2>6, <3>3
    <3>5. w[i - q + 1] = n
      BY <2>7, <3>2, <3>4
    <3>6. QED
      BY <2>6, <3>4, <3>5 DEF ToSet
  <2>11. QED
    BY <2>4, <2>8, <2>9, <2>10
<1>5. CASE ~(s # 0 /\ Contains(path, s))
  <2>1. WindowOf(ns, l, s) = path
    BY <1>5 DEF WindowOf, path
  <2>2. s \notin On(ns, l)
    BY <1>2, <1>3, <1>5 DEF Contains
  <2>3. ToSet(path) = On(ns, l)
    BY DEF On, path
  <2>4. QED
    BY <1>1, <2>1, <2>2, <2>3 DEF Shown
<1>6. QED
  BY <1>4, <1>5

Window  == WindowOf(nodes, leaf, start)
Visible == Shown(nodes, leaf, start)

LEMMA WindowIsPath == windowPath = Window
  BY DEF windowPath, Window, WindowOf, PathTo, SelectInSeq

LEMMA VisibleNodes ==
  ASSUME TreeOK
  PROVE  /\ Window \in Seq(Nat) /\ ToSet(Window) = Visible /\ Visible \subseteq 1 .. Len(nodes)
         /\ \A i, j \in 1 .. Len(Window) : i < j => Window[i] < Window[j]
         /\ \A i \in 1 .. Len(Window) : Window[i] \in Visible
         /\ \A n \in Visible : \E i \in 1 .. Len(Window) : Window[i] = n
<1>1. Ascending(Window, leaf) /\ ToSet(Window) = Visible
  BY WindowShape DEF TreeOK, Window, Visible
<1>2. /\ Window \in Seq(Nat) /\ (\A i \in 1 .. Len(Window) : Window[i] \in 1 .. leaf)
      /\ \A i, j \in 1 .. Len(Window) : i < j => Window[i] < Window[j]
  BY <1>1 DEF Ascending
<1>3. DOMAIN Window = 1 .. Len(Window)
  BY <1>2
<1>4. /\ \A i \in 1 .. Len(Window) : Window[i] \in Visible
      /\ \A n \in Visible : \E i \in 1 .. Len(Window) : Window[i] = n
  BY <1>1, <1>3 DEF ToSet
<1>5. Len(nodes) \in Nat /\ leaf \in 0 .. Len(nodes)
  BY DEF TreeOK, Rooted
<1>6. Visible \subseteq 1 .. Len(nodes)
  BY <1>2, <1>4, <1>5
<1>7. QED
  BY <1>1, <1>2, <1>4, <1>6

(* Marks and what they stand for *******************************************)

Says(n, what, o) == nodes[n].says = <<what, o>>

\* What a mark repeats was said on the way to it, and after the summary that
\* hides what came before it, if one does.
MarksAnswered ==
  \A m \in 1 .. Len(nodes) : \A o \in Outputs : Says(m, "unchanged", o) =>
    \E j \in On(nodes, m) : Says(j, "shown", o) /\ (start \in On(nodes, m) => start <= j)

\* What the memory holds is in the window.
KeysAreVisible ==
  /\ keys \in Seq(Outputs)
  /\ pc # "idle" => \A k \in 1 .. Len(keys) : \E j \in Visible : Says(j, "shown", keys[k])

LEMMA MarksResolve == ASSUME TreeOK, MarksAnswered PROVE MarkersResolve
<1> SUFFICES ASSUME NEW i \in DOMAIN messages, messages[i].says # NoOutput, messages[i].says[1] = "unchanged"
             PROVE  \E j \in 1 .. i - 1 : messages[j].says = <<"shown", messages[i].says[2]>>
  BY DEF MarkersResolve
<1>1. /\ Window \in Seq(Nat) /\ Len(Window) \in Nat /\ Visible \subseteq 1 .. Len(nodes)
      /\ \A k, j \in 1 .. Len(Window) : k < j => Window[k] < Window[j]
      /\ \A k \in 1 .. Len(Window) : Window[k] \in Visible
      /\ \A n \in Visible : \E k \in 1 .. Len(Window) : Window[k] = n
  BY VisibleNodes
<1>2. DOMAIN messages = 1 .. Len(Window) /\ \A k \in 1 .. Len(Window) : messages[k].says = nodes[Window[k]].says
  BY <1>1, WindowIsPath DEF messages, messageOf
<1> DEFINE m == Window[i]
<1>3. i \in 1 .. Len(Window) /\ m \in Visible /\ m \in 1 .. Len(nodes) /\ messages[i].says = nodes[m].says
  BY <1>1, <1>2
<1> HIDE DEF m
<1>4. PICK o \in Outputs : Says(m, "unchanged", o)
  <2>1. nodes[m].says \in Said
    <3>1. nodes[m] \in Node
      BY <1>3 DEF TreeOK
    <3>2. QED
      BY <3>1 DEF Node
  <2>2. \A s \in Said : s # NoOutput /\ s[1] = "unchanged" => \E o \in Outputs : s = <<"unchanged", o>>
    BY DEF Said
  <2>3. QED
    BY <1>3, <2>1, <2>2 DEF Says
<1>5. PICK j \in On(nodes, m) : Says(j, "shown", o) /\ (start \in On(nodes, m) => start <= j)
  BY <1>3, <1>4 DEF MarksAnswered
<1>6. /\ Rooted(nodes) /\ leaf \in 0 .. Len(nodes) /\ start \in 0 .. Len(nodes) /\ Len(nodes) \in Nat
      /\ m \in On(nodes, leaf) /\ (start \in On(nodes, leaf) => start <= m)
  BY <1>3 DEF TreeOK, Visible, Shown, Rooted
<1>7. j \in On(nodes, leaf) /\ (start \in On(nodes, leaf) => start \in On(nodes, m))
  BY <1>5, <1>6, PathsNest
<1>8. j \in Visible
  BY <1>5, <1>6, <1>7 DEF Visible, Shown
<1>9. PICK k \in 1 .. Len(Window) : Window[k] = j
  BY <1>1, <1>8
<1>10. j # m
  BY <1>4, <1>5 DEF Says
<1>11. j < m
  <2>1. m \in 0 .. Len(nodes) /\ m \in Nat
    BY <1>3, <1>6
  <2>2. On(nodes, m) \subseteq 1 .. m
    BY <1>6, <2>1, OnPath
  <2>3. j \in 1 .. m
    BY <1>5, <2>2
  <2>4. QED
    BY <1>10, <2>1, <2>3
<1>12. k < i
  BY <1>1, <1>3, <1>9, <1>11 DEF m
<1>13. messages[k].says = <<"shown", messages[i].says[2]>>
  BY <1>2, <1>3, <1>4, <1>5, <1>9 DEF Says
<1>14. QED
  BY <1>3, <1>9, <1>12, <1>13

\* A node joins where the conversation is.
LEMMA NodeJoins ==
  ASSUME TreeOK, MarksAnswered, NEW role \in {"user", "turn", "tool"}, NEW size \in Sizes \cup {1},
         NEW says \in Said, add(role, size, says), start' \in {start, leaf'},
         \A o \in Outputs : says = <<"unchanged", o>> =>
            start' = start /\ \E j \in Visible : Says(j, "shown", o)
  PROVE  /\ TreeOK' /\ MarksAnswered'
         /\ leaf' \in 1 .. Len(nodes)' /\ (nodes[leaf].says)' = says
         /\ start' = start => leaf' \in Visible' /\ Visible \subseteq Visible'
         /\ \A n \in 1 .. Len(nodes) : nodes'[n] = nodes[n]
<1> DEFINE x == [parent |-> leaf, role |-> role, size |-> size, says |-> says]
<1>1. nodes' = Append(nodes, x) /\ leaf' = Len(nodes')
  BY DEF add, withNode
<1>2. /\ nodes \in Seq(Node) /\ Rooted(nodes) /\ leaf \in 0 .. Len(nodes) /\ start \in 0 .. Len(nodes)
      /\ Len(nodes) \in Nat
  BY DEF TreeOK, Rooted
<1>3. x \in Node /\ x.parent = leaf /\ x.says = says
  BY <1>2 DEF Node
<1> HIDE DEF x
<1>4. /\ Rooted(nodes') /\ Len(nodes') = Len(nodes) + 1
      /\ \A n \in 0 .. Len(nodes) : PathIn(nodes', n) = PathIn(nodes, n)
  <2>1. x.parent \in 0 .. Len(nodes)
    BY <1>2, <1>3
  <2>2. nodes' = Append(nodes, x) /\ nodes \in Seq(Node) /\ Rooted(nodes) /\ x \in Node
    BY <1>1, <1>2, <1>3
  <2>3. Rooted(nodes') /\ Len(nodes') = Len(nodes) + 1 /\ SamePaths(nodes, nodes')
    BY <2>1, <2>2, PathsStay
  <2>4. QED
    BY <2>3 DEF SamePaths
<1>5. /\ nodes' \in Seq(Node) /\ nodes'[Len(nodes) + 1] = x /\ \A n \in 1 .. Len(nodes) : nodes'[n] = nodes[n]
  BY <1>1, <1>2, <1>3
<1>6. \A n \in 0 .. Len(nodes) : On(nodes', n) = On(nodes, n)
  BY <1>4 DEF On
<1>7. On(nodes', leaf') = On(nodes, leaf) \cup {leaf'} /\ leaf' = Len(nodes) + 1 /\ leaf' \in 1 .. Len(nodes')
  <2>1. leaf' = Len(nodes) + 1 /\ leaf' \in 1 .. Len(nodes')
    BY <1>1, <1>2, <1>4
  <2>2. On(nodes', leaf') = On(nodes', nodes'[leaf'].parent) \cup {leaf'}
    BY <1>4, <2>1, OnPath
  <2>3. QED
    BY <1>2, <1>3, <1>5, <1>6, <2>1, <2>2
<1>8. TreeOK'
  BY <1>2, <1>4, <1>5, <1>7 DEF TreeOK
<1>9. \A n \in 0 .. Len(nodes) : On(nodes, n) \subseteq 1 .. n
  BY <1>2, OnPath
<1>10. ASSUME start' = start PROVE leaf' \in Visible' /\ Visible \subseteq Visible'
  <2>1. start # leaf' /\ start <= leaf'
    BY <1>2, <1>7
  <2>2. start \in On(nodes', leaf') <=> start \in On(nodes, leaf)
    BY <1>7, <2>1
  <2>3. leaf' \in Shown(nodes', leaf', start)
    BY <1>7, <2>1 DEF Shown
  <2>4. Shown(nodes, leaf, start) \subseteq Shown(nodes', leaf', start)
    BY <1>7, <2>2 DEF Shown
  <2>5. Visible' = Shown(nodes', leaf', start) /\ Visible = Shown(nodes, leaf, start)
    BY <1>10 DEF Visible
  <2>6. QED
    BY <2>3, <2>4, <2>5
<1>11. MarksAnswered'
  <2>1. ASSUME NEW m \in 1 .. Len(nodes'), NEW o \in Outputs, nodes'[m].says = <<"unchanged", o>>
        PROVE  \E j \in On(nodes', m) : nodes'[j].says = <<"shown", o>> /\ (start' \in On(nodes', m) => start' <= j)
    <3>1. CASE m \in 1 .. Len(nodes)
      <4>1. PICK j \in On(nodes, m) : nodes[j].says = <<"shown", o>> /\ (start \in On(nodes, m) => start <= j)
        BY <1>5, <2>1, <3>1 DEF MarksAnswered, Says
      <4>2. m \in 0 .. Len(nodes) /\ j \in 1 .. Len(nodes)
        BY <1>2, <1>9, <3>1
      <4>3. nodes'[j].says = <<"shown", o>> /\ On(nodes', m) = On(nodes, m)
        BY <1>5, <1>6, <4>1, <4>2
      <4>4. leaf' \notin On(nodes, m)
        BY <1>2, <1>7, <1>9, <4>2
      <4>5. QED
        BY <4>1, <4>3, <4>4
    <3>2. CASE m = leaf'
      <4>1. says = <<"unchanged", o>>
        BY <1>3, <1>5, <1>7, <2>1, <3>2
      <4>2. PICK j \in Visible : Says(j, "shown", o)
        BY <4>1
      <4>3. start' = start
        BY <4>1
      <4>4. j \in On(nodes, leaf) /\ (start \in On(nodes, leaf) => start <= j) /\ j \in 1 .. Len(nodes)
        BY <1>2, <1>9 DEF Visible, Shown
      <4>5. nodes'[j].says = <<"shown", o>> /\ j \in On(nodes', m)
        BY <1>5, <1>7, <3>2, <4>2, <4>4 DEF Says
      <4>6. start \in On(nodes', m) => start \in On(nodes, leaf)
        BY <1>2, <1>7, <3>2
      <4>7. QED
        BY <4>3, <4>4, <4>5, <4>6
    <3>3. QED
      BY <1>2, <1>4, <1>7, <3>1, <3>2
  <2>2. QED
    BY <2>1 DEF MarksAnswered, Says
<1>12. (nodes[leaf].says)' = says
  BY <1>3, <1>5, <1>7
<1>13. QED
  BY <1>5, <1>7, <1>8, <1>10, <1>11, <1>12

(* What a compaction in progress has in hand *******************************)

Msg    == [role : {"user", "turn", "tool"}, size : Sizes \cup {1}, says : Said, covers : SUBSET Nat]
Frame  == [msgs : Seq(Msg), cut : Nat]
Apart(msgs) == \A i, j \in 1 .. Len(msgs) : i # j => msgs[i].covers \cap msgs[j].covers = {}

StackOK ==
  /\ stack \in Seq(Frame) /\ (Compacting <=> stack # <<>>)
  /\ Compacting => coveredBy(stack[1].msgs) = Visible
  /\ \A d \in 1 .. Len(stack) : Apart(stack[d].msgs)
  /\ \A d \in 1 .. Len(stack) - 1 :
       /\ stack[d].cut \in 1 .. Len(stack[d].msgs)
       /\ coveredBy(stack[d + 1].msgs) = coveredBy(SubSeq(stack[d].msgs, 1, stack[d].cut))

LEMMA Covered ==
  ASSUME NEW msgs \in Seq(Msg)
  PROVE  /\ coveredBy(msgs) \in SUBSET Nat
         /\ \A n : n \in coveredBy(msgs) <=> \E i \in 1 .. Len(msgs) : n \in msgs[i].covers
<1>1. DOMAIN msgs = 1 .. Len(msgs) /\ \A i \in 1 .. Len(msgs) : msgs[i] \in Msg
  OBVIOUS
<1>2. \A m \in Msg : m.covers \in SUBSET Nat
  BY DEF Msg
<1>3. QED
  BY <1>1, <1>2 DEF coveredBy

LEMMA WindowMessages ==
  ASSUME TreeOK
  PROVE  messages \in Seq(Msg) /\ Apart(messages) /\ coveredBy(messages) = Visible
<1>1. /\ Window \in Seq(Nat) /\ Len(Window) \in Nat /\ Visible \subseteq 1 .. Len(nodes)
      /\ \A k, j \in 1 .. Len(Window) : k < j => Window[k] < Window[j]
      /\ \A k \in 1 .. Len(Window) : Window[k] \in Visible
      /\ \A n \in Visible : \E k \in 1 .. Len(Window) : Window[k] = n
  BY VisibleNodes
<1>2. messages = [k \in 1 .. Len(Window) |-> messageOf(Window[k])]
  BY <1>1, WindowIsPath DEF messages
<1>3. \A n \in 1 .. Len(nodes) : messageOf(n) \in Msg /\ messageOf(n).covers = {n}
  <2>1. ASSUME NEW n \in 1 .. Len(nodes) PROVE messageOf(n) \in Msg /\ messageOf(n).covers = {n}
    <3>1. nodes[n] \in Node /\ n \in Nat
      BY DEF TreeOK
    <3>2. QED
      BY <3>1 DEF messageOf, Msg, Node
  <2>2. QED
    BY <2>1
<1>4. \A k \in 1 .. Len(Window) : messages[k] \in Msg /\ messages[k].covers = {Window[k]}
  BY <1>1, <1>2, <1>3
<1>5. messages \in Seq(Msg) /\ Len(messages) = Len(Window)
  BY <1>1, <1>2, <1>4
<1>6. Apart(messages)
  <2>1. ASSUME NEW i \in 1 .. Len(Window), NEW j \in 1 .. Len(Window), i # j PROVE Window[i] # Window[j]
    <3>1. i < j \/ j < i
      BY <1>1, <2>1
    <3>2. Window[i] \in Nat /\ Window[j] \in Nat
      BY <1>1
    <3>3. QED
      BY <1>1, <3>1, <3>2
  <2>2. QED
    BY <1>4, <1>5, <2>1 DEF Apart
<1>7. coveredBy(messages) = Visible
  <2>1. \A n : n \in coveredBy(messages) <=> \E k \in 1 .. Len(Window) : n \in {Window[k]}
    BY <1>4, <1>5, Covered
  <2>2. ASSUME NEW n \in coveredBy(messages) PROVE n \in Visible
    <3>1. PICK k \in 1 .. Len(Window) : n \in {Window[k]}
      BY <2>1
    <3>2. QED
      BY <1>1, <3>1
  <2>3. ASSUME NEW n \in Visible PROVE n \in coveredBy(messages)
    <3>1. PICK k \in 1 .. Len(Window) : Window[k] = n
      BY <1>1
    <3>2. QED
      BY <2>1, <3>1
  <2>4. QED
    BY <2>2, <2>3
<1>8. QED
  BY <1>5, <1>6, <1>7

\* The first of some messages, and a message that stands in for them.
LEMMA FirstMessages ==
  ASSUME NEW msgs \in Seq(Msg), NEW cut \in 0 .. Len(msgs)
  PROVE  /\ SubSeq(msgs, 1, cut) \in Seq(Msg) /\ Len(SubSeq(msgs, 1, cut)) = cut
         /\ \A i \in 1 .. cut : SubSeq(msgs, 1, cut)[i] = msgs[i]
         /\ Apart(msgs) => Apart(SubSeq(msgs, 1, cut))
<1>1. /\ SubSeq(msgs, 1, cut) \in Seq(Msg) /\ Len(SubSeq(msgs, 1, cut)) = cut
      /\ \A i \in 1 .. cut : SubSeq(msgs, 1, cut)[i] = msgs[i]
  OBVIOUS
<1>2. \A i \in 1 .. cut : i \in 1 .. Len(msgs)
  OBVIOUS
<1>3. QED
  BY <1>1, <1>2 DEF Apart

LEMMA StandsIn ==
  ASSUME NEW f \in Frame, f.cut \in 1 .. Len(f.msgs), Apart(f.msgs), NEW s \in Msg,
         s.covers = coveredBy(SubSeq(f.msgs, 1, f.cut))
  PROVE  /\ standIn(f, s) \in Frame /\ Apart(standIn(f, s).msgs)
         /\ coveredBy(standIn(f, s).msgs) = coveredBy(f.msgs)
<1> DEFINE msgs == f.msgs
           cut  == f.cut
           rest == SubSeq(msgs, cut + 1, Len(msgs))
           w    == <<s>> \o rest
           head == SubSeq(msgs, 1, cut)
<1>1. msgs \in Seq(Msg) /\ Len(msgs) \in Nat /\ cut \in 1 .. Len(msgs) /\ Apart(msgs)
  BY DEF Frame
<1>2. standIn(f, s) = [msgs |-> w, cut |-> 0]
  BY DEF standIn, frame
<1> HIDE DEF msgs, cut
<1>3. /\ head \in Seq(Msg) /\ Len(head) = cut /\ \A i \in 1 .. cut : head[i] = msgs[i]
  BY <1>1, FirstMessages
<1>4. /\ rest \in Seq(Msg) /\ Len(rest) = Len(msgs) - cut
      /\ \A i \in 1 .. Len(msgs) - cut : rest[i] = msgs[cut + i]
  BY <1>1
<1>5. s.covers = coveredBy(head)
  BY DEF msgs, cut
<1> HIDE DEF head, rest
<1>6. /\ w \in Seq(Msg) /\ Len(w) = Len(msgs) - cut + 1 /\ w[1] = s
      /\ \A i \in 1 .. Len(msgs) - cut : w[i + 1] = msgs[cut + i]
  <2>1. <<s>> \in Seq(Msg) /\ Len(<<s>>) = 1 /\ <<s>>[1] = s
    OBVIOUS
  <2>2. /\ w \in Seq(Msg) /\ Len(w) = 1 + Len(rest)
        /\ \A i \in 1 .. 1 + Len(rest) : w[i] = IF i <= 1 THEN <<s>>[i] ELSE rest[i - 1]
    BY <1>4, <2>1, ConcatProperties
  <2> HIDE DEF w
  <2>3. Len(w) = Len(msgs) - cut + 1 /\ 1 \in 1 .. 1 + Len(rest)
    BY <1>1, <1>4, <2>2
  <2>4. ASSUME NEW i \in 1 .. Len(msgs) - cut PROVE w[i + 1] = msgs[cut + i]
    <3>1. i + 1 \in 1 .. 1 + Len(rest) /\ ~(i + 1 <= 1) /\ (i + 1) - 1 = i
      BY <1>1, <1>4
    <3>2. w[i + 1] = rest[i]
      BY <2>2, <3>1
    <3>3. QED
      BY <1>4, <3>2
  <2>5. w[1] = s
    BY <2>1, <2>2, <2>3
  <2>6. QED
    BY <2>2, <2>3, <2>4, <2>5
<1> HIDE DEF w
<1>7. \A i \in 1 .. Len(w) : i = 1 \/ \E k \in cut + 1 .. Len(msgs) : k = cut + i - 1 /\ w[i] = msgs[k]
  <2>1. ASSUME NEW i \in 1 .. Len(w), i # 1 PROVE \E k \in cut + 1 .. Len(msgs) : k = cut + i - 1 /\ w[i] = msgs[k]
    <3>1. i - 1 \in 1 .. Len(msgs) - cut /\ (i - 1) + 1 = i /\ cut + (i - 1) = cut + i - 1
      BY <1>1, <1>6, <2>1
    <3>2. w[i] = msgs[cut + i - 1]
      BY <1>6, <3>1
    <3>3. cut + i - 1 \in cut + 1 .. Len(msgs)
      BY <1>1, <3>1
    <3>4. QED
      BY <3>2, <3>3
  <2>2. QED
    BY <2>1
<1>8. ASSUME NEW k \in cut + 1 .. Len(msgs) PROVE \E i \in 1 .. Len(w) : w[i] = msgs[k]
  <2>1. k - cut \in 1 .. Len(msgs) - cut /\ cut + (k - cut) = k /\ (k - cut) + 1 \in 1 .. Len(w)
    BY <1>1, <1>6
  <2>2. w[(k - cut) + 1] = msgs[k]
    BY <1>6, <2>1
  <2>3. QED
    BY <2>1, <2>2
<1>9. \A n : n \in s.covers <=> \E k \in 1 .. cut : n \in msgs[k].covers
  BY <1>3, <1>5, Covered
<1>10. coveredBy(w) = coveredBy(msgs)
  <2>1. ASSUME NEW n \in coveredBy(w) PROVE n \in coveredBy(msgs)
    <3>1. PICK i \in 1 .. Len(w) : n \in w[i].covers
      BY <1>6, Covered
    <3>2. \E k \in 1 .. Len(msgs) : n \in msgs[k].covers
      <4>1. CASE i = 1
        <5>1. PICK k \in 1 .. cut : n \in msgs[k].covers
          BY <1>6, <1>9, <3>1, <4>1
        <5>2. QED
          BY <1>1, <5>1
      <4>2. CASE i # 1
        <5>1. PICK k \in cut + 1 .. Len(msgs) : w[i] = msgs[k]
          BY <1>7, <4>2
        <5>2. k \in 1 .. Len(msgs)
          BY <1>1
        <5>3. QED
          BY <3>1, <5>1, <5>2
      <4>3. QED
        BY <4>1, <4>2
    <3>3. QED
      BY <1>1, <3>2, Covered
  <2>2. ASSUME NEW n \in coveredBy(msgs) PROVE n \in coveredBy(w)
    <3>1. PICK k \in 1 .. Len(msgs) : n \in msgs[k].covers
      BY <1>1, Covered
    <3>2. CASE k \in 1 .. cut
      <4>1. n \in w[1].covers /\ 1 \in 1 .. Len(w)
        BY <1>1, <1>6, <1>9, <3>1, <3>2
      <4>2. QED
        BY <1>6, <4>1, Covered
    <3>3. CASE k \in cut + 1 .. Len(msgs)
      <4>1. \E i \in 1 .. Len(w) : n \in w[i].covers
        BY <1>8, <3>1, <3>3
      <4>2. QED
        BY <1>6, <4>1, Covered
    <3>4. QED
      BY <1>1, <3>2, <3>3
  <2>3. QED
    BY <2>1, <2>2
<1>11. Apart(w)
  <2>1. ASSUME NEW i \in 1 .. Len(w), i # 1 PROVE w[1].covers \cap w[i].covers = {}
    <3>1. PICK k \in cut + 1 .. Len(msgs) : w[i] = msgs[k]
      BY <1>7, <2>1
    <3>2. \A j \in 1 .. cut : msgs[j].covers \cap msgs[k].covers = {}
      BY <1>1 DEF Apart
    <3>3. QED
      BY <1>6, <1>9, <3>1, <3>2
  <2>2. ASSUME NEW i \in 1 .. Len(w), NEW j \in 1 .. Len(w), i # 1, j # 1, i # j
        PROVE  w[i].covers \cap w[j].covers = {}
    <3>1. PICK k \in cut + 1 .. Len(msgs) : k = cut + i - 1 /\ w[i] = msgs[k]
      BY <1>7, <2>2
    <3>2. PICK l \in cut + 1 .. Len(msgs) : l = cut + j - 1 /\ w[j] = msgs[l]
      BY <1>7, <2>2
    <3>3. k # l /\ k \in 1 .. Len(msgs) /\ l \in 1 .. Len(msgs)
      BY <1>1, <2>2, <3>1, <3>2
    <3>4. QED
      BY <1>1, <3>1, <3>2, <3>3 DEF Apart
  <2>3. QED
    BY <2>1, <2>2 DEF Apart
<1>12. QED
  <2>1. [msgs |-> w, cut |-> 0] \in Frame
    BY <1>6 DEF Frame
  <2>2. coveredBy(w) = coveredBy(f.msgs)
    BY <1>10 DEF msgs
  <2>3. QED
    BY <1>2, <1>11, <2>1, <2>2

(* The steps ***************************************************************)

WindowInv == TreeOK /\ MarksAnswered /\ KeysAreVisible /\ StackOK

LEMMA WindowInvInit == WindowInit => WindowInv
<1> SUFFICES ASSUME WindowInit PROVE WindowInv
  OBVIOUS
<1>1. nodes = <<>> /\ leaf = 0 /\ start = 0 /\ keys = <<>> /\ pc = "idle" /\ stack = <<>>
  BY DEF WindowInit
<1>2. TreeOK
  BY <1>1 DEF TreeOK, Rooted
<1>3. MarksAnswered /\ KeysAreVisible
  BY <1>1 DEF MarksAnswered, KeysAreVisible
<1>4. StackOK
  BY <1>1 DEF StackOK, Compacting
<1>5. QED
  BY <1>2, <1>3, <1>4 DEF WindowInv

\* No compaction is in progress.
LEMMA NoCompaction == ASSUME stack' = <<>>, ~Compacting' PROVE StackOK'
  BY DEF StackOK

LEMMA SameWindow ==
  ASSUME UNCHANGED <<nodes, leaf, start>>
  PROVE  /\ (TreeOK => TreeOK') /\ (MarksAnswered => MarksAnswered')
         /\ Visible' = Visible /\ messages' = messages
<1>1. (TreeOK => TreeOK') /\ (MarksAnswered => MarksAnswered')
  BY DEF TreeOK, MarksAnswered, Says
<1>2. Visible' = Visible /\ Window' = Window
  BY DEF Visible, Window
<1>3. windowPath' = windowPath
  BY DEF windowPath, PathTo, SelectInSeq
<1>4. messages' = messages
  BY <1>3 DEF messages, messageOf
<1>5. QED
  BY <1>1, <1>2, <1>4

\* What the memory holds stays in a window that grows.
LEMMA KeysStay ==
  ASSUME TreeOK, KeysAreVisible, pc # "idle", keys' = keys,
         UNCHANGED <<nodes, leaf, start>> \/
         (Visible \subseteq Visible' /\ \A n \in 1 .. Len(nodes) : nodes'[n] = nodes[n])
  PROVE  KeysAreVisible'
<1>1. keys \in Seq(Outputs) /\ \A k \in 1 .. Len(keys) : \E j \in Visible : Says(j, "shown", keys[k])
  BY DEF KeysAreVisible
<1>2. CASE UNCHANGED <<nodes, leaf, start>>
  BY <1>1, <1>2, SameWindow DEF KeysAreVisible, Says
<1>3. CASE Visible \subseteq Visible' /\ \A n \in 1 .. Len(nodes) : nodes'[n] = nodes[n]
  <2>1. Visible \subseteq 1 .. Len(nodes)
    BY VisibleNodes
  <2>2. ASSUME NEW k \in 1 .. Len(keys) PROVE \E j \in Visible' : (Says(j, "shown", keys[k]))'
    <3>1. PICK j \in Visible : Says(j, "shown", keys[k])
      BY <1>1
    <3>2. j \in Visible' /\ nodes'[j] = nodes[j]
      BY <1>3, <2>1
    <3>3. QED
      BY <3>1, <3>2 DEF Says
  <2>3. QED
    BY <1>1, <2>2 DEF KeysAreVisible
<1>4. QED
  BY <1>2, <1>3

\* A run's other steps: the tree as it was, no compaction, and a memory that is
\* kept or made anew.
LEMMA QuietStep ==
  ASSUME WindowInv, UNCHANGED <<nodes, leaf, start>>, stack' = <<>>, ~Compacting',
         keys' = keys, pc # "idle" \/ pc' = "idle"
  PROVE  WindowInv'
<1>1. TreeOK' /\ MarksAnswered' /\ StackOK'
  BY SameWindow, NoCompaction DEF WindowInv
<1>2. KeysAreVisible'
  <2>1. CASE pc # "idle"
    BY <2>1, KeysStay DEF WindowInv
  <2>2. CASE pc' = "idle"
    BY <2>2 DEF WindowInv, KeysAreVisible
  <2>3. QED
    BY <2>1, <2>2
<1>3. QED
  BY <1>1, <1>2 DEF WindowInv

\* A node joins and the window is kept.
LEMMA GrowingStep ==
  ASSUME WindowInv, NEW role \in {"user", "turn", "tool"}, NEW size \in Sizes \cup {1},
         add(role, size, NoOutput), start' = start, stack' = <<>>, ~Compacting', keys' = keys, pc # "idle"
  PROVE  WindowInv'
<1>1. NoOutput \in Said /\ \A o \in Outputs : NoOutput # <<"unchanged", o>>
  BY DEF Said, NoOutput
<1>2. /\ TreeOK' /\ MarksAnswered' /\ Visible \subseteq Visible'
      /\ \A n \in 1 .. Len(nodes) : nodes'[n] = nodes[n]
  BY <1>1, NodeJoins DEF WindowInv
<1>3. KeysAreVisible'
  BY <1>2, KeysStay DEF WindowInv
<1>4. QED
  BY <1>2, <1>3, NoCompaction DEF WindowInv

LEMMA CompactionStarts ==
  ASSUME WindowInv, NEW pos, StartCompaction(pos), pos \in {"compact", "cap-compact", "overflow-compact"},
         UNCHANGED <<nodes, leaf, start, keys>>, pc # "idle"
  PROVE  WindowInv'
<1>1. TreeOK' /\ MarksAnswered' /\ KeysAreVisible'
  BY SameWindow, KeysStay DEF WindowInv
<1>2. stack' = <<frame(messages)>> /\ pc' = pos
  BY DEF StartCompaction
<1>3. messages \in Seq(Msg) /\ Apart(messages) /\ coveredBy(messages) = Visible
  BY WindowMessages DEF WindowInv
<1>4. frame(messages) \in Frame /\ frame(messages).msgs = messages
  BY <1>3 DEF frame, Frame
<1>5. stack' \in Seq(Frame) /\ Len(stack') = 1 /\ stack'[1].msgs = messages /\ stack' # <<>>
  <2>1. \A x \in Frame : <<x>> \in Seq(Frame) /\ Len(<<x>>) = 1 /\ <<x>>[1] = x /\ <<x>> # <<>>
    OBVIOUS
  <2>2. QED
    BY <1>2, <1>4, <2>1
<1>6. Compacting'
  BY <1>2 DEF Compacting
<1>7. Visible' = Visible
  BY SameWindow
<1>8. StackOK'
  BY <1>3, <1>5, <1>6, <1>7 DEF StackOK
<1>9. QED
  BY <1>1, <1>8 DEF WindowInv

\* The point at which a window is split is inside it.
LEMMA SplitsInside ==
  ASSUME NEW msgs \in Seq(Msg), splitPoint(msgs) > 0
  PROVE  splitPoint(msgs) \in 1 .. Len(msgs)
<1> DEFINE users == {i \in 1 .. Len(msgs) - 1 : msgs[i + 1].role = "user"}
           dists == {distance(msgs, i) : i \in users}
           near  == {i \in users : \A j \in users : distance(msgs, i) <= distance(msgs, j)}
<1>1. splitPoint(msgs) = IF users = {} THEN 0 ELSE Min(near)
  BY DEF splitPoint
<1>2. users # {} /\ users \subseteq 1 .. Len(msgs) /\ Len(msgs) \in Nat
  BY <1>1
<1>3. \A i \in users : distance(msgs, i) \in Nat
  <2>1. Len(msgs) \div 2 \in Int
    BY <1>2
  <2>2. QED
    BY <1>2, <2>1 DEF distance
<1> HIDE DEF users
<1>4. PICK d \in dists : \A e \in dists : d <= e
  <2>1. dists # {} /\ dists \subseteq Nat
    BY <1>2, <1>3
  <2> HIDE DEF dists
  <2>2. QED
    BY <2>1, LeastOfNats
<1>5. near # {} /\ near \subseteq Nat
  <2>1. PICK i \in users : d = distance(msgs, i)
    BY <1>4
  <2>2. i \in near
    BY <1>4, <2>1
  <2>3. near \subseteq users
    OBVIOUS
  <2> HIDE DEF near
  <2>4. QED
    BY <1>2, <2>2, <2>3
<1>6. Min(near) \in near
  <2> HIDE DEF near
  <2>1. PICK i \in near : \A j \in near : i <= j
    BY <1>5, LeastOfNats
  <2>2. QED
    BY <2>1 DEF Min
<1>7. QED
  BY <1>1, <1>2, <1>6

LEMMA FramesInHand ==
  ASSUME WindowInv, Compacting
  PROVE  /\ stack \in Seq(Frame) /\ Len(stack) \in Nat /\ Len(stack) >= 1
         /\ \A d \in 1 .. Len(stack) : stack[d] \in Frame /\ stack[d].msgs \in Seq(Msg) /\ Apart(stack[d].msgs)
         /\ Top = stack[Len(stack)]
<1>1. stack \in Seq(Frame) /\ stack # <<>> /\ \A d \in 1 .. Len(stack) : Apart(stack[d].msgs)
  BY DEF WindowInv, StackOK
<1>2. Len(stack) \in Nat /\ Len(stack) >= 1 /\ \A d \in 1 .. Len(stack) : stack[d] \in Frame
  BY <1>1
<1>3. \A f \in Frame : f.msgs \in Seq(Msg)
  BY DEF Frame
<1>4. QED
  BY <1>1, <1>2, <1>3 DEF Top

\* The compaction's own steps leave the tree alone until the summary joins.
LEMMA CompactionGoesOn ==
  ASSUME WindowInv, Compacting, UNCHANGED <<nodes, leaf, start, keys, pc>>, StackOK'
  PROVE  WindowInv'
<1>1. pc # "idle"
  BY DEF Compacting
<1>2. TreeOK' /\ MarksAnswered' /\ KeysAreVisible'
  BY <1>1, SameWindow, KeysStay DEF WindowInv
<1>3. QED
  BY <1>2 DEF WindowInv

LEMMA SplitKeeps == ASSUME WindowInv, Split PROVE WindowInv'
<1> DEFINE L   == Len(stack)
           cut == splitPoint(Top.msgs)
           f   == [Top EXCEPT !.cut = cut]
           g   == frame(SubSeq(Top.msgs, 1, cut))
<1>1. /\ Compacting /\ cut > 0 /\ stack' = Append(ReplaceAt(stack, L, f), g)
      /\ UNCHANGED <<nodes, leaf, start, keys, pc>>
  BY DEF Split, tree
<1>2. /\ stack \in Seq(Frame) /\ L \in Nat /\ L >= 1
      /\ \A d \in 1 .. L : stack[d] \in Frame /\ stack[d].msgs \in Seq(Msg) /\ Apart(stack[d].msgs)
      /\ Top = stack[L] /\ L \in 1 .. L
  BY <1>1, FramesInHand
<1>3. Top \in Frame /\ Top.msgs \in Seq(Msg) /\ Apart(Top.msgs) /\ cut \in 1 .. Len(Top.msgs)
  BY <1>1, <1>2, SplitsInside
<1>4. f \in Frame /\ f.msgs = Top.msgs /\ f.cut = cut
  <2> HIDE DEF cut
  <2>1. cut \in Nat
    BY <1>3
  <2>2. QED
    BY <1>3, <2>1 DEF Frame
<1>5. g \in Frame /\ g.msgs = SubSeq(Top.msgs, 1, cut) /\ Apart(g.msgs)
  <2> HIDE DEF cut
  <2>1. cut \in 0 .. Len(Top.msgs)
    BY <1>3
  <2>2. SubSeq(Top.msgs, 1, cut) \in Seq(Msg) /\ Apart(SubSeq(Top.msgs, 1, cut))
    BY <1>3, <2>1, FirstMessages
  <2>3. QED
    BY <2>2 DEF frame, Frame
<1> HIDE DEF f, g, cut
<1>6. /\ stack' \in Seq(Frame) /\ Len(stack') = L + 1 /\ stack'[L + 1] = g /\ stack'[L] = f
      /\ \A d \in 1 .. L - 1 : stack'[d] = stack[d]
  <2> DEFINE r == ReplaceAt(stack, L, f)
  <2>1. r \in Seq(Frame) /\ Len(r) = L /\ r[L] = f /\ \A d \in 1 .. L - 1 : r[d] = stack[d]
    BY <1>2, <1>4 DEF ReplaceAt
  <2> HIDE DEF r
  <2>2. stack' = Append(r, g)
    BY <1>1 DEF r
  <2> HIDE DEF L
  <2>3. Append(r, g) \in Seq(Frame) /\ Len(Append(r, g)) = L + 1 /\ Append(r, g)[L + 1] = g
        /\ \A d \in 1 .. L : Append(r, g)[d] = r[d]
    BY <1>5, <2>1
  <2>4. QED
    BY <1>2, <2>1, <2>2, <2>3
<1> HIDE DEF L
<1>7. \A d \in 1 .. L : stack'[d].msgs = stack[d].msgs
  <2>1. ASSUME NEW d \in 1 .. L PROVE stack'[d].msgs = stack[d].msgs
    <3>1. CASE d = L
      BY <1>2, <1>4, <1>6, <3>1
    <3>2. CASE d \in 1 .. L - 1
      BY <1>6, <3>2
    <3>3. QED
      BY <1>2, <3>1, <3>2
  <2>2. QED
    BY <2>1
<1>8. /\ coveredBy(stack[1].msgs) = Visible
      /\ \A d \in 1 .. L - 1 : /\ stack[d].cut \in 1 .. Len(stack[d].msgs)
                               /\ coveredBy(stack[d + 1].msgs) = coveredBy(SubSeq(stack[d].msgs, 1, stack[d].cut))
  BY <1>1 DEF WindowInv, StackOK, L
<1>9. StackOK'
  <2>1. Compacting' /\ stack' # <<>>
    BY <1>1, <1>2, <1>6 DEF Compacting
  <2>2. coveredBy(stack'[1].msgs) = Visible'
    <3>1. 1 \in 1 .. L /\ Visible' = Visible
      BY <1>1, <1>2, SameWindow
    <3>2. QED
      BY <1>7, <1>8, <3>1
  <2>3. ASSUME NEW d \in 1 .. L + 1 PROVE Apart(stack'[d].msgs)
    <3>1. CASE d = L + 1
      BY <1>5, <1>6, <3>1
    <3>2. CASE d \in 1 .. L
      BY <1>2, <1>7, <3>2
    <3>3. QED
      BY <1>2, <3>1, <3>2
  <2>4. ASSUME NEW d \in 1 .. L
        PROVE  /\ stack'[d].cut \in 1 .. Len(stack'[d].msgs)
               /\ coveredBy(stack'[d + 1].msgs) = coveredBy(SubSeq(stack'[d].msgs, 1, stack'[d].cut))
    <3>1. CASE d = L
      BY <1>3, <1>4, <1>5, <1>6, <3>1
    <3>2. CASE d \in 1 .. L - 1
      <4>1. d + 1 \in 1 .. L /\ stack'[d] = stack[d]
        BY <1>2, <1>6, <3>2
      <4>2. QED
        BY <1>7, <1>8, <3>2, <4>1
    <3>3. QED
      BY <1>2, <3>1, <3>2
  <2>5. Len(stack') - 1 = L
    BY <1>2, <1>6
  <2>6. QED
    BY <1>6, <2>1, <2>2, <2>3, <2>4, <2>5 DEF StackOK
<1>10. QED
  BY <1>1, <1>9, CompactionGoesOn

LEMMA SummaryIsMessage ==
  ASSUME NEW msgs \in Seq(Msg)
  PROVE  summaryOf(msgs) \in Msg /\ summaryOf(msgs).covers = coveredBy(msgs)
<1>1. summaryOf(msgs).covers = coveredBy(msgs) /\ coveredBy(msgs) \in SUBSET Nat
  BY Covered DEF summaryOf, coveredBy
<1>2. summaryOf(msgs) = [role |-> "user", size |-> 1, says |-> NoOutput, covers |-> coveredBy(msgs)]
  BY DEF summaryOf, coveredBy
<1>3. NoOutput \in Said
  BY DEF Said
<1>4. QED
  BY <1>1, <1>2, <1>3 DEF Msg

LEMMA HalfSummarized ==
  ASSUME WindowInv, Summarized, Len(stack) # 1
  PROVE  WindowInv'
<1> DEFINE L    == Len(stack)
           D    == L - 1
           rest == Front(stack)
           f    == stack[D]
           s    == summaryOf(Top.msgs)
           g    == standIn(f, s)
<1>1. Compacting /\ stack' = ReplaceAt(rest, Len(rest), standIn(Last(rest), s)) /\ UNCHANGED <<nodes, leaf, start, keys, pc>>
  BY DEF Summarized, tree
<1>2. /\ stack \in Seq(Frame) /\ L \in Nat /\ D \in 1 .. L - 1 /\ D + 1 = L /\ L \in 1 .. L
      /\ \A d \in 1 .. L : stack[d] \in Frame /\ stack[d].msgs \in Seq(Msg) /\ Apart(stack[d].msgs)
      /\ Top = stack[L]
  <2>1. /\ stack \in Seq(Frame) /\ L \in Nat /\ L >= 1 /\ Top = stack[L]
        /\ \A d \in 1 .. L : stack[d] \in Frame /\ stack[d].msgs \in Seq(Msg) /\ Apart(stack[d].msgs)
    BY <1>1, FramesInHand
  <2>2. L # 1
    OBVIOUS
  <2> HIDE DEF L
  <2>3. D \in 1 .. L - 1 /\ D + 1 = L /\ L \in 1 .. L
    BY <2>1, <2>2
  <2>4. QED
    BY <2>1, <2>3
<1>3. /\ coveredBy(stack[1].msgs) = Visible
      /\ \A d \in 1 .. L - 1 : /\ stack[d].cut \in 1 .. Len(stack[d].msgs)
                               /\ coveredBy(stack[d + 1].msgs) = coveredBy(SubSeq(stack[d].msgs, 1, stack[d].cut))
  BY <1>1 DEF WindowInv, StackOK
<1> HIDE DEF L, D
<1>4. rest \in Seq(Frame) /\ Len(rest) = D /\ (\A d \in 1 .. D : rest[d] = stack[d]) /\ D \in Nat /\ D >= 1
  BY <1>2 DEF Front, L, D
<1>5. s \in Msg /\ s.covers = coveredBy(SubSeq(f.msgs, 1, f.cut))
  <2>1. s \in Msg /\ s.covers = coveredBy(Top.msgs)
    BY <1>2, SummaryIsMessage
  <2>2. coveredBy(stack[D + 1].msgs) = coveredBy(SubSeq(stack[D].msgs, 1, stack[D].cut))
    BY <1>2, <1>3
  <2>3. QED
    BY <1>2, <2>1, <2>2
<1>6. f \in Frame /\ f.cut \in 1 .. Len(f.msgs) /\ Apart(f.msgs) /\ D \in 1 .. L
  BY <1>2, <1>3
<1> HIDE DEF s, f
<1>7. g \in Frame /\ Apart(g.msgs) /\ coveredBy(g.msgs) = coveredBy(f.msgs)
  BY <1>5, <1>6, StandsIn
<1>8. stack' = ReplaceAt(rest, D, g)
  <2>1. Last(rest) = f /\ Len(rest) = D
    BY <1>4 DEF Last, f
  <2>2. QED
    BY <1>1, <2>1
<1> HIDE DEF g, rest
<1>9. /\ stack' \in Seq(Frame) /\ Len(stack') = D /\ stack'[D] = g
      /\ \A d \in 1 .. D - 1 : stack'[d] = stack[d]
  BY <1>4, <1>7, <1>8 DEF ReplaceAt
<1>10. \A d \in 1 .. D : coveredBy(stack'[d].msgs) = coveredBy(stack[d].msgs) /\ Apart(stack'[d].msgs)
  <2>1. ASSUME NEW d \in 1 .. D PROVE coveredBy(stack'[d].msgs) = coveredBy(stack[d].msgs) /\ Apart(stack'[d].msgs)
    <3>1. CASE d = D
      BY <1>7, <1>9, <3>1 DEF f
    <3>2. CASE d \in 1 .. D - 1
      <4>1. stack'[d] = stack[d] /\ d \in 1 .. L
        BY <1>2, <1>4, <1>9, <3>2
      <4>2. QED
        BY <1>2, <4>1
    <3>3. QED
      BY <1>4, <3>1, <3>2
  <2>2. QED
    BY <2>1
<1>11. StackOK'
  <2>1. Compacting' /\ stack' # <<>>
    BY <1>1, <1>4, <1>9 DEF Compacting
  <2>2. coveredBy(stack'[1].msgs) = Visible'
    <3>1. 1 \in 1 .. D /\ Visible' = Visible
      BY <1>1, <1>4, SameWindow
    <3>2. QED
      BY <1>3, <1>10, <3>1
  <2>3. ASSUME NEW d \in 1 .. D - 1
        PROVE  /\ stack'[d].cut \in 1 .. Len(stack'[d].msgs)
               /\ coveredBy(stack'[d + 1].msgs) = coveredBy(SubSeq(stack'[d].msgs, 1, stack'[d].cut))
    <3>1. d \in 1 .. L - 1 /\ d + 1 \in 1 .. D /\ stack'[d] = stack[d]
      BY <1>2, <1>4, <1>9
    <3>2. QED
      BY <1>3, <1>10, <3>1
  <2>4. QED
    BY <1>9, <1>10, <2>1, <2>2, <2>3 DEF StackOK
<1>12. QED
  BY <1>1, <1>11, CompactionGoesOn

LEMMA WholeSummarized ==
  ASSUME WindowInv, Summarized, Len(stack) = 1
  PROVE  WindowInv'
<1>1. /\ Compacting /\ stack' = <<>> /\ add("user", 1, NoOutput) /\ start' = leaf' /\ keys' = <<>>
      /\ pc' = afterSummary(pc)
  BY DEF Summarized, compact, forgetOutputs
<1>2. ~Compacting'
  BY <1>1 DEF afterSummary, Compacting
<1>3. NoOutput \in Said /\ \A o \in Outputs : NoOutput # <<"unchanged", o>>
  BY DEF Said, NoOutput
<1>4. TreeOK' /\ MarksAnswered'
  BY <1>1, <1>3, NodeJoins DEF WindowInv
<1>5. KeysAreVisible'
  BY <1>1 DEF KeysAreVisible
<1>6. QED
  BY <1>1, <1>2, <1>4, <1>5, NoCompaction DEF WindowInv

LEMMA RunStarts == ASSUME WindowInv, NEW size \in Sizes, StartRun(size) PROVE WindowInv'
<1>1. /\ add("user", size, NoOutput) /\ keys' = <<>> /\ pc' \in {"idle", "top"} /\ pc = "idle"
      /\ UNCHANGED <<start, stack>>
  BY DEF StartRun
<1>2. NoOutput \in Said /\ \A o \in Outputs : NoOutput # <<"unchanged", o>>
  BY DEF Said, NoOutput
<1>3. TreeOK' /\ MarksAnswered'
  BY <1>1, <1>2, NodeJoins DEF WindowInv
<1>4. KeysAreVisible'
  BY <1>1 DEF KeysAreVisible
<1>5. stack' = <<>> /\ ~Compacting'
  BY <1>1 DEF WindowInv, StackOK, Compacting
<1>6. QED
  BY <1>3, <1>4, <1>5, NoCompaction DEF WindowInv

LEMMA LeafMoves == ASSUME WindowInv, NEW n \in 0 .. Len(nodes), SetLeaf(n) PROVE WindowInv'
<1>1. leaf' = n /\ UNCHANGED <<nodes, start, keys, pc, stack>> /\ pc = "idle"
  BY DEF SetLeaf
<1>2. TreeOK' /\ MarksAnswered'
  BY <1>1 DEF WindowInv, TreeOK, MarksAnswered, Says
<1>3. KeysAreVisible'
  BY <1>1 DEF WindowInv, KeysAreVisible
<1>4. stack' = <<>> /\ ~Compacting'
  BY <1>1 DEF WindowInv, StackOK, Compacting
<1>5. QED
  BY <1>2, <1>3, <1>4, NoCompaction DEF WindowInv

\* What is remembered is in the window: itself when it is new, and what the
\* window already showed when it is not.
LEMMA OutputsRecorded ==
  ASSUME WindowInv, NEW out \in Outputs, NEW size \in Sizes, ToolResults(out, size)
  PROVE  WindowInv'
<1> DEFINE say == collapsed(out)
           big == IF Contains(keys, out) THEN 1 ELSE size
<1>1. /\ add("tool", big, say) /\ keys' = remember(out) /\ UNCHANGED <<start, stack>>
      /\ pc = "tools" /\ pc' = "top"
  BY DEF ToolResults
<1>2. say \in Said /\ big \in Sizes \cup {1}
  BY DEF collapsed, Said
<1>3. keys \in Seq(Outputs) /\ \A k \in 1 .. Len(keys) : \E j \in Visible : Says(j, "shown", keys[k])
  BY <1>1 DEF WindowInv, KeysAreVisible
<1>4. ASSUME NEW o \in Outputs, say = <<"unchanged", o>> PROVE \E j \in Visible : Says(j, "shown", o)
  <2>1. Contains(keys, out) /\ o = out
    BY <1>4 DEF collapsed
  <2>2. QED
    BY <1>3, <2>1 DEF Contains
<1> HIDE DEF big
<1>5. /\ TreeOK' /\ MarksAnswered' /\ (nodes[leaf].says)' = say /\ leaf' \in Visible' /\ Visible \subseteq Visible'
      /\ \A n \in 1 .. Len(nodes) : nodes'[n] = nodes[n]
  <2> HIDE DEF say
  <2>1. QED
    BY <1>1, <1>2, <1>4, NodeJoins DEF WindowInv
<1>6. Visible \subseteq 1 .. Len(nodes)
  BY VisibleNodes DEF WindowInv
<1>7. \A k \in 1 .. Len(keys) : \E j \in Visible' : nodes'[j].says = <<"shown", keys[k]>>
  <2>1. ASSUME NEW k \in 1 .. Len(keys) PROVE \E j \in Visible' : nodes'[j].says = <<"shown", keys[k]>>
    <3>1. PICK j \in Visible : nodes[j].says = <<"shown", keys[k]>>
      BY <1>3 DEF Says
    <3>2. QED
      BY <1>5, <1>6, <3>1
  <2>2. QED
    BY <2>1
<1>8. KeysAreVisible'
  <2>1. CASE Contains(keys, out)
    <3>1. keys' = keys
      BY <1>1, <2>1 DEF remember
    <3>2. QED
      BY <1>3, <1>7, <3>1 DEF KeysAreVisible, Says
  <2>2. CASE ~Contains(keys, out)
    <3> DEFINE all == Append(keys, out)
    <3>1. /\ all \in Seq(Outputs) /\ Len(all) = Len(keys) + 1 /\ Len(keys) \in Nat
          /\ all[Len(keys) + 1] = out /\ \A k \in 1 .. Len(keys) : all[k] = keys[k]
      BY <1>3
    <3>2. keys' = all \/ keys' = Tail(all)
      BY <1>1, <2>2 DEF remember
    <3> HIDE DEF all
    <3>3. \A k \in 1 .. Len(all) : \E j \in Visible' : nodes'[j].says = <<"shown", all[k]>>
      <4>1. ASSUME NEW k \in 1 .. Len(all) PROVE \E j \in Visible' : nodes'[j].says = <<"shown", all[k]>>
        <5>1. CASE k = Len(keys) + 1
          <6>1. nodes'[leaf'].says = <<"shown", out>>
            BY <1>5, <2>2 DEF collapsed
          <6>2. QED
            BY <1>5, <3>1, <5>1, <6>1
        <5>2. CASE k \in 1 .. Len(keys)
          BY <1>7, <3>1, <5>2
        <5>3. QED
          BY <3>1, <5>1, <5>2
      <4>2. QED
        BY <4>1
    <3>4. CASE keys' = all
      BY <3>1, <3>3, <3>4 DEF KeysAreVisible, Says
    <3>5. CASE keys' = Tail(all)
      <4>1. /\ Tail(all) \in Seq(Outputs) /\ Len(Tail(all)) = Len(keys)
            /\ \A k \in 1 .. Len(keys) : Tail(all)[k] = all[k + 1] /\ k + 1 \in 1 .. Len(all)
        BY <3>1
      <4>2. \A k \in 1 .. Len(keys') : \E j \in Visible' : nodes'[j].says = <<"shown", keys'[k]>>
        BY <3>3, <3>5, <4>1
      <4>3. QED
        BY <3>5, <4>1, <4>2 DEF KeysAreVisible, Says
    <3>6. QED
      BY <3>2, <3>4, <3>5
  <2>3. QED
    BY <2>1, <2>2
<1>9. stack' = <<>> /\ ~Compacting'
  BY <1>1 DEF WindowInv, StackOK, Compacting
<1>10. QED
  BY <1>5, <1>8, <1>9, NoCompaction DEF WindowInv

LEMMA WindowInvStep == WindowInv /\ [WindowNext]_wvars => WindowInv'
<1> SUFFICES ASSUME WindowInv, [WindowNext]_wvars PROVE WindowInv'
  OBVIOUS
<1>1. ~Compacting => stack = <<>>
  BY DEF WindowInv, StackOK
<1>2. ASSUME NEW size \in Sizes, StartRun(size) PROVE WindowInv'
  BY <1>2, RunStarts
<1>3. ASSUME NEW n \in 0 .. Len(nodes), SetLeaf(n) PROVE WindowInv'
  BY <1>3, LeafMoves
<1>4. CASE compactHere
  <2>1. UNCHANGED <<nodes, leaf, start, keys>> /\ pc = "top"
    BY <1>4 DEF compactHere, tree
  <2>2. CASE shouldCompact
    <3>1. StartCompaction("compact")
      BY <1>4, <2>2 DEF compactHere
    <3>2. QED
      BY <2>1, <3>1, CompactionStarts
  <2>3. CASE ~shouldCompact
    <3>1. stack' = stack /\ pc' = "boundary"
      BY <1>4, <2>3 DEF compactHere
    <3>2. stack' = <<>> /\ ~Compacting'
      BY <1>1, <2>1, <3>1 DEF Compacting
    <3>3. QED
      BY <2>1, <3>2, QuietStep
  <2>4. QED
    BY <2>2, <2>3
<1>5. CASE Summarized
  BY <1>5, HalfSummarized, WholeSummarized
<1>6. CASE Split
  BY <1>6, SplitKeeps
<1>7. CASE CompactionFails
  <2>1. /\ UNCHANGED <<nodes, leaf, start, keys>> /\ Compacting
        /\ pc' = afterFailedAt(pc) /\ stack' = <<>>
    BY <1>7 DEF CompactionFails, tree
  <2>2. pc # "idle" /\ ~Compacting'
    BY <2>1 DEF Compacting, afterFailedAt
  <2>3. QED
    BY <2>1, <2>2, QuietStep
<1>8. CASE Boundary
  <2>1. /\ UNCHANGED <<start, keys, stack>> /\ pc = "boundary" /\ pc' = "cap"
        /\ (\E size \in Sizes : add("user", size, NoOutput)) \/ UNCHANGED <<nodes, leaf>>
    BY <1>8 DEF Boundary
  <2>2. stack' = <<>> /\ ~Compacting'
    BY <1>1, <2>1 DEF Compacting
  <2>3. ASSUME NEW size \in Sizes, add("user", size, NoOutput) PROVE WindowInv'
    BY <2>1, <2>2, <2>3, GrowingStep
  <2>4. CASE UNCHANGED <<nodes, leaf>>
    BY <2>1, <2>2, <2>4, QuietStep
  <2>5. QED
    BY <2>1, <2>3, <2>4
<1>9. CASE capToWindow
  <2>1. UNCHANGED <<nodes, leaf, start, keys>> /\ pc = "cap"
    BY <1>9 DEF capToWindow, tree
  <2>2. StartCompaction("cap-compact") \/ (pc' \in {"call", "idle"} /\ (stack' = stack \/ stack' = <<>>))
    BY <1>9 DEF capToWindow, End
  <2>3. CASE StartCompaction("cap-compact")
    BY <2>1, <2>3, CompactionStarts
  <2>4. CASE pc' \in {"call", "idle"} /\ (stack' = stack \/ stack' = <<>>)
    <3>1. stack' = <<>> /\ ~Compacting'
      BY <1>1, <2>1, <2>4 DEF Compacting
    <3>2. QED
      BY <2>1, <3>1, QuietStep
  <2>5. QED
    BY <2>2, <2>3, <2>4
<1>10. CASE CallModel
  <2>1. /\ UNCHANGED <<start, keys, stack>> /\ pc = "call" /\ pc' \in {"tools", "idle"}
        /\ \E size \in Sizes : add("turn", size, NoOutput)
    BY <1>10 DEF CallModel
  <2>2. stack' = <<>> /\ ~Compacting'
    BY <1>1, <2>1 DEF Compacting
  <2>3. PICK size \in Sizes : add("turn", size, NoOutput)
    BY <2>1
  <2>4. QED
    BY <2>1, <2>2, <2>3, GrowingStep
<1>11. CASE CallOverflows
  <2>1. UNCHANGED <<nodes, leaf, start, keys>> /\ pc = "call"
    BY <1>11 DEF CallOverflows, tree
  <2>2. StartCompaction("overflow-compact") \/ (pc' = "idle" /\ stack' = <<>>)
    BY <1>11 DEF CallOverflows, End
  <2>3. CASE StartCompaction("overflow-compact")
    BY <2>1, <2>3, CompactionStarts
  <2>4. CASE pc' = "idle" /\ stack' = <<>>
    <3>1. ~Compacting'
      BY <2>4 DEF Compacting
    <3>2. QED
      BY <2>1, <2>4, <3>1, QuietStep
  <2>5. QED
    BY <2>2, <2>3, <2>4
<1>12. CASE CallFails
  <2>1. UNCHANGED <<nodes, leaf, start, keys>> /\ pc' = "idle" /\ stack' = <<>>
    BY <1>12 DEF CallFails, tree, End
  <2>2. ~Compacting'
    BY <2>1 DEF Compacting
  <2>3. QED
    BY <2>1, <2>2, QuietStep
<1>13. ASSUME NEW out \in Outputs, NEW size \in Sizes, ToolResults(out, size) PROVE WindowInv'
  BY <1>13, OutputsRecorded
<1>14. CASE UNCHANGED wvars
  <2>1. UNCHANGED <<nodes, leaf, start, keys, pc, stack>>
    BY <1>14 DEF wvars
  <2>2. CASE Compacting
    <3>1. StackOK'
      BY <2>1, SameWindow DEF WindowInv, StackOK, Compacting
    <3>2. QED
      BY <2>1, <2>2, <3>1, CompactionGoesOn
  <2>3. CASE ~Compacting
    <3>1. stack' = <<>> /\ ~Compacting' /\ (pc # "idle" \/ pc' = "idle")
      BY <1>1, <2>1, <2>3 DEF Compacting
    <3>2. QED
      BY <2>1, <3>1, QuietStep
  <2>4. QED
    BY <2>2, <2>3
<1>15. QED
  <2>1. Stops => UNCHANGED wvars
    BY DEF Stops
  <2>2. QED
    BY <1>2, <1>3, <1>4, <1>5, <1>6, <1>7, <1>8, <1>9, <1>10, <1>11, <1>12, <1>13, <1>14, <2>1
       DEF WindowNext, CompactionStep

LEMMA PartsCoverTheWindow == ASSUME WindowInv PROVE SummaryCoversWindow
<1>1. TreeOK /\ StackOK
  BY DEF WindowInv
<1>2. ToSet(windowPath) = Visible
  BY <1>1, VisibleNodes, WindowIsPath
<1>3. DOMAIN stack = 1 .. Len(stack) /\ \A d \in 1 .. Len(stack) : DOMAIN stack[d].msgs = 1 .. Len(stack[d].msgs)
  <2>1. stack \in Seq(Frame)
    BY <1>1 DEF StackOK
  <2>2. \A f \in Frame : f.msgs \in Seq(Msg)
    BY DEF Frame
  <2>3. \A d \in 1 .. Len(stack) : stack[d].msgs \in Seq(Msg)
    BY <2>1, <2>2
  <2>4. QED
    BY <2>1, <2>3
<1>4. Compacting => coveredBy(stack[1].msgs) = ToSet(windowPath)
  BY <1>1, <1>2 DEF StackOK
<1>5. \A d \in 1 .. Len(stack) - 1 :
        coveredBy(stack[d + 1].msgs) = coveredBy(SubSeq(stack[d].msgs, 1, stack[d].cut))
  BY <1>1 DEF StackOK
<1>6. \A d \in DOMAIN stack : \A i, j \in DOMAIN stack[d].msgs :
        i # j => stack[d].msgs[i].covers \cap stack[d].msgs[j].covers = {}
  BY <1>1, <1>3 DEF StackOK, Apart
<1>7. QED
  BY <1>4, <1>5, <1>6 DEF SummaryCoversWindow

\* A tool result recorded as a repetition has the output it repeats before it
\* in the window, for every size of the memory and however often the window was
\* summarized: OutputDeduper.Collapse only refers to what can still be read.
THEOREM MarksAreReadable == WindowSpec => []MarkersResolve
<1>1. WindowInv => MarkersResolve
  BY MarksResolve DEF WindowInv
<1>2. QED
  BY <1>1, WindowInvInit, WindowInvStep, PTL DEF WindowSpec

\* However deep compactToFit recurses, and whichever of its calls have answered,
\* the calls in progress together speak for every message of the window, and
\* for each of them once.
THEOREM SummariesCoverTheWindow == WindowSpec => []SummaryCoversWindow
<1>1. WindowInv => SummaryCoversWindow
  BY PartsCoverTheWindow
<1>2. QED
  BY <1>1, WindowInvInit, WindowInvStep, PTL DEF WindowSpec

==================================================================================
