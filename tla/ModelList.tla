------------------------------- MODULE ModelList --------------------------------
(***************************************************************************)
(* The endpoint's model list (core/modellist.go, modellimits.go): runs ask *)
(* a provider for a model's limits, the first to ask reads the whole list  *)
(* page by page, and the list is kept for the provider's life.             *)
(*                                                                         *)
(* The endpoint takes a Bearer token, or refuses it and takes the other    *)
(* form; it may fail any request, and models join its list while it is     *)
(* read.  A model is its id, an optional prefix and a name; prices and     *)
(* advertised protocols travel like the limits and are not modelled.       *)
(***************************************************************************)
EXTENDS Integers, Sequences, SequencesExt, FiniteSets

CONSTANTS
  ModelIds,    \* ids the endpoint may list, <<prefix, name>>, prefix "" for none
  Askers,      \* runs that ask the provider
  PageSize,    \* what the endpoint puts on a page
  MaxPages,    \* modelListMaxPages
  MaxReads     \* bound: lists read to the end or given up

Names   == {id[2] : id \in ModelIds}
NoList  == {<<"not", "read">>}
Nobody  == "nobody"

VARIABLES
  listing,   \* the endpoint's list, oldest first, and whether it takes a Bearer token
  bearer,
  cache,     \* modelListCache.list: the ids it has
  holder,    \* who holds its mutex
  fetch,     \* the list being read: the form asked in, the pages so far, the cursor
  wants,     \* the model each asker asks about, or none
  told,      \* what it was told: the entry's id, no limits, or a failure
  before,    \* history: the endpoint's list when the reading of the present one began
  lists

listVars == <<listing, bearer, cache, holder, fetch, wants, told, before, lists>>

noFetch == [form |-> "openai", pages |-> <<>>, after |-> 0]
ListInit ==
  /\ listing \in {x \in BoundedSeq(ModelIds, Cardinality(ModelIds)) : IsInjective(x)} /\ bearer \in BOOLEAN
  /\ cache = NoList /\ holder = Nobody /\ fetch = noFetch
  /\ wants = [x \in Askers |-> ""] /\ told = [x \in Askers |-> <<>>]
  /\ before = {} /\ lists = 0

-----------------------------------------------------------------------------
(* An entry with that id, else the one whose id ends in it.                *)
LimitsFor(list, name) ==
  LET ends == {id \in list : id[2] = name}
  IN  IF <<"", name>> \in list THEN <<"", name>>
      ELSE IF Cardinality(ends) = 1 THEN CHOOSE id \in ends : TRUE
      ELSE <<"no", "limits">>

Tell(x, with) == wants' = [wants EXCEPT ![x] = ""] /\ told' = [told EXCEPT ![x] = with]

(* A provider is asked; whoever waits for the mutex waits for the reading. *)
ModelLimits(x, name) ==
  /\ wants[x] = "" /\ lists < MaxReads
  /\ wants' = [wants EXCEPT ![x] = name] /\ told' = [told EXCEPT ![x] = <<>>]
  /\ UNCHANGED <<listing, bearer, cache, holder, fetch, before, lists>>

limits(x) ==
  /\ wants[x] # "" /\ holder = Nobody
  /\ IF cache = NoList
     THEN holder' = x /\ fetch' = noFetch /\ before' = ToSet(listing) /\ UNCHANGED <<wants, told>>
     ELSE Tell(x, LimitsFor(cache, wants[x])) /\ UNCHANGED <<holder, fetch, before>>
  /\ UNCHANGED <<listing, bearer, cache, lists>>

-----------------------------------------------------------------------------
(* FetchModelListPages: a request, in the form asked in.  Only a refusal   *)
(* of the first form, before any page, asks in the other.                  *)

Reading(x) == holder = x /\ UNCHANGED <<listing, bearer, before>>
giveUp(x)  == Tell(x, <<"failed">>) /\ holder' = Nobody /\ fetch' = noFetch /\ lists' = lists + 1 /\ UNCHANGED cache

page      == SubSeq(listing, fetch.after + 1, IF fetch.after + PageSize < Len(listing) THEN fetch.after + PageSize ELSE Len(listing))
hasMore   == fetch.after + PageSize < Len(listing)
allPages  == Append(fetch.pages, ToSet(page))
mergeModelLists(pages) == UNION ToSet(pages)

Refused(x) ==
  /\ Reading(x) /\ ~bearer /\ fetch.form = "openai"
  /\ fetch' = [fetch EXCEPT !.form = "anthropic"]
  /\ UNCHANGED <<cache, holder, wants, told, lists>>

(* tooLongCut is as if a list past the page limit were kept as it is.      *)
tooLongCut == FALSE
tooLong    == hasMore /\ Len(allPages) >= MaxPages
lastPage   == ~hasMore \/ Len(allPages) >= MaxPages

PageArrives(x) ==
  /\ Reading(x) /\ (bearer \/ fetch.form = "anthropic")
  /\ IF tooLong THEN giveUp(x)
     ELSE IF lastPage
     THEN /\ cache' = mergeModelLists(allPages)
          /\ Tell(x, LimitsFor(cache', wants[x]))
          /\ holder' = Nobody /\ fetch' = noFetch /\ lists' = lists + 1
     ELSE /\ fetch' = [fetch EXCEPT !.pages = allPages, !.after = @ + PageSize]
          /\ UNCHANGED <<cache, holder, wants, told, lists>>

(* The request, or the caller's context, fails; nothing is kept.           *)
RequestFails(x) == Reading(x) /\ giveUp(x)

(* A model joins the end of the list.                                      *)
Published(id) ==
  /\ id \notin ToSet(listing) /\ listing' = Append(listing, id)
  /\ UNCHANGED <<bearer, cache, holder, fetch, wants, told, before, lists>>

ListRests == (\A x \in Askers : wants[x] = "") /\ lists >= MaxReads /\ UNCHANGED listVars

ListNext ==
  \/ \E x \in Askers :
       (\E name \in Names : ModelLimits(x, name)) \/ limits(x) \/ Refused(x) \/ PageArrives(x) \/ RequestFails(x)
  \/ (\E id \in ModelIds : Published(id)) \/ ListRests

ListSpec == ListInit /\ [][ListNext]_listVars

-----------------------------------------------------------------------------
(* The list that is kept for good has every model the endpoint listed when *)
(* its reading began, in whichever form and on however many pages, beside  *)
(* failed readings ("A list longer than this is an ERROR, never a silent   *)
(* cut", modelListMaxPages).                                               *)
KeptListIsWhole == cache # NoList => before \subseteq cache

===============================================================================
