-------------------------------- MODULE TodoList --------------------------------
(***************************************************************************)
(* todo/todo.go: four tools over one task list.  A call changes the list   *)
(* in memory first and then hands the whole list to the host, whose Write  *)
(* may fail; a toolset that is built again starts from what the host kept. *)
(*                                                                         *)
(* A title is a plain one, a blank one or one past the cap; a state is one *)
(* of the three, none, or a word that is none of them.                     *)
(***************************************************************************)
EXTENDS Integers, Sequences, SequencesExt, FiniteSetsExt

CONSTANTS
  Titles,       \* usable titles
  MaxItems,     \* todoMaxItems
  MaxMutations, \* bound: calls of the tools
  MaxToolsets   \* bound: toolsets built over the list

TodoStates == {"pending", "in_progress", "done"}
NotGiven   == "not given"
NoSuchState == "no such state"
Blank      == "blank"       \* only spaces
TooLong    == "too long"

VARIABLES
  items,     \* todoStore.items
  nextId,    \* todoStore.next
  kept,      \* what the host's last successful Write was given
  shown,     \* history: the task each id has named in a reply of this toolset
  serial,    \* history: how many tasks were ever added
  outcome,   \* the last result: "list", "refused" or "not saved"
  mutations, toolsets

todoVars == <<items, nextId, kept, shown, serial, outcome, mutations, toolsets>>

(* Minted above every id in hand.                                          *)
nextAbove(list) == Max({0} \cup {list[i].id : i \in DOMAIN list}) + 1

(* TodoConfig.Initial is a list of an earlier run: one task, or none.      *)
initialLists == {<<>>, <<[id |-> 2, serial |-> 0, title |-> NotGiven, state |-> "pending"]>>}
named(list)  == {<<list[i].id, list[i].serial>> : i \in DOMAIN list}

TodoInit ==
  /\ items \in initialLists /\ nextId = nextAbove(items) /\ kept = items
  /\ shown = named(items) /\ serial = 0 /\ outcome = "list" /\ mutations = 0 /\ toolsets = 1

NewTodoTools ==
  /\ toolsets < MaxToolsets /\ toolsets' = toolsets + 1
  /\ items' = kept /\ nextId' = nextAbove(kept)
  /\ shown' = named(kept)
  /\ UNCHANGED <<kept, serial, outcome, mutations>>

(* writeList: the host is given the list as it now is; whether it keeps it *)
(* or not, the list in memory stays.                                       *)
writeList(list) ==
  /\ items' = list
  /\ \/ kept' = list /\ outcome' = "list" /\ shown' = shown \cup named(list)
     \/ outcome' = "not saved" /\ UNCHANGED <<kept, shown>>

refuse == outcome' = "refused" /\ UNCHANGED <<items, kept, shown>>

resolves(id)   == Cardinality({i \in DOMAIN items : items[i].id = id}) = 1
indexOf(id)    == CHOOSE i \in DOMAIN items : items[i].id = id
usableTitle(t) == t \notin {Blank, TooLong}
usableState(s) == s \in TodoStates \cup {NotGiven}
ToolCalled     == mutations < MaxMutations /\ mutations' = mutations + 1 /\ UNCHANGED toolsets

(* As if an id were minted above the tasks the list still holds.           *)
mintAboveItems == nextAbove(items)
mint           == nextId

doAdd(title, state) ==
  /\ ToolCalled
  /\ IF /\ usableTitle(title) /\ title # NotGiven /\ usableState(state)
        /\ Len(items) < MaxItems
     THEN /\ nextId' = mint + 1 /\ serial' = serial + 1
          /\ writeList(Append(items, [id |-> mint, serial |-> serial', title |-> title,
                                      state |-> IF state = NotGiven THEN "pending" ELSE state]))
     ELSE refuse /\ UNCHANGED <<nextId, serial>>

edited(task, title, state) ==
  [task EXCEPT !.title = IF title = NotGiven THEN @ ELSE title, !.state = IF state = NotGiven THEN @ ELSE state]

doEdit(id, title, state) ==
  /\ ToolCalled
  /\ IF resolves(id) /\ ~(title = NotGiven /\ state = NotGiven) /\ usableTitle(title) /\ usableState(state)
     THEN writeList([items EXCEPT ![indexOf(id)] = edited(@, title, state)])
     ELSE refuse
  /\ UNCHANGED <<nextId, serial>>

doCancel(id) ==
  /\ ToolCalled
  /\ IF resolves(id) THEN writeList(RemoveAt(items, indexOf(id))) ELSE refuse
  /\ UNCHANGED <<nextId, serial>>

doComplete(id) ==
  /\ ToolCalled
  /\ IF resolves(id) THEN writeList([items EXCEPT ![indexOf(id)].state = "done"]) ELSE refuse
  /\ UNCHANGED <<nextId, serial>>

TodoRests == mutations = MaxMutations /\ UNCHANGED todoVars

Ids == 1 .. MaxMutations + 1
TodoNext ==
  \/ NewTodoTools
  \/ \E t \in Titles \cup {NotGiven, Blank, TooLong}, s \in TodoStates \cup {NotGiven, NoSuchState} :
       doAdd(t, s) \/ \E id \in Ids : doEdit(id, t, s)
  \/ \E id \in Ids : doCancel(id) \/ doComplete(id)
  \/ TodoRests

TodoSpec == TodoInit /\ [][TodoNext]_todoVars

-----------------------------------------------------------------------------
(* An id the model was shown names one task for as long as the toolset     *)
(* lives, cancelled tasks and lists the host refused included, so a late   *)
(* edit never lands on another task (todoStore.next, resolve).             *)
IdNamesOneTask ==
  \A a \in shown : \A i \in DOMAIN items : items[i].id = a[1] => items[i].serial = a[2]

===============================================================================
