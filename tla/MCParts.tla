-------------------------------- MODULE MCParts --------------------------------
(***************************************************************************)
(* Eight parts that share no state, on one small instance each: a behavior *)
(* is one of the chosen part, and the others rest at their beginning.      *)
(*                                                                         *)
(*   index      two conversations and two owners; texts of one chunk, two, *)
(*              and one cut off; two messages need two requests            *)
(*   window     two runs, outputs of two sizes, a memory of one output;    *)
(*              the window is too small, so a summary is split             *)
(*   resources  one source with two resources over its cap of one          *)
(*   todo       a list of two, four calls, and a toolset built again       *)
(*   goal       two goals and runs; the third equal reason is one too many *)
(*   reads      two readers, two tokens, one of them capped; one cached tag *)
(*   writes     two write tokens, two calls, two steps of other people     *)
(*   models     four ids, one to a page, at most two pages                 *)
(***************************************************************************)
EXTENDS SearchIndex, ContextWindow, ResourceWatch, TodoList, GoalLoop, RepoReads, RepoWrites, ModelList

\* The models an endpoint lists: two of one name behind a prefix.
ListedIds  == {<<"", "m">>, <<"p", "m">>, <<"q", "m">>, <<"", "n">>}
ReadOrder  == <<"a", "b">>
WriteOrder == <<"b", "a">>

VARIABLE part

-----------------------------------------------------------------------------
(* The part a behavior is of begins anywhere, every other at one state.    *)
Chosen(name, idle) == part = name \/ idle

(* Who asks for the share, and which of the two lookups names the window:  *)
(* neither, one, or a setting of the host.                                 *)
WindowSettings ==
  <<armed, override, fallback, listed, served>> \in
    {<<FALSE, 0, 0, 4, 0>>, <<TRUE, 0, 0, 5, 0>>, <<TRUE, 0, 0, 0, 5>>,
     <<FALSE, 5, 0, 4, 0>>, <<FALSE, 0, 5, 0, 4>>, <<FALSE, 5, 0, 0, 4>>}

PartsInit ==
  /\ part \in {"index", "window", "resources", "todo", "goal", "reads", "writes", "models"}
  /\ SearchInit
  /\ WindowInit
  /\ IF part = "window" THEN WindowSettings
     ELSE <<armed, override, fallback, listed, served>> = <<FALSE, 0, 0, 0, 0>>
  /\ Chosen("resources", live = Nothing) /\ WatchInit
  /\ Chosen("todo", items = <<>>) /\ TodoInit
  /\ GoalInit
  /\ Chosen("reads", readable = {} /\ body = [version |-> 0, long |-> FALSE] /\ readWinner = Unset) /\ ReadInit
  /\ Chosen("writes", canRead = {} /\ branch = FALSE /\ taken = {} /\ winner = None) /\ WriteInit
  /\ Chosen("models", listing = <<>> /\ bearer = FALSE) /\ ListInit

IndexStep ==
  /\ part = "index" /\ SearchNext
  /\ UNCHANGED <<part, wvars, watchVars, todoVars, goalVars, readVars, writeVars, listVars>>
WindowStep ==
  /\ part = "window" /\ WindowNext
  /\ UNCHANGED <<part, searchVars, watchVars, todoVars, goalVars, readVars, writeVars, listVars>>
WatchStep ==
  /\ part = "resources" /\ WatchNext
  /\ UNCHANGED <<part, searchVars, wvars, todoVars, goalVars, readVars, writeVars, listVars>>
TodoStep ==
  /\ part = "todo" /\ TodoNext
  /\ UNCHANGED <<part, searchVars, wvars, watchVars, goalVars, readVars, writeVars, listVars>>
GoalStep ==
  /\ part = "goal" /\ GoalNext
  /\ UNCHANGED <<part, searchVars, wvars, watchVars, todoVars, readVars, writeVars, listVars>>
ReadStep ==
  /\ part = "reads" /\ ReadNext
  /\ UNCHANGED <<part, searchVars, wvars, watchVars, todoVars, goalVars, writeVars, listVars>>
WriteStep ==
  /\ part = "writes" /\ WriteNext
  /\ UNCHANGED <<part, searchVars, wvars, watchVars, todoVars, goalVars, readVars, listVars>>
ListStep ==
  /\ part = "models" /\ ListNext
  /\ UNCHANGED <<part, searchVars, wvars, watchVars, todoVars, goalVars, readVars, writeVars>>

PartsNext ==
  IndexStep \/ WindowStep \/ WatchStep \/ TodoStep \/ GoalStep \/ ReadStep \/ WriteStep \/ ListStep

PartsSpec == PartsInit /\ [][PartsNext]_<<part, searchVars, wvars, watchVars, todoVars,
                                           goalVars, readVars, writeVars, listVars>>
===============================================================================
