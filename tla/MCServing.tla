------------------------------- MODULE MCServing -------------------------------
(***************************************************************************)
(* The two ends of the wire share no state: a behavior is of one of them,  *)
(* and the other rests at its beginning.                                   *)
(*                                                                         *)
(*   serving    two connections, each HTTP or a socket, three documents    *)
(*              between them, two ids and one restart: two turns meet in   *)
(*              one conversation                                           *)
(*   transport  two callers make two calls between them with two attempts  *)
(*              each; one parameter is known in two spellings, and one     *)
(*              signature may be rejected                                  *)
(***************************************************************************)
EXTENDS Serving, Transport

KeySpelling == [k \in Keys |-> "effort"]
Symmetry    == Permutations(Clients)   \* the callers are the same two

VARIABLE part

EndsInit ==
  /\ part \in {"serving", "transport"}
  /\ Init /\ TransportInit
  /\ part = "transport" => backend = "memory" /\ kind = [c \in Clients |-> "http"]

ServingStep   == part = "serving" /\ Next /\ UNCHANGED <<part, transportVars>>
TransportStep == part = "transport" /\ TransportNext /\ UNCHANGED <<part, vars>>

EndsNext == ServingStep \/ TransportStep
EndsSpec == EndsInit /\ [][EndsNext]_<<part, vars, transportVars>>
===============================================================================
