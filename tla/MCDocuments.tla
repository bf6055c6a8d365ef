------------------------------ MODULE MCDocuments ------------------------------
(***************************************************************************)
(* Three parts that share no state, on one small instance each: a behavior *)
(* is one of the chosen part, and the variables of the others rest.        *)
(*                                                                         *)
(*   stream     four events of any dialect over two keys, either symmetric *)
(*   scanner    two documents of five tokens, three elements deep, of      *)
(*              what MCPeer lets a peer write                              *)
(*   format     every request of the small instance, and every failure     *)
(***************************************************************************)
EXTENDS ProviderStream, MCPeer, TLC

CONSTANTS k1, k2
mcDialects == {"openai", "anthropic", "responses", "completions"}
mcKeys     == {k1, k2}
mcSymmetry == Permutations(mcKeys)

(* No comment of the instance is cut short: MCComments.cfg has one that is. *)
ASSUME NoneCutShort

VARIABLES
  part,
  sent, document, received, docStep

formatVars == <<sent, document, received, docStep>>

XD == INSTANCE Documents WITH
  KnownDialects <- {"anthropic", "openai"}, Params <- {"seed", "thinking"}, Known <- {"seed"}, Value <- "v"

StreamRests ==
  /\ dialect = FALSE /\ call = FALSE /\ doc = FALSE /\ comp = FALSE /\ gone = FALSE /\ events = FALSE
  /\ phase = "streaming"
FormatRests == sent = FALSE /\ document = FALSE /\ received = FALSE /\ docStep = FALSE

DocumentsInit ==
  /\ StreamInit
  /\ \/ part = "stream" /\ Init /\ FormatRests
     \/ part = "scanner" /\ StreamRests /\ FormatRests
     \/ part = "format" /\ XD!DocInit /\ StreamRests

StreamStep  == part = "stream" /\ Next /\ UNCHANGED <<part, streamVars, formatVars>>
ScannerStep == part = "scanner" /\ StreamNext /\ UNCHANGED <<part, vars, formatVars>>
FormatStep  == part = "format" /\ XD!DocNext /\ UNCHANGED <<part, vars, streamVars>>

DocumentsNext == StreamStep \/ ScannerStep \/ FormatStep
DocumentsSpec == DocumentsInit /\ [][DocumentsNext]_<<part, vars, streamVars, formatVars>>

-----------------------------------------------------------------------------
(* A request read back says what was written: the order and every field of *)
(* its parts, the tools' tri-state facts, and each dialect's parameters to *)
(* that dialect alone, where those that ride as attributes have become     *)
(* text and a tool that named no schema has the default one.  A failed     *)
(* answer of the provider is as transient, and as much an overflow, on the *)
(* far side ("An api error comes back as an *APIError so IsTransient and   *)
(* IsContextOverflow keep working", errorFrom).                            *)
DocumentSurvives == part = "format" => XD!DocumentSurvives

================================================================================
