------------------------------- MODULE Mailbox -------------------------------
(***************************************************************************)
(* What the queue into a running loop promises its producers, with no lock *)
(* and no program counter: a message that was taken waits, is handed to    *)
(* the conversation, or comes back when the run is over.  No message is in *)
(* two of these places and none disappears; once the mailbox is shut       *)
(* nothing more is taken, so what comes back is final.                     *)
(***************************************************************************)
CONSTANT Message      \* every message some producer may offer

VARIABLES
  waiting,            \* taken, and not yet read by the run
  delivered,          \* appended to the conversation at a turn boundary
  returned,           \* handed back as undelivered when the run ended
  open                \* messages are still taken

vars == <<waiting, delivered, returned, open>>

Everywhere == waiting \cup delivered \cup returned

Init ==
  /\ waiting = {}
  /\ delivered = {}
  /\ returned = {}
  /\ open = TRUE

\* A producer is told "taken"; the promise about m starts here.
Accept(m) ==
  /\ open
  /\ m \notin Everywhere
  /\ waiting' = waiting \cup {m}
  /\ UNCHANGED <<delivered, returned, open>>

\* A turn boundary reads everything that waits.
Deliver ==
  /\ delivered' = delivered \cup waiting
  /\ waiting' = {}
  /\ UNCHANGED <<returned, open>>

\* The run is over: from now on a producer is told "not taken".
Shut ==
  /\ open
  /\ open' = FALSE
  /\ UNCHANGED <<waiting, delivered, returned>>

\* What nobody will read any more goes back to the caller.
HandBack ==
  /\ ~open
  /\ returned' = returned \cup waiting
  /\ waiting' = {}
  /\ UNCHANGED <<delivered, open>>

Next ==
  \/ \E m \in Message : Accept(m)
  \/ Deliver
  \/ Shut
  \/ HandBack

Safety == Init /\ [][Next]_vars
=============================================================================
