------------------------------- MODULE MCRunLoop -------------------------------
(* At most four turns, and two batches the model may ask for; the constants *)
(* of stuck detection are scaled down from 3 and 6 to 2 and 3.              *)
EXTENDS RunLoop

CONSTANTS b1, b2
===============================================================================
