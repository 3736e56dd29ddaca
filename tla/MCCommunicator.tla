--------------------------- MODULE MCCommunicator ---------------------------
(***************************************************************************)
(* The programs that TLC runs on the Communicator.                         *)
(***************************************************************************)
EXTENDS Communicator, TLC

CONSTANTS c1, c2, b1, b2, b3, b4, b5

\* c1 calls wait twice, c2 as well.
TwoWaiters == c1 :> <<b1, b2, Wait, b3, Wait>> @@ c2 :> <<b4, Wait>>

\* The first action of b1 fetches b5, and its second does nothing.
Chain == [b \in Block |-> IF b = b1 THEN << <<b5>>, <<>> >> ELSE << <<>> >>]
=============================================================================
