------------------------------- MODULE MCWire -------------------------------
(***************************************************************************)
(* The instance of Wire that TLC checks: bytes are decimal digits, a 16-bit*)
(* integer has one of them and a 32-bit integer has two.                   *)
(***************************************************************************)
EXTENDS Wire

\* What a client sends, with a packet after the goodbye, and what a server sends.
Conversations ==
    {<<[cmd |-> Hello, version |-> 1, archive |-> 12, pass |-> 34, create |-> 0,
        message |-> <<>>],
       [cmd |-> Bye, version |-> 0, error |-> 1],
       [cmd |-> PutBlock, file |-> 1, block |-> 0, data |-> <<9>>]>>,
     <<[cmd |-> PutBlock, file |-> 3, block |-> 45, data |-> <<1>>],
       [cmd |-> GetBlock, file |-> 1, block |-> 2, archive |-> 30]>>,
     <<[cmd |-> HelloAck, version |-> 2, error |-> 3, archive |-> 1, message |-> <<8>>],
       [cmd |-> PutBlockAck, file |-> 3, block |-> 45, archive |-> 60]>>,
     <<[cmd |-> GetBlockAck, file |-> 5, block |-> 0, data |-> <<4>>],
       [cmd |-> GetBlockAck, file |-> 99, block |-> 1, data |-> <<>>]>>}
=============================================================================
