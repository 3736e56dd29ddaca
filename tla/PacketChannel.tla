---------------------------- MODULE PacketChannel ----------------------------
(***************************************************************************)
(* What one direction of the connection promises the protocol handlers:    *)
(* the packets that one side sends reach the other whole, once and in      *)
(* order, each understood as it was meant, and nothing else does.          *)
(***************************************************************************)
EXTENDS Integers, Sequences

CONSTANT Agree(_, _)  \* Agree(p, q): q is p as its receiver is to understand it

VARIABLES sent, got

Init == sent = <<>> /\ got = <<>>

Send ==
    /\ Len(sent') = Len(sent) + 1 /\ SubSeq(sent', 1, Len(sent)) = sent
    /\ UNCHANGED got

Deliver ==
    /\ Len(got) < Len(sent)
    /\ Len(got') = Len(got) + 1 /\ SubSeq(got', 1, Len(got)) = got
    /\ Agree(sent[Len(got) + 1], got'[Len(got) + 1])
    /\ UNCHANGED sent

Next == Send \/ Deliver

Spec == Init /\ [][Next]_<<sent, got>>
=============================================================================
