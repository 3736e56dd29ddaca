--------------------------- MODULE BackupPromise ---------------------------
(***************************************************************************)
(* What a backup run promises to whoever will want a file back: the       *)
(* archived copy of a file changes in one step, from one whole copy to     *)
(* another whole copy that the client had decided on, and never to         *)
(* anything in between, whatever is interrupted and whenever.              *)
(*                                                                         *)
(* A copy is the sequence of the contents of its blocks.                   *)
(***************************************************************************)
CONSTANTS File,      \* the files of the client
          Nothing    \* the copy of a file that was never archived

VARIABLES archived,  \* archived[f]: the copy an extraction would fetch now
          pending    \* pending[f]: the copies a running backup is sending

vars == <<archived, pending>>

Init == /\ archived = [f \in File |-> Nothing]
        /\ pending  = [f \in File |-> {}]

\* The client has computed a new copy of f and starts to send it.
Begin(f) == /\ \E c \in pending'[f] : pending' = [pending EXCEPT ![f] = @ \cup {c}]
            /\ UNCHANGED archived

\* A whole copy of f, one the client was sending, replaces the archived one.
Commit(f) == \E c \in pending[f] :
                /\ archived' = [archived EXCEPT ![f] = c]
                /\ pending' \in {pending, [pending EXCEPT ![f] = @ \ {c}]}

\* The backup stops; what was being sent is given up, the archive stays.
Abandon == /\ pending' = [f \in File |-> {}]
           /\ UNCHANGED archived

Next == Abandon \/ \E f \in File : Begin(f) \/ Commit(f)

Spec == Init /\ [][Next]_vars
=============================================================================
