--------------------------- MODULE ExtractPromise ---------------------------
(***************************************************************************)
(* What an extraction promises: whatever is missing or damaged in the      *)
(* archive, and wherever it is interrupted, what it has written for a file *)
(* is the archived copy up to some block, in the order of its block list,  *)
(* with no block twice and no foreign bytes, and no write is taken back.   *)
(* Blocks overlap, so another order would be another file.                 *)
(***************************************************************************)
EXTENDS Naturals, Sequences, SequencesExt

VARIABLES copy,     \* copy[f]: the blocks of f that the archive can still give
          got       \* what has been written for the files, write by write

vars == <<copy, got>>

Init == got = <<>>

\* The blocks of its file that were written before write i of q.
Before(q, i) == {q[j].block : j \in {k \in 1 .. i - 1 : q[k].file = q[i].file}}

\* It is the next block of the copy.
InTurn(q, i) == /\ q[i].block \in copy[q[i].file]
                /\ Before(q, i) = {k \in copy[q[i].file] : k < q[i].block}

\* Some files are written further, the others stay as they are.
Further == /\ IsPrefix(got, got')
           /\ \A i \in Len(got) + 1 .. Len(got') : InTurn(got', i)
           /\ UNCHANGED copy

Spec == Init /\ [][Further]_vars
=============================================================================
