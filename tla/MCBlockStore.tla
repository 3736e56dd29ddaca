---------------------------- MODULE MCBlockStore ----------------------------
(***************************************************************************)
(* The instance of BlockStore that TLC checks.                             *)
(***************************************************************************)
EXTENDS BlockStore, TLC

Swap == Permutations(Process) \cup Permutations(Phrase)

\* What the files have held only matters while the machine may still stop, or is down:
\* states that differ in nothing else are one state for TLC.
Seen == <<type, ids, texts, file, pc, object, last, up, faults,
          IF up /\ faults = MaxFault THEN {} ELSE versions>>
=============================================================================
