----------------------------- MODULE MCExtract -----------------------------
(***************************************************************************)
(* The instances of ExtractSession that TLC checks.                        *)
(***************************************************************************)
EXTENDS ExtractSession, TLC

CONSTANTS f1, f2

\* One file of two blocks, another of one.
TwoLists == [f \in File |-> IF f = f1 THEN 2 ELSE 1]

\* `cryptar --extract', and two arguments of which one is a prefix of the other.
CommandLines == {<<{f1, f2}>>, <<{f1, f2}, {f1}>>, <<{f2}, {f1}>>}

InOrder == <<f1, f2>>

OneName == <<f1>>
OneLine == {<<{f1}>>}
=============================================================================
