----------------------------- MODULE MCCfThreads -----------------------------
(* Instances of CfThreads for TLC.                                         *)
EXTENDS CfThreads, TLC

CONSTANTS a, b, c, bUpper

\* Names written as the keys they are.
PlainLower == [n \in Name |-> n]

\* Two names, one of which is also written with a capital.
CasedLower == [n \in {a, b, bUpper} |-> IF n = bUpper THEN b ELSE n]

\* Sound for PlainLower, which treats all names alike.
Symmetry == Permutations(Thread) \cup Permutations(Name)
==============================================================================
