---------------------------- MODULE MCMemoryTable ----------------------------
(***************************************************************************)
(* Instances of MemoryTable for TLC.                                       *)
(***************************************************************************)
EXTENDS MemoryTable, TLC

CONSTANTS r1, r2, w1, w2

\* Each row has a key of its own: rows of one key do less.
KeyOf == [r \in Rows |-> r]

\* The rows are interchangeable, and so are the writers.
TableSymmetry == Permutations({r1, r2}) \cup Permutations({w1, w2})
=============================================================================
