--------------------------- MODULE MCDisposablePtr ---------------------------
(***************************************************************************)
(* Instances of DisposablePtr for TLC.                                     *)
(***************************************************************************)
EXTENDS DisposablePtr

CONSTANTS t1, t2, p1, p2

\* The pointers are assigned to each other.
CrossCopies == {<<p1, p2>>, <<p2, p1>>}
=============================================================================
