--------------------------- MODULE MCSimpleContext ---------------------------
(***************************************************************************)
(* Instances of SimpleContext for TLC.                                     *)
(***************************************************************************)
EXTENDS SimpleContext, TLC

CONSTANTS a1, a2, a3, s1, c1, c2

\* Instances without timers.
NoInterval == [c \in {} |-> 1]
NoCount == [c \in {} |-> 0]

\* A periodic and a one-shot client.
TwoIntervals == c1 :> 1 @@ c2 :> 1
TwoCounts == c1 :> 0 @@ c2 :> 1
=============================================================================
