----------------------------- MODULE MCRemoteAgent -----------------------------
(***************************************************************************)
(* Instances of RemoteAgent for TLC.                                       *)
(***************************************************************************)
EXTENDS RemoteAgent, TLC

CONSTANTS exp, imp, tab

\* One table from exp to imp.
OneTable == [r \in Rows |-> tab]
FromExp == tab :> exp
=============================================================================
