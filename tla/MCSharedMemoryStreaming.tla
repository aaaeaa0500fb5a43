----------------------- MODULE MCSharedMemoryStreaming -----------------------
(***************************************************************************)
(* Instances of SharedMemoryStreaming for TLC.                             *)
(***************************************************************************)
EXTENDS SharedMemoryStreaming, TLC

CONSTANTS r1, r2
=============================================================================
