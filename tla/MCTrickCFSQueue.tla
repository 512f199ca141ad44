--------------------------- MODULE MCTrickCFSQueue ---------------------------
(***************************************************************************)
(* TrickCFSQueue on small instances: one receiver that waits for good with *)
(* a large buffer, one with a deadline and a small buffer.                 *)
(***************************************************************************)
EXTENDS TrickCFSQueue, TLC

CONSTANTS r1, r2, m1, m2

MCBuffSize == r1 :> 2 @@ r2 :> 1
MCSizeOf == m1 :> 1 @@ m2 :> 2
==============================================================================
