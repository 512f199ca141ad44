-------------------------- MODULE MCTrickCFSProcess --------------------------
(***************************************************************************)
(* TrickCFSProcess on small instances: an app that stays and may reset     *)
(* cFS with one that cFE stops, deletes and starts again; and two apps of  *)
(* the second kind, which take each other's slots and pipes.               *)
(***************************************************************************)
EXTENDS TrickCFSProcess

CONSTANTS
  es, worker,   \* apps
  b, c          \* the messages they listen to

MCPrio == [t \in Tasks |-> 0]
MCCreator == [p \in Pipes |-> 0]
MCListens == [m \in Mids |-> IF m = b THEN {worker} ELSE {es}]
MCEsFirst == [x \in Apps |-> IF x = worker THEN {es} ELSE {}]
MCAnyOrder == [x \in Apps |-> {}]
MCDelays == [x \in Apps |-> IF x = worker THEN {1} ELSE {}]
MCResets == [x \in Apps |-> IF x = es THEN {CFE_PSP_RST_TYPE_PROCESSOR} ELSE {}]
MCNoResets == [x \in Apps |-> {}]
MCNoDelays == [x \in Apps |-> {}]
MCTable == <<b>>
MCInstants == 0..60

\* Bound: the process is not looked at once it has ended or is told to exit.  A wait
\* with no limit only takes steps away.
MCGoesOn == Running /\ ~exitCmd /\ ~waitForever
==============================================================================
