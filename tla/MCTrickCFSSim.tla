---------------------------- MODULE MCTrickCFSSim ----------------------------
(***************************************************************************)
(* TrickCFSSim on small instances: the apps and schedule tables of the     *)
(* runs.                                                                   *)
(***************************************************************************)
EXTENDS TrickCFSSim

CONSTANTS
  p0, p1, q1,       \* pipes: p0 of task 0, p1 and q1 of task 1
  a, b, c, g,       \* messages: a, b and c scheduled, g from elsewhere
  main, nested      \* call sites

Receives(p, s, n) == [pipe |-> p, site |-> s, timeout |-> n]

MCPrio == [t \in Tasks |-> 2 - t]
MCCreator == [p \in Pipes |-> IF p = p0 THEN 0 ELSE 1]
\* a wakes both tasks up, b commands task 1 on its second pipe, c on its first.
MCSubscribers == [m \in Mids |->
  CASE m = a -> {p0, p1} [] m = b -> {q1} [] m = c -> {p1} [] OTHER -> {}]

\* Task 0 waits for its wake-up message; task 1 does, with a deadline, and looks
\* for commands in between.
MCCalls == [t \in Tasks |->
  IF t = 0 THEN {Receives(p0, main, -1)}
  ELSE {Receives(p1, main, 2), Receives(q1, nested, 0)}]
MCDelays == [t \in Tasks |-> IF t = 0 THEN {2} ELSE {}]
\* Each task reads one pipe, from one call site.
MCOnePipeCalls == [t \in Tasks |->
  IF t = 0 THEN {Receives(p0, main, -1)} ELSE {Receives(p1, main, 2)}]
\* ... and both wait for good.
MCPendingCalls == [t \in Tasks |->
  IF t = 0 THEN {Receives(p0, main, -1)} ELSE {Receives(p1, main, -1)}]
MCOtherDelays == [t \in Tasks |-> IF t = 1 THEN {2} ELSE {}]
MCNoDelays == [t \in Tasks |-> {}]
MCTable == <<a, b>>
MCOnePipeTable == <<a, c>>
MCWakeUpTable == <<a>>
MCCommands == {<<q1, g>>}
MCForever == -1
==============================================================================
