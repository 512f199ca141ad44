-------------------------- MODULE PeriodicTimetable --------------------------
(***************************************************************************)
(* What a schedule table promises: in frame n, counted from 1, exactly the *)
(* entries whose period divides n are sent, once each and in the order of  *)
(* the table, before the frame ends.  No counters.                         *)
(***************************************************************************)
EXTENDS Integers

CONSTANT Entries   \* numbers

VARIABLES
  period,    \* frames between two commands of an entry, 0 for never
  running,   \* the periods are fixed for good
  frame,     \* frames begun
  sending,   \* inside a frame
  sent       \* what this frame, or the last one, has sent

vars == <<period, running, frame, sending, sent>>

Due == {e \in Entries : period[e] # 0 /\ frame % period[e] = 0}

Init ==
  /\ period = [e \in Entries |-> 0]
  /\ running = FALSE
  /\ frame = 0
  /\ sending = FALSE
  /\ sent = {}

SetUp ==
  /\ ~running
  /\ period' \in [Entries -> Nat]
  /\ running' \in BOOLEAN
  /\ UNCHANGED <<frame, sending, sent>>

Begin ==
  /\ running /\ ~sending
  /\ frame' = frame + 1
  /\ sent' = {}
  /\ sending' = TRUE
  /\ UNCHANGED <<period, running>>

Send(e) ==
  /\ sending
  /\ e \in Due
  /\ \A s \in sent : s < e
  /\ sent' = sent \union {e}
  /\ UNCHANGED <<period, running, frame, sending>>

End ==
  /\ sending
  /\ sent = Due
  /\ sending' = FALSE
  /\ UNCHANGED <<period, running, frame, sent>>

Next == SetUp \/ Begin \/ (\E e \in Entries : Send(e)) \/ End

Spec == Init /\ [][Next]_vars
==============================================================================
