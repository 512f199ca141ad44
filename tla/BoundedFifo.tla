----------------------------- MODULE BoundedFifo -----------------------------
(***************************************************************************)
(* What the OSAL message queue promises its callers: a bounded first-in    *)
(* first-out queue.  A send puts its message at the tail or is refused     *)
(* when the queue is full, a receive takes the message at the head, and    *)
(* any call may fail without touching the contents.  TrickCFSQueue         *)
(* implements it with a ring buffer.                                       *)
(***************************************************************************)
EXTENDS Naturals, Sequences

CONSTANTS Threads,  \* the callers
          Msgs,     \* what a send may carry
          Depths,   \* the depths a queue may be opened with
          Failures, \* the return codes with which a call of each thread may change nothing
          Ok,       \* the return code of a call that succeeds and returns no message
          Full      \* the return code of a send to a full queue

VARIABLES isOpen,   \* is there a queue at all
          depth,    \* its depth
          contents, \* the messages in it, the oldest first
          ret       \* what each thread's last call returned

fifoVars == <<isOpen, depth, contents, ret>>

Init ==
  /\ isOpen = FALSE
  /\ depth \in Nat
  /\ contents = <<>>
  /\ ret \in [Threads -> {Ok}]

\* A fresh queue is empty, whatever an earlier one of the same index held.
Open(d) ==
  /\ ~isOpen
  /\ isOpen' = TRUE
  /\ depth' = d
  /\ contents' = <<>>
  /\ UNCHANGED ret

\* What is left in a queue is gone when the queue is deleted.
Close ==
  /\ isOpen
  /\ isOpen' = FALSE
  /\ contents' = <<>>
  /\ UNCHANGED <<depth, ret>>

Put(t, m) ==
  /\ isOpen
  /\ Len(contents) < depth
  /\ contents' = Append(contents, m)
  /\ ret' = [ret EXCEPT ![t] = Ok]
  /\ UNCHANGED <<isOpen, depth>>

\* Only a full queue refuses a message (a queue closed under the caller's feet
\* may look full as well).
Refuse(t) ==
  /\ isOpen => Len(contents) = depth
  /\ ret' = [ret EXCEPT ![t] = Full]
  /\ UNCHANGED <<isOpen, depth, contents>>

Take(t) ==
  /\ isOpen
  /\ contents # <<>>
  /\ contents' = Tail(contents)
  /\ ret' = [ret EXCEPT ![t] = Head(contents)]
  /\ UNCHANGED <<isOpen, depth>>

Fail(t) ==
  /\ \E code \in Failures[t] : ret' = [ret EXCEPT ![t] = code]
  /\ UNCHANGED <<isOpen, depth, contents>>

Next ==
  \/ \E d \in Depths : Open(d)
  \/ Close
  \/ \E t \in Threads :
       \/ \E m \in Msgs : Put(t, m)
       \/ Refuse(t)
       \/ Take(t)
       \/ Fail(t)

Spec == Init /\ [][Next]_fifoVars
==============================================================================
