---------------------------- MODULE TrickCFSQueue ----------------------------
(***************************************************************************)
(* One TrickCFSQueue (models/TrickCFSQueue.cpp): the ring buffer behind an *)
(* OSAL message queue, used by several threads at once.                    *)
(*                                                                         *)
(* receive() and send() read isEnabled and maxSize WITHOUT the mutex and   *)
(* only then lock: the unlocked test and the locked section are two        *)
(* actions, and open() or close() may run in between.  The locked sections *)
(* are atomic except where the code waits on the condition variable.       *)
(* open() sets isEnabled before it has built the ring, which an unlocked   *)
(* test can see: it is two actions, with the mutex held in between.        *)
(* Whether a call in progress has been overtaken by a close, or by the     *)
(* open after it, is kept as history; what an oversized copy does to the   *)
(* memory behind a slot or a buffer is left out.                           *)
(*                                                                         *)
(* Each thread is one call site: Receivers have a fixed buffer size and a  *)
(* fixed choice of receive or timedreceive.  getNumMessages and            *)
(* getMaxMessages change nothing and are left out.                         *)
(***************************************************************************)
EXTENDS Integers, Sequences, FiniteSets

CONSTANTS
  Receivers,    \* threads that call receive / timedreceive
  Pending,      \* those of them that pass no deadline (ts == 0x0)
  BuffSize,     \* the buffer size each receiver passes
  Senders,      \* threads that call send
  Manager,      \* the thread that opens and closes the queue
  Msgs,         \* the messages sent
  SizeOf,       \* their lengths
  NoMsg,        \* the content of a slot fresh from calloc
  Depths,       \* the depths open may be given
  Sizes         \* the maximal message sizes open may be given

Callers == Receivers \cup Senders
Threads == Callers \cup {Manager}

\* What a call returns instead of a message.
Codes == {"OS_SUCCESS", "OS_ERROR", "OS_QUEUE_FULL", "OS_QUEUE_ID_ERROR",
          "OS_QUEUE_INVALID_SIZE", "OS_QUEUE_TIMEOUT"}

ASSUME QueueAssumption ==
  /\ IsFiniteSet(Receivers)
  /\ Receivers \cap Senders = {}
  /\ Manager \notin Callers
  /\ Pending \subseteq Receivers
  /\ BuffSize \in [Receivers -> Nat]
  /\ SizeOf \in [Msgs -> Nat]
  /\ NoMsg \notin Msgs
  /\ Msgs \cap Codes = {}
  /\ Depths \subseteq Nat \ {0}
  /\ Sizes \subseteq Nat

VARIABLES
  isEnabled,
  maxMsgs,
  maxSize,
  messages,       \* the ring: slot number -> slot; no slots at all when it is 0x0
  ringBufferIdx,
  numMessages,
  crashed,        \* a slot was dereferenced while messages was 0x0
  pc,             \* where each thread is
  msgPtr,         \* the message each sender passed to send
  ret,            \* what each thread's last call returned
  overtaken,      \* history: what has happened to the queue since the tests of the
                  \* call each thread is in
  lateSend        \* history: a sender whose tests were of the queue before this one
                  \* has put a message into the ring

queueVars == <<isEnabled, maxMsgs, maxSize, messages, ringBufferIdx, numMessages>>
historyVars == <<overtaken, lateSend>>
vars == <<queueVars, crashed, pc, msgPtr, ret, historyVars>>

Slot == [hasData : BOOLEAN, data : Msgs \cup {NoMsg}]
NoRing == [i \in {} |-> [hasData |-> FALSE, data |-> NoMsg]]

\* Where a thread can be: outside; past the unlocked tests; asleep on cv; woken
\* up; back from cv with ETIMEDOUT.  Both of the latter still need the mutex.
PCs == {"idle", "lock", "asleep", "woken", "expired", "opening"}

Return(t, code) ==
  /\ pc' = [pc EXCEPT ![t] = "idle"]
  /\ ret' = [ret EXCEPT ![t] = code]
  /\ overtaken' = [overtaken EXCEPT ![t] = "no"]

\* The calls in progress were tested on a queue that is no more.
Overtake(how) ==
  overtaken' = [t \in Callers |-> IF pc[t] = "idle" THEN "no" ELSE how]

\* Nobody holds cvMutex: all locked sections but open's are single steps.
MutexFree == pc[Manager] # "opening"

Init ==
  /\ isEnabled = FALSE
  /\ maxMsgs = 0
  /\ maxSize = 0
  /\ messages = NoRing
  /\ ringBufferIdx = 0
  /\ numMessages = 0
  /\ crashed = FALSE
  /\ pc = [t \in Threads |-> "idle"]
  /\ msgPtr = [s \in Senders |-> NoMsg]
  /\ ret = [t \in Threads |-> "OS_SUCCESS"]
  /\ overtaken = [t \in Callers |-> "no"]
  /\ lateSend = FALSE

------------------------------------------------------------------------------
\* open and close

\* open: an enabled queue is left as it is.
OpenBegin ==
  /\ pc[Manager] = "idle"
  /\ ~isEnabled
  /\ isEnabled' = TRUE
  /\ pc' = [pc EXCEPT ![Manager] = "opening"]
  /\ UNCHANGED <<maxMsgs, maxSize, messages, ringBufferIdx, numMessages,
                 crashed, msgPtr, ret, historyVars>>

\* Variant: numMessages survives from the queue closed before.
OpenEndKeepingCount(depthIn, maxSizeIn) ==
  /\ pc[Manager] = "opening"
  /\ messages' = [i \in 0..(depthIn - 1) |-> [hasData |-> FALSE, data |-> NoMsg]]
  /\ maxMsgs' = depthIn
  /\ maxSize' = maxSizeIn
  /\ ringBufferIdx' = 0
  /\ pc' = [pc EXCEPT ![Manager] = "idle"]
  /\ Overtake("rebuilt")
  /\ lateSend' = FALSE
  /\ UNCHANGED <<isEnabled, numMessages, crashed, msgPtr, ret>>

\* open: the ring is built; the mutex is held since OpenBegin.
OpenEnd(depthIn, maxSizeIn) ==
  /\ pc[Manager] = "opening"
  /\ messages' = [i \in 0..(depthIn - 1) |-> [hasData |-> FALSE, data |-> NoMsg]]
  /\ maxMsgs' = depthIn
  /\ maxSize' = maxSizeIn
  /\ ringBufferIdx' = 0
  /\ numMessages' = 0
  /\ pc' = [pc EXCEPT ![Manager] = "idle"]
  /\ Overtake("rebuilt")
  /\ lateSend' = FALSE
  /\ UNCHANGED <<isEnabled, crashed, msgPtr, ret>>

\* Variant: isEnabled stays set.
CloseLeavingEnabled ==
  /\ pc[Manager] = "idle"
  /\ isEnabled
  /\ messages' = NoRing
  /\ Overtake("closed")
  /\ UNCHANGED <<isEnabled, maxMsgs, maxSize, ringBufferIdx, numMessages,
                 crashed, pc, msgPtr, ret, lateSend>>

\* close: the slots are freed; the counters stay, and nobody is woken up.
Close ==
  /\ pc[Manager] = "idle"
  /\ isEnabled
  /\ messages' = NoRing
  /\ isEnabled' = FALSE
  /\ Overtake("closed")
  /\ UNCHANGED <<maxMsgs, maxSize, ringBufferIdx, numMessages,
                 crashed, pc, msgPtr, ret, lateSend>>

------------------------------------------------------------------------------
\* receive

\* Variant: the buffer size is not compared.
ReceiveTestNoSize(r) ==
  /\ pc[r] = "idle"
  /\ \/ ~isEnabled /\ Return(r, "OS_QUEUE_ID_ERROR")
     \/ isEnabled /\ pc' = [pc EXCEPT ![r] = "lock"] /\ UNCHANGED <<ret, overtaken>>
  /\ UNCHANGED <<queueVars, crashed, msgPtr, lateSend>>

\* The tests in front of the lock.
ReceiveTest(r) ==
  /\ pc[r] = "idle"
  /\ \/ ~isEnabled /\ Return(r, "OS_QUEUE_ID_ERROR")
     \/ isEnabled /\ BuffSize[r] < maxSize /\ Return(r, "OS_QUEUE_INVALID_SIZE")
     \/ /\ isEnabled /\ BuffSize[r] >= maxSize
        /\ pc' = [pc EXCEPT ![r] = "lock"]
        /\ UNCHANGED <<ret, overtaken>>
  /\ UNCHANGED <<queueVars, crashed, msgPtr, lateSend>>

Wrap(i) == IF i >= maxMsgs THEN 0 ELSE i

\* The head slot is read, emptied and given up.
TakeHead(r) ==
  LET nextMsg == messages[ringBufferIdx] IN
  IF nextMsg.hasData
  THEN /\ ringBufferIdx' = Wrap(ringBufferIdx + 1)
       /\ messages' = [messages EXCEPT ![ringBufferIdx].hasData = FALSE]
       /\ numMessages' = numMessages - 1
       /\ Return(r, nextMsg.data)
       /\ UNCHANGED <<isEnabled, maxMsgs, maxSize>>
  ELSE /\ Return(r, "OS_ERROR")  \* "Improper queue state"
       /\ UNCHANGED queueVars

\* Variant: a thread that was woken up does not look at numMessages again.
ReceiveWithIf(r) ==
  /\ pc[r] \in {"lock", "woken"}
  /\ MutexFree
  /\ \/ /\ numMessages = 0 /\ pc[r] = "lock"
        /\ pc' = [pc EXCEPT ![r] = "asleep"]
        /\ UNCHANGED <<queueVars, crashed, ret, overtaken>>
     \/ /\ numMessages # 0 \/ pc[r] = "woken"
        /\ ringBufferIdx \in DOMAIN messages
        /\ TakeHead(r)
        /\ UNCHANGED crashed
     \/ /\ numMessages # 0 /\ ringBufferIdx \notin DOMAIN messages
        /\ crashed' = TRUE
        /\ UNCHANGED <<queueVars, pc, ret, overtaken>>
  /\ UNCHANGED <<msgPtr, lateSend>>

\* One turn of the loop: sleep while the queue is empty, else take the head.
ReceiveLocked(r) ==
  /\ pc[r] \in {"lock", "woken"}
  /\ MutexFree
  /\ \/ /\ numMessages = 0
        /\ pc' = [pc EXCEPT ![r] = "asleep"]
        /\ UNCHANGED <<queueVars, crashed, ret, overtaken>>
     \/ /\ numMessages # 0 /\ ringBufferIdx \in DOMAIN messages
        /\ TakeHead(r)
        /\ UNCHANGED crashed
     \/ /\ numMessages # 0 /\ ringBufferIdx \notin DOMAIN messages
        /\ crashed' = TRUE
        /\ UNCHANGED <<queueVars, pc, ret, overtaken>>
  /\ UNCHANGED <<msgPtr, lateSend>>

\* pthread_cond_wait may return with nobody having signalled.
SpuriousWakeup(r) ==
  /\ pc[r] = "asleep"
  /\ pc' = [pc EXCEPT ![r] = "woken"]
  /\ UNCHANGED <<queueVars, crashed, msgPtr, ret, historyVars>>

\* The deadline of a timed wait passes; the mutex is still to be taken.
Expire(r) ==
  /\ r \notin Pending
  /\ pc[r] = "asleep"
  /\ pc' = [pc EXCEPT ![r] = "expired"]
  /\ UNCHANGED <<queueVars, crashed, msgPtr, ret, historyVars>>

ReceiveTimeout(r) ==
  /\ pc[r] = "expired"
  /\ MutexFree
  /\ Return(r, "OS_QUEUE_TIMEOUT")
  /\ UNCHANGED <<queueVars, crashed, msgPtr, lateSend>>

------------------------------------------------------------------------------
\* send

\* The tests in front of the lock.
SendTest(s, m) ==
  /\ pc[s] = "idle"
  /\ \/ /\ ~isEnabled \/ SizeOf[m] > maxSize
        /\ Return(s, "OS_ERROR")
        /\ UNCHANGED msgPtr
     \/ /\ isEnabled /\ SizeOf[m] <= maxSize
        /\ pc' = [pc EXCEPT ![s] = "lock"]
        /\ msgPtr' = [msgPtr EXCEPT ![s] = m]
        /\ UNCHANGED <<ret, overtaken>>
  /\ UNCHANGED <<queueVars, crashed, lateSend>>

\* Variant: nobody is signalled.
NoSignal(p) == pc' = p
\* pthread_cond_signal wakes one of the sleepers, if there is any.
Signal(p) ==
  \/ \E r \in Receivers : p[r] = "asleep" /\ pc' = [p EXCEPT ![r] = "woken"]
  \/ (\A r \in Receivers : p[r] # "asleep") /\ pc' = p

\* Variant: the window is taken to start at slot 0.
FreeSlotFromZero == numMessages
FreeSlot ==
  LET testIdx == ringBufferIdx + numMessages
  IN  IF testIdx >= maxMsgs THEN testIdx - maxMsgs ELSE testIdx

\* Variant: one message too many is let in.
SendLockedOneTooMany(s) ==
  /\ pc[s] = "lock"
  /\ MutexFree
  /\ \/ /\ numMessages <= maxMsgs /\ FreeSlot \in DOMAIN messages
        /\ messages' = [messages EXCEPT ![FreeSlot] =
                          [hasData |-> TRUE, data |-> msgPtr[s]]]
        /\ numMessages' = numMessages + 1
        /\ Signal([pc EXCEPT ![s] = "idle"])
        /\ ret' = [ret EXCEPT ![s] = "OS_SUCCESS"]
        /\ overtaken' = [overtaken EXCEPT ![s] = "no"]
        /\ lateSend' = (lateSend \/ overtaken[s] = "rebuilt")
        /\ UNCHANGED <<isEnabled, maxMsgs, maxSize, ringBufferIdx, crashed>>
     \/ /\ numMessages > maxMsgs
        /\ Return(s, "OS_QUEUE_FULL")
        /\ UNCHANGED <<queueVars, crashed, lateSend>>
  /\ UNCHANGED msgPtr

\* The message goes to the first free slot, or is dropped when there is none.
SendLocked(s) ==
  /\ pc[s] = "lock"
  /\ MutexFree
  /\ \/ /\ numMessages + 1 <= maxMsgs /\ FreeSlot \in DOMAIN messages
        /\ messages' = [messages EXCEPT ![FreeSlot] =
                          [hasData |-> TRUE, data |-> msgPtr[s]]]
        /\ numMessages' = numMessages + 1
        /\ Signal([pc EXCEPT ![s] = "idle"])
        /\ ret' = [ret EXCEPT ![s] = "OS_SUCCESS"]
        /\ overtaken' = [overtaken EXCEPT ![s] = "no"]
        /\ lateSend' = (lateSend \/ overtaken[s] = "rebuilt")
        /\ UNCHANGED <<isEnabled, maxMsgs, maxSize, ringBufferIdx, crashed>>
     \/ /\ numMessages + 1 <= maxMsgs /\ FreeSlot \notin DOMAIN messages
        /\ crashed' = TRUE
        /\ UNCHANGED <<queueVars, pc, ret, historyVars>>
     \/ /\ numMessages + 1 > maxMsgs
        /\ Return(s, "OS_QUEUE_FULL")
        /\ UNCHANGED <<queueVars, crashed, lateSend>>
  /\ UNCHANGED msgPtr

------------------------------------------------------------------------------
ReceiverNext(r) ==
  \/ ReceiveTest(r)
  \/ ReceiveLocked(r)
  \/ SpuriousWakeup(r)
  \/ Expire(r)
  \/ ReceiveTimeout(r)

SenderNext(s) ==
  \/ \E m \in Msgs : SendTest(s, m)
  \/ SendLocked(s)

ManagerNext ==
  \/ OpenBegin
  \/ \E depthIn \in Depths, maxSizeIn \in Sizes : OpenEnd(depthIn, maxSizeIn)
  \/ Close

\* A process that has dereferenced 0x0 is gone.
Next ==
  /\ ~crashed
  /\ \/ \E r \in Receivers : ReceiverNext(r)
     \/ \E s \in Senders : SenderNext(s)
     \/ ManagerNext

Spec == Init /\ [][Next]_vars

\* A thread inside a call gets the processor and the mutex in the end; nobody
\* has to make a call, and no wait has to be cut short.
Fairness ==
  /\ \A r \in Receivers : WF_vars(~crashed /\ (ReceiveLocked(r) \/ ReceiveTimeout(r)))
  /\ \A s \in Senders : WF_vars(~crashed /\ SendLocked(s))
  /\ \A d \in Depths, z \in Sizes : WF_vars(~crashed /\ OpenEnd(d, z))

LiveSpec == Spec /\ Fairness
------------------------------------------------------------------------------
\* What is true of the queue

TypeOK ==
  /\ isEnabled \in BOOLEAN
  /\ maxMsgs \in Nat
  /\ maxSize \in Nat
  /\ messages \in {NoRing} \cup [0..(maxMsgs - 1) -> Slot]
  /\ ringBufferIdx \in Nat
  /\ numMessages \in 0..maxMsgs
  /\ crashed \in BOOLEAN
  /\ pc \in [Threads -> PCs]
  /\ msgPtr \in [Senders -> Msgs \cup {NoMsg}]
  /\ ret \in [Threads -> Msgs \cup Codes]
  /\ overtaken \in [Callers -> {"no", "closed", "rebuilt"}]
  /\ lateSend \in BOOLEAN

HasRing == messages # NoRing

\* Slot i is one of the numMessages slots from ringBufferIdx on, around the ring.
InWindow(i) ==
  \/ ringBufferIdx <= i /\ i < ringBufferIdx + numMessages
  \/ i + maxMsgs < ringBufferIdx + numMessages

\* The slots that hold data are exactly the window that ringBufferIdx and
\* numMessages describe: no message is lost, read twice or overwritten when the
\* indices wrap or the queue is opened again.
RingWindow ==
  HasRing => /\ ringBufferIdx < maxMsgs
             /\ \A i \in 0..(maxMsgs - 1) : messages[i].hasData <=> InWindow(i)

\* receive's "Improper queue state" branch is dead code.
NeverImproper == \A r \in Receivers : ret[r] # "OS_ERROR"

Asleep == {r \in Receivers : pc[r] = "asleep"}
Woken == {r \in Receivers : pc[r] = "woken"}

\* No wake-up is lost: while a receiver sleeps, each message in the queue has a
\* receiver of its own that was woken up and has yet to look.
NoLostWakeup == Asleep # {} => numMessages <= Cardinality(Woken)

\* The slot that each thread past its tests is about to read or to write.
Touches(t) ==
  IF t \in Receivers
  THEN IF pc[t] \in {"lock", "woken"} /\ numMessages # 0 THEN {ringBufferIdx} ELSE {}
  ELSE IF pc[t] = "lock" /\ numMessages + 1 <= maxMsgs THEN {FreeSlot} ELSE {}

\* isEnabled is tested without the lock: only a call that a close has overtaken since
\* its tests can touch the slots of a closed queue, whatever else has run in between.
NoStaleAccess ==
  \A t \in Callers : MutexFree /\ overtaken[t] # "closed" => Touches(t) \subseteq DOMAIN messages

\* maxSize is compared without the lock, before the wait: what a receiver copies out
\* fits its buffer, unless the queue has been built anew since its tests or a sender
\* has put in a message that it had compared with the size of the queue before.
FitsBuffer ==
  [][\A r \in Receivers :
       pc[r] # "idle" /\ pc'[r] = "idle" /\ ret'[r] \in Msgs
       /\ overtaken[r] # "rebuilt" /\ ~lateSend
         => SizeOf[ret'[r]] <= BuffSize[r]]_vars

\* A queued message does not lie there while a receiver sleeps for good.
SleeperServed ==
  (numMessages > 0 /\ Asleep # {}) ~> (numMessages = 0 \/ crashed \/ Asleep = {})

------------------------------------------------------------------------------
\* The ring buffer implements the bounded fifo.

SlotAt(k) == LET i == ringBufferIdx + k - 1
             IN  IF i >= maxMsgs THEN i - maxMsgs ELSE i

contentsBar ==
  IF HasRing THEN [k \in 1..numMessages |-> messages[SlotAt(k)].data] ELSE <<>>

ReceiveFailures == {"OS_QUEUE_ID_ERROR", "OS_QUEUE_INVALID_SIZE", "OS_QUEUE_TIMEOUT"}

Fifo == INSTANCE BoundedFifo WITH
  Failures <- [t \in Threads |-> IF t \in Receivers THEN ReceiveFailures
                                 ELSE {"OS_ERROR"}],
  Ok <- "OS_SUCCESS", Full <- "OS_QUEUE_FULL",
  isOpen <- HasRing, depth <- maxMsgs, contents <- contentsBar, ret <- ret

\* The ring buffer refines BoundedFifo: what a receive returns is the oldest
\* message, a send is refused only when the queue is full, and a call that fails
\* changes nothing.
ImplementsFifo == Fifo!Spec
==============================================================================
