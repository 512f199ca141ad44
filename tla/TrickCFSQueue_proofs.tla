------------------------ MODULE TrickCFSQueue_proofs -------------------------
(***************************************************************************)
(* Proofs about TrickCFSQueue, for every set of threads, every message     *)
(* type and every sequence of queue depths: the types, the ring window and *)
(* the refinement of BoundedFifo.                                          *)
(***************************************************************************)
EXTENDS TrickCFSQueue, FiniteSetTheorems, TLAPS

\* Between calls of open and close the flag says whether there is a ring; while
\* open holds the mutex it runs ahead of the ring.
FlagInv ==
  /\ pc[Manager] \in {"idle", "opening"}
  /\ HasRing <=> isEnabled /\ pc[Manager] = "idle"
  /\ pc[Manager] = "opening" => isEnabled
  /\ HasRing => messages \in [0..(maxMsgs - 1) -> Slot] /\ maxMsgs # 0

\* What is in the ring, and what a sender is about to put there, is a message.
DataInv ==
  HasRing => \A i \in 0..(maxMsgs - 1) : messages[i].hasData => messages[i].data \in Msgs
SenderInv == \A s \in Senders : pc[s] # "idle" => msgPtr[s] \in Msgs

IInv == TypeOK /\ FlagInv /\ RingWindow /\ DataInv /\ SenderInv

\* A ring with at least one slot is not the absence of one.
LEMMA NonEmptyRing ==
  ASSUME NEW n \in Nat \ {0}, NEW f, DOMAIN f = 0..(n - 1)
  PROVE  f # NoRing
  <1>1. 0 \in DOMAIN f
    OBVIOUS
  <1>2. DOMAIN NoRing = {}
    BY DEF NoRing
  <1> QED
    BY <1>1, <1>2

LEMMA InitIInv == Init => IInv
  <1> SUFFICES ASSUME Init PROVE IInv
    OBVIOUS
  <1>1. TypeOK
    <2>1. maxMsgs = 0 /\ maxSize = 0 /\ ringBufferIdx = 0 /\ numMessages = 0
      BY DEF Init
    <2>6. maxMsgs \in Nat /\ maxSize \in Nat /\ ringBufferIdx \in Nat
          /\ numMessages \in 0..maxMsgs
      BY <2>1
    <2>7. isEnabled \in BOOLEAN /\ crashed \in BOOLEAN
      BY DEF Init
    <2>2. messages \in {NoRing} \cup [0..(maxMsgs - 1) -> Slot]
      BY DEF Init
    <2>3. pc \in [Threads -> PCs]
      BY DEF Init, PCs
    <2>4. msgPtr \in [Senders -> Msgs \cup {NoMsg}]
      BY DEF Init
    <2>5. ret \in [Threads -> Msgs \cup Codes]
      BY DEF Init, Codes
    <2>8. overtaken \in [Callers -> {"no", "closed", "rebuilt"}] /\ lateSend \in BOOLEAN
      BY DEF Init
    <2> QED
      BY <2>2, <2>3, <2>4, <2>5, <2>6, <2>7, <2>8 DEF TypeOK
  <1>2. FlagInv
    BY QueueAssumption DEF Init, FlagInv, HasRing, Threads, Callers
  <1>3. RingWindow
    BY DEF Init, RingWindow, HasRing
  <1>4. DataInv
    BY DEF Init, DataInv, HasRing
  <1>5. SenderInv
    BY QueueAssumption DEF Init, SenderInv, Threads, Callers
  <1> QED
    BY <1>1, <1>2, <1>3, <1>4, <1>5 DEF IInv

\* A step of a thread that leaves the queue alone.
LEMMA QuietStep ==
  ASSUME IInv, UNCHANGED queueVars, pc'[Manager] = pc[Manager]
  PROVE  FlagInv' /\ RingWindow' /\ DataInv'
  BY DEF IInv, FlagInv, RingWindow, DataInv, HasRing, InWindow, queueVars

\* A step of a thread that is no sender.
LEMMA NotSending ==
  ASSUME IInv, UNCHANGED msgPtr, \A s \in Senders : pc'[s] = pc[s]
  PROVE  SenderInv'
  BY DEF IInv, SenderInv

\* What a call does to the history keeps its type.
LEMMA HistoryTyped ==
  ASSUME IInv, NEW t \in Callers,
         UNCHANGED overtaken \/ overtaken' = [overtaken EXCEPT ![t] = "no"],
         UNCHANGED lateSend \/ lateSend' = (lateSend \/ overtaken[t] = "rebuilt")
  PROVE  overtaken' \in [Callers -> {"no", "closed", "rebuilt"}] /\ lateSend' \in BOOLEAN
  BY DEF IInv, TypeOK

LEMMA OpenBeginIInv == ASSUME IInv, OpenBegin PROVE IInv'
  <1> USE QueueAssumption DEF IInv
  <1>1. TypeOK'
    BY DEF TypeOK, OpenBegin, PCs, Threads, Callers, Slot, historyVars
  <1>2. FlagInv'
    BY DEF TypeOK, FlagInv, OpenBegin, HasRing, Threads, Callers
  <1>3. RingWindow'
    BY DEF FlagInv, RingWindow, OpenBegin, HasRing
  <1>4. DataInv'
    BY DEF FlagInv, DataInv, OpenBegin, HasRing
  <1>5. SenderInv'
    <2>1. UNCHANGED msgPtr /\ \A s \in Senders : pc'[s] = pc[s]
      BY DEF OpenBegin, TypeOK, Threads, Callers
    <2> QED
      BY <2>1, NotSending
  <1> QED
    BY <1>1, <1>2, <1>3, <1>4, <1>5

LEMMA OpenEndIInv ==
  ASSUME IInv, NEW d \in Depths, NEW z \in Sizes, OpenEnd(d, z)
  PROVE  IInv'
  <1> USE QueueAssumption DEF IInv
  <1>1. d \in Nat \ {0} /\ z \in Nat
    OBVIOUS
  <1>2. messages' \in [0..(d - 1) -> Slot] /\ DOMAIN messages' = 0..(d - 1)
    BY DEF OpenEnd, Slot
  <1>3. HasRing'
    BY <1>1, <1>2, NonEmptyRing DEF HasRing
  <1>4. TypeOK'
    <2>1. maxMsgs' = d /\ maxSize' = z /\ numMessages' = 0 /\ ringBufferIdx' = 0
      BY DEF OpenEnd
    <2>2. messages' \in ({NoRing} \cup [0..(maxMsgs - 1) -> Slot])'
      BY <1>2, <2>1
    <2>3. pc' \in [Threads -> PCs]
      BY DEF TypeOK, OpenEnd, PCs
    <2>4. UNCHANGED <<isEnabled, crashed, msgPtr, ret>>
      BY DEF OpenEnd
    <2>5. /\ overtaken' \in [Callers -> {"no", "closed", "rebuilt"}]
          /\ lateSend' \in BOOLEAN
      BY DEF OpenEnd, Overtake
    <2> QED
      BY <1>1, <2>1, <2>2, <2>3, <2>4, <2>5 DEF TypeOK
  <1>5. FlagInv'
    BY <1>1, <1>2, <1>3 DEF TypeOK, FlagInv, OpenEnd, Threads, Callers
  <1>6. RingWindow'
    BY <1>1 DEF RingWindow, OpenEnd, InWindow
  <1>7. DataInv'
    BY <1>1 DEF DataInv, OpenEnd
  <1>8. SenderInv'
    <2>1. UNCHANGED msgPtr /\ \A s \in Senders : pc'[s] = pc[s]
      BY DEF OpenEnd, TypeOK, Threads, Callers
    <2> QED
      BY <2>1, NotSending
  <1> QED
    BY <1>4, <1>5, <1>6, <1>7, <1>8

LEMMA CloseIInv == ASSUME IInv, Close PROVE IInv'
  <1> USE QueueAssumption DEF IInv
  <1>1. TypeOK'
    BY DEF TypeOK, Close, Overtake
  <1>2. FlagInv'
    BY DEF FlagInv, Close, HasRing
  <1>3. RingWindow'
    BY DEF RingWindow, Close, HasRing
  <1>4. DataInv'
    BY DEF DataInv, Close, HasRing
  <1>5. SenderInv'
    <2>1. UNCHANGED msgPtr /\ \A s \in Senders : pc'[s] = pc[s]
      BY DEF Close, TypeOK, Threads, Callers
    <2> QED
      BY <2>1, NotSending
  <1> QED
    BY <1>1, <1>2, <1>3, <1>4, <1>5

LEMMA ReceiveTestIInv ==
  ASSUME IInv, NEW r \in Receivers, ReceiveTest(r)
  PROVE  IInv'
  <1> USE QueueAssumption DEF IInv
  <1>1. TypeOK'
    BY DEF TypeOK, ReceiveTest, Return, PCs, Codes, Threads, Callers, queueVars
  <1>2. UNCHANGED queueVars /\ pc'[Manager] = pc[Manager]
    BY DEF TypeOK, ReceiveTest, Return, Threads, Callers
  <1>3. UNCHANGED msgPtr /\ \A s \in Senders : pc'[s] = pc[s]
    BY DEF TypeOK, ReceiveTest, Return, Threads, Callers
  <1> QED
    BY <1>1, <1>2, <1>3, QuietStep, NotSending

LEMMA SpuriousWakeupIInv ==
  ASSUME IInv, NEW r \in Receivers, SpuriousWakeup(r)
  PROVE  IInv'
  <1> USE QueueAssumption DEF IInv
  <1>1. TypeOK'
    BY DEF TypeOK, SpuriousWakeup, PCs, Threads, Callers, queueVars, historyVars
  <1>2. UNCHANGED queueVars /\ pc'[Manager] = pc[Manager]
    BY DEF TypeOK, SpuriousWakeup, Threads, Callers
  <1>3. UNCHANGED msgPtr /\ \A s \in Senders : pc'[s] = pc[s]
    BY DEF TypeOK, SpuriousWakeup, Threads, Callers
  <1> QED
    BY <1>1, <1>2, <1>3, QuietStep, NotSending

LEMMA ExpireIInv ==
  ASSUME IInv, NEW r \in Receivers, Expire(r)
  PROVE  IInv'
  <1> USE QueueAssumption DEF IInv
  <1>1. TypeOK'
    BY DEF TypeOK, Expire, PCs, Threads, Callers, queueVars, historyVars
  <1>2. UNCHANGED queueVars /\ pc'[Manager] = pc[Manager]
    BY DEF TypeOK, Expire, Threads, Callers
  <1>3. UNCHANGED msgPtr /\ \A s \in Senders : pc'[s] = pc[s]
    BY DEF TypeOK, Expire, Threads, Callers
  <1> QED
    BY <1>1, <1>2, <1>3, QuietStep, NotSending

LEMMA ReceiveTimeoutIInv ==
  ASSUME IInv, NEW r \in Receivers, ReceiveTimeout(r)
  PROVE  IInv'
  <1> USE QueueAssumption DEF IInv
  <1>1. TypeOK'
    BY DEF TypeOK, ReceiveTimeout, Return, PCs, Codes, Threads, Callers, queueVars
  <1>2. UNCHANGED queueVars /\ pc'[Manager] = pc[Manager]
    BY DEF TypeOK, ReceiveTimeout, Return, Threads, Callers
  <1>3. UNCHANGED msgPtr /\ \A s \in Senders : pc'[s] = pc[s]
    BY DEF TypeOK, ReceiveTimeout, Return, Threads, Callers
  <1> QED
    BY <1>1, <1>2, <1>3, QuietStep, NotSending

LEMMA SendTestIInv ==
  ASSUME IInv, NEW s \in Senders, NEW m \in Msgs, SendTest(s, m)
  PROVE  IInv'
  <1> USE QueueAssumption DEF IInv
  <1>1. TypeOK'
    BY DEF TypeOK, SendTest, Return, PCs, Codes, Threads, Callers, queueVars
  <1>2. UNCHANGED queueVars /\ pc'[Manager] = pc[Manager]
    BY DEF TypeOK, SendTest, Return, Threads, Callers
  <1>3. SenderInv'
    BY DEF TypeOK, SenderInv, SendTest, Return, Threads, Callers
  <1> QED
    BY <1>1, <1>2, <1>3, QuietStep

\* The arithmetic of the ring: taking the head shrinks the window at its lower
\* end, filling the free slot extends it at its upper end.
LEMMA HeadLeavesWindow ==
  ASSUME NEW n \in Nat \ {0}, NEW c \in 1..n, NEW b \in 0..(n - 1), NEW i \in 0..(n - 1),
         NEW b2, b2 = IF b + 1 >= n THEN 0 ELSE b + 1
  PROVE  (\/ b2 <= i /\ i < b2 + (c - 1)
          \/ i + n < b2 + (c - 1))
         <=> (\/ b <= i /\ i < b + c
              \/ i + n < b + c) /\ i # b
  OBVIOUS

LEMMA FreeSlotJoinsWindow ==
  ASSUME NEW n \in Nat \ {0}, NEW c \in 0..(n - 1), NEW b \in 0..(n - 1), NEW i \in 0..(n - 1),
         NEW f, f = IF b + c >= n THEN b + c - n ELSE b + c
  PROVE  (\/ b <= i /\ i < b + (c + 1)
          \/ i + n < b + (c + 1))
         <=> (\/ b <= i /\ i < b + c
              \/ i + n < b + c) \/ i = f
  OBVIOUS

\* While a thread is in a locked section the ring is what the flag says, and its
\* head and its first free slot are slots of it.
LEMMA RingShape ==
  ASSUME IInv, HasRing
  PROVE  /\ maxMsgs \in Nat \ {0}
         /\ messages \in [0..(maxMsgs - 1) -> Slot]
         /\ ringBufferIdx \in 0..(maxMsgs - 1)
         /\ numMessages \in 0..maxMsgs
         /\ numMessages + 1 <= maxMsgs => FreeSlot \in 0..(maxMsgs - 1)
  <1>1. /\ maxMsgs \in Nat \ {0}
        /\ messages \in [0..(maxMsgs - 1) -> Slot]
        /\ ringBufferIdx \in Nat /\ ringBufferIdx < maxMsgs
        /\ numMessages \in 0..maxMsgs
    BY DEF IInv, TypeOK, FlagInv, RingWindow
  <1> QED
    BY <1>1 DEF FreeSlot

\* The head of a queue with messages holds data.
LEMMA HeadHasData ==
  ASSUME IInv, HasRing, numMessages # 0
  PROVE  messages[ringBufferIdx].hasData
  <1>1. ringBufferIdx \in 0..(maxMsgs - 1) /\ numMessages \in Nat \ {0}
    BY RingShape
  <1>2. InWindow(ringBufferIdx)
    BY <1>1 DEF InWindow
  <1> QED
    BY <1>1, <1>2 DEF IInv, RingWindow

LEMMA DomainOfRing ==
  ASSUME IInv
  PROVE  DOMAIN messages # {} => HasRing
  BY DEF HasRing, NoRing

LEMMA ReceiveLockedIInv ==
  ASSUME IInv, NEW r \in Receivers, ReceiveLocked(r)
  PROVE  IInv'
  <1> USE QueueAssumption
  <1>0. r # Manager /\ r \in Threads /\ r \in Callers
    BY DEF Threads, Callers
  <1>00. UNCHANGED msgPtr /\ UNCHANGED lateSend
    BY DEF ReceiveLocked
  <1>000. /\ overtaken' \in [Callers -> {"no", "closed", "rebuilt"}]
          /\ lateSend' \in BOOLEAN
    BY <1>0, <1>00, HistoryTyped DEF ReceiveLocked, TakeHead, Return
  <1>1. CASE UNCHANGED queueVars /\ pc' = [pc EXCEPT ![r] = "asleep"] /\ UNCHANGED <<crashed, ret>>
    <2>1. TypeOK'
      BY <1>00, <1>000, <1>1 DEF IInv, TypeOK, PCs, queueVars
    <2>2. pc'[Manager] = pc[Manager]
      BY <1>0, <1>1 DEF IInv, TypeOK, Threads, Callers
    <2>3. \A s \in Senders : pc'[s] = pc[s]
      BY <1>0, <1>1 DEF IInv, TypeOK, Threads, Callers
    <2> QED
      BY <1>00, <1>1, <2>1, <2>2, <2>3, QuietStep, NotSending DEF IInv
  <1>2. CASE /\ numMessages # 0 /\ ringBufferIdx \in DOMAIN messages
             /\ TakeHead(r) /\ UNCHANGED crashed
    <2>1. HasRing
      BY <1>2, DomainOfRing
    <2>2. messages[ringBufferIdx].hasData
      BY <1>2, <2>1, HeadHasData
    <2>3. /\ ringBufferIdx' = Wrap(ringBufferIdx + 1)
          /\ messages' = [messages EXCEPT ![ringBufferIdx].hasData = FALSE]
          /\ numMessages' = numMessages - 1
          /\ Return(r, messages[ringBufferIdx].data)
          /\ UNCHANGED <<isEnabled, maxMsgs, maxSize, crashed, msgPtr>>
      BY <1>2, <2>2 DEF TakeHead, ReceiveLocked
    <2>4. /\ maxMsgs \in Nat \ {0}
          /\ messages \in [0..(maxMsgs - 1) -> Slot]
          /\ ringBufferIdx \in 0..(maxMsgs - 1)
          /\ numMessages \in 1..maxMsgs
      BY <1>2, <2>1, RingShape
    <2>5. messages' \in [0..(maxMsgs - 1) -> Slot]
      BY <2>3, <2>4 DEF Slot
    <2>6. HasRing'
      BY <2>3, <2>4, <2>5, NonEmptyRing DEF HasRing
    <2>7. ringBufferIdx' \in 0..(maxMsgs - 1) /\ numMessages' \in 0..maxMsgs
      BY <2>3, <2>4 DEF Wrap
    <2>8. pc' \in [Threads -> PCs] /\ pc'[Manager] = pc[Manager]
      BY <1>0, <2>3 DEF Return, IInv, TypeOK, PCs, Threads, Callers
    <2>12. messages[ringBufferIdx].data \in Msgs
      BY <2>1, <2>2, <2>4 DEF IInv, DataInv
    <2>13. ret' \in [Threads -> Msgs \cup Codes]
      BY <2>3, <2>12 DEF Return, IInv, TypeOK
    <2>9. TypeOK'
      BY <1>000, <2>3, <2>4, <2>5, <2>7, <2>8, <2>13 DEF IInv, TypeOK
    <2>10. FlagInv'
      BY <2>1, <2>3, <2>4, <2>5, <2>6, <2>8 DEF IInv, FlagInv
    <2>11. RingWindow'
      <3> SUFFICES ASSUME NEW i \in 0..(maxMsgs - 1)
                   PROVE  messages'[i].hasData <=> InWindow(i)'
        BY <2>3, <2>4, <2>7 DEF RingWindow
      <3>1. messages[i].hasData <=> InWindow(i)
        BY <2>1 DEF IInv, RingWindow
      <3>2. messages'[i].hasData <=> messages[i].hasData /\ i # ringBufferIdx
        BY <2>3, <2>4 DEF Slot
      <3>3. InWindow(i)' <=> InWindow(i) /\ i # ringBufferIdx
        BY <2>3, <2>4, HeadLeavesWindow DEF InWindow, Wrap
      <3> QED
        BY <3>1, <3>2, <3>3
    <2>14. DataInv'
      BY <2>1, <2>3, <2>4 DEF IInv, DataInv, Slot
    <2>15. SenderInv'
      <3>1. \A s \in Senders : pc'[s] = pc[s]
        BY <1>0, <2>3 DEF Return, IInv, TypeOK, Threads, Callers
      <3> QED
        BY <1>00, <3>1, NotSending
    <2> QED
      BY <2>9, <2>10, <2>11, <2>14, <2>15 DEF IInv
  <1>3. CASE crashed' = TRUE /\ UNCHANGED <<queueVars, pc, ret>>
    <2>1. TypeOK'
      BY <1>00, <1>000, <1>3 DEF IInv, TypeOK, queueVars
    <2> QED
      BY <1>00, <1>3, <2>1, QuietStep, NotSending DEF IInv
  <1> QED
    BY <1>1, <1>2, <1>3 DEF ReceiveLocked

\* Whom a signal reaches is a receiver that was asleep.
LEMMA SignalWakesReceiver ==
  ASSUME IInv, NEW s \in Senders, Signal([pc EXCEPT ![s] = "idle"])
  PROVE  /\ pc' \in [Threads -> PCs]
         /\ pc'[Manager] = pc[Manager]
         /\ pc'[s] = "idle"
         /\ \A u \in Senders \ {s} : pc'[u] = pc[u]
  <1> USE QueueAssumption
  <1> DEFINE p == [pc EXCEPT ![s] = "idle"]
  <1>1. /\ p \in [Threads -> PCs]
        /\ p[Manager] = pc[Manager]
        /\ p[s] = "idle"
        /\ \A u \in Senders \ {s} : p[u] = pc[u]
    BY DEF IInv, TypeOK, Threads, Callers, PCs
  <1>2. pc' = p \/ \E r \in Receivers : pc' = [p EXCEPT ![r] = "woken"]
    BY DEF Signal
  <1> HIDE DEF p
  <1>3. CASE pc' = p
    BY <1>1, <1>3
  <1>4. ASSUME NEW r \in Receivers, pc' = [p EXCEPT ![r] = "woken"]
        PROVE  /\ pc' \in [Threads -> PCs]
               /\ pc'[Manager] = pc[Manager]
               /\ pc'[s] = "idle"
               /\ \A u \in Senders \ {s} : pc'[u] = pc[u]
    BY <1>1, <1>4 DEF Threads, Callers, PCs
  <1> QED
    BY <1>2, <1>3, <1>4

LEMMA SendLockedIInv ==
  ASSUME IInv, NEW s \in Senders, SendLocked(s)
  PROVE  IInv'
  <1> USE QueueAssumption
  <1>0. s \in Callers
    BY DEF Callers
  <1>1. s # Manager /\ s \in Threads /\ UNCHANGED msgPtr /\ msgPtr[s] \in Msgs
    BY DEF Threads, Callers, SendLocked, IInv, SenderInv
  <1>5. /\ overtaken' \in [Callers -> {"no", "closed", "rebuilt"}]
        /\ lateSend' \in BOOLEAN
    BY <1>0, HistoryTyped DEF SendLocked, Return, historyVars
  <1>2. CASE /\ numMessages + 1 <= maxMsgs /\ FreeSlot \in DOMAIN messages
             /\ messages' = [messages EXCEPT ![FreeSlot] =
                               [hasData |-> TRUE, data |-> msgPtr[s]]]
             /\ numMessages' = numMessages + 1
             /\ Signal([pc EXCEPT ![s] = "idle"])
             /\ ret' = [ret EXCEPT ![s] = "OS_SUCCESS"]
             /\ UNCHANGED <<isEnabled, maxMsgs, maxSize, ringBufferIdx, crashed>>
    <2>1. HasRing
      BY <1>2, DomainOfRing
    <2>2. /\ maxMsgs \in Nat \ {0}
          /\ messages \in [0..(maxMsgs - 1) -> Slot]
          /\ ringBufferIdx \in 0..(maxMsgs - 1)
          /\ numMessages \in 0..(maxMsgs - 1)
          /\ FreeSlot \in 0..(maxMsgs - 1)
      BY <1>2, <2>1, RingShape
    <2>3. [hasData |-> TRUE, data |-> msgPtr[s]] \in Slot
      BY <1>1 DEF Slot
    <2>4. messages' \in [0..(maxMsgs - 1) -> Slot]
      BY <1>2, <2>2, <2>3
    <2>5. HasRing'
      BY <1>2, <2>2, <2>4, NonEmptyRing DEF HasRing
    <2>6. numMessages' \in 0..maxMsgs
      BY <1>2, <2>2
    <2>7. ret' \in [Threads -> Msgs \cup Codes]
      BY <1>1, <1>2 DEF IInv, TypeOK, Codes
    <2>8. TypeOK'
      BY <1>1, <1>2, <1>5, <2>4, <2>6, <2>7, SignalWakesReceiver DEF IInv, TypeOK
    <2>9. FlagInv'
      BY <1>2, <2>1, <2>2, <2>4, <2>5, SignalWakesReceiver DEF IInv, FlagInv
    <2>10. RingWindow'
      <3> SUFFICES ASSUME NEW i \in 0..(maxMsgs - 1)
                   PROVE  messages'[i].hasData <=> InWindow(i)'
        BY <1>2, <2>2 DEF RingWindow
      <3>1. messages[i].hasData <=> InWindow(i)
        BY <2>1 DEF IInv, RingWindow
      <3>2. messages'[i].hasData <=> messages[i].hasData \/ i = FreeSlot
        BY <1>2, <2>2 DEF Slot
      <3>3. InWindow(i)' <=> InWindow(i) \/ i = FreeSlot
        BY <1>2, <2>2, FreeSlotJoinsWindow DEF InWindow, FreeSlot
      <3> QED
        BY <3>1, <3>2, <3>3
    <2>11. DataInv'
      BY <1>1, <1>2, <2>1, <2>2 DEF IInv, DataInv, Slot
    <2>12. SenderInv'
      BY <1>1, <1>2, SignalWakesReceiver DEF IInv, SenderInv
    <2> QED
      BY <2>8, <2>9, <2>10, <2>11, <2>12 DEF IInv
  <1>3. CASE crashed' = TRUE /\ UNCHANGED <<queueVars, pc, ret>>
    <2>1. TypeOK'
      BY <1>1, <1>3, <1>5 DEF IInv, TypeOK, queueVars
    <2> QED
      BY <1>1, <1>3, <2>1, QuietStep, NotSending DEF IInv, SenderInv
  <1>4. CASE Return(s, "OS_QUEUE_FULL") /\ UNCHANGED <<queueVars, crashed>>
    <2>1. TypeOK'
      BY <1>1, <1>4, <1>5 DEF IInv, TypeOK, Return, PCs, Codes, queueVars
    <2>2. pc'[Manager] = pc[Manager]
      BY <1>1, <1>4 DEF IInv, TypeOK, Return, Threads, Callers
    <2>3. SenderInv'
      BY <1>1, <1>4 DEF IInv, TypeOK, SenderInv, Return
    <2> QED
      BY <1>4, <2>1, <2>2, <2>3, QuietStep DEF IInv
  <1> QED
    BY <1>2, <1>3, <1>4 DEF SendLocked

LEMMA NextIInv == IInv /\ [Next]_vars => IInv'
  <1> SUFFICES ASSUME IInv, [Next]_vars PROVE IInv'
    OBVIOUS
  <1>1. CASE UNCHANGED vars
    BY <1>1 DEF vars, queueVars, historyVars, IInv, TypeOK, FlagInv, RingWindow, DataInv,
                SenderInv, HasRing, InWindow
  <1>2. ASSUME NEW r \in Receivers, ReceiverNext(r) PROVE IInv'
    BY <1>2, ReceiveTestIInv, ReceiveLockedIInv, SpuriousWakeupIInv, ExpireIInv,
       ReceiveTimeoutIInv DEF ReceiverNext
  <1>3. ASSUME NEW s \in Senders, SenderNext(s) PROVE IInv'
    BY <1>3, SendTestIInv, SendLockedIInv DEF SenderNext
  <1>4. CASE ManagerNext
    BY <1>4, OpenBeginIInv, OpenEndIInv, CloseIInv DEF ManagerNext
  <1> QED
    BY <1>1, <1>2, <1>3, <1>4 DEF Next

THEOREM Invariance == Spec => []IInv
  BY InitIInv, NextIInv, PTL DEF Spec

\* Every variable of the queue keeps its type; in particular a queue never counts
\* more messages than it has slots.
THEOREM TypeCorrect == Spec => []TypeOK
  <1>1. IInv => TypeOK
    BY DEF IInv
  <1> QED
    BY <1>1, Invariance, PTL

\* For every depth, and whatever open, close, send and receive do to each other:
\* the slots with data are the window from ringBufferIdx on.
THEOREM RingWindowHolds == Spec => []RingWindow
  <1>1. IInv => RingWindow
    BY DEF IInv
  <1> QED
    BY <1>1, Invariance, PTL

------------------------------------------------------------------------------
\* Codes and messages

LEMMA ReceiveLockedReturns ==
  ASSUME IInv, NEW r \in Receivers, ReceiveLocked(r), pc'[r] = "idle"
  PROVE  /\ HasRing /\ numMessages # 0
         /\ messages[ringBufferIdx].hasData
         /\ messages[ringBufferIdx].data \in Msgs
         /\ ringBufferIdx' = Wrap(ringBufferIdx + 1)
         /\ messages' = [messages EXCEPT ![ringBufferIdx].hasData = FALSE]
         /\ numMessages' = numMessages - 1
         /\ Return(r, messages[ringBufferIdx].data)
         /\ UNCHANGED <<isEnabled, maxMsgs, maxSize, crashed, msgPtr>>
  <1>1. /\ numMessages # 0 /\ ringBufferIdx \in DOMAIN messages
        /\ TakeHead(r) /\ UNCHANGED <<crashed, msgPtr>>
    BY DEF ReceiveLocked, IInv, TypeOK, Threads, Callers
  <1>2. HasRing
    BY <1>1, DomainOfRing
  <1>3. messages[ringBufferIdx].hasData
    BY <1>1, <1>2, HeadHasData
  <1>4. messages[ringBufferIdx].data \in Msgs
    BY <1>2, <1>3, RingShape DEF IInv, DataInv
  <1> QED
    BY <1>1, <1>2, <1>3, <1>4 DEF TakeHead

LEMMA NextNeverImproper ==
  ASSUME IInv, NeverImproper, [Next]_vars
  PROVE  NeverImproper'
  <1> USE QueueAssumption
  <1>1. CASE UNCHANGED vars
    BY <1>1 DEF vars, NeverImproper
  <1>2. ASSUME NEW r \in Receivers, ReceiverNext(r) PROVE NeverImproper'
    <2>1. CASE ReceiveLocked(r)
      <3>1. CASE pc'[r] # "idle"
        <4>1. pc \in [Threads -> PCs] /\ r \in Threads
          BY DEF IInv, TypeOK, Threads, Callers
        <4>2. UNCHANGED ret
          BY <2>1, <3>1, <4>1 DEF ReceiveLocked, TakeHead, Return
        <4> QED
          BY <4>2 DEF NeverImproper
      <3>2. CASE pc'[r] = "idle"
        <4>1. /\ messages[ringBufferIdx].data \in Msgs
              /\ ret' = [ret EXCEPT ![r] = messages[ringBufferIdx].data]
          BY <2>1, <3>2, ReceiveLockedReturns DEF Return
        <4>2. ret \in [Threads -> Msgs \cup Codes] /\ Receivers \subseteq Threads
          BY DEF IInv, TypeOK, Threads, Callers
        <4> QED
          BY <4>1, <4>2 DEF NeverImproper, Codes
      <3> QED
        BY <3>1, <3>2
    <2>2. CASE ReceiveTest(r)
      BY <2>2 DEF NeverImproper, ReceiveTest, Return, IInv, TypeOK, Threads, Callers
    <2>3. CASE ReceiveTimeout(r)
      BY <2>3 DEF NeverImproper, ReceiveTimeout, Return, IInv, TypeOK, Threads, Callers
    <2> QED
      BY <1>2, <2>1, <2>2, <2>3 DEF ReceiverNext, SpuriousWakeup, Expire, NeverImproper
  <1>3. ASSUME NEW s \in Senders, SenderNext(s) PROVE NeverImproper'
    BY <1>3 DEF SenderNext, SendTest, SendLocked, Return, NeverImproper, IInv, TypeOK,
                Threads, Callers
  <1>4. CASE ManagerNext
    BY <1>4 DEF ManagerNext, OpenBegin, OpenEnd, Close, NeverImproper
  <1> QED
    BY <1>1, <1>2, <1>3, <1>4 DEF Next

\* No receiver ever runs into the branch "Improper queue state", not even when the
\* queue is closed and opened again while it waits.
THEOREM NeverImproperHolds == Spec => []NeverImproper
  <1>1. Init => NeverImproper
    BY DEF Init, NeverImproper, Threads, Callers
  <1> QED
    BY <1>1, Invariance, NextNeverImproper, PTL DEF Spec

------------------------------------------------------------------------------
\* Tests without the lock

\* A call in progress that no close has overtaken has a ring, or one is being built;
\* while there is a ring no call counts as overtaken by a close only.  The sizes that a
\* call compared are those of the queue when nothing has overtaken it, and so are those
\* of the messages when no sender was late.
AccessInv ==
  \A t \in Callers :
    /\ pc[t] = "idle" => overtaken[t] = "no"
    /\ pc[t] # "idle" /\ overtaken[t] # "closed" => HasRing \/ ~MutexFree
    /\ HasRing => overtaken[t] # "closed"
SizeInv ==
  /\ \A r \in Receivers : pc[r] # "idle" /\ overtaken[r] = "no" => maxSize <= BuffSize[r]
  /\ \A s \in Senders : pc[s] # "idle" /\ overtaken[s] = "no" => SizeOf[msgPtr[s]] <= maxSize
RingFits ==
  HasRing /\ ~lateSend =>
    \A i \in 0..(maxMsgs - 1) : messages[i].hasData => SizeOf[messages[i].data] <= maxSize

TestsInv == AccessInv /\ SizeInv /\ RingFits

\* A step in which nobody begins a call and the queue stays as it is.
LEMMA QuietTests ==
  ASSUME IInv, TestsInv, UNCHANGED <<queueVars, msgPtr, lateSend>>,
         pc'[Manager] = pc[Manager],
         \A t \in Callers :
           IF pc'[t] = "idle"
           THEN (pc[t] = "idle" /\ overtaken'[t] = overtaken[t]) \/ overtaken'[t] = "no"
           ELSE pc[t] # "idle" /\ overtaken'[t] = overtaken[t]
  PROVE  TestsInv'
  <1>1. AccessInv'
    BY DEF TestsInv, AccessInv, HasRing, MutexFree, queueVars
  <1>2. SizeInv'
    BY DEF TestsInv, SizeInv, Callers, queueVars
  <1>3. RingFits'
    BY DEF TestsInv, RingFits, HasRing, queueVars
  <1> QED
    BY <1>1, <1>2, <1>3 DEF TestsInv

\* The tests of a call find the queue open, or about to be.
LEMMA EnabledQueue ==
  ASSUME IInv, isEnabled
  PROVE  HasRing \/ ~MutexFree
  BY DEF IInv, FlagInv, MutexFree

LEMMA ReceiveTestTests ==
  ASSUME IInv, TestsInv, NEW r \in Receivers, ReceiveTest(r)
  PROVE  TestsInv'
  <1> USE QueueAssumption
  <1>0. r \in Callers /\ r \in Threads /\ r # Manager /\ r \notin Senders /\ Callers \subseteq Threads
    BY DEF Callers, Threads
  <1>1. UNCHANGED <<queueVars, msgPtr, lateSend>> /\ pc[r] = "idle"
    BY DEF ReceiveTest
  <1>2. ASSUME NEW code, Return(r, code) PROVE TestsInv'
    BY <1>0, <1>1, <1>2, QuietTests DEF Return, IInv, TypeOK, Threads, Callers
  <1>3. CASE /\ isEnabled /\ BuffSize[r] >= maxSize
             /\ pc' = [pc EXCEPT ![r] = "lock"]
             /\ UNCHANGED overtaken
    <2>1. /\ pc' \in [Threads -> PCs] /\ pc'[r] = "lock" /\ pc'[Manager] = pc[Manager]
          /\ \A t \in Callers \ {r} : pc'[t] = pc[t]
      BY <1>0, <1>3 DEF IInv, TypeOK, PCs, Threads, Callers
    <2>2. maxSize <= BuffSize[r]
      BY <1>3 DEF IInv, TypeOK
    <2>3. AccessInv'
      BY <1>1, <1>3, <2>1, EnabledQueue DEF TestsInv, AccessInv, HasRing, MutexFree, queueVars
    <2>4. SizeInv'
      BY <1>0, <1>1, <1>3, <2>1, <2>2 DEF TestsInv, SizeInv, Callers, queueVars
    <2>5. RingFits'
      BY <1>1 DEF TestsInv, RingFits, HasRing, queueVars
    <2> QED
      BY <2>3, <2>4, <2>5 DEF TestsInv
  <1> QED
    BY <1>2, <1>3 DEF ReceiveTest

LEMMA ReceiveLockedTests ==
  ASSUME IInv, TestsInv, NEW r \in Receivers, ReceiveLocked(r)
  PROVE  TestsInv'
  <1> USE QueueAssumption
  <1>0. /\ r \in Callers /\ r \in Threads /\ r # Manager /\ Callers \subseteq Threads
        /\ pc \in [Threads -> PCs] /\ overtaken \in [Callers -> {"no", "closed", "rebuilt"}]
    BY DEF Callers, Threads, IInv, TypeOK
  <1>1. UNCHANGED <<msgPtr, lateSend>> /\ pc[r] # "idle"
    BY DEF ReceiveLocked
  <1>2. CASE UNCHANGED <<queueVars, overtaken>> /\ pc' = [pc EXCEPT ![r] = "asleep"]
    BY <1>0, <1>1, <1>2, QuietTests DEF Threads, Callers
  <1>3. CASE UNCHANGED <<queueVars, overtaken, pc>>
    BY <1>1, <1>3, QuietTests
  <1>4. CASE pc'[r] = "idle"
    <2>1. /\ HasRing /\ messages' = [messages EXCEPT ![ringBufferIdx].hasData = FALSE]
          /\ UNCHANGED <<maxMsgs, maxSize>>
          /\ pc' = [pc EXCEPT ![r] = "idle"] /\ overtaken' = [overtaken EXCEPT ![r] = "no"]
      BY <1>4, ReceiveLockedReturns DEF Return
    <2>2. HasRing'
      BY <2>1, RingShape, NonEmptyRing DEF HasRing
    <2>3. AccessInv'
      BY <1>0, <2>1, <2>2 DEF TestsInv, AccessInv
    <2>4. SizeInv'
      BY <1>0, <1>1, <2>1 DEF TestsInv, SizeInv, Callers
    <2>5. RingFits'
      BY <1>1, <2>1, <2>2, RingShape DEF TestsInv, RingFits, Slot
    <2> QED
      BY <2>3, <2>4, <2>5 DEF TestsInv
  <1>5. CASE Return(r, "OS_ERROR") /\ UNCHANGED queueVars
    BY <1>0, <1>1, <1>5, QuietTests DEF Return, Threads, Callers
  <1> QED
    BY <1>0, <1>2, <1>3, <1>4, <1>5 DEF ReceiveLocked, TakeHead, Return

LEMMA ReceiverTests ==
  ASSUME IInv, TestsInv, NEW r \in Receivers, ReceiverNext(r)
  PROVE  TestsInv'
  <1> USE QueueAssumption
  <1>0. /\ r \in Callers /\ r \in Threads /\ r # Manager /\ Callers \subseteq Threads
        /\ pc \in [Threads -> PCs] /\ overtaken \in [Callers -> {"no", "closed", "rebuilt"}]
    BY DEF Callers, Threads, IInv, TypeOK
  <1>1. CASE SpuriousWakeup(r)
    BY <1>0, <1>1, QuietTests DEF SpuriousWakeup, historyVars, Threads, Callers
  <1>2. CASE Expire(r)
    BY <1>0, <1>2, QuietTests DEF Expire, historyVars, Threads, Callers
  <1>3. CASE ReceiveTimeout(r)
    BY <1>0, <1>3, QuietTests DEF ReceiveTimeout, Return, Threads, Callers
  <1> QED
    BY <1>1, <1>2, <1>3, ReceiveTestTests, ReceiveLockedTests DEF ReceiverNext

LEMMA SendTestTests ==
  ASSUME IInv, TestsInv, NEW s \in Senders, NEW m \in Msgs, SendTest(s, m)
  PROVE  TestsInv'
  <1> USE QueueAssumption
  <1>0. /\ s \in Callers /\ s \in Threads /\ s # Manager /\ s \notin Receivers
        /\ Callers \subseteq Threads
        /\ pc \in [Threads -> PCs] /\ overtaken \in [Callers -> {"no", "closed", "rebuilt"}]
        /\ msgPtr \in [Senders -> Msgs \cup {NoMsg}]
    BY DEF Callers, Threads, IInv, TypeOK
  <1>1. UNCHANGED <<queueVars, lateSend>> /\ pc[s] = "idle"
    BY DEF SendTest
  <1>2. CASE Return(s, "OS_ERROR") /\ UNCHANGED msgPtr
    BY <1>0, <1>1, <1>2, QuietTests DEF Return
  <1>3. CASE /\ isEnabled /\ SizeOf[m] <= maxSize
             /\ pc' = [pc EXCEPT ![s] = "lock"]
             /\ msgPtr' = [msgPtr EXCEPT ![s] = m]
             /\ UNCHANGED overtaken
    <2>1. /\ pc'[s] = "lock" /\ pc'[Manager] = pc[Manager]
          /\ \A t \in Callers \ {s} : pc'[t] = pc[t]
          /\ msgPtr'[s] = m /\ \A u \in Senders \ {s} : msgPtr'[u] = msgPtr[u]
      BY <1>0, <1>3 DEF Threads, Callers
    <2>2. AccessInv'
      BY <1>1, <1>3, <2>1, EnabledQueue DEF TestsInv, AccessInv, HasRing, MutexFree, queueVars
    <2>3. SizeInv'
      BY <1>0, <1>1, <1>3, <2>1 DEF TestsInv, SizeInv, Callers, queueVars
    <2>4. RingFits'
      BY <1>1 DEF TestsInv, RingFits, HasRing, queueVars
    <2> QED
      BY <2>2, <2>3, <2>4 DEF TestsInv
  <1> QED
    BY <1>2, <1>3 DEF SendTest

LEMMA SendLockedTests ==
  ASSUME IInv, TestsInv, NEW s \in Senders, SendLocked(s)
  PROVE  TestsInv'
  <1> USE QueueAssumption
  <1>0. /\ s \in Callers /\ s \in Threads /\ s # Manager /\ s \notin Receivers
        /\ Callers \subseteq Threads
        /\ pc \in [Threads -> PCs] /\ overtaken \in [Callers -> {"no", "closed", "rebuilt"}]
    BY DEF Callers, Threads, IInv, TypeOK
  <1>1. UNCHANGED msgPtr /\ pc[s] = "lock"
    BY DEF SendLocked
  <1>2. CASE Return(s, "OS_QUEUE_FULL") /\ UNCHANGED <<queueVars, lateSend>>
    BY <1>0, <1>1, <1>2, QuietTests DEF Return
  <1>3. CASE UNCHANGED <<queueVars, pc, historyVars>>
    BY <1>1, <1>3, QuietTests DEF historyVars
  <1>4. CASE /\ numMessages + 1 <= maxMsgs /\ FreeSlot \in DOMAIN messages
             /\ messages' = [messages EXCEPT ![FreeSlot] =
                               [hasData |-> TRUE, data |-> msgPtr[s]]]
             /\ Signal([pc EXCEPT ![s] = "idle"])
             /\ overtaken' = [overtaken EXCEPT ![s] = "no"]
             /\ lateSend' = (lateSend \/ overtaken[s] = "rebuilt")
             /\ UNCHANGED <<maxMsgs, maxSize>>
    <2>1. HasRing
      BY <1>4, DomainOfRing
    <2>2. HasRing'
      BY <1>4, <2>1, RingShape, NonEmptyRing DEF HasRing
    <2>3. /\ pc'[s] = "idle"
          /\ \A t \in Callers \ {s} : pc'[t] = "idle" <=> pc[t] = "idle"
      BY <1>0, <1>4 DEF Signal, Callers
    <2>4. AccessInv'
      <3>1. overtaken'[s] = "no" /\ \A t \in Callers \ {s} : overtaken'[t] = overtaken[t]
        BY <1>0, <1>4
      <3>2. \A t \in Callers : overtaken[t] # "closed" /\ (pc[t] = "idle" => overtaken[t] = "no")
        BY <2>1 DEF TestsInv, AccessInv
      <3> QED
        BY <2>2, <2>3, <3>1, <3>2 DEF AccessInv
    <2>5. SizeInv'
      BY <1>0, <1>1, <1>4, <2>3 DEF TestsInv, SizeInv, Callers
    <2>6. RingFits'
      <3> SUFFICES ASSUME ~lateSend', NEW i \in 0..(maxMsgs - 1), messages'[i].hasData
                   PROVE  SizeOf[messages'[i].data] <= maxSize
        BY <1>4 DEF RingFits
      <3>1. CASE i = FreeSlot
        <4>1. messages'[i].data = msgPtr[s]
          BY <1>4, <2>1, <3>1, RingShape
        <4>2. overtaken[s] = "no"
          BY <1>0, <1>4, <2>1 DEF TestsInv, AccessInv
        <4> QED
          BY <1>1, <1>4, <4>1, <4>2 DEF TestsInv, SizeInv
      <3>2. CASE i # FreeSlot
        <4>1. messages'[i] = messages[i]
          BY <1>4, <2>1, <3>2, RingShape
        <4> QED
          BY <1>4, <2>1, <4>1 DEF TestsInv, RingFits
      <3> QED
        BY <3>1, <3>2
    <2> QED
      BY <2>4, <2>5, <2>6 DEF TestsInv
  <1> QED
    BY <1>2, <1>3, <1>4 DEF SendLocked

LEMMA ManagerTests ==
  ASSUME IInv, TestsInv, ManagerNext
  PROVE  TestsInv'
  <1> USE QueueAssumption
  <1>0. Manager \notin Callers /\ Callers \subseteq Threads /\ Manager \in Threads
        /\ pc \in [Threads -> PCs]
    BY DEF Callers, Threads, IInv, TypeOK
  <1>1. UNCHANGED msgPtr /\ \A t \in Callers : pc'[t] = pc[t]
    BY <1>0 DEF ManagerNext, OpenBegin, OpenEnd, Close
  <1>2. CASE OpenBegin
    <2>1. ~MutexFree' /\ UNCHANGED <<maxMsgs, maxSize, messages, overtaken, lateSend>>
      BY <1>0, <1>2 DEF OpenBegin, MutexFree, historyVars
    <2> QED
      BY <1>1, <2>1 DEF TestsInv, AccessInv, SizeInv, RingFits, HasRing, Callers
  <1>3. ASSUME NEW d \in Depths, NEW z \in Sizes, OpenEnd(d, z) PROVE TestsInv'
    <2>1. HasRing' /\ \A i \in 0..(maxMsgs' - 1) : ~messages'[i].hasData
      <3>1. d \in Nat \ {0} /\ DOMAIN messages' = 0..(d - 1)
        BY <1>3 DEF OpenEnd
      <3> QED
        BY <1>3, <3>1, NonEmptyRing DEF OpenEnd, HasRing
    <2>2. \A t \in Callers : overtaken'[t] = IF pc[t] = "idle" THEN "no" ELSE "rebuilt"
      BY <1>3 DEF OpenEnd, Overtake
    <2> QED
      BY <1>1, <2>1, <2>2 DEF TestsInv, AccessInv, SizeInv, RingFits, Callers
  <1>4. CASE Close
    <2>1. ~HasRing' /\ UNCHANGED maxSize
      BY <1>4 DEF Close, HasRing
    <2>2. \A t \in Callers : overtaken'[t] = IF pc[t] = "idle" THEN "no" ELSE "closed"
      BY <1>4 DEF Close, Overtake
    <2>3. AccessInv' /\ RingFits'
      BY <1>1, <2>1, <2>2 DEF AccessInv, RingFits
    <2> QED
      BY <1>1, <2>1, <2>2, <2>3 DEF TestsInv, SizeInv, Callers
  <1> QED
    BY <1>2, <1>3, <1>4 DEF ManagerNext

LEMMA NextTests ==
  ASSUME IInv, TestsInv, [Next]_vars
  PROVE  TestsInv'
  <1>1. CASE UNCHANGED vars
    BY <1>1 DEF vars, queueVars, historyVars, TestsInv, AccessInv, SizeInv, RingFits,
                HasRing, MutexFree
  <1>2. CASE Next
    BY <1>2, ReceiverTests, SendTestTests, SendLockedTests, ManagerTests DEF Next, SenderNext
  <1> QED
    BY <1>1, <1>2

LEMMA TestsHold == Spec => []TestsInv
  <1>1. Init => TestsInv
    BY DEF Init, TestsInv, AccessInv, SizeInv, RingFits, HasRing, Callers, Threads
  <1>2. IInv /\ TestsInv /\ [Next]_vars => TestsInv'
    BY NextTests
  <1> QED
    BY <1>1, <1>2, Invariance, PTL DEF Spec

\* Whatever opens and closes the queue and whenever, only a call that a close has
\* overtaken can touch the slots of a queue that is closed.
THEOREM NoStaleAccessHolds == Spec => []NoStaleAccess
  <1>1. IInv /\ TestsInv => NoStaleAccess
    <2> SUFFICES ASSUME IInv, TestsInv, NEW t \in Callers, MutexFree, overtaken[t] # "closed"
                 PROVE  Touches(t) \subseteq DOMAIN messages
      BY DEF NoStaleAccess
    <2>1. CASE pc[t] = "idle"
      BY <2>1 DEF Touches
    <2>2. CASE pc[t] # "idle"
      <3>1. HasRing
        BY <2>2 DEF TestsInv, AccessInv
      <3>2. /\ messages \in [0..(maxMsgs - 1) -> Slot] /\ ringBufferIdx \in 0..(maxMsgs - 1)
            /\ numMessages \in 0..maxMsgs /\ maxMsgs \in Nat
        BY <3>1, RingShape
      <3> QED
        BY <3>2 DEF Touches, FreeSlot
    <2> QED
      BY <2>1, <2>2
  <1> QED
    BY <1>1, Invariance, TestsHold, PTL

\* What a receiver copies out fits the buffer it compared with maxSize before it slept,
\* however often the queue has been closed and opened, unless the ring is not the one
\* it was compared with or holds what a late sender has put there.
THEOREM FitsBufferHolds == Spec => FitsBuffer
  <1> USE QueueAssumption
  <1>1. ASSUME IInv, TestsInv, [Next]_vars,
               NEW r \in Receivers, pc[r] # "idle", pc'[r] = "idle", ret'[r] \in Msgs,
               overtaken[r] # "rebuilt", ~lateSend
        PROVE  SizeOf[ret'[r]] <= BuffSize[r]
    <2>1. CASE ReceiveLocked(r)
      <3>1. /\ HasRing /\ messages[ringBufferIdx].hasData
            /\ ret'[r] = messages[ringBufferIdx].data /\ ret'[r] \in Msgs
        BY <1>1, <2>1, ReceiveLockedReturns DEF Return, IInv, TypeOK, Threads, Callers
      <3>2. SizeOf[ret'[r]] <= maxSize
        BY <1>1, <3>1, RingShape DEF TestsInv, RingFits
      <3>3. overtaken[r] = "no"
        BY <1>1, <3>1 DEF TestsInv, AccessInv, IInv, TypeOK, Callers
      <3>4. maxSize <= BuffSize[r]
        BY <1>1, <3>3 DEF TestsInv, SizeInv
      <3>5. SizeOf[ret'[r]] \in Nat /\ BuffSize[r] \in Nat /\ maxSize \in Nat
        BY <1>1, <3>1 DEF IInv, TypeOK
      <3> QED
        BY <3>2, <3>4, <3>5
    <2>2. CASE ReceiveTimeout(r)
      BY <1>1, <2>2 DEF ReceiveTimeout, Return, IInv, TypeOK, Codes, Threads, Callers
    <2>3. ReceiveLocked(r) \/ ReceiveTimeout(r)
      BY <1>1 DEF Next, vars, ReceiverNext, SenderNext, ManagerNext, ReceiveTest,
           ReceiveLocked, TakeHead, Return, SpuriousWakeup, Expire, ReceiveTimeout, SendTest, SendLocked, Signal,
           OpenBegin, OpenEnd, Close, IInv, TypeOK, Threads, Callers
    <2> QED
      BY <2>1, <2>2, <2>3
  <1>2. IInv /\ TestsInv /\ [Next]_vars =>
          [\A r \in Receivers :
             pc[r] # "idle" /\ pc'[r] = "idle" /\ ret'[r] \in Msgs
             /\ overtaken[r] # "rebuilt" /\ ~lateSend
               => SizeOf[ret'[r]] <= BuffSize[r]]_vars
    BY <1>1
  <1> QED
    BY <1>2, Invariance, TestsHold, PTL DEF Spec, FitsBuffer
------------------------------------------------------------------------------
\* Wake-ups

LEMMA WokenFinite == IsFiniteSet(Woken) /\ Cardinality(Woken) \in Nat
  BY QueueAssumption, FS_Subset, FS_CardinalityType DEF Woken

\* A step after which there are no more messages and no fewer woken receivers, and
\* nobody has gone to sleep, loses no wake-up.
LEMMA KeepsWakeups ==
  ASSUME IInv, NoLostWakeup, numMessages' = numMessages,
         Woken \subseteq Woken', Asleep' \subseteq Asleep
  PROVE  NoLostWakeup'
  <1>1. IsFiniteSet(Woken') /\ Cardinality(Woken') \in Nat
    BY QueueAssumption, FS_Subset, FS_CardinalityType DEF Woken
  <1>2. Cardinality(Woken) <= Cardinality(Woken')
    BY <1>1, FS_Subset
  <1> QED
    BY <1>1, <1>2, WokenFinite DEF NoLostWakeup, IInv, TypeOK

LEMMA ReceiverWakeups ==
  ASSUME IInv, NoLostWakeup, NEW r \in Receivers, ReceiverNext(r)
  PROVE  NoLostWakeup'
  <1> USE QueueAssumption
  <1>1. CASE ReceiveTest(r) \/ SpuriousWakeup(r) \/ Expire(r) \/ ReceiveTimeout(r)
    <2>1. numMessages' = numMessages
      BY <1>1 DEF ReceiveTest, SpuriousWakeup, Expire, ReceiveTimeout, queueVars
    <2>2. Woken \subseteq Woken' /\ Asleep' \subseteq Asleep
      BY <1>1 DEF ReceiveTest, SpuriousWakeup, Expire, ReceiveTimeout, Return, Woken,
                  Asleep, IInv, TypeOK, Threads, Callers
    <2> QED
      BY <2>1, <2>2, KeepsWakeups
  <1>2. CASE ReceiveLocked(r) /\ numMessages = 0
    <2>1. numMessages' = 0
      BY <1>2 DEF ReceiveLocked, queueVars
    <2>2. Cardinality(Woken') \in Nat
      BY QueueAssumption, FS_Subset, FS_CardinalityType DEF Woken
    <2> QED
      BY <2>1, <2>2 DEF NoLostWakeup
  <1>3. CASE ReceiveLocked(r) /\ pc'[r] = "idle"
    <2>1. numMessages' = numMessages - 1 /\ numMessages \in Nat /\ pc' = [pc EXCEPT ![r] = "idle"]
      BY <1>3, ReceiveLockedReturns DEF Return, IInv, TypeOK
    <2>2. Asleep' \subseteq Asleep /\ Woken' = Woken \ {r}
      BY <2>1 DEF Asleep, Woken, IInv, TypeOK, Threads, Callers
    <2>3. Cardinality(Woken') >= Cardinality(Woken) - 1 /\ Cardinality(Woken') \in Nat
      <3>1. IsFiniteSet(Woken \ {r}) /\ Cardinality(Woken \ {r}) \in Nat
        BY WokenFinite, FS_Subset, FS_CardinalityType
      <3>2. Cardinality(Woken \ {r})
              = IF r \in Woken THEN Cardinality(Woken) - 1 ELSE Cardinality(Woken)
        BY WokenFinite, FS_RemoveElement
      <3> QED
        BY <2>2, <3>1, <3>2, WokenFinite
    <2> QED
      BY <2>1, <2>2, <2>3, WokenFinite DEF NoLostWakeup
  <1>4. CASE ReceiveLocked(r) /\ pc' = pc
    BY <1>4, KeepsWakeups DEF ReceiveLocked, TakeHead, Return, queueVars, IInv, TypeOK,
                              Threads, Callers, Asleep, Woken
  <1> QED
    BY <1>1, <1>2, <1>3, <1>4 DEF ReceiverNext, ReceiveLocked, TakeHead, Return, IInv,
                                  TypeOK, Threads, Callers

LEMMA SenderWakeups ==
  ASSUME IInv, NoLostWakeup, NEW s \in Senders, SenderNext(s)
  PROVE  NoLostWakeup'
  <1> USE QueueAssumption
  <1>1. ASSUME NEW m \in Msgs, SendTest(s, m) PROVE NoLostWakeup'
    BY <1>1, KeepsWakeups DEF SendTest, Return, queueVars, IInv, TypeOK, Threads, Callers, Asleep, Woken
  <1>2. CASE SendLocked(s) /\ numMessages' = numMessages /\ Asleep' = Asleep /\ Woken' = Woken
    BY <1>2, KeepsWakeups
  <1>3. CASE numMessages' = numMessages + 1 /\ Signal([pc EXCEPT ![s] = "idle"])
    <2> DEFINE p == [pc EXCEPT ![s] = "idle"]
    <2>1. \A r \in Receivers : p[r] = pc[r]
      BY DEF IInv, TypeOK, Threads, Callers
    <2>2. p \in [Threads -> PCs]
      BY DEF IInv, TypeOK, PCs
    <2>3. \/ (\A r \in Receivers : p[r] # "asleep") /\ pc' = p
          \/ \E r \in Receivers : p[r] = "asleep" /\ pc' = [p EXCEPT ![r] = "woken"]
      BY <1>3 DEF Signal
    <2> HIDE DEF p
    <2>4. CASE (\A r \in Receivers : p[r] # "asleep") /\ pc' = p
      BY <2>4 DEF NoLostWakeup, Asleep
    <2>5. ASSUME NEW r \in Receivers, p[r] = "asleep", pc' = [p EXCEPT ![r] = "woken"]
          PROVE  NoLostWakeup'
      <3>1. r \in Asleep /\ r \notin Woken
        BY <2>1, <2>5 DEF Asleep, Woken
      <3>2. Woken' = Woken \cup {r}
        BY <2>1, <2>2, <2>5 DEF Woken, Threads, Callers
      <3>3. Cardinality(Woken') = Cardinality(Woken) + 1
        BY <3>1, <3>2, WokenFinite, FS_AddElement
      <3> QED
        BY <1>3, <3>1, <3>3, WokenFinite DEF NoLostWakeup, IInv, TypeOK
    <2> QED
      BY <2>3, <2>4, <2>5
  <1> QED
    BY <1>1, <1>2, <1>3 DEF SenderNext, SendLocked, Return, queueVars, IInv, TypeOK, Threads, Callers,
                            Asleep, Woken

LEMMA ManagerWakeups ==
  ASSUME IInv, NoLostWakeup, ManagerNext
  PROVE  NoLostWakeup'
  <1> USE QueueAssumption
  <1>1. Asleep' = Asleep /\ Woken' = Woken
    BY DEF ManagerNext, OpenBegin, OpenEnd, Close, Asleep, Woken, IInv, TypeOK, Threads, Callers
  <1>2. numMessages' = 0 \/ numMessages' = numMessages
    BY DEF ManagerNext, OpenBegin, OpenEnd, Close
  <1> QED
    BY <1>1, <1>2, WokenFinite DEF NoLostWakeup

LEMMA NextNoLostWakeup ==
  ASSUME IInv, NoLostWakeup, [Next]_vars
  PROVE  NoLostWakeup'
  <1>1. CASE UNCHANGED vars
    BY <1>1, KeepsWakeups DEF vars, queueVars, Asleep, Woken
  <1> QED
    BY <1>1, ReceiverWakeups, SenderWakeups, ManagerWakeups DEF Next

\* For any number of receivers and senders: one signal for each message is enough,
\* although a signal may reach a receiver whose message somebody else takes.
THEOREM NoLostWakeupHolds == Spec => []NoLostWakeup
  <1>1. Init => NoLostWakeup
    BY DEF Init, NoLostWakeup, Asleep, Threads, Callers
  <1> QED
    BY <1>1, Invariance, NextNoLostWakeup, PTL DEF Spec

------------------------------------------------------------------------------
\* The ring buffer implements BoundedFifo: its steps map to steps of the abstract
\* queue or leave it alone.

\* A step that leaves the ring alone leaves the abstract queue alone.
LEMMA SameRing ==
  ASSUME UNCHANGED queueVars
  PROVE  /\ HasRing' = HasRing /\ maxMsgs' = maxMsgs /\ contentsBar' = contentsBar
  BY DEF queueVars, HasRing, contentsBar, SlotAt

\* As far as BoundedFifo is concerned, a ring is the sequence of its window.
LEMMA ContentsOfRing ==
  ASSUME IInv, HasRing
  PROVE  /\ contentsBar = [k \in 1..numMessages |-> messages[SlotAt(k)].data]
         /\ contentsBar \in Seq(Msgs)
         /\ Len(contentsBar) = numMessages
  <1>1. /\ maxMsgs \in Nat \ {0} /\ numMessages \in 0..maxMsgs
        /\ ringBufferIdx \in 0..(maxMsgs - 1)
        /\ messages \in [0..(maxMsgs - 1) -> Slot]
    BY RingShape
  <1>2. \A k \in 1..numMessages : SlotAt(k) \in 0..(maxMsgs - 1) /\ InWindow(SlotAt(k))
    BY <1>1 DEF SlotAt, InWindow
  <1>3. \A k \in 1..numMessages : messages[SlotAt(k)].data \in Msgs
    BY <1>1, <1>2 DEF IInv, RingWindow, DataInv
  <1>4. contentsBar = [k \in 1..numMessages |-> messages[SlotAt(k)].data]
    BY DEF contentsBar
  <1> QED
    BY <1>1, <1>3, <1>4

LEMMA InitRefines == Init => Fifo!Init
  <1> SUFFICES ASSUME Init PROVE Fifo!Init
    OBVIOUS
  <1>1. ~HasRing /\ maxMsgs = 0
    BY DEF Init, HasRing
  <1>2. contentsBar = <<>>
    BY <1>1 DEF contentsBar
  <1>3. ret \in [Threads -> {"OS_SUCCESS"}]
    BY DEF Init
  <1> QED
    BY <1>1, <1>2, <1>3 DEF Fifo!Init

\* A call that returns one of its failure codes and changes nothing.
LEMMA FailRefines ==
  ASSUME IInv, NEW t \in Threads, NEW code,
         code \in (IF t \in Receivers THEN ReceiveFailures ELSE {"OS_ERROR"}),
         Return(t, code), UNCHANGED queueVars
  PROVE  Fifo!Next
  <1>1. ret' = [ret EXCEPT ![t] = code]
    BY DEF Return
  <1>2. Fifo!Fail(t)
    BY <1>1, SameRing DEF Fifo!Fail
  <1> QED
    BY <1>2 DEF Fifo!Next

LEMMA ReceiverRefines ==
  ASSUME IInv, NEW r \in Receivers, ReceiverNext(r)
  PROVE  [Fifo!Next]_Fifo!fifoVars
  <1>0. r \in Threads
    BY DEF Threads, Callers
  <1>1. CASE ReceiveTest(r)
    <2>1. CASE UNCHANGED ret
      BY <1>1, <2>1, SameRing DEF ReceiveTest, Fifo!fifoVars
    <2>2. CASE Return(r, "OS_QUEUE_ID_ERROR") \/ Return(r, "OS_QUEUE_INVALID_SIZE")
      BY <1>0, <1>1, <2>2, FailRefines DEF ReceiveTest, ReceiveFailures
    <2> QED
      BY <1>1, <2>1, <2>2 DEF ReceiveTest
  <1>2. CASE ReceiveLocked(r) /\ UNCHANGED <<queueVars, ret>>
    BY <1>2, SameRing DEF Fifo!fifoVars
  <1>3. CASE ReceiveLocked(r) /\ pc'[r] = "idle"
    <2>1. /\ HasRing /\ numMessages # 0
          /\ ringBufferIdx' = Wrap(ringBufferIdx + 1)
          /\ messages' = [messages EXCEPT ![ringBufferIdx].hasData = FALSE]
          /\ numMessages' = numMessages - 1
          /\ ret' = [ret EXCEPT ![r] = messages[ringBufferIdx].data]
          /\ UNCHANGED maxMsgs
      BY <1>3, ReceiveLockedReturns DEF Return
    <2>2. /\ maxMsgs \in Nat \ {0} /\ numMessages \in 1..maxMsgs
          /\ ringBufferIdx \in 0..(maxMsgs - 1)
          /\ messages \in [0..(maxMsgs - 1) -> Slot]
      BY <2>1, RingShape
    <2>3. HasRing'
      <3>1. DOMAIN messages' = 0..(maxMsgs - 1)
        BY <2>1, <2>2
      <3> QED
        BY <2>2, <3>1, NonEmptyRing DEF HasRing
    <2>4. IInv'
      BY <1>3, ReceiveLockedIInv
    <2>5. \A k \in 1..(numMessages - 1) :
            messages'[SlotAt(k)'].data = messages[SlotAt(k + 1)].data
      <3> SUFFICES ASSUME NEW k \in 1..(numMessages - 1)
                   PROVE  messages'[SlotAt(k)'].data = messages[SlotAt(k + 1)].data
        OBVIOUS
      <3>1. SlotAt(k)' = SlotAt(k + 1) /\ SlotAt(k + 1) \in 0..(maxMsgs - 1)
        BY <2>1, <2>2 DEF SlotAt, Wrap
      <3> QED
        BY <2>1, <2>2, <3>1 DEF Slot
    <2>6. contentsBar' = [k \in 1..(numMessages - 1) |-> messages'[SlotAt(k)'].data]
      BY <2>1, <2>3 DEF contentsBar
    <2>7. /\ contentsBar = [k \in 1..numMessages |-> messages[SlotAt(k)].data]
          /\ contentsBar \in Seq(Msgs) /\ Len(contentsBar) = numMessages
      BY <2>1, ContentsOfRing
    <2>8. contentsBar' = Tail(contentsBar)
      BY <2>2, <2>5, <2>6, <2>7
    <2>9. Head(contentsBar) = messages[ringBufferIdx].data
      BY <2>2, <2>7 DEF SlotAt
    <2>10. contentsBar # <<>>
      BY <2>2, <2>7
    <2>11. Fifo!Take(r)
      BY <2>1, <2>3, <2>8, <2>9, <2>10 DEF Fifo!Take
    <2> QED
      BY <1>0, <2>11 DEF Fifo!Next
  <1>4. CASE SpuriousWakeup(r) \/ Expire(r)
    BY <1>4, SameRing DEF SpuriousWakeup, Expire, Fifo!fifoVars
  <1>5. CASE ReceiveTimeout(r)
    BY <1>0, <1>5, FailRefines DEF ReceiveTimeout, ReceiveFailures
  <1>6. ReceiveLocked(r) => UNCHANGED <<queueVars, ret>> \/ pc'[r] = "idle"
    BY <1>0 DEF ReceiveLocked, TakeHead, Return, IInv, TypeOK
  <1> QED
    BY <1>1, <1>2, <1>3, <1>4, <1>5, <1>6 DEF ReceiverNext

LEMMA SenderRefines ==
  ASSUME IInv, NEW s \in Senders, SenderNext(s)
  PROVE  [Fifo!Next]_Fifo!fifoVars
  <1>0. s \in Threads /\ s \notin Receivers
    BY QueueAssumption DEF Threads, Callers
  <1>1. ASSUME NEW m \in Msgs, SendTest(s, m) PROVE [Fifo!Next]_Fifo!fifoVars
    <2>1. CASE UNCHANGED ret
      BY <1>1, <2>1, SameRing DEF SendTest, Fifo!fifoVars
    <2>2. CASE Return(s, "OS_ERROR")
      BY <1>0, <1>1, <2>2, FailRefines DEF SendTest
    <2> QED
      BY <1>1, <2>1, <2>2 DEF SendTest
  <1>2. CASE SendLocked(s) /\ UNCHANGED <<queueVars, ret>>
    BY <1>2, SameRing DEF Fifo!fifoVars
  <1>3. CASE /\ SendLocked(s) /\ numMessages + 1 > maxMsgs
             /\ Return(s, "OS_QUEUE_FULL") /\ UNCHANGED queueVars
    <2>1. HasRing => Len(contentsBar) = maxMsgs
      BY <1>3, RingShape, ContentsOfRing
    <2>2. Fifo!Refuse(s)
      BY <1>3, <2>1, SameRing DEF Fifo!Refuse, Return
    <2> QED
      BY <1>0, <2>2 DEF Fifo!Next
  <1>4. CASE /\ SendLocked(s)
             /\ numMessages + 1 <= maxMsgs /\ FreeSlot \in DOMAIN messages
             /\ messages' = [messages EXCEPT ![FreeSlot] =
                               [hasData |-> TRUE, data |-> msgPtr[s]]]
             /\ numMessages' = numMessages + 1
             /\ ret' = [ret EXCEPT ![s] = "OS_SUCCESS"]
             /\ UNCHANGED <<maxMsgs, ringBufferIdx>>
    <2>1. HasRing /\ msgPtr[s] \in Msgs
      BY <1>4, DomainOfRing DEF SendLocked, IInv, SenderInv
    <2>2. /\ maxMsgs \in Nat \ {0} /\ numMessages \in 0..(maxMsgs - 1)
          /\ ringBufferIdx \in 0..(maxMsgs - 1)
          /\ messages \in [0..(maxMsgs - 1) -> Slot]
          /\ FreeSlot \in 0..(maxMsgs - 1)
      BY <1>4, <2>1, RingShape
    <2>3. HasRing'
      <3>1. DOMAIN messages' = 0..(maxMsgs - 1)
        BY <1>4, <2>2
      <3> QED
        BY <2>2, <3>1, NonEmptyRing DEF HasRing
    <2>4. \A k \in 1..numMessages : messages'[SlotAt(k)'].data = messages[SlotAt(k)].data
      <3> SUFFICES ASSUME NEW k \in 1..numMessages
                   PROVE  messages'[SlotAt(k)'].data = messages[SlotAt(k)].data
        OBVIOUS
      <3>1. SlotAt(k)' = SlotAt(k) /\ SlotAt(k) \in 0..(maxMsgs - 1) /\ SlotAt(k) # FreeSlot
        BY <1>4, <2>2 DEF SlotAt, FreeSlot
      <3> QED
        BY <1>4, <2>2, <3>1
    <2>5. ASSUME NEW k \in Nat, k = numMessages + 1
          PROVE  messages'[SlotAt(k)'].data = msgPtr[s]
      <3>1. SlotAt(k)' = FreeSlot
        BY <1>4, <2>2, <2>5 DEF SlotAt, FreeSlot
      <3> QED
        BY <1>4, <2>2, <3>1
    <2>6. contentsBar' = [k \in 1..(numMessages + 1) |-> messages'[SlotAt(k)'].data]
      BY <1>4, <2>3 DEF contentsBar
    <2>7. /\ contentsBar = [k \in 1..numMessages |-> messages[SlotAt(k)].data]
          /\ contentsBar \in Seq(Msgs) /\ Len(contentsBar) = numMessages
      BY <2>1, ContentsOfRing
    <2>8. contentsBar' = Append(contentsBar, msgPtr[s])
      <3>1. \A k \in 1..(numMessages + 1) :
              messages'[SlotAt(k)'].data
                = IF k = numMessages + 1 THEN msgPtr[s] ELSE contentsBar[k]
        BY <2>2, <2>4, <2>5, <2>7
      <3>2. contentsBar' = [k \in 1..(numMessages + 1) |->
                              IF k = numMessages + 1 THEN msgPtr[s] ELSE contentsBar[k]]
        BY <2>6, <3>1
      <3> QED
        BY <2>2, <2>7, <3>2
    <2>9. Fifo!Put(s, msgPtr[s])
      BY <1>4, <2>1, <2>2, <2>3, <2>7, <2>8 DEF Fifo!Put
    <2> QED
      BY <1>0, <2>1, <2>9 DEF Fifo!Next
  <1> QED
    BY <1>1, <1>2, <1>3, <1>4 DEF SenderNext, SendLocked

LEMMA ManagerRefines ==
  ASSUME IInv, ManagerNext
  PROVE  [Fifo!Next]_Fifo!fifoVars
  <1>1. CASE OpenBegin
    BY <1>1 DEF OpenBegin, HasRing, contentsBar, SlotAt, Fifo!fifoVars
  <1>2. ASSUME NEW d \in Depths, NEW z \in Sizes, OpenEnd(d, z)
        PROVE  [Fifo!Next]_Fifo!fifoVars
    <2>1. ~HasRing
      BY <1>2 DEF OpenEnd, IInv, FlagInv
    <2>2. HasRing'
      <3>1. d \in Nat \ {0} /\ DOMAIN messages' = 0..(d - 1)
        BY <1>2, QueueAssumption DEF OpenEnd
      <3> QED
        BY <3>1, NonEmptyRing DEF HasRing
    <2>3. contentsBar' = <<>>
      BY <1>2, <2>2 DEF OpenEnd, contentsBar
    <2>4. Fifo!Open(d)
      BY <1>2, <2>1, <2>2, <2>3 DEF OpenEnd, Fifo!Open
    <2> QED
      BY <2>4 DEF Fifo!Next
  <1>3. CASE Close
    <2>1. HasRing /\ ~HasRing' /\ UNCHANGED <<maxMsgs, ret>>
      BY <1>3 DEF Close, HasRing, IInv, FlagInv
    <2>2. contentsBar' = <<>>
      BY <2>1 DEF contentsBar
    <2>3. Fifo!Close
      BY <2>1, <2>2 DEF Fifo!Close
    <2> QED
      BY <2>3 DEF Fifo!Next
  <1> QED
    BY <1>1, <1>2, <1>3 DEF ManagerNext

LEMMA NextRefines == IInv /\ [Next]_vars => [Fifo!Next]_Fifo!fifoVars
  <1>1. ASSUME UNCHANGED vars PROVE UNCHANGED Fifo!fifoVars
    BY <1>1, SameRing DEF vars, Fifo!fifoVars
  <1> QED
    BY <1>1, ReceiverRefines, SenderRefines, ManagerRefines DEF Next

\* For every depth and any number of threads, with opens and closes at any moment:
\* the ring buffer is a bounded first-in first-out queue.
THEOREM FifoImplemented == Spec => ImplementsFifo
  BY InitRefines, NextRefines, Invariance, PTL DEF Spec, ImplementsFifo, Fifo!Spec
==============================================================================
