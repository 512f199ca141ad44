----------------------- MODULE TrickCFSInterface_proofs -----------------------
(***************************************************************************)
(* What the methods of TrickCFSInterface do to the types of its state,     *)
(* whoever calls them.                                                     *)
(***************************************************************************)
EXTENDS TrickCFSInterface, ArithmeticFacts, SequenceTheorems, TLAPS

------------------------------------------------------------------------------
\* Lists: what the operators return that model std::list and std::multimap.

LEMMA FrontFacts ==
  ASSUME NEW S, NEW s \in Seq(S), s # <<>>
  PROVE  Front(s) \in Seq(S) /\ Len(Front(s)) = Len(s) - 1 /\ Last(s) \in S
  <1>1. Len(s) \in Nat \ {0}
    BY EmptySeq, LenProperties
  <1> DEFINE n == Len(s) - 1
  <1>2. n \in Nat /\ \A j \in 1..n : s[j] \in S
    BY <1>1
  <1> HIDE DEF n
  <1>3. SubSeq(s, 1, n) \in Seq(S) /\ Len(SubSeq(s, 1, n)) = n
    BY <1>2, SubSeqProperties
  <1> QED
    BY <1>1, <1>3 DEF Front, Last, n

\* Every element but the one at i stays, those behind it move up.
LEMMA RemoveAtFacts ==
  ASSUME NEW S, NEW s \in Seq(S), NEW i \in 1..Len(s)
  PROVE  /\ RemoveAt(s, i) \in Seq(S)
         /\ Len(RemoveAt(s, i)) = Len(s) - 1
         /\ \A j \in 1..(Len(s) - 1) : RemoveAt(s, i)[j] = IF j < i THEN s[j] ELSE s[j + 1]
  <1> DEFINE front == SubSeq(s, 1, i - 1)
             back == SubSeq(s, i + 1, Len(s))
  <1>1. Len(s) \in Nat
    OBVIOUS
  <1>2. /\ front \in Seq(S) /\ Len(front) = i - 1
        /\ \A j \in 1..(i - 1) : front[j] = s[j]
    BY <1>1, SubSeqProperties
  <1>3. /\ back \in Seq(S) /\ Len(back) = Len(s) - i
        /\ \A j \in 1..(Len(s) - i) : back[j] = s[i + j]
    BY <1>1, SubSeqProperties
  <1> HIDE DEF front, back
  <1>6. /\ front \o back \in Seq(S)
        /\ Len(front \o back) = Len(front) + Len(back)
        /\ \A j \in 1..(Len(front) + Len(back)) :
             (front \o back)[j] = IF j <= Len(front) THEN front[j] ELSE back[j - Len(front)]
    BY <1>2, <1>3, ConcatProperties
  <1>4. /\ front \o back \in Seq(S)
        /\ Len(front \o back) = Len(s) - 1
        /\ \A j \in 1..(Len(s) - 1) :
             (front \o back)[j] = IF j <= i - 1 THEN front[j] ELSE back[j - (i - 1)]
    BY <1>1, <1>2, <1>3, <1>6
  <1>5. \A j \in 1..(Len(s) - 1) :
          (front \o back)[j] = IF j < i THEN s[j] ELSE s[j + 1]
    <2> TAKE j \in 1..(Len(s) - 1)
    <2>1. CASE j < i
      BY <1>1, <1>2, <1>4, <2>1
    <2>2. CASE ~(j < i)
      <3>1. j - (i - 1) \in 1..(Len(s) - i) /\ i + (j - (i - 1)) = j + 1
        BY <1>1, <2>2
      <3>2. (front \o back)[j] = back[j - (i - 1)]
        BY <1>1, <1>4, <2>2
      <3>3. back[j - (i - 1)] = s[j + 1]
        BY <1>3, <3>1
      <3> QED
        BY <2>2, <3>2, <3>3
    <2> QED
      BY <2>1, <2>2
  <1> QED
    BY <1>4, <1>5 DEF RemoveAt, front, back

\* RemoveFirst removes one element, the first e there is.
LEMMA RemoveFirstFacts ==
  ASSUME NEW S, NEW s \in Seq(S), NEW e
  PROVE  /\ RemoveFirst(s, e) \in Seq(S)
         /\ ~Contains(s, e) => RemoveFirst(s, e) = s
         /\ Contains(s, e) => \E i \in 1..Len(s) :
              s[i] = e /\ (\A j \in 1..(i - 1) : s[j] # e) /\ RemoveFirst(s, e) = RemoveAt(s, i)
  <1>1. CASE ~Contains(s, e)
    BY <1>1 DEF Contains, RemoveFirst
  <1>2. CASE Contains(s, e)
    <2> DEFINE I == {i \in 1..Len(s) : s[i] = e}
    <2>1. I # {} /\ I \in SUBSET Nat
      BY <1>2 DEF Contains
    <2>2. PICK m \in I : \A k \in I : m <= k
      BY <2>1, LeastNatural
    <2>3. Min(I) = m
      BY <2>2 DEF Min
    <2>4. RemoveFirst(s, e) = RemoveAt(s, m)
      BY <2>1, <2>3 DEF RemoveFirst, SelectInSeq
    <2>5. \A j \in 1..(m - 1) : s[j] # e
      BY <2>2
    <2> QED
      BY <1>2, <2>2, <2>4, <2>5, RemoveAtFacts
  <1> QED
    BY <1>1, <1>2

\* ... so it is one shorter when there is an e.
LEMMA RemoveFirstLength ==
  ASSUME NEW S, NEW s \in Seq(S), NEW e
  PROVE  Len(RemoveFirst(s, e)) = IF Contains(s, e) THEN Len(s) - 1 ELSE Len(s)
  <1>1. CASE ~Contains(s, e)
    BY <1>1, RemoveFirstFacts
  <1>2. CASE Contains(s, e)
    <2>1. PICK i \in 1..Len(s) : RemoveFirst(s, e) = RemoveAt(s, i)
      BY <1>2, RemoveFirstFacts
    <2> QED
      BY <1>2, <2>1, RemoveAtFacts
  <1> QED
    BY <1>1, <1>2

\* What is left has been there before.
LEMMA RemoveFirstContains ==
  ASSUME NEW S, NEW s \in Seq(S), NEW e
  PROVE  \A x : Contains(RemoveFirst(s, e), x) => Contains(s, x)
  <1>1. CASE ~Contains(s, e)
    BY <1>1, RemoveFirstFacts
  <1>2. CASE Contains(s, e)
    <2>1. PICK i \in 1..Len(s) : RemoveFirst(s, e) = RemoveAt(s, i)
      BY <1>2, RemoveFirstFacts
    <2> DEFINE r == RemoveAt(s, i)
    <2>2. /\ r \in Seq(S) /\ Len(r) = Len(s) - 1
          /\ \A j \in 1..(Len(s) - 1) : r[j] = IF j < i THEN s[j] ELSE s[j + 1]
      BY RemoveAtFacts
    <2> HIDE DEF r
    <2>3. Len(s) \in Nat
      OBVIOUS
    <2>4. \A x : Contains(r, x) => Contains(s, x)
      BY <2>2, <2>3 DEF Contains
    <2> QED
      BY <2>1, <2>4 DEF r
  <1> QED
    BY <1>1, <1>2

\* Removing an element from a list without duplicates leaves one without
\* duplicates, and without the element.
LEMMA RemoveFirstInjective ==
  ASSUME NEW S, NEW s \in Seq(S), NEW e, IsInjective(s)
  PROVE  /\ IsInjective(RemoveFirst(s, e))
         /\ ~Contains(RemoveFirst(s, e), e)
         /\ \A x : Contains(RemoveFirst(s, e), x) => Contains(s, x)
  <1>1. CASE ~Contains(s, e)
    BY <1>1, RemoveFirstFacts
  <1>2. CASE Contains(s, e)
    <2>1. PICK i \in 1..Len(s) : s[i] = e /\ RemoveFirst(s, e) = RemoveAt(s, i)
      BY <1>2, RemoveFirstFacts
    <2> DEFINE r == RemoveAt(s, i)
    <2>2. /\ r \in Seq(S) /\ Len(r) = Len(s) - 1
          /\ \A j \in 1..(Len(s) - 1) : r[j] = IF j < i THEN s[j] ELSE s[j + 1]
      BY RemoveAtFacts
    <2> HIDE DEF r
    <2>3. /\ Len(s) \in Nat /\ DOMAIN r = 1..(Len(s) - 1)
          /\ \A j, k \in 1..Len(s) : s[j] = s[k] => j = k
      BY <2>2 DEF IsInjective
    <2>4. IsInjective(r)
      BY <2>2, <2>3, SMTT(30) DEF IsInjective
    <2>5. ~Contains(r, e)
      BY <2>1, <2>2, <2>3 DEF Contains
    <2>6. \A x : Contains(r, x) => Contains(s, x)
      BY <2>2, <2>3 DEF Contains
    <2> QED
      BY <2>1, <2>4, <2>5, <2>6 DEF r
  <1> QED
    BY <1>1, <1>2

\* Appending something new keeps a list free of duplicates.
LEMMA AppendInjectiveSeq ==
  ASSUME NEW S, NEW s \in Seq(S), NEW e \in S, IsInjective(s), ~Contains(s, e)
  PROVE  IsInjective(Append(s, e))
  BY DEF IsInjective, Contains

LEMMA InsertAtFacts ==
  ASSUME NEW S, NEW s \in Seq(S), NEW i \in 1..(Len(s) + 1), NEW e \in S
  PROVE  InsertAt(s, i, e) \in Seq(S)
  <1>1. Len(s) \in Nat
    OBVIOUS
  <1>2. SubSeq(s, 1, i - 1) \in Seq(S) /\ SubSeq(s, i, Len(s)) \in Seq(S)
    BY <1>1, SubSeqProperties
  <1>3. SubSeq(s, 1, i - 1) \o <<e>> \in Seq(S)
    BY <1>2, ConcatProperties
  <1> QED
    BY <1>2, <1>3, ConcatProperties DEF InsertAt

------------------------------------------------------------------------------
\* The operations of the interface.


LEMMA SignalType ==
  ASSUME IpcTypeOK, NEW t \in Tasks, Signal(t)
  PROVE  cv' \in [Tasks -> SUBSET {"main", "task"}]
  BY DEF IpcTypeOK, Signal

LEMMA KeepWaitingType ==
  ASSUME IpcTypeOK, NEW t \in Tasks, KeepWaiting(t)
  PROVE  IpcTypeOK'
  BY DEF IpcTypeOK, KeepWaiting, Sleep

LEMMA ContinueType ==
  ASSUME IpcTypeOK, NEW t \in Tasks, Continue(t) \/ ContinueAfterDelay(t)
  PROVE  IpcTypeOK'
  <1>1. cv' \in [Tasks -> SUBSET {"main", "task"}]
    BY SignalType DEF Continue, ContinueAfterDelay, IpcTypeOK
  <1>2. state' \in [Tasks -> TaskState]
    BY DEF Continue, ContinueAfterDelay, SetState, IpcTypeOK, TaskState
  <1> QED
    BY <1>1, <1>2 DEF Continue, ContinueAfterDelay, IpcTypeOK

LEMMA AddTaskDelayType ==
  ASSUME IpcTypeOK, NEW t \in Tasks, NEW ms \in Nat,
         AddTaskDelay(t, ms) \/ AddTaskDelaySkipped(t)
  PROVE  IpcTypeOK'
  <1>1. cv' \in [Tasks -> SUBSET {"main", "task"}]
    BY SignalType DEF AddTaskDelay, AddTaskDelaySkipped, IpcTypeOK
  <1>2. state' \in [Tasks -> TaskState]
    BY DEF AddTaskDelay, AddTaskDelaySkipped, SetState, IpcTypeOK, TaskState
  <1>3. usRemaining' \in [Tasks -> Int]
    BY DEF AddTaskDelay, AddTaskDelaySkipped, IpcTypeOK
  <1> QED
    BY <1>1, <1>2, <1>3 DEF AddTaskDelay, AddTaskDelaySkipped, IpcTypeOK

LEMMA AcknowledgeType ==
  ASSUME IpcTypeOK, NEW t \in Tasks, NEW mid, NEW site \in Sites,
         AcknowledgePipeTrigger(t, mid, site)
  PROVE  IpcTypeOK'
  <1>1. cv' \in [Tasks -> SUBSET {"main", "task"}]
    BY SignalType DEF AcknowledgePipeTrigger
  <1>2. CASE Contains(triggeredMIDs[t], mid)
    <2>1. mid \in Mids
      BY <1>2 DEF Contains, IpcTypeOK
    <2>2. /\ stacks' = [stacks EXCEPT ![t] = Append(stacks[t], site)]
          /\ acknowledgedMIDs' = [acknowledgedMIDs EXCEPT ![t] = Append(acknowledgedMIDs[t], mid)]
          /\ \E s \in {"MSG_RCV", "TASK_RUNNING"} : state' = [state EXCEPT ![t] = s]
          /\ UNCHANGED <<triggeredMIDs, usRemaining>>
      BY <1>2 DEF AcknowledgePipeTrigger, SetState, IpcTypeOK
    <2>3. Append(stacks[t], site) \in Seq(Sites) /\ Append(acknowledgedMIDs[t], mid) \in Seq(Mids)
      BY <2>1 DEF IpcTypeOK
    <2>4. stacks' \in [Tasks -> Seq(Sites)] /\ acknowledgedMIDs' \in [Tasks -> Seq(Mids)]
      BY <2>2, <2>3 DEF IpcTypeOK
    <2>5. state' \in [Tasks -> TaskState]
      BY <2>2 DEF IpcTypeOK, TaskState
    <2> QED
      BY <1>1, <2>2, <2>4, <2>5 DEF IpcTypeOK
  <1>3. CASE ~Contains(triggeredMIDs[t], mid)
    BY <1>1, <1>3 DEF AcknowledgePipeTrigger, SetState, IpcTypeOK, TaskState
  <1> QED
    BY <1>2, <1>3

LEMMA MarkPipeAsCompleteType ==
  ASSUME IpcTypeOK, NEW t \in Tasks, NEW site, MarkPipeAsComplete(t, site)
  PROVE  IpcTypeOK'
  <1>1. cv' \in [Tasks -> SUBSET {"main", "task"}]
    BY SignalType DEF MarkPipeAsComplete
  <1>2. state' \in [Tasks -> TaskState]
    BY DEF MarkPipeAsComplete, SetState, IpcTypeOK, TaskState
  <1>3. stacks' \in [Tasks -> Seq(Sites)]
    <2>1. RemoveFirst(stacks[t], site) \in Seq(Sites)
      BY RemoveFirstFacts DEF IpcTypeOK
    <2> QED
      BY <2>1 DEF MarkPipeAsComplete, FinishSite, IpcTypeOK
  <1>4. triggeredMIDs' \in [Tasks -> Seq(Mids)] /\ acknowledgedMIDs' \in [Tasks -> Seq(Mids)]
    <2> DEFINE mid == Back(acknowledgedMIDs[t])
    <2>1. CASE stacks[t] # <<>> /\ Contains(triggeredMIDs[t], mid)
      <3>1. mid \in Mids
        BY <2>1 DEF Contains, IpcTypeOK
      <3>2. acknowledgedMIDs[t] # <<>>
        BY <3>1, InterfaceAssumption DEF Back
      <3>3. Front(acknowledgedMIDs[t]) \in Seq(Mids)
        BY <3>2, FrontFacts DEF IpcTypeOK
      <3>4. RemoveFirst(triggeredMIDs[t], mid) \in Seq(Mids)
        BY RemoveFirstFacts DEF IpcTypeOK
      <3>5. /\ triggeredMIDs' = [triggeredMIDs EXCEPT ![t] = RemoveFirst(triggeredMIDs[t], mid)]
            /\ acknowledgedMIDs' = [acknowledgedMIDs EXCEPT ![t] = Front(acknowledgedMIDs[t])]
        BY <2>1 DEF MarkPipeAsComplete, FinishMessage, IpcTypeOK
      <3> QED
        BY <3>3, <3>4, <3>5 DEF IpcTypeOK
    <2>2. CASE ~(stacks[t] # <<>> /\ Contains(triggeredMIDs[t], mid))
      BY <2>2 DEF MarkPipeAsComplete, FinishMessage, IpcTypeOK
    <2> QED
      BY <2>1, <2>2
  <1> QED
    BY <1>1, <1>2, <1>3, <1>4 DEF MarkPipeAsComplete, IpcTypeOK

LEMMA UpdateTaskTimeType ==
  ASSUME IpcTypeOK, NEW t \in Tasks, UpdateTaskTime(t)
  PROVE  IpcTypeOK'
  <1>1. cv' \in [Tasks -> SUBSET {"main", "task"}]
    BY SignalType DEF UpdateTaskTime, IpcTypeOK
  <1>2. CountDown(usRemaining[t]) \in Int
    BY InterfaceAssumption DEF CountDown, IpcTypeOK
  <1>3. state' \in [Tasks -> TaskState] /\ usRemaining' \in [Tasks -> Int]
    <2>1. CASE state[t] # "TASK_DELAY"
      <3>1. UNCHANGED <<state, usRemaining>>
        BY <2>1 DEF UpdateTaskTime
      <3> QED
        BY <3>1 DEF IpcTypeOK
    <2>2. CASE state[t] = "TASK_DELAY" /\ CountDown(usRemaining[t]) > 0
      <3>1. UNCHANGED state
            /\ usRemaining' = [usRemaining EXCEPT ![t] = CountDown(usRemaining[t])]
        BY <2>2 DEF UpdateTaskTime
      <3> QED
        BY <1>2, <3>1 DEF IpcTypeOK
    <2>3. CASE state[t] = "TASK_DELAY" /\ ~(CountDown(usRemaining[t]) > 0)
      <3>1. /\ state' = [state EXCEPT ![t] = "TASK_CONTINUE"]
            /\ usRemaining' = [usRemaining EXCEPT ![t] = -1]
        BY <2>3 DEF UpdateTaskTime, SetState
      <3> QED
        BY <3>1 DEF IpcTypeOK, TaskState
    <2> QED
      BY <2>1, <2>2, <2>3
  <1> QED
    BY <1>1, <1>3 DEF UpdateTaskTime, IpcTypeOK

LEMMA MarkPipeAsTriggeredType ==
  ASSUME IpcTypeOK, perfectFDMap \in Seq(Tasks),
         NEW t \in Tasks, NEW mid \in Mids, MarkPipeAsTriggered(t, mid)
  PROVE  triggeredMIDs' \in [Tasks -> Seq(Mids)] /\ perfectFDMap' \in Seq(Tasks)
  <1>1. CASE appRunning[t]
    <2>1. triggeredMIDs' = [triggeredMIDs EXCEPT ![t] = Append(triggeredMIDs[t], mid)]
      BY <1>1 DEF MarkPipeAsTriggered, IpcTypeOK
    <2>2. Append(triggeredMIDs[t], mid) \in Seq(Mids)
      BY DEF IpcTypeOK
    <2>3. triggeredMIDs' \in [Tasks -> Seq(Mids)]
      BY <2>1, <2>2 DEF IpcTypeOK
    <2>4. CASE Insert(t)
      BY <2>3, <2>4, InsertAtFacts DEF Insert
    <2>5. CASE UNCHANGED perfectFDMap
      BY <2>3, <2>5
    <2> QED
      BY <1>1, <2>4, <2>5 DEF MarkPipeAsTriggered
  <1>3. CASE ~appRunning[t]
    BY <1>3 DEF MarkPipeAsTriggered, IpcTypeOK
  <1> QED
    BY <1>1, <1>3

LEMMA GiveUpType ==
  ASSUME IpcTypeOK, NEW t \in Tasks, GiveUp(t) \/ UNCHANGED triggeredMIDs,
         UNCHANGED <<state, stacks, acknowledgedMIDs, usRemaining, cv>>
  PROVE  IpcTypeOK'
  <1>1. <<>> \in Seq(Mids) /\ triggeredMIDs \in [Tasks -> Seq(Mids)]
    BY DEF IpcTypeOK
  <1>2. triggeredMIDs' \in [Tasks -> Seq(Mids)]
    BY <1>1 DEF GiveUp
  <1> QED
    BY <1>2 DEF IpcTypeOK

\* What a step does not touch keeps its type.
LEMMA UnchangedIpc == ASSUME IpcTypeOK, UNCHANGED ipcVars PROVE IpcTypeOK'
  BY DEF IpcTypeOK, ipcVars

LEMMA UnchangedIface == ASSUME IfaceTypeOK, UNCHANGED ifaceVars PROVE IfaceTypeOK'
  BY UnchangedIpc DEF IfaceTypeOK, ifaceVars, eventVars
==============================================================================
