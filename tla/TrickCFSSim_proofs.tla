------------------------- MODULE TrickCFSSim_proofs --------------------------
(***************************************************************************)
(* Proofs about TrickCFSSim, for any number of tasks, any schedule table   *)
(* and any calls the apps make.                                            *)
(***************************************************************************)
EXTENDS TrickCFSSim, TrickCFSInterface_proofs, FiniteSetTheorems

\* Where a task is says which of its variables mean something ...
InCall == {"recv", "expired", "ack", "again", "polling", "mayComplete"}
CallInv == \A t \in Tasks : pc[t] \in InCall => call[t] \in Calls[t]

\* ... and so it is with the main thread and the SCH thread.
MainInv == mainPc \in {"wait", "expired"} => ii < NumTasks
SchInv == schPc \in {"owner", "mark", "xmit"} => schEntry <= Len(Table)

TypeInv == TypeOK /\ CallInv /\ MainInv /\ SchInv

------------------------------------------------------------------------------
\* Types

LEMMA InitTypeInv == Init => TypeInv
  <1> SUFFICES ASSUME Init PROVE TypeInv
    OBVIOUS
  <1> USE InterfaceAssumption, SimAssumption
  <1>1. IpcTypeOK
    BY DEF Init, IfaceInit, IpcTypeOK, TaskState
  <1>2. IfaceTypeOK
    BY <1>1 DEF Init, IfaceInit, IfaceTypeOK
  <1>3. execMode \in {"Initialization", "Run", "ExitMode"} /\ exitCmd \in BOOLEAN
        /\ mainPc \in MainPCs /\ schPc \in SchPCs
    BY DEF Init, MainPCs, SchPCs
  <1>4. ii \in 0..NumTasks /\ remainingTime \in Nat \cup {-1}
        /\ schEntry \in 1..(Len(Table) + 1) /\ schPipes \in SUBSET Pipes /\ schTask \in Tasks
    BY DEF Init, Tasks
  <1>5. schCount \in Count
    BY DEF Init, Count, NoCount
  <1>6. /\ pc \in [Tasks -> TaskPCs] /\ call \in [Tasks -> Call \cup {NoCall}]
        /\ timeout \in [Tasks -> Int] /\ hand \in [Tasks -> Mids \cup {NoMid}]
        /\ msIn \in [Tasks -> Nat] /\ queue \in [Pipes -> Seq(Mids)]
    BY DEF Init, TaskPCs
  <1>7. TypeOK
    BY <1>2, <1>3, <1>4, <1>5, <1>6 DEF TypeOK, MainTypeOK, SchTypeOK, TaskTypeOK, Init
  <1>8. CallInv /\ MainInv /\ SchInv
    BY DEF Init, CallInv, InCall, MainInv, SchInv
  <1> QED
    BY <1>7, <1>8 DEF TypeInv

\* What a step does not touch keeps its type.
LEMMA UnchangedSch == ASSUME SchTypeOK, SchInv, UNCHANGED schVars PROVE SchTypeOK' /\ SchInv'
  BY DEF SchTypeOK, SchInv, schVars

LEMMA UnchangedTask == ASSUME TaskTypeOK, CallInv, UNCHANGED taskVars PROVE TaskTypeOK' /\ CallInv'
  BY DEF TaskTypeOK, CallInv, taskVars

LEMMA UnchangedMain == ASSUME MainTypeOK, MainInv, UNCHANGED mainVars PROVE MainTypeOK' /\ MainInv'
  BY DEF MainTypeOK, MainInv, mainVars

LEMMA MainTypeInv == ASSUME TypeInv, MainStep PROVE TypeInv'
  <1> USE InterfaceAssumption, SimAssumption
  <1>1. UNCHANGED <<schVars, taskVars, exitCmd, queue>>
    BY DEF MainStep, MainRead, MainTestNext, MainTestWait, MainWoken, MainWaitOn, MainGiveUp,
           MainCycle, MainUpdate, MainTrigger
  <1>2. MainTypeOK' /\ MainInv'
    <2>1. CASE MainRead \/ MainTestNext \/ MainTestWait
      BY <2>1 DEF MainRead, MainTestNext, MainTestWait, MainDone, GoMain, MainPCs,
                  TypeInv, TypeOK, MainTypeOK, MainInv
    <2>2. CASE MainWoken \/ MainWaitOn \/ MainGiveUp
      BY <2>2 DEF MainWoken, MainWaitOn, MainGiveUp, GoMain, MainPCs,
                  TypeInv, TypeOK, MainTypeOK, MainInv
    <2>3. CASE MainCycle \/ MainUpdate \/ MainTrigger
      BY <2>3 DEF MainCycle, MainUpdate, MainTrigger, GoMain, MainPCs,
                  TypeInv, TypeOK, MainTypeOK, MainInv
    <2> QED
      BY <2>1, <2>2, <2>3 DEF MainStep
  <1>3. IpcTypeOK'
    <2>0. ii < NumTasks => ii \in Tasks
      BY DEF TypeInv, TypeOK, MainTypeOK, Tasks
    <2>1. CASE UNCHANGED ipcVars
      BY <2>1, UnchangedIpc DEF TypeInv, TypeOK, IfaceTypeOK
    <2>2. CASE MainTestWait \/ MainWaitOn
      <3>1. ii \in Tasks /\ cv' = [cv EXCEPT ![ii] = cv[ii] \cup {"main"}]
        BY <2>0, <2>2 DEF MainTestWait, MainWaitOn, Sleep, TypeInv, TypeOK, IfaceTypeOK,
                          IpcTypeOK, MainInv
      <3>2. UNCHANGED <<state, triggeredMIDs, stacks, acknowledgedMIDs, usRemaining>>
        BY <2>2 DEF MainTestWait, MainWaitOn
      <3>3. cv' \in [Tasks -> SUBSET {"main", "task"}]
        BY <3>1 DEF TypeInv, TypeOK, IfaceTypeOK, IpcTypeOK
      <3> QED
        BY <3>2, <3>3 DEF TypeInv, TypeOK, IfaceTypeOK, IpcTypeOK
    <2>3. CASE MainGiveUp
      <3>1. triggeredMIDs' = triggeredMIDs \/ triggeredMIDs' = [triggeredMIDs EXCEPT ![ii] = <<>>]
        BY <2>3 DEF MainGiveUp, GiveUp
      <3>4. ii \in Tasks
        BY <2>0, <2>3 DEF MainGiveUp, TypeInv, MainInv
      <3>2. triggeredMIDs' \in [Tasks -> Seq(Mids)]
        <4>1. <<>> \in Seq(Mids) /\ triggeredMIDs \in [Tasks -> Seq(Mids)]
          BY DEF TypeInv, TypeOK, IfaceTypeOK, IpcTypeOK
        <4> QED
          BY <3>1, <3>4, <4>1
      <3>3. UNCHANGED <<state, stacks, acknowledgedMIDs, usRemaining, cv>>
        BY <2>3 DEF MainGiveUp
      <3> QED
        BY <3>2, <3>3 DEF TypeInv, TypeOK, IfaceTypeOK, IpcTypeOK
    <2>4. CASE MainUpdate
      BY <2>0, <2>4, UpdateTaskTimeType DEF MainUpdate, TypeInv, TypeOK, IfaceTypeOK
    <2> QED
      BY <2>1, <2>2, <2>3, <2>4 DEF MainStep, MainRead, MainTestNext, MainWoken, MainCycle,
                                    MainTrigger, ifaceVars
  <1>4. IfaceTypeOK'
    <2>1. UNCHANGED <<prevPipeTaskOwner, perfectFDMap, appRunning>>
      BY DEF MainStep, MainRead, MainTestNext, MainTestWait, MainWoken, MainWaitOn, MainGiveUp,
             MainCycle, MainUpdate, MainTrigger, ifaceVars
    <2>2. isMainCompleteTrigger' \in Nat /\ triggerMain' \in Nat
      BY DEF MainStep, MainRead, MainTestNext, MainTestWait, MainWoken, MainWaitOn, MainGiveUp,
             MainCycle, MainUpdate, MainTrigger, ifaceVars, eventVars, Consume, TriggerMainApp,
             TypeInv, TypeOK, IfaceTypeOK
    <2> QED
      BY <1>3, <2>1, <2>2 DEF TypeInv, TypeOK, IfaceTypeOK
  <1> QED
    BY <1>1, <1>2, <1>4, UnchangedSch, UnchangedTask DEF TypeInv, TypeOK

LEMMA SchTypeInv == ASSUME TypeInv, SchStep PROVE TypeInv'
  <1> USE InterfaceAssumption, SimAssumption
  <1>1. UNCHANGED <<mainVars, taskVars, exitCmd, prevPipeTaskOwner, appRunning>>
    BY DEF SchStep, SchInit, SchWait, SchTable, SchOwner, SchMark, SchXmit, SchNext, SchSpin,
           SchCheck, ifaceVars
  <1>2. SchTypeOK' /\ SchInv'
    <2>1. CASE SchInit \/ SchWait \/ SchTable
      BY <2>1 DEF SchInit, SchWait, SchTable, GoSch, SchPCs, TypeInv, TypeOK, SchTypeOK, SchInv,
                  schMid
    <2>2. CASE SchOwner
      BY <2>2 DEF SchOwner, GoSch, SchPCs, TypeInv, TypeOK, IfaceTypeOK, SchTypeOK, SchInv, schMid
    <2>3. CASE SchMark \/ SchXmit
      BY <2>3 DEF SchMark, SchXmit, GoSch, SchPCs, TypeInv, TypeOK, SchTypeOK, SchInv
    <2>4. CASE SchNext
      <3>1. CASE perfectFDMap = <<>>
        BY <2>4, <3>1 DEF SchNext, GoSch, SchPCs, TypeInv, TypeOK, SchTypeOK, SchInv
      <3>2. CASE perfectFDMap # <<>>
        <4>1. Head(perfectFDMap) \in Tasks
          BY <3>2 DEF TypeInv, TypeOK, IfaceTypeOK
        <4>2. Len(triggeredMIDs[Head(perfectFDMap)]) \in Nat
          BY <4>1 DEF TypeInv, TypeOK, IfaceTypeOK, IpcTypeOK
        <4>3. schCount' \in Count
          <5>1. schCount' = [req |-> Len(triggeredMIDs[Head(perfectFDMap)]),
                             triggers |-> 0, completes |-> 0]
            BY <2>4, <3>2 DEF SchNext, NoCount
          <5> QED
            BY <4>2, <5>1 DEF Count
        <4> QED
          BY <2>4, <3>2, <4>1, <4>3 DEF SchNext, GoSch, SchPCs, TypeInv, TypeOK, SchTypeOK, SchInv
      <3> QED
        BY <3>1, <3>2
    <2>5. CASE SchSpin \/ SchCheck
      <3>0. /\ schCount.req \in Nat /\ schCount.triggers \in Nat /\ schCount.completes \in Nat
            /\ schCount = [req |-> schCount.req, triggers |-> schCount.triggers,
                           completes |-> schCount.completes]
        BY DEF TypeInv, TypeOK, SchTypeOK, Count
      <3>1. schCount' \in Count
        <4>1. CASE schCount' = [schCount EXCEPT !.triggers = schCount.triggers + 1]
          <5>1. schCount' = [req |-> schCount.req, triggers |-> schCount.triggers + 1,
                             completes |-> schCount.completes]
            BY <3>0, <4>1
          <5> QED
            BY <3>0, <5>1 DEF Count
        <4>2. CASE schCount' = [schCount EXCEPT !.completes = schCount.completes + 1]
          <5>1. schCount' = [req |-> schCount.req, triggers |-> schCount.triggers,
                             completes |-> schCount.completes + 1]
            BY <3>0, <4>2
          <5> QED
            BY <3>0, <5>1 DEF Count
        <4>3. CASE schCount' = [schCount EXCEPT !.completes = schCount.req]
          <5>1. schCount' = [req |-> schCount.req, triggers |-> schCount.triggers,
                             completes |-> schCount.req]
            BY <3>0, <4>3
          <5> QED
            BY <3>0, <5>1 DEF Count
        <4>4. CASE schCount' = schCount
          BY <4>4 DEF TypeInv, TypeOK, SchTypeOK
        <4> QED
          BY <2>5, <4>1, <4>2, <4>3, <4>4 DEF SchSpin, SchCheck
      <3> QED
        BY <2>5, <3>1 DEF SchSpin, SchCheck, GoSch, SchPCs, TypeInv, TypeOK, SchTypeOK, SchInv
    <2> QED
      BY <2>1, <2>2, <2>3, <2>4, <2>5 DEF SchStep
  <1>3. IpcTypeOK' /\ perfectFDMap' \in Seq(Tasks)
    <2>0. schTask \in Tasks
      BY DEF TypeInv, TypeOK, SchTypeOK
    <2>1. CASE SchInit \/ SchWait \/ SchTable \/ SchOwner \/ SchXmit
      BY <2>1, UnchangedIpc DEF SchInit, SchWait, SchTable, SchOwner, SchXmit, ifaceVars,
                                TypeInv, TypeOK, IfaceTypeOK
    <2>2. CASE SchMark
      <3>1. schMid \in Mids
        BY <2>2 DEF SchMark, schMid, TypeInv, TypeOK, SchTypeOK, SchInv
      <3> QED
        <4>1. IpcTypeOK /\ perfectFDMap \in Seq(Tasks) /\ MarkPipeAsTriggered(schTask, schMid)
          BY <2>2 DEF SchMark, TypeInv, TypeOK, IfaceTypeOK
        <4>2. triggeredMIDs' \in [Tasks -> Seq(Mids)] /\ perfectFDMap' \in Seq(Tasks)
          BY <2>0, <3>1, <4>1, MarkPipeAsTriggeredType
        <4>3. UNCHANGED <<state, stacks, acknowledgedMIDs, usRemaining, cv>>
          BY <2>2 DEF SchMark
        <4> QED
          BY <4>1, <4>2, <4>3 DEF IpcTypeOK
    <2>3. CASE SchNext
      <3>1. IpcTypeOK' /\ perfectFDMap \in Seq(Tasks)
        BY <2>3, UnchangedIpc DEF SchNext, TypeInv, TypeOK, IfaceTypeOK
      <3>2. \/ perfectFDMap' = perfectFDMap
            \/ perfectFDMap # <<>> /\ perfectFDMap' = Tail(perfectFDMap)
        BY <2>3 DEF SchNext
      <3>3. CASE perfectFDMap # <<>> /\ perfectFDMap' = Tail(perfectFDMap)
        <4>1. Tail(perfectFDMap) \in Seq(Tasks)
          BY <3>1, <3>3
        <4> QED
          BY <3>1, <3>3, <4>1
      <3> QED
        BY <3>1, <3>2, <3>3
    <2>4. CASE SchSpin
      <3>1. UNCHANGED <<triggeredMIDs, stacks, acknowledgedMIDs, usRemaining, perfectFDMap>>
        BY <2>4 DEF SchSpin
      <3>2. UNCHANGED <<state, cv>> \/ Release(schTask)
        BY <2>4 DEF SchSpin
      <3>3. CASE Release(schTask)
        <4>1. cv' \in [Tasks -> SUBSET {"main", "task"}]
          BY <2>0, <3>3, SignalType DEF Release, TypeInv, TypeOK, IfaceTypeOK
        <4>2. state' \in [Tasks -> TaskState]
          BY <2>0, <3>3 DEF Release, SetState, TaskState, TypeInv, TypeOK, IfaceTypeOK, IpcTypeOK
        <4> QED
          BY <3>1, <4>1, <4>2 DEF TypeInv, TypeOK, IfaceTypeOK, IpcTypeOK
      <3> QED
        BY <3>1, <3>2, <3>3 DEF TypeInv, TypeOK, IfaceTypeOK, IpcTypeOK
    <2>5. CASE SchCheck
      <3>1. UNCHANGED <<stacks, acknowledgedMIDs, usRemaining, cv, perfectFDMap>>
        BY <2>5 DEF SchCheck
      <3>2. UNCHANGED <<state, triggeredMIDs>> \/ WriteOff(schTask)
        BY <2>5 DEF SchCheck
      <3>3. CASE WriteOff(schTask)
        <4>1. state' \in [Tasks -> TaskState]
          BY <2>0, <3>3 DEF WriteOff, SetState, TaskState, TypeInv, TypeOK, IfaceTypeOK, IpcTypeOK
        <4>2. triggeredMIDs' \in [Tasks -> Seq(Mids)]
          <5>1. <<>> \in Seq(Mids) /\ triggeredMIDs \in [Tasks -> Seq(Mids)]
            BY DEF TypeInv, TypeOK, IfaceTypeOK, IpcTypeOK
          <5> QED
            BY <2>0, <3>3, <5>1 DEF WriteOff
        <4> QED
          BY <3>1, <4>1, <4>2 DEF TypeInv, TypeOK, IfaceTypeOK, IpcTypeOK
      <3> QED
        BY <3>1, <3>2, <3>3 DEF TypeInv, TypeOK, IfaceTypeOK, IpcTypeOK
    <2> QED
      BY <2>1, <2>2, <2>3, <2>4, <2>5 DEF SchStep
  <1>4. isMainCompleteTrigger' \in Nat /\ triggerMain' \in Nat
    BY DEF SchStep, SchInit, SchWait, SchTable, SchOwner, SchMark, SchXmit, SchNext, SchSpin,
           SchCheck, CFSWaitForTrigger, Consume, NotifyMain, ifaceVars, eventVars,
           TypeInv, TypeOK, IfaceTypeOK
  <1>5. queue' \in [Pipes -> Seq(Mids)]
    <2>1. CASE UNCHANGED queue
      BY <2>1 DEF TypeInv, TypeOK
    <2>2. ASSUME NEW p \in Pipes, SchXmit, Deliver(p, schMid) PROVE queue' \in [Pipes -> Seq(Mids)]
      <3>1. schMid \in Mids
        BY <2>2 DEF SchXmit, schMid, TypeInv, TypeOK, SchTypeOK, SchInv
      <3> QED
        BY <2>2, <3>1 DEF Deliver, TypeInv, TypeOK
    <2> QED
      BY <2>1, <2>2 DEF SchStep, SchInit, SchWait, SchTable, SchOwner, SchMark, SchXmit, SchNext,
           SchSpin, SchCheck, TypeInv, TypeOK, SchTypeOK
  <1> QED
    BY <1>1, <1>2, <1>3, <1>4, <1>5, UnchangedMain, UnchangedTask DEF TypeInv, TypeOK, IfaceTypeOK

LEMMA BeginDelayTypes ==
  ASSUME TypeInv, NEW t \in Tasks, NEW ms \in Nat, NEW at \in TaskPCs, NEW after \in TaskPCs,
         BeginDelay(t, ms, at, after)
  PROVE  /\ IpcTypeOK' /\ msIn' \in [Tasks -> Nat]
         /\ pc' = [pc EXCEPT ![t] = at] \/ pc' = [pc EXCEPT ![t] = after]
  <1>0. IpcTypeOK /\ msIn \in [Tasks -> Nat]
    BY DEF TypeInv, TypeOK, IfaceTypeOK, TaskTypeOK
  <1>1. CASE GoTask(t, after) /\ UNCHANGED <<ipcVars, msIn>>
    BY <1>0, <1>1, UnchangedIpc DEF GoTask
  <1>2. CASE AddTaskDelaySkipped(t) /\ GoTask(t, after) /\ UNCHANGED msIn
    BY <1>0, <1>2, AddTaskDelayType DEF GoTask
  <1>3. CASE AddTaskDelay(t, ms) /\ GoTask(t, at) /\ msIn' = [msIn EXCEPT ![t] = ms]
    BY <1>0, <1>3, AddTaskDelayType DEF GoTask
  <1> QED
    BY <1>1, <1>2, <1>3 DEF BeginDelay

LEMMA BeginReceiveTypes ==
  ASSUME TypeInv, NEW t \in Tasks, NEW c \in Calls[t], BeginReceive(t, c)
  PROVE  /\ IpcTypeOK' /\ prevPipeTaskOwner' \in [Pipes -> Tasks]
         /\ \E p \in {"mayComplete", "recv"} : pc' = [pc EXCEPT ![t] = p]
  <1>1. IpcTypeOK'
    BY MarkPipeAsCompleteType DEF BeginReceive, TypeInv, TypeOK, IfaceTypeOK
  <1>2. prevPipeTaskOwner' \in [Pipes -> Tasks]
    BY DEF BeginReceive, SetPipeOwner, TypeInv, TypeOK, IfaceTypeOK
  <1> QED
    BY <1>1, <1>2 DEF BeginReceive, GoTask

\* A step of task t to another place, with a call that belongs there.
LEMMA TaskMoves ==
  ASSUME TypeInv, NEW t \in Tasks, NEW p \in TaskPCs, pc' = [pc EXCEPT ![t] = p],
         \A u \in Tasks \ {t} : call'[u] = call[u],
         p \in InCall => call'[t] \in Calls[t]
  PROVE  pc' \in [Tasks -> TaskPCs] /\ CallInv'
  BY DEF TypeInv, TypeOK, TaskTypeOK, CallInv

LEMMA TaskTypeInv == ASSUME TypeInv, NEW t \in Tasks, TaskStep(t) PROVE TypeInv'
  <1> USE InterfaceAssumption, SimAssumption
  <1>1. UNCHANGED <<mainVars, schVars, exitCmd, perfectFDMap, eventVars, appRunning>>
    BY DEF TaskStep, TaskQueueGet, TaskDelay, TaskGetAgain, TaskReceive, TaskExpire, TaskEmpty,
           TaskPoll, TaskAck, TaskKeepWaiting, TaskContinue, ifaceVars
  <1>2. SUFFICES /\ IpcTypeOK' /\ prevPipeTaskOwner' \in [Pipes -> Tasks]
                 /\ TaskTypeOK' /\ CallInv' /\ queue' \in [Pipes -> Seq(Mids)]
    BY <1>1, UnchangedMain, UnchangedSch DEF TypeInv, TypeOK, IfaceTypeOK, eventVars
  <1>3. /\ IpcTypeOK /\ prevPipeTaskOwner \in [Pipes -> Tasks] /\ CallInv
        /\ queue \in [Pipes -> Seq(Mids)] /\ TaskTypeOK
    BY DEF TypeInv, TypeOK, IfaceTypeOK
  <1>4. NoCall \in Call \cup {NoCall} /\ \A c \in Calls[t] : c \in Call
    OBVIOUS
  <1>5. ASSUME NEW c \in Calls[t], TaskQueueGet(t, c)
        PROVE  /\ IpcTypeOK' /\ prevPipeTaskOwner' \in [Pipes -> Tasks]
               /\ TaskTypeOK' /\ CallInv' /\ queue' \in [Pipes -> Seq(Mids)]
    <2>1. c \in Call /\ c.timeout \in Int
      BY DEF Call
    <2>2. call' = [call EXCEPT ![t] = c] /\ UNCHANGED <<hand, msIn, queue>>
      BY <1>5 DEF TaskQueueGet
    <2>3. call' \in [Tasks -> Call \cup {NoCall}] /\ timeout' \in [Tasks -> Int]
      BY <1>3, <1>5, <2>1 DEF TaskQueueGet, TaskTypeOK
    <2>4. pc' \in [Tasks -> TaskPCs] /\ CallInv'
      BY <1>3, <1>5, <2>2, BeginReceiveTypes, TaskMoves DEF TaskQueueGet, TaskTypeOK, TaskPCs
    <2> QED
      BY <1>3, <1>5, <2>2, <2>3, <2>4, BeginReceiveTypes DEF TaskQueueGet, TaskTypeOK
  <1>6. ASSUME NEW ms \in Delays[t], TaskDelay(t, ms)
        PROVE  /\ IpcTypeOK' /\ prevPipeTaskOwner' \in [Pipes -> Tasks]
               /\ TaskTypeOK' /\ CallInv' /\ queue' \in [Pipes -> Seq(Mids)]
    <2>1. /\ IpcTypeOK' /\ msIn' \in [Tasks -> Nat]
          /\ pc' = [pc EXCEPT ![t] = "delaying"] \/ pc' = [pc EXCEPT ![t] = "app"]
      BY <1>6, BeginDelayTypes DEF TaskDelay, TaskPCs
    <2>2. UNCHANGED <<prevPipeTaskOwner, call, timeout, hand, queue>>
      BY <1>6 DEF TaskDelay
    <2>3. pc' \in [Tasks -> TaskPCs] /\ CallInv'
      BY <2>1, <2>2, TaskMoves DEF TaskPCs, InCall
    <2> QED
      BY <1>3, <2>1, <2>2, <2>3 DEF TaskTypeOK
  <1>7. CASE TaskGetAgain(t)
    <2>1. call[t] \in Calls[t]
      BY <1>3, <1>7 DEF TaskGetAgain, CallInv, InCall
    <2>2. UNCHANGED <<call, timeout, hand, msIn, queue>>
      BY <1>7 DEF TaskGetAgain
    <2>3. /\ IpcTypeOK' /\ prevPipeTaskOwner' \in [Pipes -> Tasks]
          /\ \E p \in {"mayComplete", "recv"} : pc' = [pc EXCEPT ![t] = p]
      BY <1>7, <2>1, BeginReceiveTypes DEF TaskGetAgain
    <2>4. pc' \in [Tasks -> TaskPCs] /\ CallInv'
      BY <2>1, <2>2, <2>3, TaskMoves DEF TaskPCs
    <2> QED
      BY <1>3, <2>2, <2>3, <2>4 DEF TaskTypeOK
  <1>8. CASE TaskReceive(t)
    <2>1. call[t] \in Call /\ call[t].pipe \in Pipes /\ call[t] \in Calls[t]
      BY <1>3, <1>8 DEF TaskReceive, CallInv, InCall, Call
    <2>2. /\ hand' = [hand EXCEPT ![t] = Head(queue[call[t].pipe])]
          /\ queue' = [queue EXCEPT ![call[t].pipe] = Tail(queue[call[t].pipe])]
          /\ queue[call[t].pipe] # <<>> /\ pc' = [pc EXCEPT ![t] = "ack"]
          /\ UNCHANGED <<ifaceVars, call, timeout, msIn>>
      BY <1>8 DEF TaskReceive, GoTask
    <2>3. Head(queue[call[t].pipe]) \in Mids /\ Tail(queue[call[t].pipe]) \in Seq(Mids)
      BY <1>3, <2>1, <2>2
    <2>4. pc' \in [Tasks -> TaskPCs] /\ CallInv'
      BY <2>1, <2>2, TaskMoves DEF TaskPCs
    <2>5. hand' \in [Tasks -> Mids \cup {NoMid}] /\ queue' \in [Pipes -> Seq(Mids)]
      BY <1>3, <2>2, <2>3 DEF TaskTypeOK
    <2> QED
      BY <1>3, <2>2, <2>4, <2>5, UnchangedIpc DEF TaskTypeOK, ifaceVars
  <1>9. CASE TaskExpire(t)
    <2>1. call[t] \in Calls[t] /\ pc' = [pc EXCEPT ![t] = "expired"]
          /\ UNCHANGED <<ifaceVars, call, timeout, hand, msIn, queue>>
      BY <1>3, <1>9 DEF TaskExpire, CallInv, InCall, GoTask
    <2>2. pc' \in [Tasks -> TaskPCs] /\ CallInv'
      BY <2>1, TaskMoves DEF TaskPCs
    <2> QED
      BY <1>3, <2>1, <2>2, UnchangedIpc DEF TaskTypeOK, ifaceVars
  <1>10. CASE TaskEmpty(t)
    <2>1. /\ pc' = [pc EXCEPT ![t] = "app"] /\ call' = [call EXCEPT ![t] = NoCall]
          /\ timeout' = [timeout EXCEPT ![t] = 0]
          /\ UNCHANGED <<ifaceVars, hand, msIn, queue>>
      BY <1>10 DEF TaskEmpty, GoTask
    <2>2. call' \in [Tasks -> Call \cup {NoCall}] /\ timeout' \in [Tasks -> Int]
      BY <1>3, <2>1 DEF TaskTypeOK
    <2>3. pc' \in [Tasks -> TaskPCs] /\ CallInv'
      BY <1>3, <2>1, TaskMoves DEF TaskPCs, InCall, TaskTypeOK
    <2> QED
      BY <1>3, <2>1, <2>2, <2>3, UnchangedIpc DEF TaskTypeOK, ifaceVars
  <1>11. CASE TaskPoll(t)
    <2>1. call[t] \in Calls[t] /\ UNCHANGED <<prevPipeTaskOwner, call, hand, queue>>
          /\ timeout' = [timeout EXCEPT ![t] = timeout[t] - 1]
      BY <1>3, <1>11 DEF TaskPoll, CallInv, InCall, TaskTypeOK
    <2>2. /\ IpcTypeOK' /\ msIn' \in [Tasks -> Nat]
          /\ pc' = [pc EXCEPT ![t] = "polling"] \/ pc' = [pc EXCEPT ![t] = "again"]
      BY <1>11, BeginDelayTypes DEF TaskPoll, TaskPCs
    <2>3. pc' \in [Tasks -> TaskPCs] /\ CallInv'
      BY <2>1, <2>2, TaskMoves DEF TaskPCs
    <2> QED
      BY <1>3, <2>1, <2>2, <2>3 DEF TaskTypeOK
  <1>12. CASE TaskAck(t)
    <2>1. call[t] \in Call /\ call[t].site \in Sites
      BY <1>3, <1>12 DEF TaskAck, CallInv, InCall, Call
    <2>2. IpcTypeOK'
      BY <1>3, <1>12, <2>1, AcknowledgeType DEF TaskAck
    <2>3. /\ \E p \in {"mayProcess", "app"} : pc' = [pc EXCEPT ![t] = p]
          /\ call' = [call EXCEPT ![t] = NoCall] /\ timeout' = [timeout EXCEPT ![t] = 0]
          /\ hand' = [hand EXCEPT ![t] = NoMid]
          /\ UNCHANGED <<prevPipeTaskOwner, msIn, queue>>
      BY <1>12 DEF TaskAck, GoTask
    <2>4. /\ call' \in [Tasks -> Call \cup {NoCall}] /\ timeout' \in [Tasks -> Int]
          /\ hand' \in [Tasks -> Mids \cup {NoMid}]
      BY <1>3, <2>3 DEF TaskTypeOK
    <2>5. pc' \in [Tasks -> TaskPCs] /\ CallInv'
      BY <1>3, <2>3, TaskMoves DEF TaskPCs, InCall, TaskTypeOK
    <2> QED
      BY <1>3, <2>2, <2>3, <2>4, <2>5 DEF TaskTypeOK
  <1>13. CASE TaskKeepWaiting(t)
    <2>1. IpcTypeOK' /\ UNCHANGED <<prevPipeTaskOwner, taskVars, queue>>
      BY <1>3, <1>13, KeepWaitingType DEF TaskKeepWaiting
    <2> QED
      BY <1>3, <2>1, UnchangedTask
  <1>14. CASE TaskContinue(t)
    <2>1. IpcTypeOK' /\ UNCHANGED <<prevPipeTaskOwner, call, timeout, hand, queue>>
      BY <1>3, <1>14, ContinueType DEF TaskContinue
    <2>2. msIn' \in [Tasks -> Nat]
      <3>1. msIn' = msIn \/ msIn' = [msIn EXCEPT ![t] = 0]
        BY <1>14 DEF TaskContinue
      <3> QED
        BY <1>3, <3>1 DEF TaskTypeOK
    <2>3. /\ pc[t] \in {"delaying", "mayProcess"} => pc' = [pc EXCEPT ![t] = "app"]
          /\ pc[t] = "polling" => pc' = [pc EXCEPT ![t] = "again"]
          /\ pc[t] = "mayComplete" => pc' = [pc EXCEPT ![t] = "recv"]
          /\ pc[t] \in {"delaying", "mayProcess", "polling", "mayComplete"}
      BY <1>14 DEF TaskContinue, GoTask
    <2>4. pc[t] \in {"polling", "mayComplete"} => call[t] \in Calls[t]
      BY <1>3 DEF CallInv, InCall
    <2>5. pc' \in [Tasks -> TaskPCs] /\ CallInv'
      BY <2>1, <2>3, <2>4, TaskMoves DEF TaskPCs, InCall
    <2> QED
      BY <1>3, <2>1, <2>2, <2>5 DEF TaskTypeOK
  <1> QED
    BY <1>5, <1>6, <1>7, <1>8, <1>9, <1>10, <1>11, <1>12, <1>13, <1>14 DEF TaskStep

LEMMA EnvironmentTypeInv == ASSUME TypeInv, Environment PROVE TypeInv'
  <1> USE InterfaceAssumption, SimAssumption
  <1>1. CASE MainTimer
    <2>0. ii \in Tasks
      BY <1>1 DEF MainTimer, TypeInv, TypeOK, MainTypeOK, MainInv, Tasks
    <2>1. cv' \in [Tasks -> SUBSET {"main", "task"}]
      BY <1>1, <2>0 DEF MainTimer, Wakeup, TypeInv, TypeOK, IfaceTypeOK, IpcTypeOK
    <2>2. IfaceTypeOK'
      BY <1>1, <2>1 DEF MainTimer, TypeInv, TypeOK, IfaceTypeOK, IpcTypeOK, eventVars
    <2>3. MainTypeOK' /\ MainInv'
      BY <1>1 DEF MainTimer, GoMain, MainPCs, TypeInv, TypeOK, MainTypeOK, MainInv
    <2> QED
      BY <1>1, <2>2, <2>3, UnchangedSch, UnchangedTask DEF MainTimer, TypeInv, TypeOK
  <1>2. ASSUME NEW t \in Tasks, NEW thread \in {"main", "task"}, Spurious(t, thread)
        PROVE  TypeInv'
    <2>1. cv' \in [Tasks -> SUBSET {"main", "task"}]
      BY <1>2 DEF Spurious, Wakeup, TypeInv, TypeOK, IfaceTypeOK, IpcTypeOK
    <2>2. IfaceTypeOK'
      BY <1>2, <2>1 DEF Spurious, TypeInv, TypeOK, IfaceTypeOK, IpcTypeOK, eventVars
    <2> QED
      BY <1>2, <2>2, UnchangedMain, UnchangedSch, UnchangedTask DEF Spurious, TypeInv, TypeOK
  <1>3. ASSUME NEW p \in Pipes, NEW mid \in Mids, Publish(p, mid) PROVE TypeInv'
    <2>1. queue' \in [Pipes -> Seq(Mids)]
      BY <1>3 DEF Publish, Deliver, TypeInv, TypeOK
    <2> QED
      BY <1>3, <2>1, UnchangedIface, UnchangedMain, UnchangedSch, UnchangedTask
         DEF Publish, TypeInv, TypeOK
  <1>4. ASSUME NEW t \in Tasks, StopApp(t) PROVE TypeInv'
    <2>1. IfaceTypeOK'
      BY <1>4, UnchangedIpc DEF StopApp, TypeInv, TypeOK, IfaceTypeOK, eventVars
    <2> QED
      BY <1>4, <2>1, UnchangedMain, UnchangedSch, UnchangedTask DEF StopApp, TypeInv, TypeOK
  <1>5. CASE Exit
    BY <1>5, UnchangedIface, UnchangedMain, UnchangedSch, UnchangedTask DEF Exit, TypeInv, TypeOK
  <1>6. \A pm \in Unsolicited : pm[1] \in Pipes /\ pm[2] \in Mids
    OBVIOUS
  <1> QED
    BY <1>1, <1>2, <1>3, <1>4, <1>5, <1>6 DEF Environment

LEMMA NextTypeInv == TypeInv /\ [Next]_vars => TypeInv'
  <1> SUFFICES ASSUME TypeInv, [Next]_vars PROVE TypeInv'
    OBVIOUS
  <1>1. CASE UNCHANGED vars
    BY <1>1, UnchangedIface, UnchangedMain, UnchangedSch, UnchangedTask DEF vars, TypeInv, TypeOK
  <1> QED
    BY <1>1, MainTypeInv, SchTypeInv, TaskTypeInv, EnvironmentTypeInv DEF Next

THEOREM TypeInvariance == Spec => []TypeInv
  BY InitTypeInv, NextTypeInv, PTL DEF Spec

\* Every variable keeps its type, whatever the tasks do.
THEOREM TypeCorrect == Spec => []TypeOK
  <1>1. TypeInv => TypeOK
    BY DEF TypeInv
  <1> QED
    BY <1>1, TypeInvariance, PTL

------------------------------------------------------------------------------
\* The hand-over

LEMMA NextOneBaton ==
  ASSUME TypeInv, OneBaton, [Next]_vars
  PROVE  OneBaton'
  <1>0. isMainCompleteTrigger \in Nat /\ triggerMain \in Nat
    BY DEF TypeInv, TypeOK, IfaceTypeOK
  <1>1. CASE UNCHANGED <<eventVars, mainVars, schVars>>
    BY <1>1 DEF OneBaton, eventVars, mainVars, schVars
  <1>2. CASE MainStep
    <2>1. CASE MainRead
      BY <1>0, <2>1 DEF MainRead, Consume, MainDone, GoMain, schVars, OneBaton
    <2>2. CASE MainTrigger
      BY <1>0, <2>2 DEF MainTrigger, TriggerMainApp, GoMain, schVars, OneBaton
    <2>3. CASE UNCHANGED <<eventVars, schVars>> /\ mainPc # "read" /\ mainPc' # "read"
      BY <2>3 DEF OneBaton, eventVars, schVars
    <2> QED
      BY <1>2, <2>1, <2>2, <2>3 DEF MainStep, MainTestNext, MainTestWait, MainWoken, MainWaitOn,
         MainGiveUp, MainCycle, MainUpdate, MainDone, GoMain, ifaceVars
  <1>3. CASE SchStep
    <2>1. CASE SchWait
      BY <1>0, <2>1 DEF SchWait, CFSWaitForTrigger, Consume, GoSch, mainVars, OneBaton
    <2>2. CASE SchNext
      BY <1>0, <2>2 DEF SchNext, NotifyMain, GoSch, mainVars, eventVars, OneBaton
    <2>3. CASE UNCHANGED <<eventVars, mainVars>> /\ schPc # "wait" /\ schPc' # "wait"
      BY <2>3 DEF OneBaton, eventVars, mainVars
    <2> QED
      BY <1>3, <2>1, <2>2, <2>3 DEF SchStep, SchInit, SchTable, SchOwner, SchMark, SchXmit,
         SchSpin, SchCheck, GoSch, ifaceVars
  <1>4. CASE MainTimer
    BY <1>4 DEF MainTimer, GoMain, schVars, eventVars, OneBaton
  <1>5. ASSUME NEW t \in Tasks, TaskStep(t) PROVE UNCHANGED <<eventVars, mainVars, schVars>>
    BY <1>5 DEF TaskStep, TaskQueueGet, TaskDelay, TaskGetAgain, TaskReceive, TaskExpire,
       TaskEmpty, TaskPoll, TaskAck, TaskKeepWaiting, TaskContinue, ifaceVars
  <1>6. Environment => MainTimer \/ UNCHANGED <<eventVars, mainVars, schVars>>
    BY DEF Environment, Spurious, Publish, StopApp, Exit, ifaceVars
  <1> QED
    BY <1>1, <1>2, <1>3, <1>4, <1>5, <1>6 DEF Next, vars, ifaceVars

\* The main thread and the SCH thread take turns, for good: no trigger is ever
\* merged with another in an eventfd, and neither works while the other does.
THEOREM OneBatonHolds == Spec => []OneBaton
  <1>1. Init => OneBaton
    BY DEF Init, IfaceInit, OneBaton
  <1> QED
    BY <1>1, TypeInvariance, NextOneBaton, PTL DEF Spec

------------------------------------------------------------------------------
\* Wall-clock scheduling: the frame barrier

\* Nothing of the scheduler's is left to be done by t.
Settled(t) ==
  \/ state[t] = "TASK_DELAY"
  \/ /\ triggeredMIDs[t] = <<>>
     /\ WaitSlices = -1 => stacks[t] = <<>>

\* The tasks the main thread has been through in this cycle.
Passed == IF mainPc = "idle" THEN Tasks ELSE {t \in Tasks : t < ii}

\* A task in TASK_DELAY is in the waiting loop of addTaskDelay ...
DelayedWaits == \A t \in Tasks : state[t] = "TASK_DELAY" => pc[t] \in {"delaying", "polling"}

\* ... the tasks the main thread has gone through stay settled ...
TasksPassed ==
  mainPc \in {"test", "wait", "expired", "idle"} /\ ~exitCmd /\ WaitSlices # 0 =>
    \A t \in Passed : appRunning[t] => Settled(t)

\* ... and a wait for good has no end.
WaitForGood == mainPc \in {"wait", "expired"} /\ WaitSlices = -1 => remainingTime = -1

BarrierInv == DelayedWaits /\ TasksPassed /\ WaitForGood

LEMMA NextDelayedWaits ==
  ASSUME TypeInv, DelayedWaits, [Next]_vars
  PROVE  DelayedWaits'
  <1> USE DEF DelayedWaits
  <1>0. state \in [Tasks -> TaskState] /\ pc \in [Tasks -> TaskPCs]
    BY DEF TypeInv, TypeOK, TaskTypeOK, IfaceTypeOK, IpcTypeOK
  <1>1. CASE UNCHANGED <<state, pc>>
    BY <1>1
  <1>2. ASSUME NEW t \in Tasks, NEW s \in TaskState \ {"TASK_DELAY"},
               SetState(t, s), UNCHANGED pc
        PROVE  DelayedWaits'
    BY <1>0, <1>2 DEF SetState
  <1>3. CASE MainStep
    <2>1. CASE MainUpdate
      <3>1. ii \in Tasks
        BY <2>1, InterfaceAssumption DEF MainUpdate, TypeInv, TypeOK, MainTypeOK, Tasks
      <3>2. UNCHANGED state \/ SetState(ii, "TASK_CONTINUE")
        BY <2>1 DEF MainUpdate, UpdateTaskTime
      <3> QED
        BY <1>1, <1>2, <2>1, <3>1, <3>2 DEF MainUpdate, taskVars, TaskState
    <2> QED
      BY <1>1, <1>3, <2>1 DEF MainStep, MainRead, MainTestNext, MainTestWait, MainWoken, MainWaitOn,
         MainGiveUp, MainCycle, MainTrigger, ifaceVars, ipcVars, taskVars
  <1>4. CASE SchStep
    <2>1. CASE SchSpin \/ SchCheck
      <3>1. schTask \in Tasks
        BY DEF TypeInv, TypeOK, SchTypeOK
      <3>2. UNCHANGED state \/ SetState(schTask, "TASK_CONTINUE")
            \/ SetState(schTask, "TASK_COMPLETE")
        BY <2>1 DEF SchSpin, SchCheck, Release, WriteOff
      <3> QED
        BY <1>1, <1>2, <2>1, <3>1, <3>2 DEF SchSpin, SchCheck, taskVars, TaskState
    <2> QED
      BY <1>1, <1>4, <2>1 DEF SchStep, SchInit, SchWait, SchTable, SchOwner, SchMark, SchXmit,
         SchNext, ifaceVars, ipcVars, taskVars
  <1>5. ASSUME NEW t \in Tasks, TaskStep(t) PROVE DelayedWaits'
    <2>1. ASSUME NEW c, BeginReceive(t, c) PROVE DelayedWaits'
      <3>1. /\ \E s \in {"TASK_COMPLETE", "TASK_RUNNING"} : state' = [state EXCEPT ![t] = s]
            /\ \E p \in {"mayComplete", "recv"} : pc' = [pc EXCEPT ![t] = p]
        BY <2>1 DEF BeginReceive, MarkPipeAsComplete, SetState, GoTask
      <3> QED
        BY <1>0, <3>1
    <2>2. CASE TaskGetAgain(t) \/ \E c \in Calls[t] : TaskQueueGet(t, c)
      BY <2>1, <2>2 DEF TaskGetAgain, TaskQueueGet
    <2>3. ASSUME NEW ms, NEW at \in {"delaying", "polling"}, NEW after,
                 BeginDelay(t, ms, at, after), pc[t] \notin {"delaying", "polling"}
          PROVE  DelayedWaits'
      <3>1. \/ UNCHANGED state /\ pc' = [pc EXCEPT ![t] = after]
            \/ state' = [state EXCEPT ![t] = "TASK_DELAY"] /\ pc' = [pc EXCEPT ![t] = at]
        BY <2>3 DEF BeginDelay, AddTaskDelay, AddTaskDelaySkipped, SetState, GoTask, ipcVars
      <3> QED
        BY <1>0, <2>3, <3>1
    <2>4. ASSUME NEW ms \in Delays[t], TaskDelay(t, ms) PROVE DelayedWaits'
      BY <2>3, <2>4 DEF TaskDelay
    <2>5. CASE TaskPoll(t)
      BY <2>3, <2>5 DEF TaskPoll
    <2>6. CASE TaskReceive(t) \/ TaskExpire(t) \/ TaskEmpty(t)
      <3>1. UNCHANGED state /\ pc[t] \in {"recv", "expired"}
            /\ \E p \in TaskPCs : pc' = [pc EXCEPT ![t] = p]
        BY <2>6 DEF TaskReceive, TaskExpire, TaskEmpty, GoTask, ifaceVars, ipcVars, TaskPCs
      <3> QED
        BY <1>0, <3>1
    <2>7. CASE TaskAck(t) \/ TaskContinue(t)
      <3>1. /\ \E s \in {"MSG_RCV", "TASK_RUNNING"} : state' = [state EXCEPT ![t] = s]
            /\ \E p \in TaskPCs : pc' = [pc EXCEPT ![t] = p]
        BY <2>7 DEF TaskAck, TaskContinue, AcknowledgePipeTrigger, Continue, ContinueAfterDelay,
           SetState, GoTask, TaskPCs
      <3> QED
        BY <1>0, <3>1
    <2>8. CASE TaskKeepWaiting(t)
      BY <1>1, <2>8 DEF TaskKeepWaiting, KeepWaiting, taskVars
    <2> QED
      BY <1>5, <2>2, <2>4, <2>5, <2>6, <2>7, <2>8 DEF TaskStep
  <1>6. CASE Environment
    BY <1>1, <1>6 DEF Environment, MainTimer, Spurious, Publish, StopApp, Exit, ifaceVars, ipcVars,
       taskVars
  <1>7. CASE UNCHANGED vars
    BY <1>1, <1>7 DEF vars, ifaceVars, ipcVars, taskVars
  <1> QED
    BY <1>3, <1>4, <1>5, <1>6, <1>7 DEF Next

\* Outside perfect mode a task can only settle by itself: with nothing triggered it
\* receives nothing of the scheduler's, and a delayed one is waiting.
LEMMA TaskKeepsSettled ==
  ASSUME TypeInv, DelayedWaits, ~PerfectMode,
         NEW t \in Tasks, TaskStep(t), appRunning[t], Settled(t)
  PROVE  Settled(t)'
  <1> USE DEF Settled
  <1>0. /\ state \in [Tasks -> TaskState] /\ triggeredMIDs \in [Tasks -> Seq(Mids)]
        /\ stacks \in [Tasks -> Seq(Sites)]
    BY DEF TypeInv, TypeOK, IfaceTypeOK, IpcTypeOK
  <1>1. CASE UNCHANGED <<state, triggeredMIDs, stacks>>
    BY <1>1
  <1>2. CASE state[t] = "TASK_DELAY"
    <2>1. pc[t] \in {"delaying", "polling"} /\ ~MayContinue(t)
      BY <1>2 DEF DelayedWaits, MayContinue
    <2>2. TaskKeepWaiting(t)
      BY <2>1 DEF TaskStep, TaskQueueGet, TaskDelay, TaskGetAgain, TaskReceive, TaskExpire,
         TaskEmpty, TaskPoll, TaskAck, TaskContinue, ContinueAfterDelay, Continue
    <2> QED
      BY <1>1, <2>2 DEF TaskKeepWaiting, KeepWaiting
  <1>3. CASE state[t] # "TASK_DELAY"
    <2>0. /\ triggeredMIDs[t] = <<>>
          /\ WaitSlices = -1 => stacks[t] = <<>>
          /\ \A mid : ~Contains(triggeredMIDs[t], mid)
      BY <1>3 DEF Contains
    <2>1. ASSUME NEW c, BeginReceive(t, c) PROVE Settled(t)'
      <3>1. UNCHANGED triggeredMIDs
        BY <2>0, <2>1 DEF BeginReceive, MarkPipeAsComplete, FinishMessage
      <3>2. stacks[t] = <<>> => stacks'[t] = <<>>
        <4>1. stacks[t] = <<>> => RemoveFirst(stacks[t], c.site) = <<>>
          BY DEF RemoveFirst
        <4> QED
          BY <1>0, <2>1, <4>1 DEF BeginReceive, MarkPipeAsComplete, FinishSite
      <3> QED
        BY <2>0, <3>1, <3>2
    <2>2. CASE TaskGetAgain(t) \/ \E c \in Calls[t] : TaskQueueGet(t, c)
      BY <2>1, <2>2 DEF TaskGetAgain, TaskQueueGet
    <2>3. CASE TaskReceive(t) \/ TaskExpire(t) \/ TaskEmpty(t) \/ TaskKeepWaiting(t)
      BY <1>1, <2>3 DEF TaskReceive, TaskExpire, TaskEmpty, TaskKeepWaiting, KeepWaiting,
         ifaceVars, ipcVars
    <2>4. CASE TaskPoll(t) \/ (\E ms \in Delays[t] : TaskDelay(t, ms)) \/ TaskContinue(t)
      BY <2>0, <2>4 DEF TaskPoll, TaskDelay, TaskContinue, BeginDelay, AddTaskDelay,
         AddTaskDelaySkipped, Continue, ContinueAfterDelay, ipcVars
    <2>5. CASE TaskAck(t)
      BY <2>0, <2>5 DEF TaskAck, AcknowledgePipeTrigger
    <2> QED
      BY <2>2, <2>3, <2>4, <2>5 DEF TaskStep
  <1> QED
    BY <1>2, <1>3

\* One task's step leaves the others as they are.
LEMMA TaskLeavesOthers ==
  ASSUME TypeInv, NEW t \in Tasks, TaskStep(t), NEW u \in Tasks \ {t}
  PROVE  /\ state'[u] = state[u] /\ triggeredMIDs'[u] = triggeredMIDs[u]
         /\ stacks'[u] = stacks[u] /\ acknowledgedMIDs'[u] = acknowledgedMIDs[u]
  <1>0. /\ state \in [Tasks -> TaskState] /\ triggeredMIDs \in [Tasks -> Seq(Mids)]
        /\ stacks \in [Tasks -> Seq(Sites)] /\ acknowledgedMIDs \in [Tasks -> Seq(Mids)]
    BY DEF TypeInv, TypeOK, IfaceTypeOK, IpcTypeOK
  <1>1. ASSUME NEW c, BeginReceive(t, c)
        PROVE  /\ state'[u] = state[u] /\ triggeredMIDs'[u] = triggeredMIDs[u]
               /\ stacks'[u] = stacks[u] /\ acknowledgedMIDs'[u] = acknowledgedMIDs[u]
    BY <1>0, <1>1 DEF BeginReceive, MarkPipeAsComplete, FinishMessage, FinishSite, SetState
  <1>2. ASSUME NEW ms, NEW at, NEW after, BeginDelay(t, ms, at, after)
        PROVE  /\ state'[u] = state[u] /\ triggeredMIDs'[u] = triggeredMIDs[u]
               /\ stacks'[u] = stacks[u] /\ acknowledgedMIDs'[u] = acknowledgedMIDs[u]
    BY <1>0, <1>2 DEF BeginDelay, AddTaskDelay, AddTaskDelaySkipped, SetState, ipcVars
  <1>3. CASE TaskAck(t)
    BY <1>0, <1>3 DEF TaskAck, AcknowledgePipeTrigger, SetState
  <1>4. CASE TaskContinue(t)
    BY <1>0, <1>4 DEF TaskContinue, Continue, ContinueAfterDelay, SetState
  <1>5. CASE TaskReceive(t) \/ TaskExpire(t) \/ TaskEmpty(t) \/ TaskKeepWaiting(t)
    BY <1>5 DEF TaskReceive, TaskExpire, TaskEmpty, TaskKeepWaiting, KeepWaiting, ifaceVars, ipcVars
  <1> QED
    BY <1>1, <1>2, <1>3, <1>4, <1>5 DEF TaskStep, TaskQueueGet, TaskGetAgain, TaskDelay, TaskPoll

\* While the main thread is between its read and the next trigger, the SCH thread
\* waits for that trigger and cannot go on.
LEMMA SchAsleep ==
  ASSUME TypeInv, OneBaton, mainPc # "read"
  PROVE  ~SchStep
  <1>0. isMainCompleteTrigger \in Nat /\ triggerMain \in Nat
    BY DEF TypeInv, TypeOK, IfaceTypeOK
  <1>1. schPc = "wait" /\ triggerMain = 0
    BY <1>0 DEF OneBaton
  <1> QED
    BY <1>1 DEF SchStep, SchInit, SchWait, SchTable, SchOwner, SchMark, SchXmit, SchNext,
       SchSpin, SchCheck, CFSWaitForTrigger, Consume

LEMMA NextBarrierInv ==
  ASSUME TypeInv, OneBaton, BarrierInv, ~PerfectMode, [Next]_vars
  PROVE  BarrierInv'
  <1> USE InterfaceAssumption, SimAssumption
  <1>0. DelayedWaits /\ TasksPassed /\ WaitForGood
    BY DEF BarrierInv
  <1>1. DelayedWaits'
    BY <1>0, NextDelayedWaits
  <1>2. /\ ii \in 0..NumTasks /\ exitCmd \in BOOLEAN /\ remainingTime \in Nat \cup {-1}
        /\ mainPc \in {"wait", "expired"} => ii < NumTasks
        /\ triggeredMIDs \in [Tasks -> Seq(Mids)] /\ appRunning \in [Tasks -> BOOLEAN]
    BY DEF TypeInv, TypeOK, MainTypeOK, MainInv, IfaceTypeOK, IpcTypeOK
  <1>3. ASSUME UNCHANGED <<mainPc, ii, remainingTime, state, triggeredMIDs, stacks>>,
               exitCmd => exitCmd', \A t \in Tasks : appRunning'[t] => appRunning[t]
        PROVE  TasksPassed' /\ WaitForGood'
    <2>1. Passed' = Passed /\ Passed \subseteq Tasks /\ \A t \in Tasks : Settled(t)' = Settled(t)
      BY <1>3 DEF Passed, Settled
    <2> QED
      BY <1>0, <1>2, <1>3, <2>1 DEF TasksPassed, WaitForGood
  <1>4. ASSUME MainStep PROVE TasksPassed' /\ WaitForGood'
    <2>2. CASE MainRead
      <3>1. mainPc' = "test" /\ ii' = 0
        BY <2>2 DEF MainRead, GoMain
      <3>2. Passed' = {}
        BY <3>1 DEF Passed, Tasks
      <3> QED
        BY <3>1, <3>2 DEF TasksPassed, WaitForGood
    <2>3. CASE MainTestNext
      <3>1. UNCHANGED ifaceVars /\ UNCHANGED exitCmd /\ mainPc = "test" /\ mainPc' \in {"test", "idle"}
        BY <2>3 DEF MainTestNext, MainDone, GoMain
      <3>2. \A t \in Tasks : Settled(t)' = Settled(t)
        BY <3>1 DEF Settled, ifaceVars, ipcVars
      <3>3. ~exitCmd /\ WaitSlices # 0 => \A t \in Passed' : t \in Passed \/ Settled(t)
        <4>1. CASE ii = NumTasks /\ mainPc' = "idle"
          <5>1. Passed = Tasks /\ Passed' = Tasks
            BY <3>1, <4>1 DEF Passed, Tasks
          <5> QED
            BY <5>1
        <4>2. CASE mainPc' = "test" /\ ii' = ii + 1 /\ ii < NumTasks /\ (Quiet(ii) \/ WaitSlices = 0)
          <5>1. \A t \in Passed' : t \in Passed \/ t = ii
            BY <1>2, <3>1, <4>2 DEF Passed, Tasks
          <5>2. Quiet(ii) => Settled(ii)
            BY DEF Quiet, NothingToDo, Settled
          <5> QED
            BY <4>2, <5>1, <5>2
        <4> QED
          BY <2>3, <4>1, <4>2 DEF MainTestNext, MainDone, GoMain
      <3>4. Passed' \subseteq Tasks
        BY DEF Passed
      <3> QED
        BY <1>0, <3>1, <3>2, <3>3, <3>4 DEF TasksPassed, WaitForGood, ifaceVars
    <2>4. CASE MainTestWait \/ MainWoken \/ MainWaitOn
      <3>1. /\ UNCHANGED <<ii, exitCmd, appRunning, state, triggeredMIDs, stacks>>
            /\ mainPc \in {"test", "wait", "expired"} /\ mainPc' \in {"test", "wait"}
        BY <2>4 DEF MainTestWait, MainWoken, MainWaitOn, GoMain, ifaceVars, ipcVars
      <3>2. Passed' = Passed /\ Passed \subseteq Tasks /\ \A t \in Tasks : Settled(t)' = Settled(t)
        BY <3>1 DEF Passed, Settled
      <3>3. WaitForGood'
        BY <1>0, <1>2, <2>4 DEF MainTestWait, MainWoken, MainWaitOn, GoMain, WaitForGood
      <3> QED
        BY <1>0, <3>1, <3>2, <3>3 DEF TasksPassed
    <2>5. CASE MainGiveUp
      <3>1. UNCHANGED <<exitCmd, appRunning, state, stacks>> /\ mainPc = "expired" /\ mainPc' = "test"
            /\ ii' = ii + 1
        BY <2>5 DEF MainGiveUp, GoMain
      <3>2. ~exitCmd => triggeredMIDs' = [triggeredMIDs EXCEPT ![ii] = <<>>] /\ WaitSlices # -1
        BY <1>0, <2>5, <3>1 DEF MainGiveUp, GiveUp, WaitForGood
      <3>3. ii \in Tasks /\ Passed \subseteq Tasks /\ Passed' = Passed \cup {ii}
        <4>1. ii \in Tasks
          BY <1>2, <3>1 DEF Tasks
        <4>2. Passed = {t \in Tasks : t < ii} /\ Passed' = {t \in Tasks : t < ii + 1}
          BY <3>1 DEF Passed
        <4>3. \A t \in Tasks : t < ii + 1 <=> (t < ii \/ t = ii)
          BY <1>2 DEF Tasks
        <4> QED
          BY <4>1, <4>2, <4>3
      <3>4. ASSUME ~exitCmd
            PROVE  \A t \in Passed' : t = ii \/ Settled(t) => Settled(t)'
        <4>1. \A t \in Tasks : t = ii \/ triggeredMIDs[t] = <<>> => triggeredMIDs'[t] = <<>>
          BY <1>2, <3>2, <3>3, <3>4
        <4> QED
          BY <3>1, <3>2, <3>3, <3>4, <4>1 DEF Settled
      <3> QED
        BY <1>0, <3>1, <3>3, <3>4 DEF TasksPassed, WaitForGood
    <2>6. CASE MainCycle \/ MainUpdate \/ MainTrigger
      <3>1. mainPc' \in {"done", "update", "read"}
        BY <2>6 DEF MainCycle, MainUpdate, MainTrigger, GoMain
      <3> QED
        BY <3>1 DEF TasksPassed, WaitForGood
    <2> QED
      BY <1>4, <2>2, <2>3, <2>4, <2>5, <2>6 DEF MainStep
  <1>5. ASSUME SchStep PROVE TasksPassed' /\ WaitForGood'
    <2>1. mainPc = "read" /\ mainPc' = "read"
      BY <1>5, SchAsleep DEF SchStep, SchInit, SchWait, SchTable, SchOwner, SchMark, SchXmit,
         SchNext, SchSpin, SchCheck, mainVars
    <2> QED
      BY <2>1 DEF TasksPassed, WaitForGood
  <1>6. ASSUME NEW t \in Tasks, TaskStep(t) PROVE TasksPassed' /\ WaitForGood'
    <2>1. UNCHANGED <<mainPc, ii, remainingTime, exitCmd, appRunning>>
      BY <1>6 DEF TaskStep, TaskQueueGet, TaskDelay, TaskGetAgain, TaskReceive, TaskExpire,
         TaskEmpty, TaskPoll, TaskAck, TaskKeepWaiting, TaskContinue, ifaceVars, mainVars
    <2>2. ASSUME NEW u \in Tasks, appRunning[u], Settled(u) PROVE Settled(u)'
      <3>1. CASE u = t
        BY <1>0, <1>6, <2>2, <3>1, TaskKeepsSettled
      <3>2. CASE u # t
        BY <1>6, <2>2, <3>2, TaskLeavesOthers DEF Settled
      <3> QED
        BY <3>1, <3>2
    <2>3. Passed' = Passed /\ Passed \subseteq Tasks
      BY <2>1 DEF Passed
    <2> QED
      BY <1>0, <2>1, <2>2, <2>3 DEF TasksPassed, WaitForGood
  <1>7. ASSUME Environment PROVE TasksPassed' /\ WaitForGood'
    <2>1. CASE MainTimer
      <3>1. /\ UNCHANGED <<ii, remainingTime, exitCmd, appRunning, state, triggeredMIDs, stacks>>
            /\ mainPc = "wait" /\ mainPc' = "expired"
        BY <2>1 DEF MainTimer, GoMain
      <3>2. Passed' = Passed /\ Passed \subseteq Tasks /\ \A t \in Tasks : Settled(t)' = Settled(t)
        BY <3>1 DEF Passed, Settled
      <3> QED
        BY <1>0, <3>1, <3>2 DEF TasksPassed, WaitForGood
    <2>2. CASE Environment /\ ~MainTimer
      <3>1. UNCHANGED <<mainPc, ii, remainingTime, state, triggeredMIDs, stacks>>
        BY <2>2 DEF Environment, Spurious, Publish, StopApp, Exit, ifaceVars, ipcVars, mainVars
      <3>2. (exitCmd => exitCmd') /\ \A t \in Tasks : appRunning'[t] => appRunning[t]
        <4>1. ASSUME NEW u \in Tasks, StopApp(u) PROVE \A t \in Tasks : appRunning'[t] => appRunning[t]
          BY <1>2, <4>1 DEF StopApp
        <4>2. UNCHANGED appRunning \/ \E u \in Tasks : StopApp(u)
          BY <2>2 DEF Environment, Spurious, Publish, Exit, ifaceVars
        <4>3. UNCHANGED exitCmd \/ exitCmd' = TRUE
          BY <2>2 DEF Environment, Spurious, Publish, StopApp, Exit
        <4> QED
          BY <4>1, <4>2, <4>3
      <3> QED
        BY <1>3, <3>1, <3>2
    <2> QED
      BY <1>7, <2>1, <2>2
  <1>8. ASSUME UNCHANGED vars PROVE TasksPassed' /\ WaitForGood'
    BY <1>3, <1>8 DEF vars, ifaceVars, ipcVars, mainVars
  <1> QED
    <2>1. TasksPassed' /\ WaitForGood'
      BY <1>4, <1>5, <1>6, <1>7, <1>8 DEF Next
    <2> QED
      BY <1>1, <2>1 DEF BarrierInv

\* The barrier without perfect scheduling, whatever the timers, the spurious wake-ups
\* and the apps do.
LEMMA ClockedFrameBarrier ==
  ASSUME ~PerfectMode
  PROVE  Spec => []FrameBarrier
  <1>1. Init => BarrierInv
    BY DEF Init, IfaceInit, BarrierInv, DelayedWaits, TasksPassed, WaitForGood
  <1>2. BarrierInv => FrameBarrier
    BY DEF BarrierInv, TasksPassed, FrameBarrier, Passed, Settled
  <1>3. TypeInv /\ OneBaton /\ BarrierInv /\ [Next]_vars => BarrierInv'
    BY NextBarrierInv
  <1> QED
    BY <1>1, <1>2, <1>3, TypeInvariance, OneBatonHolds, PTL DEF Spec

------------------------------------------------------------------------------
\* Call sites

\* Once OS_QueueGet has been through markPipeAsComplete, its call site is not listed
\* until it acknowledges what it has received.
SiteInv ==
  \A t \in Tasks :
    /\ IsInjective(stacks[t])
    /\ pc[t] \in {"recv", "expired", "ack", "mayComplete"} => ~Contains(stacks[t], call[t].site)

LEMMA TaskSiteInv ==
  ASSUME TypeInv, SiteInv, NEW t \in Tasks, TaskStep(t)
  PROVE  SiteInv'
  <1>0. /\ stacks \in [Tasks -> Seq(Sites)] /\ pc \in [Tasks -> TaskPCs]
        /\ call \in [Tasks -> Call \cup {NoCall}]
    BY DEF TypeInv, TypeOK, TaskTypeOK, IfaceTypeOK, IpcTypeOK
  <1>1. ASSUME /\ stacks' = [stacks EXCEPT ![t] = stacks'[t]]
               /\ \E p \in TaskPCs : pc' = [pc EXCEPT ![t] = p]
               /\ UNCHANGED call \/ \E c \in Call \cup {NoCall} : call' = [call EXCEPT ![t] = c],
               IsInjective(stacks'[t]),
               pc'[t] \in {"recv", "expired", "ack", "mayComplete"}
                 => ~Contains(stacks'[t], call'[t].site)
        PROVE  SiteInv'
    <2>1. \A u \in Tasks \ {t} : stacks'[u] = stacks[u] /\ pc'[u] = pc[u] /\ call'[u] = call[u]
      BY <1>0, <1>1
    <2> QED
      BY <1>1, <2>1 DEF SiteInv
  <1>2. ASSUME NEW c \in Call, BeginReceive(t, c), call'[t] = c,
               UNCHANGED call \/ call' = [call EXCEPT ![t] = c]
        PROVE  SiteInv'
    <2>1. stacks' = [stacks EXCEPT ![t] = RemoveFirst(stacks[t], c.site)]
          /\ \E p \in {"mayComplete", "recv"} : pc' = [pc EXCEPT ![t] = p]
      BY <1>2 DEF BeginReceive, MarkPipeAsComplete, FinishSite, GoTask
    <2>2. IsInjective(RemoveFirst(stacks[t], c.site)) /\ ~Contains(RemoveFirst(stacks[t], c.site), c.site)
      BY <1>0, RemoveFirstInjective DEF SiteInv
    <2>3. stacks'[t] = RemoveFirst(stacks[t], c.site)
      BY <1>0, <2>1
    <2> QED
      BY <1>1, <1>2, <2>1, <2>2, <2>3 DEF TaskPCs
  <1>3. ASSUME UNCHANGED <<stacks, call>>,
               \/ UNCHANGED pc
               \/ \E p \in {"app", "again", "delaying", "polling"} : pc' = [pc EXCEPT ![t] = p]
               \/ /\ pc[t] \in {"recv", "mayComplete"}
                  /\ \E p \in TaskPCs : pc' = [pc EXCEPT ![t] = p]
        PROVE  SiteInv'
    BY <1>0, <1>3 DEF SiteInv
  <1>4. CASE \E c \in Calls[t] : TaskQueueGet(t, c)
    <2>1. PICK c \in Calls[t] : TaskQueueGet(t, c)
      BY <1>4
    <2>2. c \in Call /\ call' = [call EXCEPT ![t] = c]
      BY <2>1, SimAssumption DEF TaskQueueGet
    <2> QED
      BY <1>0, <1>2, <2>1, <2>2 DEF TaskQueueGet
  <1>5. CASE TaskGetAgain(t)
    <2>1. call[t] \in Call
      BY <1>5, SimAssumption DEF TaskGetAgain, TypeInv, CallInv, InCall
    <2> QED
      BY <1>2, <1>5, <2>1 DEF TaskGetAgain
  <1>6. CASE TaskReceive(t) \/ TaskExpire(t)
    BY <1>3, <1>6 DEF TaskReceive, TaskExpire, GoTask, ifaceVars, ipcVars, TaskPCs
  <1>7. CASE TaskEmpty(t)
    <2>1. UNCHANGED stacks /\ call' = [call EXCEPT ![t] = NoCall] /\ pc' = [pc EXCEPT ![t] = "app"]
      BY <1>7 DEF TaskEmpty, GoTask, ifaceVars, ipcVars
    <2> QED
      BY <1>0, <1>1, <2>1 DEF SiteInv, TaskPCs
  <1>8. CASE TaskPoll(t) \/ \E ms \in Delays[t] : TaskDelay(t, ms)
    BY <1>3, <1>8 DEF TaskPoll, TaskDelay, BeginDelay, AddTaskDelay, AddTaskDelaySkipped, GoTask, ipcVars
  <1>9. CASE TaskAck(t)
    <2>1. /\ call' = [call EXCEPT ![t] = NoCall]
          /\ \E p \in {"mayProcess", "app"} : pc' = [pc EXCEPT ![t] = p]
          /\ stacks' \in {stacks, [stacks EXCEPT ![t] = Append(stacks[t], call[t].site)]}
          /\ pc[t] = "ack"
      BY <1>9 DEF TaskAck, AcknowledgePipeTrigger, GoTask
    <2>2. call[t].site \in Sites
      BY <2>1, SimAssumption DEF TypeInv, CallInv, InCall, Call
    <2>3. IsInjective(Append(stacks[t], call[t].site)) /\ IsInjective(stacks[t])
      BY <1>0, <2>1, <2>2, AppendInjectiveSeq DEF SiteInv
    <2>4. stacks'[t] \in {stacks[t], Append(stacks[t], call[t].site)}
          /\ stacks' = [stacks EXCEPT ![t] = stacks'[t]]
      BY <1>0, <2>1
    <2>5. pc'[t] \in {"mayProcess", "app"}
      BY <1>0, <2>1
    <2>6. \E p \in TaskPCs : pc' = [pc EXCEPT ![t] = p]
      BY <2>1 DEF TaskPCs
    <2>7. IsInjective(stacks'[t])
      BY <2>3, <2>4
    <2> QED
      BY <1>1, <2>1, <2>4, <2>5, <2>6, <2>7
  <1>10. CASE TaskKeepWaiting(t) \/ TaskContinue(t)
    BY <1>3, <1>10 DEF TaskKeepWaiting, KeepWaiting, TaskContinue, Continue, ContinueAfterDelay,
       GoTask, taskVars, TaskPCs
  <1> QED
    BY <1>4, <1>5, <1>6, <1>7, <1>8, <1>9, <1>10 DEF TaskStep

LEMMA NextSiteInv == TypeInv /\ SiteInv /\ [Next]_vars => SiteInv'
  <1> SUFFICES ASSUME TypeInv, SiteInv, [Next]_vars PROVE SiteInv'
    OBVIOUS
  <1>1. CASE UNCHANGED <<stacks, pc, call>>
    BY <1>1 DEF SiteInv
  <1>2. MainStep \/ SchStep \/ Environment \/ UNCHANGED vars => UNCHANGED <<stacks, pc, call>>
    BY DEF MainStep, MainRead, MainTestNext, MainTestWait, MainWoken, MainWaitOn, MainGiveUp,
       MainCycle, MainUpdate, UpdateTaskTime, MainTrigger, SchStep, SchInit, SchWait, SchTable,
       SchOwner, SchMark, SchXmit, SchNext, SchSpin, SchCheck, Environment, MainTimer, Spurious,
       Publish, StopApp, Exit, vars, ifaceVars, ipcVars, taskVars
  <1> QED
    BY <1>1, <1>2, TaskSiteInv DEF Next

\* No call site is ever listed twice for a task: markPipeAsComplete removes one entry
\* only, so a second would keep the task unfinished for good.
THEOREM SitesDistinctHolds == Spec => []SitesDistinct
  <1>1. Init => SiteInv
    BY DEF Init, IfaceInit, SiteInv, IsInjective
  <1>2. SiteInv => SitesDistinct
    BY DEF SiteInv, SitesDistinct
  <1> QED
    BY <1>1, <1>2, NextSiteInv, TypeInvariance, PTL DEF Spec

------------------------------------------------------------------------------
\* Completions the main thread waits for

\* Outside perfect mode, for one task: it sleeps on its condition variable in
\* addTaskDelay only, and then as TASK_DELAY, which the main thread does not wait for.
\* So a signal of the task has nobody else to wake but the main thread.
SleepInv(t) ==
  /\ pc[t] \notin {"mayProcess", "mayComplete"}
  /\ pc[t] \in {"delaying", "polling"} => state[t] \in {"TASK_DELAY", "TASK_CONTINUE"}
  /\ "task" \in cv[t] => pc[t] \in {"delaying", "polling"} /\ state[t] = "TASK_DELAY"
  /\ "main" \in cv[t] => mainPc = "wait" /\ ii = t /\ ~Quiet(t)

WakeupInv ==
  /\ mainPc # "expired"
  /\ perfectFDMap = <<>>
  /\ schPc \notin {"spin", "check"}
  /\ \A t \in Tasks : SleepInv(t)

\* A task that signals is not asleep: the main thread is awake after it.
LEMMA SignalWakesMain ==
  ASSUME TypeInv, NEW t \in Tasks, "task" \notin cv[t], Signal(t)
  PROVE  cv'[t] = {}
  <1>1. cv \in [Tasks -> SUBSET {"main", "task"}]
    BY DEF TypeInv, TypeOK, IfaceTypeOK, IpcTypeOK
  <1>2. cv[t] = {} \/ cv[t] = {"main"}
    BY <1>1
  <1> QED
    BY <1>1, <1>2 DEF Signal

LEMMA TaskSleepInv ==
  ASSUME TypeInv, ~PerfectMode, NEW t \in Tasks, SleepInv(t), TaskStep(t)
  PROVE  SleepInv(t)'
  <1> USE DEF SleepInv
  <1>0. /\ state \in [Tasks -> TaskState] /\ pc \in [Tasks -> TaskPCs]
        /\ cv \in [Tasks -> SUBSET {"main", "task"}]
    BY DEF TypeInv, TypeOK, TaskTypeOK, IfaceTypeOK, IpcTypeOK
  <1>1. UNCHANGED <<mainPc, ii>>
    BY DEF TaskStep, TaskQueueGet, TaskDelay, TaskGetAgain, TaskReceive, TaskExpire,
       TaskEmpty, TaskPoll, TaskAck, TaskKeepWaiting, TaskContinue, ifaceVars, mainVars
  <1>2. ASSUME pc[t] \notin {"delaying", "polling"}, Signal(t),
               \E s \in TaskState : state' = [state EXCEPT ![t] = s],
               \/ \E p \in {"app", "recv"} : pc' = [pc EXCEPT ![t] = p]
               \/ /\ \E p \in {"delaying", "polling"} : pc' = [pc EXCEPT ![t] = p]
                  /\ state'[t] = "TASK_DELAY"
        PROVE  SleepInv(t)'
    <2>1. cv'[t] = {}
      BY <1>2, SignalWakesMain
    <2> QED
      BY <1>0, <1>2, <2>1
  <1>3. ASSUME pc[t] \notin {"delaying", "polling"}, UNCHANGED <<state, triggeredMIDs, stacks, cv>>,
               \E p \in {"app", "ack", "again", "expired"} : pc' = [pc EXCEPT ![t] = p]
        PROVE  SleepInv(t)'
    BY <1>0, <1>1, <1>3 DEF Quiet, NothingToDo
  <1>4. ASSUME NEW c, BeginReceive(t, c), pc[t] \in {"app", "again"} PROVE SleepInv(t)'
    BY <1>2, <1>4 DEF BeginReceive, MarkPipeAsComplete, SetState, GoTask, TaskState
  <1>5. CASE TaskGetAgain(t) \/ \E c \in Calls[t] : TaskQueueGet(t, c)
    BY <1>4, <1>5 DEF TaskGetAgain, TaskQueueGet
  <1>6. CASE TaskReceive(t) \/ TaskExpire(t) \/ TaskEmpty(t)
    BY <1>3, <1>6 DEF TaskReceive, TaskExpire, TaskEmpty, GoTask, ifaceVars, ipcVars
  <1>7. ASSUME NEW ms, NEW at \in {"delaying", "polling"}, NEW after \in {"app", "again"},
               BeginDelay(t, ms, at, after), pc[t] \in {"app", "expired"}
        PROVE  SleepInv(t)'
    <2>1. CASE AddTaskDelay(t, ms) /\ GoTask(t, at)
      <3>1. state' = [state EXCEPT ![t] = "TASK_DELAY"] /\ pc' = [pc EXCEPT ![t] = at] /\ Signal(t)
        BY <2>1 DEF AddTaskDelay, SetState, GoTask
      <3> QED
        BY <1>0, <1>2, <1>7, <3>1 DEF TaskState
    <2>2. CASE GoTask(t, after) /\ UNCHANGED <<state, triggeredMIDs, stacks, cv>>
      BY <1>3, <1>7, <2>2 DEF GoTask
    <2> QED
      BY <1>7, <2>1, <2>2 DEF BeginDelay, AddTaskDelaySkipped, ipcVars
  <1>8. CASE TaskPoll(t) \/ \E ms \in Delays[t] : TaskDelay(t, ms)
    BY <1>7, <1>8 DEF TaskPoll, TaskDelay
  <1>9. CASE TaskAck(t)
    BY <1>2, <1>9 DEF TaskAck, AcknowledgePipeTrigger, SetState, GoTask, TaskState
  <1>10. CASE TaskKeepWaiting(t)
    <2>1. /\ UNCHANGED <<state, triggeredMIDs, stacks, pc>> /\ state[t] # "TASK_CONTINUE"
          /\ pc[t] \in {"delaying", "polling", "mayProcess", "mayComplete"}
          /\ cv' = [cv EXCEPT ![t] = cv[t] \cup {"task"}]
      BY <1>10 DEF TaskKeepWaiting, KeepWaiting, MayContinue, Sleep, taskVars
    <2> QED
      BY <1>0, <1>1, <2>1 DEF Quiet, NothingToDo
  <1>11. CASE TaskContinue(t)
    <2>1. /\ UNCHANGED <<triggeredMIDs, stacks, cv>> /\ "task" \notin cv[t]
          /\ state' = [state EXCEPT ![t] = "TASK_RUNNING"]
          /\ \E p \in {"app", "again"} : pc' = [pc EXCEPT ![t] = p]
      BY <1>11 DEF TaskContinue, ContinueAfterDelay, SetState, GoTask, Awake
    <2> QED
      BY <1>0, <1>1, <2>1 DEF Quiet, NothingToDo
  <1> QED
    BY <1>5, <1>6, <1>8, <1>9, <1>10, <1>11 DEF TaskStep

\* A step of one task wakes nobody on the condition variable of another.
LEMMA TaskLeavesOthersAsleep ==
  ASSUME TypeInv, NEW t \in Tasks, TaskStep(t), NEW u \in Tasks \ {t}
  PROVE  cv'[u] = cv[u] /\ pc'[u] = pc[u]
  <1>0. /\ pc \in [Tasks -> TaskPCs] /\ cv \in [Tasks -> SUBSET {"main", "task"}]
    BY DEF TypeInv, TypeOK, TaskTypeOK, IfaceTypeOK, IpcTypeOK
  <1>1. Signal(t) \/ Sleep(t, "task") => cv'[u] = cv[u]
    BY <1>0 DEF Signal, Sleep
  <1>2. \A p : GoTask(t, p) => pc'[u] = pc[u]
    BY <1>0 DEF GoTask
  <1>3. UNCHANGED cv \/ Signal(t) \/ Sleep(t, "task")
    BY DEF TaskStep, TaskQueueGet, TaskGetAgain, TaskReceive, TaskExpire, TaskEmpty, TaskPoll,
       TaskDelay, TaskAck, TaskKeepWaiting, TaskContinue, BeginReceive, BeginDelay,
       MarkPipeAsComplete, AddTaskDelay, AddTaskDelaySkipped, AcknowledgePipeTrigger, KeepWaiting,
       Continue, ContinueAfterDelay, ifaceVars, ipcVars
  <1>4. UNCHANGED pc \/ \E p : GoTask(t, p)
    BY DEF TaskStep, TaskQueueGet, TaskGetAgain, TaskReceive, TaskExpire, TaskEmpty, TaskPoll,
       TaskDelay, TaskAck, TaskKeepWaiting, TaskContinue, BeginReceive, BeginDelay, taskVars
  <1> QED
    BY <1>1, <1>2, <1>3, <1>4

LEMMA NextWakeupInv ==
  ASSUME TypeInv, OneBaton, WakeupInv, ~PerfectMode, ~TimerFires, [Next]_vars
  PROVE  WakeupInv'
  <1> USE InterfaceAssumption, SimAssumption
  <1>0. /\ state \in [Tasks -> TaskState] /\ pc \in [Tasks -> TaskPCs]
        /\ cv \in [Tasks -> SUBSET {"main", "task"}] /\ ii \in 0..NumTasks
        /\ mainPc \in {"wait", "expired"} => ii < NumTasks
    BY DEF TypeInv, TypeOK, TaskTypeOK, MainTypeOK, MainInv, IfaceTypeOK, IpcTypeOK
  <1>00. /\ mainPc # "expired" /\ perfectFDMap = <<>> /\ schPc \notin {"spin", "check"}
         /\ \A t \in Tasks : SleepInv(t)
    BY DEF WakeupInv
  <1>1. ASSUME UNCHANGED <<mainPc, ii, schPc, perfectFDMap, pc, state, triggeredMIDs, stacks, cv>>
        PROVE  WakeupInv'
    BY <1>00, <1>1 DEF WakeupInv, SleepInv, Quiet, NothingToDo
  <1>2. CASE MainStep
    <2>1. UNCHANGED <<pc, schPc, perfectFDMap>> /\ mainPc' # "expired"
      BY <1>2 DEF MainStep, MainRead, MainTestNext, MainTestWait, MainWoken, MainWaitOn,
         MainGiveUp, MainCycle, MainUpdate, MainTrigger, MainDone, GoMain, ifaceVars, ipcVars,
         taskVars, schVars
    <2>2. CASE mainPc # "wait" /\ UNCHANGED <<state, cv>>
      <3>1. \A t \in Tasks : SleepInv(t)'
        BY <1>00, <2>1, <2>2 DEF SleepInv
      <3> QED
        BY <1>00, <2>1, <3>1 DEF WakeupInv
    <2>3. CASE MainWoken
      <3>1. \A t \in Tasks : "main" \notin cv[t]
        BY <1>00, <2>3 DEF MainWoken, SleepInv
      <3>2. \A t \in Tasks : SleepInv(t)'
        BY <1>00, <2>1, <2>3, <3>1 DEF MainWoken, SleepInv, ifaceVars, ipcVars
      <3> QED
        BY <1>00, <2>1, <3>2 DEF WakeupInv
    <2>4. CASE MainTestWait
      <3>1. /\ ii \in Tasks /\ ~Quiet(ii) /\ UNCHANGED <<ii, state, triggeredMIDs, stacks>>
            /\ mainPc = "test" /\ mainPc' = "wait" /\ cv' = [cv EXCEPT ![ii] = cv[ii] \cup {"main"}]
        BY <1>0, <2>4 DEF MainTestWait, Sleep, GoMain, Tasks
      <3>2. ASSUME NEW t \in Tasks PROVE SleepInv(t)'
        <4>1. SleepInv(t) /\ "main" \notin cv[t]
          BY <1>00, <3>1 DEF SleepInv
        <4>2. "task" \in cv'[t] => "task" \in cv[t]
          BY <1>0, <3>1
        <4>3. "main" \in cv'[t] => t = ii
          BY <1>0, <3>1, <4>1
        <4> QED
          BY <2>1, <3>1, <4>1, <4>2, <4>3 DEF SleepInv, Quiet, NothingToDo
      <3> QED
        BY <1>00, <2>1, <3>2 DEF WakeupInv
    <2>5. CASE MainUpdate
      <3>1. ii \in Tasks /\ mainPc = "update" /\ mainPc' = "update" /\ UpdateTaskTime(ii)
        BY <1>0, <2>5 DEF MainUpdate, Tasks
      <3>2. \/ UNCHANGED <<state, cv>>
            \/ state[ii] = "TASK_DELAY" /\ state' = [state EXCEPT ![ii] = "TASK_CONTINUE"] /\ Signal(ii)
        BY <3>1 DEF UpdateTaskTime, SetState
      <3>3. ASSUME NEW t \in Tasks, state[ii] = "TASK_DELAY",
                   state' = [state EXCEPT ![ii] = "TASK_CONTINUE"], Signal(ii)
            PROVE  SleepInv(t)'
        <4>1. SleepInv(t) /\ SleepInv(ii) /\ "main" \notin cv[t] /\ "main" \notin cv[ii]
          BY <1>00, <3>1 DEF SleepInv
        <4>2. cv'[ii] = {} /\ \A u \in Tasks \ {ii} : cv'[u] = cv[u]
          BY <1>0, <3>1, <3>3, <4>1 DEF Signal
        <4>3. CASE t = ii
          BY <1>0, <2>1, <3>1, <3>3, <4>1, <4>2, <4>3 DEF SleepInv
        <4>4. CASE t # ii
          BY <1>0, <2>1, <3>1, <3>3, <4>1, <4>2, <4>4 DEF SleepInv
        <4> QED
          BY <4>3, <4>4
      <3>4. CASE state[ii] = "TASK_DELAY" /\ state' = [state EXCEPT ![ii] = "TASK_CONTINUE"] /\ Signal(ii)
        BY <1>00, <2>1, <3>3, <3>4 DEF WakeupInv
      <3> QED
        BY <2>2, <3>1, <3>2, <3>4
    <2> QED
      BY <1>00, <1>2, <2>2, <2>3, <2>4, <2>5 DEF MainStep, MainRead, MainTestNext, MainWaitOn,
         MainGiveUp, MainCycle, MainTrigger, ifaceVars, ipcVars
  <1>3. CASE SchStep
    <2>1. mainPc = "read" /\ UNCHANGED <<mainPc, pc, ii>>
      BY <1>3, SchAsleep DEF SchStep, SchInit, SchWait, SchTable, SchOwner, SchMark, SchXmit,
         SchNext, SchSpin, SchCheck, mainVars, taskVars
    <2>2. UNCHANGED <<state, cv, perfectFDMap>> /\ schPc' \notin {"spin", "check"}
      BY <1>3, <1>00 DEF SchStep, SchInit, SchWait, SchTable, SchOwner, SchMark, SchXmit,
         SchNext, SchSpin, SchCheck, GoSch, MarkPipeAsTriggered, ifaceVars, ipcVars
    <2>3. \A t \in Tasks : SleepInv(t)'
      BY <1>00, <2>1, <2>2 DEF SleepInv
    <2> QED
      BY <1>00, <2>1, <2>2, <2>3 DEF WakeupInv
  <1>4. ASSUME NEW t \in Tasks, TaskStep(t) PROVE WakeupInv'
    <2>1. UNCHANGED <<mainPc, ii, schPc, perfectFDMap>>
      BY <1>4 DEF TaskStep, TaskQueueGet, TaskDelay, TaskGetAgain, TaskReceive, TaskExpire,
         TaskEmpty, TaskPoll, TaskAck, TaskKeepWaiting, TaskContinue, ifaceVars, mainVars, schVars
    <2>2. ASSUME NEW u \in Tasks PROVE SleepInv(u)'
      <3>1. CASE u = t
        BY <1>00, <1>4, <3>1, TaskSleepInv
      <3>2. CASE u # t
        <4>1. /\ state'[u] = state[u] /\ triggeredMIDs'[u] = triggeredMIDs[u]
              /\ stacks'[u] = stacks[u] /\ cv'[u] = cv[u] /\ pc'[u] = pc[u]
          BY <1>4, <3>2, TaskLeavesOthers, TaskLeavesOthersAsleep
        <4>2. Quiet(u)' <=> Quiet(u)
          BY <4>1 DEF Quiet, NothingToDo
        <4>3. SleepInv(u)
          BY <1>00
        <4> QED
          BY <2>1, <4>1, <4>2, <4>3 DEF SleepInv
      <3> QED
        BY <3>1, <3>2
    <2> QED
      BY <1>00, <2>1, <2>2 DEF WakeupInv
  <1>5. CASE Environment
    <2>1. ASSUME NEW t \in Tasks, NEW thread \in {"main", "task"}, Spurious(t, thread)
          PROVE  WakeupInv'
      <3>1. UNCHANGED <<mainPc, ii, schPc, perfectFDMap, pc, state, triggeredMIDs, stacks>>
            /\ \A u \in Tasks : cv'[u] \subseteq cv[u]
        BY <1>0, <2>1 DEF Spurious, Wakeup, mainVars, schVars, taskVars
      <3> QED
        BY <1>00, <3>1 DEF WakeupInv, SleepInv, Quiet, NothingToDo
    <2>2. CASE \A t \in Tasks, thread \in {"main", "task"} : ~Spurious(t, thread)
      BY <1>1, <1>5, <2>2 DEF Environment, MainTimer, Publish, StopApp, Exit, ifaceVars, ipcVars,
         mainVars, schVars, taskVars
    <2> QED
      BY <2>1, <2>2
  <1>6. CASE UNCHANGED vars
    BY <1>1, <1>6 DEF vars, ifaceVars, ipcVars, mainVars, schVars, taskVars
  <1> QED
    BY <1>2, <1>3, <1>4, <1>5, <1>6 DEF Next

\* In perfect mode the main thread waits for the SCH thread only.
NoWait == mainPc \notin {"test", "wait", "expired"}

LEMMA NextNoWait ==
  ASSUME PerfectMode, NoWait, [Next]_vars
  PROVE  NoWait'
  <1>1. UNCHANGED mainPc \/ MainStep \/ MainTimer
    BY DEF Next, SchStep, SchInit, SchWait, SchTable, SchOwner, SchMark, SchXmit, SchNext, SchSpin,
       SchCheck, TaskStep, TaskQueueGet, TaskDelay, TaskGetAgain, TaskReceive, TaskExpire,
       TaskEmpty, TaskPoll, TaskAck, TaskKeepWaiting, TaskContinue, Environment, Spurious, Publish,
       StopApp, Exit, vars, mainVars
  <1> QED
    BY <1>1 DEF NoWait, MainStep, MainRead, MainTestNext, MainTestWait, MainWoken, MainWaitOn,
       MainGiveUp, MainCycle, MainUpdate, MainTrigger, MainDone, MainTimer, GoMain

\* The main thread never sleeps on a task with nothing left to do, as long as none of
\* its waits for a task takes the 5000 ms after which the code waits again without
\* looking at the task.
THEOREM NoMissedCompletionHolds ==
  ASSUME ~TimerFires
  PROVE  Spec => []NoMissedCompletion
  <1>1. CASE PerfectMode
    <2>1. Init => NoWait
      BY DEF Init, NoWait
    <2>2. NoWait /\ [Next]_vars => NoWait'
      BY <1>1, NextNoWait
    <2>3. NoWait => NoMissedCompletion
      BY DEF NoWait, NoMissedCompletion
    <2> QED
      BY <2>1, <2>2, <2>3, PTL DEF Spec
  <1>2. CASE ~PerfectMode
    <2>1. Init => WakeupInv
      BY DEF Init, IfaceInit, WakeupInv, SleepInv
    <2>2. TypeInv /\ OneBaton /\ WakeupInv /\ [Next]_vars => WakeupInv'
      BY <1>2, NextWakeupInv
    <2>3. TypeInv /\ WakeupInv => NoMissedCompletion
      BY InterfaceAssumption DEF TypeInv, TypeOK, MainTypeOK, MainInv, WakeupInv, SleepInv,
         NoMissedCompletion, Tasks
    <2> QED
      BY <2>1, <2>2, <2>3, TypeInvariance, OneBatonHolds, PTL DEF Spec
  <1> QED
    BY <1>1, <1>2

------------------------------------------------------------------------------
\* Perfect scheduling, for one running task

\* In which of its waits a task is says what its state may be, and the other way round.
PlaceInv(t) ==
  /\ state[t] = "MSG_RCV" => pc[t] = "mayProcess"
  /\ state[t] = "TASK_COMPLETE" => pc[t] = "mayComplete"
  /\ state[t] = "TASK_CONTINUE" => pc[t] \in {"delaying", "polling", "mayProcess", "mayComplete"}
  /\ pc[t] = "mayProcess" => state[t] \in {"MSG_RCV", "TASK_CONTINUE"} /\ acknowledgedMIDs[t] # <<>>
  /\ pc[t] = "mayComplete" => state[t] \in {"TASK_COMPLETE", "TASK_CONTINUE"}

\* A task works on one message at most: the next poll ends it.
AckInv(t) ==
  /\ Len(acknowledgedMIDs[t]) <= 1
  /\ acknowledgedMIDs[t] # <<>> =>
       stacks[t] # <<>> /\ Contains(triggeredMIDs[t], acknowledgedMIDs[t][1])
  /\ pc[t] \in {"recv", "expired", "ack", "again", "polling", "mayComplete"} =>
       acknowledgedMIDs[t] = <<>>

\* signalMainAppComplete is at t.
Serving(t) == schPc \in {"spin", "check"} /\ schTask = t

Received(t) == IF state[t] = "MSG_RCV" THEN 1 ELSE 0
Completed(t) == IF state[t] = "TASK_COMPLETE" THEN 1 ELSE 0

\* What it has counted: call sites are listed from a trigger to a completion, messages
\* are triggered until they are received and finished.
CountInv(t) ==
  /\ Len(stacks[t]) = schCount.triggers + Received(t) - schCount.completes - Completed(t)
  /\ Len(triggeredMIDs[t]) = schCount.req - schCount.triggers - Received(t) + Len(acknowledgedMIDs[t])

\* A task that is not its turn may have received one message, and then waits.
IdleInv(t) ==
  /\ Len(stacks[t]) = Received(t)
  /\ Len(acknowledgedMIDs[t]) = Received(t)
  /\ Completed(t) = 0

TurnInv(t) ==
  /\ PlaceInv(t)
  /\ AckInv(t)
  /\ Serving(t) => CountInv(t)
  /\ ~Serving(t) => IdleInv(t)

\* The entries of the multimap are in the order of their priorities.
InOrder(s) == \A j, k \in 1..Len(s) : j < k => Prio[s[j]] <= Prio[s[k]]

\* Tasks with triggers wait for their turn in this order.
MapInv ==
  /\ InOrder(perfectFDMap)
  /\ schPc \in {"spin", "check"} =>
       \A j \in 1..Len(perfectFDMap) : Prio[schTask] <= Prio[perfectFDMap[j]]
  /\ schPc = "wait" => perfectFDMap = <<>>

TriggeredInMap(t) == triggeredMIDs[t] # <<>> => Contains(perfectFDMap, t) \/ Serving(t)

TurnsInv ==
  /\ MapInv
  /\ \A t \in Tasks : appRunning[t] => TurnInv(t) /\ TriggeredInMap(t)

\* TurnInv looks at t's own entries and at the SCH thread.
LEMMA TurnInvUnchanged ==
  ASSUME NEW t \in Tasks, TurnInv(t), UNCHANGED <<schPc, schTask, schCount>>,
         state'[t] = state[t], triggeredMIDs'[t] = triggeredMIDs[t],
         stacks'[t] = stacks[t], acknowledgedMIDs'[t] = acknowledgedMIDs[t], pc'[t] = pc[t]
  PROVE  TurnInv(t)'
  BY DEF TurnInv, PlaceInv, AckInv, Serving, CountInv, IdleInv, Received, Completed

LEMMA OneElement ==
  ASSUME NEW S, NEW s \in Seq(S), s # <<>>, Len(s) <= 1
  PROVE  Len(s) = 1 /\ Last(s) = s[1] /\ Front(s) = <<>>
  <1>1. Len(s) = 1
    <2>1. Len(s) \in Nat \ {0}
      BY EmptySeq
    <2> QED
      BY <2>1
  <1>2. Front(s) \in Seq(S) /\ Len(Front(s)) = 0
    BY <1>1, FrontFacts
  <1>3. Front(s) = <<>>
    BY <1>2, EmptySeq
  <1> QED
    BY <1>1, <1>3 DEF Last

\* A poll leaves nothing acknowledged.
LEMMA FinishMessageEnds ==
  ASSUME TypeInv, NEW t \in Tasks, AckInv(t), FinishMessage(t)
  PROVE  /\ acknowledgedMIDs'[t] = <<>>
         /\ Len(triggeredMIDs'[t]) = Len(triggeredMIDs[t]) - Len(acknowledgedMIDs[t])
  <1> DEFINE ack == acknowledgedMIDs[t]
  <1>0. /\ acknowledgedMIDs \in [Tasks -> Seq(Mids)] /\ triggeredMIDs \in [Tasks -> Seq(Mids)]
        /\ ack \in Seq(Mids) /\ triggeredMIDs[t] \in Seq(Mids) /\ Len(triggeredMIDs[t]) \in Nat
    BY DEF TypeInv, TypeOK, IfaceTypeOK, IpcTypeOK
  <1>1. CASE ack = <<>>
    <2>1. Back(ack) = NoMid
      BY <1>1 DEF Back
    <2>2. ~Contains(triggeredMIDs[t], NoMid)
      BY <1>0, InterfaceAssumption DEF Contains
    <2>3. UNCHANGED <<triggeredMIDs, acknowledgedMIDs>>
      BY <2>1, <2>2 DEF FinishMessage
    <2> QED
      BY <1>0, <1>1, <2>3
  <1>2. CASE ack # <<>>
    <2>1. Len(ack) = 1 /\ Last(ack) = ack[1] /\ Front(ack) = <<>>
      BY <1>0, <1>2, OneElement DEF AckInv
    <2>3. stacks[t] # <<>> /\ Contains(triggeredMIDs[t], Back(ack))
      BY <1>2, <2>1 DEF AckInv, Back
    <2>4. /\ triggeredMIDs' = [triggeredMIDs EXCEPT ![t] = RemoveFirst(triggeredMIDs[t], Back(ack))]
          /\ acknowledgedMIDs' = [acknowledgedMIDs EXCEPT ![t] = Front(ack)]
      BY <2>3 DEF FinishMessage
    <2>6. Len(RemoveFirst(triggeredMIDs[t], Back(ack))) = Len(triggeredMIDs[t]) - 1
      BY <1>0, <2>3, RemoveFirstLength
    <2> QED
      BY <1>0, <2>1, <2>4, <2>6
  <1> QED
    BY <1>1, <1>2

\* A call of OS_QueueGet finishes the message before it; t has completed when the call
\* site is listed.
LEMMA ReceiveTurnInv ==
  ASSUME TypeInv, PerfectMode, NEW t \in Tasks, TurnInv(t), pc[t] \in {"app", "again"},
         NEW c, BeginReceive(t, c), UNCHANGED schVars
  PROVE  TurnInv(t)'
  <1>0. /\ state \in [Tasks -> TaskState] /\ pc \in [Tasks -> TaskPCs]
        /\ stacks \in [Tasks -> Seq(Sites)] /\ stacks[t] \in Seq(Sites) /\ Len(stacks[t]) \in Nat
        /\ triggeredMIDs[t] \in Seq(Mids) /\ Len(triggeredMIDs[t]) \in Nat
        /\ acknowledgedMIDs[t] \in Seq(Mids) /\ Len(acknowledgedMIDs[t]) \in Nat
        /\ schCount.req \in Nat /\ schCount.triggers \in Nat /\ schCount.completes \in Nat
    BY SMTT(30) DEF TypeInv, TypeOK, TaskTypeOK, SchTypeOK, Count, IfaceTypeOK, IpcTypeOK
  <1>1. PlaceInv(t) /\ AckInv(t) /\ (Serving(t) => CountInv(t)) /\ (~Serving(t) => IdleInv(t))
    BY DEF TurnInv
  <1>2. Received(t) = 0 /\ Completed(t) = 0
    BY <1>1 DEF PlaceInv, Received, Completed
  <1>3. /\ acknowledgedMIDs'[t] = <<>>
        /\ Len(triggeredMIDs'[t]) = Len(triggeredMIDs[t]) - Len(acknowledgedMIDs[t])
    BY <1>1, FinishMessageEnds DEF BeginReceive, MarkPipeAsComplete
  <1>4. Len(acknowledgedMIDs'[t]) = 0
    BY <1>3, EmptySeq
  <1>5. stacks'[t] = RemoveFirst(stacks[t], c.site)
    BY <1>0 DEF BeginReceive, MarkPipeAsComplete, FinishSite
  <1>6. Serving(t)' <=> Serving(t)
    BY DEF Serving, schVars
  <1>7. CASE Contains(stacks[t], c.site)
    <2>1. state'[t] = "TASK_COMPLETE" /\ pc'[t] = "mayComplete"
      BY <1>0, <1>7 DEF BeginReceive, MarkPipeAsComplete, CompletesSite, SetState, GoTask
    <2>2. Len(stacks'[t]) = Len(stacks[t]) - 1
      BY <1>0, <1>5, <1>7, RemoveFirstLength
    <2>3. Len(stacks[t]) # 0
      BY <1>0, <1>7 DEF Contains
    <2>4. Serving(t) /\ CountInv(t)
      BY <1>1, <1>2, <2>3 DEF IdleInv
    <2>5. CountInv(t)'
      <3>1. Received(t)' = 0 /\ Completed(t)' = 1 /\ UNCHANGED schCount
        BY <2>1 DEF Received, Completed, schVars
      <3> QED
        BY <1>0, <1>2, <1>3, <1>4, <2>2, <2>4, <3>1, SMTT(30) DEF CountInv
    <2>6. PlaceInv(t)' /\ AckInv(t)'
      BY <1>3, <1>4, <2>1 DEF PlaceInv, AckInv
    <2> QED
      BY <1>6, <2>4, <2>5, <2>6 DEF TurnInv
  <1>8. CASE ~Contains(stacks[t], c.site)
    <2>1. state'[t] = "TASK_RUNNING" /\ pc'[t] = "recv"
      BY <1>0, <1>8 DEF BeginReceive, MarkPipeAsComplete, CompletesSite, SetState, GoTask
    <2>2. stacks'[t] = stacks[t]
      BY <1>0, <1>5, <1>8, RemoveFirstFacts
    <2>3. PlaceInv(t)' /\ AckInv(t)'
      BY <1>3, <1>4, <2>1 DEF PlaceInv, AckInv
    <2>4. ASSUME Serving(t) PROVE CountInv(t)'
      <3>1. Received(t)' = 0 /\ Completed(t)' = 0 /\ UNCHANGED schCount
        BY <2>1 DEF Received, Completed, schVars
      <3>2. CountInv(t)
        BY <1>1, <2>4
      <3> QED
        BY <1>0, <1>2, <1>3, <1>4, <2>2, <3>1, <3>2 DEF CountInv
    <2>5. ~Serving(t) => IdleInv(t)'
      BY <1>1, <1>2, <1>4, <2>1, <2>2 DEF IdleInv, Received, Completed
    <2> QED
      BY <1>6, <2>3, <2>4, <2>5 DEF TurnInv
  <1> QED
    BY <1>7, <1>8

\* A message of the scheduler that is received is acknowledged with its call site.
LEMMA AckTurnInv ==
  ASSUME TypeInv, PerfectMode, NEW t \in Tasks, TurnInv(t), TaskAck(t)
  PROVE  TurnInv(t)'
  <1>0. /\ state \in [Tasks -> TaskState] /\ pc \in [Tasks -> TaskPCs]
        /\ stacks \in [Tasks -> Seq(Sites)] /\ stacks[t] \in Seq(Sites) /\ Len(stacks[t]) \in Nat
        /\ acknowledgedMIDs \in [Tasks -> Seq(Mids)] /\ Len(triggeredMIDs[t]) \in Nat
        /\ schCount.req \in Nat /\ schCount.triggers \in Nat /\ schCount.completes \in Nat
    BY SMTT(30) DEF TypeInv, TypeOK, TaskTypeOK, SchTypeOK, Count, IfaceTypeOK, IpcTypeOK
  <1>1. PlaceInv(t) /\ AckInv(t) /\ (Serving(t) => CountInv(t)) /\ (~Serving(t) => IdleInv(t))
    BY DEF TurnInv
  <1>2. /\ pc[t] = "ack" /\ AcknowledgePipeTrigger(t, hand[t], call[t].site)
        /\ GoTask(t, IF Contains(triggeredMIDs[t], hand[t]) THEN "mayProcess" ELSE "app")
        /\ UNCHANGED schVars
    BY DEF TaskAck
  <1>3. /\ Received(t) = 0 /\ Completed(t) = 0 /\ acknowledgedMIDs[t] = <<>>
        /\ Len(acknowledgedMIDs[t]) = 0
    BY <1>1, <1>2, EmptySeq DEF PlaceInv, AckInv, Received, Completed
  <1>4. (Serving(t)' <=> Serving(t)) /\ UNCHANGED triggeredMIDs
    BY <1>2 DEF Serving, schVars, AcknowledgePipeTrigger
  <1>5. CASE Contains(triggeredMIDs[t], hand[t])
    <2>1. state'[t] = "MSG_RCV" /\ pc'[t] = "mayProcess"
      BY <1>0, <1>2, <1>5 DEF AcknowledgePipeTrigger, SetState, GoTask
    <2>2. /\ acknowledgedMIDs'[t] = Append(<<>>, hand[t])
          /\ stacks'[t] = Append(stacks[t], call[t].site)
      BY <1>0, <1>2, <1>3, <1>5 DEF AcknowledgePipeTrigger
    <2>3. /\ Len(acknowledgedMIDs'[t]) = 1 /\ acknowledgedMIDs'[t][1] = hand[t]
          /\ acknowledgedMIDs'[t] # <<>>
      BY <2>2
    <2>4. Len(stacks'[t]) = Len(stacks[t]) + 1 /\ stacks'[t] # <<>>
      <3>1. call[t].site \in Sites
        BY <1>2, SimAssumption DEF TypeInv, CallInv, InCall, Call
      <3>2. \A s \in Seq(Sites), e \in Sites : Append(s, e) # <<>> /\ Len(Append(s, e)) = Len(s) + 1
        BY AppendProperties
      <3> QED
        BY <1>0, <2>2, <3>1, <3>2
    <2>5. PlaceInv(t)' /\ AckInv(t)'
      BY <1>4, <1>5, <2>1, <2>3, <2>4 DEF PlaceInv, AckInv
    <2>6. ASSUME Serving(t) PROVE CountInv(t)'
      <3>1. Received(t)' = 1 /\ Completed(t)' = 0 /\ UNCHANGED schCount
        BY <1>2, <2>1 DEF Received, Completed, schVars
      <3>2. CountInv(t)
        BY <1>1, <2>6
      <3> QED
        BY <1>0, <1>3, <1>4, <2>3, <2>4, <3>1, <3>2, SMTT(30) DEF CountInv
    <2>7. ~Serving(t) => IdleInv(t)'
      BY <1>1, <1>3, <2>1, <2>3, <2>4 DEF IdleInv, Received, Completed
    <2> QED
      BY <1>4, <2>5, <2>6, <2>7 DEF TurnInv
  <1>6. CASE ~Contains(triggeredMIDs[t], hand[t])
    <2>1. /\ state'[t] = "TASK_RUNNING" /\ pc'[t] = "app"
          /\ UNCHANGED <<stacks, acknowledgedMIDs>>
      BY <1>0, <1>2, <1>6 DEF AcknowledgePipeTrigger, SetState, GoTask
    <2>2. PlaceInv(t)' /\ AckInv(t)'
      BY <1>1, <1>4, <2>1 DEF PlaceInv, AckInv
    <2>3. Serving(t) => CountInv(t)'
      BY <1>0, <1>1, <1>2, <1>3, <1>4, <2>1 DEF CountInv, Received, Completed, schVars
    <2>4. ~Serving(t) => IdleInv(t)'
      BY <1>1, <1>3, <2>1 DEF IdleInv, Received, Completed
    <2> QED
      BY <1>4, <2>2, <2>3, <2>4 DEF TurnInv
  <1> QED
    BY <1>5, <1>6

\* t goes on within its own turn, or waits.
LEMMA TaskTurnInv ==
  ASSUME TypeInv, PerfectMode, DelayedWaits, NEW t \in Tasks, appRunning[t], TurnInv(t), TaskStep(t)
  PROVE  TurnInv(t)'
  <1>0. state \in [Tasks -> TaskState] /\ pc \in [Tasks -> TaskPCs]
    BY DEF TypeInv, TypeOK, TaskTypeOK, IfaceTypeOK, IpcTypeOK
  <1>s. UNCHANGED schVars
    BY DEF TaskStep, TaskQueueGet, TaskDelay, TaskGetAgain, TaskReceive, TaskExpire,
       TaskEmpty, TaskPoll, TaskAck, TaskKeepWaiting, TaskContinue
  <1>1. PlaceInv(t) /\ AckInv(t) /\ (Serving(t) => CountInv(t)) /\ (~Serving(t) => IdleInv(t))
    BY DEF TurnInv
  <1>2. CASE TaskGetAgain(t) \/ \E c \in Calls[t] : TaskQueueGet(t, c)
    BY <1>2, <1>s, ReceiveTurnInv DEF TaskGetAgain, TaskQueueGet
  <1>3. CASE TaskAck(t)
    BY <1>3, AckTurnInv
  \* A step that changes no list, to a place and a state without a release.
  <1>4. ASSUME UNCHANGED <<triggeredMIDs, stacks, acknowledgedMIDs>>,
               state[t] \notin {"MSG_RCV", "TASK_COMPLETE"},
               state'[t] \notin {"MSG_RCV", "TASK_COMPLETE", "TASK_CONTINUE"},
               pc'[t] \notin {"mayProcess", "mayComplete"},
               pc'[t] \in {"recv", "expired", "ack", "again", "polling"} =>
                 acknowledgedMIDs[t] = <<>>
        PROVE  TurnInv(t)'
    <2>1. PlaceInv(t)' /\ AckInv(t)'
      BY <1>1, <1>4 DEF PlaceInv, AckInv
    <2>2. (Serving(t)' <=> Serving(t)) /\ Received(t)' = Received(t) /\ Completed(t)' = Completed(t)
      BY <1>4, <1>s DEF Serving, Received, Completed, schVars
    <2> QED
      BY <1>1, <1>4, <1>s, <2>1, <2>2 DEF TurnInv, CountInv, IdleInv, schVars
  <1>5. CASE TaskReceive(t) \/ TaskExpire(t) \/ TaskEmpty(t)
    <2>1. /\ UNCHANGED <<state, triggeredMIDs, stacks, acknowledgedMIDs>>
          /\ pc[t] \in {"recv", "expired"} /\ pc'[t] \in {"ack", "expired", "app"}
      BY <1>0, <1>5 DEF TaskReceive, TaskExpire, TaskEmpty, GoTask, ifaceVars, ipcVars
    <2> QED
      BY <1>1, <1>4, <2>1 DEF PlaceInv, AckInv
  <1>6. ASSUME NEW ms, NEW at \in {"delaying", "polling"}, NEW after \in {"app", "again"},
               BeginDelay(t, ms, at, after), pc[t] \in {"app", "expired"},
               pc[t] = "app" => at = "delaying" /\ after = "app"
        PROVE  TurnInv(t)'
    <2>1. /\ UNCHANGED <<triggeredMIDs, stacks, acknowledgedMIDs>>
          /\ \/ pc'[t] = after /\ UNCHANGED state
             \/ pc'[t] = at /\ state'[t] = "TASK_DELAY"
      BY <1>0, <1>6 DEF BeginDelay, AddTaskDelay, AddTaskDelaySkipped, SetState, GoTask, ipcVars
    <2>2. pc[t] = "expired" => acknowledgedMIDs[t] = <<>>
      BY <1>1 DEF AckInv
    <2> QED
      BY <1>1, <1>4, <1>6, <2>1, <2>2 DEF PlaceInv
  <1>7. CASE TaskPoll(t) \/ \E ms \in Delays[t] : TaskDelay(t, ms)
    BY <1>6, <1>7 DEF TaskPoll, TaskDelay
  <1>8. CASE TaskKeepWaiting(t)
    <2>1. UNCHANGED <<state, triggeredMIDs, stacks, acknowledgedMIDs, pc, schPc, schTask, schCount>>
      BY <1>8 DEF TaskKeepWaiting, KeepWaiting, taskVars, schVars
    <2> QED
      BY <2>1, TurnInvUnchanged
  <1>9. CASE TaskContinue(t)
    <2>1. /\ UNCHANGED <<triggeredMIDs, stacks, acknowledgedMIDs>>
          /\ state[t] = "TASK_CONTINUE" /\ state'[t] = "TASK_RUNNING"
          /\ pc[t] \in {"delaying", "mayProcess"} => pc'[t] = "app"
          /\ pc[t] = "polling" => pc'[t] = "again"
          /\ pc[t] = "mayComplete" => pc'[t] = "recv"
          /\ pc[t] \in {"delaying", "polling", "mayProcess", "mayComplete"}
      BY <1>0, <1>9 DEF TaskContinue, Continue, ContinueAfterDelay, MayContinue, SetState, GoTask
    <2> QED
      BY <1>1, <1>4, <2>1 DEF AckInv
  <1> QED
    BY <1>2, <1>3, <1>5, <1>7, <1>8, <1>9 DEF TaskStep

\* The main thread only ends delays.
LEMMA MainTurnsInv ==
  ASSUME TypeInv, PerfectMode, DelayedWaits, NoWait, MainStep \/ MainTimer,
         NEW t \in Tasks, TurnInv(t)
  PROVE  TurnInv(t)'
  <1>0. state \in [Tasks -> TaskState]
    BY DEF TypeInv, TypeOK, IfaceTypeOK, IpcTypeOK
  <1>1. UNCHANGED <<triggeredMIDs, stacks, acknowledgedMIDs, pc, schPc, schTask, schCount>>
    BY DEF NoWait, MainStep, MainRead, MainTestNext, MainTestWait, MainWoken, MainWaitOn, MainGiveUp,
       MainCycle, MainUpdate, MainTrigger, MainTimer, UpdateTaskTime, ifaceVars, ipcVars, schVars,
       taskVars
  <1>2. \/ UNCHANGED state
        \/ /\ ii \in Tasks /\ state[ii] = "TASK_DELAY"
           /\ state' = [state EXCEPT ![ii] = "TASK_CONTINUE"]
    <2>1. ASSUME MainUpdate
          PROVE  \/ UNCHANGED state
                 \/ /\ ii \in Tasks /\ state[ii] = "TASK_DELAY"
                    /\ state' = [state EXCEPT ![ii] = "TASK_CONTINUE"]
      <3>1. ii \in Tasks /\ UpdateTaskTime(ii)
        BY <2>1, InterfaceAssumption DEF MainUpdate, TypeInv, TypeOK, MainTypeOK, Tasks
      <3> QED
        BY <3>1 DEF UpdateTaskTime, SetState
    <2> QED
      BY <2>1 DEF NoWait, MainStep, MainRead, MainTestNext, MainTestWait, MainWoken, MainWaitOn,
         MainGiveUp, MainCycle, MainTrigger, MainTimer, ifaceVars, ipcVars
  <1>3. CASE state'[t] = state[t]
    BY <1>1, <1>3, TurnInvUnchanged
  <1>4. CASE state[t] = "TASK_DELAY" /\ state'[t] = "TASK_CONTINUE"
    <2>1. pc[t] \in {"delaying", "polling"}
      BY <1>4 DEF DelayedWaits
    <2>2. PlaceInv(t)' /\ AckInv(t)'
      BY <1>1, <1>4, <2>1 DEF TurnInv, PlaceInv, AckInv
    <2>3. (Serving(t)' <=> Serving(t)) /\ Received(t)' = Received(t) /\ Completed(t)' = Completed(t)
      BY <1>1, <1>4 DEF Serving, Received, Completed
    <2> QED
      BY <1>1, <2>2, <2>3 DEF TurnInv, CountInv, IdleInv
  <1> QED
    BY <1>0, <1>2, <1>3, <1>4

\* When the SCH thread has counted as many completions as triggers, t has finished.
LEMMA AllCompleted ==
  ASSUME TypeInv, NEW t \in Tasks, TurnInv(t), Serving(t), schCount.completes = schCount.req
  PROVE  IdleInv(t) /\ triggeredMIDs[t] = <<>>
  <1>0. /\ stacks[t] \in Seq(Sites) /\ triggeredMIDs[t] \in Seq(Mids)
        /\ acknowledgedMIDs[t] \in Seq(Mids)
        /\ Len(stacks[t]) \in Nat /\ Len(triggeredMIDs[t]) \in Nat
        /\ Len(acknowledgedMIDs[t]) \in Nat
        /\ schCount.req \in Nat /\ schCount.triggers \in Nat /\ schCount.completes \in Nat
    BY DEF TypeInv, TypeOK, SchTypeOK, Count, IfaceTypeOK, IpcTypeOK
  <1>1. CountInv(t) /\ AckInv(t) /\ PlaceInv(t)
    BY DEF TurnInv
  <1>2. Received(t) \in 0..1 /\ Completed(t) \in 0..1
    BY DEF Received, Completed
  <1>3. Len(stacks[t]) + Completed(t) + Len(triggeredMIDs[t]) = Len(acknowledgedMIDs[t])
    <2>1. /\ Len(stacks[t]) = schCount.triggers + Received(t) - schCount.completes - Completed(t)
          /\ Len(triggeredMIDs[t])
               = schCount.req - schCount.triggers - Received(t) + Len(acknowledgedMIDs[t])
      BY <1>1 DEF CountInv
    <2>2. Received(t) \in Int /\ Completed(t) \in Int
      BY <1>2
    <2>3. schCount.completes = schCount.req
      OBVIOUS
    <2>4. \A n, c, l, a, k, r, m \in Int :
            n = k + r - m - c /\ l = m - k - r + a => n + c + l = a
      OBVIOUS
    <2> DEFINE n == Len(stacks[t])
               l == Len(triggeredMIDs[t])
               a == Len(acknowledgedMIDs[t])
               k == schCount.triggers
               m == schCount.req
    <2>5. n \in Int /\ l \in Int /\ a \in Int /\ k \in Int /\ m \in Int
      BY <1>0
    <2>6. n = k + Received(t) - m - Completed(t) /\ l = m - k - Received(t) + a
      BY <2>1, <2>3
    <2> HIDE DEF n, l, a, k, m
    <2>7. n + Completed(t) + l = a
      BY <2>2, <2>4, <2>5, <2>6
    <2> QED
      BY <2>7 DEF n, l, a
  <1>4. ASSUME acknowledgedMIDs[t] # <<>> PROVE FALSE
    <2>1. stacks[t] # <<>> /\ Contains(triggeredMIDs[t], acknowledgedMIDs[t][1])
      BY <1>1, <1>4 DEF AckInv
    <2>2. Len(stacks[t]) \in Nat \ {0}
      BY <1>0, <2>1, EmptySeq
    <2>3. Len(triggeredMIDs[t]) # 0 /\ Len(acknowledgedMIDs[t]) <= 1
      BY <1>0, <1>1, <2>1 DEF Contains, AckInv
    <2>4. Completed(t) >= 0
      BY <1>2
    <2> QED
      BY <1>0, <1>2, <1>3, <2>2, <2>3, <2>4
  <1>7. acknowledgedMIDs[t] = <<>> /\ Len(acknowledgedMIDs[t]) = 0
    BY <1>4, EmptySeq
  <1>8. Len(stacks[t]) = 0 /\ Len(triggeredMIDs[t]) = 0 /\ Completed(t) = 0
    BY <1>0, <1>2, <1>3, <1>7
  <1>9. Received(t) = 0
    BY <1>1, <1>7 DEF PlaceInv, Received
  <1> QED
    BY <1>0, <1>7, <1>8, <1>9, EmptySeq DEF IdleInv

\* The SCH thread begins and ends turns, and counts.
LEMMA SchTurnInv ==
  ASSUME TypeInv, PerfectMode, DelayedWaits, SchStep, NEW t \in Tasks, appRunning[t], TurnInv(t)
  PROVE  TurnInv(t)'
  <1>0. /\ state \in [Tasks -> TaskState] /\ schTask \in Tasks
        /\ triggeredMIDs \in [Tasks -> Seq(Mids)]
        /\ stacks[t] \in Seq(Sites) /\ triggeredMIDs[t] \in Seq(Mids)
        /\ acknowledgedMIDs[t] \in Seq(Mids)
        /\ Len(stacks[t]) \in Nat /\ Len(triggeredMIDs[t]) \in Nat
        /\ Len(acknowledgedMIDs[t]) \in Nat /\ perfectFDMap \in Seq(Tasks)
        /\ schCount.req \in Nat /\ schCount.triggers \in Nat /\ schCount.completes \in Nat
        /\ schCount = [req |-> schCount.req, triggers |-> schCount.triggers,
                       completes |-> schCount.completes]
    BY SMTT(30) DEF TypeInv, TypeOK, SchTypeOK, Count, IfaceTypeOK, IpcTypeOK
  <1>1. UNCHANGED <<stacks, acknowledgedMIDs, pc>>
    BY DEF SchStep, SchInit, SchWait, SchTable, SchOwner, SchMark, SchXmit, SchNext, SchSpin,
       SchCheck, ifaceVars, ipcVars, taskVars
  <1>2. PlaceInv(t) /\ AckInv(t) /\ (Serving(t) => CountInv(t)) /\ (~Serving(t) => IdleInv(t))
    BY DEF TurnInv
  <1>3. ASSUME ~Serving(t), ~Serving(t)', state'[t] = state[t],
               \A m : Contains(triggeredMIDs[t], m) => Contains(triggeredMIDs'[t], m)
        PROVE  TurnInv(t)'
    BY <1>1, <1>2, <1>3 DEF TurnInv, PlaceInv, AckInv, IdleInv, Received, Completed
  <1>4. CASE SchInit \/ SchWait \/ SchTable \/ SchOwner \/ SchXmit
    <2>1. ~Serving(t) /\ ~Serving(t)' /\ UNCHANGED <<state, triggeredMIDs>>
      BY <1>4 DEF SchInit, SchWait, SchTable, SchOwner, SchXmit, GoSch, Serving, ifaceVars, ipcVars
    <2> QED
      BY <1>3, <2>1
  <1>5. CASE SchMark
    <2>1. ~Serving(t) /\ ~Serving(t)' /\ UNCHANGED state
      BY <1>5 DEF SchMark, GoSch, Serving
    <2>2. \/ UNCHANGED triggeredMIDs
          \/ triggeredMIDs' = [triggeredMIDs EXCEPT ![schTask] = Append(triggeredMIDs[schTask], schMid)]
      BY <1>5 DEF SchMark, MarkPipeAsTriggered
    <2>3. \A m : Contains(triggeredMIDs[t], m) => Contains(Append(triggeredMIDs[t], schMid), m)
      <3>1. schMid \in Mids
        BY <1>5, SimAssumption DEF SchMark, schMid, TypeInv, TypeOK, SchTypeOK, SchInv
      <3> QED
        BY <1>0, <3>1 DEF Contains
    <2>4. triggeredMIDs'[t] \in {triggeredMIDs[t], Append(triggeredMIDs[t], schMid)}
      BY <1>0, <2>2
    <2> QED
      BY <1>3, <2>1, <2>3, <2>4
  <1>6. CASE SchNext
    <2>1. schPc = "next" /\ UNCHANGED <<state, triggeredMIDs>> /\ ~Serving(t) /\ IdleInv(t)
      BY <1>2, <1>6 DEF SchNext, Serving, ipcVars
    <2>2. CASE perfectFDMap = <<>>
      <3>1. ~Serving(t)'
        BY <1>6, <2>2 DEF SchNext, GoSch, Serving
      <3> QED
        BY <1>3, <2>1, <3>1
    <2>3. CASE perfectFDMap # <<>>
      <3>1. /\ schPc' = "spin" /\ schTask' = Head(perfectFDMap)
            /\ schCount' = [req |-> Len(triggeredMIDs[schTask']), triggers |-> 0, completes |-> 0]
        BY <1>6, <2>3 DEF SchNext, GoSch, NoCount
      <3>2. CASE schTask' = t
        <4>1. CountInv(t)'
          <5>1. Received(t)' = Received(t) /\ Completed(t)' = Completed(t) /\ Received(t) \in Nat
            BY <2>1 DEF Received, Completed
          <5>2. Len(stacks[t]) = Received(t) /\ Len(acknowledgedMIDs[t]) = Received(t)
                /\ Completed(t) = 0
            BY <2>1 DEF IdleInv
          <5>3. schCount'.req = Len(triggeredMIDs[t]) /\ schCount'.triggers = 0
                /\ schCount'.completes = 0
            BY <3>1, <3>2
          <5> QED
            BY <1>0, <1>1, <2>1, <5>1, <5>2, <5>3 DEF CountInv
        <4>2. Serving(t)'
          BY <3>1, <3>2 DEF Serving
        <4>3. PlaceInv(t)' /\ AckInv(t)'
          BY <1>1, <1>2, <2>1 DEF PlaceInv, AckInv
        <4> QED
          BY <4>1, <4>2, <4>3 DEF TurnInv
      <3>3. CASE schTask' # t
        <4>1. ~Serving(t)'
          BY <3>3 DEF Serving
        <4> QED
          BY <1>3, <2>1, <4>1
      <3> QED
        BY <3>2, <3>3
    <2> QED
      BY <2>2, <2>3
  <1>7. CASE SchSpin
    <2>0. schPc = "spin" /\ UNCHANGED <<triggeredMIDs, schTask>>
      BY <1>7 DEF SchSpin
    <2>1. CASE schTask # t
      <3>1. state'[t] = state[t]
        BY <1>0, <1>7, <2>1 DEF SchSpin, Release, SetState
      <3>2. ~Serving(t) /\ ~Serving(t)'
        BY <2>0, <2>1 DEF Serving
      <3> QED
        BY <1>3, <2>0, <3>1, <3>2
    <2>2. CASE schTask = t /\ schCount.completes = schCount.req
      <3>1. schPc' = "next" /\ UNCHANGED state
        BY <1>7, <2>2 DEF SchSpin, GoSch
      <3>2. ~Serving(t)' /\ IdleInv(t)
        BY <2>0, <2>2, <3>1, AllCompleted DEF Serving
      <3> QED
        BY <1>1, <1>2, <2>0, <3>1, <3>2
           DEF TurnInv, PlaceInv, AckInv, IdleInv, Received, Completed
    <2>3. CASE schTask = t /\ schCount.completes # schCount.req
      <3>1. schPc' = "check" /\ Serving(t) /\ Serving(t)' /\ CountInv(t)
        BY <1>2, <1>7, <2>0, <2>3 DEF SchSpin, GoSch, Serving
      <3>2. \/ state'[t] = state[t] /\ schCount' = schCount
            \/ /\ state[t] = "TASK_DELAY" /\ state'[t] = "TASK_CONTINUE"
               /\ schCount' = schCount
            \/ /\ state[t] = "MSG_RCV" /\ state'[t] = "TASK_CONTINUE"
               /\ schCount' = [schCount EXCEPT !.triggers = schCount.triggers + 1]
            \/ /\ state[t] = "TASK_COMPLETE" /\ state'[t] = "TASK_CONTINUE"
               /\ schCount' = [schCount EXCEPT !.completes = schCount.completes + 1]
        BY <1>0, <1>7, <2>3 DEF SchSpin, Release, SetState, ReleaseDelay, ReleaseMessage,
           ReleaseComplete
      <3>3. PlaceInv(t)' /\ AckInv(t)'
        <4>1. state[t] = "TASK_DELAY" => pc[t] \in {"delaying", "polling"}
          BY DEF DelayedWaits
        <4> QED
          BY <1>1, <1>2, <2>0, <3>2, <4>1 DEF PlaceInv, AckInv
      <3>4. CountInv(t)'
        <4>1. CASE state'[t] = state[t] /\ schCount' = schCount
          BY <1>1, <2>0, <3>1, <4>1 DEF CountInv, Received, Completed
        <4>2. CASE /\ state[t] = "TASK_DELAY" /\ state'[t] = "TASK_CONTINUE"
                   /\ schCount' = schCount
          BY <1>1, <2>0, <3>1, <4>2 DEF CountInv, Received, Completed
        <4>3. CASE /\ state[t] = "MSG_RCV" /\ state'[t] = "TASK_CONTINUE"
                   /\ schCount' = [schCount EXCEPT !.triggers = schCount.triggers + 1]
          <5>1. Received(t) = 1 /\ Received(t)' = 0 /\ Completed(t) = 0 /\ Completed(t)' = 0
            BY <4>3 DEF Received, Completed
          <5>2. /\ schCount'.triggers = schCount.triggers + 1 /\ schCount'.req = schCount.req
                /\ schCount'.completes = schCount.completes
            BY <1>0, <4>3
          <5> QED
            BY <1>0, <1>1, <2>0, <3>1, <5>1, <5>2, SMTT(30) DEF CountInv
        <4>4. CASE /\ state[t] = "TASK_COMPLETE" /\ state'[t] = "TASK_CONTINUE"
                   /\ schCount' = [schCount EXCEPT !.completes = schCount.completes + 1]
          <5>1. Received(t) = 0 /\ Received(t)' = 0 /\ Completed(t) = 1 /\ Completed(t)' = 0
            BY <4>4 DEF Received, Completed
          <5>2. /\ schCount'.triggers = schCount.triggers /\ schCount'.req = schCount.req
                /\ schCount'.completes = schCount.completes + 1
            BY <1>0, <4>4
          <5> QED
            BY <1>0, <1>1, <2>0, <3>1, <5>1, <5>2 DEF CountInv
        <4> QED
          BY <3>2, <4>1, <4>2, <4>3, <4>4
      <3> QED
        BY <3>1, <3>3, <3>4 DEF TurnInv
    <2> QED
      BY <2>1, <2>2, <2>3
  <1>8. CASE SchCheck
    <2>0. schPc = "check" /\ schPc' = "spin" /\ UNCHANGED schTask
      BY <1>8 DEF SchCheck, GoSch
    <2>1. CASE schTask = t
      <3>1. UNCHANGED <<state, triggeredMIDs, schCount>>
        BY <1>8, <2>1 DEF SchCheck
      <3>2. Serving(t)' /\ Serving(t)
        BY <2>0, <2>1 DEF Serving
      <3> QED
        BY <1>1, <1>2, <3>1, <3>2 DEF TurnInv, PlaceInv, AckInv, CountInv, Received, Completed
    <2>2. CASE schTask # t
      <3>1. state'[t] = state[t] /\ triggeredMIDs'[t] = triggeredMIDs[t]
        BY <1>0, <1>8, <2>2 DEF SchCheck, WriteOff, SetState
      <3>2. ~Serving(t) /\ ~Serving(t)'
        BY <2>0, <2>2 DEF Serving
      <3> QED
        BY <1>3, <3>1, <3>2
    <2> QED
      BY <2>1, <2>2
  <1> QED
    BY <1>4, <1>5, <1>6, <1>7, <1>8 DEF SchStep

------------------------------------------------------------------------------
\* The tasks that wait for their turn

\* Where InsertAt puts the elements.
LEMMA InsertAtElements ==
  ASSUME NEW S, NEW s \in Seq(S), NEW i \in 1..(Len(s) + 1), NEW e \in S
  PROVE  /\ Len(InsertAt(s, i, e)) = Len(s) + 1
         /\ \A j \in 1..(Len(s) + 1) :
              InsertAt(s, i, e)[j] = IF j < i THEN s[j] ELSE IF j = i THEN e ELSE s[j - 1]
  <1> DEFINE front == SubSeq(s, 1, i - 1)
             back == SubSeq(s, i, Len(s))
  <1>0. Len(s) \in Nat
    OBVIOUS
  <1>1. /\ front \in Seq(S) /\ Len(front) = i - 1
        /\ \A j \in 1..(i - 1) : front[j] = s[j]
    BY <1>0
  <1>2. /\ back \in Seq(S) /\ Len(back) = Len(s) - i + 1
        /\ \A j \in 1..(Len(s) - i + 1) : back[j] = s[i + j - 1]
    BY <1>0
  <1>3. InsertAt(s, i, e) = (front \o <<e>>) \o back
    BY DEF InsertAt
  <1> HIDE DEF front, back
  <1>4. <<e>> \in Seq(S) /\ Len(<<e>>) = 1 /\ <<e>>[1] = e
    OBVIOUS
  <1>5. /\ front \o <<e>> \in Seq(S) /\ Len(front \o <<e>>) = i
        /\ \A j \in 1..i : (front \o <<e>>)[j] = IF j < i THEN s[j] ELSE e
    BY <1>1, <1>4
  <1> DEFINE head == front \o <<e>>
  <1>6. head \in Seq(S) /\ Len(head) = i /\ \A j \in 1..i : head[j] = IF j < i THEN s[j] ELSE e
    BY <1>5
  <1> HIDE DEF head
  <1>7. /\ Len(head \o back) = Len(s) + 1
        /\ \A j \in 1..(Len(s) + 1) :
             (head \o back)[j] = IF j <= i THEN head[j] ELSE back[j - i]
    <2>1. /\ Len(head \o back) = Len(head) + Len(back)
          /\ \A j \in 1..(Len(head) + Len(back)) :
               (head \o back)[j] = IF j <= Len(head) THEN head[j] ELSE back[j - Len(head)]
      BY <1>2, <1>6, ConcatProperties
    <2>2. Len(head) + Len(back) = Len(s) + 1
      BY <1>0, <1>2, <1>6
    <2> QED
      BY <1>6, <2>1, <2>2
  <1>8. InsertAt(s, i, e) = head \o back
    BY <1>3 DEF head
  <1> QED
    BY <1>0, <1>2, <1>6, <1>7, <1>8

\* An entry is inserted where it keeps them so, and none is lost.
LEMMA InsertKeepsOrder ==
  ASSUME perfectFDMap \in Seq(Tasks), NEW t \in Tasks, Insert(t), InOrder(perfectFDMap)
  PROVE  /\ InOrder(perfectFDMap')
         /\ \A u : Contains(perfectFDMap, u) \/ u = t => Contains(perfectFDMap', u)
  <1> DEFINE s == perfectFDMap
             n == Len(perfectFDMap)
  <1>0. s \in Seq(Tasks) /\ n \in Nat /\ Prio \in [Tasks -> Nat]
    BY InterfaceAssumption
  <1>1. PICK i \in 1..(n + 1) :
          /\ \A j \in 1..(i - 1) : Prio[s[j]] <= Prio[t]
          /\ i <= n => Prio[s[i]] > Prio[t]
          /\ perfectFDMap' = InsertAt(s, i, t)
    BY DEF Insert
  <1>2. /\ Len(perfectFDMap') = n + 1
        /\ \A j \in 1..(n + 1) :
             perfectFDMap'[j] = IF j < i THEN s[j] ELSE IF j = i THEN t ELSE s[j - 1]
    BY <1>0, <1>1, InsertAtElements
  <1>3. \A j, k \in 1..n : j < k => Prio[s[j]] <= Prio[s[k]]
    BY DEF InOrder
  <1>4. \A j \in 1..n : s[j] \in Tasks /\ Prio[s[j]] \in Nat
    BY <1>0
  <1>5. \A j \in i..n : Prio[s[j]] > Prio[t]
    <2> SUFFICES ASSUME NEW j \in i..n PROVE Prio[s[j]] > Prio[t]
      OBVIOUS
    <2>1. i \in 1..n /\ j \in 1..n /\ Prio[s[i]] > Prio[t]
      BY <1>0, <1>1
    <2>2. j = i \/ Prio[s[i]] <= Prio[s[j]]
      BY <1>0, <1>3, <2>1
    <2>3. Prio[t] \in Nat /\ Prio[s[i]] \in Nat /\ Prio[s[j]] \in Nat
      BY <1>0, <1>4, <2>1
    <2> QED
      BY <2>1, <2>2, <2>3
  <1> HIDE DEF s, n
  <1>6. ASSUME NEW j \in 1..(n + 1), NEW k \in 1..(n + 1), j < k
        PROVE  Prio[perfectFDMap'[j]] <= Prio[perfectFDMap'[k]]
    <2>1. CASE k < i
      <3>1. j \in 1..n /\ k \in 1..n /\ perfectFDMap'[j] = s[j] /\ perfectFDMap'[k] = s[k]
        BY <1>0, <1>1, <1>2, <1>6, <2>1
      <3> QED
        BY <1>3, <1>6, <3>1
    <2>2. CASE k = i
      <3>1. j \in 1..(i - 1) /\ perfectFDMap'[j] = s[j] /\ perfectFDMap'[k] = t
        BY <1>0, <1>1, <1>2, <1>6, <2>2
      <3> QED
        BY <1>1, <3>1
    <2>3. CASE k > i /\ j < i
      <3>1. /\ j \in 1..n /\ k - 1 \in 1..n /\ k - 1 \in i..n /\ j \in 1..(i - 1)
            /\ perfectFDMap'[j] = s[j] /\ perfectFDMap'[k] = s[k - 1]
        BY <1>0, <1>1, <1>2, <1>6, <2>3
      <3>2. Prio[s[j]] <= Prio[t] /\ Prio[s[k - 1]] > Prio[t]
        BY <1>1, <1>5, <3>1
      <3>3. Prio[s[j]] \in Nat /\ Prio[s[k - 1]] \in Nat /\ Prio[t] \in Nat
        BY <1>0, <1>4, <3>1
      <3> QED
        BY <3>1, <3>2, <3>3
    <2>4. CASE k > i /\ j = i
      <3>1. /\ k - 1 \in 1..n /\ k - 1 \in i..n
            /\ perfectFDMap'[j] = t /\ perfectFDMap'[k] = s[k - 1]
        BY <1>0, <1>1, <1>2, <1>6, <2>4
      <3>2. Prio[s[k - 1]] > Prio[t] /\ Prio[s[k - 1]] \in Nat /\ Prio[t] \in Nat
        BY <1>0, <1>4, <1>5, <3>1
      <3> QED
        BY <3>1, <3>2
    <2>5. CASE k > i /\ j > i
      <3>1. /\ j - 1 \in 1..n /\ k - 1 \in 1..n /\ j - 1 < k - 1
            /\ perfectFDMap'[j] = s[j - 1] /\ perfectFDMap'[k] = s[k - 1]
        BY <1>0, <1>1, <1>2, <1>6, <2>5
      <3> QED
        BY <1>3, <3>1
    <2> QED
      BY <1>0, <1>1, <1>6, <2>1, <2>2, <2>3, <2>4, <2>5
  <1>7. InOrder(perfectFDMap')
    BY <1>2, <1>6 DEF InOrder
  <1>8. ASSUME NEW u, Contains(perfectFDMap, u) \/ u = t PROVE Contains(perfectFDMap', u)
    <2>1. CASE u = t
      <3>1. i \in 1..(n + 1) /\ perfectFDMap'[i] = t
        BY <1>0, <1>1, <1>2
      <3> QED
        BY <1>2, <2>1, <3>1 DEF Contains
    <2>2. CASE Contains(perfectFDMap, u)
      <3>1. PICK j \in 1..n : s[j] = u
        BY <2>2 DEF Contains, s, n
      <3>2. CASE j < i
        <4>1. j \in 1..(n + 1) /\ perfectFDMap'[j] = u
          BY <1>0, <1>1, <1>2, <3>1, <3>2
        <4> QED
          BY <1>2, <4>1 DEF Contains
      <3>3. CASE j >= i
        <4>1. j + 1 \in 1..(n + 1) /\ perfectFDMap'[j + 1] = u
          BY <1>0, <1>1, <1>2, <3>1, <3>3
        <4> QED
          BY <1>2, <4>1 DEF Contains
      <3> QED
        BY <1>0, <1>1, <3>1, <3>2, <3>3
    <2> QED
      BY <1>8, <2>1, <2>2
  <1> QED
    BY <1>7, <1>8

\* The first entry is the next; the others stay in order behind it.
LEMMA TailKeepsOrder ==
  ASSUME NEW s \in Seq(Tasks), s # <<>>, InOrder(s)
  PROVE  /\ InOrder(Tail(s))
         /\ \A j \in 1..Len(Tail(s)) : Prio[Head(s)] <= Prio[Tail(s)[j]]
         /\ \A u : Contains(s, u) => u = Head(s) \/ Contains(Tail(s), u)
  <1>1. Len(s) \in Nat \ {0}
    BY EmptySeq
  <1>2. /\ Len(Tail(s)) = Len(s) - 1 /\ Head(s) = s[1]
        /\ \A j \in 1..(Len(s) - 1) : Tail(s)[j] = s[j + 1]
    BY <1>1
  <1>3. InOrder(Tail(s))
    BY <1>1, <1>2 DEF InOrder
  <1>4. \A j \in 1..Len(Tail(s)) : Prio[Head(s)] <= Prio[Tail(s)[j]]
    BY <1>1, <1>2 DEF InOrder
  <1>5. ASSUME NEW u, Contains(s, u) PROVE u = Head(s) \/ Contains(Tail(s), u)
    <2>1. PICK j \in 1..Len(s) : s[j] = u
      BY <1>5 DEF Contains
    <2>2. CASE j = 1
      BY <1>2, <2>1, <2>2
    <2>3. CASE j # 1
      <3>1. j - 1 \in 1..(Len(s) - 1) /\ Tail(s)[j - 1] = u
        BY <1>1, <1>2, <2>1, <2>3
      <3> QED
        BY <1>2, <3>1 DEF Contains
    <2> QED
      BY <2>2, <2>3
  <1> QED
    BY <1>3, <1>4, <1>5

LEMMA NextMapInv ==
  ASSUME TypeInv, PerfectMode, MapInv, [Next]_vars
  PROVE  MapInv'
  <1>0. perfectFDMap \in Seq(Tasks) /\ schTask \in Tasks
    BY DEF TypeInv, TypeOK, SchTypeOK, IfaceTypeOK
  <1>1. ASSUME UNCHANGED <<perfectFDMap, schPc, schTask>> PROVE MapInv'
    BY <1>1 DEF MapInv
  <1>2. ASSUME NEW t \in Tasks, TaskStep(t) PROVE MapInv'
    BY <1>1, <1>2 DEF TaskStep, TaskQueueGet, TaskDelay, TaskGetAgain, TaskReceive, TaskExpire,
       TaskEmpty, TaskPoll, TaskAck, TaskKeepWaiting, TaskContinue, ifaceVars, schVars
  <1>3. CASE MainStep \/ Environment \/ UNCHANGED vars
    BY <1>1, <1>3 DEF MainStep, MainRead, MainTestNext, MainTestWait, MainWoken, MainWaitOn,
       MainGiveUp, MainCycle, MainUpdate, MainTrigger, Environment, MainTimer, Spurious, Publish,
       StopApp, Exit, vars, ifaceVars, schVars
  <1>4. CASE SchInit \/ SchWait \/ SchTable \/ SchOwner \/ SchXmit
    <2>1. /\ UNCHANGED perfectFDMap /\ schPc' \notin {"spin", "check"}
          /\ schPc' = "wait" => schPc = "wait"
      BY <1>4 DEF SchInit, SchWait, SchTable, SchOwner, SchXmit, GoSch, ifaceVars
    <2> QED
      BY <2>1 DEF MapInv
  <1>5. CASE SchMark
    <2>1. UNCHANGED perfectFDMap \/ Insert(schTask)
      BY <1>5 DEF SchMark, MarkPipeAsTriggered
    <2>2. InOrder(perfectFDMap')
      BY <1>0, <2>1, InsertKeepsOrder DEF MapInv
    <2>3. schPc' = "owner"
      BY <1>5 DEF SchMark, GoSch
    <2> QED
      BY <2>2, <2>3 DEF MapInv
  <1>6. CASE SchNext
    <2>1. CASE perfectFDMap = <<>>
      <3>1. schPc' = "wait" /\ UNCHANGED perfectFDMap
        BY <1>6, <2>1 DEF SchNext, GoSch
      <3> QED
        BY <2>1, <3>1 DEF MapInv
    <2>2. CASE perfectFDMap # <<>>
      <3>1. /\ schPc' = "spin" /\ schTask' = Head(perfectFDMap)
            /\ perfectFDMap' = Tail(perfectFDMap)
        BY <1>6, <2>2 DEF SchNext, GoSch
      <3>2. /\ InOrder(Tail(perfectFDMap))
            /\ \A j \in 1..Len(Tail(perfectFDMap)) :
                 Prio[Head(perfectFDMap)] <= Prio[Tail(perfectFDMap)[j]]
        BY <1>0, <2>2, TailKeepsOrder DEF MapInv
      <3> QED
        BY <3>1, <3>2 DEF MapInv
    <2> QED
      BY <2>1, <2>2
  <1>7. CASE SchSpin \/ SchCheck
    <2>1. /\ UNCHANGED <<perfectFDMap, schTask>> /\ schPc \in {"spin", "check"}
          /\ schPc' \in {"spin", "check", "next"}
      BY <1>7 DEF SchSpin, SchCheck, GoSch
    <2> QED
      BY <2>1 DEF MapInv
  <1> QED
    BY <1>2, <1>3, <1>4, <1>5, <1>6, <1>7 DEF Next, SchStep

\* A task has triggers only from the time it is queued for to the end of its turn.
LEMMA NextTriggeredInMap ==
  ASSUME TypeInv, PerfectMode, NoWait, MapInv, NEW t \in Tasks, appRunning[t],
         TurnInv(t), TriggeredInMap(t), [Next]_vars
  PROVE  TriggeredInMap(t)'
  <1>0. /\ perfectFDMap \in Seq(Tasks) /\ schTask \in Tasks
        /\ triggeredMIDs \in [Tasks -> Seq(Mids)]
    BY DEF TypeInv, TypeOK, SchTypeOK, IfaceTypeOK, IpcTypeOK
  <1>1. ASSUME UNCHANGED <<perfectFDMap, schPc, schTask>>,
               triggeredMIDs[t] = <<>> => triggeredMIDs'[t] = <<>>
        PROVE  TriggeredInMap(t)'
    BY <1>1 DEF TriggeredInMap, Serving
  <1>2. ASSUME NEW u \in Tasks, TaskStep(u) PROVE TriggeredInMap(t)'
    <2>1. UNCHANGED <<perfectFDMap, schPc, schTask>>
      BY <1>2 DEF TaskStep, TaskQueueGet, TaskDelay, TaskGetAgain, TaskReceive, TaskExpire,
         TaskEmpty, TaskPoll, TaskAck, TaskKeepWaiting, TaskContinue, ifaceVars, schVars
    <2>2. CASE u # t
      BY <1>1, <1>2, <2>1, <2>2, TaskLeavesOthers
    <2>3. CASE u = t
      <3>1. UNCHANGED triggeredMIDs \/ FinishMessage(t)
        BY <1>2, <2>3 DEF TaskStep, TaskQueueGet, TaskGetAgain, TaskReceive, TaskExpire, TaskEmpty,
           TaskPoll, TaskDelay, TaskAck, TaskKeepWaiting, TaskContinue, BeginReceive, BeginDelay,
           MarkPipeAsComplete, AddTaskDelay, AddTaskDelaySkipped, AcknowledgePipeTrigger,
           KeepWaiting, Continue, ContinueAfterDelay, ifaceVars, ipcVars
      <3>2. triggeredMIDs[t] = <<>> => UNCHANGED triggeredMIDs
        BY <3>1 DEF FinishMessage, Contains
      <3> QED
        BY <1>1, <2>1, <3>2
    <2> QED
      BY <2>2, <2>3
  <1>3. CASE MainStep \/ Environment \/ UNCHANGED vars
    <2>1. UNCHANGED <<perfectFDMap, schPc, schTask, triggeredMIDs>>
      BY <1>3 DEF NoWait, MainStep, MainRead, MainTestNext, MainTestWait, MainWoken, MainWaitOn,
         MainGiveUp, MainCycle, MainUpdate, UpdateTaskTime, MainTrigger, Environment, MainTimer,
         Spurious, Publish, StopApp, Exit, vars, ifaceVars, ipcVars, schVars
    <2> QED
      BY <1>1, <2>1
  <1>4. CASE SchInit \/ SchWait \/ SchTable \/ SchOwner \/ SchXmit
    <2>1. UNCHANGED <<perfectFDMap, triggeredMIDs>> /\ schPc \notin {"spin", "check"}
      BY <1>4 DEF SchInit, SchWait, SchTable, SchOwner, SchXmit, ifaceVars, ipcVars
    <2> QED
      BY <2>1 DEF TriggeredInMap, Serving
  <1>5. CASE SchMark
    <2>1. schPc = "mark" /\ MarkPipeAsTriggered(schTask, schMid)
      BY <1>5 DEF SchMark
    <2>2. CASE UNCHANGED <<perfectFDMap, triggeredMIDs>>
      BY <2>1, <2>2 DEF TriggeredInMap, Serving
    <2>3. CASE /\ triggeredMIDs' = [triggeredMIDs EXCEPT ![schTask] = Append(triggeredMIDs[schTask], schMid)]
               /\ Insert(schTask)
      <3>1. \A u : Contains(perfectFDMap, u) \/ u = schTask => Contains(perfectFDMap', u)
        BY <1>0, <2>3, InsertKeepsOrder DEF MapInv
      <3>2. schTask = t \/ triggeredMIDs'[t] = triggeredMIDs[t]
        BY <1>0, <2>3
      <3> QED
        BY <2>1, <3>1, <3>2 DEF TriggeredInMap, Serving
    <2> QED
      BY <2>1, <2>2, <2>3 DEF MarkPipeAsTriggered
  <1>6. CASE SchNext
    <2>1. schPc = "next" /\ UNCHANGED triggeredMIDs
      BY <1>6 DEF SchNext, ipcVars
    <2>2. triggeredMIDs[t] # <<>> => Contains(perfectFDMap, t)
      BY <2>1 DEF TriggeredInMap, Serving
    <2>3. CASE perfectFDMap = <<>>
      <3>1. ~Contains(perfectFDMap, t)
        BY <2>3 DEF Contains
      <3> QED
        BY <2>1, <2>2, <3>1 DEF TriggeredInMap
    <2>4. CASE perfectFDMap # <<>>
      <3>1. /\ schPc' = "spin" /\ schTask' = Head(perfectFDMap)
            /\ perfectFDMap' = Tail(perfectFDMap)
        BY <1>6, <2>4 DEF SchNext, GoSch
      <3>2. Contains(perfectFDMap, t) => t = Head(perfectFDMap) \/ Contains(Tail(perfectFDMap), t)
        BY <1>0, <2>4, TailKeepsOrder DEF MapInv
      <3> QED
        BY <2>1, <2>2, <3>1, <3>2 DEF TriggeredInMap, Serving
    <2> QED
      BY <2>3, <2>4
  <1>7. CASE SchSpin
    <2>1. /\ UNCHANGED <<perfectFDMap, schTask, triggeredMIDs>> /\ schPc = "spin"
          /\ schPc' = IF schCount.completes = schCount.req THEN "next" ELSE "check"
      BY <1>7 DEF SchSpin, GoSch
    <2>2. CASE schCount.completes = schCount.req
      <3>1. Serving(t) => triggeredMIDs[t] = <<>>
        BY <2>2, AllCompleted
      <3> QED
        BY <2>1, <3>1 DEF TriggeredInMap
    <2>3. CASE schCount.completes # schCount.req
      BY <2>1, <2>3 DEF TriggeredInMap, Serving
    <2> QED
      BY <2>2, <2>3
  <1>8. CASE SchCheck
    <2>1. UNCHANGED <<perfectFDMap, schTask>> /\ schPc = "check" /\ schPc' = "spin"
      BY <1>8 DEF SchCheck, GoSch
    <2>2. triggeredMIDs'[t] = triggeredMIDs[t]
      BY <1>0, <1>8 DEF SchCheck, WriteOff
    <2> QED
      BY <2>1, <2>2 DEF TriggeredInMap, Serving
  <1> QED
    BY <1>2, <1>3, <1>4, <1>5, <1>6, <1>7, <1>8 DEF Next, SchStep

LEMMA NextTurnInv ==
  ASSUME TypeInv, PerfectMode, DelayedWaits, NoWait, NEW t \in Tasks, appRunning[t],
         TurnInv(t), [Next]_vars
  PROVE  TurnInv(t)'
  <1>1. CASE MainStep \/ MainTimer
    BY <1>1, MainTurnsInv
  <1>2. CASE SchStep
    BY <1>2, SchTurnInv
  <1>3. ASSUME NEW u \in Tasks, TaskStep(u) PROVE TurnInv(t)'
    <2>1. CASE u = t
      BY <1>3, <2>1, TaskTurnInv
    <2>2. CASE u # t
      <3>1. UNCHANGED <<schPc, schTask, schCount>>
        BY <1>3 DEF TaskStep, TaskQueueGet, TaskDelay, TaskGetAgain, TaskReceive, TaskExpire,
           TaskEmpty, TaskPoll, TaskAck, TaskKeepWaiting, TaskContinue, schVars
      <3>2. /\ state'[t] = state[t] /\ triggeredMIDs'[t] = triggeredMIDs[t]
            /\ stacks'[t] = stacks[t] /\ acknowledgedMIDs'[t] = acknowledgedMIDs[t]
            /\ pc'[t] = pc[t]
        BY <1>3, <2>2, TaskLeavesOthers, TaskLeavesOthersAsleep
      <3> QED
        BY <3>1, <3>2, TurnInvUnchanged
    <2> QED
      BY <2>1, <2>2
  <1>4. CASE (Environment /\ ~MainTimer) \/ UNCHANGED vars
    <2>1. UNCHANGED <<state, triggeredMIDs, stacks, acknowledgedMIDs, pc, schPc, schTask, schCount>>
      BY <1>4 DEF Environment, Spurious, Publish, StopApp, Exit, vars, ifaceVars, ipcVars,
         schVars, taskVars
    <2> QED
      BY <2>1, TurnInvUnchanged
  <1> QED
    BY <1>1, <1>2, <1>3, <1>4 DEF Next, Environment

\* No app that has been stopped runs again.
LEMMA StoppedForGood ==
  ASSUME TypeInv, [Next]_vars, NEW t \in Tasks, appRunning'[t]
  PROVE  appRunning[t]
  <1>1. UNCHANGED appRunning \/ \E u \in Tasks : StopApp(u)
    BY DEF Next, MainStep, MainRead, MainTestNext, MainTestWait, MainWoken, MainWaitOn, MainGiveUp,
       MainCycle, MainUpdate, MainTrigger, SchStep, SchInit, SchWait, SchTable, SchOwner, SchMark,
       SchXmit, SchNext, SchSpin, SchCheck, TaskStep, TaskQueueGet, TaskDelay, TaskGetAgain,
       TaskReceive, TaskExpire, TaskEmpty, TaskPoll, TaskAck, TaskKeepWaiting, TaskContinue,
       Environment, MainTimer, Spurious, Publish, Exit, vars, ifaceVars
  <1>2. appRunning \in [Tasks -> BOOLEAN]
    BY DEF TypeInv, TypeOK, IfaceTypeOK
  <1> QED
    BY <1>1, <1>2 DEF StopApp

LEMMA NextTurnsInv ==
  ASSUME TypeInv, PerfectMode, DelayedWaits, NoWait, TurnsInv, [Next]_vars
  PROVE  TurnsInv'
  <1>1. MapInv'
    BY NextMapInv DEF TurnsInv
  <1>2. ASSUME NEW t \in Tasks, appRunning'[t] PROVE TurnInv(t)' /\ TriggeredInMap(t)'
    <2>1. appRunning[t]
      BY <1>2, StoppedForGood
    <2>2. MapInv /\ TurnInv(t) /\ TriggeredInMap(t)
      BY <2>1 DEF TurnsInv
    <2> QED
      BY <2>1, <2>2, NextTurnInv, NextTriggeredInMap
  <1> QED
    BY <1>1, <1>2 DEF TurnsInv

LEMMA InitTurnsInv == Init => TurnsInv
  <1> SUFFICES ASSUME Init PROVE TurnsInv
    OBVIOUS
  <1>1. MapInv
    BY DEF Init, IfaceInit, MapInv, InOrder
  <1>2. ASSUME NEW t \in Tasks PROVE TurnInv(t) /\ TriggeredInMap(t)
    <2>1. /\ state[t] = "NONE" /\ triggeredMIDs[t] = <<>> /\ stacks[t] = <<>>
          /\ acknowledgedMIDs[t] = <<>> /\ pc[t] = "app" /\ schPc = "init"
      BY DEF Init, IfaceInit
    <2>2. Received(t) = 0 /\ Completed(t) = 0 /\ ~Serving(t)
      BY <2>1 DEF Received, Completed, Serving
    <2> QED
      BY <2>1, <2>2 DEF TurnInv, PlaceInv, AckInv, IdleInv, TriggeredInMap
  <1> QED
    BY <1>1, <1>2 DEF TurnsInv

\* With perfect scheduling the turns are kept: what signalMainAppComplete has counted
\* agrees with the lists of the task whose turn it is, every other task has nothing
\* received but the message it waits with, and tasks with triggers are queued in the
\* order of their priorities.
THEOREM TurnsInvariance ==
  ASSUME PerfectMode
  PROVE  Spec => [](TypeInv /\ DelayedWaits /\ NoWait /\ TurnsInv)
  <1>1. Init => DelayedWaits /\ NoWait /\ TurnsInv
    BY InitTurnsInv DEF Init, IfaceInit, DelayedWaits, NoWait
  <1>2. TypeInv /\ DelayedWaits /\ NoWait /\ TurnsInv /\ [Next]_vars
          => (DelayedWaits /\ NoWait /\ TurnsInv)'
    BY NextDelayedWaits, NextNoWait, NextTurnsInv
  <1> QED
    BY <1>1, <1>2, TypeInvariance, PTL DEF Spec

\* One CPU: with perfect scheduling at most one running app works on a message of the
\* scheduler, the one whose turn it is, and none of a higher priority has one left.
THEOREM OneAtATimeHolds ==
  ASSUME PerfectMode
  PROVE  Spec => []OneAtATime
  <1>1. ASSUME TypeInv, TurnsInv, NEW t \in Tasks, Working(t), appRunning[t]
        PROVE  /\ schPc \in {"spin", "check"} /\ schTask = t
               /\ \A u \in Tasks : appRunning[u] /\ Prio[u] < Prio[t] => triggeredMIDs[u] = <<>>
    <2>1. TurnInv(t) /\ MapInv
      BY <1>1 DEF TurnsInv
    <2>2. Serving(t)
      <3>1. ASSUME ~Serving(t) PROVE FALSE
        <4>1. Len(stacks[t]) = Received(t)
          BY <2>1, <3>1 DEF TurnInv, IdleInv
        <4>2. stacks[t] \in Seq(Sites) /\ stacks[t] # <<>>
          BY <1>1 DEF Working, TypeInv, TypeOK, IfaceTypeOK, IpcTypeOK
        <4>3. Len(stacks[t]) # 0
          BY <4>2, EmptySeq
        <4>4. state[t] = "MSG_RCV"
          BY <4>1, <4>3 DEF Received
        <4> QED
          BY <1>1, <2>1, <4>4 DEF TurnInv, PlaceInv, Working
      <3> QED
        BY <3>1
    <2>3. ASSUME NEW u \in Tasks, appRunning[u], Prio[u] < Prio[t] PROVE triggeredMIDs[u] = <<>>
      <3>1. Prio[u] \in Nat /\ Prio[t] \in Nat
        BY InterfaceAssumption
      <3>2. u # t /\ ~Serving(u)
        BY <2>2, <2>3, <3>1 DEF Serving
      <3>3. ~Contains(perfectFDMap, u)
        BY <2>1, <2>2, <2>3, <3>1 DEF MapInv, Serving, Contains
      <3> QED
        BY <1>1, <2>3, <3>2, <3>3 DEF TurnsInv, TriggeredInMap
    <2> QED
      BY <2>2, <2>3 DEF Serving
  <1>2. TypeInv /\ TurnsInv => OneAtATime
    BY <1>1 DEF OneAtATime
  <1>3. Spec => [](TypeInv /\ DelayedWaits /\ NoWait /\ TurnsInv)
    BY TurnsInvariance
  <1> QED
    BY <1>2, <1>3, PTL

\* With perfect scheduling the main thread goes on when every turn has been taken.
LEMMA TurnsBarrier ==
  ASSUME TypeInv, OneBaton, TurnsInv, PerfectMode
  PROVE  FrameBarrier
  <1> SUFFICES ASSUME mainPc = "idle", NEW t \in Tasks, appRunning[t]
               PROVE  triggeredMIDs[t] = <<>> /\ stacks[t] = <<>>
    BY DEF FrameBarrier
  <1>0. /\ stacks[t] \in Seq(Sites) /\ isMainCompleteTrigger \in Nat /\ triggerMain \in Nat
        /\ acknowledgedMIDs[t] \in Seq(Mids)
    BY DEF TypeInv, TypeOK, IfaceTypeOK, IpcTypeOK
  <1>1. schPc = "wait"
    BY <1>0 DEF OneBaton
  <1>2. perfectFDMap = <<>> /\ TurnInv(t) /\ TriggeredInMap(t) /\ ~Serving(t)
    BY <1>1 DEF TurnsInv, MapInv, Serving
  <1>3. triggeredMIDs[t] = <<>>
    BY <1>2 DEF TriggeredInMap, Contains
  <1>4. acknowledgedMIDs[t] = <<>> /\ Len(acknowledgedMIDs[t]) = 0
    BY <1>0, <1>2, <1>3, EmptySeq DEF TurnInv, AckInv, Contains
  <1>5. Len(stacks[t]) = 0
    BY <1>2, <1>4 DEF TurnInv, IdleInv
  <1> QED
    BY <1>0, <1>3, <1>5, EmptySeq

\* Simulated time stands still until every running app is in a delay or has finished
\* what the scheduler sent it, in either mode and whatever the timer does: a wait for
\* good leaves no call site open, a shorter one may leave those it gave up on.
THEOREM FrameBarrierHolds == Spec => []FrameBarrier
  <1>1. CASE PerfectMode
    <2>1. Spec => [](TypeInv /\ DelayedWaits /\ NoWait /\ TurnsInv)
      BY <1>1, TurnsInvariance
    <2>2. TypeInv /\ OneBaton /\ TurnsInv => FrameBarrier
      BY <1>1, TurnsBarrier
    <2> QED
      BY <2>1, <2>2, OneBatonHolds, PTL
  <1>2. CASE ~PerfectMode
    BY <1>2, ClockedFrameBarrier
  <1> QED
    BY <1>1, <1>2

------------------------------------------------------------------------------
\* Who ends a delay

\* Outside perfect mode the SCH thread takes no turns.
NoTurns == perfectFDMap = <<>> /\ schPc \notin {"spin", "check"}

LEMMA NextNoTurns ==
  ASSUME ~PerfectMode, NoTurns, [Next]_vars
  PROVE  NoTurns'
  <1>1. UNCHANGED <<perfectFDMap, schPc>> \/ SchStep
    BY DEF Next, MainStep, MainRead, MainTestNext, MainTestWait, MainWoken, MainWaitOn, MainGiveUp,
       MainCycle, MainUpdate, MainTrigger, TaskStep, TaskQueueGet, TaskDelay, TaskGetAgain,
       TaskReceive, TaskExpire, TaskEmpty, TaskPoll, TaskAck, TaskKeepWaiting, TaskContinue,
       Environment, MainTimer, Spurious, Publish, StopApp, Exit, vars, ifaceVars, schVars
  <1>2. CASE SchStep
    BY <1>2 DEF NoTurns, SchStep, SchInit, SchWait, SchTable, SchOwner, SchMark, SchXmit, SchNext,
       SchSpin, SchCheck, GoSch, MarkPipeAsTriggered, ifaceVars
  <1> QED
    BY <1>1, <1>2 DEF NoTurns

\* Only updateTaskTimes and the SCH thread, in the turn of the task, end a delay.
LEMMA DelayEnders ==
  ASSUME TypeInv, DelayedWaits, [Next]_vars,
         NEW t \in Tasks, state[t] = "TASK_DELAY", state'[t] # "TASK_DELAY", appRunning[t]
  PROVE  \/ ReleasedByMain(t) /\ usRemaining[t] <= CycleTics
         \/ schPc = "spin" /\ schTask = t /\ schCount.completes # schCount.req
  <1>0. /\ state \in [Tasks -> TaskState] /\ ii \in 0..NumTasks /\ schTask \in Tasks
        /\ usRemaining \in [Tasks -> Int] /\ CycleTics \in Nat /\ NumTasks \in Nat
    BY InterfaceAssumption DEF TypeInv, TypeOK, MainTypeOK, SchTypeOK, IfaceTypeOK, IpcTypeOK
  <1>1. CASE MainStep
    <2>1. MainUpdate
      BY <1>1 DEF MainStep, MainRead, MainTestNext, MainTestWait, MainWoken, MainWaitOn, MainGiveUp,
         MainCycle, MainTrigger, ifaceVars, ipcVars
    <2>2. mainPc = "update" /\ ii \in Tasks /\ UpdateTaskTime(ii)
      BY <1>0, <2>1 DEF MainUpdate, Tasks
    <2>3. ii = t /\ ~(CountDown(usRemaining[t]) > 0)
      BY <1>0, <2>2 DEF UpdateTaskTime, SetState
    <2> QED
      BY <1>0, <2>2, <2>3 DEF CountDown, ReleasedByMain
  <1>2. CASE SchStep
    <2>1. \/ SchSpin
          \/ SchCheck /\ ~appRunning[schTask] /\ WriteOff(schTask)
      BY <1>2 DEF SchStep, SchInit, SchWait, SchTable, SchOwner, SchMark, SchXmit, SchNext,
         SchCheck, ifaceVars, ipcVars
    <2>2. schTask = t
      BY <1>0, <2>1 DEF SchSpin, Release, WriteOff, SetState
    <2> QED
      BY <2>1, <2>2 DEF SchSpin
  <1>3. ASSUME NEW u \in Tasks, TaskStep(u) PROVE FALSE
    <2>1. u = t
      BY <1>3, TaskLeavesOthers
    <2>2. pc[t] \in {"delaying", "polling"} /\ ~MayContinue(t)
      BY DEF DelayedWaits, MayContinue
    <2>3. TaskKeepWaiting(t)
      BY <1>3, <2>1, <2>2 DEF TaskStep, TaskQueueGet, TaskDelay, TaskGetAgain, TaskReceive,
         TaskExpire, TaskEmpty, TaskPoll, TaskAck, TaskContinue, ContinueAfterDelay, Continue
    <2> QED
      BY <2>3 DEF TaskKeepWaiting, KeepWaiting
  <1>4. CASE Environment \/ UNCHANGED vars
    BY <1>4 DEF Environment, MainTimer, Spurious, Publish, StopApp, Exit, vars, ifaceVars, ipcVars
  <1> QED
    BY <1>1, <1>2, <1>3, <1>4 DEF Next

\* While its count of completions is short the task has something left to do.
LEMMA TurnHasWork ==
  ASSUME TypeInv, NEW t \in Tasks, TurnInv(t), Serving(t), state[t] = "TASK_DELAY",
         schCount.completes # schCount.req
  PROVE  ~NothingToDo(t)
  <1> SUFFICES ASSUME NothingToDo(t) PROVE FALSE
    OBVIOUS
  <1>1. /\ schCount.req \in Nat /\ schCount.triggers \in Nat /\ schCount.completes \in Nat
        /\ acknowledgedMIDs[t] \in Seq(Mids)
    BY DEF TypeInv, TypeOK, SchTypeOK, Count, IfaceTypeOK, IpcTypeOK
  <1>2. Len(stacks[t]) = 0 /\ Len(triggeredMIDs[t]) = 0 /\ Len(acknowledgedMIDs[t]) = 0
    BY <1>1, EmptySeq DEF NothingToDo, TurnInv, AckInv
  <1>3. Received(t) = 0 /\ Completed(t) = 0
    BY DEF Received, Completed
  <1>4. CountInv(t)
    BY DEF TurnInv
  <1>5. schCount.triggers = schCount.completes
    BY <1>1, <1>2, <1>3, <1>4 DEF CountInv
  <1>6. schCount.req = schCount.triggers
    <2>1. 0 = schCount.req - schCount.triggers - 0 + 0
      BY <1>2, <1>3, <1>4, Zenon DEF CountInv
    <2> QED
      BY <1>1, <2>1
  <1> QED
    BY <1>5, <1>6

\* The delay of a running app ends by simulated time or, with perfect scheduling only,
\* because its turn has come while something is left for it to do.
THEOREM DelayEndsForCauseHolds == Spec => DelayEndsForCause
  <1>1. CASE PerfectMode
    <2>1. TypeInv /\ DelayedWaits /\ TurnsInv /\ [Next]_vars =>
            [\A t \in Tasks :
               state[t] = "TASK_DELAY" /\ state'[t] # "TASK_DELAY" /\ appRunning[t]
                 => \/ ReleasedByMain(t) /\ usRemaining[t] <= CycleTics
                    \/ PerfectMode /\ schPc = "spin" /\ schTask = t /\ ~NothingToDo(t)]_vars
      <3> SUFFICES ASSUME TypeInv, DelayedWaits, TurnsInv, [Next]_vars, NEW t \in Tasks,
                          state[t] = "TASK_DELAY", state'[t] # "TASK_DELAY", appRunning[t]
                   PROVE  \/ ReleasedByMain(t) /\ usRemaining[t] <= CycleTics
                          \/ schPc = "spin" /\ schTask = t /\ ~NothingToDo(t)
        BY <1>1
      <3>1. \/ ReleasedByMain(t) /\ usRemaining[t] <= CycleTics
            \/ schPc = "spin" /\ schTask = t /\ schCount.completes # schCount.req
        BY DelayEnders
      <3>2. TurnInv(t)
        BY DEF TurnsInv
      <3> QED
        BY <3>1, <3>2, TurnHasWork DEF Serving
    <2>2. Spec => [](TypeInv /\ DelayedWaits /\ NoWait /\ TurnsInv)
      BY <1>1, TurnsInvariance
    <2> QED
      BY <2>1, <2>2, PTL DEF Spec, DelayEndsForCause
  <1>2. CASE ~PerfectMode
    <2>1. Init => NoTurns /\ DelayedWaits
      BY DEF Init, IfaceInit, NoTurns, DelayedWaits
    <2>2. TypeInv /\ NoTurns /\ DelayedWaits /\ [Next]_vars => (NoTurns /\ DelayedWaits)'
      BY <1>2, NextNoTurns, NextDelayedWaits
    <2>3. TypeInv /\ NoTurns /\ DelayedWaits /\ [Next]_vars =>
            [\A t \in Tasks :
               state[t] = "TASK_DELAY" /\ state'[t] # "TASK_DELAY" /\ appRunning[t]
                 => \/ ReleasedByMain(t) /\ usRemaining[t] <= CycleTics
                    \/ PerfectMode /\ schPc = "spin" /\ schTask = t /\ ~NothingToDo(t)]_vars
      BY DelayEnders DEF NoTurns
    <2> QED
      BY <2>1, <2>2, <2>3, TypeInvariance, PTL DEF Spec, DelayEndsForCause
  <1> QED
    BY <1>1, <1>2

\* Outside perfect scheduling only simulated time ends the delay of a running app, and
\* only when it is due.
THEOREM DelayEndsInTimeHolds ==
  ASSUME ~PerfectMode
  PROVE  Spec => DelayEndsInTime
  <1>1. Init => NoTurns /\ DelayedWaits
    BY DEF Init, IfaceInit, NoTurns, DelayedWaits
  <1>2. TypeInv /\ NoTurns /\ DelayedWaits /\ [Next]_vars => (NoTurns /\ DelayedWaits)'
    BY NextNoTurns, NextDelayedWaits
  <1>3. TypeInv /\ NoTurns /\ DelayedWaits /\ [Next]_vars =>
          [\A t \in Tasks :
             state[t] = "TASK_DELAY" /\ state'[t] # "TASK_DELAY" /\ appRunning[t]
               => ReleasedByMain(t) /\ usRemaining[t] <= CycleTics]_vars
    BY DelayEnders DEF NoTurns
  <1> QED
    BY <1>1, <1>2, <1>3, TypeInvariance, PTL DEF Spec, DelayEndsInTime

\* The delay is as long as the app has asked for where a tic of simulated time is a
\* millisecond: the unit is all that is wrong with it elsewhere.
THEOREM DelayHonouredInTics ==
  ASSUME TicsPerMs = 1
  PROVE  Spec => DelayHonoured
  <1>1. ASSUME TypeInv, OneBaton, [Next]_vars, NEW t \in Tasks, state[t] = "TASK_DELAY",
               state'[t] = "TASK_CONTINUE", ReleasedByMain(t)
        PROVE  usRemaining[t] <= CycleTics
    <2>0. /\ state \in [Tasks -> TaskState] /\ ii \in 0..NumTasks /\ t \in 0..(NumTasks - 1)
          /\ usRemaining \in [Tasks -> Int] /\ CycleTics \in Nat /\ NumTasks \in Nat
      BY <1>1, InterfaceAssumption DEF TypeInv, TypeOK, MainTypeOK, IfaceTypeOK, IpcTypeOK, Tasks
    <2>1. ~SchStep
      BY <1>1, SchAsleep DEF ReleasedByMain
    <2>2. ASSUME NEW u \in Tasks, TaskStep(u) PROVE FALSE
      <3>1. u = t
        BY <1>1, <2>2, TaskLeavesOthers
      <3>2. ASSUME NEW c, BeginReceive(t, c) PROVE FALSE
        BY <1>1, <2>0, <3>2 DEF BeginReceive, MarkPipeAsComplete, SetState
      <3>3. ASSUME NEW ms, NEW at, NEW after, BeginDelay(t, ms, at, after) PROVE FALSE
        BY <1>1, <2>0, <3>3 DEF BeginDelay, AddTaskDelay, AddTaskDelaySkipped, SetState, ipcVars
      <3> QED
        BY <1>1, <2>0, <2>2, <3>1, <3>2, <3>3 DEF TaskStep, TaskQueueGet, TaskDelay, TaskGetAgain,
           TaskReceive, TaskExpire, TaskEmpty, TaskPoll, TaskAck, TaskKeepWaiting, TaskContinue,
           AcknowledgePipeTrigger, KeepWaiting, Continue, ContinueAfterDelay, SetState, ifaceVars,
           ipcVars
    <2>3. CASE MainStep
      <3>1. MainUpdate
        BY <1>1, <2>3 DEF MainStep, MainRead, MainTestNext, MainTestWait, MainWoken, MainWaitOn,
           MainGiveUp, MainCycle, MainTrigger, ifaceVars, ipcVars
      <3>2. UpdateTaskTime(t)
        BY <1>1, <3>1 DEF MainUpdate, ReleasedByMain
      <3> QED
        BY <1>1, <2>0, <3>2 DEF UpdateTaskTime, CountDown
    <2>4. ~(Environment \/ UNCHANGED vars)
      BY <1>1 DEF Environment, MainTimer, Spurious, Publish, StopApp, Exit, vars, ifaceVars, ipcVars
    <2> QED
      BY <1>1, <2>1, <2>2, <2>3, <2>4 DEF Next
  <1>2. ASSUME TypeInv, NEW t \in Tasks, usRemaining[t] <= CycleTics
        PROVE  msIn[t] - usRemaining[t] + CycleTics >= msIn[t] * TicsPerMs
    <2>1. msIn[t] \in Nat /\ usRemaining[t] \in Int /\ CycleTics \in Nat
      BY <1>2, InterfaceAssumption DEF TypeInv, TypeOK, TaskTypeOK, IfaceTypeOK, IpcTypeOK
    <2> QED
      BY <1>2, <2>1
  <1>3. TypeInv /\ OneBaton /\ [Next]_vars =>
          [\A t \in Tasks :
             state[t] = "TASK_DELAY" /\ state'[t] = "TASK_CONTINUE" /\ ReleasedByMain(t)
               => msIn[t] - usRemaining[t] + CycleTics >= msIn[t] * TicsPerMs]_vars
    BY <1>1, <1>2
  <1> QED
    BY <1>3, TypeInvariance, OneBatonHolds, PTL DEF Spec, DelayHonoured

------------------------------------------------------------------------------
\* Counting messages

\* The places of a message in a list are finitely many ...
LEMMA PositionsFinite ==
  ASSUME NEW S, NEW s \in Seq(S), NEW m
  PROVE  /\ Positions(s, m) \subseteq 1..Len(s) /\ IsFiniteSet(Positions(s, m))
         /\ Occurrences(s, m) \in Nat
         /\ Occurrences(s, m) # 0 <=> Contains(s, m)
  <1>1. Len(s) \in Nat /\ DOMAIN s = 1..Len(s)
    OBVIOUS
  <1>2. Positions(s, m) \subseteq 1..Len(s)
    BY <1>1 DEF Positions
  <1>3. IsFiniteSet(1..Len(s))
    BY <1>1, FS_Interval
  <1>4. IsFiniteSet(Positions(s, m))
    BY <1>2, <1>3, FS_Subset
  <1>5. Occurrences(s, m) # 0 <=> Positions(s, m) # {}
    BY <1>4, FS_EmptySet DEF Occurrences
  <1>6. Positions(s, m) # {} <=> Contains(s, m)
    BY <1>1 DEF Positions, Contains
  <1> QED
    BY <1>2, <1>4, <1>5, <1>6, FS_CardinalityType DEF Occurrences

\* ... one more when the message is appended ...
LEMMA OccurrencesAppend ==
  ASSUME NEW S, NEW s \in Seq(S), NEW e \in S, NEW m
  PROVE  /\ Positions(Append(s, e), m)
              = Positions(s, m) \cup (IF e = m THEN {Len(s) + 1} ELSE {})
         /\ Occurrences(Append(s, e), m) = Occurrences(s, m) + (IF e = m THEN 1 ELSE 0)
  <1>0. /\ Append(s, e) \in Seq(S) /\ Len(Append(s, e)) = Len(s) + 1 /\ Len(s) \in Nat
        /\ DOMAIN s = 1..Len(s) /\ DOMAIN Append(s, e) = 1..(Len(s) + 1)
        /\ \A j \in 1..Len(s) : Append(s, e)[j] = s[j]
        /\ Append(s, e)[Len(s) + 1] = e
    OBVIOUS
  <1>1. Positions(Append(s, e), m) = Positions(s, m) \cup (IF e = m THEN {Len(s) + 1} ELSE {})
    BY <1>0 DEF Positions
  <1>2. IsFiniteSet(Positions(s, m)) /\ Len(s) + 1 \notin Positions(s, m) /\ Occurrences(s, m) \in Nat
    BY <1>0, PositionsFinite
  <1>3. CASE e = m
    BY <1>1, <1>2, <1>3, FS_AddElement DEF Occurrences
  <1>4. CASE e # m
    BY <1>1, <1>2, <1>4 DEF Occurrences
  <1> QED
    BY <1>1, <1>3, <1>4

\* ... and one less when it is taken out: r is s without its entry i.
LEMMA PositionsTakenOut ==
  ASSUME NEW S, NEW s \in Seq(S), NEW r \in Seq(S), NEW i \in 1..Len(s), NEW m,
         Len(r) = Len(s) - 1,
         \A j \in 1..(Len(s) - 1) : r[j] = IF j < i THEN s[j] ELSE s[j + 1]
  PROVE  ExistsBijection(Positions(r, m), Positions(s, m) \ {i})
  <1> DEFINE P == Positions(r, m)
             Q == Positions(s, m) \ {i}
             f == [j \in P |-> IF j < i THEN j ELSE j + 1]
  <1>0. /\ Len(s) \in Nat /\ DOMAIN s = 1..Len(s) /\ DOMAIN r = 1..(Len(s) - 1)
    OBVIOUS
  <1>1. ASSUME NEW j \in P PROVE f[j] \in Q
    BY <1>0, <1>1 DEF Positions
  <1>2. f \in [P -> Q]
    BY <1>1
  <1>3. P \subseteq Nat /\ Q \subseteq Nat
    BY <1>0 DEF Positions
  <1>4. ASSUME NEW j \in P, NEW k \in P, f[j] = f[k] PROVE j = k
    BY <1>3, <1>4
  <1>5. ASSUME NEW k \in Q PROVE \E j \in P : f[j] = k
    <2>0. k \in Nat /\ k # i
      BY <1>3
    <2>1. CASE k < i
      <3>1. k \in P
        BY <1>0, <1>5, <2>1 DEF Positions
      <3> QED
        BY <2>1, <3>1
    <2>2. CASE k > i
      <3>1. k - 1 \in P
        BY <1>0, <1>5, <2>2 DEF Positions
      <3>2. k - 1 \in Int /\ ~(k - 1 < i) /\ (k - 1) + 1 = k
        BY <2>0, <2>2
      <3>3. f[k - 1] = k
        BY <3>1, <3>2
      <3> QED
        BY <3>1, <3>3
    <2> QED
      BY <2>0, <2>1, <2>2
  <1> HIDE DEF f, P, Q
  <1>6. f \in Bijection(P, Q)
    BY <1>2, <1>4, <1>5 DEF Bijection, Injection, Surjection, IsInjective
  <1> QED
    BY <1>6 DEF ExistsBijection, P, Q

LEMMA OccurrencesTakenOut ==
  ASSUME NEW S, NEW s \in Seq(S), NEW r \in Seq(S), NEW i \in 1..Len(s), NEW m,
         Len(r) = Len(s) - 1,
         \A j \in 1..(Len(s) - 1) : r[j] = IF j < i THEN s[j] ELSE s[j + 1]
  PROVE  Occurrences(r, m) = Occurrences(s, m) - (IF s[i] = m THEN 1 ELSE 0)
  <1>1. IsFiniteSet(Positions(r, m)) /\ IsFiniteSet(Positions(s, m))
        /\ Occurrences(s, m) \in Nat
    BY PositionsFinite
  <1>2. Cardinality(Positions(s, m) \ {i}) = Cardinality(Positions(r, m))
    BY <1>1, PositionsTakenOut, FS_Bijection
  <1>3. i \in Positions(s, m) <=> s[i] = m
    BY DEF Positions
  <1>4. Cardinality(Positions(s, m) \ {i})
          = IF i \in Positions(s, m) THEN Cardinality(Positions(s, m)) - 1
            ELSE Cardinality(Positions(s, m))
    BY <1>1, FS_RemoveElement
  <1> QED
    BY <1>1, <1>2, <1>3, <1>4 DEF Occurrences

LEMMA OccurrencesRemoveFirst ==
  ASSUME NEW S, NEW s \in Seq(S), NEW e, Contains(s, e), NEW m
  PROVE  Occurrences(RemoveFirst(s, e), m) = Occurrences(s, m) - (IF e = m THEN 1 ELSE 0)
  <1>1. PICK i \in 1..Len(s) : s[i] = e /\ RemoveFirst(s, e) = RemoveAt(s, i)
    BY RemoveFirstFacts
  <1>2. /\ RemoveAt(s, i) \in Seq(S) /\ Len(RemoveAt(s, i)) = Len(s) - 1
        /\ \A j \in 1..(Len(s) - 1) : RemoveAt(s, i)[j] = IF j < i THEN s[j] ELSE s[j + 1]
    BY RemoveAtFacts
  <1> DEFINE r == RemoveAt(s, i)
  <1>3. /\ r \in Seq(S) /\ Len(r) = Len(s) - 1
        /\ \A j \in 1..(Len(s) - 1) : r[j] = IF j < i THEN s[j] ELSE s[j + 1]
    BY <1>2
  <1> HIDE DEF r
  <1>4. Occurrences(r, m) = Occurrences(s, m) - (IF s[i] = m THEN 1 ELSE 0)
    BY <1>3, OccurrencesTakenOut
  <1> QED
    BY <1>1, <1>4, SMTT(30) DEF r

LEMMA OccurrencesFront ==
  ASSUME NEW S, NEW s \in Seq(S), s # <<>>, NEW m
  PROVE  Occurrences(Front(s), m) = Occurrences(s, m) - (IF Last(s) = m THEN 1 ELSE 0)
  <1>1. Len(s) \in Nat \ {0}
    BY EmptySeq
  <1>2. Front(s) \in Seq(S) /\ Len(Front(s)) = Len(s) - 1
    BY FrontFacts
  <1>3. \A j \in 1..(Len(s) - 1) : Front(s)[j] = s[j]
    BY <1>1 DEF Front
  <1>4. \A j \in 1..(Len(s) - 1) : Front(s)[j] = IF j < Len(s) THEN s[j] ELSE s[j + 1]
    BY <1>1, <1>3
  <1> QED
    BY <1>1, <1>2, <1>4, OccurrencesTakenOut DEF Last

LEMMA OccurrencesTail ==
  ASSUME NEW S, NEW s \in Seq(S), s # <<>>, NEW m
  PROVE  Occurrences(Tail(s), m) = Occurrences(s, m) - (IF Head(s) = m THEN 1 ELSE 0)
  <1>1. Len(s) \in Nat \ {0}
    BY EmptySeq
  <1>2. PICK i \in 1..Len(s) : i = 1
    BY <1>1
  <1> DEFINE r == Tail(s)
  <1>3. r \in Seq(S) /\ Len(r) = Len(s) - 1
    BY <1>1
  <1>4. \A j \in 1..(Len(s) - 1) : r[j] = IF j < i THEN s[j] ELSE s[j + 1]
    BY <1>1, <1>2
  <1>5. Head(s) = s[i]
    BY <1>1, <1>2
  <1> HIDE DEF r
  <1>6. Occurrences(r, m) = Occurrences(s, m) - (IF s[i] = m THEN 1 ELSE 0)
    BY <1>3, <1>4, OccurrencesTakenOut
  <1> QED
    BY <1>5, <1>6 DEF r

\* The places of m in some of the pipes, the queues of which are q.
Places(q, P, m) == UNION {{p} \X Positions(q[p], m) : p \in P}

LEMMA PlacesFinite ==
  ASSUME NEW q \in [Pipes -> Seq(Mids)], NEW P \in SUBSET Pipes, NEW m
  PROVE  IsFiniteSet(Places(q, P, m)) /\ Cardinality(Places(q, P, m)) \in Nat
  <1> DEFINE f == [p \in P |-> {p} \X Positions(q[p], m)]
             R == {f[p] : p \in P}
  <1>1. IsFiniteSet(P)
    BY SimAssumption, FS_Subset
  <1>2. f \in Surjection(P, R)
    BY DEF Surjection
  <1>3. IsFiniteSet(R)
    <2> HIDE DEF f, R
    <2> QED
      BY <1>1, <1>2, FS_Surjection
  <1>4. ASSUME NEW T \in R PROVE IsFiniteSet(T)
    <2>1. PICK p \in P : T = {p} \X Positions(q[p], m)
      BY <1>4
    <2>2. q[p] \in Seq(Mids)
      OBVIOUS
    <2>3. IsFiniteSet(Positions(q[p], m)) /\ IsFiniteSet({p})
      BY <2>2, PositionsFinite, FS_Singleton
    <2> QED
      BY <2>1, <2>3, FS_Product
  <1>5. Places(q, P, m) = UNION R
    BY DEF Places
  <1> HIDE DEF R
  <1>6. IsFiniteSet(UNION R)
    BY <1>3, <1>4, FS_UNION
  <1> QED
    BY <1>5, <1>6, FS_CardinalityType

\* The places in one pipe and those in the others.
LEMMA PlacesSplit ==
  ASSUME NEW q \in [Pipes -> Seq(Mids)], NEW P \in SUBSET Pipes, NEW p \in P, NEW m
  PROVE  Cardinality(Places(q, P, m))
           = Cardinality(Places(q, P \ {p}, m)) + Occurrences(q[p], m)
  <1> DEFINE A == Places(q, P \ {p}, m)
             B == {p} \X Positions(q[p], m)
  <1>1. Places(q, P, m) = A \cup B /\ A \cap B = {}
    BY DEF Places
  <1>2. IsFiniteSet(A)
    BY PlacesFinite
  <1>3. q[p] \in Seq(Mids)
    OBVIOUS
  <1>4. IsFiniteSet(Positions(q[p], m)) /\ Occurrences(q[p], m) \in Nat
    BY <1>3, PositionsFinite
  <1>5. IsFiniteSet({p}) /\ Cardinality({p}) = 1
    BY FS_Singleton
  <1>6. IsFiniteSet(B) /\ Cardinality(B) = Cardinality({p}) * Cardinality(Positions(q[p], m))
    BY <1>4, <1>5, FS_Product
  <1>7. Cardinality(B) = Occurrences(q[p], m)
    BY <1>4, <1>5, <1>6 DEF Occurrences
  <1> HIDE DEF A, B
  <1>8. Cardinality(A \cup B) = Cardinality(A) + Cardinality(B) - Cardinality(A \cap B)
    BY <1>2, <1>6, FS_Union
  <1>9. Cardinality(A \cap B) = 0 /\ Cardinality(A) \in Nat
    BY <1>1, <1>2, FS_EmptySet, FS_CardinalityType
  <1>10. Cardinality(Places(q, P, m)) = Cardinality(A) + Occurrences(q[p], m)
    BY <1>1, <1>4, <1>7, <1>8, <1>9
  <1> QED
    BY <1>10 DEF A

\* What a change of one pipe's queue means for the number of places.
Longer(q, r, p, e) == r = [q EXCEPT ![p] = Append(q[p], e)]
Shorter(q, r, p) == r = [q EXCEPT ![p] = Tail(q[p])]

LEMMA PlacesAppend ==
  ASSUME NEW q \in [Pipes -> Seq(Mids)], NEW r \in [Pipes -> Seq(Mids)],
         NEW P \in SUBSET Pipes, NEW p \in Pipes,
         NEW e \in Mids, NEW m \in Mids,
         Longer(q, r, p, e)
  PROVE  /\ p \in P /\ e = m => Cardinality(Places(r, P, m)) = Cardinality(Places(q, P, m)) + 1
         /\ ~(p \in P /\ e = m) => Cardinality(Places(r, P, m)) = Cardinality(Places(q, P, m))
  <1>1. q[p] \in Seq(Mids) /\ r[p] = Append(q[p], e)
    BY DEF Longer
  <1>2. Places(r, P \ {p}, m) = Places(q, P \ {p}, m)
    BY DEF Places, Longer
  <1>3. Cardinality(Places(q, P \ {p}, m)) \in Nat /\ Occurrences(q[p], m) \in Nat
    BY <1>1, PlacesFinite, PositionsFinite
  <1>4. Occurrences(r[p], m) = Occurrences(q[p], m) + (IF e = m THEN 1 ELSE 0)
    BY <1>1, OccurrencesAppend
  <1>5. CASE p \in P
    <2>1. Cardinality(Places(q, P, m)) = Cardinality(Places(q, P \ {p}, m)) + Occurrences(q[p], m)
      BY <1>5, PlacesSplit
    <2>2. Cardinality(Places(r, P, m)) = Cardinality(Places(r, P \ {p}, m)) + Occurrences(r[p], m)
      BY <1>5, PlacesSplit
    <2> QED
      BY <1>2, <1>3, <1>4, <1>5, <2>1, <2>2
  <1>6. CASE p \notin P
    <2>1. Places(r, P, m) = Places(q, P, m)
      BY <1>6 DEF Places, Longer
    <2>2. Cardinality(Places(q, P, m)) \in Nat
      BY PlacesFinite
    <2> QED
      BY <1>6, <2>1, <2>2
  <1> QED
    BY <1>5, <1>6

LEMMA PlacesTail ==
  ASSUME NEW q \in [Pipes -> Seq(Mids)], NEW r \in [Pipes -> Seq(Mids)],
         NEW P \in SUBSET Pipes, NEW p \in Pipes, q[p] # <<>>, NEW m \in Mids,
         Shorter(q, r, p)
  PROVE  /\ p \in P /\ Head(q[p]) = m => Cardinality(Places(r, P, m)) = Cardinality(Places(q, P, m)) - 1
         /\ ~(p \in P /\ Head(q[p]) = m) => Cardinality(Places(r, P, m)) = Cardinality(Places(q, P, m))
  <1>1. q[p] \in Seq(Mids) /\ r[p] = Tail(q[p])
    BY DEF Shorter
  <1>2. Places(r, P \ {p}, m) = Places(q, P \ {p}, m)
    BY DEF Places, Shorter
  <1>3. Cardinality(Places(q, P \ {p}, m)) \in Nat /\ Occurrences(q[p], m) \in Nat
    BY <1>1, PlacesFinite, PositionsFinite
  <1>4. Occurrences(r[p], m) = Occurrences(q[p], m) - (IF Head(q[p]) = m THEN 1 ELSE 0)
    BY <1>1, OccurrencesTail
  <1>5. CASE p \in P
    <2>1. Cardinality(Places(q, P, m)) = Cardinality(Places(q, P \ {p}, m)) + Occurrences(q[p], m)
      BY <1>5, PlacesSplit
    <2>2. Cardinality(Places(r, P, m)) = Cardinality(Places(r, P \ {p}, m)) + Occurrences(r[p], m)
      BY <1>5, PlacesSplit
    <2> QED
      BY <1>2, <1>3, <1>4, <1>5, <2>1, <2>2
  <1>6. CASE p \notin P
    <2>1. Places(r, P, m) = Places(q, P, m)
      BY <1>6 DEF Places, Shorter
    <2>2. Cardinality(Places(q, P, m)) \in Nat
      BY PlacesFinite
    <2> QED
      BY <1>6, <2>1, <2>2
  <1> QED
    BY <1>5, <1>6

\* The pipes of t.
LEMMA QueuedPlaces ==
  ASSUME NEW t, NEW m
  PROVE  /\ Queued(t, m) = Places(queue, OwnedBy(t, Pipes), m)
         /\ Queued(t, m)' = Places(queue', OwnedBy(t, Pipes)', m)
         /\ OwnedBy(t, Pipes) \in SUBSET Pipes
  BY DEF Queued, Places, OwnedBy

LEMMA QueuedAppend ==
  ASSUME queue \in [Pipes -> Seq(Mids)], UNCHANGED prevPipeTaskOwner,
         NEW t \in Tasks, NEW p \in Pipes,
         NEW e \in Mids, NEW m \in Mids,
         Longer(queue, queue', p, e)
  PROVE  Cardinality(Queued(t, m)')
           = Cardinality(Queued(t, m)) + (IF prevPipeTaskOwner[p] = t /\ e = m THEN 1 ELSE 0)
  <1>1. queue' \in [Pipes -> Seq(Mids)] /\ queue[p] \in Seq(Mids)
    BY DEF Longer
  <1>2. PICK q \in [Pipes -> Seq(Mids)] : q = queue
    OBVIOUS
  <1>3. PICK r \in [Pipes -> Seq(Mids)] : r = queue'
    BY <1>1
  <1>4. PICK P \in SUBSET Pipes : P = OwnedBy(t, Pipes)
    BY DEF OwnedBy
  <1>5. Longer(q, r, p, e)
    BY <1>2, <1>3
  <1>6. /\ p \in P /\ e = m => Cardinality(Places(r, P, m)) = Cardinality(Places(q, P, m)) + 1
        /\ ~(p \in P /\ e = m) => Cardinality(Places(r, P, m)) = Cardinality(Places(q, P, m))
    BY ONLY <1>5, PlacesAppend
  <1>7. OwnedBy(t, Pipes)' = P /\ (p \in P <=> prevPipeTaskOwner[p] = t)
    BY <1>4 DEF OwnedBy
  <1>8. Queued(t, m) = Places(q, P, m) /\ Queued(t, m)' = Places(r, P, m)
    BY <1>2, <1>3, <1>4, <1>7, QueuedPlaces
  <1>9. Cardinality(Places(q, P, m)) \in Nat
    BY PlacesFinite
  <1> QED
    BY <1>2, <1>6, <1>7, <1>8, <1>9

LEMMA QueuedTail ==
  ASSUME queue \in [Pipes -> Seq(Mids)], UNCHANGED prevPipeTaskOwner,
         NEW t \in Tasks, NEW p \in Pipes, queue[p] # <<>>, NEW m \in Mids,
         Shorter(queue, queue', p)
  PROVE  Cardinality(Queued(t, m)')
           = Cardinality(Queued(t, m)) - (IF prevPipeTaskOwner[p] = t /\ Head(queue[p]) = m THEN 1 ELSE 0)
  <1>1. queue' \in [Pipes -> Seq(Mids)] /\ queue[p] \in Seq(Mids)
    BY DEF Shorter
  <1>2. PICK q \in [Pipes -> Seq(Mids)] : q = queue
    OBVIOUS
  <1>3. PICK r \in [Pipes -> Seq(Mids)] : r = queue'
    BY <1>1
  <1>4. PICK P \in SUBSET Pipes : P = OwnedBy(t, Pipes)
    BY DEF OwnedBy
  <1>5. Shorter(q, r, p)
    BY <1>2, <1>3
  <1>6. /\ p \in P /\ Head(q[p]) = m => Cardinality(Places(r, P, m)) = Cardinality(Places(q, P, m)) - 1
        /\ ~(p \in P /\ Head(q[p]) = m) => Cardinality(Places(r, P, m)) = Cardinality(Places(q, P, m))
    BY <1>2, <1>5, PlacesTail
  <1>7. OwnedBy(t, Pipes)' = P /\ (p \in P <=> prevPipeTaskOwner[p] = t)
    BY <1>4 DEF OwnedBy
  <1>8. Queued(t, m) = Places(q, P, m) /\ Queued(t, m)' = Places(r, P, m)
    BY <1>2, <1>3, <1>4, <1>7, QueuedPlaces
  <1>9. Cardinality(Places(q, P, m)) \in Nat
    BY PlacesFinite
  <1> QED
    BY <1>2, <1>6, <1>7, <1>8, <1>9

------------------------------------------------------------------------------
\* The account of the triggers

\* What the account rests on: each pipe is read by the task that creates it, ...
OwnPipes == \A t \in Tasks : \A c \in Calls[t] : Creator[c.pipe] = t

\* ... only the scheduler sends what is in its table, ...
ScheduledOnly == \A pm \in Unsolicited : pm[2] \notin Range(Table)

\* ... the main thread gives up on nobody, ...
NeverGivesUp == PerfectMode \/ WaitSlices = -1

\* ... and no pipe of a running app is full when the scheduler sends a message to it.
RoomInPipes ==
  schPc = "xmit" =>
    \A p \in schPipes : appRunning[prevPipeTaskOwner[p]] => Len(queue[p]) < PipeDepth

Accounted(t, m) ==
  Occurrences(triggeredMIDs[t], m) =
    InFlight(t, m)
    + Cardinality(Queued(t, m))
    + (IF hand[t] = m THEN 1 ELSE 0)
    + Occurrences(acknowledgedMIDs[t], m)

\* The scheduler goes through the destinations of one message, and a task has a
\* message in its hands only until it acknowledges it.
DeliveryInv ==
  /\ prevPipeTaskOwner = Creator
  /\ \A t \in Tasks : hand[t] # NoMid => pc[t] = "ack"
  /\ schPc \in {"owner", "mark", "xmit"} => schPipes \subseteq Subscribers[schMid]
  /\ schPc = "mark" => \E p \in Subscribers[schMid] \ schPipes : prevPipeTaskOwner[p] = schTask

LEMMA OwnedFinite ==
  ASSUME NEW t, NEW S \in SUBSET Pipes
  PROVE  /\ IsFiniteSet(OwnedBy(t, S)) /\ Cardinality(OwnedBy(t, S)) \in Nat
         /\ OwnedBy(t, S) # {} => Cardinality(OwnedBy(t, S)) # 0
  <1>1. IsFiniteSet(Pipes) /\ OwnedBy(t, S) \subseteq Pipes
    BY SimAssumption DEF OwnedBy
  <1>2. IsFiniteSet(OwnedBy(t, S))
    BY <1>1, FS_Subset
  <1> QED
    BY <1>2, FS_CardinalityType, FS_EmptySet

\* No part of the account is negative.
LEMMA InFlightNat ==
  ASSUME TypeInv, DeliveryInv, NEW t \in Tasks, NEW m \in Mids
  PROVE  InFlight(t, m) \in Nat
  <1>0. schPipes \in SUBSET Pipes /\ Subscribers[m] \in SUBSET Pipes
        /\ Subscribers[m] \ schPipes \in SUBSET Pipes
    BY SimAssumption DEF TypeInv, TypeOK, SchTypeOK
  <1>1. /\ Cardinality(OwnedBy(t, schPipes)) \in Nat
        /\ Cardinality(OwnedBy(t, Subscribers[m] \ schPipes)) \in Nat
    BY <1>0, OwnedFinite
  <1>2. CASE schPc = "mark" /\ schMid = m /\ schTask = t
    <2>1. OwnedBy(t, Subscribers[m] \ schPipes) # {}
      BY <1>2 DEF DeliveryInv, OwnedBy
    <2>2. Cardinality(OwnedBy(t, Subscribers[m] \ schPipes)) # 0
      BY <1>0, <2>1, OwnedFinite
    <2>3. InFlight(t, m) = Cardinality(OwnedBy(t, Subscribers[m] \ schPipes)) - 1
      BY <1>2 DEF InFlight
    <2> QED
      BY <1>1, <2>2, <2>3
  <1>3. CASE ~(schPc = "mark" /\ schMid = m /\ schTask = t)
    BY <1>1, <1>3 DEF InFlight
  <1> QED
    BY <1>2, <1>3

LEMMA AccountTypes ==
  ASSUME TypeInv, DeliveryInv, NEW t \in Tasks, NEW m \in Mids
  PROVE  /\ Occurrences(triggeredMIDs[t], m) \in Nat
         /\ Occurrences(acknowledgedMIDs[t], m) \in Nat
         /\ InFlight(t, m) \in Nat
         /\ Cardinality(Queued(t, m)) \in Nat
  <1>1. triggeredMIDs[t] \in Seq(Mids) /\ acknowledgedMIDs[t] \in Seq(Mids)
        /\ queue \in [Pipes -> Seq(Mids)]
    BY DEF TypeInv, TypeOK, IfaceTypeOK, IpcTypeOK
  <1> QED
    BY <1>1, PositionsFinite, InFlightNat, PlacesFinite, QueuedPlaces

\* A step with no part in the deliveries.
LEMMA AccountedUnchanged ==
  ASSUME NEW t, NEW m, Accounted(t, m),
         UNCHANGED <<schPc, schEntry, schPipes, schTask, queue, prevPipeTaskOwner>>,
         triggeredMIDs'[t] = triggeredMIDs[t], acknowledgedMIDs'[t] = acknowledgedMIDs[t],
         hand'[t] = hand[t]
  PROVE  Accounted(t, m)'
  BY DEF Accounted, InFlight, schMid, Queued, OwnedBy

\* The SCH thread notes a trigger for each destination of a message, then sends the
\* message to each.
LEMMA SchAccounted ==
  ASSUME TypeInv, DeliveryInv, RoomInPipes, NEW t \in Tasks, NEW m \in Mids,
         appRunning[t], Accounted(t, m), SchStep
  PROVE  Accounted(t, m)'
  <1>0. /\ schPipes \in SUBSET Pipes
        /\ triggeredMIDs \in [Tasks -> Seq(Mids)] /\ queue \in [Pipes -> Seq(Mids)]
        /\ schTask \in Tasks
    BY SimAssumption DEF TypeInv, TypeOK, SchTypeOK, SchInv, IfaceTypeOK, IpcTypeOK, schMid
  <1>t. /\ Occurrences(triggeredMIDs[t], m) \in Nat /\ InFlight(t, m) \in Nat
        /\ Occurrences(acknowledgedMIDs[t], m) \in Nat /\ Cardinality(Queued(t, m)) \in Nat
    BY AccountTypes
  <1>1. UNCHANGED <<prevPipeTaskOwner, acknowledgedMIDs, hand>>
    BY DEF SchStep, SchInit, SchWait, SchTable, SchOwner, SchMark, SchXmit, SchNext, SchSpin,
       SchCheck, ifaceVars, ipcVars, taskVars
  <1>2. ASSUME InFlight(t, m)' = InFlight(t, m), UNCHANGED queue, triggeredMIDs'[t] = triggeredMIDs[t]
        PROVE  Accounted(t, m)'
    BY <1>1, <1>2 DEF Accounted, Queued, OwnedBy
  <1>3. CASE SchInit \/ SchWait \/ SchNext \/ SchSpin \/ SchCheck
    <2>1. UNCHANGED queue /\ triggeredMIDs'[t] = triggeredMIDs[t]
      BY <1>0, <1>3 DEF SchInit, SchWait, SchNext, SchSpin, SchCheck, WriteOff, ifaceVars, ipcVars
    <2>2. schPc \notin {"owner", "mark", "xmit"} /\ schPc' \notin {"owner", "mark", "xmit"}
      BY <1>3 DEF SchInit, SchWait, SchNext, SchSpin, SchCheck, GoSch
    <2>3. InFlight(t, m)' = InFlight(t, m)
      BY <2>2 DEF InFlight
    <2> QED
      BY <1>2, <2>1, <2>3
  <1>4. CASE SchTable
    <2>1. UNCHANGED <<queue, triggeredMIDs>> /\ schPc = "table"
      BY <1>4 DEF SchTable, ifaceVars, ipcVars
    <2>2. InFlight(t, m) = 0
      BY <2>1 DEF InFlight
    <2>3. CASE schPc' = "owner" /\ schPipes' = Subscribers[schMid] /\ UNCHANGED schEntry
      <3>1. OwnedBy(t, Subscribers[schMid] \ schPipes)' = {} /\ schMid' = schMid
        BY <2>3 DEF OwnedBy, schMid
      <3>2. InFlight(t, m)' = 0
        BY <2>3, <3>1, FS_EmptySet DEF InFlight
      <3> QED
        BY <1>2, <2>1, <2>2, <3>2
    <2>4. CASE schPc' \in {"table", "next"}
      BY <1>2, <2>1, <2>2, <2>4 DEF InFlight
    <2> QED
      BY <1>4, <2>1, <2>3, <2>4 DEF SchTable, GoSch
  <1>5. CASE SchOwner
    <2>1. /\ schPc = "owner" /\ UNCHANGED <<queue, triggeredMIDs, schEntry>> /\ schMid' = schMid
      BY <1>5 DEF SchOwner, ifaceVars, ipcVars, schMid
    <2>2. CASE schMid # m
      <3>1. InFlight(t, m)' = 0 /\ InFlight(t, m) = 0
        BY <2>1, <2>2 DEF InFlight
      <3> QED
        BY <1>2, <2>1, <3>1
    <2>3. CASE schMid = m /\ schPipes = {} /\ schPipes' = Subscribers[schMid] /\ schPc' = "xmit"
      <3>1. OwnedBy(t, schPipes)' = OwnedBy(t, Subscribers[m] \ schPipes)
        BY <1>1, <2>3 DEF OwnedBy
      <3>2. InFlight(t, m) = Cardinality(OwnedBy(t, Subscribers[m] \ schPipes))
        <4>1. Cardinality(OwnedBy(t, Subscribers[m] \ schPipes)) \in Nat
          BY SimAssumption, OwnedFinite
        <4> QED
          BY <2>1, <2>3, <4>1 DEF InFlight
      <3>3. InFlight(t, m)' = Cardinality(OwnedBy(t, schPipes)')
        BY <2>1, <2>3 DEF InFlight
      <3> QED
        BY <1>2, <2>1, <3>1, <3>2, <3>3
    <2>4. ASSUME schMid = m, NEW p \in schPipes, schTask' = prevPipeTaskOwner[p],
                 schPipes' = schPipes \ {p}, schPc' = "mark"
          PROVE  Accounted(t, m)'
      <3> DEFINE A == OwnedBy(t, Subscribers[m] \ schPipes)
                 B == OwnedBy(t, Subscribers[m] \ schPipes)'
      <3>1. p \in Subscribers[m] /\ Subscribers[m] \in SUBSET Pipes
        BY <2>1, <2>4, SimAssumption DEF DeliveryInv
      <3>2. B = A \cup (IF prevPipeTaskOwner[p] = t THEN {p} ELSE {}) /\ p \notin A
        BY <1>1, <2>4, <3>1 DEF OwnedBy
      <3>3. IsFiniteSet(A) /\ Cardinality(A) \in Nat
        BY <3>1, OwnedFinite
      <3>4. InFlight(t, m) = Cardinality(A)
        BY <2>1, <2>4, <3>3 DEF InFlight
      <3>5. InFlight(t, m)' = Cardinality(B) - (IF prevPipeTaskOwner[p] = t THEN 1 ELSE 0)
        BY <2>1, <2>4 DEF InFlight
      <3> HIDE DEF A, B
      <3>6. Cardinality(B) = Cardinality(A) + (IF prevPipeTaskOwner[p] = t THEN 1 ELSE 0)
        <4>1. CASE prevPipeTaskOwner[p] = t
          <5>1. B = A \cup {p}
            BY <3>2, <4>1
          <5>2. Cardinality(A \cup {p}) = Cardinality(A) + 1
            BY <3>2, <3>3, FS_AddElement
          <5> QED
            BY <4>1, <5>1, <5>2
        <4>2. CASE prevPipeTaskOwner[p] # t
          <5>1. B = A
            BY <3>2, <4>2
          <5> QED
            BY <3>3, <4>2, <5>1
        <4> QED
          BY <4>1, <4>2
      <3>7. InFlight(t, m)' = InFlight(t, m)
        BY <3>3, <3>4, <3>5, <3>6
      <3> QED
        BY <1>2, <2>1, <3>7
    <2> QED
      BY <1>5, <2>2, <2>3, <2>4 DEF SchOwner, GoSch
  <1>6. CASE SchMark
    <2>1. /\ schPc = "mark" /\ schPc' = "owner" /\ UNCHANGED <<queue, schEntry, schPipes>>
          /\ schMid' = schMid /\ MarkPipeAsTriggered(schTask, schMid) /\ schMid \in Mids
      BY <1>6, SimAssumption DEF SchMark, GoSch, schMid, TypeInv, TypeOK, SchTypeOK, SchInv
    <2>2. Occurrences(triggeredMIDs'[t], m) = Occurrences(triggeredMIDs[t], m)
             + (IF schTask = t /\ schMid = m THEN 1 ELSE 0)
      <3>1. CASE schTask = t
        <4>1. triggeredMIDs'[t] = Append(triggeredMIDs[t], schMid) /\ triggeredMIDs[t] \in Seq(Mids)
          BY <1>0, <2>1, <3>1 DEF MarkPipeAsTriggered
        <4> QED
          BY <2>1, <3>1, <4>1, OccurrencesAppend
      <3>2. CASE schTask # t
        <4>1. triggeredMIDs'[t] = triggeredMIDs[t]
          BY <1>0, <2>1, <3>2 DEF MarkPipeAsTriggered
        <4> QED
          BY <1>t, <3>2, <4>1
      <3> QED
        BY <3>1, <3>2
    <2>3. InFlight(t, m)' = InFlight(t, m) + (IF schTask = t /\ schMid = m THEN 1 ELSE 0)
      <3>1. CASE schMid # m
        BY <2>1, <3>1 DEF InFlight
      <3>2. CASE schMid = m
        <4>1. OwnedBy(t, Subscribers[m] \ schPipes)' = OwnedBy(t, Subscribers[m] \ schPipes)
          BY <1>1, <2>1 DEF OwnedBy
        <4>2. Cardinality(OwnedBy(t, Subscribers[m] \ schPipes)) \in Nat
          BY SimAssumption, OwnedFinite
        <4>3. InFlight(t, m)' = Cardinality(OwnedBy(t, Subscribers[m] \ schPipes))
          BY <2>1, <3>2, <4>1, <4>2 DEF InFlight
        <4>4. InFlight(t, m) = Cardinality(OwnedBy(t, Subscribers[m] \ schPipes))
                                 - (IF schTask = t THEN 1 ELSE 0)
          BY <2>1, <3>2 DEF InFlight
        <4> QED
          BY <3>2, <4>2, <4>3, <4>4
      <3> QED
        BY <3>1, <3>2
    <2>4. Queued(t, m)' = Queued(t, m)
      BY <1>1, <2>1 DEF Queued, OwnedBy
    <2> QED
      BY <1>t, <1>1, <2>2, <2>3, <2>4 DEF Accounted
  <1>7. CASE SchXmit
    <2>1. schPc = "xmit" /\ UNCHANGED triggeredMIDs /\ schMid \in Mids
      BY <1>7, SimAssumption DEF SchXmit, ifaceVars, ipcVars, schMid, TypeInv, TypeOK, SchTypeOK, SchInv
    <2>2. CASE schPipes = {} /\ schPc' = "table" /\ UNCHANGED queue
      <3>1. OwnedBy(t, schPipes) = {}
        BY <2>2 DEF OwnedBy
      <3>2. InFlight(t, m) = 0 /\ InFlight(t, m)' = 0
        BY <2>1, <2>2, <3>1, FS_EmptySet DEF InFlight
      <3> QED
        BY <1>2, <2>1, <2>2, <3>2
    <2>3. ASSUME NEW p \in schPipes, Deliver(p, schMid), schPipes' = schPipes \ {p},
                 UNCHANGED <<schPc, schEntry>>
          PROVE  Accounted(t, m)'
      <3>0. p \in Pipes /\ schPipes \in SUBSET Pipes /\ schMid' = schMid
        BY <1>0, <2>3 DEF schMid, TypeInv, TypeOK, SchTypeOK
      <3> DEFINE Delivered ==
            Cardinality(Queued(t, m)') = Cardinality(Queued(t, m))
              + (IF prevPipeTaskOwner[p] = t /\ schMid = m THEN 1 ELSE 0)
      <3>1. ASSUME prevPipeTaskOwner[p] = t PROVE Delivered
        <4>1. Longer(queue, queue', p, schMid)
          BY <2>1, <2>3, <3>1 DEF Longer, Deliver, RoomInPipes
        <4>2. queue \in [Pipes -> Seq(Mids)] /\ UNCHANGED prevPipeTaskOwner
              /\ p \in Pipes /\ schMid \in Mids
          BY <1>0, <1>1, <2>1, <3>0
        <4> QED
          BY ONLY <4>1, <4>2, QueuedAppend
      <3>2. ASSUME prevPipeTaskOwner[p] # t PROVE Delivered
        <4>1. \A u \in Pipes : prevPipeTaskOwner[u] = t => queue'[u] = queue[u]
          BY <1>0, <2>3, <3>2 DEF Deliver
        <4>2. Queued(t, m)' = Queued(t, m)
          BY <1>1, <4>1 DEF Queued, OwnedBy
        <4> QED
          BY <1>t, <3>2, <4>2
      <3>5. Cardinality(Queued(t, m)') = Cardinality(Queued(t, m))
               + (IF prevPipeTaskOwner[p] = t /\ schMid = m THEN 1 ELSE 0)
        BY <3>1, <3>2
      <3>6. InFlight(t, m)' = InFlight(t, m)
               - (IF prevPipeTaskOwner[p] = t /\ schMid = m THEN 1 ELSE 0)
        <4>1. CASE schMid # m
          BY <2>1, <2>3, <3>0, <4>1 DEF InFlight
        <4>2. CASE schMid = m
          <5>1. OwnedBy(t, schPipes)' = OwnedBy(t, schPipes) \ {p}
            BY <1>1, <2>3 DEF OwnedBy
          <5>2. p \in OwnedBy(t, schPipes) <=> prevPipeTaskOwner[p] = t
            BY <2>3 DEF OwnedBy
          <5>3. IsFiniteSet(OwnedBy(t, schPipes)) /\ Cardinality(OwnedBy(t, schPipes)) \in Nat
            BY <3>0, OwnedFinite
          <5>4. InFlight(t, m) = Cardinality(OwnedBy(t, schPipes))
            BY <2>1, <4>2 DEF InFlight
          <5>5. InFlight(t, m)' = Cardinality(OwnedBy(t, schPipes)')
            BY <2>1, <2>3, <3>0, <4>2 DEF InFlight
          <5>6. Cardinality(OwnedBy(t, schPipes) \ {p})
                  = IF p \in OwnedBy(t, schPipes) THEN Cardinality(OwnedBy(t, schPipes)) - 1
                    ELSE Cardinality(OwnedBy(t, schPipes))
            BY <5>3, FS_RemoveElement
          <5> QED
            BY <4>2, <5>1, <5>2, <5>3, <5>4, <5>5, <5>6
        <4> QED
          BY <4>1, <4>2
      <3> QED
        BY <1>t, <1>1, <2>1, <3>5, <3>6 DEF Accounted
    <2> QED
      BY <1>7, <2>2, <2>3 DEF SchXmit, GoSch
  <1> QED
    BY <1>3, <1>4, <1>5, <1>6, <1>7 DEF SchStep

\* Calls of OS_QueueGet leave the pipes with their readers.
LEMMA PipesStayOwned ==
  ASSUME TypeInv, DeliveryInv, OwnPipes, NEW t \in Tasks, TaskStep(t)
  PROVE  UNCHANGED prevPipeTaskOwner
  <1>0. Creator \in [Pipes -> Tasks] /\ prevPipeTaskOwner = Creator
    BY InterfaceAssumption DEF DeliveryInv
  <1>1. ASSUME NEW c \in Calls[t], BeginReceive(t, c) PROVE UNCHANGED prevPipeTaskOwner
    <2>1. Creator[c.pipe] = t
      BY DEF OwnPipes
    <2> QED
      BY <1>0, <1>1, <2>1 DEF BeginReceive, SetPipeOwner
  <1>2. CASE TaskGetAgain(t)
    <2>1. call[t] \in Calls[t]
      BY <1>2 DEF TaskGetAgain, TypeInv, CallInv, InCall
    <2> QED
      BY <1>1, <1>2, <2>1 DEF TaskGetAgain
  <1>3. ASSUME NEW c \in Calls[t], TaskQueueGet(t, c) PROVE UNCHANGED prevPipeTaskOwner
    BY <1>1, <1>3 DEF TaskQueueGet
  <1> QED
    BY <1>2, <1>3 DEF TaskStep, TaskDelay, TaskReceive, TaskExpire, TaskEmpty, TaskPoll, TaskAck,
       TaskKeepWaiting, TaskContinue, ifaceVars

\* A poll takes the message it finishes off both lists, or off none.
LEMMA FinishMessageAccounts ==
  ASSUME TypeInv, NEW t \in Tasks, NEW m \in Mids, FinishMessage(t)
  PROVE  \E n \in {0, 1} :
           /\ Occurrences(triggeredMIDs'[t], m) = Occurrences(triggeredMIDs[t], m) - n
           /\ Occurrences(acknowledgedMIDs'[t], m) = Occurrences(acknowledgedMIDs[t], m) - n
  <1> DEFINE ack == acknowledgedMIDs[t]
             trig == triggeredMIDs[t]
             mid == Back(ack)
  <1>0. /\ acknowledgedMIDs \in [Tasks -> Seq(Mids)] /\ triggeredMIDs \in [Tasks -> Seq(Mids)]
        /\ ack \in Seq(Mids) /\ trig \in Seq(Mids)
    BY DEF TypeInv, TypeOK, IfaceTypeOK, IpcTypeOK
  <1>t. Occurrences(trig, m) \in Nat /\ Occurrences(ack, m) \in Nat
    BY <1>0, PositionsFinite
  <1>1. CASE stacks[t] # <<>> /\ Contains(trig, mid)
    <2>1. triggeredMIDs'[t] = RemoveFirst(trig, mid) /\ acknowledgedMIDs'[t] = Front(ack)
      BY <1>0, <1>1 DEF FinishMessage
    <2>2. mid \in Mids
      BY <1>0, <1>1 DEF Contains
    <2>3. ack # <<>> /\ mid = Last(ack)
      BY <2>2, InterfaceAssumption DEF Back
    <2> HIDE DEF ack, trig, mid
    <2>4. Occurrences(RemoveFirst(trig, mid), m) = Occurrences(trig, m) - (IF mid = m THEN 1 ELSE 0)
      BY <1>0, <1>1, OccurrencesRemoveFirst
    <2>5. Occurrences(Front(ack), m) = Occurrences(ack, m) - (IF mid = m THEN 1 ELSE 0)
      BY <1>0, <2>3, OccurrencesFront
    <2>6. CASE mid = m
      BY <2>1, <2>4, <2>5, <2>6 DEF ack, trig
    <2>7. CASE mid # m
      BY <2>1, <2>4, <2>5, <2>7 DEF ack, trig
    <2> QED
      BY <2>6, <2>7
  <1>2. CASE ~(stacks[t] # <<>> /\ Contains(trig, mid))
    <2>1. UNCHANGED <<triggeredMIDs, acknowledgedMIDs>>
      BY <1>2 DEF FinishMessage
    <2> QED
      BY <1>t, <2>1
  <1> QED
    BY <1>1, <1>2

LEMMA OwnStepAccounted ==
  ASSUME TypeInv, DeliveryInv, OwnPipes, NEW t \in Tasks, TaskStep(t), NEW m \in Mids,
         Accounted(t, m)
  PROVE  Accounted(t, m)'
  <1>0. /\ triggeredMIDs \in [Tasks -> Seq(Mids)] /\ acknowledgedMIDs \in [Tasks -> Seq(Mids)]
        /\ queue \in [Pipes -> Seq(Mids)] /\ hand \in [Tasks -> Mids \cup {NoMid}]
        /\ NoMid \notin Mids
    BY InterfaceAssumption DEF TypeInv, TypeOK, IfaceTypeOK, IpcTypeOK, TaskTypeOK
  <1>t. /\ Occurrences(triggeredMIDs[t], m) \in Nat /\ InFlight(t, m) \in Nat
        /\ Occurrences(acknowledgedMIDs[t], m) \in Nat /\ Cardinality(Queued(t, m)) \in Nat
    BY AccountTypes
  <1>1. UNCHANGED prevPipeTaskOwner
    BY PipesStayOwned
  <1>2. UNCHANGED <<schPc, schEntry, schPipes, schTask>>
    BY DEF TaskStep, TaskQueueGet, TaskDelay, TaskGetAgain, TaskReceive, TaskExpire, TaskEmpty,
       TaskPoll, TaskAck, TaskKeepWaiting, TaskContinue, schVars
  <1>3. InFlight(t, m)' = InFlight(t, m)
    BY <1>1, <1>2 DEF InFlight, schMid, OwnedBy
  <1>4. UNCHANGED queue => Queued(t, m)' = Queued(t, m)
    BY <1>1 DEF Queued, OwnedBy
  <1>5. ASSUME NEW c, BeginReceive(t, c), UNCHANGED <<queue, hand>>
        PROVE  Accounted(t, m)'
    <2>1. PICK n \in {0, 1} :
            /\ Occurrences(triggeredMIDs'[t], m) = Occurrences(triggeredMIDs[t], m) - n
            /\ Occurrences(acknowledgedMIDs'[t], m) = Occurrences(acknowledgedMIDs[t], m) - n
      BY <1>5, FinishMessageAccounts DEF BeginReceive, MarkPipeAsComplete
    <2> QED
      BY <1>t, <1>3, <1>4, <1>5, <2>1 DEF Accounted
  <1>6. CASE TaskReceive(t)
    <2>1. PICK p \in Pipes : p = call[t].pipe
      <3>1. call[t] \in Calls[t] /\ Calls[t] \subseteq Call
        BY <1>6, SimAssumption DEF TaskReceive, TypeInv, CallInv, InCall
      <3> QED
        BY <3>1 DEF Call
    <2>2. prevPipeTaskOwner[p] = t
      <3>1. call[t] \in Calls[t]
        BY <1>6 DEF TaskReceive, TypeInv, CallInv, InCall
      <3> QED
        BY <2>1, <3>1 DEF OwnPipes, DeliveryInv
    <2>3. /\ queue[p] # <<>> /\ queue' = [queue EXCEPT ![p] = Tail(queue[p])]
          /\ hand' = [hand EXCEPT ![t] = Head(queue[p])] /\ pc[t] = "recv"
          /\ UNCHANGED <<triggeredMIDs, acknowledgedMIDs>>
      BY <1>6, <2>1 DEF TaskReceive, ifaceVars, ipcVars
    <2>4. hand[t] = NoMid /\ hand'[t] = Head(queue[p])
      BY <1>0, <2>3 DEF DeliveryInv
    <2>5. Shorter(queue, queue', p)
      BY <2>3 DEF Shorter
    <2>6. queue \in [Pipes -> Seq(Mids)] /\ queue[p] # <<>>
      BY <1>0, <2>3
    <2>7. Cardinality(Queued(t, m)')
            = Cardinality(Queued(t, m)) - (IF prevPipeTaskOwner[p] = t /\ Head(queue[p]) = m THEN 1 ELSE 0)
      BY ONLY <1>1, <2>5, <2>6, QueuedTail
    <2> QED
      BY <1>0, <1>t, <1>3, <2>2, <2>3, <2>4, <2>7 DEF Accounted
  <1>7. CASE TaskAck(t)
    <2>1. /\ AcknowledgePipeTrigger(t, hand[t], call[t].site) /\ hand'[t] = NoMid
          /\ UNCHANGED <<queue, triggeredMIDs>>
      BY <1>0, <1>7 DEF TaskAck, AcknowledgePipeTrigger
    <2>2. Queued(t, m)' = Queued(t, m)
      BY <1>4, <2>1
    <2>3. CASE Contains(triggeredMIDs[t], hand[t])
      <3>1. PICK e \in Mids : e = hand[t]
        BY <1>0, <2>3 DEF Contains
      <3>2. acknowledgedMIDs'[t] = Append(acknowledgedMIDs[t], e) /\ acknowledgedMIDs[t] \in Seq(Mids)
        BY <1>0, <2>1, <2>3, <3>1 DEF AcknowledgePipeTrigger
      <3>3. Occurrences(acknowledgedMIDs'[t], m)
              = Occurrences(acknowledgedMIDs[t], m) + (IF e = m THEN 1 ELSE 0)
        BY <3>2, OccurrencesAppend
      <3>4. (hand[t] = m <=> e = m) /\ hand'[t] # m /\ UNCHANGED triggeredMIDs
        BY <1>0, <2>1, <3>1
      <3>5. CASE e = m
        BY <1>t, <1>3, <2>2, <3>3, <3>4, <3>5 DEF Accounted
      <3>6. CASE e # m
        BY <1>t, <1>3, <2>2, <3>3, <3>4, <3>6 DEF Accounted
      <3> QED
        BY <3>5, <3>6
    <2>4. CASE ~Contains(triggeredMIDs[t], hand[t])
      <3>1. UNCHANGED acknowledgedMIDs
        BY <2>1, <2>4 DEF AcknowledgePipeTrigger
      <3>2. CASE hand[t] = m
        <4>1. triggeredMIDs[t] \in Seq(Mids)
          BY <1>0
        <4>2. Occurrences(triggeredMIDs[t], m) = 0
          BY <2>4, <3>2, <4>1, PositionsFinite
        <4> QED
          BY <1>t, <3>2, <4>2 DEF Accounted
      <3>3. CASE hand[t] # m
        BY <1>0, <1>t, <1>3, <2>1, <2>2, <3>1, <3>3 DEF Accounted
      <3> QED
        BY <3>2, <3>3
    <2> QED
      BY <2>3, <2>4
  <1>8. ASSUME UNCHANGED <<queue, hand, triggeredMIDs, acknowledgedMIDs>>
        PROVE  Accounted(t, m)'
    BY <1>3, <1>4, <1>8 DEF Accounted
  <1>9. CASE \E c \in Calls[t] : TaskQueueGet(t, c)
    BY <1>5, <1>9 DEF TaskQueueGet
  <1>10. CASE TaskGetAgain(t)
    BY <1>5, <1>10 DEF TaskGetAgain
  <1>11. ASSUME NEW ms, NEW at, NEW after, BeginDelay(t, ms, at, after)
         PROVE  UNCHANGED <<triggeredMIDs, acknowledgedMIDs>>
    BY <1>11 DEF BeginDelay, AddTaskDelay, AddTaskDelaySkipped, ipcVars
  <1>12. CASE \E ms \in Delays[t] : TaskDelay(t, ms)
    BY <1>8, <1>11, <1>12 DEF TaskDelay
  <1>13. CASE TaskPoll(t)
    BY <1>8, <1>11, <1>13 DEF TaskPoll
  <1>14. CASE TaskExpire(t) \/ TaskEmpty(t) \/ TaskKeepWaiting(t) \/ TaskContinue(t)
    BY <1>8, <1>14 DEF TaskExpire, TaskEmpty, TaskKeepWaiting, TaskContinue, KeepWaiting, Continue,
       ContinueAfterDelay, ifaceVars, ipcVars, taskVars
  <1> QED
    BY <1>6, <1>7, <1>9, <1>10, <1>12, <1>13, <1>14 DEF TaskStep

\* The other tasks read other pipes.
LEMMA OtherStepAccounted ==
  ASSUME TypeInv, DeliveryInv, OwnPipes, NEW t \in Tasks, NEW u \in Tasks \ {t}, TaskStep(u),
         NEW m \in Mids, Accounted(t, m)
  PROVE  Accounted(t, m)'
  <1>0. hand \in [Tasks -> Mids \cup {NoMid}] /\ queue \in [Pipes -> Seq(Mids)]
    BY DEF TypeInv, TypeOK, TaskTypeOK
  <1>1. UNCHANGED prevPipeTaskOwner
    BY PipesStayOwned
  <1>2. /\ UNCHANGED <<schPc, schEntry, schPipes, schTask>>
        /\ hand'[t] = hand[t]
    BY <1>0 DEF TaskStep, TaskQueueGet, TaskDelay, TaskGetAgain, TaskReceive, TaskExpire, TaskEmpty,
       TaskPoll, TaskAck, TaskKeepWaiting, TaskContinue, schVars, taskVars
  <1>3. triggeredMIDs'[t] = triggeredMIDs[t] /\ acknowledgedMIDs'[t] = acknowledgedMIDs[t]
    BY TaskLeavesOthers
  <1>4. InFlight(t, m)' = InFlight(t, m)
    BY <1>1, <1>2 DEF InFlight, schMid, OwnedBy
  <1>5. ASSUME NEW p \in Pipes, prevPipeTaskOwner[p] = t PROVE queue'[p] = queue[p]
    <2>1. CASE TaskReceive(u)
      <3>1. call[u] \in Calls[u] /\ queue' = [queue EXCEPT ![call[u].pipe] = Tail(@)]
        BY <2>1 DEF TaskReceive, TypeInv, CallInv, InCall
      <3>2. prevPipeTaskOwner[call[u].pipe] = u
        BY <3>1 DEF OwnPipes, DeliveryInv
      <3> QED
        BY <1>0, <1>5, <3>1, <3>2
    <2>2. CASE UNCHANGED queue
      BY <2>2
    <2> QED
      BY <2>1, <2>2 DEF TaskStep, TaskQueueGet, TaskDelay, TaskGetAgain, TaskExpire, TaskEmpty,
         TaskPoll, TaskAck, TaskKeepWaiting, TaskContinue
  <1>6. Queued(t, m)' = Queued(t, m)
    BY <1>1, <1>5 DEF Queued, OwnedBy
  <1> QED
    BY <1>2, <1>3, <1>4, <1>6 DEF Accounted

\* What others send is not the scheduler's.
LEMMA PublishAccounted ==
  ASSUME TypeInv, ScheduledOnly, NEW t \in Tasks, NEW m \in Range(Table), NEW pm \in Unsolicited,
         Publish(pm[1], pm[2]), Accounted(t, m)
  PROVE  Accounted(t, m)'
  <1>0. pm[1] \in Pipes /\ pm[2] \in Mids /\ pm[2] # m /\ queue \in [Pipes -> Seq(Mids)]
    BY SimAssumption DEF ScheduledOnly, TypeInv, TypeOK
  <1>1. ASSUME NEW p \in Pipes PROVE Positions(queue'[p], m) = Positions(queue[p], m)
    <2>1. CASE queue' = [queue EXCEPT ![pm[1]] = Append(@, pm[2])] /\ p = pm[1]
      <3>1. PICK e \in Mids, s \in Seq(Mids) : e = pm[2] /\ s = queue[p]
        BY <1>0
      <3>2. queue'[p] = Append(s, e) /\ e # m
        BY <1>0, <2>1, <3>1
      <3>3. Positions(Append(s, e), m) = Positions(s, m) \cup (IF e = m THEN {Len(s) + 1} ELSE {})
        BY OccurrencesAppend
      <3> QED
        BY <3>1, <3>2, <3>3
    <2>2. CASE queue'[p] = queue[p]
      BY <2>2
    <2> QED
      BY <1>0, <2>1, <2>2 DEF Publish, Deliver
  <1>2. UNCHANGED <<prevPipeTaskOwner, triggeredMIDs, acknowledgedMIDs, hand, schPc, schEntry,
                    schPipes, schTask>>
    BY DEF Publish, ifaceVars, ipcVars, schVars, taskVars
  <1>3. Queued(t, m)' = Queued(t, m)
    BY <1>1, <1>2 DEF Queued, OwnedBy
  <1>4. InFlight(t, m)' = InFlight(t, m)
    BY <1>2 DEF InFlight, schMid, OwnedBy
  <1> QED
    BY <1>2, <1>3, <1>4 DEF Accounted

\* The main thread has all the time it needs, or does not wait.
PatientInv == (PerfectMode => NoWait) /\ WaitForGood

LEMMA NextPatientInv ==
  ASSUME PatientInv, [Next]_vars
  PROVE  PatientInv'
  <1>1. PerfectMode => NoWait'
    BY NextNoWait DEF PatientInv
  <1>2. WaitForGood'
    <2>1. UNCHANGED <<mainPc, remainingTime>> \/ MainStep \/ MainTimer
      BY DEF Next, SchStep, SchInit, SchWait, SchTable, SchOwner, SchMark, SchXmit, SchNext, SchSpin,
         SchCheck, TaskStep, TaskQueueGet, TaskDelay, TaskGetAgain, TaskReceive, TaskExpire,
         TaskEmpty, TaskPoll, TaskAck, TaskKeepWaiting, TaskContinue, Environment, Spurious, Publish,
         StopApp, Exit, vars, mainVars
    <2> QED
      BY <2>1 DEF PatientInv, WaitForGood, MainStep, MainRead, MainTestNext, MainTestWait, MainWoken,
         MainWaitOn, MainGiveUp, MainCycle, MainUpdate, MainTrigger, MainDone, MainTimer, GoMain
  <1> QED
    BY <1>1, <1>2 DEF PatientInv

LEMMA MainAccounted ==
  ASSUME TypeInv, PatientInv, NeverGivesUp, NEW t \in Tasks, NEW m, MainStep \/ MainTimer,
         Accounted(t, m)
  PROVE  Accounted(t, m)'
  <1>1. ~MainGiveUp \/ UNCHANGED triggeredMIDs
    BY DEF MainGiveUp, PatientInv, NoWait, WaitForGood, NeverGivesUp
  <1>2. UNCHANGED <<schPc, schEntry, schPipes, schTask, queue, prevPipeTaskOwner, triggeredMIDs,
                    acknowledgedMIDs, hand>>
    BY <1>1 DEF MainStep, MainRead, MainTestNext, MainTestWait, MainWoken, MainWaitOn, MainGiveUp,
       MainCycle, MainUpdate, MainTrigger, UpdateTaskTime, MainTimer, ifaceVars, ipcVars, schVars,
       taskVars
  <1> QED
    BY <1>2, AccountedUnchanged

LEMMA NextDeliveryInv ==
  ASSUME TypeInv, OwnPipes, DeliveryInv, [Next]_vars
  PROVE  DeliveryInv'
  <1>0. hand \in [Tasks -> Mids \cup {NoMid}] /\ pc \in [Tasks -> TaskPCs]
    BY DEF TypeInv, TypeOK, TaskTypeOK
  <1>1. CASE UNCHANGED <<prevPipeTaskOwner, hand, pc, schPc, schEntry, schPipes, schTask>>
    BY <1>1 DEF DeliveryInv, schMid
  <1>2. ASSUME NEW t \in Tasks, TaskStep(t) PROVE DeliveryInv'
    <2>1. UNCHANGED <<prevPipeTaskOwner, schPc, schEntry, schPipes, schTask>>
      <3>1. UNCHANGED <<schPc, schEntry, schPipes, schTask>>
        BY <1>2 DEF TaskStep, TaskQueueGet, TaskDelay, TaskGetAgain, TaskReceive, TaskExpire,
           TaskEmpty, TaskPoll, TaskAck, TaskKeepWaiting, TaskContinue, schVars
      <3> QED
        BY <1>2, <3>1, PipesStayOwned
    <2>2. ASSUME NEW u \in Tasks, hand'[u] # NoMid PROVE pc'[u] = "ack"
      <3>1. CASE TaskReceive(t) \/ TaskAck(t)
        BY <1>0, <2>2, <3>1 DEF TaskReceive, TaskAck, GoTask, DeliveryInv
      <3>2. CASE ~(TaskReceive(t) \/ TaskAck(t))
        <4>1. UNCHANGED hand /\ pc[t] # "ack" /\ \A v \in Tasks \ {t} : pc'[v] = pc[v]
          BY <1>0, <1>2, <3>2 DEF TaskStep, TaskQueueGet, TaskDelay, TaskGetAgain, TaskExpire,
             TaskEmpty, TaskPoll, TaskKeepWaiting, TaskContinue, BeginReceive, BeginDelay, GoTask,
             taskVars
        <4> QED
          BY <2>2, <4>1 DEF DeliveryInv
      <3> QED
        BY <3>1, <3>2
    <2> QED
      BY <2>1, <2>2 DEF DeliveryInv, schMid
  <1>3. CASE SchStep
    <2>1. UNCHANGED <<prevPipeTaskOwner, hand, pc>>
      BY <1>3 DEF SchStep, SchInit, SchWait, SchTable, SchOwner, SchMark, SchXmit, SchNext, SchSpin,
         SchCheck, taskVars, ifaceVars, ipcVars
    <2>2. ASSUME schPc' \in {"owner", "mark", "xmit"} PROVE schPipes' \subseteq Subscribers[schMid']
      BY <1>3, <2>2 DEF SchStep, SchInit, SchWait, SchTable, SchOwner, SchMark, SchXmit, SchNext,
         SchSpin, SchCheck, GoSch, schMid, DeliveryInv
    <2>3. ASSUME schPc' = "mark"
          PROVE  \E p \in Subscribers[schMid'] \ schPipes' : prevPipeTaskOwner'[p] = schTask'
      <3>1. SchOwner
        BY <1>3, <2>3 DEF SchStep, SchInit, SchWait, SchTable, SchMark, SchXmit, SchNext,
           SchSpin, SchCheck, GoSch
      <3>2. PICK p \in schPipes : schTask' = prevPipeTaskOwner[p] /\ schPipes' = schPipes \ {p}
        BY <2>3, <3>1 DEF SchOwner, GoSch
      <3>3. p \in Subscribers[schMid] /\ schMid' = schMid
        BY <3>1 DEF SchOwner, DeliveryInv, schMid
      <3> QED
        BY <2>1, <3>2, <3>3
    <2> QED
      BY <2>1, <2>2, <2>3 DEF DeliveryInv
  <1> QED
    BY <1>1, <1>2, <1>3 DEF Next, MainStep, MainRead, MainTestNext, MainTestWait, MainWoken,
       MainWaitOn, MainGiveUp, MainCycle, MainUpdate, MainTrigger, Environment, MainTimer, Spurious,
       Publish, StopApp, Exit, vars, ifaceVars, ipcVars, schVars, taskVars

LEMMA NextAccounted ==
  ASSUME OwnPipes, ScheduledOnly, NeverGivesUp, TypeInv, PatientInv, DeliveryInv, RoomInPipes,
         TriggerAccounting, [Next]_vars
  PROVE  TriggerAccounting'
  <1> SUFFICES ASSUME NEW t \in Tasks, NEW m \in Range(Table), appRunning'[t]
               PROVE  Accounted(t, m)'
    BY DEF TriggerAccounting, Accounted
  <1>0. appRunning[t]
    BY StoppedForGood
  <1>1. Accounted(t, m) /\ m \in Mids
    BY <1>0, SimAssumption DEF TriggerAccounting, Accounted, Range
  <1>2. CASE MainStep \/ MainTimer
    BY <1>1, <1>2, MainAccounted
  <1>3. CASE SchStep
    BY <1>0, <1>1, <1>3, SchAccounted
  <1>4. ASSUME NEW u \in Tasks, TaskStep(u) PROVE Accounted(t, m)'
    <2>1. CASE u = t
      BY <1>1, <1>4, <2>1, OwnStepAccounted
    <2>2. CASE u # t
      BY <1>1, <1>4, <2>2, OtherStepAccounted
    <2> QED
      BY <2>1, <2>2
  <1>5. ASSUME NEW pm \in Unsolicited, Publish(pm[1], pm[2]) PROVE Accounted(t, m)'
    BY <1>1, <1>5, PublishAccounted
  <1>6. CASE UNCHANGED <<schPc, schEntry, schPipes, schTask, queue, prevPipeTaskOwner, triggeredMIDs,
                         acknowledgedMIDs, hand>>
    BY <1>1, <1>6, AccountedUnchanged
  <1> QED
    BY <1>2, <1>3, <1>4, <1>5, <1>6 DEF Next, Environment, Spurious, StopApp, Exit, vars, ifaceVars,
       ipcVars, schVars, taskVars

LEMMA InitAccounted == Init => DeliveryInv /\ PatientInv /\ TriggerAccounting
  <1> SUFFICES ASSUME Init PROVE DeliveryInv /\ PatientInv /\ TriggerAccounting
    OBVIOUS
  <1>1. DeliveryInv /\ PatientInv
    BY DEF Init, IfaceInit, DeliveryInv, PatientInv, NoWait, WaitForGood
  <1>2. ASSUME NEW t \in Tasks, NEW m \in Range(Table) PROVE Accounted(t, m)
    <2>1. m \in Mids /\ NoMid # m
      BY InterfaceAssumption, SimAssumption DEF Range
    <2>2. /\ triggeredMIDs[t] = <<>> /\ acknowledgedMIDs[t] = <<>> /\ hand[t] = NoMid
          /\ schPc = "init" /\ \A p \in Pipes : queue[p] = <<>>
      BY DEF Init, IfaceInit
    <2>3. Positions(<<>>, m) = {}
      BY DEF Positions
    <2>4. Queued(t, m) = {}
      BY <2>2, <2>3 DEF Queued, OwnedBy
    <2>5. InFlight(t, m) = 0
      BY <2>2 DEF InFlight
    <2>6. Occurrences(<<>>, m) = 0 /\ Cardinality(Queued(t, m)) = 0
      BY <2>3, <2>4, FS_EmptySet DEF Occurrences
    <2> QED
      BY <2>1, <2>2, <2>5, <2>6 DEF Accounted
  <1> QED
    BY <1>1, <1>2 DEF TriggerAccounting, Accounted

\* No trigger is lost and none is noted for nothing: each one noted for a running app
\* is a message on its way to it, in one of its pipes, just received or acknowledged,
\* as long as the pipes have room when the scheduler sends.  The assumptions are about
\* the apps (each pipe is read by the task that creates it; what is in the schedule
\* table is sent by the scheduler alone) and about the main thread, which must not
\* give up on a task.
THEOREM TriggerAccountingHolds ==
  ASSUME OwnPipes, ScheduledOnly, NeverGivesUp
  PROVE  Spec /\ []RoomInPipes => []TriggerAccounting
  <1>1. Init => DeliveryInv /\ PatientInv /\ TriggerAccounting
    BY InitAccounted
  <1>2. TypeInv /\ DeliveryInv /\ PatientInv /\ TriggerAccounting /\ RoomInPipes /\ [Next]_vars
          => (DeliveryInv /\ PatientInv /\ TriggerAccounting)'
    BY NextDeliveryInv, NextPatientInv, NextAccounted
  <1> QED
    BY <1>1, <1>2, TypeInvariance, PTL DEF Spec
==============================================================================
