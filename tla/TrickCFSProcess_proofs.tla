----------------------- MODULE TrickCFSProcess_proofs -----------------------
(***************************************************************************)
(* Proofs about TrickCFSProcess, for any number of slots, pipes and apps,  *)
(* any order of starting, stopping and deleting them, and any schedule     *)
(* table.                                                                  *)
(***************************************************************************)
EXTENDS TrickCFSProcess, TrickCFSInterface_proofs, OSAL_proofs, FiniteSetTheorems

\* Where a thread is says which of its variables mean something.
MainInv == mainPc = "wait" => ii < NumTasks
SchInv == schPc \in {"mark", "xmit"} => schEntry <= Len(Table)
TaskInv ==
  \A t \in Tasks :
    /\ pc[t] = "recv" => pipe[t] \in Pipes
    /\ ~Uses(t) => pc[t] = "none"

TypeInv == TypeOK /\ MainInv /\ SchInv /\ TaskInv

\* The right to work on a frame is with the main thread, with the SCH thread or in
\* one of the eventfds.
Baton ==
  isMainCompleteTrigger + triggerMain
    + (IF mainPc \in {"boot", "read"} THEN 0 ELSE 1) + (IF schPc = "wait" THEN 0 ELSE 1) = 1

\* The destinations the SCH thread has yet to mark are still there.
MarkInv == schPc = "mark" => schPipes \subseteq Destinations(schMid)

\* A slot with no task has nothing to finish but what a deleted task has left there, and
\* only a task in OS_TaskDelay is taken for one, unless it was deleted there.
FreeInv == \A t \in Tasks : ~Uses(t) => ToFinish(t) \subseteq inherited[t]
DelayInv == \A t \in Tasks \ stale : state[t] = "TASK_DELAY" => pc[t] \in Delaying

\* The main thread has nothing to wait for in slot t.
Settled(t) ==
  \/ t \in stale
  \/ ~Uses(t) \/ ~appRunning[t]
  \/ ToFinish(t) \subseteq inherited[t]
  \/ pc[t] \in Delaying /\ state[t] = "TASK_DELAY"

BarrierInv ==
  mainPc \in {"test", "wait", "idle"} /\ ~exitCmd => \A t \in Tasks : t < ii => Settled(t)

\* A reset under way has been asked for and recorded.
ResetInv ==
  /\ bootRecord.valid => bootRecord.NextResetType \in asked
  /\ ~reserved => CFE_PSP_RST_TYPE_POWERON \in asked
  /\ \A t \in Tasks : pc[t] \in ResetPCs => bootRecord.valid
  /\ ended = "aborted" => bootRecord.valid

------------------------------------------------------------------------------
\* What a step of each actor leaves alone

LEMMA MainFrame ==
  ASSUME MainStep
  PROVE  UNCHANGED <<exitCmd, waitForever, schVars, appVars, pipeVars, prevPipeTaskOwner,
                     perfectFDMap, appRunning, asked>>
  BY DEF MainStep, Boot, MainRead, MainDone, MainPass, MainWait, MainExpire, MainCycle,
         MainUpdate, Shutdown, ifaceVars, appVars, schVars, pipeVars, historyVars

LEMMA SchFrame ==
  ASSUME SchStep
  PROVE  UNCHANGED <<mainVars, appVars, pipeApp, prevPipeTaskOwner, appRunning, pspVars,
                     historyVars, state, stacks, acknowledgedMIDs, usRemaining, cv>>
  BY DEF SchStep, SchInit, SchFail, SchWait, SchTable, SchMark, SchXmit, SchNext,
         ifaceVars, ipcVars, pipeVars, schVars

LEMMA TaskFrame ==
  ASSUME NEW t, TaskStep(t)
  PROVE  UNCHANGED <<mainVars, schVars, perfectFDMap, eventVars, appRunning, pspVars, appOf,
                     ended, historyVars>>
  BY DEF TaskStep, OS_QueueCreate, OS_QueueGet, Receive, ReceiveNothing, Acknowledge,
         OS_TaskDelay, EndDelay, ifaceVars, appVars

LEMMA RestartFrame ==
  ASSUME NEW t, RestartStep(t)
  PROVE  UNCHANGED <<mainVars, schVars, perfectFDMap, eventVars, appRunning, prevPipeTaskOwner,
                     appOf, pipe, hand, pipeVars, historyVars, bootRecord, reserved>>
  BY DEF RestartStep, RestartRequest, RestartAbort, RequestShutdown, ifaceVars, appVars, pspVars

LEMMA EnvironmentFrame ==
  ASSUME Environment
  PROVE  UNCHANGED <<ipcVars, perfectFDMap, eventVars, prevPipeTaskOwner, schVars,
                     execMode, waitForever, mainPc, ii>>
  BY DEF Environment, StartApp, StopApp, OS_QueueDelete, DeleteTask, Restart, Panic, Exit,
         ifaceVars, mainVars

------------------------------------------------------------------------------
\* Types

\* The parts of TypeOK: the threads, the slots, the pipes.
MainTypeOK ==
  /\ execMode \in {"Initialization", "Run", "ExitMode"}
  /\ exitCmd \in BOOLEAN
  /\ waitForever \in BOOLEAN
  /\ mainPc \in {"boot", "read", "test", "wait", "idle", "update", "cycle", "delete"}
  /\ ii \in 0..NumTasks
SchTypeOK ==
  /\ schPc \in {"init", "wait", "table", "mark", "xmit", "gone"}
  /\ schEntry \in 1..(Len(Table) + 1)
  /\ schPipes \in SUBSET Pipes
AppTypeOK ==
  /\ appOf \in [Tasks -> Apps \cup {NoApp}]
  /\ pc \in [Tasks -> TaskPCs]
  /\ pipe \in [Tasks -> Pipes \cup {NoPipe}]
  /\ hand \in [Tasks -> Mids \cup {NoMid}]
PipeTypeOK ==
  /\ pipeApp \in [Pipes -> Apps \cup {NoApp}]
  /\ queue \in [Pipes -> Seq(Mids)]
HistoryTypeOK ==
  /\ ended \in {"no", "returned", "aborted", "terminated", "panic"}
  /\ stale \in SUBSET Tasks
  /\ inherited \in [Tasks -> SUBSET Mids]
  /\ asked \in SUBSET ResetTypes

LEMMA TypeParts ==
  TypeOK <=> /\ IfaceTypeOK /\ PspTypeOK
             /\ MainTypeOK /\ SchTypeOK /\ AppTypeOK /\ PipeTypeOK /\ HistoryTypeOK
  BY DEF TypeOK, MainTypeOK, SchTypeOK, AppTypeOK, PipeTypeOK, HistoryTypeOK

\* There are no more tasks than slots.
LEMMA RegisteredBound == RegisteredTasks \in Nat /\ RegisteredTasks <= NumTasks
  <1> DEFINE used == {t \in Tasks : Uses(t)}
  <1>1. IsFiniteSet(Tasks) /\ Cardinality(Tasks) = NumTasks
    <2>1. NumTasks \in Nat /\ 0 \in Int /\ NumTasks - 1 \in Int
      BY InterfaceAssumption
    <2>2. IsFiniteSet(0..(NumTasks - 1))
          /\ Cardinality(0..(NumTasks - 1)) = IF 0 > NumTasks - 1 THEN 0 ELSE NumTasks
      BY <2>1, FS_Interval
    <2> QED
      BY <2>1, <2>2, InterfaceAssumption DEF Tasks
  <1>2. used \subseteq Tasks
    OBVIOUS
  <1>3. IsFiniteSet(used) /\ Cardinality(used) <= Cardinality(Tasks) /\ Cardinality(used) \in Nat
    BY <1>1, <1>2, FS_Subset, FS_CardinalityType
  <1> QED
    BY <1>1, <1>3 DEF RegisteredTasks

LEMMA MainTypes ==
  ASSUME TypeInv, Next
  PROVE  MainTypeOK' /\ MainInv'
  <1>0. MainTypeOK /\ MainInv /\ NumTasks \in Nat
    BY TypeParts, InterfaceAssumption DEF TypeInv
  <1>1. CASE MainStep
    <2>1. CASE Boot \/ MainRead \/ MainDone \/ MainCycle
      BY <1>0, <2>1 DEF Boot, MainRead, MainDone, MainCycle, GoMain, MainTypeOK, MainInv
    <2>2. CASE MainPass \/ MainExpire
      <3>1. ii < NumTasks
        BY <1>0, <2>2, RegisteredBound DEF MainPass, MainOnTask, MainExpire, MainInv, MainTypeOK
      <3>2. /\ mainPc' = "test" /\ ii' = ii + 1
            /\ UNCHANGED <<execMode, exitCmd, waitForever>>
        BY <2>2 DEF MainPass, MainExpire, NextSlot, GoMain
      <3> QED
        BY <1>0, <3>1, <3>2 DEF MainTypeOK, MainInv
    <2>3. CASE MainWait
      <3>1. ii < NumTasks
        BY <1>0, <2>3, RegisteredBound DEF MainWait, MainOnTask, MainTypeOK
      <3> QED
        BY <1>0, <2>3, <3>1 DEF MainWait, GoMain, MainTypeOK, MainInv
    <2>4. CASE MainUpdate
      BY <1>0, <2>4 DEF MainUpdate, GoMain, MainTypeOK, MainInv
    <2>5. CASE Shutdown
      BY <1>0, <2>5 DEF Shutdown, GoMain, MainTypeOK, MainInv
    <2> QED
      BY <1>1, <2>1, <2>2, <2>3, <2>4, <2>5 DEF MainStep
  <1>2. CASE SchStep \/ (\E t \in Tasks : TaskStep(t)) \/ (\E t \in Tasks : RestartStep(t))
    <2>1. UNCHANGED mainVars
      BY <1>2, SchFrame, TaskFrame, RestartFrame
    <2> QED
      BY <1>0, <2>1 DEF mainVars, MainTypeOK, MainInv
  <1>3. CASE Environment
    <2>1. exitCmd' = exitCmd \/ exitCmd' = TRUE
      BY <1>3 DEF Environment, StartApp, StopApp, OS_QueueDelete, DeleteTask, Restart, Panic,
                  Exit, mainVars
    <2> QED
      BY <1>0, <1>3, <2>1, EnvironmentFrame DEF MainTypeOK, MainInv
  <1> QED
    BY <1>1, <1>2, <1>3 DEF Next

LEMMA SchTypes ==
  ASSUME TypeInv, Next
  PROVE  SchTypeOK' /\ SchInv'
  <1>0. SchTypeOK /\ SchInv /\ Len(Table) \in Nat
    BY TypeParts, ProcessAssumption DEF TypeInv
  <1>1. CASE SchStep
    <2>1. CASE SchInit \/ SchWait \/ SchNext
      BY <1>0, <2>1 DEF SchInit, SchWait, SchNext, GoSch, SchTypeOK, SchInv
    <2>2. CASE SchFail
      BY <1>0, <2>2 DEF SchFail, schVars, SchTypeOK, SchInv
    <2>3. CASE SchTable
      BY <1>0, <2>3 DEF SchTable, NextEntry, GoSch, Destinations, SchTypeOK, SchInv
    <2>4. CASE \E p \in Pipes : SchMark(p)
      BY <1>0, <2>4 DEF SchMark, GoSch, SchTypeOK, SchInv
    <2>5. CASE SchXmit
      BY <1>0, <2>5 DEF SchXmit, NextEntry, GoSch, SchTypeOK, SchInv
    <2> QED
      BY <1>1, <2>1, <2>2, <2>3, <2>4, <2>5 DEF SchStep
  <1>2. CASE ~SchStep
    <2>1. UNCHANGED schVars
      BY <1>2, MainFrame, TaskFrame, RestartFrame, EnvironmentFrame DEF Next
    <2> QED
      BY <1>0, <2>1 DEF schVars, SchTypeOK, SchInv
  <1> QED
    BY <1>1, <1>2

LEMMA AppTypes ==
  ASSUME TypeInv, Next
  PROVE  AppTypeOK' /\ TaskInv'
  <1>0. AppTypeOK /\ TaskInv /\ PipeTypeOK /\ IfaceTypeOK
    BY TypeParts DEF TypeInv
  <1>1. CASE MainStep \/ SchStep
    <2>1. UNCHANGED appVars
      BY <1>1, MainFrame, SchFrame
    <2> QED
      BY <1>0, <2>1 DEF appVars, AppTypeOK, TaskInv, Uses
  <1>2. ASSUME NEW t \in Tasks, TaskStep(t) PROVE AppTypeOK' /\ TaskInv'
    <2>1. CASE \E p \in Pipes : OS_QueueCreate(t, p)
      BY <1>0, <2>1 DEF OS_QueueCreate, appVars, AppTypeOK, TaskInv, Uses
    <2>2. CASE \E p \in Pipes : OS_QueueGet(t, p)
      BY <1>0, <2>2 DEF OS_QueueGet, GoTask, AppTypeOK, TaskInv, Uses, TaskPCs
    <2>3. CASE Receive(t)
      <3>1. pipe[t] \in Pipes
        BY <1>0, <2>3 DEF Receive, TaskInv
      <3>2. Head(queue[pipe[t]]) \in Mids
        BY <1>0, <2>3, <3>1 DEF Receive, PipeTypeOK
      <3>3. /\ pc[t] = "recv"
            /\ hand' = [hand EXCEPT ![t] = Head(queue[pipe[t]])]
            /\ pc' = [pc EXCEPT ![t] = "ack"]
            /\ UNCHANGED <<appOf, pipe>>
        BY <2>3 DEF Receive, GoTask
      <3> QED
        BY <1>0, <3>2, <3>3 DEF AppTypeOK, TaskInv, Uses, TaskPCs
    <2>4. CASE ReceiveNothing(t)
      BY <1>0, <2>4 DEF ReceiveNothing, GoTask, AppTypeOK, TaskInv, Uses, TaskPCs
    <2>5. CASE Acknowledge(t)
      BY <1>0, <2>5 DEF Acknowledge, GoTask, AppTypeOK, TaskInv, Uses, TaskPCs
    <2>6. CASE (\E ms \in UNION {Delays[a] : a \in Apps} : OS_TaskDelay(t, ms)) \/ EndDelay(t)
      BY <1>0, <2>6 DEF OS_TaskDelay, EndDelay, GoTask, AppTypeOK, TaskInv, Uses, TaskPCs
    <2> QED
      BY <1>2, <2>1, <2>2, <2>3, <2>4, <2>5, <2>6 DEF TaskStep
  <1>3. ASSUME NEW t \in Tasks, RestartStep(t) PROVE AppTypeOK' /\ TaskInv'
    <2>1. CASE RestartRequest(t)
      BY <1>0, <2>1 DEF RestartRequest, GoTask, AppTypeOK, TaskInv, Uses, TaskPCs, ResetPCs
    <2>2. CASE RestartAbort(t)
      BY <1>0, <2>2 DEF RestartAbort, appVars, AppTypeOK, TaskInv, Uses
    <2> QED
      BY <1>3, <2>1, <2>2 DEF RestartStep
  <1>4. CASE Environment
    <2>1. ASSUME NEW a \in Apps, NEW t \in Tasks, StartApp(a, t)
          PROVE AppTypeOK' /\ TaskInv'
      <3>1. a # NoApp
        BY ProcessAssumption
      <3>2. /\ appOf' = [appOf EXCEPT ![t] = a]
            /\ pc' = [pc EXCEPT ![t] = "app"]
            /\ UNCHANGED <<pipe, hand>>
        BY <2>1 DEF StartApp
      <3> QED
        BY <1>0, <3>1, <3>2 DEF AppTypeOK, TaskInv, Uses, TaskPCs
    <2>2. CASE \E t \in Tasks : DeleteTask(t)
      BY <1>0, <2>2 DEF DeleteTask, AppTypeOK, TaskInv, Uses, TaskPCs
    <2>3. CASE \E t \in Tasks, type \in ResetTypes : Restart(t, type)
      BY <1>0, <2>3 DEF Restart, GoTask, AppTypeOK, TaskInv, Uses, TaskPCs, ResetPCs
    <2>4. CASE UNCHANGED appVars
      BY <1>0, <2>4 DEF appVars, AppTypeOK, TaskInv, Uses
    <2> QED
      BY <1>4, <2>1, <2>2, <2>3, <2>4 DEF Environment, StopApp, OS_QueueDelete, Panic, Exit
  <1> QED
    BY <1>1, <1>2, <1>3, <1>4 DEF Next

LEMMA PipeTypes ==
  ASSUME TypeInv, Next
  PROVE  PipeTypeOK'
  <1>0. AppTypeOK /\ TaskInv /\ PipeTypeOK /\ SchTypeOK /\ SchInv
    BY TypeParts DEF TypeInv
  <1>1. CASE UNCHANGED pipeVars
    BY <1>0, <1>1 DEF pipeVars, PipeTypeOK
  <1>2. ASSUME NEW t \in Tasks, NEW p \in Pipes, OS_QueueCreate(t, p) PROVE PipeTypeOK'
    <2>1. appOf[t] \in Apps \cup {NoApp}
      BY <1>0 DEF AppTypeOK
    <2> QED
      BY <1>0, <1>2, <2>1 DEF OS_QueueCreate, PipeTypeOK
  <1>3. ASSUME NEW t \in Tasks, Receive(t) PROVE PipeTypeOK'
    <2>1. pipe[t] \in Pipes
      BY <1>0, <1>3 DEF Receive, TaskInv
    <2>2. Tail(queue[pipe[t]]) \in Seq(Mids)
      BY <1>0, <1>3, <2>1 DEF Receive, PipeTypeOK
    <2>3. queue' = [queue EXCEPT ![pipe[t]] = Tail(queue[pipe[t]])] /\ UNCHANGED pipeApp
      BY <1>3 DEF Receive
    <2> QED
      BY <1>0, <2>2, <2>3 DEF PipeTypeOK
  <1>4. CASE SchXmit
    <2>1. schMid \in Mids
      BY <1>0, <1>4, ProcessAssumption DEF SchXmit, schMid, SchTypeOK, SchInv
    <2>2. \A p \in Pipes : queue[p] \in Seq(Mids) /\ Append(queue[p], schMid) \in Seq(Mids)
      BY <1>0, <2>1 DEF PipeTypeOK
    <2>3. /\ queue' = [p \in Pipes |->
               IF p \in Destinations(schMid) /\ Len(queue[p]) < Depth
               THEN Append(queue[p], schMid) ELSE queue[p]]
          /\ UNCHANGED pipeApp
      BY <1>4 DEF SchXmit
    <2> QED
      BY <1>0, <2>2, <2>3 DEF PipeTypeOK
  <1>5. ASSUME NEW t \in Tasks, NEW p \in Pipes, OS_QueueDelete(t, p) PROVE PipeTypeOK'
    BY <1>0, <1>5 DEF OS_QueueDelete, PipeTypeOK
  <1>6. CASE MainStep \/ \E t \in Tasks : RestartStep(t)
    BY <1>1, <1>6, MainFrame, RestartFrame
  <1>7. CASE SchStep
    BY <1>1, <1>4, <1>7 DEF SchStep, SchInit, SchFail, SchWait, SchTable, SchMark, SchNext
  <1>8. ASSUME NEW t \in Tasks, TaskStep(t) PROVE PipeTypeOK'
    BY <1>1, <1>2, <1>3, <1>8 DEF TaskStep, OS_QueueGet, ReceiveNothing, Acknowledge,
       OS_TaskDelay, EndDelay, pipeVars
  <1>9. CASE Environment
    BY <1>1, <1>5, <1>9 DEF Environment, StartApp, StopApp, DeleteTask, Restart, Panic, Exit
  <1> QED
    BY <1>6, <1>7, <1>8, <1>9 DEF Next

LEMMA PspTypes ==
  ASSUME TypeInv, Next
  PROVE  PspTypeOK' /\ HistoryTypeOK'
  <1>0. PspTypeOK /\ HistoryTypeOK /\ MainTypeOK
    BY TypeParts DEF TypeInv
  <1>1. CASE MainStep
    <2>1. PspTypeOK'
      BY <1>0, <1>1 DEF MainStep, Boot, MainRead, MainDone, MainPass, MainWait, MainExpire,
         MainCycle, MainUpdate, Shutdown, Attach, RaiseEvent, OS_Application_Cycle, pspVars,
         PspTypeOK
    <2>2. stale' \subseteq stale
      BY <1>1 DEF MainStep, Boot, MainRead, MainDone, MainPass, MainWait, MainExpire,
         MainCycle, MainUpdate, Outlived, Shutdown, historyVars
    <2>3. ended' \in {ended, "returned"}
      BY <1>1 DEF MainStep, Boot, MainRead, MainDone, MainPass, MainWait, MainExpire,
         MainCycle, MainUpdate, Shutdown
    <2>4. inherited' = inherited \/ inherited' = [inherited EXCEPT ![ii] = {}]
      BY <1>1 DEF MainStep, Boot, MainRead, MainDone, MainPass, MainWait, MainExpire,
         MainCycle, MainUpdate, Outlived, Shutdown, historyVars
    <2> QED
      BY <1>0, <1>1, <2>1, <2>2, <2>3, <2>4, MainFrame DEF HistoryTypeOK
  <1>2. CASE SchStep
    <2>1. UNCHANGED <<pspVars, historyVars>>
      BY <1>2, SchFrame
    <2>2. ended' \in {ended, "terminated"}
      BY <1>2 DEF SchStep, SchInit, SchFail, SchWait, SchTable, SchMark, SchXmit, SchNext
    <2> QED
      BY <1>0, <2>1, <2>2 DEF pspVars, historyVars, PspTypeOK, HistoryTypeOK
  <1>3. ASSUME NEW t \in Tasks, TaskStep(t) PROVE PspTypeOK' /\ HistoryTypeOK'
    BY <1>0, <1>3, TaskFrame DEF pspVars, historyVars, PspTypeOK, HistoryTypeOK
  <1>4. ASSUME NEW t \in Tasks, RestartStep(t) PROVE PspTypeOK' /\ HistoryTypeOK'
    <2>1. CASE RestartRequest(t)
      BY <1>0, <2>1 DEF RestartRequest, RequestShutdown, historyVars, PspTypeOK, HistoryTypeOK
    <2>2. CASE RestartAbort(t)
      BY <1>0, <2>2 DEF RestartAbort, pspVars, historyVars, PspTypeOK, HistoryTypeOK
    <2> QED
      BY <1>4, <2>1, <2>2 DEF RestartStep
  <1>5. CASE Environment
    <2>1. ASSUME NEW t \in Tasks, NEW type \in ResetTypes, Restart(t, type)
          PROVE PspTypeOK' /\ HistoryTypeOK'
      <3>1. bootRecord' \in [NextResetType : ResetTypes, valid : BOOLEAN]
        BY <2>1 DEF Restart, RecordReset
      <3>2. reserved' \in BOOLEAN
        BY <1>0, <2>1 DEF Restart, DeleteProcessorReservedMemory, PspTypeOK
      <3> QED
        BY <1>0, <2>1, <3>1, <3>2 DEF Restart, PspTypeOK, HistoryTypeOK
    <2>2. CASE \E t \in Tasks : DeleteTask(t)
      BY <1>0, <2>2 DEF DeleteTask, ToFinish, pspVars, PspTypeOK, HistoryTypeOK
    <2>3. CASE UNCHANGED <<pspVars, historyVars>> /\ ended' \in {ended, "panic"}
      BY <1>0, <2>3 DEF pspVars, historyVars, PspTypeOK, HistoryTypeOK
    <2> QED
      BY <1>5, <2>1, <2>2, <2>3 DEF Environment, StartApp, StopApp, OS_QueueDelete, Panic, Exit
  <1> QED
    BY <1>1, <1>2, <1>3, <1>4, <1>5 DEF Next

LEMMA IfaceTypes ==
  ASSUME TypeInv, Next
  PROVE  IfaceTypeOK'
  <1>0. IfaceTypeOK /\ IpcTypeOK /\ AppTypeOK /\ MainTypeOK /\ MainInv /\ SchTypeOK /\ SchInv
    BY TypeParts DEF TypeInv, IfaceTypeOK
  <1>1. CASE MainStep
    <2>1. IpcTypeOK'
      <3>1. CASE UNCHANGED ipcVars
        BY <1>0, <3>1, UnchangedIpc
      <3>2. CASE MainExpire
        <4>1. ii \in Tasks
          BY <1>0, <3>2, InterfaceAssumption DEF MainExpire, MainInv, MainTypeOK, Tasks
        <4>2. GiveUp(ii) \/ UNCHANGED triggeredMIDs
          BY <3>2 DEF MainExpire
        <4>3. UNCHANGED <<state, stacks, acknowledgedMIDs, usRemaining, cv>>
          BY <3>2 DEF MainExpire
        <4> QED
          BY <1>0, <4>1, <4>2, <4>3, GiveUpType
      <3>3. CASE MainUpdate /\ ii < NumTasks /\ UpdateTaskTime(ii)
        <4>1. ii \in Tasks
          BY <1>0, <3>3, InterfaceAssumption DEF MainTypeOK, Tasks
        <4> QED
          BY <1>0, <3>3, <4>1, UpdateTaskTimeType
      <3> QED
        BY <1>1, <3>1, <3>2, <3>3 DEF MainStep, Boot, MainRead, MainDone, MainPass, MainWait,
           MainCycle, MainUpdate, Shutdown, ifaceVars
    <2>2. isMainCompleteTrigger' \in Nat /\ triggerMain' \in Nat
      BY <1>0, <1>1 DEF MainStep, Boot, MainRead, MainDone, MainPass, MainWait, MainExpire,
         MainCycle, MainUpdate, Shutdown, ifaceVars, eventVars, Consume, TriggerMainApp,
         IfaceTypeOK
    <2> QED
      BY <1>0, <1>1, <2>1, <2>2, MainFrame DEF IfaceTypeOK
  <1>2. CASE SchStep
    <2>1. triggeredMIDs' \in [Tasks -> Seq(Mids)] /\ perfectFDMap' \in Seq(Tasks)
      <3>1. ASSUME NEW p \in Pipes, SchMark(p)
            PROVE triggeredMIDs' \in [Tasks -> Seq(Mids)] /\ perfectFDMap' \in Seq(Tasks)
        <4>1. schMid \in Mids
          BY <1>0, <3>1, ProcessAssumption DEF SchMark, schMid, SchTypeOK, SchInv
        <4>2. prevPipeTaskOwner[p] \in Tasks /\ perfectFDMap \in Seq(Tasks)
          BY <1>0 DEF IfaceTypeOK
        <4> QED
          BY <1>0, <3>1, <4>1, <4>2, MarkPipeAsTriggeredType DEF SchMark
      <3>2. CASE UNCHANGED <<triggeredMIDs, perfectFDMap>>
        BY <1>0, <3>2 DEF IpcTypeOK, IfaceTypeOK
      <3> QED
        BY <1>2, <3>1, <3>2 DEF SchStep, SchInit, SchFail, SchWait, SchTable, SchXmit, SchNext,
           ifaceVars, ipcVars
    <2>2. isMainCompleteTrigger' \in Nat /\ triggerMain' \in Nat
      BY <1>0, <1>2 DEF SchStep, SchInit, SchFail, SchWait, SchTable, SchMark, SchXmit, SchNext,
         ifaceVars, eventVars, Consume, CFSWaitForTrigger, NotifyMain, IfaceTypeOK
    <2> QED
      BY <1>0, <1>2, <2>1, <2>2, SchFrame DEF IfaceTypeOK, IpcTypeOK
  <1>3. ASSUME NEW t \in Tasks, TaskStep(t) PROVE IfaceTypeOK'
    <2>1. IpcTypeOK'
      <3>1. CASE \E p \in Pipes : OS_QueueGet(t, p)
        BY <1>0, <3>1, MarkPipeAsCompleteType DEF OS_QueueGet
      <3>2. CASE Acknowledge(t)
        BY <1>0, <3>2, AcknowledgeType, ProcessAssumption DEF Acknowledge
      <3>3. ASSUME NEW ms \in UNION {Delays[a] : a \in Apps}, OS_TaskDelay(t, ms) PROVE IpcTypeOK'
        <4>1. ms \in Nat
          BY ProcessAssumption
        <4> QED
          BY <1>0, <3>3, <4>1, AddTaskDelayType DEF OS_TaskDelay
      <3>4. CASE EndDelay(t)
        BY <1>0, <3>4, ContinueType DEF EndDelay
      <3>5. CASE UNCHANGED ipcVars
        BY <1>0, <3>5, UnchangedIpc
      <3> QED
        BY <1>3, <3>1, <3>2, <3>3, <3>4, <3>5 DEF TaskStep, OS_QueueCreate, Receive,
           ReceiveNothing, ifaceVars
    <2>2. prevPipeTaskOwner' \in [Pipes -> Tasks]
      BY <1>0, <1>3 DEF TaskStep, OS_QueueCreate, OS_QueueGet, Receive, ReceiveNothing,
         Acknowledge, OS_TaskDelay, EndDelay, SetPipeOwner, ifaceVars, IfaceTypeOK
    <2> QED
      BY <1>0, <1>3, <2>1, <2>2, TaskFrame DEF IfaceTypeOK, eventVars
  <1>4. ASSUME NEW t \in Tasks, RestartStep(t) PROVE IfaceTypeOK'
    <2>1. IpcTypeOK'
      BY <1>0, <1>4, AddTaskDelayType, UnchangedIpc, ProcessAssumption
         DEF RestartStep, RestartRequest, RestartAbort, ifaceVars
    <2> QED
      BY <1>0, <1>4, <2>1, RestartFrame DEF IfaceTypeOK, eventVars
  <1>5. CASE Environment
    <2>1. appRunning' \in [Tasks -> BOOLEAN]
      BY <1>0, <1>5 DEF Environment, StartApp, StopApp, OS_QueueDelete, DeleteTask, Restart,
         Panic, Exit, ifaceVars, IfaceTypeOK
    <2> QED
      BY <1>0, <1>5, <2>1, EnvironmentFrame, UnchangedIpc DEF IfaceTypeOK, eventVars
  <1> QED
    BY <1>1, <1>2, <1>3, <1>4, <1>5 DEF Next

LEMMA InitTypeInv == Init => TypeInv
  <1> SUFFICES ASSUME Init PROVE TypeInv
    OBVIOUS
  <1>0. IpcTypeOK
    BY DEF Init, ConstructInterface, IpcTypeOK, TaskState
  <1>1. IfaceTypeOK
    BY <1>0, InterfaceAssumption DEF Init, ConstructInterface, IfaceTypeOK, Tasks
  <1>2. PspTypeOK
    BY DEF Init, PspInit, PspTypeOK, ResetTypes
  <1>3. MainTypeOK /\ SchTypeOK
    <2>1. Len(Table) \in Nat /\ NumTasks \in Nat
      BY InterfaceAssumption, ProcessAssumption
    <2>2. MainTypeOK
      <3>1. ii \in 0..NumTasks
        BY <2>1 DEF Init
      <3> QED
        BY <3>1, Zenon DEF Init, MainTypeOK
    <2>3. SchTypeOK
      BY <2>1 DEF Init, SchTypeOK
    <2> QED
      BY <2>2, <2>3
  <1>4. AppTypeOK /\ PipeTypeOK /\ HistoryTypeOK
    <2>1. AppTypeOK
      BY DEF Init, AppTypeOK, TaskPCs
    <2>2. PipeTypeOK
      BY DEF Init, PipeTypeOK
    <2>3. HistoryTypeOK
      BY DEF Init, HistoryTypeOK
    <2> QED
      BY <2>1, <2>2, <2>3
  <1>5. MainInv /\ SchInv /\ TaskInv
    BY DEF Init, MainInv, SchInv, TaskInv, Uses
  <1> QED
    BY <1>1, <1>2, <1>3, <1>4, <1>5, TypeParts DEF TypeInv

LEMMA NextTypeInv == TypeInv /\ [Next]_vars => TypeInv'
  <1>1. ASSUME TypeInv, Next PROVE TypeInv'
    <2>1. /\ IfaceTypeOK' /\ PspTypeOK' /\ MainTypeOK' /\ SchTypeOK' /\ AppTypeOK' /\ PipeTypeOK'
          /\ HistoryTypeOK' /\ MainInv' /\ SchInv' /\ TaskInv'
      BY <1>1, IfaceTypes, PspTypes, MainTypes, SchTypes, AppTypes, PipeTypes
    <2> QED
      BY <2>1 DEF TypeInv, TypeOK, MainTypeOK, SchTypeOK, AppTypeOK, PipeTypeOK, HistoryTypeOK
  <1>2. ASSUME TypeInv, UNCHANGED vars PROVE TypeInv'
    <2>1. /\ IfaceTypeOK /\ PspTypeOK /\ MainTypeOK /\ SchTypeOK /\ AppTypeOK /\ PipeTypeOK
          /\ HistoryTypeOK /\ MainInv /\ SchInv /\ TaskInv
      BY <1>2, TypeParts DEF TypeInv
    <2>2. IfaceTypeOK'
      BY <1>2, <2>1, UnchangedIface DEF vars
    <2>3. PspTypeOK' /\ MainTypeOK' /\ SchTypeOK' /\ MainInv' /\ SchInv' /\ HistoryTypeOK'
      BY <1>2, <2>1 DEF vars, pspVars, mainVars, schVars, historyVars, PspTypeOK, MainTypeOK,
         SchTypeOK, MainInv, SchInv, HistoryTypeOK
    <2>4. AppTypeOK' /\ PipeTypeOK' /\ TaskInv'
      BY <1>2, <2>1 DEF vars, appVars, pipeVars, AppTypeOK, PipeTypeOK, TaskInv, Uses
    <2> QED
      BY <2>2, <2>3, <2>4 DEF TypeInv, TypeOK, MainTypeOK, SchTypeOK, AppTypeOK, PipeTypeOK,
         HistoryTypeOK
  <1> QED
    BY <1>1, <1>2

\* Every variable of the process keeps its type, and a thread finds what it needs where
\* it is: the main thread a slot, a receiver its pipe.
THEOREM TypeInvariance == Spec => []TypeInv
  <1> QED
    BY InitTypeInv, NextTypeInv, PTL DEF Spec

\* The state of the process keeps its types.
THEOREM TypeCorrect == Spec => []TypeOK
  <1>1. TypeInv => TypeOK
    BY DEF TypeInv
  <1> QED
    BY <1>1, TypeInvariance, PTL

------------------------------------------------------------------------------
\* Pipes and their owners

LEMMA NextPipeOwners == TypeInv /\ PipeOwners /\ [Next]_vars => PipeOwners'
  <1> SUFFICES ASSUME TypeInv, PipeOwners, [Next]_vars PROVE PipeOwners'
    OBVIOUS
  <1>0. /\ prevPipeTaskOwner \in [Pipes -> Tasks] /\ pipeApp \in [Pipes -> Apps \cup {NoApp}]
        /\ appOf \in [Tasks -> Apps \cup {NoApp}]
        /\ \A p \in Pipes : pipeApp[p] # NoApp => appOf[prevPipeTaskOwner[p]] = pipeApp[p]
    BY DEF TypeInv, TypeOK, IfaceTypeOK, PipeOwners
  <1>1. CASE UNCHANGED <<appOf, prevPipeTaskOwner, pipeApp>>
    BY <1>0, <1>1 DEF PipeOwners
  <1>2. CASE UNCHANGED vars
    BY <1>1, <1>2 DEF vars, ifaceVars, appVars, pipeVars
  <1>3. CASE MainStep \/ SchStep \/ \E t \in Tasks : RestartStep(t)
    BY <1>1, <1>3, MainFrame, SchFrame, RestartFrame DEF appVars, pipeVars
  <1>4. ASSUME NEW t \in Tasks, TaskStep(t) PROVE PipeOwners'
    <2>1. ASSUME NEW p \in Pipes, OS_QueueCreate(t, p) PROVE PipeOwners'
      BY <1>0, <2>1 DEF OS_QueueCreate, SetPipeOwner, appVars, PipeOwners
    <2>2. ASSUME NEW p \in Pipes, OS_QueueGet(t, p) PROVE PipeOwners'
      BY <1>0, <2>2 DEF OS_QueueGet, SetPipeOwner, pipeVars, PipeOwners
    <2> QED
      BY <1>1, <1>4, <2>1, <2>2 DEF TaskStep, Receive, ReceiveNothing, Acknowledge,
         OS_TaskDelay, EndDelay, ifaceVars, pipeVars
  <1>5. CASE Environment
    <2>1. ASSUME NEW a \in Apps, NEW t \in Tasks, StartApp(a, t) PROVE PipeOwners'
      <3>1. /\ appOf[t] = NoApp /\ appOf' = [appOf EXCEPT ![t] = a]
            /\ UNCHANGED <<prevPipeTaskOwner, pipeApp>>
        BY <2>1 DEF StartApp, FirstFree, Uses, pipeVars
      <3> QED
        BY <1>0, <3>1 DEF PipeOwners
    <2>2. ASSUME NEW t \in Tasks, NEW p \in Pipes, OS_QueueDelete(t, p) PROVE PipeOwners'
      BY <1>0, <2>2 DEF OS_QueueDelete, ifaceVars, appVars, PipeOwners
    <2>3. ASSUME NEW t \in Tasks, DeleteTask(t) PROVE PipeOwners'
      <3>1. /\ \A p \in Pipes : pipeApp[p] # appOf[t]
            /\ appOf' = [appOf EXCEPT ![t] = NoApp]
            /\ UNCHANGED <<prevPipeTaskOwner, pipeApp>>
        BY <2>3 DEF DeleteTask, PipesOf, ifaceVars, pipeVars
      <3> QED
        BY <1>0, <3>1 DEF PipeOwners
    <2> QED
      BY <1>1, <1>5, <2>1, <2>2, <2>3 DEF Environment, StopApp, Restart, Panic, Exit,
         ifaceVars, appVars, pipeVars
  <1> QED
    BY <1>2, <1>3, <1>4, <1>5 DEF Next

\* Whoever finds the task to mark by its pipe finds the task of the app that made the
\* pipe: the slot of a deleted task is taken again only after its pipes have gone.
THEOREM PipeOwnersHolds == Spec => []PipeOwners
  <1>1. Init => PipeOwners
    BY DEF Init, PipeOwners
  <1> QED
    BY <1>1, TypeInvariance, NextPipeOwners, PTL DEF Spec

------------------------------------------------------------------------------
\* Resets

LEMMA NextResetInv == TypeInv /\ ResetInv /\ [Next]_vars => ResetInv'
  <1> SUFFICES ASSUME TypeInv, ResetInv, [Next]_vars PROVE ResetInv'
    OBVIOUS
  <1>0. pc \in [Tasks -> TaskPCs]
    BY DEF TypeInv, TypeOK
  <1>1. ASSUME UNCHANGED <<bootRecord, reserved, asked>>, ended' # "aborted" \/ ended' = ended,
               \A u \in Tasks : pc'[u] \in ResetPCs => pc[u] \in ResetPCs
        PROVE  ResetInv'
    BY <1>1 DEF ResetInv
  <1>2. CASE UNCHANGED vars
    BY <1>1, <1>2 DEF vars, pspVars, appVars, historyVars
  <1>3. CASE MainStep
    <2>1. UNCHANGED <<bootRecord, reserved>> /\ ended' \in {ended, "returned"}
      BY <1>3 DEF MainStep, Boot, MainRead, MainDone, MainPass, MainWait, MainExpire,
         MainCycle, MainUpdate, Shutdown, Attach, RaiseEvent, OS_Application_Cycle, pspVars
    <2> QED
      BY <1>1, <1>3, <2>1, MainFrame DEF appVars
  <1>4. CASE SchStep
    <2>1. ended' \in {ended, "terminated"}
      BY <1>4 DEF SchStep, SchInit, SchFail, SchWait, SchTable, SchMark, SchXmit, SchNext
    <2> QED
      BY <1>1, <1>4, <2>1, SchFrame DEF pspVars, appVars, historyVars
  <1>5. ASSUME NEW t \in Tasks, TaskStep(t) PROVE ResetInv'
    <2>1. pc' = pc \/ \E l \in {"recv", "ack", "app", "delaying"} : pc' = [pc EXCEPT ![t] = l]
      BY <1>5 DEF TaskStep, OS_QueueCreate, OS_QueueGet, Receive, ReceiveNothing, Acknowledge,
         OS_TaskDelay, EndDelay, GoTask, appVars
    <2> QED
      BY <1>0, <1>1, <1>5, <2>1, TaskFrame DEF pspVars, historyVars, ResetPCs
  <1>6. ASSUME NEW t \in Tasks, RestartStep(t) PROVE ResetInv'
    <2>1. pc[t] \in ResetPCs
      BY <1>6 DEF RestartStep, RestartRequest, RestartAbort, ResetPCs
    <2>2. CASE RestartRequest(t)
      <3>1. \E l \in {"resetDelaying", "sleeping"} : pc' = [pc EXCEPT ![t] = l]
        BY <2>2 DEF RestartRequest, GoTask
      <3> QED
        BY <1>0, <1>1, <1>6, <2>1, <2>2, <3>1, RestartFrame DEF RestartRequest, historyVars
    <2>3. CASE RestartAbort(t)
      BY <2>1, <2>3 DEF RestartAbort, pspVars, appVars, historyVars, ResetInv
    <2> QED
      BY <1>6, <2>2, <2>3 DEF RestartStep
  <1>7. CASE Environment
    <2>1. ASSUME NEW t \in Tasks, NEW type \in ResetTypes, Restart(t, type) PROVE ResetInv'
      <3>1. /\ bootRecord' = [NextResetType |-> type, valid |-> TRUE]
            /\ asked' = asked \cup {type}
            /\ ended' = ended
            /\ reserved' = (reserved /\ type # CFE_PSP_RST_TYPE_POWERON)
        BY <2>1 DEF Restart, RecordReset, DeleteProcessorReservedMemory
      <3>2. bootRecord'.valid /\ bootRecord'.NextResetType \in asked'
        BY <3>1
      <3>3. ~reserved' => CFE_PSP_RST_TYPE_POWERON \in asked'
        BY <3>1 DEF ResetInv
      <3> QED
        BY <3>2, <3>3 DEF ResetInv
    <2>2. ASSUME NEW a \in Apps, NEW t \in Tasks, StartApp(a, t) PROVE ResetInv'
      BY <1>0, <1>1, <2>2 DEF StartApp, pspVars, historyVars, ResetPCs
    <2>3. ASSUME NEW t \in Tasks, DeleteTask(t) PROVE ResetInv'
      BY <1>0, <1>1, <2>3 DEF DeleteTask, pspVars, ResetPCs
    <2>4. CASE UNCHANGED <<pspVars, historyVars, appVars>> /\ ended' \in {ended, "panic"}
      BY <1>1, <2>4 DEF pspVars, historyVars, appVars
    <2> QED
      BY <1>7, <2>1, <2>2, <2>3, <2>4 DEF Environment, StopApp, OS_QueueDelete, Panic, Exit
  <1> QED
    BY <1>2, <1>3, <1>4, <1>5, <1>6, <1>7 DEF Next

\* Whatever resets of either type are asked for, by however many tasks at once, the next
\* process starts the way that was asked for.
THEOREM NextBootAsAskedHolds == Spec => []NextBootAsAsked
  <1>1. Init => ResetInv
    <2> SUFFICES ASSUME Init PROVE ResetInv
      OBVIOUS
    <2> QED
      BY DEF Init, PspInit, ResetInv, ResetPCs
  <1>2. TypeInv /\ ResetInv => NextBootAsAsked
    BY DEF ResetInv, NextBootAsAsked, NextReset, TypeInv, TypeOK, PspTypeOK
  <1> QED
    BY <1>1, <1>2, TypeInvariance, NextResetInv, PTL DEF Spec

------------------------------------------------------------------------------
\* The hand-over between the main thread and the SCH thread

LEMMA NextBaton == TypeInv /\ Baton /\ [Next]_vars => Baton'
  <1> SUFFICES ASSUME TypeInv, Baton, [Next]_vars PROVE Baton'
    OBVIOUS
  <1>0. isMainCompleteTrigger \in Nat /\ triggerMain \in Nat
    BY DEF TypeInv, TypeOK, IfaceTypeOK
  <1>1. CASE UNCHANGED <<eventVars, schPc, mainPc>>
    BY <1>1 DEF eventVars, Baton
  <1>2. CASE UNCHANGED vars
    BY <1>1, <1>2 DEF vars, ifaceVars, mainVars, schVars
  <1>3. CASE (\E t \in Tasks : TaskStep(t)) \/ (\E t \in Tasks : RestartStep(t)) \/ Environment
    BY <1>1, <1>3, TaskFrame, RestartFrame, EnvironmentFrame DEF mainVars, schVars
  <1>4. CASE MainStep
    <2>1. UNCHANGED schPc
      BY <1>4, MainFrame DEF schVars
    <2>2. CASE MainRead
      BY <1>0, <2>1, <2>2 DEF MainRead, Consume, GoMain, Baton
    <2>3. CASE MainUpdate
      BY <1>0, <2>1, <2>3 DEF MainUpdate, TriggerMainApp, GoMain, eventVars, Baton
    <2>4. CASE Boot \/ MainDone \/ MainPass \/ MainWait \/ MainExpire \/ MainCycle \/ Shutdown
      <3>1. UNCHANGED eventVars
        BY <2>4 DEF Boot, MainDone, MainPass, MainWait, MainExpire, MainCycle, Shutdown, ifaceVars
      <3>2. mainPc \in {"boot", "read"} <=> mainPc' \in {"boot", "read"}
        BY <2>4 DEF Boot, MainDone, MainPass, MainWait, MainExpire, MainCycle, Shutdown,
           MainOnTask, NextSlot, GoMain
      <3> QED
        BY <2>1, <3>1, <3>2 DEF eventVars, Baton
    <2> QED
      BY <1>4, <2>2, <2>3, <2>4 DEF MainStep
  <1>5. CASE SchStep
    <2>1. UNCHANGED mainPc
      BY <1>5, SchFrame DEF mainVars
    <2>2. CASE SchInit \/ SchNext
      BY <1>0, <2>1, <2>2 DEF SchInit, SchNext, TableDone, NotifyMain, GoSch, Baton
    <2>3. CASE SchWait
      BY <1>0, <2>1, <2>3 DEF SchWait, CFSWaitForTrigger, Consume, GoSch, Baton
    <2>4. CASE SchFail
      BY <1>1, <2>4 DEF SchFail, ifaceVars, mainVars, schVars
    <2>5. CASE SchTable \/ (\E p \in Pipes : SchMark(p)) \/ SchXmit
      <3>1. UNCHANGED eventVars
        BY <2>5 DEF SchTable, SchMark, SchXmit, ifaceVars
      <3>2. schPc # "wait" /\ schPc' # "wait"
        BY <2>5 DEF SchTable, SchMark, SchXmit, GoSch
      <3> QED
        BY <2>1, <3>1, <3>2 DEF eventVars, Baton
    <2> QED
      BY <1>5, <2>2, <2>3, <2>4, <2>5 DEF SchStep
  <1> QED
    BY <1>2, <1>3, <1>4, <1>5 DEF Next

LEMMA NextMarkInv == TypeInv /\ MarkInv /\ [Next]_vars => MarkInv'
  <1> SUFFICES ASSUME TypeInv, MarkInv, [Next]_vars PROVE MarkInv'
    OBVIOUS
  <1>0. pipeApp \in [Pipes -> Apps \cup {NoApp}] /\ \A mid \in Mids : NoApp \notin Listens[mid]
    BY ProcessAssumption DEF TypeInv, TypeOK
  <1>1. CASE UNCHANGED <<schVars, pipeApp>>
    BY <1>1 DEF schVars, schMid, Destinations, MarkInv
  <1>2. CASE UNCHANGED vars
    BY <1>1, <1>2 DEF vars, pipeVars
  <1>3. CASE MainStep \/ \E t \in Tasks : RestartStep(t)
    BY <1>1, <1>3, MainFrame, RestartFrame DEF pipeVars
  <1>4. CASE SchStep
    <2>1. CASE schPc' # "mark"
      BY <2>1 DEF MarkInv
    <2>2. CASE SchTable
      <3>1. CASE schPc' = "mark"
        BY <2>2, <3>1 DEF SchTable, pipeVars, schMid, Destinations, MarkInv
      <3> QED
        BY <2>1, <3>1
    <2>3. CASE \E p \in Pipes : SchMark(p)
      BY <2>3 DEF SchMark, pipeVars, schMid, Destinations, MarkInv
    <2>4. CASE SchFail
      BY <1>1, <2>4 DEF SchFail, pipeVars
    <2> QED
      BY <1>4, <2>1, <2>2, <2>3, <2>4 DEF SchStep, SchInit, SchWait, SchXmit, SchNext, GoSch
  <1>5. ASSUME NEW t \in Tasks, TaskStep(t) PROVE MarkInv'
    <2>1. ASSUME NEW p \in Pipes, OS_QueueCreate(t, p) PROVE MarkInv'
      <3>1. /\ pipeApp[p] = NoApp /\ pipeApp' = [pipeApp EXCEPT ![p] = appOf[t]]
            /\ UNCHANGED schVars
        BY <2>1 DEF OS_QueueCreate
      <3>2. CASE schPc = "mark"
        <4>1. schMid \in Mids
          BY <3>2, ProcessAssumption DEF schMid, TypeInv, TypeOK, SchInv
        <4>2. schPipes \subseteq Destinations(schMid)
          BY <3>2 DEF MarkInv
        <4>3. \A q \in schPipes : q \in Pipes /\ pipeApp[q] \in Listens[schMid] /\ q # p
          BY <1>0, <3>1, <4>1, <4>2 DEF Destinations
        <4>4. \A q \in schPipes : pipeApp'[q] = pipeApp[q]
          BY <1>0, <3>1, <4>3
        <4> QED
          BY <3>1, <4>3, <4>4 DEF schVars, schMid, Destinations, MarkInv
      <3> QED
        BY <3>1, <3>2 DEF schVars, MarkInv
    <2> QED
      BY <1>1, <1>5, <2>1, TaskFrame DEF TaskStep, OS_QueueGet, Receive, ReceiveNothing,
         Acknowledge, OS_TaskDelay, EndDelay, pipeVars
  <1>6. CASE Environment
    <2>1. ASSUME NEW t \in Tasks, NEW p \in Pipes, OS_QueueDelete(t, p) PROVE MarkInv'
      BY <2>1 DEF OS_QueueDelete, schVars, MarkInv
    <2> QED
      BY <1>1, <1>6, <2>1, EnvironmentFrame DEF Environment, StartApp, StopApp, DeleteTask,
         Restart, Panic, Exit, pipeVars
  <1> QED
    BY <1>2, <1>3, <1>4, <1>5, <1>6 DEF Next

------------------------------------------------------------------------------
\* What a step of each actor does to what is left to be done in the slots

\* A step of a task leaves the other slots alone, gives it nothing more to finish, and
\* takes it out of a delay only when that is over or the app has been stopped.
LEMMA TaskSlots ==
  ASSUME TypeInv, NEW t \in Tasks, TaskStep(t)
  PROVE  /\ \A u \in Tasks \ {t} :
              triggeredMIDs'[u] = triggeredMIDs[u] /\ state'[u] = state[u] /\ pc'[u] = pc[u]
         /\ triggeredMIDs'[t] \in Seq(Mids)
         /\ \A x : Contains(triggeredMIDs'[t], x) => Contains(triggeredMIDs[t], x)
         /\ pc[t] \in Delaying /\ state[t] = "TASK_DELAY" /\ appRunning[t] =>
              pc'[t] = pc[t] /\ state'[t] = state[t]
         /\ state'[t] = "TASK_DELAY" =>
              pc'[t] \in Delaying \/ (pc[t] \notin Delaying /\ state[t] = "TASK_DELAY")
  <1>0. /\ pc \in [Tasks -> TaskPCs] /\ state \in [Tasks -> TaskState]
        /\ triggeredMIDs \in [Tasks -> Seq(Mids)]
    BY DEF TypeInv, TypeOK, IfaceTypeOK, IpcTypeOK
  <1>1. CASE \E p \in Pipes : OS_QueueCreate(t, p)
    BY <1>0, <1>1 DEF OS_QueueCreate, ipcVars, appVars
  <1>2. CASE \E p \in Pipes : OS_QueueGet(t, p)
    <2>1. /\ pc[t] = "app" /\ pc' = [pc EXCEPT ![t] = "recv"]
          /\ FinishMessage(t)
          /\ \E l \in {"TASK_COMPLETE", "TASK_RUNNING"} : state' = [state EXCEPT ![t] = l]
      BY <1>2 DEF OS_QueueGet, GoTask, MarkPipeAsComplete, SetState
    <2> DEFINE mid == Back(acknowledgedMIDs[t])
    <2>2. \/ triggeredMIDs' = triggeredMIDs
          \/ triggeredMIDs' = [triggeredMIDs EXCEPT ![t] = RemoveFirst(triggeredMIDs[t], mid)]
      BY <2>1 DEF FinishMessage
    <2> HIDE DEF mid
    <2>3. /\ RemoveFirst(triggeredMIDs[t], mid) \in Seq(Mids)
          /\ \A x : Contains(RemoveFirst(triggeredMIDs[t], mid), x) => Contains(triggeredMIDs[t], x)
      BY <1>0, RemoveFirstFacts, RemoveFirstContains
    <2>4. /\ \A u \in Tasks \ {t} : triggeredMIDs'[u] = triggeredMIDs[u]
          /\ triggeredMIDs'[t] \in Seq(Mids)
          /\ \A x : Contains(triggeredMIDs'[t], x) => Contains(triggeredMIDs[t], x)
      BY <1>0, <2>2, <2>3
    <2> QED
      BY <1>0, <2>1, <2>4 DEF Delaying
  <1>3. CASE Receive(t) \/ ReceiveNothing(t)
    <2>1. /\ pc[t] = "recv" /\ UNCHANGED <<state, triggeredMIDs>>
          /\ \E l \in {"ack", "app"} : pc' = [pc EXCEPT ![t] = l]
      BY <1>3 DEF Receive, ReceiveNothing, GoTask, ifaceVars, ipcVars
    <2> QED
      BY <1>0, <2>1 DEF Delaying
  <1>4. CASE Acknowledge(t)
    <2>1. /\ pc[t] = "ack" /\ pc' = [pc EXCEPT ![t] = "app"] /\ UNCHANGED triggeredMIDs
          /\ \E l \in {"MSG_RCV", "TASK_RUNNING"} : state' = [state EXCEPT ![t] = l]
      BY <1>4 DEF Acknowledge, GoTask, AcknowledgePipeTrigger, SetState
    <2> QED
      BY <1>0, <2>1 DEF Delaying
  <1>5. CASE \E ms \in UNION {Delays[a] : a \in Apps} : OS_TaskDelay(t, ms)
    <2>1. /\ pc[t] = "app" /\ pc' = [pc EXCEPT ![t] = "delaying"] /\ UNCHANGED triggeredMIDs
          /\ state' = [state EXCEPT ![t] = "TASK_DELAY"]
      BY <1>5 DEF OS_TaskDelay, GoTask, AddTaskDelay, SetState
    <2> QED
      BY <1>0, <2>1 DEF Delaying
  <1>6. CASE EndDelay(t)
    <2>1. /\ MayContinue(t) /\ pc' = [pc EXCEPT ![t] = "app"] /\ UNCHANGED triggeredMIDs
          /\ state' = [state EXCEPT ![t] = "TASK_RUNNING"]
      BY <1>6 DEF EndDelay, GoTask, ContinueAfterDelay, SetState
    <2> QED
      BY <1>0, <2>1 DEF Delaying, MayContinue
  <1> QED
    BY <1>1, <1>2, <1>3, <1>4, <1>5, <1>6 DEF TaskStep

LEMMA TaskFinishes ==
  ASSUME TypeInv, NEW t \in Tasks, TaskStep(t), NEW u \in Tasks
  PROVE  ToFinish(u)' \subseteq ToFinish(u)
  <1>1. CASE u = t
    BY <1>1, TaskSlots DEF ToFinish
  <1>2. CASE u # t
    BY <1>2, TaskSlots DEF ToFinish
  <1> QED
    BY <1>1, <1>2

\* A step of the main thread takes messages off the lists at most, ends delays only when
\* it updates them, and takes a slot to be rid of a deleted task only where it is.
LEMMA MainSlots ==
  ASSUME TypeInv, MainStep
  PROVE  /\ stale' \subseteq stale
         /\ \A u \in Tasks :
              /\ triggeredMIDs'[u] \in {triggeredMIDs[u], <<>>}
              /\ state'[u] = "TASK_DELAY" => state[u] = "TASK_DELAY"
              /\ u \in stale \ stale' => state'[u] # "TASK_DELAY"
              /\ inherited'[u] = inherited[u] \/ ToFinish(u)' = {}
         /\ mainPc # "update" => UNCHANGED <<state, stale, inherited>>
  <1>0. /\ state \in [Tasks -> TaskState] /\ triggeredMIDs \in [Tasks -> Seq(Mids)]
        /\ ii \in 0..NumTasks /\ NumTasks \in Nat
        /\ inherited \in [Tasks -> SUBSET Mids]
    BY InterfaceAssumption DEF TypeInv, TypeOK, IfaceTypeOK, IpcTypeOK
  <1>1. CASE MainExpire
    <2>1. /\ UNCHANGED <<state, stale, inherited>> /\ mainPc = "wait"
          /\ UNCHANGED triggeredMIDs \/ triggeredMIDs' = [triggeredMIDs EXCEPT ![ii] = <<>>]
      BY <1>1 DEF MainExpire, GiveUp, historyVars
    <2> QED
      BY <1>0, <2>1
  <1>2. CASE MainUpdate
    <2>1. CASE UNCHANGED <<ipcVars, stale, inherited>>
      BY <1>0, <1>2, <2>1 DEF MainUpdate, ipcVars
    <2>2. CASE ii < NumTasks /\ UpdateTaskTime(ii) /\ Outlived(ii)
      <3>1. /\ UNCHANGED triggeredMIDs
            /\ state' = state \/ state' = [state EXCEPT ![ii] = "TASK_CONTINUE"]
        BY <2>2 DEF UpdateTaskTime, SetState
      <3>2. ii \in Tasks
        BY <1>0, <2>2 DEF Tasks
      <3>3. \A u \in Tasks : inherited'[u] = inherited[u] \/ ToFinish(u)' = {}
        BY <1>0, <2>2, <3>1, <3>2 DEF Outlived, ToFinish
      <3>4. mainPc = "update"
        BY <1>2 DEF MainUpdate
      <3> QED
        BY <1>0, <2>2, <3>1, <3>2, <3>3, <3>4 DEF Outlived
    <2> QED
      BY <1>2, <2>1, <2>2 DEF MainUpdate
  <1>3. CASE Boot \/ MainRead \/ MainDone \/ MainPass \/ MainWait \/ MainCycle \/ Shutdown
    <2>1. UNCHANGED <<state, triggeredMIDs, stale, inherited>>
      BY <1>3 DEF Boot, MainRead, MainDone, MainPass, MainWait, MainCycle, Shutdown,
         ifaceVars, ipcVars, historyVars
    <2> QED
      BY <2>1
  <1> QED
    BY <1>1, <1>2, <1>3 DEF MainStep

\* The SCH thread marks a task only for a message that its app listens to.
LEMMA SchSlots ==
  ASSUME TypeInv, PipeOwners, MarkInv, SchStep
  PROVE  \/ UNCHANGED triggeredMIDs
         \/ /\ schPc = "mark" /\ schMid \in Mids
            /\ \E t \in Tasks :
                 /\ Uses(t) /\ appOf[t] \in Listens[schMid]
                 /\ triggeredMIDs' = [triggeredMIDs EXCEPT ![t] = Append(triggeredMIDs[t], schMid)]
  <1>1. CASE UNCHANGED triggeredMIDs
    BY <1>1
  <1>2. ASSUME NEW p \in Pipes, SchMark(p), ~UNCHANGED triggeredMIDs
        PROVE  /\ schPc = "mark" /\ schMid \in Mids
               /\ \E t \in Tasks :
                    /\ Uses(t) /\ appOf[t] \in Listens[schMid]
                    /\ triggeredMIDs' = [triggeredMIDs EXCEPT ![t] = Append(triggeredMIDs[t], schMid)]
    <2>1. schPc = "mark" /\ p \in schPipes
      BY <1>2 DEF SchMark
    <2>2. schMid \in Mids
      BY <2>1, ProcessAssumption DEF schMid, TypeInv, TypeOK, SchInv
    <2>3. pipeApp[p] \in Listens[schMid]
      BY <2>1 DEF MarkInv, Destinations
    <2>4. pipeApp[p] \in Apps /\ pipeApp[p] # NoApp
      BY <2>2, <2>3, ProcessAssumption
    <2> DEFINE t == prevPipeTaskOwner[p]
    <2>5. t \in Tasks
      BY DEF TypeInv, TypeOK, IfaceTypeOK
    <2>6. appOf[t] = pipeApp[p]
      BY <2>4 DEF PipeOwners
    <2>7. triggeredMIDs' = [triggeredMIDs EXCEPT ![t] = Append(triggeredMIDs[t], schMid)]
      <3>1. MarkPipeAsTriggered(t, schMid)
        BY <1>2 DEF SchMark
      <3> QED
        BY <1>2, <3>1 DEF MarkPipeAsTriggered
    <2> QED
      BY <2>1, <2>2, <2>3, <2>4, <2>5, <2>6, <2>7 DEF Uses
  <1> QED
    BY <1>1, <1>2 DEF SchStep, SchInit, SchFail, SchWait, SchTable, SchXmit, SchNext,
       ifaceVars, ipcVars

\* CFE_PSP_Restart gives its task nothing to finish.
LEMMA RestartSlots ==
  ASSUME TypeInv, NEW t \in Tasks, RestartStep(t)
  PROVE  /\ UNCHANGED triggeredMIDs
         /\ \A u \in Tasks \ {t} : state'[u] = state[u] /\ pc'[u] = pc[u]
         /\ state'[t] = "TASK_DELAY" =>
              pc'[t] \in Delaying \/ (pc[t] \notin Delaying /\ state[t] = "TASK_DELAY")
         /\ pc[t] \notin Delaying \/ (pc'[t] = pc[t] /\ state'[t] = state[t])
  <1>0. pc \in [Tasks -> TaskPCs] /\ state \in [Tasks -> TaskState]
    BY DEF TypeInv, TypeOK, IfaceTypeOK, IpcTypeOK
  <1>1. CASE RestartRequest(t)
    <2>1. CASE execMode = "Run"
      <3>1. /\ pc[t] = "request" /\ UNCHANGED triggeredMIDs
            /\ pc' = [pc EXCEPT ![t] = "resetDelaying"]
            /\ state' = [state EXCEPT ![t] = "TASK_DELAY"]
        BY <1>1, <2>1 DEF RestartRequest, GoTask, AddTaskDelay, SetState
      <3> QED
        BY <1>0, <3>1 DEF Delaying
    <2>2. CASE execMode # "Run"
      <3>1. /\ pc[t] = "request" /\ UNCHANGED <<triggeredMIDs, state>>
            /\ pc' = [pc EXCEPT ![t] = "sleeping"]
        BY <1>1, <2>2 DEF RestartRequest, GoTask, ipcVars
      <3> QED
        BY <1>0, <3>1 DEF Delaying
    <2> QED
      BY <2>1, <2>2
  <1>2. CASE RestartAbort(t)
    BY <1>2 DEF RestartAbort, ifaceVars, ipcVars, appVars
  <1> QED
    BY <1>1, <1>2 DEF RestartStep

\* What cFE does: a task that starts, one that is stopped, one that is deleted, one that
\* asks for a reset, or none.
LEMMA EnvironmentSlots ==
  ASSUME TypeInv, Environment
  PROVE  \/ \E t \in Tasks, a \in Apps :
              /\ ~Uses(t)
              /\ appOf' = [appOf EXCEPT ![t] = a] /\ pc' = [pc EXCEPT ![t] = "app"]
              /\ appRunning' = [appRunning EXCEPT ![t] = TRUE]
              /\ UNCHANGED <<stale, inherited>>
         \/ \E t \in Tasks :
              /\ appRunning' = [appRunning EXCEPT ![t] = FALSE]
              /\ UNCHANGED <<appOf, pc, stale, inherited>>
         \/ \E t \in Tasks :
              /\ appOf' = [appOf EXCEPT ![t] = NoApp] /\ pc' = [pc EXCEPT ![t] = "none"]
              /\ stale' = IF state[t] = "TASK_DELAY" THEN stale \cup {t} ELSE stale
              /\ inherited' = [inherited EXCEPT ![t] = ToFinish(t)]
              /\ UNCHANGED appRunning
         \/ \E t \in Tasks :
              /\ pc[t] = "app" /\ pc' = [pc EXCEPT ![t] = "request"]
              /\ UNCHANGED <<appOf, appRunning, stale, inherited>>
         \/ UNCHANGED <<appOf, pc, appRunning, stale, inherited>>
  <1>1. ASSUME NEW a \in Apps, NEW t \in Tasks, StartApp(a, t)
        PROVE  /\ ~Uses(t)
               /\ appOf' = [appOf EXCEPT ![t] = a] /\ pc' = [pc EXCEPT ![t] = "app"]
               /\ appRunning' = [appRunning EXCEPT ![t] = TRUE]
              /\ UNCHANGED <<stale, inherited>>
    BY <1>1 DEF StartApp, FirstFree, historyVars
  <1>2. ASSUME NEW t \in Tasks, StopApp(t)
        PROVE  /\ appRunning' = [appRunning EXCEPT ![t] = FALSE]
               /\ UNCHANGED <<appOf, pc, stale, inherited>>
    BY <1>2 DEF StopApp, appVars, historyVars
  <1>3. ASSUME NEW t \in Tasks, DeleteTask(t)
        PROVE  /\ appOf' = [appOf EXCEPT ![t] = NoApp] /\ pc' = [pc EXCEPT ![t] = "none"]
               /\ stale' = IF state[t] = "TASK_DELAY" THEN stale \cup {t} ELSE stale
              /\ inherited' = [inherited EXCEPT ![t] = ToFinish(t)]
               /\ UNCHANGED appRunning
    BY <1>3 DEF DeleteTask, ifaceVars
  <1>4. ASSUME NEW t \in Tasks, NEW type \in ResetTypes, Restart(t, type)
        PROVE  /\ pc[t] = "app" /\ pc' = [pc EXCEPT ![t] = "request"]
               /\ UNCHANGED <<appOf, appRunning, stale, inherited>>
    BY <1>4 DEF Restart, GoTask, ifaceVars
  <1>5. CASE (\E t \in Tasks, p \in Pipes : OS_QueueDelete(t, p)) \/ Panic \/ Exit
    BY <1>5 DEF OS_QueueDelete, Panic, Exit, ifaceVars, appVars, historyVars
  <1> QED
    BY <1>1, <1>2, <1>3, <1>4, <1>5 DEF Environment

LEMMA NothingContained ==
  ASSUME NEW S, NEW s \in Seq(S), \A x : ~Contains(s, x)
  PROVE  s = <<>>
  <1>1. Len(s) \in Nat /\ ~(1 <= Len(s))
    BY DEF Contains
  <1> QED
    BY <1>1, EmptySeq

LEMMA NextFreeInv ==
  TypeInv /\ PipeOwners /\ MarkInv /\ FreeInv /\ [Next]_vars => FreeInv'
  <1> SUFFICES ASSUME TypeInv, PipeOwners, MarkInv, FreeInv, [Next]_vars,
                      NEW u \in Tasks, ~Uses(u)'
               PROVE  ToFinish(u)' \subseteq inherited'[u]
    BY DEF FreeInv
  <1>0. /\ triggeredMIDs \in [Tasks -> Seq(Mids)] /\ appOf \in [Tasks -> Apps \cup {NoApp}]
        /\ inherited \in [Tasks -> SUBSET Mids] /\ NoApp \notin Apps
        /\ ~Uses(u) => ToFinish(u) \subseteq inherited[u]
    BY ProcessAssumption DEF TypeInv, TypeOK, IfaceTypeOK, IpcTypeOK, FreeInv
  <1>1. CASE UNCHANGED <<appOf, inherited, triggeredMIDs>>
    BY <1>0, <1>1 DEF Uses, ToFinish
  <1>2. CASE UNCHANGED vars
    BY <1>1, <1>2 DEF vars, ifaceVars, ipcVars, appVars, historyVars
  <1>3. CASE MainStep
    <2>1. UNCHANGED appOf
      BY <1>3, MainFrame DEF appVars
    <2>2. triggeredMIDs'[u] \in {triggeredMIDs[u], <<>>}
          /\ (inherited'[u] = inherited[u] \/ ToFinish(u)' = {})
      BY <1>3, MainSlots
    <2>3. ToFinish(u)' \subseteq ToFinish(u)
      BY <2>2 DEF ToFinish, Contains
    <2> QED
      BY <1>0, <2>1, <2>2, <2>3 DEF Uses
  <1>4. CASE SchStep
    <2>1. UNCHANGED <<appOf, inherited>>
      BY <1>4, SchFrame DEF appVars, historyVars
    <2>2. triggeredMIDs'[u] = triggeredMIDs[u]
      BY <1>0, <1>4, <2>1, SchSlots DEF Uses
    <2> QED
      BY <1>0, <2>1, <2>2 DEF Uses, ToFinish
  <1>5. ASSUME NEW t \in Tasks, TaskStep(t) PROVE ToFinish(u)' \subseteq inherited'[u]
    <2>1. UNCHANGED <<appOf, inherited>>
      BY <1>5, TaskFrame DEF historyVars
    <2>2. ToFinish(u)' \subseteq ToFinish(u)
      BY <1>5, TaskFinishes
    <2> QED
      BY <1>0, <2>1, <2>2 DEF Uses
  <1>6. ASSUME NEW t \in Tasks, RestartStep(t) PROVE ToFinish(u)' \subseteq inherited'[u]
    BY <1>1, <1>6, RestartFrame, RestartSlots DEF historyVars
  <1>7. CASE Environment
    <2>1. ToFinish(u)' = ToFinish(u)
      BY <1>7, EnvironmentFrame DEF ipcVars, ToFinish
    <2>2. CASE ~Uses(u)
      BY <1>0, <1>7, <2>1, <2>2, EnvironmentSlots
    <2>3. CASE Uses(u)
      BY <1>0, <1>7, <2>1, <2>3, EnvironmentSlots DEF Uses
    <2> QED
      BY <2>2, <2>3
  <1> QED
    BY <1>2, <1>3, <1>4, <1>5, <1>6, <1>7 DEF Next

LEMMA NextDelayInv == TypeInv /\ DelayInv /\ [Next]_vars => DelayInv'
  <1> SUFFICES ASSUME TypeInv, DelayInv, [Next]_vars,
                      NEW u \in Tasks, u \notin stale', state'[u] = "TASK_DELAY"
               PROVE  pc'[u] \in Delaying
    BY DEF DelayInv
  <1>0. /\ pc \in [Tasks -> TaskPCs]
        /\ u \notin stale /\ state[u] = "TASK_DELAY" => pc[u] \in Delaying
    BY DEF TypeInv, TypeOK, DelayInv
  <1>1. CASE UNCHANGED <<pc, stale, state>>
    BY <1>0, <1>1
  <1>2. CASE UNCHANGED vars
    BY <1>1, <1>2 DEF vars, ifaceVars, ipcVars, appVars, historyVars
  <1>3. CASE MainStep
    <2>1. UNCHANGED pc
      BY <1>3, MainFrame DEF appVars
    <2> QED
      BY <1>0, <1>3, <2>1, MainSlots
  <1>4. CASE SchStep
    BY <1>1, <1>4, SchFrame DEF appVars, historyVars
  <1>5. ASSUME NEW t \in Tasks, TaskStep(t) PROVE pc'[u] \in Delaying
    <2>1. UNCHANGED stale
      BY <1>5, TaskFrame DEF historyVars
    <2> QED
      BY <1>0, <1>5, <2>1, TaskSlots
  <1>6. ASSUME NEW t \in Tasks, RestartStep(t) PROVE pc'[u] \in Delaying
    <2>1. UNCHANGED stale
      BY <1>6, RestartFrame DEF historyVars
    <2> QED
      BY <1>0, <1>6, <2>1, RestartSlots
  <1>7. CASE Environment
    <2>1. UNCHANGED state
      BY <1>7, EnvironmentFrame DEF ipcVars
    <2>2. u \notin stale
      BY <1>7, EnvironmentSlots
    <2>3. pc[u] \in Delaying
      BY <1>0, <2>1, <2>2
    <2>4. state[u] = "TASK_DELAY"
      BY <2>1
    <2>5. Uses(u)
      BY <2>3 DEF TypeInv, TaskInv, Delaying
    <2> QED
      BY <1>0, <1>7, <2>2, <2>3, <2>4, <2>5, EnvironmentSlots DEF Delaying
  <1> QED
    BY <1>2, <1>3, <1>4, <1>5, <1>6, <1>7 DEF Next

SlotInv == TypeInv /\ PipeOwners /\ Baton /\ MarkInv /\ FreeInv /\ DelayInv

LEMMA SlotInvariance == Spec => []SlotInv
  <1>1. Init => PipeOwners /\ Baton /\ MarkInv /\ FreeInv /\ DelayInv
    <2> SUFFICES ASSUME Init PROVE PipeOwners /\ Baton /\ MarkInv /\ FreeInv /\ DelayInv
      OBVIOUS
    <2>1. PipeOwners /\ MarkInv
      BY DEF Init, PipeOwners, MarkInv
    <2>2. Baton
      BY DEF Init, ConstructInterface, Baton
    <2>3. FreeInv /\ DelayInv
      BY DEF Init, ConstructInterface, FreeInv, DelayInv, ToFinish, Contains
    <2> QED
      BY <2>1, <2>2, <2>3
  <1>2. Init => SlotInv
    BY <1>1, InitTypeInv DEF SlotInv
  <1>3. SlotInv /\ [Next]_vars => SlotInv'
    BY NextTypeInv, NextPipeOwners, NextBaton, NextMarkInv, NextFreeInv, NextDelayInv DEF SlotInv
  <1> QED
    BY <1>2, <1>3, PTL DEF Spec

------------------------------------------------------------------------------
\* The barrier

LEMMA NextBarrierInv == SlotInv /\ BarrierInv /\ [Next]_vars => BarrierInv'
  <1> SUFFICES ASSUME SlotInv, BarrierInv, [Next]_vars,
                      mainPc' \in {"test", "wait", "idle"}, ~exitCmd',
                      NEW u \in Tasks, u < ii'
               PROVE  Settled(u)'
    BY DEF BarrierInv
  <1>0. /\ triggeredMIDs \in [Tasks -> Seq(Mids)] /\ appOf \in [Tasks -> Apps \cup {NoApp}]
        /\ appRunning \in [Tasks -> BOOLEAN] /\ pc \in [Tasks -> TaskPCs]
        /\ inherited \in [Tasks -> SUBSET Mids]
        /\ ii \in Nat /\ TypeInv /\ Tasks \subseteq Nat
    <2>1. TypeInv /\ IfaceTypeOK /\ IpcTypeOK /\ AppTypeOK /\ MainTypeOK /\ HistoryTypeOK
      BY TypeParts DEF SlotInv, TypeInv, IfaceTypeOK
    <2>2. NumTasks \in Nat
      BY InterfaceAssumption
    <2>3. ii \in Nat /\ Tasks \subseteq Nat
      BY <2>1, <2>2 DEF MainTypeOK, Tasks
    <2> QED
      BY <2>1, <2>3 DEF IfaceTypeOK, IpcTypeOK, AppTypeOK, HistoryTypeOK
  <1>1. ASSUME mainPc \in {"test", "wait", "idle"}, ~exitCmd, u < ii PROVE Settled(u)
    BY <1>1 DEF BarrierInv
  <1>2. CASE UNCHANGED vars
    BY <1>1, <1>2 DEF vars, ifaceVars, ipcVars, appVars, mainVars, historyVars, Settled, Uses,
       ToFinish
  <1>3. CASE MainStep
    <2>1. UNCHANGED <<appOf, pc, appRunning, exitCmd>>
      BY <1>3, MainFrame DEF appVars
    <2>2. mainPc # "update" => UNCHANGED <<state, stale, inherited>>
      BY <1>0, <1>3, MainSlots
    <2>3. triggeredMIDs'[u] \in {triggeredMIDs[u], <<>>}
      BY <1>0, <1>3, MainSlots
    <2>10. ToFinish(u)' \subseteq ToFinish(u)
      BY <2>3 DEF ToFinish, Contains
    <2>4. ASSUME Settled(u), mainPc # "update" PROVE Settled(u)'
      BY <2>1, <2>2, <2>4, <2>10 DEF Settled, Uses
    <2>5. CASE MainDone \/ MainWait
      <3>1. mainPc \in {"test", "wait"} /\ ii' = ii
        BY <2>5 DEF MainDone, MainWait
      <3> QED
        BY <1>1, <2>1, <2>4, <3>1
    <2>6. CASE MainPass
      <3>1. mainPc \in {"test", "wait"} /\ ii' = ii + 1 /\ Quiet(ii)
        BY <2>6 DEF MainPass, MainOnTask, NextSlot
      <3>2. CASE u = ii
        <4>1. Settled(u)
          BY <3>1, <3>2 DEF Quiet, NothingToDo, Settled, SlotInv, DelayInv, ToFinish, Contains
        <4> QED
          BY <2>4, <3>1, <4>1
      <3>3. CASE u # ii
        BY <1>0, <1>1, <2>1, <2>4, <3>1, <3>3
      <3> QED
        BY <3>2, <3>3
    <2>7. CASE MainExpire
      <3>1. mainPc = "wait" /\ ii' = ii + 1 /\ GiveUp(ii)
        BY <2>1, <2>7 DEF MainExpire, NextSlot
      <3>2. CASE u = ii
        BY <1>0, <3>1, <3>2 DEF GiveUp, Settled, ToFinish, Contains
      <3>3. CASE u # ii
        BY <1>0, <1>1, <2>1, <2>4, <3>1, <3>3
      <3> QED
        BY <3>2, <3>3
    <2>8. CASE MainRead
      BY <1>0, <2>8 DEF MainRead
    <2>9. CASE Boot \/ MainCycle \/ MainUpdate \/ Shutdown
      <3>1. mainPc' \in {"read", "update", "cycle", "delete"}
        BY <2>9 DEF Boot, MainCycle, MainUpdate, Shutdown, GoMain
      <3> QED
        BY <3>1
    <2> QED
      BY <1>3, <2>5, <2>6, <2>7, <2>8, <2>9 DEF MainStep
  <1>4. ASSUME ~MainStep, Next PROVE Settled(u)'
    <2>1. /\ mainPc \in {"test", "wait", "idle"} /\ ii' = ii
          /\ ~exitCmd
      <3>1. CASE SchStep \/ (\E t \in Tasks : TaskStep(t)) \/ (\E t \in Tasks : RestartStep(t))
        BY <3>1, SchFrame, TaskFrame, RestartFrame DEF mainVars
      <3>2. CASE Environment
        <4>1. exitCmd => exitCmd'
          BY <3>2 DEF Environment, StartApp, StopApp, OS_QueueDelete, DeleteTask, Restart,
             Panic, Exit, mainVars
        <4> QED
          BY <3>2, <4>1, EnvironmentFrame
      <3> QED
        BY <1>4, <3>1, <3>2 DEF Next
    <2>2. Settled(u)
      BY <1>1, <2>1
    <2>3. CASE SchStep
      <3>1. schPc # "mark"
        BY <2>1 DEF SlotInv, Baton, TypeInv, TypeOK, IfaceTypeOK
      <3>2. UNCHANGED triggeredMIDs
        BY <2>3, <3>1, SchSlots DEF SlotInv
      <3> QED
        BY <2>2, <2>3, <3>2, SchFrame DEF appVars, historyVars, Settled, Uses, ToFinish
    <2>4. ASSUME NEW t \in Tasks, TaskStep(t) PROVE Settled(u)'
      <3>1. UNCHANGED <<appOf, appRunning, stale, inherited>>
        BY <2>4, TaskFrame DEF historyVars
      <3>4. ToFinish(u)' \subseteq ToFinish(u)
        BY <2>4, TaskFinishes, <1>0
      <3>2. CASE u # t
        BY <1>0, <2>2, <2>4, <3>1, <3>2, <3>4, TaskSlots DEF Settled, Uses
      <3>3. CASE u = t
        BY <1>0, <2>2, <2>4, <3>1, <3>3, <3>4, TaskSlots DEF Settled, Uses
      <3> QED
        BY <3>2, <3>3
    <2>5. ASSUME NEW t \in Tasks, RestartStep(t) PROVE Settled(u)'
      BY <1>0, <2>2, <2>5, RestartFrame, RestartSlots
         DEF historyVars, Settled, Uses, ToFinish
    <2>6. CASE Environment
      <3>1. UNCHANGED state /\ ToFinish(u)' = ToFinish(u)
        BY <2>6, EnvironmentFrame DEF ipcVars, ToFinish
      <3>2. ~Uses(u) => ToFinish(u) \subseteq inherited[u]
        BY DEF SlotInv, FreeInv
      <3>3. \/ u \in stale \/ ~Uses(u) \/ ~appRunning[u] \/ ToFinish(u) \subseteq inherited[u]
            \/ pc[u] \in Delaying /\ state[u] = "TASK_DELAY"
        BY <2>2 DEF Settled
      <3>4. /\ u \in stale \/ ~Uses(u) \/ ~appRunning[u] \/ ToFinish(u) \subseteq inherited[u]
                 => Settled(u)'
            /\ pc[u] \in Delaying /\ state[u] = "TASK_DELAY" => Settled(u)'
        <4>1. CASE u \in stale \/ ToFinish(u) \subseteq inherited[u]
          BY <1>0, <2>6, <3>1, <4>1, EnvironmentSlots DEF Settled
        <4>2. CASE ~Uses(u)
          BY <1>0, <2>6, <3>1, <3>2, <4>2, EnvironmentSlots DEF Settled, Uses
        <4>3. CASE Uses(u) /\ ~appRunning[u]
          BY <1>0, <2>6, <3>1, <4>3, EnvironmentSlots DEF Settled, Uses
        <4>4. CASE Uses(u) /\ pc[u] \in Delaying /\ state[u] = "TASK_DELAY"
          BY <1>0, <2>6, <3>1, <4>4, EnvironmentSlots DEF Settled, Uses, Delaying
        <4> QED
          BY <4>1, <4>2, <4>3, <4>4
      <3> QED
        BY <3>3, <3>4
    <2> QED
      BY <1>4, <2>3, <2>4, <2>5, <2>6 DEF Next
  <1> QED
    BY <1>2, <1>3, <1>4

\* Tasks may be deleted, started in the slots of others and stopped at any moment: no
\* task in a slot that the main thread has looked at has a message to finish when the
\* frame ends, unless its slot was left undone by a task before it.
THEOREM WatchedBarrierHolds == Spec => []WatchedBarrier
  <1>1. Init => BarrierInv
    BY DEF Init, BarrierInv
  <1>2. BarrierInv => WatchedBarrier
    BY DEF BarrierInv, WatchedBarrier, Settled, Unfinished
  <1> QED
    BY <1>1, <1>2, SlotInvariance, NextBarrierInv, PTL DEF Spec

------------------------------------------------------------------------------
\* Triggers

LEMMA NextTriggersOfOwn == SlotInv /\ TriggersOfOwn /\ [Next]_vars => TriggersOfOwn'
  <1> SUFFICES ASSUME SlotInv, TriggersOfOwn, [Next]_vars,
                      NEW u \in Tasks, Uses(u)', NEW mid \in ToFinish(u)'
               PROVE  appOf'[u] \in Listens[mid] \/ mid \in inherited'[u]
    BY DEF TriggersOfOwn
  <1>0. /\ triggeredMIDs \in [Tasks -> Seq(Mids)] /\ appOf \in [Tasks -> Apps \cup {NoApp}]
        /\ inherited \in [Tasks -> SUBSET Mids]
        /\ TypeInv /\ PipeOwners /\ MarkInv
    BY DEF SlotInv, TypeInv, TypeOK, IfaceTypeOK, IpcTypeOK
  <1>1. ASSUME appOf'[u] = appOf[u], inherited'[u] = inherited[u], mid \in ToFinish(u)
        PROVE  appOf'[u] \in Listens[mid] \/ mid \in inherited'[u]
    BY <1>1 DEF TriggersOfOwn, Uses
  <1>2. CASE UNCHANGED vars
    BY <1>1, <1>2 DEF vars, ifaceVars, ipcVars, appVars, historyVars, ToFinish
  <1>3. CASE MainStep
    <2>1. UNCHANGED appOf
      BY <1>3, MainFrame DEF appVars
    <2>2. /\ triggeredMIDs'[u] \in {triggeredMIDs[u], <<>>}
          /\ inherited'[u] = inherited[u] \/ ToFinish(u)' = {}
      BY <1>0, <1>3, MainSlots
    <2>3. mid \in ToFinish(u) /\ inherited'[u] = inherited[u]
      BY <2>2 DEF ToFinish, Contains
    <2> QED
      BY <1>1, <2>1, <2>3
  <1>4. CASE SchStep
    <2>1. UNCHANGED <<appOf, inherited>>
      BY <1>4, SchFrame DEF appVars, historyVars
    <2>2. CASE triggeredMIDs'[u] = triggeredMIDs[u]
      BY <1>1, <2>1, <2>2 DEF ToFinish
    <2>3. CASE triggeredMIDs'[u] # triggeredMIDs[u]
      <3>1. /\ schMid \in Mids /\ appOf[u] \in Listens[schMid]
            /\ triggeredMIDs'[u] = Append(triggeredMIDs[u], schMid)
        BY <1>0, <1>4, <2>3, SchSlots
      <3>2. triggeredMIDs[u] \in Seq(Mids)
        BY <1>0
      <3>3. mid = schMid \/ mid \in ToFinish(u)
        BY <3>1, <3>2 DEF ToFinish, Contains
      <3> QED
        BY <1>1, <2>1, <3>1, <3>3
    <2> QED
      BY <2>2, <2>3
  <1>5. ASSUME NEW t \in Tasks, TaskStep(t)
        PROVE  appOf'[u] \in Listens[mid] \/ mid \in inherited'[u]
    <2>1. UNCHANGED <<appOf, inherited>>
      BY <1>5, TaskFrame DEF historyVars
    <2>2. mid \in ToFinish(u)
      BY <1>0, <1>5, TaskFinishes
    <2> QED
      BY <1>1, <2>1, <2>2
  <1>6. ASSUME NEW t \in Tasks, RestartStep(t)
        PROVE  appOf'[u] \in Listens[mid] \/ mid \in inherited'[u]
    BY <1>0, <1>1, <1>6, RestartFrame, RestartSlots DEF historyVars, ToFinish
  <1>7. CASE Environment
    <2>1. mid \in ToFinish(u)
      BY <1>7, EnvironmentFrame DEF ipcVars, ToFinish
    <2>2. CASE ~Uses(u)
      <3>1. mid \in inherited[u]
        BY <2>1, <2>2 DEF SlotInv, FreeInv
      <3> QED
        BY <1>0, <1>7, <2>1, <3>1, EnvironmentSlots
    <2>3. CASE Uses(u)
      <3>1. \/ appOf'[u] = appOf[u] /\ inherited'[u] = inherited[u]
            \/ inherited'[u] = ToFinish(u)
        BY <1>0, <1>7, <2>3, EnvironmentSlots DEF Uses
      <3> QED
        BY <1>1, <2>1, <3>1
    <2> QED
      BY <2>2, <2>3
  <1> QED
    BY <1>2, <1>3, <1>4, <1>5, <1>6, <1>7 DEF Next

\* A task is waited for on behalf of its own app only, whatever apps have had its slot
\* or its pipe before, but for what the task deleted in its slot has left there.
THEOREM TriggersOfOwnHolds == Spec => []TriggersOfOwn
  <1>1. Init => TriggersOfOwn
    BY DEF Init, TriggersOfOwn, Uses
  <1> QED
    BY <1>1, SlotInvariance, NextTriggersOfOwn, PTL DEF Spec

------------------------------------------------------------------------------
\* The algorithms of OSAL, for any units, times and priorities

\* The local time of a process follows simulated time up to the roundings of
\* OS_SetLocalTime and OS_GetLocalTime.
THEOREM LocalTimeFollowsHolds == Spec => []LocalTimeFollows
  <1>1. LocalTimeFollows
    BY ClockFollowsHolds DEF LocalTimeFollows
  <1> QED
    BY <1>1, PTL

\* The local time of a process does not go back.
THEOREM LocalTimeMonotoneHolds == Spec => []LocalTimeMonotone
  <1>1. LocalTimeMonotone
    BY ClockMonotoneHolds DEF LocalTimeMonotone
  <1> QED
    BY <1>1, PTL

\* OS_PriorityRemap keeps the order of the tasks of a process.
THEOREM ThreadsOrderedHolds == Spec => []ThreadsOrdered
  <1>1. ThreadsOrdered
    BY PrioritiesOrderedHolds DEF ThreadsOrdered
  <1> QED
    BY <1>1, PTL
=============================================================================
