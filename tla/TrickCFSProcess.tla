--------------------------- MODULE TrickCFSProcess ---------------------------
(***************************************************************************)
(* The life of a simulation process, in wall-clock scheduling: it boots,   *)
(* cFE starts and deletes apps with their tasks and pipes while frames go  *)
(* by, and it ends, told to exit, by a reset of cFS, or because the        *)
(* scheduler app fails.                                                    *)
(*                                                                         *)
(* Tasks are slots here, 0..NumTasks-1 for OS_MAX_TASKS: TrickCFSInterface *)
(* keeps a TaskIPC per slot and knows nothing of the tasks that come and   *)
(* go in it.  What TrickCFSSim shows in detail is coarse here: a thread    *)
(* that sleeps is one whose action is disabled, a timeout of OS_QueueGet   *)
(* is one that may pass, a scheduled message reaches its pipes in a step.  *)
(* The main thread's look at a task it was woken up for and its passing    *)
(* on to the next are one step, and so is what CFE_PSP_Restart does before *)
(* it asks for the shutdown.                                               *)
(***************************************************************************)
EXTENDS TrickCFSInterface, TrickPSP, OSALClock, OSALTasks, FiniteSets

CONSTANTS
  Apps,            \* apps of one task, which makes one pipe at most
  StartedBefore,   \* those that stay and that the startup script starts before each app
  NoApp,
  NoPipe,
  Listens,         \* the apps that subscribe to each message
  Resets,          \* the resets of cFS each app may ask for
  Restarted,       \* apps that cFE may stop, delete and start again
  Site,            \* the one call site of OS_QueueGet in each task
  Table,           \* the schedule table: a sequence of message ids
  PipeDepth,
  TruncateQueueDepth, \* a soft limit of OSAL on the depth of pipes; 0 is none
  Delays,          \* the arguments each app calls OS_TaskDelay with
  CFE_PSP_RESTART_DELAY,
  MaxTriggered,    \* bound: no more messages are scheduled for a task with as many pending
  MaxAcknowledged  \* bound on the entries of acknowledgedMIDs

ASSUME ProcessAssumption ==
  /\ NoApp \notin Apps
  /\ NoPipe \notin Pipes
  /\ Listens \in [Mids -> SUBSET Apps]
  /\ Resets \in [Apps -> SUBSET ResetTypes]
  /\ Restarted \subseteq {a \in Apps : Resets[a] = {}}
  /\ StartedBefore \in [Apps -> SUBSET (Apps \ Restarted)]
  /\ Site \in Sites
  /\ Table \in Seq(Mids)
  /\ PipeDepth \in Nat \ {0}
  /\ TruncateQueueDepth \in Nat
  /\ Delays \in [Apps -> SUBSET Nat]
  /\ CFE_PSP_RESTART_DELAY \in Nat
  /\ MaxTriggered \in Nat
  /\ MaxAcknowledged \in Nat
  /\ ~PerfectMode

VARIABLES
  execMode,    \* exec_get_mode
  exitCmd,     \* exec_get_exec_command() == ExitCmd
  waitForever, \* msWaitTimeForCFSApps == -1
  mainPc,      \* where the Trick main thread is
  ii,          \* its loop index over the slots
  schPc,       \* where the SCH thread is
  schEntry,    \* its position in the schedule table
  schPipes,    \* the destinations it has yet to mark
  appOf,       \* the app whose task has the slot
  pc,          \* where the task in each slot is
  pipe,        \* the pipe it receives from
  hand,        \* the message it has received and not acknowledged
  pipeApp,     \* the app that made each pipe, while it exists
  queue,       \* the messages in each pipe
  ended,       \* how the process has ended
  stale,       \* history: slots that a task deleted in its delay has left in TASK_DELAY
  inherited,   \* history: the triggers that deleted tasks have left in each slot
  asked        \* history: the resets that have been asked for

mainVars == <<execMode, exitCmd, waitForever, mainPc, ii>>
schVars == <<schPc, schEntry, schPipes>>
appVars == <<appOf, pc, pipe, hand>>
pipeVars == <<pipeApp, queue>>
historyVars == <<stale, inherited, asked>>
vars == <<ifaceVars, pspVars, mainVars, schVars, appVars, pipeVars, ended, historyVars>>

ResetPCs == {"request", "resetDelaying", "sleeping"}
TaskPCs == {"none", "app", "recv", "ack", "delaying"} \cup ResetPCs
Delaying == {"delaying", "resetDelaying"}

TypeOK ==
  /\ IfaceTypeOK
  /\ PspTypeOK
  /\ execMode \in {"Initialization", "Run", "ExitMode"}
  /\ exitCmd \in BOOLEAN
  /\ waitForever \in BOOLEAN
  /\ mainPc \in {"boot", "read", "test", "wait", "idle", "update",
                "cycle", "delete"}
  /\ ii \in 0..NumTasks
  /\ schPc \in {"init", "wait", "table", "mark", "xmit", "gone"}
  /\ schEntry \in 1..(Len(Table) + 1)
  /\ schPipes \in SUBSET Pipes
  /\ appOf \in [Tasks -> Apps \cup {NoApp}]
  /\ pc \in [Tasks -> TaskPCs]
  /\ pipe \in [Tasks -> Pipes \cup {NoPipe}]
  /\ hand \in [Tasks -> Mids \cup {NoMid}]
  /\ pipeApp \in [Pipes -> Apps \cup {NoApp}]
  /\ queue \in [Pipes -> Seq(Mids)]
  /\ ended \in {"no", "returned", "aborted", "terminated", "panic"}
  /\ stale \in SUBSET Tasks
  /\ inherited \in [Tasks -> SUBSET Mids]
  /\ asked \in SUBSET ResetTypes

\* The interface as its constructor leaves it: no slot has a task, and slot 0 owns
\* all pipes.
ConstructInterface ==
  /\ state = [t \in Tasks |-> "NONE"]
  /\ triggeredMIDs = [t \in Tasks |-> <<>>]
  /\ stacks = [t \in Tasks |-> <<>>]
  /\ acknowledgedMIDs = [t \in Tasks |-> <<>>]
  /\ usRemaining = [t \in Tasks |-> -1]
  /\ cv = [t \in Tasks |-> {}]
  /\ prevPipeTaskOwner = [p \in Pipes |-> 0]
  /\ perfectFDMap = <<>>
  /\ isMainCompleteTrigger = 0
  /\ triggerMain = 0
  /\ appRunning = [t \in Tasks |-> FALSE]

Init ==
  /\ ConstructInterface
  /\ PspInit
  /\ execMode = "Initialization"
  /\ exitCmd = FALSE
  /\ waitForever \in BOOLEAN
  /\ mainPc = "boot"
  /\ ii = 0
  /\ schPc = "init"
  /\ schEntry = 1
  /\ schPipes = {}
  /\ appOf = [t \in Tasks |-> NoApp]
  /\ pc = [t \in Tasks |-> "none"]
  /\ pipe = [t \in Tasks |-> NoPipe]
  /\ hand = [t \in Tasks |-> NoMid]
  /\ pipeApp = [p \in Pipes |-> NoApp]
  /\ queue = [p \in Pipes |-> <<>>]
  /\ ended = "no"
  /\ stale = {}
  /\ inherited = [t \in Tasks |-> {}]
  /\ asked = {}

------------------------------------------------------------------------------
\* cFE and OSAL: apps with their tasks and pipes

Uses(t) == appOf[t] # NoApp
RegisteredTasks == Cardinality({t \in Tasks : Uses(t)})
FirstFree(t) == ~Uses(t) /\ \A u \in Tasks : u < t => Uses(u)
Subscribes(a) == \E mid \in Mids : a \in Listens[mid]
PipesOf(a) == {p \in Pipes : pipeApp[p] = a}
Destinations(mid) == {p \in Pipes : pipeApp[p] \in Listens[mid]}

HasTask(a) == \E t \in Tasks : appOf[t] = a

\* OS_TaskCreate: which slot it takes is OSAL's affair, the first free one here.
\* The slot's TaskIPC stays as it is.
StartApp(a, t) ==
  /\ mainPc # "delete"
  /\ FirstFree(t)
  /\ ~HasTask(a)
  /\ \A before \in StartedBefore[a] : HasTask(before)
  /\ appOf' = [appOf EXCEPT ![t] = a]
  /\ appRunning' = [appRunning EXCEPT ![t] = TRUE]
  /\ pc' = [pc EXCEPT ![t] = "app"]
  /\ UNCHANGED <<ipcVars, prevPipeTaskOwner, perfectFDMap, eventVars, pspVars, mainVars,
                 schVars, pipe, hand, pipeVars, ended, historyVars>>

\* Variant: an owner is noted only where none but the default is noted yet.
OS_QueueCreateOwnedOnce(t, p) ==
  /\ pc[t] = "app"
  /\ Subscribes(appOf[t]) /\ PipesOf(appOf[t]) = {}
  /\ pipeApp[p] = NoApp
  /\ pipeApp' = [pipeApp EXCEPT ![p] = appOf[t]]
  /\ queue' = [queue EXCEPT ![p] = <<>>]
  /\ IF prevPipeTaskOwner[p] = 0 THEN SetPipeOwner(p, t) ELSE UNCHANGED prevPipeTaskOwner
  /\ UNCHANGED <<ipcVars, perfectFDMap, eventVars, appRunning, pspVars, mainVars,
                 schVars, appVars, ended, historyVars>>
\* OS_QueueCreate: TrickCFSQueueManager::open, and its task is the owner.
OS_QueueCreate(t, p) ==
  /\ pc[t] = "app"
  /\ Subscribes(appOf[t]) /\ PipesOf(appOf[t]) = {}
  /\ pipeApp[p] = NoApp
  /\ pipeApp' = [pipeApp EXCEPT ![p] = appOf[t]]
  /\ queue' = [queue EXCEPT ![p] = <<>>]
  /\ SetPipeOwner(p, t)
  /\ UNCHANGED <<ipcVars, perfectFDMap, eventVars, appRunning, pspVars, mainVars,
                 schVars, appVars, ended, historyVars>>

\* The app is told to stop.
StopApp(t) ==
  /\ appOf[t] \in Restarted
  /\ appRunning[t]
  /\ appRunning' = [appRunning EXCEPT ![t] = FALSE]
  /\ UNCHANGED <<ipcVars, prevPipeTaskOwner, perfectFDMap, eventVars, pspVars, mainVars,
                 schVars, appVars, pipeVars, ended, historyVars>>

\* Variant: without the lock of the software bus.
OS_QueueDeleteAnyTime(t, p) ==
  /\ Uses(t) /\ ~appRunning[t]
  /\ pipeApp[p] = appOf[t]
  /\ pipeApp' = [pipeApp EXCEPT ![p] = NoApp]
  /\ queue' = [queue EXCEPT ![p] = <<>>]
  /\ UNCHANGED <<ifaceVars, pspVars, mainVars, schVars, appVars, ended, historyVars>>
\* OS_QueueDelete, TrickCFSQueueManager::close: under the lock of the software bus,
\* which sendScheduledMessage holds while it marks pipes.  The owner stays noted.
OS_QueueDelete(t, p) ==
  /\ Uses(t) /\ ~appRunning[t]
  /\ pipeApp[p] = appOf[t]
  /\ schPc # "mark"
  /\ pipeApp' = [pipeApp EXCEPT ![p] = NoApp]
  /\ queue' = [queue EXCEPT ![p] = <<>>]
  /\ UNCHANGED <<ifaceVars, pspVars, mainVars, schVars, appVars, ended, historyVars>>

\* The messages of the scheduler that task t has yet to finish.
ToFinish(t) == {mid \in Mids : Contains(triggeredMIDs[t], mid)}

\* OS_TaskDelete, after the pipes: the thread ends where it can be cancelled, and
\* its TaskIPC stays as it is.
DeleteTask(t) ==
  /\ Uses(t) /\ ~appRunning[t]
  /\ PipesOf(appOf[t]) = {}
  /\ pc[t] \in {"app", "recv", "delaying"}
  /\ appOf' = [appOf EXCEPT ![t] = NoApp]
  /\ pc' = [pc EXCEPT ![t] = "none"]
  /\ pipe' = [pipe EXCEPT ![t] = NoPipe]
  /\ stale' = IF state[t] = "TASK_DELAY" THEN stale \cup {t} ELSE stale
  /\ inherited' = [inherited EXCEPT ![t] = ToFinish(t)]
  /\ UNCHANGED <<ifaceVars, pspVars, mainVars, schVars, hand,
                 pipeVars, ended, asked>>

------------------------------------------------------------------------------
\* A task

GoTask(t, p) == pc' = [pc EXCEPT ![t] = p]

\* OS_QueueGet begins.
OS_QueueGet(t, p) ==
  /\ pc[t] = "app"
  /\ pipeApp[p] = appOf[t]
  /\ SetPipeOwner(p, t)
  /\ MarkPipeAsComplete(t, Site)
  /\ GoTask(t, "recv")
  /\ pipe' = [pipe EXCEPT ![t] = p]
  /\ UNCHANGED <<perfectFDMap, eventVars, appRunning, pspVars, mainVars, schVars,
                 appOf, hand, pipeVars, ended, historyVars>>

Receive(t) ==
  /\ pc[t] = "recv"
  /\ queue[pipe[t]] # <<>>
  /\ hand' = [hand EXCEPT ![t] = Head(queue[pipe[t]])]
  /\ queue' = [queue EXCEPT ![pipe[t]] = Tail(@)]
  /\ GoTask(t, "ack")
  /\ UNCHANGED <<ifaceVars, pspVars, mainVars, schVars, appOf, pipe,
                 pipeApp, ended, historyVars>>

\* A timeout, or the pipe is gone.
ReceiveNothing(t) ==
  /\ pc[t] = "recv"
  /\ queue[pipe[t]] = <<>>
  /\ GoTask(t, "app")
  /\ pipe' = [pipe EXCEPT ![t] = NoPipe]
  /\ UNCHANGED <<ifaceVars, pspVars, mainVars, schVars, appOf, hand,
                 pipeVars, ended, historyVars>>

Acknowledge(t) ==
  /\ pc[t] = "ack"
  /\ Len(acknowledgedMIDs[t]) < MaxAcknowledged
  /\ AcknowledgePipeTrigger(t, hand[t], Site)
  /\ GoTask(t, "app")
  /\ hand' = [hand EXCEPT ![t] = NoMid]
  /\ pipe' = [pipe EXCEPT ![t] = NoPipe]
  /\ UNCHANGED <<prevPipeTaskOwner, perfectFDMap, eventVars, appRunning, pspVars,
                 mainVars, schVars, appOf, pipeVars, ended, historyVars>>

\* OS_TaskDelay (while the simulation does not run it only sleeps).
OS_TaskDelay(t, ms) ==
  /\ pc[t] = "app"
  /\ ms \in Delays[appOf[t]]
  /\ execMode = "Run"
  /\ AddTaskDelay(t, ms)
  /\ GoTask(t, "delaying")
  /\ UNCHANGED <<prevPipeTaskOwner, perfectFDMap, eventVars, appRunning, pspVars,
                 mainVars, schVars, appOf, pipe, hand, pipeVars, ended,
                 historyVars>>

EndDelay(t) ==
  /\ pc[t] = "delaying"
  /\ ContinueAfterDelay(t)
  /\ GoTask(t, "app")
  /\ UNCHANGED <<prevPipeTaskOwner, perfectFDMap, eventVars, appRunning, pspVars,
                 mainVars, schVars, appOf, pipe, hand, pipeVars, ended,
                 historyVars>>

TaskStep(t) ==
  \/ \E p \in Pipes : OS_QueueCreate(t, p)
  \/ \E p \in Pipes : OS_QueueGet(t, p)
  \/ Receive(t)
  \/ ReceiveNothing(t)
  \/ Acknowledge(t)
  \/ \E ms \in UNION {Delays[a] : a \in Apps} : OS_TaskDelay(t, ms)
  \/ EndDelay(t)

------------------------------------------------------------------------------
\* CFE_PSP_Restart, called by the task of an app

\* It deletes the reserved memory if that is not to be kept and records the reset.
Restart(t, reset_type) ==
  /\ pc[t] = "app"
  /\ reset_type \in Resets[appOf[t]]
  /\ DeleteProcessorReservedMemory(reset_type)
  /\ RecordReset(reset_type)
  /\ asked' = asked \cup {reset_type}
  /\ GoTask(t, "request")
  /\ UNCHANGED <<ifaceVars, ShutdownReq, pending, setOfSignals, logged, notified, mainVars,
                 schVars, appOf, pipe, hand, pipeVars, ended, stale, inherited>>

\* The main thread is asked, and given time in OS_TaskDelay.
RestartRequest(t) ==
  /\ pc[t] = "request"
  /\ RequestShutdown
  /\ IF execMode = "Run"
     THEN AddTaskDelay(t, CFE_PSP_RESTART_DELAY) /\ GoTask(t, "resetDelaying")
     ELSE UNCHANGED ipcVars /\ GoTask(t, "sleeping")
  /\ UNCHANGED <<prevPipeTaskOwner, perfectFDMap, eventVars, appRunning, mainVars,
                 schVars, appOf, pipe, hand, pipeVars, ended, historyVars>>

\* The delay (outside of the run a mere sleep) is over, and the task still there.
RestartAbort(t) ==
  /\ pc[t] = "sleeping" \/ (pc[t] = "resetDelaying" /\ MayContinue(t))
  /\ ended' = "aborted"
  /\ UNCHANGED <<ifaceVars, pspVars, mainVars, schVars, appVars, pipeVars, historyVars>>

\* What is left of CFE_PSP_Restart once it has begun.
RestartStep(t) ==
  \/ RestartRequest(t)
  \/ RestartAbort(t)

\* CFE_PSP_Panic: cFE cannot start.
Panic ==
  /\ execMode = "Initialization"
  /\ ended' = "panic"
  /\ UNCHANGED <<ifaceVars, pspVars, mainVars, schVars, appVars, pipeVars, historyVars>>

------------------------------------------------------------------------------
\* The Trick main thread

GoMain(p) == mainPc' = p

\* psp_main_wrapper, which starts cFE and does not wait for it.
Boot ==
  /\ mainPc = "boot"
  /\ Attach
  /\ GoMain("read")
  /\ UNCHANGED <<ifaceVars, execMode, exitCmd, waitForever, ii, schVars, appVars,
                 pipeVars, ended, historyVars>>

\* TrickWaitForCFSComplete: the SCH thread is done ...
MainRead ==
  /\ mainPc = "read"
  /\ Consume(isMainCompleteTrigger)
  /\ GoMain("test")
  /\ ii' = 0
  /\ UNCHANGED <<ipcVars, prevPipeTaskOwner, perfectFDMap, triggerMain, appRunning,
                 pspVars, execMode, exitCmd, waitForever, schVars, appVars, pipeVars,
                 ended, historyVars>>

\* The loop has gone through as many slots as there are tasks, or finds the exit.
MainDone ==
  /\ mainPc = "test"
  /\ ii >= RegisteredTasks \/ exitCmd
  /\ GoMain("idle")
  /\ execMode' = "Run"
  /\ UNCHANGED <<ifaceVars, pspVars, exitCmd, waitForever, ii, schVars, appVars,
                 pipeVars, ended, historyVars>>

MainOnTask == mainPc = "wait" \/ (mainPc = "test" /\ ii < RegisteredTasks /\ ~exitCmd)

NextSlot ==
  /\ ii' = ii + 1
  /\ GoMain("test")

\* Variant: a task that is not quiet is passed as well.
MainPassAll ==
  /\ MainOnTask
  /\ NextSlot
  /\ UNCHANGED <<ifaceVars, pspVars, execMode, exitCmd, waitForever, schVars, appVars,
                 pipeVars, ended, historyVars>>
\* ... it passes a task that is quiet, or has become so while the main thread waited
\* (it has not begun anything when it is tested again), ...
MainPass ==
  /\ MainOnTask
  /\ Quiet(ii)
  /\ NextSlot
  /\ UNCHANGED <<ifaceVars, pspVars, execMode, exitCmd, waitForever, schVars, appVars,
                 pipeVars, ended, historyVars>>

\* ... and waits for one that is not, ...
MainWait ==
  /\ mainPc = "test"
  /\ MainOnTask
  /\ ~Quiet(ii)
  /\ GoMain("wait")
  /\ UNCHANGED <<ifaceVars, pspVars, execMode, exitCmd, waitForever, ii, schVars,
                 appVars, pipeVars, ended, historyVars>>

\* Variant: the exit is not looked for while the wait has no limit.
MainExpireWaitingOn ==
  /\ mainPc = "wait"
  /\ ~waitForever
  /\ IF exitCmd THEN UNCHANGED triggeredMIDs ELSE GiveUp(ii)
  /\ NextSlot
  /\ UNCHANGED <<state, stacks, acknowledgedMIDs, usRemaining, cv, prevPipeTaskOwner,
                 perfectFDMap, eventVars, appRunning, pspVars, execMode, exitCmd,
                 waitForever, schVars, appVars, pipeVars, ended, historyVars>>
\* ... or until its time is up or the simulation is told to exit.
MainExpire ==
  /\ mainPc = "wait"
  /\ \/ exitCmd /\ UNCHANGED triggeredMIDs
     \/ ~exitCmd /\ ~waitForever /\ GiveUp(ii)
  /\ NextSlot
  /\ UNCHANGED <<state, stacks, acknowledgedMIDs, usRemaining, cv, prevPipeTaskOwner,
                 perfectFDMap, eventVars, appRunning, pspVars, execMode, exitCmd,
                 waitForever, schVars, appVars, pipeVars, ended, historyVars>>

\* The executive's next cycle.
MainCycle ==
  /\ mainPc = "idle"
  /\ ~exitCmd
  /\ GoMain("update")
  /\ ii' = 0
  /\ UNCHANGED <<ifaceVars, pspVars, execMode, exitCmd, waitForever, schVars, appVars,
                 pipeVars, ended, historyVars>>

\* History: slot t is not in the delay of a deleted task any more, and holds none of
\* its triggers.
Outlived(t) ==
  /\ stale' = IF state'[t] # "TASK_DELAY" THEN stale \ {t} ELSE stale
  /\ inherited' = IF ToFinish(t) = {} THEN [inherited EXCEPT ![t] = {}] ELSE inherited

\* updateTaskTimes, over all slots, and triggerMainApp.
MainUpdate ==
  /\ mainPc = "update"
  /\ \/ /\ ii < NumTasks
        /\ UpdateTaskTime(ii)
        /\ ii' = ii + 1
        /\ Outlived(ii)
        /\ UNCHANGED <<eventVars, mainPc>>
     \/ /\ ii = NumTasks
        /\ TriggerMainApp
        /\ GoMain("read")
        /\ UNCHANGED <<ipcVars, ii, stale, inherited>>
  /\ UNCHANGED <<prevPipeTaskOwner, perfectFDMap, appRunning, pspVars, execMode, exitCmd,
                 waitForever, schVars, appVars, pipeVars, ended, asked>>

\* The shutdown job, OS_shutdown: the event, cFE is told, and all objects are deleted.
Shutdown ==
  /\ \/ /\ mainPc = "idle" /\ exitCmd
        /\ RaiseEvent
        /\ execMode' = "ExitMode"
        /\ GoMain("cycle")
        /\ UNCHANGED ended
     \/ /\ mainPc = "cycle"
        /\ OS_Application_Cycle
        /\ GoMain("delete")
        /\ UNCHANGED <<execMode, ended>>
     \/ /\ mainPc = "delete"
        /\ ended' = "returned"
        /\ UNCHANGED <<pspVars, mainPc, execMode>>
  /\ UNCHANGED <<ifaceVars, exitCmd, waitForever, ii, schVars, appVars, pipeVars,
                 historyVars>>

MainStep ==
  \/ Boot
  \/ MainRead
  \/ MainDone
  \/ MainPass
  \/ MainWait
  \/ MainExpire
  \/ MainCycle
  \/ MainUpdate
  \/ Shutdown

------------------------------------------------------------------------------
\* The SCH thread

GoSch(p) == schPc' = p
schMid == Table[schEntry]

SchInit ==
  /\ schPc = "init"
  /\ NotifyMain
  /\ GoSch("wait")
  /\ UNCHANGED <<ipcVars, prevPipeTaskOwner, perfectFDMap, appRunning, pspVars, mainVars,
                 schEntry, schPipes, appVars, pipeVars, ended, historyVars>>

\* Variant: the app of the scheduler exits by itself.
SchFailQuietly ==
  /\ schPc \in {"init", "wait"}
  /\ GoSch("gone")
  /\ UNCHANGED <<ifaceVars, pspVars, mainVars, schEntry, schPipes, appVars, pipeVars,
                 ended, historyVars>>
\* mainLoop terminates the simulation: init fails, or loop ends when CFE_ES_RunLoop is
\* asked before the next wait, because the pass over the table has failed or cFE has
\* told the app of the scheduler to exit.
SchFail ==
  /\ schPc \in {"init", "wait"}
  /\ ended' = "terminated"
  /\ UNCHANGED <<ifaceVars, pspVars, mainVars, schVars, appVars, pipeVars, historyVars>>

SchWait ==
  /\ schPc = "wait"
  /\ CFSWaitForTrigger
  /\ GoSch("table")
  /\ schEntry' = 1
  /\ UNCHANGED <<ipcVars, prevPipeTaskOwner, perfectFDMap, appRunning, pspVars, mainVars,
                 schPipes, appVars, pipeVars, ended, historyVars>>

\* Variant: the body of the loop counts as well.
NextEntryTwice == schEntry' = schEntry + 2
NextEntry == schEntry' = schEntry + 1

HasRoom(mid) ==
  \A p \in Destinations(mid) : Len(triggeredMIDs[prevPipeTaskOwner[p]]) < MaxTriggered

\* processScheduleTable: the next entry is due, or it is not.
SchTable ==
  /\ schPc = "table" /\ schEntry <= Len(Table)
  /\ \/ /\ HasRoom(schMid)
        /\ GoSch(IF Destinations(schMid) = {} THEN "xmit" ELSE "mark")
        /\ schPipes' = Destinations(schMid)
        /\ UNCHANGED schEntry
     \/ /\ NextEntry
        /\ UNCHANGED <<schPc, schPipes>>
  /\ UNCHANGED <<ifaceVars, pspVars, mainVars, appVars, pipeVars, ended, historyVars>>

\* sendScheduledMessage, which marks the destinations ...
SchMark(p) ==
  /\ schPc = "mark"
  /\ p \in schPipes
  /\ MarkPipeAsTriggered(prevPipeTaskOwner[p], schMid)
  /\ schPipes' = schPipes \ {p}
  /\ GoSch(IF schPipes' = {} THEN "xmit" ELSE "mark")
  /\ UNCHANGED <<state, stacks, acknowledgedMIDs, usRemaining, cv, prevPipeTaskOwner,
                 eventVars, appRunning, pspVars, mainVars, schEntry, appVars, pipeVars,
                 ended, historyVars>>

\* OS_QueueCreate makes a pipe no deeper than OSAL's soft limit.
Depth ==
  IF TruncateQueueDepth > 0 /\ TruncateQueueDepth < PipeDepth
  THEN TruncateQueueDepth ELSE PipeDepth

\* ... and then transmits the message to those there are by then.
SchXmit ==
  /\ schPc = "xmit"
  /\ queue' = [p \in Pipes |->
       IF p \in Destinations(schMid) /\ Len(queue[p]) < Depth
       THEN Append(queue[p], schMid) ELSE queue[p]]
  /\ NextEntry
  /\ GoSch("table")
  /\ UNCHANGED <<ifaceVars, pspVars, mainVars, schPipes, appVars, pipeApp, ended,
                 historyVars>>

TableDone == schPc = "table" /\ schEntry > Len(Table)

\* signalMainAppComplete.
SchNext ==
  /\ TableDone
  /\ NotifyMain
  /\ GoSch("wait")
  /\ UNCHANGED <<ipcVars, prevPipeTaskOwner, perfectFDMap, appRunning, pspVars, mainVars,
                 schEntry, schPipes, appVars, pipeVars, ended, historyVars>>

SchStep ==
  \/ SchInit
  \/ SchFail
  \/ SchWait
  \/ SchTable
  \/ \E p \in Pipes : SchMark(p)
  \/ SchXmit
  \/ SchNext

------------------------------------------------------------------------------
\* The simulation is told to exit.
Exit ==
  /\ ~exitCmd
  /\ exitCmd' = TRUE
  /\ UNCHANGED <<ifaceVars, pspVars, execMode, waitForever, mainPc, ii, schVars, appVars,
                 pipeVars, ended, historyVars>>

Environment ==
  \/ \E a \in Apps, t \in Tasks : StartApp(a, t)
  \/ \E t \in Tasks : StopApp(t)
  \/ \E t \in Tasks, p \in Pipes : OS_QueueDelete(t, p)
  \/ \E t \in Tasks : DeleteTask(t)
  \/ \E t \in Tasks, type \in ResetTypes : Restart(t, type)
  \/ Panic
  \/ Exit

Running == ended = "no"

Next ==
  /\ Running
  /\ \/ MainStep
     \/ SchStep
     \/ \E t \in Tasks : TaskStep(t)
     \/ \E t \in Tasks : RestartStep(t)
     \/ Environment

Spec == Init /\ [][Next]_vars

\* The threads of Trick and of the scheduler go on, which need never fail, and so does
\* a reset that has begun; apps may hang.
LiveSpec ==
  /\ Spec
  /\ WF_vars(Running /\ MainStep)
  /\ WF_vars(Running /\ SchStep /\ Running')
  /\ WF_vars(Running /\ \E t \in Tasks : RestartStep(t))

------------------------------------------------------------------------------
\* Tasks and pipes that come and go

\* A running task that still has to do what the scheduler has told it; what it has
\* from the task that had its slot before is not its own work.
Unfinished(t) ==
  Uses(t) /\ appRunning[t] /\ pc[t] \notin Delaying /\ ToFinish(t) \ inherited[t] # {}

\* While the executive runs its other jobs no task in a slot that the main thread
\* has looked at has a message of the scheduler to finish, though tasks have been
\* deleted and started meanwhile (unless its slot is still in the delay of a deleted task).
WatchedBarrier ==
  mainPc = "idle" /\ ~exitCmd => \A t \in Tasks : t < ii => t \in stale \/ ~Unfinished(t)

\* ... and the main thread has looked at all tasks that run.
EveryTaskWatched ==
  mainPc = "idle" /\ ~exitCmd => \A t \in Tasks : t \in stale \/ ~Unfinished(t)

\* Whoever marks a pipe finds the task of the app that made it, not the task of an
\* app that had the pipe before or that has taken a slot since.
PipeOwners ==
  \A p \in Pipes : pipeApp[p] # NoApp => appOf[prevPipeTaskOwner[p]] = pipeApp[p]

\* What a task has to finish are messages its own app listens to, or ones that the task
\* deleted in its slot has left: an app that takes the slot or a pipe of another gets
\* nothing more on the other's behalf.
TriggersOfOwn ==
  \A t \in Tasks : Uses(t) =>
    \A mid \in ToFinish(t) : appOf[t] \in Listens[mid] \/ mid \in inherited[t]

------------------------------------------------------------------------------
\* The end of the process

\* After a reset the next process starts the way that was asked for, and after
\* anything else from power on, unless a reset was on its way.
NextBootAsAsked ==
  /\ ended = "aborted" => NextReset \in asked
  /\ NextReset # CFE_PSP_RST_TYPE_POWERON => NextReset \in asked

\* Every cycle ends, that of the initialization too, although apps hang, are
\* deleted with messages unfinished, or the scheduler app fails: the wait is limited
\* or the process ends.
FrameEnds == ~waitForever /\ mainPc # "idle" ~> mainPc = "idle" \/ ~Running

\* The process ends when it is told to, however long the main thread waits for apps,
\* and when cFS is reset, unless the main thread waits for another app for good.
ProcessEnds ==
  exitCmd \/ (~waitForever /\ \E t \in Tasks : pc[t] \in ResetPCs) ~> ~Running

------------------------------------------------------------------------------
\* The algorithms of OSAL the process depends on.  They keep no state of their own:
\* TLC looks at them once, in the states a process starts in, for all bounded inputs.

\* The local time the process shows is the wall clock's, and simulated time since, up
\* to the roundings of OS_SetLocalTime and OS_GetLocalTime.
LocalTimeFollows == Init => ClockFollows

\* The local time of the process does not go back, across the carry from nanoseconds
\* to seconds in OS_GetLocalTime.
LocalTimeMonotone == Init => ClockMonotone

\* OS_PriorityRemap gives the threads of the process priorities in the order of those
\* of their tasks, in the range of the operating system.
ThreadsOrdered == Init => PrioritiesOrdered
==============================================================================
