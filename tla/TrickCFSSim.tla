----------------------------- MODULE TrickCFSSim -----------------------------
(***************************************************************************)
(* A TrickCFS simulation: the Trick main thread, the SCH_trick thread and  *)
(* one thread per task of the cFS apps, synchronised through               *)
(* TrickCFSInterface.                                                      *)
(*                                                                         *)
(*   main   initialize, then every cycle updateCFS: updateTaskTimes,       *)
(*          triggerMainApp, TrickWaitForCFSComplete                        *)
(*   SCH    BaseTrickCFSScheduler::mainLoop: init, then for each trigger   *)
(*          one pass over the schedule table, then signalMainAppComplete   *)
(*   task   calls of OS_QueueGet and OS_TaskDelay in any order, as the app *)
(*          pleases                                                        *)
(*                                                                         *)
(* Queues keep the promise of BoundedFifo, which TrickCFSQueue implements; *)
(* the counters of the schedule table are left to chance (any entry may be *)
(* due in any frame).                                                      *)
(***************************************************************************)
EXTENDS TrickCFSInterface, FiniteSets, Functions

CONSTANTS
  Table,         \* the schedule table: a sequence of message ids
  Subscribers,   \* the pipes each message is routed to
  PipeDepth,     \* how many messages a pipe holds
  Calls,         \* the calls of OS_QueueGet each task makes
  Delays,        \* the arguments (ms) of OS_TaskDelay each task calls it with
  Unsolicited,   \* <<pipe, mid>>: what others than the scheduler may send
  WaitSlices,    \* msWaitTimeForCFSApps in slices of 5000 ms; -1 waits for good
  TicsPerMs,     \* tics of simulated time in a millisecond
  TimerFires,    \* may 5000 ms pass while the main thread waits for a task
  SpuriousWakeups, \* do waits on condition variables end for no reason
  MayStop,       \* tasks whose app may be stopped by cFE
  MayExit,       \* may the simulation be told to exit
  MaxTriggered,  \* bound: no more messages are scheduled for a task with as many pending
  MaxAcknowledged \* bound on the entries of acknowledgedMIDs

\* OS_QueueGet's timeout: OS_PEND, OS_CHECK, or a number of scheduler periods.
OS_PEND == -1
OS_CHECK == 0

Call == [pipe : Pipes, site : Sites, timeout : Int]
NoCall == [pipe |-> "none", site |-> "none", timeout |-> OS_CHECK]

ASSUME SimAssumption ==
  /\ IsFiniteSet(Pipes)
  /\ Table \in Seq(Mids)
  /\ Subscribers \in [Mids -> SUBSET Pipes]
  /\ PipeDepth \in Nat \ {0}
  /\ Calls \in [Tasks -> SUBSET Call]
  /\ Delays \in [Tasks -> SUBSET Nat]
  /\ Unsolicited \subseteq Pipes \X Mids
  /\ WaitSlices \in Nat \cup {-1}
  /\ TicsPerMs \in Nat \ {0}
  /\ TimerFires \in BOOLEAN
  /\ SpuriousWakeups \in BOOLEAN
  /\ MayStop \subseteq Tasks
  /\ MayExit \in BOOLEAN
  /\ MaxTriggered \in Nat
  /\ MaxAcknowledged \in Nat

VARIABLES
  execMode,   \* exec_get_mode
  exitCmd,    \* exec_get_exec_command() == ExitCmd
  mainPc,     \* where the main thread is
  ii,         \* its loop index over the tasks
  remainingTime, \* its remaining slices of 5000 ms
  schPc,      \* where the SCH thread is
  schEntry,   \* its position in the schedule table
  schPipes,   \* the destinations it has yet to go through
  schTask,    \* the task it deals with
  schCount,   \* reqTriggers, numTriggers and numCompletes of signalMainAppComplete
  pc,         \* where each task is
  call,       \* the call of OS_QueueGet it is in
  timeout,    \* and what is left of its timeout
  hand,       \* the message it has received
  msIn,       \* the argument of the OS_TaskDelay it is in
  queue       \* the messages in each pipe

mainVars == <<execMode, mainPc, ii, remainingTime>>
schVars == <<schPc, schEntry, schPipes, schTask, schCount>>
taskVars == <<pc, call, timeout, hand, msIn>>
vars == <<ifaceVars, exitCmd, mainVars, schVars, taskVars, queue>>

MainPCs == {"read", "test", "wait", "expired", "idle", "update", "done"}
SchPCs == {"init", "wait", "table", "owner", "mark", "xmit", "next", "spin", "check"}
TaskPCs == {"app", "recv", "expired", "ack", "again",
            "delaying", "polling", "mayProcess", "mayComplete"}

Count == [req : Nat, triggers : Nat, completes : Nat]
NoCount == [req |-> 0, triggers |-> 0, completes |-> 0]

MainTypeOK ==
  /\ execMode \in {"Initialization", "Run", "ExitMode"}
  /\ mainPc \in MainPCs
  /\ ii \in 0..NumTasks
  /\ remainingTime \in Nat \cup {-1}

SchTypeOK ==
  /\ schPc \in SchPCs
  /\ schEntry \in 1..(Len(Table) + 1)
  /\ schPipes \in SUBSET Pipes
  /\ schTask \in Tasks
  /\ schCount \in Count

TaskTypeOK ==
  /\ pc \in [Tasks -> TaskPCs]
  /\ call \in [Tasks -> Call \cup {NoCall}]
  /\ timeout \in [Tasks -> Int]
  /\ hand \in [Tasks -> Mids \cup {NoMid}]
  /\ msIn \in [Tasks -> Nat]

TypeOK ==
  /\ IfaceTypeOK
  /\ MainTypeOK
  /\ SchTypeOK
  /\ TaskTypeOK
  /\ exitCmd \in BOOLEAN
  /\ queue \in [Pipes -> Seq(Mids)]

Init ==
  /\ IfaceInit
  /\ execMode = "Initialization"
  /\ exitCmd = FALSE
  /\ mainPc = "read"    \* initialize has started cFE and waits for it
  /\ ii = 0
  /\ remainingTime = 0
  /\ schPc = "init"
  /\ schEntry = 1
  /\ schPipes = {}
  /\ schTask = 0
  /\ schCount = NoCount
  /\ pc = [t \in Tasks |-> "app"]
  /\ call = [t \in Tasks |-> NoCall]
  /\ timeout = [t \in Tasks |-> 0]
  /\ hand = [t \in Tasks |-> NoMid]
  /\ msIn = [t \in Tasks |-> 0]
  /\ queue = [p \in Pipes |-> <<>>]

------------------------------------------------------------------------------
\* The Trick main thread

GoMain(p) == mainPc' = p

\* The end of initialize or of updateCFS.
MainDone ==
  /\ GoMain("idle")
  /\ execMode' = IF execMode = "Initialization" THEN "Run" ELSE execMode

\* TrickWaitForCFSComplete waits for the SCH thread.
MainRead ==
  /\ mainPc = "read"
  /\ Consume(isMainCompleteTrigger)
  /\ IF PerfectMode
     THEN MainDone /\ UNCHANGED ii
     ELSE GoMain("test") /\ ii' = 0 /\ UNCHANGED execMode
  /\ UNCHANGED <<ipcVars, prevPipeTaskOwner, perfectFDMap, triggerMain, appRunning,
                 exitCmd, remainingTime, schVars, taskVars, queue>>

\* One turn of its loop over the tasks, which skips a task that is quiet ...
MainTestNext ==
  /\ mainPc = "test"
  /\ \/ /\ ii = NumTasks \/ exitCmd
        /\ MainDone
        /\ UNCHANGED ii
     \/ /\ ii < NumTasks /\ ~exitCmd
        /\ Quiet(ii) \/ WaitSlices = 0
        /\ ii' = ii + 1
        /\ UNCHANGED <<mainPc, execMode>>
  /\ UNCHANGED <<ifaceVars, exitCmd, remainingTime, schVars, taskVars, queue>>

\* ... and waits for one that is not.
MainTestWait ==
  /\ mainPc = "test"
  /\ ii < NumTasks /\ ~exitCmd
  /\ ~Quiet(ii) /\ WaitSlices # 0
  /\ Sleep(ii, "main")
  /\ remainingTime' = WaitSlices
  /\ GoMain("wait")
  /\ UNCHANGED <<state, triggeredMIDs, stacks, acknowledgedMIDs, usRemaining,
                 prevPipeTaskOwner, perfectFDMap, eventVars, appRunning,
                 exitCmd, execMode, ii, schVars, taskVars, queue>>

\* Variant: a task that has signalled is taken to be done.
MainWokenNoRetest ==
  /\ mainPc = "wait"
  /\ "main" \notin cv[ii]
  /\ GoMain("test")
  /\ ii' = ii + 1
  /\ UNCHANGED <<ifaceVars, exitCmd, execMode, remainingTime, schVars, taskVars, queue>>
\* A signal (or no reason at all) ends the wait: the same task is tested again.
MainWoken ==
  /\ mainPc = "wait"
  /\ "main" \notin cv[ii]
  /\ GoMain("test")
  /\ UNCHANGED <<ifaceVars, exitCmd, execMode, ii, remainingTime, schVars, taskVars, queue>>

\* 5000 ms pass; the mutex is still to be taken.
MainTimer ==
  /\ mainPc = "wait"
  /\ TimerFires
  /\ Wakeup(ii, "main")
  /\ GoMain("expired")
  /\ UNCHANGED <<state, triggeredMIDs, stacks, acknowledgedMIDs, usRemaining,
                 prevPipeTaskOwner, perfectFDMap, eventVars, appRunning,
                 exitCmd, execMode, ii, remainingTime, schVars, taskVars, queue>>

\* Variant: the wait for good is counted down as well.
MainWaitOnCounting ==
  /\ mainPc = "expired"
  /\ ~exitCmd
  /\ remainingTime # 1
  /\ remainingTime' = remainingTime - 1
  /\ Sleep(ii, "main")
  /\ GoMain("wait")
  /\ UNCHANGED <<state, triggeredMIDs, stacks, acknowledgedMIDs, usRemaining,
                 prevPipeTaskOwner, perfectFDMap, eventVars, appRunning,
                 exitCmd, execMode, ii, schVars, taskVars, queue>>
\* Variant: the time waited does not count.
MainWaitOnForgetting ==
  /\ mainPc = "expired"
  /\ ~exitCmd
  /\ remainingTime # 1
  /\ remainingTime' = remainingTime
  /\ Sleep(ii, "main")
  /\ GoMain("wait")
  /\ UNCHANGED <<state, triggeredMIDs, stacks, acknowledgedMIDs, usRemaining,
                 prevPipeTaskOwner, perfectFDMap, eventVars, appRunning,
                 exitCmd, execMode, ii, schVars, taskVars, queue>>
\* ETIMEDOUT with time left: wait on, without a look at the task.
MainWaitOn ==
  /\ mainPc = "expired"
  /\ ~exitCmd
  /\ remainingTime # 1
  /\ remainingTime' = IF remainingTime = -1 THEN -1 ELSE remainingTime - 1
  /\ Sleep(ii, "main")
  /\ GoMain("wait")
  /\ UNCHANGED <<state, triggeredMIDs, stacks, acknowledgedMIDs, usRemaining,
                 prevPipeTaskOwner, perfectFDMap, eventVars, appRunning,
                 exitCmd, execMode, ii, schVars, taskVars, queue>>

\* Variant: the time is up, and the triggers stay.
MainGiveUpKeeping ==
  /\ mainPc = "expired"
  /\ exitCmd \/ remainingTime = 1
  /\ ii' = ii + 1
  /\ GoMain("test")
  /\ UNCHANGED <<ifaceVars, exitCmd, execMode, remainingTime, schVars, taskVars, queue>>
\* ETIMEDOUT and the time is up (or the simulation has been told to exit): on to
\* the next task.
MainGiveUp ==
  /\ mainPc = "expired"
  /\ \/ exitCmd /\ UNCHANGED triggeredMIDs
     \/ ~exitCmd /\ remainingTime = 1 /\ GiveUp(ii)
  /\ ii' = ii + 1
  /\ GoMain("test")
  /\ UNCHANGED <<state, stacks, acknowledgedMIDs, usRemaining, cv,
                 prevPipeTaskOwner, perfectFDMap, eventVars, appRunning,
                 exitCmd, execMode, remainingTime, schVars, taskVars, queue>>

\* The executive starts the next cycle, or shuts the simulation down.
MainCycle ==
  /\ mainPc = "idle"
  /\ IF exitCmd
     THEN GoMain("done") /\ execMode' = "ExitMode" /\ UNCHANGED ii
     ELSE GoMain("update") /\ ii' = 0 /\ UNCHANGED execMode
  /\ UNCHANGED <<ifaceVars, exitCmd, remainingTime, schVars, taskVars, queue>>

\* updateTaskTimes.
MainUpdate ==
  /\ mainPc = "update"
  /\ ii < NumTasks
  /\ UpdateTaskTime(ii)
  /\ ii' = ii + 1
  /\ UNCHANGED <<prevPipeTaskOwner, perfectFDMap, eventVars, appRunning,
                 exitCmd, mainPc, execMode, remainingTime, schVars, taskVars, queue>>

MainTrigger ==
  /\ mainPc = "update"
  /\ ii = NumTasks
  /\ TriggerMainApp
  /\ GoMain("read")
  /\ UNCHANGED <<ipcVars, prevPipeTaskOwner, perfectFDMap, appRunning,
                 exitCmd, execMode, ii, remainingTime, schVars, taskVars, queue>>

MainStep ==
  \/ MainRead
  \/ MainTestNext
  \/ MainTestWait
  \/ MainWoken
  \/ MainWaitOn
  \/ MainGiveUp
  \/ MainCycle
  \/ MainUpdate
  \/ MainTrigger

------------------------------------------------------------------------------
\* The SCH thread

GoSch(p) == schPc' = p
schMid == Table[schEntry]

\* Variant: init notifies the main thread, and the loop does so again.
SchInitNotifying ==
  /\ schPc = "init"
  /\ NotifyMain
  /\ GoSch("next")
  /\ UNCHANGED <<ipcVars, prevPipeTaskOwner, perfectFDMap, appRunning, exitCmd, mainVars,
                 schEntry, schPipes, schTask, schCount, taskVars, queue>>
\* The end of init.
SchInit ==
  /\ schPc = "init"
  /\ GoSch("next")
  /\ UNCHANGED <<ifaceVars, exitCmd, mainVars, schEntry, schPipes, schTask, schCount,
                 taskVars, queue>>

SchWait ==
  /\ schPc = "wait"
  /\ CFSWaitForTrigger
  /\ GoSch("table")
  /\ schEntry' = 1
  /\ UNCHANGED <<ipcVars, prevPipeTaskOwner, perfectFDMap, appRunning,
                 exitCmd, mainVars, schPipes, schTask, schCount, taskVars, queue>>

HasRoom(mid) ==
  \A p \in Subscribers[mid] : Len(triggeredMIDs[prevPipeTaskOwner[p]]) < MaxTriggered

\* processScheduleTable: the entry is due and is sent, or it is not.
SchTable ==
  /\ schPc = "table"
  /\ IF schEntry > Len(Table)
     THEN GoSch("next") /\ UNCHANGED <<schEntry, schPipes>>
     ELSE \/ /\ HasRoom(schMid)
             /\ GoSch("owner")
             /\ schPipes' = Subscribers[schMid]
             /\ UNCHANGED schEntry
          \/ /\ schEntry' = schEntry + 1
             /\ UNCHANGED <<schPc, schPipes>>
  /\ UNCHANGED <<ifaceVars, exitCmd, mainVars, schTask, schCount, taskVars, queue>>

\* sendScheduledMessage: the owner of the next destination is looked up; after
\* the last destination the message itself is sent.
SchOwner ==
  /\ schPc = "owner"
  /\ \/ /\ schPipes = {}
        /\ schPipes' = Subscribers[schMid]
        /\ GoSch("xmit")
        /\ UNCHANGED schTask
     \/ \E p \in schPipes :
          /\ schTask' = prevPipeTaskOwner[p]
          /\ schPipes' = schPipes \ {p}
          /\ GoSch("mark")
  /\ UNCHANGED <<ifaceVars, exitCmd, mainVars, schEntry, schCount, taskVars, queue>>

SchMark ==
  /\ schPc = "mark"
  /\ MarkPipeAsTriggered(schTask, schMid)
  /\ GoSch("owner")
  /\ UNCHANGED <<state, stacks, acknowledgedMIDs, usRemaining, cv, prevPipeTaskOwner,
                 eventVars, appRunning, exitCmd, mainVars,
                 schEntry, schPipes, schTask, schCount, taskVars, queue>>

\* CFE_SB_TransmitMsg: a pipe that is full does not get the message.
Deliver(p, mid) ==
  queue' = IF Len(queue[p]) < PipeDepth THEN [queue EXCEPT ![p] = Append(@, mid)]
           ELSE queue

SchXmit ==
  /\ schPc = "xmit"
  /\ \/ /\ schPipes = {}
        /\ schEntry' = schEntry + 1
        /\ GoSch("table")
        /\ UNCHANGED <<schPipes, queue>>
     \/ \E p \in schPipes :
          /\ Deliver(p, schMid)
          /\ schPipes' = schPipes \ {p}
          /\ UNCHANGED <<schPc, schEntry>>
  /\ UNCHANGED <<ifaceVars, exitCmd, mainVars, schTask, schCount, taskVars>>

\* Variant: the main thread is told at once, before the tasks have run.
SchNextEarly ==
  /\ schPc = "next"
  /\ perfectFDMap' = <<>>
  /\ NotifyMain
  /\ GoSch("wait")
  /\ UNCHANGED <<ipcVars, prevPipeTaskOwner, triggerMain, appRunning,
                 exitCmd, mainVars, schEntry, schPipes, schTask, schCount,
                 taskVars, queue>>
\* signalMainAppComplete: the next entry of perfectFDMap (entries gone through are
\* dropped at once, the code clears them all at the end), or the main thread is
\* told that all is done.  Outside perfect mode there are no entries.
SchNext ==
  /\ schPc = "next"
  /\ IF perfectFDMap = <<>>
     THEN /\ NotifyMain
          /\ GoSch("wait")
          /\ UNCHANGED <<perfectFDMap, schTask, schCount>>
     ELSE /\ schTask' = Head(perfectFDMap)
          /\ perfectFDMap' = Tail(perfectFDMap)
          /\ schCount' = [NoCount EXCEPT !.req = Len(triggeredMIDs[Head(perfectFDMap)])]
          /\ GoSch("spin")
          /\ UNCHANGED eventVars
  /\ UNCHANGED <<ipcVars, prevPipeTaskOwner, appRunning,
                 exitCmd, mainVars, schEntry, schPipes, taskVars, queue>>

MayTrigger == schCount.triggers # schCount.req

\* The loop until the task has completed as often as it was triggered.
SchSpin ==
  /\ schPc = "spin"
  /\ IF schCount.completes = schCount.req
     THEN GoSch("next") /\ UNCHANGED <<schCount, state, cv>>
     ELSE /\ GoSch("check")
          /\ \/ /\ ReleaseDelay(schTask)
                /\ Release(schTask)
                /\ UNCHANGED schCount
             \/ /\ ReleaseMessage(schTask, MayTrigger)
                /\ Release(schTask)
                /\ schCount' = [schCount EXCEPT !.triggers = @ + 1]
             \/ /\ ReleaseComplete(schTask)
                /\ Release(schTask)
                /\ schCount' = [schCount EXCEPT !.completes = @ + 1]
             \/ /\ ~ReleaseDelay(schTask)
                /\ ~ReleaseMessage(schTask, MayTrigger)
                /\ ~ReleaseComplete(schTask)
                /\ UNCHANGED <<schCount, state, cv>>
  /\ UNCHANGED <<triggeredMIDs, stacks, acknowledgedMIDs, usRemaining,
                 prevPipeTaskOwner, perfectFDMap, eventVars, appRunning,
                 exitCmd, mainVars, schEntry, schPipes, schTask, taskVars, queue>>

\* Variant: nobody looks whether the app has been stopped.
SchCheckNothing ==
  /\ schPc = "check"
  /\ GoSch("spin")
  /\ UNCHANGED <<ifaceVars, exitCmd, mainVars, schEntry, schPipes, schTask, schCount,
                 taskVars, queue>>
\* ... or its app has been stopped.
SchCheck ==
  /\ schPc = "check"
  /\ GoSch("spin")
  /\ IF appRunning[schTask]
     THEN UNCHANGED <<state, triggeredMIDs, schCount>>
     ELSE /\ WriteOff(schTask)
          /\ schCount' = [schCount EXCEPT !.completes = schCount.req]
  /\ UNCHANGED <<stacks, acknowledgedMIDs, usRemaining, cv,
                 prevPipeTaskOwner, perfectFDMap, eventVars, appRunning,
                 exitCmd, mainVars, schEntry, schPipes, schTask, taskVars, queue>>

SchStep ==
  \/ SchInit
  \/ SchWait
  \/ SchTable
  \/ SchOwner
  \/ SchMark
  \/ SchXmit
  \/ SchNext
  \/ SchSpin
  \/ SchCheck

------------------------------------------------------------------------------
\* A task of an app

GoTask(t, p) == pc' = [pc EXCEPT ![t] = p]

\* OS_QueueGet begins, or goes round its loop: markPipeAsComplete.
BeginReceive(t, c) ==
  /\ SetPipeOwner(c.pipe, t)
  /\ MarkPipeAsComplete(t, c.site)
  /\ GoTask(t, IF PerfectMode /\ CompletesSite(t, c.site) THEN "mayComplete" ELSE "recv")

\* During initialization a finite timeout is one wait.
TaskQueueGet(t, c) ==
  /\ pc[t] = "app"
  /\ BeginReceive(t, c)
  /\ call' = [call EXCEPT ![t] = c]
  /\ timeout' = [timeout EXCEPT ![t] =
       IF execMode = "Initialization" /\ c.timeout > 0 THEN 1 ELSE c.timeout]
  /\ UNCHANGED <<perfectFDMap, eventVars, appRunning,
                 exitCmd, mainVars, schVars, hand, msIn, queue>>

TaskGetAgain(t) ==
  /\ pc[t] = "again"
  /\ BeginReceive(t, call[t])
  /\ UNCHANGED <<perfectFDMap, eventVars, appRunning,
                 exitCmd, mainVars, schVars, call, timeout, hand, msIn, queue>>

\* The queue has a message.
TaskReceive(t) ==
  /\ pc[t] = "recv"
  /\ queue[call[t].pipe] # <<>>
  /\ hand' = [hand EXCEPT ![t] = Head(queue[call[t].pipe])]
  /\ queue' = [queue EXCEPT ![call[t].pipe] = Tail(@)]
  /\ GoTask(t, "ack")
  /\ UNCHANGED <<ifaceVars, exitCmd, mainVars, schVars, call, timeout, msIn>>

\* The deadline of a wait on an empty queue passes; one may come in still.
TaskExpire(t) ==
  /\ pc[t] = "recv"
  /\ queue[call[t].pipe] = <<>>
  /\ timeout[t] # OS_PEND
  /\ GoTask(t, "expired")
  /\ UNCHANGED <<ifaceVars, exitCmd, mainVars, schVars, call, timeout, hand, msIn, queue>>

\* OS_QueueGet returns with no message.
TaskEmpty(t) ==
  /\ pc[t] = "expired"
  /\ timeout[t] <= 1
  /\ GoTask(t, "app")
  /\ call' = [call EXCEPT ![t] = NoCall]
  /\ timeout' = [timeout EXCEPT ![t] = 0]
  /\ UNCHANGED <<ifaceVars, exitCmd, mainVars, schVars, hand, msIn, queue>>

\* OS_TaskDelay: outside the run of the simulation it only sleeps by the clock.
BeginDelay(t, ms, waitingAt, after) ==
  \/ /\ execMode # "Run"
     /\ GoTask(t, after)
     /\ UNCHANGED <<ipcVars, msIn>>
  \/ /\ execMode = "Run"
     /\ AddTaskDelaySkipped(t)
     /\ GoTask(t, after)
     /\ UNCHANGED msIn
  \/ /\ execMode = "Run"
     /\ AddTaskDelay(t, ms)
     /\ GoTask(t, waitingAt)
     /\ msIn' = [msIn EXCEPT ![t] = ms]

\* OS_QueueGet has a period of its timeout left and passes it in a delay.
TaskPoll(t) ==
  /\ pc[t] = "expired"
  /\ timeout[t] > 1
  /\ timeout' = [timeout EXCEPT ![t] = @ - 1]
  /\ BeginDelay(t, 0, "polling", "again")
  /\ UNCHANGED <<prevPipeTaskOwner, perfectFDMap, eventVars, appRunning,
                 exitCmd, mainVars, schVars, call, hand, queue>>

TaskDelay(t, ms) ==
  /\ pc[t] = "app"
  /\ BeginDelay(t, ms, "delaying", "app")
  /\ UNCHANGED <<prevPipeTaskOwner, perfectFDMap, eventVars, appRunning,
                 exitCmd, mainVars, schVars, call, timeout, hand, queue>>

\* OS_QueueGet has a message and acknowledges its trigger.
TaskAck(t) ==
  /\ pc[t] = "ack"
  /\ Len(acknowledgedMIDs[t]) < MaxAcknowledged
  /\ AcknowledgePipeTrigger(t, hand[t], call[t].site)
  /\ GoTask(t, IF PerfectMode /\ Contains(triggeredMIDs[t], hand[t])
               THEN "mayProcess" ELSE "app")
  /\ hand' = [hand EXCEPT ![t] = NoMid]
  /\ call' = [call EXCEPT ![t] = NoCall]
  /\ timeout' = [timeout EXCEPT ![t] = 0]
  /\ UNCHANGED <<prevPipeTaskOwner, perfectFDMap, eventVars, appRunning,
                 exitCmd, mainVars, schVars, msIn, queue>>

\* The task holds its mutex in a waiting loop.
Awake(t) == "task" \notin cv[t]

TaskKeepWaiting(t) ==
  /\ pc[t] \in {"delaying", "polling", "mayProcess", "mayComplete"}
  /\ Awake(t)
  /\ KeepWaiting(t)
  /\ UNCHANGED <<prevPipeTaskOwner, perfectFDMap, eventVars, appRunning,
                 exitCmd, mainVars, schVars, taskVars, queue>>

TaskContinue(t) ==
  /\ Awake(t)
  /\ \/ /\ pc[t] \in {"delaying", "polling"}
        /\ ContinueAfterDelay(t)
        /\ GoTask(t, IF pc[t] = "delaying" THEN "app" ELSE "again")
        /\ msIn' = [msIn EXCEPT ![t] = 0]
     \/ /\ pc[t] \in {"mayProcess", "mayComplete"}
        /\ Continue(t)
        /\ GoTask(t, IF pc[t] = "mayProcess" THEN "app" ELSE "recv")
        /\ UNCHANGED msIn
  /\ UNCHANGED <<prevPipeTaskOwner, perfectFDMap, eventVars, appRunning,
                 exitCmd, mainVars, schVars, call, timeout, hand, queue>>

\* What the task does by itself; which call an app makes next, and when, is its
\* own affair.
TaskStep(t) ==
  \/ \E c \in Calls[t] : TaskQueueGet(t, c)
  \/ \E ms \in Delays[t] : TaskDelay(t, ms)
  \/ TaskGetAgain(t)
  \/ TaskReceive(t)
  \/ TaskExpire(t)
  \/ TaskEmpty(t)
  \/ TaskPoll(t)
  \/ TaskAck(t)
  \/ TaskKeepWaiting(t)
  \/ TaskContinue(t)

------------------------------------------------------------------------------
\* The environment

\* A wait on a condition variable ends for no reason.
Spurious(t, thread) ==
  /\ SpuriousWakeups
  /\ Wakeup(t, thread)
  /\ UNCHANGED <<state, triggeredMIDs, stacks, acknowledgedMIDs, usRemaining,
                 prevPipeTaskOwner, perfectFDMap, eventVars, appRunning,
                 exitCmd, mainVars, schVars, taskVars, queue>>

\* Another app or the ground sends a message (the bound: one of a kind in a pipe
\* at a time).
Publish(p, mid) ==
  /\ ~Contains(queue[p], mid)
  /\ Deliver(p, mid)
  /\ UNCHANGED <<ifaceVars, exitCmd, mainVars, schVars, taskVars>>

\* cFE stops an app.
StopApp(t) ==
  /\ t \in MayStop
  /\ appRunning[t]
  /\ appRunning' = [appRunning EXCEPT ![t] = FALSE]
  /\ UNCHANGED <<ipcVars, prevPipeTaskOwner, perfectFDMap, eventVars,
                 exitCmd, mainVars, schVars, taskVars, queue>>

Exit ==
  /\ MayExit
  /\ ~exitCmd
  /\ exitCmd' = TRUE
  /\ UNCHANGED <<ifaceVars, mainVars, schVars, taskVars, queue>>

Environment ==
  \/ MainTimer
  \/ \E t \in Tasks, thread \in {"main", "task"} : Spurious(t, thread)
  \/ \E pm \in Unsolicited : Publish(pm[1], pm[2])
  \/ \E t \in Tasks : StopApp(t)
  \/ Exit

------------------------------------------------------------------------------
Next ==
  \/ MainStep
  \/ SchStep
  \/ \E t \in Tasks : TaskStep(t)
  \/ Environment

Spec == Init /\ [][Next]_vars

\* The threads of the simulation get the processor; nobody owes the app of a
\* stopped task anything.
MainFairness == WF_vars(MainStep)
SchFairness == WF_vars(SchStep)
TaskFairness == \A t \in Tasks : WF_vars(appRunning[t] /\ TaskStep(t))

\* ... and every app goes on calling OSAL.
LiveSpec == Spec /\ MainFairness /\ SchFairness /\ TaskFairness

\* ... or an app may hang: then it takes the clock to go on.
HangSpec == Spec /\ MainFairness /\ SchFairness /\ WF_vars(MainTimer)

------------------------------------------------------------------------------
\* The hand-over between the main thread and the SCH thread

\* Exactly one of them works at a time: the right to work is with the main thread,
\* with the SCH thread or in one of the eventfds, and no write to an eventfd is
\* merged with another.
OneBaton ==
  isMainCompleteTrigger + triggerMain
    + (IF mainPc = "read" THEN 0 ELSE 1) + (IF schPc = "wait" THEN 0 ELSE 1) = 1

\* Simulated time stands still until the apps have done what the scheduler told
\* them: while the executive runs its other jobs, each running app is in
\* OS_TaskDelay or has finished every message the scheduler sent it (its last
\* call site included, unless the main thread may give up on it).
FrameBarrier ==
  mainPc = "idle" /\ ~exitCmd /\ WaitSlices # 0 =>
    \A t \in Tasks : appRunning[t] =>
      \/ state[t] = "TASK_DELAY"
      \/ /\ triggeredMIDs[t] = <<>>
         /\ PerfectMode \/ WaitSlices = -1 => stacks[t] = <<>>

\* The main thread never sleeps on a task that has nothing left to do.
NoMissedCompletion ==
  mainPc = "wait" /\ "main" \in cv[ii] => ~Quiet(ii)

\* The cycle of the simulation always comes to its end.
FrameCompletes == mainPc \notin {"idle", "done"} ~> mainPc \in {"idle", "done"}

------------------------------------------------------------------------------
\* Triggers

Positions(s, m) == {i \in DOMAIN s : s[i] = m}
Occurrences(s, m) == Cardinality(Positions(s, m))
OwnedBy(t, S) == {p \in S : prevPipeTaskOwner[p] = t}

\* Messages m to task t that are marked as triggered and not delivered yet.
InFlight(t, m) ==
  IF schPc \notin {"owner", "mark", "xmit"} \/ schMid # m THEN 0
  ELSE IF schPc = "xmit" THEN Cardinality(OwnedBy(t, schPipes))
  ELSE Cardinality(OwnedBy(t, Subscribers[m] \ schPipes))
         - (IF schPc = "mark" /\ schTask = t THEN 1 ELSE 0)

\* Messages m in the pipes of t, by their place.
Queued(t, m) == UNION {{p} \X Positions(queue[p], m) : p \in OwnedBy(t, Pipes)}

\* A trigger is accounted for all the time: each one noted for a task is a
\* message on its way to the task, in one of its pipes, just received or
\* acknowledged.
TriggerAccounting ==
  \A t \in Tasks, m \in Range(Table) : appRunning[t] =>
    Occurrences(triggeredMIDs[t], m) =
      InFlight(t, m)
      + Cardinality(Queued(t, m))
      + (IF hand[t] = m THEN 1 ELSE 0)
      + Occurrences(acknowledgedMIDs[t], m)

\* A call site is listed once at most: what it received last is finished before
\* it can receive again.
SitesDistinct == \A t \in Tasks : IsInjective(stacks[t])

------------------------------------------------------------------------------
\* Delays

\* The main thread ends the delay of t in this step.
ReleasedByMain(t) == mainPc = "update" /\ ii = t

\* Only simulated time ends the delay of a running app, and only when it is due.
DelayEndsInTime ==
  [][\A t \in Tasks :
       state[t] = "TASK_DELAY" /\ state'[t] # "TASK_DELAY" /\ appRunning[t]
         => ReleasedByMain(t) /\ usRemaining[t] <= CycleTics]_vars

\* A delay lasts as long as the app has asked for.
DelayHonoured ==
  [][\A t \in Tasks :
       state[t] = "TASK_DELAY" /\ state'[t] = "TASK_CONTINUE" /\ ReleasedByMain(t)
         => msIn[t] - usRemaining[t] + CycleTics >= msIn[t] * TicsPerMs]_vars

\* Something else than simulated time ends the delay of a running app only in perfect
\* scheduling, and only when the SCH thread has come to a task that still has something
\* of the scheduler's to do: a message, or the call site that received it.
DelayEndsForCause ==
  [][\A t \in Tasks :
       state[t] = "TASK_DELAY" /\ state'[t] # "TASK_DELAY" /\ appRunning[t]
         => \/ ReleasedByMain(t) /\ usRemaining[t] <= CycleTics
            \/ PerfectMode /\ schPc = "spin" /\ schTask = t /\ ~NothingToDo(t)]_vars

\* A delayed app gets on with it in the end.
DelayEnds == \A t \in Tasks : state[t] = "TASK_DELAY" ~> state[t] # "TASK_DELAY"

------------------------------------------------------------------------------
\* Perfect scheduling

\* The task works on a message of the scheduler.
Working(t) == stacks[t] # <<>> /\ pc[t] \notin {"mayProcess", "mayComplete"}

\* One CPU: only the task the SCH thread is waiting for works, and nobody of a
\* higher priority has work to do.
OneAtATime ==
  \A t \in Tasks : Working(t) /\ appRunning[t] =>
    /\ schPc \in {"spin", "check"} /\ schTask = t
    /\ \A u \in Tasks : appRunning[u] /\ Prio[u] < Prio[t] => triggeredMIDs[u] = <<>>
==============================================================================
