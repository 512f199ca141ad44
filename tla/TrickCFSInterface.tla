-------------------------- MODULE TrickCFSInterface --------------------------
(***************************************************************************)
(* The shared state of TrickCFSInterface (models/TrickCFSInterface.cpp),   *)
(* through which the Trick main thread, the SCH_trick thread and the tasks *)
(* of the cFS apps synchronise, and one action per method or, where a      *)
(* method gives up its lock, per locked section.  The actions say what a   *)
(* method does to this state; TrickCFSSim says which thread calls what.    *)
(*                                                                         *)
(* Per task there is a TaskIPC: a state, the messages the scheduler sent   *)
(* to the task and it has not finished (triggeredMIDs), the call sites     *)
(* that received one (stacks, recognised by their back trace), the         *)
(* messages received but not finished (acknowledgedMIDs), and a mutex with *)
(* a condition variable.  Sections under that mutex are single steps.      *)
(***************************************************************************)
EXTENDS Integers, Sequences, SequencesExt

CONSTANTS
  NumTasks,    \* CFE_ES_Global.RegisteredTasks; the tasks are 0..NumTasks-1
  Prio,        \* priority of each task's app (a smaller number runs first)
  Pipes,       \* software bus pipes
  Creator,     \* the task that creates each pipe
  Mids,        \* message ids
  NoMid,       \* what back() of an empty list of ids yields
  Sites,       \* call sites of OS_QueueGet, as a back trace tells them apart
  PerfectMode, \* perfectScheduleMode
  CycleTics    \* tics of simulated time between two calls of updateCFS

Tasks == 0..(NumTasks - 1)

ASSUME InterfaceAssumption ==
  /\ NumTasks \in Nat \ {0}
  /\ Prio \in [Tasks -> Nat]
  /\ Creator \in [Pipes -> Tasks]
  /\ NoMid \notin Mids
  /\ PerfectMode \in BOOLEAN
  /\ CycleTics \in Nat \ {0}

VARIABLES
  state,                 \* TaskIPC::state
  triggeredMIDs,
  stacks,
  acknowledgedMIDs,
  usRemaining,
  cv,                    \* the threads asleep on each task's condition variable
  prevPipeTaskOwner,
  perfectFDMap,          \* the tasks to be scheduled, in the order of the multimap
  isMainCompleteTrigger, \* counter of the eventfd read by the main thread
  triggerMain,           \* counter of the eventfd read by the SCH thread
  appRunning             \* AppState == CFE_ES_AppState_RUNNING, kept by cFE

ipcVars == <<state, triggeredMIDs, stacks, acknowledgedMIDs, usRemaining, cv>>
eventVars == <<isMainCompleteTrigger, triggerMain>>
ifaceVars == <<ipcVars, prevPipeTaskOwner, perfectFDMap, eventVars, appRunning>>

TaskState == {"NONE", "TASK_DELAY", "MSG_RCV", "TASK_RUNNING", "TASK_COMPLETE",
              "TASK_CONTINUE"}

IpcTypeOK ==
  /\ state \in [Tasks -> TaskState]
  /\ triggeredMIDs \in [Tasks -> Seq(Mids)]
  /\ stacks \in [Tasks -> Seq(Sites)]
  /\ acknowledgedMIDs \in [Tasks -> Seq(Mids)]
  /\ usRemaining \in [Tasks -> Int]
  /\ cv \in [Tasks -> SUBSET {"main", "task"}]

IfaceTypeOK ==
  /\ IpcTypeOK
  /\ prevPipeTaskOwner \in [Pipes -> Tasks]
  /\ perfectFDMap \in Seq(Tasks)
  /\ isMainCompleteTrigger \in Nat
  /\ triggerMain \in Nat
  /\ appRunning \in [Tasks -> BOOLEAN]

IfaceInit ==
  /\ state = [t \in Tasks |-> "NONE"]
  /\ triggeredMIDs = [t \in Tasks |-> <<>>]
  /\ stacks = [t \in Tasks |-> <<>>]
  /\ acknowledgedMIDs = [t \in Tasks |-> <<>>]
  /\ usRemaining = [t \in Tasks |-> -1]
  /\ cv = [t \in Tasks |-> {}]
  /\ prevPipeTaskOwner = Creator
  /\ perfectFDMap = <<>>
  /\ isMainCompleteTrigger = 0
  /\ triggerMain = 0
  /\ appRunning = [t \in Tasks |-> TRUE]

------------------------------------------------------------------------------
\* Condition variables and eventfds

\* pthread_cond_signal wakes one of the threads asleep, if there is one.
Signal(t) ==
  \/ cv[t] = {} /\ UNCHANGED cv
  \/ \E thread \in cv[t] : cv' = [cv EXCEPT ![t] = @ \ {thread}]

Sleep(t, thread) == cv' = [cv EXCEPT ![t] = @ \cup {thread}]

\* The wait of thread on t's condition variable ends with no signal: it is
\* spurious, or its deadline has passed.
Wakeup(t, thread) ==
  /\ thread \in cv[t]
  /\ cv' = [cv EXCEPT ![t] = @ \ {thread}]

SetState(t, s) == state' = [state EXCEPT ![t] = s]

------------------------------------------------------------------------------
\* Methods called by the tasks of the apps

\* The waiting loops of addTaskDelay, acknowledgePipeTrigger and
\* markPipeAsComplete end on this condition.
MayContinue(t) == state[t] = "TASK_CONTINUE" \/ ~appRunning[t]

KeepWaiting(t) ==
  /\ ~MayContinue(t)
  /\ Sleep(t, "task")
  /\ UNCHANGED <<state, triggeredMIDs, stacks, acknowledgedMIDs, usRemaining>>

\* The end of acknowledgePipeTrigger and of markPipeAsComplete.
Continue(t) ==
  /\ MayContinue(t)
  /\ SetState(t, "TASK_RUNNING")
  /\ Signal(t)
  /\ UNCHANGED <<triggeredMIDs, stacks, acknowledgedMIDs, usRemaining>>

\* The end of addTaskDelay, which signals nobody.
ContinueAfterDelay(t) ==
  /\ MayContinue(t)
  /\ SetState(t, "TASK_RUNNING")
  /\ UNCHANGED <<triggeredMIDs, stacks, acknowledgedMIDs, usRemaining, cv>>

\* addTaskDelay with something to do first: no delay at all.
SkipsDelay(t) == PerfectMode /\ triggeredMIDs[t] # <<>>

AddTaskDelaySkipped(t) ==
  /\ SkipsDelay(t)
  /\ usRemaining' = [usRemaining EXCEPT ![t] = -1]
  /\ UNCHANGED <<state, triggeredMIDs, stacks, acknowledgedMIDs, cv>>

\* addTaskDelay up to its waiting loop.  The milliseconds go into usRemaining as
\* they are.
AddTaskDelay(t, msIn) ==
  /\ ~SkipsDelay(t)
  /\ SetState(t, "TASK_DELAY")
  /\ usRemaining' = [usRemaining EXCEPT ![t] = msIn]
  /\ Signal(t)
  /\ UNCHANGED <<triggeredMIDs, stacks, acknowledgedMIDs>>

\* acknowledgePipeTrigger (in perfect mode up to its waiting loop): a message
\* from the scheduler is noted with the call site that received it.
AcknowledgePipeTrigger(t, mid, site) ==
  /\ IF Contains(triggeredMIDs[t], mid)
     THEN /\ stacks' = [stacks EXCEPT ![t] = Append(@, site)]
          /\ acknowledgedMIDs' = [acknowledgedMIDs EXCEPT ![t] = Append(@, mid)]
          /\ SetState(t, IF PerfectMode THEN "MSG_RCV" ELSE "TASK_RUNNING")
     ELSE /\ UNCHANGED <<stacks, acknowledgedMIDs>>
          /\ SetState(t, "TASK_RUNNING")
  /\ Signal(t)
  /\ UNCHANGED <<triggeredMIDs, usRemaining>>

Back(s) == IF s = <<>> THEN NoMid ELSE Last(s)

\* Variant: the acknowledged message is forgotten, its trigger is not.
FinishMessageKeepingTrigger(t) ==
  LET mid == Back(acknowledgedMIDs[t]) IN
  IF stacks[t] # <<>> /\ Contains(triggeredMIDs[t], mid)
  THEN /\ acknowledgedMIDs' = [acknowledgedMIDs EXCEPT ![t] = Front(@)]
       /\ UNCHANGED triggeredMIDs
  ELSE UNCHANGED <<triggeredMIDs, acknowledgedMIDs>>
\* Any poll ends the message acknowledged last ...
FinishMessage(t) ==
  LET mid == Back(acknowledgedMIDs[t]) IN
  IF stacks[t] # <<>> /\ Contains(triggeredMIDs[t], mid)
  THEN /\ triggeredMIDs' = [triggeredMIDs EXCEPT ![t] = RemoveFirst(@, mid)]
       /\ acknowledgedMIDs' = [acknowledgedMIDs EXCEPT ![t] = Front(@)]
  ELSE UNCHANGED <<triggeredMIDs, acknowledgedMIDs>>

\* Variant: the call site stays listed.
FinishSiteKeepingIt(t, site) == UNCHANGED stacks
\* ... and a poll from a call site that received one ends that call site's work.
FinishSite(t, site) == stacks' = [stacks EXCEPT ![t] = RemoveFirst(@, site)]

CompletesSite(t, site) == Contains(stacks[t], site)

\* Variant: the main thread is not told.
MarkPipeAsCompleteSilently(t, site) ==
  /\ FinishMessage(t)
  /\ FinishSite(t, site)
  /\ SetState(t, IF CompletesSite(t, site) THEN "TASK_COMPLETE" ELSE "TASK_RUNNING")
  /\ UNCHANGED <<usRemaining, cv>>
\* markPipeAsComplete (in perfect mode up to its waiting loop).
MarkPipeAsComplete(t, site) ==
  /\ FinishMessage(t)
  /\ FinishSite(t, site)
  /\ SetState(t, IF CompletesSite(t, site) THEN "TASK_COMPLETE" ELSE "TASK_RUNNING")
  /\ Signal(t)
  /\ UNCHANGED usRemaining

SetPipeOwner(p, t) == prevPipeTaskOwner' = [prevPipeTaskOwner EXCEPT ![p] = t]

------------------------------------------------------------------------------
\* Methods called by the Trick main thread

\* Variant: the delay runs out one cycle early.
CountDownEarly(us) == us - 2 * CycleTics
CountDown(us) == us - CycleTics

\* Variant: the task is not told that its delay is over.
UpdateTaskTimeSilently(t) ==
  LET left == CountDown(usRemaining[t]) IN
  /\ IF state[t] # "TASK_DELAY"
     THEN UNCHANGED <<state, usRemaining>>
     ELSE IF left > 0
     THEN usRemaining' = [usRemaining EXCEPT ![t] = left] /\ UNCHANGED state
     ELSE /\ usRemaining' = [usRemaining EXCEPT ![t] = -1]
          /\ SetState(t, "TASK_CONTINUE")
  /\ UNCHANGED <<triggeredMIDs, stacks, acknowledgedMIDs, cv>>
\* One turn of updateTaskTimes.
UpdateTaskTime(t) ==
  LET left == CountDown(usRemaining[t]) IN
  /\ IF state[t] # "TASK_DELAY"
     THEN UNCHANGED <<state, usRemaining, cv>>
     ELSE IF left > 0
     THEN /\ usRemaining' = [usRemaining EXCEPT ![t] = left]
          /\ UNCHANGED <<state, cv>>
     ELSE /\ usRemaining' = [usRemaining EXCEPT ![t] = -1]
          /\ SetState(t, "TASK_CONTINUE")
          /\ Signal(t)
  /\ UNCHANGED <<triggeredMIDs, stacks, acknowledgedMIDs>>

TriggerMainApp ==
  /\ triggerMain' = triggerMain + 1
  /\ UNCHANGED isMainCompleteTrigger

\* Nothing that the scheduler sent to t is left to be done.
NothingToDo(t) == triggeredMIDs[t] = <<>> /\ stacks[t] = <<>>

\* TrickWaitForCFSComplete does not wait for t.
Quiet(t) == state[t] = "TASK_DELAY" \/ NothingToDo(t)

\* TrickWaitForCFSComplete gives up on t.
GiveUp(t) == triggeredMIDs' = [triggeredMIDs EXCEPT ![t] = <<>>]

------------------------------------------------------------------------------
\* Methods called by the SCH thread

\* read() of an eventfd blocks while the counter is 0, and resets it.
Consume(counter) == counter > 0 /\ counter' = 0

CFSWaitForTrigger ==
  /\ Consume(triggerMain)
  /\ UNCHANGED isMainCompleteTrigger

\* Variant: a task is queued behind all that are queued already.
InsertAtEnd(t) == perfectFDMap' = Append(perfectFDMap, t)
\* multimap::insert: behind the entries of the same priority.
Insert(t) ==
  \E i \in 1..(Len(perfectFDMap) + 1) :
    /\ \A j \in 1..(i - 1) : Prio[perfectFDMap[j]] <= Prio[t]
    /\ i <= Len(perfectFDMap) => Prio[perfectFDMap[i]] > Prio[t]
    /\ perfectFDMap' = InsertAt(perfectFDMap, i, t)

\* markPipeAsTriggered, once it has found the task that owns the pipe.
MarkPipeAsTriggered(t, mid) ==
  IF appRunning[t]
  THEN /\ triggeredMIDs' = [triggeredMIDs EXCEPT ![t] = Append(@, mid)]
       /\ IF PerfectMode THEN Insert(t) ELSE UNCHANGED perfectFDMap
  ELSE UNCHANGED <<triggeredMIDs, perfectFDMap>>

\* signalMainAppComplete, the switch on the state of task t: what it may do and
\* how it counts, given how many triggers it may still release.
ReleaseDelay(t) == state[t] = "TASK_DELAY"
ReleaseMessage(t, mayTrigger) == state[t] = "MSG_RCV" /\ mayTrigger
ReleaseComplete(t) == state[t] = "TASK_COMPLETE"

Release(t) ==
  /\ SetState(t, "TASK_CONTINUE")
  /\ Signal(t)

\* signalMainAppComplete, the application has been stopped: it is written off,
\* with only the lock of CFE_ES held.
WriteOff(t) ==
  /\ SetState(t, "TASK_COMPLETE")
  /\ triggeredMIDs' = [triggeredMIDs EXCEPT ![t] = <<>>]

NotifyMain ==
  /\ isMainCompleteTrigger' = isMainCompleteTrigger + 1
  /\ UNCHANGED triggerMain
==============================================================================
