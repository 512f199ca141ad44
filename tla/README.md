# TrickCFS in TLA+

TrickCFS runs NASA's core Flight System (cFS) inside a Trick simulation: the
cFS apps run as threads of the simulation, and Trick, not the wall clock, says
how time passes for them. These modules model the part that makes this work,
the synchronisation between Trick and the apps, together with the message
queues and the schedule tables it rests on, and the life of such a process from
its boot through apps that come and go to its reset or shutdown.

## 1. The system

### Components

| component (source) | state | operations |
| --- | --- | --- |
| **TrickCFSQueue** (`models/TrickCFSQueue.*`): the ring buffer behind each OSAL queue | `isEnabled`, `messages`, `maxMsgs`, `maxSize`, `ringBufferIdx`, `numMessages`, a mutex, a condition variable | `open`, `close`, `receive`, `timedreceive`, `send` |
| **TrickCFSInterface** (`models/TrickCFSInterface.*`): where Trick, SCH_trick and the tasks of the apps meet | per task a `TaskIPC` (state, `triggeredMIDs`, `stacks`, `acknowledgedMIDs`, `usRemaining`, mutex, condition variable), owners of pipes, two eventfds, `perfectFDMap` | `initialize`, `updateCFS`, `updateTaskTimes`, `addTaskDelay`, `acknowledgePipeTrigger`, `markPipeAsComplete`, `markPipeAsTriggered`, `signalMainAppComplete`, `CFSWaitForTrigger`, `triggerMainApp`, `TrickWaitForCFSComplete` |
| **OSAL queue calls** (`osal/.../os-impl-queues.c`) | none of their own | `OS_QueueGet` (wait for good, poll, timeout counted in scheduler periods), `OS_QueuePut`, create, delete |
| **OSAL tasks** (`osal/.../os-impl-tasks.c`) | none of their own | `OS_TaskDelay`, thread creation, `OS_PriorityRemap` |
| **OSAL local time** (`os-impl-posix-gettime.c`) | `initial_time_tag`, to which Trick's time tics are added | `OS_GetLocalTime`, `OS_SetLocalTime` |
| **SCH_trick** (`apps/sch_trick/.../BaseTrickCFSScheduler.*`) | exit status | `mainLoop`: init, then one pass per trigger; `sendScheduledMessage` |
| **SchLabTrickCFSScheduler** | the live table `State`, `userAddedCmds`, `schedRateInMicros` | `addScheduledCmd`, `initTables`, `processScheduleTable` |
| **TrickCFSScheduler** (for the full SCH app) | `nextSlotNumber`, `simTimeSecs`, `scheduleTable`, `messageTable` | `init`, `processScheduleTable` (`updateTimeTics`, `processNextSlot`, `processNextEntry`), validation of the tables |
| **PSP, BSP** (`cfe_psp_start.c`, `cfe_psp_support.c`, `cfe_psp_exception.c`, `bsp_start.c`) | boot record and reserved memory (they outlive the process), `ShutdownReq`, the set of signals looked for, the exception log | `psp_main_wrapper`, `CFE_PSP_Restart`, `CFE_PSP_Panic`, `OS_Application_Run`, `OS_Application_Cycle`, `OS_shutdown` |
| **simulation object** (`default_trick_cfs.sm`) | configuration | the jobs `initialize`, `updateCFS` and, at the end, `OS_shutdown` |

### How they interact

Once a cycle Trick's main thread runs `updateCFS`. It counts the delays of the
tasks down (`updateTaskTimes`), writes to the eventfd `triggerMain`
(`triggerMainApp`) and blocks on the other one, `isMainCompleteTrigger`. The
thread of SCH_trick wakes up, walks its schedule table and, for each message
due, notes a trigger with every task that listens to it (`markPipeAsTriggered`)
and hands the message to the software bus, which puts it into pipes, that is
into `TrickCFSQueue`s. Then `signalMainAppComplete` writes to
`isMainCompleteTrigger`. In *perfect scheduling* it first lets the triggered
tasks run one by one in the order of their priorities; otherwise they are
running already. Back in the main thread `TrickWaitForCFSComplete` waits task by
task until each has finished what it was triggered for, is in `OS_TaskDelay`, or
(if a limit is set) has been given up on.

A task tells of its progress only through its OSAL calls. `OS_QueueGet` first
calls `markPipeAsComplete`: whatever it worked on must be finished, since it
asks for more. When it has a message it calls `acknowledgePipeTrigger`, which
moves the message from *triggered* to *acknowledged* and notes the back trace of
the call. `OS_TaskDelay` calls `addTaskDelay` and sleeps until simulated time
has passed.

The interface knows tasks only as slots of OSAL's table. cFE creates and deletes
tasks and pipes while frames go by; nobody tells the interface, whose `TaskIPC`s
and pipe owners stay as they were for whoever gets the slot or the pipe next.
The process is started by `psp_main_wrapper` inside Trick's initialization,
which sets the clock, starts cFE and does not wait for it. It ends when Trick
runs the shutdown job, when the scheduler app fails (`exec_terminate` from its
thread), or when cFS asks for a reset: `CFE_PSP_Restart` leaves a boot record
for the next process, asks the main thread to shut down, delays, and aborts.

### What is hard here, and what should be true

- The main thread and the SCH thread hand the right to work to and fro by
  eventfds, whose writes merge (`OneBaton`).
- Simulated time must stand still until the triggered apps are done, although
  the main thread watches them one by one, by condition variables that wake up
  spuriously and by timeouts (`FrameBarrier`, `FrameCompletes`,
  `NoMissedCompletion`).
- Triggers, messages and acknowledgements are kept in separate places and must
  agree (`TriggerAccounting`, `SitesDistinct`).
- Delays are in simulated time, counted by another thread (`DelayEndsInTime`,
  `DelayEnds`, `DelayHonoured`).
- Perfect scheduling must serialise threads the operating system runs in
  parallel, and get over a stopped app (`OneAtATime`, `FrameCompletes`).
- Queues test `isEnabled` and `maxSize` outside their lock (`NoStaleAccess`,
  `FitsBuffer`), wrap indices by hand (`RingWindow`, `ImplementsFifo`,
  `NeverImproper`) and signal one receiver per message (`NoLostWakeup`,
  `SleeperServed`).
- A schedule table is counters that must not drift (`ImplementsTimetable`), and
  is filled from two sources (`CommandsPlaced`). SCH's slots come from simulated
  time (`SlotsOnTime`), one failing entry leaves the rest of its slot, and the
  tables are tested twice, at loading and when used (`NeverCorrupt`).
- Slots, pipes and their owners are used again by other apps (`PipeOwners`,
  `TriggersOfOwn`), and the main thread goes through slots by a count of tasks
  that changes under it (`WatchedBarrier`, `EveryTaskWatched`).
- Whatever fails or hangs, a cycle must end or the process must (`FrameEnds`,
  `ProcessEnds`), and the next process must start the way that was asked for
  (`NextBootAsAsked`).
- The clock passes through three units and 32 bits (`LocalTimeFollows`,
  `LocalTimeMonotone`), priorities through a scale turned upside down
  (`ThreadsOrdered`).

`PROJECT.json` lists the hazards one by one, each at its line, with the
properties that would show it going wrong or the reason why none does yet.

## 2. The modules

| module | what it is |
| --- | --- |
| `BoundedFifo` | abstract: a queue that is open or not, a sequence of at most `depth` messages, what each call may return |
| `TrickCFSQueue` | the ring buffer with its threads; implements `BoundedFifo` |
| `TrickCFSInterface` | the shared state of the synchronisation, one operator per method (or locked section of one) |
| `TrickCFSSim` | composes it: main thread, SCH thread, tasks calling OSAL, pipes, and an environment of timers, stopped apps and exit |
| `PeriodicTimetable` | abstract: frame n sends the entries whose period divides n |
| `SchLabTrickCFSScheduler` | the schedule table and how it is set up; implements `PeriodicTimetable` |
| `TrickCFSScheduler` | the slots of SCH, their tables and the validation of these |
| `TrickPSP` | the platform support: one operator per function, or per step of `CFE_PSP_Restart` |
| `OSALClock`, `OSALTasks` | pure algorithms: local time, priorities |
| `TrickCFSProcess` | composes `TrickCFSInterface`, `TrickPSP`, `OSALClock` and `OSALTasks`: a process from boot to end, with apps that come and go |
| `MCTrickCFSQueue`, `MCTrickCFSSim`, `MCTrickCFSProcess`, `MCSchLab`, `MCSlots` | small instances for TLC |
| `ArithmeticFacts` | lemmas about quotients, remainders and order |
| `TrickCFSInterface_proofs` | what the methods of the interface do to its types and lists, used by both compositions |
| `TrickCFSQueue_proofs`, `TrickCFSSim_proofs`, `TrickCFSProcess_proofs`, `SchLab_proofs`, `TrickCFSScheduler_proofs`, `OSAL_proofs` | theorems |

Variables and operators carry the names of the source where it has one;
`PROJECT.json` maps each definition to its lines.

### TrickCFSQueue

One queue, any number of receivers and senders and a manager. `receive` and
`send` test `isEnabled` and `maxSize` before they lock `cvMutex`, so each is an
unlocked action (`ReceiveTest`, `SendTest`) and a locked one (`ReceiveLocked`,
`SendLocked`), with anything in between. `open` sets `isEnabled` before it has
built the ring, so it is `OpenBegin` and `OpenEnd` with the mutex held. A waiting
receiver is *asleep* until it is signalled, wakes up for no reason, or its
deadline passes; the two last can cross with a `send`. Touching a slot while
there is no ring sets `crashed` and the run ends, as the process would.

The queue is opened and closed at any moment, also between the tests of a call
and its locked section: nothing in the code keeps them apart, and OSAL deletes the
queue of an app whose task is in `OS_QueueGet`. What the unlocked tests are worth
is then a question of what happens to the queue after them, and two history
variables keep it: `overtaken` says whether a call in progress has been overtaken
by a close or by an opening since its tests, `lateSend` whether a sender that was
has put its message into the present ring. `NoStaleAccess` and `FitsBuffer` say
that these calls are the only ones that go wrong.

### TrickCFSInterface and TrickCFSSim

Sections under a task's mutex are one step. A wait on a condition variable is a
step that falls asleep and one that wakes up; `cv[t]` holds who is asleep on the
variable of task `t`, the main thread or the task. Everything between two locked
sections is apart, in particular

- the main thread's test of a task, its sleep, the expiry of its 5000 ms and the
  return of the mutex (`MainPCs`);
- `sendScheduledMessage`: looking up the owner of a destination, noting the
  trigger, putting the message into each pipe (`SchPCs`);
- `signalMainAppComplete`: looking at the state of a task, and at whether its
  app still runs;
- `OS_QueueGet`: marking as complete, taking a message off the queue,
  acknowledging it, and in between deadlines that pass (`TaskPCs`).

What an app does between its calls is left open: the next call is any of
`Calls[t]` or `Delays[t]`.

Choices worth knowing:

- `back()` of an empty list, which the code calls in `markPipeAsComplete` when
  call sites and acknowledgements do not match, is undefined in C++. It yields
  `NoMid`, which is in no list.
- `markPipeAsComplete` sets the owner of the pipe just before its locked
  section; both are one step.
- The entries of `perfectFDMap` are dropped as they are visited; the code clears
  the map at the end of the same method.
- The SCH thread has a task of its own among cFS's, which never receives a
  scheduled message; it is left out.
- In `OS_QueueGet` a finite timeout is a number of scheduler periods, each a poll
  and a delay. During initialization it is a single timed wait.
- Which entries of the schedule table are due is left to chance in
  `TrickCFSSim`; `SchLabTrickCFSScheduler` models it. Pipes there are the
  sequences of `BoundedFifo`.
- Code under `#if` for systems other than Linux is not modelled.

### SchLabTrickCFSScheduler

The input file adds commands; SCH_trick's task loads the mission's table,
computes the length of a frame, puts each command of the user into the first
unused entry and from then on takes one turn per entry in each pass. The
contents of a message and the release of the table are left out: nothing
depends on them. `frame` and `sent` are history variables: the passes begun, and
what the present one has sent. Tables with more ticks than microseconds per
second are excluded by `SchLabAssumption`: they would make the frame 0 long and
the code divide by it.

### TrickCFSScheduler

The task loads the two tables from files, each of which passes its validation or
ends the simulation. Then every trigger of the main thread is one slot: the
slot and the second come from Trick's time, and each step looks at one entry of
the slot. An entry that is due marks the pipes of its message (`marked`) and is
sent (`sent`), or its message is refused and the slot is left at it (`failed`);
`calls` counts the triggers, the first of which comes at any time of
`StartTimes`: the job that triggers need not start on a slot. The bus may refuse any message, and does refuse one
with no id. A message is what the validation and the bus tell apart: its id,
whether its buffer is empty, whether the payload fits. The names of error codes
and the field `GroupData`, tested like the others of an unused entry, are left
out. The second is a parameter, `SCH_MICROS_PER_MAJOR_FRAME`, and
`SlotsAssumption` has the slots divide it, and Trick count in microseconds.

### TrickCFSProcess, TrickPSP

The second composition of the interface, in wall-clock scheduling, where tasks
are not there for good. Its actors are the main thread (`Boot`, the wait slot by
slot, the cycle, `Shutdown`), the SCH thread with its ways to fail (`SchFail`),
the task in each slot, and the rest of cFE: `StartApp` puts an app
whose predecessors in the start-up script (`StartedBefore`) run into the first free slot, `StopApp`, `OS_QueueDelete` and `DeleteTask`
take it away again in this order, as cFE cleans up, and leave its `TaskIPC`
alone. `prevPipeTaskOwner` is set by `OS_QueueCreate` and `OS_QueueGet`, and read
when a message is marked, under the lock of the software bus, so that a pipe is
not deleted between two markings but may be between the marking and the
transmission.

It is coarser than `TrickCFSSim`, and they share the operators of
`TrickCFSInterface`. A thread that sleeps is one whose action is disabled, so
wake-ups, spurious or lost, are `TrickCFSSim`'s affair. A timeout of
`OS_QueueGet` is one that may pass. A scheduled message reaches all of its pipes
in one step. The main thread's look at a task it was woken up for and its
passing on are one step; in the code every signal of the task also starts its
time anew. A call site is one per task (`Site`).

`CFE_PSP_Restart` is three steps: the record, the request with the beginning of
the delay, the abort. `reserved` and `bootRecord` outlive the process: `NextReset`
is what the next one will take its start to be. `SchFail` may come at the init
and whenever `loop` asks `CFE_ES_RunLoop`, between the end of a pass and the
next trigger. `stale`, `inherited` and `asked` are history variables: the slots that a
task deleted in its delay has left in `TASK_DELAY`, until the delay has run out or
ended; the messages that deleted tasks have left in the list of triggers of a slot,
until it is empty; and the resets asked for.

What reading the code against its comments shows here: a reset never shuts down
in an orderly way. The comment at `cfe_psp_support.c:159-163` has the request
wake the original thread up, but that is Trick's main thread, which does not wait
for the signal (`OS_Application_Run` returns at once, `docs/design.dox:235-238`)
and looks at `ShutdownReq` only within `OS_shutdown`. So a reset ends by `abort`
once `CFE_PSP_RESTART_DELAY` of simulated time is over, and
"eventually this timeout will expire" (174-175) is true only as long as
simulated time goes on: with `msWaitTimeForCFSApps` at -1 and an app that hangs
it does not, which is why `ProcessEnds` excludes that case.

### OSALClock, OSALTasks

Pure operators. `OS_SetLocalTime` gives the tag, `OS_GetLocalTime` the time shown
at a moment of simulated time. The doubles of the code are rationals here,
rounded as the code rounds them; `% NanosWidth` is the 32 bits of the
nanoseconds that `OS_TimeAssembleFromNanoseconds` takes. `MaySetAt` says when
they suffice (for 4.29 s of simulated time) and the tag is not negative; the
code sets the clock once, at boot. The units are constants, so that small ones
put every carry within reach of TLC.

## 3. Runs

| run | instance | shows |
| --- | --- | --- |
| `QueueAnyTime` | 2 receivers (one waits for good and has a large buffer, one has a deadline and a small one), a sender, 2 messages of different length, depths 1 and 2, sizes 1 and 2, opened and closed at any time | ring window, wake-ups, the improper branch is dead, sleepers are served, `BoundedFifo` up to the first touch of a freed slot; which calls can touch one, or copy what does not fit |
| `SimFrames` | 2 tasks, 3 pipes, 2 call sites, a table of 2 messages one of which goes to both tasks, an unsolicited command, the 5000 ms timer, spurious wake-ups | barrier, accounting, delays and the hand-over in wall-clock scheduling |
| `SimLive` | 2 tasks, 2 pipes, spurious wake-ups, no wait as long as 5000 ms | every cycle ends, every delay ends, no completion is missed |
| `SimPerfect` | 2 tasks of different priorities, one of which may be stopped | one at a time, the barrier, every cycle ends, a delay ends by time or in a turn with something left to do only |
| `SimGiveUp` | 2 tasks that wait for good at one call site each and never delay, a limit of two slices of 5000 ms; apps may hang or be stopped, the simulation may be told to exit; pipes of depth 1 that hung apps leave full | the cycle ends by the clock alone, also with late answers and triggers for dropped messages; the barrier |
| `SchLab` | 3 entries, 4 tables, up to 3 commands, 12 frames | where commands go, and when entries are sent |
| `Slots` | 2 slots of 2 entries, every table of 8 kinds of entry (3 of them invalid), 4 tables of messages (2 of them invalid), 6 seconds of 10 tics, starting on a slot, in the last tic that is not rounded up, and in the last tic of a slot | each slot sends what is due in it; validated tables are never corrupt |
| `Process` | 2 slots, an app that stays and may reset cFS, one that is stopped, deleted and started again, one pipe, pipes truncated to depth 1, one call site; 61 moments of a clock with 5 ms in a second, 20 ticks of 2 ns; 256 priorities over 1..99 | the barrier while tasks come and go, the end of every cycle and of the process, the boot record; the clock and the priorities |
| `ProcessReuse` | 2 slots, 2 pipes, 2 apps that start in any order and are both stopped, deleted and started again, each listening to a message of its own | slots and pipes that pass from one app to the other, and back |
| `SimLostWakeup`, `SimDelay`, `ProcessBarrier` | see findings | the code disagrees with its documentation |

Bounds. Depths of 1 and 2 and two messages make the ring wrap, fill up and be
reopened at a different depth. Two tasks are enough for the main thread to look
at one while the other moves, for a priority order, and for a message with two
destinations; a third repeats the second. `MaxTriggered` and
`MaxAcknowledged` bound lists that otherwise grow with messages nobody finishes:
at 2 a message can be pending while the next one comes. In `SchLab` the rates go
up to 4, so 12 frames are their least common multiple, and an interval of less
than a frame gives the rate 0. In `Slots` the frequencies go up to 3, so that 6
seconds are their least common multiple, and two entries are enough for one to
fail before the other; a start in the last tic of a slot makes every slot round up
and the last one of each second roll over. In `Process` one slot whose task stays
and one whose task comes and goes are enough for a task to appear and to go before and
after the main thread's index; in `ProcessReuse` two apps and two pipes are enough
for a slot, a pipe, or both, to be found by the app that did not have them before.
There `MCGoesOn`, a constraint, keeps to processes that have not ended, have not been
told to exit and have a limit on the wait: the first two only stop the apps, and a wait
without limit is one step, the giving up, less. In both, lists of one entry (`MaxTriggered`,
`MaxAcknowledged`) suffice, since the longer ones are `TrickCFSSim`'s; only
PROCESSOR resets are asked for, both kinds are covered by the proof. The clock's
times reach over three seconds of 16 tics each, so that both roundings and the
carry occur. The rest is finite by itself. Deadlock is checked except where the
system stops: a crash (`QueueAnyTime`), an exit (`SimGiveUp`), a table that cannot
be loaded or the bound on frames or calls (`SchLab`, `Slots`), the end of SCH's
loop (`Slots`), and the end of the process (`Process`, `ProcessReuse`).

Fairness. Each thread that can take a step takes one in the end: the main thread,
the SCH thread, and a task inside a call (`WF`), which is what pthreads and a
scheduler without starvation give. `LiveSpec` assumes more of the apps: each goes
on calling OSAL, otherwise the main thread waits for good, by design. `HangSpec`
assumes nothing of the apps, only that the clock goes on. `LiveSpec` of
`TrickCFSProcess` is like that too: the main thread, the SCH thread (which need
never fail) and a reset that has begun go on, apps may hang. Nobody has to make
a call, send an unsolicited message, stop an app or wake up spuriously.

### Findings

- `SimLostWakeup`: after its 5000 ms have expired with time left,
  `TrickWaitForCFSComplete` waits again without looking at the task. A task that
  completed between the expiry and the return of the mutex, and pends, is waited
  for without end.
- `SimDelay`: `OS_TaskDelay`'s milliseconds are counted down in tics; with a
  million tics per second delays end 1000 times too early.
- `ProcessBarrier`: `TrickWaitForCFSComplete` goes through as many slots as there
  are tasks, from slot 0. Once the task of a lower slot has been deleted, the last
  task is not looked at, and the frame ends while it still works on its triggers.

More things are so by the code's design and are stated as they are. In
perfect scheduling a task in a delay is let go on when its turn comes, for as long as it
has something of the scheduler's left to do: a trigger, or the call site that
received the last one (`DelayEndsForCause` allows for it and for nothing else). A trigger is noted for
a message that a full pipe then drops (`TriggerAccounting` is checked with pipes
as deep as what is sent). What a deleted task left in its slot is not reset: the
main thread passes the next task in it while the slot is still in the delay of the
other (`stale`, which `WatchedBarrier` exempts), or waits for it on the other's
account (`inherited`, which `TriggersOfOwn` allows for), and without a limit on the
wait the latter hangs the simulation (`FrameEnds` requires a limit). A call site or an
acknowledgement left over may finish a message of the next app early; no property is
about that. Two more are of this kind: a slot of SCH that rounds up from the last
microsecond of a second is sent by the number of the second that is ending
(`SlotsOnTime` has it so), and a mark stays for a message that the bus has refused
(`MarkedOrGivenUp`).

The passing runs are the same code where these do not bite: one tic per
millisecond, pipes as deep as what is sent, no wait of 5000 ms where liveness
depends on it (the barrier, being safety, is checked with them).

## 4. Proofs

TLAPS proves the following for every value of the constants, under the named
assumptions of the modules and the conditions given.

**Queue** (`TrickCFSQueue_proofs`). `TypeOK`, `RingWindow`, `NeverImproper`,
`NoLostWakeup`, `NoStaleAccess` and `FitsBuffer`, with no hypothesis on when the
queue is opened and closed. The
ring window alone is not inductive: it says nothing of `numMessages` while there
is no ring, nor of what an unlocked test has promised to the locked section. The
invariant adds

- `FlagInv`: `isEnabled` and the ring agree, except while the queue is opened;
- `DataInv`: a slot with data holds a message;
- `SenderInv`: a sender past its tests holds a message;
- `AccessInv`: a call in progress that no close has overtaken has a ring, or one is
  being built, and a call counts as overtaken by a close only while there is none;
- `SizeInv`: the sizes a call has compared are those of the present queue if nothing
  has overtaken it;
- `RingFits`: every message in the ring has the queue's size at most, unless a late
  sender has put one in.

`NoLostWakeup` is a count: each send adds one message and, if anybody sleeps, one
woken receiver; each woken receiver takes a message or falls asleep beside an
empty queue. `FifoImplemented` maps the window to a sequence and shows that each
step is one of `BoundedFifo` or a stutter.

**Simulation** (`TrickCFSSim_proofs`). In both modes: `TypeOK`, `OneBaton`,
`FrameBarrier`, `SitesDistinct` and `DelayEndsForCause`. In wall-clock
scheduling: `DelayEndsInTime`, and, when no wait lasts 5000 ms,
`NoMissedCompletion`. In perfect scheduling: `OneAtATime`. `TriggerAccounting`
under the hypotheses given below. `DelayHonoured`, which `SimDelay` refutes, where a tic
is a millisecond: the unit is all that is wrong with it.

In wall-clock scheduling the barrier needs what the main thread has passed so far: while
the SCH thread waits and the main thread is at task `ii`, the tasks below `ii`
are delayed or have nothing to do, and stay so, because only the SCH thread
triggers and only the main thread ends a delay, and neither works then
(`TasksPassed`, `DelayedWaits`, `WaitForGood`; `OneBaton` supplies the rest).
`SitesDistinct` needs that a task that is about to receive at a call site has
just had that site taken off the list (`SiteInv`). `NoMissedCompletion` rests
on `WakeupInv`: the 5000 ms never expire, `perfectFDMap` stays empty, and, task by
task (`SleepInv`), the main thread is asleep only on a task that has something
left to do, because whoever makes a task quiet wakes it up, and the task itself
is not asleep there to take the signal for it.

In perfect scheduling everything follows from one invariant, `TurnsInv`, which has two
halves. `TurnInv` is about each running task by itself: the place it waits at says
what its state is, and the other way round (`PlaceInv`); it has acknowledged one
message at most, and none once it has polled (`AckInv`); in its turn what
`signalMainAppComplete` has counted agrees with its lists, a call site being
listed from a release to a completion and a trigger from being noted to being
finished (`CountInv`); out of its turn it may have received one message, with which it
waits (`IdleInv`). `MapInv` and `TriggeredInMap` are about the tasks together:
the multimap is in the order of the priorities, nobody in it comes before the
task whose turn it is, and whoever has triggers is in it or has its turn. So a
task that works has its turn, and those above it have no triggers left
(`OneAtATime`); when its counts are complete `CountInv` has it left with nothing,
and when the map is empty so is everybody (`FrameBarrier`); a delayed task
whose counts are not complete has something left to do (`DelayEndsForCause`).
An app that is stopped falls out of the invariant and takes nobody with it.

`TriggerAccounting` adds up a list, the messages on their way, the pipes of the
task, its hands and another list. The lemmas about counting say what appending to a
list, taking an entry out of it (by a bijection of positions) and changing the
queue of one pipe do to the number of occurrences; `DeliveryInv` says that the SCH
thread goes through the destinations of one message and that a task holds a
message only until it acknowledges it. The hypotheses are what the account is about:
each pipe is read by the task of the app that made it (`OwnPipes`), what is in
the schedule table is sent by the scheduler only (`ScheduledOnly`), the main
thread gives up on nobody (`NeverGivesUp`: perfect scheduling, or no limit on the wait), and always `RoomInPipes`: no pipe
of a running app is full when the scheduler sends to it. The instances of
`SimFrames` and `SimPerfect` satisfy all four. Each is needed: a
trigger that is given up or whose message is dropped leaves the account.

**Schedule table** (`SchLab_proofs`). `TypeOK`, `CommandsPlaced` and
`ImplementsTimetable`. For the timetable the
invariant is: an entry's counter is the number of the last frame it has had its
turn in modulo its rate (`CountersInStep`), a pass has sent the due entries
before `i` (`SentSoFar`), and nothing has been counted before the first pass
(`QuietBefore`). The step is arithmetic: a counter that wraps at `r` follows
`n % r`, which is proved from the uniqueness of quotient and remainder (`ArithmeticFacts`).
For the commands of the user, `Rank` counts the unused entries of the mission's
table up to an entry. The invariant (`PlacedSoFar`) has, while commands are placed
and from then on, what the mission configured in its entries, command `Rank(x)` in every unused
entry `x` of a rank up to `userEntryIdx`, and nothing in the others. An entry
that looks free is then one of a higher rank, since a placed command has a valid
id, and the first of them has rank `userEntryIdx + 1` (`RankIncreases`,
`RankOfNext`): it is the right one for the next command. That rates are rounded
down is `RoundedDown`.

**Slots** (`TrickCFSScheduler_proofs`). `TypeOK`, `SlotsOnTime`,
`MarkedOrGivenUp` and `NeverCorrupt`, whatever the time at which the triggers start.
The invariant: the tables in use have been
validated (`Checked`), a slot that is worked on is the one its call stands for
(`SlotOfLastCall`: by `SlotOfTime` what `updateTimeTics` finds in the time within the second,
rounded up and rolled over, is the number of slots begun by the next microsecond, and by
`SlotOfCall` that is one more per call), and has sent what is due
before the next entry (`SentSoFar`). That the slot is one of the table's keeps
`processNextSlot` within it, although it counts `nextSlotNumber` one too far.

**Process** (`TrickCFSProcess_proofs`). `TypeOK`, `PipeOwners`, `WatchedBarrier`,
`TriggersOfOwn` and `NextBootAsAsked`. None is inductive. The invariants behind
them:

- `Baton`: one of the main thread, the SCH thread and the two eventfds has the
  right to work on the frame. So while the main thread is past `read` nobody marks
  triggers, and `BarrierInv` keeps what it has passed: every slot below `ii` has
  no triggers but inherited ones, or a task that is delayed, or its app has been stopped or deleted,
  or it is `stale`.
- `MarkInv`: the pipes the SCH thread has yet to mark exist and belong to apps
  that listen to its message, because the lock of the software bus keeps them from
  being deleted.
- `FreeInv`: a slot without a task has no triggers but those it has inherited, and
  `DelayInv`: a slot in `TASK_DELAY` that is not `stale` has a task that delays: this
  is what a new task finds. By `FreeInv`, `MarkInv` and `PipeOwners` the triggers of a
  slot are of its own app or inherited (`TriggersOfOwn`).
- `ResetInv`: a valid record names a reset that was asked for, and a task past the
  record means that there is one.

**OSAL** (`OSAL_proofs`; `LocalTimeMonotone`, `LocalTimeFollows` and
`ThreadsOrdered` restate the three for a process, where TLC looks at them in the
initial states only, since they have no state of their own). `ClockMonotone` and
`ClockFollows`, for all units in which a millisecond is a whole number of ticks and a second fits the width of
the nanoseconds (`ClockAssumption`), and `PrioritiesOrdered` for all ranges of
priorities with more than 4 of OSAL's (`TasksAssumption`; with fewer, the
rounding in `OS_PriorityRemap` reaches the priority reserved for OSAL's most
urgent). The clock's proof is a closed form: the carry loses nothing, so the
time shown is the tag plus the milliseconds of simulated time (`ReadTime`), and
the tag the wall clock less the simulated time in whole ticks (`TagFacts`). The
roundings then add up to the bound.

Only model-checked: everything that says *in the end* (`SleeperServed`,
`FrameCompletes`, `DelayEnds`, `FrameEnds`, `ProcessEnds`), since liveness under
fairness is out of reach of the prover. The safety properties of the passing runs
are all proved, under the conditions given; the properties of the three runs that expect a
violation are false of the code.

## 5. Not modelled

- CPU affinity, stack sizes and names of threads, the memory manager, files,
  console, build and input files: configuration and I/O.
- `SchLabTrickCFSSchedulerEquuleusRC1` and the other `equuleus` sources: the same
  algorithms for another release of cFE.
- `initialize` also sets the period of the job `updateCFS` from the scheduler's
  frame and changes Trick's software frame; only the period's effect,
  `CycleTics`, is a parameter here.
- Numbers of slots that do not divide a second, with which the triggers drift against
  the slots: slot 0 would come twice in a second.
- The bytes of messages, and the header put before them by the validation.
- The timeout of `OS_QueueGet` in milliseconds, which a frame of less than a
  millisecond never counts down, and the 32 bits of `PacketRate`: both are
  numbers of frames in the models.
- Apps that come and go in perfect scheduling, apps of several tasks or pipes, and
  pipes read by several tasks.
- The contents of the exception log; that two exceptions may use one buffer is
  known to the code, and in a simulation only `OS_shutdown` logs one.

## 6. Plan

Done, in this order: the queue and its abstract fifo; the interface and the
simulation; their proofs; the schedule table, its timetable and its proofs; the
slots of SCH and their proofs; the process with its apps, its resets and its end,
and its proofs; the clock and the priorities of OSAL and their proofs; the proofs of
perfect scheduling, of the account of the triggers and of where commands are placed.

Next:

1. Apps that come and go in perfect scheduling, and pipes read by several tasks.
2. `TrickCFSScheduler` with slots that do not divide the second, and with a trigger
   rate other than one per slot.
3. The timeout of `OS_QueueGet` and the 32 bits of `PacketRate` as numbers.
4. Proofs: that `RoomInPipes` holds of pipes as deep as what the table can send
   before a task reads, so that it need not be assumed.
