\* The life of a process: apps come and go, and it exits, is reset or fails.
SPECIFICATION LiveSpec
CONSTANTS
  es = es
  worker = worker
  b = b
  c = c
  NumTasks = 2
  Prio <- MCPrio
  Pipes = {p0}
  Creator <- MCCreator
  Mids = {b}
  NoMid = NoMid
  Sites = {main}
  Site = main
  PerfectMode = FALSE
  CycleTics = 1
  CFE_PSP_RST_TYPE_POWERON = POWERON
  CFE_PSP_RST_TYPE_PROCESSOR = PROCESSOR
  TicValue = 16
  MsPerSec = 5
  NsPerMs = 8
  NsPerTick = 2
  NanosWidth = 100
  Instants <- MCInstants
  WallSeconds = {3, 7}
  OS_MAX_TASK_PRIORITY = 255
  PriorityMin = 1
  PriorityMax = 99
  Apps = {es, worker}
  NoApp = NoApp
  StartedBefore <- MCEsFirst
  NoPipe = NoPipe
  Listens <- MCListens
  Resets <- MCResets
  Restarted = {worker}
  Table <- MCTable
  PipeDepth = 2
  TruncateQueueDepth = 1
  Delays <- MCDelays
  CFE_PSP_RESTART_DELAY = 1
  MaxTriggered = 1
  MaxAcknowledged = 1
INVARIANTS TypeOK WatchedBarrier NextBootAsAsked LocalTimeFollows LocalTimeMonotone ThreadsOrdered
PROPERTIES FrameEnds ProcessEnds
CHECK_DEADLOCK FALSE
