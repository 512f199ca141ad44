\* Two apps that come and go take each other's slots and pipes.
SPECIFICATION Spec
CONSTANTS
  es = es
  worker = worker
  b = b
  c = c
  NumTasks = 2
  Prio <- MCPrio
  Pipes = {p0, p1}
  Creator <- MCCreator
  Mids = {b, c}
  NoMid = NoMid
  Sites = {main}
  Site = main
  PerfectMode = FALSE
  CycleTics = 1
  CFE_PSP_RST_TYPE_POWERON = POWERON
  CFE_PSP_RST_TYPE_PROCESSOR = PROCESSOR
  TicValue = 16
  MsPerSec = 5
  NsPerMs = 8
  NsPerTick = 2
  NanosWidth = 100
  Instants <- MCInstants
  WallSeconds = {3, 7}
  OS_MAX_TASK_PRIORITY = 255
  PriorityMin = 1
  PriorityMax = 99
  Apps = {es, worker}
  NoApp = NoApp
  StartedBefore <- MCAnyOrder
  NoPipe = NoPipe
  Listens <- MCListens
  Resets <- MCNoResets
  Restarted = {es, worker}
  Table <- MCTable
  PipeDepth = 2
  TruncateQueueDepth = 1
  Delays <- MCNoDelays
  CFE_PSP_RESTART_DELAY = 1
  MaxTriggered = 1
  MaxAcknowledged = 1
INVARIANTS PipeOwners TriggersOfOwn
CONSTRAINT MCGoesOn
CHECK_DEADLOCK FALSE
