\* A cycle of 2 tics, which is 1 ms; task 0 calls OS_TaskDelay(2).
SPECIFICATION Spec
CONSTANTS
  p0 = p0
  p1 = p1
  q1 = q1
  a = a
  b = b
  c = c
  g = g
  main = main
  nested = nested
  NumTasks = 2
  Prio <- MCPrio
  Pipes = {p0, p1}
  Creator <- MCCreator
  Mids = {a, c}
  NoMid = NoMid
  Sites = {main}
  PerfectMode = FALSE
  CycleTics = 2
  Table <- MCOnePipeTable
  Subscribers <- MCSubscribers
  PipeDepth = 2
  Calls <- MCOnePipeCalls
  Delays <- MCDelays
  Unsolicited = {}
  WaitSlices <- MCForever
  TicsPerMs = 2
  TimerFires = FALSE
  SpuriousWakeups = TRUE
  MayStop = {}
  MayExit = FALSE
  MaxTriggered = 2
  MaxAcknowledged = 2
PROPERTIES DelayHonoured
