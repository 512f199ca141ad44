\* Perfect scheduling; the app of task 0 may be stopped.
SPECIFICATION LiveSpec
CONSTANTS
  p0 = p0
  p1 = p1
  q1 = q1
  a = a
  b = b
  c = c
  g = g
  main = main
  nested = nested
  NumTasks = 2
  Prio <- MCPrio
  Pipes = {p0, p1}
  Creator <- MCCreator
  Mids = {a, c}
  NoMid = NoMid
  Sites = {main}
  PerfectMode = TRUE
  CycleTics = 1
  Table <- MCOnePipeTable
  Subscribers <- MCSubscribers
  PipeDepth = 2
  Calls <- MCOnePipeCalls
  Delays <- MCDelays
  Unsolicited = {}
  WaitSlices <- MCForever
  TicsPerMs = 1
  TimerFires = TRUE
  SpuriousWakeups = TRUE
  MayStop = {0}
  MayExit = FALSE
  MaxTriggered = 2
  MaxAcknowledged = 2
INVARIANTS OneAtATime FrameBarrier
PROPERTIES FrameCompletes DelayEndsForCause
