\* Wall-clock scheduling, the main thread waits for good.
SPECIFICATION Spec
CONSTANTS
  p0 = p0
  p1 = p1
  q1 = q1
  a = a
  b = b
  c = c
  g = g
  main = main
  nested = nested
  NumTasks = 2
  Prio <- MCPrio
  Pipes = {p0, p1, q1}
  Creator <- MCCreator
  Mids = {a, b, c, g}
  NoMid = NoMid
  Sites = {main, nested}
  PerfectMode = FALSE
  CycleTics = 1
  Table <- MCTable
  Subscribers <- MCSubscribers
  PipeDepth = 3
  Calls <- MCCalls
  Delays <- MCDelays
  Unsolicited <- MCCommands
  WaitSlices <- MCForever
  TicsPerMs = 1
  TimerFires = TRUE
  SpuriousWakeups = TRUE
  MayStop = {}
  MayExit = FALSE
  MaxTriggered = 2
  MaxAcknowledged = 2
INVARIANTS TypeOK OneBaton FrameBarrier TriggerAccounting SitesDistinct
PROPERTIES DelayEndsInTime
