\* As SimLive, but the wait for an app may take 5000 ms.
SPECIFICATION LiveSpec
CONSTANTS
  p0 = p0
  p1 = p1
  q1 = q1
  a = a
  b = b
  c = c
  g = g
  main = main
  nested = nested
  NumTasks = 2
  Prio <- MCPrio
  Pipes = {p0, p1}
  Creator <- MCCreator
  Mids = {a, c}
  NoMid = NoMid
  Sites = {main}
  PerfectMode = FALSE
  CycleTics = 1
  Table <- MCWakeUpTable
  Subscribers <- MCSubscribers
  PipeDepth = 2
  Calls <- MCPendingCalls
  Delays <- MCOtherDelays
  Unsolicited = {}
  WaitSlices <- MCForever
  TicsPerMs = 1
  TimerFires = TRUE
  SpuriousWakeups = FALSE
  MayStop = {}
  MayExit = FALSE
  MaxTriggered = 2
  MaxAcknowledged = 2
PROPERTIES FrameCompletes
