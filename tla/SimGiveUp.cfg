\* Wall-clock scheduling with a limit on the wait; apps may hang or be stopped, which leaves their pipes full, and the simulation may be told to exit.
SPECIFICATION HangSpec
CONSTANTS
  p0 = p0
  p1 = p1
  q1 = q1
  a = a
  b = b
  c = c
  g = g
  main = main
  nested = nested
  NumTasks = 2
  Prio <- MCPrio
  Pipes = {p0, p1}
  Creator <- MCCreator
  Mids = {a, c}
  NoMid = NoMid
  Sites = {main}
  PerfectMode = FALSE
  CycleTics = 1
  Table <- MCWakeUpTable
  Subscribers <- MCSubscribers
  PipeDepth = 1
  Calls <- MCPendingCalls
  Delays <- MCNoDelays
  Unsolicited = {}
  WaitSlices = 2
  TicsPerMs = 1
  TimerFires = TRUE
  SpuriousWakeups = FALSE
  MayStop = {0}
  MayExit = TRUE
  MaxTriggered = 1
  MaxAcknowledged = 2
INVARIANTS FrameBarrier
PROPERTIES FrameCompletes
CHECK_DEADLOCK FALSE
