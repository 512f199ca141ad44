\* Opened and closed at any time, also in the middle of a call.
SPECIFICATION LiveSpec
CONSTANTS
  r1 = r1
  r2 = r2
  m1 = m1
  m2 = m2
  Receivers = {r1, r2}
  Pending = {r1}
  BuffSize <- MCBuffSize
  Senders = {s1}
  Manager = mgr
  Msgs = {m1, m2}
  SizeOf <- MCSizeOf
  NoMsg = NoMsg
  Depths = {1, 2}
  Sizes = {1, 2}
INVARIANTS TypeOK RingWindow NeverImproper NoStaleAccess NoLostWakeup
PROPERTIES FitsBuffer ImplementsFifo SleeperServed
CHECK_DEADLOCK FALSE
