----------------------------- MODULE OSAL_proofs -----------------------------
(***************************************************************************)
(* Proofs about the pure algorithms of the OSAL: the local time, for any   *)
(* units and any times, and the priorities of threads, for any ranges.     *)
(***************************************************************************)
EXTENDS OSALClock, OSALTasks, ArithmeticFacts

------------------------------------------------------------------------------
\* Priorities

\* What is spread is a multiple of the steps between, and less than a step more.
LEMMA SpreadBounds ==
  ASSUME TasksAssumption, NEW x \in 0..(OS_MAX_TASK_PRIORITY - 2)
  PROVE  (x * (PriorityMax - PriorityMin - 2) + OS_MAX_TASK_PRIORITY \div 2)
            \div (OS_MAX_TASK_PRIORITY - 2) \in 0..(PriorityMax - PriorityMin - 2)
<1> DEFINE k == OS_MAX_TASK_PRIORITY - 2
           r == PriorityMax - PriorityMin - 2
           h == OS_MAX_TASK_PRIORITY \div 2
<1>1. k \in Nat \ {0} /\ r \in Nat /\ h \in 0..(k - 1) /\ x \in 0..k
  BY DEF TasksAssumption
<1> HIDE DEF k, r, h
<1>2. 0 * r <= x * r /\ x * r <= k * r
  BY <1>1, ProductMonotone
<1>3. 0 * r = 0 /\ k * r = k * r + 0 /\ k * r \in Nat /\ x * r \in Int /\ x * r >= 0
  BY <1>1, <1>2
<1>4. (k * 0 + h) \div k = 0 /\ (k * r + h) \div k = r
  BY <1>1, Division
<1>5. k * 0 + h <= x * r + h /\ x * r + h <= k * r + h /\ k * 0 + h \in Int
      /\ x * r + h \in Int /\ k * r + h \in Int
  BY <1>1, <1>2, <1>3
<1>6. 0 <= (x * r + h) \div k /\ (x * r + h) \div k <= r
  BY <1>1, <1>4, <1>5, QuotientMonotone
<1>7. (x * r + h) \div k \in Int
  BY <1>1, <1>5, Z3
<1> QED
  BY <1>1, <1>6, <1>7 DEF k, r, h

\* The priorities between the extremes stay between theirs ...
LEMMA SpreadRange ==
  ASSUME NEW pri \in 1..(OS_MAX_TASK_PRIORITY - 1)
  PROVE  Spread(pri) \in (PriorityMin + 1)..(PriorityMax - 1)
<1> DEFINE x == (OS_MAX_TASK_PRIORITY - 1) - pri
           q == (x * (PriorityMax - PriorityMin - 2) + OS_MAX_TASK_PRIORITY \div 2)
                  \div (OS_MAX_TASK_PRIORITY - 2)
<1>1. x \in 0..(OS_MAX_TASK_PRIORITY - 2)
  BY TasksAssumption DEF TasksAssumption
<1>2. q \in 0..(PriorityMax - PriorityMin - 2)
  BY <1>1, TasksAssumption, SpreadBounds
<1>3. Spread(pri) = q + PriorityMin + 1
  BY DEF Spread
<1> HIDE DEF q
<1> QED
  BY <1>2, <1>3, TasksAssumption DEF TasksAssumption

\* ... and are spread in their order.
LEMMA SpreadOrdered ==
  ASSUME NEW pri \in 1..(OS_MAX_TASK_PRIORITY - 1),
         NEW other \in 1..(OS_MAX_TASK_PRIORITY - 1), pri <= other
  PROVE  Spread(pri) >= Spread(other)
<1> DEFINE k == OS_MAX_TASK_PRIORITY - 2
           r == PriorityMax - PriorityMin - 2
           h == OS_MAX_TASK_PRIORITY \div 2
           x == (OS_MAX_TASK_PRIORITY - 1) - pri
           y == (OS_MAX_TASK_PRIORITY - 1) - other
<1>1. k \in Nat \ {0} /\ r \in Nat /\ h \in Nat /\ x \in Int /\ y \in Int /\ y <= x
  BY TasksAssumption DEF TasksAssumption
<1>2. /\ Spread(pri) = (x * r + h) \div k + PriorityMin + 1
      /\ Spread(other) = (y * r + h) \div k + PriorityMin + 1
  BY DEF Spread
<1> HIDE DEF k, r, h, x, y
<1>3. y * r <= x * r /\ y * r \in Int /\ x * r \in Int
  BY <1>1, ProductMonotone
<1>4. y * r + h \in Int /\ x * r + h \in Int /\ y * r + h <= x * r + h
  BY <1>1, <1>3
<1>5. (y * r + h) \div k <= (x * r + h) \div k
  BY <1>1, <1>4, QuotientMonotone
<1>6. (y * r + h) \div k \in Int /\ (x * r + h) \div k \in Int
  BY <1>1, <1>4, Z3
<1> QED
  BY <1>2, <1>5, <1>6, TasksAssumption DEF TasksAssumption

\* OS_PriorityRemap keeps the order of tasks and the extremes apart, for all ranges of
\* priorities of OSAL and of the operating system.
THEOREM PrioritiesOrderedHolds == PrioritiesOrdered
<1> SUFFICES ASSUME NEW pri \in OsalPriorities, NEW other \in OsalPriorities
             PROVE  /\ OS_PriorityRemap(pri) \in PriorityMin..PriorityMax
                    /\ pri <= other => OS_PriorityRemap(pri) >= OS_PriorityRemap(other)
                    /\ OS_PriorityRemap(pri) = PriorityMax => pri = 0
                    /\ OS_PriorityRemap(pri) = PriorityMin => pri = OS_MAX_TASK_PRIORITY
  BY DEF PrioritiesOrdered
<1> DEFINE Middle(p) == p \in 1..(OS_MAX_TASK_PRIORITY - 1)
<1>1. \A p \in OsalPriorities : p = 0 \/ p = OS_MAX_TASK_PRIORITY \/ Middle(p)
  BY TasksAssumption DEF OsalPriorities, TasksAssumption
<1>2. /\ OS_PriorityRemap(0) = PriorityMax
      /\ OS_PriorityRemap(OS_MAX_TASK_PRIORITY) = PriorityMin
  BY TasksAssumption DEF OS_PriorityRemap, TasksAssumption
<1>3. ASSUME NEW p, Middle(p)
      PROVE  /\ OS_PriorityRemap(p) = Spread(p)
             /\ Spread(p) \in (PriorityMin + 1)..(PriorityMax - 1)
  BY <1>3, SpreadRange, TasksAssumption DEF OS_PriorityRemap, TasksAssumption
<1>4. /\ OS_PriorityRemap(pri) \in PriorityMin..PriorityMax
      /\ OS_PriorityRemap(pri) = PriorityMax => pri = 0
      /\ OS_PriorityRemap(pri) = PriorityMin => pri = OS_MAX_TASK_PRIORITY
  <2>1. CASE Middle(pri)
    BY <1>3, <2>1, TasksAssumption DEF TasksAssumption
  <2>2. CASE ~Middle(pri)
    BY <1>1, <1>2, <2>2, TasksAssumption DEF TasksAssumption
  <2> QED
    BY <2>1, <2>2
<1>5. ASSUME pri <= other PROVE OS_PriorityRemap(pri) >= OS_PriorityRemap(other)
  <2>1. CASE Middle(pri) /\ Middle(other)
    BY <1>3, <1>5, <2>1, SpreadOrdered
  <2>2. CASE pri = 0
    <3>1. OS_PriorityRemap(other) \in PriorityMin..PriorityMax
      BY <1>1, <1>2, <1>3, TasksAssumption DEF TasksAssumption
    <3> QED
      BY <1>2, <2>2, <3>1, TasksAssumption DEF TasksAssumption
  <2>3. CASE other = OS_MAX_TASK_PRIORITY
    BY <1>2, <1>4, <2>3, TasksAssumption DEF TasksAssumption
  <2>4. CASE ~(Middle(pri) /\ Middle(other)) /\ pri # 0 /\ other # OS_MAX_TASK_PRIORITY
    <3>1. FALSE
      BY <1>1, <1>5, <2>4, TasksAssumption DEF OsalPriorities, TasksAssumption
    <3> QED BY <3>1
  <2> QED
    BY <2>1, <2>2, <2>3, <2>4
<1> QED
  BY <1>4, <1>5

------------------------------------------------------------------------------
\* The local time

\* How the units are made of one another.
LEMMA UnitFacts ==
  /\ TicValue \in Nat \ {0} /\ MsPerSec \in Nat \ {0} /\ NsPerMs \in Nat \ {0}
  /\ NsPerTick \in Nat \ {0} /\ NanosWidth \in Nat \ {0}
  /\ TicksPerMs \in Nat \ {0} /\ TicksPerSec \in Nat \ {0} /\ NsPerSec \in Nat \ {0}
  /\ NsPerMs = TicksPerMs * NsPerTick
  /\ TicksPerSec = MsPerSec * TicksPerMs
  /\ NsPerSec = MsPerSec * NsPerMs
  /\ NsPerSec = TicksPerSec * NsPerTick
  /\ NsPerSec <= NanosWidth
<1>1. /\ TicValue \in Nat \ {0} /\ MsPerSec \in Nat \ {0} /\ NsPerMs \in Nat \ {0}
      /\ NsPerTick \in Nat \ {0} /\ NanosWidth \in Nat
      /\ NsPerMs = TicksPerMs * NsPerTick /\ NsPerSec <= NanosWidth
  BY ClockAssumption DEF ClockAssumption
<1>2. TicksPerMs \in Nat
  BY <1>1, QuotientBounds DEF TicksPerMs
<1>3. TicksPerMs # 0
  BY <1>1, <1>2
<1>4. ASSUME NEW a \in Nat \ {0}, NEW b \in Nat \ {0} PROVE a * b \in Nat \ {0}
  BY <1>4
<1>5. TicksPerSec \in Nat \ {0} /\ NsPerSec \in Nat \ {0}
  BY <1>1, <1>2, <1>3, <1>4 DEF TicksPerSec, NsPerSec
<1>6. NsPerSec = TicksPerSec * NsPerTick
  <2>1. ASSUME NEW a \in Nat, NEW b \in Nat, NEW c \in Nat PROVE a * (b * c) = (a * b) * c
    BY <2>1
  <2> QED
    BY <1>1, <1>2, <2>1 DEF TicksPerSec, NsPerSec
<1> QED
  BY <1>1, <1>2, <1>3, <1>5, <1>6 DEF TicksPerSec, NsPerSec

\* Simulated time is rounded to the nearest unit.
LEMMA SimTimeFacts ==
  ASSUME NEW tics \in Nat, NEW perSec \in Nat
  PROVE  /\ SimTime(tics, perSec) \in Nat
         /\ 2 * (TicValue * SimTime(tics, perSec)) <= 2 * (tics * perSec) + TicValue
         /\ 2 * (tics * perSec) + TicValue < 2 * (TicValue * SimTime(tics, perSec)) + 2 * TicValue
<1> DEFINE r == 2 * TicValue
           n == 2 * (tics * perSec) + TicValue
           q == n \div r
<1>1. TicValue \in Nat \ {0} /\ tics * perSec \in Nat
  BY UnitFacts
<1>2. r \in Nat \ {0} /\ n \in Nat
  BY <1>1
<1>3. q \in Nat
  BY <1>2, QuotientBounds
<1>4. n \in r * q .. r * q + r - 1
  <2> HIDE DEF r, n
  <2> QED BY <1>2, <1>3, RowOf
<1>5. r * q = 2 * (TicValue * q)
  BY <1>1, <1>3
<1>6. SimTime(tics, perSec) = q
  BY DEF SimTime
<1> HIDE DEF q
<1>7. TicValue * q \in Nat
  BY <1>1, <1>3
<1> QED
  BY <1>1, <1>3, <1>4, <1>5, <1>6, <1>7

\* It goes on as simulated time does.
LEMMA SimTimeMonotone ==
  ASSUME NEW tics \in Nat, NEW later \in Nat, NEW perSec \in Nat, tics <= later
  PROVE  SimTime(tics, perSec) <= SimTime(later, perSec)
<1>1. tics * perSec <= later * perSec /\ tics * perSec \in Nat /\ later * perSec \in Nat
  BY ProductMonotone
<1>2. 2 * TicValue \in Nat \ {0} /\ TicValue \in Nat
  BY UnitFacts
<1> QED
  BY <1>1, <1>2, QuotientMonotone DEF SimTime

\* A time made of whole ticks of a second is the sum of them.
LEMMA AssembleTicks ==
  ASSUME NEW sec \in Int, NEW b \in 0..(TicksPerSec - 1)
  PROVE  OS_TimeAssembleFromNanoseconds(sec, b * NsPerTick) = sec * TicksPerSec + b
<1>1. (b + 1) * NsPerTick <= TicksPerSec * NsPerTick
  BY UnitFacts, ProductMonotone
<1>2. b * NsPerTick \in 0..(NanosWidth - 1)
  <2>1. b * NsPerTick \in Nat /\ (b + 1) * NsPerTick = b * NsPerTick + NsPerTick
    BY UnitFacts
  <2> QED
    BY <1>1, <2>1, UnitFacts
<1>3. (NanosWidth * 0 + b * NsPerTick) % NanosWidth = b * NsPerTick
  BY <1>2, UnitFacts, Division
<1>4. NanosWidth * 0 + b * NsPerTick = b * NsPerTick
  BY <1>2, UnitFacts
<1>5. (NsPerTick * b + 0) \div NsPerTick = b
  BY UnitFacts, Division
<1>6. NsPerTick * b + 0 = b * NsPerTick
  BY <1>2, UnitFacts
<1> QED
  BY <1>3, <1>4, <1>5, <1>6 DEF OS_TimeAssembleFromNanoseconds

\* The carry from nanoseconds to seconds loses nothing: the time shown is the tag and
\* the milliseconds of simulated time.
LEMMA ReadTime ==
  ASSUME NEW tag, tag.tv_sec \in Int, NEW n \in 0..(TicksPerSec - 1),
         tag.tv_nsec = n * NsPerTick, NEW tics \in Nat
  PROVE  OS_GetLocalTime(tag, tics)
           = tag.tv_sec * TicksPerSec + n + SimTime(tics, MsPerSec) * TicksPerMs
<1> DEFINE msecs == SimTime(tics, MsPerSec)
           q == msecs \div MsPerSec
           m == msecs % MsPerSec
           a == n + m * TicksPerMs
           nsec == tag.tv_nsec + m * NsPerMs
<1>1. msecs \in Nat
  BY UnitFacts, SimTimeFacts
<1>2. q \in Int /\ m \in 0..(MsPerSec - 1) /\ msecs = MsPerSec * q + m
  <2> HIDE DEF msecs
  <2>1. MsPerSec \in Nat \ {0} /\ msecs \in Int
    BY <1>1, UnitFacts
  <2> QED
    BY <2>1, QuotientRemainder, Zenon
<1>3. /\ OS_GetLocalTime(tag, tics) =
           IF nsec >= NsPerSec
           THEN OS_TimeAssembleFromNanoseconds(tag.tv_sec + q + 1, nsec - NsPerSec)
           ELSE OS_TimeAssembleFromNanoseconds(tag.tv_sec + q, nsec)
  BY DEF OS_GetLocalTime
<1> HIDE DEF q, m, msecs
<1>4. m * TicksPerMs \in Nat /\ m * TicksPerMs <= TicksPerSec - TicksPerMs
  <2>1. m * TicksPerMs <= (MsPerSec - 1) * TicksPerMs
    BY <1>2, UnitFacts, ProductMonotone
  <2>2. (MsPerSec - 1) * TicksPerMs = TicksPerSec - TicksPerMs
    BY UnitFacts
  <2> QED
    BY <1>2, <2>1, <2>2, UnitFacts
<1>5. a \in Nat /\ a < 2 * TicksPerSec
  BY <1>4, UnitFacts
<1>6. nsec = a * NsPerTick
  <2>1. m * NsPerMs = (m * TicksPerMs) * NsPerTick
    BY <1>2, UnitFacts
  <2> QED
    BY <1>4, <2>1, UnitFacts
<1>7. tag.tv_sec * TicksPerSec + n + msecs * TicksPerMs
        = (tag.tv_sec + q) * TicksPerSec + a
  <2>1. msecs * TicksPerMs = q * TicksPerSec + m * TicksPerMs
    BY <1>2, UnitFacts
  <2> QED
    BY <1>2, <1>4, <2>1, UnitFacts
<1> HIDE DEF a, nsec
<1>8. CASE a >= TicksPerSec
  <2>1. a - TicksPerSec \in 0..(TicksPerSec - 1)
    BY <1>5, <1>8, UnitFacts
  <2>2. nsec - NsPerSec = (a - TicksPerSec) * NsPerTick /\ nsec >= NsPerSec
    <3>1. TicksPerSec * NsPerTick <= a * NsPerTick
      BY <1>5, <1>8, UnitFacts, ProductMonotone
    <3> QED
      BY <1>5, <1>6, <3>1, UnitFacts
  <2>3. OS_GetLocalTime(tag, tics)
          = (tag.tv_sec + q + 1) * TicksPerSec + (a - TicksPerSec)
    BY <1>2, <1>3, <2>1, <2>2, AssembleTicks
  <2> QED
    BY <1>2, <1>5, <1>7, <2>3, UnitFacts DEF msecs
<1>9. CASE ~(a >= TicksPerSec)
  <2>1. a \in 0..(TicksPerSec - 1)
    BY <1>5, <1>9, UnitFacts
  <2>2. ~(nsec >= NsPerSec)
    <3>1. (a + 1) * NsPerTick <= TicksPerSec * NsPerTick
      BY <2>1, UnitFacts, ProductMonotone
    <3>2. (a + 1) * NsPerTick = a * NsPerTick + NsPerTick /\ a * NsPerTick \in Nat
      BY <1>5, UnitFacts
    <3> QED
      BY <1>6, <3>1, <3>2, UnitFacts
  <2>3. OS_GetLocalTime(tag, tics) = (tag.tv_sec + q) * TicksPerSec + a
    BY <1>2, <1>3, <1>6, <2>1, <2>2, AssembleTicks
  <2> QED
    BY <1>7, <2>3 DEF msecs
<1> QED
  BY <1>8, <1>9

\* The tag is the time set, less the simulated time in whole ticks.
LEMMA TagFacts ==
  ASSUME NEW wall \in Nat, NEW tics \in Nat, MaySetAt(wall, tics)
  PROVE  LET tag == OS_SetLocalTime(WallTime(wall), tics)
         IN \E n \in 0..(TicksPerSec - 1) :
              /\ tag.tv_sec \in Int
              /\ tag.tv_nsec = n * NsPerTick
              /\ tag.tv_sec * TicksPerSec + n
                   = wall * TicksPerSec - SimTime(tics, NsPerSec) \div NsPerTick
<1> DEFINE nanos == SimTime(tics, NsPerSec)
           init == wall * TicksPerSec - nanos \div NsPerTick
           n == init % TicksPerSec
<1>1. nanos \in 0..(NanosWidth - 1)
  BY UnitFacts, SimTimeFacts DEF MaySetAt
<1> HIDE DEF nanos
<1>2. WallTime(wall) = wall * TicksPerSec
  <2>1. 0 \in 0..(TicksPerSec - 1) /\ 0 * NsPerTick = 0 /\ wall * TicksPerSec + 0 = wall * TicksPerSec
    BY UnitFacts
  <2> QED
    BY <2>1, AssembleTicks DEF WallTime
<1>3. OS_TimeAssembleFromNanoseconds(0, nanos) = nanos \div NsPerTick
  <2>1. (NanosWidth * 0 + nanos) % NanosWidth = nanos
    BY <1>1, UnitFacts, Division
  <2>2. NanosWidth * 0 + nanos = nanos /\ 0 * TicksPerSec = 0
    BY <1>1, UnitFacts
  <2>3. nanos \div NsPerTick \in Nat
    BY <1>1, UnitFacts, QuotientBounds
  <2> QED
    BY <2>1, <2>2, <2>3 DEF OS_TimeAssembleFromNanoseconds
<1>4. /\ OS_SetLocalTime(WallTime(wall), tics).tv_sec = init \div TicksPerSec
      /\ OS_SetLocalTime(WallTime(wall), tics).tv_nsec = n * NsPerTick
  BY <1>2, <1>3 DEF OS_SetLocalTime, nanos
<1>5. init \in Int
  <2>1. nanos \div NsPerTick \in Nat
    BY <1>1, UnitFacts, QuotientBounds
  <2> QED BY <2>1, UnitFacts
<1>6. /\ init \div TicksPerSec \in Int
      /\ n \in 0..(TicksPerSec - 1)
      /\ init = TicksPerSec * (init \div TicksPerSec) + n
  <2> HIDE DEF init
  <2>1. TicksPerSec \in Nat \ {0}
    BY UnitFacts
  <2> QED
    BY <1>5, <2>1, QuotientRemainder, Zenon
<1> HIDE DEF n
<1>7. (init \div TicksPerSec) * TicksPerSec + n = init
  <2> HIDE DEF init
  <2> QED BY <1>6, UnitFacts
<1> QED
  BY <1>4, <1>6, <1>7 DEF nanos

\* The local time never goes back, whatever the units and wherever the carries fall.
THEOREM ClockMonotoneHolds == ClockMonotone
<1> SUFFICES ASSUME NEW wall \in WallSeconds, NEW set \in Instants, NEW read \in Instants,
                    NEW later \in Instants, MaySetAt(wall, set), read <= later
             PROVE  OS_GetLocalTime(OS_SetLocalTime(WallTime(wall), set), read)
                      <= OS_GetLocalTime(OS_SetLocalTime(WallTime(wall), set), later)
  BY DEF ClockMonotone
<1> DEFINE tag == OS_SetLocalTime(WallTime(wall), set)
<1>1. wall \in Nat /\ set \in Nat /\ read \in Nat /\ later \in Nat
  BY ClockAssumption DEF ClockAssumption
<1>2. PICK n \in 0..(TicksPerSec - 1) : tag.tv_sec \in Int /\ tag.tv_nsec = n * NsPerTick
  BY <1>1, TagFacts
<1> HIDE DEF tag
<1>3. /\ OS_GetLocalTime(tag, read)
           = tag.tv_sec * TicksPerSec + n + SimTime(read, MsPerSec) * TicksPerMs
      /\ OS_GetLocalTime(tag, later)
           = tag.tv_sec * TicksPerSec + n + SimTime(later, MsPerSec) * TicksPerMs
  BY <1>1, <1>2, ReadTime
<1>4. SimTime(read, MsPerSec) \in Nat /\ SimTime(later, MsPerSec) \in Nat
      /\ SimTime(read, MsPerSec) <= SimTime(later, MsPerSec)
  BY <1>1, UnitFacts, SimTimeFacts, SimTimeMonotone
<1>5. SimTime(read, MsPerSec) * TicksPerMs <= SimTime(later, MsPerSec) * TicksPerMs
  BY <1>4, UnitFacts, ProductMonotone
<1> QED
  BY <1>2, <1>3, <1>4, <1>5, UnitFacts DEF tag

\* Read after it has been set to the wall clock, the local time is off by no more than
\* the rounding, for all units and at all times.
THEOREM ClockFollowsHolds == ClockFollows
<1> DEFINE Shown(wall, set, read) ==
             OS_GetLocalTime(OS_SetLocalTime(WallTime(wall), set), read)
           Error(wall, set, read) ==
             Shown(wall, set, read) * NsPerTick * TicValue
               - (wall * TicValue + (read - set)) * NsPerSec
           Bound == (NsPerMs + 2 * NsPerTick + 1) * TicValue
<1> SUFFICES ASSUME NEW wall \in WallSeconds, NEW set \in Instants, NEW read \in Instants,
                    set <= read, MaySetAt(wall, set)
             PROVE  /\ 2 * Error(wall, set, read) <= Bound
                    /\ 2 * Error(wall, set, read) >= -Bound
  BY DEF ClockFollows
<1> DEFINE tag == OS_SetLocalTime(WallTime(wall), set)
           nanos == SimTime(set, NsPerSec)
           ticks == nanos \div NsPerTick
           msecs == SimTime(read, MsPerSec)
           S == set * NsPerSec
           R == read * NsPerSec
           A == TicValue * msecs
           B == TicValue * nanos
           C == TicValue * (NsPerTick * ticks)
<1>1. wall \in Nat /\ set \in Nat /\ read \in Nat
  BY ClockAssumption DEF ClockAssumption
<1>2. nanos \in Nat /\ msecs \in Nat
  BY <1>1, UnitFacts, SimTimeFacts
<1>3. /\ 2 * A <= 2 * (read * MsPerSec) + TicValue
      /\ 2 * (read * MsPerSec) + TicValue < 2 * A + 2 * TicValue
      /\ 2 * B <= 2 * S + TicValue
      /\ 2 * S + TicValue < 2 * B + 2 * TicValue
  BY <1>1, UnitFacts, SimTimeFacts
<1>4. ticks \in Nat /\ NsPerTick * ticks <= nanos /\ nanos < NsPerTick * ticks + NsPerTick
  <2> HIDE DEF nanos
  <2>1. ticks \in Nat
    BY <1>2, UnitFacts, QuotientBounds
  <2>2. nanos \in NsPerTick * ticks .. NsPerTick * ticks + NsPerTick - 1
    <3>1. ticks \in Int
      BY <2>1
    <3> QED
      BY <1>2, <3>1, UnitFacts, RowOf
  <2> HIDE DEF ticks
  <2>3. NsPerTick * ticks \in Nat
    BY <2>1, UnitFacts
  <2> QED
    BY <1>2, <2>1, <2>2, <2>3, UnitFacts
<1>5. Shown(wall, set, read) = wall * TicksPerSec - ticks + msecs * TicksPerMs
  <2>1. PICK n \in 0..(TicksPerSec - 1) :
             /\ tag.tv_sec \in Int
             /\ tag.tv_nsec = n * NsPerTick
             /\ tag.tv_sec * TicksPerSec + n = wall * TicksPerSec - ticks
    BY <1>1, TagFacts
  <2> HIDE DEF tag
  <2>2. OS_GetLocalTime(tag, read) = tag.tv_sec * TicksPerSec + n + msecs * TicksPerMs
    BY <1>1, <2>1, ReadTime
  <2> QED
    BY <2>1, <2>2 DEF tag
<1> HIDE DEF tag, nanos, ticks, msecs
<1>6. /\ A \in Nat /\ B \in Nat /\ C \in Nat /\ S \in Nat /\ R \in Nat
      /\ A * NsPerMs \in Nat /\ TicValue * NsPerMs \in Nat /\ TicValue * NsPerTick \in Nat
  BY <1>1, <1>2, <1>4, UnitFacts
<1>7. Error(wall, set, read) = A * NsPerMs - C - R + S
  <2>1. Shown(wall, set, read) * NsPerTick
          = wall * NsPerSec - NsPerTick * ticks + msecs * NsPerMs
    <3>1. (wall * TicksPerSec) * NsPerTick = wall * NsPerSec
      BY <1>1, UnitFacts
    <3>2. (msecs * TicksPerMs) * NsPerTick = msecs * NsPerMs
      BY <1>2, UnitFacts
    <3> QED
      BY <1>1, <1>2, <1>4, <1>5, <3>1, <3>2, UnitFacts
  <2>2. (wall * NsPerSec - NsPerTick * ticks + msecs * NsPerMs) * TicValue
          = wall * TicValue * NsPerSec - C + A * NsPerMs
    BY <1>1, <1>2, <1>4, UnitFacts
  <2>3. (wall * TicValue + (read - set)) * NsPerSec
          = wall * TicValue * NsPerSec + R - S
    BY <1>1, UnitFacts
  <2>4. wall * TicValue * NsPerSec \in Nat
    BY <1>1, UnitFacts
  <2> QED
    BY <1>6, <2>1, <2>2, <2>3, <2>4
<1>8. /\ 2 * (A * NsPerMs) <= 2 * R + TicValue * NsPerMs
      /\ 2 * R <= 2 * (A * NsPerMs) + TicValue * NsPerMs
  <2> DEFINE X == read * MsPerSec
  <2>1. R = X * NsPerMs /\ X \in Nat
    BY <1>1, UnitFacts
  <2>2. 2 * A <= 2 * X + TicValue /\ 2 * X <= 2 * A + TicValue
    BY <1>1, <1>3, <1>6, UnitFacts
  <2> HIDE DEF X, A, R
  <2>3. (2 * A) * NsPerMs <= (2 * X + TicValue) * NsPerMs
        /\ (2 * X) * NsPerMs <= (2 * A + TicValue) * NsPerMs
    BY <1>6, <2>1, <2>2, UnitFacts, ProductMonotone
  <2> QED
    BY <1>6, <2>1, <2>3, UnitFacts
<1>9. C <= B /\ B <= C + TicValue * NsPerTick
  <2>1. (NsPerTick * ticks) * TicValue <= nanos * TicValue
        /\ nanos * TicValue <= (NsPerTick * ticks + NsPerTick) * TicValue
    BY <1>2, <1>4, UnitFacts, ProductMonotone
  <2> QED
    BY <1>2, <1>4, <2>1, UnitFacts
<1>10. Bound = TicValue * NsPerMs + 2 * (TicValue * NsPerTick) + TicValue
  BY UnitFacts
<1> HIDE DEF A, B, C, S, R, Bound, Error
<1> QED
  BY <1>3, <1>6, <1>7, <1>8, <1>9, <1>10, UnitFacts
==============================================================================
