------------------------------ MODULE OSALClock ------------------------------
(***************************************************************************)
(* The local time of OSAL in a simulation: a tag, set once from the wall   *)
(* clock, to which the simulated time is added.  OS_time_t counts ticks    *)
(* (external: 100 ns each), Trick counts tics; the conversion goes through *)
(* milliseconds when the time is read and through nanoseconds when it is   *)
(* set.                                                                    *)
(***************************************************************************)
EXTENDS Integers

CONSTANTS
  TicValue,    \* exec_get_time_tic_value: tics of Trick in a second
  MsPerSec,    \* milliseconds in a second
  NsPerMs,     \* nanoseconds in a millisecond
  NsPerTick,   \* nanoseconds in a tick of OS_time_t
  NanosWidth,  \* the nanoseconds passed to OS_TimeAssembleFromNanoseconds wrap here
  Instants,    \* times (in tics) at which the local time is set or read
  WallSeconds  \* what the wall clock shows

NsPerSec == MsPerSec * NsPerMs
TicksPerMs == NsPerMs \div NsPerTick
TicksPerSec == MsPerSec * TicksPerMs

ASSUME ClockAssumption ==
  /\ TicValue \in Nat \ {0}
  /\ MsPerSec \in Nat \ {0}
  /\ NsPerMs \in Nat \ {0}
  /\ NsPerTick \in Nat \ {0}
  /\ NsPerMs = TicksPerMs * NsPerTick
  /\ NanosWidth \in Nat
  /\ NsPerSec <= NanosWidth
  /\ Instants \subseteq Nat
  /\ WallSeconds \subseteq Nat

OS_TimeAssembleFromNanoseconds(sec, nsec) ==
  sec * TicksPerSec + (nsec % NanosWidth) \div NsPerTick

\* Variant: cut off.
TruncatedSimTime(tics, perSec) == (tics * perSec) \div TicValue
\* The simulated time in units of which a second has perSec, rounded.
SimTime(tics, perSec) == (2 * (tics * perSec) + TicValue) \div (2 * TicValue)

\* OS_SetLocalTime, for a time that is not before the start of the simulation.
OS_SetLocalTime(time, tics) ==
  LET initTime == time - OS_TimeAssembleFromNanoseconds(0, SimTime(tics, NsPerSec)) IN
  [tv_sec |-> initTime \div TicksPerSec, tv_nsec |-> (initTime % TicksPerSec) * NsPerTick]

\* Variant: a second's worth of nanoseconds is taken off, and not counted.
ReadLosingCarry(tag, tics) ==
  LET msecs == SimTime(tics, MsPerSec)
      nsec == tag.tv_nsec + (msecs % MsPerSec) * NsPerMs
  IN OS_TimeAssembleFromNanoseconds(tag.tv_sec + msecs \div MsPerSec,
                                    IF nsec >= NsPerSec THEN nsec - NsPerSec ELSE nsec)
OS_GetLocalTime(tag, tics) ==
  LET msecs == SimTime(tics, MsPerSec)
      sec == tag.tv_sec + msecs \div MsPerSec
      nsec == tag.tv_nsec + (msecs % MsPerSec) * NsPerMs
  IN IF nsec >= NsPerSec
     THEN OS_TimeAssembleFromNanoseconds(sec + 1, nsec - NsPerSec)
     ELSE OS_TimeAssembleFromNanoseconds(sec, nsec)

\* psp_main_wrapper: the tag is a whole second of the wall clock.
WallTime(wall) == OS_TimeAssembleFromNanoseconds(wall, 0)

\* The nanoseconds of simulated time fit their 32 bits and the tag is not negative.
MaySetAt(wall, tics) ==
  /\ SimTime(tics, NsPerSec) < NanosWidth
  /\ SimTime(tics, NsPerSec) <= wall * NsPerSec

\* Set to the wall clock at one moment of simulated time and read at a later one,
\* the local time has advanced by the simulated time between, up to the half
\* millisecond the reading is rounded by and the tick the setting cuts off.
ClockFollows ==
  \A wall \in WallSeconds, set, read \in Instants :
    set <= read /\ MaySetAt(wall, set) =>
      LET shown == OS_GetLocalTime(OS_SetLocalTime(WallTime(wall), set), read)
          error == shown * NsPerTick * TicValue
                     - (wall * TicValue + (read - set)) * NsPerSec
          bound == (NsPerMs + 2 * NsPerTick + 1) * TicValue
      IN 2 * error <= bound /\ 2 * error >= -bound

\* The local time never goes back while simulated time goes on, across the carry
\* from nanoseconds to seconds.
ClockMonotone ==
  \A wall \in WallSeconds, set, read, later \in Instants :
    MaySetAt(wall, set) /\ read <= later =>
      LET tag == OS_SetLocalTime(WallTime(wall), set)
      IN OS_GetLocalTime(tag, read) <= OS_GetLocalTime(tag, later)
==============================================================================
