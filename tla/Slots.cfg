\* Six seconds of two slots: the least common multiple of the frequencies.
SPECIFICATION Spec
CONSTANTS
  SCH_TOTAL_SLOTS = 2
  SCH_ENTRIES_PER_SLOT = 2
  SCH_MAX_MESSAGES = 3
  SCH_MICROS_PER_MAJOR_FRAME = 10
  ScheduleFiles <- MCScheduleFiles
  MessageFiles <- MCMessageFiles
  \* on the slot, in the last microsecond that is not rounded up, and in the next
  StartTimes = {0, 3, 4}
  MaxCalls = 12
\* The task ends when cFE tells it to; and MaxCalls bounds the run.
CHECK_DEADLOCK FALSE
INVARIANTS TypeOK SlotsOnTime MarkedOrGivenUp
PROPERTIES NeverCorrupt
