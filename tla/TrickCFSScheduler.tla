-------------------------- MODULE TrickCFSScheduler --------------------------
(***************************************************************************)
(* The scheduler for the full SCH app: a second of simulated time is       *)
(* divided into slots, each with a few entries that say in which seconds   *)
(* they are to be sent.  The slot comes from the time of Trick, the tables *)
(* come from files that are validated when they are loaded.                *)
(***************************************************************************)
EXTENDS Integers

CONSTANTS
  SCH_TOTAL_SLOTS, SCH_ENTRIES_PER_SLOT, SCH_MAX_MESSAGES,
  SCH_MICROS_PER_MAJOR_FRAME,  \* tics in a second: 1000000 in the code
  ScheduleFiles, MessageFiles, \* what the files of the tables may hold
  StartTimes,                  \* the times, in tics, at which updateCFS may start
  MaxCalls                     \* bound: triggers by the main thread

SCH_UNUSED == 0
SCH_ENABLED == 1
SCH_DISABLED == 2
SCH_ACTIVITY_SEND_MSG == 1

SCH_NORMAL_SLOT_PERIOD == SCH_MICROS_PER_MAJOR_FRAME \div SCH_TOTAL_SLOTS

Indexes == 0 .. SCH_TOTAL_SLOTS * SCH_ENTRIES_PER_SLOT - 1
ScheduleEntry == [EnableState : Nat, Frequency : Nat, Remainder : Nat, Type : Nat,
                  MessageIndex : Nat]

\* A message: no id, an id of cFE's or another one; whether its buffer is all
\* zeroes; whether its payload fits.
MessageEntry == [mid : {"unused", "valid", "bad"}, zero : BOOLEAN, fits : BOOLEAN]

\* The slots divide the second, as the 100 of SCH do; a slot is longer than the
\* microsecond that updateTimeTics rounds by.
ASSUME SlotsAssumption ==
  /\ SCH_TOTAL_SLOTS \in Nat \ {0}
  /\ SCH_ENTRIES_PER_SLOT \in Nat \ {0}
  /\ SCH_MAX_MESSAGES \in Nat \ {0}
  /\ MaxCalls \in Nat
  /\ StartTimes \subseteq Nat
  /\ SCH_NORMAL_SLOT_PERIOD \in Nat \ {0, 1}
  /\ SCH_MICROS_PER_MAJOR_FRAME = SCH_NORMAL_SLOT_PERIOD * SCH_TOTAL_SLOTS
  /\ ScheduleFiles \subseteq [Indexes -> ScheduleEntry]
  /\ MessageFiles \subseteq [0 .. SCH_MAX_MESSAGES - 1 -> MessageEntry]

VARIABLES
  scheduleTable, messageTable,
  simTimeSecs, nextSlotNumber,
  EntryNumber,   \* the entry of the slot that is looked at next
  pc,            \* where the task of the scheduler is
  start,         \* the time of the first trigger, which the simulation is set up with
  calls,         \* history: triggers so far, one per slot of time from start on
  marked,        \* history: entries of this slot whose pipes were marked as triggered
  sent, failed   \* history: entries sent, and the one given up at, in this slot

vars == <<scheduleTable, messageTable, simTimeSecs, nextSlotNumber, EntryNumber, pc,
          start, calls, marked, sent, failed>>

NoEntry == -1
Unused == [EnableState |-> SCH_UNUSED, Frequency |-> SCH_UNUSED, Remainder |-> SCH_UNUSED,
           Type |-> SCH_UNUSED, MessageIndex |-> SCH_UNUSED]
UnusedMessage == [mid |-> "unused", zero |-> TRUE, fits |-> TRUE]

Init ==
  /\ scheduleTable = [x \in Indexes |-> Unused]
  /\ messageTable = [n \in 0 .. SCH_MAX_MESSAGES - 1 |-> UnusedMessage]
  /\ simTimeSecs = -1
  /\ nextSlotNumber = 0
  /\ EntryNumber = 0
  /\ pc = "init"
  /\ start \in StartTimes
  /\ calls = 0
  /\ marked = {}
  /\ sent = {}
  /\ failed = NoEntry

(***************************************************************************)
(* The tables                                                              *)
(***************************************************************************)

\* Variant: a remainder equal to the frequency is let through.
BadRemainderAbove(e) == e.Remainder > e.Frequency
BadRemainder(e) == e.Remainder >= e.Frequency

IsUsed(e) == e.EnableState \in {SCH_ENABLED, SCH_DISABLED}

\* validateScheduleData accepts an entry; which error it reports changes nothing.
ValidEntry(e) ==
  \/ e = Unused
  \/ /\ IsUsed(e)
     /\ e.Frequency # SCH_UNUSED
     /\ ~BadRemainder(e)
     /\ e.Type = SCH_ACTIVITY_SEND_MSG
     /\ e.MessageIndex \in 1 .. SCH_MAX_MESSAGES - 1

\* validateMessageData accepts a message.
ValidMessage(msg) ==
  \/ msg.mid = "unused" /\ msg.zero
  \/ msg.mid = "valid" /\ msg.fits

ValidTables(schedule, messages) ==
  /\ \A x \in Indexes : ValidEntry(schedule[x])
  /\ \A n \in DOMAIN messages : ValidMessage(messages[n])

\* The tables are validated one by one, not against each other.
InitTables(schedule, messages) ==
  /\ ValidTables(schedule, messages)
  /\ scheduleTable' = schedule
  /\ messageTable' = messages
  /\ pc' = "wait"
  /\ UNCHANGED <<simTimeSecs, nextSlotNumber, EntryNumber, start, calls, marked, sent,
                 failed>>

LoadTables ==
  /\ pc = "init"
  /\ \E schedule \in ScheduleFiles, messages \in MessageFiles : InitTables(schedule, messages)

\* A call of cFE fails, a rejected table among them: the simulation terminates.
InitFails ==
  /\ pc = "init"
  /\ pc' = "terminated"
  /\ UNCHANGED <<scheduleTable, messageTable, simTimeSecs, nextSlotNumber, EntryNumber,
                 start, calls, marked, sent, failed>>

(***************************************************************************)
(* The main loop                                                           *)
(***************************************************************************)

\* Variant: the slot after the last one, whatever the time.
FollowingSlot(simTimeMicros) == nextSlotNumber
\* Variant: the slot that has begun, however soon the next one begins.
SlotBegun(simTimeMicros) == simTimeMicros \div SCH_NORMAL_SLOT_PERIOD
\* The slot of a time within the second, or the next one if that begins with the
\* next microsecond.
SlotAt(simTimeMicros) ==
  LET schSlot == simTimeMicros \div SCH_NORMAL_SLOT_PERIOD
      Remainder == (simTimeMicros - schSlot * SCH_NORMAL_SLOT_PERIOD) + 1
      rounded == schSlot + (Remainder \div SCH_NORMAL_SLOT_PERIOD)
  IN  IF rounded = SCH_TOTAL_SLOTS THEN 0 ELSE rounded

\* updateCFS triggers once per slot, from the time on that its job starts at, which
\* need not be that of a slot; updateTimeTics takes the second from the clock as it is,
\* when the slot is rounded up and rolls over too.
Trigger ==
  LET tics == start + calls * SCH_NORMAL_SLOT_PERIOD IN
  /\ pc = "wait"
  /\ calls < MaxCalls
  /\ calls' = calls + 1
  /\ simTimeSecs' = tics \div SCH_MICROS_PER_MAJOR_FRAME
  /\ nextSlotNumber' = SlotAt(tics % SCH_MICROS_PER_MAJOR_FRAME)
  /\ EntryNumber' = 0
  /\ marked' = {}
  /\ sent' = {}
  /\ failed' = NoEntry
  /\ pc' = "slot"
  /\ UNCHANGED <<scheduleTable, messageTable, start>>

SlotIndex == nextSlotNumber * SCH_ENTRIES_PER_SLOT + EntryNumber
NextEntry == scheduleTable[SlotIndex]

IsCorrupt(e) ==
  \/ e.MessageIndex >= SCH_MAX_MESSAGES
  \/ e.Frequency = SCH_UNUSED
  \/ e.Type # SCH_ACTIVITY_SEND_MSG
  \/ e.Remainder >= e.Frequency

IsDue(e) == e.EnableState = SCH_ENABLED /\ simTimeSecs % e.Frequency = e.Remainder

AtEntry == pc = "slot" /\ EntryNumber < SCH_ENTRIES_PER_SLOT
MessageOf(e) == messageTable[e.MessageIndex]

\* CFE_SB_LockSharedData: the pipes subscribed to the message are marked, which
\* a message with no id has none of.
MarkPipes ==
  marked' = IF MessageOf(NextEntry).mid = "valid" THEN marked \union {SlotIndex} ELSE marked

\* Variant: the pipes are marked before the look at the second.
SkipEntryMarking ==
  /\ AtEntry
  /\ NextEntry.EnableState = SCH_ENABLED => ~IsCorrupt(NextEntry) /\ ~IsDue(NextEntry)
  /\ MarkPipes
  /\ EntryNumber' = EntryNumber + 1
  /\ UNCHANGED <<scheduleTable, messageTable, simTimeSecs, nextSlotNumber, pc,
                 start, calls, sent, failed>>

\* processNextEntry: nothing is to be sent.
SkipEntry ==
  /\ AtEntry
  /\ NextEntry.EnableState = SCH_ENABLED => ~IsCorrupt(NextEntry) /\ ~IsDue(NextEntry)
  /\ EntryNumber' = EntryNumber + 1
  /\ UNCHANGED <<scheduleTable, messageTable, simTimeSecs, nextSlotNumber, pc,
                 start, calls, marked, sent, failed>>

\* processNextEntry: the bus takes the message.
SendEntry ==
  /\ AtEntry
  /\ ~IsCorrupt(NextEntry) /\ IsDue(NextEntry)
  /\ MessageOf(NextEntry).mid = "valid"
  /\ MarkPipes
  /\ sent' = sent \union {SlotIndex}
  /\ EntryNumber' = EntryNumber + 1
  /\ UNCHANGED <<scheduleTable, messageTable, simTimeSecs, nextSlotNumber, pc,
                 start, calls, failed>>

\* processNextEntry: a corrupt entry is disabled; or the bus refuses the message, as
\* it may any and does one that has no id.  Either way the rest of the slot is left,
\* and nextSlotNumber as it is.  The true that is returned reads as
\* CFE_ES_RunStatus_APP_RUN, so the loop goes on.
GiveUpEntry ==
  /\ AtEntry
  /\ NextEntry.EnableState = SCH_ENABLED
  /\ \/ /\ IsCorrupt(NextEntry)
        /\ scheduleTable' = [scheduleTable EXCEPT ![SlotIndex].EnableState = SCH_DISABLED]
        /\ UNCHANGED marked
     \/ /\ ~IsCorrupt(NextEntry) /\ IsDue(NextEntry)
        /\ MarkPipes
        /\ UNCHANGED scheduleTable
  /\ failed' = SlotIndex
  /\ pc' = "wait"
  /\ UNCHANGED <<messageTable, simTimeSecs, nextSlotNumber, EntryNumber, start, calls, sent>>

EndSlot ==
  /\ pc = "slot"
  /\ EntryNumber = SCH_ENTRIES_PER_SLOT
  /\ nextSlotNumber' = nextSlotNumber + 1
  /\ pc' = "wait"
  /\ UNCHANGED <<scheduleTable, messageTable, simTimeSecs, EntryNumber, start, calls, marked, sent,
                 failed>>

\* CFE_ES_RunLoop tells the app to end: the status is not 0, and the simulation
\* is terminated.
EndLoop ==
  /\ pc = "wait"
  /\ pc' = "terminated"
  /\ UNCHANGED <<scheduleTable, messageTable, simTimeSecs, nextSlotNumber, EntryNumber,
                 start, calls, marked, sent, failed>>

Next ==
  \/ LoadTables
  \/ InitFails
  \/ Trigger
  \/ SkipEntry
  \/ SendEntry
  \/ GiveUpEntry
  \/ EndSlot
  \/ EndLoop

Spec == Init /\ [][Next]_vars

(***************************************************************************)
(* Properties                                                              *)
(***************************************************************************)

\* Types, with the bound that keeps processNextSlot inside scheduleTable: while a
\* slot is worked on, its number is one of a slot.  processNextSlot counts
\* nextSlotNumber up to SCH_TOTAL_SLOTS and relies on updateTimeTics to come back.
TypeOK ==
  /\ scheduleTable \in [Indexes -> ScheduleEntry]
  /\ messageTable \in [0 .. SCH_MAX_MESSAGES - 1 -> MessageEntry]
  /\ simTimeSecs \in Nat \union {-1}
  /\ nextSlotNumber \in 0 .. SCH_TOTAL_SLOTS
  /\ EntryNumber \in 0 .. SCH_ENTRIES_PER_SLOT
  /\ pc \in {"init", "wait", "slot", "terminated"}
  /\ pc = "slot" => nextSlotNumber < SCH_TOTAL_SLOTS /\ simTimeSecs \in Nat
  /\ start \in StartTimes
  /\ calls \in 0 .. MaxCalls
  /\ marked \subseteq Indexes
  /\ sent \subseteq Indexes
  /\ failed \in Indexes \union {NoEntry}

\* The entries due at the last call: its slot is counted by calls, from the one
\* that has begun, or is to begin a microsecond later, at the first; its second is the
\* one that the clock of Trick shows.
DueNow ==
  LET slot == ((start + 1) \div SCH_NORMAL_SLOT_PERIOD + calls - 1) % SCH_TOTAL_SLOTS
      second == (start + (calls - 1) * SCH_NORMAL_SLOT_PERIOD)
                  \div SCH_MICROS_PER_MAJOR_FRAME
  IN  {x \in Indexes :
         /\ x \div SCH_ENTRIES_PER_SLOT = slot
         /\ scheduleTable[x].EnableState = SCH_ENABLED
         /\ second % scheduleTable[x].Frequency = scheduleTable[x].Remainder}

\* After each call the entries sent are the ones due in this slot of this second,
\* up to the one, if any, whose message was refused: no slot is left out or repeated
\* while they go round and the seconds count up, at whatever time within a slot
\* updateTimeTics is called, the last microsecond of a slot and of a second included.
SlotsOnTime ==
  pc = "wait" /\ calls > 0 =>
    /\ failed # NoEntry => failed \in DueNow
    /\ sent = {x \in DueNow : failed # NoEntry => x < failed}

\* A pipe is marked as triggered, so that the main thread waits for its task, only
\* for a message that has been sent or for the one the slot was given up at.
MarkedOrGivenUp == sent \subseteq marked /\ marked \subseteq sent \union {failed}

\* What validateScheduleData accepts never reaches the branch for corrupt data of
\* processNextEntry, whose comment says that data was verified at table load: no
\* step after initTables changes the table.
NeverCorrupt == [][pc # "init" => UNCHANGED scheduleTable]_vars
==============================================================================
