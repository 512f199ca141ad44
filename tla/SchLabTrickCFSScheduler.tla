----------------------- MODULE SchLabTrickCFSScheduler -----------------------
(***************************************************************************)
(* The schedule table of SCH_LAB inside a Trick simulation.  The input     *)
(* file adds commands (addScheduledCmd), the task of SCH_trick sets the    *)
(* table up once from the table of the mission and those commands          *)
(* (initTables) and then walks it once per minor frame                     *)
(* (processScheduleTable).                                                 *)
(***************************************************************************)
EXTENDS Integers, Sequences, FiniteSets

CONSTANTS
  MaxEntries,    \* SCH_LAB_MAX_SCHEDULE_ENTRIES
  Mids,          \* message ids of commands
  InvalidMid,    \* CFE_SB_INVALID_MSG_ID, what the memory is cleared to
  Second,        \* a second in the unit of PacketRates: 1000000 in the code
  Tables,        \* tables of missions: [TickRate, Config]
  CmdMicros,     \* intervals of user commands, in parts of Second
  MaxCommands,   \* bound: calls of addScheduledCmd
  MaxFrames      \* bound: calls of processScheduleTable

Entries == 1 .. MaxEntries
ConfigEntries == [MsgId : Mids \union {InvalidMid}, PacketRate : Nat]

\* An unused entry of a table has the rate 0, a used one a message.  A rate of
\* ticks above Second would leave a frame of no length, see README.
ASSUME SchLabAssumption ==
  /\ MaxEntries \in Nat
  /\ InvalidMid \notin Mids
  /\ Second \in Nat \ {0}
  /\ CmdMicros \subseteq Nat
  /\ Tables \subseteq [TickRate : 0 .. Second, Config : [Entries -> ConfigEntries]]
  /\ \A t \in Tables : \A x \in Entries :
       t.Config[x].PacketRate # 0 => t.Config[x].MsgId \in Mids

VARIABLES
  State,              \* the live table: MsgId, PacketRate, Counter
  userAddedCmds,      \* commands of the input file, in order
  schedRateInMicros,  \* length of a minor frame
  ConfigTable,        \* the table loaded from the file, history once released
  userEntryIdx,       \* user commands already placed
  pc,                 \* where the task of the scheduler is
  i,                  \* entry that processScheduleTable looks at
  frame, sent         \* history: passes begun, entries this pass has sent

vars == <<State, userAddedCmds, schedRateInMicros, ConfigTable, userEntryIdx,
          pc, i, frame, sent>>

NoTable == [TickRate |-> 0,
            Config |-> [x \in Entries |-> [MsgId |-> InvalidMid, PacketRate |-> 0]]]

Init ==
  /\ State = [x \in Entries |->
                [MsgId |-> InvalidMid, PacketRate |-> 0, Counter |-> 0]]
  /\ userAddedCmds = <<>>
  /\ schedRateInMicros = 0
  /\ ConfigTable = NoTable
  /\ userEntryIdx = 0
  /\ pc = "input"
  /\ i = 0
  /\ frame = 0
  /\ sent = {}

(***************************************************************************)
(* The input file, before the apps start; and input events later, when the *)
(* task of the scheduler waits for its next frame.                         *)
(***************************************************************************)
addScheduledCmd(mid, micros) ==
  /\ pc \in {"input", "ready"}
  /\ Len(userAddedCmds) < MaxCommands
  /\ userAddedCmds' = Append(userAddedCmds, [MsgId |-> mid, PacketRate |-> micros])
  /\ UNCHANGED <<State, schedRateInMicros, ConfigTable, userEntryIdx, pc, i,
                 frame, sent>>

(***************************************************************************)
(* initTables                                                              *)
(***************************************************************************)

\* Registering or loading the table, or getting its address, fails.
InitTablesFails ==
  /\ pc = "input"
  /\ pc' = "failed"
  /\ UNCHANGED <<State, userAddedCmds, schedRateInMicros, ConfigTable,
                 userEntryIdx, i, frame, sent>>

TimerPeriod(tickRate) == IF tickRate = 0 THEN Second ELSE Second \div tickRate

\* Used entries of the table are copied; the others keep what they hold.
LoadTables(table) ==
  /\ pc = "input"
  /\ ConfigTable' = table
  /\ State' = [x \in Entries |->
       IF table.Config[x].PacketRate = 0 THEN State[x]
       ELSE [State[x] EXCEPT !.MsgId = table.Config[x].MsgId,
                             !.PacketRate = table.Config[x].PacketRate]]
  /\ schedRateInMicros' = TimerPeriod(table.TickRate)
  /\ pc' = "placing"
  /\ UNCHANGED <<userAddedCmds, userEntryIdx, i, frame, sent>>

\* Variant: an entry without a rate is free.
IsFreeByRate(x) == State[x].PacketRate = 0
IsFree(x) == State[x].PacketRate = 0 /\ State[x].MsgId = InvalidMid
IsFirstFree(x) == IsFree(x) /\ \A y \in 1 .. x - 1 : ~IsFree(y)

PlaceCommand(x) ==
  LET newEntry == userAddedCmds[userEntryIdx + 1] IN
  /\ pc = "placing"
  /\ userEntryIdx < Len(userAddedCmds)
  /\ IsFirstFree(x)
  /\ State' = [State EXCEPT ![x] =
       [MsgId |-> newEntry.MsgId,
        PacketRate |-> newEntry.PacketRate \div schedRateInMicros,
        Counter |-> 0]]
  /\ userEntryIdx' = userEntryIdx + 1
  /\ UNCHANGED <<userAddedCmds, schedRateInMicros, ConfigTable, pc, i, frame, sent>>

\* With no entry left the command is dropped.
DropCommand ==
  /\ pc = "placing"
  /\ userEntryIdx < Len(userAddedCmds)
  /\ \A x \in Entries : ~IsFree(x)
  /\ userEntryIdx' = userEntryIdx + 1
  /\ UNCHANGED <<State, userAddedCmds, schedRateInMicros, ConfigTable, pc, i,
                 frame, sent>>

TablesReady ==
  /\ pc = "placing"
  /\ userEntryIdx = Len(userAddedCmds)
  /\ pc' = "ready"
  /\ UNCHANGED <<State, userAddedCmds, schedRateInMicros, ConfigTable,
                 userEntryIdx, i, frame, sent>>

(***************************************************************************)
(* processScheduleTable                                                    *)
(***************************************************************************)
BeginPass ==
  /\ pc = "ready"
  /\ frame < MaxFrames
  /\ frame' = frame + 1
  /\ sent' = {}
  /\ i' = 1
  /\ pc' = "pass"
  /\ UNCHANGED <<State, userAddedCmds, schedRateInMicros, ConfigTable, userEntryIdx>>

\* Variant: the counter has to pass the rate.
SendsLate(e) == e.PacketRate # 0 /\ e.Counter + 1 > e.PacketRate
Sends(e) == e.PacketRate # 0 /\ e.Counter + 1 >= e.PacketRate

\* Variant: the counter of an entry that is sent runs on.
CountedNoReset(e) ==
  IF e.PacketRate = 0 THEN e ELSE [e EXCEPT !.Counter = @ + 1]

Counted(e) ==
  IF e.PacketRate = 0 THEN e
  ELSE [e EXCEPT !.Counter = IF Sends(e) THEN 0 ELSE @ + 1]

Turn ==
  /\ pc = "pass"
  /\ i \in Entries
  /\ State' = [State EXCEPT ![i] = Counted(@)]
  /\ sent' = IF Sends(State[i]) THEN sent \union {i} ELSE sent
  /\ i' = i + 1
  /\ UNCHANGED <<userAddedCmds, schedRateInMicros, ConfigTable, userEntryIdx, pc,
                 frame>>

EndPass ==
  /\ pc = "pass"
  /\ i \notin Entries
  /\ pc' = "ready"
  /\ UNCHANGED <<State, userAddedCmds, schedRateInMicros, ConfigTable,
                 userEntryIdx, i, frame, sent>>

Next ==
  \/ \E mid \in Mids, micros \in CmdMicros : addScheduledCmd(mid, micros)
  \/ InitTablesFails
  \/ \E table \in Tables : LoadTables(table)
  \/ \E x \in Entries : PlaceCommand(x)
  \/ DropCommand
  \/ TablesReady
  \/ BeginPass
  \/ Turn
  \/ EndPass

Spec == Init /\ [][Next]_vars

(***************************************************************************)
(* Properties                                                              *)
(***************************************************************************)

\* Types, and the counters of the live table below their rates.
TypeOK ==
  /\ State \in [Entries -> [MsgId : Mids \union {InvalidMid}, PacketRate : Nat,
                            Counter : Nat]]
  /\ \A x \in Entries : \/ State[x].Counter = 0
                        \/ State[x].Counter < State[x].PacketRate
  /\ userAddedCmds \in Seq([MsgId : Mids, PacketRate : CmdMicros])
  /\ schedRateInMicros \in 0 .. Second
  /\ pc \notin {"input", "failed"} => schedRateInMicros # 0
  /\ ConfigTable \in Tables \union {NoTable}
  /\ userEntryIdx \in 0 .. Len(userAddedCmds)
  /\ pc \in {"input", "placing", "ready", "pass", "failed"}
  /\ i \in 0 .. MaxEntries + 1
  /\ pc = "pass" => i # 0
  /\ frame \in Nat
  /\ sent \subseteq Entries

\* The invariant behind the timetable: nothing is counted before the first
\* frame; from then on a counter is the number of the frame that its entry took
\* part in last, modulo the rate; and a pass has sent the due entries so far.
QuietBefore == pc \notin {"ready", "pass"} =>
  frame = 0 /\ \A x \in Entries : State[x].Counter = 0

LastTurn(x) == IF pc = "pass" /\ x >= i THEN frame - 1 ELSE frame

CountersInStep ==
  /\ pc = "pass" => frame # 0
  /\ \A x \in Entries : State[x].PacketRate # 0 =>
       State[x].Counter = LastTurn(x) % State[x].PacketRate

(***************************************************************************)
(* What initTables makes of the two sources of commands: no command of the *)
(* user takes an entry of the mission's table or one of an earlier command *)
(* (not even of one whose interval is too short to be counted in frames),  *)
(* the j-th command holds the j-th unused entry with its interval rounded  *)
(* down to whole frames, and commands that arrive later change nothing.    *)
(***************************************************************************)
CommandsPlaced == pc \in {"ready", "pass"} =>
  \A x \in Entries :
    LET configured == ConfigTable.Config[x]
        Unused == {y \in 1 .. x : ConfigTable.Config[y].PacketRate = 0}
        rate == State[x].PacketRate
    IN  IF configured.PacketRate # 0
        THEN State[x].MsgId = configured.MsgId /\ rate = configured.PacketRate
        ELSE IF Cardinality(Unused) <= userEntryIdx
        THEN LET cmd == userAddedCmds[Cardinality(Unused)]
             IN  /\ State[x].MsgId = cmd.MsgId
                 /\ rate * schedRateInMicros <= cmd.PacketRate
                 /\ cmd.PacketRate < (rate + 1) * schedRateInMicros
        ELSE State[x].MsgId = InvalidMid /\ rate = 0

TT == INSTANCE PeriodicTimetable WITH
  period <- [x \in Entries |-> State[x].PacketRate],
  running <- pc \in {"ready", "pass"},
  sending <- pc = "pass"

SentSoFar == pc = "pass" => sent = {x \in TT!Due : x < i}

\* The counters of the entries keep the promise of a periodic timetable: frame
\* n sends the entries whose rate divides n, from the first frame on, in order
\* and once each, whatever the entries' rates and however many frames go by.
ImplementsTimetable == TT!Spec
==============================================================================
